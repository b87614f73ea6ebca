---------------------------- MODULE DaemonProofs ----------------------------
(***************************************************************************)
(* Proofs about Intake, RunLoop and Notifications: the way of an           *)
(* observation through the daemon, for any devices, any capacities of its  *)
(* channels and any settings of the notifier.                              *)
(***************************************************************************)
EXTENDS MCDaemon, FiniteSetTheorems, TLAPS

-----------------------------------------------------------------------------
(***************************************************************************)
(* Notifications: what the helpers do to the ids of events.                *)
(***************************************************************************)

Distinct(events) ==
  \A i, j \in DOMAIN events : events[i].id = events[j].id => i = j

\* No event is in two batches.
BatchesApart(batches) ==
  \A i, j \in DOMAIN batches : i # j => Ids(batches[i]) \cap Ids(batches[j]) = {}

IdsOf(batches) == UNION {Ids(batches[i]) : i \in DOMAIN batches}

LEMMA IdsAre ==
  ASSUME NEW events, NEW x
  PROVE  x \in Ids(events) <=> \E i \in DOMAIN events : events[i].id = x
BY DEF Ids, ToSet

\* One event more.
LEMMA IdsOfAppend ==
  ASSUME NEW events \in Seq(Events), NEW e \in Events
  PROVE  /\ Append(events, e) \in Seq(Events)
         /\ Ids(Append(events, e)) = Ids(events) \cup {e.id}
         /\ Distinct(events) /\ e.id \notin Ids(events) => Distinct(Append(events, e))
<1> DEFINE longer == Append(events, e)
<1>1. /\ longer \in Seq(Events) /\ DOMAIN longer = 1 .. Len(events) + 1
      /\ DOMAIN events = 1 .. Len(events) /\ Len(events) \in Nat
      /\ \A i \in DOMAIN events : longer[i] = events[i]
      /\ longer[Len(events) + 1] = e
  OBVIOUS
<1> HIDE DEF longer
<1>2. ASSUME NEW x PROVE x \in Ids(longer) <=> x \in Ids(events) \cup {e.id}
  <2>1. (\E i \in DOMAIN longer : longer[i].id = x)
          <=> (\E i \in DOMAIN events : events[i].id = x) \/ e.id = x
    BY <1>1
  <2> QED
    BY <2>1, IdsAre
<1>3. ASSUME Distinct(events), e.id \notin Ids(events) PROVE Distinct(longer)
  <2>1. \A i \in DOMAIN events : events[i].id # e.id
    BY <1>3, IdsAre
  <2> QED
    BY <1>1, <1>3, <2>1 DEF Distinct
<1> QED
  BY <1>1, <1>2, <1>3 DEF longer

\* One event less.
LEMMA IdsOfTail ==
  ASSUME NEW events \in Seq(Events), events # <<>>
  PROVE  /\ Head(events) \in Events /\ Tail(events) \in Seq(Events)
         /\ Ids(events) = {Head(events).id} \cup Ids(Tail(events))
         /\ Distinct(events) => Distinct(Tail(events)) /\ Head(events).id \notin Ids(Tail(events))
<1> DEFINE shorter == Tail(events)
<1>1. /\ shorter \in Seq(Events) /\ Len(events) \in Nat \ {0}
      /\ DOMAIN events = 1 .. Len(events) /\ DOMAIN shorter = 1 .. Len(events) - 1
      /\ \A i \in DOMAIN shorter : shorter[i] = events[i + 1]
      /\ Head(events) = events[1] /\ Head(events) \in Events
  OBVIOUS
<1> HIDE DEF shorter
<1>2. ASSUME NEW x PROVE x \in Ids(events) <=> x \in {Head(events).id} \cup Ids(shorter)
  <2>1. ASSUME NEW i \in DOMAIN events, events[i].id = x
        PROVE  events[1].id = x \/ \E j \in DOMAIN shorter : shorter[j].id = x
    <3>1. i # 1 => i - 1 \in DOMAIN shorter /\ shorter[i - 1] = events[i]
      BY <1>1
    <3> QED
      BY <2>1, <3>1
  <2>2. ASSUME NEW i \in DOMAIN shorter, shorter[i].id = x
        PROVE  \E j \in DOMAIN events : events[j].id = x
    BY <1>1, <2>2
  <2>3. 1 \in DOMAIN events
    BY <1>1
  <2> QED
    BY <1>1, <2>1, <2>2, <2>3, IdsAre
<1>3. ASSUME Distinct(events) PROVE Distinct(shorter) /\ Head(events).id \notin Ids(shorter)
  <2>1. \A i \in DOMAIN shorter : i + 1 \in DOMAIN events /\ i + 1 # 1
    BY <1>1
  <2>2. \A i \in DOMAIN shorter : shorter[i].id # events[1].id
    BY <1>1, <1>3, <2>1 DEF Distinct
  <2>3. Distinct(shorter)
    BY <1>1, <1>3, <2>1 DEF Distinct
  <2> QED
    BY <1>1, <2>2, <2>3, IdsAre
<1> QED
  BY <1>1, <1>2, <1>3 DEF shorter

LEMMA IdsOfNone == Ids(<<>>) = {} /\ Distinct(<<>>) /\ IdsOf(<<>>) = {} /\ BatchesApart(<<>>)
BY IdsAre DEF Distinct, IdsOf, BatchesApart

LEMMA IdsOfOne ==
  ASSUME NEW e \in Events PROVE <<e>> \in Seq(Events) /\ Ids(<<e>>) = {e.id}
BY IdsAre

\* What a drain hands over is what was held, each event in one batch.
LEMMA DrainedIsAll ==
  ASSUME NEW events \in Seq(Events), Distinct(events)
  PROVE  /\ Drained(events) \in Seq(Seq(Events))
         /\ IdsOf(Drained(events)) = Ids(events)
         /\ BatchesApart(Drained(events))
<1>1. DOMAIN events = 1 .. Len(events) /\ Len(events) \in Nat
      /\ \A i \in DOMAIN events : events[i] \in Events
  OBVIOUS
<1>2. CASE Drained(events) = <<events>>
  <2> DEFINE batches == <<events>>
  <2>1. batches \in Seq(Seq(Events)) /\ DOMAIN batches = {1} /\ batches[1] = events
    OBVIOUS
  <2> HIDE DEF batches
  <2>2. IdsOf(batches) = Ids(events) /\ BatchesApart(batches)
    BY <2>1 DEF IdsOf, BatchesApart
  <2> QED
    BY <1>2, <2>1, <2>2 DEF batches
<1>3. CASE Drained(events) = [i \in DOMAIN events |-> <<events[i]>>]
  <2> DEFINE batches == [i \in DOMAIN events |-> <<events[i]>>]
  <2>1. DOMAIN batches = DOMAIN events /\ \A i \in DOMAIN events : batches[i] = <<events[i]>>
    OBVIOUS
  <2> HIDE DEF batches
  <2>2. \A i \in DOMAIN events : batches[i] \in Seq(Events) /\ Ids(batches[i]) = {events[i].id}
    BY <1>1, <2>1, IdsOfOne
  <2>3. batches \in Seq(Seq(Events))
    <3>1. batches = [i \in 1 .. Len(events) |-> batches[i]]
      BY <1>1, <2>1 DEF batches
    <3> QED
      BY <1>1, <2>2, <3>1
  <2>4. IdsOf(batches) = Ids(events)
    <3>1. \A x : x \in IdsOf(batches) <=> \E i \in DOMAIN events : events[i].id = x
      BY <2>1, <2>2 DEF IdsOf
    <3> QED
      BY <3>1, IdsAre
  <2>5. BatchesApart(batches)
    BY <2>1, <2>2 DEF BatchesApart, Distinct
  <2> QED
    BY <1>3, <2>3, <2>4, <2>5 DEF batches
<1> QED
  BY <1>2, <1>3 DEF Drained

\* A batch more, of events that are in none.
LEMMA OneMoreBatch ==
  ASSUME NEW batches \in Seq(Seq(Events)), NEW events \in Seq(Events),
         BatchesApart(batches), IdsOf(batches) \cap Ids(events) = {}
  PROVE  /\ Append(batches, events) \in Seq(Seq(Events))
         /\ IdsOf(Append(batches, events)) = IdsOf(batches) \cup Ids(events)
         /\ BatchesApart(Append(batches, events))
<1> DEFINE longer == Append(batches, events)
           n == Len(batches) + 1
<1>1. /\ longer \in Seq(Seq(Events)) /\ DOMAIN longer = DOMAIN batches \cup {n}
      /\ n \notin DOMAIN batches /\ longer[n] = events
      /\ \A i \in DOMAIN batches : longer[i] = batches[i]
  OBVIOUS
<1> HIDE DEF longer, n
<1>2. IdsOf(longer) = IdsOf(batches) \cup Ids(events)
  BY <1>1 DEF IdsOf
<1>3. \A i \in DOMAIN batches : Ids(batches[i]) \cap Ids(events) = {}
  BY DEF IdsOf
<1>4. BatchesApart(longer)
  BY <1>1, <1>3 DEF BatchesApart
<1> QED
  BY <1>1, <1>2, <1>4 DEF longer

\* The first batch is sent.
LEMMA OneBatchLess ==
  ASSUME NEW batches \in Seq(Seq(Events)), batches # <<>>, BatchesApart(batches)
  PROVE  /\ Head(batches) \in Seq(Events) /\ Tail(batches) \in Seq(Seq(Events))
         /\ IdsOf(batches) = Ids(Head(batches)) \cup IdsOf(Tail(batches))
         /\ Ids(Head(batches)) \cap IdsOf(Tail(batches)) = {}
         /\ BatchesApart(Tail(batches))
<1> DEFINE shorter == Tail(batches)
<1>1. /\ shorter \in Seq(Seq(Events)) /\ Len(batches) \in Nat \ {0}
      /\ DOMAIN batches = 1 .. Len(batches) /\ DOMAIN shorter = 1 .. Len(batches) - 1
      /\ \A i \in DOMAIN shorter : shorter[i] = batches[i + 1]
      /\ Head(batches) = batches[1] /\ batches[1] \in Seq(Events)
  OBVIOUS
<1> HIDE DEF shorter
<1>2. ASSUME NEW i \in DOMAIN shorter
      PROVE  i + 1 \in DOMAIN batches /\ i + 1 # 1 /\ Ids(shorter[i]) = Ids(batches[i + 1])
  BY <1>1
<1>3. ASSUME NEW i \in DOMAIN batches, i # 1
      PROVE  i - 1 \in DOMAIN shorter /\ Ids(batches[i]) = Ids(shorter[i - 1])
  <2>1. i - 1 \in DOMAIN shorter /\ (i - 1) + 1 = i
    BY <1>1, <1>3
  <2>2. shorter[i - 1] = batches[(i - 1) + 1]
    BY <1>1, <2>1
  <2> QED
    BY <2>1, <2>2
<1>4. 1 \in DOMAIN batches
  BY <1>1
<1>5. IdsOf(batches) = Ids(batches[1]) \cup IdsOf(shorter)
  <2>1. ASSUME NEW x PROVE x \in IdsOf(batches) <=> x \in Ids(batches[1]) \cup IdsOf(shorter)
    <3>1. ASSUME NEW i \in DOMAIN batches, x \in Ids(batches[i])
          PROVE  x \in Ids(batches[1]) \cup IdsOf(shorter)
      BY <1>3, <3>1 DEF IdsOf
    <3>2. ASSUME NEW i \in DOMAIN shorter, x \in Ids(shorter[i]) PROVE x \in IdsOf(batches)
      BY <1>2, <3>2 DEF IdsOf
    <3>3. x \in Ids(batches[1]) => x \in IdsOf(batches)
      BY <1>4 DEF IdsOf
    <3> QED
      BY <3>1, <3>2, <3>3 DEF IdsOf
  <2> QED
    BY <2>1
<1>6. Ids(batches[1]) \cap IdsOf(shorter) = {}
  <2>1. \A i \in DOMAIN shorter : Ids(batches[1]) \cap Ids(shorter[i]) = {}
    BY <1>2, <1>4 DEF BatchesApart
  <2> QED
    BY <2>1 DEF IdsOf
<1>7. BatchesApart(shorter)
  <2>1. ASSUME NEW i \in DOMAIN shorter, NEW k \in DOMAIN shorter, i # k
        PROVE  Ids(shorter[i]) \cap Ids(shorter[k]) = {}
    <3>1. i + 1 # k + 1
      BY <1>1, <2>1
    <3> QED
      BY <1>2, <3>1 DEF BatchesApart
  <2> QED
    BY <2>1 DEF BatchesApart
<1> QED
  BY <1>1, <1>5, <1>6, <1>7 DEF shorter

-----------------------------------------------------------------------------
(***************************************************************************)
(* Notifications: the invariant.                                           *)
(***************************************************************************)

\* The ids from 1 to n are in the seven sets, each in one.
Partition(B, O, S, P, C, T, F, n) ==
  /\ B \cup O \cup S \cup P \cup C \cup T \cup F = 1 .. n
  /\ B \cap (O \cup S \cup P \cup C \cup T \cup F) = {}
  /\ O \cap (S \cup P \cup C \cup T \cup F) = {}
  /\ S \cap (P \cup C \cup T \cup F) = {}
  /\ P \cap (C \cup T \cup F) = {}
  /\ C \cap (T \cup F) = {}
  /\ T \cap F = {}

EachInOnePlace ==
  Partition(Ids(bus), overwritten, suppressed, Ids(pending), IdsOf(sending), sent, failed,
            published)

\* No place holds an event twice either, so what is taken out of one is gone
\* from it.
NotifierInv ==
  /\ TypeOK
  /\ EachInOnePlace
  /\ Distinct(bus) /\ Distinct(pending) /\ BatchesApart(sending)
  /\ HeldMeansOpen /\ MarkedMeansSent

\* The seven sets are subsets of the ids that there can be.
LEMMA PartsOfAll ==
  ASSUME NEW n \in 0 .. MaxEvents, NEW B, NEW O, NEW S, NEW P, NEW C, NEW T, NEW F,
         Partition(B, O, S, P, C, T, F, n)
  PROVE  /\ B \subseteq 1 .. n /\ P \subseteq 1 .. n /\ C \subseteq 1 .. n
         /\ O \subseteq 1 .. MaxEvents /\ S \subseteq 1 .. MaxEvents
         /\ T \subseteq 1 .. MaxEvents /\ F \subseteq 1 .. MaxEvents
<1>1. 1 .. n \subseteq 1 .. MaxEvents
  BY BoundsAssumption
<1> QED
  BY <1>1 DEF Partition

\* One part of them, and one place each.
LEMMA PartitionIsOneFate ==
  ASSUME EachInOnePlace
  PROVE  OneFate
<1>1. /\ DOMAIN Fates = {1, 2, 3, 4, 5, 6, 7}
      /\ Fates[1] = Ids(bus) /\ Fates[2] = overwritten /\ Fates[3] = suppressed
      /\ Fates[4] = Ids(pending) /\ Fates[5] = IdsOf(sending) /\ Fates[6] = sent
      /\ Fates[7] = failed
  BY DEF Fates, Covered, IdsOf
<1> SUFFICES ASSUME NEW id \in 1 .. published
             PROVE  \E i \in DOMAIN Fates : /\ id \in Fates[i]
                                            /\ \A j \in DOMAIN Fates \ {i} : id \notin Fates[j]
  BY DEF OneFate
<1>2. \E i \in {1, 2, 3, 4, 5, 6, 7} : id \in Fates[i]
  BY <1>1 DEF EachInOnePlace, Partition
<1>3. \A i, j \in {1, 2, 3, 4, 5, 6, 7} : i # j => ~(id \in Fates[i] /\ id \in Fates[j])
  BY <1>1 DEF EachInOnePlace, Partition
<1> QED
  BY <1>1, <1>2, <1>3

\* What is held is handed over.
LEMMA DeliverAllMoves ==
  ASSUME NotifierInv, DeliverAll
  PROVE  /\ sending' \in Seq(Seq(Events)) /\ BatchesApart(sending')
         /\ IdsOf(sending') = Ids(pending)
         /\ pending' \in Seq(Events) /\ Distinct(pending') /\ Ids(pending') = {}
         /\ HeldMeansOpen' /\ window' \in 0 .. Closed
<1>1. Closed \in 0 .. Closed
  BY RulesAssumption DEF Closed
<1> QED
  BY <1>1, DrainedIsAll, IdsOfNone DEF NotifierInv, TypeOK, DeliverAll, HeldMeansOpen, Closed

LEMMA DeliverNothingMoves ==
  ASSUME NotifierInv, DeliverNothing
  PROVE  /\ sending' \in Seq(Seq(Events)) /\ BatchesApart(sending')
         /\ IdsOf(sending') = {} /\ UNCHANGED <<pending, window>>
BY IdsOfNone DEF DeliverNothing

\* An offered event goes one of three ways, and what is held with it or before it.
LEMMA OfferMoves ==
  ASSUME NotifierInv, NEW e \in Events, Offer(e), sending = <<>>,
         e.id \notin suppressed, e.id \notin Ids(pending)
  PROVE  /\ accepted' \in [Devices -> 0 .. Debounce] /\ window' \in 0 .. Closed
         /\ sending' \in Seq(Seq(Events)) /\ BatchesApart(sending')
         /\ pending' \in Seq(Events) /\ Distinct(pending') /\ HeldMeansOpen'
         /\ suppressed' \cup Ids(pending') \cup IdsOf(sending')
              = suppressed \cup Ids(pending) \cup {e.id}
         /\ suppressed' \cap (Ids(pending') \cup IdsOf(sending')) = {}
         /\ Ids(pending') \cap IdsOf(sending') = {}
<1>1. /\ pending \in Seq(Events) /\ Distinct(pending) /\ HeldMeansOpen
      /\ accepted \in [Devices -> 0 .. Debounce] /\ window \in 0 .. Closed
      /\ suppressed \cap Ids(pending) = {}
  BY DEF NotifierInv, TypeOK, EachInOnePlace, Partition
<1>2. CASE suppressed' = suppressed \cup {e.id} /\ DeliverRipe /\ UNCHANGED accepted
  BY <1>1, <1>2, DeliverAllMoves, DeliverNothingMoves DEF DeliverRipe, HeldMeansOpen, Closed
<1>3. CASE /\ Ripe /\ sending' = Append(Drained(pending), <<e>>)
           /\ pending' = <<>> /\ window' = Closed
           /\ UNCHANGED <<accepted, suppressed>>
  <2>1. /\ Drained(pending) \in Seq(Seq(Events)) /\ IdsOf(Drained(pending)) = Ids(pending)
        /\ BatchesApart(Drained(pending))
    BY <1>1, DrainedIsAll
  <2>2. /\ sending' \in Seq(Seq(Events)) /\ BatchesApart(sending')
        /\ IdsOf(sending') = Ids(pending) \cup {e.id}
    <3>1. <<e>> \in Seq(Events) /\ Ids(<<e>>) = {e.id}
      BY IdsOfOne
    <3>2. IdsOf(Drained(pending)) \cap Ids(<<e>>) = {}
      BY <2>1, <3>1
    <3> HIDE DEF Drained
    <3> QED
      BY <1>3, <2>1, <3>1, <3>2, OneMoreBatch
  <2>3. Closed \in 0 .. Closed
    BY RulesAssumption DEF Closed
  <2>4. HeldMeansOpen' /\ pending' \in Seq(Events)
    BY <1>3 DEF HeldMeansOpen, Closed
  <2> QED
    BY <1>1, <1>3, <2>2, <2>3, <2>4, IdsOfNone
<1>4. CASE sending' = <<<<e>>>> /\ UNCHANGED <<pending, window, accepted, suppressed>>
  <2>1. <<<<e>>>> = Append(<<>>, <<e>>) /\ <<>> \in Seq(Seq(Events))
    OBVIOUS
  <2>2. /\ sending' \in Seq(Seq(Events)) /\ BatchesApart(sending')
        /\ IdsOf(sending') = {e.id}
    <3> DEFINE none == <<>>
               batch == <<e>>
    <3>1. /\ none \in Seq(Seq(Events)) /\ BatchesApart(none) /\ IdsOf(none) = {}
          /\ batch \in Seq(Events) /\ Ids(batch) = {e.id} /\ sending' = Append(none, batch)
      BY <1>4, <2>1, IdsOfOne, IdsOfNone
    <3> HIDE DEF none, batch
    <3>2. IdsOf(none) \cap Ids(batch) = {}
      BY <3>1
    <3> QED  BY <3>1, <3>2, OneMoreBatch
  <2>3. HeldMeansOpen'
    BY <1>1, <1>4 DEF HeldMeansOpen, Closed
  <2> QED
    BY <1>1, <1>4, <2>2, <2>3
<1>5. CASE Join(e) /\ UNCHANGED suppressed
  <2> DEFINE longer == Append(pending, e)
             opened == IF window = Closed THEN 0 ELSE window
  <2>1. /\ longer \in Seq(Events) /\ Ids(longer) = Ids(pending) \cup {e.id} /\ Distinct(longer)
    BY <1>1, IdsOfAppend
  <2>2. longer # <<>>
    BY <1>1
  <2>3. opened \in 0 .. BatchWindow /\ Closed = BatchWindow + 1 /\ BatchWindow \in Nat
    BY <1>1, RulesAssumption DEF Closed
  <2>4. accepted' \in [Devices -> 0 .. Debounce]
    <3>1. accepted' = [accepted EXCEPT ![e.mac] = 0] /\ 0 \in 0 .. Debounce
      BY <1>5, RulesAssumption DEF Join
    <3> QED
      BY <1>1, <3>1
  <2> HIDE DEF longer, opened
  <2>5. CASE sending' = Drained(longer) /\ pending' = <<>> /\ window' = Closed
    <3>1. /\ sending' \in Seq(Seq(Events)) /\ IdsOf(sending') = Ids(longer)
          /\ BatchesApart(sending')
      BY <2>1, <2>5, DrainedIsAll
    <3>2. HeldMeansOpen' /\ pending' \in Seq(Events) /\ window' \in 0 .. Closed
      BY <2>3, <2>5 DEF HeldMeansOpen, Closed
    <3> QED
      BY <1>1, <1>5, <2>1, <2>4, <2>5, <3>1, <3>2, IdsOfNone
  <2>6. CASE opened # BatchWindow /\ sending' = <<>> /\ pending' = longer /\ window' = opened
    <3>1. HeldMeansOpen' /\ window' \in 0 .. Closed
      BY <2>2, <2>3, <2>6 DEF HeldMeansOpen, Closed
    <3> QED
      BY <1>1, <1>5, <2>1, <2>4, <2>6, <3>1, IdsOfNone
  <2> QED
    BY <1>5, <2>5, <2>6 DEF Join, longer, opened
<1> QED
  BY <1>2, <1>3, <1>4, <1>5 DEF Offer

LEMMA NotifierInvInit == Init => NotifierInv
<1> SUFFICES ASSUME Init PROVE NotifierInv
  OBVIOUS
<1>1. /\ 0 \in 0 .. Day - 1 /\ 0 \in 0 .. MaxEvents /\ 0 \in 0 .. MaxFailures
      /\ Closed \in 0 .. Closed /\ Debounce \in 0 .. Debounce
  BY RulesAssumption, BoundsAssumption DEF Closed
<1>2. TypeOK
  <2>1. <<>> \in Seq(Events) /\ <<>> \in Seq(Seq(Events)) /\ Len(<<>>) <= Capacity
    BY BusAssumption
  <2>2. [m \in Devices |-> Debounce] \in [Devices -> 0 .. Debounce]
    BY <1>1
  <2> QED
    BY <1>1, <2>1, <2>2 DEF Init, TypeOK
<1>3. EachInOnePlace
  BY IdsOfNone DEF Init, EachInOnePlace, Partition
<1> QED
  BY <1>2, <1>3, IdsOfNone DEF Init, NotifierInv, HeldMeansOpen, MarkedMeansSent

\* The channel may lose its oldest event to the new one.
LEMMA PublishKeeps ==
  ASSUME NotifierInv, NEW m \in Devices, NEW kind \in Kinds, Publish(m, kind)
  PROVE  NotifierInv'
<1> DEFINE e == [id |-> published + 1, mac |-> m, kind |-> kind]
<1>1. /\ published \in 0 .. MaxEvents /\ published < MaxEvents /\ published' = published + 1
      /\ published' \in 0 .. MaxEvents /\ published' \in 1 .. MaxEvents
  BY BoundsAssumption DEF NotifierInv, TypeOK, Publish
<1>2. e \in Events /\ e.id = published'
  BY <1>1 DEF Events
<1>3. bus \in Seq(Events) /\ Len(bus) <= Capacity /\ Distinct(bus) /\ Capacity \in Nat \ {0}
  BY BusAssumption DEF NotifierInv, TypeOK
<1>4. /\ bus' = Push(e) /\ lagged' = (lagged \/ Len(bus) = Capacity)
      /\ overwritten' = IF Len(bus) = Capacity THEN overwritten \cup {Head(bus).id}
                        ELSE overwritten
      /\ UNCHANGED <<clock, dispatcher, transport, notifier>>
  BY DEF Publish
<1> HIDE DEF e
<1>5. published' \notin Ids(bus) \cup overwritten \cup suppressed \cup Ids(pending)
                          \cup IdsOf(sending) \cup sent \cup failed
  BY <1>1 DEF NotifierInv, EachInOnePlace, Partition
<1>6. /\ bus' \in Seq(Events) /\ Len(bus') <= Capacity /\ Distinct(bus')
      /\ Ids(bus') \cup overwritten' = Ids(bus) \cup overwritten \cup {published'}
      /\ Ids(bus') \cap overwritten' = {}
  <2>1. Ids(bus) \cap overwritten = {}
    BY DEF NotifierInv, EachInOnePlace, Partition
  <2>2. CASE Len(bus) = Capacity
    <3>1. bus # <<>>
      BY <1>3, <2>2
    <3>2. /\ Tail(bus) \in Seq(Events) /\ Distinct(Tail(bus)) /\ Len(Tail(bus)) = Capacity - 1
          /\ Ids(bus) = {Head(bus).id} \cup Ids(Tail(bus))
          /\ Head(bus).id \notin Ids(Tail(bus))
      BY <1>3, <2>2, <3>1, IdsOfTail
    <3>3. bus' = Append(Tail(bus), e)
      BY <1>4, <2>2 DEF Push
    <3>4. /\ bus' \in Seq(Events) /\ Distinct(bus') /\ Ids(bus') = Ids(Tail(bus)) \cup {e.id}
      BY <1>2, <1>5, <3>2, <3>3, IdsOfAppend
    <3>5. Len(bus') <= Capacity
      BY <1>3, <3>2, <3>3
    <3> QED
      BY <1>2, <1>4, <1>5, <2>1, <2>2, <3>2, <3>4, <3>5
  <2>3. CASE Len(bus) # Capacity
    <3>1. bus' = Append(bus, e)
      BY <1>4, <2>3 DEF Push
    <3>2. /\ bus' \in Seq(Events) /\ Distinct(bus') /\ Ids(bus') = Ids(bus) \cup {e.id}
      BY <1>2, <1>3, <1>5, <3>1, IdsOfAppend
    <3>3. Len(bus') <= Capacity
      BY <1>3, <2>3, <3>1
    <3> QED
      BY <1>2, <1>4, <1>5, <2>1, <2>3, <3>2, <3>3
  <2> QED
    BY <2>2, <2>3
<1>7. UNCHANGED <<suppressed, pending, sending, sent, failed>>
  BY <1>4 DEF dispatcher, transport
<1>8. EachInOnePlace'
  <2>1. 1 .. published' = (1 .. published) \cup {published'}
    BY <1>1
  <2> QED
    BY <1>5, <1>6, <1>7, <2>1 DEF NotifierInv, EachInOnePlace, Partition
<1>9. TypeOK'
  <2>1. overwritten' \subseteq 1 .. MaxEvents
    BY <1>1, <1>8, PartsOfAll DEF EachInOnePlace
  <2>2. lagged' \in BOOLEAN
    BY <1>4 DEF NotifierInv, TypeOK
  <2> QED
    BY <1>1, <1>4, <1>6, <2>1, <2>2 DEF NotifierInv, TypeOK, dispatcher, transport
<1> QED
  BY <1>4, <1>6, <1>7, <1>8, <1>9 DEF NotifierInv, HeldMeansOpen, MarkedMeansSent, dispatcher,
     transport

\* The next event of the channel is offered.
LEMMA ReceiveKeeps == ASSUME NotifierInv, Receive PROVE NotifierInv'
<1>1. /\ bus \in Seq(Events) /\ bus # <<>> /\ Distinct(bus) /\ Len(bus) <= Capacity
      /\ sending = <<>> /\ bus' = Tail(bus) /\ Offer(Head(bus))
      /\ UNCHANGED <<clock, published, lagged, overwritten, sent, failed, marked, failures,
                     notifier>>
  BY DEF NotifierInv, TypeOK, Receive, Free
<1>2. /\ Head(bus) \in Events /\ bus' \in Seq(Events) /\ Distinct(bus')
      /\ Ids(bus) = {Head(bus).id} \cup Ids(bus') /\ Head(bus).id \notin Ids(bus')
  BY <1>1, IdsOfTail
<1>3. Len(bus') <= Capacity
  BY <1>1, BusAssumption
<1>4. Head(bus).id \notin suppressed /\ Head(bus).id \notin Ids(pending)
  BY <1>2 DEF NotifierInv, EachInOnePlace, Partition
<1>5. /\ accepted' \in [Devices -> 0 .. Debounce] /\ window' \in 0 .. Closed
      /\ sending' \in Seq(Seq(Events)) /\ BatchesApart(sending')
      /\ pending' \in Seq(Events) /\ Distinct(pending') /\ HeldMeansOpen'
      /\ suppressed' \cup Ids(pending') \cup IdsOf(sending')
           = suppressed \cup Ids(pending) \cup {Head(bus).id}
      /\ suppressed' \cap (Ids(pending') \cup IdsOf(sending')) = {}
      /\ Ids(pending') \cap IdsOf(sending') = {}
  BY <1>1, <1>2, <1>4, OfferMoves
<1>6. IdsOf(sending) = {}
  BY <1>1, IdsOfNone
<1>7. EachInOnePlace'
  BY <1>1, <1>2, <1>5, <1>6 DEF NotifierInv, EachInOnePlace, Partition
<1>8. suppressed' \subseteq 1 .. MaxEvents
  BY <1>1, <1>7, PartsOfAll DEF NotifierInv, TypeOK, EachInOnePlace
<1>9. TypeOK'
  BY <1>1, <1>2, <1>3, <1>5, <1>8 DEF NotifierInv, TypeOK
<1> QED
  BY <1>1, <1>2, <1>5, <1>7, <1>9 DEF NotifierInv, MarkedMeansSent

\* The timer and the shutdown hand over what is held.
LEMMA ClosingKeeps ==
  ASSUME NotifierInv, DeliverAll, sending = <<>>,
         UNCHANGED <<clock, channel, accepted, suppressed, sent, failed, marked, failures>>,
         notifier' \in {notifier, "stopping"}
  PROVE  NotifierInv'
<1>1. /\ sending' \in Seq(Seq(Events)) /\ BatchesApart(sending')
      /\ IdsOf(sending') = Ids(pending)
      /\ pending' \in Seq(Events) /\ Distinct(pending') /\ Ids(pending') = {}
      /\ HeldMeansOpen' /\ window' \in 0 .. Closed
  BY DeliverAllMoves
<1>2. IdsOf(sending) = {}
  BY IdsOfNone
<1>3. UNCHANGED <<published, bus, lagged, overwritten>>
  BY DEF channel
<1>4. EachInOnePlace'
  BY <1>1, <1>2, <1>3 DEF NotifierInv, EachInOnePlace, Partition
<1>5. TypeOK'
  BY <1>1, <1>3 DEF NotifierInv, TypeOK
<1> QED
  BY <1>1, <1>3, <1>4, <1>5 DEF NotifierInv, MarkedMeansSent

\* A delivery is answered, or not.
LEMMA SendKeeps == ASSUME NotifierInv, Send PROVE NotifierInv'
<1> DEFINE ids == Ids(Head(sending))
<1>1. /\ sending \in Seq(Seq(Events)) /\ sending # <<>> /\ BatchesApart(sending)
      /\ sending' = Tail(sending) /\ UNCHANGED <<clock, channel, dispatcher, notifier>>
  BY DEF NotifierInv, TypeOK, Send
<1>2. /\ sending' \in Seq(Seq(Events)) /\ BatchesApart(sending')
      /\ IdsOf(sending) = ids \cup IdsOf(sending') /\ ids \cap IdsOf(sending') = {}
  BY <1>1, OneBatchLess
<1> HIDE DEF ids
<1>3. /\ \/ sent' = sent \cup ids /\ failed' = failed
         \/ failed' = failed \cup ids /\ sent' = sent
      /\ marked' \subseteq sent' /\ failures' \in 0 .. MaxFailures
  <2>1. marked \subseteq sent /\ failures \in 0 .. MaxFailures
    BY DEF NotifierInv, MarkedMeansSent, TypeOK
  <2>2. CASE /\ sent' = sent \cup ids /\ marked' = marked \cup Marked(ids, TRUE)
             /\ failures' = failures /\ failed' = failed
    BY <2>1, <2>2 DEF Marked
  <2>3. CASE /\ sent' = sent \cup ids /\ failures < MaxFailures /\ failures' = failures + 1
             /\ \E some \in SUBSET ids : marked' = marked \cup some
             /\ failed' = failed
    BY <2>1, <2>3, BoundsAssumption
  <2>4. CASE /\ failures < MaxFailures /\ failures' = failures + 1
             /\ failed' = failed \cup ids /\ marked' = marked \cup Marked(ids, FALSE)
             /\ sent' = sent
    BY <2>1, <2>4, BoundsAssumption DEF Marked
  <2> QED
    BY <2>2, <2>3, <2>4 DEF Send, ids
<1>4. UNCHANGED <<published, bus, lagged, overwritten, accepted, pending, window, suppressed>>
  BY <1>1 DEF channel, dispatcher
<1>5. EachInOnePlace'
  BY <1>2, <1>3, <1>4 DEF NotifierInv, EachInOnePlace, Partition
<1>6. TypeOK'
  <2>1. sent' \subseteq 1 .. MaxEvents /\ failed' \subseteq 1 .. MaxEvents
    BY <1>4, <1>5, PartsOfAll DEF NotifierInv, TypeOK, EachInOnePlace
  <2> QED
    BY <1>1, <1>2, <1>3, <1>4, <2>1 DEF NotifierInv, TypeOK
<1> QED
  BY <1>2, <1>3, <1>4, <1>5, <1>6 DEF NotifierInv, HeldMeansOpen, MarkedMeansSent

LEMMA NotifierInvKept == NotifierInv /\ [Next]_vars => NotifierInv'
<1> SUFFICES ASSUME NotifierInv, [Next]_vars PROVE NotifierInv'
  OBVIOUS
<1> USE DEF channel, dispatcher, transport
<1>1. CASE Tick
  <2>1. clock' \in 0 .. Day - 1
    BY <1>1, RulesAssumption DEF Tick, NotifierInv, TypeOK
  <2>2. accepted' \in [Devices -> 0 .. Debounce]
    <3>1. /\ \A m \in Devices : accepted[m] \in 0 .. Debounce
          /\ accepted' = [m \in Devices |-> IF accepted[m] < Debounce THEN accepted[m] + 1
                                                                      ELSE Debounce]
      BY <1>1 DEF Tick, Aged, NotifierInv, TypeOK
    <3>2. Debounce \in Nat
      BY RulesAssumption
    <3> QED
      BY <3>1, <3>2
  <2>3. window' \in 0 .. Closed /\ (window = Closed <=> window' = Closed)
    <3>1. /\ window' = IF window < BatchWindow THEN window + 1 ELSE window
          /\ window \in 0 .. BatchWindow + 1 /\ BatchWindow \in Nat
      BY <1>1, RulesAssumption DEF Tick, NotifierInv, TypeOK, Closed
    <3> QED
      BY <3>1 DEF Closed
  <2> QED
    BY <1>1, <2>1, <2>2, <2>3 DEF Tick, NotifierInv, EachInOnePlace, TypeOK, HeldMeansOpen,
       MarkedMeansSent
<1>2. CASE \E m \in Devices, kind \in Kinds : Publish(m, kind)
  BY <1>2, PublishKeeps
<1>3. CASE Receive
  BY <1>3, ReceiveKeeps
<1>4. CASE CloseWindow \/ Shutdown
  BY <1>4, ClosingKeeps DEF CloseWindow, Shutdown, Free
<1>5. CASE Lag \/ End \/ UNCHANGED vars
  BY <1>5 DEF Lag, End, vars, NotifierInv, EachInOnePlace, TypeOK, HeldMeansOpen,
     MarkedMeansSent
<1>6. CASE Send
  BY <1>6, SendKeeps
<1> QED
  BY <1>1, <1>2, <1>3, <1>4, <1>5, <1>6 DEF Next

\* Every event has one fate: it is in one place, it is held only behind an open
\* window, and it is marked only if it was sent, for any settings of the notifier
\* (notify/mod.rs offer, tick, drain; daemon.rs spawn_notifier, send_all).
THEOREM EventsAreKept == Spec => [](TypeOK /\ OneFate /\ HeldMeansOpen /\ MarkedMeansSent)
<1>1. NotifierInv => TypeOK /\ OneFate /\ HeldMeansOpen /\ MarkedMeansSent
  BY PartitionIsOneFate DEF NotifierInv
<1> QED
  BY <1>1, NotifierInvInit, NotifierInvKept, PTL DEF Spec

-----------------------------------------------------------------------------
(***************************************************************************)
(* Notifications: security events, as they are bypassing the batches.      *)
(***************************************************************************)

\* Held events are delivered each alone or in a summary: a security event is not
\* among them.
LEMMA DrainedWithoutSecurity ==
  ASSUME NEW events \in Seq(Events), \A i \in DOMAIN events : events[i].kind # "security",
         NEW i \in DOMAIN Drained(events), Len(Drained(events)[i]) > 1
  PROVE  \A k \in DOMAIN Drained(events)[i] : Drained(events)[i][k].kind # "security"
<1>1. CASE Drained(events) = <<events>>
  <2>1. Drained(events)[i] = events
    BY <1>1
  <2> QED
    BY <2>1
<1>2. CASE Drained(events) = [n \in DOMAIN events |-> <<events[n]>>]
  <2>1. Drained(events)[i] = <<events[i]>>
    BY <1>2
  <2> QED
    BY <2>1
<1> QED
  BY <1>1, <1>2 DEF Drained

SecurityInv == NotifierInv /\ SecurityGoesAlone

LEMMA SecurityInvKept ==
  ASSUME BypassBatch = TRUE
  PROVE  SecurityInv /\ [Next]_vars => SecurityInv'
<1> SUFFICES ASSUME SecurityInv, [Next]_vars PROVE SecurityInv'
  OBVIOUS
<1> SUFFICES SecurityGoesAlone'
  BY NotifierInvKept DEF SecurityInv
<1>1. /\ pending \in Seq(Events) /\ sending \in Seq(Seq(Events)) /\ bus \in Seq(Events)
      /\ Distinct(pending) /\ SecurityGoesAlone
      /\ \A i \in DOMAIN pending : pending[i].kind # "security"
  BY DEF SecurityInv, NotifierInv, TypeOK, SecurityGoesAlone
<1>2. ASSUME DeliverAll PROVE SecurityGoesAlone'
  BY <1>1, <1>2, DrainedWithoutSecurity DEF DeliverAll, SecurityGoesAlone
<1>3. ASSUME DeliverNothing PROVE SecurityGoesAlone'
  BY <1>1, <1>3 DEF DeliverNothing, SecurityGoesAlone
<1>4. ASSUME NEW e \in Events, Offer(e) PROVE SecurityGoesAlone'
  <2>1. CASE DeliverRipe
    BY <1>2, <1>3, <2>1 DEF DeliverRipe
  <2>2. CASE sending' = Append(Drained(pending), <<e>>) /\ pending' = <<>>
    <3> DEFINE drained == Drained(pending)
    <3>1. drained \in Seq(Seq(Events))
      BY <1>1, DrainedIsAll
    <3>2. \A i \in DOMAIN drained : Len(drained[i]) > 1 =>
            \A k \in DOMAIN drained[i] : drained[i][k].kind # "security"
      BY <1>1, DrainedWithoutSecurity
    <3> HIDE DEF drained
    <3>3. /\ DOMAIN sending' = DOMAIN drained \cup {Len(drained) + 1}
          /\ \A i \in DOMAIN drained : sending'[i] = drained[i]
          /\ ~(Len(sending'[Len(drained) + 1]) > 1)
      BY <2>2, <3>1 DEF drained
    <3>4. \A i \in DOMAIN sending' : Len(sending'[i]) > 1 =>
            \A k \in DOMAIN sending'[i] : sending'[i][k].kind # "security"
      BY <3>2, <3>3
    <3>5. DOMAIN pending' = {}
      BY <2>2
    <3> QED
      BY <3>4, <3>5 DEF SecurityGoesAlone
  <2>3. CASE sending' = <<<<e>>>> /\ UNCHANGED pending
    <3>1. DOMAIN sending' = {1} /\ sending'[1] = <<e>> /\ ~(Len(<<e>>) > 1)
      BY <2>3
    <3> QED
      BY <1>1, <2>3, <3>1 DEF SecurityGoesAlone
  <2>4. CASE ~Jumps(e) /\ Join(e)
    <3> DEFINE longer == Append(pending, e)
    <3>1. e.kind # "security"
      BY <2>4 DEF Jumps
    <3>2. longer \in Seq(Events) /\ \A i \in DOMAIN longer : longer[i].kind # "security"
      BY <1>1, <3>1
    <3> HIDE DEF longer
    <3>3. \/ sending' = Drained(longer) /\ pending' = <<>>
          \/ sending' = <<>> /\ pending' = longer
      BY <2>4 DEF Join, longer
    <3> QED
      BY <3>2, <3>3, DrainedWithoutSecurity DEF SecurityGoesAlone
  <2> QED
    BY <1>4, <2>1, <2>2, <2>3, <2>4 DEF Offer
<1>5. CASE Send
  <2>1. sending # <<>> /\ sending' = Tail(sending) /\ UNCHANGED pending
    BY <1>5 DEF Send, dispatcher
  <2>2. \A i \in DOMAIN sending' : i + 1 \in DOMAIN sending /\ sending'[i] = sending[i + 1]
    BY <1>1, <2>1
  <2> QED
    BY <1>1, <2>1, <2>2 DEF SecurityGoesAlone
<1>6. CASE Receive
  BY <1>1, <1>4, <1>6 DEF Receive
<1>7. CASE CloseWindow \/ Shutdown
  BY <1>2, <1>7 DEF CloseWindow, Shutdown
<1>8. CASE Tick \/ (\E m \in Devices, kind \in Kinds : Publish(m, kind)) \/ Lag \/ End
           \/ UNCHANGED vars
  <2>1. UNCHANGED <<pending, sending>>
    BY <1>8 DEF Tick, Publish, Lag, End, vars, dispatcher, transport
  <2> QED
    BY <1>1, <2>1 DEF SecurityGoesAlone
<1> QED
  BY <1>5, <1>6, <1>7, <1>8 DEF Next

\* With security events past the batches, as the default is, they are also never
\* held behind, or collapsed into, anything (notify/mod.rs offer).
THEOREM EventsHaveTheirFate == ASSUME BypassBatch = TRUE PROVE Spec => []EventsHaveOneFate
<1>1. Init => SecurityInv
  BY NotifierInvInit DEF Init, SecurityInv, SecurityGoesAlone
<1>2. SecurityInv => EventsHaveOneFate
  BY PartitionIsOneFate DEF SecurityInv, NotifierInv, EventsHaveOneFate
<1> QED
  BY <1>1, <1>2, SecurityInvKept, PTL DEF Spec

\* A notifier that is on, with all the bypasses, sends a security event in the
\* turn that takes it off the bus, whatever it holds and however late it is
\* (notify/mod.rs offer).
THEOREM SecurityGoesAtOnce ==
  ASSUME Enabled = TRUE, SecurityEnabled = TRUE,
         BypassQuiet = TRUE, BypassDebounce = TRUE, BypassBatch = TRUE
  PROVE  Spec => SecurityIsNotRateLimited
<1>1. ASSUME NotifierInv, Receive, Head(bus).kind = "security"
      PROVE  <<Head(bus)>> \in ToSet(sending')
  <2> DEFINE e == Head(bus)
  <2>1. Offer(e) /\ Jumps(e) /\ ~Suppressed(e)
    BY <1>1 DEF Receive, Jumps, Suppressed
  <2>2. CASE sending' = Append(Drained(pending), <<e>>)
    <3>1. Drained(pending) \in Seq(Seq(Events))
      BY <1>1, DrainedIsAll DEF NotifierInv, TypeOK
    <3>2. LET last == Len(Drained(pending)) + 1
          IN  last \in DOMAIN sending' /\ sending'[last] = <<e>>
      BY <2>2, <3>1
    <3> QED
      BY <3>2 DEF ToSet
  <2>3. CASE sending' = <<<<e>>>>
    <3>1. 1 \in DOMAIN sending' /\ sending'[1] = <<e>>
      BY <2>3
    <3> QED
      BY <3>1 DEF ToSet
  <2> QED
    BY <2>1, <2>2, <2>3 DEF Offer
<1>2. NotifierInv /\ [Next]_vars =>
        [Receive /\ Head(bus).kind = "security" => <<Head(bus)>> \in ToSet(sending')]_vars
  BY <1>1
<1> QED
  BY <1>2, NotifierInvInit, NotifierInvKept, PTL DEF Spec, SecurityIsNotRateLimited

-----------------------------------------------------------------------------
(***************************************************************************)
(* RunLoop.                                                                *)
(***************************************************************************)

LoopInv == RunLoopTypeOK /\ StopLeavesNothing

\* An arm is taken while the loop selects, and the arm of the answers only if
\* there is one.
LEMMA ArmsAreReady ==
  ASSUME NEW arm, Takes(arm)
  PROVE  loop = "selecting" /\ (arm = "enriched" => answers > 0)
<1>1. loop = "selecting" /\ IsReady(arm)
  BY DEF Takes
<1>2. ASSUME arm = "enriched" PROVE answers > 0
  <2>1. IsReady("enriched")
    BY <1>1, <1>2
  <2>2. "enriched" \notin Timers
    BY DEF Timers
  <2> QED
    BY <2>1, <2>2 DEF IsReady
<1> QED
  BY <1>1, <1>2

LEMMA ThreadKeeps ==
  ASSUME LoopInv, NEW t \in Threads, ThreadStep(t) \/ ReadFrame(t) \/ EndReading(t)
  PROVE  LoopInv'
<1>1. PICK state \in {"reading", "sending", "stopped"} : MoveThread(t, state)
  BY DEF ThreadStep, OpenHandle, StopReading, SendObservation, ReadFrame, EndReading
<1>2. /\ thread' \in [Threads -> {"opening", "reading", "sending", "stopped"}]
      /\ \A u \in Threads \ {t} : thread'[u] = thread[u]
      /\ thread'[t] = state /\ thread[t] # "stopped"
  BY <1>1 DEF MoveThread, LoopInv, RunLoopTypeOK, ThreadStep, OpenHandle, StopReading,
     SendObservation, ReadFrame, EndReading, SeesTheSignal
<1>3. broken' = broken \/ (broken' = broken \cup {t} /\ state = "stopped")
  <2>1. CASE OpenHandle(t)
    <3>1. CASE MoveThread(t, "reading") /\ UNCHANGED broken
      BY <3>1
    <3>2. CASE MoveThread(t, "stopped") /\ broken' = broken \cup {t}
      BY <1>2, <3>2 DEF MoveThread, LoopInv, RunLoopTypeOK
    <3> QED
      BY <2>1, <3>1, <3>2 DEF OpenHandle
  <2>2. CASE EndReading(t)
    BY <1>2, <2>2 DEF EndReading, MoveThread, LoopInv, RunLoopTypeOK
  <2>3. CASE StopReading(t) \/ SendObservation(t) \/ ReadFrame(t)
    BY <2>3 DEF StopReading, SendObservation, ReadFrame
  <2> QED
    BY <2>1, <2>2, <2>3 DEF ThreadStep
<1>4. queued' \in 0 .. Room
  BY RunLoopAssumption DEF LoopInv, RunLoopTypeOK, ThreadStep, OpenHandle, StopReading,
     SendObservation, HasRoom, ReadFrame, EndReading
<1>5. broken' \subseteq {u \in Threads : thread'[u] = "stopped"}
  BY <1>2, <1>3 DEF LoopInv, RunLoopTypeOK
<1> QED
  BY <1>1, <1>2, <1>4, <1>5 DEF LoopInv, RunLoopTypeOK, StopLeavesNothing, MoveThread

LEMMA LoopInvKept == LoopInv /\ [RunLoopNext]_loopVars => LoopInv'
<1> SUFFICES ASSUME LoopInv, [RunLoopNext]_loopVars PROVE LoopInv'
  OBVIOUS
<1> USE DEF LoopInv, RunLoopTypeOK, StopLeavesNothing
<1>1. CASE ShutdownSignal \/ EndNotifier \/ BeginPoll \/ FinishPoll \/ UNCHANGED loopVars
  <2>1. UNCHANGED <<thread, broken, queued, loop, unflushed, answers>>
    BY <1>1 DEF ShutdownSignal, EndNotifier, BeginPoll, FinishPoll, loopVars
  <2>2. signalled' \in BOOLEAN /\ snapshot' \in BOOLEAN /\ over' \in BOOLEAN
    BY <1>1 DEF ShutdownSignal, EndNotifier, BeginPoll, FinishPoll, loopVars
  <2>3. poller' \in {"waiting", "polling", "answering", "gone"}
    BY <1>1 DEF ShutdownSignal, EndNotifier, BeginPoll, FinishPoll, loopVars
  <2> QED
    BY <2>1, <2>2, <2>3
<1>2. CASE \E t \in Threads : ThreadStep(t) \/ ReadFrame(t) \/ EndReading(t)
  BY <1>2, ThreadKeeps
<1>3. CASE Answer
  BY <1>3, RunLoopAssumption DEF Answer
<1>4. CASE Stop \/ EverySourceStopped
  BY <1>4 DEF Stop, EverySourceStopped, Break
<1>5. CASE HandleObservation
  <2>1. loop = "selecting"
    BY <1>5, ArmsAreReady DEF HandleObservation
  <2>2. queued' \in 0 .. Room
    BY <1>5, RunLoopAssumption DEF HandleObservation
  <2> QED
    BY <1>5, <2>1, <2>2 DEF HandleObservation
<1>6. CASE HandleSignal \/ HandleSweep \/ HandleReconcile \/ HandleUpkeep \/ HandleFlush
           \/ OfferSnapshot
  <2>1. loop = "selecting"
    BY <1>6, ArmsAreReady DEF HandleSignal, HandleSweep, HandleReconcile, HandleUpkeep, Handle,
       HandleFlush, OfferSnapshot
  <2> QED
    BY <1>6, <2>1 DEF HandleSignal, HandleSweep, HandleReconcile, HandleUpkeep, Handle,
       HandleFlush, OfferSnapshot
<1>7. CASE HandleEnriched
  <2>1. loop = "selecting" /\ answers > 0
    BY <1>7, ArmsAreReady DEF HandleEnriched
  <2>2. answers' \in 0 .. Results
    BY <1>7, <2>1, RunLoopAssumption DEF HandleEnriched
  <2> QED
    BY <1>7, <2>1, <2>2 DEF HandleEnriched
<1>8. CASE JoinThreads \/ Return
  BY <1>8 DEF JoinThreads, Return
<1> QED
  BY <1>1, <1>2, <1>3, <1>4, <1>5, <1>6, <1>7, <1>8 DEF RunLoopNext, Select

LEMMA LoopInvInit == RunLoopInit => LoopInv
<1>1. 0 \in 0 .. Room /\ 0 \in 0 .. Results
  BY RunLoopAssumption
<1>2. RunLoopInit => RunLoopTypeOK
  BY <1>1 DEF RunLoopInit, RunLoopTypeOK
<1>3. RunLoopInit => StopLeavesNothing
  BY DEF RunLoopInit, StopLeavesNothing
<1> QED
  BY <1>2, <1>3 DEF LoopInv

\* No channel holds more than its capacity, and nothing the loop did is missing
\* from the last flush (daemon.rs run).
THEOREM LoopIsSafe == RunLoopSpec => [](RunLoopTypeOK /\ StopLeavesNothing)
BY LoopInvInit, LoopInvKept, PTL DEF RunLoopSpec, LoopInv

-----------------------------------------------------------------------------
(***************************************************************************)
(* Intake: the batches.                                                    *)
(***************************************************************************)

Rows == [about : Hosts, named : BOOLEAN]

AllBatches ==
  {<<"insert", "event", "write">>, <<"write">>, <<"event", "write">>, <<"write", "event">>,
   <<"alert">>}

\* A batch tells of one thing at most, and inserts a device before it tells of it.
LEMMA BatchesAreOrderly ==
  ASSUME NEW batch \in AllBatches
  PROVE  /\ DOMAIN batch = 1 .. Len(batch) /\ Len(batch) \in Nat \ {0}
         /\ \A i, j \in DOMAIN batch :
              batch[i] \in {"event", "alert"} /\ batch[j] \in {"event", "alert"} => i = j
         /\ \A i, j \in DOMAIN batch :
              batch[i] = "insert" /\ batch[j] \in {"event", "alert"} => i < j
<1>1. CASE batch = <<"insert", "event", "write">>
  BY <1>1
<1>2. CASE batch \in {<<"write">>, <<"alert">>}
  BY <1>2
<1>3. CASE batch \in {<<"event", "write">>, <<"write", "event">>}
  BY <1>3
<1> QED
  BY <1>1, <1>2, <1>3 DEF AllBatches

\* The rows that the first statements of a batch come to.
LEMMA OneEventAtMost ==
  ASSUME NEW batch \in AllBatches, NEW done \in 0 .. Len(batch), NEW m \in Hosts, NEW ids
  PROVE  LET prefix == SubSeq(batch, 1, done)
             new == EventsOf(prefix, m, ids)
         IN  /\ new = <<>> \/ new = <<[about |-> m, named |-> m \in ids]>>
             /\ "insert" \in ToSet(prefix) => "insert" \in ToSet(batch)
             /\ "insert" \in ToSet(batch) /\ new # <<>> => "insert" \in ToSet(prefix)
             /\ "insert" \in ToSet(batch) /\ done = Len(batch) => "insert" \in ToSet(prefix)
<1> DEFINE prefix == SubSeq(batch, 1, done)
           new == EventsOf(prefix, m, ids)
           listed == {n \in DOMAIN prefix : prefix[n] \in {"event", "alert"}}
<1>1. /\ DOMAIN batch = 1 .. Len(batch) /\ Len(batch) \in Nat \ {0}
      /\ \A i, j \in DOMAIN batch :
           batch[i] \in {"event", "alert"} /\ batch[j] \in {"event", "alert"} => i = j
      /\ \A i, j \in DOMAIN batch :
           batch[i] = "insert" /\ batch[j] \in {"event", "alert"} => i < j
  BY BatchesAreOrderly
<1>2. batch \in Seq({"insert", "event", "write", "alert"})
  <2>1. CASE batch = <<"insert", "event", "write">>
    BY <2>1
  <2>2. CASE batch = <<"write">>
    BY <2>2
  <2>3. CASE batch = <<"alert">>
    BY <2>3
  <2>4. CASE batch = <<"event", "write">>
    BY <2>4
  <2>5. CASE batch = <<"write", "event">>
    BY <2>5
  <2> QED
    BY <2>1, <2>2, <2>3, <2>4, <2>5 DEF AllBatches
<1>3. DOMAIN prefix = 1 .. done /\ \A i \in 1 .. done : prefix[i] = batch[i] /\ i \in DOMAIN batch
  BY <1>1, <1>2
<1> HIDE DEF prefix
<1>4. listed = {} \/ \E n : listed = {n}
  <2>1. ASSUME NEW i \in listed, NEW j \in listed PROVE i = j
    BY <1>1, <1>3
  <2> HIDE DEF listed
  <2> QED
    BY <2>1
<1>5. new = [i \in 1 .. Cardinality(listed) |-> [about |-> m, named |-> m \in ids]]
  BY DEF EventsOf
<1> HIDE DEF new
<1>6. CASE listed = {}
  <2>1. new = <<>>
    <3>1. Cardinality(listed) = 0
      BY <1>6, FS_EmptySet
    <3> HIDE DEF listed
    <3> QED
      BY <1>5, <3>1
  <2>2. "insert" \in ToSet(prefix) => "insert" \in ToSet(batch)
    BY <1>3 DEF ToSet
  <2>3. done = Len(batch) => ToSet(prefix) = ToSet(batch)
    BY <1>1, <1>3 DEF ToSet
  <2> QED
    BY <2>1, <2>2, <2>3 DEF prefix, new
<1>7. CASE listed # {}
  <2>1. PICK n \in 1 .. done : listed = {n} /\ batch[n] \in {"event", "alert"}
    BY <1>3, <1>4, <1>7
  <2>2. Cardinality(listed) = 1
    BY <2>1, FS_Singleton
  <2>3. new = <<[about |-> m, named |-> m \in ids]>>
    <3> DEFINE row == [about |-> m, named |-> m \in ids]
    <3>1. new = [i \in 1 .. Cardinality(listed) |-> row]
      BY <1>5
    <3> HIDE DEF listed, row
    <3>2. new = [i \in 1 .. 1 |-> row]
      BY <2>2, <3>1
    <3>3. new = <<row>>
      BY <3>2
    <3> QED
      BY <3>3 DEF row
  <2>4. ASSUME "insert" \in ToSet(batch) PROVE "insert" \in ToSet(prefix)
    <3>1. PICK i \in DOMAIN batch : batch[i] = "insert"
      BY <2>4 DEF ToSet
    <3>2. i < n
      BY <1>1, <1>3, <2>1, <3>1
    <3>3. i \in 1 .. done
      BY <1>1, <3>2
    <3> QED
      BY <1>3, <3>1, <3>3 DEF ToSet
  <2>5. "insert" \in ToSet(prefix) => "insert" \in ToSet(batch)
    BY <1>3 DEF ToSet
  <2> QED
    BY <2>3, <2>4, <2>5 DEF prefix, new
<1> QED
  BY <1>6, <1>7

-----------------------------------------------------------------------------
(***************************************************************************)
(* Intake: the memory of the repetitions.                                  *)
(***************************************************************************)

\* The queue is the latest of what was admitted, and the set is the queue.
DedupInv ==
  /\ admissions \in Seq(Keys) /\ order = Latest(admissions, Retained)
  /\ IsInjective(order) /\ seen = ToSet(order)
  /\ frames \in Nat /\ admitted \in Nat /\ dropped \in Nat /\ frames = admitted + dropped

LEMMA LatestIs ==
  ASSUME NEW s \in Seq(Keys), NEW n \in Nat \ {0}
  PROVE  /\ Latest(s, n) \in Seq(Keys)
         /\ Len(Latest(s, n)) = IF Len(s) > n THEN n ELSE Len(s)
         /\ \A i \in 1 .. Len(Latest(s, n)) :
              Latest(s, n)[i] = s[i + (IF Len(s) > n THEN Len(s) - n ELSE 0)]
<1> DEFINE skipped == IF Len(s) > n THEN Len(s) - n ELSE 0
<1>1. /\ skipped \in Nat /\ skipped <= Len(s) /\ Len(s) \in Nat
      /\ Len(s) - skipped = IF Len(s) > n THEN n ELSE Len(s)
  OBVIOUS
<1>2. Latest(s, n) = SubSeq(s, skipped + 1, Len(s))
  BY DEF Latest
<1> HIDE DEF skipped
<1>3. /\ SubSeq(s, skipped + 1, Len(s)) \in Seq(Keys)
      /\ Len(SubSeq(s, skipped + 1, Len(s))) = Len(s) - skipped
      /\ \A i \in 1 .. Len(s) - skipped : SubSeq(s, skipped + 1, Len(s))[i] = s[i + skipped]
  BY <1>1
<1>4. \A i \in 1 .. Len(Latest(s, n)) : Latest(s, n)[i] = s[i + skipped]
  BY <1>2, <1>3
<1> QED
  BY <1>1, <1>2, <1>3, <1>4 DEF skipped

LEMMA SameElements ==
  ASSUME NEW S, NEW s \in Seq(S), NEW t \in Seq(S), Len(s) = Len(t),
         \A i \in 1 .. Len(s) : s[i] = t[i]
  PROVE  s = t
<1>1. s = [i \in 1 .. Len(s) |-> s[i]] /\ t = [i \in 1 .. Len(t) |-> t[i]]
  OBVIOUS
<1> QED
  BY <1>1

\* One more admission, and the oldest is forgotten where there is no room for it.
LEMMA LatestOfAppend ==
  ASSUME NEW s \in Seq(Keys), NEW n \in Nat \ {0}, NEW key \in Keys
  PROVE  LET longer == Append(Latest(s, n), key)
         IN  Latest(Append(s, key), n) = IF Len(longer) > n THEN Tail(longer) ELSE longer
<1> DEFINE old == Latest(s, n)
           longer == Append(old, key)
           t == Append(s, key)
           new == Latest(t, n)
           kept == IF Len(longer) > n THEN Tail(longer) ELSE longer
<1>1. /\ old \in Seq(Keys) /\ Len(old) = (IF Len(s) > n THEN n ELSE Len(s))
      /\ \A i \in 1 .. Len(old) : old[i] = s[i + (IF Len(s) > n THEN Len(s) - n ELSE 0)]
  BY LatestIs
<1>2. /\ t \in Seq(Keys) /\ Len(t) = Len(s) + 1 /\ Len(s) \in Nat /\ t[Len(t)] = key
      /\ \A i \in 1 .. Len(s) : t[i] = s[i]
  OBVIOUS
<1>3. /\ new \in Seq(Keys) /\ Len(new) = (IF Len(t) > n THEN n ELSE Len(t))
      /\ \A i \in 1 .. Len(new) : new[i] = t[i + (IF Len(t) > n THEN Len(t) - n ELSE 0)]
  BY <1>2, LatestIs
<1> HIDE DEF old, t, new
<1>4. /\ longer \in Seq(Keys) /\ Len(longer) = Len(old) + 1 /\ longer[Len(longer)] = key
      /\ \A i \in 1 .. Len(old) : longer[i] = old[i]
  BY <1>1
<1> HIDE DEF longer
<1>5. ASSUME Len(s) < n PROVE new = kept
  <2>0. /\ Len(old) = Len(s) /\ Len(longer) = Len(s) + 1 /\ Len(new) = Len(s) + 1
        /\ \A i \in 1 .. Len(s) : old[i] = s[i]
        /\ \A i \in 1 .. Len(s) + 1 : new[i] = t[i]
    <3>1. Len(s) \in Nat /\ ~(Len(s) > n) /\ ~(Len(t) > n) /\ Len(t) = Len(s) + 1
      BY <1>2, <1>5
    <3>2. Len(old) = Len(s) /\ \A i \in 1 .. Len(s) : old[i] = s[i]
      BY <1>1, <3>1
    <3>3. Len(new) = Len(s) + 1 /\ \A i \in 1 .. Len(s) + 1 : new[i] = t[i]
      BY <1>3, <3>1
    <3>4. Len(longer) = Len(s) + 1
      BY <1>4, <3>2
    <3> QED  BY <3>2, <3>3, <3>4
  <2>1. kept = longer /\ Len(new) = Len(longer)
    BY <1>2, <1>5, <2>0
  <2>2. \A i \in 1 .. Len(new) : new[i] = longer[i]
    BY <1>2, <1>4, <2>0
  <2> QED
    <3>1. new = longer
      BY <1>3, <1>4, <2>1, <2>2, SameElements
    <3> QED
      BY <2>1, <3>1
<1>6. ASSUME Len(s) >= n PROVE new = kept
  <2>1. /\ kept = Tail(longer) /\ kept \in Seq(Keys) /\ Len(kept) = n /\ Len(new) = n
        /\ \A i \in 1 .. n : kept[i] = longer[i + 1]
    BY <1>1, <1>2, <1>3, <1>4, <1>6
  <2>2. ASSUME NEW i \in 1 .. n PROVE new[i] = kept[i]
    <3>1. new[i] = t[i + (Len(t) - n)]
      <4>1. Len(t) > n /\ i \in 1 .. Len(new)
        BY <1>2, <1>6, <2>1
      <4> QED
        BY <1>3, <4>1
    <3>2. CASE i = n
      BY <1>1, <1>2, <1>4, <1>6, <2>1, <3>1, <3>2
    <3>3. CASE i < n
      <4>1. longer[i + 1] = old[i + 1]
        BY <1>1, <1>4, <1>6, <3>3
      <4>2. old[i + 1] = s[i + 1 + (Len(s) - n)]
        BY <1>1, <1>2, <1>6, <3>3
      <4>3. i + (Len(t) - n) = i + 1 + (Len(s) - n) /\ i + 1 + (Len(s) - n) \in 1 .. Len(s)
        <5>1. i \in Int /\ i >= 1 /\ i < n /\ Len(t) = Len(s) + 1 /\ Len(s) \in Nat
          BY <1>2, <3>3
        <5> HIDE DEF t
        <5> QED
          BY <1>6, <5>1
      <4> QED
        BY <1>2, <2>1, <3>1, <4>1, <4>2, <4>3
    <3> QED
      BY <3>2, <3>3
  <2> QED
    <3> HIDE DEF kept
    <3>1. \A i \in 1 .. Len(new) : new[i] = kept[i]
      BY <2>1, <2>2
    <3>2. kept \in Seq(Keys) /\ Len(new) = Len(kept)
      BY <2>1
    <3> QED
      BY <1>3, <3>1, <3>2, SameElements
<1>7. new = kept
  BY <1>2, <1>5, <1>6
<1> QED
  BY <1>7 DEF old, t, new, longer

\* What is dropped was not forgotten, and what is admitted is new.
LEMMA AdmitKeeps ==
  ASSUME DedupInv, NEW key \in Keys, key \notin seen, Admit(key), frames' = frames + 1
  PROVE  DedupInv' /\ seen' \subseteq seen \cup {key}
<1> DEFINE longer == Append(order, key)
<1>1. /\ order \in Seq(Keys) /\ Len(order) <= Retained /\ Retained \in Nat \ {0}
      /\ Len(order) \in Nat
  BY LatestIs, IntakeAssumption DEF DedupInv
<1>2. /\ longer \in Seq(Keys) /\ DOMAIN longer = 1 .. Len(order) + 1 /\ longer # <<>>
      /\ DOMAIN order = 1 .. Len(order)
      /\ longer[Len(order) + 1] = key /\ \A i \in DOMAIN order : longer[i] = order[i]
      /\ Len(longer) = Len(order) + 1
  BY <1>1
<1>3. admissions' = Append(admissions, key) /\ admissions' \in Seq(Keys)
  BY DEF Admit, DedupInv
<1>4. order' = IF Len(longer) > Retained THEN Tail(longer) ELSE longer
  BY DEF Admit, Remember
<1>5. seen' = IF Len(longer) > Retained THEN (seen \cup {key}) \ {Head(longer)}
                                         ELSE seen \cup {key}
  BY DEF Admit, Remember
<1>6. order' = Latest(admissions', Retained)
  BY <1>1, <1>3, <1>4, LatestOfAppend DEF DedupInv
<1> HIDE DEF longer
<1>7. IsInjective(longer) /\ ToSet(longer) = seen \cup {key}
  <2>1. seen = {order[i] : i \in DOMAIN order}
    BY DEF DedupInv, ToSet
  <2>2. \A i \in DOMAIN order : order[i] # key
    BY <2>1
  <2>3. IsInjective(longer)
    BY <1>2, <2>2 DEF IsInjective, DedupInv
  <2>4. ToSet(longer) = seen \cup {key}
    BY <1>1, <1>2, <2>1 DEF ToSet
  <2> QED
    BY <2>3, <2>4
<1>8. CASE Len(longer) > Retained
  <2> DEFINE shorter == Tail(longer)
  <2>1. /\ DOMAIN shorter = 1 .. Len(order) /\ Head(longer) = longer[1]
        /\ \A i \in DOMAIN shorter : shorter[i] = longer[i + 1] /\ i + 1 \in DOMAIN longer
        /\ 1 \in DOMAIN longer
    BY <1>1, <1>2
  <2> HIDE DEF shorter
  <2>2. IsInjective(shorter)
    <3>1. ASSUME NEW i \in DOMAIN shorter, NEW k \in DOMAIN shorter, shorter[i] = shorter[k]
          PROVE  i = k
      <4>1. i + 1 = k + 1
        BY <1>7, <2>1, <3>1 DEF IsInjective
      <4> QED
        BY <2>1, <4>1
    <3> QED
      BY <3>1 DEF IsInjective
  <2>3. ToSet(shorter) = ToSet(longer) \ {longer[1]}
    <3>1. ASSUME NEW i \in DOMAIN shorter
          PROVE  shorter[i] \in ToSet(longer) /\ shorter[i] # longer[1]
      <4>1. i + 1 # 1
        BY <2>1
      <4> QED
        BY <1>7, <2>1, <4>1 DEF IsInjective, ToSet
    <3>2. ASSUME NEW i \in DOMAIN longer, i # 1 PROVE longer[i] \in ToSet(shorter)
      <4>1. i - 1 \in DOMAIN shorter /\ (i - 1) + 1 = i
        BY <1>2, <2>1, <3>2
      <4> QED
        BY <2>1, <4>1 DEF ToSet
    <3> QED
      BY <3>1, <3>2 DEF ToSet
  <2>4. order' = shorter /\ seen' = (seen \cup {key}) \ {longer[1]}
    BY <1>4, <1>5, <1>8, <2>1 DEF shorter
  <2> QED
    BY <1>3, <1>6, <1>7, <2>2, <2>3, <2>4 DEF DedupInv, Admit
<1>9. CASE ~(Len(longer) > Retained)
  BY <1>3, <1>4, <1>5, <1>6, <1>7, <1>9 DEF DedupInv, Admit
<1> QED
  BY <1>8, <1>9

LEMMA SeenIsBounded == DedupInv => seen \subseteq Keys /\ Cardinality(seen) <= Retained
<1> SUFFICES ASSUME DedupInv PROVE seen \subseteq Keys /\ Cardinality(seen) <= Retained
  OBVIOUS
<1>1. /\ order \in Seq(Keys) /\ Len(order) <= Retained /\ Retained \in Nat \ {0}
      /\ Len(order) \in Nat
  BY LatestIs, IntakeAssumption DEF DedupInv
<1>2. seen = {order[i] : i \in 1 .. Len(order)} /\ seen \subseteq Keys
  BY <1>1 DEF DedupInv, ToSet
<1>3. order \in Surjection(1 .. Len(order), seen)
  BY <1>1, <1>2 DEF Surjection
<1>4. /\ IsFiniteSet(1 .. Len(order)) /\ Cardinality(1 .. Len(order)) = Len(order)
  <2>1. ASSUME NEW n \in Nat PROVE IsFiniteSet(1 .. n) /\ Cardinality(1 .. n) = n
    <3>1. 1 \in Int /\ n \in Int
      OBVIOUS
    <3>2. IsFiniteSet(1 .. n) /\ Cardinality(1 .. n) = IF 1 > n THEN 0 ELSE n - 1 + 1
      BY <3>1, FS_Interval
    <3> QED
      BY <3>2
  <2> QED
    BY <1>1, <2>1
<1>5. IsFiniteSet(seen) /\ Cardinality(seen) <= Len(order)
  BY <1>3, <1>4, FS_Surjection
<1>6. Cardinality(seen) \in Nat
  BY <1>5, FS_CardinalityType
<1> QED
  BY <1>1, <1>2, <1>5, <1>6

-----------------------------------------------------------------------------
(***************************************************************************)
(* Intake: the rows, the bus and the resolver.                             *)
(***************************************************************************)

\* What is stored and told.  A device that has no row is one whose insert failed.
StoreInv ==
  /\ rowId \subseteq device /\ device \subseteq Hosts /\ device \ rowId \subseteq unborn
  /\ stored \in Seq(Rows) /\ announced \in Seq(Nat)
  /\ \A i \in DOMAIN announced : announced[i] \in DOMAIN stored
  /\ \A i \in 1 .. Len(announced) - 1 : announced[i] < announced[i + 1]
  /\ counted \in Nat /\ alarms \in Nat /\ faults \in Nat
  /\ Len(announced) = counted + alarms /\ Len(stored) - Len(announced) <= faults
  /\ AlertsNameTheirDevice

\* Whatever refers to a host by its address refers to a device that was heard.
KnownHosts ==
  /\ \A key \in seen : key[1] \in device
  /\ signals \in Seq(Hosts) /\ \A i \in DOMAIN signals : signals[i] \in device

\* An address that nobody has asked about is looked up by nobody, and one that is
\* being looked up was not queried before.
LookupInv ==
  /\ lookups \subseteq device \X Addresses /\ asked \subseteq Addresses
  /\ queries \in [Addresses -> {0, 1}]
  /\ \A a \in Addresses \ asked : queries[a] = 0 /\ \A m \in Hosts : <<m, a>> \notin lookups
  /\ \A a \in Addresses : \A m, w \in Hosts :
       <<m, a>> \in lookups /\ <<w, a>> \in lookups => m = w
  /\ \A m \in Hosts, a \in Addresses : <<m, a>> \in lookups => queries[a] = 0

IntakeInv == second \in Nat /\ DedupInv /\ StoreInv /\ KnownHosts /\ LookupInv

\* A batch about a device of the table, or about one it inserts.
LEMMA ApplyBatchKeeps ==
  ASSUME StoreInv, NEW m \in Hosts, NEW batch \in AllBatches, NEW done \in 0 .. Len(batch),
         Apply(m, batch, done), device' = device \cup {m},
         m \in device <=> "insert" \notin ToSet(batch)
  PROVE  StoreInv'
<1> DEFINE prefix == SubSeq(batch, 1, done)
           ids == IF "insert" \in ToSet(prefix) THEN rowId \cup {m} ELSE rowId
           new == EventsOf(prefix, m, ids)
           row == [about |-> m, named |-> m \in ids]
<1>1. /\ done < Len(batch) => faults < MaxFaults
      /\ faults' = IF done = Len(batch) THEN faults ELSE faults + 1
      /\ rowId' = ids
      /\ unborn' = IF "insert" \in ToSet(batch) /\ m \notin ids THEN unborn \cup {m} ELSE unborn
      /\ stored' = stored \o new
      /\ announced' = Announce(batch, done, Len(stored), Len(stored) + Len(new))
      /\ LET count == IF done = Len(batch) THEN Len(new) ELSE 0
         IN IF ToSet(batch) = {"alert"}
            THEN alarms' = alarms + count /\ counted' = counted
            ELSE counted' = counted + count /\ alarms' = alarms
  BY DEF Apply
<1>2. /\ new = <<>> \/ new = <<row>>
      /\ "insert" \in ToSet(prefix) => "insert" \in ToSet(batch)
      /\ "insert" \in ToSet(batch) /\ new # <<>> => "insert" \in ToSet(prefix)
      /\ "insert" \in ToSet(batch) /\ done = Len(batch) => "insert" \in ToSet(prefix)
  BY OneEventAtMost
<1> HIDE DEF prefix
<1>3. /\ rowId' \subseteq device' /\ device' \subseteq Hosts /\ device' \ rowId' \subseteq unborn'
      /\ rowId \subseteq rowId' /\ unborn \subseteq unborn'
  BY <1>1, <1>2 DEF StoreInv
<1>4. row \in Rows /\ row.about = m /\ (row.named <=> m \in ids)
  <2> HIDE DEF ids
  <2>1. CASE m \in ids
    <3>1. row = [about |-> m, named |-> TRUE]
      BY <2>1
    <3> QED
      BY <2>1, <3>1 DEF Rows
  <2>2. CASE m \notin ids
    <3>1. row = [about |-> m, named |-> FALSE]
      <4>1. (m \in ids) = FALSE
        BY <2>2
      <4> QED
        BY <4>1
    <3> QED
      BY <2>2, <3>1 DEF Rows
  <2> QED
    BY <2>1, <2>2
<1>5. new # <<>> /\ m \notin ids => m \in unborn'
  BY <1>1, <1>2 DEF StoreInv
<1> HIDE DEF ids, new, row
<1>6. stored \in Seq(Rows) /\ announced \in Seq(Nat)
  BY DEF StoreInv
<1>7. CASE new = <<>>
  <2>1. Len(new) = 0 /\ stored' = stored
    BY <1>1, <1>6, <1>7
  <2>2. announced' = announced
    <3>1. [i \in 1 .. Len(stored) + Len(new) - Len(stored) |-> Len(stored) + i] = <<>>
      BY <1>6, <2>1
    <3>2. \/ announced' = announced \o [i \in 1 .. Len(stored) + Len(new) - Len(stored) |->
                                            Len(stored) + i]
          \/ announced' = announced
      BY <1>1 DEF Announce
    <3>3. announced \o <<>> = announced
      BY <1>6
    <3> QED
      BY <3>1, <3>2, <3>3
  <2>3. counted' = counted /\ alarms' = alarms /\ faults' \in {faults, faults + 1}
    BY <1>1, <2>1 DEF StoreInv
  <2>4. AlertsNameTheirDevice'
    BY <1>3, <2>1 DEF StoreInv, AlertsNameTheirDevice
  <2> QED
    BY <1>3, <1>6, <2>1, <2>2, <2>3, <2>4 DEF StoreInv
<1>8. CASE new = <<row>>
  <2> DEFINE n == Len(stored)
  <2>1. Len(new) = 1 /\ stored' = Append(stored, row) /\ n \in Nat
    BY <1>1, <1>4, <1>6, <1>8
  <2>2. /\ stored' \in Seq(Rows) /\ DOMAIN stored' = DOMAIN stored \cup {n + 1}
        /\ DOMAIN stored = 1 .. n /\ Len(stored') = n + 1
        /\ stored'[n + 1] = row /\ \A i \in DOMAIN stored : stored'[i] = stored[i]
    BY <1>4, <1>6, <2>1
  <2>3. AlertsNameTheirDevice'
    BY <1>3, <1>4, <1>5, <1>8, <2>2 DEF StoreInv, AlertsNameTheirDevice
  <2>4. CASE done = Len(batch)
    <3>1. announced' = Append(announced, n + 1)
      <4>1. [i \in 1 .. n + Len(new) - n |-> n + i] = <<n + 1>>
        BY <2>1
      <4>2. announced' = announced \o [i \in 1 .. n + Len(new) - n |-> n + i]
        BY <1>1, <2>4 DEF Announce
      <4>3. announced' = announced \o <<n + 1>>
        BY <4>1, <4>2
      <4> HIDE DEF n
      <4> QED
        BY <1>6, <2>1, <4>3
    <3>2. /\ announced' \in Seq(Nat) /\ Len(announced') = Len(announced) + 1
          /\ announced'[Len(announced) + 1] = n + 1
          /\ \A i \in DOMAIN announced : announced'[i] = announced[i]
          /\ DOMAIN announced' = DOMAIN announced \cup {Len(announced) + 1}
          /\ DOMAIN announced = 1 .. Len(announced) /\ Len(announced) \in Nat
      BY <1>6, <2>1, <3>1
    <3>3. \A i \in DOMAIN announced' : announced'[i] \in DOMAIN stored'
      BY <2>2, <3>2 DEF StoreInv
    <3>4. ASSUME NEW i \in 1 .. Len(announced') - 1 PROVE announced'[i] < announced'[i + 1]
      <4>1. i \in DOMAIN announced /\ announced'[i] = announced[i]
        BY <3>2
      <4>2. CASE i = Len(announced)
        <5>1. announced[i] \in 1 .. n
          BY <2>2, <4>1 DEF StoreInv
        <5> QED
          BY <2>1, <3>2, <4>1, <4>2, <5>1
      <4>3. CASE i # Len(announced)
        <5>1. i \in 1 .. Len(announced) - 1 /\ i + 1 \in DOMAIN announced
          <6>1. i \in 1 .. Len(announced) /\ Len(announced) \in Nat
            BY <3>2, <4>1
          <6>2. i \in 1 .. Len(announced) - 1 /\ i + 1 \in 1 .. Len(announced)
            BY <4>3, <6>1
          <6> QED
            BY <3>2, <6>2
        <5> QED
          BY <3>2, <4>1, <5>1 DEF StoreInv
      <4> QED
        BY <4>2, <4>3
    <3>5. /\ counted' \in Nat /\ alarms' \in Nat /\ faults' = faults
          /\ counted' + alarms' = counted + alarms + 1
      BY <1>1, <2>1, <2>4 DEF StoreInv
    <3>6. Len(stored') - Len(announced') <= faults'
      BY <2>1, <2>2, <3>2, <3>5 DEF StoreInv
    <3>7. Len(announced') = counted' + alarms'
      BY <3>2, <3>5 DEF StoreInv
    <3> HIDE DEF n
    <3> QED
      BY <1>3, <2>2, <2>3, <3>2, <3>3, <3>4, <3>5, <3>6, <3>7 DEF StoreInv
  <2>5. CASE done # Len(batch)
    <3>1. announced' = announced /\ counted' = counted /\ alarms' = alarms /\ faults' = faults + 1
      BY <1>1, <2>5 DEF Announce, StoreInv
    <3>2. Len(stored') - Len(announced') <= faults'
      BY <1>6, <2>1, <2>2, <3>1 DEF StoreInv
    <3> HIDE DEF n
    <3> QED
      BY <1>3, <2>2, <2>3, <3>1, <3>2 DEF StoreInv
  <2> QED
    BY <2>4, <2>5
<1> QED
  BY <1>2, <1>7, <1>8

LEMMA OneBatchInserts ==
  ASSUME NEW batch \in AllBatches
  PROVE  "insert" \in ToSet(batch) <=> batch = <<"insert", "event", "write">>
<1>1. CASE batch = <<"insert", "event", "write">>
  <2>1. 1 \in DOMAIN batch /\ batch[1] = "insert"
    BY <1>1
  <2> QED
    BY <1>1, <2>1 DEF ToSet
<1>2. CASE batch \in {<<"write">>, <<"alert">>}
  <2>1. DOMAIN batch = {1} /\ batch[1] # "insert" /\ Len(batch) = 1
    BY <1>2
  <2> QED
    BY <2>1 DEF ToSet
<1>3. CASE batch \in {<<"event", "write">>, <<"write", "event">>}
  <2>1. DOMAIN batch = {1, 2} /\ batch[1] # "insert" /\ batch[2] # "insert" /\ Len(batch) = 2
    BY <1>3
  <2> QED
    BY <2>1 DEF ToSet
<1> QED
  BY <1>1, <1>2, <1>3 DEF AllBatches

\* Batches about a device that is known.
LEMMA ApplyKnownKeeps ==
  ASSUME StoreInv, NEW m \in device, NEW batch \in AllBatches, NEW done \in 0 .. Len(batch),
         Apply(m, batch, done), device' = device, batch # <<"insert", "event", "write">>
  PROVE  StoreInv'
<1>1. m \in Hosts /\ device' = device \cup {m}
  BY DEF StoreInv
<1> QED
  BY <1>1, OneBatchInserts, ApplyBatchKeeps

LEMMA ObservedKeeps ==
  ASSUME IntakeInv, NEW m \in Hosts, NEW kind \in ObsKinds, NEW at \in 0 .. second,
         NEW a \in Addresses \cup {NoAddress}, Observed(m, kind, a, at)
  PROVE  IntakeInv'
<1> DEFINE key == KeyOf(m, kind, at)
<1>1. key \in Keys /\ key[1] = m /\ second' = second /\ frames' = frames + 1
  BY DEF KeyOf, Keys, Observed, IntakeInv
<1> HIDE DEF key
<1>2. CASE key \in seen
  <2>1. Drop /\ UNCHANGED <<storeVars, lookupVars>>
    BY <1>2 DEF Observed, key
  <2>2. DedupInv'
    BY <1>1, <2>1 DEF IntakeInv, DedupInv, Drop
  <2>3. UNCHANGED <<seen, device, rowId, unborn, stored, announced, counted, alarms, faults,
                    asked, lookups, queries, signals>>
    BY <2>1 DEF Drop, storeVars, lookupVars
  <2> QED
    BY <1>1, <2>2, <2>3 DEF IntakeInv, StoreInv, AlertsNameTheirDevice, KnownHosts, LookupInv
<1>3. CASE key \notin seen
  <2>1. /\ Admit(key)
        /\ IF AskOnce(m, a)
           THEN asked' = asked \cup {a} /\ lookups' = lookups \cup {<<m, a>>}
           ELSE UNCHANGED <<asked, lookups>>
        /\ device' = device \cup {m}
        /\ \E batch \in Batches(m) : \E done \in 0 .. Len(batch) : Apply(m, batch, done)
        /\ UNCHANGED <<queries, cache, signals>>
    BY <1>3 DEF Observed, key
  <2>2. DedupInv' /\ seen' \subseteq seen \cup {key}
    BY <1>1, <1>3, <2>1, AdmitKeeps DEF IntakeInv
  <2>3. StoreInv'
    <3>1. PICK batch \in Batches(m) : \E done \in 0 .. Len(batch) : Apply(m, batch, done)
      BY <2>1
    <3>2. batch \in AllBatches /\ (m \in device <=> batch # <<"insert", "event", "write">>)
      BY DEF Batches, AllBatches
    <3> QED
      BY <2>1, <3>1, <3>2, OneBatchInserts, ApplyBatchKeeps DEF IntakeInv
  <2>4. KnownHosts'
    BY <1>1, <2>1, <2>2 DEF IntakeInv, KnownHosts
  <2>5. LookupInv'
    <3>1. CASE AskOnce(m, a)
      <4>1. /\ a \in Addresses /\ a \notin asked /\ asked' = asked \cup {a}
            /\ lookups' = lookups \cup {<<m, a>>} /\ UNCHANGED queries
        BY <2>1, <3>1 DEF AskOnce
      <4>2. queries[a] = 0 /\ \A w \in Hosts : <<w, a>> \notin lookups
        BY <4>1 DEF IntakeInv, LookupInv
      <4>3. device' = device \cup {m} /\ LookupInv
        BY <2>1 DEF IntakeInv
      <4> QED
        BY <4>1, <4>2, <4>3 DEF LookupInv
    <3>2. CASE ~AskOnce(m, a)
      BY <2>1, <3>2 DEF IntakeInv, LookupInv
    <3> QED
      BY <3>1, <3>2
  <2> QED
    BY <1>1, <2>2, <2>3, <2>4, <2>5 DEF IntakeInv
<1> QED
  BY <1>2, <1>3

LEMMA AlarmKeeps ==
  ASSUME IntakeInv, NEW m \in Hosts, NEW kind \in ObsKinds, NEW at \in 0 .. second,
         Alarm(m, kind, at)
  PROVE  IntakeInv'
<1>1. KeyOf(m, kind, at)[1] = m /\ KeyOf(m, kind, at) \in seen
  BY DEF KeyOf, Alarm
<1>2. m \in device
  BY <1>1 DEF IntakeInv, KnownHosts
<1>3. PICK done \in 0 .. 1 : Apply(m, <<"alert">>, done)
  BY DEF Alarm
<1>4. <<"alert">> \in AllBatches /\ done \in 0 .. Len(<<"alert">>)
      /\ <<"alert">> # <<"insert", "event", "write">>
  BY DEF AllBatches
<1>5. StoreInv'
  <2>1. StoreInv /\ device' = device
    BY DEF IntakeInv, Alarm
  <2> QED
    BY <1>2, <1>3, <1>4, <2>1, ApplyKnownKeeps
<1>6. UNCHANGED <<second, seen, order, dropped, admissions, frames, admitted, device, asked,
                  lookups, queries, cache, signals>>
  BY DEF Alarm, dedupVars, lookupVars
<1>7. DedupInv' /\ KnownHosts' /\ LookupInv'
  BY <1>6 DEF IntakeInv, DedupInv, KnownHosts, LookupInv
<1> QED
  BY <1>5, <1>6, <1>7 DEF IntakeInv

\* The first use of an address is the only one that queries it.
LEMMA LookupKeeps ==
  ASSUME IntakeInv, NEW m \in Hosts, NEW a \in Addresses, Lookup(m, a)
  PROVE  IntakeInv'
<1>1. /\ <<m, a>> \in lookups /\ lookups' = lookups \ {<<m, a>>}
      /\ queries' = queries \/ queries' = [queries EXCEPT ![a] = @ + 1]
      /\ signals' \in {signals, Append(signals, m)}
      /\ UNCHANGED <<second, seen, order, dropped, admissions, frames, admitted, device, rowId,
                     unborn, stored, announced, counted, alarms, faults, asked>>
  BY DEF Lookup, dedupVars, storeVars
<1>2. LookupInv /\ m \in device /\ a \in asked /\ queries[a] = 0
  BY <1>1 DEF IntakeInv, LookupInv
<1>3. /\ queries' \in [Addresses -> {0, 1}]
      /\ \A b \in Addresses \ {a} : queries'[b] = queries[b]
  BY <1>1, <1>2 DEF LookupInv
<1>4. \A w \in Hosts : <<w, a>> \notin lookups'
  BY <1>1, <1>2 DEF LookupInv
<1>5. LookupInv'
  BY <1>1, <1>2, <1>3, <1>4 DEF LookupInv
<1>6. KnownHosts'
  BY <1>1, <1>2 DEF IntakeInv, KnownHosts
<1>7. DedupInv' /\ StoreInv'
  BY <1>1 DEF IntakeInv, DedupInv, StoreInv, AlertsNameTheirDevice
<1> QED
  BY <1>1, <1>5, <1>6, <1>7 DEF IntakeInv

LEMMA SignalKeeps == ASSUME IntakeInv, TakeSignal PROVE IntakeInv'
<1>1. /\ signals # <<>> /\ signals' = Tail(signals)
      /\ UNCHANGED <<second, seen, order, dropped, admissions, frames, admitted, device, asked,
                     lookups, queries, cache>>
  BY DEF TakeSignal, dedupVars
<1>2. signals \in Seq(Hosts) /\ \A i \in DOMAIN signals : signals[i] \in device
  BY DEF IntakeInv, KnownHosts
<1>3. Head(signals) \in device
  BY <1>1, <1>2
<1>4. StoreInv'
  <2>1. PICK batch \in {<<"write">>, <<"write", "event">>} : \E done \in 0 .. Len(batch) :
          Apply(Head(signals), batch, done)
    BY DEF TakeSignal
  <2>2. batch \in AllBatches /\ batch # <<"insert", "event", "write">>
    BY DEF AllBatches
  <2> QED
    BY <1>1, <1>3, <2>1, <2>2, ApplyKnownKeeps DEF IntakeInv
<1>5. KnownHosts'
  <2>1. /\ signals' \in Seq(Hosts)
        /\ \A i \in DOMAIN signals' : i + 1 \in DOMAIN signals /\ signals'[i] = signals[i + 1]
    BY <1>1, <1>2
  <2> QED
    BY <1>1, <1>2, <2>1 DEF IntakeInv, KnownHosts
<1>6. DedupInv' /\ LookupInv'
  BY <1>1 DEF IntakeInv, DedupInv, LookupInv
<1> QED
  BY <1>1, <1>4, <1>5, <1>6 DEF IntakeInv

LEMMA IntakeInvKept == IntakeInv /\ [IntakeNext]_intakeVars => IntakeInv'
<1> SUFFICES ASSUME IntakeInv, [IntakeNext]_intakeVars PROVE IntakeInv'
  OBVIOUS
<1>1. CASE NextSecond \/ UNCHANGED intakeVars
  <2>1. UNCHANGED <<dedupVars, storeVars, lookupVars>> /\ second' \in Nat
    BY <1>1 DEF NextSecond, intakeVars, IntakeInv
  <2> QED
    BY <2>1 DEF IntakeInv, DedupInv, StoreInv, AlertsNameTheirDevice, KnownHosts, LookupInv,
       dedupVars, storeVars, lookupVars
<1>2. ASSUME NEW m \in Hosts, NEW kind \in ObsKinds, NEW at \in 0 .. second,
             (\E a \in Addresses \cup {NoAddress} : Observed(m, kind, a, at)) \/ Alarm(m, kind, at)
      PROVE  IntakeInv'
  BY <1>2, ObservedKeeps, AlarmKeeps
<1>3. ASSUME NEW m \in Hosts, NEW a \in Addresses, Lookup(m, a) PROVE IntakeInv'
  BY <1>3, LookupKeeps
<1>4. CASE TakeSignal
  BY <1>4, SignalKeeps
<1> QED
  BY <1>1, <1>2, <1>3, <1>4 DEF IntakeNext

LEMMA IntakeInvInit == IntakeInit => IntakeInv
<1> SUFFICES ASSUME IntakeInit PROVE IntakeInv
  OBVIOUS
<1>1. Latest(<<>>, Retained) = <<>>
  BY IntakeAssumption DEF Latest
<1>2. DedupInv
  BY <1>1 DEF IntakeInit, DedupInv, IsInjective, ToSet
<1>3. StoreInv
  BY DEF IntakeInit, StoreInv, AlertsNameTheirDevice
<1>4. KnownHosts /\ LookupInv
  BY DEF IntakeInit, KnownHosts, LookupInv
<1> QED
  BY <1>2, <1>3, <1>4 DEF IntakeInit, IntakeInv

\* From the channel to the bus every observation is counted once, remembered as
\* long as promised, stored before it is told, and looked up once (daemon.rs run,
\* apply, asked_for_rdns; capture/dedup.rs; device/persist.rs).
THEOREM IntakeIsSafe == IntakeSpec => [](IntakeTypeOK /\ IntakeKeepsAccount)
<1>1. IntakeInv => IntakeTypeOK /\ IntakeKeepsAccount
  <2> SUFFICES ASSUME IntakeInv PROVE IntakeTypeOK /\ IntakeKeepsAccount
    OBVIOUS
  <2>1. IntakeTypeOK
    BY SeenIsBounded DEF IntakeInv, StoreInv, LookupInv, IntakeTypeOK, Rows, ToSet
  <2>2. RemembersTheLatest
    BY DEF IntakeInv, DedupInv, RemembersTheLatest
  <2>3. WhatIsCountedIsPublished
    BY DEF IntakeInv, DedupInv, StoreInv, WhatIsCountedIsPublished
  <2>4. OneQueryPerAddress
    BY DEF IntakeInv, LookupInv, OneQueryPerAddress
  <2> QED
    BY <2>1, <2>2, <2>3, <2>4 DEF IntakeInv, StoreInv, IntakeKeepsAccount
<1> QED
  BY <1>1, IntakeInvInit, IntakeInvKept, PTL DEF IntakeSpec

-----------------------------------------------------------------------------
\* The types of the three, where a behaviour is one of either (MCDaemon).
THEOREM DaemonTypes == DaemonSpec => []DaemonTypesHold
<1> DEFINE Inv == IntakeInv /\ LoopInv /\ NotifierInv
<1>1. DaemonInit => Inv
  BY IntakeInvInit, LoopInvInit, NotifierInvInit DEF DaemonInit
<1>2. Inv /\ [DaemonNext]_daemonVars => Inv'
  <2>1. [DaemonNext]_daemonVars =>
          [IntakeNext]_intakeVars /\ [RunLoopNext]_loopVars /\ [Next]_vars
    BY DEF DaemonNext, daemonVars
  <2> QED
    BY <2>1, IntakeInvKept, LoopInvKept, NotifierInvKept
<1>3. Inv => DaemonTypesHold
  <2>1. IntakeInv => IntakeTypeOK
    BY SeenIsBounded DEF IntakeInv, StoreInv, LookupInv, IntakeTypeOK, Rows, ToSet
  <2> QED
    BY <2>1 DEF LoopInv, NotifierInv, DaemonTypesHold
<1> HIDE DEF Inv
<1> QED
  BY <1>1, <1>2, <1>3, PTL DEF DaemonSpec
=============================================================================
