----------------------- MODULE DeviceLifecycleProofs -----------------------
(***************************************************************************)
(* The device table and its copy in Postgres, proved for every set of      *)
(* devices and access points, every timeout, and any number of crashes and *)
(* failed statements.                                                      *)
(*                                                                         *)
(* The argument: what is left of a batch still agrees with the table it    *)
(* was made from (BatchFits), nothing is written about a device before its *)
(* row (NothingBeforeTheRow), and what a dead process leaves behind is     *)
(* what a restart may trust (SavedFollows).  One lemma per action shows    *)
(* that it keeps all of this for the device it acts on; Frame shows that   *)
(* it keeps it for every other device.                                     *)
(*                                                                         *)
(* Without faults, more is true: what is left of a batch says what has     *)
(* been told of its device so far (StoryFits), and that is why every step  *)
(* is a step of the presence ledger.                                       *)
(***************************************************************************)
EXTENDS LifecycleLedger, TLAPS

(***************************************************************************)
(* Types.                                                                  *)
(***************************************************************************)
\* Every batch of effects is made of statements the persister knows.
LEMMA Batches ==
  ASSUME NEW a \in APs \cup {NoAP}
  PROVE  /\ DiscoverBatch \in Seq(Statements)
         /\ ReturnBatch \in Seq(Statements)
         /\ OfflineBatch(a) \in Seq(Statements)
         /\ a \in APs => MoveBatch(a) \in Seq(Statements)
<1>1. /\ Effect("insert_device", NoAP) \in Statements
      /\ Effect("open_presence", NoAP) \in Statements
      /\ Effect("close_presence", NoAP) \in Statements
      /\ Effect("close_location", NoAP) \in Statements
      /\ a \in APs => Effect("insert_location", a) \in Statements
      /\ \A k \in Events : Effect("insert_event", k) \in Statements
  BY DEF Statements
<1>2. /\ "new_device" \in Events /\ "returned" \in Events
      /\ "went_offline" \in Events /\ "device_location_changed" \in Events
  BY DEF Events, PresenceEvents
<1>3. /\ DiscoverBatch \in Seq(Statements)
      /\ ReturnBatch \in Seq(Statements)
      /\ a \in APs => MoveBatch(a) \in Seq(Statements)
  BY <1>1, <1>2 DEF DiscoverBatch, ReturnBatch, MoveBatch
<1>4. OfflineBatch(a) \in Seq(Statements)
  BY <1>1, <1>2 DEF OfflineBatch
<1> QED BY <1>3, <1>4

\* What is left of a batch after one statement is again such a batch.
LEMMA HeadTail ==
  ASSUME NEW m \in Devices, TypeOK, todo[m] # <<>>
  PROVE  /\ Head(todo[m]) \in Statements
         /\ Tail(todo[m]) \in Seq(Statements)
BY DEF TypeOK

\* A statement about a move names an access point, an event has a kind, and
\* every statement writes one facet.
LEMMA StatementArgs ==
  ASSUME NEW e \in Statements
  PROVE  /\ e.op = "insert_location" => e.arg \in APs
         /\ e.op = "insert_event" => e.arg \in Events
         /\ FacetOf(e) \in Facets
BY DEF Statements, Effect, FacetOf, Facets

\* What a device still has to be written are facets.
LEMMA PendingFacets ==
  ASSUME NEW m \in Devices, TypeOK
  PROVE  Pending(m) \subseteq Facets
<1>1. \A i \in DOMAIN todo[m] : todo[m][i] \in Statements
  BY DEF TypeOK
<1> QED BY <1>1, StatementArgs DEF Pending

\* The empty database and the daemon that has not started are well typed.
LEMMA TypeInit == Init => TypeOK
<1> SUFFICES ASSUME Init PROVE TypeOK
  OBVIOUS
<1> USE TimeoutsAssumption, BoundsAssumption DEF Init, TypeOK, Each
<1>1. /\ todo \in [Devices -> Seq(Statements)]
      /\ state \in [Devices -> States]
  BY DEF States
<1>2. row \in [Devices -> [state : States, silence : 0 .. MaxSilence,
                          ap : APs \cup {NoAP}]]
  BY DEF States
<1>3. log \in [Devices -> [kind : PresenceEvents \cup {"none"}, odd : BOOLEAN]]
  OBVIOUS
<1>4. torn \in [Devices -> SUBSET Facets]
  OBVIOUS
<1>5. /\ silence \in [Devices -> 0 .. MaxSilence]
      /\ ap \in [Devices -> APs \cup {NoAP}]
  OBVIOUS
<1>8. /\ up \in BOOLEAN /\ dirty \in [Devices -> BOOLEAN]
  BY Zenon
<1>6. /\ ids \subseteq Devices /\ cursor \in Devices \cup {NoDevice}
      /\ flushing \subseteq Devices /\ stay \in [Devices -> APs \cup {NoAP}]
  OBVIOUS
<1>7. /\ session \in [Devices -> Nat] /\ announced \in [Devices -> Nat]
      /\ stops \in 0 .. MaxStops /\ failures \in 0 .. MaxFailures
  OBVIOUS
<1> QED BY ONLY <1>1, <1>2, <1>3, <1>4, <1>5, <1>6, <1>7, <1>8 DEF TypeOK

\* Every step of the daemon and of its environment keeps the types.
LEMMA TypeNext == TypeOK /\ [Next]_vars => TypeOK'
<1> SUFFICES ASSUME TypeOK, [Next]_vars PROVE TypeOK'
  OBVIOUS
<1> USE TimeoutsAssumption, BoundsAssumption
<1>1. CASE Tick
  <2> USE <1>1 DEF Tick
  <2>1. \A n \in 0 .. MaxSilence : Older(n) \in 0 .. MaxSilence
    BY DEF Older
  <2>2. silence' \in [Devices -> 0 .. MaxSilence]
    BY <2>1 DEF TypeOK
  <2>3. row' \in [Devices -> [state : States, silence : 0 .. MaxSilence,
                             ap : APs \cup {NoAP}]]
    <3> DEFINE Rows == [state : States, silence : 0 .. MaxSilence,
                        ap : APs \cup {NoAP}]
    <3>1. \A r \in Rows : [r EXCEPT !.silence = Older(@)] \in Rows
      BY <2>1
    <3>2. row \in [Devices -> Rows]
      BY DEF TypeOK
    <3>3. row' = [m \in Devices |-> IF row[m].state = "absent" THEN row[m]
                                    ELSE [row[m] EXCEPT !.silence = Older(@)]]
      OBVIOUS
    <3> HIDE DEF Rows
    <3>4. row' \in [Devices -> Rows]
      BY <3>1, <3>2, <3>3
    <3> QED BY <3>4 DEF Rows
  <2> QED BY <2>2, <2>3 DEF TypeOK, persister, history
<1>2. ASSUME NEW m \in Devices, NEW lag \in 0 .. MaxLag, Discover(m, lag)
      PROVE  TypeOK'
  <2>1. DiscoverBatch \in Seq(Statements)
    BY Batches
  <2>2. /\ todo' \in [Devices -> Seq(Statements)]
        /\ silence' \in [Devices -> 0 .. MaxSilence]
        /\ state' \in [Devices -> States]
    <3>1. todo' \in [Devices -> Seq(Statements)]
      BY <1>2, <2>1 DEF Discover, TypeOK
    <3>2. silence' \in [Devices -> 0 .. MaxSilence]
      BY <1>2 DEF Discover, TypeOK
    <3>3. state' \in [Devices -> States]
      BY <1>2 DEF Discover, TypeOK, States, Live
    <3> QED BY <3>1, <3>2, <3>3
  <2>3. dirty' \in [Devices -> BOOLEAN]
    BY <1>2, Zenon DEF Discover, TypeOK
  <2> QED BY <1>2, <2>2, <2>3 DEF Discover, TypeOK, database, history
<1>3. ASSUME NEW m \in Devices, NEW lag \in 0 .. MaxLag, Observe(m, lag)
      PROVE  TypeOK'
  <2>1. ReturnBatch \in Seq(Statements)
    BY Batches
  <2>2. todo' \in [Devices -> Seq(Statements)]
    BY <1>3, <2>1 DEF Observe, TypeOK
  <2>3. /\ silence' \in [Devices -> 0 .. MaxSilence]
        /\ state' \in [Devices -> States]
    BY <1>3 DEF Observe, TypeOK, States, Live
  <2>4. dirty' \in [Devices -> BOOLEAN]
    BY <1>3, Zenon DEF Observe, TypeOK
  <2> QED BY <1>3, <2>2, <2>3, <2>4 DEF Observe, TypeOK, database, history
<1>4. CASE Sweep
  <2>1. /\ state' \in [Devices -> States] /\ ap' \in [Devices -> APs \cup {NoAP}]
        /\ todo' \in [Devices -> Seq(Statements)]
    BY <1>4, Batches DEF Sweep, TypeOK, States, Live
  <2>2. dirty' \in [Devices -> BOOLEAN]
    BY <1>4 DEF Sweep, Marked, TimedOut, FellIdle
  <2>3. UNCHANGED <<up, silence, ids, cursor, flushing, database, history>>
    BY <1>4 DEF Sweep
  <2> QED BY <2>1, <2>2, <2>3 DEF TypeOK, database, history
<1>5. ASSUME NEW m \in Devices, NEW a \in APs, SetLocation(m, a)
      PROVE  TypeOK'
  BY <1>5, Batches DEF SetLocation, TypeOK, database, history
<1>6. ASSUME NEW m \in Devices, Write(m)
      PROVE  TypeOK'
  <2>1. CASE InsertDevice(m)
    <3>1. row' \in [Devices -> [state : States, silence : 0 .. MaxSilence,
                               ap : APs \cup {NoAP}]]
      <4> DEFINE Rows == [state : States, silence : 0 .. MaxSilence,
                          ap : APs \cup {NoAP}]
      <4>1. row \in [Devices -> Rows] /\ silence \in [Devices -> 0 .. MaxSilence]
        BY DEF TypeOK
      <4>2. /\ [state |-> "online", silence |-> silence[m], ap |-> NoAP] \in Rows
            /\ [row[m] EXCEPT !.silence = silence[m]] \in Rows
        BY ONLY <1>6, <4>1 DEF States, Live
      <4>3. \/ row' = [row EXCEPT ![m] = [state |-> "online", silence |-> silence[m],
                                         ap |-> NoAP]]
            \/ row' = [row EXCEPT ![m] = [row[m] EXCEPT !.silence = silence[m]]]
        BY <2>1 DEF InsertDevice
      <4> HIDE DEF Rows
      <4>4. row' \in [Devices -> Rows]
        BY <4>1, <4>2, <4>3
      <4> QED BY <4>4 DEF Rows
    <3>2. /\ todo' \in [Devices -> Seq(Statements)]
          /\ cursor' \in Devices \cup {NoDevice}
          /\ torn' \in [Devices -> SUBSET Facets]
          /\ ids' \subseteq Devices
      BY <1>6, <2>1, HeadTail DEF InsertDevice, NextStatement, TypeOK
    <3>3. UNCHANGED <<up, state, silence, ap, dirty, flushing, session, stay, log,
                      announced, stops, failures>>
      BY <2>1 DEF InsertDevice, NextStatement, memory
    <3> QED BY <3>1, <3>2, <3>3, Zenon DEF TypeOK
  <2>2. CASE OpenPresence(m)
    BY <1>6, <2>2, HeadTail, StatementArgs DEF OpenPresence, NextStatement,
       TypeOK, memory, WithOneOpen
  <2>3. CASE ClosePresence(m)
    BY <1>6, <2>3, HeadTail, StatementArgs DEF ClosePresence, NextStatement,
       TypeOK, memory
  <2>4. CASE CloseLocation(m)
    BY <1>6, <2>4, HeadTail, StatementArgs DEF CloseLocation, NextStatement,
       TypeOK, memory
  <2>5. CASE InsertLocation(m)
    BY <1>6, <2>5, HeadTail, StatementArgs DEF InsertLocation, NextStatement,
       TypeOK, memory
  <2>6. CASE InsertEvent(m)
    <3>1. /\ todo' \in [Devices -> Seq(Statements)]
          /\ cursor' \in Devices \cup {NoDevice}
          /\ torn' \in [Devices -> SUBSET Facets]
      BY <1>6, <2>6, HeadTail DEF InsertEvent, NextStatement, TypeOK
    <3>2. log' \in [Devices -> [kind : PresenceEvents \cup {"none"}, odd : BOOLEAN]]
      BY <1>6, <2>6 DEF InsertEvent, TypeOK
    <3>3. announced' \in [Devices -> Nat]
      <4>1. \/ announced' = announced
            \/ announced' = [announced EXCEPT ![m] = announced[m] + 1]
        BY <2>6, Zenon DEF InsertEvent
      <4>2. announced \in [Devices -> Nat]
        BY DEF TypeOK
      <4> QED BY <4>1, <4>2
    <3>4. UNCHANGED <<up, state, silence, ap, dirty, ids, flushing, row, session,
                      stay, stops, failures>>
      BY <2>6 DEF InsertEvent, NextStatement, memory
    <3>5. up' \in BOOLEAN /\ dirty' \in [Devices -> BOOLEAN]
      BY <3>4, Zenon DEF TypeOK
    <3>6. /\ state' \in [Devices -> States] /\ silence' \in [Devices -> 0 .. MaxSilence]
          /\ ap' \in [Devices -> APs \cup {NoAP}] /\ flushing' \subseteq Devices
          /\ session' \in [Devices -> Nat] /\ stay' \in [Devices -> APs \cup {NoAP}]
          /\ stops' \in 0 .. MaxStops /\ failures' \in 0 .. MaxFailures
      BY <3>4 DEF TypeOK
    <3>7. /\ ids' \subseteq Devices
          /\ row' \in [Devices -> [state : States, silence : 0 .. MaxSilence,
                                   ap : APs \cup {NoAP}]]
      BY <3>4 DEF TypeOK
    <3> QED BY ONLY <3>1, <3>2, <3>3, <3>5, <3>6, <3>7, Zenon DEF TypeOK
  <2> QED BY <1>6, <2>1, <2>2, <2>3, <2>4, <2>5, <2>6 DEF Write
<1>7. CASE DropBatch
  <2>1. torn' \in [Devices -> SUBSET Facets]
    BY <1>7, PendingFacets DEF DropBatch, TypeOK
  <2>2. /\ todo' \in [Devices -> Seq(Statements)]
        /\ cursor' \in Devices \cup {NoDevice}
        /\ failures' \in 0 .. MaxFailures
    BY <1>7 DEF DropBatch, TypeOK
  <2> QED BY <1>7, <2>1, <2>2 DEF DropBatch, TypeOK, memory, database
<1>8. CASE TakeDirty
  BY <1>8 DEF TakeDirty, TypeOK, database, history
<1>9. ASSUME NEW m \in Devices, FlushDevice(m) PROVE TypeOK'
  BY <1>9 DEF FlushDevice, TypeOK, memory
<1>10. CASE DropFlush
  <2>1. torn' \in [Devices -> SUBSET Facets]
    BY <1>10 DEF DropFlush, TypeOK, Facets
  <2>2. failures' \in 0 .. MaxFailures
    BY <1>10 DEF DropFlush, TypeOK
  <2> QED BY <1>10, <2>1, <2>2 DEF DropFlush, TypeOK, memory, database
<1>11. CASE Exit
  <2>1. /\ torn' \in [Devices -> SUBSET Facets]
        /\ todo' \in [Devices -> Seq(Statements)]
        /\ state' \in [Devices -> States]
        /\ silence' \in [Devices -> 0 .. MaxSilence]
        /\ ap' \in [Devices -> APs \cup {NoAP}]
    BY <1>11 DEF Exit, TypeOK, Each, States
  <2>2. dirty' \in [Devices -> BOOLEAN]
    BY <1>11, Zenon DEF Exit, Each
  <2>3. up' \in BOOLEAN /\ cursor' \in Devices \cup {NoDevice}
    BY <1>11, Zenon DEF Exit
  <2>4. /\ ids' \subseteq Devices /\ flushing' \subseteq Devices
        /\ stops' \in 0 .. MaxStops
    BY <1>11 DEF Exit, TypeOK
  <2> QED BY <1>11, <2>1, <2>2, <2>3, <2>4 DEF Exit, TypeOK, database
<1>12. CASE Start
  <2>1. /\ state' \in [Devices -> States]
        /\ silence' \in [Devices -> 0 .. MaxSilence]
        /\ ap' \in [Devices -> APs \cup {NoAP}]
        /\ ids' \subseteq Devices
    BY <1>12 DEF Start, TypeOK, RestoredState, RestoredAp
  <2>2. /\ stay' \in [Devices -> APs \cup {NoAP}]
        /\ failures' \in 0 .. MaxFailures
    <3>1. /\ stay \in [Devices -> APs \cup {NoAP}] /\ failures \in 0 .. MaxFailures
      BY DEF TypeOK
    <3>2. /\ \/ stay' = [m \in Devices |-> IF row[m].state = "offline"
                                          THEN NoAP ELSE stay[m]]
             \/ stay' = stay
          /\ failures' = failures \/ (failures < MaxFailures /\ failures' = failures + 1)
      BY <1>12, Zenon DEF Start
    <3> QED BY <3>1, <3>2
  <2>3. torn' \in [Devices -> SUBSET Facets]
    <3>1. torn \in [Devices -> SUBSET Facets] /\ {"row", "location"} \subseteq Facets
      BY DEF TypeOK, Facets
    <3> DEFINE Stale == {m \in Devices : row[m].state = "offline"}
    <3>2. \/ torn' = [m \in Devices |-> torn[m] \ (IF m \in Stale
                        THEN {"row", "location"} ELSE {"row"})]
          \/ torn' = [m \in Devices |-> (torn[m] \ {"row"}) \cup (IF m \in Stale
                        THEN {"location"} ELSE {})]
      BY <1>12, Zenon DEF Start
    <3> HIDE DEF Stale
    <3> QED BY <3>1, <3>2
  <2>4. up'
    BY <1>12 DEF Start
  <2>5. UNCHANGED <<dirty, todo, cursor, flushing, row, session, log, announced, stops>>
    BY <1>12 DEF Start
  <2> QED BY <1>12, <2>1, <2>2, <2>3, <2>4, <2>5 DEF Start, TypeOK
<1>13. CASE UNCHANGED vars
  BY <1>13 DEF vars, memory, persister, database, history, TypeOK
<1> QED
  BY <1>1, <1>2, <1>3, <1>4, <1>5, <1>6, <1>7, <1>8, <1>9, <1>10, <1>11, <1>12,
     <1>13
     DEF Next, Crash, Shutdown

(***************************************************************************)
(* The inductive invariant.                                                *)
(***************************************************************************)

\* The queue, the ids and the table of a daemon that runs, and of one that
\* does not.
TableAndIds(m) ==
  /\ up => /\ m \in ids <=> row[m].state # "absent"
           /\ m \in ids => Known(m)
  /\ ~up => ~Known(m) /\ m \notin ids /\ m \notin flushing
  /\ ~Known(m) => todo[m] = <<>> /\ ap[m] = NoAP

\* Nothing is written about a device before its row.
NothingBeforeTheRow(m) ==
  row[m].state = "absent" =>
    /\ session[m] = 0 /\ stay[m] = NoAP /\ row[m].ap = NoAP
    /\ log[m].kind = "none" /\ announced[m] = 0

AtMostOnce(m) == session[m] <= 1 /\ announced[m] <= 1

\* What is left of a batch still agrees with the table that it came from.
Tell(k) == Effect("insert_event", k)
OpenIt == Effect("open_presence", NoAP)
CloseIt == Effect("close_presence", NoAP)
LeaveIt == Effect("close_location", NoAP)

Arriving(m) ==
  /\ state[m] = "online" /\ announced[m] = 0
  /\ \/ todo[m] = DiscoverBatch /\ m \notin ids /\ ap[m] = NoAP
     \/ todo[m] = << OpenIt, Tell("new_device") >>
     \/ todo[m] = << Tell("new_device") >>
Returning(m) ==
  /\ state[m] = "online"
  /\ \/ todo[m] = ReturnBatch
     \/ todo[m] = << Tell("returned") >>
Leaving(m) ==
  /\ state[m] = "offline" /\ ap[m] = NoAP
  /\ \/ todo[m] = << CloseIt, LeaveIt, Tell("went_offline") >>
     \/ todo[m] = << CloseIt, Tell("went_offline") >>
     \/ todo[m] = << LeaveIt, Tell("went_offline") >>
     \/ todo[m] = << Tell("went_offline") >>
Moving(m) ==
  /\ Known(m) /\ ap[m] \in APs
  /\ \/ todo[m] = MoveBatch(ap[m])
     \/ todo[m] = << Effect("insert_location", ap[m]), Tell("device_location_changed") >>
     \/ todo[m] = << Tell("device_location_changed") >>

BatchFits(m) ==
  \/ todo[m] = <<>> \/ Arriving(m) \/ Returning(m) \/ Leaving(m) \/ Moving(m)

\* What a restart will find agrees with what the process left behind.
SavedFollows(m) ==
  ~up /\ row[m].state # "absent" =>
    /\ "presence" \notin torn[m] =>
         session[m] = (IF row[m].state = "offline" THEN 0 ELSE 1)
    /\ "events" \notin torn[m] =>
         (log[m].kind = "went_offline" <=> row[m].state = "offline")
    /\ "location" \notin torn[m] =>
         (row[m].state # "offline" => stay[m] = row[m].ap)

Bookkeeping(m) == /\ TableAndIds(m) /\ NothingBeforeTheRow(m) /\ AtMostOnce(m)
                  /\ BatchFits(m)   /\ SavedFollows(m)


\* The copies of the device agree with the table.
Consistent(m) == up => /\ PresenceFollows(m) /\ LocationFollows(m)
                       /\ EventsFollow(m)    /\ RowFollows(m)

IInv == /\ TypeOK
        /\ \A m \in Devices : Bookkeeping(m) /\ Consistent(m)

(***************************************************************************)
(* Batches and the facets they write.                                      *)
(***************************************************************************)
FacetsOf(s) == {FacetOf(s[i]) : i \in DOMAIN s}

\* Heads and tails of batches of up to three effects.
LEMMA TupleFacts ==
  /\ \A a : <<a>> # <<>> /\ Head(<<a>>) = a /\ Tail(<<a>>) = <<>>
  /\ \A a, b : <<a, b>> # <<>> /\ Head(<<a, b>>) = a /\ Tail(<<a, b>>) = <<b>>
  /\ \A a, b, c : /\ <<a, b, c>> # <<>> /\ Head(<<a, b, c>>) = a
                  /\ Tail(<<a, b, c>>) = <<b, c>>
OBVIOUS

\* The facets of batches of up to three effects.
LEMMA TupleFacets ==
  /\ FacetsOf(<<>>) = {}
  /\ \A a : FacetsOf(<<a>>) = {FacetOf(a)}
  /\ \A a, b : FacetsOf(<<a, b>>) = {FacetOf(a), FacetOf(b)}
  /\ \A a, b, c : FacetsOf(<<a, b, c>>) = {FacetOf(a), FacetOf(b), FacetOf(c)}
BY DEF FacetsOf

\* The facet each kind of statement writes.
LEMMA Facet ==
  /\ FacetOf(Effect("insert_device", NoAP)) = "row"
  /\ FacetOf(OpenIt) = "presence" /\ FacetOf(CloseIt) = "presence"
  /\ FacetOf(LeaveIt) = "location"
  /\ \A a : FacetOf(Effect("insert_location", a)) = "location"
  /\ \A k \in PresenceEvents : FacetOf(Tell(k)) = "events"
  /\ FacetOf(Tell("device_location_changed")) = "moves"
<1> USE DEF FacetOf, Effect
<1>1. FacetOf(Effect("insert_device", NoAP)) = "row"
  OBVIOUS
<1>2. FacetOf(OpenIt) = "presence" /\ FacetOf(CloseIt) = "presence"
  BY DEF OpenIt, CloseIt
<1>3. FacetOf(LeaveIt) = "location"
  BY DEF LeaveIt
<1>4. \A a : FacetOf(Effect("insert_location", a)) = "location"
  OBVIOUS
<1>5. \A k \in PresenceEvents : FacetOf(Tell(k)) = "events"
  BY DEF Tell, PresenceEvents
<1>6. FacetOf(Tell("device_location_changed")) = "moves"
  BY DEF Tell, PresenceEvents
<1> QED BY <1>1, <1>2, <1>3, <1>4, <1>5, <1>6

\* Writing the next statement takes its facet, and no other, out of the queue.
LEMMA WrittenFacets ==
  ASSUME NEW s \in Seq(Statements), s # <<>>
  PROVE  FacetsOf(s) = {FacetOf(Head(s))} \cup FacetsOf(Tail(s))
<1>1. /\ DOMAIN s = 1 .. Len(s) /\ Len(s) \in Nat \ {0}
      /\ DOMAIN Tail(s) = 1 .. (Len(s) - 1)
      /\ \A i \in DOMAIN Tail(s) : Tail(s)[i] = s[i + 1]
      /\ Head(s) = s[1]
  OBVIOUS
<1>2. \A i \in DOMAIN s : i = 1 \/ (i - 1 \in DOMAIN Tail(s) /\ Tail(s)[i - 1] = s[i])
  BY <1>1
<1>3. \A i \in DOMAIN Tail(s) : i + 1 \in DOMAIN s
  BY <1>1
<1>4. \A x \in FacetsOf(s) : x \in {FacetOf(Head(s))} \cup FacetsOf(Tail(s))
  BY <1>1, <1>2 DEF FacetsOf
<1>5. \A x \in FacetsOf(Tail(s)) : x \in FacetsOf(s)
  BY <1>1, <1>3 DEF FacetsOf
<1>6. FacetOf(Head(s)) \in FacetsOf(s)
  BY <1>1 DEF FacetsOf
<1> QED BY <1>4, <1>5, <1>6

\* Pending is about the queue alone.
LEMMA PendingIs ==
  ASSUME NEW m \in Devices
  PROVE  Pending(m) = FacetsOf(todo[m]) /\ Pending(m)' = FacetsOf(todo'[m])
BY DEF Pending, FacetsOf

\* The facets of the batches that observe, set_location and sweep make.
LEMMA BatchFacets ==
  /\ FacetsOf(<<>>) = {}
  /\ FacetsOf(ReturnBatch) = {"presence", "events"}
  /\ \A a \in APs : FacetsOf(MoveBatch(a)) = {"location", "moves"}
  /\ \A a \in APs : FacetsOf(OfflineBatch(a)) = {"presence", "location", "events"}
  /\ FacetsOf(OfflineBatch(NoAP)) = {"presence", "events"}
<1>1. ReturnBatch = << OpenIt, Tell("returned") >>
  BY DEF ReturnBatch, OpenIt, Tell
<1>2. \A a : MoveBatch(a) = << LeaveIt, Effect("insert_location", a),
                               Tell("device_location_changed") >>
  BY DEF MoveBatch, LeaveIt, Tell
<1>3. \A a \in APs : OfflineBatch(a) = << CloseIt, LeaveIt, Tell("went_offline") >>
  BY APsAssumption DEF OfflineBatch, CloseIt, LeaveIt, Tell
<1>4. OfflineBatch(NoAP) = << CloseIt, Tell("went_offline") >>
  BY DEF OfflineBatch, CloseIt, Tell
<1>5. "returned" \in PresenceEvents /\ "went_offline" \in PresenceEvents
  BY DEF PresenceEvents
<1>6. FacetsOf(ReturnBatch) = {"presence", "events"}
  BY <1>1, <1>5, TupleFacets, Facet
<1>7. \A a \in APs : FacetsOf(MoveBatch(a)) = {"location", "moves"}
  BY <1>2, TupleFacets, Facet
<1>8. \A a \in APs : FacetsOf(OfflineBatch(a)) = {"presence", "location", "events"}
  BY <1>3, <1>5, TupleFacets, Facet
<1>9. FacetsOf(OfflineBatch(NoAP)) = {"presence", "events"}
  BY <1>4, <1>5, TupleFacets, Facet
<1> QED BY <1>6, <1>7, <1>8, <1>9, TupleFacets

(***************************************************************************)
(* A step of one device leaves every other one alone.                      *)
(***************************************************************************)
Holds(m) == Bookkeeping(m) /\ Consistent(m)

\* A device whose copies, queue and table entry do not change stays in step.
LEMMA Frame ==
  ASSUME NEW m \in Devices, Holds(m), up' = up,
         state'[m] = state[m], silence'[m] = silence[m], ap'[m] = ap[m],
         dirty'[m] = dirty[m], m \in ids' <=> m \in ids, todo'[m] = todo[m],
         m \in flushing' <=> m \in flushing, row'[m] = row[m],
         session'[m] = session[m], stay'[m] = stay[m], log'[m] = log[m],
         announced'[m] = announced[m], torn'[m] = torn[m]
  PROVE  Holds(m)'
<1> USE DEF Known
<1>1. Pending(m)' = Pending(m)
  BY DEF Pending
<1>2. TableAndIds(m)' /\ NothingBeforeTheRow(m)' /\ AtMostOnce(m)' /\ SavedFollows(m)'
  BY DEF Holds, Bookkeeping, TableAndIds, NothingBeforeTheRow, AtMostOnce,
     SavedFollows
<1>3. BatchFits(m)'
  BY DEF Holds, Bookkeeping, BatchFits, Arriving, Returning, Leaving, Moving
<1>4. Consistent(m)'
  BY <1>1 DEF Holds, Consistent, PresenceFollows, LocationFollows, EventsFollow,
     RowFollows, Settled
<1> QED BY <1>2, <1>3, <1>4 DEF Holds, Bookkeeping

\* A packet from an unknown device (Manager::discover) keeps it in step.
LEMMA DiscoverStep ==
  ASSUME TypeOK, TypeOK', NEW m \in Devices, NEW lag \in 0 .. MaxLag,
         Holds(m), Discover(m, lag)
  PROVE  Holds(m)'
<1>1. /\ up /\ ~Known(m) /\ up' = up
      /\ state'[m] = "online" /\ ap'[m] = ap[m] /\ todo'[m] = DiscoverBatch
      /\ ids' = ids /\ row' = row /\ session' = session /\ stay' = stay
      /\ log' = log /\ announced' = announced
  BY DEF Discover, TypeOK, Ready, database
<1>2. m \notin ids /\ row[m].state = "absent" /\ ap[m] = NoAP
  BY <1>1 DEF Holds, Bookkeeping, TableAndIds
<1>3. BatchFits(m)'
  BY <1>1, <1>2 DEF Holds, Bookkeeping, BatchFits, Arriving, NothingBeforeTheRow
<1>4. TableAndIds(m)' /\ NothingBeforeTheRow(m)' /\ AtMostOnce(m)' /\ SavedFollows(m)'
  BY <1>1, <1>2 DEF Holds, Bookkeeping, TableAndIds, NothingBeforeTheRow,
     AtMostOnce,
     SavedFollows, Known
<1>5. Consistent(m)'
  BY <1>1, <1>2 DEF Consistent, PresenceFollows, LocationFollows, EventsFollow,
     RowFollows, Settled
<1> QED BY <1>3, <1>4, <1>5 DEF Holds, Bookkeeping

\* A packet from a known device (Manager::observe) keeps it in step.
LEMMA ObserveStep ==
  ASSUME TypeOK, TypeOK', NEW m \in Devices, NEW lag \in 0 .. MaxLag,
         Holds(m), Observe(m, lag)
  PROVE  Holds(m)'
<1>1. /\ up /\ Known(m) /\ up' = up /\ todo[m] = <<>>
      /\ state'[m] = "online" /\ ap'[m] = ap[m] /\ dirty'[m]
      /\ todo'[m] = (IF state[m] = "offline" THEN ReturnBatch ELSE <<>>)
      /\ ids' = ids /\ row' = row /\ session' = session /\ stay' = stay
      /\ log' = log /\ announced' = announced /\ torn' = torn
  BY DEF Observe, TypeOK, Ready, Busy, database, history
<1>2. BatchFits(m)'
  BY <1>1 DEF BatchFits, Returning
<1>3. TableAndIds(m)' /\ NothingBeforeTheRow(m)' /\ AtMostOnce(m)' /\ SavedFollows(m)'
  BY <1>1 DEF Holds, Bookkeeping, TableAndIds, NothingBeforeTheRow, AtMostOnce,
     SavedFollows, Known
<1>4. /\ Pending(m) = {}
      /\ Pending(m)' = (IF state[m] = "offline" THEN {"presence", "events"} ELSE {})
  BY <1>1, PendingIs, BatchFacets
<1>5. Consistent(m)'
  BY <1>1, <1>4 DEF Holds, Consistent, PresenceFollows, LocationFollows,
     EventsFollow,
     RowFollows, Settled
<1> QED BY <1>2, <1>3, <1>5 DEF Holds, Bookkeeping

\* A report of another access point (Manager::set_location) keeps it in step.
LEMMA SetLocationStep ==
  ASSUME TypeOK, TypeOK', NEW m \in Devices, NEW a \in APs,
         Holds(m), SetLocation(m, a)
  PROVE  Holds(m)'
<1>1. /\ up /\ Known(m) /\ up' = up /\ todo[m] = <<>>
      /\ state' = state /\ ap'[m] = a /\ dirty'[m]
      /\ todo'[m] = MoveBatch(a)
      /\ ids' = ids /\ row' = row /\ session' = session /\ stay' = stay
      /\ log' = log /\ announced' = announced /\ torn' = torn
  BY DEF SetLocation, TypeOK, Ready, Busy, database, history
<1>2. BatchFits(m)'
  BY <1>1 DEF BatchFits, Moving, Known
<1>3. TableAndIds(m)' /\ NothingBeforeTheRow(m)' /\ AtMostOnce(m)' /\ SavedFollows(m)'
  BY <1>1 DEF Holds, Bookkeeping, TableAndIds, NothingBeforeTheRow, AtMostOnce,
     SavedFollows, Known
<1>4. Pending(m) = {} /\ Pending(m)' = {"location", "moves"}
  BY <1>1, PendingIs, BatchFacets
<1>5. Consistent(m)'
  BY <1>1, <1>4 DEF Holds, Consistent, PresenceFollows, LocationFollows,
     EventsFollow,
     RowFollows, Settled
<1> QED BY <1>2, <1>3, <1>5 DEF Holds, Bookkeeping

(***************************************************************************)
(* The statement that comes next says where its batch came from, and what  *)
(* is left of it still fits.                                               *)
(***************************************************************************)
\* The two fields of an effect.
LEMMA OpOf ==
  ASSUME NEW op, NEW arg
  PROVE  Effect(op, arg).op = op /\ Effect(op, arg).arg = arg
BY DEF Effect

\* A statement at the head of a queue determines the batch it belongs to.
LEMMA NextIs ==
  ASSUME NEW m \in Devices, BatchFits(m), todo[m] # <<>>
  PROVE  LET s == Head(todo[m])
             rest == Tail(todo[m])
         IN /\ s.op = "insert_device" =>
                 /\ state[m] = "online" /\ announced[m] = 0
                 /\ m \notin ids /\ ap[m] = NoAP
                 /\ rest = << OpenIt, Tell("new_device") >>
            /\ s.op = "open_presence" =>
                 /\ state[m] = "online"
                 /\ \/ announced[m] = 0 /\ rest = << Tell("new_device") >>
                    \/ rest = << Tell("returned") >>
            /\ s.op = "close_presence" =>
                 /\ state[m] = "offline" /\ ap[m] = NoAP
                 /\ \/ rest = << LeaveIt, Tell("went_offline") >>
                    \/ rest = << Tell("went_offline") >>
            /\ s.op = "close_location" =>
                 \/ /\ state[m] = "offline" /\ ap[m] = NoAP
                    /\ rest = << Tell("went_offline") >>
                 \/ /\ Known(m) /\ ap[m] \in APs
                    /\ rest = << Effect("insert_location", ap[m]),
                                 Tell("device_location_changed") >>
            /\ s.op = "insert_location" =>
                 /\ Known(m) /\ ap[m] \in APs /\ s.arg = ap[m]
                 /\ rest = << Tell("device_location_changed") >>
            /\ s.op = "insert_event" =>
                 /\ rest = <<>>
                 /\ \/ /\ s.arg = "new_device"
                       /\ state[m] = "online" /\ announced[m] = 0
                    \/ s.arg = "returned" /\ state[m] = "online"
                    \/ s.arg = "went_offline" /\ state[m] = "offline"
                    \/ s.arg = "device_location_changed" /\ Known(m)
<1> USE TupleFacts, OpOf
<1>1. CASE Arriving(m)
  <2>1. DiscoverBatch = << Effect("insert_device", NoAP), OpenIt, Tell("new_device") >>
    BY DEF DiscoverBatch, OpenIt, Tell
  <2>2. CASE todo[m] = DiscoverBatch
    BY <1>1, <2>1, <2>2 DEF Arriving
  <2>3. CASE todo[m] = << OpenIt, Tell("new_device") >>
    BY <1>1, <2>3 DEF Arriving, OpenIt
  <2>4. CASE todo[m] = << Tell("new_device") >>
    BY <1>1, <2>4 DEF Arriving, Tell
  <2> QED BY <1>1, <2>2, <2>3, <2>4 DEF Arriving
<1>2. CASE Returning(m)
  <2>1. ReturnBatch = << OpenIt, Tell("returned") >>
    BY DEF ReturnBatch, OpenIt, Tell
  <2>2. CASE todo[m] = ReturnBatch
    BY <1>2, <2>1, <2>2 DEF Returning, OpenIt
  <2>3. CASE todo[m] = << Tell("returned") >>
    BY <1>2, <2>3 DEF Returning, Tell
  <2> QED BY <1>2, <2>2, <2>3 DEF Returning
<1>3. CASE Leaving(m)
  <2>1. CASE todo[m] = << CloseIt, LeaveIt, Tell("went_offline") >>
    BY <1>3, <2>1 DEF Leaving, CloseIt
  <2>2. CASE todo[m] = << CloseIt, Tell("went_offline") >>
    BY <1>3, <2>2 DEF Leaving, CloseIt
  <2>3. CASE todo[m] = << LeaveIt, Tell("went_offline") >>
    BY <1>3, <2>3 DEF Leaving, LeaveIt
  <2>4. CASE todo[m] = << Tell("went_offline") >>
    BY <1>3, <2>4 DEF Leaving, Tell
  <2> QED BY <1>3, <2>1, <2>2, <2>3, <2>4 DEF Leaving
<1>4. CASE Moving(m)
  <2>1. MoveBatch(ap[m]) = << LeaveIt, Effect("insert_location", ap[m]),
                              Tell("device_location_changed") >>
    BY DEF MoveBatch, LeaveIt, Tell
  <2>2. CASE todo[m] = MoveBatch(ap[m])
    BY <1>4, <2>1, <2>2 DEF Moving, LeaveIt
  <2>3. CASE todo[m] = << Effect("insert_location", ap[m]),
                          Tell("device_location_changed") >>
    BY <1>4, <2>3 DEF Moving
  <2>4. CASE todo[m] = << Tell("device_location_changed") >>
    BY <1>4, <2>4 DEF Moving, Tell
  <2> QED BY <1>4, <2>2, <2>3, <2>4 DEF Moving
<1> QED BY <1>1, <1>2, <1>3, <1>4 DEF BatchFits

\* What Persister::apply changes whatever the statement is.
LEMMA StatementFacts ==
  ASSUME TypeOK, TypeOK', NEW m \in Devices, NEW op, NextStatement(m, op), Holds(m)
  PROVE  /\ up /\ up' = up /\ todo[m] # <<>> /\ Head(todo[m]).op = op
         /\ state' = state /\ silence' = silence /\ ap' = ap /\ dirty' = dirty
         /\ flushing' = flushing
         /\ todo'[m] = Tail(todo[m])
         /\ Pending(m) = {FacetOf(Head(todo[m]))} \cup Pending(m)'
         /\ m \in ids \/ op = "insert_device" =>
              torn'[m] = torn[m] \ {FacetOf(Head(todo[m]))}
         /\ \A d \in Devices \ {m} : todo'[d] = todo[d] /\ torn'[d] = torn[d]
<1> USE DEF NextStatement, TypeOK, memory
<1>1. todo'[m] = Tail(todo[m])
  OBVIOUS
<1>2. Pending(m) = {FacetOf(Head(todo[m]))} \cup Pending(m)'
  BY <1>1, WrittenFacets, PendingIs
<1>3. m \in ids \/ op = "insert_device" =>
        torn'[m] = torn[m] \ {FacetOf(Head(todo[m]))}
  OBVIOUS
<1>4. \A d \in Devices \ {m} : todo'[d] = todo[d] /\ torn'[d] = torn[d]
  OBVIOUS
<1> QED BY <1>1, <1>2, <1>3, <1>4

\* Writing the row gives the device its id; everything else is still to come.
LEMMA InsertDeviceStep ==
  ASSUME TypeOK, TypeOK', NEW m \in Devices, Holds(m), InsertDevice(m)
  PROVE  Holds(m)'
<1>1. NextStatement(m, "insert_device")
  BY DEF InsertDevice
<1>2. /\ state[m] = "online" /\ announced[m] = 0 /\ m \notin ids /\ ap[m] = NoAP
      /\ todo'[m] = << OpenIt, Tell("new_device") >>
  BY <1>1, StatementFacts, NextIs DEF Holds, Bookkeeping
<1>3. up /\ row[m].state = "absent"
  BY <1>1, <1>2 DEF NextStatement, Holds, Bookkeeping, TableAndIds
<1>4. /\ row'[m] = [state |-> "online", silence |-> silence[m], ap |-> NoAP]
      /\ m \in ids' /\ session' = session /\ stay' = stay /\ log' = log
      /\ announced' = announced
  BY <1>3 DEF InsertDevice, TypeOK
<1>5. Pending(m)' = {"presence", "events"}
  <2>1. "new_device" \in PresenceEvents
    BY DEF PresenceEvents
  <2>2. FacetsOf(<< OpenIt, Tell("new_device") >>) = {"presence", "events"}
    BY <2>1, TupleFacets, Facet
  <2> QED BY <1>2, <2>2, PendingIs
<1>6. BatchFits(m)'
  BY <1>1, <1>2, <1>4, StatementFacts DEF BatchFits, Arriving
<1>7. TableAndIds(m)' /\ NothingBeforeTheRow(m)' /\ AtMostOnce(m)' /\ SavedFollows(m)'
  <2>1. up' /\ Known(m)' /\ row'[m].state = "online"
    BY <1>1, <1>2, <1>4, StatementFacts DEF Known
  <2> QED BY <1>4, <2>1 DEF Holds, Bookkeeping, TableAndIds, NothingBeforeTheRow,
          AtMostOnce, SavedFollows
<1>8. Consistent(m)'
  BY <1>1, <1>2, <1>3, <1>4, <1>5, StatementFacts DEF Holds, Bookkeeping,
     NothingBeforeTheRow, Consistent, PresenceFollows, LocationFollows,
     EventsFollow, RowFollows, Settled
<1> QED BY <1>6, <1>7, <1>8 DEF Holds, Bookkeeping

\* Opening a session, if none is open, keeps the device in step.
LEMMA OpenPresenceStep ==
  ASSUME TypeOK, TypeOK', NEW m \in Devices, Holds(m), OpenPresence(m)
  PROVE  Holds(m)'
<1>1. NextStatement(m, "open_presence")
  BY DEF OpenPresence
<1>2. /\ state[m] = "online"
      /\ \/ announced[m] = 0 /\ todo'[m] = << Tell("new_device") >>
         \/ todo'[m] = << Tell("returned") >>
  BY <1>1, StatementFacts, NextIs DEF Holds, Bookkeeping
<1>3. /\ session'[m] = (IF m \in ids THEN 1 ELSE session[m])
      /\ ids' = ids /\ row' = row /\ stay' = stay /\ log' = log
      /\ announced' = announced
  <2>1. session[m] \in {0, 1}
    <3>1. session[m] \in Nat
      BY DEF TypeOK
    <3>2. session[m] <= 1
      BY DEF Holds, Bookkeeping, AtMostOnce
    <3> QED BY <3>1, <3>2
  <2> QED BY <2>1 DEF OpenPresence, TypeOK, WithOneOpen
<1>4. BatchFits(m)'
  BY <1>1, <1>2, <1>3, StatementFacts DEF BatchFits, Arriving, Returning
<1>5. TableAndIds(m)' /\ NothingBeforeTheRow(m)' /\ AtMostOnce(m)' /\ SavedFollows(m)'
  BY <1>1, <1>2, <1>3, StatementFacts DEF Holds, Bookkeeping, TableAndIds,
     NothingBeforeTheRow, AtMostOnce, SavedFollows, Known
<1>6. FacetOf(Head(todo[m])) = "presence"
  BY <1>1, StatementFacts DEF FacetOf
<1>7. Consistent(m)'
  BY <1>1, <1>2, <1>3, <1>6, StatementFacts DEF Holds, Consistent, PresenceFollows,
     LocationFollows, EventsFollow, RowFollows, Settled
<1> QED BY <1>4, <1>5, <1>7 DEF Holds, Bookkeeping

\* Closing the session keeps the device in step.
LEMMA ClosePresenceStep ==
  ASSUME TypeOK, TypeOK', NEW m \in Devices, Holds(m), ClosePresence(m)
  PROVE  Holds(m)'
<1>1. NextStatement(m, "close_presence")
  BY DEF ClosePresence
<1>2. /\ state[m] = "offline" /\ ap[m] = NoAP
      /\ \/ todo'[m] = << LeaveIt, Tell("went_offline") >>
         \/ todo'[m] = << Tell("went_offline") >>
  BY <1>1, StatementFacts, NextIs DEF Holds, Bookkeeping
<1>3. /\ session'[m] = (IF m \in ids THEN 0 ELSE session[m])
      /\ ids' = ids /\ row' = row /\ stay' = stay /\ log' = log
      /\ announced' = announced
  BY DEF ClosePresence, TypeOK
<1>4. BatchFits(m)'
  BY <1>1, <1>2, <1>3, StatementFacts DEF BatchFits, Leaving
<1>5. TableAndIds(m)' /\ NothingBeforeTheRow(m)' /\ AtMostOnce(m)' /\ SavedFollows(m)'
  BY <1>1, <1>2, <1>3, StatementFacts DEF Holds, Bookkeeping, TableAndIds,
     NothingBeforeTheRow, AtMostOnce, SavedFollows, Known
<1>6. FacetOf(Head(todo[m])) = "presence"
  BY <1>1, StatementFacts DEF FacetOf
<1>7. Consistent(m)'
  BY <1>1, <1>2, <1>3, <1>6, StatementFacts DEF Holds, Consistent, PresenceFollows,
     LocationFollows, EventsFollow, RowFollows, Settled
<1> QED BY <1>4, <1>5, <1>7 DEF Holds, Bookkeeping

\* Closing the stay keeps the device in step.
LEMMA CloseLocationStep ==
  ASSUME TypeOK, TypeOK', NEW m \in Devices, Holds(m), CloseLocation(m)
  PROVE  Holds(m)'
<1>1. NextStatement(m, "close_location")
  BY DEF CloseLocation
<1>2. \/ /\ state[m] = "offline" /\ ap[m] = NoAP
         /\ todo'[m] = << Tell("went_offline") >>
      \/ /\ Known(m) /\ ap[m] \in APs
         /\ todo'[m] = << Effect("insert_location", ap[m]),
                          Tell("device_location_changed") >>
  BY <1>1, StatementFacts, NextIs DEF Holds, Bookkeeping
<1>3. /\ stay'[m] = (IF m \in ids THEN NoAP ELSE stay[m])
      /\ ids' = ids /\ row' = row /\ session' = session /\ log' = log
      /\ announced' = announced
  BY DEF CloseLocation, TypeOK
<1>4. BatchFits(m)'
  BY <1>1, <1>2, <1>3, StatementFacts DEF BatchFits, Leaving, Moving, Known
<1>5. TableAndIds(m)' /\ NothingBeforeTheRow(m)' /\ AtMostOnce(m)' /\ SavedFollows(m)'
  BY <1>1, <1>2, <1>3, StatementFacts DEF Holds, Bookkeeping, TableAndIds,
     NothingBeforeTheRow, AtMostOnce, SavedFollows, Known
<1>6. FacetOf(Head(todo[m])) = "location"
  BY <1>1, StatementFacts DEF FacetOf
<1>7. ap[m] \in APs => "location" \in Pending(m)'
  <2>1. \A a \in APs : "location" \in FacetsOf(<< Effect("insert_location", a),
                                                Tell("device_location_changed") >>)
    BY TupleFacets, Facet
  <2> QED BY <1>2, <2>1, APsAssumption, PendingIs
<1>8. Consistent(m)'
  BY <1>1, <1>2, <1>3, <1>6, <1>7, StatementFacts DEF Holds, Consistent,
     PresenceFollows, LocationFollows, EventsFollow, RowFollows, Settled
<1> QED BY <1>4, <1>5, <1>8 DEF Holds, Bookkeeping

\* Opening the stay at the new access point keeps the device in step.
LEMMA InsertLocationStep ==
  ASSUME TypeOK, TypeOK', NEW m \in Devices, Holds(m), InsertLocation(m)
  PROVE  Holds(m)'
<1>1. NextStatement(m, "insert_location")
  BY DEF InsertLocation
<1>2. /\ Known(m) /\ ap[m] \in APs /\ Head(todo[m]).arg = ap[m]
      /\ todo'[m] = << Tell("device_location_changed") >>
  BY <1>1, StatementFacts, NextIs DEF Holds, Bookkeeping
<1>3. /\ stay'[m] = (IF m \in ids THEN ap[m] ELSE stay[m])
      /\ ids' = ids /\ row' = row /\ session' = session /\ log' = log
      /\ announced' = announced
  BY <1>2 DEF InsertLocation, TypeOK
<1>4. BatchFits(m)'
  BY <1>1, <1>2, <1>3, StatementFacts DEF BatchFits, Moving, Known
<1>5. TableAndIds(m)' /\ NothingBeforeTheRow(m)' /\ AtMostOnce(m)' /\ SavedFollows(m)'
  BY <1>1, <1>2, <1>3, StatementFacts DEF Holds, Bookkeeping, TableAndIds,
     NothingBeforeTheRow, AtMostOnce, SavedFollows, Known
<1>6. FacetOf(Head(todo[m])) = "location"
  BY <1>1, StatementFacts DEF FacetOf
<1>7. Consistent(m)'
  BY <1>1, <1>2, <1>3, <1>6, StatementFacts DEF Holds, Consistent, PresenceFollows,
     LocationFollows, EventsFollow, RowFollows, Settled
<1> QED BY <1>4, <1>5, <1>7 DEF Holds, Bookkeeping

\* Recording an event keeps the device in step, and announces it at most once.
LEMMA InsertEventStep ==
  ASSUME TypeOK, TypeOK', NEW m \in Devices, Holds(m), InsertEvent(m)
  PROVE  Holds(m)'
<1> DEFINE kind == Head(todo[m]).arg
<1>1. NextStatement(m, "insert_event")
  BY DEF InsertEvent
<1>2. /\ todo'[m] = <<>>
      /\ \/ kind = "new_device" /\ state[m] = "online" /\ announced[m] = 0
         \/ kind = "returned" /\ state[m] = "online"
         \/ kind = "went_offline" /\ state[m] = "offline"
         \/ kind = "device_location_changed" /\ Known(m)
  BY <1>1, StatementFacts, NextIs DEF Holds, Bookkeeping
<1>3. /\ log'[m].kind = (IF m \in ids /\ kind \in PresenceEvents
                         THEN kind ELSE log[m].kind)
      /\ announced'[m] = (IF m \in ids /\ kind = "new_device"
                          THEN announced[m] + 1 ELSE announced[m])
      /\ ids' = ids /\ row' = row /\ session' = session /\ stay' = stay
  BY DEF InsertEvent, TypeOK
<1>4. BatchFits(m)'
  BY <1>2 DEF BatchFits
<1>5. m \in ids => row[m].state # "absent"
  BY <1>1 DEF NextStatement, Holds, Bookkeeping, TableAndIds
<1>6. TableAndIds(m)' /\ NothingBeforeTheRow(m)' /\ AtMostOnce(m)' /\ SavedFollows(m)'
  <2>1. up' /\ state' = state /\ ap' = ap /\ flushing' = flushing
    BY <1>1, StatementFacts
  <2>2. AtMostOnce(m)'
    BY <1>2, <1>3 DEF Holds, Bookkeeping, AtMostOnce, TypeOK
  <2>3. NothingBeforeTheRow(m)'
    BY <1>3, <1>5 DEF Holds, Bookkeeping, NothingBeforeTheRow
  <2>4. TableAndIds(m)' /\ SavedFollows(m)'
    BY <1>1, <1>2, <1>3, <2>1 DEF Holds, Bookkeeping, TableAndIds,
       SavedFollows, Known,
       NextStatement
  <2> QED BY <2>2, <2>3, <2>4
<1>7. FacetOf(Head(todo[m])) = (IF kind \in PresenceEvents THEN "events" ELSE "moves")
  BY <1>1, StatementFacts DEF FacetOf
<1>8. Consistent(m)'
  BY <1>1, <1>2, <1>3, <1>7, StatementFacts DEF Holds, Consistent, PresenceFollows,
     LocationFollows, EventsFollow, RowFollows, Settled, PresenceEvents
<1> QED BY <1>4, <1>6, <1>8 DEF Holds, Bookkeeping

\* Writing the device's snapshot (Persister::flush) keeps it in step.
LEMMA FlushDeviceStep ==
  ASSUME TypeOK, TypeOK', NEW m \in Devices, Holds(m), FlushDevice(m)
  PROVE  Holds(m)'
<1>1. /\ up /\ up' = up /\ m \notin flushing'
      /\ state' = state /\ silence' = silence /\ ap' = ap /\ dirty' = dirty
      /\ ids' = ids /\ todo' = todo /\ session' = session /\ stay' = stay
      /\ log' = log /\ announced' = announced
      /\ row'[m] = (IF m \in ids THEN [state |-> state[m], silence |-> silence[m],
                                       ap |-> ap[m]] ELSE row[m])
      /\ torn'[m] = torn[m] \ {"row"}
  BY DEF FlushDevice, TypeOK, memory
<1>2. Pending(m)' = Pending(m)
  BY <1>1, PendingIs
<1>3. BatchFits(m)'
  BY <1>1 DEF Holds, Bookkeeping, BatchFits, Arriving, Returning, Leaving,
     Moving, Known
<1>4. TableAndIds(m)' /\ NothingBeforeTheRow(m)' /\ AtMostOnce(m)' /\ SavedFollows(m)'
  BY <1>1 DEF Holds, Bookkeeping, TableAndIds,
     NothingBeforeTheRow, AtMostOnce, SavedFollows, Known
<1>5. Consistent(m)'
  BY <1>1, <1>2 DEF Holds, Consistent, PresenceFollows,
     LocationFollows, EventsFollow, RowFollows, Settled
<1> QED BY <1>3, <1>4, <1>5 DEF Holds, Bookkeeping

(***************************************************************************)
(* Steps of every device at once.                                          *)
(***************************************************************************)
\* Time passing keeps every device in step.
LEMMA TickStep ==
  ASSUME TypeOK, TypeOK', NEW m \in Devices, Holds(m), Tick
  PROVE  Holds(m)'
<1>1. /\ up' = up /\ state' = state /\ ap' = ap /\ dirty' = dirty /\ ids' = ids
      /\ todo' = todo /\ flushing' = flushing /\ session' = session /\ stay' = stay
      /\ log' = log /\ announced' = announced /\ torn' = torn
  BY DEF Tick, persister, history
<1>2. row'[m].state = row[m].state /\ row'[m].ap = row[m].ap
  BY DEF Tick, TypeOK
<1>3. row[m].state # "absent" /\ Known(m) /\ row[m].silence = silence[m] =>
        row'[m].silence = silence'[m]
  BY DEF Tick, TypeOK
<1>4. Pending(m)' = Pending(m)
  BY <1>1, PendingIs
<1>5. BatchFits(m)'
  BY <1>1 DEF Holds, Bookkeeping, BatchFits, Arriving, Returning, Leaving,
     Moving, Known
<1>6. TableAndIds(m)' /\ NothingBeforeTheRow(m)' /\ AtMostOnce(m)' /\ SavedFollows(m)'
  BY <1>1, <1>2 DEF Holds, Bookkeeping, TableAndIds,
     NothingBeforeTheRow, AtMostOnce, SavedFollows, Known
<1>7. Consistent(m)'
  <2>1. up => PresenceFollows(m)' /\ LocationFollows(m)' /\ EventsFollow(m)'
    BY <1>1, <1>4 DEF Holds, Consistent, PresenceFollows,
       LocationFollows, EventsFollow, Settled
  <2>2. up => RowFollows(m)'
    BY <1>1, <1>2, <1>3, <1>4 DEF Holds, Bookkeeping, TableAndIds, Consistent,
       RowFollows, Settled
  <2> QED BY <1>1, <2>1, <2>2 DEF Consistent
<1> QED BY <1>5, <1>6, <1>7 DEF Holds, Bookkeeping

\* The sweep (Manager::sweep) keeps every device in step.
LEMMA SweepStep ==
  ASSUME TypeOK, TypeOK', NEW m \in Devices, Holds(m), Sweep
  PROVE  Holds(m)'
<1>1. /\ up /\ up' = up /\ silence' = silence /\ ids' = ids /\ todo[m] = <<>>
      /\ flushing' = flushing /\ row' = row /\ session' = session /\ stay' = stay
      /\ log' = log /\ announced' = announced /\ torn' = torn
  BY DEF Sweep, Ready, Busy, database, history
<1>2. CASE TimedOut(m)
  <2>1. /\ state'[m] = "offline" /\ ap'[m] = NoAP /\ dirty'[m]
        /\ todo'[m] = OfflineBatch(ap[m]) /\ Known(m)
    BY <1>2 DEF Sweep, Marked, TimedOut, Known
  <2>2. BatchFits(m)'
    BY <2>1 DEF BatchFits, Leaving, OfflineBatch, CloseIt, LeaveIt, Tell
  <2>3. TableAndIds(m)' /\ NothingBeforeTheRow(m)' /\ AtMostOnce(m)' /\ SavedFollows(m)'
    BY <1>1, <2>1 DEF Holds, Bookkeeping, TableAndIds,
       NothingBeforeTheRow, AtMostOnce, SavedFollows, Known
  <2>4. /\ Pending(m) = {} /\ {"presence", "events"} \subseteq Pending(m)'
        /\ ap[m] # NoAP => "location" \in Pending(m)'
    <3>1. ap[m] \in APs \cup {NoAP}
      BY DEF TypeOK
    <3> QED BY <1>1, <2>1, <3>1, PendingIs, BatchFacets
  <2>5. Consistent(m)'
    BY <1>1, <2>1, <2>4 DEF Holds, Consistent, PresenceFollows,
       LocationFollows, EventsFollow, RowFollows, Settled
  <2> QED BY <2>2, <2>3, <2>5 DEF Holds, Bookkeeping
<1>3. CASE ~TimedOut(m)
  <2>1. /\ ap'[m] = ap[m] /\ todo'[m] = <<>>
        /\ IF FellIdle(m) THEN state[m] = "online" /\ state'[m] = "idle" /\ dirty'[m]
           ELSE state'[m] = state[m] /\ (dirty'[m] <=> dirty[m])
    BY <1>3 DEF Sweep, Marked, FellIdle
  <2>2. BatchFits(m)'
    BY <2>1 DEF BatchFits
  <2>3. TableAndIds(m)' /\ NothingBeforeTheRow(m)' /\ AtMostOnce(m)' /\ SavedFollows(m)'
    BY <1>1, <2>1 DEF Holds, Bookkeeping, TableAndIds,
       NothingBeforeTheRow, AtMostOnce, SavedFollows, Known
  <2>4. Pending(m)' = Pending(m)
    BY <1>1, <2>1, PendingIs
  <2>5. Consistent(m)'
    BY <1>1, <2>1, <2>4 DEF Holds, Consistent, PresenceFollows,
       LocationFollows, EventsFollow, RowFollows, Settled
  <2> QED BY <2>2, <2>3, <2>5 DEF Holds, Bookkeeping
<1> QED BY <1>2, <1>3

\* Losing the rest of a batch puts out of step only what it held.
LEMMA DropBatchStep ==
  ASSUME TypeOK, TypeOK', NEW m \in Devices, Holds(m), DropBatch
  PROVE  Holds(m)'
<1>1. /\ up /\ up' = up /\ state' = state /\ silence' = silence /\ ap' = ap
      /\ dirty' = dirty /\ ids' = ids /\ flushing' = flushing /\ row' = row
      /\ session' = session /\ stay' = stay /\ log' = log /\ announced' = announced
      /\ todo'[m] = <<>> /\ torn'[m] = torn[m] \cup Pending(m)
  BY DEF DropBatch, memory, database
<1>2. Pending(m)' = {}
  BY <1>1, PendingIs, BatchFacets
<1>3. BatchFits(m)'
  BY <1>1 DEF BatchFits
<1>4. TableAndIds(m)' /\ NothingBeforeTheRow(m)' /\ AtMostOnce(m)' /\ SavedFollows(m)'
  BY <1>1 DEF Holds, Bookkeeping, TableAndIds,
     NothingBeforeTheRow, AtMostOnce, SavedFollows, Known
<1>5. Consistent(m)'
  BY <1>1, <1>2 DEF Holds, Consistent, PresenceFollows,
     LocationFollows, EventsFollow, RowFollows, Settled
<1> QED BY <1>3, <1>4, <1>5 DEF Holds, Bookkeeping

\* Taking the snapshots (Manager::take_dirty) keeps every device in step.
LEMMA TakeDirtyStep ==
  ASSUME TypeOK, TypeOK', NEW m \in Devices, Holds(m), TakeDirty
  PROVE  Holds(m)'
<1>1. /\ up /\ up' = up /\ state' = state /\ silence' = silence /\ ap' = ap
      /\ ids' = ids /\ row' = row /\ session' = session /\ stay' = stay
      /\ log' = log /\ announced' = announced /\ todo' = todo /\ torn' = torn
      /\ m \notin flushing /\ (m \in flushing' <=> dirty[m]) /\ ~dirty'[m]
  BY DEF TakeDirty, Ready, Busy, database, history
<1>2. Pending(m)' = Pending(m)
  BY <1>1, PendingIs
<1>3. BatchFits(m)'
  BY <1>1 DEF Holds, Bookkeeping, BatchFits, Arriving, Returning, Leaving,
     Moving, Known
<1>4. TableAndIds(m)' /\ NothingBeforeTheRow(m)' /\ AtMostOnce(m)' /\ SavedFollows(m)'
  BY <1>1 DEF Holds, Bookkeeping, TableAndIds,
     NothingBeforeTheRow, AtMostOnce, SavedFollows, Known
<1>5. Consistent(m)'
  BY <1>1, <1>2 DEF Holds, Consistent, PresenceFollows,
     LocationFollows, EventsFollow, RowFollows, Settled
<1> QED BY <1>3, <1>4, <1>5 DEF Holds, Bookkeeping

\* Losing the rest of a flush puts out of step only the rows it held.
LEMMA DropFlushStep ==
  ASSUME TypeOK, TypeOK', NEW m \in Devices, Holds(m), DropFlush
  PROVE  Holds(m)'
<1>1. /\ up /\ up' = up /\ state' = state /\ silence' = silence /\ ap' = ap
      /\ ids' = ids /\ row' = row /\ session' = session /\ stay' = stay
      /\ log' = log /\ announced' = announced /\ todo' = todo /\ dirty' = dirty
      /\ m \notin flushing' 
      /\ torn'[m] = (IF m \in flushing THEN torn[m] \cup {"row"} ELSE torn[m])
  BY DEF DropFlush, memory, database
<1>2. Pending(m)' = Pending(m)
  BY <1>1, PendingIs
<1>3. BatchFits(m)'
  BY <1>1 DEF Holds, Bookkeeping, BatchFits, Arriving, Returning, Leaving,
     Moving, Known
<1>4. TableAndIds(m)' /\ NothingBeforeTheRow(m)' /\ AtMostOnce(m)' /\ SavedFollows(m)'
  BY <1>1 DEF Holds, Bookkeeping, TableAndIds,
     NothingBeforeTheRow, AtMostOnce, SavedFollows, Known
<1>5. Consistent(m)'
  BY <1>1, <1>2 DEF Holds, Consistent, PresenceFollows,
     LocationFollows, EventsFollow, RowFollows, Settled
<1> QED BY <1>3, <1>4, <1>5 DEF Holds, Bookkeeping

\* The end of the process leaves a database a restart may trust.
LEMMA ExitStep ==
  ASSUME TypeOK, TypeOK', NEW m \in Devices, Holds(m), Exit
  PROVE  Holds(m)'
<1>1. /\ up /\ ~up' /\ state'[m] = "absent" /\ ap'[m] = NoAP
      /\ ids' = {} /\ flushing' = {} /\ todo'[m] = <<>> /\ row' = row
      /\ session' = session /\ stay' = stay /\ log' = log /\ announced' = announced
      /\ torn'[m] = (IF Unwritten(m) THEN Facets ELSE torn[m])
  BY DEF Exit, Each, database
<1>2. BatchFits(m)'
  BY <1>1 DEF BatchFits
<1>3. TableAndIds(m)' /\ NothingBeforeTheRow(m)' /\ AtMostOnce(m)'
  BY <1>1 DEF Holds, Bookkeeping, TableAndIds, NothingBeforeTheRow, AtMostOnce,
     Known
<1>4. SavedFollows(m)'
  <2>1. CASE Unwritten(m)
    BY <1>1, <2>1 DEF SavedFollows, Facets
  <2>2. CASE ~Unwritten(m)
    <3>1. /\ ~dirty[m] /\ m \notin flushing /\ todo[m] = <<>> /\ "row" \notin torn[m]
      BY <2>2 DEF Unwritten
    <3>2. Pending(m) = {}
      BY <3>1, PendingIs, BatchFacets
    <3>3. row[m].state # "absent" => m \in ids
      BY <1>1 DEF Holds, Bookkeeping, TableAndIds
    <3> QED BY <1>1, <2>2, <3>1, <3>2, <3>3 DEF Holds, Consistent, PresenceFollows,
            LocationFollows, EventsFollow, RowFollows, Settled, SavedFollows
  <2> QED BY <2>1, <2>2
<1>5. Consistent(m)'
  BY <1>1 DEF Consistent
<1> QED BY <1>2, <1>3, <1>4, <1>5 DEF Holds, Bookkeeping

\* A restart (Manager::restore) puts every device it may trust in step.
LEMMA StartStep ==
  ASSUME TypeOK, TypeOK', NEW m \in Devices, Holds(m), Start
  PROVE  Holds(m)'
<1>1. /\ ~up /\ up' /\ state'[m] = row[m].state /\ silence'[m] = row[m].silence
      /\ ap'[m] = RestoredAp(m) /\ (m \in ids' <=> row[m].state # "absent")
      /\ row' = row /\ session' = session /\ log' = log /\ announced' = announced
      /\ todo' = todo /\ flushing' = flushing
  BY DEF Start, RestoredState
<1>2. /\ torn[m] \ {"row", "location"} \subseteq torn'[m]
      /\ \/ stay'[m] = (IF row[m].state = "offline" THEN NoAP ELSE stay[m])
         \/ /\ stay'[m] = stay[m]
            /\ row[m].state = "offline" => "location" \in torn'[m]
      /\ row[m].state # "offline" /\ "location" \in torn[m] => "location" \in torn'[m]
  BY DEF Start
<1>3. todo[m] = <<>> /\ m \notin flushing
  BY <1>1 DEF Holds, Bookkeeping, TableAndIds
<1>4. BatchFits(m)'
  BY <1>1, <1>3 DEF BatchFits
<1>5. TableAndIds(m)' /\ NothingBeforeTheRow(m)' /\ AtMostOnce(m)' /\ SavedFollows(m)'
  BY <1>1, <1>2, <1>3 DEF Holds, Bookkeeping, TableAndIds,
     NothingBeforeTheRow, AtMostOnce, SavedFollows, Known, RestoredAp
<1>6. Consistent(m)'
  BY <1>1, <1>2, <1>3 DEF Holds, Bookkeeping, SavedFollows, Consistent, RestoredAp,
     PresenceFollows, LocationFollows, EventsFollow, RowFollows, Settled
<1> QED BY <1>4, <1>5, <1>6 DEF Holds, Bookkeeping

(***************************************************************************)
(* The theorems.                                                           *)
(***************************************************************************)
\* The inductive invariant holds initially.
LEMMA InvInit == Init => IInv
<1> SUFFICES ASSUME Init PROVE IInv
  OBVIOUS
<1>1. TypeOK
  BY TypeInit
<1>2. ASSUME NEW m \in Devices PROVE Holds(m)
  <2>1. /\ ~up /\ state[m] = "absent" /\ ap[m] = NoAP /\ ids = {} /\ flushing = {}
        /\ todo[m] = <<>> /\ row[m].state = "absent" /\ row[m].ap = NoAP
        /\ session[m] = 0 /\ stay[m] = NoAP /\ log[m].kind = "none" /\ announced[m] = 0
    BY DEF Init, Each
  <2> QED BY <2>1 DEF Holds, Bookkeeping, Consistent, TableAndIds, NothingBeforeTheRow,
          AtMostOnce, BatchFits, SavedFollows, Known
<1> QED BY <1>1, <1>2 DEF IInv, Holds

\* Every step keeps the inductive invariant.
LEMMA InvNext == IInv /\ [Next]_vars => IInv'
<1> SUFFICES ASSUME IInv, [Next]_vars PROVE IInv'
  OBVIOUS
<1>1. TypeOK /\ TypeOK'
  BY TypeNext DEF IInv
<1> SUFFICES ASSUME NEW m \in Devices PROVE Holds(m)'
  BY <1>1 DEF IInv, Holds
<1>2. Holds(m)
  BY DEF IInv, Holds
<1> USE <1>1, <1>2
<1>3. CASE Tick
  BY <1>3, TickStep
<1>4. ASSUME NEW d \in Devices, NEW lag \in 0 .. MaxLag, Discover(d, lag)
      PROVE  Holds(m)'
  <2>1. CASE m = d
    BY <1>4, <2>1, DiscoverStep
  <2>2. CASE m # d
    BY <1>4, <2>2, Frame DEF Discover, TypeOK, database, history
  <2> QED BY <2>1, <2>2
<1>5. ASSUME NEW d \in Devices, NEW lag \in 0 .. MaxLag, Observe(d, lag)
      PROVE  Holds(m)'
  <2>1. CASE m = d
    BY <1>5, <2>1, ObserveStep
  <2>2. CASE m # d
    BY <1>5, <2>2, Frame DEF Observe, TypeOK, database, history
  <2> QED BY <2>1, <2>2
<1>6. CASE Sweep
  BY <1>6, SweepStep
<1>7. ASSUME NEW d \in Devices, NEW a \in APs, SetLocation(d, a)
      PROVE  Holds(m)'
  <2>1. CASE m = d
    BY <1>7, <2>1, SetLocationStep
  <2>2. CASE m # d
    BY <1>7, <2>2, Frame DEF SetLocation, TypeOK, database, history
  <2> QED BY <2>1, <2>2
<1>8. ASSUME NEW d \in Devices, Write(d)
      PROVE  Holds(m)'
  <2>1. CASE m = d
    BY <1>8, <2>1, InsertDeviceStep, OpenPresenceStep, ClosePresenceStep,
       CloseLocationStep, InsertLocationStep, InsertEventStep DEF Write
  <2>2. CASE m # d
    <3> USE <2>2 DEF NextStatement, memory, TypeOK
    <3>1. CASE InsertDevice(d)
      BY <1>8, <3>1, Frame DEF InsertDevice
    <3>2. CASE OpenPresence(d)
      BY <1>8, <3>2, Frame DEF OpenPresence
    <3>3. CASE ClosePresence(d)
      BY <1>8, <3>3, Frame DEF ClosePresence
    <3>4. CASE CloseLocation(d)
      BY <1>8, <3>4, Frame DEF CloseLocation
    <3>5. CASE InsertLocation(d)
      BY <1>8, <3>5, Frame DEF InsertLocation
    <3>6. CASE InsertEvent(d)
      BY <1>8, <3>6, Frame DEF InsertEvent
    <3> QED BY <1>8, <3>1, <3>2, <3>3, <3>4, <3>5, <3>6 DEF Write
  <2> QED BY <2>1, <2>2
<1>9. CASE DropBatch
  BY <1>9, DropBatchStep
<1>10. CASE TakeDirty
  BY <1>10, TakeDirtyStep
<1>11. ASSUME NEW d \in Devices, FlushDevice(d)
       PROVE  Holds(m)'
  <2>1. CASE m = d
    BY <1>11, <2>1, FlushDeviceStep
  <2>2. CASE m # d
    BY <1>11, <2>2, Frame DEF FlushDevice, TypeOK, memory
  <2> QED BY <2>1, <2>2
<1>12. CASE DropFlush
  BY <1>12, DropFlushStep
<1>13. CASE Exit
  BY <1>13, ExitStep
<1>14. CASE Start
  BY <1>14, StartStep
<1>15. CASE UNCHANGED vars
  BY <1>15, Frame DEF vars, memory, persister, database, history
<1> QED
  BY <1>3, <1>4, <1>5, <1>6, <1>7, <1>8, <1>9, <1>10, <1>11, <1>12, <1>13,
     <1>14, <1>15
     DEF Next, Crash, Shutdown

\* The inductive invariant holds in every reachable state.
THEOREM Invariance == Spec => []IInv
BY InvInit, InvNext, PTL DEF Spec

\* The table, the queues and the database always hold values of their types:
\* no handler queues a statement Persister::apply does not know.
THEOREM TypeCorrect == Spec => []TypeOK
<1>1. IInv => TypeOK
  BY DEF IInv
<1> QED BY <1>1, Invariance, PTL

\* Whatever fails or crashes, a copy of a device is out of step with the state
\* machine only if a fault hit a write of that copy of that device, and only
\* until its next write (Persister::apply, Persister::flush, Manager::restore).
THEOREM Containment == Spec => []FaultsAreContained
<1>1. IInv => FaultsAreContained
  BY DEF IInv, Consistent, FaultsAreContained
<1> QED BY <1>1, Invariance, PTL

\* No device is announced as new twice, and none has an event without a row,
\* whatever fails and however often the daemon restarts (Manager::discover).
THEOREM Announcement == Spec => []AnnouncedOnce
<1>1. IInv => AnnouncedOnce
  BY DEF IInv, Bookkeeping, AtMostOnce, NothingBeforeTheRow, AnnouncedOnce
<1> QED BY <1>1, Invariance, PTL

(***************************************************************************)
(* The presence ledger, as long as nothing fails.                          *)
(***************************************************************************)
Opened == {"new_device", "returned"}

\* The event that the queue of a device ends in.
NextEvent(m) == IF todo[m] = <<>> THEN "nothing" ELSE todo[m][Len(todo[m])].arg

\* What has been told of a device that has a row, by what is still to be told.
StoryFits(m) ==
  /\ todo[m] # <<>> => /\ Head(todo[m]).op = "open_presence" => session[m] = 0
                       /\ Head(todo[m]).op = "close_presence" => session[m] = 1
  /\ NextEvent(m) = "new_device" => log[m].kind = "none"
  /\ NextEvent(m) = "returned" => log[m].kind = "went_offline"
  /\ NextEvent(m) = "went_offline" => log[m].kind \in Opened
  /\ NextEvent(m) \in {"nothing", "device_location_changed"} => log[m].kind # "none"

\* No copy is out of step, and the story holds while the daemon is down too.
InStep(m) ==
  /\ torn[m] = {}
  /\ m \in ids => StoryFits(m)
  /\ ~up /\ row[m].state # "absent" => log[m].kind # "none"

\* The environment of the ledger: no statement fails, and the daemon does not crash.
NoFaults == MayCrash = FALSE /\ MaxFailures = 0

\* The inductive invariant of the refinement.
LedgerInv == NoFaults /\ IInv /\ \A m \in Devices : InStep(m)

\* Writing a statement does not change how the queue ends, until it ends.
LEMMA EndOfTail ==
  ASSUME NEW s \in Seq(Statements), s # <<>>, Tail(s) # <<>>
  PROVE  Tail(s)[Len(Tail(s))] = s[Len(s)]
OBVIOUS

\* How the batches end.
LEMMA EndsOfBatches ==
  /\ \A e : Len(<<e>>) = 1 /\ <<e>>[1] = e
  /\ \A d, e : Len(<<d, e>>) = 2 /\ <<d, e>>[2] = e
  /\ \A c, d, e : Len(<<c, d, e>>) = 3 /\ <<c, d, e>>[3] = e
OBVIOUS

\* The last statement of a queue is its first one when no other is left.
LEMMA LastOne ==
  ASSUME NEW s \in Seq(Statements), s # <<>>, Tail(s) = <<>>
  PROVE  s[Len(s)] = Head(s)
<1>1. Len(Tail(s)) = Len(s) - 1 /\ Len(s) \in Nat /\ Head(s) = s[1]
  OBVIOUS
<1>2. Len(<<>>) = 0
  OBVIOUS
<1>3. Len(s) - 1 = 0
  BY <1>1, <1>2
<1>4. Len(s) = 1
  BY ONLY <1>1, <1>3
<1> QED BY <1>1, <1>4

\* What comes next in the rests of the batches.
LEMMA RestHeads ==
  /\ \A k : << Tell(k) >> # <<>> /\ Head(<< Tell(k) >>).op = "insert_event"
  /\ \A k : << LeaveIt, Tell(k) >> # <<>> /\ Head(<< LeaveIt, Tell(k) >>).op = "close_location"
  /\ \A a, k : /\ << Effect("insert_location", a), Tell(k) >> # <<>>
               /\ Head(<< Effect("insert_location", a), Tell(k) >>).op = "insert_location"
BY TupleFacts DEF Tell, LeaveIt, Effect

\* A device that nothing happens to stays in step with the ledger.
LEMMA StoryFrame ==
  ASSUME NEW m \in Devices, InStep(m), up' = up, todo'[m] = todo[m], torn'[m] \subseteq torn[m],
         session'[m] = session[m], log'[m] = log[m], m \in ids' <=> m \in ids,
         row'[m].state = "absent" <=> row[m].state = "absent"
  PROVE  InStep(m)'
<1>1. NextEvent(m)' = NextEvent(m)
  BY DEF NextEvent
<1> QED
  BY <1>1 DEF InStep, StoryFits

\* Of a device with nothing in the queue the tables say what its state is.
LEMMA AtRest ==
  ASSUME NEW m \in Devices, LedgerInv, up, m \in ids, todo[m] = <<>>
  PROVE  /\ session[m] = (IF state[m] = "offline" THEN 0 ELSE 1)
         /\ log[m].kind = "went_offline" <=> state[m] = "offline"
         /\ log[m].kind # "none"
<1>1. Pending(m) = {} /\ torn[m] = {}
  BY PendingIs, BatchFacets DEF LedgerInv, InStep
<1>2. PresenceFollows(m) /\ EventsFollow(m)
  BY DEF LedgerInv, IInv, Consistent
<1>3. NextEvent(m) = "nothing"
  BY DEF NextEvent
<1> QED
  BY <1>1, <1>2, <1>3 DEF PresenceFollows, EventsFollow, Settled, LedgerInv, InStep, StoryFits

\* A device that comes back had closed its session and told of it.
LEMMA ObserveStory ==
  ASSUME LedgerInv, NEW m \in Devices, NEW lag \in 0 .. MaxLag, Observe(m, lag)
  PROVE  InStep(m)'
<1>1. /\ up /\ up' = up /\ todo[m] = <<>> /\ torn' = torn /\ ids' = ids
      /\ session' = session /\ log' = log /\ row' = row
      /\ todo'[m] = IF state[m] = "offline" THEN ReturnBatch ELSE <<>>
  BY DEF Observe, Ready, Busy, database, history, LedgerInv, IInv, TypeOK
<1>2. CASE state[m] = "offline"
  <2>1. /\ todo'[m] # <<>> /\ Head(todo'[m]).op = "open_presence"
        /\ todo'[m][Len(todo'[m])].arg = "returned"
    BY <1>1, <1>2, TupleFacts, EndsOfBatches, OpOf DEF ReturnBatch
  <2>2. NextEvent(m)' = "returned"
    BY <2>1 DEF NextEvent
  <2>3. m \in ids => StoryFits(m)'
    BY <1>1, <1>2, <2>1, <2>2, AtRest DEF StoryFits
  <2> QED
    BY <1>1, <2>3 DEF LedgerInv, InStep
<1>3. CASE state[m] # "offline"
  <2>1. todo'[m] = todo[m]
    BY <1>1, <1>3
  <2> QED
    BY <1>1, <2>1, StoryFrame DEF LedgerInv
<1> QED
  BY <1>2, <1>3

\* A report of another access point ends in no presence event.
LEMMA SetLocationStory ==
  ASSUME LedgerInv, NEW m \in Devices, NEW a \in APs, SetLocation(m, a)
  PROVE  InStep(m)'
<1>1. /\ up /\ up' = up /\ todo[m] = <<>> /\ torn' = torn /\ ids' = ids
      /\ session' = session /\ log' = log /\ row' = row /\ todo'[m] = MoveBatch(a)
  BY DEF SetLocation, Ready, Busy, database, history, LedgerInv, IInv, TypeOK
<1>2. /\ todo'[m] # <<>> /\ Head(todo'[m]).op = "close_location"
      /\ todo'[m][Len(todo'[m])].arg = "device_location_changed"
  BY <1>1, TupleFacts, EndsOfBatches, OpOf DEF MoveBatch
<1>3. NextEvent(m)' = "device_location_changed"
  BY <1>2 DEF NextEvent
<1>4. m \in ids => StoryFits(m)'
  BY <1>1, <1>2, <1>3, AtRest DEF StoryFits
<1> QED
  BY <1>1, <1>4 DEF LedgerInv, InStep

\* A device that times out had an open session, whose opening was told.
LEMMA SweepStory ==
  ASSUME LedgerInv, NEW m \in Devices, Sweep
  PROVE  InStep(m)'
<1>1. /\ up /\ up' = up /\ todo[m] = <<>> /\ torn' = torn /\ ids' = ids
      /\ session' = session /\ log' = log /\ row' = row
      /\ todo'[m] = IF TimedOut(m) THEN OfflineBatch(ap[m]) ELSE <<>>
  BY DEF Sweep, Ready, Busy, database, history
<1>2. CASE TimedOut(m)
  <2>1. /\ todo'[m] # <<>> /\ Head(todo'[m]).op = "close_presence"
        /\ todo'[m][Len(todo'[m])].arg = "went_offline"
    <3>1. CASE ap[m] = NoAP
      BY <1>1, <1>2, <3>1, TupleFacts, EndsOfBatches, OpOf DEF OfflineBatch
    <3>2. CASE ap[m] # NoAP
      BY <1>1, <1>2, <3>2, TupleFacts, EndsOfBatches, OpOf DEF OfflineBatch
    <3> QED
      BY <3>1, <3>2
  <2>2. NextEvent(m)' = "went_offline"
    BY <2>1 DEF NextEvent
  <2>3. log[m].kind \in PresenceEvents \cup {"none"} /\ state[m] # "offline"
    BY <1>2 DEF LedgerInv, IInv, TypeOK, TimedOut
  <2>4. m \in ids => StoryFits(m)'
    BY <1>1, <2>1, <2>2, <2>3, AtRest DEF StoryFits, PresenceEvents, Opened
  <2> QED
    BY <1>1, <2>4 DEF LedgerInv, InStep
<1>3. CASE ~TimedOut(m)
  <2>1. todo'[m] = todo[m]
    BY <1>1, <1>3
  <2> QED
    BY <1>1, <2>1, StoryFrame DEF LedgerInv
<1> QED
  BY <1>2, <1>3

\* A device that was not known has nothing told of it yet.
LEMMA DiscoverStory ==
  ASSUME LedgerInv, NEW m \in Devices, NEW lag \in 0 .. MaxLag, Discover(m, lag)
  PROVE  InStep(m)'
<1>1. up /\ up' = up /\ ~Known(m) /\ torn' = torn /\ ids' = ids /\ row' = row /\ log' = log
  BY DEF Discover, Ready, database, history
<1>2. m \notin ids
  BY <1>1 DEF LedgerInv, IInv, Bookkeeping, TableAndIds
<1> QED
  BY <1>1, <1>2 DEF LedgerInv, InStep

\* Until the queue ends, a statement that neither opens nor closes comes next.
LEMMA StoryGoesOn ==
  ASSUME TypeOK, NEW m \in Devices, InStep(m), up, up' = up, ids' = ids, log'[m] = log[m],
         torn'[m] \subseteq torn[m], todo[m] # <<>>, todo'[m] = Tail(todo[m]),
         todo'[m] # <<>>, Head(todo'[m]).op \notin {"open_presence", "close_presence"}
  PROVE  InStep(m)'
<1>1. NextEvent(m)' = NextEvent(m)
  <2>1. todo[m] \in Seq(Statements)
    BY DEF TypeOK
  <2>2. Tail(todo[m])[Len(Tail(todo[m]))] = todo[m][Len(todo[m])]
    BY <2>1, EndOfTail
  <2> QED
    BY <2>2 DEF NextEvent
<1>2. m \in ids' => StoryFits(m)'
  BY <1>1 DEF InStep, StoryFits
<1> QED
  BY <1>2 DEF InStep

\* A statement of a batch never puts its device out of step.
LEMMA NothingTorn ==
  ASSUME TypeOK, NEW m \in Devices, NEW op, NextStatement(m, op)
  PROVE  torn'[m] \subseteq torn[m]
BY DEF NextStatement, TypeOK

\* The device that a statement is written for stays in step with the ledger.
LEMMA WriteStory ==
  ASSUME LedgerInv, TypeOK', NEW m \in Devices, Write(m)
  PROVE  InStep(m)'
<1>1. TypeOK /\ Holds(m) /\ InStep(m) /\ BatchFits(m)
  BY DEF LedgerInv, IInv, Holds, Bookkeeping
<1> USE <1>1
<1>2. CASE InsertDevice(m)
  <2>1. NextStatement(m, "insert_device")
    BY <1>2 DEF InsertDevice
  <2>2. /\ m \notin ids /\ up /\ up' = up
        /\ todo'[m] = << OpenIt, Tell("new_device") >>
    BY <2>1, StatementFacts, NextIs
  <2>3. session' = session /\ log' = log
    BY <1>2 DEF InsertDevice
  <2>4. session[m] = 0 /\ log[m].kind = "none"
    BY <2>2 DEF Holds, Bookkeeping, TableAndIds, NothingBeforeTheRow
  <2>5. /\ todo'[m] # <<>> /\ Head(todo'[m]).op = "open_presence"
        /\ todo'[m][Len(todo'[m])].arg = "new_device"
    BY <2>2, TupleFacts, EndsOfBatches, OpOf DEF OpenIt, Tell
  <2>6. NextEvent(m)' = "new_device"
    BY <2>5 DEF NextEvent
  <2>7. StoryFits(m)'
    BY <2>3, <2>4, <2>5, <2>6 DEF StoryFits
  <2> QED
    BY <2>1, <2>2, <2>7, NothingTorn DEF InStep
<1>3. CASE OpenPresence(m)
  <2>1. NextStatement(m, "open_presence")
    BY <1>3 DEF OpenPresence
  <2>2. /\ up /\ up' = up /\ todo[m] # <<>> /\ todo'[m] = Tail(todo[m])
        /\ todo'[m] = << Tell("new_device") >> \/ todo'[m] = << Tell("returned") >>
    BY <2>1, StatementFacts, NextIs
  <2>3. todo'[m] # <<>> /\ Head(todo'[m]).op = "insert_event"
    BY <2>2, RestHeads
  <2> QED
    BY <1>3, <2>1, <2>2, <2>3, StoryGoesOn, NothingTorn DEF OpenPresence
<1>4. CASE ClosePresence(m)
  <2>1. NextStatement(m, "close_presence")
    BY <1>4 DEF ClosePresence
  <2>2. /\ up /\ up' = up /\ todo[m] # <<>> /\ todo'[m] = Tail(todo[m])
        /\ \/ todo'[m] = << LeaveIt, Tell("went_offline") >>
           \/ todo'[m] = << Tell("went_offline") >>
    BY <2>1, StatementFacts, NextIs
  <2>3. todo'[m] # <<>> /\ Head(todo'[m]).op \in {"close_location", "insert_event"}
    BY <2>2, RestHeads
  <2> QED
    BY <1>4, <2>1, <2>2, <2>3, StoryGoesOn, NothingTorn DEF ClosePresence
<1>5. CASE CloseLocation(m)
  <2>1. NextStatement(m, "close_location")
    BY <1>5 DEF CloseLocation
  <2>2. /\ up /\ up' = up /\ todo[m] # <<>> /\ todo'[m] = Tail(todo[m])
        /\ \/ todo'[m] = << Tell("went_offline") >>
           \/ todo'[m] = << Effect("insert_location", ap[m]),
                            Tell("device_location_changed") >>
    BY <2>1, StatementFacts, NextIs
  <2>3. todo'[m] # <<>> /\ Head(todo'[m]).op \in {"insert_location", "insert_event"}
    BY <2>2, RestHeads
  <2> QED
    BY <1>5, <2>1, <2>2, <2>3, StoryGoesOn, NothingTorn DEF CloseLocation
<1>6. CASE InsertLocation(m)
  <2>1. NextStatement(m, "insert_location")
    BY <1>6 DEF InsertLocation
  <2>2. /\ up /\ up' = up /\ todo[m] # <<>> /\ todo'[m] = Tail(todo[m])
        /\ todo'[m] = << Tell("device_location_changed") >>
    BY <2>1, StatementFacts, NextIs
  <2>3. todo'[m] # <<>> /\ Head(todo'[m]).op = "insert_event"
    BY <2>2, RestHeads
  <2> QED
    BY <1>6, <2>1, <2>2, <2>3, StoryGoesOn, NothingTorn DEF InsertLocation
<1>7. CASE InsertEvent(m)
  <2> DEFINE kind == Head(todo[m]).arg
  <2>1. NextStatement(m, "insert_event")
    BY <1>7 DEF InsertEvent
  <2>2. /\ up /\ up' = up /\ todo[m] # <<>> /\ todo'[m] = <<>>
        /\ Tail(todo[m]) = <<>>
        /\ kind \in {"new_device", "returned", "went_offline", "device_location_changed"}
    BY <2>1, StatementFacts, NextIs
  <2>3. /\ log'[m].kind = (IF m \in ids /\ kind \in PresenceEvents
                           THEN kind ELSE log[m].kind)
        /\ ids' = ids
    BY <1>7 DEF InsertEvent, TypeOK
  <2>4. NextEvent(m) = kind /\ NextEvent(m)' = "nothing"
    <3>1. todo[m] \in Seq(Statements)
      BY DEF TypeOK
    <3>2. todo[m][Len(todo[m])] = Head(todo[m])
      BY <2>2, <3>1, LastOne
    <3> QED
      BY <2>2, <3>2 DEF NextEvent
  <2>5. m \in ids => log'[m].kind # "none"
    BY <2>2, <2>3, <2>4 DEF InStep, StoryFits, PresenceEvents
  <2>6. m \in ids' => StoryFits(m)'
    BY <2>2, <2>3, <2>4, <2>5 DEF StoryFits
  <2> QED
    BY <2>1, <2>2, <2>6, NothingTorn DEF InStep
<1> QED
  BY <1>2, <1>3, <1>4, <1>5, <1>6, <1>7 DEF Write

\* A clean shutdown leaves nothing unwritten behind.
LEMMA ShutdownStory ==
  ASSUME LedgerInv, NEW m \in Devices, Shutdown
  PROVE  InStep(m)'
<1>1. /\ up /\ ~up' /\ todo[m] = <<>> /\ flushing = {} /\ ~dirty[m] /\ ids' = {}
      /\ row' = row /\ log' = log
      /\ torn'[m] = (IF Unwritten(m) THEN Facets ELSE torn[m])
  BY DEF Shutdown, Exit, Ready, Busy, database
<1>2. torn[m] = {}
  BY DEF LedgerInv, InStep
<1>3. torn'[m] = {}
  BY <1>1, <1>2 DEF Unwritten
<1>4. row[m].state # "absent" => log[m].kind # "none"
  <2>1. row[m].state # "absent" => m \in ids
    BY <1>1 DEF LedgerInv, IInv, Bookkeeping, TableAndIds
  <2> QED
    BY <1>1, <2>1, AtRest
<1> QED
  BY <1>1, <1>3, <1>4 DEF InStep

\* The next start finds every session and every event where they were left.
LEMMA StartStory ==
  ASSUME LedgerInv, NEW m \in Devices, Start
  PROVE  InStep(m)'
<1>1. /\ ~up /\ up' /\ (m \in ids' <=> row[m].state # "absent")
      /\ todo' = todo /\ log' = log
  BY DEF Start
<1>2. torn[m] = {} /\ (row[m].state # "absent" => log[m].kind # "none")
  BY <1>1 DEF LedgerInv, InStep
<1>3. torn'[m] = {}
  <2>1. ~(failures < MaxFailures)
    BY DEF LedgerInv, NoFaults, IInv, TypeOK
  <2>2. torn'[m] \subseteq torn[m]
    BY <2>1 DEF Start
  <2> QED
    BY <1>2, <2>2
<1>4. todo[m] = <<>>
  BY <1>1 DEF LedgerInv, IInv, Bookkeeping, TableAndIds
<1>5. NextEvent(m)' = "nothing"
  BY <1>1, <1>4 DEF NextEvent
<1>6. m \in ids' => StoryFits(m)'
  BY <1>1, <1>2, <1>4, <1>5 DEF StoryFits
<1> QED
  BY <1>1, <1>3, <1>6 DEF InStep

\* Without faults every step keeps every device in step with the ledger.
LEMMA LedgerInvNext == LedgerInv /\ [Next]_vars => LedgerInv'
<1> SUFFICES ASSUME LedgerInv, [Next]_vars PROVE LedgerInv'
  OBVIOUS
<1>1. IInv /\ IInv' /\ NoFaults'
  BY InvNext DEF LedgerInv, NoFaults
<1>2. TypeOK /\ TypeOK'
  BY <1>1 DEF IInv
<1>3. MayCrash = FALSE /\ ~(failures < MaxFailures)
  BY <1>2 DEF LedgerInv, NoFaults, TypeOK
<1> SUFFICES ASSUME NEW m \in Devices PROVE InStep(m)'
  BY <1>1 DEF LedgerInv
<1> USE <1>2
<1>4. InStep(m)
  BY DEF LedgerInv
<1>5. CASE Tick
  <2>1. row'[m].state = row[m].state
    BY <1>5 DEF Tick, TypeOK
  <2> QED
    BY <1>4, <1>5, <2>1, StoryFrame DEF Tick, persister, history
<1>6. ASSUME NEW d \in Devices, NEW lag \in 0 .. MaxLag, Discover(d, lag)
      PROVE  InStep(m)'
  <2>1. CASE m = d
    BY <1>6, <2>1, DiscoverStory
  <2>2. CASE m # d
    BY <1>4, <1>6, <2>2, StoryFrame DEF Discover, TypeOK, database, history
  <2> QED BY <2>1, <2>2
<1>7. ASSUME NEW d \in Devices, NEW lag \in 0 .. MaxLag, Observe(d, lag)
      PROVE  InStep(m)'
  <2>1. CASE m = d
    BY <1>7, <2>1, ObserveStory
  <2>2. CASE m # d
    BY <1>4, <1>7, <2>2, StoryFrame DEF Observe, TypeOK, database, history
  <2> QED BY <2>1, <2>2
<1>8. CASE Sweep
  BY <1>8, SweepStory
<1>9. ASSUME NEW d \in Devices, NEW a \in APs, SetLocation(d, a)
      PROVE  InStep(m)'
  <2>1. CASE m = d
    BY <1>9, <2>1, SetLocationStory
  <2>2. CASE m # d
    BY <1>4, <1>9, <2>2, StoryFrame DEF SetLocation, TypeOK, database, history
  <2> QED BY <2>1, <2>2
<1>10. ASSUME NEW d \in Devices, Write(d)
       PROVE  InStep(m)'
  <2>1. CASE m = d
    BY <1>10, <2>1, WriteStory
  <2>2. CASE m # d
    <3> USE <1>4, <2>2 DEF NextStatement, memory, TypeOK
    <3>1. CASE InsertDevice(d)
      BY <3>1, StoryFrame DEF InsertDevice
    <3>2. CASE OpenPresence(d)
      BY <3>2, StoryFrame DEF OpenPresence
    <3>3. CASE ClosePresence(d)
      BY <3>3, StoryFrame DEF ClosePresence
    <3>4. CASE CloseLocation(d)
      BY <3>4, StoryFrame DEF CloseLocation
    <3>5. CASE InsertLocation(d)
      BY <3>5, StoryFrame DEF InsertLocation
    <3>6. CASE InsertEvent(d)
      BY <3>6, StoryFrame DEF InsertEvent
    <3> QED BY <1>10, <3>1, <3>2, <3>3, <3>4, <3>5, <3>6 DEF Write
  <2> QED BY <2>1, <2>2
<1>11. CASE TakeDirty
  BY <1>4, <1>11, StoryFrame DEF TakeDirty, database, history
<1>12. ASSUME NEW d \in Devices, FlushDevice(d)
       PROVE  InStep(m)'
  <2>1. row'[m].state = "absent" <=> row[m].state = "absent"
    <3>1. m \in ids => row[m].state # "absent" /\ state[m] # "absent"
      BY <1>1, <1>12 DEF IInv, Bookkeeping, TableAndIds, Known, FlushDevice
    <3> QED
      BY <1>12, <3>1 DEF FlushDevice, TypeOK
  <2>2. torn'[m] \subseteq torn[m]
    BY <1>12 DEF FlushDevice, TypeOK
  <2> QED
    BY <1>4, <1>12, <2>1, <2>2, StoryFrame DEF FlushDevice
<1>13. CASE Shutdown
  BY <1>13, ShutdownStory
<1>14. CASE Start
  BY <1>14, StartStory
<1>15. CASE UNCHANGED vars
  BY <1>4, <1>15, StoryFrame DEF vars, persister, database, history
<1> QED
  BY <1>3, <1>5, <1>6, <1>7, <1>8, <1>9, <1>10, <1>11, <1>12, <1>13, <1>14, <1>15
  DEF Next, Crash, DropBatch, DropFlush

\* Nothing is in step or out of step before the first start.
LEMMA LedgerInvInit == Init /\ NoFaults => LedgerInv
<1> SUFFICES ASSUME Init, NoFaults PROVE LedgerInv
  OBVIOUS
<1>1. ASSUME NEW m \in Devices PROVE InStep(m)
  <2>1. torn[m] = {} /\ ids = {} /\ row[m].state = "absent"
    BY DEF Init, Each
  <2> QED
    BY <2>1 DEF InStep
<1> QED
  BY <1>1, InvInit DEF LedgerInv

(***************************************************************************)
(* The refinement.                                                         *)
(***************************************************************************)
OpenSessions == [m \in Devices |-> session[m] > 0]

\* The empty database is an empty ledger.
LEMMA LedgerStarts == Init => Ledger!Init
<1> SUFFICES ASSUME Init PROVE Ledger!Init
  OBVIOUS
<1>1. \A m \in Devices : (session[m] > 0) = FALSE
  BY DEF Init, Each
<1>2. [m \in Devices |-> session[m] > 0] = [m \in Devices |-> FALSE]
  BY <1>1, Zenon
<1>3. log = [m \in Devices |-> [kind |-> "none", odd |-> FALSE]]
  BY DEF Init, Each
<1> QED
  BY <1>2, <1>3 DEF Ledger!Init

\* The sessions of one device change, and those of no other.
LEMMA OneSession ==
  ASSUME NEW m \in Devices, NEW b \in BOOLEAN, (session'[m] > 0) = b,
         \A d \in Devices \ {m} : session'[d] = session[d]
  PROVE  OpenSessions' = [OpenSessions EXCEPT ![m] = b]
<1>1. \A d \in Devices : (session'[d] > 0) = (IF d = m THEN b ELSE session[d] > 0)
  BY Zenon
<1>2. [d \in Devices |-> session'[d] > 0]
      = [d \in Devices |-> IF d = m THEN b ELSE session[d] > 0]
  BY <1>1, Zenon
<1>3. [OpenSessions EXCEPT ![m] = b]
      = [d \in Devices |-> IF d = m THEN b ELSE OpenSessions[d]]
  BY Zenon DEF OpenSessions
<1>4. \A d \in Devices : OpenSessions[d] = (session[d] > 0)
  BY Zenon DEF OpenSessions
<1>5. [d \in Devices |-> IF d = m THEN b ELSE OpenSessions[d]]
      = [d \in Devices |-> IF d = m THEN b ELSE session[d] > 0]
  BY <1>4, Zenon
<1> QED
  BY <1>2, <1>3, <1>5, Zenon DEF OpenSessions

\* A session is 0 or 1 rows.
LEMMA Sessions ==
  ASSUME IInv, NEW m \in Devices
  PROVE  session[m] \in {0, 1}
<1>1. session[m] \in Nat /\ session[m] <= 1
  BY DEF IInv, TypeOK, Bookkeeping, AtMostOnce
<1> QED
  BY <1>1

\* Opening a session opens it in the ledger.
LEMMA OpenRefines ==
  ASSUME LedgerInv, LedgerInv', NEW m \in Devices, OpenPresence(m)
  PROVE  [Ledger!Next]_<<OpenSessions, log>>
<1>1. NextStatement(m, "open_presence") /\ log' = log
  BY DEF OpenPresence
<1>2. TypeOK /\ TypeOK' /\ Holds(m) /\ InStep(m) /\ BatchFits(m)
  BY DEF LedgerInv, IInv, Holds, Bookkeeping
<1>3. todo[m] # <<>> /\ Head(todo[m]).op = "open_presence"
  BY <1>1, <1>2, StatementFacts
<1>4. CASE m \notin ids
  BY <1>1, <1>4 DEF OpenPresence, OpenSessions
<1>5. CASE m \in ids
  <2>1. session[m] = 0
    BY <1>2, <1>3, <1>5 DEF InStep, StoryFits
  <2>2. session' = [session EXCEPT ![m] = 1]
    BY <1>5, <2>1 DEF OpenPresence, WithOneOpen
  <2>3. log[m].kind \in {"none", "went_offline"}
    <3>1. \/ todo'[m] = << Tell("new_device") >>
          \/ todo'[m] = << Tell("returned") >>
      BY <1>1, <1>2, StatementFacts, NextIs
    <3>2. NextEvent(m)' \in Opened
      BY <3>1, RestHeads, EndsOfBatches DEF NextEvent, Opened, Tell, Effect
    <3>3. m \in ids'
      BY <1>5 DEF OpenPresence
    <3>4. InStep(m)'
      BY DEF LedgerInv
    <3> QED
      BY <1>1, <3>2, <3>3, <3>4 DEF InStep, StoryFits, Opened
  <2>4. OpenSessions' = [OpenSessions EXCEPT ![m] = TRUE] /\ ~OpenSessions[m]
    <3>1. session'[m] = 1 /\ \A d \in Devices \ {m} : session'[d] = session[d]
      BY <1>2, <2>2 DEF TypeOK
    <3>2. (session'[m] > 0) = TRUE /\ (session[m] > 0) = FALSE
      BY <2>1, <3>1
    <3>3. OpenSessions' = [OpenSessions EXCEPT ![m] = TRUE]
      BY <3>1, <3>2, OneSession
    <3> QED
      BY <3>2, <3>3, Zenon DEF OpenSessions
  <2>5. Ledger!Open(m)
    BY <1>1, <2>3, <2>4 DEF Ledger!Open, OpenSessions
  <2> QED
    BY <2>5 DEF Ledger!Next
<1> QED
  BY <1>4, <1>5

\* Closing a session closes it in the ledger.
LEMMA CloseRefines ==
  ASSUME LedgerInv, LedgerInv', NEW m \in Devices, ClosePresence(m)
  PROVE  [Ledger!Next]_<<OpenSessions, log>>
<1>1. NextStatement(m, "close_presence") /\ log' = log
  BY DEF ClosePresence
<1>2. TypeOK /\ TypeOK' /\ Holds(m) /\ InStep(m) /\ BatchFits(m)
  BY DEF LedgerInv, IInv, Holds, Bookkeeping
<1>3. todo[m] # <<>> /\ Head(todo[m]).op = "close_presence"
  BY <1>1, <1>2, StatementFacts
<1>4. CASE m \notin ids
  BY <1>1, <1>4 DEF ClosePresence, OpenSessions
<1>5. CASE m \in ids
  <2>1. session[m] = 1
    BY <1>2, <1>3, <1>5 DEF InStep, StoryFits
  <2>2. session' = [session EXCEPT ![m] = 0]
    BY <1>5 DEF ClosePresence
  <2>3. log[m].kind \in Opened
    <3>1. \/ todo'[m] = << LeaveIt, Tell("went_offline") >>
          \/ todo'[m] = << Tell("went_offline") >>
      BY <1>1, <1>2, StatementFacts, NextIs
    <3>2. NextEvent(m)' = "went_offline"
      BY <3>1, RestHeads, EndsOfBatches DEF NextEvent, Tell, Effect
    <3>3. m \in ids'
      BY <1>5 DEF ClosePresence
    <3>4. InStep(m)'
      BY DEF LedgerInv
    <3> QED
      BY <1>1, <3>2, <3>3, <3>4 DEF InStep, StoryFits
  <2>4. OpenSessions' = [OpenSessions EXCEPT ![m] = FALSE] /\ OpenSessions[m]
    <3>1. session'[m] = 0 /\ \A d \in Devices \ {m} : session'[d] = session[d]
      BY <1>2, <2>2 DEF TypeOK
    <3>2. (session'[m] > 0) = FALSE /\ (session[m] > 0) = TRUE
      BY <2>1, <3>1
    <3>3. OpenSessions' = [OpenSessions EXCEPT ![m] = FALSE]
      BY <3>1, <3>2, OneSession
    <3> QED
      BY <3>2, <3>3, Zenon DEF OpenSessions
  <2>5. Ledger!Close(m)
    BY <1>1, <2>3, <2>4 DEF Ledger!Close, OpenSessions, Opened
  <2> QED
    BY <2>5 DEF Ledger!Next
<1> QED
  BY <1>4, <1>5

\* A presence event is recorded where the ledger expects it.
LEMMA EventRefines ==
  ASSUME LedgerInv, LedgerInv', NEW m \in Devices, InsertEvent(m)
  PROVE  [Ledger!Next]_<<OpenSessions, log>>
<1> DEFINE kind == Head(todo[m]).arg
<1>1. NextStatement(m, "insert_event") /\ session' = session
  BY DEF InsertEvent
<1>2. IInv /\ TypeOK /\ TypeOK' /\ Holds(m) /\ InStep(m) /\ BatchFits(m)
  BY DEF LedgerInv, IInv, Holds, Bookkeeping
<1>3. /\ up /\ todo[m] # <<>> /\ Head(todo[m]).op = "insert_event" /\ todo'[m] = <<>>
      /\ Tail(todo[m]) = <<>>
      /\ Pending(m) = {FacetOf(Head(todo[m]))} \cup Pending(m)'
      /\ \/ kind = "new_device" /\ state[m] = "online"
         \/ kind = "returned" /\ state[m] = "online"
         \/ kind = "went_offline" /\ state[m] = "offline"
         \/ kind = "device_location_changed"
  BY <1>1, <1>2, StatementFacts, NextIs
<1>4. CASE m \notin ids \/ kind \notin PresenceEvents
  BY <1>1, <1>4 DEF InsertEvent, OpenSessions
<1>5. CASE m \in ids /\ kind \in PresenceEvents
  <2>1. log' = [log EXCEPT ![m] = [kind |-> kind, odd |-> ~log[m].odd]]
    BY <1>5 DEF InsertEvent
  <2>2. NextEvent(m) = kind
    <3>1. todo[m][Len(todo[m])] = Head(todo[m])
      BY <1>2, <1>3, LastOne DEF TypeOK
    <3> QED
      BY <1>3, <3>1 DEF NextEvent
  <2>3. /\ kind = "new_device" => log[m].kind = "none"
        /\ kind = "returned" => log[m].kind = "went_offline"
        /\ kind = "went_offline" => log[m].kind \in Opened
    BY <1>2, <1>5, <2>2 DEF InStep, StoryFits
  <2>4. session[m] = (IF state[m] = "offline" THEN 0 ELSE 1)
    <3>1. FacetOf(Head(todo[m])) = "events"
      BY <1>3, <1>5 DEF FacetOf
    <3>2. Pending(m)' = {}
      BY <1>3, PendingIs, BatchFacets
    <3>3. Settled(m, "presence")
      BY <1>2, <1>3, <1>5, <3>1, <3>2 DEF Settled, InStep
    <3> QED
      BY <1>2, <1>3, <3>3 DEF Holds, Consistent, PresenceFollows
  <2>5. OpenSessions' = OpenSessions /\ (OpenSessions[m] <=> state[m] # "offline")
    <3>1. (session[m] > 0) <=> state[m] # "offline"
      BY <2>4
    <3> QED
      BY <1>1, <3>1, Zenon DEF OpenSessions
  <2>6. CASE kind \in Opened
    <3>1. OpenSessions[m] /\ (kind = "new_device" \/ kind = "returned")
      BY <1>3, <2>5, <2>6 DEF Opened
    <3>2. Ledger!TellOpened(m)
      BY <1>3, <2>1, <2>3, <2>5, <2>6, <3>1
         DEF Ledger!TellOpened, Ledger!Record, OpenSessions, Opened
    <3> QED
      BY <3>2 DEF Ledger!Next, Ledger!Tell
  <2>7. CASE kind = "went_offline"
    <3>1. ~OpenSessions[m]
      BY <1>3, <2>5, <2>7
    <3>2. Ledger!TellClosed(m)
      BY <2>1, <2>3, <2>5, <2>7, <3>1
         DEF Ledger!TellClosed, Ledger!Record, OpenSessions, Opened
    <3> QED
      BY <3>2 DEF Ledger!Next, Ledger!Tell
  <2> QED
    BY <1>5, <2>6, <2>7 DEF PresenceEvents, Opened
<1> QED
  BY <1>4, <1>5

\* Every step is a step of the ledger or leaves it alone.
LEMMA LedgerStep ==
  LedgerInv /\ LedgerInv' /\ [Next]_vars => [Ledger!Next]_<<OpenSessions, log>>
<1> SUFFICES ASSUME LedgerInv, LedgerInv', [Next]_vars
             PROVE  [Ledger!Next]_<<OpenSessions, log>>
  OBVIOUS
<1>1. ASSUME session' = session, log' = log
      PROVE  [Ledger!Next]_<<OpenSessions, log>>
  BY <1>1 DEF OpenSessions
<1>2. ASSUME NEW m \in Devices, Write(m)
      PROVE  [Ledger!Next]_<<OpenSessions, log>>
  <2>1. CASE InsertDevice(m) \/ CloseLocation(m) \/ InsertLocation(m)
    BY <1>1, <2>1 DEF InsertDevice, CloseLocation, InsertLocation
  <2> QED
    BY <1>2, <2>1, OpenRefines, CloseRefines, EventRefines DEF Write
<1>3. CASE ~ \E m \in Devices : Write(m)
  <2>1. session' = session /\ log' = log
    BY <1>3 DEF Next, vars, database, Tick, Discover, Observe, Sweep, SetLocation,
       DropBatch, TakeDirty, FlushDevice, DropFlush, Crash, Shutdown, Exit, Start
  <2> QED
    BY <1>1, <2>1
<1> QED
  BY <1>2, <1>3

\* Without faults, the sessions and the presence events in the database are
\* those of the ledger: they alternate, and each is told once, in order
\* (Manager::observe, Manager::sweep, Persister::apply).
THEOREM LedgerIsKept == NoFaults /\ Spec => Ledger!Safety
<1>1. Spec /\ NoFaults => []LedgerInv
  BY LedgerInvInit, LedgerInvNext, PTL DEF Spec
<1>2. Spec /\ NoFaults => Ledger!Init /\ [][Ledger!Next]_<<OpenSessions, log>>
  BY <1>1, LedgerStarts, LedgerStep, PTL DEF Spec
<1> QED
  BY <1>2, PTL DEF Ledger!Safety, OpenSessions
=============================================================================
