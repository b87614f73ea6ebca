--------------------------- MODULE Notifications ---------------------------
(***************************************************************************)
(* The way of a recorded event to somebody's phone: the bounded broadcast  *)
(* bus (events/mod.rs), the notifier task (daemon.rs spawn_notifier,       *)
(* send_all) and the dispatcher that decides what is delivered and when    *)
(* (notify/mod.rs).                                                        *)
(*                                                                         *)
(* Only differences of times matter, so the debounce and the batch window  *)
(* are ages that grow with the clock and stop growing when they are over,  *)
(* and the time of day goes round.  The notifier awaits every delivery, so *)
(* that the clock and the bus run on while it sends.                       *)
(***************************************************************************)
EXTENDS Naturals, SequencesExt

CONSTANTS
  Devices,
  Capacity,          \* depth of the bus
  Enabled,           \* notify.enabled
  Debounce,          \* notify.debounce
  BatchWindow,       \* notify.batch_window
  BatchThreshold,    \* notify.batch_threshold
  Day,               \* moments in a day
  QuietHours,        \* the quiet ones among them
  SecurityEnabled,   \* security.notifications.enabled
  BypassQuiet, BypassDebounce, BypassBatch,   \* and its three bypasses
  MaxEvents,         \* bound: events recorded
  MaxFailures        \* bound: deliveries and database writes that fail

ASSUME BusAssumption == Capacity \in Nat \ {0}
ASSUME RulesAssumption ==
  /\ Debounce \in Nat /\ BatchWindow \in Nat /\ BatchThreshold \in Nat
  /\ Day \in Nat \ {0} /\ QuietHours \subseteq 0 .. Day - 1
  /\ {Enabled, SecurityEnabled, BypassQuiet, BypassDebounce, BypassBatch}
       \subseteq BOOLEAN
ASSUME BoundsAssumption == MaxEvents \in Nat /\ MaxFailures \in Nat

VARIABLES
  clock,      \* the time of day
  published,  \* how many events have been recorded and published
  bus,        \* the part of the broadcast channel the notifier has not read
  lagged,     \* the channel has overwritten events the notifier had not read
  accepted,   \* Dispatcher.last_accepted, as an age; Debounce is long ago
  pending,    \* Dispatcher.pending
  window,     \* Dispatcher.window_opened_at, as an age
  sending,    \* deliveries the notifier task has still to send
  notifier,   \* the task: running, stopping (its last deliveries), or ended
  suppressed, overwritten, sent, failed,   \* what became of the events
  marked,     \* ng_events.notified
  failures

channel == <<published, bus, lagged, overwritten>>
dispatcher == <<accepted, pending, window, suppressed>>
transport == <<sending, sent, failed, marked, failures>>
vars == <<clock, channel, dispatcher, transport, notifier>>

\* A lifecycle event; one whose device is muted, or learned; one whose type is
\* not in the allowlist; a person's; and a security event.
Kinds == {"lifecycle", "muted", "unlisted", "person", "security"}
Closed == BatchWindow + 1   \* window_opened_at is None
Events == [id : 1 .. MaxEvents, mac : Devices, kind : Kinds]
Ids(events) == {e.id : e \in ToSet(events)}
Covered == UNION {Ids(sending[i]) : i \in DOMAIN sending}

TypeOK ==
  /\ clock \in 0 .. Day - 1
  /\ published \in 0 .. MaxEvents
  /\ bus \in Seq(Events) /\ Len(bus) <= Capacity
  /\ lagged \in BOOLEAN
  /\ accepted \in [Devices -> 0 .. Debounce]
  /\ pending \in Seq(Events)
  /\ window \in 0 .. Closed
  /\ sending \in Seq(Seq(Events))
  /\ notifier \in {"running", "stopping", "ended"}
  /\ \A s \in {suppressed, overwritten, sent, failed, marked} :
       s \subseteq 1 .. MaxEvents
  /\ failures \in 0 .. MaxFailures

Init ==
  /\ clock = 0
  /\ published = 0 /\ bus = <<>> /\ lagged = FALSE
  /\ accepted = [m \in Devices |-> Debounce]
  /\ pending = <<>> /\ window = Closed
  /\ sending = <<>> /\ notifier = "running"
  /\ suppressed = {} /\ overwritten = {} /\ sent = {} /\ failed = {}
  /\ marked = {}
  /\ failures = 0

Aged(ages) == [m \in Devices |-> IF ages[m] < Debounce THEN ages[m] + 1 ELSE Debounce]

Tick ==
  /\ clock' = (clock + 1) % Day
  /\ accepted' = Aged(accepted)
  /\ window' = IF window < BatchWindow THEN window + 1 ELSE window
  /\ UNCHANGED <<channel, pending, suppressed, sending, sent, failed, marked,
                 failures, notifier>>

(***************************************************************************)
(* EventBus::publish, by the main loop.  It never waits: a full channel    *)
(* loses its oldest event.                                                 *)
(***************************************************************************)
PushBlindly(e) == Append(bus, e)
Push(e) == IF Len(bus) = Capacity THEN Append(Tail(bus), e) ELSE Append(bus, e)

Publish(m, kind) ==
  /\ published < MaxEvents
  /\ published' = published + 1
  /\ bus' = Push([id |-> published + 1, mac |-> m, kind |-> kind])
  /\ lagged' = (lagged \/ Len(bus) = Capacity)
  /\ overwritten' = IF Len(bus) = Capacity THEN overwritten \cup {Head(bus).id}
                    ELSE overwritten
  /\ UNCHANGED <<clock, dispatcher, transport, notifier>>

(***************************************************************************)
(* Dispatcher::tick and drain: an empty or unripe window delivers nothing, *)
(* a ripe one is a summary or a delivery for each event.                   *)
(***************************************************************************)
DrainedIfMany(events) ==
  IF events # <<>> /\ Len(events) >= BatchThreshold THEN <<events>> ELSE <<>>
Drained(events) ==
  IF events # <<>> /\ BatchThreshold > 0 /\ Len(events) >= BatchThreshold
  THEN <<events>>
  ELSE [i \in DOMAIN events |-> <<events[i]>>]

RipeIfMany == window = BatchWindow /\ Len(pending) >= BatchThreshold
Ripe == window = BatchWindow

(***************************************************************************)
(* Dispatcher::offer.                                                      *)
(***************************************************************************)
InQuietHours == clock \in QuietHours

Debounced(m) == accepted[m] < Debounce

SuppressedLikeAnyOther(e) ==
  \/ ~Enabled
  \/ e.kind = "security" /\ ~SecurityEnabled
  \/ e.kind \in {"muted", "unlisted"}
  \/ InQuietHours /\ ~(e.kind = "security" /\ BypassQuiet)
  \/ Debounced(e.mac)
Suppressed(e) ==
  LET security == e.kind = "security" IN
    \/ ~Enabled
    \/ security /\ ~SecurityEnabled
    \/ e.kind \in {"muted", "unlisted"}
    \/ InQuietHours /\ ~(security /\ BypassQuiet)
    \/ Debounced(e.mac) /\ ~(security /\ BypassDebounce)

JumpsAnEmptyWindow(e) == e.kind = "security" /\ BypassBatch /\ pending = <<>>
Jumps(e) == e.kind = "security" /\ BypassBatch

DeliverAllUnclosed == /\ sending' = Drained(pending)
                      /\ pending' = <<>> /\ UNCHANGED window
DeliverAll == /\ sending' = Drained(pending)
              /\ pending' = <<>> /\ window' = Closed
DeliverNothing == /\ sending' = <<>>
                  /\ UNCHANGED <<pending, window>>
DeliverRipe == IF Ripe THEN DeliverAll ELSE DeliverNothing

\* It joins the window, which this may close: a window of no length is ripe
\* as soon as it is opened.
Join(e) ==
  LET opened == IF window = Closed THEN 0 ELSE window IN
    /\ accepted' = [accepted EXCEPT ![e.mac] = 0]
    /\ IF opened = BatchWindow
       THEN /\ sending' = Drained(Append(pending, e))
            /\ pending' = <<>> /\ window' = Closed
       ELSE /\ sending' = <<>>
            /\ pending' = Append(pending, e) /\ window' = opened

Offer(e) ==
  \/ /\ Suppressed(e)
     /\ suppressed' = suppressed \cup {e.id}
     /\ DeliverRipe
     /\ UNCHANGED accepted
  \/ /\ ~Suppressed(e) /\ Jumps(e)
     /\ IF Ripe THEN /\ sending' = Append(Drained(pending), <<e>>)
                     /\ pending' = <<>> /\ window' = Closed
        ELSE sending' = <<<<e>>>> /\ UNCHANGED <<pending, window>>
     /\ UNCHANGED <<accepted, suppressed>>
  \/ /\ ~Suppressed(e) /\ ~Jumps(e)
     /\ Join(e)
     /\ UNCHANGED suppressed

(***************************************************************************)
(* The notifier's loop: shutdown first, then the bus, then the timer, and  *)
(* none of them before the deliveries of the last turn are sent.           *)
(***************************************************************************)
Free == notifier = "running" /\ sending = <<>>

Receive ==
  /\ Free /\ ~lagged /\ bus # <<>>
  /\ bus' = Tail(bus)
  /\ Offer(Head(bus))
  /\ UNCHANGED <<clock, published, lagged, overwritten, sent, failed, marked, failures,
                 notifier>>

\* RecvError::Lagged
Lag ==
  /\ Free /\ lagged
  /\ lagged' = FALSE
  /\ UNCHANGED <<clock, published, bus, overwritten, dispatcher, transport, notifier>>

\* The timer ticks whether or not anything is ripe; here only when it is.
CloseWindow ==
  /\ Free /\ bus = <<>> /\ ~lagged /\ Ripe
  /\ DeliverAll
  /\ UNCHANGED <<clock, channel, accepted, suppressed, sent, failed, marked, failures,
                 notifier>>

Shutdown ==
  /\ Free
  /\ notifier' = "stopping"
  /\ DeliverAll
  /\ UNCHANGED <<clock, channel, accepted, suppressed, sent, failed, marked, failures>>

End ==
  /\ notifier = "stopping" /\ sending = <<>>
  /\ notifier' = "ended"
  /\ UNCHANGED <<clock, channel, dispatcher, transport>>

(***************************************************************************)
(* send_all: deliver, and mark what at least one transport took.           *)
(***************************************************************************)
MarkedRegardless(ids, delivered) == ids
Marked(ids, delivered) == IF delivered THEN ids ELSE {}

Send ==
  /\ sending # <<>>
  /\ LET ids == Ids(Head(sending)) IN
       \/ /\ sent' = sent \cup ids
          /\ \/ marked' = marked \cup Marked(ids, TRUE) /\ UNCHANGED failures
             \/ /\ failures < MaxFailures /\ failures' = failures + 1
                /\ \E some \in SUBSET ids : marked' = marked \cup some
          /\ UNCHANGED failed
       \/ /\ failures < MaxFailures /\ failures' = failures + 1
          /\ failed' = failed \cup ids
          /\ marked' = marked \cup Marked(ids, FALSE)
          /\ UNCHANGED sent
  /\ sending' = Tail(sending)
  /\ UNCHANGED <<clock, channel, dispatcher, notifier>>

Next ==
  \/ Tick
  \/ \E m \in Devices, kind \in Kinds : Publish(m, kind)
  \/ Receive \/ Lag \/ CloseWindow
  \/ Shutdown \/ End
  \/ Send

Spec == Init /\ [][Next]_vars

(***************************************************************************)
(* A transport answers or times out, so the task goes on; time passes; and *)
(* the timer is behind the bus in a biased select, so it is owed its turn  *)
(* only because the bus is found empty again and again.                    *)
(***************************************************************************)
Fairness ==
  /\ WF_vars(Tick) /\ WF_vars(Send) /\ WF_vars(End)
  /\ WF_vars(Receive \/ Lag)
  /\ SF_vars(CloseWindow)

FairSpec == Spec /\ Fairness

(***************************************************************************)
(* Properties.                                                             *)
(***************************************************************************)

\* Every published event is in exactly one place: still in the channel,
\* overwritten there, suppressed, held for the window, about to be sent, sent,
\* or refused by the transport.  Nothing is delivered twice and nothing
\* disappears between the rules, whichever of them closes the window
\* (Dispatcher::offer, tick, drain, and the notifier's loop).
Fates == <<Ids(bus), overwritten, suppressed, Ids(pending), Covered, sent, failed>>
OneFate ==
  \A id \in 1 .. published :
    \E i \in DOMAIN Fates : /\ id \in Fates[i]
                            /\ \A j \in DOMAIN Fates \ {i} : id \notin Fates[j]

\* Held events and an open window are one and the same thing, so that no event
\* waits for a window nobody opened (offer and drain keep the two apart).
HeldMeansOpen == pending = <<>> <=> window = Closed

\* An event is marked as notified only if somebody was told (send_all).
MarkedMeansSent == marked \subseteq sent

\* A security event is never held behind, and never collapsed into, anything
\* ("a security event never joins a summary of unrelated arrivals",
\* notify/mod.rs:684).
SecurityGoesAlone ==
  /\ \A i \in DOMAIN pending : pending[i].kind # "security"
  /\ \A i \in DOMAIN sending :
       Len(sending[i]) > 1 =>
         \A k \in DOMAIN sending[i] : sending[i][k].kind # "security"

\* An event goes through the notifier as one thing and leaves it one way: the
\* four of them together.
EventsHaveOneFate == OneFate /\ HeldMeansOpen /\ MarkedMeansSent /\ SecurityGoesAlone

\* A security event is sent in the turn that takes it off the bus, whatever the
\* quiet hours, the debounce and the batch window hold (Dispatcher::offer).
SecurityIsNotRateLimited ==
  [][Receive /\ Head(bus).kind = "security" => <<Head(bus)>> \in ToSet(sending')]_vars

\* Every event the dispatcher holds is handed to the transport, on a network
\* that falls silent right after it as well as at shutdown ("otherwise a
\* single event arriving on a quiet network would wait for the next one",
\* notify/mod.rs:280).
HeldEventsGo ==
  \A id \in 1 .. MaxEvents : id \in Ids(pending) ~> id \in sent \cup failed
=============================================================================
