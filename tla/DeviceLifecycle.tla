-------------------------- MODULE DeviceLifecycle --------------------------
(***************************************************************************)
(* The device table of the daemon and its copy in Postgres.                *)
(*                                                                         *)
(* One task owns the in-memory table (device/mod.rs, Manager).  Packets,   *)
(* the sweep timer and the enrichment results change it; every change      *)
(* turns into a batch of effects that the persister (device/persist.rs)    *)
(* writes statement by statement, at once, to ng_presence,                 *)
(* ng_location_history and ng_events.  The row in ng_devices is different: *)
(* it is written only by the flush timer, from the entries marked dirty.   *)
(* A restart rebuilds the table from ng_devices alone.                     *)
(*                                                                         *)
(* Time is silence: how long ago a device was last heard, counted in       *)
(* units that tell the timeouts apart and saturated at MaxSilence.         *)
(* Addresses, names, counters and the rows for signals are left out.       *)
(***************************************************************************)
EXTENDS Naturals, Sequences, FiniteSets

CONSTANTS
  Devices,          \* the MAC addresses on the network
  APs,              \* the access points an enricher can report
  NoAP,             \* current_ap is NULL
  NoDevice,         \* the persister is between two devices' effects
  IdleAfter,        \* idle_timeout_for(m)
  OfflineAfter,     \* offline_timeout_for(m)
  MaxSilence,       \* silence is not counted past this
  MaxLag,           \* how old an observation can be when it is handled
  LateEnrichment,   \* can an enricher report a device that is offline?
  MayCrash,         \* can the daemon die between two steps?
  MaxStops,         \* bound: crashes and clean shutdowns of the daemon
  MaxFailures       \* bound: statements (or connections) that fail

ASSUME DevicesAssumption == NoDevice \notin Devices
ASSUME APsAssumption == NoAP \notin APs
ASSUME TimeoutsAssumption ==
  /\ MaxSilence \in Nat
  /\ MaxLag \in 0 .. MaxSilence
  /\ IdleAfter \in [Devices -> Nat]
  /\ OfflineAfter \in [Devices -> 0 .. MaxSilence]
  /\ \A m \in Devices : 0 < IdleAfter[m] /\ IdleAfter[m] <= OfflineAfter[m]
ASSUME BoundsAssumption ==
  /\ LateEnrichment \in BOOLEAN /\ MayCrash \in BOOLEAN
  /\ MaxStops \in Nat /\ MaxFailures \in Nat

VARIABLES
  up,         \* the daemon is running
  state,      \* Entry.state, "absent" for a MAC that is not in the table
  silence,    \* now - Entry.last_seen_at
  ap,         \* Entry.current_ap
  dirty,      \* Entry.dirty
  ids,        \* Persister.ids: the MACs with a known row id
  todo,       \* effects of the current batch still to be written, by device
  cursor,     \* the device whose effects are being written
  flushing,   \* snapshots taken by take_dirty and not written yet
  row,        \* ng_devices
  session,    \* ng_presence: open sessions of the device
  stay,       \* ng_location_history: access point of the open stay
  log,        \* ng_events: the device's latest presence event, and whether
              \* it has an odd number of them (so that a repeat is a change)
  announced,  \* ng_events: how many new_device events the device has
  torn,       \* history: what a fault has put out of step, by device
  stops,      \* bounded by MaxStops
  failures    \* bounded by MaxFailures

memory == <<state, silence, ap, dirty>>
persister == <<ids, todo, cursor, flushing>>
database == <<row, session, stay, log, announced>>
history == <<torn, stops, failures>>
vars == <<up, memory, persister, database, history>>

Live == {"online", "idle", "offline"}
States == Live \cup {"absent"}
PresenceEvents == {"new_device", "returned", "went_offline"}
Events == PresenceEvents \cup {"device_location_changed"}

(***************************************************************************)
(* What a fault can leave out of step: the row, the open session, the open *)
(* stay, the presence events, or the record of a move.                     *)
(***************************************************************************)
Facets == {"row", "presence", "location", "events", "moves"}

Effect(op, arg) == [op |-> op, arg |-> arg]
Statements ==
  {Effect(op, NoAP) : op \in {"insert_device", "open_presence",
                              "close_presence", "close_location"}}
  \cup {Effect("insert_location", a) : a \in APs}
  \cup {Effect("insert_event", k) : k \in Events}

FacetOf(e) ==
  CASE e.op = "insert_device" -> "row"
    [] e.op \in {"open_presence", "close_presence"} -> "presence"
    [] e.op \in {"close_location", "insert_location"} -> "location"
    [] e.op = "insert_event" /\ e.arg \in PresenceEvents -> "events"
    [] OTHER -> "moves"

Pending(m) == {FacetOf(todo[m][i]) : i \in DOMAIN todo[m]}

Busy == \/ \E m \in Devices : todo[m] # <<>>
        \/ flushing # {}

\* The main loop is at its select: no handler is in the middle of a write.
Ready == up /\ ~Busy

Known(m) == state[m] # "absent"

TypeOK ==
  /\ up \in BOOLEAN
  /\ state \in [Devices -> States]
  /\ silence \in [Devices -> 0 .. MaxSilence]
  /\ ap \in [Devices -> APs \cup {NoAP}]
  /\ dirty \in [Devices -> BOOLEAN]
  /\ ids \subseteq Devices
  /\ todo \in [Devices -> Seq(Statements)]
  /\ cursor \in Devices \cup {NoDevice}
  /\ flushing \subseteq Devices
  /\ row \in [Devices -> [state : States, silence : 0 .. MaxSilence,
                          ap : APs \cup {NoAP}]]
  /\ session \in [Devices -> Nat]
  /\ stay \in [Devices -> APs \cup {NoAP}]
  /\ log \in [Devices -> [kind : PresenceEvents \cup {"none"}, odd : BOOLEAN]]
  /\ announced \in [Devices -> Nat]
  /\ torn \in [Devices -> SUBSET Facets]
  /\ stops \in 0 .. MaxStops
  /\ failures \in 0 .. MaxFailures

(***************************************************************************)
(* An empty database and a daemon that has not been started.               *)
(***************************************************************************)
Each(v) == [m \in Devices |-> v]

Init ==
  /\ up = FALSE
  /\ state = Each("absent") /\ silence = Each(0)
  /\ ap = Each(NoAP) /\ dirty = Each(FALSE)
  /\ ids = {} /\ todo = Each(<<>>) /\ cursor = NoDevice /\ flushing = {}
  /\ row = Each([state |-> "absent", silence |-> 0, ap |-> NoAP])
  /\ session = Each(0) /\ stay = Each(NoAP)
  /\ log = Each([kind |-> "none", odd |-> FALSE]) /\ announced = Each(0)
  /\ torn = Each({})
  /\ stops = 0
  /\ failures = 0

(***************************************************************************)
(* Time.  A device in the table and its row age together.                  *)
(***************************************************************************)
Older(n) == IF n < MaxSilence THEN n + 1 ELSE n

Tick ==
  /\ silence' = [m \in Devices |-> IF Known(m) THEN Older(silence[m]) ELSE 0]
  /\ row' = [m \in Devices |->
               IF row[m].state = "absent" THEN row[m]
               ELSE [row[m] EXCEPT !.silence = Older(@)]]
  /\ UNCHANGED <<up, state, ap, dirty, persister, session, stay, log,
                 announced, history>>

(***************************************************************************)
(* Manager::observe and Manager::discover: one packet of device m, handled *)
(* lag units of time after it was captured.                                *)
(***************************************************************************)
DiscoverBatchUnknownKind ==
  << Effect("insert_device", NoAP), Effect("open_presence", NoAP),
     Effect("insert_event", "discovered") >>

DiscoverBatch == << Effect("insert_device", NoAP), Effect("open_presence", NoAP),
                    Effect("insert_event", "new_device") >>
ReturnBatch == << Effect("open_presence", NoAP),
                  Effect("insert_event", "returned") >>

Discover(m, lag) ==
  /\ Ready /\ ~Known(m)
  /\ state' = [state EXCEPT ![m] = "online"]
  /\ silence' = [silence EXCEPT ![m] = lag]
  /\ dirty' = [dirty EXCEPT ![m] = TRUE]
  /\ todo' = [todo EXCEPT ![m] = DiscoverBatch]
  /\ UNCHANGED <<up, ap, ids, cursor, flushing, database, history>>

Observe(m, lag) ==
  /\ Ready /\ Known(m)
  /\ state' = [state EXCEPT ![m] = "online"]
  /\ silence' = [silence EXCEPT ![m] = IF lag < @ THEN lag ELSE @]
  /\ dirty' = [dirty EXCEPT ![m] = TRUE]
  /\ todo' = [todo EXCEPT ![m] = IF state[m] = "offline" THEN ReturnBatch ELSE <<>>]
  /\ UNCHANGED <<up, ap, ids, cursor, flushing, database, history>>

(***************************************************************************)
(* Manager::sweep: every silent device in one pass, offline tried first.   *)
(***************************************************************************)
OfflineBatch(a) ==
  IF a = NoAP
  THEN << Effect("close_presence", NoAP), Effect("insert_event", "went_offline") >>
  ELSE << Effect("close_presence", NoAP), Effect("close_location", NoAP),
          Effect("insert_event", "went_offline") >>

TimedOutAgain(m) == Known(m) /\ silence[m] >= OfflineAfter[m]
TimedOut(m) == state[m] \in {"online", "idle"} /\ silence[m] >= OfflineAfter[m]
FellIdle(m) == /\ state[m] = "online" /\ ~TimedOut(m)
               /\ silence[m] >= IdleAfter[m]

MarkedWhenIdle(m) == dirty[m] \/ FellIdle(m)
Marked(m) == dirty[m] \/ TimedOut(m) \/ FellIdle(m)

Sweep ==
  /\ Ready
  /\ \E m \in Devices : TimedOut(m) \/ FellIdle(m)
  /\ state' = [m \in Devices |-> IF TimedOut(m) THEN "offline"
                                 ELSE IF FellIdle(m) THEN "idle" ELSE state[m]]
  /\ dirty' = [m \in Devices |-> Marked(m)]
  /\ ap' = [m \in Devices |-> IF TimedOut(m) THEN NoAP ELSE ap[m]]
  /\ todo' = [m \in Devices |-> IF TimedOut(m) THEN OfflineBatch(ap[m]) ELSE <<>>]
  /\ UNCHANGED <<up, silence, ids, cursor, flushing, database, history>>

(***************************************************************************)
(* Manager::set_location, for one enrichment out of a poll.  The poll ran  *)
(* in another task from an older snapshot, so the device may meanwhile     *)
(* have gone offline.  Being reported on the same access point again is    *)
(* not a change.                                                           *)
(***************************************************************************)
MoveBatch(a) == << Effect("close_location", NoAP), Effect("insert_location", a),
                   Effect("insert_event", "device_location_changed") >>

SetLocation(m, a) ==
  /\ Ready /\ Known(m)
  /\ state[m] = "offline" => LateEnrichment
  /\ ap[m] # a
  /\ ap' = [ap EXCEPT ![m] = a]
  /\ dirty' = [dirty EXCEPT ![m] = TRUE]
  /\ todo' = [todo EXCEPT ![m] = MoveBatch(a)]
  /\ UNCHANGED <<up, state, silence, ids, cursor, flushing, database, history>>

(***************************************************************************)
(* Persister::apply, one statement at a time.  The devices of a batch come *)
(* in the order of a hash map, each with all of its effects in a row.  An  *)
(* effect of a device without an id is skipped, except that its events are *)
(* recorded against no device.                                             *)
(***************************************************************************)
NextStatement(m, op) ==
  /\ up
  /\ cursor \in {m, NoDevice}
  /\ todo[m] # <<>>
  /\ Head(todo[m]).op = op
  /\ todo' = [todo EXCEPT ![m] = Tail(@)]
  /\ cursor' = IF Len(todo[m]) = 1 THEN NoDevice ELSE m
  /\ torn' = IF m \in ids \/ op = "insert_device"
             THEN [torn EXCEPT ![m] = @ \ {FacetOf(Head(todo[m]))}]
             ELSE torn
  /\ UNCHANGED <<up, memory, flushing, stops, failures>>

InsertDevice(m) ==
  /\ NextStatement(m, "insert_device")
  /\ row' = IF row[m].state = "absent"
            THEN [row EXCEPT ![m] = [state |-> "online", silence |-> silence[m],
                                     ap |-> NoAP]]
            ELSE [row EXCEPT ![m].silence = silence[m]]
  /\ ids' = ids \cup {m}
  /\ UNCHANGED <<session, stay, log, announced>>

\* INSERT ... WHERE NOT EXISTS (an open session)
WithOneOpen(n) == IF n = 0 THEN 1 ELSE n

OpenPresence(m) ==
  /\ NextStatement(m, "open_presence")
  /\ session' = IF m \in ids THEN [session EXCEPT ![m] = WithOneOpen(@)]
                ELSE session
  /\ UNCHANGED <<ids, row, stay, log, announced>>

ClosePresence(m) ==
  /\ NextStatement(m, "close_presence")
  /\ session' = IF m \in ids THEN [session EXCEPT ![m] = 0] ELSE session
  /\ UNCHANGED <<ids, row, stay, log, announced>>

CloseLocation(m) ==
  /\ NextStatement(m, "close_location")
  /\ stay' = IF m \in ids THEN [stay EXCEPT ![m] = NoAP] ELSE stay
  /\ UNCHANGED <<ids, row, session, log, announced>>

InsertLocation(m) ==
  /\ NextStatement(m, "insert_location")
  /\ stay' = IF m \in ids THEN [stay EXCEPT ![m] = Head(todo[m]).arg] ELSE stay
  /\ UNCHANGED <<ids, row, session, log, announced>>

InsertEvent(m) ==
  /\ NextStatement(m, "insert_event")
  /\ LET kind == Head(todo[m]).arg IN
       /\ log' = IF m \in ids /\ kind \in PresenceEvents
                 THEN [log EXCEPT ![m] = [kind |-> kind, odd |-> ~log[m].odd]] ELSE log
       /\ announced' = IF m \in ids /\ kind = "new_device"
                       THEN [announced EXCEPT ![m] = @ + 1] ELSE announced
  /\ UNCHANGED <<ids, row, session, stay>>

Write(m) == \/ InsertDevice(m)  \/ OpenPresence(m)   \/ ClosePresence(m)
            \/ CloseLocation(m) \/ InsertLocation(m) \/ InsertEvent(m)

\* daemon.rs apply: no connection, or a statement fails.  What is left of
\* the batch is dropped, for every device in it.
DropBatch ==
  /\ up /\ failures < MaxFailures
  /\ \E m \in Devices : todo[m] # <<>>
  /\ todo' = [m \in Devices |-> <<>>]
  /\ cursor' = NoDevice
  /\ torn' = [m \in Devices |-> torn[m] \cup Pending(m)]
  /\ failures' = failures + 1
  /\ UNCHANGED <<up, memory, ids, flushing, database, stops>>

(***************************************************************************)
(* flush_devices: the dirty marks are cleared before the first write.      *)
(***************************************************************************)
TakeDirty ==
  /\ Ready
  /\ \E m \in Devices : dirty[m]
  /\ flushing' = {m \in Devices : dirty[m]}
  /\ dirty' = [m \in Devices |-> FALSE]
  /\ UNCHANGED <<up, state, silence, ap, ids, todo, cursor, database, history>>

FlushDevice(m) ==
  /\ up /\ m \in flushing
  /\ flushing' = flushing \ {m}
  /\ row' = IF m \in ids
            THEN [row EXCEPT ![m] = [state |-> state[m], silence |-> silence[m],
                                     ap |-> ap[m]]]
            ELSE row
  /\ torn' = [torn EXCEPT ![m] = @ \ {"row"}]
  /\ UNCHANGED <<up, memory, ids, todo, cursor, session, stay, log, announced,
                 stops, failures>>

DropFlush ==
  /\ up /\ failures < MaxFailures
  /\ flushing # {}
  /\ flushing' = {}
  /\ torn' = [m \in Devices |-> IF m \in flushing THEN torn[m] \cup {"row"}
                                ELSE torn[m]]
  /\ failures' = failures + 1
  /\ UNCHANGED <<up, memory, ids, todo, cursor, database, stops>>

(***************************************************************************)
(* The end of the process and the next start (daemon.rs run).  A clean     *)
(* shutdown flushes first, so it finds nothing dirty.                      *)
(***************************************************************************)
Unwritten(m) == \/ dirty[m] \/ m \in flushing
                \/ todo[m] # <<>> \/ "row" \in torn[m]

Exit ==
  /\ up /\ stops < MaxStops
  /\ up' = FALSE
  /\ state' = Each("absent") /\ silence' = Each(0)
  /\ ap' = Each(NoAP) /\ dirty' = Each(FALSE)
  /\ ids' = {} /\ todo' = Each(<<>>) /\ cursor' = NoDevice /\ flushing' = {}
  /\ torn' = [m \in Devices |-> IF Unwritten(m) THEN Facets ELSE torn[m]]
  /\ stops' = stops + 1
  /\ UNCHANGED <<database, failures>>

Crash == MayCrash /\ Exit
Shutdown == Ready /\ (\A m \in Devices : ~dirty[m]) /\ Exit

\* What the table holds of a device after a restart.
RestoredUnlessOffline(m) ==
  IF row[m].state = "offline" THEN "absent" ELSE row[m].state
RestoredState(m) == row[m].state

RestoredWherever(m) == row[m].ap
RestoredAp(m) == IF row[m].state = "offline" THEN NoAP ELSE row[m].ap

\* load_devices, Persister::seed, close_stale_location_stays (whose failure
\* is only a warning) and Manager::restore.
Start ==
  /\ ~up
  /\ up' = TRUE
  /\ state' = [m \in Devices |-> RestoredState(m)]
  /\ silence' = [m \in Devices |-> row[m].silence]
  /\ ap' = [m \in Devices |-> RestoredAp(m)]
  /\ ids' = {m \in Devices : row[m].state # "absent"}
  /\ LET stale == {m \in Devices : row[m].state = "offline"} IN
       \/ /\ stay' = [m \in Devices |-> IF m \in stale THEN NoAP ELSE stay[m]]
          /\ torn' = [m \in Devices |-> torn[m] \ (IF m \in stale
                        THEN {"row", "location"} ELSE {"row"})]
          /\ UNCHANGED failures
       \/ /\ failures < MaxFailures
          /\ failures' = failures + 1
          /\ torn' = [m \in Devices |-> (torn[m] \ {"row"}) \cup (IF m \in stale
                        THEN {"location"} ELSE {})]
          /\ UNCHANGED stay
  /\ UNCHANGED <<dirty, todo, cursor, flushing, row, session, log, announced, stops>>

Next ==
  \/ Tick
  \/ \E m \in Devices, lag \in 0 .. MaxLag : Discover(m, lag) \/ Observe(m, lag)
  \/ Sweep
  \/ \E m \in Devices, a \in APs : SetLocation(m, a)
  \/ \E m \in Devices : Write(m)
  \/ DropBatch
  \/ TakeDirty
  \/ \E m \in Devices : FlushDevice(m)
  \/ DropFlush
  \/ Crash
  \/ Shutdown
  \/ Start

Spec == Init /\ [][Next]_vars

(***************************************************************************)
(* The handlers' writes follow one another without a pause, and a service  *)
(* manager starts the daemon again.  The timers are polled by a biased     *)
(* select behind the observation channel, so that they run only when the   *)
(* channel is found empty: they are owed a turn because it is found empty  *)
(* again and again (strong fairness), not because it stays so.  Nothing is *)
(* owed by the network, the enricher, or the operator.                     *)
(***************************************************************************)
Fairness ==
  /\ WF_vars(Start)
  /\ WF_vars(\E m \in Devices : Write(m))
  /\ WF_vars(\E m \in Devices : FlushDevice(m))
  /\ SF_vars(Sweep)
  /\ SF_vars(TakeDirty)

FairSpec == Spec /\ Fairness

(***************************************************************************)
(* Properties.                                                             *)
(***************************************************************************)

\* The four copies of a device agree with the state machine unless a fault
\* has put that copy of that device out of step, or it is about to be
\* written: a failed statement or a crash harms only the devices whose
\* changes were in flight, and every later write of the same kind repairs it
\* (device/persist.rs apply and flush, daemon.rs apply and flush_devices).
Settled(m, facet) == m \in ids /\ facet \notin torn[m] \cup Pending(m)

PresenceFollows(m) ==
  Settled(m, "presence") => session[m] = (IF state[m] = "offline" THEN 0 ELSE 1)
LocationFollows(m) ==
  Settled(m, "location") => stay[m] = ap[m]
EventsFollow(m) ==
  Settled(m, "events") => (log[m].kind = "went_offline" <=> state[m] = "offline")
RowFollows(m) ==
  Settled(m, "row") /\ ~dirty[m] /\ m \notin flushing =>
    /\ row[m].state = state[m]
    /\ row[m].silence = silence[m]
    /\ state[m] # "offline" => row[m].ap = ap[m]

FaultsAreContained ==
  up => \A m \in Devices : /\ PresenceFollows(m) /\ LocationFollows(m)
                           /\ EventsFollow(m)    /\ RowFollows(m)

\* However many crashes and failed writes there are, a device is announced as
\* new at most once, and never without the row its event points at
\* (Manager::discover, Manager::restore; "A restart must not re-announce the
\* whole network", daemon.rs:124).
AnnouncedOnce ==
  \A m \in Devices : /\ announced[m] <= 1
                     /\ log[m].kind # "none" => row[m].state # "absent"

\* A device that has fallen silent for good ends up offline in ng_devices,
\* however often the daemon crashed on the way, unless the write of its row
\* failed and nothing has made it dirty since (Manager::sweep, take_dirty,
\* flush_devices, Manager::restore).
Quiet(m) == /\ row[m].state # "absent"
            /\ row[m].silence >= OfflineAfter[m]
            /\ up => silence[m] >= OfflineAfter[m]
SilenceIsRecorded ==
  \A m \in Devices :
    <>[](Quiet(m) /\ "row" \notin torn[m]) => <>[](row[m].state = "offline")

(***************************************************************************)
(* What the documentation says, and a crash refutes.                       *)
(***************************************************************************)

\* "A crash loses at most one flush interval of last_seen_at precision, never
\* a state change: those go to ng_events the moment they happen"
\* (daemon.rs:11-13): a device whose departure is recorded is offline.
StateChangesSurvive ==
  Ready => \A m \in ids : log[m].kind = "went_offline" => state[m] = "offline"
=============================================================================
