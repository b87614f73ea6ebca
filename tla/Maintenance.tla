---------------------------- MODULE Maintenance ----------------------------
(* The nightly jobs over the history tables (maintenance/mod.rs) and the  *)
(* statements that write those tables between two nights (db/queries.rs). *)
(*                                                                        *)
(* A night is a chain of statements, each a transaction of its own: the   *)
(* presence rollup, the location rollup, the prune, the address merge and *)
(* the vacuum.  Any of them may fail, which leaves the ones before it     *)
(* applied and skips the ones after it; the daemon may crash between two. *)
(* The main loop awaits the whole chain, so no other statement of the     *)
(* daemon's falls between two of them, but the clock goes on.             *)
(*                                                                        *)
(* A presence session and a location stay are rows of the same shape, a   *)
(* session having no place.  `ledger` is a history variable: the rows and *)
(* the events as they would be had no night ever run.                     *)
EXTENDS Integers, FiniteSets, FiniteSetsExt

CONSTANTS
  Residents,     \* the devices whose history is kept
  Locations,        \* the locations of the operator's map
  NoPlace,       \* the place of a presence session
  Open,          \* the end of a row that has none
  Never,         \* last_maintenance before the first night
  TicksPerDay,   \* ticks of the clock in a day
  LocalOffset,   \* the local time's distance from UTC, in ticks
  RunAt,         \* maintenance.run_at, a tick of the local day
  RollupAfter,   \* maintenance.rollup_after_days
  RetainEvents,  \* maintenance.event_retention_days
  MaxTick,       \* bound: the clock
  MaxRows,       \* bound: the sessions and stays begun
  MaxHeard,      \* bound: the observations of a row
  MaxMishaps     \* bound: failed statements and crashes

ASSUME MaintenanceAssumption ==
  /\ NoPlace \notin Locations
  /\ Open \notin Nat /\ Never \notin Nat
  /\ TicksPerDay \in Nat \ {0} /\ RunAt \in 0..TicksPerDay - 1
  /\ {RollupAfter, RetainEvents} \subseteq Nat \ {0}
  /\ {LocalOffset, MaxTick, MaxRows, MaxHeard, MaxMishaps} \subseteq Nat

VARIABLES
  tick,      \* now
  rows,      \* ng_presence and ng_location_history
  events,    \* ng_events: when each was recorded
  spans,     \* ng_ip_history
  ledger,    \* history: [rows, events] without maintenance
  offline,   \* the devices whose persisted state is offline
  job,       \* the statement of the night that is next, or "idle"
  before,    \* the cutoffs the night began with
  moved,     \* ~Report::is_quiet
  lastNight, \* last_maintenance, in memory only
  mishaps    \* the mishaps so far

history == <<rows, events, spans, ledger, offline>>
night == <<job, before, moved, lastNight>>
maintenanceVars == <<tick, history, night, mishaps>>

Ticks == 0..MaxTick
RowPlaces == Locations \cup {NoPlace}
Jobs == {"presence", "stays", "events", "addresses", "vacuum"}

Row == [resident : Residents, place : RowPlaces, start : Ticks,
        end : Ticks \cup {Open}, summary : BOOLEAN, heard : Nat]

\* The UTC day of a tick: (started_at AT TIME ZONE 'UTC')::date.
DayOf(t) == t \div TicksPerDay

LocalDay(t) == (t + LocalOffset) \div TicksPerDay

\* The start of the UTC day `days` days before now.
Cutoff(days) == (DayOf(tick) - days) * TicksPerDay

----------------------------------------------------------------------------
(* The history.  Every statement also applies to the ledger.               *)

OpenRows(table, r, place) ==
  {row \in table : /\ row.resident = r /\ row.place = place
                   /\ row.end = Open /\ ~row.summary}

Insert(table, r, place) ==
  table \cup {[resident |-> r, place |-> place, start |-> tick, end |-> Open,
               summary |-> FALSE, heard |-> 0]}

CloseRows(table, closed) ==
  (table \ closed) \cup {[row EXCEPT !.end = tick] : row \in closed}

\* The stays of a device that are open, wherever it is.
OpenStays(table, r) == UNION {OpenRows(table, r, place) : place \in Locations}

\* Bound: a device begins at most one session and one stay a tick, which lets
\* a row be told by its device, its place and its start.
Fresh(r, place) ==
  /\ Cardinality(ledger.rows) < MaxRows
  /\ \A row \in ledger.rows :
    row.resident = r /\ row.start = tick => ((row.place = NoPlace) # (place = NoPlace))

OpenPresence(r) ==
  /\ OpenRows(rows, r, NoPlace) = {}
  /\ Fresh(r, NoPlace)
  /\ rows' = Insert(rows, r, NoPlace)
  /\ ledger' = [rows |-> Insert(ledger.rows, r, NoPlace),
                events |-> ledger.events \cup {tick}]
  /\ events' = events \cup {tick}
  /\ offline' = offline \ {r}
  /\ spans' = IF \E s \in spans : s.resident = r
              THEN {IF s.resident = r THEN [s EXCEPT !.last = tick] ELSE s
                    : s \in spans}
              ELSE spans \cup {[resident |-> r, first |-> tick, last |-> tick]}

Bumped(table, r) ==
  LET open == OpenRows(table, r, NoPlace)
  IN  (table \ open) \cup {[row EXCEPT !.heard = @ + 1] : row \in open}

BumpPresence(r) ==
  /\ \E row \in OpenRows(rows, r, NoPlace) : row.heard < MaxHeard
  /\ rows' = Bumped(rows, r)
  /\ ledger' = [ledger EXCEPT !.rows = Bumped(@, r)]
  /\ UNCHANGED <<events, spans, offline>>

\* A departure closes the session; the open stay is closed with it unless
\* that statement fails, and a restart then closes the stale stay.
Departed(table, r, stayToo) ==
  CloseRows(table, OpenRows(table, r, NoPlace)
                   \cup IF stayToo THEN OpenStays(table, r) ELSE {})

ClosePresence(r) ==
  /\ OpenRows(rows, r, NoPlace) # {}
  /\ \E stayToo \in BOOLEAN :
       /\ stayToo \/ (OpenStays(rows, r) # {} /\ mishaps < MaxMishaps)
       /\ mishaps' = IF stayToo THEN mishaps ELSE mishaps + 1
       /\ rows' = Departed(rows, r, stayToo)
       /\ ledger' = [rows |-> Departed(ledger.rows, r, stayToo),
                     events |-> ledger.events \cup {tick}]
  /\ events' = events \cup {tick}
  /\ offline' = offline \cup {r}
  /\ UNCHANGED spans

\* Two statements: the open stay ends, the next one begins.  The second may
\* be lost, which leaves the device with no open stay.
Moved(table, r, place, second) ==
  LET closed == CloseRows(table, OpenStays(table, r))
  IN  IF second THEN Insert(closed, r, place) ELSE closed

ChangeLocation(r, place) ==
  /\ r \notin offline /\ OpenRows(rows, r, NoPlace) # {}
  /\ OpenRows(rows, r, place) = {}
  /\ Fresh(r, place)
  /\ \E second \in BOOLEAN :
       /\ second \/ mishaps < MaxMishaps
       /\ mishaps' = IF second THEN mishaps ELSE mishaps + 1
       /\ rows' = Moved(rows, r, place, second)
       /\ ledger' = [ledger EXCEPT !.rows = Moved(@, r, place, second)]
  /\ UNCHANGED <<events, spans, offline>>

----------------------------------------------------------------------------
(* The night                                                               *)

\* Mutant: the day of the last night is not compared.
DueAgain == (tick + LocalOffset) % TicksPerDay >= RunAt

\* Once a local day, from the configured time on.
IsDue ==
  /\ (tick + LocalOffset) % TicksPerDay >= RunAt
  /\ lastNight # Never => LocalDay(lastNight) # LocalDay(tick)

Begin ==
  /\ job = "idle" /\ IsDue
  /\ lastNight' = tick
  /\ job' = "presence"
  /\ before' = [rollup |-> Cutoff(RollupAfter), events |-> Cutoff(RetainEvents)]
  /\ moved' = FALSE
  /\ UNCHANGED <<tick, history, mishaps>>

\* The rows of a rollup: closed, not a summary already, begun before the cutoff.
Victims(places) ==
  {row \in rows : /\ row.place \in places /\ ~row.summary
                  /\ row.end # Open /\ row.start < before.rollup}

\* Mutant: GROUP BY device_id, location.
GroupsOfAllDays(victims) ==
  {{w \in victims : w.resident = v.resident /\ w.place = v.place} : v \in victims}

\* GROUP BY device_id, location, day.
Groups(victims) ==
  {{w \in victims : /\ w.resident = v.resident /\ w.place = v.place
                    /\ DayOf(w.start) = DayOf(v.start)} : v \in victims}

\* The observations of a set of rows, one by one.
Observations(group) == UNION {{row} \X (1..row.heard) : row \in group}

Summary(group) ==
  LET any == CHOOSE row \in group : TRUE
  IN  [resident |-> any.resident, place |-> any.place,
       start |-> Min({row.start : row \in group}),
       end |-> Max({row.end : row \in group}),
       summary |-> TRUE,
       heard |-> Cardinality(Observations(group))]

\* One statement: the delete removes exactly the rows the insert has read.
RollUp(places) ==
  /\ rows' = (rows \ Victims(places)) \cup {Summary(g) : g \in Groups(Victims(places))}
  /\ moved' = (moved \/ Victims(places) # {})

RollUpPresence ==
  /\ job = "presence" /\ job' = "stays"
  /\ RollUp({NoPlace})
  /\ UNCHANGED <<events, spans>>

RollUpLocationHistory ==
  /\ job = "stays" /\ job' = "events"
  /\ RollUp(Locations)
  /\ UNCHANGED <<events, spans>>

PruneEvents ==
  /\ job = "events" /\ job' = "addresses"
  /\ events' = {e \in events : e >= before.events}
  /\ moved' = (moved \/ events' # events)
  /\ UNCHANGED <<rows, spans>>

\* Ranges of one device and address are merged into the widest.
MergeIpHistory ==
  /\ job = "addresses"
  /\ spans' = {LET same == {s \in spans : s.resident = r}
               IN  [resident |-> r, first |-> Min({s.first : s \in same}),
                    last |-> Max({s.last : s \in same})]
               : r \in {s.resident : s \in spans}}
  /\ moved' = (moved \/ Cardinality(spans') < Cardinality(spans))
  /\ job' = IF moved' THEN "vacuum" ELSE "idle"
  /\ UNCHANGED <<rows, events>>

Vacuum ==
  /\ job = "vacuum" /\ job' = "idle"
  /\ UNCHANGED <<rows, events, spans, moved>>

Statement ==
  /\ \/ RollUpPresence
     \/ RollUpLocationHistory
     \/ PruneEvents
     \/ MergeIpHistory
     \/ Vacuum
  /\ UNCHANGED <<tick, ledger, offline, before, lastNight, mishaps>>

\* A statement fails, or there is no connection: the night is over.
StatementFails ==
  /\ job # "idle" /\ mishaps < MaxMishaps
  /\ mishaps' = mishaps + 1
  /\ job' = "idle"
  /\ UNCHANGED <<tick, history, before, moved, lastNight>>

\* The night of before is forgotten, and the stays that devices which are
\* offline have left open are closed at startup.
CrashAndRestart ==
  LET stale(table) == UNION {OpenStays(table, r) : r \in offline}
  IN  /\ mishaps < MaxMishaps
      /\ mishaps' = mishaps + 1
      /\ job' = "idle" /\ lastNight' = Never
      /\ rows' = CloseRows(rows, stale(rows))
      /\ ledger' = [ledger EXCEPT !.rows = CloseRows(@, stale(@))]
      /\ UNCHANGED <<tick, events, spans, offline, before, moved>>

----------------------------------------------------------------------------
NextTick ==
  /\ tick < MaxTick
  /\ tick' = tick + 1
  /\ UNCHANGED <<history, night, mishaps>>

\* What the loop writes by day; it is not at it while a night is running.
Daytime ==
  /\ job = "idle"
  /\ \E r \in Residents :
       \/ OpenPresence(r) /\ UNCHANGED mishaps
       \/ BumpPresence(r) /\ UNCHANGED mishaps
       \/ ClosePresence(r)
       \/ \E place \in Locations : ChangeLocation(r, place)
  /\ UNCHANGED <<tick, night>>

MaintenanceInit ==
  /\ tick = 0
  /\ rows = {} /\ events = {} /\ spans = {}
  /\ ledger = [rows |-> {}, events |-> {}]
  /\ offline = Residents
  /\ job = "idle" /\ before = [rollup |-> 0, events |-> 0]
  /\ moved = FALSE /\ lastNight = Never
  /\ mishaps = 0

MaintenanceNext ==
  \/ Begin
  \/ Statement
  \/ StatementFails
  \/ CrashAndRestart
  \/ NextTick
  \/ Daytime

MaintenanceSpec == MaintenanceInit /\ [][MaintenanceNext]_maintenanceVars

----------------------------------------------------------------------------
\* The types, and the unique index of ng_ip_history that makes the merge a
\* job that never has anything to do (maintenance/mod.rs:292).
MaintenanceTypeOK ==
  /\ tick \in Ticks
  /\ rows \subseteq Row /\ ledger.rows \subseteq Row
  /\ events \subseteq ledger.events /\ ledger.events \subseteq Ticks
  /\ \A s, t \in spans : s.resident = t.resident => s = t
  /\ offline \subseteq Residents
  /\ job \in Jobs \cup {"idle"}
  /\ lastNight \in Ticks \cup {Never}
  /\ mishaps \in 0..MaxMishaps

\* What a table says of a device, a place and a day: how much was heard of it,
\* from when and until when, over the rows that have ended.
DayAsTold(table, r, place, day) ==
  LET of == {row \in table : /\ row.resident = r /\ row.place = place
                             /\ row.end # Open /\ DayOf(row.start) = day}
  IN  IF of = {} THEN <<>>
      ELSE LET s == Summary(of) IN <<s.start, s.end, s.heard>>

\* The rollups lose nothing a summary can keep (maintenance/mod.rs:22): through
\* every order of sessions, nights, failed statements and crashes, the day of a
\* device at a place begins, ends and counts as it would had no night run; the
\* open rows are the same rows; and nothing of the days the configuration
\* spares, today among them, is a summary or a pruned event.
NightsLoseNothing ==
  /\ \A r \in Residents, place \in RowPlaces, day \in 0..DayOf(MaxTick) :
       DayAsTold(rows, r, place, day) = DayAsTold(ledger.rows, r, place, day)
  /\ {row \in rows : row.end = Open} = {row \in ledger.rows : row.end = Open}
  /\ \A row \in rows : row.summary => row.start < Cutoff(RollupAfter)
  /\ \A e \in ledger.events \ events : e < Cutoff(RetainEvents)

\* The night is not run twice a day (maintenance/mod.rs:359): two that begin on
\* the same local day have a restart between them.
OneNightADay ==
  [][ job = "idle" /\ job' = "presence"
        => lastNight = Never \/ LocalDay(lastNight) < LocalDay(tick) ]_maintenanceVars

\* Whatever night it is: nothing is lost, and nothing is done twice.
NightsAreSafe == []NightsLoseNothing /\ OneNightADay
============================================================================
