--------------------------- MODULE PeopleRegistry ---------------------------
(***************************************************************************)
(* Who is home: the people registry (people/mod.rs), the way the main loop *)
(* feeds it with presence transitions, and the reconcile tick that folds   *)
(* the plugin's edits back in (daemon.rs).                                 *)
(*                                                                         *)
(* A person is home or away; which, is decided when a device they own      *)
(* comes online or goes offline, never by looking at the device table.     *)
(* Ownership and people come from Postgres, where the plugin writes them   *)
(* at any time, and from the configuration file.  The device table is      *)
(* reduced to what the registry hears of it: idle is a way of being        *)
(* online, and the timeouts are a sweep that may take any online device.   *)
(* Where a person is, is the subject of Whereabouts.                       *)
(***************************************************************************)
EXTENDS Naturals, FiniteSets

CONSTANTS
  Devices,
  People,        \* item ids
  Nobody,        \* owner_item_id is NULL
  ConfigOwner,   \* [[people]] of netgrasp.toml: the owner of each device
  MaxEdits,      \* bound: edits by the plugin
  MaxStops,      \* bound: crashes and shutdowns
  MaxFailures    \* bound: statements that fail

ASSUME PeopleAssumption == Nobody \notin People
ASSUME HouseholdAssumption == IsFiniteSet(Devices)
ASSUME ConfigAssumption == ConfigOwner \in [Devices -> People \cup {Nobody}]
ASSUME LimitsAssumption ==
  MaxEdits \in Nat /\ MaxStops \in Nat /\ MaxFailures \in Nat

VARIABLES
  up,          \* the daemon is running
  device,      \* the device table: absent, online (or idle), offline
  view,        \* Registry.devices[m].online
  owner,       \* Registry.owner
  configured,  \* Registry.config_owner: the devices it has an entry for
  people,      \* Registry.people: the item ids
  home,        \* Registry.people[p].state is Home
  updates,     \* people whose ng_people row is still to be written
  events,      \* people whose arrival or departure is still to be recorded
  reconciling, \* reconcile_user_state has read the settings, not the people
  reading,     \* the ownership column it has read
  rowDevice,   \* ng_devices.state
  rowOwner,    \* ng_devices.owner_item_id
  rowPeople,   \* ng_people: the item ids
  rowHome,     \* ng_people.state
  log,         \* ng_events: the last arrival or departure of a person, and
               \* whether there is an odd number of them
  drift,       \* history: people an edit or a fault has touched since their
               \* last recorded event
  lagging,     \* history: people whose row missed a write
  missed,      \* history: devices whose last transition went unheard
  fresh,       \* history: no edit and no reconcile since the start
  edits, stops, failures

registry == <<view, owner, configured, people, home>>
handler == <<updates, events, reconciling, reading>>
database == <<rowDevice, rowOwner, rowPeople, rowHome, log>>
history == <<drift, lagging, missed, fresh>>
bounds == <<edits, stops, failures>>
vars == <<up, device, registry, handler, database, history, bounds>>

Owners == People \cup {Nobody}
Presence == {"absent", "online", "offline"}
Kinds == {"person_arrived", "person_departed"}

TypeOK ==
  /\ up \in BOOLEAN
  /\ device \in [Devices -> Presence]
  /\ view \in [Devices -> BOOLEAN]
  /\ owner \in [Devices -> Owners]
  /\ configured \subseteq Devices
  /\ people \subseteq People
  /\ home \in [People -> BOOLEAN]
  /\ updates \subseteq people /\ events \subseteq people
  /\ reconciling \in BOOLEAN
  /\ reading \in [Devices -> Owners]
  /\ rowDevice \in [Devices -> Presence]
  /\ rowOwner \in [Devices -> Owners]
  /\ rowPeople \subseteq People
  /\ rowHome \in [People -> BOOLEAN]
  /\ log \in [People -> [kind : Kinds \cup {"none"}, odd : BOOLEAN]]
  /\ drift \subseteq People /\ lagging \subseteq People
  /\ missed \subseteq Devices /\ fresh \in BOOLEAN
  /\ edits \in 0 .. MaxEdits
  /\ stops \in 0 .. MaxStops
  /\ failures \in 0 .. MaxFailures

Unowned == [m \in Devices |-> Nobody]
AllAway == [p \in People |-> FALSE]

Init ==
  /\ up = FALSE
  /\ device = [m \in Devices |-> "absent"]
  /\ view = [m \in Devices |-> FALSE]
  /\ owner = Unowned /\ configured = {} /\ people = {} /\ home = AllAway
  /\ updates = {} /\ events = {}
  /\ reconciling = FALSE /\ reading = Unowned
  /\ rowDevice = [m \in Devices |-> "absent"] /\ rowOwner = Unowned
  /\ rowPeople = {} /\ rowHome = AllAway
  /\ log = [p \in People |-> [kind |-> "none", odd |-> FALSE]]
  /\ drift = {} /\ lagging = {} /\ missed = {} /\ fresh = FALSE
  /\ edits = 0 /\ stops = 0 /\ failures = 0

Ready == up /\ updates = {} /\ events = {} /\ ~reconciling

OwnedBy(p) == {m \in Devices : owner[m] = p}

\* Registry::is_active
IsActive == \E m \in Devices : owner[m] \in people

(***************************************************************************)
(* apply_and_track, for devices that came online (on) and devices that     *)
(* went offline (off) in one batch.  While the registry is not active it   *)
(* hears nothing; a device nobody owns leaves no trace in it.              *)
(***************************************************************************)
View(on, off) ==
  [m \in Devices |-> IF ~IsActive \/ owner[m] = Nobody THEN view[m]
                     ELSE (view[m] \/ m \in on) /\ m \notin off]

\* Registry::any_online
AnyOnlineInTheTable(p, seen) == \E m \in OwnedBy(p) : device[m] = "online"
AnyOnline(p, seen) == \E m \in OwnedBy(p) : seen[m]

\* Registry::device_online and Registry::device_offline
ArrivingAgain(on) ==
  IF IsActive THEN {p \in people : \E m \in on : owner[m] = p} ELSE {}
Arriving(on) ==
  IF IsActive THEN {p \in people : ~home[p] /\ \E m \in on : owner[m] = p} ELSE {}
Departing(off, seen) ==
  IF IsActive THEN {p \in people : /\ home[p] /\ \E m \in off : owner[m] = p
                                   /\ ~AnyOnline(p, seen)}
  ELSE {}

Track(on, off) ==
  LET seen == View(on, off)
      moved == Arriving(on) \cup Departing(off, seen)
      heard == {m \in on \cup off : owner[m] # Nobody} IN
    /\ view' = seen
    /\ home' = [p \in People |-> /\ home[p] \/ p \in Arriving(on)
                                 /\ p \notin Departing(off, seen)]
    /\ updates' = moved
    /\ events' = moved
    /\ missed' = IF IsActive THEN missed \ heard ELSE missed \cup heard

(***************************************************************************)
(* A packet of a device that was not online, and a sweep.  The row of a    *)
(* device is inserted when it is discovered, and otherwise waits for a     *)
(* flush.                                                                  *)
(***************************************************************************)
Observe(m) ==
  /\ Ready /\ device[m] # "online"
  /\ device' = [device EXCEPT ![m] = "online"]
  /\ \/ /\ rowDevice' = IF device[m] = "absent"
                        THEN [rowDevice EXCEPT ![m] = "online"] ELSE rowDevice
        /\ UNCHANGED failures
     \/ /\ device[m] = "absent" /\ failures < MaxFailures
        /\ failures' = failures + 1
        /\ UNCHANGED rowDevice
  /\ Track({m}, {})
  /\ UNCHANGED <<up, owner, configured, people, reconciling, reading, rowOwner,
                 rowPeople, rowHome, log, drift, lagging, fresh, edits, stops>>

Sweep(off) ==
  /\ Ready
  /\ off # {} /\ \A m \in off : device[m] = "online"
  /\ device' = [m \in Devices |-> IF m \in off THEN "offline" ELSE device[m]]
  /\ Track({}, off)
  /\ UNCHANGED <<up, owner, configured, people, reconciling, reading, database,
                 drift, lagging, fresh, bounds>>

\* flush_devices.  When it runs is not said: a flush that is late, or fails,
\* leaves the rows as they are.
Flush ==
  /\ Ready
  /\ rowDevice' = [m \in Devices |-> IF rowDevice[m] = "absent" THEN "absent"
                                     ELSE device[m]]
  /\ rowDevice' # rowDevice
  /\ UNCHANGED <<up, device, registry, handler, rowOwner, rowPeople, rowHome,
                 log, history, bounds>>

(***************************************************************************)
(* record_people: first the rows, then the events.  A failure of either is *)
(* a warning, and is not retried.                                          *)
(***************************************************************************)
WrittenBefore(p) == ~home[p]
Written(p) == home[p]

UpdatePerson(p) ==
  /\ up /\ p \in updates
  /\ updates' = updates \ {p}
  /\ \/ /\ rowHome' = IF p \in rowPeople THEN [rowHome EXCEPT ![p] = Written(p)]
                      ELSE rowHome
        /\ lagging' = IF p \in rowPeople THEN lagging \ {p} ELSE lagging
        /\ UNCHANGED failures
     \/ /\ failures < MaxFailures
        /\ failures' = failures + 1
        /\ lagging' = lagging \cup {p}
        /\ UNCHANGED rowHome
  /\ UNCHANGED <<up, device, registry, events, reconciling, reading, rowDevice,
                 rowOwner, rowPeople, log, drift, missed, fresh, edits, stops>>

EventOfPresence(p) == IF home[p] THEN "returned" ELSE "went_offline"
EventOf(p) == IF home[p] THEN "person_arrived" ELSE "person_departed"

RecordEvent(p) ==
  /\ up /\ updates = {} /\ p \in events
  /\ events' = events \ {p}
  /\ \/ /\ log' = [log EXCEPT ![p] = [kind |-> EventOf(p), odd |-> ~log[p].odd]]
        /\ drift' = drift \ {p}
        /\ UNCHANGED failures
     \/ /\ failures < MaxFailures
        /\ failures' = failures + 1
        /\ drift' = drift \cup {p}
        /\ UNCHANGED log
  /\ UNCHANGED <<up, device, registry, updates, reconciling, reading, rowDevice,
                 rowOwner, rowPeople, rowHome, lagging, missed, fresh, edits,
                 stops>>

(***************************************************************************)
(* The plugin: it assigns a device to a person, and mirrors and drops      *)
(* people.  It writes whenever it likes, between any two statements of the *)
(* daemon, and whether the daemon is running or not.                       *)
(***************************************************************************)
Edit == /\ edits < MaxEdits
        /\ edits' = edits + 1
        /\ fresh' = FALSE
        /\ UNCHANGED <<up, device, registry, handler, rowDevice, log, missed,
                       stops, failures>>

Assign(m, p) ==
  /\ Edit
  /\ rowDevice[m] # "absent" /\ rowOwner[m] # p
  /\ rowOwner' = [rowOwner EXCEPT ![m] = p]
  /\ drift' = drift \cup ({rowOwner[m], p, ConfigOwner[m]} \ {Nobody})
  /\ UNCHANGED <<rowPeople, rowHome, lagging>>

\* The people for whom it matters whether p is in ng_people.
Touched(p) ==
  ({p} \cup {ConfigOwner[m] : m \in {d \in Devices : rowOwner[d] = p}}) \ {Nobody}

Mirror(p) ==
  /\ Edit
  /\ p \notin rowPeople
  /\ rowPeople' = rowPeople \cup {p}
  /\ rowHome' = [rowHome EXCEPT ![p] = FALSE]
  /\ drift' = drift \cup Touched(p) /\ lagging' = lagging \cup {p}
  /\ UNCHANGED rowOwner

Unmirror(p) ==
  /\ Edit
  /\ p \in rowPeople
  /\ rowPeople' = rowPeople \ {p}
  /\ rowHome' = [rowHome EXCEPT ![p] = FALSE]
  /\ drift' = drift \cup Touched(p) /\ lagging' = lagging \cup {p}
  /\ UNCHANGED rowOwner

(***************************************************************************)
(* reconcile_user_state: the settings are read, then the people, and what  *)
(* was read is folded in.  The two reads are not one snapshot.             *)
(***************************************************************************)
ReadSettings ==
  /\ Ready
  /\ reconciling' = TRUE
  /\ reading' = rowOwner
  /\ UNCHANGED <<up, device, registry, updates, events, database, history, bounds>>

ReadFails ==
  /\ up /\ reconciling /\ failures < MaxFailures
  /\ reconciling' = FALSE /\ reading' = Unowned
  /\ failures' = failures + 1
  /\ UNCHANGED <<up, device, registry, updates, events, database, history,
                 edits, stops>>

\* The database wins where it says anything, the configuration is the
\* fallback where it says nothing.
WantedFromTheDatabase(m) == reading[m]
Wanted(m) ==
  IF reading[m] # Nobody THEN reading[m]
  ELSE IF m \in configured THEN ConfigOwner[m] ELSE Nobody

Reassigned == {m \in Devices : rowDevice[m] # "absent" /\ Wanted(m) # owner[m]}

NoneSeeded == {}
Seeded == {m \in Reassigned : Wanted(m) # Nobody /\ device[m] # "absent"}

\* The daemon's half of a person already known is ahead of the database's.
KeptFromTheRow(p) == rowHome[p]
Kept(p) == home[p]

\* Registry::reconcile, and the seeding of newly owned devices.
Reconcile ==
  /\ up /\ reconciling
  /\ reconciling' = FALSE /\ reading' = Unowned
  /\ people' = rowPeople
  /\ home' = [p \in People |-> IF p \in people \cap rowPeople THEN Kept(p)
                               ELSE p \in rowPeople /\ rowHome[p]]
  /\ owner' = [m \in Devices |-> IF m \in Reassigned THEN Wanted(m) ELSE owner[m]]
  /\ view' = [m \in Devices |-> IF m \in Seeded THEN device[m] = "online"
                                ELSE view[m]]
  /\ missed' = missed \ Seeded
  /\ fresh' = FALSE
  /\ drift' = (drift \cup {owner[m] : m \in Reassigned}
                      \cup {Wanted(m) : m \in Reassigned}
                      \cup (rowPeople \ people)) \ {Nobody}
  /\ UNCHANGED <<up, device, configured, updates, events, database, lagging, bounds>>

(***************************************************************************)
(* The end of the process and the next start.                              *)
(***************************************************************************)
ConfigPeople == {ConfigOwner[m] : m \in Devices} \ {Nobody}

\* The owner a start gives a device, when it knows the people in mirrored and
\* has adopted the configured ones in adopted.
StartOwner(m, mirrored, adopted) ==
  IF rowDevice[m] # "absent" /\ rowOwner[m] \in mirrored THEN rowOwner[m]
  ELSE IF ConfigOwner[m] \in mirrored \cap adopted THEN ConfigOwner[m]
  ELSE Nobody

\* What a restart may see differently from what the process knew.
Unsaved(m) ==
  LET next == StartOwner(m, rowPeople \cup ConfigPeople, ConfigPeople) IN
    IF device[m] # rowDevice[m] \/ m \in missed \/ next # owner[m]
    THEN {owner[m], next, ConfigOwner[m]} ELSE {}

Exit ==
  /\ up /\ stops < MaxStops
  /\ stops' = stops + 1
  /\ up' = FALSE
  /\ device' = [m \in Devices |-> "absent"]
  /\ view' = [m \in Devices |-> FALSE]
  /\ owner' = Unowned /\ configured' = {} /\ people' = {} /\ home' = AllAway
  /\ updates' = {} /\ events' = {} /\ reconciling' = FALSE /\ reading' = Unowned
  /\ drift' = (drift \cup lagging \cup updates \cup events
               \cup UNION {Unsaved(m) : m \in Devices}) \ {Nobody}
  /\ lagging' = {} /\ missed' = {} /\ fresh' = FALSE
  /\ UNCHANGED <<database, edits, failures>>

\* Registry::restore_device
Restored(m) == rowDevice[m] = "online"

\* ensure_person, load_people, Roster::into_registry, Manager::restore and
\* Registry::restore_device.  Each query may fail, and is then only a warning.
Start(adopted, loaded) ==
  LET cost == Cardinality(ConfigPeople \ adopted) + (IF loaded THEN 0 ELSE 1)
      mirrored == IF loaded THEN rowPeople \cup adopted ELSE {} IN
    /\ ~up
    /\ up' = TRUE
    /\ failures + cost <= MaxFailures
    /\ failures' = failures + cost
    /\ rowPeople' = rowPeople \cup adopted
    /\ people' = mirrored
    /\ home' = [p \in People |-> p \in mirrored /\ rowHome[p]]
    /\ owner' = [m \in Devices |-> StartOwner(m, mirrored, adopted)]
    /\ configured' = {m \in Devices : ConfigOwner[m] \in mirrored \cap adopted}
    /\ device' = rowDevice
    /\ view' = [m \in Devices |-> Restored(m)]
    /\ drift' = IF cost = 0 THEN drift ELSE People
    /\ fresh' = TRUE
    /\ UNCHANGED <<handler, rowDevice, rowOwner, rowHome, log, lagging, missed,
                   edits, stops>>

Next ==
  \/ \E m \in Devices : Observe(m)
  \/ \E off \in SUBSET Devices : Sweep(off)
  \/ Flush
  \/ \E p \in People : UpdatePerson(p) \/ RecordEvent(p)
  \/ \E m \in Devices, p \in Owners : Assign(m, p)
  \/ \E p \in People : Mirror(p) \/ Unmirror(p)
  \/ ReadSettings \/ ReadFails \/ Reconcile
  \/ Exit
  \/ \E adopted \in SUBSET ConfigPeople, loaded \in BOOLEAN : Start(adopted, loaded)

Spec == Init /\ [][Next]_vars

(***************************************************************************)
(* Properties.                                                             *)
(***************************************************************************)

\* What the registry believes of an owned device is what the device table
\* says, unless the device moved while the registry was not listening: the
\* views of devices that have no owner go stale, and every way of getting an
\* owner must refresh them (daemon.rs apply_and_track, reconcile_user_state,
\* build_registry).
ViewsFollowTheTable ==
  up => \A m \in Devices : owner[m] # Nobody /\ m \notin missed =>
          (view[m] <=> device[m] = "online")

\* A person is home exactly when a device they own is online, from each
\* recorded arrival or departure on, until an edit of the plugin, a failed
\* write or a crash concerns them (people/mod.rs, the rule at the top).
Heard(p) == OwnedBy(p) \cap missed = {}
HomeFollowsDevices ==
  up => \A p \in people \ drift : Heard(p) =>
          (home[p] <=> \E m \in OwnedBy(p) : device[m] = "online")

\* The daemon's half of ng_people says what the registry says, unless a write
\* of it failed or the plugin put a new row in its place (record_people,
\* Registry::reconcile, which must leave the daemon's columns alone).
RowsFollowTheRegistry ==
  up => \A p \in people \cap rowPeople :
          p \notin updates \cup lagging => (rowHome[p] <=> home[p])

\* The registry, the device table and the database agree about who is home: the
\* three together.
RegistryAgrees == ViewsFollowTheTable /\ HomeFollowsDevices /\ RowsFollowTheRegistry

\* Arrivals and departures alternate in ng_events for everybody no edit and
\* no fault has touched in between: neither a restart nor a reconcile repeats
\* one ("A restart must not announce that the whole household just arrived",
\* people/mod.rs:451).
ArrivalsAlternate ==
  [][\A p \in People \ drift : log'[p] # log[p] => log'[p].kind # log[p].kind]_vars

\* The first reconcile after a start changes no owner the database names, or
\* leaves to the configuration, if nobody has edited anything since: the start
\* and the reconcile take the sources in the same order (Roster::into_registry,
\* build_registry, Registry::reconcile).
FirstReconcile == fresh /\ reconciling /\ ~reconciling'
FirstReconcileKeepsOwners ==
  [][FirstReconcile => \A m \in Devices :
       rowOwner[m] \in people \cup {Nobody} => owner'[m] = owner[m] \/ ~up']_vars

\* No step of the registry repeats an arrival or takes a device from its owner:
\* the two together.
HouseholdIsSteady == ArrivalsAlternate /\ FirstReconcileKeepsOwners

(***************************************************************************)
(* What the documentation says, without exceptions.                        *)
(***************************************************************************)

\* "A person is home when any device they own is online" (README.md:421):
\* the rule again, for people no edit, fault or crash has touched since the
\* last recorded event.
HomeFollowsEveryDevice ==
  up => \A p \in people \ drift :
          home[p] <=> \E m \in OwnedBy(p) : device[m] = "online"
=============================================================================
