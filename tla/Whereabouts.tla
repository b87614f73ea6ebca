---------------------------- MODULE Whereabouts ----------------------------
(***************************************************************************)
(* Where a person is, and which way they came and went: the places the     *)
(* enrichers report (daemon.rs apply_enrichments, location/mod.rs), the    *)
(* registry's view of them and the location it derives (people/mod.rs).    *)
(*                                                                         *)
(* One person owns all the devices; who owns what, and what a fault does   *)
(* to it, is the subject of PeopleRegistry.  Time counts in units of the   *)
(* evidence window, and times are absolute, because two of them are        *)
(* subtracted.  A poll hands over one enrichment at a time.                *)
(***************************************************************************)
EXTENDS Integers, FiniteSetsExt

CONSTANTS
  Carried,
  APs,
  Edges,         \* edge_aps
  LocationOf,    \* the operator's map from access points to locations
  Nowhere,       \* no access point, no location
  OfflineAfter,  \* offline_timeout
  Window,        \* EDGE_EVIDENCE_WINDOW
  MaxNow,        \* bound: the last moment
  MaxLag,        \* bound: how old a packet is when it is handled
  MaxRestarts    \* bound: clean restarts

ASSUME CarriedAssumption == IsFiniteSet(Carried)
ASSUME PlacesAssumption ==
  /\ Edges \subseteq APs
  /\ Nowhere \notin APs
  /\ LocationOf \in [APs -> Int]
ASSUME ClockAssumption ==
  /\ OfflineAfter \in Nat \ {0} /\ Window \in Nat
  /\ MaxNow \in Nat /\ MaxLag \in Nat /\ MaxRestarts \in Nat

VARIABLES
  now,
  state,      \* the device table: absent, online (or idle), offline
  heard,      \* Entry.last_seen_at
  ap,         \* Entry.current_ap
  online,     \* DeviceView.online
  place,      \* DeviceView.ap_name, and through the map its location
  active,     \* DeviceView.last_active, -1 for None
  edge,       \* DeviceView.last_edge, -1 for None
  inside,       \* the person's state
  location,   \* the person's current_location
  via,        \* the evidence the last arrival or departure named: a crossing
  crossing,   \* history: the last threshold crossing of each device
  moved,      \* history: the location was derived since the start
  restarts

table == <<state, heard, ap>>
views == <<online, place, active, edge>>
person == <<inside, location, via>>
whereHistory == <<crossing, moved>>
whereVars == <<now, table, views, person, whereHistory, restarts>>

Moments == 0 .. MaxNow
NoTime == -1
NoEvidence == [ap |-> Nowhere, at |-> NoTime]
Crossings == [ap : Edges, at : Moments] \cup {NoEvidence}
Locations == {LocationOf[a] : a \in APs}
Movements == {"arriving", "departing", "roaming", "unknown"}

WhereTypeOK ==
  /\ now \in Moments
  /\ state \in [Carried -> {"absent", "online", "offline"}]
  /\ heard \in [Carried -> Moments \cup {NoTime}]
  /\ ap \in [Carried -> APs \cup {Nowhere}]
  /\ online \in [Carried -> BOOLEAN]
  /\ place \in [Carried -> APs \cup {Nowhere}]
  /\ active \in [Carried -> Moments \cup {NoTime}]
  /\ edge \in [Carried -> Crossings]
  /\ inside \in BOOLEAN
  /\ location \in Locations \cup {Nowhere}
  /\ via \in Crossings
  /\ crossing \in [Carried -> Movements]
  /\ moved \in BOOLEAN
  /\ restarts \in 0 .. MaxRestarts

Each(v) == [m \in Carried |-> v]

WhereInit ==
  /\ now = 0
  /\ state = Each("absent") /\ heard = Each(NoTime) /\ ap = Each(Nowhere)
  /\ online = Each(FALSE) /\ place = Each(Nowhere) /\ active = Each(NoTime)
  /\ edge = Each(NoEvidence)
  /\ inside = FALSE /\ location = Nowhere /\ via = NoEvidence
  /\ crossing = Each("unknown") /\ moved = FALSE
  /\ restarts = 0

Tick ==
  /\ now < MaxNow
  /\ now' = now + 1
  /\ UNCHANGED <<table, views, person, whereHistory, restarts>>

(***************************************************************************)
(* Registry::location_of_person: the location of the online device heard   *)
(* from most recently, among those whose location is known.                *)
(***************************************************************************)
LaterThan(m, d) ==
  \/ active'[m] > active'[d]
  \/ active'[m] = active'[d] /\ LocationOf[place'[m]] >= LocationOf[place'[d]]

\* These look at the views as the current handler leaves them.
PlacedEvenOffline == {m \in Carried : place'[m] # Nowhere}
Placed == {m \in Carried : online'[m] /\ place'[m] # Nowhere}
LocationOfPerson ==
  IF Placed = {} THEN Nowhere
  ELSE LocationOf[place'[CHOOSE m \in Placed : \A d \in Placed : LaterThan(m, d)]]

\* Registry::edge_evidence and edge_evidence_for_person.  Of two crossings at
\* the same moment either may be shown.
Latest(crossings) ==
  IF crossings = {} THEN {NoEvidence}
  ELSE {c \in crossings : \A d \in crossings : c.at >= d.at}
Near(t, at) == t # NoTime /\ t <= at /\ at - t <= Window
EvidenceOf(m, at) == IF Near(edge[m].at, at) THEN {edge[m]} ELSE {NoEvidence}
EvidenceOfAnyTime == Latest({edge[m] : m \in {d \in Carried : edge[d] # NoEvidence}})
EvidenceOfPerson ==
  Latest({edge[m] : m \in {d \in Carried : Near(edge[d].at, active[d])}})

\* Registry::refresh_location
NotRefreshed == UNCHANGED <<location, moved>>
Refreshed ==
  /\ location' = LocationOfPerson
  /\ moved' = TRUE

(***************************************************************************)
(* Manager::observe with Registry::device_seen and device_online: a packet *)
(* sent at the moment at.                                                  *)
(***************************************************************************)
SeenInAnyOrder(m, at) == [active EXCEPT ![m] = at]
Later(m, at) == [heard EXCEPT ![m] = IF at > @ THEN at ELSE @]
Seen(m, at) == [active EXCEPT ![m] = IF at > @ THEN at ELSE @]

Hear(m, at) ==
  /\ state[m] = "online"
  /\ heard' = Later(m, at)
  /\ active' = Seen(m, at)
  /\ UNCHANGED <<now, state, ap, online, place, edge, person, whereHistory, restarts>>

ComeOnline(m, at) ==
  /\ state[m] # "online"
  /\ state' = [state EXCEPT ![m] = "online"]
  /\ heard' = Later(m, at)
  /\ online' = [online EXCEPT ![m] = TRUE]
  /\ active' = [active EXCEPT ![m] = at]
  /\ inside' = TRUE
  /\ via' \in IF inside THEN {via} ELSE EvidenceOf(m, at)
  /\ UNCHANGED <<now, ap, place, edge, crossing, restarts>>
  /\ Refreshed

(***************************************************************************)
(* Manager::sweep with Registry::device_offline for each device, in turn.  *)
(***************************************************************************)
TimedOut(m) == state[m] = "online" /\ now - heard[m] >= OfflineAfter

PlaceKeptAfterSweep(m) == place[m]
PlaceAfterSweep(m) == IF TimedOut(m) THEN Nowhere ELSE place[m]

SweepPlaces ==
  /\ \E m \in Carried : TimedOut(m)
  /\ state' = [m \in Carried |-> IF TimedOut(m) THEN "offline" ELSE state[m]]
  /\ ap' = [m \in Carried |-> IF TimedOut(m) THEN Nowhere ELSE ap[m]]
  /\ online' = [m \in Carried |-> online[m] /\ ~TimedOut(m)]
  /\ place' = [m \in Carried |-> PlaceAfterSweep(m)]
  /\ inside' = (inside /\ \E m \in Carried : online[m] /\ ~TimedOut(m))
  /\ via' \in IF inside /\ ~inside' THEN EvidenceOfPerson ELSE {via}
  /\ UNCHANGED <<now, heard, active, edge, crossing, restarts>>
  /\ IF ~inside THEN NotRefreshed ELSE Refreshed

(***************************************************************************)
(* LocationMap::movement                                                   *)
(***************************************************************************)
MovementMisnamed(from, to) == IF from = Nowhere THEN "unknown" ELSE "leaving"
MovementInside(from, to) ==
  IF from = Nowhere THEN "unknown"
  ELSE IF to \notin Edges THEN "arriving"
  ELSE IF from \in Edges THEN "roaming" ELSE "departing"
Movement(from, to) ==
  IF from = Nowhere THEN "unknown"
  ELSE IF from \in Edges /\ to \notin Edges THEN "arriving"
  ELSE IF from \notin Edges /\ to \in Edges THEN "departing" ELSE "roaming"

(***************************************************************************)
(* apply_enrichments: Manager::set_location and Registry::device_moved.  A *)
(* device may be reported after it went offline.  A report of the access   *)
(* point the table already holds is skipped.                               *)
(***************************************************************************)
Move(m, a) ==
  /\ ap[m] # a
  /\ ap' = [ap EXCEPT ![m] = a]
  /\ place' = [place EXCEPT ![m] = a]
  /\ active' = [active EXCEPT ![m] = now]
  /\ edge' = IF a \in Edges THEN [edge EXCEPT ![m] = [ap |-> a, at |-> now]]
             ELSE edge
  /\ crossing' = IF Movement(ap[m], a) = "roaming" THEN crossing
                 ELSE [crossing EXCEPT ![m] = Movement(ap[m], a)]
  /\ UNCHANGED <<now, state, heard, online, inside, via, restarts>>
  /\ IF inside THEN Refreshed ELSE NotRefreshed

Repeat(m, a) ==
  /\ ap[m] = a
  /\ UNCHANGED <<now, table, views, person, crossing, moved, restarts>>

Enrich(m, a) ==
  /\ state[m] # "absent"
  /\ Move(m, a) \/ Repeat(m, a)

(***************************************************************************)
(* A clean restart: the device table and the person come back from the     *)
(* rows, the views from Registry::restore_device.                          *)
(***************************************************************************)
Restart ==
  /\ restarts < MaxRestarts
  /\ restarts' = restarts + 1
  /\ ap' = [m \in Carried |-> IF state[m] = "offline" THEN Nowhere ELSE ap[m]]
  /\ online' = [m \in Carried |-> state[m] = "online"]
  /\ place' = Each(Nowhere)
  /\ active' = heard
  /\ edge' = Each(NoEvidence)
  /\ crossing' = [m \in Carried |-> IF state[m] = "offline" THEN "unknown"
                                    ELSE crossing[m]]
  /\ moved' = FALSE
  /\ UNCHANGED <<now, state, heard, person>>

Packets == {at \in Moments : now - MaxLag <= at /\ at <= now}

WhereNext ==
  \/ Tick
  \/ \E m \in Carried, at \in Packets : Hear(m, at) \/ ComeOnline(m, at)
  \/ SweepPlaces
  \/ \E m \in Carried, a \in APs : Enrich(m, a)
  \/ Restart

WhereSpec == WhereInit /\ [][WhereNext]_whereVars

(***************************************************************************)
(* Properties.                                                             *)
(***************************************************************************)

\* A person's location is never a place none of their online devices is at,
\* and somebody who is away is nowhere: of all the handlers, those that can
\* change it derive it again.  The one inherited from the row at a start may
\* be out of date until then (people/mod.rs refresh_location and its callers).
SomebodyIsThere ==
  /\ ~inside => location = Nowhere
  /\ moved /\ location # Nowhere =>
       \E m \in Carried : /\ online[m] /\ place[m] # Nowhere
                          /\ location = LocationOf[place[m]]

\* The registry places a device where the device table does, or does not know
\* where it is: no sequence of late answers, departures and restarts leaves it
\* believing in an access point the table has forgotten (device_moved,
\* device_offline, set_location, sweep, restore).
PlacesAgree == \A m \in Carried : place[m] \in {ap[m], Nowhere}

\* A device cannot come in twice without having gone out, nor the other way
\* round, as long as nothing makes it nowhere in between: whatever roaming
\* there is, arriving and departing alternate (LocationMap::movement,
\* Manager::current_ap).
CrossingsAlternate ==
  [][\A m \in Carried : /\ ap[m] # Nowhere /\ ap'[m] \notin {ap[m], Nowhere}
                        /\ Movement(ap[m], ap'[m]) \in {"arriving", "departing"}
                        => crossing[m] # Movement(ap[m], ap'[m])]_whereVars

\* The registry's idea of when a device was last active, which decides whose
\* location a person takes and which crossing is evidence, is never behind the
\* table's last_seen_at, however late the packets are handled (device_seen,
\* device_online, restore_device, observe); unless they are later than a whole
\* offline timeout.
ActivityAgrees == \A m \in Carried : state[m] # "absent" => active[m] >= heard[m]

\* The crossing a departure names was made by a device that fell silent
\* within the window after it ("a departure measures the crossing against the
\* device's own last activity", people/mod.rs:61): not by one that has been
\* heard from the house for hours since.
EvidenceIsFresh ==
  [][inside /\ ~inside' /\ via' # NoEvidence =>
       \E m \in Carried : edge[m] = via' /\ heard[m] - via'.at <= Window]_whereVars

\* Person, registry and device table agree about who is where: the three
\* together.
WhereaboutsAgree == SomebodyIsThere /\ PlacesAgree /\ ActivityAgrees

\* A crossing is one of a pair, and evidence only while it is fresh: the two
\* together.
CrossingsMeanSomething == CrossingsAlternate /\ EvidenceIsFresh
=============================================================================
