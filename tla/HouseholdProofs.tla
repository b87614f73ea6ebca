--------------------------- MODULE HouseholdProofs ---------------------------
(***************************************************************************)
(* Proofs about PeopleRegistry and Whereabouts, for any devices, people,   *)
(* access points, edges, maps and bounds: the types, what the two modules  *)
(* promise in every state, and what a step of theirs may never do.  Each   *)
(* module has an inductive invariant of its own, and the behaviours of     *)
(* MCHousehold, which are those of the one or of the other, keep both.     *)
(***************************************************************************)
EXTENDS MCHousehold, FiniteSetTheorems, TLAPS

-----------------------------------------------------------------------------
(***************************************************************************)
(* PeopleRegistry: the inductive invariant.                                *)
(***************************************************************************)

\* Nothing is in the hands of a handler that is not running, and a reconcile
\* begins when nothing else is left to write.
OneHandler ==
  /\ ~up => updates = {} /\ events = {} /\ ~reconciling
  /\ reconciling => updates = {} /\ events = {}

\* Rows and entries appear, and never go: a device with a row is in the table
\* of a running daemon, and one the table does not have was never seen online
\* or given to anybody.
RowsStay ==
  /\ up => \A m \in Devices : rowDevice[m] # "absent" => device[m] # "absent"
  /\ up => \A m \in Devices : device[m] = "absent" => ~view[m]
  /\ \A m \in Devices : rowDevice[m] = "absent" => rowOwner[m] = Nobody

\* Whoever has no row is not home in one, and the people a running daemon and
\* the database do not agree about are known to be out of step.
RowsAreKnown ==
  /\ \A p \in People \ rowPeople : ~rowHome[p]
  /\ up => people \ rowPeople \subseteq lagging
  /\ up => rowPeople \ people \subseteq drift
  /\ up => ConfigPeople \ rowPeople \subseteq drift \cup lagging

Around(p) == \E m \in OwnedBy(p) : view[m]

\* What the registry decides by: a person is home exactly when it believes a
\* device they own to be online.  This does not depend on what it has missed.
HomeFollowsViews ==
  /\ up => \A p \in people \ drift : home[p] <=> Around(p)
  /\ up => \A p \in events : home[p] <=> Around(p)

\* The last event of ng_events is about where the person is, but for the event
\* that is still to be recorded, which is about the opposite.
LogFollowsHome ==
  up => \A p \in people \ drift :
          p \notin events <=> (home[p] <=> log[p].kind = "person_arrived")

NextOwner(m) == StartOwner(m, rowPeople \cup ConfigPeople, ConfigPeople)

\* What a stopped daemon leaves behind for the next start: the rows by which
\* that start will take a person for home agree with the devices it will give
\* to that person, and with the last event.
RowsAwaitTheStart ==
  ~up => \A p \in (rowPeople \cup ConfigPeople) \ drift :
           /\ rowHome[p] <=> \E m \in Devices : NextOwner(m) = p /\ rowDevice[m] = "online"
           /\ rowHome[p] <=> log[p].kind = "person_arrived"

\* From a start until the first edit or reconcile, the owners are the ones a
\* reconcile will want.
FreshOwners ==
  fresh => /\ reconciling => reading = rowOwner
           /\ \A m \in Devices :
                /\ rowOwner[m] \in people => owner[m] = rowOwner[m]
                /\ rowOwner[m] = Nobody =>
                     owner[m] = IF m \in configured THEN ConfigOwner[m] ELSE Nobody

RegistryInv ==
  /\ TypeOK /\ OneHandler /\ RowsStay /\ RowsAreKnown
  /\ ViewsFollowTheTable /\ HomeFollowsViews /\ RowsFollowTheRegistry
  /\ LogFollowsHome /\ RowsAwaitTheStart /\ FreshOwners

USE DEF Owners, Presence, Kinds, registry, handler, database, history, bounds

\* The three statements of RegistryAgrees follow.
LEMMA InvAgrees == RegistryInv => RegistryAgrees
<1> SUFFICES ASSUME RegistryInv PROVE RegistryAgrees
  OBVIOUS
<1>1. HomeFollowsDevices
  <2> SUFFICES ASSUME up, NEW p \in people \ drift, Heard(p)
               PROVE  home[p] <=> \E m \in OwnedBy(p) : device[m] = "online"
    BY DEF HomeFollowsDevices
  <2>1. p # Nobody
    BY PeopleAssumption DEF RegistryInv, TypeOK
  <2>2. \A m \in OwnedBy(p) : view[m] <=> device[m] = "online"
    BY <2>1 DEF RegistryInv, ViewsFollowTheTable, Heard, OwnedBy
  <2>3. home[p] <=> Around(p)
    BY DEF RegistryInv, HomeFollowsViews
  <2> QED
    BY <2>2, <2>3 DEF Around
<1> QED
  BY <1>1 DEF RegistryInv, RegistryAgrees

\* Before the first start there is nobody, and nothing in the database.
LEMMA RegistryInvInit == Init => RegistryInv
<1> SUFFICES ASSUME Init PROVE RegistryInv
  OBVIOUS
<1>1. TypeOK
  <2>1. log \in [People -> [kind : Kinds \cup {"none"}, odd : BOOLEAN]]
    BY DEF Init
  <2>2. edits \in 0 .. MaxEdits /\ stops \in 0 .. MaxStops /\ failures \in 0 .. MaxFailures
    BY LimitsAssumption DEF Init
  <2>3. /\ owner \in [Devices -> Owners] /\ reading \in [Devices -> Owners]
        /\ rowOwner \in [Devices -> Owners]
        /\ home \in [People -> BOOLEAN] /\ rowHome \in [People -> BOOLEAN]
    BY DEF Init, Unowned, AllAway
  <2> QED
    BY <2>1, <2>2, <2>3 DEF Init, TypeOK
<1>2. OneHandler /\ RowsStay /\ RowsAreKnown
  BY DEF Init, OneHandler, RowsStay, RowsAreKnown, Unowned, AllAway
<1>3. ViewsFollowTheTable /\ HomeFollowsViews /\ RowsFollowTheRegistry /\ LogFollowsHome
  BY DEF Init, ViewsFollowTheTable, HomeFollowsViews, RowsFollowTheRegistry, LogFollowsHome
<1>4. RowsAwaitTheStart
  BY ConfigAssumption DEF Init, RowsAwaitTheStart, ConfigPeople, AllAway
<1>5. FreshOwners
  BY DEF Init, FreshOwners
<1> QED
  BY <1>1, <1>2, <1>3, <1>4, <1>5 DEF RegistryInv

(***************************************************************************)
(* The steps.  First what apply_and_track does to the registry, for the    *)
(* devices that came online and the devices that went offline in one batch *)
(* of which one is empty.                                                  *)
(***************************************************************************)
LEMMA Tracked ==
  ASSUME RegistryInv, Ready, NEW on \in SUBSET Devices, NEW off \in SUBSET Devices,
         on = {} \/ off = {}, Track(on, off),
         device' = [m \in Devices |-> IF m \in on THEN "online"
                                      ELSE IF m \in off THEN "offline" ELSE device[m]],
         UNCHANGED <<up, owner, people, rowHome, rowPeople, log, drift, lagging>>
  PROVE  /\ view' \in [Devices -> BOOLEAN] /\ home' \in [People -> BOOLEAN]
         /\ updates' \subseteq people' /\ events' \subseteq people'
         /\ missed' \subseteq Devices
         /\ up => \A m \in Devices : device'[m] = "absent" => ~view'[m]
         /\ ViewsFollowTheTable' /\ HomeFollowsViews' /\ RowsFollowTheRegistry'
         /\ LogFollowsHome'
<1> DEFINE movers == Arriving(on) \cup Departing(off, View(on, off))
<1>1. /\ view' = View(on, off) /\ updates' = movers /\ events' = movers
      /\ home' = [p \in People |-> /\ home[p] \/ p \in Arriving(on)
                                   /\ p \notin Departing(off, view')]
  BY DEF Track
<1>2. view' \in [Devices -> BOOLEAN] /\ home' \in [People -> BOOLEAN]
  BY <1>1 DEF RegistryInv, TypeOK, View
<1>3. movers \subseteq people /\ missed' \subseteq Devices
  BY DEF RegistryInv, TypeOK, Arriving, Departing, Track
<1>4. up => \A m \in Devices : device'[m] = "absent" => ~view'[m]
  BY <1>1 DEF RegistryInv, TypeOK, RowsStay, View
<1>5. ViewsFollowTheTable'
  BY <1>1 DEF RegistryInv, TypeOK, ViewsFollowTheTable, View, Track
<1>6. ASSUME NEW p \in people
      PROVE  /\ p \in movers => (home'[p] <=> ~home[p]) /\ (home'[p] <=> Around(p)')
             /\ p \notin movers => /\ home'[p] <=> home[p]
                                   /\ (home[p] <=> Around(p)) => (home'[p] <=> Around(p)')
  <2>1. p \in People /\ p # Nobody
    BY PeopleAssumption DEF RegistryInv, TypeOK
  <2>2. ASSUME NEW m \in Devices, owner[m] = p
        PROVE  IsActive /\ view'[m] = ((view[m] \/ m \in on) /\ m \notin off)
    BY <1>1, <2>1, <2>2 DEF View, IsActive, RegistryInv, TypeOK
  <2>3. OwnedBy(p)' = OwnedBy(p)
    BY DEF OwnedBy
  <2>4. Around(p)' <=> \E m \in OwnedBy(p) : (view[m] \/ m \in on) /\ m \notin off
    BY <2>2, <2>3 DEF Around, OwnedBy
  <2>5. AnyOnline(p, View(on, off)) = Around(p)'
    BY <1>1, <2>3 DEF AnyOnline, Around
  <2>6. p \in Arriving(on) <=> ~home[p] /\ \E m \in OwnedBy(p) : m \in on
    BY <2>2 DEF Arriving, OwnedBy
  <2>7. p \in Departing(off, View(on, off))
        <=> home[p] /\ (\E m \in OwnedBy(p) : m \in off) /\ ~Around(p)'
    BY <2>2, <2>5 DEF Departing, OwnedBy
  <2>8. home'[p] <=> (home[p] \/ p \in Arriving(on)) /\ p \notin Departing(off, View(on, off))
    BY <1>1, <2>1
  <2>9. home[p] \in BOOLEAN /\ home'[p] \in BOOLEAN
    BY <1>2, <2>1 DEF RegistryInv, TypeOK
  <2> QED
    BY <2>4, <2>6, <2>7, <2>8, <2>9 DEF Around
<1>7. \A p \in people : p \notin movers => (home'[p] <=> home[p])
  BY <1>6
<1>8. HomeFollowsViews'
  <2>1. \A p \in people \ drift : home[p] <=> Around(p)
    BY DEF RegistryInv, HomeFollowsViews, Ready
  <2>2. ASSUME NEW p \in people \ drift PROVE home'[p] <=> Around(p)'
    <3>1. p \in people /\ (home[p] <=> Around(p))
      BY <2>1
    <3> QED
      BY <3>1, <1>6
  <2>3. \A p \in movers : home'[p] <=> Around(p)'
    BY <1>3, <1>6
  <2> QED
    BY <1>1, <2>2, <2>3 DEF HomeFollowsViews
<1>9. RowsFollowTheRegistry'
  BY <1>1, <1>7 DEF RegistryInv, RowsFollowTheRegistry, Ready
<1>10. LogFollowsHome'
  BY <1>1, <1>3, <1>6 DEF RegistryInv, TypeOK, LogFollowsHome, Ready
<1> QED
  BY <1>1, <1>2, <1>3, <1>4, <1>5, <1>8, <1>9, <1>10

\* A device that comes online.
LEMMA ObserveKeeps ==
  ASSUME RegistryInv, NEW d \in Devices, Observe(d)
  PROVE  RegistryInv'
<1>1. /\ view' \in [Devices -> BOOLEAN] /\ home' \in [People -> BOOLEAN]
      /\ updates' \subseteq people' /\ events' \subseteq people' /\ missed' \subseteq Devices
      /\ up => \A m \in Devices : device'[m] = "absent" => ~view'[m]
      /\ ViewsFollowTheTable' /\ HomeFollowsViews' /\ RowsFollowTheRegistry' /\ LogFollowsHome'
  <2>1. device' = [m \in Devices |-> IF m \in {d} THEN "online"
                                     ELSE IF m \in {} THEN "offline" ELSE device[m]]
    BY DEF Observe, RegistryInv, TypeOK
  <2> QED
    BY <2>1, Tracked DEF Observe
<1>2. TypeOK'
  <2>1. failures' \in 0 .. MaxFailures
    BY LimitsAssumption DEF RegistryInv, TypeOK, Observe
  <2> QED
    BY <1>1, <2>1 DEF RegistryInv, TypeOK, Observe
<1>3. OneHandler' /\ RowsAreKnown' /\ RowsAwaitTheStart' /\ FreshOwners'
  BY DEF RegistryInv, OneHandler, RowsAreKnown, RowsAwaitTheStart, FreshOwners, Observe, Ready,
         ConfigPeople
<1>4. RowsStay'
  BY <1>1 DEF RegistryInv, TypeOK, RowsStay, Observe, Ready
<1> QED
  BY <1>1, <1>2, <1>3, <1>4 DEF RegistryInv

\* Devices that time out.
LEMMA SweepKeeps ==
  ASSUME RegistryInv, NEW off \in SUBSET Devices, Sweep(off)
  PROVE  RegistryInv'
<1>1. /\ view' \in [Devices -> BOOLEAN] /\ home' \in [People -> BOOLEAN]
      /\ updates' \subseteq people' /\ events' \subseteq people' /\ missed' \subseteq Devices
      /\ up => \A m \in Devices : device'[m] = "absent" => ~view'[m]
      /\ ViewsFollowTheTable' /\ HomeFollowsViews' /\ RowsFollowTheRegistry' /\ LogFollowsHome'
  <2>1. device' = [m \in Devices |-> IF m \in {} THEN "online"
                                     ELSE IF m \in off THEN "offline" ELSE device[m]]
    BY DEF Sweep
  <2> QED
    BY <2>1, Tracked DEF Sweep
<1>2. TypeOK'
  BY <1>1 DEF RegistryInv, TypeOK, Sweep
<1>3. OneHandler' /\ RowsAreKnown' /\ RowsAwaitTheStart' /\ FreshOwners'
  BY DEF RegistryInv, OneHandler, RowsAreKnown, RowsAwaitTheStart, FreshOwners, Sweep, Ready,
         ConfigPeople
<1>4. RowsStay'
  BY <1>1 DEF RegistryInv, TypeOK, RowsStay, Sweep, Ready
<1> QED
  BY <1>1, <1>2, <1>3, <1>4 DEF RegistryInv

\* A flush: the rows take the states of the table, which has every one of them.
LEMMA FlushKeeps == ASSUME RegistryInv, Flush PROVE RegistryInv'
<1>1. TypeOK' /\ RowsStay'
  BY DEF RegistryInv, TypeOK, RowsStay, Flush, Ready
<1>2. OneHandler' /\ RowsAreKnown' /\ RowsAwaitTheStart' /\ FreshOwners'
  BY DEF RegistryInv, OneHandler, RowsAreKnown, RowsAwaitTheStart, FreshOwners, Flush, Ready,
         ConfigPeople
<1>3. ViewsFollowTheTable' /\ HomeFollowsViews' /\ RowsFollowTheRegistry' /\ LogFollowsHome'
  BY DEF RegistryInv, ViewsFollowTheTable, HomeFollowsViews, RowsFollowTheRegistry,
         LogFollowsHome, Around, OwnedBy, Flush
<1> QED
  BY <1>1, <1>2, <1>3 DEF RegistryInv

\* A row is written, or left behind.
LEMMA UpdatePersonKeeps ==
  ASSUME RegistryInv, NEW q \in People, UpdatePerson(q)
  PROVE  RegistryInv'
<1>1. TypeOK'
  <2>1. failures' \in 0 .. MaxFailures
    BY LimitsAssumption DEF RegistryInv, TypeOK, UpdatePerson
  <2> QED
    BY <2>1 DEF RegistryInv, TypeOK, UpdatePerson, Written
<1>2. RowsAreKnown'
  <2>1. \A p \in People \ rowPeople' : ~rowHome'[p]
    BY DEF RegistryInv, TypeOK, RowsAreKnown, UpdatePerson
  <2>2. lagging \ rowPeople \subseteq lagging'
    BY DEF UpdatePerson
  <2> QED
    BY <2>1, <2>2 DEF RegistryInv, RowsAreKnown, ConfigPeople, UpdatePerson
<1>3. RowsFollowTheRegistry'
  BY DEF RegistryInv, TypeOK, RowsFollowTheRegistry, UpdatePerson, Written
<1>4. OneHandler' /\ RowsStay' /\ RowsAwaitTheStart' /\ FreshOwners'
  BY DEF RegistryInv, OneHandler, RowsStay, RowsAwaitTheStart, FreshOwners, UpdatePerson
<1>5. ViewsFollowTheTable' /\ HomeFollowsViews' /\ LogFollowsHome'
  BY DEF RegistryInv, ViewsFollowTheTable, HomeFollowsViews, LogFollowsHome, Around, OwnedBy,
         UpdatePerson
<1> QED
  BY <1>1, <1>2, <1>3, <1>4, <1>5 DEF RegistryInv

\* An event is recorded, or lost.
LEMMA RecordEventKeeps ==
  ASSUME RegistryInv, NEW q \in People, RecordEvent(q)
  PROVE  RegistryInv'
<1>1. TypeOK'
  <2>1. failures' \in 0 .. MaxFailures
    BY LimitsAssumption DEF RegistryInv, TypeOK, RecordEvent
  <2>2. [kind |-> EventOf(q), odd |-> ~log[q].odd] \in [kind : Kinds \cup {"none"}, odd : BOOLEAN]
    BY DEF EventOf
  <2>3. log' \in [People -> [kind : Kinds \cup {"none"}, odd : BOOLEAN]]
    BY <2>2 DEF RegistryInv, TypeOK, RecordEvent
  <2> QED
    BY <2>1, <2>3 DEF RegistryInv, TypeOK, RecordEvent
<1>2. RowsAreKnown'
  BY DEF RegistryInv, TypeOK, RowsAreKnown, ConfigPeople, RecordEvent
<1>3. HomeFollowsViews'
  BY DEF RegistryInv, HomeFollowsViews, Around, OwnedBy, RecordEvent
<1>4. LogFollowsHome'
  BY DEF RegistryInv, TypeOK, LogFollowsHome, RecordEvent, EventOf
<1>5. OneHandler' /\ RowsStay' /\ RowsAwaitTheStart' /\ FreshOwners'
  BY DEF RegistryInv, OneHandler, RowsStay, RowsAwaitTheStart, FreshOwners, RecordEvent
<1>6. ViewsFollowTheTable' /\ RowsFollowTheRegistry'
  BY DEF RegistryInv, ViewsFollowTheTable, RowsFollowTheRegistry, RecordEvent
<1> QED
  BY <1>1, <1>2, <1>3, <1>4, <1>5, <1>6 DEF RegistryInv

\* The first half of a reconcile, and its failure.
LEMMA ReadingKeeps == ASSUME RegistryInv, ReadSettings \/ ReadFails PROVE RegistryInv'
<1>1. TypeOK'
  <2>1. failures' \in 0 .. MaxFailures
    BY LimitsAssumption DEF RegistryInv, TypeOK, ReadSettings, ReadFails
  <2>2. reading' \in [Devices -> Owners]
    BY DEF RegistryInv, TypeOK, ReadSettings, ReadFails, Unowned
  <2> QED
    BY <2>1, <2>2 DEF RegistryInv, TypeOK, ReadSettings, ReadFails
<1>2. OneHandler' /\ RowsStay' /\ RowsAreKnown' /\ RowsAwaitTheStart' /\ FreshOwners'
  BY DEF RegistryInv, OneHandler, RowsStay, RowsAreKnown, RowsAwaitTheStart, FreshOwners,
         ConfigPeople, Ready, ReadSettings, ReadFails
<1>3. ViewsFollowTheTable' /\ HomeFollowsViews' /\ RowsFollowTheRegistry' /\ LogFollowsHome'
  BY DEF RegistryInv, ViewsFollowTheTable, HomeFollowsViews, RowsFollowTheRegistry,
         LogFollowsHome, Around, OwnedBy, Ready, ReadSettings, ReadFails
<1> QED
  BY <1>1, <1>2, <1>3 DEF RegistryInv

(***************************************************************************)
(* An edit touches the database only, and whoever it may concern is in     *)
(* drift: of the others it moves no owner, whether the daemon runs or not. *)
(***************************************************************************)
LEMMA AssignKeeps ==
  ASSUME RegistryInv, NEW d \in Devices, NEW q \in Owners, Assign(d, q)
  PROVE  RegistryInv'
<1>1. TypeOK'
  <2>1. edits' \in 0 .. MaxEdits
    BY LimitsAssumption DEF RegistryInv, TypeOK, Assign, Edit
  <2>2. /\ rowOwner \in [Devices -> Owners] /\ drift \subseteq People
        /\ rowOwner' = [rowOwner EXCEPT ![d] = q]
        /\ drift' = drift \cup ({rowOwner[d], q, ConfigOwner[d]} \ {Nobody})
    BY DEF RegistryInv, TypeOK, Assign
  <2>3. rowOwner' \in [Devices -> Owners]
    BY <2>2
  <2>4. {rowOwner[d], q, ConfigOwner[d]} \subseteq People \cup {Nobody}
    BY <2>2, ConfigAssumption DEF Owners
  <2>5. drift' \subseteq People
    BY <2>2, <2>4
  <2> QED
    BY <2>1, <2>3, <2>5 DEF RegistryInv, TypeOK, Assign, Edit
<1>2. RowsStay' /\ RowsAreKnown' /\ OneHandler' /\ FreshOwners'
  BY DEF RegistryInv, TypeOK, RowsStay, RowsAreKnown, OneHandler, FreshOwners, ConfigPeople,
         Assign, Edit
<1>3. ViewsFollowTheTable' /\ HomeFollowsViews' /\ RowsFollowTheRegistry' /\ LogFollowsHome'
  BY DEF RegistryInv, ViewsFollowTheTable, HomeFollowsViews, RowsFollowTheRegistry,
         LogFollowsHome, Around, OwnedBy, Assign, Edit
<1>4. RowsAwaitTheStart'
  <2> SUFFICES ASSUME ~up, NEW p \in (rowPeople \cup ConfigPeople) \ drift'
               PROVE  \A m \in Devices : NextOwner(m)' = p <=> NextOwner(m) = p
    BY DEF RegistryInv, RowsAwaitTheStart, ConfigPeople, Assign, Edit
  <2>1. p # Nobody
    BY PeopleAssumption DEF RegistryInv, TypeOK, ConfigPeople
  <2>2. p \notin {rowOwner[d], q, ConfigOwner[d]}
    BY <2>1 DEF Assign
  <2> QED
    BY <2>1, <2>2 DEF RegistryInv, TypeOK, NextOwner, StartOwner, ConfigPeople, Assign, Edit
<1> QED
  BY <1>1, <1>2, <1>3, <1>4 DEF RegistryInv

\* A person appears in ng_people, or goes.
LEMMA MirrorKeeps ==
  ASSUME RegistryInv, NEW q \in People, Mirror(q) \/ Unmirror(q)
  PROVE  RegistryInv'
<1>1. TypeOK'
  <2>1. edits' \in 0 .. MaxEdits
    BY LimitsAssumption DEF RegistryInv, TypeOK, Mirror, Unmirror, Edit
  <2>2. Touched(q) \subseteq People
    BY ConfigAssumption DEF Touched
  <2> QED
    BY <2>1, <2>2 DEF RegistryInv, TypeOK, Mirror, Unmirror, Edit
<1>2. q \in drift' /\ q \in lagging' /\ Touched(q) \subseteq drift'
  BY PeopleAssumption DEF Mirror, Unmirror, Touched
<1>3. RowsStay' /\ RowsAreKnown' /\ OneHandler' /\ FreshOwners'
  BY <1>2 DEF RegistryInv, TypeOK, RowsStay, RowsAreKnown, OneHandler, FreshOwners,
         ConfigPeople, Mirror, Unmirror, Edit
<1>4. ViewsFollowTheTable' /\ HomeFollowsViews' /\ RowsFollowTheRegistry' /\ LogFollowsHome'
  BY <1>2 DEF RegistryInv, TypeOK, ViewsFollowTheTable, HomeFollowsViews,
         RowsFollowTheRegistry, LogFollowsHome, Around, OwnedBy, Mirror, Unmirror, Edit
<1>5. RowsAwaitTheStart'
  <2> SUFFICES ASSUME ~up, NEW p \in (rowPeople' \cup ConfigPeople) \ drift'
               PROVE  /\ p \in (rowPeople \cup ConfigPeople) \ drift
                      /\ rowHome'[p] = rowHome[p]
                      /\ \A m \in Devices : NextOwner(m)' = p <=> NextOwner(m) = p
    BY DEF RegistryInv, RowsAwaitTheStart, ConfigPeople, Mirror, Unmirror, Edit
  <2>1. p # Nobody /\ p # q /\ p \in People
    BY <1>2, ConfigAssumption, PeopleAssumption
    DEF RegistryInv, TypeOK, ConfigPeople, Mirror, Unmirror
  <2>2. p \in (rowPeople \cup ConfigPeople) \ drift /\ rowHome'[p] = rowHome[p]
    BY <2>1 DEF RegistryInv, TypeOK, Mirror, Unmirror
  <2>3. ASSUME NEW m \in Devices PROVE NextOwner(m)' = p <=> NextOwner(m) = p
    <3>1. rowOwner[m] = q => ConfigOwner[m] # p
      BY <1>2, <2>1 DEF Touched
    <3> QED
      BY <3>1, <2>1 DEF NextOwner, StartOwner, ConfigPeople, Mirror, Unmirror, Edit
  <2> QED
    BY <2>2, <2>3
<1> QED
  BY <1>1, <1>3, <1>4, <1>5 DEF RegistryInv

(***************************************************************************)
(* A reconcile: whoever gets or loses a device or an entry is in drift,    *)
(* and a device somebody gets is looked up in the table.                   *)
(***************************************************************************)
LEMMA ReconcileKeeps == ASSUME RegistryInv, Reconcile PROVE RegistryInv'
<1>1. TypeOK'
  <2>1. \A m \in Devices : Wanted(m) \in Owners
    BY ConfigAssumption DEF RegistryInv, TypeOK, Wanted
  <2>2. drift' \subseteq People
    BY <2>1 DEF RegistryInv, TypeOK, Reconcile, Reassigned
  <2>3. /\ owner' \in [Devices -> Owners] /\ view' \in [Devices -> BOOLEAN]
        /\ home' \in [People -> BOOLEAN]
    BY <2>1 DEF RegistryInv, TypeOK, Reconcile, Kept
  <2> QED
    BY <2>2, <2>3 DEF RegistryInv, TypeOK, OneHandler, Reconcile, Unowned
<1>2. up /\ updates = {} /\ events = {}
  BY DEF RegistryInv, OneHandler, Reconcile
<1>3. ASSUME NEW p \in people' \ drift'
      PROVE  /\ p \in people \ drift /\ home'[p] = home[p]
             /\ \A m \in Devices : owner'[m] = p <=> owner[m] = p
             /\ \A m \in Devices : owner'[m] = p => view'[m] = view[m]
  <2>1. p \in people \ drift /\ p \in rowPeople /\ p \in People /\ p # Nobody
    BY PeopleAssumption DEF RegistryInv, TypeOK, Reconcile
  <2>2. home'[p] = home[p]
    BY <2>1 DEF Reconcile, Kept
  <2>3. ASSUME NEW m \in Reassigned PROVE owner[m] # p /\ Wanted(m) # p
    BY <2>1 DEF Reconcile
  <2> QED
    BY <2>1, <2>2, <2>3 DEF RegistryInv, TypeOK, Reconcile, Seeded
<1>4. HomeFollowsViews' /\ LogFollowsHome'
  <2>1. \A p \in people' \ drift' : Around(p)' <=> Around(p)
    BY <1>3 DEF Around, OwnedBy
  <2>2. UNCHANGED <<up, events, log>>
    BY DEF Reconcile
  <2> QED
    BY <1>2, <1>3, <2>1, <2>2 DEF RegistryInv, HomeFollowsViews, LogFollowsHome
<1>5. ViewsFollowTheTable'
  BY <1>2 DEF RegistryInv, TypeOK, RowsStay, ViewsFollowTheTable, Reconcile, Reassigned, Seeded
<1>6. RowsFollowTheRegistry'
  BY <1>2 DEF RegistryInv, TypeOK, RowsFollowTheRegistry, Reconcile, Kept
<1>7. RowsStay'
  BY <1>2 DEF RegistryInv, TypeOK, RowsStay, Reconcile, Seeded
<1>8. RowsAreKnown' /\ OneHandler' /\ RowsAwaitTheStart' /\ FreshOwners'
  BY <1>2 DEF RegistryInv, TypeOK, RowsAreKnown, OneHandler, RowsAwaitTheStart, FreshOwners,
         ConfigPeople, Reconcile
<1> QED
  BY <1>1, <1>4, <1>5, <1>6, <1>7, <1>8 DEF RegistryInv

(***************************************************************************)
(* The end of the process.  Of whoever the end does not put in drift,      *)
(* everything is written, and the devices are where the next start will    *)
(* find them.                                                              *)
(***************************************************************************)
LEMMA ExitKeeps == ASSUME RegistryInv, Exit PROVE RegistryInv'
<1>1. TypeOK'
  <2>1. stops' \in 0 .. MaxStops
    BY LimitsAssumption DEF RegistryInv, TypeOK, Exit
  <2>2. ASSUME NEW m \in Devices PROVE Unsaved(m) \subseteq Owners
    BY ConfigAssumption DEF RegistryInv, TypeOK, Unsaved, StartOwner, ConfigPeople
  <2>3. drift' \subseteq People
    BY <2>2 DEF RegistryInv, TypeOK, Exit
  <2>4. /\ owner' \in [Devices -> Owners] /\ reading' \in [Devices -> Owners]
        /\ home' \in [People -> BOOLEAN]
    BY DEF Exit, Unowned, AllAway
  <2> QED
    BY <2>1, <2>3, <2>4 DEF RegistryInv, TypeOK, Exit
<1>2. up /\ ~up'
  BY DEF Exit
<1>3. RowsAwaitTheStart'
  <2> SUFFICES ASSUME NEW p \in (rowPeople \cup ConfigPeople) \ drift'
               PROVE  /\ rowHome[p] <=>
                           \E m \in Devices : NextOwner(m) = p /\ rowDevice[m] = "online"
                      /\ rowHome[p] <=> log[p].kind = "person_arrived"
    BY DEF RowsAwaitTheStart, NextOwner, StartOwner, ConfigPeople, Exit
  <2>1. /\ p \in People /\ p # Nobody
        /\ p \notin drift \cup lagging \cup updates \cup events
        /\ \A m \in Devices : p \notin Unsaved(m)
    BY PeopleAssumption, ConfigAssumption DEF RegistryInv, TypeOK, ConfigPeople, Exit
  <2>2. p \in people \cap rowPeople
    BY <1>2, <2>1 DEF RegistryInv, RowsAreKnown
  <2>3. rowHome[p] <=> home[p]
    BY <1>2, <2>1, <2>2 DEF RegistryInv, RowsFollowTheRegistry
  <2>4. ASSUME NEW m \in Devices, owner[m] = p \/ NextOwner(m) = p
        PROVE  owner[m] = NextOwner(m) /\ (view[m] <=> rowDevice[m] = "online")
    <3>1. device[m] = rowDevice[m] /\ m \notin missed /\ NextOwner(m) = owner[m]
      BY <2>1, <2>4 DEF Unsaved, NextOwner
    <3> QED
      BY <1>2, <2>1, <2>4, <3>1 DEF RegistryInv, ViewsFollowTheTable
  <2>5. Around(p) <=> \E m \in Devices : NextOwner(m) = p /\ rowDevice[m] = "online"
    BY <2>4 DEF Around, OwnedBy
  <2> QED
    BY <1>2, <2>1, <2>2, <2>3, <2>5 DEF RegistryInv, HomeFollowsViews, LogFollowsHome
<1>4. RowsStay' /\ RowsAreKnown' /\ OneHandler' /\ FreshOwners'
  BY <1>2 DEF RegistryInv, TypeOK, RowsStay, RowsAreKnown, OneHandler, FreshOwners, Exit
<1>5. ViewsFollowTheTable' /\ HomeFollowsViews' /\ RowsFollowTheRegistry' /\ LogFollowsHome'
  BY <1>2 DEF ViewsFollowTheTable, HomeFollowsViews, RowsFollowTheRegistry, LogFollowsHome, Exit
<1> QED
  BY <1>1, <1>3, <1>4, <1>5 DEF RegistryInv

(***************************************************************************)
(* The next start.  If nothing failed it gives the devices to the people   *)
(* RowsAwaitTheStart speaks of; otherwise everybody is in drift.           *)
(***************************************************************************)
LEMMA StartKeeps ==
  ASSUME RegistryInv, NEW adopted \in SUBSET ConfigPeople, NEW loaded \in BOOLEAN,
         Start(adopted, loaded)
  PROVE  RegistryInv'
<1> DEFINE cost == Cardinality(ConfigPeople \ adopted) + (IF loaded THEN 0 ELSE 1)
           mirrored == IF loaded THEN rowPeople \cup adopted ELSE {}
<1>1. /\ ~up /\ up' /\ updates' = {} /\ events' = {} /\ ~reconciling'
      /\ people' = mirrored /\ people' \subseteq rowPeople' /\ rowPeople' \subseteq People
      /\ ConfigPeople \subseteq People
  BY ConfigAssumption DEF RegistryInv, TypeOK, OneHandler, Start, ConfigPeople
<1>2. cost \in Nat /\ (cost = 0 => adopted = ConfigPeople /\ loaded)
  <2>1. IsFiniteSet(ConfigPeople)
    <3> DEFINE T == {ConfigOwner[m] : m \in Devices}
    <3>1. ConfigOwner \in Surjection(Devices, T)
      BY ConfigAssumption DEF Surjection
    <3>2. IsFiniteSet(T)
      BY <3>1, HouseholdAssumption, FS_Surjection
    <3> QED
      BY <3>2, FS_Difference DEF ConfigPeople
  <2>2. /\ Cardinality(ConfigPeople \ adopted) \in Nat
        /\ Cardinality(ConfigPeople \ adopted) = 0 <=> ConfigPeople \ adopted = {}
    BY <2>1, FS_Difference, FS_CardinalityType, FS_EmptySet
  <2> QED
    BY <2>2
<1>3. failures' \in 0 .. MaxFailures
  BY <1>2, LimitsAssumption DEF RegistryInv, TypeOK, Start
<1>4. TypeOK'
  <2>1. \A m \in Devices : StartOwner(m, mirrored, adopted) \in Owners
    BY ConfigAssumption DEF RegistryInv, TypeOK, StartOwner
  <2>2. /\ owner' \in [Devices -> Owners] /\ home' \in [People -> BOOLEAN]
        /\ view' \in [Devices -> BOOLEAN] /\ configured' \subseteq Devices
    BY <2>1 DEF RegistryInv, TypeOK, Start, Restored
  <2> QED
    BY <1>1, <1>3, <2>2 DEF RegistryInv, TypeOK, OneHandler, Start
<1>5. drift' = People \/ (cost = 0 /\ drift' = drift)
  BY DEF Start
<1>6. RowsStay' /\ ViewsFollowTheTable'
  BY DEF RegistryInv, TypeOK, RowsStay, ViewsFollowTheTable, Start, Restored
<1>7. RowsFollowTheRegistry'
  BY <1>1 DEF RegistryInv, TypeOK, RowsFollowTheRegistry, Start
<1>8. RowsAreKnown'
  BY <1>1, <1>2, <1>5 DEF RegistryInv, TypeOK, RowsAreKnown, Start
<1>9. HomeFollowsViews' /\ LogFollowsHome'
  <2> SUFFICES ASSUME cost = 0, drift' = drift, NEW p \in people' \ drift
               PROVE  (home'[p] <=> Around(p)') /\ (home'[p] <=> log[p].kind = "person_arrived")
    BY <1>1, <1>5 DEF HomeFollowsViews, LogFollowsHome, Start
  <2>1. adopted = ConfigPeople /\ mirrored = rowPeople \cup ConfigPeople
    BY <1>2
  <2>2. home'[p] <=> rowHome[p]
    BY <1>1, <2>1 DEF Start
  <2>3. Around(p)' <=> \E m \in Devices : NextOwner(m) = p /\ rowDevice[m] = "online"
    BY <2>1 DEF Around, OwnedBy, NextOwner, Start, Restored
  <2> QED
    BY <1>1, <2>1, <2>2, <2>3 DEF RegistryInv, RowsAwaitTheStart
<1>10. OneHandler' /\ RowsAwaitTheStart'
  BY <1>1 DEF OneHandler, RowsAwaitTheStart
<1>11. FreshOwners'
  BY <1>1, PeopleAssumption, ConfigAssumption
  DEF RegistryInv, TypeOK, RowsStay, FreshOwners, StartOwner, Start
<1> QED
  BY <1>4, <1>6, <1>7, <1>8, <1>9, <1>10, <1>11 DEF RegistryInv

\* Every step of PeopleRegistry keeps the invariant.
LEMMA RegistryInvKept == RegistryInv /\ [Next]_vars => RegistryInv'
<1> SUFFICES ASSUME RegistryInv, [Next]_vars PROVE RegistryInv'
  OBVIOUS
<1>1. CASE \E m \in Devices : Observe(m)
  BY <1>1, ObserveKeeps
<1>2. CASE \E off \in SUBSET Devices : Sweep(off)
  BY <1>2, SweepKeeps
<1>3. CASE Flush
  BY <1>3, FlushKeeps
<1>4. CASE \E p \in People : UpdatePerson(p) \/ RecordEvent(p)
  BY <1>4, UpdatePersonKeeps, RecordEventKeeps
<1>5. CASE \E m \in Devices, p \in Owners : Assign(m, p)
  BY <1>5, AssignKeeps
<1>6. CASE \E p \in People : Mirror(p) \/ Unmirror(p)
  BY <1>6, MirrorKeeps
<1>7. CASE ReadSettings \/ ReadFails
  BY <1>7, ReadingKeeps
<1>8. CASE Reconcile
  BY <1>8, ReconcileKeeps
<1>9. CASE Exit
  BY <1>9, ExitKeeps
<1>10. CASE \E adopted \in SUBSET ConfigPeople, loaded \in BOOLEAN : Start(adopted, loaded)
  BY <1>10, StartKeeps
<1>11. CASE UNCHANGED vars
  <2>1. TypeOK' /\ OneHandler' /\ RowsStay' /\ RowsAreKnown' /\ RowsAwaitTheStart' /\ FreshOwners'
    BY <1>11 DEF vars, RegistryInv, TypeOK, OneHandler, RowsStay, RowsAreKnown,
       RowsAwaitTheStart, FreshOwners, NextOwner, StartOwner, ConfigPeople
  <2>2. ViewsFollowTheTable' /\ HomeFollowsViews' /\ RowsFollowTheRegistry' /\ LogFollowsHome'
    BY <1>11 DEF vars, RegistryInv, ViewsFollowTheTable, HomeFollowsViews,
       RowsFollowTheRegistry, LogFollowsHome, Around, OwnedBy
  <2> QED
    BY <2>1, <2>2 DEF RegistryInv
<1> QED
  BY <1>1, <1>2, <1>3, <1>4, <1>5, <1>6, <1>7, <1>8, <1>9, <1>10, <1>11 DEF Next

\* Every state has the types, and registry, device table and database agree in
\* it about who is home (people/mod.rs, daemon.rs apply_and_track and
\* reconcile_user_state): for every set of people, every finite set of devices
\* and every number of edits, crashes and failures.
THEOREM RegistryIsSafe == Spec => [](TypeOK /\ RegistryAgrees)
<1>1. RegistryInv => TypeOK /\ RegistryAgrees
  BY InvAgrees DEF RegistryInv
<1> QED
  BY <1>1, RegistryInvInit, RegistryInvKept, PTL DEF Spec

\* An event that is recorded of somebody no edit or fault has touched is of the
\* other kind than their last one, whatever restarts and reconciles there have
\* been in between (daemon.rs record_people, Registry::reconcile, build_registry).
LEMMA RecordedAlternates ==
  ASSUME RegistryInv, [Next]_vars, NEW p \in People \ drift, log'[p] # log[p]
  PROVE  log'[p].kind # log[p].kind
<1>1. log' # log
  OBVIOUS
<1>2. PICK q \in People : RecordEvent(q)
  BY <1>1 DEF Next, vars, Observe, Sweep, Flush, UpdatePerson, Assign, Mirror, Unmirror, Edit,
              ReadSettings, ReadFails, Reconcile, Exit, Start
<1>3. /\ log' = [log EXCEPT ![q] = [kind |-> EventOf(q), odd |-> ~log[q].odd]]
      /\ up /\ q \in events
  BY <1>1, <1>2 DEF RecordEvent
<1>4. p = q /\ log'[p].kind = EventOf(p)
  BY <1>3 DEF RegistryInv, TypeOK
<1>5. p \in people \ drift /\ p \in events
  BY <1>3, <1>4 DEF RegistryInv, TypeOK
<1>6. ~(home[p] <=> log[p].kind = "person_arrived")
  BY <1>3, <1>5 DEF RegistryInv, LogFollowsHome
<1> QED
  BY <1>4, <1>6 DEF EventOf

\* The first reconcile of a start finds every owner it wants in place.
LEMMA FirstReconcileKeeps ==
  ASSUME RegistryInv, [Next]_vars, FirstReconcile,
         NEW m \in Devices, rowOwner[m] \in people \cup {Nobody}
  PROVE  owner'[m] = owner[m] \/ ~up'
<1>1. CASE Reconcile
  <2>1. Wanted(m) = owner[m]
    BY PeopleAssumption DEF RegistryInv, TypeOK, FreshOwners, FirstReconcile, Wanted
  <2> QED
    BY <1>1, <2>1 DEF Reconcile, Reassigned
<1>2. CASE ~Reconcile
  <2>1. ReadFails \/ Exit
    BY <1>2 DEF Next, vars, FirstReconcile, Observe, Sweep, Flush, UpdatePerson, RecordEvent,
                Assign, Mirror, Unmirror, Edit, ReadSettings, Ready, Start, RegistryInv, OneHandler
  <2> QED
    BY <2>1 DEF ReadFails, Exit
<1> QED
  BY <1>1, <1>2

\* Arrivals and departures alternate, and the first reconcile after a start
\* takes no device from its owner: in every behaviour, for every household.
THEOREM RegistryIsSteady == Spec => HouseholdIsSteady
<1>1. RegistryInv /\ [Next]_vars =>
        [\A p \in People \ drift : log'[p] # log[p] => log'[p].kind # log[p].kind]_vars
  BY RecordedAlternates
<1>2. RegistryInv /\ [Next]_vars =>
        [FirstReconcile => \A m \in Devices :
           rowOwner[m] \in people \cup {Nobody} => owner'[m] = owner[m] \/ ~up']_vars
  BY FirstReconcileKeeps
<1> QED
  BY <1>1, <1>2, RegistryInvInit, RegistryInvKept, PTL
  DEF Spec, HouseholdIsSteady, ArrivalsAlternate, FirstReconcileKeepsOwners

-----------------------------------------------------------------------------
(***************************************************************************)
(* Whereabouts.                                                            *)
(***************************************************************************)

\* A finite set that a relation orders totally has an element above all others.
LEMMA HasGreatest ==
  ASSUME NEW S, IsFiniteSet(S), S # {}, NEW R,
         \A x, y \in S : <<x, y>> \in R \/ <<y, x>> \in R,
         \A x, y, z \in S : <<x, y>> \in R /\ <<y, z>> \in R => <<x, z>> \in R
  PROVE  \E m \in S : \A d \in S : <<m, d>> \in R
<1> DEFINE Has(T) == \E m \in T : \A d \in T : <<m, d>> \in R
           Without == {T \in SUBSET S : T # {} /\ ~Has(T)}
<1> SUFFICES ASSUME Without # {} PROVE FALSE
  OBVIOUS
<1>1. IsWellFoundedOn(StrictSubsetOrdering(S), FiniteSubsetsOf(S))
  BY FS_StrictSubsetOrderingWellFounded
<1>2. Without \subseteq FiniteSubsetsOf(S)
  BY FS_Subset DEF FiniteSubsetsOf
<1>3. PICK T \in Without : \A U \in Without : <<U, T>> \notin StrictSubsetOrdering(S)
  <2> HIDE DEF Without
  <2> QED
    BY <1>1, <1>2, WFMin
<1>4. PICK x \in T : TRUE
  BY <1>3
<1> DEFINE U == T \ {x}
<1>5. <<U, T>> \in StrictSubsetOrdering(S)
  BY <1>3, <1>4 DEF StrictSubsetOrdering
<1>6. U = {} \/ Has(U)
  BY <1>3, <1>5
<1>7. Has(T)
  <2>1. CASE U = {}
    BY <2>1, <1>3, <1>4
  <2>2. CASE Has(U)
    <3>1. PICK m \in U : \A d \in U : <<m, d>> \in R
      BY <2>2
    <3> QED
      BY <3>1, <1>3, <1>4
  <2> QED
    BY <2>1, <2>2, <1>6
<1> QED
  BY <1>3, <1>7

\* The views say of every device whether it is online what the table says.
ViewsOfTheTable == \A m \in Carried : online[m] <=> state[m] = "online"

\* Nothing is heard from the future. A device that is in no row was not heard,
\* and one that timed out was not heard for as long: no packet that is less late
\* than that is older than it.
SilentFor ==
  \A m \in Carried : /\ heard[m] <= now
                     /\ state[m] = "absent" => heard[m] = NoTime
                     /\ state[m] = "offline" => now - heard[m] >= OfflineAfter

\* Whoever came in is inside, and whoever went out is at the edge, for as long
\* as it is known where they are.
SideOfTheEdge ==
  \A m \in Carried : ap[m] # Nowhere =>
    /\ crossing[m] = "arriving" => ap[m] \notin Edges
    /\ crossing[m] = "departing" => ap[m] \in Edges

\* The clock says what is late: an assumption on the environment, not on the
\* daemon, which ActivityAgrees and EvidenceIsFresh depend on.
PacketsArriveInTime == MaxLag <= OfflineAfter

WhereInv ==
  /\ WhereTypeOK /\ ViewsOfTheTable /\ SilentFor /\ SideOfTheEdge
  /\ SomebodyIsThere /\ PlacesAgree
  /\ PacketsArriveInTime => ActivityAgrees

\* Before the first packet nothing is anywhere.
LEMMA WhereInvInit == WhereInit => WhereInv
<1> SUFFICES ASSUME WhereInit PROVE WhereInv
  OBVIOUS
<1>1. WhereTypeOK
  <2>1. 0 \in Moments /\ 0 \in 0 .. MaxRestarts
    BY ClockAssumption DEF Moments
  <2>2. NoEvidence \in Crossings
    BY DEF Crossings
  <2> QED
    BY <2>1, <2>2 DEF WhereInit, WhereTypeOK, Each, Movements
<1>2. ViewsOfTheTable /\ SilentFor /\ SideOfTheEdge
  BY DEF WhereInit, ViewsOfTheTable, SilentFor, SideOfTheEdge, Each, NoTime
<1>3. SomebodyIsThere /\ PlacesAgree /\ ActivityAgrees
  BY DEF WhereInit, SomebodyIsThere, PlacesAgree, ActivityAgrees, Each
<1> QED
  BY <1>1, <1>2, <1>3 DEF WhereInv

\* A location derived again is one an online device is at, or nowhere if no
\* online device is anywhere.
LEMMA RefreshedIsThere ==
  ASSUME online' \in [Carried -> BOOLEAN], place' \in [Carried -> APs \cup {Nowhere}],
         active' \in [Carried -> Moments \cup {NoTime}], Refreshed,
         (~inside)' => \A m \in Carried : ~online'[m]
  PROVE  SomebodyIsThere' /\ location' \in Locations \cup {Nowhere}
<1>1. Placed \subseteq Carried /\ \A m \in Placed : place'[m] \in APs /\ online'[m]
  BY DEF Placed
<1>2. CASE Placed = {}
  BY <1>2 DEF Refreshed, LocationOfPerson, SomebodyIsThere
<1>3. CASE Placed # {}
  <2> DEFINE R == {x \in Placed \X Placed : LaterThan(x[1], x[2])}
  <2>1. IsFiniteSet(Placed)
    BY <1>1, CarriedAssumption, FS_Subset
  <2>2. \A m \in Placed : active'[m] \in Int /\ LocationOf[place'[m]] \in Int
    BY <1>1, PlacesAssumption, ClockAssumption DEF Moments, NoTime
  <2>3. \A m, d \in Placed : <<m, d>> \in R <=> LaterThan(m, d)
    OBVIOUS
  <2>4. \A m, d \in Placed : LaterThan(m, d) \/ LaterThan(d, m)
    BY <2>2 DEF LaterThan
  <2>5. \A m, d, e \in Placed : LaterThan(m, d) /\ LaterThan(d, e) => LaterThan(m, e)
    BY <2>2 DEF LaterThan
  <2>6. \E m \in Placed : \A d \in Placed : <<m, d>> \in R
    <3>1. /\ \A m, d \in Placed : <<m, d>> \in R \/ <<d, m>> \in R
          /\ \A m, d, e \in Placed : <<m, d>> \in R /\ <<d, e>> \in R => <<m, e>> \in R
      BY <2>3, <2>4, <2>5
    <3> HIDE DEF R
    <3> QED
      BY <1>3, <2>1, <3>1, HasGreatest
  <2> DEFINE latest == CHOOSE m \in Placed : \A d \in Placed : LaterThan(m, d)
  <2>7. latest \in Placed
    BY <2>3, <2>6
  <2>8. location' = LocationOf[place'[latest]]
    BY <1>3 DEF Refreshed, LocationOfPerson
  <2> HIDE DEF latest
  <2>9. online'[latest] /\ place'[latest] \in APs
    BY <1>1, <2>7
  <2>10. inside' /\ latest \in Carried
    BY <1>1, <2>7, <2>9
  <2> QED
    BY <2>8, <2>9, <2>10, PlacesAssumption DEF SomebodyIsThere, Locations
<1> QED
  BY <1>2, <1>3

\* Time passes: the silent have been silent for longer.
LEMMA TickKeeps == ASSUME WhereInv, Tick PROVE WhereInv'
<1>1. WhereTypeOK'
  <2>1. now' \in Moments
    BY ClockAssumption DEF WhereInv, WhereTypeOK, Moments, Tick
  <2> QED
    BY <2>1 DEF WhereInv, WhereTypeOK, Tick, table, views, person, whereHistory
<1>2. SilentFor'
  <2>1. \A m \in Carried : /\ heard[m] <= now + 1
                           /\ state[m] = "offline" => now + 1 - heard[m] >= OfflineAfter
    BY ClockAssumption DEF WhereInv, WhereTypeOK, SilentFor, Moments, NoTime
  <2>2. now' = now + 1 /\ state' = state /\ heard' = heard
    BY DEF Tick, table
  <2> QED
    BY <2>1, <2>2, ClockAssumption DEF WhereInv, WhereTypeOK, SilentFor, Moments, NoTime
<1>3. ViewsOfTheTable' /\ SideOfTheEdge' /\ SomebodyIsThere' /\ PlacesAgree'
  BY DEF WhereInv, ViewsOfTheTable, SideOfTheEdge, SomebodyIsThere, PlacesAgree, Tick,
         table, views, person, whereHistory
<1>4. PacketsArriveInTime => ActivityAgrees'
  BY DEF WhereInv, ActivityAgrees, Tick, table, views
<1> QED
  BY <1>1, <1>2, <1>3, <1>4 DEF WhereInv, PacketsArriveInTime

\* A packet of a device that is online.
LEMMA HearKeeps ==
  ASSUME WhereInv, NEW d \in Carried, NEW at \in Packets, Hear(d, at)
  PROVE  WhereInv'
<1>1. WhereTypeOK'
  BY DEF WhereInv, WhereTypeOK, Hear, Later, Seen, Packets, person, whereHistory
<1>2. ViewsOfTheTable' /\ SilentFor' /\ SideOfTheEdge' /\ SomebodyIsThere' /\ PlacesAgree'
  BY DEF WhereInv, WhereTypeOK, ViewsOfTheTable, SilentFor, SideOfTheEdge, SomebodyIsThere,
         PlacesAgree, Hear, Later, Packets, person, whereHistory
<1>3. PacketsArriveInTime => ActivityAgrees'
  BY ClockAssumption
  DEF WhereInv, WhereTypeOK, ActivityAgrees, Hear, Later, Seen, Packets, Moments, NoTime
<1> QED
  BY <1>1, <1>2, <1>3 DEF WhereInv, PacketsArriveInTime

\* A packet of one that is not: it cannot be older than what was heard before
\* the timeout.
LEMMA ComeOnlineKeeps ==
  ASSUME WhereInv, NEW d \in Carried, NEW at \in Packets, ComeOnline(d, at)
  PROVE  WhereInv'
<1>1. /\ online' \in [Carried -> BOOLEAN] /\ place' \in [Carried -> APs \cup {Nowhere}]
      /\ active' \in [Carried -> Moments \cup {NoTime}]
  BY DEF WhereInv, WhereTypeOK, ComeOnline, Packets
<1>2. SomebodyIsThere' /\ location' \in Locations \cup {Nowhere}
  BY <1>1, RefreshedIsThere DEF ComeOnline
<1>3. WhereTypeOK'
  <2>1. via' \in Crossings
    BY DEF WhereInv, WhereTypeOK, ComeOnline, EvidenceOf, Crossings
  <2> QED
    BY <1>1, <1>2, <2>1 DEF WhereInv, WhereTypeOK, ComeOnline, Later, Packets, Refreshed
<1>4. ViewsOfTheTable' /\ SilentFor' /\ SideOfTheEdge' /\ PlacesAgree'
  BY DEF WhereInv, WhereTypeOK, ViewsOfTheTable, SilentFor, SideOfTheEdge, PlacesAgree,
         ComeOnline, Later, Packets
<1>5. PacketsArriveInTime => ActivityAgrees'
  <2> SUFFICES ASSUME PacketsArriveInTime PROVE active'[d] >= heard'[d]
    BY DEF WhereInv, WhereTypeOK, ActivityAgrees, ComeOnline, Later
  <2>1. heard[d] <= at
    BY ClockAssumption DEF WhereInv, WhereTypeOK, SilentFor, PacketsArriveInTime, ComeOnline,
       Packets, Moments, NoTime
  <2> QED
    BY <2>1, ClockAssumption DEF WhereInv, WhereTypeOK, ComeOnline, Later, Packets, Moments
<1> QED
  BY <1>2, <1>3, <1>4, <1>5 DEF WhereInv, PacketsArriveInTime

\* What a departure names, if it names anything, is a crossing of a device
\* that was active within the window after it.
LEMMA EvidenceIsACrossing ==
  ASSUME WhereTypeOK, NEW c \in EvidenceOfPerson
  PROVE  /\ c \in Crossings
         /\ c # NoEvidence => \E m \in Carried : c = edge[m] /\ Near(edge[m].at, active[m])
<1>1. c = NoEvidence \/ \E m \in Carried : c = edge[m] /\ Near(edge[m].at, active[m])
  BY DEF EvidenceOfPerson, Latest
<1> QED
  BY <1>1 DEF WhereTypeOK, Crossings

\* A sweep, with the departure it may be.
LEMMA SweepPlacesKeeps == ASSUME WhereInv, SweepPlaces PROVE WhereInv'
<1>1. /\ online' \in [Carried -> BOOLEAN] /\ place' \in [Carried -> APs \cup {Nowhere}]
      /\ active' \in [Carried -> Moments \cup {NoTime}]
  BY DEF WhereInv, WhereTypeOK, SweepPlaces, PlaceAfterSweep
<1>2. SomebodyIsThere' /\ location' \in Locations \cup {Nowhere} /\ moved' \in BOOLEAN
  <2>1. CASE inside
    <3>1. (~inside)' => \A m \in Carried : ~online'[m]
      BY <2>1 DEF SweepPlaces
    <3> QED
      BY <2>1, <3>1, <1>1, RefreshedIsThere DEF SweepPlaces, Refreshed
  <2>2. CASE ~inside
    BY <2>2 DEF WhereInv, WhereTypeOK, SomebodyIsThere, SweepPlaces, NotRefreshed
  <2> QED
    BY <2>1, <2>2
<1>3. WhereTypeOK'
  <2>1. via' \in Crossings
    BY EvidenceIsACrossing DEF WhereInv, WhereTypeOK, SweepPlaces
  <2> QED
    BY <1>1, <1>2, <2>1 DEF WhereInv, WhereTypeOK, SweepPlaces
<1>4. ViewsOfTheTable' /\ SilentFor' /\ SideOfTheEdge' /\ PlacesAgree'
  BY DEF WhereInv, WhereTypeOK, ViewsOfTheTable, SilentFor, SideOfTheEdge, PlacesAgree,
         SweepPlaces, PlaceAfterSweep, TimedOut
<1>5. PacketsArriveInTime => ActivityAgrees'
  BY DEF WhereInv, WhereTypeOK, ActivityAgrees, SweepPlaces, TimedOut
<1> QED
  BY <1>2, <1>3, <1>4, <1>5 DEF WhereInv, PacketsArriveInTime

\* An answer of an enricher: a move, or a repetition.
LEMMA EnrichKeeps ==
  ASSUME WhereInv, NEW d \in Carried, NEW a \in APs, Enrich(d, a)
  PROVE  WhereInv'
<1>1. CASE Repeat(d, a)
  <2>1. UNCHANGED <<now, table, views, person, crossing, moved, restarts>>
    BY <1>1 DEF Repeat
  <2>2. WhereTypeOK' /\ ViewsOfTheTable' /\ SilentFor' /\ SideOfTheEdge'
    BY <2>1 DEF WhereInv, WhereTypeOK, ViewsOfTheTable, SilentFor, SideOfTheEdge, table, views,
       person
  <2>3. SomebodyIsThere' /\ PlacesAgree' /\ (ActivityAgrees => ActivityAgrees')
    BY <2>1 DEF WhereInv, SomebodyIsThere, PlacesAgree, ActivityAgrees, table, views, person
  <2> QED
    BY <2>2, <2>3 DEF WhereInv, PacketsArriveInTime
<1>2. CASE Move(d, a)
  <2>1. /\ online' \in [Carried -> BOOLEAN] /\ place' \in [Carried -> APs \cup {Nowhere}]
        /\ active' \in [Carried -> Moments \cup {NoTime}]
    BY <1>2 DEF WhereInv, WhereTypeOK, Move
  <2>2. SomebodyIsThere' /\ location' \in Locations \cup {Nowhere} /\ moved' \in BOOLEAN
    <3>1. CASE inside
      <4>1. inside'
        BY <1>2, <3>1 DEF Move
      <4> QED
        BY <1>2, <2>1, <3>1, <4>1, RefreshedIsThere DEF Move, Refreshed
    <3>2. CASE ~inside
      BY <1>2, <3>2 DEF WhereInv, WhereTypeOK, SomebodyIsThere, Move, NotRefreshed
    <3> QED
      BY <3>1, <3>2
  <2>3. WhereTypeOK'
    <3>1. edge' \in [Carried -> Crossings]
      BY <1>2 DEF WhereInv, WhereTypeOK, Move, Crossings
    <3>2. crossing' \in [Carried -> Movements]
      BY <1>2 DEF WhereInv, WhereTypeOK, Move, Movement, Movements
    <3> QED
      BY <1>2, <2>1, <2>2, <3>1, <3>2 DEF WhereInv, WhereTypeOK, Move
  <2>4. SideOfTheEdge'
    BY <1>2, PlacesAssumption DEF WhereInv, WhereTypeOK, SideOfTheEdge, Move, Movement
  <2>5. ViewsOfTheTable' /\ SilentFor' /\ PlacesAgree'
    BY <1>2 DEF WhereInv, WhereTypeOK, ViewsOfTheTable, SilentFor, PlacesAgree, Move
  <2>6. PacketsArriveInTime => ActivityAgrees'
    BY <1>2, ClockAssumption
    DEF WhereInv, WhereTypeOK, SilentFor, ActivityAgrees, Move, Moments, NoTime
  <2> QED
    BY <2>2, <2>3, <2>4, <2>5, <2>6 DEF WhereInv, PacketsArriveInTime
<1> QED
  BY <1>1, <1>2 DEF Enrich

\* A restart: the places are forgotten, and what the table keeps is kept.
LEMMA RestartKeeps == ASSUME WhereInv, Restart PROVE WhereInv'
<1>1. WhereTypeOK'
  <2>1. restarts' \in 0 .. MaxRestarts
    BY ClockAssumption DEF WhereInv, WhereTypeOK, Restart
  <2>2. NoEvidence \in Crossings
    BY DEF Crossings
  <2>3. edge' \in [Carried -> Crossings] /\ place' \in [Carried -> APs \cup {Nowhere}]
    BY <2>2 DEF Restart, Each
  <2>4. /\ ap' \in [Carried -> APs \cup {Nowhere}] /\ online' \in [Carried -> BOOLEAN]
        /\ crossing' \in [Carried -> Movements]
    BY DEF WhereInv, WhereTypeOK, Restart, Movements
  <2> QED
    BY <2>1, <2>3, <2>4 DEF WhereInv, WhereTypeOK, Restart, person
<1>2. ViewsOfTheTable' /\ SilentFor' /\ SideOfTheEdge' /\ SomebodyIsThere' /\ PlacesAgree'
  BY DEF WhereInv, WhereTypeOK, ViewsOfTheTable, SilentFor, SideOfTheEdge, SomebodyIsThere,
         PlacesAgree, Restart, Each, person
<1>3. ActivityAgrees'
  BY ClockAssumption DEF WhereInv, WhereTypeOK, ActivityAgrees, Restart, Moments, NoTime
<1> QED
  BY <1>1, <1>2, <1>3 DEF WhereInv

\* Every step of Whereabouts keeps the invariant.
LEMMA WhereInvKept == WhereInv /\ [WhereNext]_whereVars => WhereInv'
<1> SUFFICES ASSUME WhereInv, [WhereNext]_whereVars PROVE WhereInv'
  OBVIOUS
<1>1. CASE Tick
  BY <1>1, TickKeeps
<1>2. CASE \E m \in Carried, at \in Packets : Hear(m, at) \/ ComeOnline(m, at)
  BY <1>2, HearKeeps, ComeOnlineKeeps
<1>3. CASE SweepPlaces
  BY <1>3, SweepPlacesKeeps
<1>4. CASE \E m \in Carried, a \in APs : Enrich(m, a)
  BY <1>4, EnrichKeeps
<1>5. CASE Restart
  BY <1>5, RestartKeeps
<1>6. CASE UNCHANGED whereVars
  <2>1. WhereTypeOK' /\ ViewsOfTheTable' /\ SilentFor' /\ SideOfTheEdge'
    BY <1>6 DEF WhereInv, WhereTypeOK, ViewsOfTheTable, SilentFor, SideOfTheEdge, whereVars,
       table, views, person, whereHistory
  <2>2. SomebodyIsThere' /\ PlacesAgree' /\ (ActivityAgrees => ActivityAgrees')
    BY <1>6 DEF WhereInv, SomebodyIsThere, PlacesAgree, ActivityAgrees, whereVars, table,
       views, person, whereHistory
  <2> QED
    BY <2>1, <2>2 DEF WhereInv, PacketsArriveInTime
<1> QED
  BY <1>1, <1>2, <1>3, <1>4, <1>5, <1>6 DEF WhereNext

\* Every state has the types, a person is never placed where none of their
\* online devices is, and the registry never places a device where the table
\* does not: however late the packets are.
THEOREM PlacesAreSafe == WhereSpec => [](WhereTypeOK /\ SomebodyIsThere /\ PlacesAgree)
<1>1. WhereInv => WhereTypeOK /\ SomebodyIsThere /\ PlacesAgree
  BY DEF WhereInv
<1> QED
  BY <1>1, WhereInvInit, WhereInvKept, PTL DEF WhereSpec

\* Person, registry and device table agree about who is where, the times of the
\* last activity included, unless a packet is handled more than a whole offline
\* timeout after it was sent.
THEOREM WhereaboutsAreSafe ==
  ASSUME PacketsArriveInTime
  PROVE  WhereSpec => []WhereaboutsAgree
<1>1. WhereInv => WhereaboutsAgree
  BY DEF WhereInv, WhereaboutsAgree
<1> QED
  BY <1>1, WhereInvInit, WhereInvKept, PTL DEF WhereSpec

\* Arriving and departing alternate, and the crossing a departure names is fresh:
\* for every map, every set of edges and every schedule of the enrichers.
THEOREM CrossingsAreSound ==
  ASSUME PacketsArriveInTime
  PROVE  WhereSpec => CrossingsMeanSomething
<1>1. ASSUME WhereInv, [WhereNext]_whereVars, NEW m \in Carried,
             ap[m] # Nowhere, ap'[m] \notin {ap[m], Nowhere},
             Movement(ap[m], ap'[m]) \in {"arriving", "departing"}
      PROVE  crossing[m] # Movement(ap[m], ap'[m])
  BY <1>1 DEF WhereInv, SideOfTheEdge, Movement
<1>2. ASSUME WhereInv, [WhereNext]_whereVars, inside, ~inside', via' # NoEvidence
      PROVE  \E m \in Carried : edge[m] = via' /\ heard[m] - via'.at <= Window
  <2>1. SweepPlaces
    BY <1>2 DEF WhereNext, whereVars, person, Tick, Hear, ComeOnline, Enrich, Move, Repeat, Restart
  <2>2. PICK m \in Carried : via' = edge[m] /\ Near(edge[m].at, active[m])
    BY <1>2, <2>1, EvidenceIsACrossing DEF WhereInv, SweepPlaces
  <2>3. /\ edge[m].at \in Moments /\ active[m] \in Moments \cup {NoTime}
        /\ heard[m] \in Moments \cup {NoTime}
    BY <1>2, <2>2 DEF WhereInv, WhereTypeOK, Crossings
  <2>4. heard[m] <= active[m] \/ heard[m] = NoTime
    BY <1>2 DEF WhereInv, ActivityAgrees, SilentFor
  <2> QED
    BY <2>2, <2>3, <2>4, ClockAssumption DEF Near, Moments, NoTime
<1>3. WhereInv /\ [WhereNext]_whereVars =>
        [\A m \in Carried : /\ ap[m] # Nowhere /\ ap'[m] \notin {ap[m], Nowhere}
                            /\ Movement(ap[m], ap'[m]) \in {"arriving", "departing"}
                            => crossing[m] # Movement(ap[m], ap'[m])]_whereVars
  BY <1>1
<1>4. WhereInv /\ [WhereNext]_whereVars =>
        [inside /\ ~inside' /\ via' # NoEvidence =>
           \E m \in Carried : edge[m] = via' /\ heard[m] - via'.at <= Window]_whereVars
  BY <1>2
<1> QED
  BY <1>3, <1>4, WhereInvInit, WhereInvKept, PTL
  DEF WhereSpec, CrossingsMeanSomething, CrossingsAlternate, EvidenceIsFresh

-----------------------------------------------------------------------------
\* The types of both, in every behaviour of either.
THEOREM HouseholdTypes == HouseholdSpec => []HouseholdTypesHold
<1> DEFINE Both == RegistryInv /\ WhereInv
<1>1. HouseholdInit => Both
  BY RegistryInvInit, WhereInvInit DEF HouseholdInit
<1>2. Both /\ [HouseholdNext]_householdVars => Both'
  <2>1. [HouseholdNext]_householdVars => [Next]_vars /\ [WhereNext]_whereVars
    BY DEF HouseholdNext, householdVars
  <2> QED
    BY <2>1, RegistryInvKept, WhereInvKept
<1>3. Both => HouseholdTypesHold
  BY DEF RegistryInv, WhereInv, HouseholdTypesHold
<1> QED
  BY <1>1, <1>2, <1>3, PTL DEF HouseholdSpec

=============================================================================
