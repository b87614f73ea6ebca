--------------------------- MODULE ServicesProofs ---------------------------
(***************************************************************************)
(* Proofs about ControllerPoll and SchemaStartup, for any clients and      *)
(* access points, any number of processes that migrate and that read, and  *)
(* any bounds.                                                             *)
(***************************************************************************)
EXTENDS MCServices, TLAPS

-----------------------------------------------------------------------------
(***************************************************************************)
(* ControllerPoll.                                                         *)
(***************************************************************************)

\* A refusal ends the poll, so while one is under way there was none in it.
RefusalEndsThePoll == refusals \in 0 .. 1 /\ (pc # "idle" => refusals = 0)

Associations == [Clients -> AccessPoints \cup {Nowhere}]

ControllerInv == ControllerTypeOK /\ at \in Associations /\ RefusalEndsThePoll

\* What a poll reports of the clients are places, whether it can name them or not.
LEMMA ReportPlaces ==
  ASSUME ControllerInv, NEW answer \in Associations, NEW called \in {"name", "mac"},
         Report(answer, called)
  PROVE  /\ placed' \in [Clients -> Positions \cup {Nowhere}]
         /\ pc' = "idle" /\ lastPoll' = "found"
<1>1. \A m \in Clients : answer[m] # Nowhere =>
        [ap |-> answer[m], called |-> called] \in Positions
  BY DEF Associations, Positions
<1> QED
  BY <1>1 DEF Report, ControllerInv, ControllerTypeOK

\* However a poll that cannot be answered ends, it ends.
LEMMA GiveUpEnds ==
  ASSUME ControllerInv, GiveUp
  PROVE  /\ placed' \in [Clients -> Positions \cup {Nowhere}]
         /\ pc' = "idle" /\ lastPoll' \in {"found", "failed"}
         /\ UNCHANGED pollVars
<1>1. clients \in Associations
  BY DEF ControllerInv, ControllerTypeOK, Associations
<1>2. CASE path = "sta"
  BY <1>2 DEF GiveUp, PollFails, ControllerInv, ControllerTypeOK
<1>3. CASE path # "sta"
  BY <1>1, <1>3, ReportPlaces DEF GiveUp
<1> QED
  BY <1>2, <1>3

\* Requests that log in: only these count refusals.
LEMMA LoginKeeps ==
  ASSUME ControllerInv, NEW here \in Steps \ {"idle"}, NEW kind \in Shapes,
         NEW next \in Steps \cup {"none"}, Login(here, kind, next)
  PROVE  ControllerInv'
<1>1. PICK answer \in LoginAnswer(kind) :
        IF answer = "ok"
        THEN Settled(kind) /\ valid' = TRUE /\ UNCHANGED <<refusals, pollVars, resultVars>>
        ELSE /\ refusals' = IF answer = "denied" THEN refusals + 1 ELSE refusals
             /\ IF answer = "denied" \/ next = "none" THEN GiveUp
                ELSE pc' = next /\ UNCHANGED <<pollVars, resultVars>>
             /\ UNCHANGED <<valid, sessionVars>>
  BY DEF Login
<1>2. refusals = 0 /\ UNCHANGED <<auth, shape, at>>
  BY DEF Login, ControllerInv, RefusalEndsThePoll
<1>3. CASE answer = "ok"
  BY <1>1, <1>2, <1>3 DEF Settled, ControllerInv, ControllerTypeOK, RefusalEndsThePoll, Steps,
     pollVars, resultVars
<1>4. CASE answer # "ok" /\ (answer = "denied" \/ next = "none")
  BY <1>1, <1>2, <1>4, GiveUpEnds DEF ControllerInv, ControllerTypeOK, RefusalEndsThePoll, Steps,
     pollVars, sessionVars
<1>5. CASE answer # "ok" /\ answer # "denied" /\ next # "none"
  BY <1>1, <1>2, <1>5 DEF ControllerInv, ControllerTypeOK, RefusalEndsThePoll, Steps, pollVars,
     resultVars, sessionVars
<1> QED
  BY <1>3, <1>4, <1>5

\* Requests that look for the API.
LEMMA ProbeKeeps ==
  ASSUME ControllerInv, NEW here \in Steps \ {"idle"}, NEW kind \in Shapes,
         NEW next \in Steps \cup {"none"}, Probe(here, kind, next)
  PROVE  ControllerInv'
<1>1. refusals = 0 /\ refusals' = 0 /\ UNCHANGED <<auth, shape, at>>
  BY DEF Probe, outsideVars, ControllerInv, RefusalEndsThePoll
<1>2. \/ Settled(kind) /\ UNCHANGED <<pollVars, resultVars>>
      \/ GiveUp /\ UNCHANGED sessionVars
      \/ next # "none" /\ pc' = next /\ UNCHANGED <<pollVars, resultVars, sessionVars>>
  BY DEF Probe
<1>3. CASE Settled(kind) /\ UNCHANGED <<pollVars, resultVars>>
  BY <1>1, <1>3 DEF Settled, ControllerInv, ControllerTypeOK, RefusalEndsThePoll, Steps, pollVars,
     resultVars
<1>4. CASE GiveUp /\ UNCHANGED sessionVars
  BY <1>1, <1>4, GiveUpEnds DEF ControllerInv, ControllerTypeOK, RefusalEndsThePoll, Steps,
     pollVars, sessionVars
<1>5. CASE next # "none" /\ pc' = next /\ UNCHANGED <<pollVars, resultVars, sessionVars>>
  BY <1>1, <1>5 DEF ControllerInv, ControllerTypeOK, RefusalEndsThePoll, Steps, pollVars,
     resultVars, sessionVars
<1> QED
  BY <1>2, <1>3, <1>4, <1>5

\* The two questions.
LEMMA GetKeeps == ASSUME ControllerInv, Get PROVE ControllerInv'
<1>1. refusals = 0 /\ refusals' = 0 /\ UNCHANGED <<auth, shape, at>>
  BY DEF Get, outsideVars, ControllerInv, RefusalEndsThePoll
<1>2. clients \in Associations /\ at \in Associations
  BY DEF ControllerInv, ControllerTypeOK, Associations
<1>3. PICK answer \in ApiAnswer(prefix) :
       \/ /\ answer = "ok" /\ path = "sta"
          /\ clients' = at
          /\ IF \E m \in Clients : at[m] # Nowhere
             THEN /\ path' = "device" /\ attempt' = 0 /\ EnsureSession(loggedIn)
                  /\ UNCHANGED resultVars
             ELSE Report(at, "name") /\ UNCHANGED <<path, attempt>>
          /\ UNCHANGED <<sessionVars, known>>
       \/ /\ answer = "ok" /\ path = "device"
          /\ Report(clients, "name") /\ UNCHANGED <<sessionVars, pollVars>>
       \/ /\ answer = "denied" /\ attempt = 0
          /\ attempt' = 1 /\ loggedIn' = FALSE /\ EnsureSession(FALSE)
          /\ UNCHANGED <<prefix, path, clients, known, resultVars>>
       \/ /\ answer = "other" \/ (answer = "denied" /\ attempt = 1)
          /\ GiveUp /\ UNCHANGED sessionVars
  BY DEF Get
<1>4. CASE clients' = at /\ path' = "device" /\ attempt' = 0 /\ EnsureSession(loggedIn)
           /\ UNCHANGED <<resultVars, sessionVars>>
  BY <1>1, <1>2, <1>4 DEF EnsureSession, ControllerInv, ControllerTypeOK, RefusalEndsThePoll,
     Steps, Associations, resultVars, sessionVars
<1>5. CASE clients' = at /\ Report(at, "name") /\ UNCHANGED <<path, attempt, sessionVars>>
  BY <1>1, <1>2, <1>5, ReportPlaces DEF ControllerInv, ControllerTypeOK, RefusalEndsThePoll,
     Steps, Associations, sessionVars
<1>6. CASE Report(clients, "name") /\ UNCHANGED <<sessionVars, pollVars>>
  BY <1>1, <1>2, <1>6, ReportPlaces DEF ControllerInv, ControllerTypeOK, RefusalEndsThePoll,
     Steps, sessionVars, pollVars
<1>7. CASE attempt' = 1 /\ EnsureSession(FALSE) /\ UNCHANGED <<prefix, path, clients, resultVars>>
  BY <1>1, <1>7 DEF EnsureSession, ControllerInv, ControllerTypeOK, RefusalEndsThePoll, Steps,
     resultVars
<1>8. CASE GiveUp /\ UNCHANGED sessionVars
  BY <1>1, <1>8, GiveUpEnds DEF ControllerInv, ControllerTypeOK, RefusalEndsThePoll, Steps,
     pollVars, sessionVars
<1> QED
  BY <1>3, <1>4, <1>5, <1>6, <1>7, <1>8

LEMMA ControllerInvKept == ControllerInv /\ [ControllerNext]_controllerVars => ControllerInv'
<1> SUFFICES ASSUME ControllerInv, [ControllerNext]_controllerVars PROVE ControllerInv'
  OBVIOUS
<1> USE DEF outsideVars, sessionVars, pollVars, resultVars
<1>1. CASE Trouble \/ Settle
  BY <1>1 DEF Trouble, Settle, Shapes, ControllerInv, ControllerTypeOK, RefusalEndsThePoll
<1>2. CASE \E m \in Clients : \E ap \in AccessPoints : Roam(m, ap)
  BY <1>2 DEF Roam, ControllerInv, ControllerTypeOK, RefusalEndsThePoll, Associations
<1>3. CASE StartPoll
  BY <1>3 DEF StartPoll, EnsureSession, Steps, ControllerInv, ControllerTypeOK, RefusalEndsThePoll
<1>4. CASE Request
  <2>1. {"login_os", "login_classic", "probe_classic", "probe_os"} \subseteq Steps \ {"idle"}
    BY DEF Steps
  <2> QED
    BY <1>4, <2>1, LoginKeeps, ProbeKeeps, GetKeeps DEF Request, Shapes
<1>5. CASE ComeDue
  BY <1>5 DEF ComeDue, ControllerInv, ControllerTypeOK, RefusalEndsThePoll
<1>6. CASE \E m \in Clients : SeeDevice(m)
  BY <1>6 DEF SeeDevice, ControllerInv, ControllerTypeOK, RefusalEndsThePoll
<1>7. CASE UNCHANGED controllerVars
  BY <1>7 DEF controllerVars, ControllerInv, ControllerTypeOK, RefusalEndsThePoll
<1> QED
  BY <1>1, <1>2, <1>3, <1>4, <1>5, <1>6, <1>7 DEF ControllerNext

LEMMA ControllerInvInit == ControllerInit => ControllerInv
BY DEF ControllerInit, ControllerInv, ControllerTypeOK, RefusalEndsThePoll, Associations, Shapes,
   Steps

\* The types hold, and in no poll is the account refused twice: a wrong password
\* is tried once, whatever the controller does between two requests (unifi.rs
\* get, login).
THEOREM ControllerIsSafe == ControllerSpec => [](ControllerTypeOK /\ OneRefusalPerPoll)
<1>1. ControllerInv => ControllerTypeOK /\ OneRefusalPerPoll
  BY DEF ControllerInv, RefusalEndsThePoll, OneRefusalPerPoll
<1> QED
  BY <1>1, ControllerInvInit, ControllerInvKept, PTL DEF ControllerSpec

-----------------------------------------------------------------------------
(***************************************************************************)
(* SchemaStartup.                                                          *)
(***************************************************************************)

Versions == {1, 2, 3}
All == {"devices", "signals", "people"}

\* The tables, the migrations and their versions, as sets.
LEMMA Layout ==
  /\ DOMAIN Expected = All /\ embedded_max_version = 3 /\ 1 .. embedded_max_version = Versions
  /\ Expected["devices"] = {"id", "ipv6", "owner"}
  /\ Expected["signals"] = {"id"} /\ Expected["people"] = {"id"}
  /\ Migrations[1].creates = {"devices", "signals"} /\ Migrations[1].adds = {}
  /\ Migrations[2].creates = {} /\ Migrations[2].adds = {"ipv6"}
  /\ Migrations[3].creates = {"people"} /\ Migrations[3].adds = {"owner"}
BY DEF Expected, Migrations, embedded_max_version, All, Versions

StarterRecords ==
  [pc : {"down", "guard", "guard_history", "runner", "apply", "preflight", "up"},
   pending : SUBSET Versions, left : SUBSET All, faults : SUBSET All,
   outcome : {"none", "reconcile", "raw", "diverged", "failed"}, raced : BOOLEAN]
ReaderRecords ==
  [pc : {"idle", "guard", "tables", "done"}, left : SUBSET All, faults : SUBSET All,
   verdict : {"none", "behind", "reconcile", "no_schema", "reads", "diverged"}]

Complete == recorded = Versions

\* The migrations are recorded in their order, and what is recorded stands in
\* the database: the tables of V1 until it is applied are nobody's but the
\* plugin's, and no later column or table is there before its migration, unless
\* the plugin made the table.
HistoryIsTrue ==
  /\ recorded \in {NoTable, {}, {1}, {1, 2}, Versions}
  /\ 1 \in recorded => {"devices", "signals"} \subseteq DOMAIN database
  /\ 1 \in recorded => "devices" \notin DOMAIN foreign
  /\ "signals" \in DOMAIN database => 1 \in recorded
  /\ 1 \in recorded /\ 2 \notin recorded => "ipv6" \notin DOMAIN database["devices"]
  /\ 1 \in recorded /\ 3 \notin recorded => "owner" \notin DOMAIN database["devices"]
  /\ "people" \in DOMAIN database /\ 3 \notin recorded => "people" \in DOMAIN foreign

\* What a starter has gone past: while it runs it has refused nothing, what it
\* does not hold pending is recorded, it checks and serves nothing but a complete
\* history, and the tables it has checked and not found fault with are as expected.
StarterIsRight(p) ==
  LET s == starter[p] IN
    /\ s.pc # "down" => s.outcome = "none"
    /\ s.pc = "apply" => recorded # NoTable /\ Versions \ s.pending \subseteq recorded
    /\ s.pc \in {"preflight", "up"} => Complete
    /\ s.pc = "preflight" => \A t \in All \ (s.left \cup s.faults) : ~Diverges(t)
    /\ s.pc = "up" => \A t \in All : ~Diverges(t)

\* What a starter that met nobody knows: the guard has let it pass for a reason
\* that still stands, and what it holds pending is not recorded.
AloneIsRight(p) ==
  LET s == starter[p] IN ~s.raced =>
    /\ s.pc \in {"runner", "apply"} => 1 \in recorded \/ "devices" \notin DOMAIN database
    /\ s.pc = "apply" => s.pending \cap recorded = {}

ReaderIsRight(r) ==
  LET s == reader[r] IN
    /\ s.pc = "tables" \/ s.verdict = "reads" => Complete
    /\ s.pc = "tables" => \A t \in All \ (s.left \cup s.faults) : ~Diverges(t)
    /\ s.verdict = "reads" => \A t \in All : ~Diverges(t)

SchemaInv ==
  /\ SchemaTypeOK
  /\ starter \in [Starters -> StarterRecords] /\ reader \in [Readers -> ReaderRecords]
  /\ HistoryIsTrue /\ ForeignTablesStand /\ RawErrorsAreMeetings
  /\ \A p \in Starters : StarterIsRight(p) /\ AloneIsRight(p)
  /\ \A r \in Readers : ReaderIsRight(r)

\* The names of the recorded versions.
LEMMA Recorded ==
  ASSUME HistoryIsTrue
  PROVE  /\ applied_migration_versions = recorded \ {0}
         /\ MigratedBefore <=> 1 \in recorded
         /\ 3 \in recorded <=> Complete
         /\ (\A t \in All : ~Diverges(t)) /\ Complete => Whole
<1>1. applied_migration_versions = recorded \ {0}
  BY DEF applied_migration_versions, NoTable
<1>2. MigratedBefore <=> 1 \in recorded
  <2>1. 1 \notin recorded => recorded \subseteq {0}
    BY DEF HistoryIsTrue, NoTable, Versions
  <2>2. 1 \in recorded => 1 \in recorded \ {0}
    OBVIOUS
  <2> QED
    BY <1>1, <2>1, <2>2 DEF MigratedBefore
<1>3. 3 \in recorded <=> Complete
  BY DEF HistoryIsTrue, NoTable, Complete, Versions
<1>4. ASSUME \A t \in All : ~Diverges(t), Complete PROVE Whole
  <2>1. applied_migration_versions = 1 .. embedded_max_version
    BY <1>1, <1>4, Layout DEF Complete, Versions
  <2> QED
    BY <1>4, <2>1, Layout DEF Whole, Diverges, table_exists
<1> QED
  BY <1>1, <1>2, <1>3, <1>4

\* A table whose turn it is, is one of those that are left.
LEMMA FollowingIsLeft ==
  ASSUME NEW left \in SUBSET All, left # {}
  PROVE  Following(left) \in left
<1> DEFINE S == {i \in 1 .. Len(InOrder) : InOrder[i] \in left}
<1>1. Len(InOrder) = 3 /\ InOrder[1] = "devices" /\ InOrder[2] = "signals" /\ InOrder[3] = "people"
  BY DEF InOrder
<1>2. S \subseteq {1, 2, 3} /\ S # {} /\ \A i \in S : InOrder[i] \in left
  <2>1. S = {i \in {1, 2, 3} : InOrder[i] \in left}
    BY <1>1
  <2> QED
    BY <1>1, <2>1 DEF All
<1> HIDE DEF S
<1>3. \E x \in S : \A y \in S : x <= y
  <2>1. CASE 1 \in S
    BY <1>2, <2>1
  <2>2. CASE 1 \notin S /\ 2 \in S
    BY <1>2, <2>2
  <2>3. CASE 1 \notin S /\ 2 \notin S
    <3>1. S = {3}
      BY <1>2, <2>3
    <3> QED
      BY <3>1
  <2> QED
    BY <2>1, <2>2, <2>3
<1>4. Min(S) \in S
  BY <1>3 DEF Min
<1>5. Following(left) = InOrder[Min(S)]
  BY DEF Following, S
<1> QED
  BY <1>2, <1>4, <1>5

\* A version pending is the least of them.
LEMMA LeastPending ==
  ASSUME NEW pending \in SUBSET Versions, pending # {}
  PROVE  /\ Min(pending) \in pending
         /\ \A v \in pending : Min(pending) <= v
<1>1. \E x \in pending : \A y \in pending : x <= y
  <2>1. CASE 1 \in pending
    BY <2>1 DEF Versions
  <2>2. CASE 1 \notin pending /\ 2 \in pending
    BY <2>2 DEF Versions
  <2>3. CASE 1 \notin pending /\ 2 \notin pending
    <3>1. pending = {3}
      BY <2>3 DEF Versions
    <3> QED
      BY <3>1
  <2> QED
    BY <2>1, <2>2, <2>3
<1> QED
  BY <1>1 DEF Min

LEMMA SchemaInvInit == SchemaInit => SchemaInv
<1> SUFFICES ASSUME SchemaInit PROVE SchemaInv
  OBVIOUS
<1>1. /\ starter \in [Starters -> StarterRecords] /\ reader \in [Readers -> ReaderRecords]
      /\ foreign = << >> /\ DOMAIN foreign = {}
  BY DEF SchemaInit, StarterRecords, ReaderRecords
<1>2. breaks \in 0 .. MaxBreaks /\ plugins \in 0 .. MaxPlugins
  BY SchemaAssumption DEF SchemaInit
<1>3. /\ \A p \in Starters : StarterIsRight(p) /\ AloneIsRight(p)
      /\ \A r \in Readers : ReaderIsRight(r)
      /\ RawErrorsAreMeetings /\ ForeignTablesStand
  BY <1>1 DEF SchemaInit, StarterIsRight, AloneIsRight, ReaderIsRight, RawErrorsAreMeetings,
     ForeignTablesStand
<1>4. HistoryIsTrue
  BY <1>1, Layout DEF SchemaInit, HistoryIsTrue, NoTable, Declared, Versions, All
<1>5. DOMAIN database \subseteq Tables /\ \A t \in DOMAIN database :
        /\ DOMAIN database[t] \subseteq Columns
        /\ \A c \in DOMAIN database[t] : database[t][c] \in {"right", "nullable"}
  BY Layout DEF SchemaInit, Tables, Columns, Declared, All
<1>6. recorded = NoTable \/ recorded \in {1 .. v : v \in 0 .. embedded_max_version}
  <2>1. {1} = 1 .. 1
    OBVIOUS
  <2> QED
    BY <2>1, Layout DEF SchemaInit
<1> QED
  BY <1>1, <1>2, <1>3, <1>4, <1>5, <1>6 DEF SchemaInv, SchemaTypeOK

\* A step of a starter that leaves the tables alone: what it has to show is its
\* own, and the history table may appear.
LEMMA OneStarterKeeps ==
  ASSUME SchemaInv, NEW p \in Starters, NEW s \in StarterRecords,
         starter' = [starter EXCEPT ![p] = s],
         UNCHANGED <<database, foreign, reader, plugins>>, breaks' \in 0 .. MaxBreaks,
         recorded' \in {recorded, recorded \ NoTable},
         StarterIsRight(p)', AloneIsRight(p)',
         s.outcome = "raw" => s.raced \/ (1 \in recorded /\ "people" \in DOMAIN foreign)
  PROVE  SchemaInv'
<1>1. /\ starter' \in [Starters -> StarterRecords] /\ starter'[p] = s
      /\ \A q \in Starters \ {p} : starter'[q] = starter[q]
  BY DEF SchemaInv
<1>2. /\ HistoryIsTrue'
      /\ \A v \in Versions : v \in recorded' <=> v \in recorded
      /\ recorded # NoTable => recorded' = recorded
      /\ Complete' <=> Complete
  BY DEF SchemaInv, HistoryIsTrue, NoTable, Versions, Complete
<1>3. SchemaTypeOK'
  <2>1. {} = 1 .. 0
    OBVIOUS
  <2> QED
    BY <2>1, Layout DEF SchemaInv, SchemaTypeOK, NoTable
<1>4. RawErrorsAreMeetings' /\ ForeignTablesStand'
  <2>1. (MigratedBefore' <=> MigratedBefore) /\ (1 \in recorded => MigratedBefore)
    BY DEF MigratedBefore, applied_migration_versions, NoTable
  <2> QED
    BY <1>1, <2>1 DEF SchemaInv, RawErrorsAreMeetings, ForeignTablesStand
<1>5. \A t : Diverges(t)' <=> Diverges(t)
  BY DEF Diverges, table_exists
<1>6. ASSUME NEW q \in Starters PROVE StarterIsRight(q)' /\ AloneIsRight(q)'
  <2>1. CASE q = p
    BY <2>1
  <2>2. CASE q # p
    BY <1>1, <1>2, <1>5, <2>2 DEF SchemaInv, StarterIsRight, AloneIsRight, Versions
  <2> QED
    BY <2>1, <2>2
<1>7. ASSUME NEW r \in Readers PROVE ReaderIsRight(r)'
  BY <1>2, <1>5 DEF SchemaInv, ReaderIsRight
<1> QED
  BY <1>1, <1>2, <1>3, <1>4, <1>6, <1>7 DEF SchemaInv

\* The steps of a start that change no table.
LEMMA StartKeeps == ASSUME SchemaInv, NEW p \in Starters, StartsAlone(p), Start(p) PROVE SchemaInv'
<1> DEFINE s == [starter[p] EXCEPT !.pc = "guard", !.outcome = "none", !.raced = FALSE]
<1>1. starter' = [starter EXCEPT ![p] = s] /\ s \in StarterRecords
  BY DEF SchemaInv, StarterRecords, Start
<1>2. starter'[p] = s /\ s.pc = "guard" /\ s.outcome = "none"
  BY <1>1 DEF SchemaInv, StarterRecords
<1>3. StarterIsRight(p)' /\ AloneIsRight(p)'
  BY <1>2 DEF StarterIsRight, AloneIsRight
<1> QED
  BY <1>1, <1>2, <1>3, OneStarterKeeps DEF Start, StartsAlone, SchemaInv, SchemaTypeOK

\* A start that ends, whatever it says but for the raw error.
LEMMA EndsKeeps ==
  ASSUME SchemaInv, NEW p \in Starters,
         NEW outcome \in {"reconcile", "raw", "diverged", "failed"}, Ends(p, outcome),
         UNCHANGED <<database, recorded, foreign, reader, plugins>>, breaks' \in 0 .. MaxBreaks,
         outcome = "raw" => starter[p].raced \/ (1 \in recorded /\ "people" \in DOMAIN foreign)
  PROVE  SchemaInv'
<1> DEFINE s == [starter[p] EXCEPT !.pc = "down", !.outcome = outcome, !.pending = {},
                                   !.left = {}, !.faults = {}]
<1>0. starter[p] \in StarterRecords
  BY DEF SchemaInv
<1>1. starter' = [starter EXCEPT ![p] = s] /\ s \in StarterRecords
  <2>1. s \in StarterRecords
    BY <1>0 DEF StarterRecords
  <2>2. starter' = [starter EXCEPT ![p] = s]
    BY DEF Ends
  <2> QED  BY <2>1, <2>2
<1>2. starter'[p] = s /\ s.pc = "down" /\ s.outcome = outcome /\ s.raced = starter[p].raced
  BY <1>1 DEF SchemaInv, StarterRecords
<1>3. StarterIsRight(p)' /\ AloneIsRight(p)'
  BY <1>2 DEF StarterIsRight, AloneIsRight
<1> QED
  BY <1>1, <1>2, <1>3, OneStarterKeeps

\* A start that goes on to the next query, with nothing else to remember.
LEMMA GoesKeeps ==
  ASSUME SchemaInv, NEW p \in Starters, NEW next \in {"runner", "guard_history", "up"},
         Goes(p, next), UNCHANGED <<database, recorded, foreign, reader, breaks, plugins>>,
         starter[p].pc # "down",
         next = "runner" => 1 \in recorded \/ "devices" \notin DOMAIN database,
         next = "up" => Complete /\ \A t \in All : ~Diverges(t)
  PROVE  SchemaInv'
<1> DEFINE s == [starter[p] EXCEPT !.pc = next]
<1>1. starter' = [starter EXCEPT ![p] = s] /\ s \in StarterRecords
  BY DEF SchemaInv, StarterRecords, Goes
<1>2. starter'[p] = s /\ s.pc = next /\ s.outcome = "none"
  BY <1>1 DEF SchemaInv, StarterRecords, StarterIsRight
<1>3. (\A t : Diverges(t)' <=> Diverges(t)) /\ (Complete' <=> Complete)
  BY DEF Diverges, table_exists, Complete
<1>4. StarterIsRight(p)' /\ AloneIsRight(p)'
  BY <1>2, <1>3 DEF StarterIsRight, AloneIsRight
<1> QED
  BY <1>1, <1>2, <1>4, OneStarterKeeps DEF SchemaInv, SchemaTypeOK

\* The guard.
LEMMA GuardKeeps ==
  ASSUME SchemaInv, NEW p \in Starters, StartsAlone(p), GuardTable(p) \/ GuardHistory(p)
  PROVE  SchemaInv'
<1>1. HistoryIsTrue /\ breaks' \in 0 .. MaxBreaks
  BY DEF SchemaInv, SchemaTypeOK, StartsAlone
<1>2. CASE GuardTable(p)
  BY <1>2, GoesKeeps DEF GuardTable, StartsAlone, table_exists
<1>3. CASE GuardHistory(p)
  <2>1. CASE MigratedBefore
    BY <1>1, <1>3, <2>1, GoesKeeps, Recorded DEF GuardHistory, StartsAlone
  <2>2. CASE ~MigratedBefore
    BY <1>1, <1>3, <2>2, EndsKeeps DEF GuardHistory, StartsAlone
  <2> QED
    BY <2>1, <2>2
<1> QED
  BY <1>2, <1>3

\* The runner works out what is not applied: the versions beyond the recorded.
LEMMA RunnerKeeps ==
  ASSUME SchemaInv, NEW p \in Starters, StartsAlone(p), Runner(p)
  PROVE  SchemaInv'
<1> DEFINE pending == {v \in 1 .. embedded_max_version :
                         \A a \in applied_migration_versions : a < v}
           s == [starter[p] EXCEPT !.pc = "apply", !.pending = pending]
<1>1. starter[p] \in StarterRecords /\ starter[p].pc = "runner" /\ HistoryIsTrue
  BY DEF SchemaInv, Runner
<1>2. pending = Versions \ recorded
  <2>1. pending = {v \in Versions : \A a \in recorded \ {0} : a < v}
    BY <1>1, Layout, Recorded
  <2>2. recorded \in {{0}, {}, {1}, {1, 2}, {1, 2, 3}}
    BY <1>1 DEF HistoryIsTrue, NoTable, Versions
  <2>3. CASE recorded \in {{0}, {}}
    <3>1. recorded \ {0} = {} /\ Versions \ recorded = Versions
      BY <2>3 DEF Versions
    <3> QED
      BY <2>1, <3>1
  <2>4. CASE recorded \in {{1}, {1, 2}, {1, 2, 3}}
    BY <2>1, <2>4 DEF Versions
  <2> QED
    BY <2>2, <2>3, <2>4
<1>3. recorded' = recorded \ NoTable /\ recorded' # NoTable
  BY <1>1 DEF Runner, applied_migration_versions, HistoryIsTrue, NoTable, Versions
<1> HIDE DEF pending
<1>4. starter' = [starter EXCEPT ![p] = s] /\ s \in StarterRecords
  BY <1>1, <1>2 DEF SchemaInv, StarterRecords, Runner, pending
<1>5. starter'[p] = s /\ s.pc = "apply" /\ s.outcome = "none" /\ s.pending = pending
      /\ s.raced = starter[p].raced
  BY <1>1, <1>4 DEF SchemaInv, StarterRecords, StarterIsRight
<1>6. \A v \in Versions : v \in recorded' <=> v \in recorded
  BY <1>3 DEF NoTable, Versions
<1>7. StarterIsRight(p)'
  BY <1>2, <1>3, <1>5, <1>6 DEF StarterIsRight
<1>8. AloneIsRight(p)'
  <2>1. database' = database /\ 1 \in Versions
    BY DEF Runner, Versions
  <2>2. ~starter[p].raced => 1 \in recorded \/ "devices" \notin DOMAIN database
    BY <1>1 DEF SchemaInv, AloneIsRight
  <2> QED
    BY <1>2, <1>3, <1>5, <1>6, <2>1, <2>2 DEF AloneIsRight
<1> QED
  BY <1>3, <1>4, <1>5, <1>7, <1>8, OneStarterKeeps DEF Runner, StartsAlone, SchemaInv, SchemaTypeOK

\* Table after table is checked, against a catalog that may change meanwhile.
LEMMA PreflightKeeps ==
  ASSUME SchemaInv, NEW p \in Starters, StartsAlone(p), Preflight(p)
  PROVE  SchemaInv'
<1>1. /\ starter[p] \in StarterRecords /\ starter[p].pc = "preflight" /\ StarterIsRight(p)
      /\ UNCHANGED <<database, recorded, foreign, reader, breaks, plugins>>
      /\ breaks' \in 0 .. MaxBreaks
  BY DEF SchemaInv, SchemaTypeOK, Preflight, StartsAlone
<1>2. CASE starter[p].left # {}
  <2> DEFINE t == Following(starter[p].left)
             faults == IF Diverges(t) THEN starter[p].faults \cup {t} ELSE starter[p].faults
             s == [starter[p] EXCEPT !.left = starter[p].left \ {t}, !.faults = faults]
  <2>1. t \in starter[p].left /\ starter[p].left \in SUBSET All
    BY <1>1, <1>2, FollowingIsLeft DEF StarterRecords
  <2>2. starter' = [starter EXCEPT ![p] = s]
    BY <1>2 DEF SchemaInv, Preflight
  <2> HIDE DEF t
  <2>3. s \in StarterRecords
    BY <1>1, <2>1 DEF StarterRecords
  <2>4. /\ starter'[p] = s /\ s.pc = "preflight" /\ s.outcome = "none" /\ s.faults = faults
        /\ s.left = starter[p].left \ {t}
    BY <1>1, <2>2 DEF SchemaInv, StarterRecords, StarterIsRight
  <2>5. \A u \in All \ (s.left \cup s.faults) : ~Diverges(u)
    BY <1>1, <2>1, <2>4 DEF StarterIsRight
  <2>6. (\A u : Diverges(u)' <=> Diverges(u)) /\ (Complete' <=> Complete)
    BY <1>1 DEF Diverges, table_exists, Complete
  <2>7. StarterIsRight(p)' /\ AloneIsRight(p)'
    BY <1>1, <2>4, <2>5, <2>6 DEF StarterIsRight, AloneIsRight
  <2> QED
    BY <1>1, <2>2, <2>3, <2>4, <2>7, OneStarterKeeps
<1>3. CASE starter[p].left = {} /\ starter[p].faults = {}
  BY <1>1, <1>3, GoesKeeps DEF Preflight, StarterIsRight
<1>4. CASE starter[p].left = {} /\ starter[p].faults # {}
  BY <1>1, <1>4, EndsKeeps DEF Preflight
<1> QED
  BY <1>2, <1>3, <1>4

\* What stands in the database after a migration: what stood there, and what it
\* adds.
LEMMA MigratedTables ==
  ASSUME NEW v \in Versions, "devices" \in DOMAIN database \cup Migrations[v].creates
  PROVE  /\ DOMAIN Migrated(v) = DOMAIN database \cup Migrations[v].creates
         /\ \A t \in DOMAIN database \ {"devices"} : Migrated(v)[t] = database[t]
         /\ \A t \in DOMAIN Migrated(v) \ (DOMAIN database \cup {"devices"}) :
              Migrated(v)[t] = Declared({"id"})
         /\ LET before == IF "devices" \in DOMAIN database THEN database["devices"]
                                                           ELSE Declared({"id"})
            IN  Migrated(v)["devices"] = [c \in DOMAIN before \cup Migrations[v].adds |->
                                            IF c \in DOMAIN before THEN before[c] ELSE "right"]
<1> DEFINE created == Migrations[v].creates \ DOMAIN database
           tables == [t \in DOMAIN database \cup created |->
                        IF t \in created THEN Declared({"id"}) ELSE database[t]]
           devices == [c \in DOMAIN tables["devices"] \cup Migrations[v].adds |->
                         IF c \in DOMAIN tables["devices"] THEN tables["devices"][c] ELSE "right"]
<1>1. Migrated(v) = [tables EXCEPT !["devices"] = devices]
  BY DEF Migrated
<1>2. "devices" \in DOMAIN tables
  OBVIOUS
<1>3. tables["devices"] = IF "devices" \in DOMAIN database THEN database["devices"]
                                                           ELSE Declared({"id"})
  OBVIOUS
<1>4. /\ DOMAIN tables = DOMAIN database \cup Migrations[v].creates
      /\ \A t \in DOMAIN database : tables[t] = database[t]
      /\ \A t \in DOMAIN tables \ DOMAIN database : tables[t] = Declared({"id"})
  OBVIOUS
<1>5. Migrated(v)["devices"] = devices
  BY <1>1, <1>2
<1> HIDE DEF tables, devices
<1>6. /\ DOMAIN Migrated(v) = DOMAIN tables
      /\ \A t \in DOMAIN tables \ {"devices"} : Migrated(v)[t] = tables[t]
  BY <1>1
<1> QED
  BY <1>3, <1>4, <1>5, <1>6 DEF devices

\* Recorded in their order, the versions are those up to one of them.
LEMMA PrefixOfVersions ==
  HistoryIsTrue => recorded = NoTable \/ recorded \in {1 .. v : v \in 0 .. embedded_max_version}
<1>1. {} = 1 .. 0 /\ {1} = 1 .. 1 /\ {1, 2} = 1 .. 2 /\ {1, 2, 3} = 1 .. 3
  OBVIOUS
<1> QED
  BY <1>1, Layout DEF HistoryIsTrue, Versions

\* Where a starter stands that is about to apply a migration.
LEMMA NextVersion ==
  ASSUME SchemaInv, NEW p \in Starters, starter[p].pc = "apply", starter[p].pending # {}
  PROVE  LET v == Min(starter[p].pending) IN
           /\ v \in starter[p].pending /\ v \in Versions
           /\ v \notin recorded => recorded = IF v = 1 THEN {} ELSE IF v = 2 THEN {1} ELSE {1, 2}
<1> DEFINE v == Min(starter[p].pending)
<1>1. starter[p].pending \in SUBSET Versions
  BY DEF SchemaInv, StarterRecords
<1>2. v \in starter[p].pending /\ \A w \in starter[p].pending : v <= w
  BY <1>1, LeastPending
<1> HIDE DEF v
<1>3. recorded # NoTable /\ Versions \ starter[p].pending \subseteq recorded
  BY DEF SchemaInv, StarterIsRight
<1>4. \A w \in Versions : w < v => w \in recorded
  BY <1>1, <1>2, <1>3 DEF Versions
<1>5. ASSUME v \notin recorded
      PROVE  recorded = IF v = 1 THEN {} ELSE IF v = 2 THEN {1} ELSE {1, 2}
  <2>1. recorded \in {{}, {1}, {1, 2}, {1, 2, 3}} /\ v \in {1, 2, 3}
    BY <1>1, <1>2, <1>3 DEF SchemaInv, HistoryIsTrue, Versions
  <2> QED
    BY <1>4, <1>5, <2>1 DEF Versions
<1> QED
  BY <1>1, <1>2, <1>5 DEF v

\* The raw error is left to those who meet, and to an upgrade that finds the
\* plugin's table in its way.
LEMMA ConflictsAreMeetings ==
  ASSUME SchemaInv, NEW p \in Starters, starter[p].pc = "apply", starter[p].pending # {},
         Min(starter[p].pending) \in recorded \/ Conflicts(Min(starter[p].pending)),
         ~starter[p].raced
  PROVE  1 \in recorded /\ "people" \in DOMAIN foreign
<1> DEFINE v == Min(starter[p].pending)
<1>1. v \in starter[p].pending /\ v \in Versions
  BY NextVersion
<1>2. /\ starter[p].pending \cap recorded = {}
      /\ 1 \in recorded \/ "devices" \notin DOMAIN database
  BY DEF SchemaInv, AloneIsRight
<1>3. v \notin recorded /\ Conflicts(v)
  BY <1>1, <1>2
<1>4. recorded = IF v = 1 THEN {} ELSE IF v = 2 THEN {1} ELSE {1, 2}
  BY <1>3, NextVersion
<1> HIDE DEF v
<1>5. CASE v = 1
  BY <1>2, <1>3, <1>4, <1>5, Layout DEF Conflicts, SchemaInv, HistoryIsTrue
<1>6. CASE v = 2
  BY <1>3, <1>4, <1>6, Layout DEF Conflicts, SchemaInv, HistoryIsTrue
<1>7. CASE v = 3
  BY <1>3, <1>4, <1>7, Layout DEF Conflicts, SchemaInv, HistoryIsTrue
<1> QED
  BY <1>1, <1>5, <1>6, <1>7 DEF Versions

\* A migration that goes through: its record follows the others', and what it
\* creates was nobody's.
LEMMA MigrationKeepsHistory ==
  ASSUME SchemaInv, NEW v \in Versions, v \notin recorded, ~Conflicts(v),
         recorded = IF v = 1 THEN {} ELSE IF v = 2 THEN {1} ELSE {1, 2},
         database' = Migrated(v), recorded' = recorded \cup {v}, UNCHANGED foreign
  PROVE  /\ HistoryIsTrue' /\ ForeignTablesStand' /\ 1 \in recorded'
         /\ DOMAIN database' \subseteq Tables
         /\ \A t \in DOMAIN database' :
              /\ DOMAIN database'[t] \subseteq Columns
              /\ \A c \in DOMAIN database'[t] : database'[t][c] \in {"right", "nullable"}
<1>0. v \in {1, 2, 3} /\ HistoryIsTrue /\ ForeignTablesStand
  BY DEF Versions, SchemaInv
<1>1. "devices" \in DOMAIN database \cup Migrations[v].creates
  BY <1>0, Layout DEF HistoryIsTrue
<1> DEFINE before == IF "devices" \in DOMAIN database THEN database["devices"]
                                                      ELSE Declared({"id"})
           devices == [c \in DOMAIN before \cup Migrations[v].adds |->
                         IF c \in DOMAIN before THEN before[c] ELSE "right"]
<1>2. /\ DOMAIN database' = DOMAIN database \cup Migrations[v].creates
      /\ \A t \in DOMAIN database \ {"devices"} : database'[t] = database[t]
      /\ \A t \in DOMAIN database' \ (DOMAIN database \cup {"devices"}) :
           database'[t] = Declared({"id"})
      /\ database'["devices"] = devices
  BY <1>1, MigratedTables
<1>3. DOMAIN devices = DOMAIN before \cup Migrations[v].adds
  OBVIOUS
<1>4. v = 1 => /\ before = Declared({"id"}) /\ DOMAIN before = {"id"}
               /\ "devices" \notin DOMAIN database
  BY Layout DEF Conflicts, Declared
<1>5. v # 1 => before = database["devices"]
  BY <1>1, Layout, <1>0
<1> HIDE DEF before, devices
<1>6. recorded' = IF v = 1 THEN {1} ELSE IF v = 2 THEN {1, 2} ELSE {1, 2, 3}
  BY <1>0
<1>7. HistoryIsTrue'
  <2>1. recorded' \in {NoTable, {}, {1}, {1, 2}, Versions} /\ 1 \in recorded'
    BY <1>0, <1>6 DEF Versions
  <2>2. {"devices", "signals"} \subseteq DOMAIN database' /\ "devices" \notin DOMAIN foreign
    BY <1>0, <1>2, <1>4, Layout DEF HistoryIsTrue, ForeignTablesStand
  <2>3. "people" \in DOMAIN database' /\ 3 \notin recorded' => "people" \in DOMAIN foreign
    BY <1>0, <1>2, <1>6, Layout DEF HistoryIsTrue
  <2>4. 2 \notin recorded' => "ipv6" \notin DOMAIN database'["devices"]
    BY <1>0, <1>2, <1>3, <1>4, <1>6, Layout
  <2>5. 3 \notin recorded' => "owner" \notin DOMAIN database'["devices"]
    BY <1>0, <1>2, <1>3, <1>4, <1>5, <1>6, Layout DEF HistoryIsTrue
  <2> QED
    BY <2>1, <2>2, <2>3, <2>4, <2>5 DEF HistoryIsTrue
<1>8. ForeignTablesStand'
  <2>1. "devices" \notin DOMAIN foreign
    BY <1>0, <1>4 DEF HistoryIsTrue, ForeignTablesStand
  <2> QED
    BY <1>0, <1>2, <2>1 DEF ForeignTablesStand
<1>9. DOMAIN database' \subseteq Tables
  BY <1>0, <1>2, Layout DEF SchemaInv, SchemaTypeOK, Tables, All
<1>10. ASSUME NEW t \in DOMAIN database'
       PROVE  /\ DOMAIN database'[t] \subseteq Columns
              /\ \A c \in DOMAIN database'[t] : database'[t][c] \in {"right", "nullable"}
  <2>1. \A u \in DOMAIN database :
          /\ DOMAIN database[u] \subseteq Columns
          /\ \A c \in DOMAIN database[u] : database[u][c] \in {"right", "nullable"}
    BY DEF SchemaInv, SchemaTypeOK
  <2>2. /\ DOMAIN Declared({"id"}) \subseteq Columns
        /\ \A c \in DOMAIN Declared({"id"}) : Declared({"id"})[c] \in {"right", "nullable"}
    BY DEF Declared, Columns
  <2>3. /\ DOMAIN before \subseteq Columns
        /\ \A c \in DOMAIN before : before[c] \in {"right", "nullable"}
    BY <2>1, <2>2 DEF before
  <2>4. Migrations[v].adds \subseteq Columns
    BY <1>0, Layout DEF Columns
  <2>5. CASE t = "devices"
    BY <1>2, <1>3, <2>3, <2>4, <2>5 DEF devices
  <2>6. CASE t # "devices" /\ t \in DOMAIN database
    BY <1>2, <2>1, <2>6
  <2>7. CASE t # "devices" /\ t \notin DOMAIN database
    BY <1>2, <2>2, <2>7
  <2> QED
    BY <2>5, <2>6, <2>7
<1> QED
  BY <1>0, <1>6, <1>7, <1>8, <1>9, <1>10

\* A migration of one starter, and what it is to the others who are starting.
LEMMA MigrationKeeps ==
  ASSUME SchemaInv, NEW p \in Starters, StartsAlone(p), ApplyMigration(p),
         starter[p].pending # {}, Min(starter[p].pending) \notin recorded,
         ~Conflicts(Min(starter[p].pending))
  PROVE  SchemaInv'
<1> DEFINE v == Min(starter[p].pending)
<1>1. /\ v \in starter[p].pending /\ v \in Versions /\ v \notin recorded /\ ~Conflicts(v)
      /\ recorded = IF v = 1 THEN {} ELSE IF v = 2 THEN {1} ELSE {1, 2}
      /\ starter[p].pc = "apply"
  BY NextVersion DEF ApplyMigration
<1>2. /\ database' = Migrated(v) /\ recorded' = recorded \cup {v}
      /\ starter' = [q \in Starters |->
                       [starter[q] EXCEPT
                          !.pending = IF q = p THEN @ \ {v} ELSE @,
                          !.raced = @ \/ (q # p /\ starter[q].pc # "down")]]
      /\ UNCHANGED <<foreign, reader, breaks, plugins>>
  BY <1>1 DEF ApplyMigration, StartsAlone
<1> HIDE DEF v
<1>3. /\ HistoryIsTrue' /\ ForeignTablesStand' /\ 1 \in recorded'
      /\ DOMAIN database' \subseteq Tables
      /\ \A t \in DOMAIN database' :
           /\ DOMAIN database'[t] \subseteq Columns
           /\ \A c \in DOMAIN database'[t] : database'[t][c] \in {"right", "nullable"}
  BY <1>1, <1>2, MigrationKeepsHistory
<1>4. SchemaTypeOK'
  <2>1. recorded' = NoTable \/ recorded' \in {1 .. w : w \in 0 .. embedded_max_version}
    <3>1. recorded' = IF v = 1 THEN {1} ELSE IF v = 2 THEN {1, 2} ELSE {1, 2, 3}
      BY <1>1, <1>2 DEF Versions
    <3>2. {1} = 1 .. 1 /\ {1, 2} = 1 .. 2 /\ {1, 2, 3} = 1 .. 3
      OBVIOUS
    <3> QED
      BY <3>1, <3>2, Layout
  <2> QED
    BY <1>2, <1>3, <2>1 DEF SchemaInv, SchemaTypeOK
<1>5. ~Complete
  BY <1>1 DEF Complete
<1>6. starter \in [Starters -> StarterRecords]
  BY DEF SchemaInv
<1>7. /\ starter' \in [Starters -> StarterRecords]
      /\ \A q \in Starters :
           /\ starter'[q].pc = starter[q].pc /\ starter'[q].outcome = starter[q].outcome
           /\ starter'[q].pending = IF q = p THEN starter[q].pending \ {v} ELSE starter[q].pending
           /\ starter'[q].raced <=> starter[q].raced \/ (q # p /\ starter[q].pc # "down")
  <2>1. ASSUME NEW q \in Starters
        PROVE  LET s == [starter[q] EXCEPT
                           !.pending = IF q = p THEN @ \ {v} ELSE @,
                           !.raced = @ \/ (q # p /\ starter[q].pc # "down")]
               IN  /\ s \in StarterRecords
                   /\ s.pc = starter[q].pc /\ s.outcome = starter[q].outcome
                   /\ s.pending = IF q = p THEN starter[q].pending \ {v} ELSE starter[q].pending
                   /\ s.raced <=> starter[q].raced \/ (q # p /\ starter[q].pc # "down")
    BY <1>6 DEF StarterRecords
  <2> QED
    BY <1>2, <2>1
<1>8. ASSUME NEW q \in Starters PROVE StarterIsRight(q)' /\ AloneIsRight(q)'
  <2>1. StarterIsRight(q) /\ AloneIsRight(q)
    BY DEF SchemaInv
  <2>2. StarterIsRight(q)'
    <3>1. starter[q].pc \notin {"preflight", "up"}
      BY <1>5, <2>1 DEF StarterIsRight
    <3>2. starter[q].pc = "apply" =>
            recorded' # NoTable /\ Versions \ starter'[q].pending \subseteq recorded'
      <4>1. recorded' # NoTable
        BY <1>3 DEF NoTable
      <4>2. starter[q].pc = "apply" => Versions \ starter[q].pending \subseteq recorded
        BY <2>1 DEF StarterIsRight
      <4>3. starter'[q].pending \in {starter[q].pending, starter[q].pending \ {v}}
        BY <1>7
      <4>4. recorded' = recorded \cup {v}
        BY <1>2
      <4> QED
        BY <4>1, <4>2, <4>3, <4>4
    <3> QED
      BY <1>7, <2>1, <3>1, <3>2 DEF StarterIsRight
  <2>3. AloneIsRight(q)'
    <3>1. CASE q # p
      BY <1>7, <3>1 DEF AloneIsRight
    <3>2. CASE q = p
      <4>1. ~starter[p].raced => starter'[p].pending \cap recorded' = {}
        <5>1. ~starter[p].raced => starter[p].pending \cap recorded = {}
          BY <1>1, <2>1, <3>2 DEF AloneIsRight
        <5>2. starter'[p].pending = starter[p].pending \ {v} /\ recorded' = recorded \cup {v}
          BY <1>2, <1>7
        <5> QED
          BY <5>1, <5>2
      <4> QED
        BY <1>1, <1>3, <1>7, <3>2, <4>1 DEF AloneIsRight
    <3> QED
      BY <3>1, <3>2
  <2> QED
    BY <2>2, <2>3
<1>9. ASSUME NEW r \in Readers PROVE ReaderIsRight(r)'
  BY <1>2, <1>5 DEF SchemaInv, ReaderIsRight
<1>10. RawErrorsAreMeetings'
  <2>1. MigratedBefore => MigratedBefore'
    BY <1>2 DEF MigratedBefore, applied_migration_versions, NoTable
  <2> QED
    BY <1>2, <1>7, <2>1 DEF SchemaInv, RawErrorsAreMeetings
<1> QED
  BY <1>2, <1>3, <1>4, <1>7, <1>8, <1>9, <1>10 DEF SchemaInv

\* A step of the runner: the next migration, or none is left.
LEMMA ApplyKeeps ==
  ASSUME SchemaInv, NEW p \in Starters, StartsAlone(p), ApplyMigration(p)
  PROVE  SchemaInv'
<1>1. /\ starter[p] \in StarterRecords /\ starter[p].pc = "apply" /\ StarterIsRight(p)
      /\ breaks' \in 0 .. MaxBreaks
  BY DEF SchemaInv, SchemaTypeOK, ApplyMigration, StartsAlone
<1>2. CASE starter[p].pending = {}
  <2> DEFINE s == [starter[p] EXCEPT !.pc = "preflight", !.left = DOMAIN Expected, !.faults = {}]
  <2>1. s \in StarterRecords
    BY <1>1, Layout DEF StarterRecords
  <2>2. starter' = [starter EXCEPT ![p] = s]
    BY <1>2 DEF ApplyMigration
  <2>3. starter'[p] = s /\ s.pc = "preflight" /\ s.outcome = "none" /\ s.left = All
    <3>1. s.pc = "preflight" /\ s.outcome = "none" /\ s.left = All
      BY <1>1, Layout DEF StarterRecords, StarterIsRight
    <3> QED  BY <2>2, <3>1 DEF SchemaInv
  <2>4. Complete' /\ recorded' = recorded
    BY <1>1, <1>2 DEF ApplyMigration, StarterIsRight, SchemaInv, HistoryIsTrue, Complete,
       NoTable, Versions
  <2>5. StarterIsRight(p)' /\ AloneIsRight(p)'
    BY <2>3, <2>4 DEF StarterIsRight, AloneIsRight
  <2>6. UNCHANGED <<database, foreign, reader, plugins>>
    BY <1>2 DEF ApplyMigration, StartsAlone
  <2>7. s.outcome # "raw" /\ recorded' \in {recorded, recorded \ NoTable}
    BY <2>3, <2>4
  <2> HIDE DEF s
  <2> QED
    BY <1>1, <2>1, <2>2, <2>5, <2>6, <2>7, OneStarterKeeps
<1>3. CASE /\ starter[p].pending # {}
           /\ Min(starter[p].pending) \in recorded \/ Conflicts(Min(starter[p].pending))
  BY <1>1, <1>3, ConflictsAreMeetings, EndsKeeps DEF ApplyMigration, StartsAlone
<1>4. CASE /\ starter[p].pending # {}
           /\ ~(Min(starter[p].pending) \in recorded \/ Conflicts(Min(starter[p].pending)))
  BY <1>4, MigrationKeeps
<1> QED
  BY <1>2, <1>3, <1>4

\* The readers change nothing of anybody's.
LEMMA ReaderKeeps ==
  ASSUME SchemaInv, NEW r \in Readers, NEW s \in ReaderRecords,
         reader' = [reader EXCEPT ![r] = s],
         UNCHANGED <<database, recorded, foreign, starter, breaks, plugins>>,
         ReaderIsRight(r)'
  PROVE  SchemaInv'
<1>1. (\A t : Diverges(t)' <=> Diverges(t)) /\ (Complete' <=> Complete)
  BY DEF Diverges, table_exists, Complete
<1>2. /\ reader' \in [Readers -> ReaderRecords]
      /\ \A q \in Readers \ {r} : reader'[q] = reader[q]
  BY DEF SchemaInv
<1>3. ASSUME NEW q \in Readers PROVE ReaderIsRight(q)'
  <2>1. CASE q = r
    BY <2>1
  <2>2. CASE q # r
    BY <1>1, <1>2, <2>2 DEF SchemaInv, ReaderIsRight
  <2> QED
    BY <2>1, <2>2
<1>4. ASSUME NEW p \in Starters PROVE StarterIsRight(p)' /\ AloneIsRight(p)'
  BY <1>1 DEF SchemaInv, StarterIsRight, AloneIsRight
<1>5. /\ HistoryIsTrue' /\ SchemaTypeOK' /\ ForeignTablesStand'
      /\ (MigratedBefore' <=> MigratedBefore)
  BY DEF SchemaInv, HistoryIsTrue, SchemaTypeOK, ForeignTablesStand, MigratedBefore,
     applied_migration_versions
<1>6. RawErrorsAreMeetings'
  BY <1>5 DEF SchemaInv, RawErrorsAreMeetings
<1> QED
  BY <1>2, <1>3, <1>4, <1>5, <1>6 DEF SchemaInv

\* check_readable: the versions first, then table after table.
LEMMA ReadKeeps ==
  ASSUME SchemaInv, NEW r \in Readers, Read(r),
         UNCHANGED <<database, recorded, foreign, starter, breaks, plugins>>
  PROVE  SchemaInv'
<1>1. reader[r] \in ReaderRecords /\ ReaderIsRight(r) /\ HistoryIsTrue
  BY DEF SchemaInv
<1>2. (\A t : Diverges(t)' <=> Diverges(t)) /\ (Complete' <=> Complete)
  BY DEF Diverges, table_exists, Complete
<1>3. ASSUME NEW verdict \in {"behind", "reconcile", "no_schema", "reads", "diverged"},
             Says(r, verdict),
             verdict = "reads" => Complete /\ \A t \in All : ~Diverges(t)
      PROVE  SchemaInv'
  <2> DEFINE s == [pc |-> "done", left |-> {}, faults |-> {}, verdict |-> verdict]
  <2>1. s \in ReaderRecords /\ reader' = [reader EXCEPT ![r] = s] /\ reader'[r] = s
    BY <1>3 DEF Says, SchemaInv, ReaderRecords
  <2>2. ReaderIsRight(r)'
    BY <1>2, <1>3, <2>1 DEF ReaderIsRight
  <2> QED
    BY <2>1, <2>2, ReaderKeeps
<1>4. CASE ReadVersions(r)
  <2>1. CASE applied_migration_versions = {} /\ reader' = [reader EXCEPT ![r].pc = "guard"]
    <3> DEFINE s == [reader[r] EXCEPT !.pc = "guard"]
    <3>1. /\ s \in ReaderRecords /\ reader' = [reader EXCEPT ![r] = s] /\ reader'[r] = s
          /\ s.pc = "guard" /\ s.verdict = reader[r].verdict
      BY <1>1, <2>1 DEF SchemaInv, ReaderRecords
    <3>2. ReaderIsRight(r)'
      BY <1>1, <1>2, <3>1 DEF ReaderIsRight
    <3> QED
      BY <3>1, <3>2, ReaderKeeps
  <2>2. CASE Says(r, "behind")
    BY <1>3, <2>2
  <2>3. CASE /\ applied_migration_versions # {}
             /\ Max(applied_migration_versions) >= embedded_max_version
             /\ reader' = [reader EXCEPT ![r].pc = "tables", ![r].left = DOMAIN Expected]
    <3> DEFINE s == [reader[r] EXCEPT !.pc = "tables", !.left = DOMAIN Expected]
    <3>1. /\ s \in ReaderRecords /\ reader' = [reader EXCEPT ![r] = s] /\ reader'[r] = s
          /\ s.pc = "tables" /\ s.verdict = reader[r].verdict /\ s.left = All
      BY <1>1, <2>3, Layout DEF SchemaInv, ReaderRecords
    <3>2. Complete
      <4>1. CASE recorded = {1}
        <5>1. applied_migration_versions = {1}
          BY <1>1, <4>1, Recorded
        <5>2. Max(applied_migration_versions) = 1
          BY <5>1 DEF Max
        <5> QED
          BY <2>3, <5>2, Layout
      <4>2. CASE recorded = {1, 2}
        <5>1. applied_migration_versions = {1, 2}
          BY <1>1, <4>2, Recorded
        <5>2. Max(applied_migration_versions) \in {1, 2}
          BY <5>1 DEF Max
        <5> QED
          BY <2>3, <5>2, Layout
      <4>3. recorded \notin {NoTable, {}}
        BY <1>1, <2>3, Recorded DEF NoTable
      <4> QED
        BY <1>1, <4>1, <4>2, <4>3 DEF HistoryIsTrue, Complete
    <3>3. ReaderIsRight(r)'
      BY <1>1, <1>2, <3>1, <3>2 DEF ReaderIsRight
    <3> QED
      BY <3>1, <3>3, ReaderKeeps
  <2> QED
    BY <1>4, <2>1, <2>2, <2>3 DEF ReadVersions
<1>5. CASE ReadGuard(r)
  BY <1>3, <1>5 DEF ReadGuard
<1>6. CASE ReadTables(r)
  <2>1. CASE reader[r].left = {}
    BY <1>1, <1>3, <1>6, <2>1 DEF ReadTables, ReaderIsRight
  <2>2. CASE reader[r].left # {}
    <3> DEFINE t == Following(reader[r].left)
               faults == IF Diverges(t) THEN reader[r].faults \cup {t} ELSE reader[r].faults
               s == [reader[r] EXCEPT !.left = reader[r].left \ {t}, !.faults = faults]
    <3>1. t \in reader[r].left /\ reader[r].left \in SUBSET All
      BY <1>1, <2>2, FollowingIsLeft DEF ReaderRecords
    <3>2. reader' = [reader EXCEPT ![r] = s]
      BY <1>6, <2>2 DEF SchemaInv, ReadTables
    <3> HIDE DEF t
    <3>3. s \in ReaderRecords
      BY <1>1, <3>1 DEF ReaderRecords
    <3>4. /\ reader'[r] = s /\ s.pc = "tables" /\ s.verdict = reader[r].verdict
          /\ s.faults = faults /\ s.left = reader[r].left \ {t}
      BY <1>1, <1>6, <3>2 DEF SchemaInv, ReaderRecords, ReadTables
    <3>5. Complete /\ \A u \in All \ (s.left \cup s.faults) : ~Diverges(u)
      BY <1>1, <1>6, <3>1, <3>4 DEF ReaderIsRight, ReadTables
    <3>6. ReaderIsRight(r)'
      BY <1>1, <1>2, <3>4, <3>5 DEF ReaderIsRight
    <3> QED
      BY <3>2, <3>3, <3>6, ReaderKeeps
  <2> QED
    BY <2>1, <2>2
<1>7. CASE ReadAgain(r)
  <2> DEFINE s == [reader[r] EXCEPT !.pc = "idle", !.verdict = "none"]
  <2>1. /\ s \in ReaderRecords /\ reader' = [reader EXCEPT ![r] = s] /\ reader'[r] = s
        /\ s.pc = "idle" /\ s.verdict = "none"
    BY <1>1, <1>7 DEF SchemaInv, ReaderRecords, ReadAgain
  <2>2. ReaderIsRight(r)'
    BY <2>1 DEF ReaderIsRight
  <2> QED
    BY <2>1, <2>2, ReaderKeeps
<1> QED
  BY <1>4, <1>5, <1>6, <1>7 DEF Read

\* The plugin's table was not there: whoever checked it has it among the faults.
LEMMA PluginKeeps ==
  ASSUME SchemaInv, NEW t \in {"devices", "people", "state"}, PluginCreates(t)
  PROVE  SchemaInv'
<1>1. PICK layout \in {Declared({"id", "extra"}), [c \in {"id"} |-> "nullable"]} :
        database' = With(database, t, layout) /\ foreign' = With(foreign, t, layout)
  BY DEF PluginCreates
<1>2. /\ t \notin DOMAIN database /\ UNCHANGED <<recorded, reader, breaks, pluginDone>>
      /\ HistoryIsTrue /\ ForeignTablesStand
  BY DEF PluginCreates, table_exists, SchemaInv
<1>3. /\ DOMAIN database' = DOMAIN database \cup {t}
      /\ database'[t] = layout /\ \A u \in DOMAIN database : database'[u] = database[u]
      /\ DOMAIN foreign' = DOMAIN foreign \cup {t}
      /\ foreign'[t] = layout /\ \A u \in DOMAIN foreign \ {t} : foreign'[u] = foreign[u]
  BY <1>1, <1>2 DEF With
<1>4. HistoryIsTrue' /\ ForeignTablesStand'
  <2>1. t = "devices" => 1 \notin recorded
    BY <1>2 DEF HistoryIsTrue
  <2>2. HistoryIsTrue'
    BY <1>2, <1>3, <2>1 DEF HistoryIsTrue
  <2> QED
    BY <1>2, <1>3, <2>2 DEF ForeignTablesStand
<1>5. SchemaTypeOK'
  <2>1. /\ DOMAIN layout \subseteq Columns
        /\ \A c \in DOMAIN layout : layout[c] \in {"right", "nullable"}
    BY DEF Declared, Columns
  <2>2. t \in Tables
    BY Layout DEF Tables, All
  <2>3. plugins' \in 0 .. MaxPlugins
    BY SchemaAssumption DEF PluginCreates, SchemaInv, SchemaTypeOK
  <2> QED
    BY <1>2, <1>3, <2>1, <2>2, <2>3 DEF SchemaInv, SchemaTypeOK
<1>6. \A u : ~Diverges(u) => ~Diverges(u)'
  BY <1>2, <1>3 DEF Diverges, table_exists
<1>7. /\ starter' \in [Starters -> StarterRecords]
      /\ \A q \in Starters :
           /\ starter'[q].pc = starter[q].pc /\ starter'[q].outcome = starter[q].outcome
           /\ starter'[q].pending = starter[q].pending /\ starter'[q].left = starter[q].left
           /\ starter'[q].faults = starter[q].faults
           /\ starter'[q].raced <=> starter[q].raced \/ starter[q].pc # "down"
  <2>1. ASSUME NEW q \in Starters
        PROVE  LET s == [starter[q] EXCEPT !.raced = @ \/ starter[q].pc # "down"]
               IN  /\ s \in StarterRecords
                   /\ s.pc = starter[q].pc /\ s.outcome = starter[q].outcome
                   /\ s.pending = starter[q].pending /\ s.left = starter[q].left
                   /\ s.faults = starter[q].faults
                   /\ s.raced <=> starter[q].raced \/ starter[q].pc # "down"
    BY DEF SchemaInv, StarterRecords
  <2> QED
    BY <2>1 DEF PluginCreates
<1>8. ASSUME NEW q \in Starters PROVE StarterIsRight(q)' /\ AloneIsRight(q)'
  BY <1>2, <1>6, <1>7 DEF SchemaInv, StarterIsRight, AloneIsRight, Complete
<1>9. ASSUME NEW r \in Readers PROVE ReaderIsRight(r)'
  BY <1>2, <1>6 DEF SchemaInv, ReaderIsRight, Complete
<1>10. RawErrorsAreMeetings'
  BY <1>2, <1>3, <1>7 DEF SchemaInv, RawErrorsAreMeetings, MigratedBefore,
     applied_migration_versions
<1> QED
  BY <1>2, <1>4, <1>5, <1>7, <1>8, <1>9, <1>10 DEF SchemaInv

\* Where nothing is recorded nobody relies on a table, and all may be dropped.
LEMMA ReconcileKeeps == ASSUME SchemaInv, Reconcile PROVE SchemaInv'
<1>1. /\ DOMAIN database' = {} /\ DOMAIN foreign' = {}
      /\ UNCHANGED <<recorded, starter, reader, breaks, plugins>>
  BY DEF Reconcile
<1>2. 1 \notin recorded /\ HistoryIsTrue
  BY Recorded DEF SchemaInv, Reconcile
<1>3. HistoryIsTrue' /\ SchemaTypeOK' /\ ForeignTablesStand'
  BY <1>1, <1>2 DEF HistoryIsTrue, SchemaInv, SchemaTypeOK, ForeignTablesStand, Versions
<1>4. ~Complete /\ ~MigratedBefore
  BY <1>2, Recorded DEF Reconcile, Complete, Versions
<1>5. RawErrorsAreMeetings'
  BY <1>1, <1>4 DEF SchemaInv, RawErrorsAreMeetings
<1>6. ASSUME NEW p \in Starters PROVE StarterIsRight(p)' /\ AloneIsRight(p)'
  BY <1>1, <1>4 DEF SchemaInv, StarterIsRight, AloneIsRight
<1>7. ASSUME NEW r \in Readers PROVE ReaderIsRight(r)'
  BY <1>1, <1>4 DEF SchemaInv, ReaderIsRight
<1> QED
  BY <1>1, <1>3, <1>5, <1>6, <1>7 DEF SchemaInv

\* Nothing that the invariant speaks of is changed.
LEMMA SchemaStutters ==
  ASSUME SchemaInv, UNCHANGED <<database, recorded, foreign, starter, reader, breaks, plugins>>
  PROVE  SchemaInv'
<1>1. /\ HistoryIsTrue' /\ SchemaTypeOK' /\ ForeignTablesStand'
      /\ (MigratedBefore' <=> MigratedBefore)
  BY DEF SchemaInv, HistoryIsTrue, SchemaTypeOK, ForeignTablesStand, MigratedBefore,
     applied_migration_versions
<1>2. (\A t : Diverges(t)' <=> Diverges(t)) /\ (Complete' <=> Complete)
  BY DEF Diverges, table_exists, Complete
<1>3. RawErrorsAreMeetings'
  BY <1>1 DEF SchemaInv, RawErrorsAreMeetings
<1>4. ASSUME NEW p \in Starters PROVE StarterIsRight(p)' /\ AloneIsRight(p)'
  BY <1>2 DEF SchemaInv, StarterIsRight, AloneIsRight
<1>5. ASSUME NEW r \in Readers PROVE ReaderIsRight(r)'
  BY <1>2 DEF SchemaInv, ReaderIsRight
<1> QED
  BY <1>1, <1>3, <1>4, <1>5 DEF SchemaInv

LEMMA SchemaInvKept == SchemaInv /\ [SchemaNext]_schemaVars => SchemaInv'
<1> SUFFICES ASSUME SchemaInv, [SchemaNext]_schemaVars PROVE SchemaInv'
  OBVIOUS
<1>1. ASSUME NEW p \in Starters, StartsAlone(p) PROVE SchemaInv'
  BY <1>1, StartKeeps, GuardKeeps, RunnerKeeps, ApplyKeeps, PreflightKeeps DEF StartsAlone, Step
<1>2. ASSUME NEW p \in Starters, FailsMidway(p), UNCHANGED <<foreign, reader, plugins, pluginDone>>
      PROVE  SchemaInv'
  <2>1. breaks' \in 0 .. MaxBreaks
    BY <1>2, SchemaAssumption DEF FailsMidway, SchemaInv, SchemaTypeOK
  <2> QED
    BY <1>2, <2>1, EndsKeeps DEF FailsMidway
<1>3. CASE Reading
  BY <1>3, ReadKeeps DEF Reading
<1>4. CASE \E t \in {"devices", "people", "state"} : PluginCreates(t)
  BY <1>4, PluginKeeps
<1>5. CASE Reconcile
  BY <1>5, ReconcileKeeps
<1>6. CASE PluginDone \/ UNCHANGED schemaVars
  BY <1>6, SchemaStutters DEF PluginDone, schemaVars
<1> QED
  BY <1>1, <1>2, <1>3, <1>4, <1>5, <1>6 DEF SchemaNext, Starting

\* Nobody works on half a schema, nothing of the plugin's is taken and the raw
\* error of refinery is left to those who meet, for any number of starters and
\* readers, whatever falls between two queries (db/schema.rs preflight,
\* check_readable, check_daemon_migrated_first).
THEOREM SchemaIsSafe == SchemaSpec => [](SchemaTypeOK /\ StartIsGuarded)
<1>1. SchemaInv => SchemaTypeOK /\ StartIsGuarded
  <2> SUFFICES ASSUME SchemaInv PROVE SchemaTypeOK /\ StartIsGuarded
    OBVIOUS
  <2>1. (\A t \in All : ~Diverges(t)) /\ Complete => Whole
    BY Recorded DEF SchemaInv
  <2>2. ServedIsWhole
    BY <2>1 DEF SchemaInv, StarterIsRight, ReaderIsRight, ServedIsWhole
  <2> QED
    BY <2>2 DEF SchemaInv, StartIsGuarded
<1> QED
  BY <1>1, SchemaInvInit, SchemaInvKept, PTL DEF SchemaSpec

-----------------------------------------------------------------------------
\* The types of both, where a behaviour is one of either (MCServices).
THEOREM ServicesTypes == ServicesSpec => []ServicesTypesHold
<1> DEFINE Inv == ControllerInv /\ SchemaInv
<1>1. ServicesInit => Inv
  BY ControllerInvInit, SchemaInvInit DEF ServicesInit
<1>2. Inv /\ [ServicesNext]_servicesVars => Inv'
  BY ControllerInvKept, SchemaInvKept DEF ServicesNext, servicesVars
<1>3. Inv => ServicesTypesHold
  BY DEF ControllerInv, SchemaInv, ServicesTypesHold
<1> HIDE DEF Inv
<1> QED
  BY <1>1, <1>2, <1>3, PTL DEF ServicesSpec
=============================================================================
