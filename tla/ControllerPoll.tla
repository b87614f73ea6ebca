--------------------------- MODULE ControllerPoll ---------------------------
(***************************************************************************)
(* One enricher, the UniFi client, and its schedule (enrich/mod.rs         *)
(* Orchestrator, enrich/unifi.rs UnifiEnricher).  A poll asks the          *)
(* controller for its clients and, if it has to, for the names of its      *)
(* access points; either question may first have to find out what kind of  *)
(* controller this is or to log in, and may find that the session is no    *)
(* longer good.  Every request is a step, so the controller may restart,   *)
(* drop the session or refuse the account between any two of them.         *)
(***************************************************************************)
EXTENDS Naturals, FiniteSets

CONSTANTS
  Clients,     \* stations of the wireless network
  AccessPoints,
  Nowhere      \* not associated, or not placed

ASSUME ControllerAssumption == Nowhere \notin AccessPoints

Shapes == {"classic", "unifi_os"}   \* as prefixes: the root, /proxy/network
NotFound == "none"                  \* no prefix yet

VARIABLES
  auth,       \* an API key or a local account
  (* the controller *)
  shape,
  upgraded,   \* has its shape changed?
  calm,       \* from here on it works and stays as it is
  up,         \* it can be reached
  app,        \* the network application answers
  accepts,    \* the configured credentials are good
  valid,      \* the session is
  at,         \* where each client is associated
  (* Session *)
  prefix, loggedIn,
  (* the poll under way *)
  pc, path, attempt,
  refusals,   \* logins refused in it
  clients,    \* the answer to the first question
  known,      \* the devices it was given
  (* the schedule and the result *)
  pollDue, lastPoll,
  table,      \* devices seen on the wire
  placed      \* the access point each is believed to be at, and how it is called

controllerVars == <<auth, shape, upgraded, calm, up, app, accepts, valid, at, prefix,
                    loggedIn, pc, path, attempt, refusals, clients, known, pollDue,
                    lastPoll, table, placed>>
outsideVars == <<shape, upgraded, calm, up, app, accepts, valid, at, table>>
sessionVars == <<prefix, loggedIn>>
pollVars == <<path, attempt, clients, known>>
resultVars == <<pollDue, lastPoll, placed>>

Steps == {"idle", "login_os", "login_classic", "probe_classic", "probe_os", "get"}
Positions == [ap : AccessPoints, called : {"name", "mac"}]

ControllerTypeOK ==
  /\ auth \in {"key", "login"} /\ shape \in Shapes
  /\ prefix \in Shapes \cup {NotFound}
  /\ pc \in Steps /\ path \in {"sta", "device"} /\ attempt \in 0 .. 1
  /\ clients \in [Clients -> AccessPoints \cup {Nowhere}]
  /\ placed \in [Clients -> Positions \cup {Nowhere}]
  /\ lastPoll \in {"none", "found", "failed"}

ControllerInit ==
  /\ auth \in {"key", "login"} /\ shape \in Shapes
  /\ upgraded = FALSE /\ calm = FALSE
  /\ up = TRUE /\ app = TRUE /\ accepts = TRUE /\ valid = FALSE
  /\ at = [m \in Clients |-> Nowhere]
  /\ prefix = NotFound /\ loggedIn = FALSE
  /\ pc = "idle" /\ path = "sta" /\ attempt = 0 /\ refusals = 0
  /\ clients = at /\ known = {}
  /\ pollDue = TRUE /\ lastPoll = "none"
  /\ table = {} /\ placed = [m \in Clients |-> Nowhere]
-----------------------------------------------------------------------------
(* The controller: external, as far as the client tells its answers apart. *)

Trouble ==
  /\ ~calm
  /\ \/ up' = ~up /\ valid' = FALSE /\ UNCHANGED <<app, accepts, shape, upgraded>>
     \/ app' = ~app /\ UNCHANGED <<up, accepts, valid, shape, upgraded>>
     \/ accepts' = ~accepts /\ UNCHANGED <<up, app, valid, shape, upgraded>>
     \/ valid /\ valid' = FALSE /\ UNCHANGED <<up, app, accepts, shape, upgraded>>
     \/ /\ ~upgraded /\ shape = "classic" /\ shape' = "unifi_os"
        /\ upgraded' = TRUE /\ valid' = FALSE
        /\ UNCHANGED <<up, app, accepts>>
  /\ UNCHANGED <<auth, calm, at, table, sessionVars, pc, refusals, pollVars, resultVars>>

Settle ==
  /\ ~calm /\ calm' = TRUE
  /\ up' = TRUE /\ app' = TRUE /\ accepts' = TRUE
  /\ UNCHANGED <<auth, shape, upgraded, valid, at, table, sessionVars, pc, refusals,
                 pollVars, resultVars>>

Roam(m, ap) ==
  /\ at[m] # ap /\ at' = [at EXCEPT ![m] = ap]
  /\ UNCHANGED <<auth, shape, upgraded, calm, up, app, accepts, valid, table,
                 sessionVars, pc, refusals, pollVars, resultVars>>

\* The answers: "ok", "denied" (401, 403), "other" (any other status, or none).
LoginAnswer(kind) ==
  IF ~up \/ shape # kind THEN {"other"} ELSE IF accepts THEN {"ok"} ELSE {"denied"}

ApiAnswer(p) ==
  IF ~up THEN {"other"}
  ELSE IF p # shape THEN {"other", "denied"}
  ELSE IF (auth = "key" /\ ~accepts) \/ (auth = "login" /\ ~valid) THEN {"denied"}
  ELSE IF app THEN {"ok"} ELSE {"other"}
-----------------------------------------------------------------------------
(* unifi.rs                                                                *)

NeedsLogin(in) == auth = "login" /\ ~in

\* Mutant: a prefix that is known is a session that is good.
EnsureOnce(in) ==
  pc' = IF prefix # NotFound THEN "get" ELSE IF auth = "key" THEN "probe_classic" ELSE "login_os"

\* ensure_session: the prefix that is known is used, unless a login is needed.
EnsureSession(in) ==
  pc' = IF prefix # NotFound /\ ~NeedsLogin(in) THEN "get"
        ELSE IF auth = "key" THEN "probe_classic" ELSE "login_os"

Settled(p) == prefix' = p /\ loggedIn' = TRUE /\ pc' = "get"

\* poll_due: the next poll is an interval after the end of this one; a failed
\* one counts and leaves everything as it was.
PollFails ==
  /\ pc' = "idle" /\ pollDue' = FALSE /\ lastPoll' = "failed"
  /\ UNCHANGED <<placed, pollVars>>

\* Mutant: clients of the wire are placed too, at no access point.
ReportWired(answer, called) ==
  /\ pc' = "idle" /\ pollDue' = FALSE /\ lastPoll' = "found"
  /\ placed' = [m \in Clients |->
       IF m \in table /\ (known = {} \/ m \in known)
       THEN [ap |-> answer[m], called |-> called] ELSE placed[m]]

\* enrich: an access point has the name of the inventory, or else its MAC, and
\* devices netgraspd was not given are left out.  daemon.rs apply_enrichments
\* leaves out the ones it does not have.
Report(answer, called) ==
  /\ pc' = "idle" /\ pollDue' = FALSE /\ lastPoll' = "found"
  /\ placed' = [m \in Clients |->
       IF answer[m] # Nowhere /\ m \in table /\ (known = {} \/ m \in known)
       THEN [ap |-> answer[m], called |-> called] ELSE placed[m]]

\* A question that cannot be answered: without the clients the poll fails,
\* without the inventory the access points go by their MAC.
GiveUp ==
  IF path = "sta" THEN PollFails
  ELSE Report(clients, "mac") /\ UNCHANGED pollVars

\* poll_due, with the devices of the snapshot that was offered.
StartPoll ==
  /\ pc = "idle" /\ pollDue
  /\ known' = table /\ path' = "sta" /\ attempt' = 0 /\ refusals' = 0
  /\ EnsureSession(loggedIn)
  /\ UNCHANGED <<auth, outsideVars, sessionVars, clients, resultVars>>

\* Mutant: a refusal starts over.
LoginUntilAccepted(here, kind, next) ==
  /\ pc = here
  /\ \E answer \in LoginAnswer(kind) :
       IF answer = "ok"
       THEN Settled(kind) /\ valid' = TRUE /\ UNCHANGED <<refusals, pollVars, resultVars>>
       ELSE /\ refusals' = IF answer = "denied" THEN refusals + 1 ELSE refusals
            /\ pc' = "login_os"
            /\ UNCHANGED <<valid, sessionVars, pollVars, resultVars>>
  /\ UNCHANGED <<auth, shape, upgraded, calm, up, app, accepts, at, table>>

\* A refusal by a real login endpoint is final; otherwise the other one is
\* tried before giving up.
Login(here, kind, next) ==
  /\ pc = here
  /\ \E answer \in LoginAnswer(kind) :
       IF answer = "ok"
       THEN Settled(kind) /\ valid' = TRUE /\ UNCHANGED <<refusals, pollVars, resultVars>>
       ELSE /\ refusals' = IF answer = "denied" THEN refusals + 1 ELSE refusals
            /\ IF answer = "denied" \/ next = "none" THEN GiveUp
               ELSE pc' = next /\ UNCHANGED <<pollVars, resultVars>>
            /\ UNCHANGED <<valid, sessionVars>>
  /\ UNCHANGED <<auth, shape, upgraded, calm, up, app, accepts, at, table>>

\* discover_prefix
Probe(here, kind, next) ==
  /\ pc = here
  /\ \E answer \in ApiAnswer(kind) :
       IF answer = "ok" THEN Settled(kind) /\ UNCHANGED <<pollVars, resultVars>>
       ELSE /\ IF next = "none" THEN GiveUp ELSE pc' = next /\ UNCHANGED <<pollVars, resultVars>>
            /\ UNCHANGED sessionVars
  /\ UNCHANGED <<auth, outsideVars, refusals>>

\* get: one answer that is a refusal logs in again, a second one is final.
Get ==
  /\ pc = "get"
  /\ \E answer \in ApiAnswer(prefix) :
       \/ /\ answer = "ok" /\ path = "sta"
          /\ clients' = at
          /\ IF \E m \in Clients : at[m] # Nowhere
             THEN /\ path' = "device" /\ attempt' = 0 /\ EnsureSession(loggedIn)
                  /\ UNCHANGED resultVars
             ELSE Report(at, "name") /\ UNCHANGED <<path, attempt>>
          /\ UNCHANGED <<sessionVars, known>>
       \/ /\ answer = "ok" /\ path = "device"
          /\ Report(clients, "name") /\ UNCHANGED <<sessionVars, pollVars>>
       \/ /\ answer = "denied" /\ attempt = 0
          /\ attempt' = 1 /\ loggedIn' = FALSE /\ EnsureSession(FALSE)
          /\ UNCHANGED <<prefix, path, clients, known, resultVars>>
       \/ /\ answer = "other" \/ (answer = "denied" /\ attempt = 1)
          /\ GiveUp /\ UNCHANGED sessionVars
  /\ UNCHANGED <<auth, outsideVars, refusals>>

Request ==
  \/ Login("login_os", "unifi_os", "login_classic")
  \/ Login("login_classic", "classic", "none")
  \/ Probe("probe_classic", "classic", "probe_os")
  \/ Probe("probe_os", "unifi_os", "none")
  \/ Get

\* The interval is over.
ComeDue ==
  /\ pc = "idle" /\ ~pollDue /\ pollDue' = TRUE
  /\ UNCHANGED <<auth, outsideVars, sessionVars, pc, refusals, pollVars, lastPoll, placed>>

\* A packet of a device nobody had heard of.
SeeDevice(m) ==
  /\ m \notin table /\ table' = table \cup {m}
  /\ UNCHANGED <<auth, shape, upgraded, calm, up, app, accepts, valid, at, sessionVars,
                 pc, refusals, pollVars, resultVars>>

ControllerNext ==
  \/ Trouble \/ Settle \/ \E m \in Clients : \E ap \in AccessPoints : Roam(m, ap)
  \/ StartPoll \/ Request \/ ComeDue
  \/ \E m \in Clients : SeeDevice(m)

\* Requests end, if only by the timeout, and the timers run (daemon.rs
\* spawn_enricher).  The controller owes nothing.
ControllerFairness ==
  WF_controllerVars(StartPoll \/ Request \/ ComeDue)

ControllerSpec ==
  ControllerInit /\ [][ControllerNext]_controllerVars /\ ControllerFairness
-----------------------------------------------------------------------------
(* A wrong password is tried once in a poll, whatever the controller does  *)
(* between two requests: "retrying a wrong password in a loop is how       *)
(* accounts get locked" (unifi.rs get, login).                             *)
OneRefusalPerPoll == refusals \in 0 .. 1

(* Whatever the controller has been through - restarts, expired sessions,  *)
(* a refused account - once it works and keeps working every poll finds    *)
(* its clients again, without a restart of the daemon.  The exception is   *)
(* real: a controller that becomes the other shape keeps the prefix it had *)
(* (unifi.rs Session.prefix is never cleared), and answers that are not a  *)
(* refusal leave it so (unifi.rs ensure_session, get).                     *)
Recovers == (calm /\ ~upgraded) ~> [](lastPoll = "found")
=============================================================================
