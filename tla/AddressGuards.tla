---------------------------- MODULE AddressGuards ----------------------------
(***************************************************************************)
(* The two analyzers that watch who uses an address: arp_spoof, which      *)
(* reports an address that changes hands while its holder is active or     *)
(* that is the gateway's, and ip_conflict, which reports two devices using *)
(* one address at a time (src/analyze/arp_spoof.rs, ip_conflict.rs), with  *)
(* the tables both keep (window.rs) and the chain that runs them (mod.rs). *)
(* Every frame reaches the tracker of module Gateway first.                *)
(***************************************************************************)
EXTENDS Gateway, FiniteSetsExt

CONSTANTS
  Exempt,           \* security.exempt
  Grace,            \* security.arp_spoof.grace_period
  ActiveWithin,     \* security.ip_conflict.active_within
  SpoofCooldown,    \* COOLDOWN of arp_spoof
  ConflictCooldown, \* COOLDOWN of ip_conflict
  MaxTracked,       \* security.max_tracked
  MaxNow            \* bound on the clock

NoTime == 0 - 1
Moments == 0 .. MaxNow

\* Holder and Users: the latest device, when it was heard, the last alert.
Records == [mac : MACs, at : Moments, alert : Moments \union {NoTime}]
Entries == Records \union {None}

ASSUME GuardConstants ==
  /\ Exempt \subseteq MACs
  /\ {Grace, ActiveWithin, MaxNow} \subseteq Nat
  /\ {SpoofCooldown, ConflictCooldown} \subseteq Nat \ {0}
  /\ MaxTracked \in Nat \ {0}
  /\ None \notin Records
  /\ IsFiniteSet(IPs)

VARIABLES
  now,
  holders,    \* ArpSpoof.holders: who holds each address, None if untracked
  users,      \* IpConflict.addresses: the latest user of each address
  alerts,     \* the alerts the last frame raised and the chain let through
  decided,    \* history: when an alert of each kind about an address was decided,
              \* as long as its table remembers the address
  heard       \* history: when each MAC was last heard with each address

guards == <<holders, users, alerts, decided, heard>>
vars == <<gateway, answered, now, guards>>

\* cooled_down
CooledDown(last, cooldown) == last = NoTime \/ now - last >= cooldown

(***************************************************************************)
(* BoundedMap: a new key evicts the least recently touched one.            *)
(***************************************************************************)
Tracked(map) == {a \in IPs : map[a] # None}
\* Mutant: a full table takes one entry more.
RoomForOneMore(map, a) == {map}

Oldest(map) == {a \in Tracked(map) : \A b \in Tracked(map) : map[a].at <= map[b].at}
Rooms(map, a) ==
  IF map[a] # None \/ Cardinality(Tracked(map)) < MaxTracked THEN {map}
  ELSE {[map EXCEPT ![x] = None] : x \in Oldest(map)}

(***************************************************************************)
(* ArpSpoof::analyze, with the tracker as g.  The claim is recorded        *)
(* whether or not it raised an alert.                                      *)
(***************************************************************************)
Claims(f) == f.kind \in Arp /\ f.ip # None
Impersonates(g, f) == f.ip = g.ip /\ ~IsGateway(g, f.src)
Displaces(f) ==
  /\ holders[f.ip] # None /\ holders[f.ip].mac # f.src
  /\ now - holders[f.ip].at < Grace

LastAlert(map, a) == IF map[a] = None THEN NoTime ELSE map[a].alert

SpoofAlerts(g, f) ==
  /\ Claims(f) /\ ~ProxyArpFor(g, f)
  /\ Impersonates(g, f) \/ Displaces(f)
  /\ CooledDown(LastAlert(holders, f.ip), SpoofCooldown)

\* Mutant: the claim is recorded and the alert before it forgotten.
SpoofRecordsAfresh(g, f, alert) ==
  IF Claims(f) /\ ~ProxyArpFor(g, f)
  THEN \E room \in Rooms(holders, f.ip) :
         holders' = [room EXCEPT ![f.ip] =
           [mac |-> f.src, at |-> now, alert |-> IF alert THEN now ELSE NoTime]]
  ELSE holders' = holders

SpoofRecords(g, f, alert) ==
  IF Claims(f) /\ ~ProxyArpFor(g, f)
  THEN \E room \in Rooms(holders, f.ip) :
         holders' = [room EXCEPT ![f.ip] =
           [mac |-> f.src, at |-> now,
            alert |-> IF alert THEN now ELSE LastAlert(holders, f.ip)]]
  ELSE holders' = holders

(***************************************************************************)
(* IpConflict::analyze.                                                    *)
(***************************************************************************)
\* Mutant: only an address that changed hands a tick ago counts as shared.
ConflictAlertsLate(g, f) ==
  /\ f.ip # None /\ ~ProxyArpFor(g, f)
  /\ users[f.ip] # None /\ users[f.ip].mac # f.src
  /\ now - users[f.ip].at < ActiveWithin
  /\ CooledDown(users[f.ip].alert, ConflictCooldown)

ConflictAlerts(g, f) ==
  /\ f.ip # None /\ ~ProxyArpFor(g, f)
  /\ users[f.ip] # None /\ users[f.ip].mac # f.src
  /\ now - users[f.ip].at <= ActiveWithin
  /\ CooledDown(users[f.ip].alert, ConflictCooldown)

\* Mutant: the users of an address are recorded before proxy ARP is told apart.
ConflictRecordsAll(g, f, alert) ==
  IF f.ip # None
  THEN \E room \in Rooms(users, f.ip) :
         users' = [room EXCEPT ![f.ip] =
           [mac |-> f.src, at |-> now,
            alert |-> IF alert THEN now ELSE LastAlert(users, f.ip)]]
  ELSE users' = users

ConflictRecords(g, f, alert) ==
  IF f.ip # None /\ ~ProxyArpFor(g, f)
  THEN \E room \in Rooms(users, f.ip) :
         users' = [room EXCEPT ![f.ip] =
           [mac |-> f.src, at |-> now,
            alert |-> IF alert THEN now ELSE LastAlert(users, f.ip)]]
  ELSE users' = users

(***************************************************************************)
(* Chain::observe: the tracker learns, then the analyzers look, and alerts *)
(* about an exempt MAC are dropped after they were decided.                *)
(***************************************************************************)
Kinds == {"arp_spoof", "ip_conflict"}
Table(k) == IF k = "arp_spoof" THEN holders ELSE users
Cooldown(k) == IF k = "arp_spoof" THEN SpoofCooldown ELSE ConflictCooldown

Raised(g, f) ==
  {k \in Kinds : IF k = "arp_spoof" THEN SpoofAlerts(g, f) ELSE ConflictAlerts(g, f)}

Observe(f) ==
  LET raised == Raised(gateway', f)
  IN  /\ Learn(f)
      /\ SpoofRecords(gateway', f, "arp_spoof" \in raised)
      /\ ConflictRecords(gateway', f, "ip_conflict" \in raised)
      /\ alerts' = IF f.src \in Exempt THEN {}
                   ELSE {[kind |-> k, mac |-> f.src, ip |-> f.ip] : k \in raised}
      /\ decided' = [a \in IPs |-> [k \in Kinds |->
                       IF k \in raised /\ a = f.ip THEN now
                       ELSE IF Table(k)'[a] = None THEN NoTime ELSE decided[a][k]]]
      /\ heard' = IF f.ip = None \/ ProxyArpFor(gateway', f) THEN heard
                  ELSE [heard EXCEPT ![f.ip][f.src] = now]
      /\ UNCHANGED now

Tick ==
  /\ now < MaxNow
  /\ now' = now + 1
  /\ alerts' = {}
  /\ UNCHANGED <<gateway, answered, holders, users, decided, heard>>

Init ==
  /\ GatewayInit
  /\ now = 0
  /\ holders = [a \in IPs |-> None]
  /\ users = [a \in IPs |-> None]
  /\ alerts = {}
  /\ decided = [a \in IPs |-> [k \in Kinds |-> NoTime]]
  /\ heard = [a \in IPs |-> [m \in MACs |-> NoTime]]

Next == Tick \/ \E f \in Frames : Observe(f)

Spec == Init /\ [][Next]_vars

(***************************************************************************)
(* Properties.                                                             *)
(***************************************************************************)
\* The types, and the cap on both tables.
TypeOK ==
  /\ GatewayType
  /\ answered \subseteq MACs
  /\ now \in Moments
  /\ holders \in [IPs -> Entries] /\ Cardinality(Tracked(holders)) <= MaxTracked
  /\ users \in [IPs -> Entries] /\ Cardinality(Tracked(users)) <= MaxTracked
  /\ alerts \subseteq [kind : Kinds, mac : MACs \ Exempt, ip : IPs]
  /\ decided \in [IPs -> [Kinds -> Moments \union {NoTime}]]
  /\ heard \in [IPs -> [MACs -> Moments \union {NoTime}]]

\* An alert about an address is followed by silence about it for a cooldown,
\* whoever claims it meanwhile and however often it changes hands.
OneAlertPerCooldown ==
  [][\A a \in IPs, k \in Kinds :
       decided[a][k] # NoTime /\ decided'[a][k] \notin {NoTime, decided[a][k]} =>
         decided'[a][k] - decided[a][k] >= Cooldown(k)]_vars

LastHeard(a) == Max({heard[a][m] : m \in MACs})

\* Nobody is accused over the gateway's proxy ARP: behind every alert stands
\* another device that used the address itself, or a claim on the gateway's
\* address by a device that is not the gateway.
NobodyIsBlamedForProxyArp ==
  \A alert \in alerts :
    \/ \E m \in MACs \ {alert.mac} : heard[alert.ip][m] # NoTime
    \/ /\ alert.kind = "arp_spoof"
       /\ alert.ip = gateway.ip /\ alert.mac # gateway.mac

\* Two devices that used one address close together have been reported, then
\* or within the cooldown before, by a table that has not had to forget it.
SharedAddressIsReported ==
  \A a \in IPs : \A m1, m2 \in MACs :
    LET first == heard[a][m1]
        second == heard[a][m2]
        busy == {b \in IPs : LastHeard(b) >= first}
    IN  /\ m1 # m2 /\ first # NoTime
        /\ second - first \in 0 .. ActiveWithin
        /\ Cardinality(busy) <= MaxTracked
        => /\ decided[a]["ip_conflict"] # NoTime
           /\ second - decided[a]["ip_conflict"] < ConflictCooldown + ActiveWithin
=============================================================================
