------------------------------- MODULE Gateway -------------------------------
(***************************************************************************)
(* Which device is the gateway (src/analyze/gateway.rs): its address from  *)
(* the configuration, from the router option of a DHCP lease or from how   *)
(* many devices ask for it, and its MAC from whoever speaks for that       *)
(* address.  One step is one observation, GatewayTracker::observe.         *)
(***************************************************************************)
EXTENDS Integers, FiniteSets

CONSTANTS
  IPs,             \* ordinary IPv4 addresses
  MACs,
  None,
  ConfiguredIP,    \* security.gateway_ip
  ConfiguredMAC,   \* security.gateway_mac
  ProxyArp,        \* security.proxy_arp_gateway
  Quorum,          \* INFERENCE_QUORUM
  MaxCandidates,   \* MAX_CANDIDATES
  MaxProxied       \* MAX_PROXIED

ASSUME GatewayConstants ==
  /\ None \notin IPs /\ None \notin MACs /\ IsFiniteSet(MACs)
  /\ ConfiguredIP \in IPs \union {None}
  /\ ConfiguredMAC \in MACs \union {None}
  /\ ProxyArp \in BOOLEAN
  /\ Quorum \in Nat \ {0} /\ MaxCandidates \in Nat /\ MaxProxied \in Nat

VARIABLES
  gateway,    \* the tracker
  answered    \* history: who has spoken for its address since it was adopted

(***************************************************************************)
(* GatewaySource, as the rank the code compares.                           *)
(***************************************************************************)
Unknown == 0
Inferred == 1
Dhcp == 2
Configured == 3
Sources == Unknown .. Configured

(***************************************************************************)
(* A frame, as far as the tracker and the guards look at it: who sent it,  *)
(* the address it uses (for ARP its sender field, absent in a probe), the  *)
(* address a request asks for, and the router a DHCP lease names.          *)
(***************************************************************************)
Arp == {"request", "reply"}
Frames ==
  [src : MACs, kind : {"reply", "other"}, ip : IPs \union {None}, target : {None},
   router : {None}]
    \union [src : MACs, kind : {"request"}, ip : IPs \union {None}, target : IPs,
            router : {None}]
    \union [src : MACs, kind : {"lease"}, ip : IPs \union {None}, target : {None},
            router : IPs]

NoAskers == [a \in IPs |-> {}]
Candidates(g) == {a \in IPs : g.askers[a] # {}}

IsGateway(g, m) == g.mac = m

\* The gateway answering for an address that is not its own.
ProxyArpFor(g, f) ==
  /\ ProxyArp
  /\ f.kind = "reply" /\ f.ip # None
  /\ IsGateway(g, f.src)
  /\ f.ip # g.ip

(***************************************************************************)
(* set_ip: a source of lower rank is refused, and a MAC that was learned   *)
(* belongs to the address it was learned for.                              *)
(***************************************************************************)
\* Mutants: the MAC outlives its address; only the MAC goes and its source
\* stays; the count outlives the election; the latest word wins.
SetIpKeepingMac(g, a, source) ==
  IF source < g.ipSource THEN g
  ELSE [g EXCEPT !.ip = a, !.ipSource = source, !.askers = NoAskers]
SetIpHalfForgetting(g, a, source) ==
  LET forget == a # g.ip /\ g.macSource # Configured
  IN  IF source < g.ipSource THEN g
      ELSE [g EXCEPT !.ip = a, !.ipSource = source, !.askers = NoAskers,
                     !.mac = IF forget THEN None ELSE @]
SetIpStillCounting(g, a, source) ==
  LET forget == a # g.ip /\ g.macSource # Configured
  IN  IF source < g.ipSource THEN g
      ELSE [g EXCEPT !.ip = a, !.ipSource = source,
                     !.mac = IF forget THEN None ELSE @,
                     !.macSource = IF forget THEN Unknown ELSE @]
SetIpLatest(g, a, source) ==
  [g EXCEPT !.ip = a, !.ipSource = source, !.askers = NoAskers]

SetIp(g, a, source) ==
  LET forget == a # g.ip /\ g.macSource # Configured
  IN  IF source < g.ipSource THEN g
      ELSE [g EXCEPT !.ip = a, !.ipSource = source, !.askers = NoAskers,
                     !.mac = IF forget THEN None ELSE @,
                     !.macSource = IF forget THEN Unknown ELSE @]

\* Mutant: equal evidence is enough to replace a known MAC.
SetMacLatest(g, m, source) ==
  IF source # Unknown /\ source >= g.macSource
  THEN [g EXCEPT !.mac = m, !.macSource = source] ELSE g

\* set_mac: learning needs equal rank, replacing needs a higher one.
SetMac(g, m, source) ==
  IF /\ source # Unknown
     /\ IF g.mac = None THEN source >= g.macSource ELSE source > g.macSource
  THEN [g EXCEPT !.mac = m, !.macSource = source]
  ELSE g

\* record_asker: the address a quorum of devices has asked for is inferred.
Counted(g, a, m) == [g.askers EXCEPT ![a] = @ \union {m}]
RecordAsker(g, a, m) ==
  LET asked == [g EXCEPT !.askers = Counted(g, a, m)]
      full == g.askers[a] = {} /\ Cardinality(Candidates(g)) >= MaxCandidates
  IN  IF g.ipSource > Inferred \/ full THEN g
      ELSE IF Cardinality(asked.askers[a]) >= Quorum THEN SetIp(asked, a, Inferred)
      ELSE asked

\* Mutant: a probe, which claims no address, is noted like a reply that does.
NoteProbes(g, f) ==
  IF IsGateway(g, f.src) /\ Cardinality(g.proxied) < MaxProxied
  THEN [g EXCEPT !.proxied = @ \union {f.ip}] ELSE g

NoteProxyArp(g, f) ==
  IF ProxyArpFor(g, f) /\ Cardinality(g.proxied) < MaxProxied
  THEN [g EXCEPT !.proxied = @ \union {f.ip}] ELSE g

\* The branches of observe in their order.  The branch for replies and the
\* one for any traffic from the gateway's address do the same, since the
\* address of an ARP observation is its sender field.
Leased(g, f) == IF f.router # None THEN SetIp(g, f.router, Dhcp) ELSE g
Gratuitous(f) == f.ip = f.target
Asked(g, f) ==
  IF f.kind = "request" /\ ~Gratuitous(f) THEN RecordAsker(g, f.target, f.src) ELSE g
Spoken(g, f) == IF f.ip # None /\ f.ip = g.ip THEN SetMac(g, f.src, g.ipSource) ELSE g
Observed(g, f) == NoteProxyArp(Spoken(Asked(Leased(g, f), f), f), f)

Learn(f) ==
  /\ gateway' = Observed(gateway, f)
  /\ answered' = (IF gateway'.ip = gateway.ip THEN answered ELSE {})
                   \union (IF f.ip # None /\ f.ip = gateway'.ip THEN {f.src} ELSE {})

SourceOf(configured) == IF configured # None THEN Configured ELSE Unknown

GatewayInit ==
  /\ gateway = [ip |-> ConfiguredIP, ipSource |-> SourceOf(ConfiguredIP),
                mac |-> ConfiguredMAC, macSource |-> SourceOf(ConfiguredMAC),
                askers |-> NoAskers, proxied |-> {}]
  /\ answered = {}

gatewayVars == <<gateway, answered>>
GatewayNext == \E f \in Frames : Learn(f)
GatewaySpec == GatewayInit /\ [][GatewayNext]_gatewayVars

(***************************************************************************)
(* Properties.                                                             *)
(***************************************************************************)
GatewayType ==
  gateway \in [ip : IPs \union {None}, ipSource : Sources,
               mac : MACs \union {None}, macSource : Sources,
               askers : [IPs -> SUBSET MACs], proxied : SUBSET IPs]

\* The MAC believed to be the gateway's is one that has spoken for the address
\* believed to be the gateway's, and has done so since that address was
\* adopted: no change of address by a lease or by an inference leaves the MAC
\* of the old one behind, which the analyzers would then trust.
MacSpokeForTheAddress ==
  gateway.mac # None /\ gateway.macSource # Configured => gateway.mac \in answered

\* A MAC learned is as well founded as the address, never better, so that
\* evidence of the rank of the address cannot be refused by, nor displace, it.
MacRestsOnTheAddress ==
  /\ gateway.mac = None <=> gateway.macSource = Unknown
  /\ gateway.ip = None <=> gateway.ipSource = Unknown
  /\ gateway.macSource # Configured => gateway.macSource <= gateway.ipSource

\* The count never stands at the quorum without having elected, and nothing is
\* counted once something authoritative has named the address.
CountIsOpen ==
  /\ \A a \in IPs : Cardinality(gateway.askers[a]) < Quorum
  /\ gateway.ipSource > Inferred => gateway.askers = NoAskers

\* What the operator configured stands, whatever is heard.
ConfigurationStands ==
  /\ ConfiguredIP # None => gateway.ip = ConfiguredIP /\ gateway.ipSource = Configured
  /\ ConfiguredMAC # None => gateway.mac = ConfiguredMAC /\ gateway.macSource = Configured

\* A known gateway MAC gives way only when the address it stood for changes or
\* to evidence of a strictly higher rank than it was learned from.
KnownMacStands ==
  [][gateway.mac # None /\ gateway'.mac # gateway.mac =>
       \/ gateway'.ip # gateway.ip
       \/ gateway'.macSource > gateway.macSource]_gatewayVars

\* What is believed of the gateway hangs together: MAC, address and the count of
\* the inference, each learned by its own frames.
BeliefsHangTogether == MacSpokeForTheAddress /\ MacRestsOnTheAddress /\ CountIsOpen
=============================================================================
