-------------------------- MODULE AddressGuardsProofs --------------------------
(***************************************************************************)
(* Proofs about the gateway tracker of module Gateway, for any addresses,  *)
(* devices, quorum, caps and configuration, and about the two analyzers of *)
(* module AddressGuards that run on top of it, for any cooldowns and caps  *)
(* besides: that they do not disturb the tracker, that the types and the   *)
(* caps of their tables hold, that they never accuse anybody over proxy    *)
(* ARP, that an alert is followed by a cooldown, and that two devices      *)
(* which share an address are reported.                                    *)
(*                                                                         *)
(* A frame goes through up to four functions of the tracker's record, so   *)
(* the tracker's invariant is stated of a record, Sound, shown to be kept  *)
(* by each function, and then by their composition.                        *)
(*                                                                         *)
(* The analyzers' invariant ties each table to the history: the device an  *)
(* entry names has used the address itself, the alert the entry remembers  *)
(* is the last one that was decided, and what a table has forgotten is     *)
(* older than everything in it.                                            *)
(***************************************************************************)
EXTENDS AddressGuards, FiniteSetTheorems, TLAPS

-----------------------------------------------------------------------------
(***************************************************************************)
(* The gateway tracker                                                     *)
(***************************************************************************)
Trackers ==
  [ip : IPs \union {None}, ipSource : Sources,
   mac : MACs \union {None}, macSource : Sources,
   askers : [IPs -> SUBSET MACs], proxied : SUBSET IPs]

\* The invariants of the tracker, of any record.
Rests(g) ==
  /\ g.mac = None <=> g.macSource = Unknown
  /\ g.ip = None <=> g.ipSource = Unknown
  /\ g.macSource # Configured => g.macSource <= g.ipSource
Open(g) ==
  /\ \A a \in IPs : Cardinality(g.askers[a]) < Quorum
  /\ g.ipSource > Inferred => g.askers = NoAskers
AsConfigured(g) ==
  /\ ConfiguredIP # None => g.ip = ConfiguredIP /\ g.ipSource = Configured
  /\ ConfiguredMAC # None => g.mac = ConfiguredMAC /\ g.macSource = Configured
Sound(g) == g \in Trackers /\ Rests(g) /\ Open(g) /\ AsConfigured(g)

\* What a function that may adopt an address does to the MAC: with the address
\* it keeps the MAC, and with another address no learned MAC.
KeepsOrDrops(g, h) ==
  /\ h.ip = g.ip => h.mac = g.mac /\ h.macSource = g.macSource
  /\ h.ip # g.ip => h.mac = None \/ h.macSource = Configured

\* What a device that speaks for the address does to it.
Speaks(g, h, f) ==
  /\ h.ip = g.ip
  /\ \/ h.mac = g.mac /\ h.macSource = g.macSource
     \/ /\ f.ip # None /\ f.ip = g.ip /\ h.mac = f.src
        /\ g.mac # None => h.macSource > g.macSource

GatewayInv == Sound(gateway) /\ MacSpokeForTheAddress

LEMMA NobodyAsks == ASSUME GatewayConstants
                    PROVE /\ NoAskers \in [IPs -> SUBSET MACs]
                          /\ \A a \in IPs : Cardinality(NoAskers[a]) < Quorum
<1>1. Cardinality({}) = 0
  BY FS_EmptySet
<1> QED
  BY <1>1 DEF NoAskers, GatewayConstants

\* An adopted address.
LEMMA SetIpSound ==
  ASSUME GatewayConstants, NEW g \in Trackers, Rests(g), AsConfigured(g),
         g.ipSource > Inferred => g.askers = NoAskers,
         NEW a \in IPs, NEW source \in {Inferred, Dhcp},
         source >= g.ipSource \/ Open(g)
  PROVE  /\ Sound(SetIp(g, a, source))
         /\ KeepsOrDrops(g, SetIp(g, a, source))
<1> DEFINE h == SetIp(g, a, source)
<1>1. CASE source < g.ipSource
  <2>1. h = g
    BY <1>1 DEF SetIp
  <2>2. Open(g)
    BY <1>1 DEF Trackers, Sources, Unknown, Inferred, Dhcp, Configured
  <2> QED
    BY <2>1, <2>2 DEF Sound, KeepsOrDrops
<1>2. CASE ~(source < g.ipSource)
  <2> DEFINE forget == a # g.ip /\ g.macSource # Configured
  <2>1. h = [ip |-> a, ipSource |-> source,
             mac |-> IF forget THEN None ELSE g.mac,
             macSource |-> IF forget THEN Unknown ELSE g.macSource,
             askers |-> NoAskers, proxied |-> g.proxied]
    BY <1>2 DEF SetIp, Trackers
  <2>2. h \in Trackers
    BY <2>1, NobodyAsks
    DEF Trackers, Sources, Unknown, Inferred, Dhcp, Configured, GatewayConstants
  <2>3. Rests(h)
    BY <2>1, <1>2 DEF Rests, Trackers, Sources, Unknown, Inferred, Dhcp, Configured,
       GatewayConstants
  <2>4. Open(h)
    BY <2>1, NobodyAsks DEF Open
  <2>5. AsConfigured(h)
    BY <2>1, <1>2 DEF AsConfigured, Trackers, Sources, Unknown, Inferred, Dhcp, Configured
  <2>6. KeepsOrDrops(g, h)
    BY <2>1 DEF KeepsOrDrops
  <2> QED
    BY <2>2, <2>3, <2>4, <2>5, <2>6 DEF Sound
<1> QED
  BY <1>1, <1>2

\* One more device asks for an address.
LEMMA CountedSound ==
  ASSUME GatewayConstants, NEW g \in Trackers, Open(g), NEW a \in IPs, NEW m \in MACs
  PROVE  /\ Counted(g, a, m) \in [IPs -> SUBSET MACs]
         /\ \A b \in IPs \ {a} : Cardinality(Counted(g, a, m)[b]) < Quorum
         /\ Cardinality(Counted(g, a, m)[a]) \in Nat
<1>1. Counted(g, a, m) \in [IPs -> SUBSET MACs]
  BY DEF Trackers, Counted
<1>2. \A b \in IPs \ {a} : Counted(g, a, m)[b] = g.askers[b]
  BY DEF Trackers, Counted
<1>3. IsFiniteSet(Counted(g, a, m)[a])
  BY <1>1, FS_Subset DEF GatewayConstants
<1>4. Cardinality(Counted(g, a, m)[a]) \in Nat
  BY <1>3, FS_CardinalityType
<1> QED
  BY <1>1, <1>2, <1>4 DEF Open

LEMMA RecordAskerSound ==
  ASSUME GatewayConstants, NEW g, Sound(g), NEW a \in IPs, NEW m \in MACs
  PROVE  /\ Sound(RecordAsker(g, a, m))
         /\ KeepsOrDrops(g, RecordAsker(g, a, m))
<1> DEFINE counted == Counted(g, a, m)
           asked == [g EXCEPT !.askers = counted]
           full == g.askers[a] = {} /\ Cardinality(Candidates(g)) >= MaxCandidates
<1>1. g \in Trackers /\ Rests(g) /\ Open(g) /\ AsConfigured(g)
  BY DEF Sound
<1>2. CASE g.ipSource > Inferred \/ full
  BY <1>2 DEF RecordAsker, KeepsOrDrops
<1>3. CASE ~(g.ipSource > Inferred \/ full)
  <2>1. counted \in [IPs -> SUBSET MACs]
    BY <1>1, CountedSound
  <2>2. asked = [ip |-> g.ip, ipSource |-> g.ipSource, mac |-> g.mac,
                 macSource |-> g.macSource, askers |-> counted, proxied |-> g.proxied]
    <3> HIDE DEF counted
    <3> QED
      BY <1>1 DEF Trackers
  <2>3. asked \in Trackers /\ Rests(asked) /\ AsConfigured(asked)
    <3> HIDE DEF counted, asked
    <3> QED
      BY <1>1, <2>1, <2>2 DEF Trackers, Rests, AsConfigured
  <2>4. g.ipSource \in Sources /\ ~(g.ipSource > Inferred)
    BY <1>1, <1>3 DEF Trackers
  <2>5. CASE Cardinality(counted[a]) >= Quorum
    <3>1. RecordAsker(g, a, m) = SetIp(asked, a, Inferred)
      <4> HIDE DEF counted
      <4> QED
        BY <1>3, <2>5, <2>2 DEF RecordAsker, counted
    <3>2. Inferred >= asked.ipSource /\ ~(asked.ipSource > Inferred)
      BY <2>2, <2>4 DEF Sources, Inferred, Unknown, Configured
    <3>3. /\ Sound(SetIp(asked, a, Inferred))
          /\ KeepsOrDrops(asked, SetIp(asked, a, Inferred))
      <4> HIDE DEF asked
      <4> QED
        BY <2>3, <3>2, SetIpSound
    <3> QED
      BY <3>1, <3>3, <2>2 DEF KeepsOrDrops
  <2>6. CASE ~(Cardinality(counted[a]) >= Quorum)
    <3>1. RecordAsker(g, a, m) = asked
      BY <1>3, <2>6, <2>2 DEF RecordAsker
    <3>2. \A b \in IPs : Cardinality(counted[b]) < Quorum
      <4> HIDE DEF counted
      <4>1. Cardinality(counted[a]) < Quorum
        BY <1>1, <2>6, CountedSound DEF GatewayConstants, counted
      <4>2. \A b \in IPs \ {a} : Cardinality(counted[b]) < Quorum
        BY <1>1, CountedSound DEF counted
      <4> QED
        BY <4>1, <4>2
    <3>3. Open(asked)
      <4> HIDE DEF counted, asked
      <4> QED
        BY <2>2, <2>4, <3>2 DEF Open
    <3>4. KeepsOrDrops(g, asked)
      <4> HIDE DEF asked
      <4> QED
        BY <2>2 DEF KeepsOrDrops
    <3> QED
      BY <3>1, <3>3, <3>4, <2>3 DEF Sound
  <2> QED
    BY <2>5, <2>6
<1> QED
  BY <1>2, <1>3

\* A lease or a question: a frame is one or the other, so at most one address
\* is adopted.
LEMMA AdoptsSound ==
  ASSUME GatewayConstants, NEW g, Sound(g), NEW f \in Frames
  PROVE  /\ Sound(Asked(Leased(g, f), f))
         /\ KeepsOrDrops(g, Asked(Leased(g, f), f))
<1>1. g \in Trackers /\ Rests(g) /\ Open(g) /\ AsConfigured(g)
  BY DEF Sound
<1>2. CASE f.kind = "lease"
  <2>1. f.router \in IPs
    BY <1>2 DEF Frames
  <2>2. f.router # None
    BY <2>1 DEF GatewayConstants
  <2>3. Asked(Leased(g, f), f) = SetIp(g, f.router, Dhcp)
    BY <1>2, <2>2 DEF Asked, Leased
  <2> QED
    BY <1>1, <2>1, <2>3, SetIpSound DEF Open
<1>3. CASE f.kind = "request" /\ ~Gratuitous(f)
  <2>1. f.router = None /\ f.target \in IPs /\ f.src \in MACs
    BY <1>3 DEF Frames
  <2>2. Asked(Leased(g, f), f) = RecordAsker(g, f.target, f.src)
    BY <1>3, <2>1 DEF Asked, Leased
  <2> QED
    BY <2>1, <2>2, RecordAskerSound
<1>4. CASE f.kind # "lease" /\ ~(f.kind = "request" /\ ~Gratuitous(f))
  <2>1. f.router = None
    BY <1>4 DEF Frames
  <2>2. Asked(Leased(g, f), f) = g
    BY <1>4, <2>1 DEF Asked, Leased
  <2> QED
    BY <2>2 DEF KeepsOrDrops
<1> QED
  BY <1>2, <1>3, <1>4

\* A device that speaks for the address.
LEMMA SpokenSound ==
  ASSUME GatewayConstants, NEW g, Sound(g), NEW f \in Frames
  PROVE  Sound(Spoken(g, f)) /\ Speaks(g, Spoken(g, f), f)
<1> DEFINE h == Spoken(g, f)
           learns == /\ f.ip # None /\ f.ip = g.ip
                     /\ g.ipSource # Unknown
                     /\ IF g.mac = None THEN g.ipSource >= g.macSource
                        ELSE g.ipSource > g.macSource
<1>1. g \in Trackers /\ Rests(g) /\ Open(g) /\ AsConfigured(g)
  BY DEF Sound
<1>2. f.src \in MACs
  BY DEF Frames
<1>3. CASE ~learns
  <2>1. h = g
    BY <1>3 DEF Spoken, SetMac
  <2> QED
    BY <2>1 DEF Speaks
<1>4. CASE learns
  <2>1. h = [g EXCEPT !.mac = f.src, !.macSource = g.ipSource]
    BY <1>4 DEF Spoken, SetMac
  <2>2. h = [ip |-> g.ip, ipSource |-> g.ipSource, mac |-> f.src,
             macSource |-> g.ipSource, askers |-> g.askers, proxied |-> g.proxied]
    BY <1>1, <2>1 DEF Trackers
  <2> HIDE DEF h
  <2>3. h \in Trackers
    BY <1>1, <1>2, <2>2 DEF Trackers
  <2>4. Rests(h)
    BY <1>1, <1>2, <1>4, <2>2 DEF Rests, Trackers, Sources, Unknown, Configured, GatewayConstants
  <2>5. Open(h)
    BY <1>1, <2>2 DEF Open
  <2>6. AsConfigured(h)
    BY <1>1, <1>4, <2>2 DEF AsConfigured, Trackers, Sources, Unknown, Configured
  <2>7. Speaks(g, h, f)
    BY <1>4, <2>2 DEF Speaks
  <2> QED
    BY <2>3, <2>4, <2>5, <2>6, <2>7 DEF Sound, h
<1> QED
  BY <1>3, <1>4

\* A reply noted as proxy ARP.
LEMMA NoteProxyArpSound ==
  ASSUME GatewayConstants, NEW g, Sound(g), NEW f \in Frames
  PROVE  LET h == NoteProxyArp(g, f)
         IN  Sound(h) /\ h.ip = g.ip /\ h.mac = g.mac /\ h.macSource = g.macSource
<1> DEFINE h == NoteProxyArp(g, f)
<1>1. g \in Trackers /\ Rests(g) /\ Open(g) /\ AsConfigured(g)
  BY DEF Sound
<1>2. CASE ~(ProxyArpFor(g, f) /\ Cardinality(g.proxied) < MaxProxied)
  BY <1>2 DEF NoteProxyArp
<1>3. CASE ProxyArpFor(g, f) /\ Cardinality(g.proxied) < MaxProxied
  <2>1. f.ip \in IPs
    BY <1>3 DEF ProxyArpFor, Frames
  <2>2. h = [ip |-> g.ip, ipSource |-> g.ipSource, mac |-> g.mac, macSource |-> g.macSource,
             askers |-> g.askers, proxied |-> g.proxied \union {f.ip}]
    BY <1>1, <1>3 DEF NoteProxyArp, Trackers
  <2> HIDE DEF h
  <2>3. Sound(h)
    BY <1>1, <2>1, <2>2 DEF Sound, Trackers, Rests, Open, AsConfigured
  <2> QED
    BY <2>2, <2>3 DEF h
<1> QED
  BY <1>2, <1>3

\* One observation, as a whole: what it keeps, and what becomes of the MAC.
LEMMA ObservedSound ==
  ASSUME GatewayConstants, NEW g, Sound(g), NEW f \in Frames
  PROVE  \E h : /\ Sound(Observed(g, f))
                /\ KeepsOrDrops(g, h) /\ Speaks(h, Observed(g, f), f)
<1> DEFINE h == Asked(Leased(g, f), f)
           k == Spoken(h, f)
<1>1. Sound(h) /\ KeepsOrDrops(g, h)
  BY AdoptsSound
<1>2. Sound(k) /\ Speaks(h, k, f)
  <2> HIDE DEF h
  <2> QED
    BY <1>1, SpokenSound
<1>3. /\ Sound(NoteProxyArp(k, f))
      /\ NoteProxyArp(k, f).ip = k.ip
      /\ NoteProxyArp(k, f).mac = k.mac
      /\ NoteProxyArp(k, f).macSource = k.macSource
  <2> HIDE DEF k
  <2> QED
    BY <1>2, NoteProxyArpSound
<1>4. Observed(g, f) = NoteProxyArp(k, f)
  BY DEF Observed
<1>5. Speaks(h, Observed(g, f), f)
  <2> HIDE DEF h, k
  <2> QED
    BY <1>2, <1>3, <1>4 DEF Speaks
<1> HIDE DEF h, k
<1> QED
  BY <1>1, <1>3, <1>4, <1>5

LEMMA InitSound == GatewayConstants /\ GatewayInit => GatewayInv
<1> SUFFICES ASSUME GatewayConstants, GatewayInit PROVE GatewayInv
  OBVIOUS
<1>1. gateway = [ip |-> ConfiguredIP, ipSource |-> SourceOf(ConfiguredIP),
                 mac |-> ConfiguredMAC, macSource |-> SourceOf(ConfiguredMAC),
                 askers |-> NoAskers, proxied |-> {}]
  BY DEF GatewayInit
<1>2. gateway \in Trackers
  BY <1>1, NobodyAsks DEF Trackers, SourceOf, Sources, Unknown, Configured, GatewayConstants
<1>3. Rests(gateway)
  BY <1>1 DEF Rests, SourceOf, Unknown, Configured
<1>4. Open(gateway) /\ AsConfigured(gateway)
  BY <1>1, NobodyAsks DEF Open, AsConfigured, SourceOf
<1>5. MacSpokeForTheAddress
  BY <1>1 DEF MacSpokeForTheAddress, SourceOf
<1> QED
  BY <1>2, <1>3, <1>4, <1>5 DEF GatewayInv, Sound

LEMMA NextSound ==
  ASSUME GatewayConstants, GatewayInv, [GatewayNext]_gatewayVars
  PROVE  GatewayInv'
<1>1. CASE UNCHANGED gatewayVars
  BY <1>1 DEF gatewayVars, GatewayInv, Sound, Rests, Open, AsConfigured, MacSpokeForTheAddress
<1>2. CASE GatewayNext
  <2>1. PICK f \in Frames : Learn(f)
    BY <1>2 DEF GatewayNext
  <2>2. Sound(gateway)
    BY DEF GatewayInv
  <2>3. PICK h : /\ Sound(gateway') /\ KeepsOrDrops(gateway, h)
                 /\ Speaks(h, gateway', f)
    BY <2>1, <2>2, ObservedSound DEF Learn
  <2>4. (Sound(gateway))'
    BY <2>3 DEF Sound, Rests, Open, AsConfigured
  <2>5. MacSpokeForTheAddress'
    <3> SUFFICES ASSUME gateway'.mac # None, gateway'.macSource # Configured
                 PROVE  gateway'.mac \in answered'
      BY DEF MacSpokeForTheAddress
    <3>1. CASE f.ip # None /\ f.ip = gateway'.ip /\ gateway'.mac = f.src
      BY <2>1, <3>1 DEF Learn
    <3>2. CASE gateway'.mac = h.mac /\ gateway'.macSource = h.macSource
      <4>1. /\ gateway'.ip = gateway.ip
            /\ gateway.mac = gateway'.mac /\ gateway.macSource = gateway'.macSource
        BY <2>3, <3>2 DEF KeepsOrDrops, Speaks
      <4>2. gateway.mac \in answered
        BY <4>1 DEF GatewayInv, MacSpokeForTheAddress
      <4> QED
        BY <2>1, <4>1, <4>2 DEF Learn
    <3> QED
      BY <2>3, <3>1, <3>2 DEF Speaks
  <2> QED
    BY <2>4, <2>5 DEF GatewayInv
<1> QED
  BY <1>1, <1>2

(***************************************************************************)
(* Theorems.                                                               *)
(***************************************************************************)
\* The inductive invariant holds in every state of the tracker.
THEOREM GatewayInvariance == GatewaySpec => []GatewayInv
<1>1. GatewayInit => GatewayInv
  BY GatewayConstants, InitSound
<1>2. GatewayInv /\ [GatewayNext]_gatewayVars => GatewayInv'
  BY GatewayConstants, NextSound
<1> QED
  BY <1>1, <1>2, PTL DEF GatewaySpec

\* The tracker's fields keep their types: no address or MAC that was not in a
\* frame or the configuration, no source that is not one of the four.
THEOREM GatewayTypeCorrect == GatewaySpec => []GatewayType
<1>1. GatewayInv => GatewayType
  BY DEF GatewayInv, Sound, Trackers, GatewayType
<1> QED
  BY <1>1, GatewayInvariance, PTL

\* The trusted MAC has spoken for the trusted address since it was adopted.
THEOREM TrustIsEarned == GatewaySpec => []MacSpokeForTheAddress
<1>1. GatewayInv => MacSpokeForTheAddress
  BY DEF GatewayInv
<1> QED
  BY <1>1, GatewayInvariance, PTL

\* A learned MAC is never better founded than the address it was learned for.
THEOREM RankOfTheMac == GatewaySpec => []MacRestsOnTheAddress
<1>1. GatewayInv => MacRestsOnTheAddress
  BY DEF GatewayInv, Sound, Rests, MacRestsOnTheAddress
<1> QED
  BY <1>1, GatewayInvariance, PTL

\* No candidate stands at the quorum without having been elected.
THEOREM ElectionsAreHeld == GatewaySpec => []CountIsOpen
<1>1. GatewayInv => CountIsOpen
  BY DEF GatewayInv, Sound, Open, CountIsOpen
<1> QED
  BY <1>1, GatewayInvariance, PTL

\* Nothing that is heard displaces what the operator configured.
THEOREM OperatorDecides == GatewaySpec => []ConfigurationStands
<1>1. GatewayInv => ConfigurationStands
  BY DEF GatewayInv, Sound, AsConfigured, ConfigurationStands
<1> QED
  BY <1>1, GatewayInvariance, PTL

\* The MAC, the address and the count hang together in every state.
THEOREM BeliefsHold == GatewaySpec => []BeliefsHangTogether
<1>1. MacSpokeForTheAddress /\ MacRestsOnTheAddress /\ CountIsOpen => BeliefsHangTogether
  BY DEF BeliefsHangTogether
<1> QED
  BY <1>1, TrustIsEarned, RankOfTheMac, ElectionsAreHeld, PTL

\* A known gateway MAC gives way only with its address or to better evidence.
THEOREM NoTakeover == GatewaySpec => KnownMacStands
<1> DEFINE Stands == gateway.mac # None /\ gateway'.mac # gateway.mac =>
                       \/ gateway'.ip # gateway.ip
                       \/ gateway'.macSource > gateway.macSource
<1>1. GatewayInv /\ [GatewayNext]_gatewayVars => [Stands]_gatewayVars
  <2> SUFFICES ASSUME GatewayInv, GatewayNext PROVE Stands
    BY DEF gatewayVars
  <2>1. PICK f \in Frames : Learn(f)
    BY DEF GatewayNext
  <2>2. PICK h : KeepsOrDrops(gateway, h) /\ Speaks(h, gateway', f)
    BY <2>1, GatewayConstants, ObservedSound DEF Learn, GatewayInv
  <2> QED
    BY <2>2 DEF KeepsOrDrops, Speaks
<1> HIDE DEF Stands
<1>2. GatewaySpec => [][Stands]_gatewayVars
  BY <1>1, GatewayInvariance, PTL DEF GatewaySpec
<1> QED
  BY <1>2 DEF KnownMacStands, Stands

-----------------------------------------------------------------------------
(***************************************************************************)
(* The analyzers of claimed and of answered addresses                      *)
(***************************************************************************)
Bounded(map) == map \in [IPs -> Entries] /\ Cardinality(Tracked(map)) <= MaxTracked

Histories ==
  /\ now \in Moments
  /\ answered \subseteq MACs
  /\ decided \in [IPs -> [Kinds -> Moments \union {NoTime}]]
  /\ heard \in [IPs -> [MACs -> Moments \union {NoTime}]]

\* Whom an entry names has used the address.
NamesAUser(map) == \A a \in IPs : map[a] # None => heard[a][map[a].mac] # NoTime

\* An entry remembers the last alert about its address.
RemembersTheAlert(k) == \A a \in IPs : decided[a][k] = LastAlert(Table(k), a)

GuardInv ==
  /\ Bounded(holders) /\ Bounded(users)
  /\ Histories
  /\ alerts \subseteq [kind : Kinds, mac : MACs \ Exempt, ip : IPs]
  /\ NamesAUser(holders) /\ NamesAUser(users)
  /\ \A k \in Kinds : RemembersTheAlert(k)
  /\ NobodyIsBlamedForProxyArp

\* What one frame does to a table: the entry of one address is written, and of
\* the others at most some are forgotten.
Writes(map, new, a, entry) ==
  /\ Bounded(new)
  /\ new[a] = entry
  /\ \A b \in IPs \ {a} : new[b] = map[b] \/ new[b] = None

LEMMA RoomIsMade ==
  ASSUME GuardConstants, NEW map, Bounded(map), NEW a \in IPs, NEW entry \in Records,
         NEW room \in Rooms(map, a)
  PROVE  Writes(map, [room EXCEPT ![a] = entry], a, entry)
<1> DEFINE new == [room EXCEPT ![a] = entry]
<1>1. entry # None /\ IsFiniteSet(IPs) /\ MaxTracked \in Nat
  BY DEF GuardConstants
<1>2. map \in [IPs -> Entries] /\ Cardinality(Tracked(map)) <= MaxTracked
  BY DEF Bounded
<1>3. IsFiniteSet(Tracked(map)) /\ Cardinality(Tracked(map)) \in Nat
  BY <1>1, FS_Subset, FS_CardinalityType DEF Tracked
<1>4. CASE map[a] # None
  <2>1. room = map
    BY <1>4 DEF Rooms
  <2>2. new \in [IPs -> Entries] /\ new[a] = entry /\ \A b \in IPs \ {a} : new[b] = map[b]
    BY <1>2, <2>1 DEF Entries
  <2> HIDE DEF new
  <2>3. Tracked(new) = Tracked(map)
    BY <1>1, <1>4, <2>2 DEF Tracked
  <2> QED
    BY <1>2, <2>2, <2>3 DEF Writes, Bounded, new
<1>5. CASE map[a] = None /\ Cardinality(Tracked(map)) < MaxTracked
  <2>1. room = map
    BY <1>5 DEF Rooms
  <2>2. new \in [IPs -> Entries] /\ new[a] = entry /\ \A b \in IPs \ {a} : new[b] = map[b]
    BY <1>2, <2>1 DEF Entries
  <2> HIDE DEF new
  <2>3. Tracked(new) = Tracked(map) \union {a} /\ a \notin Tracked(map)
    BY <1>1, <1>5, <2>2 DEF Tracked
  <2>4. Cardinality(Tracked(new)) = Cardinality(Tracked(map)) + 1
    BY <1>3, <2>3, FS_AddElement
  <2> QED
    BY <1>1, <1>3, <1>5, <2>2, <2>4 DEF Writes, Bounded, new
<1>6. CASE map[a] = None /\ ~(Cardinality(Tracked(map)) < MaxTracked)
  <2>1. PICK x \in Oldest(map) : room = [map EXCEPT ![x] = None]
    BY <1>6 DEF Rooms
  <2>2. x \in Tracked(map) /\ x \in IPs /\ x # a
    BY <1>6 DEF Oldest, Tracked
  <2>3. /\ new \in [IPs -> Entries] /\ new[a] = entry /\ new[x] = None
        /\ \A b \in IPs \ {a, x} : new[b] = map[b]
    BY <1>2, <2>1, <2>2 DEF Entries
  <2> HIDE DEF new
  <2>4. Tracked(new) = (Tracked(map) \ {x}) \union {a} /\ a \notin Tracked(map) \ {x}
    BY <1>1, <1>6, <2>2, <2>3 DEF Tracked
  <2>5. /\ IsFiniteSet(Tracked(map) \ {x})
        /\ Cardinality(Tracked(map) \ {x}) = Cardinality(Tracked(map)) - 1
    BY <1>3, <2>2, FS_RemoveElement
  <2>6. Cardinality(Tracked(new)) = Cardinality(Tracked(map) \ {x}) + 1
    BY <2>4, <2>5, FS_AddElement
  <2> QED
    BY <1>2, <1>3, <2>3, <2>5, <2>6 DEF Writes, Bounded, new
<1> QED
  BY <1>4, <1>5, <1>6

\* What a frame that was heard of writes, and what any frame does to a table.
Entry(map, f, alert) ==
  [mac |-> f.src, at |-> now, alert |-> IF alert THEN now ELSE LastAlert(map, f.ip)]
Used(f) == f.ip \in IPs /\ f.ip # None /\ ~ProxyArpFor(gateway', f)
Steps(map, new, f, alert) ==
  \/ Used(f) /\ Writes(map, new, f.ip, Entry(map, f, alert))
  \/ new = map /\ ~alert

LEMMA EntryType ==
  ASSUME GuardConstants, now \in Moments, NEW map, Bounded(map), NEW f \in Frames, Used(f),
         NEW alert \in BOOLEAN
  PROVE  Entry(map, f, alert) \in Records
<1>1. f.src \in MACs
  BY DEF Frames
<1>2. LastAlert(map, f.ip) \in Moments \union {NoTime}
  BY DEF Bounded, LastAlert, Entries, Records, Used
<1> QED
  BY <1>1, <1>2 DEF Entry, Records

LEMMA TablesStep ==
  ASSUME GuardConstants, GuardInv, NEW f \in Frames, Observe(f)
  PROVE  /\ Steps(holders, holders', f, "arp_spoof" \in Raised(gateway', f))
         /\ Steps(users, users', f, "ip_conflict" \in Raised(gateway', f))
<1>1. now \in Moments /\ Bounded(holders) /\ Bounded(users)
  BY DEF GuardInv, Histories
<1>2. f.ip # None => f.ip \in IPs
  BY DEF Frames
<1>3. "arp_spoof" \in Raised(gateway', f) => Claims(f) /\ ~ProxyArpFor(gateway', f)
  BY DEF Raised, SpoofAlerts
<1>4. "ip_conflict" \in Raised(gateway', f) => f.ip # None /\ ~ProxyArpFor(gateway', f)
  BY DEF Raised, ConflictAlerts
<1>5. Steps(holders, holders', f, "arp_spoof" \in Raised(gateway', f))
  <2> DEFINE alert == "arp_spoof" \in Raised(gateway', f)
  <2>1. SpoofRecords(gateway', f, alert)
    BY DEF Observe
  <2>2. alert \in BOOLEAN
    OBVIOUS
  <2> HIDE DEF alert
  <2>3. CASE ~(Claims(f) /\ ~ProxyArpFor(gateway', f))
    BY <1>3, <2>1, <2>3 DEF SpoofRecords, Steps, alert
  <2>4. CASE Claims(f) /\ ~ProxyArpFor(gateway', f)
    <3>1. Used(f)
      BY <1>2, <2>4 DEF Used, Claims
    <3>2. PICK room \in Rooms(holders, f.ip) :
            holders' = [room EXCEPT ![f.ip] = Entry(holders, f, alert)]
      BY <2>1, <2>4 DEF SpoofRecords, Entry
    <3>3. Entry(holders, f, alert) \in Records /\ f.ip \in IPs
      BY <1>1, <2>2, <3>1, EntryType DEF Used
    <3>4. Writes(holders, holders', f.ip, Entry(holders, f, alert))
      BY <1>1, <3>2, <3>3, RoomIsMade
    <3> QED
      BY <3>1, <3>4 DEF Steps, alert
  <2> QED
    BY <2>3, <2>4 DEF alert
<1>6. Steps(users, users', f, "ip_conflict" \in Raised(gateway', f))
  <2> DEFINE alert == "ip_conflict" \in Raised(gateway', f)
  <2>1. ConflictRecords(gateway', f, alert)
    BY DEF Observe
  <2>2. alert \in BOOLEAN
    OBVIOUS
  <2> HIDE DEF alert
  <2>3. CASE ~(f.ip # None /\ ~ProxyArpFor(gateway', f))
    BY <1>4, <2>1, <2>3 DEF ConflictRecords, Steps, alert
  <2>4. CASE f.ip # None /\ ~ProxyArpFor(gateway', f)
    <3>1. Used(f)
      BY <1>2, <2>4 DEF Used
    <3>2. PICK room \in Rooms(users, f.ip) :
            users' = [room EXCEPT ![f.ip] = Entry(users, f, alert)]
      BY <2>1, <2>4 DEF ConflictRecords, Entry
    <3>3. Entry(users, f, alert) \in Records /\ f.ip \in IPs
      BY <1>1, <2>2, <3>1, EntryType DEF Used
    <3>4. Writes(users, users', f.ip, Entry(users, f, alert))
      BY <1>1, <3>2, <3>3, RoomIsMade
    <3> QED
      BY <3>1, <3>4 DEF Steps, alert
  <2> QED
    BY <2>3, <2>4 DEF alert
<1> QED
  BY <1>5, <1>6

\* The history of who used what only grows, and a frame that was used is in it.
LEMMA HeardGrows ==
  ASSUME GuardConstants, GuardInv, NEW f \in Frames, Observe(f)
  PROVE  /\ heard' \in [IPs -> [MACs -> Moments \union {NoTime}]]
         /\ \A a \in IPs, m \in MACs : heard[a][m] # NoTime => heard'[a][m] # NoTime
         /\ Used(f) => heard'[f.ip][f.src] # NoTime
<1>1. now \in Moments /\ heard \in [IPs -> [MACs -> Moments \union {NoTime}]]
  BY DEF GuardInv, Histories
<1>2. f.src \in MACs /\ f.ip \in IPs \union {None} /\ now # NoTime
  BY <1>1 DEF Frames, Moments, NoTime, GuardConstants
<1>3. CASE ~(f.ip = None \/ ProxyArpFor(gateway', f))
  <2>1. heard' = [heard EXCEPT ![f.ip][f.src] = now] /\ f.ip \in IPs
    BY <1>2, <1>3 DEF Observe
  <2> QED
    BY <1>1, <1>2, <2>1
<1>4. CASE f.ip = None \/ ProxyArpFor(gateway', f)
  <2>1. heard' = heard /\ ~Used(f)
    BY <1>4 DEF Observe, Used
  <2> QED
    BY <1>1, <2>1
<1> QED
  BY <1>3, <1>4

\* A table that takes a step still names devices that used their address, and
\* still remembers the last alert.
LEMMA TableSound ==
  ASSUME GuardConstants, GuardInv, NEW f \in Frames, Observe(f), NEW map, NEW new,
         NEW alert \in BOOLEAN, Bounded(map), NamesAUser(map), Steps(map, new, f, alert)
  PROVE  /\ Bounded(new)
         /\ \A a \in IPs : new[a] # None => heard'[a][new[a].mac] # NoTime
         /\ \A a \in IPs : LastAlert(new, a) =
              IF alert /\ a = f.ip THEN now
              ELSE IF new[a] = None THEN NoTime ELSE LastAlert(map, a)
<1>1. CASE new = map /\ ~alert
  <2>1. \A a \in IPs : map[a] # None => map[a].mac \in MACs
    BY DEF Bounded, Entries, Records
  <2> QED
    BY <1>1, <2>1, HeardGrows DEF NamesAUser, LastAlert
<1>2. CASE Used(f) /\ Writes(map, new, f.ip, Entry(map, f, alert))
  <2>1. Entry(map, f, alert) # None /\ f.ip \in IPs
    BY <1>2, EntryType DEF GuardInv, Histories, GuardConstants, Used
  <2>2. Bounded(new) /\ new[f.ip] = Entry(map, f, alert)
    BY <1>2 DEF Writes
  <2>3. \A a \in IPs \ {f.ip} : new[a] = map[a] \/ new[a] = None
    BY <1>2 DEF Writes
  <2>4. ASSUME NEW a \in IPs, new[a] # None PROVE heard'[a][new[a].mac] # NoTime
    <3>1. CASE a = f.ip
      <4>1. new[a].mac = f.src
        BY <2>2, <3>1 DEF Entry
      <4> QED
        BY <1>2, <3>1, <4>1, HeardGrows
    <3>2. CASE a # f.ip
      <4>1. new[a] = map[a] /\ map[a] # None
        BY <2>3, <2>4, <3>2
      <4>2. map[a].mac \in MACs
        BY <4>1 DEF Bounded, Entries, Records
      <4> QED
        BY <4>1, <4>2, HeardGrows DEF NamesAUser
    <3> QED
      BY <3>1, <3>2
  <2>5. ASSUME NEW a \in IPs
        PROVE  LastAlert(new, a) =
                 IF alert /\ a = f.ip THEN now
                 ELSE IF new[a] = None THEN NoTime ELSE LastAlert(map, a)
    <3>1. CASE a = f.ip
      <4>1. LastAlert(new, a) = IF alert THEN now ELSE LastAlert(map, a)
        BY <2>1, <2>2, <3>1 DEF LastAlert, Entry
      <4> QED
        BY <2>1, <2>2, <3>1, <4>1
    <3>2. CASE a # f.ip
      BY <2>3, <3>2 DEF LastAlert
    <3> QED
      BY <3>1, <3>2
  <2> QED
    BY <2>2, <2>4, <2>5
<1> QED
  BY <1>1, <1>2 DEF Steps

LEMMA ObserveSound ==
  ASSUME GuardConstants, GatewayConstants, GatewayType', GuardInv, NEW f \in Frames, Observe(f)
  PROVE  GuardInv'
<1> DEFINE spoof == "arp_spoof" \in Raised(gateway', f)
           conflict == "ip_conflict" \in Raised(gateway', f)
<1>1. /\ now \in Moments /\ answered \subseteq MACs
      /\ decided \in [IPs -> [Kinds -> Moments \union {NoTime}]]
      /\ Bounded(holders) /\ NamesAUser(holders) /\ RemembersTheAlert("arp_spoof")
      /\ Bounded(users) /\ NamesAUser(users) /\ RemembersTheAlert("ip_conflict")
  BY DEF GuardInv, Histories, Kinds
<1>2. f.src \in MACs /\ f.ip \in IPs \union {None}
  BY DEF Frames
<1>3. spoof \in BOOLEAN /\ conflict \in BOOLEAN
  OBVIOUS
<1>4. Steps(holders, holders', f, spoof) /\ Steps(users, users', f, conflict)
  BY TablesStep
<1> HIDE DEF spoof, conflict
<1>5. /\ Bounded(holders')
      /\ \A a \in IPs : holders'[a] # None => heard'[a][holders'[a].mac] # NoTime
      /\ \A a \in IPs : LastAlert(holders', a) =
           IF spoof /\ a = f.ip THEN now
           ELSE IF holders'[a] = None THEN NoTime ELSE LastAlert(holders, a)
  BY <1>1, <1>3, <1>4, TableSound
<1>6. /\ Bounded(users')
      /\ \A a \in IPs : users'[a] # None => heard'[a][users'[a].mac] # NoTime
      /\ \A a \in IPs : LastAlert(users', a) =
           IF conflict /\ a = f.ip THEN now
           ELSE IF users'[a] = None THEN NoTime ELSE LastAlert(users, a)
  BY <1>1, <1>3, <1>4, TableSound
<1>7. decided' = [a \in IPs |-> [k \in Kinds |->
                   IF k \in Raised(gateway', f) /\ a = f.ip THEN now
                   ELSE IF Table(k)'[a] = None THEN NoTime ELSE decided[a][k]]]
  BY DEF Observe
<1>8. \A a \in IPs :
        /\ decided'[a]["arp_spoof"] =
             IF spoof /\ a = f.ip THEN now
             ELSE IF holders'[a] = None THEN NoTime ELSE decided[a]["arp_spoof"]
        /\ decided'[a]["ip_conflict"] =
             IF conflict /\ a = f.ip THEN now
             ELSE IF users'[a] = None THEN NoTime ELSE decided[a]["ip_conflict"]
  BY <1>7 DEF Table, Kinds, spoof, conflict
<1>9. (\A k \in Kinds : RemembersTheAlert(k))'
  BY <1>1, <1>5, <1>6, <1>8 DEF RemembersTheAlert, Table, Kinds
<1>10. Histories'
  <2>1. now' = now
    BY DEF Observe
  <2>2. decided' \in [IPs -> [Kinds -> Moments \union {NoTime}]]
    BY <1>1, <1>7
  <2>3. answered' \subseteq MACs
    BY <1>1, <1>2 DEF Observe, Learn
  <2> QED
    BY <1>1, <2>1, <2>2, <2>3, HeardGrows DEF Histories
<1>11. \A alert \in alerts' :
         /\ alert.kind \in Raised(gateway', f) /\ f.src \notin Exempt
         /\ alert = [kind |-> alert.kind, mac |-> f.src, ip |-> f.ip]
  BY DEF Observe
<1>12. \A k \in Raised(gateway', f) : f.ip \in IPs
  BY <1>2 DEF Raised, SpoofAlerts, ConflictAlerts, Claims
<1>13. alerts' \subseteq [kind : Kinds, mac : MACs \ Exempt, ip : IPs]
  BY <1>2, <1>11, <1>12 DEF Raised
<1>14. NobodyIsBlamedForProxyArp'
  <2> SUFFICES ASSUME NEW alert \in alerts'
               PROVE  \/ \E m \in MACs \ {alert.mac} : heard'[alert.ip][m] # NoTime
                      \/ /\ alert.kind = "arp_spoof"
                         /\ alert.ip = gateway'.ip /\ alert.mac # gateway'.mac
    BY DEF NobodyIsBlamedForProxyArp
  <2>1. /\ alert.kind \in Raised(gateway', f) /\ alert.mac = f.src
        /\ alert.ip = f.ip /\ f.ip \in IPs
    BY <1>11, <1>12
  <2>2. CASE alert.kind = "arp_spoof"
    <3>1. Impersonates(gateway', f) \/ Displaces(f)
      BY <2>1, <2>2 DEF Raised, SpoofAlerts
    <3>2. CASE Impersonates(gateway', f)
      BY <2>1, <2>2, <3>2 DEF Impersonates, IsGateway
    <3>3. CASE Displaces(f)
      <4>1. holders[f.ip] # None /\ holders[f.ip].mac \in MACs \ {f.src}
        BY <1>1, <2>1, <3>3 DEF Displaces, Bounded, Entries, Records
      <4> QED
        BY <1>1, <2>1, <4>1, HeardGrows DEF NamesAUser
    <3> QED
      BY <3>1, <3>2, <3>3
  <2>3. CASE alert.kind # "arp_spoof"
    <3>1. users[f.ip] # None /\ users[f.ip].mac \in MACs \ {f.src}
      BY <1>1, <2>1, <2>3 DEF Raised, ConflictAlerts, Bounded, Entries, Records
    <3> QED
      BY <1>1, <2>1, <3>1, HeardGrows DEF NamesAUser
  <2> QED
    BY <2>2, <2>3
<1>15. NamesAUser(holders)' /\ NamesAUser(users)'
  BY <1>5, <1>6 DEF NamesAUser
<1> QED
  BY <1>5, <1>6, <1>9, <1>10, <1>13, <1>14, <1>15 DEF GuardInv, Bounded, Tracked

LEMMA TickSound == ASSUME GuardConstants, GuardInv, Tick PROVE GuardInv'
<1>1. now' \in Moments
  BY DEF Tick, GuardInv, Histories, Moments, GuardConstants
<1>2. UNCHANGED <<gateway, answered, holders, users, decided, heard>> /\ alerts' = {}
  BY DEF Tick
<1>3. Histories'
  BY <1>1, <1>2 DEF GuardInv, Histories
<1>4. (\A k \in Kinds : RemembersTheAlert(k))'
  BY <1>2 DEF GuardInv, RemembersTheAlert, Table
<1> QED
  BY <1>2, <1>3, <1>4 DEF GuardInv, Bounded, Tracked, NamesAUser, NobodyIsBlamedForProxyArp

LEMMA GuardsInit == ASSUME GuardConstants, Init PROVE GuardInv
<1>1. NoTime \notin Moments /\ 0 \in Moments
  BY DEF NoTime, Moments, GuardConstants
<1>2. Tracked(holders) = {} /\ Tracked(users) = {}
  BY DEF Tracked, Init
<1>3. Bounded(holders) /\ Bounded(users)
  BY <1>2, FS_EmptySet DEF Bounded, Init, Entries, GuardConstants
<1>4. Histories
  BY <1>1 DEF Histories, Init, GatewayInit
<1>5. \A k \in Kinds : RemembersTheAlert(k)
  BY DEF RemembersTheAlert, Table, LastAlert, Init
<1> QED
  BY <1>3, <1>4, <1>5 DEF GuardInv, Init, NamesAUser, NobodyIsBlamedForProxyArp

(***************************************************************************)
(* Theorems.                                                               *)
(***************************************************************************)
\* The guards run on top of the tracker without disturbing it: every behaviour
\* of the chain is one of the tracker.
THEOREM GuardsKeepTheTracker == Spec => GatewaySpec
<1>1. Init => GatewayInit
  BY DEF Init
<1>2. [Next]_vars => [GatewayNext]_gatewayVars
  BY DEF Next, vars, Observe, Tick, GatewayNext, gatewayVars
<1> QED
  BY <1>1, <1>2, PTL DEF Spec, GatewaySpec

THEOREM GuardInvariance == Spec => []GuardInv
<1>1. Init => GuardInv
  BY GuardConstants, GuardsInit
<1>2. GuardInv /\ GatewayType' /\ [Next]_vars => GuardInv'
  <2> SUFFICES ASSUME GuardInv, GatewayType', [Next]_vars PROVE GuardInv'
    OBVIOUS
  <2>1. CASE Tick
    BY <2>1, GuardConstants, TickSound
  <2>2. ASSUME NEW f \in Frames, Observe(f) PROVE GuardInv'
    BY <2>2, GuardConstants, GatewayConstants, ObserveSound
  <2>3. CASE UNCHANGED vars
    BY <2>3 DEF vars, guards, GuardInv, Bounded, Tracked, Histories, NamesAUser,
       RemembersTheAlert, Table, NobodyIsBlamedForProxyArp
  <2> QED
    BY <2>1, <2>2, <2>3 DEF Next
<1>3. Spec => []GatewayType
  BY GuardsKeepTheTracker, GatewayTypeCorrect, PTL
<1> QED
  BY <1>1, <1>2, <1>3, PTL DEF Spec

\* Types, and the cap on both tables, whatever senders and addresses are forged.
THEOREM GuardsTypeCorrect == Spec => []TypeOK
<1>1. GuardInv /\ GatewayType => TypeOK
  BY DEF GuardInv, Histories, Bounded, TypeOK
<1>2. Spec => []GatewayType
  BY GuardsKeepTheTracker, GatewayTypeCorrect, PTL
<1> QED
  BY <1>1, <1>2, GuardInvariance, PTL

\* Every alert is about an address another device used itself, or about the
\* gateway's: the gateway's proxy ARP never makes one.
THEOREM NobodyIsBlamed == Spec => []NobodyIsBlamedForProxyArp
<1>1. GuardInv => NobodyIsBlamedForProxyArp
  BY DEF GuardInv
<1> QED
  BY <1>1, GuardInvariance, PTL

\* The operator's gateway stands in the chain as it does in the tracker alone.
THEOREM OperatorDecidesInTheChain == Spec => []ConfigurationStands
BY GuardsKeepTheTracker, OperatorDecides, PTL

\* After an alert about an address there is none of its kind for a cooldown.
THEOREM AlertsAreSpaced == Spec => OneAlertPerCooldown
<1> DEFINE Spaced ==
      \A a \in IPs, k \in Kinds :
        decided[a][k] # NoTime /\ decided'[a][k] \notin {NoTime, decided[a][k]} =>
          decided'[a][k] - decided[a][k] >= Cooldown(k)
<1>1. GuardInv /\ [Next]_vars => [Spaced]_vars
  <2> SUFFICES ASSUME GuardInv, Next, NEW a \in IPs, NEW k \in Kinds,
                      decided[a][k] # NoTime,
                      decided'[a][k] \notin {NoTime, decided[a][k]}
               PROVE  decided'[a][k] - decided[a][k] >= Cooldown(k)
    BY DEF Spaced
  <2>1. ~Tick
    BY DEF Tick
  <2>2. PICK f \in Frames : Observe(f)
    BY <2>1 DEF Next
  <2>3. decided'[a][k] = IF k \in Raised(gateway', f) /\ a = f.ip THEN now
                         ELSE IF Table(k)'[a] = None THEN NoTime ELSE decided[a][k]
    BY <2>2 DEF Observe
  <2>4. k \in Raised(gateway', f) /\ a = f.ip /\ decided'[a][k] = now
    BY <2>3
  <2>5. decided[a][k] = LastAlert(Table(k), a)
    BY DEF GuardInv, RemembersTheAlert
  <2>6. CASE k = "arp_spoof"
    <3>1. CooledDown(LastAlert(holders, a), SpoofCooldown)
      BY <2>4, <2>6 DEF Raised, SpoofAlerts
    <3> QED
      BY <2>4, <2>5, <2>6, <3>1 DEF CooledDown, Table, Cooldown
  <2>7. CASE k = "ip_conflict"
    <3>1. users[a] # None /\ CooledDown(users[a].alert, ConflictCooldown)
      BY <2>4, <2>7 DEF Raised, ConflictAlerts
    <3> QED
      BY <2>4, <2>5, <2>7, <3>1 DEF CooledDown, Table, Cooldown, LastAlert
  <2> QED
    BY <2>6, <2>7 DEF Kinds
<1> HIDE DEF Spaced
<1>2. Spec => [][Spaced]_vars
  BY <1>1, GuardInvariance, PTL DEF Spec
<1> QED
  BY <1>2 DEF OneAlertPerCooldown, Spaced

(***************************************************************************)
(* A shared address is reported.                                           *)
(***************************************************************************)
\* An entry is about the latest use of its address, and none is of the future.
LatestUses ==
  \A a \in IPs : \A m \in MACs :
    /\ heard[a][m] <= now
    /\ users[a] # None => /\ heard[a][users[a].mac] = users[a].at
                          /\ heard[a][m] <= users[a].at

\* Of the devices that used an address one was the last.
SomebodyWasLast ==
  MACs # {} => \A a \in IPs : \E last \in MACs : \A m \in MACs : heard[a][m] <= heard[a][last]

\* An address is forgotten only in favour of as many later ones as the table has room for.
ForgetsTheOldest ==
  \A a \in IPs : \A m \in MACs : users[a] = None /\ heard[a][m] # NoTime =>
    /\ Cardinality(Tracked(users)) = MaxTracked
    /\ \A b \in Tracked(users) : heard[a][m] <= users[b].at

Busy(t) == {b \in IPs : LastHeard(b) >= t}

\* The pairs of uses SharedAddressIsReported is about.
Shared(a, m1, m2) ==
  /\ m1 # m2 /\ heard[a][m1] # NoTime
  /\ heard[a][m2] - heard[a][m1] \in 0 .. ActiveWithin
  /\ Cardinality(Busy(heard[a][m1])) <= MaxTracked

\* When an address changes hands, the alert is raised or its cooldown is running. It is
\* the first of the two uses that bounds how old the alert can be: of a device that
\* goes on using the address nothing more is reported.
ReportedFrom(a, t) ==
  users[a] # None /\ users[a].alert # NoTime /\ t - users[a].alert < ConflictCooldown

SharesAreReported ==
  \A a \in IPs : \A m1, m2 \in MACs : Shared(a, m1, m2) => ReportedFrom(a, heard[a][m1])

SharingInv == LatestUses /\ SomebodyWasLast /\ ForgetsTheOldest /\ SharesAreReported

\* The last use is the greatest of the times.
LEMMA LastHeardIsLatest ==
  Histories /\ SomebodyWasLast =>
    \A a \in IPs, t \in Moments : MACs # {} =>
      (LastHeard(a) >= t <=> \E m \in MACs : heard[a][m] >= t)
<1> SUFFICES ASSUME Histories, SomebodyWasLast, MACs # {}, NEW a \in IPs, NEW t \in Moments
             PROVE  LastHeard(a) >= t <=> \E m \in MACs : heard[a][m] >= t
  OBVIOUS
<1> USE GuardConstants
<1> DEFINE times == {heard[a][m] : m \in MACs}
<1>1. heard[a] \in [MACs -> Moments \union {NoTime}] /\ Moments \subseteq Int /\ NoTime \in Int
  BY DEF Histories, Moments, NoTime, GuardConstants
<1>2. PICK last \in MACs : \A m \in MACs : heard[a][m] <= heard[a][last]
  BY DEF SomebodyWasLast
<1>3. times \subseteq Int /\ heard[a][last] \in times
  BY <1>1
<1>4. \A y \in times : heard[a][last] >= y
  BY <1>1, <1>2
<1>5. Max(times) \in times /\ \A y \in times : Max(times) >= y
  <2> HIDE DEF times
  <2> QED
    BY <1>3, <1>4 DEF Max
<1>6. LastHeard(a) = Max(times)
  BY DEF LastHeard
<1>7. t \in Int
  BY <1>1
<1>8. (\E m \in MACs : heard[a][m] >= t) <=> \E y \in times : y >= t
  OBVIOUS
<1>9. Max(times) >= t <=> \E y \in times : y >= t
  <2> DEFINE latest == Max(times)
  <2>1. latest \in times /\ \A y \in times : latest >= y
    BY <1>5
  <2> HIDE DEF times, latest
  <2>2. ASSUME NEW y \in times, y >= t PROVE latest >= t
    <3>1. y \in Int /\ latest \in Int /\ latest >= y
      BY <1>3, <2>1
    <3> QED
      BY <1>7, <2>2, <3>1
  <2>3. latest >= t <=> \E y \in times : y >= t
    BY <2>1, <2>2
  <2> QED
    BY <2>3 DEF latest
<1> HIDE DEF times
<1> QED
  BY <1>6, <1>8, <1>9

\* Of an address that is not among the latest MaxTracked nothing is asked, and the
\* others are in the table.
LEMMA StillTracked ==
  Histories /\ Bounded(users) /\ LatestUses /\ SomebodyWasLast /\ ForgetsTheOldest =>
    \A a \in IPs, m \in MACs :
      heard[a][m] # NoTime /\ Cardinality(Busy(heard[a][m])) <= MaxTracked => users[a] # None
<1> SUFFICES ASSUME Histories, Bounded(users), LatestUses, SomebodyWasLast,
                    ForgetsTheOldest, NEW a \in IPs, NEW m \in MACs, heard[a][m] # NoTime,
                    Cardinality(Busy(heard[a][m])) <= MaxTracked
             PROVE  users[a] # None
  OBVIOUS
<1> USE GuardConstants
<1> SUFFICES ASSUME users[a] = None PROVE FALSE
  OBVIOUS
<1>1. heard[a][m] \in Moments /\ MACs # {}
  BY DEF Histories
<1>2. /\ Cardinality(Tracked(users)) = MaxTracked
      /\ \A b \in Tracked(users) : heard[a][m] <= users[b].at
  BY DEF ForgetsTheOldest
<1>3. a \in Busy(heard[a][m])
  <2>1. heard[a][m] >= heard[a][m]
    BY <1>1 DEF Moments
  <2> QED
    BY <1>1, <2>1, LastHeardIsLatest DEF Busy
<1>4. Tracked(users) \subseteq Busy(heard[a][m])
  <2> SUFFICES ASSUME NEW b \in Tracked(users) PROVE b \in Busy(heard[a][m])
    OBVIOUS
  <2>1. b \in IPs /\ users[b] # None /\ users[b].mac \in MACs
    BY DEF Tracked, Bounded, Entries, Records
  <2>2. heard[b][users[b].mac] >= heard[a][m]
    BY <1>1, <1>2, <2>1 DEF LatestUses
  <2> QED
    BY <1>1, <2>1, <2>2, LastHeardIsLatest DEF Busy
<1>5. /\ IsFiniteSet(Busy(heard[a][m])) /\ IsFiniteSet(Tracked(users))
      /\ MaxTracked \in Nat /\ a \notin Tracked(users)
  BY FS_Subset DEF Busy, Tracked, GuardConstants
<1>6. Cardinality(Tracked(users) \union {a}) = MaxTracked + 1
  BY <1>2, <1>5, FS_AddElement
<1>7. Cardinality(Tracked(users) \union {a}) <= Cardinality(Busy(heard[a][m]))
  BY <1>3, <1>4, <1>5, FS_Subset
<1> QED
  BY <1>5, <1>6, <1>7, FS_CardinalityType

\* What a table forgets to make room is older than all it keeps, and a table that
\* is full stays full.
Replaces(map, new, a, entry) ==
  /\ new[a] = entry
  /\ \A b \in IPs \ {a} :
       \/ new[b] = map[b]
       \/ /\ new[b] = None /\ map[b] # None
          /\ Cardinality(Tracked(new)) = MaxTracked
          /\ \A c \in Tracked(new) \ {a} : map[b].at <= map[c].at
  /\ Cardinality(Tracked(map)) = MaxTracked => Cardinality(Tracked(new)) = MaxTracked

LEMMA OldestGoes ==
  ASSUME GuardConstants, NEW map, Bounded(map), NEW a \in IPs, NEW entry \in Records,
         NEW room \in Rooms(map, a)
  PROVE  Replaces(map, [room EXCEPT ![a] = entry], a, entry)
<1> DEFINE new == [room EXCEPT ![a] = entry]
<1>1. entry # None /\ IsFiniteSet(IPs) /\ MaxTracked \in Nat
  BY DEF GuardConstants
<1>2. map \in [IPs -> Entries] /\ Cardinality(Tracked(map)) <= MaxTracked
  BY DEF Bounded
<1>3. IsFiniteSet(Tracked(map)) /\ Cardinality(Tracked(map)) \in Nat
  BY <1>1, FS_Subset, FS_CardinalityType DEF Tracked
<1>4. CASE map[a] # None \/ Cardinality(Tracked(map)) < MaxTracked
  <2>1. room = map
    BY <1>4 DEF Rooms
  <2>2. new \in [IPs -> Entries] /\ new[a] = entry /\ \A b \in IPs \ {a} : new[b] = map[b]
    BY <1>2, <2>1 DEF Entries
  <2> HIDE DEF new
  <2>3. map[a] # None => Tracked(new) = Tracked(map)
    BY <1>1, <2>2 DEF Tracked
  <2> QED
    BY <1>1, <1>3, <1>4, <2>2, <2>3 DEF Replaces, new
<1>5. CASE ~(map[a] # None \/ Cardinality(Tracked(map)) < MaxTracked)
  <2>1. PICK x \in Oldest(map) : room = [map EXCEPT ![x] = None]
    BY <1>5 DEF Rooms
  <2>2. x \in Tracked(map) /\ x \in IPs /\ x # a /\ \A c \in Tracked(map) : map[x].at <= map[c].at
    BY <1>5 DEF Oldest, Tracked
  <2>3. /\ new \in [IPs -> Entries] /\ new[a] = entry /\ new[x] = None
        /\ \A b \in IPs \ {a, x} : new[b] = map[b]
    BY <1>2, <2>1, <2>2 DEF Entries
  <2> HIDE DEF new
  <2>4. Tracked(new) = (Tracked(map) \ {x}) \union {a} /\ a \notin Tracked(map) \ {x}
    BY <1>1, <1>5, <2>2, <2>3 DEF Tracked
  <2>5. /\ IsFiniteSet(Tracked(map) \ {x})
        /\ Cardinality(Tracked(map) \ {x}) = Cardinality(Tracked(map)) - 1
    BY <1>3, <2>2, FS_RemoveElement
  <2>6. Cardinality(Tracked(new)) = Cardinality(Tracked(map) \ {x}) + 1
    BY <2>4, <2>5, FS_AddElement
  <2>7. Cardinality(Tracked(new)) = MaxTracked
    BY <1>1, <1>2, <1>3, <1>5, <2>5, <2>6
  <2>8. map[x] # None
    BY <2>2 DEF Tracked
  <2> QED
    BY <2>2, <2>3, <2>4, <2>7, <2>8 DEF Replaces, new
<1> QED
  BY <1>4, <1>5

\* What a frame does to the users of the addresses and to the history of their uses.
LEMMA UsersStep ==
  ASSUME GuardConstants, GuardInv, NEW f \in Frames, Observe(f)
  PROVE  \/ /\ Used(f) /\ f.src \in MACs
            /\ heard' = [heard EXCEPT ![f.ip][f.src] = now]
            /\ \E room \in Rooms(users, f.ip) :
                 users' = [room EXCEPT
                   ![f.ip] = Entry(users, f, "ip_conflict" \in Raised(gateway', f))]
         \/ ~Used(f) /\ UNCHANGED <<users, heard>>
<1>1. f.src \in MACs /\ (f.ip # None => f.ip \in IPs)
  BY DEF Frames
<1>2. CASE Used(f)
  <2>1. ConflictRecords(gateway', f, "ip_conflict" \in Raised(gateway', f))
    BY DEF Observe
  <2> QED
    BY <1>1, <1>2, <2>1 DEF Used, ConflictRecords, Entry, Observe
<1>3. CASE ~Used(f)
  <2>1. ConflictRecords(gateway', f, "ip_conflict" \in Raised(gateway', f))
    BY DEF Observe
  <2> QED
    BY <1>1, <1>3, <2>1 DEF Used, ConflictRecords, Observe
<1> QED
  BY <1>2, <1>3

\* A use of an address: what follows of the entries and of the history.
LEMMA UseIsLatest ==
  ASSUME GuardConstants, GuardInv, LatestUses, SomebodyWasLast, NEW f \in Frames, Observe(f),
         Used(f)
  PROVE  /\ \A a \in IPs, m \in MACs :
              heard'[a][m] = IF a = f.ip /\ m = f.src THEN now ELSE heard[a][m]
         /\ users'[f.ip] = Entry(users, f, "ip_conflict" \in Raised(gateway', f))
         /\ LatestUses' /\ SomebodyWasLast'
<1> DEFINE conflict == "ip_conflict" \in Raised(gateway', f)
<1>1. /\ now \in Moments /\ heard \in [IPs -> [MACs -> Moments \union {NoTime}]]
      /\ Bounded(users) /\ now' = now
  BY DEF GuardInv, Histories, Observe
<1>2. f.src \in MACs /\ f.ip \in IPs /\ heard' = [heard EXCEPT ![f.ip][f.src] = now]
  BY UsersStep DEF Used
<1>3. \A a \in IPs, m \in MACs :
        heard'[a][m] = IF a = f.ip /\ m = f.src THEN now ELSE heard[a][m]
  BY <1>1, <1>2
<1>4. PICK room \in Rooms(users, f.ip) : users' = [room EXCEPT ![f.ip] = Entry(users, f, conflict)]
  BY UsersStep
<1>5. conflict \in BOOLEAN
  OBVIOUS
<1>6. Entry(users, f, conflict) \in Records
  <2> HIDE DEF conflict
  <2> QED
    BY <1>1, <1>5, EntryType
<1> HIDE DEF conflict
<1>7. /\ users'[f.ip] = Entry(users, f, conflict)
      /\ \A b \in IPs \ {f.ip} : users'[b] = users[b] \/ users'[b] = None
  <2>1. Replaces(users, users', f.ip, Entry(users, f, conflict))
    BY <1>1, <1>2, <1>4, <1>6, OldestGoes
  <2> QED
    BY <2>1 DEF Replaces
<1>8. Moments \subseteq Int /\ NoTime \in Int /\ \A t \in Moments : t > NoTime
  BY DEF Moments, NoTime, GuardConstants
<1>9. ASSUME NEW a \in IPs, NEW m \in MACs PROVE heard'[a][m] <= now
  BY <1>1, <1>3, <1>8, <1>9 DEF LatestUses
<1>10. ASSUME NEW a \in IPs, NEW m \in MACs, users'[a] # None
       PROVE  heard'[a][users'[a].mac] = users'[a].at /\ heard'[a][m] <= users'[a].at
  <2>1. CASE a = f.ip
    <3>1. users'[a].mac = f.src /\ users'[a].at = now
      BY <1>7, <2>1 DEF Entry
    <3> QED
      BY <1>2, <1>3, <1>9, <2>1, <3>1
  <2>2. CASE a # f.ip
    <3>1. users'[a] = users[a]
      BY <1>7, <1>10, <2>2
    <3>2. users[a].mac \in MACs
      BY <1>1, <1>10, <3>1 DEF Bounded, Entries, Records
    <3> QED
      BY <1>3, <1>10, <2>2, <3>1, <3>2 DEF LatestUses
  <2> QED
    BY <2>1, <2>2
<1>11. LatestUses'
  BY <1>1, <1>9, <1>10 DEF LatestUses
<1>12. SomebodyWasLast'
  <2> SUFFICES ASSUME NEW a \in IPs
               PROVE  \E last \in MACs : \A m \in MACs : heard'[a][m] <= heard'[a][last]
    BY DEF SomebodyWasLast
  <2>1. CASE a = f.ip
    BY <1>2, <1>3, <1>9, <2>1
  <2>2. CASE a # f.ip
    <3>1. PICK last \in MACs : \A m \in MACs : heard[a][m] <= heard[a][last]
      BY <1>2 DEF SomebodyWasLast
    <3> QED
      BY <1>3, <2>2, <3>1
  <2> QED
    BY <2>1, <2>2
<1> QED
  BY <1>3, <1>7, <1>11, <1>12 DEF conflict

LEMMA ForgettingKept ==
  ASSUME GuardConstants, GuardInv, LatestUses, SomebodyWasLast, ForgetsTheOldest,
         NEW f \in Frames, Observe(f), Used(f)
  PROVE  ForgetsTheOldest'
<1> DEFINE conflict == "ip_conflict" \in Raised(gateway', f)
<1>1. /\ now \in Moments /\ heard \in [IPs -> [MACs -> Moments \union {NoTime}]]
      /\ Bounded(users) /\ now' = now
  BY DEF GuardInv, Histories, Observe
<1>2. f.src \in MACs /\ f.ip \in IPs
  BY UsersStep DEF Used
<1>3. PICK room \in Rooms(users, f.ip) : users' = [room EXCEPT ![f.ip] = Entry(users, f, conflict)]
  BY UsersStep
<1>4. conflict \in BOOLEAN
  OBVIOUS
<1>5. Entry(users, f, conflict) \in Records
  <2> HIDE DEF conflict
  <2> QED
    BY <1>1, <1>4, EntryType
<1> HIDE DEF conflict
<1>6. /\ users'[f.ip] = Entry(users, f, conflict)
      /\ \A b \in IPs \ {f.ip} :
           \/ users'[b] = users[b]
           \/ /\ users'[b] = None /\ users[b] # None
              /\ Cardinality(Tracked(users')) = MaxTracked
              /\ \A c \in Tracked(users') \ {f.ip} : users[b].at <= users[c].at
      /\ Cardinality(Tracked(users)) = MaxTracked => Cardinality(Tracked(users')) = MaxTracked
  <2>1. Replaces(users, users', f.ip, Entry(users, f, conflict))
    BY <1>1, <1>2, <1>3, <1>5, OldestGoes
  <2> QED
    BY <2>1 DEF Replaces
<1>7. users'[f.ip].at = now /\ users'[f.ip] # None
  BY <1>5, <1>6 DEF Entry, GuardConstants
<1>8. \A b \in Tracked(users') : b = f.ip \/ (users'[b] = users[b] /\ b \in Tracked(users))
  BY <1>6 DEF Tracked
<1> SUFFICES ASSUME NEW a \in IPs, NEW m \in MACs, users'[a] = None, heard'[a][m] # NoTime
             PROVE  /\ Cardinality(Tracked(users')) = MaxTracked
                    /\ \A b \in Tracked(users') : heard'[a][m] <= users'[b].at
  BY DEF ForgetsTheOldest, Tracked
<1>9. a # f.ip /\ heard'[a][m] = heard[a][m] /\ heard[a][m] <= now
  BY <1>1, <1>2, <1>7, UseIsLatest DEF LatestUses
<1>10. CASE users[a] = None
  <2>1. /\ Cardinality(Tracked(users)) = MaxTracked
        /\ \A b \in Tracked(users) : heard[a][m] <= users[b].at
    BY <1>9, <1>10 DEF ForgetsTheOldest
  <2> QED
    BY <1>6, <1>7, <1>8, <1>9, <2>1
<1>11. CASE users[a] # None
  <2>1. /\ Cardinality(Tracked(users')) = MaxTracked
        /\ \A c \in Tracked(users') \ {f.ip} : users[a].at <= users[c].at
    BY <1>6, <1>9, <1>11
  <2>2. heard[a][m] <= users[a].at
    BY <1>11 DEF LatestUses
  <2>3. ASSUME NEW b \in Tracked(users'), b # f.ip PROVE heard[a][m] <= users'[b].at
    <3>1. users'[b] = users[b] /\ b \in Tracked(users) /\ users[a].at <= users[b].at
      BY <1>8, <2>1, <2>3
    <3>2. users[a].at \in Int /\ users[b].at \in Int /\ heard[a][m] \in Int
      BY <1>1, <1>11, <3>1 DEF Tracked, Bounded, Entries, Records, Moments, NoTime, GuardConstants
    <3> QED
      BY <2>2, <3>1, <3>2
  <2> QED
    BY <1>7, <1>9, <2>1, <2>3
<1> QED
  BY <1>10, <1>11

\* The addresses that are busy since a time stay so.
LEMMA BusyStays ==
  ASSUME GuardConstants, GuardInv, GuardInv', LatestUses, SomebodyWasLast, NEW f \in Frames,
         Observe(f), Used(f), NEW from \in Moments, Cardinality(Busy(from)') <= MaxTracked
  PROVE  Cardinality(Busy(from)) <= MaxTracked
<1>1. Histories /\ Histories' /\ MACs # {} /\ SomebodyWasLast'
  BY UsersStep, UseIsLatest DEF GuardInv
<1>2. Busy(from) \subseteq Busy(from)'
  <2> SUFFICES ASSUME NEW b \in Busy(from) PROVE b \in Busy(from)'
    OBVIOUS
  <2>1. b \in IPs /\ \E m \in MACs : heard[b][m] >= from
    BY <1>1, LastHeardIsLatest DEF Busy
  <2>2. PICK n \in MACs : heard[b][n] >= from
    BY <2>1
  <2>3. heard'[b][n] >= from
    <3>1. heard'[b][n] \in {heard[b][n], now} /\ heard[b][n] <= now
      BY <2>1, UseIsLatest DEF LatestUses
    <3>2. {heard[b][n], now, from} \subseteq Int
      BY <1>1, <2>1 DEF Histories, Moments, NoTime, GuardConstants
    <3> QED
      BY <2>2, <3>1, <3>2
  <2>4. (LastHeard(b) >= from <=> \E m \in MACs : heard[b][m] >= from)'
    <3>1. (Histories /\ SomebodyWasLast =>
             \A a \in IPs, t \in Moments : MACs # {} =>
               (LastHeard(a) >= t <=> \E m \in MACs : heard[a][m] >= t))'
      BY LastHeardIsLatest, PTL
    <3> QED
      BY <1>1, <2>1, <3>1
  <2> QED
    BY <2>1, <2>3, <2>4 DEF Busy
<1>3. /\ IsFiniteSet(Busy(from)') /\ MaxTracked \in Nat
  BY FS_Subset DEF Busy, GuardConstants
<1>4. Cardinality(Busy(from)) <= Cardinality(Busy(from)') /\ IsFiniteSet(Busy(from))
  BY <1>2, <1>3, FS_Subset
<1> QED
  BY <1>3, <1>4, FS_CardinalityType

\* The step of the main invariant: whoever uses an address after another, while both
\* are among the latest, finds the entry of the one before.
LEMMA SharesKept ==
  ASSUME GuardConstants, GuardInv, GuardInv', SharingInv, NEW f \in Frames, Observe(f),
         Used(f)
  PROVE  SharesAreReported'
<1> DEFINE conflict == "ip_conflict" \in Raised(gateway', f)
<1>1. LatestUses /\ SomebodyWasLast /\ ForgetsTheOldest /\ SharesAreReported
  BY DEF SharingInv
<1>2. /\ now \in Moments /\ heard \in [IPs -> [MACs -> Moments \union {NoTime}]]
      /\ Bounded(users) /\ now' = now /\ Histories /\ Histories'
      /\ Moments \subseteq Int /\ NoTime \in Int /\ NoTime \notin Moments
      /\ ConflictCooldown \in Nat \ {0} /\ ActiveWithin \in Nat
  BY DEF GuardInv, Histories, Observe, Moments, NoTime, GuardConstants
<1>3. f.src \in MACs /\ f.ip \in IPs /\ ~ProxyArpFor(gateway', f) /\ f.ip # None
  BY UsersStep DEF Used
<1>4. /\ \A a \in IPs, m \in MACs :
           heard'[a][m] = IF a = f.ip /\ m = f.src THEN now ELSE heard[a][m]
      /\ users'[f.ip] = Entry(users, f, conflict)
      /\ LatestUses' /\ SomebodyWasLast'
  BY <1>1, UseIsLatest
<1>5. ForgetsTheOldest'
  BY <1>1, ForgettingKept
<1>6. \A b \in IPs \ {f.ip} : users'[b] = users[b] \/ users'[b] = None
  BY <1>3, TablesStep DEF Steps, Writes
<1>7. (Histories /\ Bounded(users) /\ LatestUses /\ SomebodyWasLast /\ ForgetsTheOldest =>
         \A a \in IPs, m \in MACs :
           heard[a][m] # NoTime /\ Cardinality(Busy(heard[a][m])) <= MaxTracked =>
             users[a] # None)'
  BY StillTracked, PTL
<1>8. ASSUME NEW t \in Moments, Cardinality(Busy(t)') <= MaxTracked
      PROVE  Cardinality(Busy(t)) <= MaxTracked
  BY <1>1, <1>8, BusyStays
<1> SUFFICES ASSUME NEW a \in IPs, NEW m1 \in MACs, NEW m2 \in MACs, Shared(a, m1, m2)'
             PROVE  ReportedFrom(a, heard[a][m1])'
  BY DEF SharesAreReported
<1>9. PICK from \in Moments : from = heard'[a][m1]
  <2>1. heard'[a][m1] \in Moments \union {NoTime}
    BY <1>2 DEF Histories
  <2>2. heard'[a][m1] # NoTime
    BY DEF Shared
  <2> QED
    BY <2>1, <2>2
<1>10. /\ m1 # m2 /\ heard'[a][m2] \in Moments
       /\ heard'[a][m2] - from \in 0 .. ActiveWithin
       /\ Cardinality(Busy(from)') <= MaxTracked
  <2>1. heard'[a][m2] - from \in 0 .. ActiveWithin /\ m1 # m2
    BY <1>9 DEF Shared
  <2>2. heard'[a][m2] \in Moments \union {NoTime} /\ from > NoTime
    BY <1>2, <1>9 DEF Histories, Moments, NoTime
  <2>3. heard'[a][m2] \in Moments
    BY <1>2, <2>1, <2>2
  <2>4. Cardinality(Busy(heard[a][m1]))' <= MaxTracked
    BY DEF Shared
  <2> QED
    BY <1>9, <2>1, <2>3, <2>4 DEF Busy
<1>11. Cardinality(Busy(from)) <= MaxTracked
  BY <1>8, <1>10
<1>12. users'[a] # None
  BY <1>2, <1>4, <1>5, <1>7, <1>9, <1>10 DEF GuardInv, Shared
<1>13. now \in Int /\ from \in Int /\ ActiveWithin \in Int /\ ConflictCooldown \in Int
  BY <1>2
<1>14. from <= now
  BY <1>4, <1>2, <1>9 DEF LatestUses
<1>15. CASE a # f.ip
  <2>1. /\ heard[a][m1] = from /\ heard[a][m2] = heard'[a][m2]
        /\ users'[a] = users[a]
    BY <1>4, <1>6, <1>9, <1>12, <1>15
  <2>2. Shared(a, m1, m2)
    BY <1>2, <1>10, <1>11, <2>1 DEF Shared
  <2> QED
    BY <1>1, <1>9, <2>1, <2>2 DEF SharesAreReported, ReportedFrom
<1>16. CASE a = f.ip
  <2>1. users[a] # None => /\ users[a] \in Records /\ users[a].mac \in MACs
                           /\ users[a].at \in Moments
                           /\ users[a].alert \in Moments \union {NoTime}
                           /\ heard[a][users[a].mac] = users[a].at
                           /\ \A m \in MACs : heard[a][m] <= users[a].at
                           /\ users[a].at <= now
    BY <1>1, <1>2 DEF LatestUses, Bounded, Entries, Records
  <2>2. /\ users'[a].alert = IF conflict THEN now ELSE LastAlert(users, a)
        /\ users[a] # None => LastAlert(users, a) = users[a].alert
    BY <1>4, <1>16 DEF Entry, LastAlert
  <2>3. SUFFICES users[a] # None /\ (conflict \/ ReportedFrom(a, from))
    <3>1. users'[a].alert # NoTime /\ from - users'[a].alert < ConflictCooldown
      <4>1. CASE conflict
        BY <1>2, <1>14, <2>2, <4>1
      <4>2. CASE ~conflict
        BY <2>2, <2>3, <4>2 DEF ReportedFrom
      <4> QED
        BY <4>1, <4>2
    <3> QED
      BY <1>9, <1>12, <3>1 DEF ReportedFrom
  <2>4. ASSUME users[a] # None, users[a].mac # f.src, now - users[a].at <= ActiveWithin
        PROVE  conflict \/ ReportedFrom(a, from)
    <3>1. conflict <=> CooledDown(users[a].alert, ConflictCooldown)
      BY <1>3, <1>16, <2>4 DEF Raised, ConflictAlerts, Kinds
    <3>2. users[a].alert \in Int
      <4>1. users[a].alert \in Moments \union {NoTime}
        BY <2>1, <2>4
      <4> QED
        BY <1>2, <4>1
    <3>3. ~conflict => users[a].alert # NoTime /\ now - users[a].alert < ConflictCooldown
      BY <1>13, <3>1, <3>2 DEF CooledDown
    <3> HIDE DEF conflict
    <3> QED
      BY <1>14, <1>13, <2>4, <3>2, <3>3 DEF ReportedFrom
  <2>5. ASSUME heard[a][m1] = from, heard[a][m2] - from \in 0 .. ActiveWithin
        PROVE  users[a] # None /\ ReportedFrom(a, from)
    <3>1. Shared(a, m1, m2)
      BY <1>2, <1>10, <1>11, <2>5 DEF Shared
    <3> QED
      BY <1>1, <2>5, <3>1 DEF SharesAreReported, ReportedFrom
  <2>6. ASSUME NEW m \in MACs, heard[a][m] = from PROVE users[a] # None
    BY <1>1, <1>2, <1>11, <2>6, StillTracked
  <2>7. CASE f.src = m2
    <3>1. heard[a][m1] = from /\ now - from \in 0 .. ActiveWithin /\ users[a] # None
      BY <1>4, <1>9, <1>10, <1>16, <2>6, <2>7
    <3>2. from <= users[a].at /\ users[a].at <= now /\ users[a].at \in Int
      <4>1. users[a].at \in Moments /\ heard[a][m1] <= users[a].at /\ users[a].at <= now
        BY <2>1, <3>1
      <4> QED
        BY <1>2, <3>1, <4>1
    <3>3. CASE users[a].mac # m2
      <4>1. now - users[a].at <= ActiveWithin
        BY <1>13, <3>1, <3>2
      <4> QED
        BY <2>4, <2>7, <3>1, <3>3, <4>1
    <3>4. CASE users[a].mac = m2
      <4>1. heard[a][m2] = users[a].at
        BY <2>1, <3>1, <3>4
      <4>2. heard[a][m2] - from \in 0 .. ActiveWithin
        BY <1>13, <3>1, <3>2, <4>1
      <4> QED
        BY <2>5, <3>1, <4>2
    <3> QED
      BY <3>3, <3>4
  <2>8. CASE f.src = m1
    <3>1. from = now /\ heard[a][m2] = now /\ users[a] # None
      <4>1. from = now /\ heard[a][m2] = heard'[a][m2] /\ heard[a][m2] <= now
        BY <1>1, <1>4, <1>9, <1>10, <1>16, <2>8 DEF LatestUses
      <4>2. heard[a][m2] = now
        BY <1>2, <1>10, <4>1
      <4> QED
        BY <2>6, <4>1, <4>2
    <3>2. users[a].at = now
      BY <1>2, <2>1, <3>1
    <3>3. CASE users[a].mac # m1
      BY <1>2, <2>4, <2>8, <3>1, <3>2, <3>3
    <3>4. CASE users[a].mac = m1
      BY <1>2, <2>1, <2>5, <3>1, <3>2, <3>4
    <3> QED
      BY <3>3, <3>4
  <2>9. CASE f.src \notin {m1, m2}
    BY <1>4, <1>9, <1>10, <1>16, <2>5, <2>9
  <2> QED
    BY <2>7, <2>8, <2>9
<1> QED
  BY <1>15, <1>16

\* What is not about the clock does not change with it.
LEMMA SharingStands ==
  ASSUME SomebodyWasLast, ForgetsTheOldest, SharesAreReported, UNCHANGED <<users, heard>>
  PROVE  SomebodyWasLast' /\ ForgetsTheOldest' /\ SharesAreReported'
<1>1. SomebodyWasLast' /\ ForgetsTheOldest'
  BY DEF SomebodyWasLast, ForgetsTheOldest, Tracked
<1>2. ASSUME NEW a \in IPs, NEW m1 \in MACs, NEW m2 \in MACs, Shared(a, m1, m2)'
      PROVE  ReportedFrom(a, heard[a][m1])'
  <2>1. Busy(heard[a][m1])' = Busy(heard[a][m1])
    BY DEF Busy, LastHeard
  <2>2. Shared(a, m1, m2)
    BY <1>2, <2>1 DEF Shared
  <2> QED
    BY <2>2 DEF SharesAreReported, ReportedFrom
<1> QED
  BY <1>1, <1>2 DEF SharesAreReported

LEMMA SharingKept ==
  ASSUME GuardConstants, GuardInv, GuardInv', SharingInv, [Next]_vars
  PROVE  SharingInv'
<1>1. CASE Tick \/ UNCHANGED vars
  <2>1. UNCHANGED <<users, heard>> /\ now' >= now
    BY <1>1 DEF Tick, vars, guards, GuardInv, Histories, Moments, GuardConstants
  <2>2. now \in Moments /\ now' \in Moments
    BY DEF GuardInv, Histories
  <2>3. LatestUses'
    <3>1. heard \in [IPs -> [MACs -> Moments \union {NoTime}]]
      BY DEF GuardInv, Histories
    <3>2. ASSUME NEW a \in IPs, NEW m \in MACs PROVE heard[a][m] <= now'
      <4>1. heard[a][m] <= now /\ heard[a][m] \in Int /\ now \in Int /\ now' \in Int
        BY <2>2, <3>1 DEF SharingInv, LatestUses, Moments, NoTime, GuardConstants
      <4> QED
        BY <2>1, <4>1
    <3> QED
      BY <2>1, <3>2 DEF SharingInv, LatestUses
  <2>4. SomebodyWasLast' /\ ForgetsTheOldest' /\ SharesAreReported'
    BY <2>1, SharingStands DEF SharingInv
  <2> QED
    BY <2>3, <2>4 DEF SharingInv
<1>2. ASSUME NEW f \in Frames, Observe(f) PROVE SharingInv'
  <2>1. CASE Used(f)
    BY <1>2, <2>1, UseIsLatest, ForgettingKept, SharesKept DEF SharingInv
  <2>2. CASE ~Used(f)
    <3>1. UNCHANGED <<users, heard, now>>
      BY <1>2, <2>2, UsersStep DEF Observe
    <3> QED
      BY <3>1, SharingStands DEF SharingInv, LatestUses
  <2> QED
    BY <2>1, <2>2
<1> QED
  BY <1>1, <1>2 DEF Next

\* Two devices that used one address close together have been reported, then or within
\* the cooldown before, unless the table had to forget the address: for any number of
\* devices and addresses, and whatever happens in between.
THEOREM SharingIsReported == Spec => []SharedAddressIsReported
<1>1. Init => SharingInv
  <2> SUFFICES ASSUME Init PROVE SharingInv
    OBVIOUS
  <2>1. \A a \in IPs : users[a] = None /\ \A m \in MACs : heard[a][m] = NoTime
    BY DEF Init
  <2>2. now = 0 /\ NoTime <= now /\ NoTime <= NoTime
    BY DEF Init, NoTime
  <2> QED
    BY <2>1, <2>2 DEF SharingInv, LatestUses, SomebodyWasLast, ForgetsTheOldest,
       SharesAreReported, Shared
<1>2. GuardInv /\ GuardInv' /\ SharingInv /\ [Next]_vars => SharingInv'
  BY GuardConstants, SharingKept
<1>3. GuardInv /\ SharingInv => SharedAddressIsReported
  <2> SUFFICES ASSUME GuardInv, SharingInv, NEW a \in IPs, NEW m1 \in MACs, NEW m2 \in MACs,
                      Shared(a, m1, m2)
               PROVE  /\ decided[a]["ip_conflict"] # NoTime
                      /\ heard[a][m2] - decided[a]["ip_conflict"]
                           < ConflictCooldown + ActiveWithin
    BY DEF SharedAddressIsReported, Shared, Busy
  <2>1. ReportedFrom(a, heard[a][m1])
    BY DEF SharingInv, SharesAreReported
  <2>2. decided[a]["ip_conflict"] = users[a].alert
    BY <2>1 DEF GuardInv, RemembersTheAlert, Kinds, Table, LastAlert, ReportedFrom
  <2>3. /\ {heard[a][m1], heard[a][m2]} \subseteq Moments \union {NoTime}
        /\ decided[a]["ip_conflict"] \in Moments \union {NoTime}
    BY DEF GuardInv, Histories, Kinds
  <2> QED
    BY <2>1, <2>2, <2>3, GuardConstants DEF ReportedFrom, Shared, Moments, NoTime, GuardConstants
<1> QED
  BY <1>1, <1>2, <1>3, GuardInvariance, PTL DEF Spec
=============================================================================
