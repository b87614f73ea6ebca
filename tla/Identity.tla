------------------------------ MODULE Identity ------------------------------
(***************************************************************************)
(* What a device is called: the address index, the attribution of a name   *)
(* to the holder of an address, the ordered evidence of a device, and the  *)
(* settle window a rival name waits out (src/device/mod.rs,                *)
(* src/identity/scorer.rs).                                                *)
(*                                                                         *)
(* A signal is a name; Rank is the weight of its kind.  Each device has    *)
(* one address slot: the IPv6 slot works alike and is left out.            *)
(*                                                                         *)
(* The network is part of the model, because whether an attribution is     *)
(* right depends on it: Owner is who a name really belongs to and `uses`   *)
(* which address a machine really has.  Machines tell the truth, announce  *)
(* an address when they take it, leave without saying so, and answer for   *)
(* one another as a Bonjour sleep proxy does.                              *)
(*                                                                         *)
(* Times are kept as what the code compares them for: the order of         *)
(* sightings, the order of confirmations, and ages that stop counting at   *)
(* SettleWindow.  Two frames never share a time stamp, the evidence of one *)
(* frame always does.                                                      *)
(***************************************************************************)
EXTENDS Lists, SequencesExt, FiniteSetsExt

CONSTANTS
  Devices,        \* MAC addresses
  Addresses,      \* IPv4 addresses of the network
  Names,          \* values of naming signals
  None,           \* absence of a device, an address or a name
  Owner,          \* the device a name really belongs to
  Rank,           \* SignalKind::weight of the kind the name arrives as
  PtrNames,       \* the names the reverse resolver answers with
  SettleWindow,   \* identity::SETTLE_WINDOW, in ticks
  MaxRestarts     \* bound on restarts of the daemon

ASSUME IdentityConstants ==
  /\ None \notin Devices \union Addresses \union Names
  /\ Owner \in [Names -> Devices]
  /\ Rank \in [Names -> Nat \ {0}]
  /\ PtrNames \subseteq Names
  /\ SettleWindow \in Nat \ {0}
  /\ MaxRestarts \in Nat

VARIABLES
  entry,      \* Manager.devices: the entry of each device, None if unknown
  heard,      \* the known devices, least recently seen first (last_seen_at)
  index,      \* Manager.addresses: the device last seen with each address
  row,        \* ng_devices: the flushed address of each device's row
  rowOrder,   \* ng_devices: the rows in the order of their last_seen_at
  stored,     \* ng_device_signals of each device
  uses,       \* the network: the address each machine has
  restarts,   \* restarts so far
  won         \* history: how long ago each shown name last won a judgement

table == <<entry, heard, index>>
database == <<row, rowOrder, stored>>
vars == <<table, database, uses, restarts, won>>

(***************************************************************************)
(* The scorer.  The bare MAC is the name of rank 0.                        *)
(***************************************************************************)
RankOf(n) == IF n = None THEN 0 ELSE Rank[n]

\* The scorer asks for the first signal of a kind, strongest kind first, and
\* never compares positions across kinds: evidence is kept one kind after the
\* other, so that its head is what resolve returns, None for the bare MAC.
Resolve(signals) == IF signals = <<>> THEN None ELSE signals[1]

\* The names of a list kind by kind, in the order of their first mention.
ByKind(q) ==
  LET mentions == {i \in DOMAIN q : \A j \in 1..(i - 1) : q[j] # q[i]}
  IN  Arranged(q, [i \in mentions |->
        {j \in mentions : \/ Rank[q[j]] > Rank[q[i]]
                          \/ (Rank[q[j]] = Rank[q[i]] /\ j < i)}])

Older(age) == Min({age + 1, SettleWindow})
Settled(age) == age >= SettleWindow

(***************************************************************************)
(* Evidence of one device: a batch goes to the front as a block, the       *)
(* repeats it holds leave their old place.                                 *)
(***************************************************************************)
\* Mutant: a repeat is put in front and also left where it was.
RecordedTwice(signals, batch) == batch \o signals

Recorded(signals, batch) == IF batch = <<>> THEN signals ELSE ByKind(batch \o signals)

\* Mutant: the incumbent winning back does not stop a rival's clock.
RescoredForgivingly(e) ==
  LET candidate == Resolve(e.signals)
      rival == RankOf(candidate) = RankOf(e.identity) /\ candidate # e.identity
      age == IF e.pending # None THEN e.pending.age ELSE 0
  IN  IF RankOf(candidate) > RankOf(e.identity) \/ (rival /\ Settled(age))
      THEN [e EXCEPT !.identity = candidate, !.pending = None]
      ELSE IF rival THEN [e EXCEPT !.pending = [name |-> candidate, age |-> age]] ELSE e

\* What a rescoring makes of an entry.
Rescored(e) ==
  LET candidate == Resolve(e.signals)
      age == IF e.pending # None /\ e.pending.name = candidate
             THEN e.pending.age ELSE 0
      Adopted == [e EXCEPT !.identity = candidate, !.pending = None]
  IN  CASE RankOf(candidate) > RankOf(e.identity) -> Adopted
        [] RankOf(candidate) < RankOf(e.identity) \/ candidate = e.identity ->
             [e EXCEPT !.pending = None]
        [] OTHER -> IF Settled(age) THEN Adopted
                    ELSE [e EXCEPT !.pending = [name |-> candidate, age |-> age]]

\* add_signal: the order of the evidence always moves, the identity is judged
\* again only when the evidence is new.
SignalAdded(e, n) ==
  LET noted == [e EXCEPT !.signals = Recorded(e.signals, <<n>>)]
  IN  IF Contains(e.signals, n) THEN noted ELSE Rescored(noted)

\* A name that is shown wins a judgement when the evidence resolves to it.
Winning(e) == e.identity # None /\ e.identity = Resolve(e.signals)

\* What adding one name after the other makes of an entry, from the entry itself
\* to the last; and whether a judgement on the way was won.
Additions(e, names) ==
  LET after[i \in 0..Len(names)] == IF i = 0 THEN e ELSE SignalAdded(after[i - 1], names[i])
  IN  after
SignalsAdded(e, names) == Additions(e, names)[Len(names)]
Wins(e, names) ==
  LET after == Additions(e, names)
  IN  \E i \in 1..Len(names) : ~Contains(after[i - 1].signals, names[i]) /\ Winning(after[i])

\* discover: the entry of a device first seen.
Discovered == [signals |-> <<>>, identity |-> None, pending |-> None, ip |-> None]

\* ng_device_signals after a frame that confirmed a batch: rows in the order of
\* their ids, and in the order load_all_signals returns them, most recently
\* confirmed first and ties by id.
Upserted(s, batch) ==
  LET ids == ByKind(s.ids \o batch)
      confirmed == Those(ids, {i \in DOMAIN ids : ids[i] \in Range(batch)})
  IN  IF batch = <<>> THEN s ELSE [ids |-> ids, loaded |-> Recorded(s.loaded, confirmed)]

(***************************************************************************)
(* Attribution of the claims of a frame.  A claim is a name and the        *)
(* address the message tied it to, None when it tied it to none.           *)
(***************************************************************************)
Holds(d, a) == entry[d] # None /\ entry[d].ip = a

\* The device that holds an address, the index confirmed by the entry.
HolderOf(idx, a) == IF idx[a] # None /\ Holds(idx[a], a) THEN idx[a] ELSE None

SenderAddresses(d, a) ==
  {a} \union (IF entry[d] = None THEN {} ELSE {entry[d].ip} \ {None})

\* Mutant: a responder's unqualified records are always taken as its own.
SpeaksForItself(d, a, claims) == FALSE

SpeaksForOthers(d, a, claims) ==
  \E c \in Range(claims) : c.of # None /\ c.of \notin SenderAddresses(d, a)

\* The device a claim is about, None for one that is only counted.
SubjectOf(c, d, a, claims) ==
  IF c.of = None
  THEN IF SpeaksForOthers(d, a, claims) THEN None ELSE d
  ELSE IF c.of \in SenderAddresses(d, a) THEN d
       ELSE HolderOf([index EXCEPT ![a] = d], c.of)

(***************************************************************************)
(* observe: one frame of d, sent from address a, with its claims.          *)
(***************************************************************************)
Latest(order, d) == Append(Those(order, {i \in DOMAIN order : order[i] # d}), d)

Observe(d, a, claims) ==
  LET names == [i \in DOMAIN claims |-> claims[i].name]
      subject == [i \in DOMAIN claims |-> SubjectOf(claims[i], d, a, claims)]
      about == [x \in Devices |-> Those(names, {i \in DOMAIN claims : subject[i] = x})]
      before == IF entry[d] = None THEN Discovered ELSE entry[d]
  IN  /\ entry' = [x \in Devices |->
           IF x = d
           THEN Rescored([before EXCEPT !.ip = a,
                                        !.signals = Recorded(@, about[d])])
           ELSE SignalsAdded(entry[x], about[x])]
      /\ heard' = Latest(heard, d)
      /\ index' = [index EXCEPT ![a] = d]
      /\ stored' = [x \in Devices |-> Upserted(stored[x], about[x])]
      /\ rowOrder' = IF Contains(rowOrder, d) THEN rowOrder ELSE Append(rowOrder, d)
      /\ won' = [x \in Devices |->
           IF \/ x = d /\ Winning(entry'[d])
              \/ x # d /\ Wins(entry[x], about[x])
           THEN 0 ELSE won[x]]
      /\ UNCHANGED row

(***************************************************************************)
(* The network.                                                            *)
(***************************************************************************)
\* A machine takes a free address and is heard doing so.
Join(d, a) ==
  /\ \A o \in Devices : uses[o] # a
  /\ uses' = [uses EXCEPT ![d] = a]
  /\ Observe(d, a, <<>>)
  /\ UNCHANGED restarts

\* A machine leaves without a word.
Leave(d) ==
  /\ uses[d] # None
  /\ uses' = [uses EXCEPT ![d] = None]
  /\ UNCHANGED <<table, database, restarts, won>>

\* The true things a machine can say: a name with the address of its owner or
\* with none; but in a frame that speaks for nobody else, only names of its own.
Claims ==
  {[name |-> n, of |-> a] : n \in Names \ PtrNames, a \in Addresses \union {None}}
Sayable == {c \in Claims : c.of \in {None, uses[Owner[c.name]]}}
Truthful(d, claims) ==
  \/ \E c \in Range(claims) : c.of # None /\ Owner[c.name] # d
  \/ \A c \in Range(claims) : Owner[c.name] = d

\* An mDNS frame with one or two claims, sent from the machine's address.
Announce(d, claims) ==
  /\ uses[d] # None
  /\ Truthful(d, claims)
  /\ Observe(d, uses[d], claims)
  /\ UNCHANGED <<uses, restarts>>

\* An answer of the reverse resolver about a device the table knows.
ReverseDns(d, n) ==
  /\ entry[d] # None
  /\ Owner[n] = d
  /\ entry' = [entry EXCEPT ![d] = SignalsAdded(@, <<n>>)]
  /\ stored' = [stored EXCEPT ![d] = Upserted(@, <<n>>)]
  /\ won' = [won EXCEPT ![d] = IF Wins(entry[d], <<n>>) THEN 0 ELSE @]
  /\ UNCHANGED <<heard, index, row, rowOrder, uses, restarts>>

(***************************************************************************)
(* The periodic flush, and a restart.                                      *)
(***************************************************************************)
Flush ==
  /\ row' = [d \in Devices |-> IF entry[d] = None THEN None ELSE entry[d].ip]
  /\ rowOrder' = heard
  /\ <<row', rowOrder'>> # <<row, rowOrder>>
  /\ UNCHANGED <<table, stored, uses, restarts, won>>

\* Rows are loaded most recently seen first and each overwrites the index entry
\* of its address, so the least recently seen one is left there.
Reindexed(a) ==
  LET at == {i \in DOMAIN rowOrder : row[rowOrder[i]] = a}
  IN  IF at = {} THEN None ELSE rowOrder[Min(at)]

Restart ==
  /\ restarts < MaxRestarts
  /\ restarts' = restarts + 1
  /\ entry' = [d \in Devices |->
       IF ~Contains(rowOrder, d) THEN None
       ELSE [signals |-> stored[d].loaded, identity |-> Resolve(stored[d].loaded),
             pending |-> None, ip |-> row[d]]]
  /\ heard' = rowOrder
  /\ index' = [a \in Addresses |-> Reindexed(a)]
  /\ won' = [d \in Devices |->
       IF Contains(rowOrder, d) /\ Winning(entry'[d]) THEN 0 ELSE won[d]]
  /\ UNCHANGED <<database, uses>>

Tick ==
  /\ entry' = [d \in Devices |->
       IF entry[d] = None \/ entry[d].pending = None THEN entry[d]
       ELSE [entry[d] EXCEPT !.pending.age = Older(@)]]
  /\ won' = [d \in Devices |-> Older(won[d])]
  /\ UNCHANGED <<heard, index, database, uses, restarts>>

Init ==
  /\ entry = [d \in Devices |-> None]
  /\ heard = <<>>
  /\ index = [a \in Addresses |-> None]
  /\ row = [d \in Devices |-> None]
  /\ rowOrder = <<>>
  /\ stored = [d \in Devices |-> [ids |-> <<>>, loaded |-> <<>>]]
  /\ uses = [d \in Devices |-> None]
  /\ restarts = 0
  /\ won = [d \in Devices |-> SettleWindow]

Next ==
  \/ \E d \in Devices, a \in Addresses : Join(d, a)
  \/ \E d \in Devices : Leave(d)
  \/ \E d \in Devices, c \in Sayable : Announce(d, <<c>>)
  \/ \E d \in Devices, c1, c2 \in Sayable : c1 # c2 /\ Announce(d, <<c1, c2>>)
  \/ \E d \in Devices, n \in PtrNames : ReverseDns(d, n)
  \/ Flush
  \/ Restart
  \/ Tick

Spec == Init /\ [][Next]_vars

(***************************************************************************)
(* Properties.                                                             *)
(***************************************************************************)
Orders(S) == {q \in Seq(S) : IsInjective(q)}

NameOrders == Orders(Names)
DeviceOrders == Orders(Devices)

Entries ==
  [signals : NameOrders,
   identity : Names \union {None},
   pending : [name : Names, age : 0..SettleWindow] \union {None},
   ip : Addresses \union {None}]

ASSUME NoneIsNoEntry == None \notin Entries

\* The types; evidence is a sequence with no repeats, and so are the orders.
TypeOK ==
  /\ entry \in [Devices -> Entries \union {None}]
  /\ heard \in DeviceOrders
  /\ index \in [Addresses -> Devices \union {None}]
  /\ row \in [Devices -> Addresses \union {None}]
  /\ rowOrder \in DeviceOrders
  /\ stored \in [Devices -> [ids : NameOrders, loaded : NameOrders]]
  /\ uses \in [Devices -> Addresses \union {None}]
  /\ restarts \in 0..MaxRestarts
  /\ won \in [Devices -> 0..SettleWindow]

\* The shown name is one the evidence supports, and no evidence of a stronger
\* kind is passed over, whichever path brought it and although add_signal
\* judges only evidence that is new; a pending name is a different one of the
\* same rank, also in the evidence.
NameMatchesEvidence ==
  \A d \in Devices : entry[d] # None =>
    LET e == entry[d] IN
      /\ RankOf(e.identity) = RankOf(Resolve(e.signals))
      /\ e.identity # None => Contains(e.signals, e.identity)
      /\ e.pending # None =>
           /\ e.pending.name # e.identity
           /\ Contains(e.signals, e.pending.name)
           /\ RankOf(e.pending.name) = RankOf(e.identity)

\* A device does not flap: one name replaces another of the same rank only
\* when the shown one has won no judgement for the whole settle window, so that
\* an alternating pair never changes it, whatever order frames, answers about
\* other machines, resolver answers and restarts come in.
NoFlapping ==
  [][\A d \in Devices :
       (restarts' = restarts /\ entry[d] # None /\ entry[d].identity # entry'[d].identity
          /\ RankOf(entry[d].identity) = RankOf(entry'[d].identity))
       => Settled(won[d])]_vars

\* A restart does not demote a device: what it was called is replaced, at
\* worst, by a name of the same rank out of the stored evidence.
RestartKeepsTheRank ==
  [][restarts' # restarts =>
       \A d \in Devices : entry[d] # None =>
         /\ entry'[d] # None
         /\ RankOf(entry'[d].identity) >= RankOf(entry[d].identity)]_vars

Misnamed == {d \in Devices : entry[d] # None /\
               \E i \in DOMAIN entry[d].signals : Owner[entry[d].signals[i]] # d}

\* No machine is given another machine's name, although proxies speak for
\* sleepers, addresses change hands and the index goes stale, as long as the
\* index was built by listening; a restart rebuilds it, see IndexNamesTheLatest.
NamesStayHome == restarts = 0 => Misnamed = {}

\* A name is earned, by evidence and by its owner: the two together.
NamesAreEarned == NameMatchesEvidence /\ NamesStayHome

\* A name stays, through alternating evidence and through restarts: the two
\* together.
NamesLast == NoFlapping /\ RestartKeepsTheRank

\* Of two devices whose last known address is the same, the index names the
\* one seen later: the comment on Manager.addresses calls it "which device last
\* held each address".
IndexNamesTheLatest ==
  \A a \in Addresses, d, latest \in Devices :
    (d # latest /\ Holds(d, a) /\ Holds(latest, a) /\ index[a] = latest)
    => \E i, j \in DOMAIN heard : i < j /\ heard[i] = d /\ heard[j] = latest
=============================================================================
