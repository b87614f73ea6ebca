--------------------------- MODULE EvidenceProofs ---------------------------
(***************************************************************************)
(* Proofs about what is heard of a device: that nobody is credited with    *)
(* what is another's, and that the strongest evidence decides what the     *)
(* device is, for any records, neighbours, names, signals and tables.      *)
(*                                                                         *)
(* Claims: what reading a message collects is described by a set of        *)
(* offers, the union of what its records and its questions offer.  A list  *)
(* keeps each offered value once, for one of its owners; so a claim's      *)
(* owner leads back to records of the message, and in a message that does  *)
(* not contradict itself, where a value has one owner, the order in which  *)
(* the records came does not show in the claims.                           *)
(*                                                                         *)
(* Voices: every frame a neighbour can send, of NDP, NetBIOS or SSDP, says *)
(* of the neighbour nothing but what is its own.                           *)
(*                                                                         *)
(* Classification: the daemon's list and the database's rows are two       *)
(* orders of the same signals, so the first of a list is the latest of its *)
(* kind in the rows; the table of lengths is filled to the longest common  *)
(* subsequence, by induction on its rows and cells.                        *)
(*                                                                         *)
(* Leases: a walk over a block that begins like a list of options reads a  *)
(* beginning of that list, and all of it when the block is whole; and what *)
(* is known after a number of options is, of every field, the first usable *)
(* value among them.                                                       *)
(*                                                                         *)
(* Messages: a name takes as many turns as it has labels and pointers, and *)
(* its own labels lie one after the other up to its end or its pointer;    *)
(* from there every turn is a turn of the pointed name.  A turn that finds *)
(* what it needs in the head of a message does the same in the whole.      *)
(***************************************************************************)
EXTENDS Credit, Classification, Leases, Messages, FunctionTheorems, FiniteSetTheorems,
        WellFoundedInduction, TLAPS

\* A nonempty set of numbers has a least one.
LEMMA LeastNumber ==
  ASSUME NEW T \in SUBSET Nat, T # {}
  PROVE  \E x \in T : \A y \in T : x <= y
<1>1. PICK x \in T : \A y \in T : ~ (<<y, x>> \in OpToRel(<, Nat))
  <2> HIDE DEF OpToRel
  <2> QED  BY NatLessThanWellFounded, WFMin
<1>2. \A y \in T : ~(y < x)
  BY <1>1 DEF OpToRel
<1> QED  BY <1>2

-----------------------------------------------------------------------------
(***************************************************************************)
(* What a message says, as sets                                            *)
(***************************************************************************)
\* A value for an owner, if it is one.
Offered(value, owner) == {[value |-> v, owner |-> owner] : v \in {value} \ {Missing}}

\* A list keeps of what it is offered each value once, for one of its owners.
Keeps(list, offered) ==
  /\ list \in Seq(offered)
  /\ \A o \in offered : \E i \in DOMAIN list : list[i].value = o.value

\* A value that is pushed is kept, for this owner or for one before it.
LEMMA PushKeeps ==
  ASSUME NEW list, NEW offered, NEW value, NEW owner, Keeps(list, offered)
  PROVE  Keeps(Push(list, value, owner), offered \cup Offered(value, owner))
<1> DEFINE all == offered \cup Offered(value, owner)
           n == [value |-> value, owner |-> owner]
<1>1. list \in Seq(all)
  BY DEF Keeps
<1>2. CASE value = Missing
  <2>1. Push(list, value, owner) = list /\ all = offered
    BY <1>2 DEF Push, Offered
  <2> QED  BY <2>1
<1>3. CASE value # Missing /\ \E i \in 1..Len(list) : list[i].value = value
  <2>1. Push(list, value, owner) = list /\ all = offered \cup {n}
    BY <1>3 DEF Push, Offered
  <2>2. PICK i \in 1..Len(list) : list[i].value = value
    BY <1>3
  <2>3. i \in DOMAIN list /\ list[i].value = n.value
    BY <1>1, <2>2
  <2>4. \A o \in all : \E j \in DOMAIN list : list[j].value = o.value
    BY <2>1, <2>3 DEF Keeps
  <2> HIDE DEF all
  <2> QED  BY <1>1, <2>1, <2>4 DEF Keeps, all
<1>4. CASE value # Missing /\ ~ \E i \in 1..Len(list) : list[i].value = value
  <2>1. Push(list, value, owner) = Append(list, n) /\ all = offered \cup {n}
    BY <1>4 DEF Push, Offered
  <2> DEFINE more == Append(list, n)
  <2>2. more \in Seq(all)
    BY <1>1, <2>1
  <2>3. /\ Len(more) = Len(list) + 1 /\ more[Len(list) + 1] = n
        /\ \A i \in 1..Len(list) : more[i] = list[i]
        /\ Len(list) \in Nat /\ DOMAIN list = 1..Len(list) /\ DOMAIN more = 1..Len(more)
    BY <1>1, <2>2
  <2>4. ASSUME NEW o \in all  PROVE \E j \in DOMAIN more : more[j].value = o.value
    <3>1. CASE o = n
      <4>1. Len(list) + 1 \in DOMAIN more
        BY <2>3
      <4> QED  BY <2>3, <3>1, <4>1
    <3>2. CASE o \in offered
      <4>1. PICK i \in DOMAIN list : list[i].value = o.value
        BY <3>2 DEF Keeps
      <4>2. i \in DOMAIN more /\ more[i].value = o.value
        BY <2>3, <4>1
      <4> QED  BY <4>2
    <3> QED  BY <2>1, <3>1, <3>2
  <2> HIDE DEF more, all
  <2>5. Keeps(more, all)
    BY <2>2, <2>4 DEF Keeps
  <2> QED  BY <2>1, <2>5 DEF more, all
<1> QED  BY <1>2, <1>3, <1>4

-----------------------------------------------------------------------------
\* f is what the first k models make of a list.
PushesUpTo(f, k, list, models, owner) ==
  f = [i \in 0..k |-> IF i = 0 THEN list ELSE Push(f[i - 1], models[i], owner)]

\* The recursion of ModelsPushed has a value, and unfolds step by step.
LEMMA PushesUnfold ==
  ASSUME NEW list, NEW models, NEW owner, Len(models) \in Nat
  PROVE  /\ ModelsPushed(list, models, owner)[0] = list
         /\ \A i \in 1..Len(models) :
              ModelsPushed(list, models, owner)[i]
                = Push(ModelsPushed(list, models, owner)[i - 1], models[i], owner)
<1> DEFINE n == Len(models)
           T == {k \in 0..n : ~ \E f : PushesUpTo(f, k, list, models, owner)}
<1>0. n \in Nat
  OBVIOUS
<1>1. T = {}
  <2> SUFFICES ASSUME T # {}  PROVE FALSE
    OBVIOUS
  <2>1. PICK k \in T : \A j \in T : k <= j
    <3>1. T \in SUBSET Nat
      BY <1>0
    <3> HIDE DEF T
    <3> QED  BY <3>1, LeastNumber
  <2>2. k # 0
    <3> DEFINE f == [i \in 0..0 |-> list]
    <3>1. PushesUpTo(f, 0, list, models, owner)
      BY DEF PushesUpTo
    <3> QED  BY <3>1
  <2>3. k - 1 \in 0..n /\ k - 1 \notin T /\ k \in 1..n
    BY <1>0, <2>1, <2>2
  <2>4. PICK g : PushesUpTo(g, k - 1, list, models, owner)
    BY <2>3
  <2> DEFINE f == [i \in 0..k |-> IF i = k THEN Push(g[k - 1], models[k], owner) ELSE g[i]]
  <2>5. g = [i \in 0..(k - 1) |-> IF i = 0 THEN list ELSE Push(g[i - 1], models[i], owner)]
    BY <2>4 DEF PushesUpTo
  <2>6. ASSUME NEW i \in 0..k
        PROVE  f[i] = IF i = 0 THEN list ELSE Push(f[i - 1], models[i], owner)
    <3>1. CASE i = k
      <4>1. f[i - 1] = g[k - 1] /\ i # 0
        BY <3>1, <2>3, <1>0
      <4> QED  BY <3>1, <4>1
    <3>2. CASE i # k /\ i # 0
      <4>1. i \in 0..(k - 1) /\ i - 1 \in 0..k /\ i - 1 # k
        BY <3>2, <2>3, <1>0
      <4>2. f[i] = g[i] /\ f[i - 1] = g[i - 1]
        BY <3>2, <4>1
      <4>3. g[i] = Push(g[i - 1], models[i], owner)
        BY <2>5, <3>2, <4>1
      <4> QED  BY <3>2, <4>2, <4>3
    <3>3. CASE i = 0
      <4>1. f[0] = g[0] /\ 0 \in 0..(k - 1)
        BY <2>3, <1>0, <3>3
      <4> QED  BY <2>5, <3>3, <4>1
    <3> QED  BY <3>1, <3>2, <3>3
  <2>7. PushesUpTo(f, k, list, models, owner)
    <3>1. f = [i \in 0..k |-> f[i]]
      OBVIOUS
    <3> HIDE DEF f
    <3> QED  BY <2>6, <3>1 DEF PushesUpTo
  <2> HIDE DEF f
  <2> QED  BY <2>1, <2>7
<1>2. \E f : PushesUpTo(f, n, list, models, owner)
  BY <1>0, <1>1
<1>3. ModelsPushed(list, models, owner) = CHOOSE f : PushesUpTo(f, n, list, models, owner)
  BY DEF ModelsPushed, PushesUpTo
<1>4. PushesUpTo(ModelsPushed(list, models, owner), n, list, models, owner)
  BY <1>2, <1>3
<1> QED  BY <1>0, <1>4 DEF PushesUpTo

\* The list keeps the models of a text besides what it was offered before.
ModelsKept(list, offered, models, owner) ==
  Keeps(ModelsPushed(list, models, owner)[Len(models)],
        offered \cup UNION {Offered(m, owner) : m \in ToSet(models)})

\* The models of a text are kept, for the owner of the text or one before it.
LEMMA ModelsKeep ==
  ASSUME NEW list, NEW offered, NEW models, NEW owner, models \in Seq(ToSet(models)),
         Keeps(list, offered)
  PROVE  ModelsKept(list, offered, models, owner)
<1> DEFINE n == Len(models)
           P == ModelsPushed(list, models, owner)
           O(k) == offered \cup UNION {Offered(models[i], owner) : i \in 1..k}
           T == {k \in 0..n : ~Keeps(P[k], O(k))}
<1>0. n \in Nat /\ DOMAIN models = 1..n
  OBVIOUS
<1>1. P[0] = list /\ \A i \in 1..n : P[i] = Push(P[i - 1], models[i], owner)
  BY <1>0, PushesUnfold
<1>2. O(0) = offered
  OBVIOUS
<1>3. \A k \in 1..n : O(k) = O(k - 1) \cup Offered(models[k], owner)
  <2> SUFFICES ASSUME NEW k \in 1..n
               PROVE  O(k) = O(k - 1) \cup Offered(models[k], owner)
    OBVIOUS
  <2>1. \A i : i \in 1..k <=> i \in 1..(k - 1) \/ i = k
    BY <1>0
  <2> QED  BY <2>1
<1>4. O(n) = offered \cup UNION {Offered(m, owner) : m \in ToSet(models)}
  BY <1>0 DEF ToSet
<1> HIDE DEF P, O
<1>5. T = {}
  <2> SUFFICES ASSUME T # {}  PROVE FALSE
    OBVIOUS
  <2>1. PICK k \in T : \A j \in T : k <= j
    <3>1. T \in SUBSET Nat
      BY <1>0
    <3> HIDE DEF T
    <3> QED  BY <3>1, LeastNumber
  <2>2. k # 0
    BY <1>1, <1>2, <2>1
  <2>3. k - 1 \in 0..n /\ k - 1 \notin T /\ k \in 1..n
    BY <1>0, <2>1, <2>2
  <2>4. Keeps(P[k - 1], O(k - 1))
    BY <2>3
  <2>5. Keeps(Push(P[k - 1], models[k], owner), O(k - 1) \cup Offered(models[k], owner))
    BY <2>4, PushKeeps
  <2>6. Keeps(P[k], O(k))
    BY <1>1, <1>3, <2>3, <2>5
  <2> QED  BY <2>1, <2>6
<1>6. Keeps(P[n], O(n))
  BY <1>0, <1>5
<1> QED  BY <1>4, <1>6 DEF P, ModelsKept

-----------------------------------------------------------------------------
(***************************************************************************)
(* What each record of a message offers                                    *)
(***************************************************************************)
\* What is offered to the six lists of the collection.
Offer(instances, hosts, services, models, addresses, targets) ==
  [instances |-> instances, hosts |-> hosts, services |-> services, models |-> models,
   addresses |-> addresses, targets |-> targets]

\* Two offers together, and none.
Plus(o, p) ==
  Offer(o.instances \cup p.instances, o.hosts \cup p.hosts, o.services \cup p.services,
        o.models \cup p.models, o.addresses \cup p.addresses, o.targets \cup p.targets)

NoOffer == Offer({}, {}, {}, {}, {}, {})

\* A list that is exactly what it was offered.
Listed(list, offered) ==
  list \in Seq(offered) /\ \A o \in offered : \E i \in DOMAIN list : list[i] = o

\* The collection holds what was offered, and nothing else.
Holds(found, o) ==
  /\ found = Offer(found.instances, found.hosts, found.services, found.models,
                   found.addresses, found.targets)
  /\ Keeps(found.instances, o.instances) /\ Keeps(found.hosts, o.hosts)
  /\ Keeps(found.services, o.services) /\ Keeps(found.models, o.models)
  /\ Listed(found.addresses, o.addresses) /\ Listed(found.targets, o.targets)

\* What each of the Collect operators offers.
ServiceOffer(name, owner) ==
  Offer({}, {}, IF name.shape = "service" THEN Offered(name.service, owner) ELSE {}, {}, {}, {})

InstanceOffer(name) ==
  IF name.shape = "instance"
  THEN Offer(Offered(name.label, Instance(name)), {}, Offered(name.service, Instance(name)),
             {}, {}, {})
  ELSE ServiceOffer(name, Sender)

HostOffer(name, owner) ==
  Offer({}, IF name.shape = "host" THEN Offered(name.label, owner) ELSE {}, {}, {}, {}, {})

ModelOffer(r) ==
  Offer({}, {}, {}, UNION {Offered(m, instance_owner(r.name)) : m \in ToSet(r.models)}, {}, {})

TargetOffer(r) ==
  Offer({}, {}, {}, {}, {},
        IF r.target = Missing THEN {} ELSE {[named |-> r.name, host |-> r.target]})

AddressOffer(r) ==
  Offer({}, {}, {}, {},
        IF r.address = Missing THEN {} ELSE {[named |-> r.name, address |-> r.address]}, {})

\* What a record offers; and what a question does.
RecordOffer(r) ==
  CASE r.type = "PTR" ->
         IF r.target = Missing THEN ServiceOffer(r.name, Sender)
         ELSE Plus(InstanceOffer(r.target), ServiceOffer(r.name, instance_owner(r.target)))
    [] r.type = "SRV" -> Plus(InstanceOffer(r.name), TargetOffer(r))
    [] r.type = "TXT" -> Plus(InstanceOffer(r.name), ModelOffer(r))
    [] r.type = "A" -> Plus(AddressOffer(r), HostOffer(r.name, Host(r.name)))
    [] OTHER -> NoOffer

QuestionOffer(name) == Plus(InstanceOffer(name), HostOffer(name, Sender))

\* Nothing is offered or kept before the first record.
LEMMA NothingHolds == Holds(Nothing, NoOffer)
BY DEF Holds, Nothing, NoOffer, Offer, Keeps, Listed

\* Offers are taken together in any order, and nothing adds nothing.
LEMMA PlusTogether ==
  ASSUME NEW o, NEW p, NEW q
  PROVE  Plus(Plus(o, p), q) = Plus(o, Plus(p, q))
BY DEF Plus, Offer

\* A list that is added to is what it was offered.
LEMMA AppendLists ==
  ASSUME NEW list, NEW offered, NEW x, Listed(list, offered)
  PROVE  Listed(Append(list, x), offered \cup {x})
<1> DEFINE all == offered \cup {x}
           more == Append(list, x)
<1>1. list \in Seq(all)
  BY DEF Listed
<1>2. more \in Seq(all)
  BY <1>1
<1>3. /\ Len(more) = Len(list) + 1 /\ more[Len(list) + 1] = x
      /\ \A i \in 1..Len(list) : more[i] = list[i]
      /\ Len(list) \in Nat /\ DOMAIN list = 1..Len(list) /\ DOMAIN more = 1..Len(more)
  BY <1>1, <1>2
<1>4. ASSUME NEW o \in all  PROVE \E j \in DOMAIN more : more[j] = o
  <2>1. CASE o = x
    <3>1. Len(list) + 1 \in DOMAIN more
      BY <1>3
    <3> QED  BY <1>3, <2>1, <3>1
  <2>2. CASE o \in offered
    <3>1. PICK i \in DOMAIN list : list[i] = o
      BY <2>2 DEF Listed
    <3>2. i \in DOMAIN more /\ more[i] = o
      BY <1>3, <3>1
    <3> QED  BY <3>2
  <2> QED  BY <2>1, <2>2
<1> HIDE DEF more, all
<1>5. Listed(more, all)
  BY <1>2, <1>4 DEF Listed
<1> QED  BY <1>5 DEF more, all

\* A service type is kept.
LEMMA ServiceHolds ==
  ASSUME NEW found, NEW o, NEW name, NEW owner, Holds(found, o)
  PROVE  Holds(CollectService(found, name, owner), Plus(o, ServiceOffer(name, owner)))
<1>1. CASE name.shape # "service"
  BY <1>1 DEF Holds, CollectService, Plus, ServiceOffer, Offer
<1>2. CASE name.shape = "service"
  <2> DEFINE s == Push(found.services, name.service, owner)
             t == o.services \cup Offered(name.service, owner)
  <2>1. Keeps(s, t)
    BY PushKeeps DEF Holds
  <2>2. CollectService(found, name, owner) = [found EXCEPT !.services = s]
    BY <1>2 DEF CollectService
  <2>3. /\ Plus(o, ServiceOffer(name, owner)).services = t
        /\ Plus(o, ServiceOffer(name, owner)).instances = o.instances
        /\ Plus(o, ServiceOffer(name, owner)).hosts = o.hosts
        /\ Plus(o, ServiceOffer(name, owner)).models = o.models
        /\ Plus(o, ServiceOffer(name, owner)).addresses = o.addresses
        /\ Plus(o, ServiceOffer(name, owner)).targets = o.targets
    BY <1>2 DEF Plus, ServiceOffer, Offer
  <2> HIDE DEF s, t
  <2> QED  BY <2>1, <2>2, <2>3 DEF Holds, Offer
<1> QED  BY <1>1, <1>2

\* An instance and its service are kept.
LEMMA InstanceHolds ==
  ASSUME NEW found, NEW o, NEW name, Holds(found, o)
  PROVE  Holds(CollectInstance(found, name), Plus(o, InstanceOffer(name)))
<1>1. CASE name.shape # "instance"
  <2>1. Holds(CollectService(found, name, Sender), Plus(o, ServiceOffer(name, Sender)))
    BY ServiceHolds
  <2> QED  BY <1>1, <2>1 DEF CollectInstance, InstanceOffer
<1>2. CASE name.shape = "instance"
  <2> DEFINE s == Push(found.services, name.service, Instance(name))
             t == o.services \cup Offered(name.service, Instance(name))
             u == Push(found.instances, name.label, Instance(name))
             v == o.instances \cup Offered(name.label, Instance(name))
             p == Plus(o, InstanceOffer(name))
  <2>1. Keeps(s, t) /\ Keeps(u, v)
    BY PushKeeps DEF Holds
  <2>2. CollectInstance(found, name) = [found EXCEPT !.instances = u, !.services = s]
    BY <1>2 DEF CollectInstance, Holds, Offer
  <2>3. /\ p.services = t /\ p.instances = v /\ p.hosts = o.hosts /\ p.models = o.models
        /\ p.addresses = o.addresses /\ p.targets = o.targets
    BY <1>2 DEF Plus, InstanceOffer, Offer
  <2> HIDE DEF s, t, u, v, p
  <2> DEFINE more == Offer(u, found.hosts, s, found.models, found.addresses, found.targets)
  <2>5. found = Offer(found.instances, found.hosts, found.services, found.models,
                      found.addresses, found.targets)
    BY DEF Holds
  <2>6. [found EXCEPT !.instances = u, !.services = s] = more
    <3> DEFINE h == found.hosts
               m == found.models
               a == found.addresses
               w == found.targets
               i == found.instances
               x == found.services
    <3>1. found = Offer(i, h, x, m, a, w)
      BY <2>5
    <3> HIDE DEF h, m, a, w, i, x
    <3>2. [Offer(i, h, x, m, a, w) EXCEPT !.instances = u, !.services = s]
            = Offer(u, h, s, m, a, w)
      <4>1. [Offer(i, h, x, m, a, w) EXCEPT !.instances = u] = Offer(u, h, x, m, a, w)
        BY DEF Offer
      <4>2. [Offer(u, h, x, m, a, w) EXCEPT !.services = s] = Offer(u, h, s, m, a, w)
        BY DEF Offer
      <4> QED  BY <4>1, <4>2
    <3>3. [found EXCEPT !.instances = u, !.services = s] = Offer(u, h, s, m, a, w)
      BY <3>1, <3>2
    <3> QED  BY <3>3 DEF h, m, a, w
  <2>7. /\ more.instances = u /\ more.services = s /\ more.hosts = found.hosts
        /\ more.models = found.models /\ more.addresses = found.addresses
        /\ more.targets = found.targets
        /\ more = Offer(u, found.hosts, s, found.models, found.addresses, found.targets)
    BY DEF Offer
  <2> HIDE DEF more
  <2>8. Holds(more, p)
    BY <2>1, <2>3, <2>7 DEF Holds
  <2>4. Holds([found EXCEPT !.instances = u, !.services = s], p)
    BY <2>6, <2>8
  <2> QED  BY <2>2, <2>4 DEF p
<1> QED  BY <1>1, <1>2

\* A host is kept.
LEMMA HostHolds ==
  ASSUME NEW found, NEW o, NEW name, NEW owner, Holds(found, o)
  PROVE  Holds(CollectHost(found, name, owner), Plus(o, HostOffer(name, owner)))
<1> DEFINE p == Plus(o, HostOffer(name, owner))
<1>0. /\ p.services = o.services /\ p.instances = o.instances /\ p.models = o.models
      /\ p.addresses = o.addresses /\ p.targets = o.targets
      /\ p.hosts = o.hosts \cup IF name.shape = "host" THEN Offered(name.label, owner) ELSE {}
  BY DEF Plus, HostOffer, Offer
<1> HIDE DEF p
<1>1. CASE name.shape # "host"
  <2>1. CollectHost(found, name, owner) = found /\ p.hosts = o.hosts
    BY <1>0, <1>1 DEF CollectHost
  <2>2. Holds(found, p)
    BY <1>0, <2>1 DEF Holds
  <2> QED  BY <2>1, <2>2 DEF p
<1>2. CASE name.shape = "host"
  <2> DEFINE s == Push(found.hosts, name.label, owner)
             t == o.hosts \cup Offered(name.label, owner)
  <2>1. Keeps(s, t)
    BY PushKeeps DEF Holds
  <2>2. CollectHost(found, name, owner) = [found EXCEPT !.hosts = s] /\ p.hosts = t
    BY <1>0, <1>2 DEF CollectHost
  <2> HIDE DEF s, t
  <2>3. Holds([found EXCEPT !.hosts = s], p)
    BY <1>0, <2>1, <2>2 DEF Holds, Offer
  <2> QED  BY <2>2, <2>3 DEF p
<1> QED  BY <1>1, <1>2

\* The models of a text are kept.
LEMMA ModelsHold ==
  ASSUME NEW found, NEW o, NEW r, r.models \in Seq(ToSet(r.models)), Holds(found, o)
  PROVE  Holds(CollectModels(found, r), Plus(o, ModelOffer(r)))
<1> DEFINE p == Plus(o, ModelOffer(r))
           owner == instance_owner(r.name)
           s == ModelsPushed(found.models, r.models, owner)[Len(r.models)]
           t == o.models \cup UNION {Offered(m, owner) : m \in ToSet(r.models)}
<1>1. Keeps(s, t)
  <2>1. Keeps(found.models, o.models)
    BY DEF Holds
  <2>2. ModelsKept(found.models, o.models, r.models, owner)
    BY <2>1, ModelsKeep
  <2> QED  BY <2>2 DEF ModelsKept
<1>2. /\ p.services = o.services /\ p.instances = o.instances /\ p.hosts = o.hosts
      /\ p.addresses = o.addresses /\ p.targets = o.targets /\ p.models = t
  BY DEF Plus, ModelOffer, Offer
<1>3. CollectModels(found, r) = [found EXCEPT !.models = s]
  BY DEF CollectModels
<1> HIDE DEF s, t, p
<1>4. Holds([found EXCEPT !.models = s], p)
  BY <1>1, <1>2 DEF Holds, Offer
<1> QED  BY <1>3, <1>4 DEF p

\* An address of a host is kept, and the host.
LEMMA AddressHolds ==
  ASSUME NEW found, NEW o, NEW r, Holds(found, o)
  PROVE  Holds(Address(found, r), Plus(o, Plus(AddressOffer(r), HostOffer(r.name, Host(r.name)))))
<1> DEFINE given == IF r.address = Missing THEN found
                    ELSE [found EXCEPT !.addresses =
                            Append(found.addresses, [named |-> r.name, address |-> r.address])]
           p == Plus(o, AddressOffer(r))
<1>0. /\ p.services = o.services /\ p.instances = o.instances /\ p.hosts = o.hosts
      /\ p.models = o.models /\ p.targets = o.targets
      /\ p.addresses = o.addresses \cup IF r.address = Missing THEN {}
                                        ELSE {[named |-> r.name, address |-> r.address]}
  BY DEF Plus, AddressOffer, Offer
<1> HIDE DEF p
<1>1. Holds(given, p)
  <2>1. CASE r.address = Missing
    <3>1. given = found /\ p.addresses = o.addresses
      BY <1>0, <2>1
    <3> HIDE DEF given
    <3> QED  BY <1>0, <3>1 DEF Holds
  <2>2. CASE r.address # Missing
    <3> DEFINE x == [named |-> r.name, address |-> r.address]
               s == Append(found.addresses, x)
    <3>1. Listed(s, o.addresses \cup {x})
      <4> HIDE DEF x
      <4> QED  BY AppendLists DEF Holds
    <3>2. given = [found EXCEPT !.addresses = s] /\ p.addresses = o.addresses \cup {x}
      BY <1>0, <2>2
    <3> HIDE DEF s, x, given
    <3>3. Holds([found EXCEPT !.addresses = s], p)
      BY <1>0, <3>1, <3>2 DEF Holds, Offer
    <3> QED  BY <3>2, <3>3
  <2> QED  BY <2>1, <2>2
<1>2. Address(found, r) = CollectHost(given, r.name, Host(r.name))
  BY DEF Address
<1> HIDE DEF given
<1>3. Holds(CollectHost(given, r.name, Host(r.name)), Plus(p, HostOffer(r.name, Host(r.name))))
  BY <1>1, HostHolds
<1> QED  BY <1>2, <1>3, PlusTogether DEF p

\* The location of an instance is kept, and the instance.
LEMMA LocationHolds ==
  ASSUME NEW found, NEW o, NEW r, Holds(found, o)
  PROVE  Holds(Location(found, r), Plus(o, Plus(InstanceOffer(r.name), TargetOffer(r))))
<1> DEFINE withIt == CollectInstance(found, r.name)
           q == Plus(o, InstanceOffer(r.name))
           p == Plus(q, TargetOffer(r))
<1>1. Holds(withIt, q)
  BY InstanceHolds
<1> HIDE DEF withIt, q
<1>0. /\ p.services = q.services /\ p.instances = q.instances /\ p.hosts = q.hosts
      /\ p.models = q.models /\ p.addresses = q.addresses
      /\ p.targets = q.targets \cup IF r.target = Missing THEN {}
                                    ELSE {[named |-> r.name, host |-> r.target]}
  BY DEF Plus, TargetOffer, Offer
<1> HIDE DEF p
<1>2. Holds(Location(found, r), p)
  <2>1. CASE r.target = Missing
    <3>1. Location(found, r) = withIt /\ p.targets = q.targets
      BY <1>0, <2>1 DEF Location, withIt
    <3> QED  BY <1>0, <1>1, <3>1 DEF Holds
  <2>2. CASE r.target # Missing
    <3> DEFINE x == [named |-> r.name, host |-> r.target]
               s == Append(withIt.targets, x)
    <3>1. Listed(s, q.targets \cup {x})
      <4> HIDE DEF x
      <4> QED  BY <1>1, AppendLists DEF Holds
    <3>2. Location(found, r) = [withIt EXCEPT !.targets = s] /\ p.targets = q.targets \cup {x}
      BY <1>0, <2>2 DEF Location, withIt
    <3> HIDE DEF s, x
    <3>3. Holds([withIt EXCEPT !.targets = s], p)
      BY <1>0, <1>1, <3>1, <3>2 DEF Holds, Offer
    <3> QED  BY <3>2, <3>3
  <2> QED  BY <2>1, <2>2
<1> QED  BY <1>2, PlusTogether DEF p, q

\* What is found after a record holds what it offers.
LEMMA RecordHolds ==
  ASSUME NEW found, NEW o, NEW r, r.models \in Seq(ToSet(r.models)), Holds(found, o)
  PROVE  Holds(Collect(found, r), Plus(o, RecordOffer(r)))
<1>1. CASE r.type = "PTR"
  <2>1. Collect(found, r) = Pointer(found, r)
    BY <1>1 DEF Collect
  <2>2. CASE r.target = Missing
    <3>1. Holds(CollectService(found, r.name, Sender), Plus(o, ServiceOffer(r.name, Sender)))
      BY ServiceHolds
    <3> QED  BY <1>1, <2>1, <2>2, <3>1 DEF Pointer, RecordOffer
  <2>3. CASE r.target # Missing
    <3> DEFINE f == CollectInstance(found, r.target)
               q == Plus(o, InstanceOffer(r.target))
               w == instance_owner(r.target)
    <3>1. Holds(f, q)
      BY InstanceHolds
    <3>2. Collect(found, r) = CollectService(f, r.name, w)
      BY <2>1, <2>3 DEF Pointer
    <3>3. RecordOffer(r) = Plus(InstanceOffer(r.target), ServiceOffer(r.name, w))
      BY <1>1, <2>3 DEF RecordOffer
    <3>4. Plus(o, RecordOffer(r)) = Plus(q, ServiceOffer(r.name, w))
      BY <3>3, PlusTogether
    <3> HIDE DEF f, q, w
    <3>5. Holds(CollectService(f, r.name, w), Plus(q, ServiceOffer(r.name, w)))
      BY <3>1, ServiceHolds
    <3> QED  BY <3>2, <3>4, <3>5
  <2> QED  BY <2>2, <2>3
<1>2. CASE r.type = "SRV"
  BY <1>2, LocationHolds DEF Collect, RecordOffer
<1>3. CASE r.type = "TXT"
  <2> DEFINE f == CollectInstance(found, r.name)
             q == Plus(o, InstanceOffer(r.name))
  <2>1. Holds(f, q)
    BY InstanceHolds
  <2>2. Collect(found, r) = CollectModels(f, r)
    BY <1>3 DEF Collect
  <2>3. Plus(o, RecordOffer(r)) = Plus(q, ModelOffer(r))
    <3>1. RecordOffer(r) = Plus(InstanceOffer(r.name), ModelOffer(r))
      BY <1>3 DEF RecordOffer
    <3> QED  BY <3>1, PlusTogether
  <2> HIDE DEF f, q
  <2>4. Holds(CollectModels(f, r), Plus(q, ModelOffer(r)))
    BY <2>1, ModelsHold
  <2> QED  BY <2>2, <2>3, <2>4
<1>4. CASE r.type = "A"
  BY <1>4, AddressHolds DEF Collect, RecordOffer
<1>5. CASE r.type \notin {"PTR", "SRV", "TXT", "A"}
  <2>1. Collect(found, r) = found /\ RecordOffer(r) = NoOffer
    BY <1>5 DEF Collect, RecordOffer
  <2>2. Holds(found, Plus(o, NoOffer))
    BY DEF Holds, Plus, NoOffer, Offer
  <2> QED  BY <2>1, <2>2
<1> QED  BY <1>1, <1>2, <1>3, <1>4, <1>5

\* What is found after a question holds what it offers.
LEMMA QuestionHolds ==
  ASSUME NEW found, NEW o, NEW name, Holds(found, o)
  PROVE  Holds(CollectQuestion(found, name), Plus(o, QuestionOffer(name)))
<1> DEFINE f == CollectInstance(found, name)
           q == Plus(o, InstanceOffer(name))
<1>1. Holds(f, q)
  BY InstanceHolds
<1>2. /\ CollectQuestion(found, name) = CollectHost(f, name, Sender)
      /\ Plus(o, QuestionOffer(name)) = Plus(q, HostOffer(name, Sender))
  BY PlusTogether DEF CollectQuestion, QuestionOffer
<1> HIDE DEF f, q
<1>3. Holds(CollectHost(f, name, Sender), Plus(q, HostOffer(name, Sender)))
  BY <1>1, HostHolds
<1> QED  BY <1>2, <1>3
-----------------------------------------------------------------------------
(***************************************************************************)
(* What a whole message offers                                             *)
(***************************************************************************)
ReadNext(found, list, i) ==
  IF i <= Len(list) THEN Collect(found, list[i])
  ELSE CollectQuestion(found, questions[i - Len(list)])

\* f is what was found in the first k records and questions.
ReadsUpTo(f, k, list) ==
  f = [i \in 0..k |-> IF i = 0 THEN Nothing ELSE ReadNext(f[i - 1], list, i)]

\* The recursion of Readings has a value, and unfolds step by step.
LEMMA ReadingsUnfold ==
  ASSUME NEW list, Len(list) \in Nat, Len(questions) \in Nat
  PROVE  /\ Readings(list)[0] = Nothing
         /\ \A i \in 1..(Len(list) + Len(questions)) :
              Readings(list)[i] = ReadNext(Readings(list)[i - 1], list, i)
<1> DEFINE n == Len(list) + Len(questions)
           T == {k \in 0..n : ~ \E f : ReadsUpTo(f, k, list)}
<1>0. n \in Nat
  OBVIOUS
<1>3. Readings(list) = CHOOSE f : ReadsUpTo(f, n, list)
  BY DEF Readings, ReadsUpTo, ReadNext
<1> HIDE DEF n
<1>1. T = {}
  <2> SUFFICES ASSUME T # {}  PROVE FALSE
    OBVIOUS
  <2>1. PICK k \in T : \A j \in T : k <= j
    <3>1. T \in SUBSET Nat
      BY <1>0
    <3> HIDE DEF T
    <3> QED  BY <3>1, LeastNumber
  <2>2. k # 0
    <3> DEFINE f == [i \in 0..0 |-> Nothing]
    <3>1. ReadsUpTo(f, 0, list)
      BY DEF ReadsUpTo
    <3> QED  BY <3>1
  <2>3. k - 1 \in 0..n /\ k - 1 \notin T /\ k \in 1..n
    BY <1>0, <2>1, <2>2
  <2>4. PICK g : ReadsUpTo(g, k - 1, list)
    BY <2>3
  <2> DEFINE f == [i \in 0..k |-> IF i = k THEN ReadNext(g[k - 1], list, k) ELSE g[i]]
  <2>5. g = [i \in 0..(k - 1) |-> IF i = 0 THEN Nothing ELSE ReadNext(g[i - 1], list, i)]
    BY <2>4 DEF ReadsUpTo
  <2>6. ASSUME NEW i \in 0..k
        PROVE  f[i] = IF i = 0 THEN Nothing ELSE ReadNext(f[i - 1], list, i)
    <3>1. CASE i = k
      <4>1. f[i - 1] = g[k - 1] /\ i # 0
        BY <3>1, <2>3, <1>0
      <4> QED  BY <3>1, <4>1
    <3>2. CASE i # k /\ i # 0
      <4>1. i \in 0..(k - 1) /\ i - 1 \in 0..k /\ i - 1 # k
        BY <3>2, <2>3, <1>0
      <4>2. f[i] = g[i] /\ f[i - 1] = g[i - 1]
        BY <3>2, <4>1
      <4>3. g[i] = ReadNext(g[i - 1], list, i)
        BY <2>5, <3>2, <4>1
      <4> QED  BY <3>2, <4>2, <4>3
    <3>3. CASE i = 0
      <4>1. f[0] = g[0] /\ 0 \in 0..(k - 1)
        BY <2>3, <1>0, <3>3
      <4> QED  BY <2>5, <3>3, <4>1
    <3> QED  BY <3>1, <3>2, <3>3
  <2>7. ReadsUpTo(f, k, list)
    <3>1. f = [i \in 0..k |-> f[i]]
      OBVIOUS
    <3> HIDE DEF f
    <3> QED  BY <2>6, <3>1 DEF ReadsUpTo
  <2> HIDE DEF f
  <2> QED  BY <2>1, <2>7
<1>2. \E f : ReadsUpTo(f, n, list)
  BY <1>0, <1>1
<1>4. ReadsUpTo(Readings(list), n, list)
  BY <1>2, <1>3
<1> QED  BY <1>0, <1>4 DEF ReadsUpTo, n

\* What the i-th of the records and the questions offers.
TurnOffer(list, i) ==
  IF i <= Len(list) THEN RecordOffer(list[i]) ELSE QuestionOffer(questions[i - Len(list)])

\* What the first k offer together.
AllOffered(list, k) ==
  Offer(UNION {TurnOffer(list, i).instances : i \in 1..k},
        UNION {TurnOffer(list, i).hosts : i \in 1..k},
        UNION {TurnOffer(list, i).services : i \in 1..k},
        UNION {TurnOffer(list, i).models : i \in 1..k},
        UNION {TurnOffer(list, i).addresses : i \in 1..k},
        UNION {TurnOffer(list, i).targets : i \in 1..k})

\* One more.
LEMMA OneMoreOffered ==
  ASSUME NEW list, NEW k \in Nat, k # 0
  PROVE  AllOffered(list, k) = Plus(AllOffered(list, k - 1), TurnOffer(list, k))
<1>1. 1..k = (1..(k - 1)) \cup {k}
  OBVIOUS
<1> QED  BY <1>1 DEF AllOffered, Plus, Offer

\* How many of them are read: of an answer only the records.
Read(list) == Len(list) + IF response THEN 0 ELSE Len(questions)

\* A message holds what it offers.
LEMMA MessageHolds ==
  ASSUME NEW list \in Seq(Records), questions \in Seq(Questions)
  PROVE  Holds(Collected(list), AllOffered(list, Read(list)))
<1> DEFINE n == Len(list) + Len(questions)
           P == Readings(list)
           T == {k \in 0..n : ~Holds(P[k], AllOffered(list, k))}
<1>0. Len(list) \in Nat /\ Len(questions) \in Nat /\ n \in Nat
  OBVIOUS
<1>1. P[0] = Nothing /\ \A i \in 1..n : P[i] = ReadNext(P[i - 1], list, i)
  BY <1>0, ReadingsUnfold
<1>2. AllOffered(list, 0) = NoOffer
  <2>1. 1..0 = {}
    OBVIOUS
  <2> QED  BY <2>1 DEF AllOffered, NoOffer
<1>3. \A i \in 1..Len(list) : list[i].models \in Seq(ToSet(list[i].models))
  <2>1. \A i \in 1..Len(list) : list[i] \in Records
    OBVIOUS
  <2> QED  BY <2>1, ClaimsAssumption
<1>4. Read(list) \in 0..n /\ Collected(list) = P[Read(list)]
  BY <1>0 DEF Read, Collected
<1> HIDE DEF P
<1>5. T = {}
  <2> SUFFICES ASSUME T # {}  PROVE FALSE
    OBVIOUS
  <2>1. PICK k \in T : \A j \in T : k <= j
    <3>1. T \in SUBSET Nat
      BY <1>0
    <3> HIDE DEF T
    <3> QED  BY <3>1, LeastNumber
  <2>2. k # 0
    BY <1>1, <1>2, <2>1, NothingHolds
  <2>3. k - 1 \in 0..n /\ k - 1 \notin T /\ k \in 1..n
    BY <1>0, <2>1, <2>2
  <2>4. Holds(P[k - 1], AllOffered(list, k - 1)) /\ P[k] = ReadNext(P[k - 1], list, k)
    BY <1>1, <2>3
  <2>5. Holds(ReadNext(P[k - 1], list, k), Plus(AllOffered(list, k - 1), TurnOffer(list, k)))
    <3>1. CASE k <= Len(list)
      <4>1. k \in 1..Len(list)
        BY <1>0, <2>3, <3>1
      <4>2. list[k].models \in Seq(ToSet(list[k].models))
        BY <1>3, <4>1
      <4> DEFINE r == list[k]
                 o == AllOffered(list, k - 1)
                 f == P[k - 1]
      <4>3. Holds(f, o) /\ r.models \in Seq(ToSet(r.models))
        BY <2>4, <4>2
      <4>4. ReadNext(f, list, k) = Collect(f, r) /\ TurnOffer(list, k) = RecordOffer(r)
        BY <3>1 DEF ReadNext, TurnOffer
      <4> HIDE DEF r, o, f
      <4>5. Holds(Collect(f, r), Plus(o, RecordOffer(r)))
        BY <4>3, RecordHolds
      <4>6. Holds(ReadNext(f, list, k), Plus(o, TurnOffer(list, k)))
        BY <4>4, <4>5
      <4> QED  BY <4>6 DEF o, f
    <3>2. CASE ~(k <= Len(list))
      <4> DEFINE q == questions[k - Len(list)]
                 o == AllOffered(list, k - 1)
                 f == P[k - 1]
      <4>3. Holds(f, o)
        BY <2>4
      <4>4. ReadNext(f, list, k) = CollectQuestion(f, q) /\ TurnOffer(list, k) = QuestionOffer(q)
        BY <3>2 DEF ReadNext, TurnOffer
      <4> HIDE DEF q, o, f
      <4>5. Holds(CollectQuestion(f, q), Plus(o, QuestionOffer(q)))
        BY <4>3, QuestionHolds
      <4>6. Holds(ReadNext(f, list, k), Plus(o, TurnOffer(list, k)))
        BY <4>4, <4>5
      <4> QED  BY <4>6 DEF o, f
    <3> QED  BY <3>1, <3>2
  <2>6. AllOffered(list, k) = Plus(AllOffered(list, k - 1), TurnOffer(list, k))
    BY <1>0, <2>3, OneMoreOffered
  <2> QED  BY <2>1, <2>4, <2>5, <2>6
<1> QED  BY <1>4, <1>5

-----------------------------------------------------------------------------
(***************************************************************************)
(* What is claimed, and about whom                                         *)
(***************************************************************************)
\* The addresses offered for a host.
AddressesIn(o, host) == {x.address : x \in {y \in o.addresses : y.named = host}}

\* The addresses collected for a host are those that were offered.
LEMMA AddressesAre ==
  ASSUME NEW found, NEW o, NEW host, Holds(found, o)
  PROVE  addresses_of(found, host) = AddressesIn(o, host)
<1> DEFINE list == found.addresses
<1>1. Listed(list, o.addresses)
  BY DEF Holds
<1>2. addresses_of(found, host)
        = {list[i].address : i \in {j \in 1..Len(list) : list[j].named = host}}
  BY DEF addresses_of
<1> HIDE DEF list
<1>3. list \in Seq(o.addresses) /\ DOMAIN list = 1..Len(list)
      /\ \A i \in 1..Len(list) : list[i] \in o.addresses
  BY <1>1 DEF Listed
<1>4. \A x \in o.addresses : \E i \in 1..Len(list) : list[i] = x
  BY <1>1, <1>3 DEF Listed
<1> QED  BY <1>2, <1>3, <1>4 DEF AddressesIn

\* Resolving an instance follows one of the locations that were offered.
LocatedAt(found, o, owner) ==
  IF \E t \in o.targets : t.named = owner.name
  THEN \E t \in o.targets : t.named = owner.name /\ Resolve(found, owner) = AddressesIn(o, t.host)
  ELSE Resolve(found, owner) = {}

\* An instance is where one of its locations says.
LEMMA InstancesAre ==
  ASSUME NEW found, NEW o, NEW owner, Holds(found, o), owner.by = "instance"
  PROVE  LocatedAt(found, o, owner)
<1> DEFINE list == found.targets
           at == {i \in 1..Len(list) : list[i].named = owner.name}
           first == CHOOSE i \in at : \A j \in at : i <= j
<1>1. Listed(list, o.targets)
  BY DEF Holds
<1>2. Resolve(found, owner) = IF at = {} THEN {} ELSE addresses_of(found, list[first].host)
  BY DEF Resolve
<1> HIDE DEF list
<1>3. list \in Seq(o.targets) /\ DOMAIN list = 1..Len(list) /\ Len(list) \in Nat
      /\ \A i \in 1..Len(list) : list[i] \in o.targets
  BY <1>1 DEF Listed
<1>4. \A x \in o.targets : \E i \in 1..Len(list) : list[i] = x
  BY <1>1, <1>3 DEF Listed
<1>5. at # {} <=> \E t \in o.targets : t.named = owner.name
  BY <1>3, <1>4
<1>6. CASE at = {}
  BY <1>2, <1>5, <1>6 DEF LocatedAt
<1>7. CASE at # {}
  <2>1. \E i \in at : \A j \in at : i <= j
    <3>1. at \in SUBSET Nat
      BY <1>3
    <3> HIDE DEF at
    <3> QED  BY <1>7, <3>1, LeastNumber
  <2>2. first \in at
    BY <2>1
  <2>3. list[first] \in o.targets /\ list[first].named = owner.name
    BY <1>3, <2>2
  <2>4. Resolve(found, owner) = addresses_of(found, list[first].host)
    BY <1>2, <1>7
  <2>5. addresses_of(found, list[first].host) = AddressesIn(o, list[first].host)
    BY AddressesAre
  <2> QED  BY <2>3, <2>4, <2>5 DEF LocatedAt
<1> QED  BY <1>6, <1>7
-----------------------------------------------------------------------------
\* The entries of two lists are those of the two together.
LEMMA ConcatSet ==
  ASSUME NEW S, NEW s \in Seq(S), NEW t \in Seq(S)
  PROVE  s \o t \in Seq(S) /\ ToSet(s \o t) = ToSet(s) \cup ToSet(t)
<1>1. /\ s \o t \in Seq(S) /\ Len(s \o t) = Len(s) + Len(t)
      /\ Len(s) \in Nat /\ Len(t) \in Nat
      /\ DOMAIN s = 1..Len(s) /\ DOMAIN t = 1..Len(t)
      /\ DOMAIN (s \o t) = 1..(Len(s) + Len(t))
      /\ \A i \in 1..(Len(s) + Len(t)) : (s \o t)[i] = IF i <= Len(s) THEN s[i] ELSE t[i - Len(s)]
  OBVIOUS
<1> DEFINE u == s \o t
<1> HIDE DEF u
<1>2. ASSUME NEW x \in ToSet(u)  PROVE x \in ToSet(s) \cup ToSet(t)
  <2>1. PICK i \in 1..(Len(s) + Len(t)) : u[i] = x
    BY <1>1, <1>2 DEF ToSet, u
  <2>2. CASE i <= Len(s)
    <3>1. i \in DOMAIN s /\ s[i] = x
      BY <1>1, <2>1, <2>2 DEF u
    <3> QED  BY <3>1 DEF ToSet
  <2>3. CASE ~(i <= Len(s))
    <3>1. i - Len(s) \in DOMAIN t /\ t[i - Len(s)] = x
      BY <1>1, <2>1, <2>3 DEF u
    <3> QED  BY <3>1 DEF ToSet
  <2> QED  BY <2>2, <2>3
<1>3. ASSUME NEW x \in ToSet(s)  PROVE x \in ToSet(u)
  <2>1. PICK i \in 1..Len(s) : s[i] = x
    BY <1>1, <1>3 DEF ToSet
  <2>2. i \in DOMAIN u /\ u[i] = x
    BY <1>1, <2>1 DEF u
  <2> QED  BY <2>2 DEF ToSet
<1>4. ASSUME NEW x \in ToSet(t)  PROVE x \in ToSet(u)
  <2>1. PICK i \in 1..Len(t) : t[i] = x
    BY <1>1, <1>4 DEF ToSet
  <2>2. i + Len(s) \in DOMAIN u /\ u[i + Len(s)] = x
    BY <1>1, <2>1 DEF u
  <2> QED  BY <2>2 DEF ToSet
<1> QED  BY <1>1, <1>2, <1>3, <1>4 DEF u

\* The claim of an entry.
Claim(found, kind, e) ==
  [kind |-> kind, value |-> e.value, addresses |-> Resolve(found, e.owner)]

\* The claims of a list of entries, as a set and in their order.
ClaimsOf(found, kind, list) == {Claim(found, kind, list[i]) : i \in 1..Len(list)}

ClaimList(found, kind, list) ==
  [i \in 1..Len(list) |->
     [kind |-> kind, value |-> list[i].value, addresses |-> Resolve(found, list[i].owner)]]

\* The claims of a list of entries are those of its entries.
LEMMA ListClaims ==
  ASSUME NEW found, NEW kind, NEW list, Len(list) \in Nat, NEW S,
         ClaimsOf(found, kind, list) \subseteq S
  PROVE  /\ ClaimList(found, kind, list) \in Seq(S)
         /\ ToSet(ClaimList(found, kind, list)) = ClaimsOf(found, kind, list)
<1> DEFINE n == Len(list)
           f == ClaimList(found, kind, list)
<1>1. f = [i \in 1..n |-> Claim(found, kind, list[i])]
  BY DEF ClaimList, Claim
<1>2. \A i \in 1..n : Claim(found, kind, list[i]) \in S
  BY DEF ClaimsOf
<1>3. ClaimsOf(found, kind, list) = {Claim(found, kind, list[i]) : i \in 1..n}
  BY DEF ClaimsOf
<1> HIDE DEF f
<1>4. f \in [1..n -> S] /\ n \in Nat
  BY <1>1, <1>2
<1>5. f \in Seq(S) /\ DOMAIN f = 1..n
  BY <1>4
<1>6. ToSet(f) = {Claim(found, kind, list[i]) : i \in 1..n}
  BY <1>1, <1>5 DEF ToSet
<1> QED  BY <1>3, <1>5, <1>6 DEF f

\* All that is claimed.
AllClaims(found) ==
  ClaimsOf(found, "mdns_name", found.instances) \cup ClaimsOf(found, "mdns_name", found.hosts)
    \cup ClaimsOf(found, "mdns_service", found.services)
    \cup ClaimsOf(found, "mdns_model", found.models)

\* The claims of a message are those of its four lists.
LEMMA ClaimsAre ==
  ASSUME NEW list, NEW o, Holds(Collected(list), o)
  PROVE  ToSet(extract_claims(list)) = AllClaims(Collected(list))
<1> DEFINE found == Collected(list)
           a == ClaimList(found, "mdns_name", found.instances)
           b == ClaimList(found, "mdns_name", found.hosts)
           c == ClaimList(found, "mdns_service", found.services)
           d == ClaimList(found, "mdns_model", found.models)
           S == AllClaims(found)
<1>1. extract_claims(list) = a \o b \o c \o d
  BY DEF extract_claims, ClaimList
<1>2. /\ Len(found.instances) \in Nat /\ Len(found.hosts) \in Nat
      /\ Len(found.services) \in Nat /\ Len(found.models) \in Nat
  BY DEF Holds, Keeps
<1> HIDE DEF found
<1>3. /\ a \in Seq(S) /\ ToSet(a) = ClaimsOf(found, "mdns_name", found.instances)
      /\ b \in Seq(S) /\ ToSet(b) = ClaimsOf(found, "mdns_name", found.hosts)
      /\ c \in Seq(S) /\ ToSet(c) = ClaimsOf(found, "mdns_service", found.services)
      /\ d \in Seq(S) /\ ToSet(d) = ClaimsOf(found, "mdns_model", found.models)
  <2>1. /\ ClaimsOf(found, "mdns_name", found.instances) \subseteq S
        /\ ClaimsOf(found, "mdns_name", found.hosts) \subseteq S
        /\ ClaimsOf(found, "mdns_service", found.services) \subseteq S
        /\ ClaimsOf(found, "mdns_model", found.models) \subseteq S
    BY DEF AllClaims
  <2> HIDE DEF S
  <2>2. a \in Seq(S) /\ ToSet(a) = ClaimsOf(found, "mdns_name", found.instances)
    BY <1>2, <2>1, ListClaims
  <2>3. b \in Seq(S) /\ ToSet(b) = ClaimsOf(found, "mdns_name", found.hosts)
    BY <1>2, <2>1, ListClaims
  <2>4. c \in Seq(S) /\ ToSet(c) = ClaimsOf(found, "mdns_service", found.services)
    BY <1>2, <2>1, ListClaims
  <2>5. d \in Seq(S) /\ ToSet(d) = ClaimsOf(found, "mdns_model", found.models)
    BY <1>2, <2>1, ListClaims
  <2> QED  BY <2>2, <2>3, <2>4, <2>5
<1> HIDE DEF a, b, c, d
<1>4. S = ToSet(a) \cup ToSet(b) \cup ToSet(c) \cup ToSet(d)
  BY <1>3 DEF AllClaims
<1> HIDE DEF S
<1> DEFINE p == a \o b
           q == p \o c
<1>5. p \in Seq(S) /\ ToSet(p) = ToSet(a) \cup ToSet(b)
  BY <1>3, ConcatSet
<1> HIDE DEF p
<1>6. q \in Seq(S) /\ ToSet(q) = ToSet(p) \cup ToSet(c)
  BY <1>3, <1>5, ConcatSet
<1> HIDE DEF q
<1>7. ToSet(q \o d) = ToSet(q) \cup ToSet(d)
  BY <1>3, <1>6, ConcatSet
<1>8. extract_claims(list) = q \o d
  BY <1>1 DEF p, q
<1> QED  BY <1>4, <1>5, <1>6, <1>7, <1>8 DEF S, found
-----------------------------------------------------------------------------
\* The instances a record names.
Names(r, n) ==
  \/ r.type = "PTR" /\ n = r.target /\ r.target # Missing
  \/ r.type \in {"SRV", "TXT"} /\ n = r.name

\* A value with its owner.
Entry(value, owner) == [value |-> value, owner |-> owner]

\* What an entry that a record offers says of it, list by list.
InstanceSaid(r, e) ==
  \E n : /\ n.shape = "instance" /\ Names(r, n) /\ e = Entry(n.label, Instance(n))

HostSaid(r, e) ==
  r.type = "A" /\ r.name.shape = "host" /\ e = Entry(r.name.label, Host(r.name))

ServiceSaid(r, e) ==
  \/ \E n : n.shape = "instance" /\ Names(r, n) /\ e = Entry(n.service, Instance(n))
  \/ /\ r.type = "PTR" /\ r.target # Missing /\ r.target.shape = "instance"
     /\ e = Entry(r.name.service, Instance(r.target))
  \/ e.owner = Sender /\ r.type = "PTR" /\ (r.target = Missing \/ r.target.shape # "instance")
  \/ e.owner = Sender /\ r.type \in {"SRV", "TXT"} /\ r.name.shape # "instance"

ModelSaid(r, e) ==
  /\ r.type = "TXT" /\ e.value \in ToSet(r.models)
  /\ e = Entry(e.value, instance_owner(r.name))

AddressSaid(r, x) ==
  r.type = "A" /\ x = [named |-> r.name, address |-> r.address]

TargetSaid(r, x) ==
  r.type = "SRV" /\ r.target # Missing /\ x = [named |-> r.name, host |-> r.target]

\* What a record offers, it says.
RecordSays(r) ==
  /\ \A e \in RecordOffer(r).instances : InstanceSaid(r, e) /\ e.value # Missing
  /\ \A e \in RecordOffer(r).hosts : HostSaid(r, e) /\ e.value # Missing
  /\ \A e \in RecordOffer(r).services : ServiceSaid(r, e) /\ e.value # Missing
  /\ \A e \in RecordOffer(r).models : ModelSaid(r, e) /\ e.value # Missing
  /\ \A x \in RecordOffer(r).addresses : AddressSaid(r, x)
  /\ \A x \in RecordOffer(r).targets : TargetSaid(r, x)

\* Whatever the record.
LEMMA RecordsSay == ASSUME NEW r PROVE RecordSays(r)
<1>1. CASE r.type = "PTR" /\ r.target = Missing
  <2>1. RecordOffer(r) = ServiceOffer(r.name, Sender)
    BY <1>1 DEF RecordOffer
  <2>2. \A e \in ServiceOffer(r.name, Sender).services : ServiceSaid(r, e) /\ e.value # Missing
    BY <1>1 DEF ServiceOffer, Offer, Offered, ServiceSaid
  <2> QED  BY <2>1, <2>2 DEF RecordSays, ServiceOffer, Offer
<1>2. CASE r.type = "PTR" /\ r.target # Missing
  <2> DEFINE a == InstanceOffer(r.target)
             b == ServiceOffer(r.name, instance_owner(r.target))
  <2>1. RecordOffer(r) = Plus(a, b)
    BY <1>2 DEF RecordOffer
  <2>2. \A e \in a.instances : InstanceSaid(r, e) /\ e.value # Missing
    BY <1>2 DEF InstanceOffer, ServiceOffer, Offer, Offered, InstanceSaid, Entry, Names
  <2>3. \A e \in a.services : ServiceSaid(r, e) /\ e.value # Missing
    BY <1>2 DEF InstanceOffer, ServiceOffer, Offer, Offered, ServiceSaid, Entry, Names
  <2>4. \A e \in b.services : ServiceSaid(r, e) /\ e.value # Missing
    BY <1>2 DEF ServiceOffer, Offer, Offered, ServiceSaid, Entry, instance_owner
  <2>5. /\ a.hosts = {} /\ a.models = {} /\ a.addresses = {} /\ a.targets = {}
        /\ b.instances = {} /\ b.hosts = {} /\ b.models = {} /\ b.addresses = {}
        /\ b.targets = {}
    BY DEF InstanceOffer, ServiceOffer, Offer
  <2> HIDE DEF a, b
  <2> QED  BY <2>1, <2>2, <2>3, <2>4, <2>5 DEF RecordSays, Plus, Offer
<1>3. CASE r.type \in {"SRV", "TXT"}
  <2> DEFINE a == InstanceOffer(r.name)
             b == TargetOffer(r)
             c == ModelOffer(r)
  <2>1. /\ r.type = "SRV" => RecordOffer(r) = Plus(a, b)
        /\ r.type = "TXT" => RecordOffer(r) = Plus(a, c)
    BY DEF RecordOffer
  <2>2. \A e \in a.instances : InstanceSaid(r, e) /\ e.value # Missing
    BY <1>3 DEF InstanceOffer, ServiceOffer, Offer, Offered, InstanceSaid, Entry, Names
  <2>3. \A e \in a.services : ServiceSaid(r, e) /\ e.value # Missing
    BY <1>3 DEF InstanceOffer, ServiceOffer, Offer, Offered, ServiceSaid, Entry, Names
  <2>4. r.type = "SRV" => \A x \in b.targets : TargetSaid(r, x)
    BY DEF TargetOffer, Offer, TargetSaid
  <2>5. r.type = "TXT" => \A e \in c.models : ModelSaid(r, e) /\ e.value # Missing
    BY DEF ModelOffer, Offer, Offered, ModelSaid, Entry
  <2>6. /\ a.hosts = {} /\ a.models = {} /\ a.addresses = {} /\ a.targets = {}
        /\ b.instances = {} /\ b.hosts = {} /\ b.models = {} /\ b.addresses = {}
        /\ b.services = {} /\ c.instances = {} /\ c.hosts = {} /\ c.services = {}
        /\ c.addresses = {} /\ c.targets = {}
    BY DEF InstanceOffer, ServiceOffer, TargetOffer, ModelOffer, Offer
  <2> HIDE DEF a, b, c
  <2> QED  BY <1>3, <2>1, <2>2, <2>3, <2>4, <2>5, <2>6 DEF RecordSays, Plus, Offer
<1>4. CASE r.type = "A"
  <2> DEFINE a == AddressOffer(r)
             b == HostOffer(r.name, Host(r.name))
  <2>1. RecordOffer(r) = Plus(a, b)
    BY <1>4 DEF RecordOffer
  <2>2. \A x \in a.addresses : AddressSaid(r, x)
    BY <1>4 DEF AddressOffer, Offer, AddressSaid
  <2>3. \A e \in b.hosts : HostSaid(r, e) /\ e.value # Missing
    BY <1>4 DEF HostOffer, Offer, Offered, HostSaid, Entry
  <2>4. /\ a.instances = {} /\ a.hosts = {} /\ a.services = {} /\ a.models = {}
        /\ a.targets = {} /\ b.instances = {} /\ b.services = {} /\ b.models = {}
        /\ b.addresses = {} /\ b.targets = {}
    BY DEF AddressOffer, HostOffer, Offer
  <2> HIDE DEF a, b
  <2> QED  BY <2>1, <2>2, <2>3, <2>4 DEF RecordSays, Plus, Offer
<1>5. CASE r.type \notin {"PTR", "SRV", "TXT", "A"}
  <2>1. RecordOffer(r) = NoOffer
    BY <1>5 DEF RecordOffer
  <2> QED  BY <2>1 DEF RecordSays, NoOffer, Offer
<1> QED  BY <1>1, <1>2, <1>3, <1>4, <1>5

\* And a question says at most whose an instance would be.
InstanceAsked(n, e) == n.shape = "instance" /\ e = Entry(n.label, Instance(n))
ServiceAsked(n, e) == n.shape = "instance" /\ e = Entry(n.service, Instance(n))

\* A question offers no model, address or location.
QuestionSays(n) ==
  /\ \A e \in QuestionOffer(n).instances : InstanceAsked(n, e) /\ e.value # Missing
  /\ \A e \in QuestionOffer(n).hosts : e.owner = Sender
  /\ \A e \in QuestionOffer(n).services :
       e.owner = Sender \/ (ServiceAsked(n, e) /\ e.value # Missing)
  /\ QuestionOffer(n).models = {} /\ QuestionOffer(n).addresses = {}
  /\ QuestionOffer(n).targets = {}

\* Whatever the question.
LEMMA QuestionsSay == ASSUME NEW n PROVE QuestionSays(n)
<1> DEFINE a == InstanceOffer(n)
           b == HostOffer(n, Sender)
<1>1. QuestionOffer(n) = Plus(a, b)
  BY DEF QuestionOffer
<1>2. \A e \in a.instances : InstanceAsked(n, e) /\ e.value # Missing
  BY DEF InstanceOffer, ServiceOffer, Offer, Offered, InstanceAsked, Entry
<1>3. \A e \in a.services : e.owner = Sender \/ (ServiceAsked(n, e) /\ e.value # Missing)
  BY DEF InstanceOffer, ServiceOffer, Offer, Offered, ServiceAsked, Entry
<1>4. \A e \in b.hosts : e.owner = Sender
  BY DEF HostOffer, Offer, Offered
<1>5. /\ a.hosts = {} /\ a.models = {} /\ a.addresses = {} /\ a.targets = {}
      /\ b.instances = {} /\ b.services = {} /\ b.models = {} /\ b.addresses = {}
      /\ b.targets = {}
  BY DEF InstanceOffer, ServiceOffer, HostOffer, Offer
<1> HIDE DEF a, b
<1> QED  BY <1>1, <1>2, <1>3, <1>4, <1>5 DEF QuestionSays, Plus, Offer

\* What a message offers, one of its records says, or one of its questions asks.
MessageSays(list, o) ==
  /\ \A e \in o.instances :
       /\ e.value # Missing
       /\ \/ \E r \in ToSet(list) : InstanceSaid(r, e)
          \/ ~response /\ \E n : InstanceAsked(n, e)
  /\ \A e \in o.hosts :
       \/ \E r \in ToSet(list) : HostSaid(r, e) /\ e.value # Missing
       \/ e.owner = Sender /\ ~response
  /\ \A e \in o.services :
       \/ \E r \in ToSet(list) : ServiceSaid(r, e) /\ e.value # Missing
       \/ ~response /\ (e.owner = Sender \/ \E n : ServiceAsked(n, e) /\ e.value # Missing)
  /\ \A e \in o.models : \E r \in ToSet(list) : ModelSaid(r, e) /\ e.value # Missing
  /\ \A x \in o.addresses : \E r \in ToSet(list) : AddressSaid(r, x)
  /\ \A x \in o.targets : \E r \in ToSet(list) : TargetSaid(r, x)

\* Every message, of any length, says what it offers.
LEMMA MessagesSay ==
  ASSUME NEW list \in Seq(Records), questions \in Seq(Questions)
  PROVE  MessageSays(list, AllOffered(list, Read(list)))
<1> DEFINE k == Read(list)
           o == AllOffered(list, k)
<1>0. Len(list) \in Nat /\ Len(questions) \in Nat
  OBVIOUS
<1>1. \A i \in 1..k : i <= Len(list) \/ ~response
  BY <1>0 DEF Read
<1>2. \A i \in 1..k : i <= Len(list) => list[i] \in ToSet(list)
  <2>1. DOMAIN list = 1..Len(list)
    OBVIOUS
  <2> QED  BY <1>0, <2>1 DEF ToSet, Read
<1> HIDE DEF k
<1>3. \A i \in 1..k : \/ /\ list[i] \in ToSet(list) /\ RecordSays(list[i])
                         /\ TurnOffer(list, i) = RecordOffer(list[i])
                      \/ /\ ~response /\ QuestionSays(questions[i - Len(list)])
                         /\ TurnOffer(list, i) = QuestionOffer(questions[i - Len(list)])
  BY <1>1, <1>2, RecordsSay, QuestionsSay DEF TurnOffer
<1> DEFINE T(i) == TurnOffer(list, i)
<1>4. /\ o.instances = UNION {T(i).instances : i \in 1..k}
      /\ o.hosts = UNION {T(i).hosts : i \in 1..k}
      /\ o.services = UNION {T(i).services : i \in 1..k}
      /\ o.models = UNION {T(i).models : i \in 1..k}
      /\ o.addresses = UNION {T(i).addresses : i \in 1..k}
      /\ o.targets = UNION {T(i).targets : i \in 1..k}
  BY DEF AllOffered, Offer
<1> DEFINE R == ToSet(list)
<1>5. ASSUME NEW i \in 1..k
      PROVE  \/ \E r \in R : RecordSays(r) /\ T(i) = RecordOffer(r)
             \/ ~response /\ \E n : QuestionSays(n) /\ T(i) = QuestionOffer(n)
  BY <1>3
<1> HIDE DEF T, o, R
<1>6. ASSUME NEW e \in o.instances
      PROVE  /\ e.value # Missing
             /\ \/ \E r \in R : InstanceSaid(r, e)
                \/ ~response /\ \E n : InstanceAsked(n, e)
  <2>1. PICK i \in 1..k : e \in T(i).instances
    BY <1>4
  <2>2. CASE \E r \in R : RecordSays(r) /\ T(i) = RecordOffer(r)
    BY <2>1, <2>2 DEF RecordSays
  <2>3. CASE ~response /\ \E n : QuestionSays(n) /\ T(i) = QuestionOffer(n)
    BY <2>1, <2>3 DEF QuestionSays
  <2> QED  BY <1>5, <2>2, <2>3
<1>7. ASSUME NEW e \in o.hosts
      PROVE  \/ \E r \in R : HostSaid(r, e) /\ e.value # Missing
             \/ e.owner = Sender /\ ~response
  <2>1. PICK i \in 1..k : e \in T(i).hosts
    BY <1>4
  <2>2. CASE \E r \in R : RecordSays(r) /\ T(i) = RecordOffer(r)
    BY <2>1, <2>2 DEF RecordSays
  <2>3. CASE ~response /\ \E n : QuestionSays(n) /\ T(i) = QuestionOffer(n)
    BY <2>1, <2>3 DEF QuestionSays
  <2> QED  BY <1>5, <2>2, <2>3
<1>8. ASSUME NEW e \in o.services
      PROVE  \/ \E r \in R : ServiceSaid(r, e) /\ e.value # Missing
             \/ ~response /\ (e.owner = Sender \/ \E n : ServiceAsked(n, e) /\ e.value # Missing)
  <2>1. PICK i \in 1..k : e \in T(i).services
    BY <1>4
  <2>2. CASE \E r \in R : RecordSays(r) /\ T(i) = RecordOffer(r)
    BY <2>1, <2>2 DEF RecordSays
  <2>3. CASE ~response /\ \E n : QuestionSays(n) /\ T(i) = QuestionOffer(n)
    BY <2>1, <2>3 DEF QuestionSays
  <2> QED  BY <1>5, <2>2, <2>3
<1>9. ASSUME NEW e \in o.models
      PROVE  \E r \in R : ModelSaid(r, e) /\ e.value # Missing
  <2>1. PICK i \in 1..k : e \in T(i).models
    BY <1>4
  <2>2. CASE \E r \in R : RecordSays(r) /\ T(i) = RecordOffer(r)
    BY <2>1, <2>2 DEF RecordSays
  <2>3. CASE ~response /\ \E n : QuestionSays(n) /\ T(i) = QuestionOffer(n)
    BY <2>1, <2>3 DEF QuestionSays
  <2> QED  BY <1>5, <2>2, <2>3
<1>10. ASSUME NEW x \in o.addresses  PROVE \E r \in R : AddressSaid(r, x)
  <2>1. PICK i \in 1..k : x \in T(i).addresses
    BY <1>4
  <2>2. CASE \E r \in R : RecordSays(r) /\ T(i) = RecordOffer(r)
    BY <2>1, <2>2 DEF RecordSays
  <2>3. CASE ~response /\ \E n : QuestionSays(n) /\ T(i) = QuestionOffer(n)
    BY <2>1, <2>3 DEF QuestionSays
  <2> QED  BY <1>5, <2>2, <2>3
<1>11. ASSUME NEW x \in o.targets  PROVE \E r \in R : TargetSaid(r, x)
  <2>1. PICK i \in 1..k : x \in T(i).targets
    BY <1>4
  <2>2. CASE \E r \in R : RecordSays(r) /\ T(i) = RecordOffer(r)
    BY <2>1, <2>2 DEF RecordSays
  <2>3. CASE ~response /\ \E n : QuestionSays(n) /\ T(i) = QuestionOffer(n)
    BY <2>1, <2>3 DEF QuestionSays
  <2> QED  BY <1>5, <2>2, <2>3
<1> QED  BY <1>6, <1>7, <1>8, <1>9, <1>10, <1>11 DEF MessageSays, R, o, k
-----------------------------------------------------------------------------
(***************************************************************************)
(* A claim is proven by the records                                        *)
(***************************************************************************)
\* A record of an address of a host, and one that leads to it from an instance.
Proves(c, a) ==
  \E r \in ToSet(records) :
    /\ r.type = "A" /\ r.address = a
    /\ \/ r.name \in Bearers(c) /\ r.name.shape = "host"
       \/ \E s \in ToSet(records) :
            s.type = "SRV" /\ s.target = r.name /\ s.name \in Bearers(c)

\* An address of an instance was read from an address record, its host from a location.
LEMMA InstanceAddress ==
  ASSUME NEW found, NEW o, NEW owner, NEW a \in Resolve(found, owner),
         Holds(found, o), MessageSays(records, o), owner.by = "instance"
  PROVE  \E r, s \in ToSet(records) :
           /\ r.type = "A" /\ r.address = a /\ s.type = "SRV" /\ s.target = r.name
           /\ s.name = owner.name
<1>1. LocatedAt(found, o, owner)
  BY InstancesAre
<1>2. PICK t \in o.targets : t.named = owner.name /\ Resolve(found, owner) = AddressesIn(o, t.host)
  BY <1>1 DEF LocatedAt
<1>3. PICK x \in o.addresses : x.named = t.host /\ x.address = a
  BY <1>2 DEF AddressesIn
<1>4. PICK s \in ToSet(records) : TargetSaid(s, t)
  BY DEF MessageSays
<1>5. PICK r \in ToSet(records) : AddressSaid(r, x)
  BY DEF MessageSays
<1> QED  BY <1>2, <1>3, <1>4, <1>5 DEF TargetSaid, AddressSaid

\* An address of a host was read from an address record of it.
LEMMA HostAddress ==
  ASSUME NEW found, NEW o, NEW owner, NEW a \in Resolve(found, owner),
         Holds(found, o), MessageSays(records, o), owner.by = "host"
  PROVE  \E r \in ToSet(records) : r.type = "A" /\ r.address = a /\ r.name = owner.name
<1>1. Resolve(found, owner) = addresses_of(found, owner.name)
  BY DEF Resolve
<1>2. Resolve(found, owner) = AddressesIn(o, owner.name)
  BY <1>1, AddressesAre
<1>3. PICK x \in o.addresses : x.named = owner.name /\ x.address = a
  BY <1>2 DEF AddressesIn
<1>5. PICK r \in ToSet(records) : AddressSaid(r, x)
  BY DEF MessageSays
<1> QED  BY <1>3, <1>5 DEF AddressSaid

\* A claim of the value of an entry.
Claimed(c, kind, e) == c.kind = kind /\ c.value = e.value

\* The address of an instance's claim is proven: of its host, where its location leads.
LEMMA InstanceProven ==
  ASSUME NEW found, NEW o, NEW e \in o.instances, NEW c, NEW a \in Resolve(found, e.owner),
         records \in Seq(Records),
         Holds(found, o), MessageSays(records, o), Claimed(c, "mdns_name", e)
  PROVE  Proves(c, a)
<1>1. PICK n : n.shape = "instance" /\ e = Entry(n.label, Instance(n))
  BY DEF MessageSays, InstanceSaid, InstanceAsked
<1>2. e.owner.by = "instance" /\ e.owner.name = n /\ e.value = n.label
  BY <1>1 DEF Entry, Instance
<1>3. PICK r, s \in ToSet(records) :
        /\ r.type = "A" /\ r.address = a /\ s.type = "SRV" /\ s.target = r.name
        /\ s.name = n
  BY <1>2, InstanceAddress
<1>4. n # Missing
  <2>1. s \in Records
    BY DEF ToSet
  <2> QED  BY <1>3, <2>1, ClaimsAssumption
<1>5. n \in Bearers(c)
  BY <1>2, <1>3, <1>4 DEF Bearers, Claimed
<1> QED  BY <1>3, <1>5 DEF Proves

\* So is the address of a host's claim,
LEMMA HostProven ==
  ASSUME NEW found, NEW o, NEW e \in o.hosts, NEW c, NEW a \in Resolve(found, e.owner),
         records \in Seq(Records),
         Holds(found, o), MessageSays(records, o), Claimed(c, "mdns_name", e)
  PROVE  Proves(c, a)
<1>1. e.owner # Sender
  BY DEF Resolve, Sender
<1>2. PICK r \in ToSet(records) : HostSaid(r, e)
  BY <1>1 DEF MessageSays
<1>3. /\ e.owner.by = "host" /\ e.owner.name = r.name /\ e.value = r.name.label
      /\ r.name.shape = "host"
  BY <1>2 DEF HostSaid, Entry, Host
<1>4. r.name # Missing
  <2>1. r \in Records
    BY DEF ToSet
  <2> QED  BY <2>1, ClaimsAssumption
<1>5. r.name \in Bearers(c)
  BY <1>3, <1>4 DEF Bearers, Claimed
<1>6. PICK s \in ToSet(records) : s.type = "A" /\ s.address = a /\ s.name = r.name
  BY <1>3, HostAddress
<1> QED  BY <1>3, <1>5, <1>6 DEF Proves

\* of a service's,
LEMMA ServiceProven ==
  ASSUME NEW found, NEW o, NEW e \in o.services, NEW c, NEW a \in Resolve(found, e.owner),
         records \in Seq(Records),
         Holds(found, o), MessageSays(records, o), Claimed(c, "mdns_service", e)
  PROVE  Proves(c, a)
<1>1. e.owner # Sender
  BY DEF Resolve, Sender
<1>2. \/ \E n : n.shape = "instance" /\ e = Entry(n.service, Instance(n))
      \/ \E r \in ToSet(records) :
           r.type = "PTR" /\ r.target # Missing /\ e = Entry(r.name.service, Instance(r.target))
  BY <1>1 DEF MessageSays, ServiceSaid, ServiceAsked
<1>3. CASE \E n : n.shape = "instance" /\ e = Entry(n.service, Instance(n))
  <2>1. PICK n : n.shape = "instance" /\ e = Entry(n.service, Instance(n))
    BY <1>3
  <2>2. e.owner.by = "instance" /\ e.owner.name = n /\ e.value = n.service
    BY <2>1 DEF Entry, Instance
  <2>3. PICK r, s \in ToSet(records) :
          /\ r.type = "A" /\ r.address = a /\ s.type = "SRV" /\ s.target = r.name
          /\ s.name = n
    BY <2>2, InstanceAddress
  <2>4. n # Missing
    <3>1. s \in Records
      BY DEF ToSet
    <3> QED  BY <2>3, <3>1, ClaimsAssumption
  <2>5. n \in Bearers(c)
    BY <2>1, <2>2, <2>3, <2>4 DEF Bearers, Claimed
  <2> QED  BY <2>3, <2>5 DEF Proves
<1>4. CASE \E r \in ToSet(records) :
           r.type = "PTR" /\ r.target # Missing /\ e = Entry(r.name.service, Instance(r.target))
  <2>1. PICK p \in ToSet(records) :
           p.type = "PTR" /\ p.target # Missing /\ e = Entry(p.name.service, Instance(p.target))
    BY <1>4
  <2>2. /\ e.owner.by = "instance" /\ e.owner.name = p.target /\ e.value = p.name.service
    BY <2>1 DEF Entry, Instance
  <2>3. PICK r, s \in ToSet(records) :
          /\ r.type = "A" /\ r.address = a /\ s.type = "SRV" /\ s.target = r.name
          /\ s.name = p.target
    BY <2>2, InstanceAddress
  <2>5. p.target \in Bearers(c)
    BY <2>1, <2>2 DEF Bearers, Claimed
  <2> QED  BY <2>3, <2>5 DEF Proves
<1> QED  BY <1>2, <1>3, <1>4

\* and of a model's.
LEMMA ModelProven ==
  ASSUME NEW found, NEW o, NEW e \in o.models, NEW c, NEW a \in Resolve(found, e.owner),
         records \in Seq(Records),
         Holds(found, o), MessageSays(records, o), Claimed(c, "mdns_model", e)
  PROVE  Proves(c, a)
<1>1. e.owner # Sender
  BY DEF Resolve, Sender
<1>2. PICK t \in ToSet(records) : ModelSaid(t, e)
  BY DEF MessageSays
<1>3. e.owner = Instance(t.name)
  BY <1>1, <1>2 DEF ModelSaid, Entry, instance_owner
<1>4. e.owner.by = "instance" /\ e.owner.name = t.name
  BY <1>3 DEF Instance
<1>5. PICK r, s \in ToSet(records) :
        /\ r.type = "A" /\ r.address = a /\ s.type = "SRV" /\ s.target = r.name
        /\ s.name = t.name
  BY <1>4, InstanceAddress
<1>6. t.name \in Bearers(c)
  BY <1>2 DEF Bearers, Claimed, ModelSaid
<1> QED  BY <1>5, <1>6 DEF Proves

\* An entry of a list that keeps what it was offered was offered.
LEMMA KeptWasOffered ==
  ASSUME NEW list, NEW offered, Keeps(list, offered), NEW i \in 1..Len(list)
  PROVE  list[i] \in offered
BY DEF Keeps

\* Whatever its records and questions, a message proves what it claims.
LEMMA AllProven ==
  ASSUME records \in Seq(Records), questions \in Seq(Questions)
  PROVE  ClaimsAreProven
<1> DEFINE found == Collected(records)
           o == AllOffered(records, Read(records))
<1>1. Holds(found, o) /\ MessageSays(records, o)
  BY MessageHolds, MessagesSay
<1>2. ToSet(extract_claims(records)) = AllClaims(found)
  BY <1>1, ClaimsAre
<1>3. /\ Keeps(found.instances, o.instances) /\ Keeps(found.hosts, o.hosts)
      /\ Keeps(found.services, o.services) /\ Keeps(found.models, o.models)
  BY <1>1 DEF Holds
<1> HIDE DEF found, o
<1>4. ASSUME NEW c \in AllClaims(found), NEW a \in c.addresses
      PROVE  Proves(c, a)
  <2>1. CASE c \in ClaimsOf(found, "mdns_name", found.instances)
    <3>1. PICK i \in 1..Len(found.instances) : c = Claim(found, "mdns_name", found.instances[i])
      BY <2>1 DEF ClaimsOf
    <3> DEFINE e == found.instances[i]
    <3>2. e \in o.instances
      BY <1>3, KeptWasOffered
    <3>3. Claimed(c, "mdns_name", e) /\ a \in Resolve(found, e.owner)
      BY <1>4, <3>1 DEF Claim, Claimed
    <3> HIDE DEF e
    <3> QED  BY <1>1, <3>2, <3>3, InstanceProven
  <2>2. CASE c \in ClaimsOf(found, "mdns_name", found.hosts)
    <3>1. PICK i \in 1..Len(found.hosts) : c = Claim(found, "mdns_name", found.hosts[i])
      BY <2>2 DEF ClaimsOf
    <3> DEFINE e == found.hosts[i]
    <3>2. e \in o.hosts
      BY <1>3, KeptWasOffered
    <3>3. Claimed(c, "mdns_name", e) /\ a \in Resolve(found, e.owner)
      BY <1>4, <3>1 DEF Claim, Claimed
    <3> HIDE DEF e
    <3> QED  BY <1>1, <3>2, <3>3, HostProven
  <2>3. CASE c \in ClaimsOf(found, "mdns_service", found.services)
    <3>1. PICK i \in 1..Len(found.services) : c = Claim(found, "mdns_service", found.services[i])
      BY <2>3 DEF ClaimsOf
    <3> DEFINE e == found.services[i]
    <3>2. e \in o.services
      BY <1>3, KeptWasOffered
    <3>3. Claimed(c, "mdns_service", e) /\ a \in Resolve(found, e.owner)
      BY <1>4, <3>1 DEF Claim, Claimed
    <3> HIDE DEF e
    <3> QED  BY <1>1, <3>2, <3>3, ServiceProven
  <2>4. CASE c \in ClaimsOf(found, "mdns_model", found.models)
    <3>1. PICK i \in 1..Len(found.models) : c = Claim(found, "mdns_model", found.models[i])
      BY <2>4 DEF ClaimsOf
    <3> DEFINE e == found.models[i]
    <3>2. e \in o.models
      BY <1>3, KeptWasOffered
    <3>3. Claimed(c, "mdns_model", e) /\ a \in Resolve(found, e.owner)
      BY <1>4, <3>1 DEF Claim, Claimed
    <3> HIDE DEF e
    <3> QED  BY <1>1, <3>2, <3>3, ModelProven
  <2> QED  BY <2>1, <2>2, <2>3, <2>4 DEF AllClaims
<1> QED  BY <1>2, <1>4 DEF ClaimsAreProven, Proves
-----------------------------------------------------------------------------
(***************************************************************************)
(* And the order of the records proves nothing                             *)
(***************************************************************************)
\* What some records offer, in any order.
SetOffer(R) ==
  Offer(UNION {RecordOffer(r).instances : r \in R}, UNION {RecordOffer(r).hosts : r \in R},
        UNION {RecordOffer(r).services : r \in R}, UNION {RecordOffer(r).models : r \in R},
        UNION {RecordOffer(r).addresses : r \in R}, UNION {RecordOffer(r).targets : r \in R})

\* An answer offers what its records do.
LEMMA AnswerOffers ==
  ASSUME NEW list \in Seq(Records), response
  PROVE  AllOffered(list, Read(list)) = SetOffer(ToSet(list))
<1>1. Read(list) = Len(list) /\ Len(list) \in Nat /\ DOMAIN list = 1..Len(list)
  BY DEF Read
<1>2. \A i \in 1..Len(list) : TurnOffer(list, i) = RecordOffer(list[i])
  BY <1>1 DEF TurnOffer
<1> DEFINE n == Len(list)
           R == ToSet(list)
<1>3. R = {list[i] : i \in 1..n}
  BY <1>1 DEF ToSet
<1> HIDE DEF R
<1>4. UNION {TurnOffer(list, i).instances : i \in 1..n} = UNION {RecordOffer(r).instances : r \in R}
  BY <1>2, <1>3
<1>5. UNION {TurnOffer(list, i).hosts : i \in 1..n} = UNION {RecordOffer(r).hosts : r \in R}
  BY <1>2, <1>3
<1>6. UNION {TurnOffer(list, i).services : i \in 1..n} = UNION {RecordOffer(r).services : r \in R}
  BY <1>2, <1>3
<1>7. UNION {TurnOffer(list, i).models : i \in 1..n} = UNION {RecordOffer(r).models : r \in R}
  BY <1>2, <1>3
<1>8. UNION {TurnOffer(list, i).addresses : i \in 1..n} = UNION {RecordOffer(r).addresses : r \in R}
  BY <1>2, <1>3
<1>9. UNION {TurnOffer(list, i).targets : i \in 1..n} = UNION {RecordOffer(r).targets : r \in R}
  BY <1>2, <1>3
<1> QED  BY <1>1, <1>4, <1>5, <1>6, <1>7, <1>8, <1>9 DEF AllOffered, SetOffer, R

\* In a message that is consistent the owner of an instance's value bears it,
LEMMA InstanceBears ==
  ASSUME NEW o, NEW e \in o.instances, NEW c, records \in Seq(Records), Consistent,
         MessageSays(records, o), Claimed(c, "mdns_name", e)
  PROVE  \E n \in Bearers(c) : e.owner = Instance(n)
<1>1. PICK r \in ToSet(records) : InstanceSaid(r, e)
  BY DEF MessageSays, Consistent
<1>2. PICK n : n.shape = "instance" /\ Names(r, n) /\ e = Entry(n.label, Instance(n))
  BY <1>1 DEF InstanceSaid
<1>3. n # Missing
  <2>1. r \in Records
    BY DEF ToSet
  <2> QED  BY <1>2, <2>1, ClaimsAssumption DEF Names
<1>4. e.owner = Instance(n) /\ e.value = n.label
  BY <1>2 DEF Entry
<1>5. n \in Bearers(c)
  BY <1>2, <1>3, <1>4 DEF Bearers, Claimed, Names
<1> QED  BY <1>4, <1>5

\* so does the owner of a host's,
LEMMA HostBears ==
  ASSUME NEW o, NEW e \in o.hosts, NEW c, records \in Seq(Records), Consistent,
         MessageSays(records, o), Claimed(c, "mdns_name", e)
  PROVE  \E n \in Bearers(c) : e.owner = Host(n)
<1>1. PICK r \in ToSet(records) : HostSaid(r, e)
  BY DEF MessageSays, Consistent
<1>2. e.owner = Host(r.name) /\ e.value = r.name.label
  BY <1>1 DEF HostSaid, Entry
<1>3. r.name # Missing
  <2>1. r \in Records
    BY DEF ToSet
  <2> QED  BY <2>1, ClaimsAssumption
<1>4. r.name \in Bearers(c)
  BY <1>2, <1>3 DEF Bearers, Claimed
<1> QED  BY <1>2, <1>4

\* of a service's,
LEMMA ServiceBears ==
  ASSUME NEW o, NEW e \in o.services, NEW c, records \in Seq(Records), Consistent,
         MessageSays(records, o), Claimed(c, "mdns_service", e)
  PROVE  \E n \in Bearers(c) : e.owner = Instance(n)
<1>1. PICK r \in ToSet(records) : ServiceSaid(r, e)
  BY DEF MessageSays, Consistent
<1>2. \/ \E n : n.shape = "instance" /\ Names(r, n) /\ e = Entry(n.service, Instance(n))
      \/ r.type = "PTR" /\ r.target # Missing /\ e = Entry(r.name.service, Instance(r.target))
  BY <1>1 DEF ServiceSaid, Consistent
<1>3. CASE \E n : n.shape = "instance" /\ Names(r, n) /\ e = Entry(n.service, Instance(n))
  <2>1. PICK n : n.shape = "instance" /\ Names(r, n) /\ e = Entry(n.service, Instance(n))
    BY <1>3
  <2>2. n # Missing
    <3>1. r \in Records
      BY DEF ToSet
    <3> QED  BY <2>1, <3>1, ClaimsAssumption DEF Names
  <2>3. e.owner = Instance(n) /\ e.value = n.service
    BY <2>1 DEF Entry
  <2>4. n \in Bearers(c)
    BY <2>1, <2>2, <2>3 DEF Bearers, Claimed, Names
  <2> QED  BY <2>3, <2>4
<1>4. CASE r.type = "PTR" /\ r.target # Missing /\ e = Entry(r.name.service, Instance(r.target))
  <2>1. e.owner = Instance(r.target) /\ e.value = r.name.service
    BY <1>4 DEF Entry
  <2>2. r.target \in Bearers(c)
    BY <1>4, <2>1 DEF Bearers, Claimed
  <2> QED  BY <2>1, <2>2
<1> QED  BY <1>2, <1>3, <1>4

\* and of a model's.
LEMMA ModelBears ==
  ASSUME NEW o, NEW e \in o.models, NEW c, records \in Seq(Records), Consistent,
         MessageSays(records, o), Claimed(c, "mdns_model", e)
  PROVE  \E n \in Bearers(c) : e.owner = Instance(n)
<1>1. PICK t \in ToSet(records) : ModelSaid(t, e)
  BY DEF MessageSays
<1>2. e.owner = Instance(t.name)
  BY <1>1 DEF ModelSaid, Entry, instance_owner, Consistent
<1>3. t.name \in Bearers(c)
  BY <1>1 DEF Bearers, Claimed, ModelSaid
<1> QED  BY <1>2, <1>3

\* An owner of a message with one location for each name has the same addresses in
\* whatever order it is read.
LEMMA SameAddresses ==
  ASSUME NEW F, NEW G, NEW o, NEW w, NEW n, w = Host(n) \/ w = Instance(n),
         Holds(F, o), Holds(G, o), Consistent, MessageSays(records, o)
  PROVE  Resolve(F, w) = Resolve(G, w)
<1>1. CASE w = Host(n)
  <2>1. w.by = "host" /\ w.name = n
    BY <1>1 DEF Host
  <2>2. Resolve(F, w) = addresses_of(F, n) /\ Resolve(G, w) = addresses_of(G, n)
    BY <2>1 DEF Resolve
  <2>3. addresses_of(F, n) = AddressesIn(o, n) /\ addresses_of(G, n) = AddressesIn(o, n)
    BY AddressesAre
  <2> QED  BY <2>2, <2>3
<1>2. CASE w = Instance(n)
  <2>1. w.by = "instance" /\ w.name = n
    BY <1>2 DEF Instance
  <2>2. LocatedAt(F, o, w) /\ LocatedAt(G, o, w)
    BY <2>1, InstancesAre
  <2>3. ASSUME NEW t \in o.targets, NEW u \in o.targets, t.named = n, u.named = n
        PROVE  t.host = u.host
    <3>1. PICK r \in ToSet(records) : TargetSaid(r, t)
      BY DEF MessageSays
    <3>2. PICK s \in ToSet(records) : TargetSaid(s, u)
      BY DEF MessageSays
    <3>3. /\ r.type = "SRV" /\ s.type = "SRV" /\ r.name = n /\ s.name = n
          /\ t.host = r.target /\ u.host = s.target
      BY <2>3, <3>1, <3>2 DEF TargetSaid
    <3> QED  BY <3>3 DEF Consistent
  <2> QED  BY <2>1, <2>2, <2>3 DEF LocatedAt
<1> QED  BY <1>1, <1>2

\* The claims of one kind, of values that one owner each is known of.
LEMMA SameClaims ==
  ASSUME NEW F, NEW G, NEW o, NEW kind, NEW f, NEW g, NEW offered,
         Keeps(f, offered), Keeps(g, offered),
         \A e \in offered : Resolve(F, e.owner) = Resolve(G, e.owner),
         \A d, e \in offered : d.value = e.value => d.owner = e.owner
  PROVE  ClaimsOf(F, kind, f) \subseteq ClaimsOf(G, kind, g)
<1> SUFFICES ASSUME NEW c \in ClaimsOf(F, kind, f)  PROVE c \in ClaimsOf(G, kind, g)
  OBVIOUS
<1>1. PICK i \in 1..Len(f) : c = Claim(F, kind, f[i])
  BY DEF ClaimsOf
<1>2. f[i] \in offered
  BY KeptWasOffered
<1>3. PICK j \in 1..Len(g) : g[j].value = f[i].value
  <2>1. g \in Seq(offered) /\ DOMAIN g = 1..Len(g)
    BY DEF Keeps
  <2> QED  BY <1>2, <2>1 DEF Keeps
<1>4. g[j] \in offered
  BY KeptWasOffered
<1>5. g[j].owner = f[i].owner /\ Resolve(F, f[i].owner) = Resolve(G, g[j].owner)
  BY <1>2, <1>3, <1>4
<1>6. c = Claim(G, kind, g[j])
  BY <1>1, <1>3, <1>5 DEF Claim
<1> QED  BY <1>6 DEF ClaimsOf

\* All values of a list are borne by those that own them.
BornAs(offered, kind, by) ==
  \A e \in offered : \A c : Claimed(c, kind, e) =>
    \E n \in Bearers(c) : e.owner = [by |-> by, name |-> n]

\* So they are in each of the four lists.
AllBorn(o) ==
  /\ BornAs(o.instances, "mdns_name", "instance") /\ BornAs(o.hosts, "mdns_name", "host")
  /\ BornAs(o.services, "mdns_service", "instance") /\ BornAs(o.models, "mdns_model", "instance")

\* The four lemmas before together.
LEMMA ConsistentBorn ==
  ASSUME NEW o, records \in Seq(Records), Consistent, MessageSays(records, o)
  PROVE  AllBorn(o)
<1>1. BornAs(o.instances, "mdns_name", "instance")
  BY InstanceBears DEF BornAs, Instance
<1>2. BornAs(o.hosts, "mdns_name", "host")
  BY HostBears DEF BornAs, Host
<1>3. BornAs(o.services, "mdns_service", "instance")
  BY ServiceBears DEF BornAs, Instance
<1>4. BornAs(o.models, "mdns_model", "instance")
  BY ModelBears DEF BornAs, Instance
<1> QED  BY <1>1, <1>2, <1>3, <1>4 DEF AllBorn

\* Each claim has one bearer; each value one owner.
OneBearer(claims) == \A c \in claims : \E n \in Bearers(c) : Bearers(c) = {n}

OwnedOnce(offered) == \A d, e \in offered : d.value = e.value => d.owner = e.owner

\* A value one of a list's entries has is claimed, and where it has one bearer it has
\* one owner.
LEMMA OneOwner ==
  ASSUME NEW found, NEW f, NEW offered, NEW kind, NEW by, Keeps(f, offered),
         BornAs(offered, kind, by), OneBearer(ClaimsOf(found, kind, f))
  PROVE  OwnedOnce(offered)
<1> SUFFICES ASSUME NEW d \in offered, NEW e \in offered, d.value = e.value
             PROVE  d.owner = e.owner
  BY DEF OwnedOnce
<1>1. PICK i \in 1..Len(f) : f[i].value = e.value
  <2>1. f \in Seq(offered) /\ DOMAIN f = 1..Len(f)
    BY DEF Keeps
  <2> QED  BY <2>1 DEF Keeps
<1> DEFINE c == Claim(found, kind, f[i])
<1>2. c \in ClaimsOf(found, kind, f)
  BY DEF ClaimsOf
<1>3. Claimed(c, kind, e) /\ Claimed(c, kind, d)
  BY <1>1 DEF Claim, Claimed
<1> HIDE DEF c
<1>4. PICK n : Bearers(c) = {n}
  BY <1>2 DEF OneBearer
<1>5. e.owner = [by |-> by, name |-> n] /\ d.owner = [by |-> by, name |-> n]
  BY <1>3, <1>4 DEF BornAs
<1> QED  BY <1>5

\* Two readings make the same claims of a kind.
Agree(F, G, kind, f, g) == ClaimsOf(F, kind, f) = ClaimsOf(G, kind, g)

\* So two readings of a consistent answer claim the same.
LEMMA OneKindAgrees ==
  ASSUME NEW F, NEW G, NEW o, NEW kind, NEW by \in {"host", "instance"},
         NEW f, NEW g, NEW offered,
         Keeps(f, offered), Keeps(g, offered), BornAs(offered, kind, by),
         OneBearer(ClaimsOf(F, kind, f)),
         Holds(F, o), Holds(G, o), Consistent, MessageSays(records, o)
  PROVE  Agree(F, G, kind, f, g)
<1>1. OwnedOnce(offered)
  BY OneOwner
<1>2. ASSUME NEW e \in offered  PROVE Resolve(F, e.owner) = Resolve(G, e.owner)
  <2> DEFINE c == [kind |-> kind, value |-> e.value]
  <2>1. Claimed(c, kind, e)
    BY DEF Claimed
  <2> HIDE DEF c
  <2>2. PICK n : e.owner = [by |-> by, name |-> n]
    BY <2>1 DEF BornAs
  <2> DEFINE w == e.owner
  <2>3. w = Host(n) \/ w = Instance(n)
    BY <2>2 DEF Host, Instance
  <2> HIDE DEF w
  <2>4. Resolve(F, w) = Resolve(G, w)
    BY <2>3, SameAddresses
  <2> QED  BY <2>4 DEF w
<1>3. ClaimsOf(F, kind, f) \subseteq ClaimsOf(G, kind, g)
  BY <1>1, <1>2, SameClaims DEF OwnedOnce
<1>4. ClaimsOf(G, kind, g) \subseteq ClaimsOf(F, kind, f)
  BY <1>1, <1>2, SameClaims DEF OwnedOnce
<1> QED  BY <1>3, <1>4 DEF Agree

\* The records in any order, and any number of times, make the same claims.
LEMMA ReadingsAgree ==
  ASSUME records \in Seq(Records), questions \in Seq(Questions), Consistent,
         NEW list \in Seq(Records), ToSet(list) = ToSet(records)
  PROVE  ToSet(extract_claims(list)) = ToSet(extract_claims(records))
<1> DEFINE F == Collected(records)
           G == Collected(list)
           o == AllOffered(records, Read(records))
<1>1. Holds(F, o) /\ MessageSays(records, o)
  BY MessageHolds, MessagesSay
<1>2. Holds(G, o)
  <2>1. response
    BY DEF Consistent
  <2>2. o = SetOffer(ToSet(records)) /\ AllOffered(list, Read(list)) = SetOffer(ToSet(list))
    BY <2>1, AnswerOffers
  <2>3. Holds(G, AllOffered(list, Read(list)))
    BY MessageHolds
  <2> QED  BY <2>2, <2>3
<1>3. ToSet(extract_claims(records)) = AllClaims(F) /\ ToSet(extract_claims(list)) = AllClaims(G)
  BY <1>1, <1>2, ClaimsAre
<1>4. AllBorn(o)
  BY <1>1, ConsistentBorn
<1>5. \A c \in AllClaims(F) : \E n \in Bearers(c) : Bearers(c) = {n}
  BY <1>3 DEF Consistent
<1> HIDE DEF F, G, o
<1>6. /\ Keeps(F.instances, o.instances) /\ Keeps(F.hosts, o.hosts)
      /\ Keeps(F.services, o.services) /\ Keeps(F.models, o.models)
      /\ Keeps(G.instances, o.instances) /\ Keeps(G.hosts, o.hosts)
      /\ Keeps(G.services, o.services) /\ Keeps(G.models, o.models)
  BY <1>1, <1>2 DEF Holds
<1>7. Agree(F, G, "mdns_name", F.instances, G.instances)
  <2>1. OneBearer(ClaimsOf(F, "mdns_name", F.instances))
    BY <1>5 DEF AllClaims, OneBearer
  <2>2. BornAs(o.instances, "mdns_name", "instance")
    BY <1>4 DEF AllBorn
  <2> QED  BY <1>1, <1>2, <1>6, <2>1, <2>2, OneKindAgrees
<1>8. Agree(F, G, "mdns_name", F.hosts, G.hosts)
  <2>1. OneBearer(ClaimsOf(F, "mdns_name", F.hosts))
    BY <1>5 DEF AllClaims, OneBearer
  <2>2. BornAs(o.hosts, "mdns_name", "host")
    BY <1>4 DEF AllBorn
  <2> QED  BY <1>1, <1>2, <1>6, <2>1, <2>2, OneKindAgrees
<1>9. Agree(F, G, "mdns_service", F.services, G.services)
  <2>1. OneBearer(ClaimsOf(F, "mdns_service", F.services))
    BY <1>5 DEF AllClaims, OneBearer
  <2>2. BornAs(o.services, "mdns_service", "instance")
    BY <1>4 DEF AllBorn
  <2> QED  BY <1>1, <1>2, <1>6, <2>1, <2>2, OneKindAgrees
<1>10. Agree(F, G, "mdns_model", F.models, G.models)
  <2>1. OneBearer(ClaimsOf(F, "mdns_model", F.models))
    BY <1>5 DEF AllClaims, OneBearer
  <2>2. BornAs(o.models, "mdns_model", "instance")
    BY <1>4 DEF AllBorn
  <2> QED  BY <1>1, <1>2, <1>6, <2>1, <2>2, OneKindAgrees
<1> QED  BY <1>3, <1>7, <1>8, <1>9, <1>10 DEF AllClaims, Agree, F, G

\* So the order is no evidence.
LEMMA OrderProvesNothing ==
  ASSUME records \in Seq(Records), questions \in Seq(Questions)
  PROVE  OrderIsNoEvidence
<1> SUFFICES ASSUME Consistent, NEW order \in [1..Len(records) -> 1..Len(records)],
                    ToSet(order) = 1..Len(records)
             PROVE  LET listed == [i \in 1..Len(records) |-> records[order[i]]]
                    IN  ToSet(extract_claims(listed)) = ToSet(extract_claims(records))
  BY DEF OrderIsNoEvidence
<1> DEFINE n == Len(records)
           listed == [i \in 1..n |-> records[order[i]]]
<1>1. n \in Nat /\ DOMAIN records = 1..n /\ \A i \in 1..n : records[i] \in Records
  OBVIOUS
<1>2. listed \in [1..n -> Records]
  BY <1>1
<1>3. listed \in Seq(Records) /\ DOMAIN listed = 1..n
  BY <1>1, <1>2
<1>4. \A j \in 1..n : \E i \in 1..n : order[i] = j
  BY DEF ToSet
<1>5. ToSet(listed) = ToSet(records)
  BY <1>1, <1>3, <1>4 DEF ToSet
<1> HIDE DEF listed
<1>6. ToSet(extract_claims(listed)) = ToSet(extract_claims(records))
  BY <1>3, <1>5, ReadingsAgree
<1> QED  BY <1>6 DEF listed

-----------------------------------------------------------------------------
\* A message of any number of records and questions claims only what its records prove,
\* and of one that does not contradict itself the order is no evidence.
THEOREM ClaimsHold == ClaimsSpec => []ClaimsStand
<1> DEFINE Inv == records \in Seq(Records) /\ questions \in Seq(Questions)
<1>1. ClaimsInit => Inv
  BY DEF ClaimsInit
<1>2. Inv /\ [ClaimsNext]_claimVars => Inv'
  <2> SUFFICES ASSUME Inv, [ClaimsNext]_claimVars  PROVE Inv'
    OBVIOUS
  <2>1. ASSUME NEW r \in Records, Carry(r)  PROVE Inv'
    <3>1. Append(records, r) \in Seq(Records)
      OBVIOUS
    <3> QED  BY <2>1, <3>1 DEF Carry
  <2>2. ASSUME NEW name \in Questions, Ask(name)  PROVE Inv'
    <3>1. Append(questions, name) \in Seq(Questions)
      OBVIOUS
    <3> QED  BY <2>2, <3>1 DEF Ask
  <2>3. CASE UNCHANGED claimVars
    BY <2>3 DEF claimVars
  <2> QED  BY <2>1, <2>2, <2>3 DEF ClaimsNext
<1>3. Inv => ClaimsStand
  BY AllProven, OrderProvesNothing DEF ClaimsStand
<1> QED  BY <1>1, <1>2, <1>3, PTL DEF ClaimsSpec

-----------------------------------------------------------------------------
(***************************************************************************)
(* Voices: a frame is about its sender                                     *)
(***************************************************************************)
\* f is the message after each of the first k lines.
LinesUpTo(f, k, start, lines) ==
  f = [i \in 0..k |-> IF i = 0 THEN Nameless ELSE ReadLine(start, f[i - 1], lines[i])]

\* The recursion of LinesRead has a value, and unfolds line by line.
LEMMA LinesUnfold ==
  ASSUME NEW start, NEW lines, Len(lines) \in Nat
  PROVE  /\ LinesRead(start, lines)[0] = Nameless
         /\ \A i \in 1..Len(lines) :
              LinesRead(start, lines)[i]
                = ReadLine(start, LinesRead(start, lines)[i - 1], lines[i])
<1> DEFINE n == Len(lines)
           T == {k \in 0..n : ~ \E f : LinesUpTo(f, k, start, lines)}
<1>0. n \in Nat
  OBVIOUS
<1>3. LinesRead(start, lines) = CHOOSE f : LinesUpTo(f, n, start, lines)
  BY DEF LinesRead, LinesUpTo
<1> HIDE DEF n
<1>1. T = {}
  <2> SUFFICES ASSUME T # {}  PROVE FALSE
    OBVIOUS
  <2>1. PICK k \in T : \A j \in T : k <= j
    <3>1. T \in SUBSET Nat
      BY <1>0
    <3> HIDE DEF T
    <3> QED  BY <3>1, LeastNumber
  <2>2. k # 0
    <3> DEFINE f == [i \in 0..0 |-> Nameless]
    <3>1. LinesUpTo(f, 0, start, lines)
      BY DEF LinesUpTo
    <3> QED  BY <3>1
  <2>3. k - 1 \in 0..n /\ k - 1 \notin T /\ k \in 1..n
    BY <1>0, <2>1, <2>2
  <2>4. PICK g : LinesUpTo(g, k - 1, start, lines)
    BY <2>3
  <2> DEFINE f == [i \in 0..k |-> IF i = k THEN ReadLine(start, g[k - 1], lines[k]) ELSE g[i]]
  <2>5. g = [i \in 0..(k - 1) |->
               IF i = 0 THEN Nameless ELSE ReadLine(start, g[i - 1], lines[i])]
    BY <2>4 DEF LinesUpTo
  <2>6. ASSUME NEW i \in 0..k
        PROVE  f[i] = IF i = 0 THEN Nameless ELSE ReadLine(start, f[i - 1], lines[i])
    <3>1. CASE i = k
      <4>1. f[i - 1] = g[k - 1] /\ i # 0
        BY <3>1, <2>3, <1>0
      <4> QED  BY <3>1, <4>1
    <3>2. CASE i # k /\ i # 0
      <4>1. i \in 0..(k - 1) /\ i - 1 \in 0..k /\ i - 1 # k
        BY <3>2, <2>3, <1>0
      <4>2. f[i] = g[i] /\ f[i - 1] = g[i - 1]
        BY <3>2, <4>1
      <4>3. g[i] = ReadLine(start, g[i - 1], lines[i])
        BY <2>5, <3>2, <4>1
      <4> QED  BY <3>2, <4>2, <4>3
    <3>3. CASE i = 0
      <4>1. f[0] = g[0] /\ 0 \in 0..(k - 1)
        BY <2>3, <1>0, <3>3
      <4> QED  BY <2>5, <3>3, <4>1
    <3> QED  BY <3>1, <3>2, <3>3
  <2>7. LinesUpTo(f, k, start, lines)
    <3>1. f = [i \in 0..k |-> f[i]]
      OBVIOUS
    <3> HIDE DEF f
    <3> QED  BY <2>6, <3>1 DEF LinesUpTo
  <2> HIDE DEF f
  <2> QED  BY <2>1, <2>7
<1>2. \E f : LinesUpTo(f, n, start, lines)
  <2>1. n \in 0..n /\ n \notin T
    BY <1>0, <1>1
  <2> QED  BY <2>1
<1>4. LinesUpTo(LinesRead(start, lines), n, start, lines)
  BY <1>2, <1>3
<1> QED  BY <1>0, <1>4 DEF LinesUpTo, n

\* What is concluded of a frame is its sender's, and all that it said of itself
\* unless a bridge has hidden who it was.
Fair(s, sent) ==
  LET seen == parse_frame(sent.frame)
  IN  /\ \/ seen = Untold
         \/ seen # Untold /\ seen.mac = s /\ seen.values \subseteq Own(s)
      /\ sent.frame.from = s =>
           \/ sent.own = {}
           \/ seen # Untold /\ sent.own \subseteq seen.values

\* A sighting is something, and about whom it is about.
LEMMA SightingIs ==
  ASSUME NEW s \in Stations, NEW V, V \ {Untold} \subseteq Own(s)
  PROVE  /\ Sighting(s, V) # Untold /\ Sighting(s, V).mac = s
         /\ Sighting(s, V).values = V \ {Untold}
<1> DEFINE W == V \ {Untold}
<1>1. Sighting(s, V) = [mac |-> s, values |-> W]
  BY DEF Sighting
<1> HIDE DEF W
<1>2. W \in SUBSET Own(s)
  BY DEF W
<1>3. [mac |-> s, values |-> W] \in [mac : {s}, values : SUBSET Own(s)]
  BY <1>2
<1> QED  BY <1>1, <1>3, VoicesAssumption DEF W
-----------------------------------------------------------------------------
\* Neighbour discovery: the frames a station sends.
NdpFrame(from, type, source, target, list) ==
  [protocol |-> "ndp", from |-> from, type |-> type, source |-> source,
   target |-> target, options |-> list]

\* One by one, with what each says of its sender.
NdpSent(s, from, other, sent) ==
  \/ \E o \in OwnLink(s) :
       sent = Utterance(NdpFrame(from, "solicitation", Value("link", s),
                                 Value("global", other), o), {Value("link", s)})
  \/ sent = Utterance(NdpFrame(from, "solicitation", Untold, Value("global", s), << >>), {})
  \/ \E o \in {<< >>, <<LinkOption("target", s, 1)>>} :
       sent = Utterance(NdpFrame(from, "advertisement", Value("link", s), Value("global", s), o),
                        {Value("global", s)})
  \/ \E o \in OwnLink(s) :
       sent = Utterance(NdpFrame(from, "router_solicitation", Value("link", s), Untold, o),
                        {Value("link", s)})
  \/ /\ s \in Advertisers
     /\ \E o \in OwnLink(s) :
          sent = Utterance(NdpFrame(from, "router_advertisement", Value("link", s), Untold, o),
                           {Value("link", s), Value("router", s)})
  \/ /\ s \in Advertisers
     /\ sent = Utterance(NdpFrame(from, "redirect", Value("link", s), Value("link", other),
                                  <<LinkOption("target", other, 1)>>), {Value("link", s)})

\* They are the frames of the model.
LEMMA NdpFramesAre ==
  ASSUME NEW s, NEW from, NEW other, NEW sent \in NdpFrames(s, from, other)
  PROVE  NdpSent(s, from, other, sent)
BY DEF NdpFrames, NdpSent, NdpFrame

\* The addresses in the options of a station that are not for another are its own.
OwnOptions(s, type, list) ==
  \A i \in 1..Len(list) :
    /\ list[i].kind \in {"source"} \union IF type = "advertisement" THEN {"target"} ELSE {}
    /\ list[i].mac \in Stations
    => list[i].mac = s

\* The options a station sends of its own link are so.
LEMMA LinksAreOwn ==
  ASSUME NEW s, NEW type, NEW o \in OwnLink(s)
  PROVE  OwnOptions(s, type, o)
<1>1. CASE o = <<LinkOption("source", s, 1)>>
  BY <1>1 DEF OwnOptions, LinkOption
<1>2. CASE o = <<LinkOption("mtu", Untold, 1), LinkOption("source", s, 1)>>
  BY <1>2 DEF OwnOptions, LinkOption
<1>3. CASE o = <<LinkOption("prefix", Untold, 4), LinkOption("mtu", Untold, 1),
                 LinkOption("source", s, 1)>>
  BY <1>3 DEF OwnOptions, LinkOption
<1> QED  BY <1>1, <1>2, <1>3 DEF OwnLink

\* So an address that is taken from them is the station's.
LEMMA LinkLayerIsOwn ==
  ASSUME NEW s, NEW f, OwnOptions(s, f.type, f.options), Len(f.options) \in Nat
  PROVE  link_layer_address(f) \in {s, Untold}
<1> DEFINE wanted == {"source"} \union IF f.type = "advertisement" THEN {"target"} ELSE {}
           usable == {i \in Walked(f.options) :
                        f.options[i].kind \in wanted /\ f.options[i].mac \in Stations}
           first == CHOOSE i \in usable : \A j \in usable : i <= j
<1>1. link_layer_address(f) = IF usable = {} THEN Untold ELSE f.options[first].mac
  BY DEF link_layer_address
<1>2. CASE usable # {}
  <2>1. usable \in SUBSET Nat
    BY DEF Walked
  <2>2. \E i \in usable : \A j \in usable : i <= j
    <3> HIDE DEF usable
    <3> QED  BY <1>2, <2>1, LeastNumber
  <2>3. first \in usable
    <3> HIDE DEF usable
    <3> QED  BY <2>2
  <2>4. f.options[first].mac = s
    BY <2>3 DEF Walked, OwnOptions
  <2> QED  BY <1>1, <2>4
<1> QED  BY <1>1, <1>2

\* What neighbour discovery says is fair.
LEMMA NdpIsFair ==
  ASSUME NEW s \in Stations, NEW from \in {s, Rewritten}, NEW other,
         NEW sent \in NdpFrames(s, from, other)
  PROVE  Fair(s, sent)
<1> DEFINE f == sent.frame
           mac == IF f.from = Rewritten THEN link_layer_address(f) ELSE f.from
           V == {sender_address(f), IF f.type = "router_advertisement" THEN Value("router", mac)
                                    ELSE Untold}
<1>0. NdpSent(s, from, other, sent)
  BY NdpFramesAre
<1>1. f.protocol = "ndp" /\ f.from = from
  BY <1>0 DEF NdpSent, Utterance, NdpFrame
<1>2. Len(f.options) \in Nat /\ OwnOptions(s, f.type, f.options)
  <2>1. \A o \in OwnLink(s) : Len(o) \in Nat
    BY DEF OwnLink
  <2>2. CASE \E o \in OwnLink(s) : f.options = o
    BY <2>1, <2>2, LinksAreOwn
  <2>3. CASE f.options = << >>
    BY <2>3 DEF OwnOptions
  <2>4. CASE f.options = <<LinkOption("target", s, 1)>>
    BY <2>4 DEF OwnOptions, LinkOption
  <2>5. CASE f.options = <<LinkOption("target", other, 1)>> /\ f.type = "redirect"
    BY <2>5 DEF OwnOptions, LinkOption
  <2>6. \/ \E o \in OwnLink(s) : f.options = o
        \/ f.options = << >>
        \/ f.options = <<LinkOption("target", s, 1)>>
        \/ f.options = <<LinkOption("target", other, 1)>> /\ f.type = "redirect"
    BY <1>0 DEF NdpSent, Utterance, NdpFrame
  <2> QED  BY <2>2, <2>3, <2>4, <2>5, <2>6
<1>3. mac \in {s, Untold} /\ (from = s => mac = s)
  BY <1>1, <1>2, LinkLayerIsOwn, VoicesAssumption
<1>4. parse_frame(f) = ndp(f)
  BY <1>1 DEF parse_frame
<1>5. ndp(f) = IF mac = Untold THEN Untold ELSE Sighting(mac, V)
  BY DEF ndp
<1>6. /\ sender_address(f) \in {Untold, Value("link", s), Value("global", s)}
      /\ f.type = "router_advertisement" => s \in Advertisers
      /\ sent.own \subseteq {sender_address(f)} \union
           IF f.type = "router_advertisement" THEN {Value("router", s)} ELSE {}
      /\ Untold \notin sent.own
  BY <1>0 DEF NdpSent, Utterance, NdpFrame, sender_address
<1>7. Value("link", s) \in Own(s) /\ Value("global", s) \in Own(s)
      /\ (s \in Advertisers => Value("router", s) \in Own(s))
  BY DEF Own
<1> HIDE DEF mac, f
<1>8. CASE mac = Untold
  BY <1>1, <1>3, <1>4, <1>5, <1>8, VoicesAssumption DEF Fair, f
<1>9. CASE mac = s
  <2>1. mac # Untold
    BY <1>9, VoicesAssumption
  <2>2. V \ {Untold} \subseteq Own(s)
    BY <1>6, <1>7, <1>9
  <2>3. sent.own \subseteq V \ {Untold}
    BY <1>6, <1>9
  <2> HIDE DEF V
  <2>4. parse_frame(f) = Sighting(s, V)
    BY <1>4, <1>5, <1>9, <2>1
  <2>5. /\ Sighting(s, V) # Untold /\ Sighting(s, V).mac = s
        /\ Sighting(s, V).values = V \ {Untold}
    BY <2>2, SightingIs
  <2> QED  BY <2>2, <2>3, <2>4, <2>5 DEF Fair, f
<1> QED  BY <1>3, <1>8, <1>9
-----------------------------------------------------------------------------
\* NetBIOS: the frames a station sends.
Label(scope, value) == [scope |-> scope, value |-> value]

\* Frames of the name service, and of the datagram service.
NameFrame(from, opcode, n) ==
  [protocol |-> "nbns", port |-> "name", from |-> from, opcode |-> opcode,
   response |-> FALSE, name |-> n]

AnswerFrame(from, n) ==
  [protocol |-> "nbns", port |-> "name", from |-> from, opcode |-> "query",
   response |-> TRUE, name |-> n]

DatagramFrame(from, type, source, dest) ==
  [protocol |-> "nbns", port |-> "datagram", from |-> from, type |-> type,
   source |-> source, dest |-> dest]

\* The names a station gives itself.
Machine(s) == Label("machine", Value("name", s))
Group(s) == Label("workgroup", Value("workgroup", Workgroup[s]))

\* What a station sends to the name service, and what each says of it.
NameSent(s, from, other, sent) ==
  \/ \E opcode \in {"registration", "refresh"}, n \in {Machine(s), Group(s)} :
       sent = Utterance(NameFrame(from, opcode, n), {n.value})
  \/ sent = Utterance(NameFrame(from, "registration", Label("other", Value("name", s))), {})
  \/ sent = Utterance(NameFrame(from, "query", Machine(other)), {})
  \/ sent = Utterance(AnswerFrame(from, Machine(s)), {Value("name", s)})
  \/ sent = Utterance(NameFrame(from, "release", Machine(s)), {})

\* What it sends to the datagram service.
DatagramSent(s, from, other, sent) ==
  \/ sent = Utterance(DatagramFrame(from, "broadcast", Machine(s), Group(s)),
                      {Value("name", s), Value("workgroup", Workgroup[s])})
  \/ sent = Utterance(DatagramFrame(from, "direct_unique", Machine(s), Machine(other)),
                      {Value("name", s)})
  \/ sent = Utterance(DatagramFrame(from, "broadcast", Machine(s), Label("workgroup", MSBROWSE)),
                      {Value("name", s)})
  \/ sent = Utterance(DatagramFrame(from, "error", Machine(s), Machine(other)), {})

\* They are the frames of the model.
LEMMA NetbiosFramesAre ==
  ASSUME NEW s, NEW from, NEW other, NEW sent \in NetbiosFrames(s, from, other)
  PROVE  NameSent(s, from, other, sent) \/ DatagramSent(s, from, other, sent)
<1> DEFINE mine == Machine(s)
           theirs == Machine(other)
           group == Group(s)
           A == {Utterance(NameFrame(from, o, n), {n.value}) :
                   o \in {"registration", "refresh"}, n \in {mine, group}}
           B == {Utterance(NameFrame(from, "registration", Label("other", Value("name", s))), {}),
                 Utterance(NameFrame(from, "query", theirs), {}),
                 Utterance(AnswerFrame(from, mine), {mine.value}),
                 Utterance(NameFrame(from, "release", mine), {}),
                 Utterance(DatagramFrame(from, "broadcast", mine, group),
                           {mine.value, group.value}),
                 Utterance(DatagramFrame(from, "direct_unique", mine, theirs), {mine.value}),
                 Utterance(DatagramFrame(from, "broadcast", mine, Label("workgroup", MSBROWSE)),
                           {mine.value}),
                 Utterance(DatagramFrame(from, "error", mine, theirs), {})}
<1>1. NetbiosFrames(s, from, other) = A \union B
  BY DEF NetbiosFrames, NameFrame, AnswerFrame, DatagramFrame, Machine, Group, Label
<1>2. mine.value = Value("name", s) /\ group.value = Value("workgroup", Workgroup[s])
  BY DEF Machine, Group, Label
<1>3. CASE sent \in A
  BY <1>3 DEF NameSent
<1>4. CASE sent \in B
  <2> HIDE DEF mine, theirs, group
  <2>1. \/ sent = Utterance(NameFrame(from, "registration", Label("other", Value("name", s))), {})
        \/ sent = Utterance(NameFrame(from, "query", theirs), {})
        \/ sent = Utterance(AnswerFrame(from, mine), {Value("name", s)})
        \/ sent = Utterance(NameFrame(from, "release", mine), {})
        \/ sent = Utterance(DatagramFrame(from, "broadcast", mine, group),
                            {Value("name", s), Value("workgroup", Workgroup[s])})
        \/ sent = Utterance(DatagramFrame(from, "direct_unique", mine, theirs), {Value("name", s)})
        \/ sent = Utterance(DatagramFrame(from, "broadcast", mine, Label("workgroup", MSBROWSE)),
                            {Value("name", s)})
        \/ sent = Utterance(DatagramFrame(from, "error", mine, theirs), {})
    BY <1>2, <1>4
  <2> QED  BY <2>1 DEF NameSent, DatagramSent, mine, theirs, group
<1> QED  BY <1>1, <1>3, <1>4

\* The master browser is no name of a machine.
LEMMA BrowserIsNobody ==
  ASSUME NEW of
  PROVE  Value("name", of) # MSBROWSE /\ Value("workgroup", of) # MSBROWSE
<1>1. /\ Value("name", of).is = "name" /\ Value("workgroup", of).is = "workgroup"
      /\ MSBROWSE.is = "msbrowse"
  BY DEF Value, MSBROWSE
<1> QED  BY <1>1

\* A message of the name service that claims a name is about whom it is from.
LEMMA NameIsFair ==
  ASSUME NEW s \in Stations, NEW from \in {s, Rewritten}, NEW other, NEW sent,
         NameSent(s, from, other, sent)
  PROVE  Fair(s, sent)
<1> DEFINE f == sent.frame
           V == parse_name_service(f)
<1>1. f.protocol = "nbns" /\ f.port = "name" /\ f.from = from
  BY DEF NameSent, Utterance, NameFrame, AnswerFrame
<1>2. parse_frame(f) = IF from = Rewritten THEN Untold ELSE Sighting(from, V)
  <2>1. parse_frame(f) = nbns(f)
    BY <1>1 DEF parse_frame
  <2> QED  BY <1>1, <2>1 DEF nbns
<1>3. Value("name", s) \in Own(s) /\ Value("workgroup", Workgroup[s]) \in Own(s)
  BY DEF Own
<1>4. V \ {Untold} \subseteq Own(s) /\ sent.own \subseteq V /\ Untold \notin sent.own
  <2>1. CASE \E opcode \in {"registration", "refresh"}, n \in {Machine(s), Group(s)} :
               sent = Utterance(NameFrame(from, opcode, n), {n.value})
    <3>1. PICK opcode \in {"registration", "refresh"}, n \in {Machine(s), Group(s)} :
               sent = Utterance(NameFrame(from, opcode, n), {n.value})
      BY <2>1
    <3>2. /\ n.scope # "other" /\ n.value \in {Value("name", s), Value("workgroup", Workgroup[s])}
          /\ n.value # MSBROWSE
      BY BrowserIsNobody DEF Machine, Group, Label
    <3>3. f.opcode \in {"registration", "refresh"} /\ f.name = n /\ sent.own = {n.value} \ {Untold}
      BY <3>1 DEF Utterance, NameFrame, AnswerFrame
    <3>4. V = {n.value}
      BY <3>2, <3>3 DEF parse_name_service, Signal
    <3> QED  BY <1>3, <3>2, <3>3, <3>4
  <2>2. CASE sent = Utterance(NameFrame(from, "registration",
                                        Label("other", Value("name", s))), {})
    <3>1. f.opcode = "registration" /\ f.name = Label("other", Value("name", s)) /\ sent.own = {}
      BY <2>2 DEF Utterance, NameFrame, AnswerFrame
    <3>2. V = {Untold}
      BY <3>1, BrowserIsNobody DEF parse_name_service, Signal, Label
    <3> QED  BY <3>1, <3>2
  <2>3. CASE sent = Utterance(NameFrame(from, "query", Machine(other)), {})
    <3>1. f.opcode = "query" /\ f.response = FALSE /\ sent.own = {}
      BY <2>3 DEF Utterance, NameFrame, AnswerFrame
    <3>2. V = {}
      BY <3>1 DEF parse_name_service
    <3> QED  BY <3>1, <3>2
  <2>4. CASE sent = Utterance(AnswerFrame(from, Machine(s)), {Value("name", s)})
    <3>1. /\ f.opcode = "query" /\ f.response = TRUE /\ f.name = Machine(s)
          /\ sent.own = {Value("name", s)} \ {Untold}
      BY <2>4 DEF Utterance, NameFrame, AnswerFrame
    <3>2. V = {Value("name", s)}
      BY <3>1, BrowserIsNobody DEF parse_name_service, Signal, Machine, Label
    <3> QED  BY <1>3, <3>1, <3>2
  <2>5. CASE sent = Utterance(NameFrame(from, "release", Machine(s)), {})
    <3>1. f.opcode = "release" /\ sent.own = {}
      BY <2>5 DEF Utterance, NameFrame, AnswerFrame
    <3>2. V = {}
      BY <3>1 DEF parse_name_service
    <3> QED  BY <3>1, <3>2
  <2> QED  BY <2>1, <2>2, <2>3, <2>4, <2>5 DEF NameSent
<1> HIDE DEF f, V
<1>5. CASE from = Rewritten
  BY <1>1, <1>2, <1>5, VoicesAssumption DEF Fair, f
<1>6. CASE from = s
  <2>1. from # Rewritten
    BY <1>6, VoicesAssumption
  <2>2. /\ Sighting(s, V) # Untold /\ Sighting(s, V).mac = s
        /\ Sighting(s, V).values = V \ {Untold}
    BY <1>4, SightingIs
  <2> QED  BY <1>2, <1>4, <1>6, <2>1, <2>2 DEF Fair, f
<1> QED  BY <1>5, <1>6

\* And a datagram is about its source.
LEMMA DatagramIsFair ==
  ASSUME NEW s \in Stations, NEW from \in {s, Rewritten}, NEW other, NEW sent,
         DatagramSent(s, from, other, sent)
  PROVE  Fair(s, sent)
<1> DEFINE f == sent.frame
           V == parse_datagram_service(f)
<1>1. f.protocol = "nbns" /\ f.port = "datagram" /\ f.from = from
  BY DEF DatagramSent, Utterance, DatagramFrame
<1>2. parse_frame(f) = IF from = Rewritten \/ f.type = "error" \/ V = {} THEN Untold
                       ELSE Sighting(from, V)
  <2>1. parse_frame(f) = nbns(f)
    BY <1>1 DEF parse_frame
  <2> QED  BY <1>1, <2>1 DEF nbns
<1>3. Value("name", s) \in Own(s) /\ Value("workgroup", Workgroup[s]) \in Own(s)
  BY DEF Own
<1>4. /\ V \ {Untold} \subseteq Own(s) /\ V # {} /\ sent.own \subseteq V /\ Untold \notin sent.own
      /\ f.type = "error" => sent.own = {}
  <2>1. CASE sent = Utterance(DatagramFrame(from, "broadcast", Machine(s), Group(s)),
                              {Value("name", s), Value("workgroup", Workgroup[s])})
    <3>1. /\ f.type = "broadcast" /\ f.source = Machine(s) /\ f.dest = Group(s)
          /\ sent.own = {Value("name", s), Value("workgroup", Workgroup[s])} \ {Untold}
      BY <2>1 DEF Utterance, DatagramFrame
    <3>2. V = {Value("name", s), Value("workgroup", Workgroup[s])}
      BY <3>1, BrowserIsNobody DEF parse_datagram_service, Signal, Machine, Group, Label
    <3> QED  BY <1>3, <3>1, <3>2
  <2>2. CASE sent = Utterance(DatagramFrame(from, "direct_unique", Machine(s), Machine(other)),
                              {Value("name", s)})
    <3>1. /\ f.type = "direct_unique" /\ f.source = Machine(s) /\ f.dest = Machine(other)
          /\ sent.own = {Value("name", s)} \ {Untold}
      BY <2>2 DEF Utterance, DatagramFrame
    <3>2. V = {Value("name", s)}
      BY <3>1, BrowserIsNobody DEF parse_datagram_service, Signal, Machine, Label
    <3> QED  BY <1>3, <3>1, <3>2
  <2>3. CASE sent = Utterance(DatagramFrame(from, "broadcast", Machine(s),
                                            Label("workgroup", MSBROWSE)), {Value("name", s)})
    <3>1. /\ f.type = "broadcast" /\ f.source = Machine(s) /\ f.dest = Label("workgroup", MSBROWSE)
          /\ sent.own = {Value("name", s)} \ {Untold}
      BY <2>3 DEF Utterance, DatagramFrame
    <3>2. V = {Value("name", s)}
      BY <3>1, BrowserIsNobody DEF parse_datagram_service, Signal, Machine, Label
    <3> QED  BY <1>3, <3>1, <3>2
  <2>4. CASE sent = Utterance(DatagramFrame(from, "error", Machine(s), Machine(other)), {})
    <3>1. f.type = "error" /\ f.source = Machine(s) /\ f.dest = Machine(other) /\ sent.own = {}
      BY <2>4 DEF Utterance, DatagramFrame
    <3>2. V = {Value("name", s)}
      BY <3>1, BrowserIsNobody DEF parse_datagram_service, Signal, Machine, Label
    <3> QED  BY <1>3, <3>1, <3>2
  <2> QED  BY <2>1, <2>2, <2>3, <2>4 DEF DatagramSent
<1> HIDE DEF f, V
<1>5. CASE from = Rewritten
  BY <1>1, <1>2, <1>5, VoicesAssumption DEF Fair, f
<1>6. CASE from = s /\ f.type = "error"
  BY <1>1, <1>2, <1>4, <1>6 DEF Fair, f
<1>7. CASE from = s /\ f.type # "error"
  <2>1. from # Rewritten
    BY <1>7, VoicesAssumption
  <2>2. /\ Sighting(s, V) # Untold /\ Sighting(s, V).mac = s
        /\ Sighting(s, V).values = V \ {Untold}
    BY <1>4, SightingIs
  <2> QED  BY <1>2, <1>4, <1>7, <2>1, <2>2 DEF Fair, f
<1> QED  BY <1>5, <1>6, <1>7
-----------------------------------------------------------------------------
\* SSDP: the frames a station sends.
SsdpFrame(from, start, lines) ==
  [protocol |-> "ssdp", from |-> from, start |-> start, lines |-> lines]

\* A line of a message.
Line(field, value) == [field |-> field, value |-> value]

\* The types a station announces, and what is taken of one.
TypesOf(s) == {Value(is, s) : is \in {"rootdevice", "device", "dial", "service", "uuid"}}

Taken(v) == IF v.is \in {"service", "uuid"} THEN Untold ELSE v

\* The lines that name a station, and the name they tell.
NameLines(s) ==
  {<< >>, <<Line("X-FRIENDLY-NAME", Value("coded", s))>>,
   <<Line("X-FRIENDLY-NAME", Value("friendly", s))>>,
   <<Line("FRIENDLYNAME.DLNA.ORG", Value("friendly", s)),
     Line("X-FRIENDLY-NAME", Value("coded", s))>>}

Friendly(n, s) == IF n = << >> THEN Untold ELSE Value("friendly", s)

\* What a message with a type and those lines tells.
ToldIn(s, v, n) == {Taken(v), Value("stack", s), Friendly(n, s)}

\* A notice, an answer, a search and a plain request.
Notice(s, from, v, n) ==
  Utterance(SsdpFrame(from, "NOTIFY", <<Line("NT", v), Line("SERVER", Value("stack", s))>> \o n),
            ToldIn(s, v, n))

Answer(s, from, v, n) ==
  Utterance(SsdpFrame(from, "HTTP/1.1", n \o <<Line("SERVER", Value("stack", s)), Line("ST", v)>>),
            ToldIn(s, v, n))

Search(s, from, other) ==
  Utterance(SsdpFrame(from, "M-SEARCH", <<Line("ST", Value("device", other)),
                                          Line("USER-AGENT", Value("stack", s))>>),
            {Value("stack", s)})

Get(s, from) ==
  Utterance(SsdpFrame(from, "GET", <<Line("USER-AGENT", Value("stack", s))>>), {})

\* They are the frames of the model.
LEMMA SsdpFramesAre ==
  ASSUME NEW s, NEW from, NEW other, NEW sent \in SsdpFrames(s, from, other)
  PROVE  \/ \E v \in TypesOf(s), n \in NameLines(s) :
              sent = Notice(s, from, v, n) \/ sent = Answer(s, from, v, n)
         \/ sent = Search(s, from, other) \/ sent = Get(s, from)
<1> DEFINE A == {Notice(s, from, v, n) : v \in TypesOf(s), n \in NameLines(s)}
           B == {Answer(s, from, v, n) : v \in TypesOf(s), n \in NameLines(s)}
           C == {Search(s, from, other), Get(s, from)}
<1>1. SsdpFrames(s, from, other) = A \union B \union C
  BY DEF SsdpFrames, SsdpFrame, Notice, Answer, Search, Get, ToldIn, Line, TypesOf, Taken,
         NameLines, Friendly
<1> QED  BY <1>1

\* A message, field by field.
Message(type, server, friendly) == [type |-> type, server |-> server, friendly |-> friendly]

\* The first of two values that is told.
Or(old, new) == IF old = Untold THEN new ELSE old

\* What is made of a message by a type that is set,
LEMMA TypeLine ==
  ASSUME NEW s, NEW t, NEW a, NEW b, NEW v \in TypesOf(s)
  PROVE  set_device_type(Message(t, a, b), v) = Message(Or(t, Taken(v)), a, b)
<1>1. PICK is \in {"rootdevice", "device", "dial", "service", "uuid"} : v = [is |-> is, of |-> s]
  BY DEF TypesOf, Value
<1>2. v.is = is
  BY <1>1
<1>3. CASE is \in {"service", "uuid"}
  <2>1. Taken(v) = Untold /\ Or(t, Taken(v)) = t
    BY <1>2, <1>3 DEF Taken, Or
  <2> QED  BY <1>2, <1>3, <2>1 DEF set_device_type
<1>4. CASE is \in {"rootdevice", "device", "dial"}
  <2>1. Taken(v) = v
    BY <1>2, <1>4 DEF Taken
  <2>2. Message(t, a, b).type = t
    BY DEF Message
  <2>3. [Message(t, a, b) EXCEPT !.type = v] = Message(v, a, b)
    BY DEF Message
  <2> QED  BY <1>2, <1>4, <2>1, <2>2, <2>3 DEF set_device_type, Or
<1> QED  BY <1>3, <1>4

\* a server that is kept,
LEMMA ServerLine ==
  ASSUME NEW t, NEW a, NEW b, NEW v
  PROVE  Keep(Message(t, a, b), "server", v) = Message(t, Or(a, v), b)
<1>1. Message(t, a, b)["server"] = a
  BY DEF Message
<1>2. [Message(t, a, b) EXCEPT !["server"] = v] = Message(t, v, b)
  BY DEF Message
<1> QED  BY <1>1, <1>2 DEF Keep, Or

\* and a name that is kept.
LEMMA FriendlyLine ==
  ASSUME NEW t, NEW a, NEW b, NEW v
  PROVE  Keep(Message(t, a, b), "friendly", v) = Message(t, a, Or(b, v))
<1>1. Message(t, a, b)["friendly"] = b
  BY DEF Message
<1>2. [Message(t, a, b) EXCEPT !["friendly"] = v] = Message(t, a, v)
  BY DEF Message
<1> QED  BY <1>1, <1>2 DEF Keep, Or

\* So a line that tells a type is read,
LEMMA ReadType ==
  ASSUME NEW s, NEW t, NEW a, NEW b, NEW v \in TypesOf(s)
  PROVE  /\ ReadLine("NOTIFY", Message(t, a, b), Line("NT", v)) = Message(Or(t, Taken(v)), a, b)
         /\ ReadLine("HTTP/1.1", Message(t, a, b), Line("ST", v)) = Message(Or(t, Taken(v)), a, b)
<1> DEFINE m == Message(t, a, b)
<1>1. Line("NT", v).field = "NT" /\ Line("ST", v).field = "ST"
      /\ Line("NT", v).value = v /\ Line("ST", v).value = v
  BY DEF Line
<1> HIDE DEF m
<1>2. /\ ReadLine("NOTIFY", m, Line("NT", v)) = set_device_type(m, v)
      /\ ReadLine("HTTP/1.1", m, Line("ST", v)) = set_device_type(m, v)
  BY <1>1 DEF ReadLine
<1> QED  BY <1>2, TypeLine DEF m

\* one that tells a server,
LEMMA ReadServer ==
  ASSUME NEW start \in {"NOTIFY", "HTTP/1.1", "M-SEARCH"}, NEW t, NEW a, NEW b, NEW v
  PROVE  /\ ReadLine(start, Message(t, a, b), Line("SERVER", v)) = Message(t, Or(a, v), b)
         /\ start = "M-SEARCH" =>
              ReadLine(start, Message(t, a, b), Line("USER-AGENT", v)) = Message(t, Or(a, v), b)
<1> DEFINE m == Message(t, a, b)
<1>1. Line("SERVER", v).field = "SERVER" /\ Line("USER-AGENT", v).field = "USER-AGENT"
      /\ Line("SERVER", v).value = v /\ Line("USER-AGENT", v).value = v
  BY DEF Line
<1> HIDE DEF m
<1>2. /\ ReadLine(start, m, Line("SERVER", v)) = Keep(m, "server", v)
      /\ start = "M-SEARCH" => ReadLine(start, m, Line("USER-AGENT", v)) = Keep(m, "server", v)
  BY <1>1 DEF ReadLine
<1> QED  BY <1>2, ServerLine DEF m

\* A target that is searched for is nobody's type.
LEMMA ReadTarget ==
  ASSUME NEW m, NEW v
  PROVE  ReadLine("M-SEARCH", m, Line("ST", v)) = m
<1>1. Line("ST", v).field = "ST"
  BY DEF Line
<1> QED  BY <1>1 DEF ReadLine

\* and one that tells a name.
LEMMA ReadFriendly ==
  ASSUME NEW start, NEW s \in Stations, NEW t, NEW a, NEW b
  PROVE  /\ ReadLine(start, Message(t, a, b), Line("X-FRIENDLY-NAME", Value("coded", s)))
              = Message(t, a, Or(b, Value("friendly", s)))
         /\ ReadLine(start, Message(t, a, b), Line("X-FRIENDLY-NAME", Value("friendly", s)))
              = Message(t, a, Or(b, Value("friendly", s)))
         /\ ReadLine(start, Message(t, a, b), Line("FRIENDLYNAME.DLNA.ORG", Value("friendly", s)))
              = Message(t, a, Or(b, Value("friendly", s)))
<1> DEFINE m == Message(t, a, b)
           coded == Value("coded", s)
           friendly == Value("friendly", s)
<1>1. friendly # Untold
  BY VoicesAssumption DEF Own
<1>2. base64_text(coded) = friendly /\ base64_text(friendly) = Untold
  BY DEF base64_text, Value
<1> HIDE DEF m, coded, friendly
<1>3. ReadLine(start, m, Line("X-FRIENDLY-NAME", coded)) = Keep(m, "friendly", friendly)
  <2>1. Line("X-FRIENDLY-NAME", coded).field = "X-FRIENDLY-NAME"
        /\ Line("X-FRIENDLY-NAME", coded).value = coded
    BY DEF Line
  <2> QED  BY <1>1, <1>2, <2>1 DEF ReadLine
<1>4. ReadLine(start, m, Line("X-FRIENDLY-NAME", friendly)) = Keep(m, "friendly", friendly)
  <2>1. Line("X-FRIENDLY-NAME", friendly).field = "X-FRIENDLY-NAME"
        /\ Line("X-FRIENDLY-NAME", friendly).value = friendly
    BY DEF Line
  <2> QED  BY <1>1, <1>2, <2>1 DEF ReadLine
<1>5. ReadLine(start, m, Line("FRIENDLYNAME.DLNA.ORG", friendly)) = Keep(m, "friendly", friendly)
  <2>1. Line("FRIENDLYNAME.DLNA.ORG", friendly).field = "FRIENDLYNAME.DLNA.ORG"
        /\ Line("FRIENDLYNAME.DLNA.ORG", friendly).value = friendly
    BY DEF Line
  <2> QED  BY <2>1 DEF ReadLine
<1>6. Keep(m, "friendly", friendly) = Message(t, a, Or(b, friendly))
  BY FriendlyLine DEF m
<1> QED  BY <1>3, <1>4, <1>5, <1>6 DEF m, coded, friendly

\* One line more.
Then(start, m, line) == ReadLine(start, m, line)

\* Messages of two lines and of three.
LEMMA LinesInTurn ==
  ASSUME NEW from, NEW start, NEW lines, NEW w, NEW x, NEW y, Len(lines) \in 2..3,
         Then(start, Nameless, lines[1]) = w, Then(start, w, lines[2]) = x,
         Len(lines) = 3 => Then(start, x, lines[3]) = y
  PROVE  ssdp_message(SsdpFrame(from, start, lines)) = IF Len(lines) = 2 THEN x ELSE y
<1> DEFINE P == LinesRead(start, lines)
           n == Len(lines)
<1>1. /\ ssdp_message(SsdpFrame(from, start, lines)) = P[n] /\ P[0] = Nameless
      /\ \A i \in 1..n : P[i] = Then(start, P[i - 1], lines[i])
  BY LinesUnfold DEF ssdp_message, SsdpFrame, Then
<1> HIDE DEF P, n
<1>2. n \in 2..3
  BY DEF n
<1>3. P[1] = w
  BY <1>1, <1>2
<1>4. P[2] = x
  BY <1>1, <1>2, <1>3
<1>5. n = 3 => P[3] = y
  BY <1>1, <1>4 DEF n
<1> QED  BY <1>1, <1>2, <1>4, <1>5 DEF n

\* Of four, the last two told of in a word.
Fourth(start, m, lines) == Then(start, Then(start, m, lines[3]), lines[4])

\* Messages of four.
LEMMA FourLines ==
  ASSUME NEW from, NEW start, NEW lines, NEW m, NEW z, Len(lines) = 4,
         Then(start, Then(start, Nameless, lines[1]), lines[2]) = m,
         Fourth(start, m, lines) = z
  PROVE  ssdp_message(SsdpFrame(from, start, lines)) = z
<1> DEFINE P == LinesRead(start, lines)
<1>0. ssdp_message(SsdpFrame(from, start, lines)) = P[4]
  BY DEF ssdp_message, SsdpFrame
<1> HIDE DEF P
<1>1. /\ ssdp_message(SsdpFrame(from, start, lines)) = P[4] /\ P[0] = Nameless
      /\ \A i \in 1..4 : P[i] = Then(start, P[i - 1], lines[i])
  <2>1. Len(lines) \in Nat
    OBVIOUS
  <2>2. P[0] = Nameless /\ \A i \in 1..Len(lines) : P[i] = ReadLine(start, P[i - 1], lines[i])
    <3>1. P = LinesRead(start, lines)
      BY DEF P
    <3>2. /\ LinesRead(start, lines)[0] = Nameless
          /\ \A i \in 1..Len(lines) :
               LinesRead(start, lines)[i]
                 = ReadLine(start, LinesRead(start, lines)[i - 1], lines[i])
      BY ONLY <2>1, LinesUnfold
    <3> QED  BY <3>1, <3>2
  <2>3. \A i \in 1..4 : P[i] = Then(start, P[i - 1], lines[i])
    BY <2>2 DEF Then
  <2> QED  BY <1>0, <2>2, <2>3
<1>2. P[1] = Then(start, Nameless, lines[1]) /\ P[2] = Then(start, P[1], lines[2])
  BY <1>1
<1>3. P[3] = Then(start, P[2], lines[3]) /\ P[4] = Then(start, P[3], lines[4])
  BY <1>1
<1> QED  BY <1>1, <1>2, <1>3 DEF Fourth

\* The entries of two lists together.
LEMMA ConcatEntries ==
  ASSUME NEW S, NEW s \in Seq(S), NEW t \in Seq(S)
  PROVE  /\ s \o t \in Seq(S) /\ Len(s \o t) = Len(s) + Len(t)
         /\ \A i \in 1..(Len(s) + Len(t)) :
              (s \o t)[i] = IF i <= Len(s) THEN s[i] ELSE t[i - Len(s)]
OBVIOUS

\* The lines a station names itself in.
Coded(s) == Line("X-FRIENDLY-NAME", Value("coded", s))
Plain(s) == Line("X-FRIENDLY-NAME", Value("friendly", s))
Dlna(s) == Line("FRIENDLYNAME.DLNA.ORG", Value("friendly", s))

\* The lines of NameLines, by their number.
NameLinesAre(s, n) ==
  /\ n \in Seq({Coded(s), Plain(s), Dlna(s)})
  /\ \/ Len(n) = 0 /\ Friendly(n, s) = Untold
     \/ Len(n) = 1 /\ n[1] \in {Coded(s), Plain(s)} /\ Friendly(n, s) = Value("friendly", s)
     \/ /\ Len(n) = 2 /\ n[1] = Dlna(s) /\ n[2] = Coded(s)
        /\ Friendly(n, s) = Value("friendly", s)

\* They are those.
LEMMA NamesAreLines ==
  ASSUME NEW s, NEW n \in NameLines(s)
  PROVE  NameLinesAre(s, n)
<1> DEFINE coded == Coded(s)
           plain == Plain(s)
           dlna == Dlna(s)
<1>1. n \in {<< >>, <<coded>>, <<plain>>, <<dlna, coded>>}
  BY DEF NameLines, Coded, Plain, Dlna
<1> HIDE DEF coded, plain, dlna
<1>2. n \in Seq({coded, plain, dlna})
      /\ \/ Len(n) = 0 /\ n = << >>
         \/ Len(n) = 1 /\ n[1] \in {coded, plain} /\ n # << >>
         \/ Len(n) = 2 /\ n[1] = dlna /\ n[2] = coded /\ n # << >>
  <2>1. CASE n = << >>
    BY <2>1
  <2>2. CASE n = <<coded>>
    BY <2>2
  <2>3. CASE n = <<plain>>
    BY <2>3
  <2>4. CASE n = <<dlna, coded>>
    BY <2>4
  <2> QED  BY <1>1, <2>1, <2>2, <2>3, <2>4
<1> QED  BY <1>2 DEF NameLinesAre, Friendly, coded, plain, dlna

\* What they make of a message.
LEMMA ReadNames ==
  ASSUME NEW start, NEW s \in Stations, NEW t, NEW a, NEW b \in {Untold, Value("friendly", s)},
         NEW line \in {Coded(s), Plain(s), Dlna(s)}
  PROVE  Then(start, Message(t, a, b), line) = Message(t, a, Value("friendly", s))
<1>1. Or(b, Value("friendly", s)) = Value("friendly", s)
  BY DEF Or
<1> QED  BY <1>1, ReadFriendly DEF Then, Coded, Plain, Dlna

-----------------------------------------------------------------------------
\* What a notice says.
LEMMA NoticeReads ==
  ASSUME NEW s \in Stations, NEW from, NEW v \in TypesOf(s), NEW n \in NameLines(s)
  PROVE  ssdp_message(Notice(s, from, v, n).frame)
           = Message(Taken(v), Value("stack", s), Friendly(n, s))
<1> DEFINE stack == Value("stack", s)
           a == Line("NT", v)
           b == Line("SERVER", stack)
           two == <<a, b>>
           lines == two \o n
           F == Value("friendly", s)
           w == Message(Taken(v), Untold, Untold)
           x == Message(Taken(v), stack, Untold)
           y == Message(Taken(v), stack, F)
           S == {a, b, Coded(s), Plain(s), Dlna(s)}
           start == "NOTIFY"
<1>1. Notice(s, from, v, n).frame = SsdpFrame(from, start, lines)
  BY DEF Notice, Utterance
<1>2. Then(start, Nameless, a) = w
  <2>1. Nameless = Message(Untold, Untold, Untold)
    BY DEF Nameless, Message
  <2> QED  BY <2>1, ReadType DEF Then, Or
<1>3. Then(start, w, b) = x
  BY ReadServer DEF Then, Or
<1>4. \A line \in {Coded(s), Plain(s), Dlna(s)} :
        Then(start, x, line) = y /\ Then(start, y, line) = y
  BY ReadNames
<1>5. two \in Seq(S) /\ Len(two) = 2 /\ two[1] = a /\ two[2] = b
  <2> HIDE DEF a, b
  <2> QED  OBVIOUS
<1>6. NameLinesAre(s, n)
  BY NamesAreLines
<1>7. n \in Seq(S)
  BY <1>6 DEF NameLinesAre
<1> HIDE DEF a, b, F, w, x, y, stack, start, two, S
<1>8. /\ Len(lines) = 2 + Len(n) /\ lines[1] = a /\ lines[2] = b
      /\ Len(n) >= 1 => lines[3] = n[1]
      /\ Len(n) = 2 => lines[4] = n[2]
  <2>0. Len(n) \in Nat
    BY <1>7
  <2>1. /\ Len(lines) = Len(two) + Len(n)
        /\ \A i \in 1..(Len(two) + Len(n)) :
             lines[i] = IF i <= Len(two) THEN two[i] ELSE n[i - Len(two)]
    BY <1>5, <1>7, ConcatEntries
  <2> HIDE DEF lines
  <2>2. /\ Len(lines) = 2 + Len(n)
        /\ \A i \in 1..(2 + Len(n)) : lines[i] = IF i <= 2 THEN two[i] ELSE n[i - 2]
    BY <1>5, <2>1
  <2> QED  BY <1>5, <2>0, <2>2
<1> HIDE DEF lines
<1>9. Then(start, Nameless, lines[1]) = w /\ Then(start, w, lines[2]) = x
  BY <1>2, <1>3, <1>8
<1>10. CASE Len(n) = 0
  <2>1. Len(lines) = 2
    BY <1>8, <1>10
  <2>2. ssdp_message(SsdpFrame(from, start, lines)) = x
    BY <1>9, <2>1, LinesInTurn
  <2> QED  BY <1>1, <1>6, <1>10, <2>2 DEF NameLinesAre, x, stack
<1>11. CASE Len(n) = 1
  <2>1. Len(lines) = 3 /\ lines[3] = n[1]
    BY <1>8, <1>11
  <2>2. n[1] \in {Coded(s), Plain(s), Dlna(s)} /\ Friendly(n, s) = F
    BY <1>6, <1>11 DEF NameLinesAre, F
  <2>3. Then(start, x, lines[3]) = y
    BY <1>4, <2>1, <2>2
  <2>4. Len(lines) \in 2..3 /\ (Len(lines) = 3 => Then(start, x, lines[3]) = y)
    BY <2>1, <2>3
  <2>5. ssdp_message(SsdpFrame(from, start, lines)) = IF Len(lines) = 2 THEN x ELSE y
    BY <1>9, <2>4, LinesInTurn
  <2> QED  BY <1>1, <2>1, <2>2, <2>5 DEF y, stack
<1>12. CASE Len(n) = 2
  <2>1. Len(lines) = 4 /\ lines[3] = n[1] /\ lines[4] = n[2]
    BY <1>8, <1>12
  <2>2. /\ n[1] \in {Coded(s), Plain(s), Dlna(s)} /\ n[2] \in {Coded(s), Plain(s), Dlna(s)}
        /\ Friendly(n, s) = F
    BY <1>6, <1>12 DEF NameLinesAre, F
  <2>3. Then(start, x, lines[3]) = y /\ Then(start, y, lines[4]) = y
    BY <1>4, <2>1, <2>2
  <2>4. Then(start, Then(start, Nameless, lines[1]), lines[2]) = x /\ Fourth(start, x, lines) = y
    BY <1>9, <2>3 DEF Fourth
  <2>5. ssdp_message(SsdpFrame(from, start, lines)) = y
    BY <2>1, <2>4, FourLines
  <2> QED  BY <1>1, <2>2, <2>5 DEF y, stack
<1> QED  BY <1>6, <1>10, <1>11, <1>12 DEF NameLinesAre

\* What an answer says.
LEMMA AnswerReads ==
  ASSUME NEW s \in Stations, NEW from, NEW v \in TypesOf(s), NEW n \in NameLines(s)
  PROVE  ssdp_message(Answer(s, from, v, n).frame)
           = Message(Taken(v), Value("stack", s), Friendly(n, s))
<1> DEFINE stack == Value("stack", s)
           a == Line("SERVER", stack)
           b == Line("ST", v)
           two == <<a, b>>
           lines == n \o two
           F == Value("friendly", s)
           m(f) == Message(Untold, Untold, f)
           x(f) == Message(Untold, stack, f)
           y(f) == Message(Taken(v), stack, f)
           S == {a, b, Coded(s), Plain(s), Dlna(s)}
           start == "HTTP/1.1"
<1>1. Answer(s, from, v, n).frame = SsdpFrame(from, start, lines)
  BY DEF Answer, Utterance
<1>2. Nameless = m(Untold)
  BY DEF Nameless, Message
<1>3. ASSUME NEW f  PROVE Then(start, m(f), a) = x(f) /\ Then(start, x(f), b) = y(f)
  <2>1. Then(start, m(f), a) = x(f)
    BY ReadServer DEF Then, Or
  <2>2. Then(start, x(f), b) = y(f)
    BY ReadType DEF Then, Or
  <2> QED  BY <2>1, <2>2
<1>4. \A line \in {Coded(s), Plain(s), Dlna(s)} :
        Then(start, m(Untold), line) = m(F) /\ Then(start, m(F), line) = m(F)
  BY ReadNames
<1>5. two \in Seq(S) /\ Len(two) = 2 /\ two[1] = a /\ two[2] = b
  <2> HIDE DEF a, b
  <2> QED  OBVIOUS
<1>6. NameLinesAre(s, n)
  BY NamesAreLines
<1>7. n \in Seq(S)
  BY <1>6 DEF NameLinesAre
<1> HIDE DEF a, b, F, m, x, y, stack, start, two, S
<1>8. /\ Len(lines) = 2 + Len(n) /\ lines[Len(n) + 1] = a /\ lines[Len(n) + 2] = b
      /\ Len(n) >= 1 => lines[1] = n[1]
      /\ Len(n) = 2 => lines[2] = n[2]
  <2>0. Len(n) \in Nat
    BY <1>7
  <2>1. /\ Len(lines) = Len(n) + Len(two)
        /\ \A i \in 1..(Len(n) + Len(two)) :
             lines[i] = IF i <= Len(n) THEN n[i] ELSE two[i - Len(n)]
    BY <1>5, <1>7, ConcatEntries
  <2> HIDE DEF lines
  <2>2. /\ Len(lines) = Len(n) + 2
        /\ \A i \in 1..(Len(n) + 2) : lines[i] = IF i <= Len(n) THEN n[i] ELSE two[i - Len(n)]
    BY <1>5, <2>1
  <2> QED  BY <1>5, <2>0, <2>2
<1> HIDE DEF lines
<1>9. CASE Len(n) = 0
  <2>1. Len(lines) = 2 /\ lines[1] = a /\ lines[2] = b
    BY <1>8, <1>9
  <2>2. Then(start, Nameless, lines[1]) = x(Untold) /\ Then(start, x(Untold), lines[2]) = y(Untold)
    BY <1>2, <1>3, <2>1
  <2>3. ssdp_message(SsdpFrame(from, start, lines)) = y(Untold)
    BY <2>1, <2>2, LinesInTurn
  <2> QED  BY <1>1, <1>6, <1>9, <2>3 DEF NameLinesAre, y, stack
<1>10. CASE Len(n) = 1
  <2>1. Len(lines) = 3 /\ lines[1] = n[1] /\ lines[2] = a /\ lines[3] = b
    BY <1>8, <1>10
  <2>2. n[1] \in {Coded(s), Plain(s), Dlna(s)} /\ Friendly(n, s) = F
    BY <1>6, <1>10 DEF NameLinesAre, F
  <2>3. /\ Then(start, Nameless, lines[1]) = m(F) /\ Then(start, m(F), lines[2]) = x(F)
        /\ Then(start, x(F), lines[3]) = y(F)
    BY <1>2, <1>3, <1>4, <2>1, <2>2
  <2>4. ssdp_message(SsdpFrame(from, start, lines)) = y(F)
    BY <2>1, <2>3, LinesInTurn
  <2> QED  BY <1>1, <2>2, <2>4 DEF y, stack
<1>11. CASE Len(n) = 2
  <2>1. Len(lines) = 4 /\ lines[1] = n[1] /\ lines[2] = n[2] /\ lines[3] = a /\ lines[4] = b
    BY <1>8, <1>11
  <2>2. /\ n[1] \in {Coded(s), Plain(s), Dlna(s)} /\ n[2] \in {Coded(s), Plain(s), Dlna(s)}
        /\ Friendly(n, s) = F
    BY <1>6, <1>11 DEF NameLinesAre, F
  <2>3. /\ Then(start, Nameless, lines[1]) = m(F) /\ Then(start, m(F), lines[2]) = m(F)
        /\ Then(start, m(F), lines[3]) = x(F) /\ Then(start, x(F), lines[4]) = y(F)
    BY <1>2, <1>3, <1>4, <2>1, <2>2
  <2>4. Then(start, Then(start, Nameless, lines[1]), lines[2]) = m(F)
        /\ Fourth(start, m(F), lines) = y(F)
    BY <2>3 DEF Fourth
  <2>5. ssdp_message(SsdpFrame(from, start, lines)) = y(F)
    BY <2>1, <2>4, FourLines
  <2> QED  BY <1>1, <2>2, <2>5 DEF y, stack
<1> QED  BY <1>6, <1>9, <1>10, <1>11 DEF NameLinesAre

\* A search names whom it is from, and nobody by what it is for.
LEMMA SearchReads ==
  ASSUME NEW s, NEW from, NEW other
  PROVE  ssdp_message(Search(s, from, other).frame)
           = Message(Untold, Value("stack", s), Untold)
<1> DEFINE a == Line("ST", Value("device", other))
           b == Line("USER-AGENT", Value("stack", s))
           start == "M-SEARCH"
<1>1. Search(s, from, other).frame = SsdpFrame(from, start, <<a, b>>)
  BY DEF Search, Utterance
<1>2. Nameless = Message(Untold, Untold, Untold)
  BY DEF Nameless, Message
<1>3. Then(start, Nameless, a) = Nameless
  BY ReadTarget DEF Then
<1>4. Then(start, Nameless, b) = Message(Untold, Value("stack", s), Untold)
  BY <1>2, ReadServer DEF Then, Or
<1> DEFINE lines == <<a, b>>
<1> HIDE DEF a, b, start
<1>5. Len(lines) = 2 /\ lines[1] = a /\ lines[2] = b
  OBVIOUS
<1> HIDE DEF lines
<1>6. ssdp_message(SsdpFrame(from, start, lines)) = Message(Untold, Value("stack", s), Untold)
  BY <1>3, <1>4, <1>5, LinesInTurn
<1> QED  BY <1>1, <1>6 DEF lines

\* What a message says of its three fields is about whom it is from.
LEMMA SsdpIsFair ==
  ASSUME NEW s \in Stations, NEW from \in {s, Rewritten}, NEW other,
         NEW sent \in SsdpFrames(s, from, other)
  PROVE  Fair(s, sent)
<1> DEFINE f == sent.frame
           g == ssdp_message(f)
           V == {g.friendly, g.type, g.server}
<1>1. \/ \E v \in TypesOf(s), n \in NameLines(s) :
           sent = Notice(s, from, v, n) \/ sent = Answer(s, from, v, n)
      \/ sent = Search(s, from, other) \/ sent = Get(s, from)
  BY SsdpFramesAre
<1>2. f.protocol = "ssdp" /\ f.from = from
  <2>1. \A start, lines, own :
          LET u == Utterance(SsdpFrame(from, start, lines), own)
          IN  u.frame.protocol = "ssdp" /\ u.frame.from = from
    BY DEF Utterance, SsdpFrame
  <2>2. \E start, lines, own : sent = Utterance(SsdpFrame(from, start, lines), own)
    BY <1>1 DEF Notice, Answer, Search, Get
  <2> QED  BY <2>1, <2>2
<1>3. parse_frame(f) = IF from = Rewritten \/ f.start \notin {"NOTIFY", "M-SEARCH", "HTTP/1.1"}
                       THEN Untold ELSE Sighting(from, V)
  <2>1. parse_frame(f) = ssdp(f)
    BY <1>2 DEF parse_frame
  <2> QED  BY <1>2, <2>1 DEF ssdp
<1>4. /\ Value("stack", s) \in Own(s) /\ Value("friendly", s) \in Own(s)
      /\ \A v \in TypesOf(s) : Taken(v) \in Own(s) \cup {Untold}
  <2>1. ASSUME NEW v \in TypesOf(s)  PROVE Taken(v) \in Own(s) \cup {Untold}
    <3>1. PICK is \in {"rootdevice", "device", "dial", "service", "uuid"} : v = Value(is, s)
      BY DEF TypesOf
    <3>2. v.is = is
      BY <3>1 DEF Value
    <3> QED  BY <3>1, <3>2 DEF Taken, Own
  <2> QED  BY <2>1 DEF Own
<1>5. \/ sent.own = {} /\ f.start = "GET"
      \/ /\ f.start \in {"NOTIFY", "M-SEARCH", "HTTP/1.1"}
         /\ V \ {Untold} \subseteq Own(s) /\ sent.own \subseteq V \ {Untold}
  <2>1. CASE \E v \in TypesOf(s), n \in NameLines(s) :
               sent = Notice(s, from, v, n) \/ sent = Answer(s, from, v, n)
    <3>1. PICK v \in TypesOf(s), n \in NameLines(s) :
               sent = Notice(s, from, v, n) \/ sent = Answer(s, from, v, n)
      BY <2>1
    <3>2. sent.own = {Taken(v), Value("stack", s), Friendly(n, s)} \ {Untold}
          /\ f.start \in {"NOTIFY", "HTTP/1.1"}
      BY <3>1 DEF Notice, Answer, Utterance, SsdpFrame, ToldIn
    <3>3. g = Message(Taken(v), Value("stack", s), Friendly(n, s))
      BY <3>1, NoticeReads, AnswerReads
    <3>4. V = {Taken(v), Value("stack", s), Friendly(n, s)}
      BY <3>3 DEF Message
    <3>5. Friendly(n, s) \in {Untold, Value("friendly", s)}
      BY DEF Friendly
    <3> HIDE DEF V
    <3> QED  BY <1>4, <3>2, <3>4, <3>5
  <2>2. CASE sent = Search(s, from, other)
    <3>1. sent.own = {Value("stack", s)} \ {Untold} /\ f.start = "M-SEARCH"
      BY <2>2 DEF Search, Utterance, SsdpFrame
    <3>2. g = Message(Untold, Value("stack", s), Untold)
      BY <2>2, SearchReads
    <3>3. V = {Untold, Value("stack", s)}
      BY <3>2 DEF Message
    <3> HIDE DEF V
    <3> QED  BY <1>4, <3>1, <3>3
  <2>3. CASE sent = Get(s, from)
    BY <2>3 DEF Get, Utterance, SsdpFrame
  <2> QED  BY <1>1, <2>1, <2>2, <2>3
<1> HIDE DEF f, V
<1>6. CASE from = Rewritten \/ f.start = "GET"
  <2>1. parse_frame(f) = Untold
    BY <1>3, <1>6
  <2>2. from = s => sent.own = {}
    BY <1>5, <1>6, VoicesAssumption
  <2> QED  BY <1>2, <2>1, <2>2 DEF Fair, f
<1>7. CASE from # Rewritten /\ f.start # "GET"
  <2>1. from = s /\ parse_frame(f) = Sighting(s, V)
    BY <1>3, <1>5, <1>7
  <2>2. /\ Sighting(s, V) # Untold /\ Sighting(s, V).mac = s
        /\ Sighting(s, V).values = V \ {Untold}
    BY <1>5, <1>7, SightingIs
  <2> QED  BY <1>5, <1>7, <2>1, <2>2 DEF Fair, f
<1> QED  BY <1>6, <1>7

-----------------------------------------------------------------------------
\* Every frame a station sends is fair to it.
LEMMA FramesAreFair ==
  ASSUME NEW s \in Stations, NEW sent \in FramesFrom(s)
  PROVE  Fair(s, sent)
<1>1. PICK from \in {s, Rewritten}, other \in Stations \ {s} :
        sent \in NdpFrames(s, from, other) \union NetbiosFrames(s, from, other)
                   \union SsdpFrames(s, from, other)
  BY DEF FramesFrom
<1> QED  BY <1>1, NdpIsFair, NetbiosFramesAre, NameIsFair, DatagramIsFair, SsdpIsFair

\* Who is present has spoken, and of each station only its own is believed.
VoicesInv ==
  /\ present \subseteq spoke
  /\ evidence = [s \in Stations |-> evidence[s]] /\ told = [s \in Stations |-> told[s]]
  /\ \A s \in Stations : evidence[s] \subseteq Own(s) /\ told[s] \subseteq evidence[s]

\* A station is credited with what it says of itself and with nothing else, whatever
\* stations there are and however much they say.
THEOREM VoicesHold == VoicesSpec => []VoicesAreTheirOwn
<1>1. VoicesInit => VoicesInv
  BY DEF VoicesInit, VoicesInv
<1>2. VoicesInv /\ [VoicesNext]_voiceVars => VoicesInv'
  <2> SUFFICES ASSUME VoicesInv, [VoicesNext]_voiceVars  PROVE VoicesInv'
    OBVIOUS
  <2>1. ASSUME NEW s \in Stations, NEW sent \in FramesFrom(s), Overhear(s, sent)
        PROVE  VoicesInv'
    <3> DEFINE seen == parse_frame(sent.frame)
               own == IF sent.frame.from = s THEN sent.own ELSE {}
    <3>1. /\ seen = Untold \/ (seen # Untold /\ seen.mac = s /\ seen.values \subseteq Own(s))
          /\ own = {} \/ (seen # Untold /\ own \subseteq seen.values)
      BY <2>1, FramesAreFair DEF Fair
    <3>2. /\ spoke' = spoke \union {s}
          /\ told' = [told EXCEPT ![s] = told[s] \union own]
          /\ seen = Untold => UNCHANGED <<present, evidence>>
          /\ seen # Untold => /\ present' = present \union {seen.mac}
                              /\ evidence' = [evidence EXCEPT ![seen.mac] =
                                                evidence[seen.mac] \union seen.values]
      BY <2>1 DEF Overhear
    <3> HIDE DEF seen, own
    <3> QED  BY <3>1, <3>2 DEF VoicesInv
  <2>2. CASE UNCHANGED voiceVars
    BY <2>2 DEF voiceVars, VoicesInv
  <2> QED  BY <2>1, <2>2 DEF VoicesNext
<1>3. VoicesInv => VoicesAreTheirOwn
  BY DEF VoicesInv, VoicesAreTheirOwn, OnlyTheSpeakerIsHeard, SpeakersAreHeard
<1> QED  BY <1>1, <1>2, <1>3, PTL DEF VoicesSpec

-----------------------------------------------------------------------------
(***************************************************************************)
(* Claims and voices together                                              *)
(***************************************************************************)
\* Nobody is credited with what is another's.
THEOREM CreditIsDue == CreditSpec => []NobodySpeaksForAnother
<1>1. ClaimsStand /\ VoicesAreTheirOwn => NobodySpeaksForAnother
  BY DEF NobodySpeaksForAnother
<1> QED
  BY <1>1, ClaimsHold, VoicesHold, PTL DEF CreditSpec

-----------------------------------------------------------------------------
(***************************************************************************)
(* Classification: lists that are put in order                            *)
(***************************************************************************)
\* What is ahead of what: a strict total order of a finite set of positions.
OrderOf(I, ahead) ==
  /\ ahead \in [I -> SUBSET I]
  /\ \A i \in I : i \notin ahead[i]
  /\ \A i, j \in I : i # j => i \in ahead[j] \/ j \in ahead[i]
  /\ \A i, j \in I : i \in ahead[j] => ahead[i] \subseteq ahead[j]

\* p is the position each element of the arranged list comes from.
Places(p, q, I, ahead) ==
  /\ p \in [1..Cardinality(I) -> I]
  /\ Arranged(q, ahead) = [k \in 1..Cardinality(I) |-> q[p[k]]]
  /\ \A i \in I : \E k \in 1..Cardinality(I) : p[k] = i
  /\ \A k, l \in 1..Cardinality(I) : k < l => p[k] \in ahead[p[l]] /\ p[k] # p[l]

\* Arranged puts every chosen element once, each after those ahead of it.
LEMMA ArrangedInOrder ==
  ASSUME NEW q, NEW I, IsFiniteSet(I), NEW ahead, OrderOf(I, ahead)
  PROVE  \E p : Places(p, q, I, ahead)
<1> DEFINE n == Cardinality(I)
           place == [i \in I |-> Cardinality(ahead[i]) + 1]
           p == [k \in 1..n |-> CHOOSE i \in I : place[i] = k]
<1>0. n \in Nat
  BY FS_CardinalityType
<1>1. \A i \in I : IsFiniteSet(ahead[i]) /\ Cardinality(ahead[i]) \in Nat
  BY FS_Subset, FS_CardinalityType DEF OrderOf
<1>2. \A i \in I : Cardinality(ahead[i]) < n
  <2> TAKE i \in I
  <2>1. ahead[i] \in SUBSET I /\ ahead[i] # I
    BY DEF OrderOf
  <2>2. Cardinality(ahead[i]) <= n /\ n # Cardinality(ahead[i])
    BY <2>1, FS_Subset
  <2> QED  BY <1>0, <1>1, <2>2
<1>3. place \in [I -> 1..n]
  BY <1>0, <1>1, <1>2
<1>4. ASSUME NEW i \in I, NEW j \in I, i \in ahead[j]  PROVE place[i] < place[j]
  <2>1. ahead[i] \in SUBSET ahead[j] /\ ahead[i] # ahead[j]
    BY <1>4 DEF OrderOf
  <2>2. /\ Cardinality(ahead[i]) <= Cardinality(ahead[j])
        /\ Cardinality(ahead[j]) # Cardinality(ahead[i])
    BY <2>1, <1>1, FS_Subset
  <2> QED  BY <1>1, <2>2
<1>5. \A i, j \in I : place[i] = place[j] => i = j
  <2> SUFFICES ASSUME NEW i \in I, NEW j \in I, i # j  PROVE place[i] # place[j]
    OBVIOUS
  <2>1. place[i] < place[j] \/ place[j] < place[i]
    BY <1>4 DEF OrderOf
  <2>2. place[i] \in Int /\ place[j] \in Int
    BY <1>0, <1>3
  <2> HIDE DEF place
  <2> QED  BY <2>1, <2>2
<1>6. place \in Injection(I, 1..n)
  <2> HIDE DEF place
  <2> QED  BY <1>3, <1>5, Fun_IsInj
<1>7. \A k \in 1..n : \E i \in I : place[i] = k
  <2> HIDE DEF place
  <2>1. IsFiniteSet(1..n) /\ Cardinality(1..n) = n
    BY <1>0, FS_Interval
  <2>2. place \in Surjection(I, 1..n)
    BY <1>6, <2>1, FS_Injection
  <2> QED  BY <2>2 DEF Surjection
<1>8. p \in [1..n -> I] /\ \A k \in 1..n : place[p[k]] = k
  <2> HIDE DEF place
  <2> QED  BY <1>7
<1>9. Arranged(q, ahead) = [k \in 1..n |-> q[p[k]]]
  <2>1. DOMAIN ahead = I
    BY DEF OrderOf
  <2> QED  BY <2>1 DEF Arranged
<1>10. ASSUME NEW i \in I  PROVE \E k \in 1..n : p[k] = i
  <2> HIDE DEF place, p, n
  <2>1. place[i] \in 1..n
    BY <1>3
  <2>2. place[p[place[i]]] = place[i] /\ p[place[i]] \in I
    BY <1>8, <2>1
  <2> QED  BY <2>1, <2>2, <1>5
<1>11. ASSUME NEW k \in 1..n, NEW l \in 1..n, k < l
       PROVE  p[k] \in ahead[p[l]] /\ p[k] # p[l]
  <2> HIDE DEF place, p
  <2>1. p[k] \in I /\ p[l] \in I /\ place[p[k]] = k /\ place[p[l]] = l
    BY <1>8
  <2>2. p[k] # p[l]
    BY <2>1, <1>11, <1>0
  <2>3. p[l] \notin ahead[p[k]]
    BY <2>1, <1>4, <1>11, <1>0
  <2> QED  BY <2>1, <2>2, <2>3 DEF OrderOf
<1> HIDE DEF p
<1> QED  BY <1>8, <1>9, <1>10, <1>11 DEF Places

\* q restricted to the positions I is q along p, whose positions ascend.
Along(p, list, q, I) ==
  /\ p \in [1..Cardinality(I) -> I]
  /\ list = [k \in 1..Cardinality(I) |-> q[p[k]]]
  /\ \A i \in I : \E k \in 1..Cardinality(I) : p[k] = i
  /\ \A k, l \in 1..Cardinality(I) : k < l => p[k] < p[l]

\* Positions of a list come in the order of the list.
LEMMA ThoseAlong ==
  ASSUME NEW S, NEW q \in Seq(S), NEW I \in SUBSET (1..Len(q))
  PROVE  /\ \E p : Along(p, Those(q, I), q, I)
         /\ Cardinality(I) \in Nat /\ Those(q, I) \in Seq(S)
<1> DEFINE ahead == [i \in I |-> {j \in I : j < i}]
           n == Cardinality(I)
<1>1. I \in SUBSET Nat /\ IsFiniteSet(I) /\ n \in Nat
  <2>1. Len(q) \in Nat
    OBVIOUS
  <2>2. IsFiniteSet(1..Len(q))
    BY <2>1, FS_Interval
  <2>3. I \in SUBSET Nat
    BY <2>1
  <2>4. IsFiniteSet(I)
    BY <2>1, <2>2, FS_Subset
  <2> QED  BY <2>3, <2>4, FS_CardinalityType
<1>2. OrderOf(I, ahead)
  <2>1. ahead \in [I -> SUBSET I] /\ \A i \in I : i \notin ahead[i]
    BY <1>1
  <2>2. \A i, j \in I : i # j => i \in ahead[j] \/ j \in ahead[i]
    BY <1>1
  <2>3. ASSUME NEW i \in I, NEW j \in I, i \in ahead[j]  PROVE ahead[i] \subseteq ahead[j]
    <3>1. \A k \in I : k < i => k < j
      BY <1>1, <2>3
    <3> QED  BY <3>1
  <2> QED  BY <2>1, <2>2, <2>3 DEF OrderOf
<1>3. PICK p : Places(p, q, I, ahead)
  <2> HIDE DEF ahead
  <2> QED  BY <1>1, <1>2, ArrangedInOrder
<1>4. /\ Those(q, I) = [k \in 1..n |-> q[p[k]]]
      /\ \A k, l \in 1..n : k < l => p[k] \in ahead[p[l]]
      /\ p \in [1..n -> I] /\ \A i \in I : \E k \in 1..n : p[k] = i
  BY <1>3 DEF Those, Places
<1>5. \A k, l \in 1..n : k < l => p[k] < p[l]
  BY <1>4
<1>6. Along(p, Those(q, I), q, I)
  BY <1>4, <1>5 DEF Along
<1>7. \A k \in 1..n : q[p[k]] \in S
  <2> TAKE k \in 1..n
  <2>1. p[k] \in I
    BY <1>4
  <2>2. p[k] \in 1..Len(q)
    BY <2>1
  <2> QED  BY <2>2
<1> HIDE DEF ahead, n
<1>8. Those(q, I) \in Seq(S)
  BY <1>1, <1>4, <1>7
<1> QED  BY <1>1, <1>6, <1>8 DEF n

-----------------------------------------------------------------------------
(***************************************************************************)
(* What a frame leaves in the list and in the rows                        *)
(***************************************************************************)
\* The signals that can be heard.
Signals == UNION {ToSet(f) : f \in FrameSignals}
\* When each of them was last confirmed.
Confirmations == [signal : Signals, seen : Nat]

\* Nothing is in a list twice.
Distinct(list) == \A i, j \in 1..Len(list) : list[i] = list[j] => i = j

\* Every element of a list has a first mention.
LEMMA HasFirst ==
  ASSUME NEW S, NEW frame \in Seq(S), NEW s \in ToSet(frame)
  PROVE  \E i \in Firsts(frame) : frame[i] = s
<1> DEFINE T == {j \in 1..Len(frame) : frame[j] = s}
<1>1. T \in SUBSET Nat /\ T # {}
  BY DEF ToSet
<1>2. PICK m \in T : \A j \in T : m <= j
  <2> HIDE DEF T
  <2> QED  BY <1>1, LeastNumber
<1>3. ASSUME NEW j \in 1..(m - 1)  PROVE frame[j] # frame[m]
  <2>1. j \in 1..Len(frame) /\ ~(m <= j)
    OBVIOUS
  <2> QED  BY <1>2, <2>1
<1> QED  BY <1>2, <1>3 DEF Firsts

\* And only one.
LEMMA FirstsDiffer ==
  ASSUME NEW S, NEW frame \in Seq(S), NEW i \in Firsts(frame), NEW j \in Firsts(frame),
         frame[i] = frame[j]
  PROVE  i = j
<1>1. i \in 1..Len(frame) /\ j \in 1..Len(frame) /\ Len(frame) \in Nat
  BY DEF Firsts
<1>2. ~(i < j)
  <2>1. i < j => i \in 1..(j - 1)
    BY <1>1
  <2> QED  BY <2>1 DEF Firsts
<1>3. ~(j < i)
  <2>1. j < i => j \in 1..(i - 1)
    BY <1>1
  <2> QED  BY <2>1 DEF Firsts
<1> QED  BY <1>1, <1>2, <1>3

\* What leads in a list after a frame, and what stays behind in its order.
LEMMA RecordOrder ==
  ASSUME NEW list \in Seq(Signals), NEW frame \in Seq(Signals), Distinct(list)
  PROVE  LET R == Record(list, frame) IN
         /\ R \in Seq(Signals) /\ Distinct(R)
         /\ ToSet(R) = ToSet(frame) \cup ToSet(list)
         /\ \A k, l \in 1..Len(R) : k < l /\ R[k] \notin ToSet(frame) =>
              /\ R[l] \notin ToSet(frame)
              /\ \E i, j \in 1..Len(list) : i < j /\ list[i] = R[k] /\ list[j] = R[l]
<1> DEFINE F == Firsts(frame)
           O == {i \in 1..Len(list) : list[i] \notin ToSet(frame)}
           A == Those(frame, F)
           B == Those(list, O)
           m == Cardinality(F)
           n == Cardinality(O)
           R == Record(list, frame)
<1>1. F \in SUBSET (1..Len(frame))
  BY DEF Firsts
<1>2. /\ \E p : Along(p, A, frame, F)
      /\ m \in Nat /\ A \in Seq(Signals)
  <2> HIDE DEF F
  <2> QED  BY <1>1, ThoseAlong
<1>3. O \in SUBSET (1..Len(list))
  OBVIOUS
<1>4. /\ \E r : Along(r, B, list, O)
      /\ n \in Nat /\ B \in Seq(Signals)
  <2> HIDE DEF O
  <2> QED  BY <1>3, ThoseAlong
<1>5. PICK p : Along(p, A, frame, F)
  BY <1>2
<1>6. PICK r : Along(r, B, list, O)
  BY <1>4
<1>7. \A i \in O : i \in 1..Len(list) /\ list[i] \notin ToSet(frame)
  OBVIOUS
<1>8. \A i \in 1..Len(list) : list[i] \in ToSet(frame) \/ i \in O
  OBVIOUS
<1>9. R = A \o B
  BY DEF Record
<1>10. /\ p \in [1..m -> F] /\ A = [k \in 1..m |-> frame[p[k]]]
       /\ \A i \in F : \E k \in 1..m : p[k] = i
       /\ \A k, l \in 1..m : k < l => p[k] < p[l]
  BY <1>5 DEF Along
<1>11. /\ r \in [1..n -> O] /\ B = [k \in 1..n |-> list[r[k]]]
       /\ \A i \in O : \E k \in 1..n : r[k] = i
       /\ \A k, l \in 1..n : k < l => r[k] < r[l]
  BY <1>6 DEF Along
<1> HIDE DEF F, O, m, n, A, B, R
<1>12. Len(A) = m /\ Len(B) = n
  BY <1>2, <1>4, <1>10, <1>11
<1>13. /\ R \in Seq(Signals) /\ Len(R) = m + n
       /\ \A k \in 1..m : R[k] = A[k]
       /\ \A k \in (m + 1)..(m + n) : R[k] = B[k - m]
  <2>1. /\ R \in Seq(Signals) /\ Len(R) = m + n
        /\ \A i \in 1..(m + n) : R[i] = IF i <= m THEN A[i] ELSE B[i - m]
    BY <1>2, <1>4, <1>9, <1>12, ConcatEntries
  <2> QED  BY <1>2, <1>4, <2>1
<1>14. ASSUME NEW k \in 1..m
       PROVE  R[k] = frame[p[k]] /\ p[k] \in F /\ R[k] \in ToSet(frame) /\ p[k] \in 1..Len(frame)
  <2>1. p[k] \in 1..Len(frame)
    BY <1>1, <1>10
  <2>2. frame[p[k]] \in ToSet(frame)
    BY <2>1 DEF ToSet
  <2> QED  BY <1>10, <1>13, <2>1, <2>2
<1>15. ASSUME NEW k \in (m + 1)..(m + n)
       PROVE  /\ k - m \in 1..n /\ R[k] = list[r[k - m]] /\ r[k - m] \in 1..Len(list)
              /\ R[k] \notin ToSet(frame)
  <2>1. k - m \in 1..n
    BY <1>2, <1>4
  <2>2. r[k - m] \in O
    BY <2>1, <1>11
  <2> QED  BY <1>7, <1>11, <1>13, <2>1, <2>2
<1>16. \A k \in 1..Len(R) : k \in 1..m \/ k \in (m + 1)..(m + n)
  BY <1>2, <1>4, <1>13
<1>17. ASSUME NEW k \in 1..m, NEW l \in 1..m, R[k] = R[l]  PROVE k = l
  <2>1. p[k] = p[l]
    BY <1>14, <1>17, FirstsDiffer DEF F
  <2>2. p[k] \in Nat /\ p[l] \in Nat
    BY <1>14
  <2> QED  BY <1>2, <1>10, <2>1, <2>2
<1>18. ASSUME NEW k \in (m + 1)..(m + n), NEW l \in (m + 1)..(m + n), R[k] = R[l]
       PROVE k = l
  <2>0. /\ R[k] = list[r[k - m]] /\ R[l] = list[r[l - m]]
        /\ r[k - m] \in 1..Len(list) /\ r[l - m] \in 1..Len(list)
    BY <1>15
  <2>1. r[k - m] = r[l - m]
    BY <1>18, <2>0 DEF Distinct
  <2>2. k - m \in 1..n /\ l - m \in 1..n /\ r[k - m] \in Nat /\ r[l - m] \in Nat
    BY <1>15
  <2>3. ~(k - m < l - m) /\ ~(l - m < k - m)
    BY <1>11, <2>1, <2>2
  <2> QED  BY <1>2, <2>2, <2>3
<1>19. Distinct(R)
  BY <1>14, <1>15, <1>16, <1>17, <1>18 DEF Distinct
<1>20. ToSet(R) \subseteq ToSet(frame) \cup ToSet(list)
  <2> SUFFICES ASSUME NEW k \in 1..Len(R)  PROVE R[k] \in ToSet(frame) \cup ToSet(list)
    BY <1>13 DEF ToSet
  <2>1. CASE k \in 1..m
    BY <2>1, <1>14
  <2>2. CASE k \in (m + 1)..(m + n)
    BY <2>2, <1>15 DEF ToSet
  <2> QED  BY <1>16, <2>1, <2>2
<1>21. ToSet(frame) \subseteq ToSet(R)
  <2> SUFFICES ASSUME NEW s \in ToSet(frame)  PROVE s \in ToSet(R)
    OBVIOUS
  <2>1. PICK i \in F : frame[i] = s
    BY HasFirst DEF F
  <2>2. PICK k \in 1..m : p[k] = i
    BY <1>10
  <2>3. k \in 1..Len(R) /\ R[k] = s
    BY <1>2, <1>4, <1>13, <1>14, <2>1, <2>2
  <2> QED  BY <1>13, <2>3 DEF ToSet
<1>22. ToSet(list) \subseteq ToSet(R)
  <2> SUFFICES ASSUME NEW i \in 1..Len(list), list[i] \notin ToSet(frame)
               PROVE  list[i] \in ToSet(R)
    <3>1. ToSet(list) = {list[i] : i \in 1..Len(list)}
      BY DEF ToSet
    <3> QED  BY <1>21, <3>1
  <2>1. PICK k \in 1..n : r[k] = i
    BY <1>8, <1>11
  <2>2. k + m \in (m + 1)..(m + n) /\ (k + m) - m = k /\ k + m \in 1..Len(R)
    BY <1>2, <1>4, <1>13
  <2>3. R[k + m] = list[i]
    BY <1>15, <2>1, <2>2
  <2> QED  BY <1>13, <2>2, <2>3 DEF ToSet
<1>23. ASSUME NEW k \in 1..Len(R), NEW l \in 1..Len(R), k < l, R[k] \notin ToSet(frame)
       PROVE  /\ R[l] \notin ToSet(frame)
              /\ \E i, j \in 1..Len(list) : i < j /\ list[i] = R[k] /\ list[j] = R[l]
  <2>1. k \in (m + 1)..(m + n)
    BY <1>14, <1>16, <1>23
  <2>2. l \in (m + 1)..(m + n)
    BY <1>2, <1>4, <1>16, <1>23, <2>1
  <2>3. k - m < l - m /\ k - m \in 1..n /\ l - m \in 1..n
    BY <1>2, <1>15, <1>23, <2>1, <2>2
  <2>4. r[k - m] < r[l - m]
    BY <1>11, <2>3
  <2> QED  BY <1>15, <2>1, <2>2, <2>4
<1> QED  BY <1>13, <1>19, <1>20, <1>21, <1>22, <1>23 DEF R

\* Each row keeps its place; it is confirmed now if the frame carries it, and what
\* only the frame carries is added.
LEMMA StoreRows ==
  ASSUME NEW frame \in Seq(Signals), stored \in Seq(Confirmations), heard \in Nat,
         \A i, j \in 1..Len(stored) : stored[i].signal = stored[j].signal => i = j
  PROVE  LET R == Store(frame) IN
         /\ R \in Seq(Confirmations) /\ Len(stored) <= Len(R)
         /\ \A i, j \in 1..Len(R) : R[i].signal = R[j].signal => i = j
         /\ \A i \in 1..Len(stored) :
              /\ R[i].signal = stored[i].signal
              /\ R[i].seen = IF stored[i].signal \in ToSet(frame) THEN heard + 1
                             ELSE stored[i].seen
         /\ \A i \in 1..Len(R) : i > Len(stored) =>
              R[i].signal \in ToSet(frame) /\ R[i].seen = heard + 1
         /\ \A s \in ToSet(frame) : \E i \in 1..Len(R) : R[i].signal = s
<1> DEFINE F == {i \in Firsts(frame) : \A j \in 1..Len(stored) : stored[j].signal # frame[i]}
           new == Those(frame, F)
           o == Len(stored)
           m == Cardinality(F)
           C == [i \in 1..Len(stored) |->
                   IF stored[i].signal \in ToSet(frame) THEN [stored[i] EXCEPT !.seen = heard + 1]
                   ELSE stored[i]]
           D == [i \in 1..Len(new) |-> [signal |-> new[i], seen |-> heard + 1]]
           R == Store(frame)
<1>1. F \in SUBSET (1..Len(frame))
  BY DEF Firsts
<1>2. /\ \E p : Along(p, new, frame, F)
      /\ m \in Nat /\ new \in Seq(Signals)
  <2> HIDE DEF F
  <2> QED  BY <1>1, ThoseAlong
<1>3. PICK p : Along(p, new, frame, F)
  BY <1>2
<1>4. /\ p \in [1..m -> F] /\ new = [k \in 1..m |-> frame[p[k]]]
      /\ \A i \in F : \E k \in 1..m : p[k] = i
      /\ \A k, l \in 1..m : k < l => p[k] < p[l]
  BY <1>3 DEF Along
<1>5. \A i \in F : /\ i \in Firsts(frame) /\ i \in 1..Len(frame)
                   /\ \A j \in 1..o : stored[j].signal # frame[i]
  BY <1>1
<1>6. \A i \in Firsts(frame) : (\A j \in 1..o : stored[j].signal # frame[i]) => i \in F
  OBVIOUS
<1>7. R = C \o D
  BY DEF Store
<1>8. \A i \in 1..o : /\ C[i] \in Confirmations /\ C[i].signal = stored[i].signal
                      /\ C[i].seen = IF stored[i].signal \in ToSet(frame) THEN heard + 1
                                     ELSE stored[i].seen
  <2> TAKE i \in 1..o
  <2>1. stored[i] \in Confirmations
    OBVIOUS
  <2> QED  BY <2>1 DEF Confirmations
<1>9. o \in Nat /\ C = [i \in 1..o |-> C[i]]
  OBVIOUS
<1>10. Len(new) = m /\ D = [i \in 1..m |-> [signal |-> new[i], seen |-> heard + 1]]
  <2> HIDE DEF m, F
  <2>1. Len(new) = m
    BY <1>2, <1>4
  <2> QED  BY <2>1
<1> HIDE DEF F, m, new, C, D, R, o
<1>11. C \in Seq(Confirmations) /\ Len(C) = o
  BY <1>8, <1>9
<1>12. \A i \in 1..m : new[i] \in Signals
  BY <1>2, <1>10
<1>13. \A i \in 1..m : D[i] \in Confirmations /\ D[i].signal = new[i] /\ D[i].seen = heard + 1
  BY <1>10, <1>12 DEF Confirmations
<1>14. D \in Seq(Confirmations) /\ Len(D) = m
  BY <1>2, <1>10, <1>13
<1>15. /\ R \in Seq(Confirmations) /\ Len(R) = o + m
       /\ \A i \in 1..(o + m) : R[i] = IF i <= o THEN C[i] ELSE D[i - o]
  <2>1. /\ C \o D \in Seq(Confirmations) /\ Len(C \o D) = Len(C) + Len(D)
        /\ \A i \in 1..(Len(C) + Len(D)) :
             (C \o D)[i] = IF i <= Len(C) THEN C[i] ELSE D[i - Len(C)]
    <3>1. C \in Seq(Confirmations) /\ D \in Seq(Confirmations)
      BY <1>11, <1>14
    <3> QED  BY ONLY <3>1, ConcatEntries
  <2> QED  BY <1>7, <1>11, <1>14, <2>1
<1>16. \A i \in 1..o : i \in 1..(o + m) /\ R[i] = C[i]
  BY <1>2, <1>9, <1>15
<1>17. ASSUME NEW i \in 1..(o + m), i > o
       PROVE  /\ i - o \in 1..m /\ R[i].signal = frame[p[i - o]] /\ R[i].seen = heard + 1
              /\ p[i - o] \in F
  <2>1. i - o \in 1..m /\ R[i] = D[i - o]
    BY <1>2, <1>9, <1>15, <1>17
  <2> QED  BY <1>4, <1>13, <2>1
<1>18. ASSUME NEW i \in 1..(o + m), NEW j \in 1..(o + m), R[i].signal = R[j].signal
       PROVE  i = j
  <2>1. CASE i <= o /\ j <= o
    BY <2>1, <1>8, <1>9, <1>16, <1>18 DEF o
  <2>2. CASE i > o /\ j > o
    <3>1. p[i - o] = p[j - o]
      BY <2>2, <1>5, <1>17, <1>18, FirstsDiffer
    <3>2. i - o \in 1..m /\ j - o \in 1..m /\ p[i - o] \in Nat /\ p[j - o] \in Nat
      BY <2>2, <1>5, <1>17
    <3>3. ~(i - o < j - o) /\ ~(j - o < i - o)
      BY <1>4, <3>1, <3>2
    <3> QED  BY <1>9, <3>2, <3>3
  <2>3. CASE i <= o /\ j > o
    <3>1. i \in 1..o /\ R[i].signal = stored[i].signal
      BY <2>3, <1>8, <1>9, <1>16
    <3>2. R[j].signal = frame[p[j - o]] /\ p[j - o] \in F
      BY <2>3, <1>17
    <3> QED  BY <3>1, <3>2, <1>5, <1>18
  <2>4. CASE i > o /\ j <= o
    <3>1. j \in 1..o /\ R[j].signal = stored[j].signal
      BY <2>4, <1>8, <1>9, <1>16
    <3> QED  BY <2>4, <3>1, <1>5, <1>17, <1>18
  <2> QED  BY <1>2, <1>9, <2>1, <2>2, <2>3, <2>4
<1>19. ASSUME NEW i \in 1..(o + m), i > o
       PROVE  R[i].signal \in ToSet(frame) /\ R[i].seen = heard + 1
  BY <1>5, <1>17, <1>19 DEF ToSet
<1>20. ASSUME NEW s \in ToSet(frame)  PROVE \E i \in 1..(o + m) : R[i].signal = s
  <2>1. PICK i \in Firsts(frame) : frame[i] = s
    BY HasFirst
  <2>2. CASE \E j \in 1..o : stored[j].signal = s
    BY <2>2, <1>8, <1>16
  <2>3. CASE \A j \in 1..o : stored[j].signal # s
    <3>1. PICK k \in 1..m : p[k] = i
      BY <1>4, <1>6, <2>1, <2>3
    <3>2. k + o \in 1..(o + m) /\ k + o > o /\ (k + o) - o = k
      BY <1>2, <1>9
    <3>3. R[k + o].signal = frame[p[k]]
      BY <1>17, <3>2
    <3> QED  BY <2>1, <3>1, <3>2, <3>3
  <2> QED  BY <2>2, <2>3
<1>21. o <= Len(R) /\ Len(R) = o + m
  BY <1>2, <1>9, <1>15
<1> QED  BY <1>8, <1>15, <1>16, <1>18, <1>19, <1>20, <1>21 DEF R, o

\* The daemon's list and the database's rows are of the same signals, the latest
\* confirmed first.
ListsMatch(list, rows) ==
  /\ list \in Seq(Signals) /\ rows \in Seq(Confirmations)
  /\ Len(list) = Len(rows) /\ Distinct(list)
  /\ \A i, j \in 1..Len(rows) : rows[i].signal = rows[j].signal => i = j
  /\ \A p \in 1..Len(list) : \E i \in 1..Len(rows) : rows[i].signal = list[p]
  /\ \A i \in 1..Len(rows) : \E p \in 1..Len(list) : list[p] = rows[i].signal

\* What leads in the list was not confirmed before what follows it.
LatestFirst(list, rows) ==
  \A p, q \in 1..Len(list), i, j \in 1..Len(rows) :
    p < q /\ rows[i].signal = list[p] /\ rows[j].signal = list[q] => rows[i].seen >= rows[j].seen

\* Lists of the same signals, each once, are of the same length.
LEMMA SameLength ==
  ASSUME NEW list \in Seq(Signals), NEW rows \in Seq(Confirmations), Distinct(list),
         \A i, j \in 1..Len(rows) : rows[i].signal = rows[j].signal => i = j,
         \A p \in 1..Len(list) : \E i \in 1..Len(rows) : rows[i].signal = list[p],
         \A i \in 1..Len(rows) : \E p \in 1..Len(list) : list[p] = rows[i].signal
  PROVE  Len(list) = Len(rows)
<1> DEFINE m == Len(list)
           n == Len(rows)
           f == [p \in 1..m |-> CHOOSE i \in 1..n : rows[i].signal = list[p]]
<1>1. m \in Nat /\ n \in Nat
  OBVIOUS
<1>2. \A k \in {m, n} : IsFiniteSet(1..k) /\ Cardinality(1..k) = k
  <2>1. ASSUME NEW k \in Nat  PROVE IsFiniteSet(1..k) /\ Cardinality(1..k) = k
    <3>1. /\ IsFiniteSet(1..k)
          /\ Cardinality(1..k) = IF 1 > k THEN 0 ELSE k - 1 + 1
      BY FS_Interval
    <3>2. (IF 1 > k THEN 0 ELSE k - 1 + 1) = k
      OBVIOUS
    <3> QED  BY ONLY <3>1, <3>2
  <2> HIDE DEF m, n
  <2> QED  BY <1>1, <2>1
<1>3. f \in [1..m -> 1..n] /\ \A p \in 1..m : rows[f[p]].signal = list[p]
  <2>1. ASSUME NEW p \in 1..m  PROVE f[p] \in 1..n /\ rows[f[p]].signal = list[p]
    <3>1. \E i \in 1..n : rows[i].signal = list[p]
      OBVIOUS
    <3>2. f[p] = CHOOSE i \in 1..n : rows[i].signal = list[p]
      OBVIOUS
    <3> HIDE DEF f
    <3> QED  BY <3>1, <3>2
  <2>2. f = [p \in 1..m |-> f[p]]
    OBVIOUS
  <2> HIDE DEF f, m, n
  <2> QED  BY <2>1, <2>2
<1> HIDE DEF f
<1>4. ASSUME NEW p \in 1..m, NEW q \in 1..m, f[p] = f[q]  PROVE p = q
  <2>1. list[p] = list[q]
    BY <1>3, <1>4
  <2> QED  BY <2>1 DEF Distinct
<1>5. \A i \in 1..n : \E p \in 1..m : f[p] = i
  <2> TAKE i \in 1..n
  <2>1. PICK p \in 1..m : list[p] = rows[i].signal
    OBVIOUS
  <2>2. f[p] \in 1..n /\ rows[f[p]].signal = rows[i].signal
    BY <1>3, <2>1
  <2> QED  BY <2>2
<1> HIDE DEF m, n
<1>6. f \in Bijection(1..m, 1..n)
  BY <1>3, <1>4, <1>5, Fun_IsBij
<1>7. Cardinality(1..m) = Cardinality(1..n)
  BY <1>2, <1>6, FS_Bijection DEF ExistsBijection
<1> QED  BY <1>2, <1>7 DEF m, n

\* A frame keeps the list and the rows together.
LEMMA RecordAndStore ==
  ASSUME NEW frame \in Seq(Signals), ListsMatch(signals, stored), LatestFirst(signals, stored),
         heard \in Nat, \A i \in 1..Len(stored) : stored[i].seen <= heard
  PROVE  LET list == Record(signals, frame)
             rows == Store(frame)
         IN  /\ ListsMatch(list, rows) /\ LatestFirst(list, rows)
             /\ \A i \in 1..Len(rows) : rows[i].seen <= heard + 1
<1> DEFINE list == Record(signals, frame)
           rows == Store(frame)
<1>1. /\ signals \in Seq(Signals) /\ stored \in Seq(Confirmations) /\ Distinct(signals)
      /\ \A i, j \in 1..Len(stored) : stored[i].signal = stored[j].signal => i = j
      /\ \A p \in 1..Len(signals) : \E i \in 1..Len(stored) : stored[i].signal = signals[p]
      /\ \A i \in 1..Len(stored) : \E p \in 1..Len(signals) : signals[p] = stored[i].signal
  BY DEF ListsMatch
<1>2. /\ list \in Seq(Signals) /\ Distinct(list)
      /\ ToSet(list) = ToSet(frame) \cup ToSet(signals)
      /\ \A k, l \in 1..Len(list) : k < l /\ list[k] \notin ToSet(frame) =>
           /\ list[l] \notin ToSet(frame)
           /\ \E i, j \in 1..Len(signals) : i < j /\ signals[i] = list[k] /\ signals[j] = list[l]
  BY <1>1, RecordOrder
<1>3. /\ rows \in Seq(Confirmations) /\ Len(stored) <= Len(rows)
      /\ \A i, j \in 1..Len(rows) : rows[i].signal = rows[j].signal => i = j
      /\ \A i \in 1..Len(stored) :
           /\ rows[i].signal = stored[i].signal
           /\ rows[i].seen = IF stored[i].signal \in ToSet(frame) THEN heard + 1
                             ELSE stored[i].seen
      /\ \A i \in 1..Len(rows) : i > Len(stored) =>
           rows[i].signal \in ToSet(frame) /\ rows[i].seen = heard + 1
      /\ \A s \in ToSet(frame) : \E i \in 1..Len(rows) : rows[i].signal = s
  BY <1>1, StoreRows
<1> HIDE DEF list, rows
<1>4. /\ Len(stored) \in Nat /\ Len(rows) \in Nat /\ Len(list) \in Nat
      /\ \A i \in 1..Len(stored) : i \in 1..Len(rows) /\ stored[i].seen \in Nat
  <2>1. Len(stored) \in Nat /\ Len(rows) \in Nat /\ Len(list) \in Nat
    BY <1>1, <1>2, <1>3
  <2>2. ASSUME NEW i \in 1..Len(stored)  PROVE stored[i].seen \in Nat
    <3>1. stored[i] \in Confirmations
      BY <1>1
    <3> QED  BY <3>1 DEF Confirmations
  <2>3. \A i \in 1..Len(stored) : i \in 1..Len(rows)
    BY <1>3, <2>1
  <2> QED  BY <2>1, <2>2, <2>3
<1>5. \A s : s \in ToSet(list) <=> \E p \in 1..Len(list) : list[p] = s
  BY <1>2 DEF ToSet
<1>6. \A s : s \in ToSet(signals) <=> \E p \in 1..Len(signals) : signals[p] = s
  BY DEF ToSet
<1>7. \A i \in 1..Len(rows) : \/ i \in 1..Len(stored)
                              \/ rows[i].signal \in ToSet(frame) /\ rows[i].seen = heard + 1
  BY <1>3, <1>4
<1>8. ASSUME NEW i \in 1..Len(rows)  PROVE \E p \in 1..Len(list) : list[p] = rows[i].signal
  <2>1. rows[i].signal \in ToSet(frame) \cup ToSet(signals)
    BY <1>1, <1>3, <1>6, <1>7
  <2> QED  BY <1>2, <1>5, <2>1
<1>9. ASSUME NEW p \in 1..Len(list)  PROVE \E i \in 1..Len(rows) : rows[i].signal = list[p]
  <2>1. list[p] \in ToSet(frame) \/ list[p] \in ToSet(signals)
    BY <1>2, <1>5
  <2>2. CASE list[p] \in ToSet(frame)
    BY <1>3, <2>2
  <2>3. CASE list[p] \in ToSet(signals)
    <3>1. PICK q \in 1..Len(signals) : signals[q] = list[p]
      BY <1>6, <2>3
    <3>2. PICK i \in 1..Len(stored) : stored[i].signal = list[p]
      BY <1>1, <3>1
    <3> QED  BY <1>3, <1>4, <3>2
  <2> QED  BY <2>1, <2>2, <2>3
<1>10. ListsMatch(list, rows)
  <2>1. Len(list) = Len(rows)
    BY <1>2, <1>3, <1>8, <1>9, SameLength
  <2> QED  BY <1>2, <1>3, <1>8, <1>9, <2>1 DEF ListsMatch
<1>11. \A i \in 1..Len(rows) : rows[i].seen \in Nat /\ rows[i].seen <= heard + 1
  BY <1>3, <1>4, <1>7
<1>12. ASSUME NEW p \in 1..Len(list), NEW q \in 1..Len(list),
              NEW i \in 1..Len(rows), NEW j \in 1..Len(rows),
              p < q, rows[i].signal = list[p], rows[j].signal = list[q]
       PROVE  rows[i].seen >= rows[j].seen
  <2>1. CASE list[p] \in ToSet(frame)
    <3>1. rows[i].seen = heard + 1
      BY <1>3, <1>7, <1>12, <2>1
    <3> QED  BY <1>11, <3>1
  <2>2. CASE list[p] \notin ToSet(frame)
    <3>1. PICK a, b \in 1..Len(signals) : a < b /\ signals[a] = list[p] /\ signals[b] = list[q]
      BY <1>2, <1>12, <2>2
    <3>2. list[q] \notin ToSet(frame)
      BY <1>2, <1>12, <2>2
    <3>3. i \in 1..Len(stored) /\ j \in 1..Len(stored)
      BY <1>7, <1>12, <2>2, <3>2
    <3>4. /\ stored[i].signal = signals[a] /\ stored[j].signal = signals[b]
          /\ rows[i].seen = stored[i].seen /\ rows[j].seen = stored[j].seen
      BY <1>3, <1>12, <2>2, <3>1, <3>2, <3>3
    <3> QED  BY <3>1, <3>3, <3>4 DEF LatestFirst
  <2> QED  BY <2>1, <2>2
<1>13. LatestFirst(list, rows)
  BY <1>12 DEF LatestFirst
<1> QED  BY <1>10, <1>11, <1>13 DEF list, rows

\* What is loaded is what is stored, the latest confirmed first.
LEMMA LoadedMatches ==
  ASSUME NEW rows \in Seq(Confirmations),
         \A i, j \in 1..Len(rows) : rows[i].signal = rows[j].signal => i = j
  PROVE  LET list == [i \in 1..Len(rows) |-> Loaded(rows)[i].signal]
         IN  ListsMatch(list, rows) /\ LatestFirst(list, rows)
<1> DEFINE n == Len(rows)
           I == 1..n
           ahead == [i \in I |-> {j \in I : rows[j].seen > rows[i].seen
                                              \/ (rows[j].seen = rows[i].seen /\ j < i)}]
           list == [i \in I |-> Loaded(rows)[i].signal]
<1>1. n \in Nat /\ \A i \in I : rows[i] \in Confirmations
  OBVIOUS
<1>2. \A i \in I : rows[i].seen \in Nat /\ rows[i].signal \in Signals
  <2> HIDE DEF I
  <2> QED  BY <1>1 DEF Confirmations
<1>3. IsFiniteSet(I) /\ Cardinality(I) = n
  <2>1. \A k \in Nat : IsFiniteSet(1..k) /\ Cardinality(1..k) = k
    BY FS_Interval
  <2> QED  BY <1>1, <2>1
<1>4. OrderOf(I, ahead)
  <2>1. ahead \in [I -> SUBSET I] /\ \A i \in I : i \notin ahead[i]
    BY <1>2
  <2>2. \A i, j \in I : i # j => i \in ahead[j] \/ j \in ahead[i]
    BY <1>1, <1>2
  <2>3. ASSUME NEW i \in I, NEW j \in I, i \in ahead[j]  PROVE ahead[i] \subseteq ahead[j]
    <3> SUFFICES ASSUME NEW k \in I, k \in ahead[i]  PROVE k \in ahead[j]
      BY <2>1
    <3>1. rows[k].seen > rows[i].seen \/ (rows[k].seen = rows[i].seen /\ k < i)
      OBVIOUS
    <3>2. rows[i].seen > rows[j].seen \/ (rows[i].seen = rows[j].seen /\ i < j)
      BY <2>3
    <3> QED  BY <1>1, <1>2, <3>1, <3>2
  <2> QED  BY <2>1, <2>2, <2>3 DEF OrderOf
<1>5. PICK p : Places(p, rows, I, ahead)
  <2> HIDE DEF ahead, I
  <2> QED  BY <1>3, <1>4, ArrangedInOrder
<1>6. /\ p \in [I -> I] /\ Loaded(rows) = [k \in I |-> rows[p[k]]]
      /\ \A i \in I : \E k \in I : p[k] = i
      /\ \A k, l \in I : k < l => p[k] \in ahead[p[l]] /\ p[k] # p[l]
  BY <1>3, <1>5 DEF Places, Loaded
<1>7. \A k, l \in I : k < l => rows[p[k]].seen >= rows[p[l]].seen
  <2> TAKE k, l \in I
  <2> HAVE k < l
  <2>1. p[k] \in I /\ p[l] \in I /\ p[k] \in ahead[p[l]]
    BY <1>6
  <2> QED  BY <1>2, <2>1
<1>8. list = [k \in I |-> rows[p[k]].signal]
  BY <1>6
<1> HIDE DEF ahead, list
<1>9. \A k \in I : p[k] \in I /\ list[k] = rows[p[k]].signal /\ list[k] \in Signals
  BY <1>2, <1>6, <1>8
<1>10. list \in Seq(Signals) /\ Len(list) = n
  BY <1>1, <1>8, <1>9
<1>11. \A k, l \in I : list[k] = list[l] => k = l
  <2> SUFFICES ASSUME NEW k \in I, NEW l \in I, list[k] = list[l]  PROVE k = l
    OBVIOUS
  <2>1. p[k] \in I /\ p[l] \in I /\ rows[p[k]].signal = rows[p[l]].signal
    BY <1>9
  <2>2. p[k] = p[l]
    BY <2>1
  <2>3. ~(k < l) /\ ~(l < k)
    BY <1>6, <2>2
  <2> QED  BY <1>1, <2>3
<1>12. Distinct(list)
  BY <1>10, <1>11 DEF Distinct
<1>13. \A i \in I : \E k \in I : list[k] = rows[i].signal
  <2> HIDE DEF I
  <2> QED  BY <1>6, <1>9
<1>14. ListsMatch(list, rows)
  BY <1>9, <1>10, <1>12, <1>13 DEF ListsMatch
<1>15. ASSUME NEW k \in I, NEW l \in I, NEW i \in I, NEW j \in I,
              k < l, rows[i].signal = list[k], rows[j].signal = list[l]
       PROVE  rows[i].seen >= rows[j].seen
  <2>1. /\ p[k] \in I /\ rows[p[k]].signal = rows[i].signal
        /\ p[l] \in I /\ rows[p[l]].signal = rows[j].signal
    BY <1>9, <1>15
  <2>2. p[k] = i /\ p[l] = j
    BY <2>1
  <2> QED  BY <1>7, <1>15, <2>2
<1>16. LatestFirst(list, rows)
  BY <1>10, <1>15 DEF LatestFirst
<1> QED  BY <1>14, <1>16 DEF list

-----------------------------------------------------------------------------
(***************************************************************************)
(* The first that speaks is the latest of the strongest                   *)
(***************************************************************************)
\* Of the pairs of two numbers there is a first.
LEMMA FirstIsFirst ==
  ASSUME NEW found \in SUBSET (Nat \X Nat), found # {}
  PROVE  First(found) \in found
           /\ \A o \in found : o = First(found) \/ Before(First(found), o)
<1> DEFINE A == {at[1] : at \in found}
<1>1. A \in SUBSET Nat /\ A # {}
  OBVIOUS
<1>2. PICK x \in A : \A y \in A : x <= y
  <2> HIDE DEF A
  <2> QED  BY <1>1, LeastNumber
<1> DEFINE B == {at[2] : at \in {o \in found : o[1] = x}}
<1>3. B \in SUBSET Nat /\ B # {}
  OBVIOUS
<1>4. PICK y \in B : \A z \in B : y <= z
  <2> HIDE DEF B
  <2> QED  BY <1>3, LeastNumber
<1>5. PICK at \in found : at[1] = x /\ at[2] = y
  OBVIOUS
<1>6. ASSUME NEW o \in found  PROVE o = at \/ Before(at, o)
  <2>1. x <= o[1] /\ (o[1] = x => y <= o[2])
    BY <1>2, <1>4
  <2>2. /\ o[1] \in Nat /\ o[2] \in Nat /\ o = <<o[1], o[2]>>
        /\ at[1] \in Nat /\ at[2] \in Nat /\ at = <<at[1], at[2]>>
    OBVIOUS
  <2> QED  BY <1>5, <2>1, <2>2 DEF Before
<1> QED  BY <1>6 DEF First

\* The signals of a class, and of a system.
TypeSpeakers(t) == {s \in Signals : TypeSaid(t, s) \in DeviceTypes}
OsSpeakers(t) == {s \in Signals : OsSaid(t, s) # Unsaid}

\* Where a list and the rows have one of some signals.
AtOf(list, X) == {p \in 1..Len(list) : list[p] \in X}
RowsOf(rows, X) == {i \in 1..Len(rows) : rows[i].signal \in X}

\* The first of a list by the order of the kinds is of the latest of the strongest
\* kind among the rows.
LEMMA FirstIsLatest ==
  ASSUME NEW list, NEW rows, ListsMatch(list, rows), LatestFirst(list, rows),
         NEW kinds, Len(kinds) \in Nat, NEW X
  PROVE  LET found == OfKinds(list, kinds, AtOf(list, X))
             top == LatestOf(rows, kinds, RowsOf(rows, X))
         IN  /\ found = {} => top = {}
             /\ found # {} => \E i \in top : rows[i].signal = list[First(found)[2]]
<1> DEFINE found == OfKinds(list, kinds, AtOf(list, X))
           ranked == {at \in (1..Len(kinds)) \X RowsOf(rows, X) :
                        rows[at[2]].signal.kind = kinds[at[1]]}
           top == LatestOf(rows, kinds, RowsOf(rows, X))
           Leads(at) == \A o \in ranked : \/ at[1] < o[1]
                                          \/ at[1] = o[1] /\ rows[o[2]].seen <= rows[at[2]].seen
<1>1. /\ list \in Seq(Signals) /\ rows \in Seq(Confirmations)
      /\ \A i, j \in 1..Len(rows) : rows[i].signal = rows[j].signal => i = j
      /\ \A p \in 1..Len(list) : \E i \in 1..Len(rows) : rows[i].signal = list[p]
      /\ \A i \in 1..Len(rows) : \E p \in 1..Len(list) : list[p] = rows[i].signal
  BY DEF ListsMatch
<1>2. /\ top = {at[2] : at \in {o \in ranked : Leads(o)}}
      /\ \A at \in ranked : at[1] \in 1..Len(kinds) /\ at[2] \in 1..Len(rows)
                            /\ rows[at[2]].signal \in X
                            /\ rows[at[2]].signal.kind = kinds[at[1]]
  BY DEF LatestOf, RowsOf
<1>3. ASSUME NEW k \in 1..Len(kinds), NEW i \in 1..Len(rows),
             rows[i].signal \in X, rows[i].signal.kind = kinds[k]
      PROVE  <<k, i>> \in ranked
  BY <1>3 DEF RowsOf
<1>4. /\ found \in SUBSET (Nat \X Nat)
      /\ \A at \in found : /\ at = <<at[1], at[2]>> /\ at[1] \in 1..Len(kinds)
                           /\ at[2] \in 1..Len(list) /\ list[at[2]] \in X
                           /\ list[at[2]].kind = kinds[at[1]]
  BY DEF OfKinds, AtOf
<1>5. ASSUME NEW k \in 1..Len(kinds), NEW p \in 1..Len(list),
             list[p] \in X, list[p].kind = kinds[k]
      PROVE  <<k, p>> \in found
  BY <1>5 DEF OfKinds, AtOf
<1> HIDE DEF found, ranked, top
<1>6. ASSUME NEW at \in ranked
      PROVE  \E p \in 1..Len(list) : list[p] = rows[at[2]].signal /\ <<at[1], p>> \in found
  <2>1. PICK p \in 1..Len(list) : list[p] = rows[at[2]].signal
    BY <1>1, <1>2
  <2> QED  BY <1>2, <1>5, <2>1
<1>7. ASSUME found = {}  PROVE top = {}
  <2>1. ranked = {}
    BY <1>6, <1>7
  <2> QED  BY <1>2, <2>1
<1>8. ASSUME found # {}  PROVE \E i \in top : rows[i].signal = list[First(found)[2]]
  <2> DEFINE f == First(found)
  <2>1. f \in found /\ \A o \in found : o = f \/ Before(f, o)
    BY <1>4, <1>8, FirstIsFirst
  <2> HIDE DEF f
  <2>2. f[1] \in 1..Len(kinds) /\ f[2] \in 1..Len(list)
    BY <1>4, <2>1
  <2>3. PICK i \in 1..Len(rows) : rows[i].signal = list[f[2]]
    BY <1>1, <2>2
  <2>4. <<f[1], i>> \in ranked
    BY <1>3, <1>4, <2>1, <2>2, <2>3
  <2>5. ASSUME NEW o \in ranked
        PROVE  f[1] < o[1] \/ (f[1] = o[1] /\ rows[o[2]].seen <= rows[i].seen)
    <3>1. PICK q \in 1..Len(list) : list[q] = rows[o[2]].signal /\ <<o[1], q>> \in found
      BY <1>6
    <3>2. <<o[1], q>> = f \/ Before(f, <<o[1], q>>)
      BY <2>1, <3>1
    <3>3. o[2] \in 1..Len(rows)
      BY <1>2
    <3>4. \A j \in 1..Len(rows) : rows[j].seen \in Nat
      <4> TAKE j \in 1..Len(rows)
      <4>1. rows[j] \in Confirmations
        BY <1>1
      <4> QED  BY <4>1 DEF Confirmations
    <3>5. CASE <<o[1], q>> = f
      <4>1. f[1] = o[1] /\ f[2] = q
        BY <3>5
      <4>2. i = o[2]
        BY <1>1, <2>3, <3>1, <3>3, <4>1
      <4> QED  BY <3>4, <4>1, <4>2
    <3>6. CASE Before(f, <<o[1], q>>)
      <4>1. f[1] < o[1] \/ (f[1] = o[1] /\ f[2] < q)
        BY <3>6 DEF Before
      <4>2. f[2] < q => rows[i].seen >= rows[o[2]].seen
        BY <2>2, <2>3, <3>1, <3>3 DEF LatestFirst
      <4> QED  BY <3>3, <3>4, <4>1, <4>2
    <3> QED  BY <3>2, <3>5, <3>6
  <2>6. Leads(<<f[1], i>>)
    BY <2>5
  <2>7. i \in top
    BY <1>2, <2>4, <2>6
  <2> QED  BY <2>3, <2>7 DEF f
<1> QED  BY <1>7, <1>8 DEF found, top

\* What is classified, from the first that speaks.
LEMMA ClassifySays ==
  ASSUME NEW t, NEW list \in Seq(Signals), NEW alwaysOn
  PROVE  LET types == OfKinds(list, Ranked, AtOf(list, TypeSpeakers(t)))
             systems == OfKinds(list, OsRanked, AtOf(list, OsSpeakers(t)))
             v == Classify(t, list, alwaysOn)
         IN  /\ types # {} => v.type = TypeSaid(t, list[First(types)[2]])
             /\ types = {} => \/ v.type = Unsaid
                              \/ v.type = "smart_home_device" /\ v.type \in DeviceTypes
             /\ v.os = IF systems = {} THEN Unsaid ELSE OsSaid(t, list[First(systems)[2]])
<1> DEFINE types == OfKinds(list, Ranked, AtOf(list, TypeSpeakers(t)))
           systems == OfKinds(list, OsRanked, AtOf(list, OsSpeakers(t)))
           v == Classify(t, list, alwaysOn)
<1>1. \A p \in 1..Len(list) : list[p] \in Signals
  OBVIOUS
<1>2. {at \in device_type_candidates(t, list) : TypeSaid(t, list[at[2]]) \in DeviceTypes} = types
  <2>1. {p \in 1..Len(list) : TypeSaid(t, list[p]) # Unsaid} \in SUBSET (1..Len(list))
    OBVIOUS
  <2> QED  BY <1>1, <2>1, ClassificationAssumption
           DEF device_type_candidates, OfKinds, AtOf, TypeSpeakers
<1>3. OfKinds(list, OsRanked, {i \in 1..Len(list) : OsSaid(t, list[i]) # Unsaid}) = systems
  BY <1>1 DEF OfKinds, AtOf, OsSpeakers
<1> HIDE DEF types, systems
<1> DEFINE T == IF types # {} THEN TypeSaid(t, list[First(types)[2]])
                ELSE IF Behaves(list, alwaysOn) /\ "smart_home_device" \in DeviceTypes
                     THEN "smart_home_device" ELSE Unsaid
           O == IF systems = {} THEN Unsaid ELSE OsSaid(t, list[First(systems)[2]])
<1>4. v = [type |-> T, os |-> O]
  BY <1>2, <1>3, Zenon DEF Classify
<1>5. v.type = T /\ v.os = O
  <2> HIDE DEF T, O
  <2> QED  BY <1>4
<1>6. /\ types # {} => T = TypeSaid(t, list[First(types)[2]])
      /\ types = {} => T = Unsaid \/ (T = "smart_home_device" /\ T \in DeviceTypes)
  BY Zenon
<1> HIDE DEF v
<1> QED  BY <1>5, <1>6 DEF types, systems, v

\* A row that leads speaks, and nothing that speaks is stronger or later.
LEMMA TopLeads ==
  ASSUME NEW rows, NEW kinds, NEW X, NEW i \in LatestOf(rows, kinds, RowsOf(rows, X))
  PROVE  /\ i \in 1..Len(rows) /\ rows[i].signal \in X
         /\ \E k \in 1..Len(kinds) :
              /\ rows[i].signal.kind = kinds[k]
              /\ \A j \in 1..Len(rows), l \in 1..Len(kinds) :
                   rows[j].signal \in X /\ rows[j].signal.kind = kinds[l] =>
                     k < l \/ (k = l /\ rows[j].seen <= rows[i].seen)
<1> DEFINE I == RowsOf(rows, X)
           ranked == {at \in (1..Len(kinds)) \X I : rows[at[2]].signal.kind = kinds[at[1]]}
<1>1. PICK at \in ranked : /\ at[2] = i
                           /\ \A o \in ranked :
                                \/ at[1] < o[1]
                                \/ at[1] = o[1] /\ rows[o[2]].seen <= rows[at[2]].seen
  BY DEF LatestOf
<1>2. /\ at[1] \in 1..Len(kinds) /\ i \in I /\ rows[i].signal.kind = kinds[at[1]]
  BY <1>1
<1>3. ASSUME NEW j \in 1..Len(rows), NEW l \in 1..Len(kinds),
             rows[j].signal \in X, rows[j].signal.kind = kinds[l]
      PROVE  at[1] < l \/ (at[1] = l /\ rows[j].seen <= rows[i].seen)
  <2>1. <<l, j>> \in ranked
    BY <1>3 DEF RowsOf
  <2> HIDE DEF ranked
  <2> QED  BY <1>1, <2>1
<1> QED  BY <1>2, <1>3 DEF RowsOf

\* When what decides now is not in the frame, what decided before is of its kind and
\* was confirmed with it.
LEMMA OldDecides ==
  ASSUME NEW frame \in Seq(Signals), NEW kinds, Len(kinds) \in Nat, NEW X,
         ListsMatch(signals, stored), LatestFirst(signals, stored), heard \in Nat,
         \A i \in 1..Len(stored) : stored[i].seen <= heard,
         NEW list, list = Record(signals, frame),
         NEW found, found = OfKinds(list, kinds, AtOf(list, X)),
         NEW top, top = LatestOf(stored, kinds, RowsOf(stored, X))
  PROVE  /\ found = {} => top = {}
         /\ found # {} /\ list[First(found)[2]] \notin ToSet(frame) =>
              /\ top # {}
              /\ \E j \in 1..Len(stored) :
                   /\ stored[j].signal = list[First(found)[2]]
                   /\ \A i \in top : /\ i \in 1..Len(stored)
                                     /\ stored[i].signal.kind = stored[j].signal.kind
                                     /\ stored[i].seen = stored[j].seen
<1>1. /\ signals \in Seq(Signals) /\ stored \in Seq(Confirmations) /\ Distinct(signals)
      /\ \A i, j \in 1..Len(stored) : stored[i].signal = stored[j].signal => i = j
      /\ \A p \in 1..Len(signals) : \E i \in 1..Len(stored) : stored[i].signal = signals[p]
      /\ \A i \in 1..Len(stored) : \E p \in 1..Len(signals) : signals[p] = stored[i].signal
  BY DEF ListsMatch
<1>2. /\ list \in Seq(Signals) /\ Distinct(list)
      /\ ToSet(list) = ToSet(frame) \cup ToSet(signals)
      /\ \A k, l \in 1..Len(list) : k < l /\ list[k] \notin ToSet(frame) =>
           /\ list[l] \notin ToSet(frame)
           /\ \E i, j \in 1..Len(signals) : i < j /\ signals[i] = list[k] /\ signals[j] = list[l]
  BY <1>1, RecordOrder
<1>3. /\ \A s : s \in ToSet(list) <=> \E p \in 1..Len(list) : list[p] = s
      /\ \A s : s \in ToSet(signals) <=> \E p \in 1..Len(signals) : signals[p] = s
  BY <1>2 DEF ToSet
<1>4. /\ found \in SUBSET (Nat \X Nat)
      /\ \A at \in found : /\ at = <<at[1], at[2]>> /\ at[1] \in 1..Len(kinds)
                           /\ at[2] \in 1..Len(list) /\ list[at[2]] \in X
                           /\ list[at[2]].kind = kinds[at[1]]
  BY DEF OfKinds, AtOf
<1>5. ASSUME NEW k \in 1..Len(kinds), NEW p \in 1..Len(list),
             list[p] \in X, list[p].kind = kinds[k]
      PROVE  <<k, p>> \in found
  BY <1>5 DEF OfKinds, AtOf
<1>6. \A j \in 1..Len(stored) : stored[j].seen \in Nat
  <2> TAKE j \in 1..Len(stored)
  <2>1. stored[j] \in Confirmations
    BY <1>1
  <2> QED  BY <2>1 DEF Confirmations
<1>7. \A i \in 1..Len(stored) : \E p \in 1..Len(list) : list[p] = stored[i].signal
  BY <1>1, <1>2, <1>3
\* A row that leads, with its kind and its place in the new list.
<1>8. ASSUME NEW i \in top
      PROVE  /\ i \in 1..Len(stored)
             /\ \E k \in 1..Len(kinds), p \in 1..Len(list) :
                  /\ stored[i].signal.kind = kinds[k]
                  /\ list[p] = stored[i].signal /\ <<k, p>> \in found
                  /\ \A j \in 1..Len(stored), l \in 1..Len(kinds) :
                       stored[j].signal \in X /\ stored[j].signal.kind = kinds[l] =>
                         k < l \/ (k = l /\ stored[j].seen <= stored[i].seen)
  <2>1. i \in 1..Len(stored) /\ stored[i].signal \in X
    BY TopLeads
  <2>2. PICK k \in 1..Len(kinds) :
              /\ stored[i].signal.kind = kinds[k]
              /\ \A j \in 1..Len(stored), l \in 1..Len(kinds) :
                   stored[j].signal \in X /\ stored[j].signal.kind = kinds[l] =>
                     k < l \/ (k = l /\ stored[j].seen <= stored[i].seen)
    BY TopLeads
  <2>3. PICK p \in 1..Len(list) : list[p] = stored[i].signal
    BY <1>7, <2>1
  <2>4. <<k, p>> \in found
    BY <1>5, <2>1, <2>2, <2>3
  <2> QED  BY <2>1, <2>2, <2>3, <2>4
<1>9. ASSUME found = {}  PROVE top = {}
  BY <1>8, <1>9
<1> DEFINE f == First(found)
<1>10. ASSUME found # {}, list[f[2]] \notin ToSet(frame)
       PROVE  /\ top # {}
              /\ \E j \in 1..Len(stored) :
                   /\ stored[j].signal = list[f[2]]
                   /\ \A i \in top : /\ i \in 1..Len(stored)
                                     /\ stored[i].signal.kind = stored[j].signal.kind
                                     /\ stored[i].seen = stored[j].seen
  <2>1. f \in found /\ \A o \in found : o = f \/ Before(f, o)
    BY <1>4, <1>10, FirstIsFirst
  <2> HIDE DEF f
  <2>2. /\ f[1] \in 1..Len(kinds) /\ f[2] \in 1..Len(list) /\ list[f[2]] \in X
        /\ list[f[2]].kind = kinds[f[1]]
    BY <1>4, <2>1
  <2>3. PICK a \in 1..Len(signals) : signals[a] = list[f[2]]
    BY <1>2, <1>3, <1>10, <2>2
  <2>4. PICK j \in 1..Len(stored) : stored[j].signal = list[f[2]]
    BY <1>1, <2>3
  <2>5. top # {}
    <3>1. <<f[1], a>> \in OfKinds(signals, kinds, AtOf(signals, X))
      BY <2>2, <2>3 DEF OfKinds, AtOf
    <3> QED  BY <3>1, FirstIsLatest
  <2>6. ASSUME NEW i \in top
        PROVE  /\ i \in 1..Len(stored) /\ stored[i].signal.kind = stored[j].signal.kind
               /\ stored[i].seen = stored[j].seen
    <3>1. i \in 1..Len(stored)
      BY <1>8
    <3>2. PICK k \in 1..Len(kinds), p \in 1..Len(list) :
                  /\ stored[i].signal.kind = kinds[k]
                  /\ list[p] = stored[i].signal /\ <<k, p>> \in found
                  /\ \A r \in 1..Len(stored), l \in 1..Len(kinds) :
                       stored[r].signal \in X /\ stored[r].signal.kind = kinds[l] =>
                         k < l \/ (k = l /\ stored[r].seen <= stored[i].seen)
      BY <1>8
    <3>3. k < f[1] \/ (k = f[1] /\ stored[j].seen <= stored[i].seen)
      BY <2>2, <2>4, <3>2
    <3>4. <<k, p>> = f \/ f[1] < k \/ (f[1] = k /\ f[2] < p)
      BY <2>1, <3>2 DEF Before
    <3>5. CASE <<k, p>> = f
      <4>1. p = f[2]
        BY <3>5
      <4>2. i = j
        BY <1>1, <2>4, <3>1, <3>2, <4>1
      <4> QED  BY <3>1, <4>2
    <3>6. CASE <<k, p>> # f
      <4>1. k = f[1] /\ stored[j].seen <= stored[i].seen /\ f[2] < p
        BY <2>2, <3>3, <3>4, <3>6
      <4>2. PICK b, c \in 1..Len(signals) : b < c /\ signals[b] = list[f[2]]
                                            /\ signals[c] = list[p]
        BY <1>2, <1>10, <2>2, <4>1
      <4>3. stored[j].seen >= stored[i].seen
        BY <2>4, <3>1, <3>2, <4>2 DEF LatestFirst
      <4>4. stored[j].seen = stored[i].seen
        <5>1. stored[j].seen \in Nat /\ stored[i].seen \in Nat
          BY <1>6, <2>4, <3>1
        <5>2. stored[j].seen <= stored[i].seen
          BY <4>1
        <5> DEFINE x == stored[j].seen
                   y == stored[i].seen
        <5>3. x \in Nat /\ y \in Nat /\ x <= y /\ x >= y
          BY <4>3, <5>1, <5>2
        <5> HIDE DEF x, y
        <5>4. x = y
          BY ONLY <5>3
        <5> QED  BY <5>4 DEF x, y
      <4> QED  BY <2>2, <2>4, <3>1, <3>2, <4>1, <4>4
    <3> QED  BY <3>5, <3>6
  <2> QED  BY <2>4, <2>5, <2>6
<1> QED  BY <1>9, <1>10

\* Nothing was heard yet, or all of it is in order.
Ordered ==
  /\ ListsMatch(signals, stored) /\ LatestFirst(signals, stored)
  /\ heard \in Nat /\ \A i \in 1..Len(stored) : stored[i].seen <= heard
  /\ heard = 0 => verdict = Unclassified

\* What a frame leaves behind.
LEMMA HearFacts ==
  ASSUME Ordered, NEW frame \in FrameSignals, Hear(frame)
  PROVE  /\ frame \in Seq(Signals)
         /\ ListsMatch(signals', stored') /\ LatestFirst(signals', stored')
         /\ heard' = heard + 1 /\ \A i \in 1..Len(stored') : stored'[i].seen <= heard'
         /\ \A i \in 1..Len(stored') : stored'[i].signal \in ToSet(frame) =>
              stored'[i].seen = heard'
<1>1. frame \in Seq(Signals)
  <2>1. frame \in Seq(ToSet(frame)) /\ ToSet(frame) \subseteq Signals
    BY ClassificationAssumption DEF Signals
  <2> QED  BY <2>1
<1>2. /\ ListsMatch(signals, stored) /\ LatestFirst(signals, stored) /\ heard \in Nat
      /\ \A i \in 1..Len(stored) : stored[i].seen <= heard
  BY DEF Ordered
<1>3. signals' = Record(signals, frame) /\ stored' = Store(frame) /\ heard' = heard + 1
  BY DEF Hear
<1>4. /\ ListsMatch(signals', stored') /\ LatestFirst(signals', stored')
      /\ \A i \in 1..Len(stored') : stored'[i].seen <= heard'
  BY <1>1, <1>2, <1>3, RecordAndStore
<1>5. ASSUME NEW i \in 1..Len(stored'), stored'[i].signal \in ToSet(frame)
      PROVE  stored'[i].seen = heard'
  <2>1. /\ stored \in Seq(Confirmations)
        /\ \A j, k \in 1..Len(stored) : stored[j].signal = stored[k].signal => j = k
    BY <1>2 DEF ListsMatch
  <2>2. /\ \A j \in 1..Len(stored) :
             /\ stored'[j].signal = stored[j].signal
             /\ stored'[j].seen = IF stored[j].signal \in ToSet(frame) THEN heard + 1
                                  ELSE stored[j].seen
        /\ \A j \in 1..Len(stored') : j > Len(stored) =>
             stored'[j].signal \in ToSet(frame) /\ stored'[j].seen = heard + 1
        /\ stored' \in Seq(Confirmations)
    BY <1>1, <1>2, <1>3, <2>1, StoreRows
  <2>3. i > Len(stored) \/ i \in 1..Len(stored)
    BY <2>1, <2>2
  <2> QED  BY <1>3, <1>5, <2>2, <2>3
<1> QED  BY <1>1, <1>3, <1>4, <1>5

\* After a frame the strongest evidence decides.
LEMMA HearDecides ==
  ASSUME Ordered, NEW frame \in FrameSignals, Hear(frame)
  PROVE  StrongestDecides' /\ verdict'.type \in DeviceTypes \cup {Unsaid}
<1> DEFINE types == OfKinds(signals', Ranked, AtOf(signals', TypeSpeakers(table)))
           systems == OfKinds(signals', OsRanked, AtOf(signals', OsSpeakers(table)))
           top == LatestOf(stored', Ranked, RowsOf(stored', TypeSpeakers(table)))
           topOs == LatestOf(stored', OsRanked, RowsOf(stored', OsSpeakers(table)))
<1>1. ListsMatch(signals', stored') /\ LatestFirst(signals', stored')
  BY HearFacts
<1>2. /\ signals' \in Seq(Signals)
      /\ \A i \in 1..Len(stored') : stored'[i].signal \in Signals
  <2>1. signals' \in Seq(Signals) /\ stored' \in Seq(Confirmations)
    BY <1>1 DEF ListsMatch
  <2>2. \A i \in 1..Len(stored') : stored'[i] \in Confirmations
    BY <2>1
  <2> QED  BY <2>1, <2>2 DEF Confirmations
<1>3. Len(Ranked) \in Nat /\ Len(OsRanked) \in Nat
  BY DEF Ranked, OsRanked
<1>4. /\ types = {} => top = {}
      /\ types # {} => \E i \in top : stored'[i].signal = signals'[First(types)[2]]
  BY <1>1, <1>3, FirstIsLatest
<1>5. /\ systems = {} => topOs = {}
      /\ systems # {} => \E i \in topOs : stored'[i].signal = signals'[First(systems)[2]]
  BY <1>1, <1>3, FirstIsLatest
<1>6. /\ types # {} => verdict'.type = TypeSaid(table, signals'[First(types)[2]])
      /\ types = {} => \/ verdict'.type = Unsaid
                       \/ verdict'.type = "smart_home_device" /\ verdict'.type \in DeviceTypes
      /\ verdict'.os = IF systems = {} THEN Unsaid
                       ELSE OsSaid(table, signals'[First(systems)[2]])
  <2>1. verdict' = Classify(table, signals', AlwaysOn)
    BY DEF Hear
  <2> DEFINE b == AlwaysOn
  <2>2. verdict' = Classify(table, signals', b)
    BY <2>1
  <2> HIDE DEF b
  <2> QED  BY <1>2, <2>2, ClassifySays
<1>7. \A i \in top : stored'[i].signal \in TypeSpeakers(table)
  BY TopLeads
<1>8. /\ TypeRows(concluded', stored') = RowsOf(stored', TypeSpeakers(table))
      /\ OsRows(concluded', stored') = RowsOf(stored', OsSpeakers(table))
  <2>1. concluded' = table
    BY DEF Hear
  <2> QED  BY <1>2, <2>1 DEF TypeRows, OsRows, RowsOf, TypeSpeakers, OsSpeakers
<1> HIDE DEF types, systems
<1>9. IF top = {} THEN verdict'.type \in {Unsaid, "smart_home_device"}
      ELSE \E i \in top : verdict'.type = TypeSaid(table, stored'[i].signal)
  <2> HIDE DEF top
  <2> QED  BY <1>4, <1>6
<1>10. IF topOs = {} THEN verdict'.os = Unsaid
       ELSE \E i \in topOs : verdict'.os = OsSaid(table, stored'[i].signal)
  <2> HIDE DEF topOs
  <2> QED  BY <1>5, <1>6
<1>11. StrongestDecides'
  <2>1. concluded' = table
    BY DEF Hear
  <2> QED  BY <1>8, <1>9, <1>10, <2>1 DEF StrongestDecides
<1>12. verdict'.type \in DeviceTypes \cup {Unsaid}
  <2> HIDE DEF top
  <2> QED  BY <1>4, <1>6, <1>7 DEF TypeSpeakers
<1> QED  BY <1>11, <1>12

-----------------------------------------------------------------------------
(***************************************************************************)
(* What is kept from frame to frame                                       *)
(***************************************************************************)
\* The tables that can be installed.
Tables == {t \in Seq(ToSet(Embedded) \cup ToSet(Downloaded)) : Len(t) > 0}

\* What is installed is one of them.
LEMMA InstalledTable ==
  ASSUME NEW part \in -1..Len(Downloaded)
  PROVE  Install(part) \in Tables
<1> DEFINE All == ToSet(Embedded) \cup ToSet(Downloaded)
<1>1. /\ Embedded \in Seq(ToSet(Embedded)) /\ Embedded # << >>
      /\ Downloaded \in Seq(ToSet(Downloaded))
  BY ClassificationAssumption
<1>2. Embedded \in Seq(All) /\ Len(Embedded) > 0
  BY <1>1
<1>3. CASE part <= 0
  BY <1>2, <1>3 DEF Install, Tables
<1>4. CASE part > 0
  <2>1. part \in 1..Len(Downloaded) /\ Downloaded \in Seq(All)
    BY <1>1, <1>4
  <2> HIDE DEF All
  <2>2. SubSeq(Downloaded, 1, part) \in Seq(All) /\ Len(SubSeq(Downloaded, 1, part)) = part
    BY <2>1
  <2>3. Install(part) = SubSeq(Downloaded, 1, part)
    BY <1>4, <2>1 DEF Install, FromFile
  <2> QED  BY <1>4, <2>1, <2>2, <2>3 DEF All, Tables
<1> QED  BY <1>3, <1>4

\* The files hold no more than what is served.
TablesHeld ==
  /\ table \in Tables
  /\ tableFile \in -1..Len(Downloaded) /\ writing \in -1..Len(Downloaded)

\* What every step keeps: both orders, what they decide, and the vocabulary.
ClassIInv ==
  /\ Ordered /\ TablesHeld /\ StrongestDecides
  /\ verdict.type \in DeviceTypes \cup {Unsaid}

\* The types are part of what is kept.
LEMMA ClassTyped == ClassIInv => ClassTypeOK
<1> SUFFICES ASSUME ClassIInv  PROVE ClassTypeOK
  OBVIOUS
<1>1. /\ signals \in Seq(Signals) /\ Len(stored) = Len(signals)
      /\ \A p \in 1..Len(signals) : \E i \in 1..Len(stored) : stored[i].signal = signals[p]
      /\ \A i \in 1..Len(stored) : \E p \in 1..Len(signals) : signals[p] = stored[i].signal
  BY DEF ClassIInv, Ordered, ListsMatch
<1>2. \A s : s \in ToSet(signals) <=> \E p \in 1..Len(signals) : signals[p] = s
  <2>1. DOMAIN signals = 1..Len(signals)
    BY <1>1
  <2> QED  BY <2>1, Zenon DEF ToSet
<1>3. ToSet(signals) = {stored[i].signal : i \in 1..Len(stored)}
  <2>1. \A s \in ToSet(signals) : \E i \in 1..Len(stored) : s = stored[i].signal
    <3> TAKE s \in ToSet(signals)
    <3>1. PICK p \in 1..Len(signals) : signals[p] = s
      BY <1>2
    <3>2. PICK i \in 1..Len(stored) : stored[i].signal = signals[p]
      BY <1>1
    <3> QED  BY <3>1, <3>2
  <2>2. \A i \in 1..Len(stored) : stored[i].signal \in ToSet(signals)
    <3> TAKE i \in 1..Len(stored)
    <3>1. PICK p \in 1..Len(signals) : signals[p] = stored[i].signal
      BY <1>1
    <3> QED  BY <1>2, <3>1
  <2> QED  BY ONLY <2>1, <2>2
<1> QED  BY <1>1, <1>3 DEF ClassIInv, TablesHeld, Tables, ClassTypeOK

\* At the start nothing is known.
LEMMA ClassStart == ClassInit => ClassIInv
<1> SUFFICES ASSUME ClassInit  PROVE ClassIInv
  OBVIOUS
<1>1. signals = << >> /\ stored = << >> /\ heard = 0 /\ verdict = Unclassified
  BY DEF ClassInit
<1>2. Len(signals) = 0 /\ Len(stored) = 0 /\ signals \in Seq(Signals)
      /\ stored \in Seq(Confirmations)
  BY <1>1
<1>3. Ordered
  BY <1>1, <1>2 DEF Ordered, ListsMatch, LatestFirst, Distinct
<1>4. TablesHeld
  <2>1. Len(Downloaded) \in Nat /\ -1 \in -1..Len(Downloaded)
    BY ClassificationAssumption
  <2>2. Embedded \in Tables
    <3>1. Install(-1) = Embedded
      BY DEF Install
    <3> QED  BY <2>1, <3>1, InstalledTable
  <2> QED  BY <2>1, <2>2 DEF ClassInit, TablesHeld
<1>5. StrongestDecides /\ verdict.type \in DeviceTypes \cup {Unsaid}
  BY <1>1 DEF StrongestDecides, Unclassified
<1> QED  BY <1>3, <1>4, <1>5 DEF ClassIInv

\* And every step keeps it so.
LEMMA ClassStep == ClassIInv /\ [ClassNext]_classVars => ClassIInv'
<1> SUFFICES ASSUME ClassIInv, [ClassNext]_classVars  PROVE ClassIInv'
  OBVIOUS
<1> USE DEF ClassIInv
<1>1. ASSUME NEW frame \in FrameSignals, Hear(frame)  PROVE ClassIInv'
  <2>1. Ordered'
    <3>1. heard \in Nat /\ heard' = heard + 1
      BY <1>1 DEF Ordered, Hear
    <3>2. heard' \in Nat /\ heard' # 0
      BY <3>1
    <3> QED  BY <1>1, <3>2, HearFacts DEF Ordered
  <2>2. TablesHeld'
    BY <1>1 DEF TablesHeld, Hear
  <2> QED  BY <1>1, <2>1, <2>2, HearDecides
<1>2. CASE Restart
  <2>1. signals' = [i \in 1..Len(stored) |-> Loaded(stored)[i].signal] /\ stored' = stored
        /\ verdict' = verdict /\ concluded' = concluded /\ heard' = heard
        /\ table' = Install(tableFile) /\ tableFile' = tableFile /\ writing' = writing
    BY <1>2 DEF Restart
  <2>2. ListsMatch(signals', stored') /\ LatestFirst(signals', stored')
    <3>1. /\ stored \in Seq(Confirmations)
          /\ \A i, j \in 1..Len(stored) : stored[i].signal = stored[j].signal => i = j
      BY DEF Ordered, ListsMatch
    <3> QED  BY <2>1, <3>1, LoadedMatches
  <2>3. Ordered'
    BY <2>1, <2>2 DEF Ordered
  <2>4. TablesHeld'
    BY <2>1, InstalledTable DEF TablesHeld
  <2>5. StrongestDecides'
    BY <2>1 DEF StrongestDecides
  <2> QED  BY <2>1, <2>3, <2>4, <2>5
<1>3. ASSUME UNCHANGED <<signals, stored, verdict, concluded, heard, table>>,
             tableFile' \in -1..Len(Downloaded), writing' \in -1..Len(Downloaded)
      PROVE  ClassIInv'
  BY <1>3 DEF Ordered, TablesHeld, StrongestDecides
<1>4. CASE GoOffline
  BY <1>3, <1>4 DEF GoOffline, TablesHeld
<1>5. CASE DayPasses
  BY <1>3, <1>5 DEF DayPasses, TablesHeld
<1>6. CASE Download
  <2>1. Len(Downloaded) \in Nat
    BY ClassificationAssumption
  <2> QED  BY <1>3, <1>6, <2>1 DEF Download, TablesHeld, deviceVars
<1>7. CASE Write
  <2>1. Len(Downloaded) \in Nat
    BY ClassificationAssumption
  <2> QED  BY <1>3, <1>7, <2>1 DEF Write, TablesHeld, deviceVars
<1>8. CASE UNCHANGED classVars
  BY <1>3, <1>8 DEF classVars, TablesHeld
<1> QED  BY <1>1, <1>2, <1>4, <1>5, <1>6, <1>7, <1>8 DEF ClassNext

\* The daemon's signals are the database's, each once; a type is of the vocabulary,
\* and what is looked up is never nothing (device/mod.rs, cli/mod.rs).
THEOREM ClassTypes == ClassSpec => []ClassTypeOK
<1>1. ClassInit => ClassIInv
  BY ClassStart
<1>2. ClassIInv /\ [ClassNext]_classVars => ClassIInv'
  BY ClassStep
<1>3. ClassIInv => ClassTypeOK
  BY ClassTyped
<1> QED  BY <1>1, <1>2, <1>3, PTL DEF ClassSpec

\* What a device is, is what the latest of its strongest speaking evidence says,
\* whatever the order it came in and through restarts (classify.rs:8-29).
THEOREM StrongestSpeaks == ClassSpec => []StrongestDecides
<1>1. ClassInit => ClassIInv
  BY ClassStart
<1>2. ClassIInv /\ [ClassNext]_classVars => ClassIInv'
  BY ClassStep
<1>3. ClassIInv => StrongestDecides
  BY DEF ClassIInv
<1> QED  BY <1>1, <1>2, <1>3, PTL DEF ClassSpec

-----------------------------------------------------------------------------
(***************************************************************************)
(* A change is due to what was heard                                      *)
(***************************************************************************)
\* What decides after a frame, of the type or of the system: what the frame carries,
\* or what was confirmed together with what decided before.
LEMMA DecidesAnew ==
  ASSUME Ordered, NEW frame \in FrameSignals, Hear(frame),
         NEW kinds, Len(kinds) \in Nat, NEW X,
         NEW found, found = OfKinds(signals', kinds, AtOf(signals', X)),
         NEW top, top = LatestOf(stored, kinds, RowsOf(stored, X))
  PROVE  /\ found = {} => top = {}
         /\ found # {} =>
              LET s == signals'[First(found)[2]] IN
              \/ \E i \in 1..Len(stored') : stored'[i].signal = s /\ stored'[i].seen = heard'
              \/ /\ top # {}
                 /\ \E j \in 1..Len(stored) :
                      /\ stored[j].signal = s
                      /\ \A i \in top : /\ i \in 1..Len(stored)
                                        /\ stored[i].signal.kind = stored[j].signal.kind
                                        /\ stored[i].seen = stored[j].seen
<1>1. /\ frame \in Seq(Signals) /\ ListsMatch(signals', stored') /\ LatestFirst(signals', stored')
      /\ \A i \in 1..Len(stored') : stored'[i].signal \in ToSet(frame) =>
           stored'[i].seen = heard'
  BY HearFacts
<1>2. signals' = Record(signals, frame)
  BY DEF Hear
<1>3. /\ ListsMatch(signals, stored) /\ LatestFirst(signals, stored) /\ heard \in Nat
      /\ \A i \in 1..Len(stored) : stored[i].seen <= heard
  BY DEF Ordered
<1> DEFINE s == signals'[First(found)[2]]
<1>4. /\ found = {} => top = {}
      /\ found # {} /\ s \notin ToSet(frame) =>
           /\ top # {}
           /\ \E j \in 1..Len(stored) :
                /\ stored[j].signal = s
                /\ \A i \in top : /\ i \in 1..Len(stored)
                                  /\ stored[i].signal.kind = stored[j].signal.kind
                                  /\ stored[i].seen = stored[j].seen
  BY <1>1, <1>2, <1>3, OldDecides
<1>5. ASSUME found # {}, s \in ToSet(frame)
      PROVE  \E i \in 1..Len(stored') : stored'[i].signal = s /\ stored'[i].seen = heard'
  <2>1. PICK i \in LatestOf(stored', kinds, RowsOf(stored', X)) : stored'[i].signal = s
    BY <1>1, <1>5, FirstIsLatest
  <2>2. i \in 1..Len(stored')
    BY TopLeads
  <2> QED  BY <1>1, <1>5, <2>1, <2>2
<1> QED  BY <1>4, <1>5

\* A change is due to what was heard, or to two signals confirmed together.
LEMMA AlarmStep ==
  ClassIInv /\ [ClassNext]_classVars =>
    (heard' > heard /\ alarm' /\ concluded = table =>
       \/ \E i \in 1..Len(stored') :
             LET s == stored'[i].signal IN
             /\ stored'[i].seen = heard'
             /\ \/ Changed(verdict.type, verdict'.type) /\ TypeSaid(table, s) = verdict'.type
                \/ Changed(verdict.os, verdict'.os) /\ OsSaid(table, s) = verdict'.os
       \/ \E i, j \in 1..Len(stored) :
             /\ i < j /\ stored[i].signal.kind = stored[j].signal.kind
             /\ stored[i].seen = stored[j].seen)
<1> DEFINE Heard == \E i \in 1..Len(stored') :
             LET s == stored'[i].signal IN
             /\ stored'[i].seen = heard'
             /\ \/ Changed(verdict.type, verdict'.type) /\ TypeSaid(table, s) = verdict'.type
                \/ Changed(verdict.os, verdict'.os) /\ OsSaid(table, s) = verdict'.os
           Tied == \E i, j \in 1..Len(stored) :
             /\ i < j /\ stored[i].signal.kind = stored[j].signal.kind
             /\ stored[i].seen = stored[j].seen
<1> SUFFICES ASSUME ClassIInv, [ClassNext]_classVars, heard' > heard, alarm', concluded = table
             PROVE  Heard \/ Tied
  OBVIOUS
<1>1. Ordered /\ StrongestDecides
  BY DEF ClassIInv
<1>2. PICK frame \in FrameSignals : Hear(frame)
  <2>1. heard \in Nat
    BY <1>1 DEF Ordered
  <2>2. heard' # heard
    BY <2>1
  <2> QED  BY <2>2 DEF ClassNext, classVars, deviceVars, Restart, GoOffline, DayPasses, Download,
                      Write
<1>3. Changed(verdict.type, verdict'.type) \/ Changed(verdict.os, verdict'.os)
  <2>1. alarm' = ChangedCategory(verdict, verdict')
    BY <1>2 DEF Hear
  <2> QED  BY <2>1 DEF ChangedCategory
<1>4. heard > 0
  <2>1. heard = 0 => verdict.type = Unsaid /\ verdict.os = Unsaid
    BY <1>1 DEF Ordered, Unclassified
  <2> QED  BY <1>1, <1>3, <2>1 DEF Changed, Ordered
<1> DEFINE types == OfKinds(signals', Ranked, AtOf(signals', TypeSpeakers(table)))
           systems == OfKinds(signals', OsRanked, AtOf(signals', OsSpeakers(table)))
           top == LatestOf(stored, Ranked, RowsOf(stored, TypeSpeakers(table)))
           topOs == LatestOf(stored, OsRanked, RowsOf(stored, OsSpeakers(table)))
<1>5. \A i \in 1..Len(stored) : stored[i].signal \in Signals
  <2>1. stored \in Seq(Confirmations)
    BY <1>1 DEF Ordered, ListsMatch
  <2>2. \A i \in 1..Len(stored) : stored[i] \in Confirmations
    BY <2>1
  <2> QED  BY <2>2 DEF Confirmations
<1>6. /\ TypeRows(concluded, stored) = RowsOf(stored, TypeSpeakers(table))
      /\ OsRows(concluded, stored) = RowsOf(stored, OsSpeakers(table))
  BY <1>5 DEF TypeRows, OsRows, RowsOf, TypeSpeakers, OsSpeakers
<1>7. /\ IF top = {} THEN verdict.type \in {Unsaid, "smart_home_device"}
         ELSE \E i \in top : verdict.type = TypeSaid(table, stored[i].signal)
      /\ IF topOs = {} THEN verdict.os = Unsaid
         ELSE \E i \in topOs : verdict.os = OsSaid(table, stored[i].signal)
  BY <1>1, <1>4, <1>6 DEF StrongestDecides
<1>8. signals' \in Seq(Signals)
  BY <1>1, <1>2, HearFacts DEF ListsMatch
<1>9. /\ types # {} => verdict'.type = TypeSaid(table, signals'[First(types)[2]])
      /\ types = {} => \/ verdict'.type = Unsaid
                       \/ verdict'.type = "smart_home_device" /\ verdict'.type \in DeviceTypes
      /\ verdict'.os = IF systems = {} THEN Unsaid
                       ELSE OsSaid(table, signals'[First(systems)[2]])
  <2>1. verdict' = Classify(table, signals', AlwaysOn)
    BY <1>2 DEF Hear
  <2> DEFINE b == AlwaysOn
  <2>2. verdict' = Classify(table, signals', b)
    BY <2>1
  <2> HIDE DEF b
  <2> QED  BY <1>8, <2>2, ClassifySays
<1>10. Len(Ranked) \in Nat /\ Len(OsRanked) \in Nat
  BY DEF Ranked, OsRanked
<1>11. ASSUME NEW i \in 1..Len(stored), NEW j \in 1..Len(stored), i # j,
              stored[i].signal.kind = stored[j].signal.kind, stored[i].seen = stored[j].seen
       PROVE  Tied
  BY <1>11
<1>12. CASE Changed(verdict.type, verdict'.type)
  <2>1. verdict.type # Unsaid /\ verdict'.type # Unsaid /\ verdict.type # verdict'.type
    BY <1>12 DEF Changed
  <2> DEFINE s == signals'[First(types)[2]]
  <2>2. /\ types = {} => top = {}
        /\ types # {} =>
              \/ \E i \in 1..Len(stored') : stored'[i].signal = s /\ stored'[i].seen = heard'
              \/ /\ top # {}
                 /\ \E j \in 1..Len(stored) :
                      /\ stored[j].signal = s
                      /\ \A i \in top : /\ i \in 1..Len(stored)
                                        /\ stored[i].signal.kind = stored[j].signal.kind
                                        /\ stored[i].seen = stored[j].seen
    BY <1>1, <1>2, <1>10, DecidesAnew
  <2> HIDE DEF types, top, s
  <2>3. types # {} /\ verdict'.type = TypeSaid(table, s)
    BY <1>7, <1>9, <2>1, <2>2 DEF s
  <2>4. CASE \E i \in 1..Len(stored') : stored'[i].signal = s /\ stored'[i].seen = heard'
    BY <1>12, <2>3, <2>4
  <2>5. ASSUME top # {}, NEW j \in 1..Len(stored), stored[j].signal = s,
               \A i \in top : /\ i \in 1..Len(stored)
                              /\ stored[i].signal.kind = stored[j].signal.kind
                              /\ stored[i].seen = stored[j].seen
        PROVE  Tied
    <3>1. PICK i \in top : verdict.type = TypeSaid(table, stored[i].signal)
      BY <1>7, <2>5
    <3>2. i # j
      BY <2>1, <2>3, <2>5, <3>1
    <3> HIDE DEF Tied
    <3> QED  BY <1>11, <2>5, <3>1, <3>2
  <2> HIDE DEF Tied, Heard
  <2> QED  BY <2>2, <2>3, <2>4, <2>5
<1>13. CASE Changed(verdict.os, verdict'.os)
  <2>1. verdict.os # Unsaid /\ verdict'.os # Unsaid /\ verdict.os # verdict'.os
    BY <1>13 DEF Changed
  <2> DEFINE s == signals'[First(systems)[2]]
  <2>2. /\ systems = {} => topOs = {}
        /\ systems # {} =>
              \/ \E i \in 1..Len(stored') : stored'[i].signal = s /\ stored'[i].seen = heard'
              \/ /\ topOs # {}
                 /\ \E j \in 1..Len(stored) :
                      /\ stored[j].signal = s
                      /\ \A i \in topOs : /\ i \in 1..Len(stored)
                                          /\ stored[i].signal.kind = stored[j].signal.kind
                                          /\ stored[i].seen = stored[j].seen
    BY <1>1, <1>2, <1>10, DecidesAnew
  <2> HIDE DEF systems, topOs, s
  <2>3. systems # {} /\ verdict'.os = OsSaid(table, s)
    BY <1>9, <2>1 DEF s
  <2>4. CASE \E i \in 1..Len(stored') : stored'[i].signal = s /\ stored'[i].seen = heard'
    BY <1>13, <2>3, <2>4
  <2>5. ASSUME topOs # {}, NEW j \in 1..Len(stored), stored[j].signal = s,
               \A i \in topOs : /\ i \in 1..Len(stored)
                                /\ stored[i].signal.kind = stored[j].signal.kind
                                /\ stored[i].seen = stored[j].seen
        PROVE  Tied
    <3>1. PICK i \in topOs : verdict.os = OsSaid(table, stored[i].signal)
      BY <1>7, <2>5
    <3>2. i # j
      BY <2>1, <2>3, <2>5, <3>1
    <3> HIDE DEF Tied
    <3> QED  BY <1>11, <2>5, <3>1, <3>2
  <2> HIDE DEF Tied, Heard
  <2> QED  BY <2>2, <2>3, <2>4, <2>5
<1> QED  BY <1>3, <1>12, <1>13

\* A device is said to have changed because of what was just heard, and never because
\* of a restart; but two signals confirmed by one frame may have been restored the
\* other way round, and a table replaced (device/mod.rs:702).
THEOREM AlarmsHold == ClassSpec => AlarmsAreHeard
<1>1. ClassInit => ClassIInv
  BY ClassStart
<1>2. ClassIInv /\ [ClassNext]_classVars => ClassIInv'
  BY ClassStep
<1>3. ClassIInv /\ [ClassNext]_classVars =>
        [ heard' > heard /\ alarm' /\ concluded = table =>
            \/ \E i \in 1..Len(stored') :
                  LET s == stored'[i].signal IN
                  /\ stored'[i].seen = heard'
                  /\ \/ Changed(verdict.type, verdict'.type)
                        /\ TypeSaid(table, s) = verdict'.type
                     \/ Changed(verdict.os, verdict'.os) /\ OsSaid(table, s) = verdict'.os
            \/ \E i, j \in 1..Len(stored) :
                  /\ i < j /\ stored[i].signal.kind = stored[j].signal.kind
                  /\ stored[i].seen = stored[j].seen ]_classVars
  BY AlarmStep
<1> QED  BY <1>1, <1>2, <1>3, PTL DEF ClassSpec, AlarmsAreHeard

(***************************************************************************)
(* The longest common subsequence                                          *)
(***************************************************************************)
-----------------------------------------------------------------------------
(***************************************************************************)
(* The similarity of two fingerprints                                     *)
(***************************************************************************)
\* f is what k steps make of a first value.
StepsUpTo(f, k, first, step, S) ==
  /\ f \in [0..k -> S] /\ f[0] = first
  /\ \A i \in 1..k : f[i] = step[i][f[i - 1]]

\* A value can be taken through any number of steps.
LEMMA StepsExist ==
  ASSUME NEW n \in Nat, NEW S, NEW first \in S, NEW step \in [1..n -> [S -> S]]
  PROVE  \E f : StepsUpTo(f, n, first, step, S)
<1> DEFINE T == {k \in 0..n : ~ \E f : StepsUpTo(f, k, first, step, S)}
<1>1. T = {}
  <2> SUFFICES ASSUME T # {}  PROVE FALSE
    OBVIOUS
  <2>1. PICK k \in T : \A j \in T : k <= j
    <3>1. T \in SUBSET Nat
      OBVIOUS
    <3> HIDE DEF T
    <3> QED  BY <3>1, LeastNumber
  <2>2. k # 0
    <3> DEFINE f == [i \in 0..0 |-> first]
    <3>1. StepsUpTo(f, 0, first, step, S)
      BY DEF StepsUpTo
    <3> QED  BY <3>1
  <2>3. k - 1 \in 0..n /\ k - 1 \notin T /\ k \in 1..n
    BY <2>1, <2>2
  <2>4. PICK g : StepsUpTo(g, k - 1, first, step, S)
    BY <2>3
  <2> DEFINE f == [i \in 0..k |-> IF i = k THEN step[k][g[k - 1]] ELSE g[i]]
  <2>5. /\ g \in [0..(k - 1) -> S] /\ g[0] = first
        /\ \A i \in 1..(k - 1) : g[i] = step[i][g[i - 1]]
    BY <2>4 DEF StepsUpTo
  <2>6. g[k - 1] \in S /\ step[k][g[k - 1]] \in S
    <3>1. g[k - 1] \in S
      BY <2>3, <2>5
    <3> QED  BY <2>3, <3>1
  <2>7. f \in [0..k -> S] /\ f[0] = first
    BY <2>3, <2>5, <2>6
  <2>8. ASSUME NEW i \in 1..k  PROVE f[i] = step[i][f[i - 1]]
    <3>1. CASE i = k
      <4>1. f[i - 1] = g[k - 1] /\ f[k] = step[k][g[k - 1]]
        BY <2>3, <3>1
      <4> QED  BY <3>1, <4>1
    <3>2. CASE i # k
      <4>1. i \in 1..(k - 1) /\ i - 1 \in 0..k /\ i - 1 # k /\ i \in 0..k
        BY <2>3, <3>2
      <4>2. f[i] = g[i] /\ f[i - 1] = g[i - 1]
        BY <3>2, <4>1
      <4> QED  BY <2>5, <4>1, <4>2
    <3> QED  BY <3>1, <3>2
  <2>9. StepsUpTo(f, k, first, step, S)
    <3> HIDE DEF f
    <3> QED  BY <2>7, <2>8 DEF StepsUpTo
  <2> QED  BY <2>1, <2>9
<1>2. n \in 0..n
  OBVIOUS
<1> QED  BY <1>1, <1>2

\* A cell of a row, from the cell before and the row before.
Cell(row, x, b, j, left) == IF x = b[j] THEN row[j - 1] + 1 ELSE Larger(left, row[j])

\* The recursion of a row unfolds.
LEMMA RowUnfolds ==
  ASSUME NEW b, Len(b) \in Nat, NEW row \in [0..Len(b) -> Nat], NEW x
  PROVE  /\ NextRow(row, x, b) \in [0..Len(b) -> Nat] /\ NextRow(row, x, b)[0] = 0
         /\ \A j \in 1..Len(b) :
              NextRow(row, x, b)[j] = Cell(row, x, b, j, NextRow(row, x, b)[j - 1])
<1> DEFINE n == Len(b)
           Is(f) == f = [j \in 0..n |-> IF j = 0 THEN 0 ELSE Cell(row, x, b, j, f[j - 1])]
           step == [j \in 1..n |-> [left \in Nat |-> Cell(row, x, b, j, left)]]
           c == NextRow(row, x, b)
<1>1. c = CHOOSE f : Is(f)
  BY DEF NextRow, Cell
<1>2. \A j \in 1..n, left \in Nat : Cell(row, x, b, j, left) \in Nat
  BY DEF Cell, Larger
<1>3. step \in [1..n -> [Nat -> Nat]] /\ n \in Nat
  BY <1>2
<1>4. \A j \in 1..n, left \in Nat : step[j][left] = Cell(row, x, b, j, left)
  OBVIOUS
<1> HIDE DEF step, c
<1>5. PICK f : StepsUpTo(f, n, 0, step, Nat)
  BY <1>3, StepsExist
<1>6. /\ f \in [0..n -> Nat] /\ f[0] = 0
      /\ \A j \in 1..n : f[j] = step[j][f[j - 1]]
  BY <1>5 DEF StepsUpTo
<1>7. ASSUME NEW j \in 1..n  PROVE f[j] = Cell(row, x, b, j, f[j - 1])
  <2>1. j - 1 \in 0..n
    BY <1>3
  <2>2. f[j - 1] \in Nat
    BY <1>6, <2>1
  <2> QED  BY <1>4, <1>6, <2>2
<1>8. Is(f)
  <2>1. \A j \in 0..n : j = 0 \/ j \in 1..n
    BY <1>3
  <2> HIDE DEF n
  <2> QED  BY <1>6, <1>7, <2>1
<1>9. Is(c)
  BY <1>1, <1>8
<1>10. c[0] = 0 /\ \A j \in 1..n : c[j] = Cell(row, x, b, j, c[j - 1])
  BY <1>3, <1>9
<1>11. c \in [0..n -> Nat]
  <2> DEFINE T == {j \in 0..n : c[j] \notin Nat}
  <2>1. T = {}
    <3> SUFFICES ASSUME T # {}  PROVE FALSE
      OBVIOUS
    <3>1. PICK k \in T : \A j \in T : k <= j
      <4>1. T \in SUBSET Nat
        OBVIOUS
      <4> HIDE DEF T
      <4> QED  BY <4>1, LeastNumber
    <3>2. k \in 1..n /\ k - 1 \in 0..n /\ k - 1 \notin T
      BY <1>3, <1>10, <3>1
    <3> QED  BY <1>2, <1>10, <3>1, <3>2
  <2>2. \A j \in 0..n : c[j] \in Nat
    BY <2>1
  <2>3. c = [j \in 0..n |-> c[j]]
    BY <1>9
  <2> QED  BY <2>2, <2>3
<1> QED  BY <1>10, <1>11 DEF c

\* And so does that of the rows.
LEMMA RowsUnfold ==
  ASSUME NEW a, NEW b, Len(a) \in Nat, Len(b) \in Nat
  PROVE  /\ Rows(a, b)[0] = [j \in 0..Len(b) |-> 0]
         /\ \A i \in 1..Len(a) : Rows(a, b)[i] = NextRow(Rows(a, b)[i - 1], a[i], b)
<1> DEFINE n == Len(a)
           R == [0..Len(b) -> Nat]
           first == [j \in 0..Len(b) |-> 0]
           Is(f) == f = [i \in 0..n |-> IF i = 0 THEN first ELSE NextRow(f[i - 1], a[i], b)]
           step == [i \in 1..n |-> [row \in R |-> NextRow(row, a[i], b)]]
           r == Rows(a, b)
<1>1. r = CHOOSE f : Is(f)
  BY DEF Rows
<1>2. \A x, row \in R : NextRow(row, x, b) \in R
  <2> SUFFICES ASSUME NEW row \in R, NEW x  PROVE NextRow(row, x, b) \in R
    OBVIOUS
  <2> QED  BY RowUnfolds
<1>3. first \in R /\ n \in Nat
  OBVIOUS
<1> HIDE DEF R, first, r
<1>4. /\ \A i \in 1..n, row \in R : NextRow(row, a[i], b) \in R
  <2> SUFFICES ASSUME NEW i \in 1..n, NEW row \in R  PROVE NextRow(row, a[i], b) \in R
    OBVIOUS
  <2> QED  BY RowUnfolds DEF R
<1>5. /\ step \in [1..n -> [R -> R]]
      /\ \A i \in 1..n, row \in R : step[i][row] = NextRow(row, a[i], b)
  BY <1>4
<1> HIDE DEF step
<1>6. PICK f : StepsUpTo(f, n, first, step, R)
  BY <1>3, <1>5, StepsExist
<1>7. /\ f \in [0..n -> R] /\ f[0] = first
      /\ \A i \in 1..n : f[i] = step[i][f[i - 1]]
  BY <1>6 DEF StepsUpTo
<1>8. ASSUME NEW i \in 1..n  PROVE f[i] = NextRow(f[i - 1], a[i], b)
  <2>1. f[i - 1] \in R
    BY <1>3, <1>7
  <2> QED  BY <1>5, <1>7, <2>1
<1>9. Is(f)
  <2>1. \A i \in 0..n : i = 0 \/ i \in 1..n
    BY <1>3
  <2> HIDE DEF n
  <2> QED  BY <1>7, <1>8, <2>1
<1>10. Is(r)
  BY <1>1, <1>9
<1>11. r[0] = first
  BY <1>3, <1>10
<1>12. ASSUME NEW i \in 1..n  PROVE r[i] = NextRow(r[i - 1], a[i], b)
  <2>1. i \in 0..n /\ i # 0
    BY <1>3
  <2> QED  BY <1>10, <2>1
<1> QED  BY <1>11, <1>12 DEF r, first

\* lay puts the positions Q of a onto equal ones of the first j of b, in order.
Lays(lay, a, b, j, Q) ==
  /\ lay \in [Q -> 1..j]
  /\ \A x, y \in Q : a[x] = b[lay[x]] /\ (x < y => lay[x] < lay[y])

\* The positions Q, of the first i of a, can be laid.
Laid(a, b, i, j, Q) == Q \in SUBSET (1..i) /\ \E lay : Lays(lay, a, b, j, Q)

\* n of the first i of a are the most that can be laid.
MostLaid(a, b, i, j, n) ==
  /\ \E Q : Laid(a, b, i, j, Q) /\ Cardinality(Q) = n
  /\ \A Q : Laid(a, b, i, j, Q) => Cardinality(Q) <= n

\* Sets of positions are finite.
LEMMA PositionsFinite ==
  ASSUME NEW i \in Nat, NEW Q \in SUBSET (1..i)
  PROVE  IsFiniteSet(Q) /\ Cardinality(Q) \in Nat
<1>1. IsFiniteSet(1..i)
  BY FS_Interval
<1>2. IsFiniteSet(Q)
  BY <1>1, FS_Subset
<1> QED  BY <1>2, FS_CardinalityType

\* Nothing is laid onto nothing.
LEMMA NoneLaid ==
  ASSUME NEW a, NEW b, NEW i \in Nat, NEW j \in Nat, i = 0 \/ j = 0
  PROVE  MostLaid(a, b, i, j, 0)
<1>1. \A Q : Laid(a, b, i, j, Q) => Q = {}
  <2> SUFFICES ASSUME NEW Q, Laid(a, b, i, j, Q), NEW q \in Q  PROVE FALSE
    OBVIOUS
  <2>1. PICK lay : lay \in [Q -> 1..j]
    BY DEF Laid, Lays
  <2>2. q \in 1..i /\ lay[q] \in 1..j
    BY <2>1 DEF Laid
  <2> QED  BY <2>2
<1>2. Laid(a, b, i, j, {})
  <2>1. Lays([x \in {} |-> 1], a, b, j, {})
    BY DEF Lays
  <2> QED  BY <2>1 DEF Laid
<1>3. Cardinality({}) = 0
  BY FS_EmptySet
<1> QED  BY <1>1, <1>2, <1>3 DEF MostLaid

\* A part of what is laid is laid.
LEMMA PartLaid ==
  ASSUME NEW a, NEW b, NEW i \in Nat, NEW j \in Nat, NEW Q, NEW lay, NEW k \in Nat,
         Lays(lay, a, b, j, Q), NEW P \in SUBSET Q, P \in SUBSET (1..i),
         \A x \in P : lay[x] <= k
  PROVE  Laid(a, b, i, k, P)
<1> DEFINE r == [x \in P |-> lay[x]]
<1>1. /\ lay \in [Q -> 1..j]
      /\ \A x, y \in Q : a[x] = b[lay[x]] /\ (x < y => lay[x] < lay[y])
  BY DEF Lays
<1>2. \A x \in P : r[x] = lay[x] /\ lay[x] \in 1..k
  BY <1>1
<1>3. r \in [P -> 1..k]
  BY <1>2
<1> HIDE DEF r
<1>4. Lays(r, a, b, k, P)
  BY <1>1, <1>2, <1>3 DEF Lays
<1> QED  BY <1>4 DEF Laid

\* Equal last options are laid onto each other.
LEMMA EqualLaid ==
  ASSUME NEW a, NEW b, NEW i \in Nat, NEW j \in Nat, i > 0, j > 0, a[i] = b[j],
         NEW n \in Nat, MostLaid(a, b, i - 1, j - 1, n)
  PROVE  MostLaid(a, b, i, j, n + 1)
<1>1. PICK Q : Laid(a, b, i - 1, j - 1, Q) /\ Cardinality(Q) = n
  BY DEF MostLaid
<1>2. \E P : Laid(a, b, i, j, P) /\ Cardinality(P) = n + 1
  <2> DEFINE P == Q \cup {i}
  <2>1. PICK lay : Lays(lay, a, b, j - 1, Q)
    BY <1>1 DEF Laid
  <2>2. /\ lay \in [Q -> 1..(j - 1)] /\ Q \in SUBSET (1..(i - 1))
        /\ \A x, y \in Q : a[x] = b[lay[x]] /\ (x < y => lay[x] < lay[y])
    BY <1>1, <2>1 DEF Laid, Lays
  <2> DEFINE r == [x \in P |-> IF x = i THEN j ELSE lay[x]]
  <2>3. i \notin Q /\ P \in SUBSET (1..i) /\ \A x \in Q : x < i /\ x \in Nat
    BY <2>2
  <2>4. \A x \in Q : r[x] = lay[x] /\ lay[x] \in 1..j /\ lay[x] < j
    BY <2>2, <2>3
  <2>5. r[i] = j /\ j \in 1..j
    OBVIOUS
  <2>6. r \in [P -> 1..j]
    BY <2>4, <2>5
  <2> HIDE DEF r
  <2>7. ASSUME NEW x \in P, NEW y \in P
        PROVE  a[x] = b[r[x]] /\ (x < y => r[x] < r[y])
    <3>1. CASE x = i
      BY <2>3, <2>5, <3>1
    <3>2. CASE x \in Q /\ y = i
      BY <2>2, <2>4, <2>5, <3>2
    <3>3. CASE x \in Q /\ y \in Q
      BY <2>2, <2>4, <3>3
    <3> QED  BY <3>1, <3>2, <3>3
  <2>8. Laid(a, b, i, j, P)
    BY <2>3, <2>6, <2>7 DEF Laid, Lays
  <2>9. IsFiniteSet(Q)
    <3>1. i - 1 \in Nat
      OBVIOUS
    <3> QED  BY <2>2, <3>1, PositionsFinite
  <2>10. Cardinality(P) = n + 1
    BY <1>1, <2>3, <2>9, FS_AddElement
  <2> QED  BY <2>8, <2>10
<1>3. ASSUME NEW P, Laid(a, b, i, j, P)  PROVE Cardinality(P) <= n + 1
  <2>1. PICK lay : Lays(lay, a, b, j, P)
    BY <1>3 DEF Laid
  <2>2. /\ lay \in [P -> 1..j] /\ P \in SUBSET (1..i)
        /\ \A x, y \in P : x < y => lay[x] < lay[y]
    BY <1>3, <2>1 DEF Laid, Lays
  <2>3. IsFiniteSet(P) /\ Cardinality(P) \in Nat
    BY <2>2, PositionsFinite
  \* Without its last position it is laid onto what is before the last of b.
  <2>4. ASSUME NEW z \in P, \A x \in P : x <= z
        PROVE  Cardinality(P) <= n + 1
    <3>1. P \ {z} \in SUBSET P /\ P \ {z} \in SUBSET (1..(i - 1))
      BY <2>2, <2>4
    <3>2. ASSUME NEW x \in P \ {z}  PROVE lay[x] <= j - 1
      <4>1. x < z
        BY <2>2, <2>4
      <4> QED  BY <2>2, <4>1
    <3>3. Laid(a, b, i - 1, j - 1, P \ {z})
      BY <2>1, <3>1, <3>2, PartLaid
    <3>4. Cardinality(P \ {z}) <= n
      BY <3>3 DEF MostLaid
    <3>5. Cardinality(P \ {z}) = Cardinality(P) - 1
      BY <2>3, FS_RemoveElement
    <3> QED  BY <2>3, <3>4, <3>5
  <2>5. CASE P = {}
    BY <2>5, FS_EmptySet
  <2>6. CASE P # {}
    <3> DEFINE T == {i - x : x \in P}
    <3>1. T \in SUBSET Nat /\ T # {}
      <4>1. \A x \in P : i - x \in Nat
        BY <2>2
      <4> QED  BY <2>6, <4>1
    <3>2. PICK t \in T : \A u \in T : t <= u
      <4> HIDE DEF T
      <4> QED  BY <3>1, LeastNumber
    <3>3. PICK z \in P : t = i - z
      OBVIOUS
    <3>4. \A x \in P : i - z <= i - x
      BY <3>2, <3>3
    <3>5. \A x \in P : x <= z
      BY <2>2, <3>4
    <3> QED  BY <2>4, <3>5
  <2> QED  BY <2>5, <2>6
<1> QED  BY <1>2, <1>3 DEF MostLaid

\* Of different ones, one is left out.
LEMMA OtherLaid ==
  ASSUME NEW a, NEW b, NEW i \in Nat, NEW j \in Nat, i > 0, j > 0, a[i] # b[j],
         NEW m \in Nat, MostLaid(a, b, i, j - 1, m), NEW n \in Nat, MostLaid(a, b, i - 1, j, n)
  PROVE  MostLaid(a, b, i, j, Larger(m, n))
<1>1. ASSUME NEW Q, Laid(a, b, i, j - 1, Q)  PROVE Laid(a, b, i, j, Q)
  <2>1. PICK lay : Lays(lay, a, b, j - 1, Q)
    BY <1>1 DEF Laid
  <2>2. \A x \in Q : lay[x] <= j
    BY <2>1 DEF Lays
  <2>3. Q \in SUBSET Q /\ Q \in SUBSET (1..i) /\ j - 1 \in Nat
    BY <1>1 DEF Laid
  <2> QED  BY <2>1, <2>2, <2>3, PartLaid
<1>2. ASSUME NEW Q, Laid(a, b, i - 1, j, Q)  PROVE Laid(a, b, i, j, Q)
  BY <1>2 DEF Laid
<1>3. \E Q : Laid(a, b, i, j, Q) /\ Cardinality(Q) = Larger(m, n)
  BY <1>1, <1>2 DEF MostLaid, Larger
<1>4. ASSUME NEW Q, Laid(a, b, i, j, Q)  PROVE Cardinality(Q) <= m \/ Cardinality(Q) <= n
  <2>1. PICK lay : Lays(lay, a, b, j, Q)
    BY <1>4 DEF Laid
  <2>2. /\ lay \in [Q -> 1..j] /\ Q \in SUBSET (1..i)
        /\ \A x, y \in Q : a[x] = b[lay[x]] /\ (x < y => lay[x] < lay[y])
    BY <1>4, <2>1 DEF Laid, Lays
  <2>3. CASE i \notin Q
    <3>1. Q \in SUBSET (1..(i - 1)) /\ \A x \in Q : lay[x] <= j
      BY <2>2, <2>3
    <3>2. Q \in SUBSET Q /\ i - 1 \in Nat
      OBVIOUS
    <3>3. Laid(a, b, i - 1, j, Q)
      BY <2>1, <3>1, <3>2, PartLaid
    <3> QED  BY <3>3 DEF MostLaid
  <2>4. CASE i \in Q
    <3>1. lay[i] \in 1..j /\ lay[i] # j
      BY <2>2, <2>4
    <3>2. ASSUME NEW x \in Q  PROVE lay[x] <= j - 1
      <4>1. x = i \/ x < i
        BY <2>2
      <4>2. x < i => lay[x] < lay[i]
        BY <2>2, <2>4
      <4> QED  BY <2>2, <3>1, <4>1, <4>2
    <3>3. Q \in SUBSET Q /\ j - 1 \in Nat
      OBVIOUS
    <3>4. Laid(a, b, i, j - 1, Q)
      BY <2>1, <2>2, <3>2, <3>3, PartLaid
    <3> QED  BY <3>4 DEF MostLaid
  <2> QED  BY <2>3, <2>4
<1>5. ASSUME NEW Q, Laid(a, b, i, j, Q)  PROVE Cardinality(Q) <= Larger(m, n)
  <2>1. Cardinality(Q) \in Nat
    BY <1>5, PositionsFinite DEF Laid
  <2> QED  BY <1>4, <1>5, <2>1 DEF Larger
<1> QED  BY <1>3, <1>5 DEF MostLaid

\* A table of lengths holds the most that can be laid.
LEMMA RowsHoldMost ==
  ASSUME NEW a, NEW b, Len(a) \in Nat, Len(b) \in Nat
  PROVE  \A i \in 0..Len(a), j \in 0..Len(b) : MostLaid(a, b, i, j, Rows(a, b)[i][j])
<1> DEFINE r == Rows(a, b)
           m == Len(a)
           n == Len(b)
           Held(i) == r[i] \in [0..n -> Nat] /\ \A j \in 0..n : MostLaid(a, b, i, j, r[i][j])
           T == {i \in 0..m : ~ Held(i)}
<1>1. /\ r[0] = [j \in 0..n |-> 0]
      /\ \A i \in 1..m : r[i] = NextRow(r[i - 1], a[i], b)
  BY RowsUnfold
<1>2. m \in Nat /\ n \in Nat
  OBVIOUS
<1> HIDE DEF r
<1>3. Held(0)
  <2>1. r[0] \in [0..n -> Nat] /\ \A j \in 0..n : r[0][j] = 0 /\ j \in Nat
    BY <1>1
  <2>2. \A j \in 0..n : MostLaid(a, b, 0, j, 0)
    BY <2>1, NoneLaid
  <2> QED  BY <2>1, <2>2
<1>4. ASSUME NEW i \in 1..m, Held(i - 1)  PROVE Held(i)
  <2> DEFINE above == r[i - 1]
  <2>1. above \in [0..n -> Nat] /\ \A j \in 0..n : MostLaid(a, b, i - 1, j, above[j])
    BY <1>4
  <2> HIDE DEF above
  <2>2. r[i] = NextRow(above, a[i], b)
    BY <1>1 DEF above
  <2>3. /\ r[i] \in [0..n -> Nat] /\ r[i][0] = 0
        /\ \A j \in 1..n : r[i][j] = Cell(above, a[i], b, j, r[i][j - 1])
    BY <1>2, <2>1, <2>2, RowUnfolds
  <2> DEFINE U == {j \in 0..n : ~ MostLaid(a, b, i, j, r[i][j])}
  <2>4. U = {}
    <3> SUFFICES ASSUME U # {}  PROVE FALSE
      OBVIOUS
    <3>1. PICK j \in U : \A k \in U : j <= k
      <4>1. U \in SUBSET Nat
        OBVIOUS
      <4> HIDE DEF U
      <4> QED  BY <4>1, LeastNumber
    <3>2. i \in Nat /\ j \in Nat /\ i > 0 /\ j \in 0..n /\ ~ MostLaid(a, b, i, j, r[i][j])
      BY <1>2, <3>1
    <3>3. j # 0
      <4>1. j = 0 => MostLaid(a, b, i, j, 0)
        BY <3>2, NoneLaid
      <4> QED  BY <2>3, <3>2, <4>1
    <3>4. j > 0 /\ j \in 1..n /\ j - 1 \in 0..n /\ j - 1 \notin U
      BY <1>2, <3>1, <3>2, <3>3
    <3>5. r[i][j - 1] \in Nat /\ MostLaid(a, b, i, j - 1, r[i][j - 1])
      BY <2>3, <3>4
    <3>6. /\ above[j] \in Nat /\ above[j - 1] \in Nat
          /\ MostLaid(a, b, i - 1, j, above[j]) /\ MostLaid(a, b, i - 1, j - 1, above[j - 1])
      BY <2>1, <3>2, <3>4
    <3>7. r[i][j] = IF a[i] = b[j] THEN above[j - 1] + 1 ELSE Larger(r[i][j - 1], above[j])
      BY <2>3, <3>4 DEF Cell
    <3> HIDE DEF U
    <3>8. CASE a[i] = b[j]
      BY <3>2, <3>4, <3>6, <3>7, <3>8, EqualLaid
    <3>9. CASE a[i] # b[j]
      BY <3>2, <3>4, <3>5, <3>6, <3>7, <3>9, OtherLaid
    <3> QED  BY <3>8, <3>9
  <2> QED  BY <2>3, <2>4
<1>5. T = {}
  <2> SUFFICES ASSUME T # {}  PROVE FALSE
    OBVIOUS
  <2>1. PICK i \in T : \A k \in T : i <= k
    <3>1. T \in SUBSET Nat
      OBVIOUS
    <3> HIDE DEF T
    <3> QED  BY <3>1, LeastNumber
  <2>2. i # 0
    BY <1>3, <2>1
  <2>3. i \in 1..m /\ i - 1 \in 0..m /\ i - 1 \notin T
    BY <1>2, <2>1, <2>2
  <2> HIDE DEF Held
  <2> QED  BY <1>4, <2>1, <2>3
<1> QED  BY <1>5 DEF r

\* Max is a greatest member, if there is one.
LEMMA MaxIsGreatest ==
  ASSUME NEW S, \E y \in S : \A x \in S : y >= x
  PROVE  Max(S) \in S /\ \A x \in S : Max(S) >= x
BY DEF Max

\* And a member that none exceeds is the greatest.
LEMMA MaxIs ==
  ASSUME NEW S \in SUBSET Int, NEW n \in S, \A x \in S : x <= n
  PROVE  Max(S) = n
<1>1. \E y \in S : \A x \in S : y >= x
  OBVIOUS
<1>2. Max(S) \in S /\ \A x \in S : Max(S) >= x
  BY <1>1, MaxIsGreatest
<1>3. Max(S) \in Int /\ n \in Int
  BY <1>2
<1>4. Max(S) <= n /\ Max(S) >= n
  BY <1>2
<1> DEFINE m == Max(S)
<1> HIDE DEF m
<1>5. m \in Int /\ n \in Int /\ m <= n /\ m >= n
  BY <1>3, <1>4 DEF m
<1> QED  BY <1>5 DEF m

\* The similarity is the length of the longest common subsequence (fingerprint.rs:300).
LEMMA CommonIsLongest ==
  ASSUME NEW a, NEW b, Len(a) \in Nat, Len(b) \in Nat
  PROVE  /\ CommonByPositions(a, b) = Common(a, b)
         /\ MostLaid(a, b, Len(a), Len(b), Common(a, b)) /\ Common(a, b) \in Nat
<1> DEFINE n == Common(a, b)
           Sizes == {Cardinality(P) : P \in {Q \in SUBSET (1..Len(a)) :
                       \E lay \in [Q -> 1..Len(b)] :
                         \A i, j \in Q : a[i] = b[lay[i]] /\ (i < j => lay[i] < lay[j])}}
<1>1. MostLaid(a, b, Len(a), Len(b), n)
  BY RowsHoldMost DEF Common
<1>2. \A Q \in SUBSET (1..Len(a)) : Cardinality(Q) \in Nat
  BY PositionsFinite
<1>3. \A s : s \in Sizes <=> \E Q : Laid(a, b, Len(a), Len(b), Q) /\ Cardinality(Q) = s
  BY DEF Laid, Lays
<1>4. \A Q : Laid(a, b, Len(a), Len(b), Q) => Cardinality(Q) \in Nat /\ Cardinality(Q) <= n
  BY <1>1, <1>2 DEF MostLaid, Laid
<1>5. CommonByPositions(a, b) = Max(Sizes)
  BY DEF CommonByPositions
<1> HIDE DEF Sizes
<1>6. n \in Sizes
  BY <1>1, <1>3 DEF MostLaid
<1>7. Sizes \in SUBSET Int /\ n \in Nat /\ \A s \in Sizes : s <= n
  BY <1>3, <1>4, <1>6
<1>8. Max(Sizes) = n
  BY <1>6, <1>7, MaxIs
<1> QED  BY <1>1, <1>5, <1>7, <1>8

-----------------------------------------------------------------------------
(***************************************************************************)
(* A fingerprint speaks for the nearest class                             *)
(***************************************************************************)
\* The size of an interval.
LEMMA IntervalSize == \A k \in Nat : IsFiniteSet(1..k) /\ Cardinality(1..k) = k
BY FS_Interval

\* It is no longer than the first list, and as long as both when they are equal.
LEMMA CommonOfEqual ==
  ASSUME NEW a, NEW b, Len(a) \in Nat, Len(b) \in Nat
  PROVE  Common(a, b) <= Len(a) /\ Common(a, a) = Len(a)
<1>0. \A k \in Nat : IsFiniteSet(1..k) /\ Cardinality(1..k) = k
  BY IntervalSize
<1>1. \A Q : Q \in SUBSET (1..Len(a)) => Cardinality(Q) \in Nat /\ Cardinality(Q) <= Len(a)
  <2> SUFFICES ASSUME NEW Q \in SUBSET (1..Len(a))
               PROVE  Cardinality(Q) \in Nat /\ Cardinality(Q) <= Len(a)
    OBVIOUS
  <2>1. IsFiniteSet(1..Len(a)) /\ Cardinality(1..Len(a)) = Len(a)
    BY <1>0
  <2>2. Cardinality(Q) <= Cardinality(1..Len(a))
    BY <2>1, FS_Subset
  <2> QED  BY <2>1, <2>2, PositionsFinite
<1>2. ASSUME NEW c, Len(c) \in Nat  PROVE Common(a, c) \in Nat /\ Common(a, c) <= Len(a)
  <2>1. PICK Q : Laid(a, c, Len(a), Len(c), Q) /\ Cardinality(Q) = Common(a, c)
    BY <1>2, CommonIsLongest DEF MostLaid
  <2> QED  BY <1>1, <2>1 DEF Laid
<1>3. Laid(a, a, Len(a), Len(a), 1..Len(a))
  <2>1. Lays([x \in 1..Len(a) |-> x], a, a, Len(a), 1..Len(a))
    BY DEF Lays
  <2> QED  BY <2>1 DEF Laid
<1>4. Cardinality(1..Len(a)) = Len(a)
  BY <1>0
<1>5. Len(a) <= Common(a, a)
  BY <1>3, <1>4, CommonIsLongest DEF MostLaid
<1>6. Common(a, a) = Len(a)
  BY <1>2, <1>5
<1> QED  BY <1>2, <1>6

\* Products keep an order.
LEMMA NoMoreTimes ==
  ASSUME NEW c \in Nat, NEW m \in Nat, NEW n \in Nat, c <= m
  PROVE  c * n <= n * m
<1>1. PICK d \in Nat : m = c + d
  <2>1. m - c \in Nat /\ m = c + (m - c)
    OBVIOUS
  <2> QED  BY <2>1
<1>2. n * m = c * n + d * n /\ d * n \in Nat /\ c * n \in Nat
  BY <1>1
<1> QED  BY <1>2

\* The longer of two lengths, by either definition.
LEMMA LongerIs ==
  ASSUME NEW a, NEW b, Len(a) \in Nat, Len(b) \in Nat
  PROVE  /\ Max({Len(a), Len(b)}) = LongerLength(a, b) /\ LongerLength(a, b) \in Nat
         /\ Len(a) <= LongerLength(a, b) /\ LongerLength(a, a) = Len(a)
<1> DEFINE n == LongerLength(a, b)
           S == {Len(a), Len(b)}
<1>1. /\ n \in Nat /\ n \in S /\ Len(a) <= n /\ Len(b) <= n /\ LongerLength(a, a) = Len(a)
  BY DEF LongerLength, Larger
<1>2. S \in SUBSET Int /\ \A x \in S : x <= n
  BY <1>1
<1> HIDE DEF n, S
<1>3. Max(S) = n
  BY <1>1, <1>2, MaxIs
<1> QED  BY <1>1, <1>3 DEF n, S

\* The lists of a table of a build or of a file are lists of options.
LEMMA ListsOfTable ==
  ASSUME NEW t \in Tables
  PROVE  /\ Lists(t) \in SUBSET (Nat \X Nat)
         /\ \A at \in Lists(t) : ListAt(t, at) \in Seq(OptionCodes)
<1> DEFINE All == ToSet(Embedded) \cup ToSet(Downloaded)
<1>1. \A class \in All : class.lists \in Seq(Seq(OptionCodes))
  BY ClassificationAssumption
<1>2. t \in Seq(All)
  BY DEF Tables
<1> HIDE DEF All
<1>3. ASSUME NEW at \in Lists(t)
      PROVE  at \in Nat \X Nat /\ ListAt(t, at) \in Seq(OptionCodes)
  <2>1. PICK c \in 1..Len(t) : at \in {c} \X (1..Len(t[c].lists))
    BY DEF Lists
  <2>2. at[1] = c /\ at[2] \in 1..Len(t[c].lists) /\ at = <<at[1], at[2]>>
    BY <2>1
  <2>3. t[c] \in All
    BY <1>2
  <2>4. t[c].lists \in Seq(Seq(OptionCodes))
    BY <1>1, <2>3
  <2>5. t[c].lists[at[2]] \in Seq(OptionCodes)
    BY <2>2, <2>4
  <2>6. at[1] \in Nat /\ at[2] \in Nat
    BY <1>2, <2>2, <2>4
  <2> QED  BY <2>2, <2>5, <2>6 DEF ListAt
<1> QED  BY <1>3

\* No list of a table is nearer than the first that matches.
LEMMA FirstIsNearest ==
  ASSUME NEW t \in Tables, NEW list \in Seq(OptionCodes), Matches(t, list) # {},
         NEW at \in Lists(t)
  PROVE  /\ First(Matches(t, list)) \in Lists(t)
         /\ AsNear(list, ListAt(t, First(Matches(t, list))), ListAt(t, at))
<1> DEFINE found == Matches(t, list)
           f == First(found)
<1>1. Lists(t) \in SUBSET (Nat \X Nat) /\ ListAt(t, at) \in Seq(OptionCodes)
  BY ListsOfTable
<1>2. /\ found \in SUBSET Lists(t)
      /\ \A o \in found : \/ ListAt(t, o) = list
                          \/ \A p \in Lists(t) : AsNear(list, ListAt(t, o), ListAt(t, p))
  BY DEF Matches
<1>3. found # {}
  OBVIOUS
<1> HIDE DEF found
<1>4. f \in found
  <2>1. found \in SUBSET (Nat \X Nat)
    BY <1>1, <1>2
  <2> QED  BY <1>3, <2>1, FirstIsFirst
<1> HIDE DEF f
<1>5. CASE ListAt(t, f) = list
  <2> DEFINE y == ListAt(t, at)
             c == Common(list, y)
             m == LongerLength(list, y)
             n == Len(list)
  <2>1. Len(list) \in Nat /\ Len(y) \in Nat
    BY <1>1
  <2> HIDE DEF y
  <2>2. c \in Nat /\ c <= n /\ Common(list, list) = n
    BY <2>1, CommonIsLongest, CommonOfEqual
  <2>3. m \in Nat /\ n <= m /\ LongerLength(list, list) = n
    BY <2>1, LongerIs
  <2>4. c * n <= n * m
    <3> HIDE DEF c, m, n
    <3>1. c <= m /\ n \in Nat
      BY <2>1, <2>2, <2>3 DEF n
    <3> QED  BY <2>2, <2>3, <3>1, NoMoreTimes
  <2>5. AsNear(list, list, y)
    BY <2>2, <2>3, <2>4 DEF AsNear
  <2> QED  BY <1>2, <1>4, <1>5, <2>5 DEF y, f, found
<1>6. CASE \A p \in Lists(t) : AsNear(list, ListAt(t, f), ListAt(t, p))
  BY <1>2, <1>4, <1>6 DEF f, found
<1> QED  BY <1>2, <1>4, <1>5, <1>6

\* What a fingerprint speaks for is a class that no other list is nearer to.
LEMMA NearestIsHeard ==
  ASSUME ClassIInv
  PROVE  NearestSpeaks
<1> SUFFICES ASSUME NEW i \in 1..Len(stored), stored[i].signal.kind = "fingerprint"
             PROVE  LET list == stored[i].signal.value
                        found == Matches(table, list)
                        longer(at) == Max({Len(list), Len(ListAt(table, at))})
                        common(at) == CommonByPositions(list, ListAt(table, at))
                    IN  found # {} => \A at \in Lists(table) :
                          common(at) * longer(First(found)) <= common(First(found)) * longer(at)
  BY DEF NearestSpeaks
<1> DEFINE list == stored[i].signal.value
           found == Matches(table, list)
           f == First(found)
<1>1. table \in Tables /\ stored \in Seq(Confirmations)
  BY DEF ClassIInv, TablesHeld, Ordered, ListsMatch
<1>2. list \in Seq(OptionCodes)
  <2>0. stored[i] \in Confirmations
    BY <1>1
  <2>1. stored[i].signal \in Signals
    BY <2>0 DEF Confirmations
  <2> QED  BY <2>1, ClassificationAssumption DEF Signals
<1> HIDE DEF list
<1>3. ASSUME found # {}, NEW at \in Lists(table)
      PROVE  CommonByPositions(list, ListAt(table, at))
                 * Max({Len(list), Len(ListAt(table, f))})
               <= CommonByPositions(list, ListAt(table, f))
                    * Max({Len(list), Len(ListAt(table, at))})
  <2>1. f \in Lists(table) /\ AsNear(list, ListAt(table, f), ListAt(table, at))
    BY <1>1, <1>2, <1>3, FirstIsNearest
  <2> DEFINE x == ListAt(table, f)
             y == ListAt(table, at)
  <2>2. Len(list) \in Nat /\ Len(x) \in Nat /\ Len(y) \in Nat
    <3>1. x \in Seq(OptionCodes) /\ y \in Seq(OptionCodes)
      BY <1>1, <2>1, ListsOfTable
    <3> HIDE DEF x, y
    <3> QED  BY <1>2, <3>1
  <2>3. AsNear(list, x, y)
    BY <2>1
  <2> HIDE DEF x, y
  <2>4. /\ CommonByPositions(list, x) = Common(list, x)
        /\ CommonByPositions(list, y) = Common(list, y)
    BY <2>2, CommonIsLongest
  <2>5. /\ Max({Len(list), Len(x)}) = LongerLength(list, x)
        /\ Max({Len(list), Len(y)}) = LongerLength(list, y)
    BY <2>2, LongerIs
  <2>6. CommonByPositions(list, y) * Max({Len(list), Len(x)})
          <= CommonByPositions(list, x) * Max({Len(list), Len(y)})
    BY <2>3, <2>4, <2>5 DEF AsNear
  <2> QED  BY <2>6 DEF x, y
<1> QED  BY <1>3 DEF list

\* The evidence decides what a device is, in whatever order it came, and a fingerprint
\* speaks for the nearest class.
THEOREM EvidenceHolds == ClassSpec => []EvidenceDecides
<1>1. ClassIInv => EvidenceDecides
  BY NearestIsHeard DEF ClassIInv, EvidenceDecides
<1>2. ClassInit => ClassIInv
  BY ClassStart
<1>3. ClassIInv /\ [ClassNext]_classVars => ClassIInv'
  BY ClassStep
<1> QED  BY <1>1, <1>2, <1>3, PTL DEF ClassSpec

-----------------------------------------------------------------------------
(***************************************************************************)
(* Leases: options on the wire                                             *)
(***************************************************************************)
\* What can be written with an octet for its length.
Wire == {o \in [code : Byte, value : Seq(Byte)] : Len(o.value) \in Byte}

\* The options of a list and where each of them ends.
OptionEnds(u, items) ==
  /\ u \in [0..Len(items) -> Seq(Byte)] /\ u[0] = << >>
  /\ \A k \in 1..Len(items) : u[k] = u[k - 1] \o Written(items[k])
  /\ u[Len(items)] = Joined(items)

\* An option is its code, its length and its value.
LEMMA WrittenIs ==
  ASSUME NEW o \in Wire
  PROVE  /\ Written(o) \in Seq(Byte) /\ Len(Written(o)) = Len(o.value) + 2
         /\ Written(o)[1] = o.code /\ Written(o)[2] = Len(o.value)
         /\ \A x \in 1..Len(o.value) : Written(o)[x + 2] = o.value[x]
<1> DEFINE head == <<o.code, Len(o.value)>>
           v == o.value
<1>1. /\ head \in Seq(Byte) /\ Len(head) = 2 /\ head[1] = o.code /\ head[2] = Len(v)
      /\ v \in Seq(Byte) /\ Len(v) \in Nat
  BY DEF Wire
<1>2. Written(o) = head \o v
  BY DEF Written
<1> HIDE DEF head, v
<1>3. /\ head \o v \in Seq(Byte) /\ Len(head \o v) = 2 + Len(v)
      /\ \A i \in 1..(2 + Len(v)) : (head \o v)[i] = IF i <= 2 THEN head[i] ELSE v[i - 2]
  <2>1. /\ head \o v \in Seq(Byte) /\ Len(head \o v) = Len(head) + Len(v)
        /\ \A i \in 1..(Len(head) + Len(v)) :
             (head \o v)[i] = IF i <= Len(head) THEN head[i] ELSE v[i - Len(head)]
    BY <1>1, ConcatEntries
  <2> QED  BY <1>1, <2>1
<1>4. (head \o v)[1] = head[1] /\ (head \o v)[2] = head[2]
  BY <1>1, <1>3
<1>5. ASSUME NEW x \in 1..Len(v)  PROVE (head \o v)[x + 2] = v[x]
  <2>1. x + 2 \in 1..(2 + Len(v)) /\ ~(x + 2 <= 2) /\ (x + 2) - 2 = x
    BY <1>1
  <2> QED  BY <1>3, <2>1
<1> QED  BY <1>1, <1>2, <1>3, <1>4, <1>5 DEF v

\* Options can be joined one by one.
LEMMA JoinedUnfolds ==
  ASSUME NEW items \in Seq(Wire)
  PROVE  \E u : OptionEnds(u, items)
<1> DEFINE n == Len(items)
           Is(f) == f = [k \in 0..n |-> IF k = 0 THEN << >> ELSE f[k - 1] \o Written(items[k])]
           step == [k \in 1..n |-> [s \in Seq(Byte) |-> s \o Written(items[k])]]
           c == CHOOSE f : Is(f)
<1>1. Joined(items) = c[n]
  BY DEF Joined
<1>2. n \in Nat /\ \A k \in 1..n : items[k] \in Wire
  OBVIOUS
<1>3. \A k \in 1..n : Written(items[k]) \in Seq(Byte)
  BY <1>2, WrittenIs
<1>4. \A k \in 1..n, s \in Seq(Byte) : s \o Written(items[k]) \in Seq(Byte)
  BY <1>3, ConcatEntries
<1>5. step \in [1..n -> [Seq(Byte) -> Seq(Byte)]] /\ << >> \in Seq(Byte)
  BY <1>4
<1>6. \A k \in 1..n, s \in Seq(Byte) : step[k][s] = s \o Written(items[k])
  OBVIOUS
<1> HIDE DEF step, c
<1>7. PICK f : StepsUpTo(f, n, << >>, step, Seq(Byte))
  BY <1>2, <1>5, StepsExist
<1>8. /\ f \in [0..n -> Seq(Byte)] /\ f[0] = << >>
      /\ \A k \in 1..n : f[k] = step[k][f[k - 1]]
  BY <1>7 DEF StepsUpTo
<1>9. ASSUME NEW k \in 1..n  PROVE f[k] = f[k - 1] \o Written(items[k])
  <2>1. k - 1 \in 0..n
    BY <1>2
  <2>2. f[k - 1] \in Seq(Byte)
    BY <1>8, <2>1
  <2> QED  BY <1>6, <1>8, <2>2
<1>10. Is(f)
  <2>1. \A k \in 0..n : k = 0 \/ k \in 1..n
    BY <1>2
  <2> HIDE DEF n
  <2> QED  BY <1>8, <1>9, <2>1
<1>11. Is(c)
  BY <1>10 DEF c
<1>12. c[0] = << >> /\ \A k \in 1..n : c[k] = c[k - 1] \o Written(items[k])
  BY <1>2, <1>11
<1>13. c \in [0..n -> Seq(Byte)]
  <2> DEFINE T == {k \in 0..n : c[k] \notin Seq(Byte)}
  <2>1. T = {}
    <3> SUFFICES ASSUME T # {}  PROVE FALSE
      OBVIOUS
    <3>1. PICK k \in T : \A j \in T : k <= j
      <4>1. T \in SUBSET Nat
        OBVIOUS
      <4> HIDE DEF T
      <4> QED  BY <4>1, LeastNumber
    <3>2. k # 0
      BY <1>5, <1>12, <3>1
    <3>4. k \in 1..n /\ k - 1 \in 0..n /\ ~(k <= k - 1)
      BY <1>2, <3>1, <3>2
    <3>5. k - 1 \notin T
      BY <3>1, <3>4
    <3>3. c[k - 1] \in Seq(Byte)
      BY <3>4, <3>5
    <3> QED  BY <1>4, <1>12, <3>1, <3>3, <3>4
  <2>2. \A k \in 0..n : c[k] \in Seq(Byte)
    BY <2>1
  <2>3. c = [k \in 0..n |-> c[k]]
    BY <1>11
  <2> QED  BY <2>2, <2>3
<1> QED  BY <1>1, <1>12, <1>13 DEF OptionEnds

\* What is joined first stays where it is.
LEMMA JoinedPrefix ==
  ASSUME NEW items \in Seq(Wire), NEW u, OptionEnds(u, items),
         NEW l \in 0..Len(items), NEW k \in 0..l
  PROVE  Len(u[k]) <= Len(u[l]) /\ \A x \in 1..Len(u[k]) : u[l][x] = u[k][x]
<1> DEFINE n == Len(items)
           P(m) == Len(u[k]) <= Len(u[m]) /\ \A x \in 1..Len(u[k]) : u[m][x] = u[k][x]
           T == {m \in k..n : ~P(m)}
<1>1. n \in Nat /\ k \in 0..n
  OBVIOUS
<1>2. \A m \in 0..n : u[m] \in Seq(Byte) /\ Len(u[m]) \in Nat
  BY DEF OptionEnds
<1>3. T = {}
  <2> SUFFICES ASSUME T # {}  PROVE FALSE
    OBVIOUS
  <2>1. PICK m \in T : \A j \in T : m <= j
    <3>1. T \in SUBSET Nat
      OBVIOUS
    <3> HIDE DEF T
    <3> QED  BY <3>1, LeastNumber
  <2>2. m # k
    BY <1>1, <1>2, <2>1
  <2>3. m \in 1..n /\ m - 1 \in k..n /\ m - 1 \notin T /\ m - 1 \in 0..n
    BY <1>1, <2>1, <2>2
  <2>4. P(m - 1)
    BY <2>3
  <2> DEFINE s == u[m - 1]
             t == Written(items[m])
  <2>5. s \in Seq(Byte) /\ t \in Seq(Byte) /\ u[m] = s \o t
    <3>1. items[m] \in Wire
      BY <2>3
    <3> QED  BY <1>2, <2>3, <3>1, WrittenIs DEF OptionEnds
  <2>6. Len(u[k]) <= Len(s) /\ \A x \in 1..Len(u[k]) : s[x] = u[k][x]
    BY <2>4
  <2> HIDE DEF s, t
  <2>7. /\ Len(s \o t) = Len(s) + Len(t) /\ Len(s) \in Nat /\ Len(t) \in Nat
        /\ \A x \in 1..(Len(s) + Len(t)) : (s \o t)[x] = IF x <= Len(s) THEN s[x] ELSE t[x - Len(s)]
    BY <2>5, ConcatEntries
  <2>8. Len(u[k]) \in Nat
    BY <1>1, <1>2
  <2>9. Len(u[k]) <= Len(u[m])
    BY <2>5, <2>6, <2>7, <2>8
  <2>10. ASSUME NEW x \in 1..Len(u[k])  PROVE u[m][x] = u[k][x]
    <3>1. x \in 1..(Len(s) + Len(t)) /\ x <= Len(s)
      BY <2>6, <2>7, <2>8
    <3> QED  BY <2>5, <2>6, <2>7, <3>1
  <2> QED  BY <2>1, <2>9, <2>10
<1>4. l \in k..n
  OBVIOUS
<1> QED  BY <1>3, <1>4

\* The option that is the k-th of a list, where the ones before it end.
StandsAt(list, x, o) ==
  /\ x + 2 + Len(o.value) <= Len(list)
  /\ list[x + 1] = o.code /\ list[x + 2] = Len(o.value)
  /\ \A y \in 1..Len(o.value) : list[x + 2 + y] = o.value[y]

\* Every option stands where those before it end.
LEMMA JoinedAt ==
  ASSUME NEW items \in Seq(Wire), NEW u, OptionEnds(u, items), NEW k \in 1..Len(items)
  PROVE  /\ StandsAt(Joined(items), Len(u[k - 1]), items[k])
         /\ Len(u[k]) = Len(u[k - 1]) + 2 + Len(items[k].value)
<1> DEFINE n == Len(items)
           o == items[k]
           s == u[k - 1]
           t == Written(o)
           v == o.value
<1>1. n \in Nat /\ k - 1 \in 0..n /\ k \in 0..n /\ o \in Wire
  OBVIOUS
<1>2. s \in Seq(Byte) /\ u[k] = s \o t /\ u[n] = Joined(items)
  BY <1>1 DEF OptionEnds
<1>3. /\ t \in Seq(Byte) /\ Len(t) = Len(v) + 2 /\ t[1] = o.code /\ t[2] = Len(v)
      /\ \A y \in 1..Len(v) : t[y + 2] = v[y]
      /\ Len(v) \in Nat
  <2>1. Len(v) \in Nat
    <3>1. o \in [code : Byte, value : Seq(Byte)]
      BY ONLY <1>1 DEF Wire
    <3>2. v \in Seq(Byte)
      BY ONLY <3>1
    <3> QED  BY ONLY <3>2
  <2>2. /\ Written(o) \in Seq(Byte) /\ Len(Written(o)) = Len(o.value) + 2
        /\ Written(o)[1] = o.code /\ Written(o)[2] = Len(o.value)
        /\ \A x \in 1..Len(o.value) : Written(o)[x + 2] = o.value[x]
    <3> HIDE DEF o
    <3> QED  BY <1>1, WrittenIs
  <2>3. t = Written(o) /\ v = o.value
    OBVIOUS
  <2> HIDE DEF t, v, o
  <2> QED  BY <2>1, <2>2, <2>3
<1>4. Len(u[k]) <= Len(u[n]) /\ \A x \in 1..Len(u[k]) : u[n][x] = u[k][x]
  BY <1>1, JoinedPrefix
<1> DEFINE J == Joined(items)
<1> HIDE DEF s, t, v, J
<1>5. /\ Len(s \o t) = Len(s) + Len(t) /\ Len(s) \in Nat
      /\ \A x \in 1..(Len(s) + Len(t)) : (s \o t)[x] = IF x <= Len(s) THEN s[x] ELSE t[x - Len(s)]
  <2>1. s \in Seq(Byte) /\ t \in Seq(Byte) /\ Len(s) \in Nat
    BY <1>2, <1>3
  <2> QED  BY <2>1, ConcatEntries
<1>6. /\ Len(u[k]) = Len(s) + 2 + Len(v) /\ Len(s) + 2 + Len(v) <= Len(J)
      /\ \A x \in 1..(Len(s) + Len(t)) : J[x] = IF x <= Len(s) THEN s[x] ELSE t[x - Len(s)]
  <2>1. u[k] = s \o t /\ u[n] = J /\ Len(s) + Len(t) = Len(s) + 2 + Len(v)
    BY <1>2, <1>3, <1>5 DEF J
  <2> QED  BY <1>4, <1>5, <2>1
<1>7. ASSUME NEW y \in 1..Len(t)  PROVE J[Len(s) + y] = t[y]
  <2>1. /\ Len(s) + y \in 1..(Len(s) + Len(t)) /\ ~(Len(s) + y <= Len(s))
        /\ (Len(s) + y) - Len(s) = y
    BY <1>3, <1>5
  <2> QED  BY <1>6, <2>1
<1>8. J[Len(s) + 1] = t[1] /\ J[Len(s) + 2] = t[2]
  BY <1>3, <1>7
<1>9. ASSUME NEW y \in 1..Len(v)  PROVE J[Len(s) + 2 + y] = v[y]
  <2>1. y + 2 \in 1..Len(t) /\ Len(s) + (y + 2) = Len(s) + 2 + y
    BY <1>3, <1>5
  <2>2. J[Len(s) + (y + 2)] = t[y + 2]
    BY <1>7, <2>1
  <2> QED  BY <1>3, <2>1, <2>2
<1> QED  BY <1>3, <1>6, <1>8, <1>9 DEF StandsAt, J, s, v

-----------------------------------------------------------------------------
(***************************************************************************)
(* Leases: the walk over a block                                           *)
(***************************************************************************)
\* As far as the end option a block is there.
Whole(block, items, p) == p + Len(Joined(items)) + 1 <= Len(block)

\* A block begins with p octets of padding and goes on with options and the end
\* option, as far as it goes.
Framed(block, items, p) ==
  /\ block \in Seq(Byte) /\ p \in 0..1
  /\ p = 1 /\ Len(block) # 0 => block[1] = OPT_PAD
  /\ \A x \in 1..Len(Joined(items)) : p + x <= Len(block) => block[p + x] = Joined(items)[x]
  /\ Whole(block, items, p) => block[p + Len(Joined(items)) + 1] = OPT_END

\* What may have been read after each of the options: S bounds it, and an option leads
\* from one to the next.
LeadsOn(K, S, items) ==
  /\ K \in [0..Len(items) -> SUBSET S]
  /\ \A k \in 1..Len(items) : \A r \in K[k - 1] :
       Absorb(r, items[k].code, items[k].value) \in K[k]

\* Options that are neither padding nor an end.
Plainly(items) ==
  /\ items \in Seq(Wire)
  /\ \A k \in 1..Len(items) : items[k].code \notin {OPT_PAD, OPT_END}

\* The loop is at the padding, or at the end of the first k options and has read them.
Reached(w, u, p, n, K) ==
  \/ p = 1 /\ w.at = 1 /\ w.read \in K[0]
  \/ \E k \in 0..n : w.at = p + Len(u[k]) + 1 /\ w.read \in K[k]

\* A part of a list, entry by entry.
LEMMA PartEntries ==
  ASSUME NEW S, NEW s \in Seq(S), NEW i \in 1..(Len(s) + 1), NEW j \in (i - 1)..Len(s)
  PROVE  /\ SubSeq(s, i, j) \in Seq(S) /\ Len(SubSeq(s, i, j)) = (j - i) + 1
         /\ \A y \in 1..((j - i) + 1) : SubSeq(s, i, j)[y] = s[(i + y) - 1]
OBVIOUS

\* Lists of the same entries are the same.
LEMMA SameEntries ==
  ASSUME NEW S, NEW s \in Seq(S), NEW t \in Seq(S), Len(s) = Len(t),
         \A y \in 1..Len(s) : s[y] = t[y]
  PROVE  s = t
OBVIOUS

\* A turn from there leads there, and it stays where it is only past the block or, if
\* the block is whole, after the last option.
LEMMA ReadOn ==
  ASSUME NEW items, Plainly(items), NEW u, OptionEnds(u, items), NEW p, NEW block,
         Framed(block, items, p), NEW S, NEW K, LeadsOn(K, S, items),
         NEW w \in [at : Nat, read : S], Reached(w, u, p, Len(items), K)
  PROVE  /\ ReadOption(block, w) \in [at : Nat, read : S]
         /\ Reached(ReadOption(block, w), u, p, Len(items), K)
         /\ ReadOption(block, w) = w \/ ReadOption(block, w).at > w.at
         /\ w.at > Len(block) => ReadOption(block, w) = w
         /\ ReadOption(block, w) = w /\ Whole(block, items, p) => w.read \in K[Len(items)]
<1> DEFINE n == Len(items)
           J == Joined(items)
           w2 == ReadOption(block, w)
           end == w.at + 1 + block[w.at + 1]
<1>1. /\ n \in Nat /\ items \in Seq(Wire) /\ \A k \in 1..n : items[k] \in Wire
      /\ p \in 0..1 /\ block \in Seq(Byte) /\ Len(block) \in Nat
      /\ w.at \in Nat /\ w.read \in S
  BY DEF Plainly, Framed
<1>2. /\ \A k \in 0..n : u[k] \in Seq(Byte) /\ Len(u[k]) \in Nat
      /\ u[0] = << >> /\ u[n] = J
  <2>1. u \in [0..n -> Seq(Byte)] /\ u[0] = << >> /\ u[n] = J
    BY DEF OptionEnds
  <2> HIDE DEF n, J
  <2> QED  BY <2>1
<1>3. \A k \in 0..n : Len(u[k]) <= Len(J)
  BY <1>1, <1>2, JoinedPrefix
<1>4. Len(J) \in Nat
  BY <1>1, <1>2
<1>5. w2 = IF w.at > Len(block) \/ block[w.at] = OPT_END THEN w
           ELSE IF block[w.at] = OPT_PAD THEN [w EXCEPT !.at = @ + 1]
           ELSE IF w.at = Len(block) \/ end > Len(block) THEN w
           ELSE [at |-> end + 1,
                 read |-> Absorb(w.read, block[w.at], SubSeq(block, w.at + 2, end))]
  BY DEF ReadOption
<1>6. Whole(block, items, p) <=> p + Len(J) + 1 <= Len(block)
  BY DEF Whole
<1>7. /\ p = 1 /\ Len(block) # 0 => block[1] = OPT_PAD
      /\ \A x \in 1..Len(J) : p + x <= Len(block) => block[p + x] = J[x]
      /\ p + Len(J) + 1 <= Len(block) => block[p + Len(J) + 1] = OPT_END
  BY <1>6 DEF Framed
<1>8. K \in [0..n -> SUBSET S]
  BY DEF LeadsOn
<1> HIDE DEF n, J, w2, end
<1>9. w.at > Len(block) => w2 = w
  BY <1>5
<1>10. CASE p = 1 /\ w.at = 1 /\ w.read \in K[0]
  <2>1. CASE Len(block) = 0
    BY <1>1, <1>4, <1>6, <1>9, <1>10, <2>1 DEF w2, n
  <2>2. CASE Len(block) # 0
    <3>1. /\ ~(w.at > Len(block)) /\ block[w.at] = OPT_PAD /\ OPT_PAD # OPT_END
      BY <1>1, <1>7, <1>10, <2>2 DEF OPT_PAD, OPT_END
    <3>2. w2 = [w EXCEPT !.at = @ + 1]
      BY <1>5, <3>1
    <3>3. w2.at = 2 /\ w2.read = w.read /\ w2 \in [at : Nat, read : S]
      BY <1>1, <1>10, <3>2
    <3>4. Len(u[0]) = 0 /\ 0 \in 0..n
      BY <1>1, <1>2
    <3>5. Reached(w2, u, p, n, K)
      BY <1>10, <3>3, <3>4 DEF Reached
    <3>6. w2.at > w.at /\ w2 # w
      BY <1>10, <3>3
    <3> QED  BY <1>9, <3>3, <3>5, <3>6 DEF w2, n
  <2> QED  BY <2>1, <2>2
<1>11. ASSUME NEW k \in 0..n, w.at = p + Len(u[k]) + 1, w.read \in K[k]
       PROVE  /\ w2 \in [at : Nat, read : S]
              /\ Reached(w2, u, p, n, K)
              /\ w2 = w \/ w2.at > w.at
              /\ w2 = w /\ Whole(block, items, p) => w.read \in K[n]
  <2>1. Reached(w, u, p, n, K) /\ Len(u[k]) \in Nat /\ Len(u[k]) <= Len(J)
    BY <1>2, <1>3, <1>11 DEF Reached
  <2>2. CASE w.at > Len(block)
    <3>1. ~Whole(block, items, p)
      BY <1>1, <1>4, <1>6, <1>11, <2>1, <2>2
    <3> QED  BY <1>9, <2>1, <2>2, <3>1
  <2>3. CASE k = n /\ ~(w.at > Len(block))
    <3>1. block[w.at] = OPT_END
      BY <1>1, <1>2, <1>4, <1>7, <1>11, <2>3
    <3>2. w2 = w
      BY <1>5, <3>1
    <3> QED  BY <1>11, <2>1, <2>3, <3>2
  <2>4. CASE k # n /\ ~(w.at > Len(block))
    <3> DEFINE o == items[k + 1]
               L == Len(o.value)
               f == Len(u[k])
    <3>1. k + 1 \in 1..n /\ (k + 1) - 1 = k
      BY <1>1, <2>4
    <3>2. StandsAt(J, Len(u[k]), o) /\ Len(u[k + 1]) = Len(u[k]) + 2 + Len(o.value)
      BY <1>1, <3>1, JoinedAt DEF n, J
    <3>3. /\ o \in Wire /\ o.value \in Seq(Byte) /\ L \in Nat
          /\ o.code \notin {OPT_PAD, OPT_END}
      BY <1>1, <3>1 DEF Wire, Plainly, n
    <3>4. /\ f + 2 + L <= Len(J) /\ J[f + 1] = o.code /\ J[f + 2] = L
          /\ \A y \in 1..L : J[f + 2 + y] = o.value[y]
          /\ Len(u[k + 1]) = f + 2 + L /\ f \in Nat /\ w.at = p + f + 1
      BY <1>11, <2>1, <3>2 DEF StandsAt
    <3>5. Absorb(w.read, o.code, o.value) \in K[k + 1]
      BY <1>11, <3>1 DEF LeadsOn, n
    <3> HIDE DEF o, L, f
    <3>6. block[w.at] = o.code
      <4>1. f + 1 \in 1..Len(J) /\ p + (f + 1) = w.at /\ w.at <= Len(block)
        BY <1>1, <1>4, <2>4, <3>3, <3>4
      <4> QED  BY <1>7, <3>4, <4>1
    <3>7. w2 = IF w.at = Len(block) \/ end > Len(block) THEN w
               ELSE [at |-> end + 1,
                     read |-> Absorb(w.read, o.code, SubSeq(block, w.at + 2, end))]
      BY <1>5, <2>4, <3>3, <3>6
    <3>8. CASE w.at = Len(block)
      <4>1. w2 = w
        BY <3>7, <3>8
      <4>2. ~Whole(block, items, p)
        BY <1>1, <1>4, <1>6, <3>3, <3>4, <3>8
      <4> QED  BY <2>1, <4>1, <4>2
    <3>9. CASE w.at # Len(block)
      <4>1. block[w.at + 1] = L
        <5>1. f + 2 \in 1..Len(J) /\ p + (f + 2) = w.at + 1 /\ w.at + 1 <= Len(block)
          BY <1>1, <1>4, <2>4, <3>3, <3>4, <3>9
        <5> QED  BY <1>7, <3>4, <5>1
      <4>2. end = w.at + 1 + L
        BY <4>1 DEF end
      <4>3. CASE end > Len(block)
        <5>1. w2 = w
          BY <3>7, <4>3
        <5>2. ~Whole(block, items, p)
          <6>1. /\ p \in Nat /\ f \in Nat /\ L \in Nat /\ Len(J) \in Nat
                /\ Len(block) \in Nat /\ f + 2 + L <= Len(J)
                /\ w.at = p + f + 1 /\ end = w.at + 1 + L /\ end > Len(block)
            BY <1>1, <1>4, <3>3, <3>4, <4>2, <4>3
          <6>2. ~(p + Len(J) + 1 <= Len(block))
            BY ONLY <6>1
          <6> QED  BY <1>6, <6>2
        <5> QED  BY <2>1, <5>1, <5>2
      <4>4. CASE ~(end > Len(block))
        <5> DEFINE v == SubSeq(block, w.at + 2, end)
        <5>1. /\ w.at + 2 \in 1..(Len(block) + 1) /\ end \in (w.at + 1)..Len(block)
              /\ (end - (w.at + 2)) + 1 = L
          <6>1. /\ w.at \in Nat /\ L \in Nat /\ Len(block) \in Nat
                /\ end = w.at + 1 + L /\ ~(end > Len(block))
            BY <1>1, <3>3, <4>2, <4>4
          <6>2. end \in Nat /\ end <= Len(block) /\ w.at + 1 <= end
            BY ONLY <6>1
          <6>3. w.at + 2 \in Nat /\ 1 <= w.at + 2 /\ w.at + 2 <= Len(block) + 1
            BY ONLY <6>1, <6>2
          <6>4. (end - (w.at + 2)) + 1 = L
            BY ONLY <6>1
          <6> QED  BY ONLY <6>1, <6>2, <6>3, <6>4
        <5>2. v \in Seq(Byte) /\ Len(v) = L /\ \A y \in 1..L : v[y] = block[(w.at + 2 + y) - 1]
          <6> DEFINE a == w.at + 2
          <6>1. a \in 1..(Len(block) + 1) /\ end \in (a - 1)..Len(block) /\ (end - a) + 1 = L
            BY <1>1, <5>1
          <6> HIDE DEF a
          <6>2. /\ SubSeq(block, a, end) \in Seq(Byte) /\ Len(SubSeq(block, a, end)) = L
                /\ \A y \in 1..L : SubSeq(block, a, end)[y] = block[(a + y) - 1]
            BY <1>1, <6>1, PartEntries
          <6> QED  BY <6>2 DEF a
        <5>3. ASSUME NEW y \in 1..L  PROVE v[y] = o.value[y]
          <6>1. /\ f + 2 + y \in 1..Len(J) /\ p + (f + 2 + y) = (w.at + 2 + y) - 1
                /\ p + (f + 2 + y) <= Len(block)
            <7>0. y \in Nat /\ 1 <= y /\ y <= L
              BY <3>3
            <7>5. /\ f \in Nat /\ L \in Nat /\ p \in Nat /\ Len(J) \in Nat /\ Len(block) \in Nat
                  /\ w.at = p + f + 1 /\ f + 2 + L <= Len(J)
              BY <1>1, <1>4, <3>3, <3>4
            <7>1. /\ f \in Nat /\ L \in Nat /\ p \in Nat /\ Len(J) \in Nat /\ Len(block) \in Nat
                  /\ y \in Nat /\ 1 <= y /\ y <= L
                  /\ w.at = p + f + 1 /\ end = w.at + 1 + L /\ ~(end > Len(block))
                  /\ f + 2 + L <= Len(J)
              BY ONLY <4>2, <4>4, <7>0, <7>5
            <7>2. /\ f + 2 + y \in Nat /\ 1 <= f + 2 + y /\ f + 2 + y <= f + 2 + L
                  /\ p + (f + 2 + L) = end
              BY ONLY <7>1
            <7>3. f + 2 + y \in 1..Len(J)
              BY ONLY <7>1, <7>2
            <7>4. p + (f + 2 + y) = (w.at + 2 + y) - 1
              BY ONLY <7>1
            <7>6. p + (f + 2 + y) <= Len(block)
              BY ONLY <7>1, <7>2
            <7> QED  BY ONLY <7>3, <7>4, <7>6
          <6> HIDE DEF v
          <6> QED  BY <1>7, <3>4, <5>2, <6>1
        <5> HIDE DEF v
        <5>4. v = o.value
          <6>1. Len(o.value) = L
            BY DEF L
          <6> QED  BY <3>3, <5>2, <5>3, <6>1, SameEntries
        <5>5. w2 = [at |-> end + 1, read |-> Absorb(w.read, o.code, o.value)]
          BY <3>7, <3>9, <4>4, <5>4 DEF v
        <5>6. w2.at = p + Len(u[k + 1]) + 1 /\ w2.at \in Nat /\ w2.at > w.at /\ w2 # w
          <6>1. w2.at = end + 1
            BY <5>5
          <6>2. /\ w.at \in Nat /\ w.at = p + f + 1 /\ Len(u[k + 1]) = f + 2 + L
                /\ p \in Nat /\ f \in Nat /\ L \in Nat /\ end = w.at + 1 + L
            BY <1>1, <3>3, <3>4, <4>2
          <6>3. end + 1 = p + (f + 2 + L) + 1 /\ end + 1 \in Nat /\ end + 1 > w.at
            BY ONLY <6>2
          <6>4. w2.at = p + Len(u[k + 1]) + 1 /\ w2.at \in Nat /\ w2.at > w.at
            BY ONLY <6>1, <6>2, <6>3
          <6>5. w2.at # w.at
            BY ONLY <6>2, <6>4
          <6> QED  BY <6>4, <6>5
        <5>7. w2.read \in K[k + 1] /\ k + 1 \in 0..n /\ w2.read \in S
          BY <1>1, <1>8, <3>1, <3>5, <5>5
        <5>8. w2 \in [at : Nat, read : S]
          BY <5>5, <5>6, <5>7
        <5>9. Reached(w2, u, p, n, K)
          BY <5>6, <5>7 DEF Reached
        <5> QED  BY <5>6, <5>8, <5>9
      <4> QED  BY <4>3, <4>4
    <3> QED  BY <3>8, <3>9
  <2> QED  BY <2>2, <2>3, <2>4
<1> QED
  <2>1. CASE \E k \in 0..n : w.at = p + Len(u[k]) + 1 /\ w.read \in K[k]
    BY <1>9, <1>11, <2>1 DEF w2, n
  <2> QED  BY <1>10, <2>1 DEF Reached, n

\* So the walk reads a number of the options, and of a whole block all.
LEMMA WalkReads ==
  ASSUME NEW items, Plainly(items), NEW p, NEW block, Framed(block, items, p),
         NEW S, NEW K, LeadsOn(K, S, items), NEW read \in K[0]
  PROVE  \E k \in 0..Len(items) :
           /\ Walk(read, block) \in K[k]
           /\ Whole(block, items, p) => k = Len(items)
<1>0. PICK u : OptionEnds(u, items)
  BY JoinedUnfolds DEF Plainly
<1> DEFINE n == Len(items)
           m == Len(block)
           R == {w \in [at : Nat, read : S] : Reached(w, u, p, n, K)}
           first == [at |-> 1, read |-> read]
           step == [i \in 1..m |-> [w \in R |-> ReadOption(block, w)]]
           Is(f) == f = [i \in 0..m |-> IF i = 0 THEN first ELSE ReadOption(block, f[i - 1])]
           c == CHOOSE f : Is(f)
<1>1. n \in Nat /\ m \in Nat /\ p \in 0..1 /\ K \in [0..n -> SUBSET S] /\ u[0] = << >>
  BY <1>0 DEF Plainly, Framed, LeadsOn, OptionEnds
<1>2. Walk(read, block) = c[m].read
  BY DEF Walk
<1>3. first \in R
  <2>1. first.at = 1 /\ first.read = read /\ read \in S /\ 0 \in 0..n
    BY <1>1
  <2>2. Reached(first, u, p, n, K)
    <3>1. Len(u[0]) = 0
      BY <1>1
    <3> HIDE DEF first, n
    <3> QED  BY <1>1, <2>1, <3>1 DEF Reached
  <2> QED  BY <2>1, <2>2
<1>4. ASSUME NEW w \in R
      PROVE  /\ ReadOption(block, w) \in R
             /\ ReadOption(block, w) = w \/ ReadOption(block, w).at > w.at
             /\ w.at > m => ReadOption(block, w) = w
             /\ ReadOption(block, w) = w /\ Whole(block, items, p) => w.read \in K[n]
  <2>1. w \in [at : Nat, read : S] /\ Reached(w, u, p, Len(items), K)
    OBVIOUS
  <2>2. /\ ReadOption(block, w) \in [at : Nat, read : S]
        /\ Reached(ReadOption(block, w), u, p, Len(items), K)
        /\ ReadOption(block, w) = w \/ ReadOption(block, w).at > w.at
        /\ w.at > Len(block) => ReadOption(block, w) = w
        /\ ReadOption(block, w) = w /\ Whole(block, items, p) => w.read \in K[Len(items)]
    <3> HIDE DEF R
    <3> QED  BY <1>0, <2>1, ReadOn
  <2> QED  BY <2>2
<1>5. step \in [1..m -> [R -> R]]
  <2> HIDE DEF R
  <2> QED  BY <1>4
<1>6. \A i \in 1..m, w \in R : step[i][w] = ReadOption(block, w)
  OBVIOUS
<1> HIDE DEF R, step, first, c, n, m
<1>7. PICK f : StepsUpTo(f, m, first, step, R)
  BY <1>1, <1>3, <1>5, StepsExist
<1>8. /\ f \in [0..m -> R] /\ f[0] = first
      /\ \A i \in 1..m : f[i] = step[i][f[i - 1]]
  BY <1>7 DEF StepsUpTo
<1>9. ASSUME NEW i \in 1..m  PROVE f[i] = ReadOption(block, f[i - 1])
  <2>1. i - 1 \in 0..m
    BY <1>1
  <2>2. f[i - 1] \in R
    BY <1>8, <2>1
  <2> QED  BY <1>6, <1>8, <2>2
<1>10. Is(f)
  <2>1. \A i \in 0..m : i = 0 \/ i \in 1..m
    BY <1>1
  <2> QED  BY <1>8, <1>9, <2>1
<1>11. Is(c)
  BY <1>10 DEF c
<1>12. c[0] = first /\ \A i \in 1..m : c[i] = ReadOption(block, c[i - 1])
  BY <1>1, <1>11
<1> DEFINE Good(i) == /\ c[i] \in R
                      /\ ReadOption(block, c[i]) = c[i] \/ c[i].at >= i + 1
           T == {i \in 0..m : ~Good(i)}
<1>13. T = {}
  <2> SUFFICES ASSUME T # {}  PROVE FALSE
    OBVIOUS
  <2>1. PICK i \in T : \A j \in T : i <= j
    <3>1. T \in SUBSET Nat
      OBVIOUS
    <3> HIDE DEF T
    <3> QED  BY <3>1, LeastNumber
  <2>2. i # 0
    <3>1. first.at >= 0 + 1
      BY DEF first
    <3>2. Good(0)
      BY <1>3, <1>12, <3>1
    <3> QED  BY <2>1, <3>2
  <2>3. i \in 1..m /\ i - 1 \in 0..m /\ ~(i <= i - 1) /\ i \in Nat
    BY <1>1, <2>1, <2>2
  <2>4. Good(i - 1)
    BY <2>1, <2>3
  <2> DEFINE w == c[i - 1]
             w2 == c[i]
  <2>5. w \in R /\ w2 = ReadOption(block, w) /\ (w2 = w \/ w.at >= (i - 1) + 1)
    BY <1>12, <2>3, <2>4
  <2>6. w2 \in R /\ (w2 = w \/ w2.at > w.at) /\ w.at \in Nat /\ w2.at \in Nat
    <3>1. w2 \in R /\ (w2 = w \/ w2.at > w.at)
      BY <1>4, <2>5
    <3>2. \A x \in R : x.at \in Nat
      BY DEF R
    <3> QED  BY <2>5, <3>1, <3>2
  <2> HIDE DEF w, w2
  <2>7. ReadOption(block, w2) = w2 \/ w2.at >= i + 1
    BY <2>3, <2>5, <2>6
  <2>8. Good(i)
    BY <2>6, <2>7 DEF w2
  <2> QED  BY <2>1, <2>8
<1>14. Good(m)
  <2>1. m \in 0..m
    BY <1>1
  <2> QED  BY <1>13, <2>1
<1> DEFINE last == c[m]
<1>15. last \in R /\ ReadOption(block, last) = last
  <2>1. last \in R /\ last.at \in Nat
    BY <1>14 DEF R
  <2>2. last.at >= m + 1 => last.at > m
    BY <1>1, <2>1
  <2> QED  BY <1>4, <1>14, <2>1, <2>2
<1> HIDE DEF last
<1>16. Whole(block, items, p) => last.read \in K[n]
  BY <1>4, <1>15
<1>17. \E k \in 0..n : last.read \in K[k]
  <2>1. Reached(last, u, p, n, K) /\ 0 \in 0..n
    BY <1>1, <1>15 DEF R
  <2> QED  BY <2>1 DEF Reached
<1>18. Walk(read, block) = last.read /\ n \in 0..n
  BY <1>1, <1>2 DEF last
<1> QED  BY <1>16, <1>17, <1>18 DEF n

-----------------------------------------------------------------------------
(***************************************************************************)
(* Leases: what is known after some of the options                         *)
(***************************************************************************)
\* Of every field, the first usable value among the options J, or nothing.
Knows(held, J) ==
  \A c \in Codes :
    IF Said(c) \cap J = {} THEN held[c] = NotSaid
    ELSE \E i \in Said(c) \cap J :
           (\A j \in Said(c) \cap J : i <= j) /\ held[c] = options[i].value

\* What can be known, and that it is so of the options J with what was announced.
ReadStates ==
  [known : [Codes -> {o.value : o \in Options} \cup {NotSaid}], overload : SUBSET Nat]
After(J, V) == {r \in ReadStates : Knows(r.known, J) /\ r.overload = V}

\* An option that follows those read is one more of them.
LEMMA AbsorbKnows ==
  ASSUME options \in Seq(Options), NEW p \in 1..Len(options), NEW J \in SUBSET (1..(p - 1)),
         NEW V, NEW r \in After(J, V)
  PROVE  Absorb(r, options[p].code, options[p].value) \in After(J \cup {p}, V)
<1> DEFINE o == options[p]
           H == J \cup {p}
<1>1. /\ o \in Options /\ o = [code |-> o.code, value |-> o.value] /\ o.code \in Codes
      /\ o.code # OPT_OVERLOAD
  <2>1. o \in Options
    OBVIOUS
  <2> HIDE DEF o
  <2> QED  BY <2>1, LeasesAssumption DEF Codes
<1>2. r \in ReadStates /\ Knows(r.known, J) /\ r.overload = V
  BY DEF After
<1>3. /\ r.known \in [Codes -> {x.value : x \in Options} \cup {NotSaid}]
      /\ r = [known |-> r.known, overload |-> V]
  BY <1>2 DEF ReadStates
<1>4. \A c \in Codes : Said(c) \cap H = IF o.code = c /\ o \in Usable THEN (Said(c) \cap J) \cup {p}
                                        ELSE Said(c) \cap J
  BY DEF Said
<1>5. p \in Nat /\ \A j \in J : j \in Nat /\ j < p
  OBVIOUS
<1> HIDE DEF o, H
<1>6. CASE r.known[o.code] = NotSaid /\ o \in Usable
  <2> DEFINE r2 == [r EXCEPT !.known[o.code] = o.value]
             k2 == [r.known EXCEPT ![o.code] = o.value]
  <2>1. Absorb(r, o.code, o.value) = r2
    BY <1>1, <1>6 DEF Absorb
  <2>2. r2 = [known |-> k2, overload |-> V]
    BY <1>3
  <2>3. k2 \in [Codes -> {x.value : x \in Options} \cup {NotSaid}]
    BY <1>1, <1>3
  <2>4. r2 \in ReadStates /\ r2.known = k2 /\ r2.overload = V
    BY <1>2, <2>2, <2>3 DEF ReadStates
  <2>5. Said(o.code) \cap J = {}
    <3>1. \A i \in Said(o.code) : options[i] \in Usable
      BY DEF Said
    <3> QED  BY <1>1, <1>2, <1>6, <3>1, LeasesAssumption DEF Knows
  <2>6. ASSUME NEW c \in Codes
        PROVE  IF Said(c) \cap H = {} THEN k2[c] = NotSaid
               ELSE \E i \in Said(c) \cap H :
                      (\A j \in Said(c) \cap H : i <= j) /\ k2[c] = options[i].value
    <3>1. CASE c = o.code
      <4>1. Said(c) \cap H = {p}
        BY <1>4, <1>6, <2>5, <3>1
      <4>2. k2[c] = o.value /\ o.value = options[p].value
        BY <1>1, <1>3, <3>1 DEF o
      <4> HIDE DEF k2
      <4> QED  BY <1>5, <4>1, <4>2
    <3>2. CASE c # o.code
      <4>1. Said(c) \cap H = Said(c) \cap J
        BY <1>4, <3>2
      <4>2. k2[c] = r.known[c]
        BY <1>3, <3>2
      <4> HIDE DEF k2
      <4> QED  BY <1>2, <4>1, <4>2 DEF Knows
    <3> QED  BY <3>1, <3>2
  <2> HIDE DEF r2, k2
  <2>7. r2 \in After(H, V)
    BY <2>4, <2>6 DEF After, Knows
  <2> QED  BY <2>1, <2>7 DEF o, H
<1>7. CASE ~(r.known[o.code] = NotSaid /\ o \in Usable)
  <2>1. Absorb(r, o.code, o.value) = r
    BY <1>1, <1>7 DEF Absorb
  <2>2. ASSUME NEW c \in Codes
        PROVE  IF Said(c) \cap H = {} THEN r.known[c] = NotSaid
               ELSE \E i \in Said(c) \cap H :
                      (\A j \in Said(c) \cap H : i <= j) /\ r.known[c] = options[i].value
    <3>1. CASE c = o.code /\ o \in Usable
      <4>1. Said(c) \cap J # {}
        BY <1>2, <1>7, <3>1 DEF Knows
      <4>2. PICK i \in Said(c) \cap J :
              (\A j \in Said(c) \cap J : i <= j) /\ r.known[c] = options[i].value
        BY <1>2, <4>1 DEF Knows
      <4>3. Said(c) \cap H = (Said(c) \cap J) \cup {p}
        BY <1>4, <3>1
      <4>4. i <= p
        <5>1. i \in J
          BY <4>2
        <5>2. i \in Nat /\ i < p /\ p \in Nat
          BY <1>5, <5>1
        <5> QED  BY ONLY <5>2
      <4> QED  BY <4>2, <4>3, <4>4
    <3>2. CASE ~(c = o.code /\ o \in Usable)
      <4>1. Said(c) \cap H = Said(c) \cap J
        BY <1>4, <3>2
      <4> QED  BY <1>2, <4>1 DEF Knows
    <3> QED  BY <3>1, <3>2
  <2>3. r \in After(H, V)
    BY <1>2, <2>2 DEF After, Knows
  <2> QED  BY <2>1, <2>3 DEF o, H
<1> QED  BY <1>6, <1>7

\* What is announced is known in addition.
LEMMA AbsorbOverload ==
  ASSUME NEW J, NEW V, NEW r \in After(J, V), NEW v \in Nat
  PROVE  Absorb(r, OPT_OVERLOAD, <<v>>) \in After(J, V \cup {v})
<1>1. r \in ReadStates /\ Knows(r.known, J) /\ r.overload = V
  BY DEF After
<1>2. Absorb(r, OPT_OVERLOAD, <<v>>) = [r EXCEPT !.overload = @ \cup {v}]
  BY DEF Absorb
<1> DEFINE r2 == [r EXCEPT !.overload = @ \cup {v}]
<1>3. r2 \in ReadStates /\ r2.known = r.known /\ r2.overload = V \cup {v}
  BY <1>1 DEF ReadStates
<1> HIDE DEF r2
<1>4. r2 \in After(J, V \cup {v})
  BY <1>1, <1>3 DEF After
<1> QED  BY <1>2, <1>4 DEF r2

\* What can be said can be written.
LEMMA OptionsAreWire ==
  ASSUME NEW o \in Options
  PROVE  o \in Wire /\ o.code \notin {OPT_PAD, OPT_END}
BY LeasesAssumption DEF Wire, Codes

\* The options of a part of the list.
LEMMA BetweenIs ==
  ASSUME options \in Seq(Options), NEW i \in 1..(Len(options) + 1),
         NEW j \in i..(Len(options) + 1)
  PROVE  /\ Plainly(Between(i, j)) /\ Len(Between(i, j)) = j - i
         /\ \A k \in 1..(j - i) : Between(i, j)[k] = options[(i + k) - 1]
<1>1. Len(options) \in Nat /\ i \in Nat /\ j \in Nat /\ (j - 1) - i + 1 = j - i /\ j - i \in Nat
  OBVIOUS
<1>2. /\ Between(i, j) \in Seq(Options) /\ Len(Between(i, j)) = j - i
      /\ \A k \in 1..(j - i) : Between(i, j)[k] = options[(i + k) - 1]
  BY <1>1 DEF Between
<1>3. \A k \in 1..(j - i) : Between(i, j)[k] \in Options
  BY <1>2
<1>4. Between(i, j) \in Seq(Wire)
  <2>1. Options \subseteq Wire
    BY OptionsAreWire
  <2> QED  BY <1>2, <2>1
<1> QED  BY <1>2, <1>3, <1>4, OptionsAreWire DEF Plainly

\* An interval and the number after it.
LEMMA IntervalGrows ==
  ASSUME NEW i \in Nat, NEW k \in Nat \ {0}
  PROVE  (i..((i + (k - 1)) - 1)) \cup {(i + k) - 1} = i..((i + k) - 1)
OBVIOUS

\* A block of a part of the list adds a beginning of that part to what is known.
LEMMA BetweenReads ==
  ASSUME options \in Seq(Options), NEW i \in 1..(Len(options) + 1),
         NEW j \in i..(Len(options) + 1), NEW J \in SUBSET (1..(i - 1)), NEW V,
         NEW r \in After(J, V), NEW p, NEW block, Framed(block, Between(i, j), p)
  PROVE  \E k \in 0..(j - i) :
           /\ Walk(r, block) \in After(J \cup (i..((i + k) - 1)), V)
           /\ Whole(block, Between(i, j), p) => k = j - i
<1> DEFINE items == Between(i, j)
           n == j - i
           K == [k \in 0..n |-> After(J \cup (i..((i + k) - 1)), V)]
<1>1. /\ Plainly(items) /\ Len(items) = n
      /\ \A k \in 1..n : items[k] = options[(i + k) - 1]
      /\ n \in Nat /\ i \in Nat
  BY BetweenIs
<1>2. \A k \in 0..n : K[k] = After(J \cup (i..((i + k) - 1)), V)
  OBVIOUS
<1>3. K \in [0..n -> SUBSET ReadStates]
  BY DEF After
<1> HIDE DEF items, K
<1>4. ASSUME NEW k \in 1..n, NEW x \in K[k - 1]
      PROVE  Absorb(x, items[k].code, items[k].value) \in K[k]
  <2> DEFINE q == (i + k) - 1
             Q == J \cup (i..((i + (k - 1)) - 1))
  <2>1. q \in 1..Len(options) /\ k - 1 \in 0..n /\ k \in 0..n /\ items[k] = options[q]
    BY <1>1
  <2>2. Q \in SUBSET (1..(q - 1)) /\ Q \cup {q} = J \cup (i..((i + k) - 1))
    <3> DEFINE part == i..((i + (k - 1)) - 1)
               grown == i..((i + k) - 1)
    <3>1. part \cup {q} = grown
      <4>1. i \in Nat /\ k \in Nat \ {0}
        BY <1>1
      <4> QED  BY <4>1, IntervalGrows
    <3>2. part \in SUBSET (1..(q - 1)) /\ J \in SUBSET (1..(q - 1))
      BY <1>1
    <3> HIDE DEF part, grown
    <3>3. Q = J \cup part
      BY DEF part
    <3>4. Q \cup {q} = J \cup grown
      BY <3>1, <3>3
    <3> QED  BY <3>2, <3>3, <3>4 DEF grown
  <2>3. x \in After(Q, V)
    BY <1>2, <2>1
  <2> HIDE DEF q, Q, n
  <2>4. Absorb(x, options[q].code, options[q].value) \in After(Q \cup {q}, V)
    BY <2>1, <2>2, <2>3, AbsorbKnows
  <2> QED  BY <1>2, <2>1, <2>2, <2>4
<1>5. r \in K[0]
  <2>1. J \cup (i..((i + 0) - 1)) = J /\ 0 \in 0..n
    BY <1>1
  <2> QED  BY <1>2, <2>1
<1> HIDE DEF n
<1>6. LeadsOn(K, ReadStates, items)
  BY <1>1, <1>3, <1>4 DEF LeadsOn
<1>7. Framed(block, items, p)
  BY DEF items
<1>8. \E k \in 0..Len(items) : Walk(r, block) \in K[k] /\ (Whole(block, items, p) => k = Len(items))
  BY <1>1, <1>5, <1>6, <1>7, WalkReads
<1> QED  BY <1>1, <1>2, <1>8 DEF items, n

-----------------------------------------------------------------------------
(***************************************************************************)
(* Leases: the three blocks of a message                                   *)
(***************************************************************************)
\* The own field before anything is lost.
OwnWhole == Joined(OwnField) \o <<OPT_END>>

\* Where the options were cut, that a device sent them, and that no more was lost than
\* was there.
LeasesInv ==
  /\ options \in Seq(Options)
  /\ filed \in 1..(Len(options) + 1) /\ named \in filed..(Len(options) + 1)
  /\ early \in BOOLEAN
  /\ frameSrc \in Addresses \ GroupMacs
  /\ lost \in Nat /\ (lost = 0 \/ lost <= Len(OwnWhole))

\* A beginning of options and an end, with or without padding, is framed by them.
LEMMA BlocksAreFramed ==
  ASSUME NEW items, Plainly(items)
  PROVE  /\ Joined(items) \in Seq(Byte)
         /\ \A m \in 0..(Len(Joined(items)) + 1) :
              LET cut == SubSeq(Joined(items) \o <<OPT_END>>, 1, m)
              IN  Framed(cut, items, 0)
                  /\ (Whole(cut, items, 0) <=> m = Len(Joined(items)) + 1)
         /\ LET file == Joined(items) \o <<OPT_END, OPT_PAD>>
            IN  Framed(file, items, 0) /\ Whole(file, items, 0)
         /\ LET sname == <<OPT_PAD>> \o Joined(items) \o <<OPT_END>>
            IN  Framed(sname, items, 1) /\ Whole(sname, items, 1)
<1> DEFINE J == Joined(items)
           n == Len(J)
<1>1. J \in Seq(Byte) /\ n \in Nat
  <2>1. PICK u : OptionEnds(u, items)
    BY JoinedUnfolds DEF Plainly
  <2>2. Len(items) \in 0..Len(items)
    BY DEF Plainly
  <2> QED  BY <2>1, <2>2 DEF OptionEnds
<1>2. OPT_PAD \in Byte /\ OPT_END \in Byte /\ OPT_PAD # OPT_END
  BY DEF OPT_PAD, OPT_END, Byte
<1> HIDE DEF J
<1>3. ASSUME NEW m \in 0..(n + 1)
      PROVE  LET cut == SubSeq(J \o <<OPT_END>>, 1, m)
             IN  Framed(cut, items, 0) /\ (Whole(cut, items, 0) <=> m = n + 1)
  <2> DEFINE end == <<OPT_END>>
             all == J \o end
             cut == SubSeq(all, 1, m)
  <2>1. end \in Seq(Byte) /\ Len(end) = 1 /\ end[1] = OPT_END
    BY <1>2
  <2> HIDE DEF end, n
  <2>2. /\ all \in Seq(Byte) /\ Len(all) = n + 1
        /\ \A x \in 1..(n + 1) : all[x] = IF x <= n THEN J[x] ELSE end[x - n]
    <3>1. /\ all \in Seq(Byte) /\ Len(all) = Len(J) + Len(end)
          /\ \A x \in 1..(Len(J) + Len(end)) :
               all[x] = IF x <= Len(J) THEN J[x] ELSE end[x - Len(J)]
      BY <1>1, <2>1, ConcatEntries
    <3> HIDE DEF all
    <3> QED  BY <2>1, <3>1 DEF n
  <2> HIDE DEF all
  <2>3. cut \in Seq(Byte) /\ Len(cut) = m /\ \A x \in 1..m : cut[x] = all[x]
    BY <1>1, <2>2 DEF n
  <2> HIDE DEF cut
  <2>4. Whole(cut, items, 0) <=> m = n + 1
    BY <1>1, <2>3 DEF Whole, n, J
  <2>5. \A x \in 1..n : 0 + x <= Len(cut) => cut[0 + x] = J[x]
    BY <1>1, <2>2, <2>3 DEF n
  <2>6. Whole(cut, items, 0) => cut[0 + n + 1] = OPT_END
    <3>1. SUFFICES ASSUME m = n + 1  PROVE cut[0 + n + 1] = OPT_END
      BY <2>4
    <3>2. 0 + n + 1 \in 1..m /\ ~(0 + n + 1 <= n) /\ (0 + n + 1) - n = 1
      BY <1>1, <3>1 DEF n
    <3> QED  BY <2>1, <2>2, <2>3, <3>1, <3>2
  <2>7. Framed(cut, items, 0)
    BY <2>3, <2>5, <2>6 DEF Framed, n, J
  <2> QED  BY <2>4, <2>7 DEF cut, all, end
<1>4. LET file == J \o <<OPT_END, OPT_PAD>>
      IN  Framed(file, items, 0) /\ Whole(file, items, 0)
  <2> DEFINE end == <<OPT_END, OPT_PAD>>
             file == J \o end
  <2>1. end \in Seq(Byte) /\ Len(end) = 2 /\ end[1] = OPT_END
    BY <1>2
  <2> HIDE DEF end, n
  <2>2. /\ file \in Seq(Byte) /\ Len(file) = n + 2
        /\ \A x \in 1..(n + 2) : file[x] = IF x <= n THEN J[x] ELSE end[x - n]
    <3>1. /\ file \in Seq(Byte) /\ Len(file) = Len(J) + Len(end)
          /\ \A x \in 1..(Len(J) + Len(end)) :
               file[x] = IF x <= Len(J) THEN J[x] ELSE end[x - Len(J)]
      BY <1>1, <2>1, ConcatEntries
    <3> HIDE DEF file
    <3> QED  BY <2>1, <3>1 DEF n
  <2> HIDE DEF file
  <2>3. Whole(file, items, 0)
    BY <1>1, <2>2 DEF Whole, n, J
  <2>4. \A x \in 1..n : file[0 + x] = J[x]
    BY <1>1, <2>2 DEF n
  <2>5. file[0 + n + 1] = OPT_END
    <3>1. 0 + n + 1 \in 1..(n + 2) /\ ~(0 + n + 1 <= n) /\ (0 + n + 1) - n = 1
      BY <1>1 DEF n
    <3> QED  BY <2>1, <2>2, <3>1
  <2>6. Framed(file, items, 0)
    BY <2>2, <2>4, <2>5 DEF Framed, n, J
  <2> QED  BY <2>3, <2>6 DEF file, end
<1>5. LET sname == <<OPT_PAD>> \o J \o <<OPT_END>>
      IN  Framed(sname, items, 1) /\ Whole(sname, items, 1)
  <2> DEFINE pad == <<OPT_PAD>>
             end == <<OPT_END>>
             head == pad \o J
             sname == head \o end
  <2>1. /\ end \in Seq(Byte) /\ Len(end) = 1 /\ end[1] = OPT_END
        /\ pad \in Seq(Byte) /\ Len(pad) = 1 /\ pad[1] = OPT_PAD
    BY <1>2
  <2> HIDE DEF end, pad, n
  <2>2. /\ head \in Seq(Byte) /\ Len(head) = n + 1
        /\ \A x \in 1..(n + 1) : head[x] = IF x <= 1 THEN pad[x] ELSE J[x - 1]
    <3>1. /\ head \in Seq(Byte) /\ Len(head) = Len(pad) + Len(J)
          /\ \A x \in 1..(Len(pad) + Len(J)) :
               head[x] = IF x <= Len(pad) THEN pad[x] ELSE J[x - Len(pad)]
      BY <1>1, <2>1, ConcatEntries
    <3>2. Len(pad) + Len(J) = n + 1
      BY <1>1, <2>1 DEF n
    <3> HIDE DEF head
    <3> QED  BY <2>1, <3>1, <3>2
  <2> HIDE DEF head
  <2>3. /\ sname \in Seq(Byte) /\ Len(sname) = n + 2
        /\ \A x \in 1..(n + 2) : sname[x] = IF x <= n + 1 THEN head[x] ELSE end[x - (n + 1)]
    <3>1. /\ sname \in Seq(Byte) /\ Len(sname) = Len(head) + Len(end)
          /\ \A x \in 1..(Len(head) + Len(end)) :
               sname[x] = IF x <= Len(head) THEN head[x] ELSE end[x - Len(head)]
      BY <2>1, <2>2, ConcatEntries
    <3>2. Len(head) + Len(end) = n + 2
      BY <1>1, <2>1, <2>2 DEF n
    <3> HIDE DEF sname
    <3> QED  BY <2>2, <3>1, <3>2
  <2> HIDE DEF sname
  <2>4. Whole(sname, items, 1)
    BY <1>1, <2>3 DEF Whole, n, J
  <2>5. ASSUME NEW x \in 1..n  PROVE sname[1 + x] = J[x]
    <3>1. /\ 1 + x \in 1..(n + 2) /\ 1 + x <= n + 1 /\ 1 + x \in 1..(n + 1) /\ ~(1 + x <= 1)
          /\ (1 + x) - 1 = x
      BY <1>1 DEF n
    <3> QED  BY <2>2, <2>3, <3>1
  <2>6. sname[1 + n + 1] = OPT_END
    <3>1. 1 + n + 1 \in 1..(n + 2) /\ ~(1 + n + 1 <= n + 1) /\ (1 + n + 1) - (n + 1) = 1
      BY <1>1 DEF n
    <3> QED  BY <2>1, <2>3, <3>1
  <2>7. sname[1] = OPT_PAD
    <3>1. 1 \in 1..(n + 2) /\ 1 <= n + 1 /\ 1 \in 1..(n + 1) /\ 1 <= 1
      BY <1>1 DEF n
    <3> QED  BY <2>1, <2>2, <2>3, <3>1
  <2>8. Framed(sname, items, 1)
    BY <2>3, <2>5, <2>6, <2>7 DEF Framed, n, J
  <2> QED  BY <2>4, <2>8 DEF sname, head, end, pad
<1> QED  BY <1>1, <1>3, <1>4, <1>5 DEF J, n

\* What the own field announces: a number of two bits, or nothing.
Announced == IF Overload = << >> THEN {} ELSE {Overload[1].value[1]}

\* It announces the fields that are used.
LEMMA AnnouncedIs ==
  ASSUME LeasesInv
  PROVE  \/ /\ Overload = << >> /\ Announced = {}
            /\ filed = named /\ named = Len(options) + 1
         \/ \E v \in 1..3 :
              /\ Overload = <<[code |-> OPT_OVERLOAD, value |-> <<v>>]>> /\ Announced = {v}
              /\ (v \div 1) % 2 = 1 <=> filed < named
              /\ (v \div 2) % 2 = 1 <=> named < Len(options) + 1
<1> DEFINE inFile == IF filed < named THEN 1 ELSE 0
           inName == IF named <= Len(options) THEN 2 ELSE 0
           v == inFile + inName
           o == [code |-> OPT_OVERLOAD, value |-> <<v>>]
<1>1. /\ Len(options) \in Nat /\ filed \in Nat /\ named \in Nat
      /\ filed <= named /\ named <= Len(options) + 1
  BY DEF LeasesInv
<1>2. Overload = IF v = 0 THEN << >> ELSE <<o>>
  BY DEF Overload
<1>3. v = 0 => filed = named /\ named = Len(options) + 1
  BY <1>1
<1>4. /\ v \in 0..3
      /\ (v \div 1) % 2 = 1 <=> filed < named
      /\ (v \div 2) % 2 = 1 <=> named < Len(options) + 1
  BY <1>1
<1>5. CASE v = 0
  BY <1>2, <1>3, <1>5 DEF Announced
<1>6. CASE v # 0
  <2>1. <<o>> # << >> /\ <<o>>[1].value[1] = v
    OBVIOUS
  <2> HIDE DEF v
  <2>2. v \in 1..3
    BY <1>4, <1>6
  <2>3. Overload = <<o>> /\ Announced = {v}
    BY <1>2, <1>6, <2>1 DEF Announced
  <2> QED  BY <1>4, <2>2, <2>3
<1> QED  BY <1>5, <1>6

\* Of its own field a beginning is read, and the whole of it if nothing was lost.
OwnRead(r) ==
  \E c \in 0..(filed - 1), V \in {{}, Announced} :
    r \in After(1..c, V) /\ (lost = 0 => c = filed - 1 /\ V = Announced)

\* Options and the one that announces more, in either order, are what is written.
LEMMA OwnIs ==
  ASSUME LeasesInv
  PROVE  /\ Plainly(OwnField)
         /\ Overload = << >> => OwnField = Between(1, filed)
         /\ Overload # << >> =>
              /\ Len(OwnField) = filed
              /\ OwnField[IF early THEN 1 ELSE filed] = Overload[1]
              /\ \A k \in 1..(filed - 1) :
                   OwnField[IF early THEN k + 1 ELSE k] = options[k]
<1> DEFINE own == Between(1, filed)
           n == filed - 1
<1>1. /\ options \in Seq(Options) /\ Len(options) \in Nat /\ filed \in 1..(Len(options) + 1)
      /\ early \in BOOLEAN
  BY DEF LeasesInv
<1>2. /\ own \in Seq(Wire) /\ Len(own) = n /\ n \in Nat
      /\ \A k \in 1..n : own[k] = options[k] /\ own[k].code \notin {OPT_PAD, OPT_END}
  <2>1. 1 \in 1..(Len(options) + 1) /\ filed \in 1..(Len(options) + 1)
    BY <1>1
  <2>2. /\ Plainly(own) /\ Len(own) = filed - 1
        /\ \A k \in 1..(filed - 1) : own[k] = options[(1 + k) - 1]
    <3> HIDE DEF own
    <3> QED  BY <1>1, <2>1, BetweenIs DEF own
  <2>3. \A k \in 1..(filed - 1) : (1 + k) - 1 = k
    BY <1>1
  <2> QED  BY <1>1, <2>2, <2>3 DEF Plainly
<1> HIDE DEF own
<1>3. CASE Overload = << >>
  <2>1. OwnField = own
    BY <1>2, <1>3 DEF OwnField, own
  <2> QED  BY <1>2, <1>3, <2>1 DEF Plainly, own
<1>4. CASE Overload # << >>
  <2>1. PICK v \in 1..3 : Overload = <<[code |-> OPT_OVERLOAD, value |-> <<v>>]>>
    BY <1>4, AnnouncedIs
  <2> DEFINE o == [code |-> OPT_OVERLOAD, value |-> <<v>>]
             ov == <<o>>
  <2>2. o \in Wire /\ o.code \notin {OPT_PAD, OPT_END}
    <3>1. v \in Byte /\ 1 \in Byte /\ OPT_OVERLOAD \in Byte \ {OPT_PAD, OPT_END}
      BY DEF Byte, OPT_OVERLOAD, OPT_PAD, OPT_END
    <3>2. <<v>> \in Seq(Byte) /\ Len(<<v>>) = 1
      BY <3>1
    <3> QED  BY <3>1, <3>2 DEF Wire
  <2>3. ov \in Seq(Wire) /\ Len(ov) = 1 /\ ov[1] = o
    BY <2>2
  <2> HIDE DEF o, ov
  <2>4. Overload = ov /\ Overload[1] = o
    BY <2>1, <2>3 DEF ov, o
  <2>5. CASE early
    <3> DEFINE all == ov \o own
    <3>1. /\ all \in Seq(Wire) /\ Len(all) = filed
          /\ \A x \in 1..filed : all[x] = IF x <= 1 THEN ov[x] ELSE own[x - 1]
      <4>1. /\ all \in Seq(Wire) /\ Len(all) = Len(ov) + Len(own)
            /\ \A x \in 1..(Len(ov) + Len(own)) :
                 all[x] = IF x <= Len(ov) THEN ov[x] ELSE own[x - Len(ov)]
        BY <1>2, <2>3, ConcatEntries
      <4>2. Len(ov) + Len(own) = filed
        BY <1>1, <1>2, <2>3
      <4> HIDE DEF all
      <4> QED  BY <2>3, <4>1, <4>2
    <3>2. OwnField = all
      BY <2>4, <2>5 DEF OwnField, own
    <3> HIDE DEF all
    <3>3. all[1] = o
      BY <1>1, <2>3, <3>1
    <3>4. ASSUME NEW k \in 1..n  PROVE all[k + 1] = own[k]
      <4>1. k + 1 \in 1..filed /\ ~(k + 1 <= 1) /\ (k + 1) - 1 = k
        BY <1>1
      <4> QED  BY <3>1, <4>1
    <3>5. ASSUME NEW x \in 1..filed  PROVE all[x].code \notin {OPT_PAD, OPT_END}
      <4>1. x = 1 \/ (x - 1 \in 1..n /\ (x - 1) + 1 = x)
        BY <1>1
      <4> QED  BY <1>2, <2>2, <3>3, <3>4, <4>1
    <3> QED  BY <1>2, <1>4, <2>4, <2>5, <3>1, <3>2, <3>3, <3>4, <3>5 DEF Plainly, n
  <2>6. CASE ~early
    <3> DEFINE all == own \o ov
    <3>1. /\ all \in Seq(Wire) /\ Len(all) = filed
          /\ \A x \in 1..filed : all[x] = IF x <= n THEN own[x] ELSE ov[x - n]
      <4>1. /\ all \in Seq(Wire) /\ Len(all) = Len(own) + Len(ov)
            /\ \A x \in 1..(Len(own) + Len(ov)) :
                 all[x] = IF x <= Len(own) THEN own[x] ELSE ov[x - Len(own)]
        BY <1>2, <2>3, ConcatEntries
      <4>2. Len(own) + Len(ov) = filed
        BY <1>1, <1>2, <2>3
      <4> HIDE DEF all
      <4> QED  BY <1>2, <4>1, <4>2
    <3>2. OwnField = all
      BY <2>4, <2>6 DEF OwnField, own
    <3> HIDE DEF all
    <3>3. all[filed] = o
      <4>1. filed \in 1..filed /\ ~(filed <= n) /\ filed - n = 1
        BY <1>1
      <4> QED  BY <2>3, <3>1, <4>1
    <3>4. ASSUME NEW k \in 1..n  PROVE all[k] = own[k]
      <4>1. k \in 1..filed /\ k <= n
        BY <1>1
      <4> QED  BY <3>1, <4>1
    <3>5. ASSUME NEW x \in 1..filed  PROVE all[x].code \notin {OPT_PAD, OPT_END}
      <4>1. x = filed \/ x \in 1..n
        BY <1>1
      <4> QED  BY <1>2, <2>2, <3>3, <3>4, <4>1
    <3> QED  BY <1>2, <1>4, <2>4, <2>6, <3>1, <3>2, <3>3, <3>4, <3>5 DEF Plainly, n
  <2> QED  BY <1>1, <2>5, <2>6
<1> QED  BY <1>3, <1>4

\* So it is with the own field of any capture.
LEMMA OwnReads ==
  ASSUME LeasesInv, NEW r \in After({}, {})
  PROVE  OwnRead(Walk(r, Block))
<1> DEFINE whole == Whole(Block, OwnField, 0)
           n == filed - 1
<1>1. /\ options \in Seq(Options) /\ Len(options) \in Nat /\ filed \in 1..(Len(options) + 1)
      /\ early \in BOOLEAN /\ lost \in Nat /\ (lost = 0 \/ lost <= Len(OwnWhole))
  BY DEF LeasesInv
<1>2. Plainly(OwnField)
  BY OwnIs
<1>3. Framed(Block, OwnField, 0) /\ (lost = 0 => whole)
  <2> DEFINE J == Joined(OwnField)
             m == Len(OwnWhole) - lost
  <2>1. J \in Seq(Byte) /\ <<OPT_END>> \in Seq(Byte) /\ Len(<<OPT_END>>) = 1
    BY <1>2, BlocksAreFramed DEF OPT_END, Byte
  <2>2. Len(OwnWhole) = Len(J) + 1 /\ Len(J) \in Nat
    <3>1. Len(J \o <<OPT_END>>) = Len(J) + Len(<<OPT_END>>)
      <4> HIDE DEF J
      <4> QED  BY <2>1
    <3> QED  BY <2>1, <3>1 DEF OwnWhole
  <2>3. m \in 0..(Len(J) + 1) /\ (lost = 0 => m = Len(J) + 1)
    BY <1>1, <2>2
  <2>4. Block = SubSeq(J \o <<OPT_END>>, 1, m)
    BY DEF Block, OwnWhole
  <2> HIDE DEF J, m
  <2>5. LET cut == SubSeq(J \o <<OPT_END>>, 1, m)
        IN  Framed(cut, OwnField, 0) /\ (Whole(cut, OwnField, 0) <=> m = Len(J) + 1)
    BY <1>2, <2>3, BlocksAreFramed DEF J
  <2> QED  BY <2>3, <2>4, <2>5
<1> HIDE DEF whole
<1>4. CASE Overload = << >>
  <2>1. OwnField = Between(1, filed) /\ Announced = {}
    BY <1>4, OwnIs DEF Announced
  <2>2. Framed(Block, Between(1, filed), 0) /\ (lost = 0 => Whole(Block, Between(1, filed), 0))
    BY <1>3, <2>1 DEF whole
  <2>3. 1 \in 1..(Len(options) + 1) /\ filed \in 1..(Len(options) + 1) /\ {} \in SUBSET (1..(1 - 1))
    BY <1>1
  <2>4. PICK k \in 0..(filed - 1) :
          /\ Walk(r, Block) \in After({} \cup (1..((1 + k) - 1)), {})
          /\ Whole(Block, Between(1, filed), 0) => k = filed - 1
    BY <1>1, <2>2, <2>3, BetweenReads
  <2>5. {} \cup (1..((1 + k) - 1)) = 1..k
    BY <1>1
  <2> QED  BY <2>1, <2>2, <2>4, <2>5 DEF OwnRead
<1>5. CASE Overload # << >>
  <2>1. PICK v \in 1..3 :
          Overload = <<[code |-> OPT_OVERLOAD, value |-> <<v>>]>> /\ Announced = {v}
    BY <1>5, AnnouncedIs
  <2> DEFINE o == [code |-> OPT_OVERLOAD, value |-> <<v>>]
             K == [k \in 0..filed |->
                     IF early THEN IF k = 0 THEN After({}, {}) ELSE After(1..(k - 1), {v})
                     ELSE IF k = filed THEN After(1..(filed - 1), {v}) ELSE After(1..k, {})]
  <2>2. /\ Len(OwnField) = filed /\ OwnField[IF early THEN 1 ELSE filed] = o
        /\ \A k \in 1..(filed - 1) : OwnField[IF early THEN k + 1 ELSE k] = options[k]
    <3>1. Overload[1] = o
      BY <2>1
    <3> HIDE DEF o
    <3> QED  BY <1>5, <3>1, OwnIs
  <2>3. K \in [0..Len(OwnField) -> SUBSET ReadStates]
    BY <2>2 DEF After
  <2>4. o.code = OPT_OVERLOAD /\ o.value = <<v>> /\ v \in Nat /\ {} \cup {v} = {v}
    OBVIOUS
  <2> HIDE DEF o
  <2>5. ASSUME NEW k \in 1..(filed - 1), NEW V, NEW x \in After(1..(k - 1), V)
        PROVE  Absorb(x, options[k].code, options[k].value) \in After(1..k, V)
    <3>1. /\ k \in 1..Len(options) /\ 1..(k - 1) \in SUBSET (1..(k - 1))
          /\ (1..(k - 1)) \cup {k} = 1..k
      BY <1>1
    <3> QED  BY <1>1, <2>5, <3>1, AbsorbKnows
  <2>6. ASSUME NEW V, NEW J, V = {}, NEW x \in After(J, V)
        PROVE  Absorb(x, o.code, o.value) \in After(J, {v})
    BY <2>4, <2>6, AbsorbOverload
  <2>7. ASSUME NEW k \in 1..filed, NEW x \in K[k - 1]
        PROVE  Absorb(x, OwnField[k].code, OwnField[k].value) \in K[k]
    <3>1. k - 1 \in 0..filed /\ k \in 0..filed
      BY <1>1
    <3>2. CASE early /\ k = 1
      <4>1. OwnField[k] = o /\ x \in After({}, {}) /\ K[k] = After(1..0, {v})
        BY <2>2, <3>1, <3>2
      <4>2. 1..0 = {}
        OBVIOUS
      <4> QED  BY <2>6, <4>1, <4>2
    <3>3. CASE early /\ k # 1
      <4>1. k - 1 \in 1..(filed - 1) /\ (k - 1) + 1 = k
        BY <1>1, <3>3
      <4>2. OwnField[k] = options[k - 1]
        BY <2>2, <3>3, <4>1
      <4>3. x \in After(1..((k - 1) - 1), {v}) /\ K[k] = After(1..(k - 1), {v})
        BY <3>1, <3>3
      <4> HIDE DEF K
      <4> QED  BY <2>5, <4>1, <4>2, <4>3
    <3>4. CASE ~early /\ k = filed
      <4>1. OwnField[k] = o /\ x \in After(1..(k - 1), {}) /\ K[k] = After(1..(filed - 1), {v})
        BY <1>1, <2>2, <3>1, <3>4
      <4> QED  BY <2>6, <3>4, <4>1
    <3>5. CASE ~early /\ k # filed
      <4>1. k \in 1..(filed - 1) /\ k - 1 # filed
        BY <1>1, <3>5
      <4>2. OwnField[k] = options[k]
        BY <2>2, <3>5, <4>1
      <4>3. x \in After(1..(k - 1), {}) /\ K[k] = After(1..k, {})
        BY <3>1, <3>5, <4>1
      <4> HIDE DEF K
      <4> QED  BY <2>5, <4>1, <4>2, <4>3
    <3> QED  BY <1>1, <3>2, <3>3, <3>4, <3>5
  <2>8. r \in K[0]
    <3>1. 0 \in 0..filed /\ 0 # filed /\ 1..0 = {}
      BY <1>1
    <3> QED  BY <3>1
  <2>9. ASSUME NEW k \in 0..filed, NEW x \in K[k], lost = 0 => k = filed
        PROVE  OwnRead(x)
    <3>1. CASE early /\ k = 0
      <4>1. x \in After(1..0, {}) /\ lost # 0 /\ 0 \in 0..(filed - 1)
        BY <1>1, <2>9, <3>1
      <4> QED  BY <4>1 DEF OwnRead
    <3>2. CASE early /\ k # 0
      <4>1. x \in After(1..(k - 1), {v}) /\ k - 1 \in 0..(filed - 1)
        BY <1>1, <3>2
      <4> QED  BY <2>1, <2>9, <4>1 DEF OwnRead
    <3>3. CASE ~early /\ k = filed
      <4>1. x \in After(1..(filed - 1), {v}) /\ filed - 1 \in 0..(filed - 1)
        BY <1>1, <3>3
      <4> QED  BY <2>1, <2>9, <4>1 DEF OwnRead
    <3>4. CASE ~early /\ k # filed
      <4>1. x \in After(1..k, {}) /\ lost # 0 /\ k \in 0..(filed - 1)
        BY <1>1, <2>9, <3>4
      <4> QED  BY <4>1 DEF OwnRead
    <3> QED  BY <1>1, <3>1, <3>2, <3>3, <3>4
  <2> HIDE DEF K
  <2>10. LeadsOn(K, ReadStates, OwnField)
    BY <2>2, <2>3, <2>7 DEF LeadsOn
  <2>11. PICK k \in 0..Len(OwnField) : Walk(r, Block) \in K[k] /\ (whole => k = Len(OwnField))
    BY <1>2, <1>3, <2>8, <2>10, WalkReads DEF whole
  <2> QED  BY <1>3, <2>2, <2>9, <2>11
<1> QED  BY <1>4, <1>5

\* And what a further field holds is known in addition.
LEMMA FieldReads ==
  ASSUME options \in Seq(Options), NEW i \in 1..(Len(options) + 1),
         NEW j \in i..(Len(options) + 1), NEW J \in SUBSET (1..(i - 1)), NEW V,
         NEW r \in After(J, V), NEW p, NEW block, Framed(block, Between(i, j), p),
         Whole(block, Between(i, j), p)
  PROVE  Walk(r, block) \in After(J \cup (i..(j - 1)), V)
<1>1. PICK k \in 0..(j - i) :
        /\ Walk(r, block) \in After(J \cup (i..((i + k) - 1)), V)
        /\ Whole(block, Between(i, j), p) => k = j - i
  BY BetweenReads
<1>2. (i + k) - 1 = j - 1
  BY <1>1
<1> QED  BY <1>1, <1>2

\* What is read of a message is the first usable value of some of its options, and of
\* all of them if nothing was lost.
LEMMA MessageReads ==
  ASSUME LeasesInv, ParseOptions # NotSaid
  PROVE  \E J \in SUBSET (1..Len(options)) :
           Knows(ParseOptions, J) /\ (lost = 0 => J = 1..Len(options))
<1> DEFINE start == [known |-> NothingKnown, overload |-> {}]
           main == Walk(start, Block)
           file == IF Spilled(main, 1) THEN Walk(main, File) ELSE main
           all == IF Spilled(file, 2) THEN Walk(file, Sname) ELSE file
           n == Len(options)
<1>1. /\ options \in Seq(Options) /\ n \in Nat
      /\ filed \in 1..(n + 1) /\ named \in filed..(n + 1)
  BY DEF LeasesInv
<1>2. ParseOptions = all.known
  BY DEF ParseOptions
<1>3. start \in After({}, {})
  <2>1. start \in ReadStates
    BY DEF ReadStates, NothingKnown
  <2>2. Knows(start.known, {})
    BY DEF Knows, NothingKnown
  <2> QED  BY <2>1, <2>2 DEF After
<1> HIDE DEF start, all
<1>4. OwnRead(main)
  BY <1>3, OwnReads
<1>5. PICK c \in 0..(filed - 1), V \in {{}, Announced} :
        main \in After(1..c, V) /\ (lost = 0 => c = filed - 1 /\ V = Announced)
  BY <1>4 DEF OwnRead
<1> HIDE DEF main
<1>6. main.overload = V
  BY <1>5 DEF After
<1>7. CASE V = {}
  <2>1. ~Spilled(main, 1) /\ ~Spilled(main, 2)
    BY <1>6, <1>7 DEF Spilled
  <2>2. all = main
    BY <2>1 DEF all
  <2>3. Knows(all.known, 1..c) /\ 1..c \in SUBSET (1..n)
    BY <1>1, <1>5, <2>2 DEF After
  <2>4. lost = 0 => 1..c = 1..n
    <3>1. SUFFICES ASSUME lost = 0  PROVE c = n
      OBVIOUS
    <3>2. Announced = {} /\ c = filed - 1
      BY <1>5, <1>7, <3>1
    <3>3. filed = named /\ named = n + 1
      BY <3>2, AnnouncedIs
    <3> QED  BY <1>1, <3>2, <3>3
  <2> QED  BY <1>2, <2>3, <2>4
<1>8. CASE V # {}
  <2>1. PICK v \in 1..3 :
          /\ Announced = {v}
          /\ (v \div 1) % 2 = 1 <=> filed < named
          /\ (v \div 2) % 2 = 1 <=> named < n + 1
    BY <1>5, <1>8, AnnouncedIs
  <2>2. V = {v} /\ main \in After(1..c, {v})
    BY <1>5, <1>8, <2>1
  <2> DEFINE F == (1..c) \cup (filed..(named - 1))
             H == F \cup (named..n)
  <2>3. ASSUME NEW J, NEW x \in After(J, {v})
        PROVE  /\ Spilled(x, 1) <=> filed < named
               /\ Spilled(x, 2) <=> named < n + 1
    <3>1. x.overload = {v}
      BY <2>3 DEF After
    <3> QED  BY <2>1, <3>1 DEF Spilled
  <2>4. file \in After(F, {v})
    <3>1. CASE filed < named
      <4>1. file = Walk(main, File)
        BY <2>2, <2>3, <3>1
      <4>2. Plainly(Between(filed, named))
        BY <1>1, BetweenIs
      <4>3. Framed(File, Between(filed, named), 0) /\ Whole(File, Between(filed, named), 0)
        BY <4>2, BlocksAreFramed DEF File
      <4>4. 1..c \in SUBSET (1..(filed - 1))
        BY <1>1
      <4> QED  BY <1>1, <2>2, <4>1, <4>3, <4>4, FieldReads
    <3>2. CASE ~(filed < named)
      <4>1. file = main
        BY <2>2, <2>3, <3>2
      <4>2. F = 1..c
        BY <1>1, <3>2
      <4> QED  BY <2>2, <4>1, <4>2
    <3> QED  BY <3>1, <3>2
  <2> HIDE DEF file
  <2>5. all \in After(H, {v})
    <3>1. CASE named < n + 1
      <4>1. all = Walk(file, Sname)
        BY <2>3, <2>4, <3>1 DEF all
      <4>2. /\ named \in 1..(n + 1) /\ n + 1 \in named..(n + 1) /\ (n + 1) - 1 = n
            /\ F \in SUBSET (1..(named - 1))
        BY <1>1
      <4>3. Plainly(Between(named, n + 1))
        BY <1>1, <4>2, BetweenIs
      <4>4. /\ Framed(Sname, Between(named, n + 1), 1)
            /\ Whole(Sname, Between(named, n + 1), 1)
        BY <4>3, BlocksAreFramed DEF Sname
      <4> HIDE DEF F, n
      <4>5. Walk(file, Sname) \in After(F \cup (named..((n + 1) - 1)), {v})
        BY <1>1, <2>4, <4>2, <4>4, FieldReads DEF n
      <4> QED  BY <4>1, <4>2, <4>5
    <3>2. CASE ~(named < n + 1)
      <4>1. all = file
        BY <2>3, <2>4, <3>2 DEF all
      <4>2. H = F
        BY <1>1, <3>2
      <4> QED  BY <2>4, <4>1, <4>2
    <3> QED  BY <3>1, <3>2
  <2>6. H \in SUBSET (1..n)
    BY <1>1
  <2>7. lost = 0 => H = 1..n
    BY <1>1, <1>5
  <2>8. Knows(all.known, H)
    BY <2>5 DEF After
  <2> QED  BY <1>2, <2>6, <2>7, <2>8
<1> QED  BY <1>7, <1>8

-----------------------------------------------------------------------------
(***************************************************************************)
(* Leases: read as written, and about the sender                           *)
(***************************************************************************)
\* What is read was said, and of a whole message it is what was said first.
LEMMA ReadAsWritten ==
  ASSUME LeasesInv
  PROVE  OptionsAreRead
<1> DEFINE message == ParseOptions
<1>1. SUFFICES ASSUME message # NotSaid, NEW c \in Codes
               PROVE  /\ message[c] # NotSaid => \E i \in Said(c) : options[i].value = message[c]
                      /\ lost = 0 /\ Said(c) # {} => message[c] = FirstSaid(c)
  BY DEF OptionsAreRead
<1>2. PICK J \in SUBSET (1..Len(options)) :
        Knows(message, J) /\ (lost = 0 => J = 1..Len(options))
  BY <1>1, MessageReads
<1> HIDE DEF message
<1>3. IF Said(c) \cap J = {} THEN message[c] = NotSaid
      ELSE \E i \in Said(c) \cap J :
             (\A j \in Said(c) \cap J : i <= j) /\ message[c] = options[i].value
  BY <1>2 DEF Knows
<1>4. message[c] # NotSaid => \E i \in Said(c) : options[i].value = message[c]
  BY <1>3
<1>5. ASSUME lost = 0, Said(c) # {}  PROVE message[c] = FirstSaid(c)
  <2>1. Said(c) \cap J = Said(c) /\ Said(c) \subseteq Nat
    BY <1>2, <1>5 DEF Said
  <2>2. PICK i \in Said(c) : (\A j \in Said(c) : i <= j) /\ message[c] = options[i].value
    BY <1>3, <1>5, <2>1
  <2> DEFINE first == CHOOSE k \in Said(c) : \A j \in Said(c) : k <= j
  <2>3. first \in Said(c) /\ \A j \in Said(c) : first <= j
    BY <2>2
  <2> HIDE DEF first
  <2>4. first = i
    <3>1. first <= i /\ i <= first /\ first \in Nat /\ i \in Nat
      BY <2>1, <2>2, <2>3
    <3> QED  BY <3>1
  <2> QED  BY <2>2, <2>4 DEF first, FirstSaid
<1> QED  BY <1>4, <1>5

\* A message of one type is of its sender.
LEMMA SendersAreNamed ==
  ASSUME LeasesInv
  PROVE  ServersNameNobody
<1> DEFINE message == ParseOptions
           M == OPT_MESSAGE_TYPE
           types == {options[i].value : i \in Said(M)}
<1>1. SUFFICES ASSUME message # NotSaid, Cardinality(types) = 1
               PROVE  IF types \subseteq ServerTypes
                      THEN SignalsOf(message) = {} /\ DeviceOf(message) = frameSrc
                      ELSE /\ chaddr \notin GroupMacs => DeviceOf(message) = chaddr
                           /\ DeviceOf(message) \notin GroupMacs
                           /\ lost = 0 => \A c \in Codes \ {M} :
                                Said(c) # {} =>
                                  [code |-> c, value |-> FirstSaid(c)] \in SignalsOf(message)
  BY DEF ServersNameNobody
<1>2. M \in Codes /\ frameSrc \notin GroupMacs
  BY LeasesAssumption DEF LeasesInv
<1>3. message[M] # NotSaid
  BY <1>1 DEF ParseOptions
<1>4. /\ \A c \in Codes : message[c] # NotSaid => \E i \in Said(c) : options[i].value = message[c]
      /\ \A c \in Codes : lost = 0 /\ Said(c) # {} => message[c] = FirstSaid(c)
  BY <1>1, ReadAsWritten DEF OptionsAreRead
<1>5. PICK t : types = {t}
  <2>1. IsFiniteSet(Said(M))
    <3>1. IsFiniteSet(1..Len(options)) /\ Said(M) \subseteq 1..Len(options)
      BY FS_Interval DEF LeasesInv, Said
    <3> QED  BY <3>1, FS_Subset
  <2>2. IsFiniteSet(types)
    <3> DEFINE f == [i \in Said(M) |-> options[i].value]
    <3>1. f \in Surjection(Said(M), types)
      BY DEF Surjection
    <3> HIDE DEF f, types, M
    <3> QED  BY <2>1, <3>1, FS_Surjection
  <2> HIDE DEF types
  <2> QED  BY <1>1, <2>2, FS_Singleton
<1> HIDE DEF message, M
<1>6. message[M] = t
  BY <1>2, <1>3, <1>4, <1>5
<1> HIDE DEF types
<1>7. CASE t \in ServerTypes
  BY <1>5, <1>6, <1>7 DEF SignalsOf, DeviceOf, M
<1>8. CASE t \notin ServerTypes
  <2>1. ~(types \subseteq ServerTypes)
    BY <1>5, <1>8
  <2>2. DeviceOf(message) = IF chaddr \in GroupMacs THEN frameSrc ELSE chaddr
    BY <1>6, <1>8 DEF DeviceOf, M
  <2>3. ASSUME lost = 0, NEW c \in Codes \ {M}, Said(c) # {}
        PROVE  [code |-> c, value |-> FirstSaid(c)] \in SignalsOf(message)
    <3>1. message[c] = FirstSaid(c)
      BY <1>4, <2>3
    <3>2. FirstSaid(c) # NotSaid
      <4> DEFINE first == CHOOSE k \in Said(c) : \A j \in Said(c) : k <= j
      <4>1. \E k \in Said(c) : \A j \in Said(c) : k <= j
        <5>1. Said(c) \in SUBSET Nat
          BY DEF Said
        <5> QED  BY <2>3, <5>1, LeastNumber
      <4>2. first \in Said(c)
        BY <4>1
      <4> HIDE DEF first
      <4>3. options[first] \in Usable
        BY <4>2 DEF Said
      <4> QED  BY <4>3, LeasesAssumption DEF first, FirstSaid
    <3> QED  BY <1>6, <1>8, <3>1, <3>2 DEF SignalsOf, M
  <2> QED  BY <1>2, <2>1, <2>2, <2>3
<1> QED  BY <1>7, <1>8

\* At first there is nothing to say.
LEMMA LeasesStart == LeasesInit => LeasesInv
<1> SUFFICES ASSUME LeasesInit  PROVE LeasesInv
  OBVIOUS
<1>1. options \in Seq(Options) /\ Len(options) = 0
  BY DEF LeasesInit
<1>2. /\ filed = 1 /\ named = 1 /\ lost = 0
      /\ frameSrc \in Addresses \ GroupMacs
  BY DEF LeasesInit
<1>3. early \in BOOLEAN
  BY DEF LeasesInit
<1>4. filed \in 1..(Len(options) + 1) /\ named \in filed..(Len(options) + 1) /\ lost \in Nat
  BY <1>1, <1>2
<1> QED  BY <1>1, <1>2, <1>3, <1>4 DEF LeasesInv

\* However options are said, cut and lost, they stay options that were cut and lost.
LEMMA LeasesStep == LeasesInv /\ [LeasesNext]_leaseVars => LeasesInv'
<1> SUFFICES ASSUME LeasesInv, [LeasesNext]_leaseVars  PROVE LeasesInv'
  OBVIOUS
<1>1. /\ options \in Seq(Options) /\ Len(options) \in Nat
      /\ filed \in 1..(Len(options) + 1) /\ named \in filed..(Len(options) + 1)
      /\ early \in BOOLEAN /\ frameSrc \in Addresses \ GroupMacs
      /\ lost \in Nat /\ (lost = 0 \/ lost <= Len(OwnWhole))
  BY DEF LeasesInv
<1>2. ASSUME NEW o \in Options, Say(o)  PROVE LeasesInv'
  <2>1. /\ options' = Append(options, o) /\ filed' = filed + 1 /\ named' = named + 1
        /\ early' = early /\ frameSrc' = frameSrc /\ lost' = 0
    BY <1>2 DEF Say
  <2>2. options' \in Seq(Options) /\ Len(options') = Len(options) + 1
    BY <1>1, <2>1
  <2>3. filed' \in 1..(Len(options') + 1) /\ named' \in filed'..(Len(options') + 1)
    BY <1>1, <2>1, <2>2
  <2> QED  BY <1>1, <2>1, <2>2, <2>3 DEF LeasesInv
<1>3. ASSUME NEW i \in 1..Len(options), NEW j \in 1..(Len(options) + 1), NEW first \in BOOLEAN,
             i <= j, Spill(i, j, first)
      PROVE  LeasesInv'
  <2>1. /\ options' = options /\ filed' = i /\ named' = j /\ early' = first
        /\ frameSrc' = frameSrc /\ lost' = 0
    BY <1>3 DEF Spill
  <2>2. i \in 1..(Len(options) + 1) /\ j \in i..(Len(options) + 1)
    BY <1>1, <1>3
  <2> QED  BY <1>1, <2>1, <2>2 DEF LeasesInv
<1>4. ASSUME Lose  PROVE LeasesInv'
  <2>1. /\ lost' = lost + 1 /\ Block # << >>
        /\ UNCHANGED <<options, filed, named, early, frameSrc>>
    BY <1>4 DEF Lose
  <2>2. OwnWhole' = OwnWhole
    BY <2>1 DEF OwnWhole, OwnField, Overload, Between
  <2>3. OwnWhole \in Seq(Byte) /\ Len(OwnWhole) \in Nat
    <3>1. Joined(OwnField) \in Seq(Byte) /\ <<OPT_END>> \in Seq(Byte)
      BY OwnIs, BlocksAreFramed DEF OPT_END, Byte
    <3>2. OwnWhole \in Seq(Byte)
      BY <3>1 DEF OwnWhole
    <3> QED  BY <3>2
  <2>4. Block = SubSeq(OwnWhole, 1, Len(OwnWhole) - lost)
    BY DEF Block, OwnWhole
  <2>5. lost + 1 <= Len(OwnWhole)
    <3>1. SUFFICES ASSUME ~(lost + 1 <= Len(OwnWhole))  PROVE FALSE
      OBVIOUS
    <3>2. Len(OwnWhole) - lost \in Int /\ Len(OwnWhole) - lost <= 0
      BY <1>1, <2>3, <3>1
    <3>3. SubSeq(OwnWhole, 1, Len(OwnWhole) - lost) = << >>
      BY <2>3, <3>2
    <3> QED  BY <2>1, <2>4, <3>3
  <2> QED  BY <1>1, <2>1, <2>2, <2>5 DEF LeasesInv
<1>5. CASE UNCHANGED leaseVars
  BY <1>5 DEF leaseVars, LeasesInv, OwnWhole, OwnField, Overload, Between
<1> QED  BY <1>2, <1>3, <1>4, <1>5 DEF LeasesNext

\* A message of any options, cut anywhere into its three fields and announced at either end
\* of the first, is read as it was written, and whatever of it is lost nothing is made up;
\* what a server says names nobody, and what a client says the client and not the relay
\* (dhcp.rs:171, :206, :16-30).
THEOREM LeasesHold == LeasesSpec => []LeasesStand
<1>1. LeasesInv => LeasesStand
  BY ReadAsWritten, SendersAreNamed DEF LeasesStand
<1> QED  BY <1>1, LeasesStart, LeasesStep, PTL DEF LeasesSpec
-----------------------------------------------------------------------------
(***************************************************************************)
(* Messages: names                                                         *)
(***************************************************************************)
\* What holds at first and from one number to the next holds up to any.
LEMMA CountUp ==
  ASSUME NEW n \in Nat, NEW T, 0 \in T, \A k \in 1..n : k - 1 \in T => k \in T
  PROVE  \A k \in 0..n : k \in T
<1> DEFINE F == {k \in 0..n : k \notin T}
<1>1. F = {}
  <2> SUFFICES ASSUME F # {}  PROVE FALSE
    OBVIOUS
  <2>1. PICK k \in F : \A j \in F : k <= j
    <3>1. F \in SUBSET Nat
      OBVIOUS
    <3> HIDE DEF F
    <3> QED  BY <3>1, LeastNumber
  <2>2. k # 0
    BY <2>1
  <2>3. k \in 1..n /\ k - 1 \in 0..n /\ ~(k <= k - 1)
    BY <2>1, <2>2
  <2>4. k - 1 \in T
    BY <2>1, <2>3
  <2> QED  BY <2>1, <2>3, <2>4
<1> QED  BY <1>1

\* A list goes on as another begins.
Continues(s, t) == Len(s) <= Len(t) /\ \A x \in 1..Len(s) : t[x] = s[x]

LEMMA PrefixIs ==
  ASSUME NEW S, NEW s \in Seq(S), NEW t \in Seq(S)
  PROVE  IsPrefix(s, t) <=> Continues(s, t)
<1>1. Len(s) \in Nat /\ Len(t) \in Nat
  OBVIOUS
<1>2. CASE Len(s) <= Len(t)
  <2> DEFINE h == SubSeq(s, 1, Len(s))
             g == SubSeq(t, 1, Len(s))
  <2>1. 1 \in 1..(Len(s) + 1) /\ Len(s) \in (1 - 1)..Len(s) /\ (Len(s) - 1) + 1 = Len(s)
    BY <1>1
  <2>2. 1 \in 1..(Len(t) + 1) /\ Len(s) \in (1 - 1)..Len(t)
    BY <1>1, <1>2
  <2>3. h \in Seq(S) /\ Len(h) = Len(s) /\ \A y \in 1..Len(s) : h[y] = s[(1 + y) - 1]
    BY <2>1, PartEntries
  <2>4. g \in Seq(S) /\ Len(g) = Len(s) /\ \A y \in 1..Len(s) : g[y] = t[(1 + y) - 1]
    BY <2>1, <2>2, PartEntries
  <2>5. \A y \in 1..Len(s) : (1 + y) - 1 = y
    BY <1>1
  <2> HIDE DEF h, g
  <2>6. h = g <=> \A y \in 1..Len(s) : h[y] = g[y]
    BY <2>3, <2>4, SameEntries
  <2>7. h = g <=> \A y \in 1..Len(s) : t[y] = s[y]
    BY <2>3, <2>4, <2>5, <2>6
  <2> QED  BY <1>2, <2>7 DEF IsPrefix, Continues, h, g
<1>3. CASE ~(Len(s) <= Len(t))
  BY <1>3 DEF IsPrefix, Continues
<1> QED  BY <1>2, <1>3

LEMMA ContinuesOn ==
  ASSUME NEW S, NEW s \in Seq(S), NEW t \in Seq(S), NEW x \in S, Continues(s, t)
  PROVE  Continues(s, Append(t, x))
<1>1. /\ Len(s) \in Nat /\ Len(t) \in Nat /\ Len(Append(t, x)) = Len(t) + 1
      /\ \A y \in 1..Len(t) : Append(t, x)[y] = t[y]
  OBVIOUS
<1>2. Len(s) <= Len(t) /\ \A y \in 1..Len(s) : t[y] = s[y]
  BY DEF Continues
<1>3. Len(s) <= Len(t) + 1
  BY ONLY <1>1, <1>2
<1>4. ASSUME NEW y \in 1..Len(s)  PROVE Append(t, x)[y] = s[y]
  <2>1. y \in 1..Len(t)
    BY <1>1, <1>2
  <2> QED  BY <1>1, <1>2, <2>1
<1> QED  BY <1>1, <1>3, <1>4 DEF Continues

\* What a name being read is.
WalkStates ==
  [state : {"reading", "read", "bad"}, at : Nat, labels : NamesRead,
   end : Nat \cup {Unread}, pointers : Nat]

\* What can stand where a name is read: its end, a label or a pointer.
EndsHere(b, q) == Has(b, q) /\ Octet(b, q) = 0
LabelEnd(b, q) == q + 1 + Octet(b, q)
LabelHere(b, q) == Has(b, q) /\ Octet(b, q) \in 1..63 /\ LabelEnd(b, q) <= Len(b)
Spelt(b, q) == Cut(b, q + 1, LabelEnd(b, q))
Target(b, q) == (Octet(b, q) - 192) * 256 + Octet(b, q + 1)
PointerHere(b, q) == Has(b, q + 1) /\ Octet(b, q) >= 192 /\ Target(b, q) < q

\* What the reader makes of each.
NameEnded(w) == [w EXCEPT !.state = "read", !.end = IF @ = Unread THEN w.at + 1 ELSE @]
Labelled(b, w) ==
  [w EXCEPT !.labels = Append(w.labels, Spelt(b, w.at)), !.at = LabelEnd(b, w.at)]
Pointed(b, w) ==
  [w EXCEPT !.pointers = @ + 1, !.end = EndsAt(w), !.at = Target(b, w.at)]

\* A label is read if there is room for it, and a pointer followed.
Labels(b, w) == LabelHere(b, w.at) /\ Len(w.labels) < MaxLabels
Points(b, w) == PointerHere(b, w.at) /\ w.pointers # MaxPointers

\* The octets of a message are numbers.
LEMMA OctetsAre ==
  ASSUME NEW b \in Seq(Octets), NEW q \in Nat, Has(b, q)
  PROVE  Octet(b, q) \in 0..255 /\ q + 1 \in 1..Len(b) /\ Octet(b, q) = b[q + 1]
<1>1. Len(b) \in Nat /\ q < Len(b)
  BY DEF Has
<1>2. q + 1 \in 1..Len(b)
  BY <1>1
<1>3. b[q + 1] \in Octets
  BY <1>2
<1> QED  BY <1>2, <1>3, MessagesAssumption DEF Octet

\* A pointer is a number.
LEMMA TargetIsNumber ==
  ASSUME NEW o \in 0..255, NEW l \in 0..255, o >= 192
  PROVE  (o - 192) * 256 + l \in Nat
OBVIOUS

\* A label is a list of octets of the message.
LEMMA SpeltIs ==
  ASSUME NEW b \in Seq(Octets), NEW q \in Nat, LabelHere(b, q)
  PROVE  /\ Spelt(b, q) \in Seq(Octets) /\ LabelEnd(b, q) \in Nat /\ q < LabelEnd(b, q)
         /\ LabelEnd(b, q) <= Len(b)
<1>1. Octet(b, q) \in 1..63 /\ LabelEnd(b, q) = q + 1 + Octet(b, q) /\ LabelEnd(b, q) <= Len(b)
  BY DEF LabelHere, LabelEnd
<1> DEFINE e == LabelEnd(b, q)
<1>2. e \in Nat /\ q < e /\ Len(b) \in Nat /\ q + 1 <= e
  <2> DEFINE o == Octet(b, q)
  <2>1. q \in Nat /\ o \in 1..63 /\ e = q + 1 + o
    BY <1>1
  <2> HIDE DEF o, e
  <2>2. e \in Nat /\ q < e /\ q + 1 <= e
    BY ONLY <2>1
  <2> QED  BY <2>2
<1> HIDE DEF e
<1>3. (q + 1) + 1 \in 1..(Len(b) + 1) /\ e \in (((q + 1) + 1) - 1)..Len(b)
  BY <1>1, <1>2 DEF e
<1>4. SubSeq(b, (q + 1) + 1, e) \in Seq(Octets)
  BY <1>3, PartEntries
<1> QED  BY <1>1, <1>2, <1>4 DEF Spelt, Cut, e

\* A turn reads what stands there.
LEMMA TurnIs ==
  ASSUME NEW b \in Seq(Octets), NEW w \in WalkStates
  PROVE  Turn(b, w) = IF w.state # "reading" THEN w
                      ELSE IF EndsHere(b, w.at) THEN NameEnded(w)
                      ELSE IF Labels(b, w) THEN Labelled(b, w)
                      ELSE IF Points(b, w) THEN Pointed(b, w)
                      ELSE Bad(w)
<1> DEFINE q == w.at
           o == Octet(b, q)
           l == Append(w.labels, Cut(b, q + 1, q + 1 + o))
<1>1. q \in Nat /\ w.labels \in NamesRead /\ Len(w.labels) \in Nat /\ w.pointers \in Nat
  BY DEF WalkStates, NamesRead
<1>2. Len(b) \in Nat /\ MaxLabels \in Nat
  BY MessagesAssumption
<1>3. CASE w.state # "reading"
  BY <1>3 DEF Turn
<1>4. CASE w.state = "reading" /\ ~Has(b, q)
  <2>1. ~EndsHere(b, q) /\ ~Labels(b, w)
    BY <1>4 DEF EndsHere, Labels, LabelHere
  <2>2. ~Has(b, q + 1)
    BY <1>1, <1>2, <1>4 DEF Has
  <2>3. ~Points(b, w)
    BY <2>2 DEF Points, PointerHere
  <2>4. Turn(b, w) = Bad(w)
    BY <1>4 DEF Turn
  <2> QED  BY <1>4, <2>1, <2>3, <2>4
<1>5. CASE w.state = "reading" /\ Has(b, q)
  <2>1. o \in 0..255
    BY <1>1, <1>5, OctetsAre
  <2> HIDE DEF o
  <2>2. Turn(b, w) = IF o = 0 THEN NameEnded(w) ELSE IF o \in 1..63 THEN TakeLabel(b, w)
                     ELSE IF o >= 192 THEN FollowPointer(b, w) ELSE Bad(w)
    BY <1>5 DEF Turn, NameEnded, o
  <2>3. EndsHere(b, q) <=> o = 0
    BY <1>5 DEF EndsHere, o
  <2>4. Labels(b, w) <=> o \in 1..63 /\ q + 1 + o <= Len(b) /\ Len(w.labels) < MaxLabels
    BY <1>5 DEF Labels, LabelHere, LabelEnd, o
  <2>5. Points(b, w) <=> /\ Has(b, q + 1) /\ o >= 192 /\ Target(b, q) < q
                         /\ w.pointers # MaxPointers
    BY DEF Points, PointerHere, o
  <2>6. CASE o \in 1..63
    <3>1. TakeLabel(b, w) = IF q + 1 + o > Len(b) \/ TooMany(l) THEN Bad(w)
                            ELSE [w EXCEPT !.labels = l, !.at = q + 1 + o]
      BY DEF TakeLabel, o
    <3>2. q + 1 + o \in Nat /\ (q + 1 + o > Len(b) <=> ~(q + 1 + o <= Len(b)))
      <4>1. q + 1 + o \in Nat
        BY <1>1, <2>6
      <4>2. \A x, y \in Nat : x > y <=> ~(x <= y)
        OBVIOUS
      <4> QED  BY <1>2, <4>1, <4>2
    <3>3. TooMany(l) <=> ~(Len(w.labels) < MaxLabels)
      <4>1. Len(l) = Len(w.labels) + 1
        BY <1>1 DEF NamesRead
      <4> HIDE DEF l
      <4> QED  BY <1>1, <1>2, <4>1 DEF TooMany
    <3>4. Labelled(b, w) = [w EXCEPT !.labels = l, !.at = q + 1 + o]
      BY DEF Labelled, Spelt, LabelEnd, o
    <3>5. ~EndsHere(b, q) /\ ~Points(b, w)
      BY <2>3, <2>5, <2>6
    <3> HIDE DEF l
    <3>6. Turn(b, w) = TakeLabel(b, w)
      BY <2>2, <2>6
    <3> QED  BY <1>5, <2>4, <2>6, <3>1, <3>2, <3>3, <3>4, <3>5, <3>6
  <2>7. CASE o >= 192
    <3>1. FollowPointer(b, w) =
            IF ~Has(b, q + 1) \/ Target(b, q) >= q \/ w.pointers = MaxPointers THEN Bad(w)
            ELSE Pointed(b, w)
      BY DEF FollowPointer, Target, Pointed
    <3>2. Has(b, q + 1) => (Target(b, q) >= q <=> ~(Target(b, q) < q))
      <4>1. ASSUME Has(b, q + 1)  PROVE Target(b, q) \in Nat
        <5>1. Octet(b, q + 1) \in 0..255 /\ q + 1 \in Nat
          BY <1>1, <4>1, OctetsAre
        <5>2. Target(b, q) = (o - 192) * 256 + Octet(b, q + 1)
          BY DEF Target, o
        <5> DEFINE j == Octet(b, q + 1)
        <5>3. j \in 0..255
          BY <5>1
        <5> HIDE DEF j
        <5>4. (o - 192) * 256 + j \in Nat
          BY ONLY <2>1, <2>7, <5>3, TargetIsNumber
        <5> QED  BY <5>2, <5>4 DEF j
      <4> DEFINE t == Target(b, q)
      <4>2. ASSUME t \in Nat  PROVE t >= q <=> ~(t < q)
        <5> HIDE DEF t, q
        <5> QED  BY ONLY <1>1, <4>2
      <4> QED  BY <4>1, <4>2
    <3>3. ~EndsHere(b, q) /\ ~Labels(b, w)
      <4>1. o # 0 /\ o \notin 1..63
        BY ONLY <2>1, <2>7
      <4> QED  BY <2>3, <2>4, <4>1
    <3>4. Turn(b, w) = FollowPointer(b, w)
      BY <2>1, <2>2, <2>7
    <3> QED  BY <1>5, <2>5, <2>7, <3>1, <3>2, <3>3, <3>4
  <2>8. CASE o = 0 \/ ~(o \in 1..63 \/ o >= 192)
    BY <1>5, <2>1, <2>2, <2>3, <2>4, <2>5, <2>8
  <2> QED  BY <2>1, <2>6, <2>7, <2>8
<1> QED  BY <1>3, <1>4, <1>5

\* A turn leads to what a name being read is.
LEMMA TurnTypes ==
  ASSUME NEW b \in Seq(Octets), NEW w \in WalkStates
  PROVE  /\ Turn(b, w) \in WalkStates
         /\ EndsHere(b, w.at) => NameEnded(w) \in WalkStates
         /\ LabelHere(b, w.at) => Labelled(b, w) \in WalkStates
         /\ PointerHere(b, w.at) => Pointed(b, w) \in WalkStates
<1>1. /\ w.at \in Nat /\ w.labels \in Seq(Seq(Octets)) /\ w.pointers \in Nat
      /\ w.end \in Nat \cup {Unread}
  BY DEF WalkStates, NamesRead
<1>2. Bad(w) \in WalkStates
  BY DEF Bad, WalkStates
<1>3. NameEnded(w) \in WalkStates
  <2>1. (IF w.end = Unread THEN w.at + 1 ELSE w.end) \in Nat \cup {Unread}
    BY <1>1
  <2>2. NameEnded(w) = [w EXCEPT !.state = "read",
                                 !.end = IF w.end = Unread THEN w.at + 1 ELSE w.end]
    BY DEF NameEnded
  <2> QED  BY <2>1, <2>2 DEF WalkStates
<1>4. ASSUME LabelHere(b, w.at)  PROVE Labelled(b, w) \in WalkStates
  <2>1. Spelt(b, w.at) \in Seq(Octets) /\ LabelEnd(b, w.at) \in Nat
    BY <1>1, <1>4, SpeltIs
  <2>2. Append(w.labels, Spelt(b, w.at)) \in Seq(Seq(Octets))
    BY <1>1, <2>1
  <2> QED  BY <2>1, <2>2 DEF Labelled, WalkStates, NamesRead
<1>5. ASSUME PointerHere(b, w.at)  PROVE Pointed(b, w) \in WalkStates
  <2>1. Has(b, w.at + 1) /\ Octet(b, w.at) >= 192
    BY <1>5 DEF PointerHere
  <2>2. Has(b, w.at)
    BY <1>1, <2>1 DEF Has
  <2>3. Octet(b, w.at) \in 0..255
    BY <1>1, <2>2, OctetsAre
  <2>4. Octet(b, w.at + 1) \in 0..255
    <3>1. w.at + 1 \in Nat
      BY <1>1
    <3> QED  BY <2>1, <3>1, OctetsAre
  <2>5. Target(b, w.at) \in Nat
    <3> DEFINE o == Octet(b, w.at)
               j == Octet(b, w.at + 1)
    <3>1. o \in 0..255 /\ j \in 0..255 /\ o >= 192
      BY <2>1, <2>3, <2>4
    <3>2. Target(b, w.at) = (o - 192) * 256 + j
      BY DEF Target
    <3> HIDE DEF o, j
    <3>3. (o - 192) * 256 + j \in Nat
      BY ONLY <3>1, TargetIsNumber
    <3> QED  BY <3>2, <3>3
  <2>6. EndsAt(w) \in Nat \cup {Unread}
    BY <1>1 DEF EndsAt
  <2>7. w.pointers + 1 \in Nat
    BY <1>1
  <2>8. Pointed(b, w) = [w EXCEPT !.pointers = w.pointers + 1, !.end = EndsAt(w),
                                  !.at = Target(b, w.at)]
    BY DEF Pointed
  <2> QED  BY <2>5, <2>6, <2>7, <2>8 DEF WalkStates
<1> QED
  <2>1. Turn(b, w) \in {w, NameEnded(w), Bad(w)} \/ (Labels(b, w) /\ Turn(b, w) = Labelled(b, w))
        \/ (Points(b, w) /\ Turn(b, w) = Pointed(b, w))
    BY TurnIs
  <2> QED  BY <1>2, <1>3, <1>4, <1>5, <2>1 DEF Labels, Points

\* Where the reading of a name begins.
BeginAt(p) ==
  [state |-> "reading", at |-> p, labels |-> << >>, end |-> Unread, pointers |-> 0]

\* The turns of reading the name at p.
NameWalk(u, b, p) ==
  /\ u \in [0..Turns -> WalkStates] /\ u[0] = BeginAt(p)
  /\ \A k \in 1..Turns : u[k] = Turn(b, u[k - 1])
  /\ u[Turns] = read_name(b, p)

\* Reading a name has turns.
LEMMA NameUnfolds ==
  ASSUME NEW b \in Seq(Octets), NEW p \in Nat
  PROVE  \E u : NameWalk(u, b, p)
<1> DEFINE n == Turns
           Is(f) == f = [k \in 0..n |-> IF k = 0
                           THEN [state |-> "reading", at |-> p, labels |-> << >>,
                                 end |-> Unread, pointers |-> 0]
                           ELSE Turn(b, f[k - 1])]
           step == [k \in 1..n |-> [w \in WalkStates |-> Turn(b, w)]]
           c == CHOOSE f : Is(f)
<1>1. n \in Nat
  BY MessagesAssumption DEF Turns
<1>2. read_name(b, p) = c[n]
  BY DEF read_name
<1>3. BeginAt(p) \in WalkStates
  BY DEF BeginAt, WalkStates, NamesRead
<1>4. step \in [1..n -> [WalkStates -> WalkStates]]
  BY TurnTypes
<1>5. \A k \in 1..n, w \in WalkStates : step[k][w] = Turn(b, w)
  OBVIOUS
<1> HIDE DEF n, step, c
<1>6. PICK f : StepsUpTo(f, n, BeginAt(p), step, WalkStates)
  BY <1>1, <1>3, <1>4, StepsExist
<1>7. /\ f \in [0..n -> WalkStates] /\ f[0] = BeginAt(p)
      /\ \A k \in 1..n : f[k] = step[k][f[k - 1]]
  BY <1>6 DEF StepsUpTo
<1>8. ASSUME NEW k \in 1..n  PROVE f[k] = Turn(b, f[k - 1])
  <2>1. k - 1 \in 0..n
    BY <1>1
  <2>2. f[k - 1] \in WalkStates
    BY <1>7, <2>1
  <2> QED  BY <1>5, <1>7, <2>2
<1>9. Is(f)
  <2>1. \A k \in 0..n : k = 0 \/ k \in 1..n
    BY <1>1
  <2> QED  BY <1>7, <1>8, <2>1 DEF BeginAt
<1>10. Is(c)
  BY <1>9 DEF c
<1>11. c[0] = BeginAt(p) /\ \A k \in 1..n : c[k] = Turn(b, c[k - 1])
  BY <1>1, <1>10 DEF BeginAt
<1>12. \A k \in 0..n : c[k] \in WalkStates
  <2> DEFINE T == {k \in 0..n : c[k] \in WalkStates}
  <2>1. 0 \in T
    BY <1>1, <1>3, <1>11
  <2>2. ASSUME NEW k \in 1..n, k - 1 \in T  PROVE k \in T
    <3>1. c[k] = Turn(b, c[k - 1]) /\ c[k - 1] \in WalkStates /\ k \in 0..n
      BY <1>1, <1>11, <2>2
    <3> QED  BY <3>1, TurnTypes
  <2> HIDE DEF T
  <2>3. \A k \in 0..n : k \in T
    BY <1>1, <2>1, <2>2, CountUp
  <2> QED  BY <2>3 DEF T
<1>13. c \in [0..n -> WalkStates]
  <2>1. c = [k \in 0..n |-> c[k]]
    BY <1>10
  <2> QED  BY <1>12, <2>1
<1> QED  BY <1>2, <1>11, <1>13 DEF NameWalk, n

\* A turn counts: what is read after k of them has that many labels and pointers.
TurnsCounted(w, k) ==
  /\ w.state = "reading" => Len(w.labels) + w.pointers = k
  /\ Len(w.labels) <= MaxLabels /\ w.pointers <= MaxPointers
  /\ w.state = "read" => w.end \in Nat

\* A turn of a name that is being read.
LEMMA TurnCounts ==
  ASSUME NEW b \in Seq(Octets), NEW w \in WalkStates, NEW k \in Nat \ {0}, TurnsCounted(w, k - 1)
  PROVE  TurnsCounted(Turn(b, w), k)
<1>1. /\ w.at \in Nat /\ w.labels \in Seq(Seq(Octets)) /\ w.pointers \in Nat
      /\ w.end \in Nat \cup {Unread} /\ Len(w.labels) \in Nat
      /\ w.state \in {"reading", "read", "bad"}
      /\ w = [state |-> w.state, at |-> w.at, labels |-> w.labels, end |-> w.end,
              pointers |-> w.pointers]
  BY DEF WalkStates, NamesRead
<1>2. MaxLabels \in Nat /\ MaxPointers \in Nat /\ Unread \notin Nat
  BY MessagesAssumption
<1>3. /\ w.state = "reading" => Len(w.labels) + w.pointers = k - 1
      /\ Len(w.labels) <= MaxLabels /\ w.pointers <= MaxPointers
      /\ w.state = "read" => w.end \in Nat
  BY DEF TurnsCounted
<1>4. CASE w.state # "reading"
  <2>1. Turn(b, w) = w
    BY <1>4, TurnIs
  <2> QED  BY <1>3, <1>4, <2>1 DEF TurnsCounted
<1>5. CASE w.state = "reading" /\ Turn(b, w) = NameEnded(w)
  <2>1. /\ NameEnded(w).state = "read" /\ NameEnded(w).labels = w.labels
        /\ NameEnded(w).pointers = w.pointers
        /\ NameEnded(w).end = IF w.end = Unread THEN w.at + 1 ELSE w.end
    BY <1>1 DEF NameEnded
  <2>2. NameEnded(w).end \in Nat
    BY <1>1, <2>1
  <2> QED  BY <1>3, <1>5, <2>1, <2>2 DEF TurnsCounted
<1>6. CASE w.state = "reading" /\ Labels(b, w) /\ Turn(b, w) = Labelled(b, w)
  <2>1. LabelHere(b, w.at) /\ Len(w.labels) < MaxLabels
    BY <1>6 DEF Labels
  <2>2. Spelt(b, w.at) \in Seq(Octets)
    BY <1>1, <2>1, SpeltIs
  <2>3. Len(Append(w.labels, Spelt(b, w.at))) = Len(w.labels) + 1
    BY <1>1, <2>2
  <2>4. /\ Labelled(b, w).state = "reading" /\ Labelled(b, w).pointers = w.pointers
        /\ Labelled(b, w).labels = Append(w.labels, Spelt(b, w.at))
    BY <1>1, <1>6 DEF Labelled
  <2> DEFINE l == Len(w.labels)
             q == w.pointers
             m == Len(Labelled(b, w).labels)
  <2>5. /\ l \in Nat /\ q \in Nat /\ m = l + 1 /\ l < MaxLabels /\ l + q = k - 1
        /\ q <= MaxPointers
    BY <1>1, <1>3, <1>6, <2>1, <2>3, <2>4
  <2> HIDE DEF l, q, m
  <2>6. m + q = k /\ m <= MaxLabels
    BY <1>2, <2>5
  <2> QED  BY <1>6, <2>4, <2>5, <2>6 DEF TurnsCounted, l, q, m
<1>7. CASE w.state = "reading" /\ Points(b, w) /\ Turn(b, w) = Pointed(b, w)
  <2>1. /\ Pointed(b, w).state = "reading" /\ Pointed(b, w).pointers = w.pointers + 1
        /\ Pointed(b, w).labels = w.labels
    BY <1>1, <1>7 DEF Pointed
  <2> DEFINE l == Len(w.labels)
             q == w.pointers
  <2>2. /\ l \in Nat /\ q \in Nat /\ l <= MaxLabels /\ l + q = k - 1
        /\ q <= MaxPointers /\ q # MaxPointers
    BY <1>1, <1>3, <1>7 DEF Points
  <2> HIDE DEF l, q
  <2>3. l + (q + 1) = k /\ q + 1 <= MaxPointers
    BY <1>2, <2>2
  <2> QED  BY <1>7, <2>1, <2>2, <2>3 DEF TurnsCounted, l, q
<1>8. CASE Turn(b, w) = Bad(w)
  <2>1. Bad(w).state = "bad" /\ Bad(w).labels = w.labels /\ Bad(w).pointers = w.pointers
    BY <1>1 DEF Bad
  <2> QED  BY <1>3, <1>8, <2>1 DEF TurnsCounted
<1> QED
  <2>1. \/ w.state # "reading"
        \/ w.state = "reading" /\ Turn(b, w) = NameEnded(w)
        \/ w.state = "reading" /\ Labels(b, w) /\ Turn(b, w) = Labelled(b, w)
        \/ w.state = "reading" /\ Points(b, w) /\ Turn(b, w) = Pointed(b, w)
        \/ Turn(b, w) = Bad(w)
    BY TurnIs
  <2> QED  BY <1>4, <1>5, <1>6, <1>7, <1>8, <2>1

\* So a name is read in as many turns as it may take.
LEMMA WalkCounts ==
  ASSUME NEW b \in Seq(Octets), NEW p \in Nat, NEW u, NameWalk(u, b, p)
  PROVE  /\ \A k \in 0..Turns : u[k] \in WalkStates /\ TurnsCounted(u[k], k)
         /\ u[Turns].state # "reading"
<1> DEFINE T == {k \in 0..Turns : TurnsCounted(u[k], k)}
<1>1. Turns \in Nat /\ MaxLabels \in Nat /\ MaxPointers \in Nat
      /\ Turns = MaxLabels + MaxPointers + 2
  BY MessagesAssumption DEF Turns
<1>2. /\ \A k \in 0..Turns : u[k] \in WalkStates
      /\ u[0] = BeginAt(p) /\ \A k \in 1..Turns : u[k] = Turn(b, u[k - 1])
  BY DEF NameWalk
<1>3. 0 \in T
  <2>1. /\ u[0].state = "reading" /\ Len(u[0].labels) = 0 /\ u[0].pointers = 0
    BY <1>2 DEF BeginAt
  <2>2. TurnsCounted(u[0], 0)
    BY <1>1, <2>1 DEF TurnsCounted
  <2> QED  BY <1>1, <2>2
<1>4. ASSUME NEW k \in 1..Turns, k - 1 \in T  PROVE k \in T
  <2>1. k - 1 \in 0..Turns /\ k \in 0..Turns /\ k \in Nat \ {0}
    BY <1>1
  <2>2. u[k - 1] \in WalkStates /\ TurnsCounted(u[k - 1], k - 1) /\ u[k] = Turn(b, u[k - 1])
    BY <1>2, <1>4, <2>1
  <2> QED  BY <2>1, <2>2, TurnCounts
<1> HIDE DEF T
<1>5. \A k \in 0..Turns : k \in T
  BY <1>1, <1>3, <1>4, CountUp
<1>6. \A k \in 0..Turns : TurnsCounted(u[k], k)
  BY <1>5 DEF T
<1>7. u[Turns].state # "reading"
  <2> SUFFICES ASSUME u[Turns].state = "reading"  PROVE FALSE
    OBVIOUS
  <2>1. Turns \in 0..Turns
    BY <1>1
  <2>2. /\ Len(u[Turns].labels) + u[Turns].pointers = Turns
        /\ Len(u[Turns].labels) <= MaxLabels /\ u[Turns].pointers <= MaxPointers
    BY <1>6, <2>1 DEF TurnsCounted
  <2>3. Len(u[Turns].labels) \in Nat /\ u[Turns].pointers \in Nat
    BY <1>2, <2>1 DEF WalkStates, NamesRead
  <2> DEFINE l == Len(u[Turns].labels)
             q == u[Turns].pointers
  <2> HIDE DEF l, q
  <2>4. l + q = Turns /\ l <= MaxLabels /\ q <= MaxPointers /\ l \in Nat /\ q \in Nat
    BY <2>2, <2>3 DEF l, q
  <2> QED  BY ONLY <1>1, <2>4
<1> QED  BY <1>2, <1>6, <1>7

\* A name that was read or is bad stays so.
LEMMA NameStays ==
  ASSUME NEW b \in Seq(Octets), NEW p \in Nat, NEW u, NameWalk(u, b, p),
         NEW k \in 0..Turns, u[k].state # "reading", NEW j \in k..Turns
  PROVE  u[j] = u[k]
<1> DEFINE T == {i \in 0..Turns : i >= k => u[i] = u[k]}
<1>1. Turns \in Nat
  BY MessagesAssumption DEF Turns
<1>2. /\ \A i \in 0..Turns : u[i] \in WalkStates
      /\ \A i \in 1..Turns : u[i] = Turn(b, u[i - 1])
  BY DEF NameWalk
<1>3. 0 \in T
  <2>1. 0 >= k => k = 0
    BY <1>1
  <2> QED  BY <1>1, <2>1
<1>4. ASSUME NEW i \in 1..Turns, i - 1 \in T  PROVE i \in T
  <2>1. i - 1 \in 0..Turns /\ i \in 0..Turns
    BY <1>1
  <2>2. CASE i - 1 >= k
    <3>1. u[i - 1] = u[k] /\ u[i] = Turn(b, u[k])
      BY <1>2, <1>4, <2>2
    <3>2. Turn(b, u[k]) = u[k]
      BY <1>2, TurnIs
    <3> QED  BY <2>1, <3>1, <3>2
  <2>3. CASE ~(i - 1 >= k)
    <3>1. i >= k => i = k
      BY <2>1, <2>3
    <3> QED  BY <2>1, <3>1
  <2> QED  BY <2>2, <2>3
<1> HIDE DEF T
<1>5. \A i \in 0..Turns : i \in T
  BY <1>1, <1>3, <1>4, CountUp
<1>6. j \in 0..Turns /\ j >= k
  BY <1>1
<1> QED  BY <1>5, <1>6 DEF T

\* What a name that was read is.
LEMMA NameIs ==
  ASSUME NEW b \in Seq(Octets), NEW p \in Nat
  PROVE  /\ read_name(b, p) \in WalkStates /\ read_name(b, p).state # "reading"
         /\ read_name(b, p).state = "read" => read_name(b, p).end \in Nat
<1>1. PICK u : NameWalk(u, b, p)
  BY NameUnfolds
<1>2. u[Turns] = read_name(b, p)
  BY <1>1 DEF NameWalk
<1>3. Turns \in 0..Turns
  BY MessagesAssumption DEF Turns
<1>4. u[Turns] \in WalkStates /\ TurnsCounted(u[Turns], Turns) /\ u[Turns].state # "reading"
  BY <1>1, <1>3, WalkCounts
<1> QED  BY <1>2, <1>4 DEF TurnsCounted

-----------------------------------------------------------------------------
(***************************************************************************)
(* Messages: one octet more                                                *)
(***************************************************************************)
\* An octet more alters none of those before it.
LEMMA OneMoreOctet ==
  ASSUME NEW b \in Seq(Octets), NEW o \in Octets
  PROVE  /\ Append(b, o) \in Seq(Octets) /\ Len(b) \in Nat /\ Len(Append(b, o)) = Len(b) + 1
         /\ \A q \in Nat : Has(b, q) => Has(Append(b, o), q)
                                        /\ Octet(Append(b, o), q) = Octet(b, q)
         /\ \A to \in 0..Len(b) : \A from \in 0..to :
              Cut(Append(b, o), from, to) = Cut(b, from, to) /\ Cut(b, from, to) \in Seq(Octets)
<1> DEFINE c == Append(b, o)
<1>1. /\ c \in Seq(Octets) /\ Len(b) \in Nat /\ Len(c) = Len(b) + 1
      /\ \A x \in 1..Len(b) : c[x] = b[x]
  OBVIOUS
<1> HIDE DEF c
<1>2. ASSUME NEW q \in Nat, Has(b, q)  PROVE Has(c, q) /\ Octet(c, q) = Octet(b, q)
  <2>1. q < Len(b) /\ q + 1 \in 1..Len(b)
    BY <1>1, <1>2 DEF Has
  <2>2. q < Len(c)
    BY <1>1, <2>1
  <2> QED  BY <1>1, <2>1, <2>2 DEF Has, Octet
<1>3. ASSUME NEW to \in 0..Len(b), NEW from \in 0..to
      PROVE  Cut(c, from, to) = Cut(b, from, to) /\ Cut(b, from, to) \in Seq(Octets)
  <2>1. /\ from + 1 \in 1..(Len(b) + 1) /\ to \in ((from + 1) - 1)..Len(b)
        /\ from + 1 \in 1..(Len(c) + 1) /\ to \in ((from + 1) - 1)..Len(c)
        /\ \A y \in 1..((to - (from + 1)) + 1) : ((from + 1) + y) - 1 \in 1..Len(b)
    BY <1>1
  <2> DEFINE i == from + 1
             s == SubSeq(b, i, to)
             t == SubSeq(c, i, to)
             n == (to - i) + 1
  <2>2. /\ i \in 1..(Len(b) + 1) /\ to \in (i - 1)..Len(b)
        /\ i \in 1..(Len(c) + 1) /\ to \in (i - 1)..Len(c)
        /\ \A y \in 1..n : (i + y) - 1 \in 1..Len(b)
    BY <2>1
  <2> HIDE DEF i
  <2>3. s \in Seq(Octets) /\ Len(s) = n /\ \A y \in 1..n : s[y] = b[(i + y) - 1]
    BY <2>2, PartEntries
  <2>4. t \in Seq(Octets) /\ Len(t) = n /\ \A y \in 1..n : t[y] = c[(i + y) - 1]
    BY <1>1, <2>2, PartEntries
  <2> HIDE DEF s, t, n
  <2>5. \A y \in 1..Len(s) : s[y] = t[y]
    BY <1>1, <2>2, <2>3, <2>4
  <2>6. s = t
    BY <2>3, <2>4, <2>5, SameEntries
  <2> QED  BY <2>3, <2>6 DEF Cut, s, t, i
<1> QED  BY <1>1, <1>2, <1>3 DEF c

\* What stands somewhere still stands there.
LEMMA StillHere ==
  ASSUME NEW b \in Seq(Octets), NEW o \in Octets, NEW q \in Nat
  PROVE  /\ EndsHere(b, q) => EndsHere(Append(b, o), q)
         /\ LabelHere(b, q) => /\ LabelHere(Append(b, o), q) /\ ~EndsHere(Append(b, o), q)
                               /\ LabelEnd(Append(b, o), q) = LabelEnd(b, q)
                               /\ Spelt(Append(b, o), q) = Spelt(b, q)
         /\ PointerHere(b, q) => /\ PointerHere(Append(b, o), q)
                                 /\ ~EndsHere(Append(b, o), q)
                                 /\ ~LabelHere(Append(b, o), q)
                                 /\ Target(Append(b, o), q) = Target(b, q)
<1> DEFINE c == Append(b, o)
<1>1. /\ c \in Seq(Octets) /\ Len(b) \in Nat /\ Len(c) = Len(b) + 1
      /\ \A x \in Nat : Has(b, x) => Has(c, x) /\ Octet(c, x) = Octet(b, x)
      /\ \A to \in 0..Len(b) : \A from \in 0..to : Cut(c, from, to) = Cut(b, from, to)
  BY OneMoreOctet
<1> HIDE DEF c
<1>2. EndsHere(b, q) => EndsHere(c, q)
  BY <1>1 DEF EndsHere
<1>3. ASSUME LabelHere(b, q)
      PROVE  /\ LabelHere(c, q) /\ ~EndsHere(c, q) /\ LabelEnd(c, q) = LabelEnd(b, q)
             /\ Spelt(c, q) = Spelt(b, q)
  <2>1. Has(b, q) /\ Octet(b, q) \in 1..63
    BY <1>3 DEF LabelHere
  <2>2. Has(c, q) /\ Octet(c, q) = Octet(b, q)
    BY <1>1, <2>1
  <2>3. LabelEnd(c, q) = LabelEnd(b, q)
    BY <2>2 DEF LabelEnd
  <2> DEFINE e == LabelEnd(b, q)
  <2>4. e \in Nat /\ q < e /\ e <= Len(b)
    BY <1>3, SpeltIs
  <2> HIDE DEF e
  <2>5. e \in 0..Len(b) /\ q + 1 \in 0..e /\ e <= Len(c)
    BY <1>1, <2>4
  <2>6. Cut(c, q + 1, e) = Cut(b, q + 1, e)
    BY <1>1, <2>5
  <2>7. Octet(b, q) # 0
    <3> DEFINE x == Octet(b, q)
    <3>1. x \in 1..63
      BY <2>1
    <3> HIDE DEF x
    <3>2. x # 0
      BY <3>1
    <3> QED  BY <3>2 DEF x
  <2> QED  BY <2>1, <2>2, <2>3, <2>5, <2>6, <2>7 DEF LabelHere, EndsHere, Spelt, e
<1>4. ASSUME PointerHere(b, q)
      PROVE  /\ PointerHere(c, q) /\ ~EndsHere(c, q) /\ ~LabelHere(c, q)
             /\ Target(c, q) = Target(b, q)
  <2>1. Has(b, q + 1) /\ Octet(b, q) >= 192 /\ Target(b, q) < q
    BY <1>4 DEF PointerHere
  <2>2. Has(b, q) /\ q + 1 \in Nat
    BY <1>1, <2>1 DEF Has
  <2>3. /\ Has(c, q) /\ Octet(c, q) = Octet(b, q)
        /\ Has(c, q + 1) /\ Octet(c, q + 1) = Octet(b, q + 1)
    BY <1>1, <2>1, <2>2
  <2>4. Octet(b, q) # 0 /\ Octet(b, q) \notin 1..63
    <3> DEFINE x == Octet(b, q)
    <3>1. x \in 0..255
      BY <2>2, OctetsAre
    <3>2. x >= 192
      BY <2>1
    <3> HIDE DEF x
    <3>3. x # 0 /\ x \notin 1..63
      BY <3>1, <3>2
    <3> QED  BY <3>3 DEF x
  <2> QED  BY <2>1, <2>3, <2>4 DEF PointerHere, EndsHere, LabelHere, Target
<1> QED  BY <1>2, <1>3, <1>4 DEF c

\* A turn that is not bad is the same turn.
LEMMA TurnLonger ==
  ASSUME NEW b \in Seq(Octets), NEW o \in Octets, NEW w \in WalkStates,
         Turn(b, w).state # "bad"
  PROVE  Turn(Append(b, o), w) = Turn(b, w)
<1> DEFINE c == Append(b, o)
           q == w.at
<1>1. c \in Seq(Octets) /\ q \in Nat
  BY OneMoreOctet DEF WalkStates
<1>2. /\ EndsHere(b, q) => EndsHere(c, q)
      /\ LabelHere(b, q) => /\ LabelHere(c, q) /\ ~EndsHere(c, q)
                            /\ LabelEnd(c, q) = LabelEnd(b, q) /\ Spelt(c, q) = Spelt(b, q)
      /\ PointerHere(b, q) => /\ PointerHere(c, q) /\ ~EndsHere(c, q) /\ ~LabelHere(c, q)
                              /\ Target(c, q) = Target(b, q)
  BY <1>1, StillHere
<1>3. Turn(b, w) = IF w.state # "reading" THEN w
                   ELSE IF EndsHere(b, q) THEN NameEnded(w)
                   ELSE IF Labels(b, w) THEN Labelled(b, w)
                   ELSE IF Points(b, w) THEN Pointed(b, w) ELSE Bad(w)
  BY TurnIs
<1>4. Turn(c, w) = IF w.state # "reading" THEN w
                   ELSE IF EndsHere(c, q) THEN NameEnded(w)
                   ELSE IF Labels(c, w) THEN Labelled(c, w)
                   ELSE IF Points(c, w) THEN Pointed(c, w) ELSE Bad(w)
  <2> HIDE DEF c
  <2> QED  BY <1>1, TurnIs
<1>5. Turn(b, w) # Bad(w) \/ w.state # "reading"
  <2>1. Bad(w).state = "bad"
    BY DEF Bad, WalkStates
  <2> QED  BY <2>1
<1>6. LabelHere(b, q) => Labelled(c, w) = Labelled(b, w) /\ (Labels(c, w) <=> Labels(b, w))
  BY <1>2 DEF Labelled, Labels
<1>7. PointerHere(b, q) => Pointed(c, w) = Pointed(b, w) /\ (Points(c, w) <=> Points(b, w))
  BY <1>2 DEF Pointed, Points
<1> HIDE DEF c, q
<1>8. CASE w.state # "reading" \/ EndsHere(b, q)
  BY <1>2, <1>3, <1>4, <1>8 DEF c
<1>9. CASE w.state = "reading" /\ ~EndsHere(b, q) /\ Labels(b, w)
  <2>1. LabelHere(b, q)
    BY <1>9 DEF Labels, q
  <2> QED  BY <1>2, <1>3, <1>4, <1>6, <1>9, <2>1 DEF c
<1>10. CASE w.state = "reading" /\ ~EndsHere(b, q) /\ ~Labels(b, w) /\ Points(b, w)
  <2>1. PointerHere(b, q)
    BY <1>10 DEF Points, q
  <2>2. ~Labels(c, w) /\ ~EndsHere(c, q)
    BY <1>2, <2>1 DEF Labels, q
  <2> QED  BY <1>3, <1>4, <1>7, <1>10, <2>1, <2>2 DEF c
<1> QED  BY <1>3, <1>5, <1>8, <1>9, <1>10

\* A name that could be read is read as it was.
LEMMA NameLonger ==
  ASSUME NEW b \in Seq(Octets), NEW o \in Octets, NEW p \in Nat,
         read_name(b, p).state = "read"
  PROVE  read_name(Append(b, o), p) = read_name(b, p)
<1> DEFINE c == Append(b, o)
<1>1. c \in Seq(Octets)
  BY OneMoreOctet
<1>2. PICK u : NameWalk(u, b, p)
  BY NameUnfolds
<1>3. PICK v : NameWalk(v, c, p)
  BY <1>1, NameUnfolds
<1>4. Turns \in Nat
  BY MessagesAssumption DEF Turns
<1>5. /\ \A k \in 0..Turns : u[k] \in WalkStates
      /\ u[0] = BeginAt(p) /\ v[0] = BeginAt(p)
      /\ \A k \in 1..Turns : u[k] = Turn(b, u[k - 1]) /\ v[k] = Turn(c, v[k - 1])
      /\ u[Turns] = read_name(b, p) /\ v[Turns] = read_name(c, p)
  BY <1>2, <1>3 DEF NameWalk
<1> DEFINE T == {k \in 0..Turns : u[k].state # "bad" => v[k] = u[k]}
<1>6. 0 \in T
  BY <1>4, <1>5
<1>7. ASSUME NEW k \in 1..Turns, k - 1 \in T  PROVE k \in T
  <2>1. k - 1 \in 0..Turns /\ k \in 0..Turns
    BY <1>4
  <2>2. ASSUME u[k].state # "bad"  PROVE v[k] = u[k]
    <3>1. u[k] = Turn(b, u[k - 1]) /\ u[k - 1] \in WalkStates /\ v[k] = Turn(c, v[k - 1])
      BY <1>5, <2>1
    <3>2. u[k - 1].state # "bad"
      <4> SUFFICES ASSUME u[k - 1].state = "bad"  PROVE FALSE
        OBVIOUS
      <4>1. u[k] = u[k - 1]
        BY <3>1, TurnIs
      <4> QED  BY <2>2, <4>1
    <3>3. v[k - 1] = u[k - 1]
      BY <1>7, <3>2
    <3> QED  BY <2>2, <3>1, <3>3, TurnLonger
  <2> QED  BY <2>1, <2>2
<1> HIDE DEF T, c
<1>8. \A k \in 0..Turns : k \in T
  BY <1>4, <1>6, <1>7, CountUp
<1>9. Turns \in T
  BY <1>4, <1>8
<1> QED  BY <1>5, <1>9 DEF T, c

-----------------------------------------------------------------------------
(***************************************************************************)
(* Messages: records, questions and strings                                *)
(***************************************************************************)
\* A record that could be read is read as it was.
LEMMA RecordIs ==
  ASSUME NEW b \in Seq(Octets), NEW o \in Octets, NEW offset \in Nat
  PROVE  /\ read_record(b, offset) \in RecordsRead \cup {Unread}
         /\ read_record(b, offset) # Unread =>
              read_record(Append(b, o), offset) = read_record(b, offset)
<1> DEFINE c == Append(b, o)
           name == read_name(b, offset)
           data == name.end + RecordFixed
           e == data + Octet(b, data - 1)
           Short == name.state # "read" \/ ~Has(b, data - 1) \/ e > Len(b)
           r == [from |-> offset, name |-> name.labels, data |-> Cut(b, data, e), next |-> e]
<1>1. read_record(b, offset) = IF Short THEN Unread ELSE r
  BY DEF read_record
<1>2. CASE Short
  BY <1>1, <1>2
<1>3. CASE ~Short
  <2>1. name.state = "read" /\ Has(b, data - 1) /\ ~(e > Len(b))
    BY <1>3
  <2>2. /\ name \in WalkStates /\ name.end \in Nat
        /\ read_name(c, offset) = name
    BY <2>1, NameIs, NameLonger
  <2>3. RecordFixed \in Nat /\ RecordFixed > 0
    BY MessagesAssumption
  <2> HIDE DEF name
  <2>4. data \in Nat /\ data - 1 \in Nat
    BY <2>2, <2>3
  <2> HIDE DEF data
  <2>5. Octet(b, data - 1) \in 0..255
    BY <2>1, <2>4, OctetsAre
  <2>6. /\ Len(b) \in Nat /\ Len(c) = Len(b) + 1
        /\ Has(c, data - 1) /\ Octet(c, data - 1) = Octet(b, data - 1)
    BY <2>1, <2>4, OneMoreOctet
  <2>7. e \in Nat /\ data <= e /\ e \in 0..Len(b) /\ data \in 0..e /\ ~(e > Len(c))
    <3> DEFINE x == Octet(b, data - 1)
               m == Len(c)
    <3>1. x \in 0..255 /\ e = data + x /\ m = Len(b) + 1 /\ ~(e > Len(b))
      BY <2>1, <2>5, <2>6
    <3> HIDE DEF x, e, m
    <3>2. e \in Nat /\ data <= e /\ e \in 0..Len(b) /\ data \in 0..e
      BY <2>4, <2>6, <3>1
    <3>3. ~(e > m)
      BY <2>4, <2>6, <3>1, <3>2
    <3> QED  BY <3>2, <3>3 DEF m
  <2>8. Cut(c, data, e) = Cut(b, data, e) /\ Cut(b, data, e) \in Seq(Octets)
    BY <2>7, OneMoreOctet
  <2>9. read_record(c, offset) = r
    <3>1. read_record(c, offset) =
            IF name.state # "read" \/ ~Has(c, data - 1) \/ e > Len(c) THEN Unread
            ELSE [from |-> offset, name |-> name.labels, data |-> Cut(c, data, e), next |-> e]
      BY <2>2, <2>6 DEF read_record, data
    <3> HIDE DEF e
    <3> QED  BY <2>1, <2>6, <2>7, <2>8, <3>1
  <2>10. r \in RecordsRead
    <3>1. name.labels \in NamesRead
      BY <2>2 DEF WalkStates
    <3> HIDE DEF e
    <3> QED  BY <2>7, <2>8, <3>1 DEF RecordsRead
  <2> QED  BY <1>1, <1>3, <2>9, <2>10
<1> QED  BY <1>2, <1>3

\* A question that could be read is read as it was.
LEMMA QuestionIs ==
  ASSUME NEW b \in Seq(Octets), NEW o \in Octets, NEW before \in QuestionsRead \cup {Unread}
  PROVE  /\ ReadQuestion(b, before) \in QuestionsRead \cup {Unread}
         /\ ReadQuestion(b, before) # Unread =>
              /\ before # Unread
              /\ ReadQuestion(Append(b, o), before) = ReadQuestion(b, before)
<1> DEFINE c == Append(b, o)
           name == read_name(b, before.offset)
           e == name.end + QuestionFixed
           Short == before = Unread \/ name.state # "read" \/ e > Len(b)
           q == [offset |-> e, names |-> Append(before.names, name.labels)]
<1>1. ReadQuestion(b, before) = IF Short THEN Unread ELSE q
  BY DEF ReadQuestion
<1>2. CASE Short
  BY <1>1, <1>2
<1>3. CASE ~Short
  <2>1. before # Unread /\ name.state = "read" /\ ~(e > Len(b))
    BY <1>3
  <2>2. before.offset \in Nat /\ before.names \in Seq(NamesRead)
    BY <2>1 DEF QuestionsRead
  <2>3. /\ name \in WalkStates /\ name.end \in Nat
        /\ read_name(c, before.offset) = name
    BY <2>1, <2>2, NameIs, NameLonger
  <2>4. QuestionFixed \in Nat /\ Len(b) \in Nat /\ Len(c) = Len(b) + 1
    BY MessagesAssumption, OneMoreOctet
  <2>5. e \in Nat
    <3> HIDE DEF name
    <3> QED  BY <2>3, <2>4
  <2>6. ~(e > Len(c))
    <3> DEFINE m == Len(c)
    <3>1. m = Len(b) + 1 /\ ~(e > Len(b))
      BY <2>1, <2>4
    <3> HIDE DEF e, m
    <3>2. ~(e > m)
      BY <2>4, <2>5, <3>1
    <3> QED  BY <3>2 DEF m
  <2>7. ReadQuestion(c, before) = q
    <3>1. ReadQuestion(c, before) =
            IF before = Unread \/ name.state # "read" \/ e > Len(c) THEN Unread ELSE q
      BY <2>3 DEF ReadQuestion
    <3> HIDE DEF name, e, q
    <3> QED  BY <2>1, <2>6, <3>1
  <2>8. q \in QuestionsRead
    <3>1. name.labels \in NamesRead
      BY <2>3 DEF WalkStates
    <3>2. Append(before.names, name.labels) \in Seq(NamesRead)
      <4> HIDE DEF name
      <4> QED  BY <2>2, <3>1
    <3> HIDE DEF name, e
    <3> QED  BY <2>5, <3>2 DEF QuestionsRead
  <2> QED  BY <1>1, <1>3, <2>1, <2>7, <2>8
<1> QED  BY <1>2, <1>3

\* The turns of reading the questions.
QuestionWalk(u, b) ==
  /\ u \in [0..qdcount -> QuestionsRead \cup {Unread}]
  /\ u[0] = [offset |-> HeaderSize, names |-> << >>]
  /\ \A k \in 1..qdcount : u[k] = ReadQuestion(b, u[k - 1])
  /\ ~(Len(b) < HeaderSize) => read_questions(b) = u[qdcount]

\* Reading the questions has turns.
LEMMA QuestionsUnfold ==
  ASSUME qdcount \in Nat, NEW b \in Seq(Octets), NEW o \in Octets
  PROVE  \E u : QuestionWalk(u, b)
<1> DEFINE n == qdcount
           S == QuestionsRead \cup {Unread}
           first == [offset |-> HeaderSize, names |-> << >>]
           Is(f) == f = [k \in 0..n |-> IF k = 0
                                        THEN [offset |-> HeaderSize, names |-> << >>]
                                        ELSE ReadQuestion(b, f[k - 1])]
           step == [k \in 1..n |-> [w \in S |-> ReadQuestion(b, w)]]
           c == CHOOSE f : Is(f)
<1>2. ~(Len(b) < HeaderSize) => read_questions(b) = c[n]
  BY DEF read_questions
<1>3. first \in S
  BY MessagesAssumption DEF QuestionsRead
<1>0. \A w \in S : ReadQuestion(b, w) \in S
  BY QuestionIs
<1>4. step \in [1..n -> [S -> S]]
  BY <1>0
<1>5. \A k \in 1..n, w \in S : step[k][w] = ReadQuestion(b, w)
  OBVIOUS
<1> HIDE DEF step, c, S, first
<1>6. PICK f : StepsUpTo(f, n, first, step, S)
  BY <1>3, <1>4, StepsExist
<1>7. /\ f \in [0..n -> S] /\ f[0] = first
      /\ \A k \in 1..n : f[k] = step[k][f[k - 1]]
  BY <1>6 DEF StepsUpTo
<1>8. ASSUME NEW k \in 1..n  PROVE f[k] = ReadQuestion(b, f[k - 1])
  <2>1. k - 1 \in 0..n
    OBVIOUS
  <2>2. f[k - 1] \in S
    BY <1>7, <2>1
  <2> QED  BY <1>5, <1>7, <2>2
<1>9. Is(f)
  <2>1. \A k \in 0..n : k = 0 \/ k \in 1..n
    OBVIOUS
  <2> QED  BY <1>7, <1>8, <2>1 DEF first
<1>10. Is(c)
  BY <1>9 DEF c
<1>11. c[0] = first /\ \A k \in 1..n : c[k] = ReadQuestion(b, c[k - 1])
  <2>1. 0 \in 0..n /\ \A k \in 1..n : k \in 0..n /\ k # 0
    OBVIOUS
  <2> QED  BY <1>10, <2>1 DEF first
<1>12. \A k \in 0..n : c[k] \in S
  <2> DEFINE T == {k \in 0..n : c[k] \in S}
  <2>1. 0 \in T
    BY <1>3, <1>11
  <2>2. ASSUME NEW k \in 1..n, k - 1 \in T  PROVE k \in T
    <3>1. c[k] = ReadQuestion(b, c[k - 1]) /\ c[k - 1] \in S /\ k \in 0..n
      BY <1>11, <2>2
    <3> QED  BY <1>0, <3>1
  <2> HIDE DEF T
  <2>3. \A k \in 0..n : k \in T
    BY <2>1, <2>2, CountUp
  <2> QED  BY <2>3 DEF T
<1>13. c \in [0..n -> S]
  <2>1. c = [k \in 0..n |-> c[k]]
    BY <1>10
  <2> QED  BY <1>12, <2>1
<1> QED  BY <1>2, <1>11, <1>13 DEF QuestionWalk, S, first

\* Questions that could be read are read as they were.
LEMMA QuestionsLonger ==
  ASSUME qdcount \in Nat, NEW b \in Seq(Octets), NEW o \in Octets, read_questions(b) # Unread
  PROVE  /\ read_questions(Append(b, o)) = read_questions(b)
         /\ read_questions(b) \in QuestionsRead
<1> DEFINE c == Append(b, o)
<1>1. c \in Seq(Octets) /\ Len(c) = Len(b) + 1 /\ Len(b) \in Nat /\ HeaderSize \in Nat
  BY OneMoreOctet, MessagesAssumption
<1>2. PICK u : QuestionWalk(u, b)
  BY QuestionsUnfold
<1>3. PICK v : QuestionWalk(v, c)
  BY <1>1, QuestionsUnfold
<1>4. ~(Len(b) < HeaderSize)
  BY DEF read_questions
<1>5. ~(Len(c) < HeaderSize)
  <2> DEFINE m == Len(c)
  <2>1. m = Len(b) + 1
    BY <1>1
  <2> HIDE DEF m
  <2>2. ~(m < HeaderSize)
    BY <1>1, <1>4, <2>1
  <2> QED  BY <2>2 DEF m
<1>6. /\ u \in [0..qdcount -> QuestionsRead \cup {Unread}] /\ v[0] = u[0]
      /\ \A k \in 1..qdcount : u[k] = ReadQuestion(b, u[k - 1]) /\ v[k] = ReadQuestion(c, v[k - 1])
      /\ read_questions(b) = u[qdcount] /\ read_questions(c) = v[qdcount]
  BY <1>2, <1>3, <1>4, <1>5 DEF QuestionWalk
<1> DEFINE T == {k \in 0..qdcount : u[k] # Unread => v[k] = u[k]}
<1>7. 0 \in T
  BY <1>6
<1>8. ASSUME NEW k \in 1..qdcount, k - 1 \in T  PROVE k \in T
  <2>1. k - 1 \in 0..qdcount /\ k \in 0..qdcount
    OBVIOUS
  <2>2. ASSUME u[k] # Unread  PROVE v[k] = u[k]
    <3>1. /\ u[k] = ReadQuestion(b, u[k - 1]) /\ v[k] = ReadQuestion(c, v[k - 1])
          /\ u[k - 1] \in QuestionsRead \cup {Unread}
      BY <1>6, <2>1
    <3>2. u[k - 1] # Unread /\ ReadQuestion(c, u[k - 1]) = ReadQuestion(b, u[k - 1])
      BY <2>2, <3>1, QuestionIs
    <3>3. v[k - 1] = u[k - 1]
      BY <1>8, <3>2
    <3> QED  BY <3>1, <3>2, <3>3
  <2> QED  BY <2>1, <2>2
<1> HIDE DEF T, c
<1>9. \A k \in 0..qdcount : k \in T
  BY <1>7, <1>8, CountUp
<1>10. qdcount \in T
  BY <1>9
<1> QED  BY <1>6, <1>10 DEF T, c

\* What was read of the records.
ListsRead == [offset : Nat, list : Seq(RecordsRead), more : BOOLEAN]

\* A turn reads one more record, or none and no more.
LEMMA OneMoreIs ==
  ASSUME NEW b \in Seq(Octets), NEW o \in Octets, NEW w \in ListsRead
  PROVE  /\ ReadOneMore(b, w) \in ListsRead
         /\ Continues(w.list, ReadOneMore(b, w).list)
         /\ ~ReadOneMore(b, w).more => ReadOneMore(b, w).list = w.list
         /\ ReadOneMore(b, w).more => w.more /\ ReadOneMore(Append(b, o), w) = ReadOneMore(b, w)
<1> DEFINE c == Append(b, o)
           r == read_record(b, w.offset)
           none == [w EXCEPT !.more = FALSE]
           one == [w EXCEPT !.offset = r.next, !.list = Append(w.list, r)]
<1>1. /\ w.offset \in Nat /\ w.list \in Seq(RecordsRead) /\ w.more \in BOOLEAN
      /\ w = [offset |-> w.offset, list |-> w.list, more |-> w.more]
  BY DEF ListsRead
<1>2. ReadOneMore(b, w) = IF ~w.more \/ r = Unread THEN none ELSE one
  BY DEF ReadOneMore
<1>3. Continues(w.list, w.list)
  BY <1>1 DEF Continues
<1>4. CASE ~w.more \/ r = Unread
  <2>1. none \in ListsRead
    BY DEF ListsRead
  <2>2. none.list = w.list /\ none.more = FALSE
    BY DEF ListsRead
  <2>3. ReadOneMore(b, w) = none
    BY <1>2, <1>4
  <2> QED  BY <1>3, <2>1, <2>2, <2>3
<1>5. CASE w.more /\ r # Unread
  <2>1. r \in RecordsRead /\ read_record(c, w.offset) = r
    BY <1>1, <1>5, RecordIs
  <2> HIDE DEF r
  <2>2. r.next \in Nat
    BY <2>1 DEF RecordsRead
  <2>3. Append(w.list, r) \in Seq(RecordsRead)
    BY <1>1, <2>1
  <2>4. one \in ListsRead
    BY <2>2, <2>3 DEF ListsRead
  <2>5. one.list = Append(w.list, r)
    BY DEF ListsRead
  <2>6. Continues(w.list, Append(w.list, r))
    BY <1>1, <1>3, <2>1, ContinuesOn
  <2>7. ReadOneMore(c, w) = one
    BY <1>5, <2>1 DEF ReadOneMore
  <2>8. ReadOneMore(b, w) = one
    BY <1>2, <1>5
  <2>9. one.more = w.more
    BY DEF ListsRead
  <2> HIDE DEF one
  <2> QED  BY <1>5, <2>4, <2>5, <2>6, <2>7, <2>8, <2>9
<1> QED  BY <1>1, <1>4, <1>5

\* The turns of reading the records.
RecordWalk(u, b, offset) ==
  /\ u \in [0..total -> ListsRead]
  /\ u[0] = [offset |-> offset, list |-> << >>, more |-> TRUE]
  /\ \A k \in 1..total : u[k] = ReadOneMore(b, u[k - 1])
  /\ read_records(b, offset) = u[total].list

\* Reading the records has turns.
LEMMA RecordsUnfold ==
  ASSUME total \in Nat, NEW b \in Seq(Octets), NEW o \in Octets, NEW offset \in Nat
  PROVE  \E u : RecordWalk(u, b, offset)
<1> DEFINE n == total
           S == ListsRead
           first == [offset |-> offset, list |-> << >>, more |-> TRUE]
           Is(f) == f = [k \in 0..n |-> IF k = 0
                                        THEN [offset |-> offset, list |-> << >>, more |-> TRUE]
                                        ELSE ReadOneMore(b, f[k - 1])]
           step == [k \in 1..n |-> [w \in S |-> ReadOneMore(b, w)]]
           c == CHOOSE f : Is(f)
<1>2. read_records(b, offset) = c[n].list
  BY DEF read_records
<1>3. first \in S
  BY DEF ListsRead
<1>0. \A w \in S : ReadOneMore(b, w) \in S
  BY OneMoreIs
<1>4. step \in [1..n -> [S -> S]]
  BY <1>0
<1>5. \A k \in 1..n, w \in S : step[k][w] = ReadOneMore(b, w)
  OBVIOUS
<1> HIDE DEF step, c, S, first
<1>6. PICK f : StepsUpTo(f, n, first, step, S)
  BY <1>3, <1>4, StepsExist
<1>7. /\ f \in [0..n -> S] /\ f[0] = first
      /\ \A k \in 1..n : f[k] = step[k][f[k - 1]]
  BY <1>6 DEF StepsUpTo
<1>8. ASSUME NEW k \in 1..n  PROVE f[k] = ReadOneMore(b, f[k - 1])
  <2>1. k - 1 \in 0..n
    OBVIOUS
  <2>2. f[k - 1] \in S
    BY <1>7, <2>1
  <2> QED  BY <1>5, <1>7, <2>2
<1>9. Is(f)
  <2>1. \A k \in 0..n : k = 0 \/ k \in 1..n
    OBVIOUS
  <2> QED  BY <1>7, <1>8, <2>1 DEF first
<1>10. Is(c)
  BY <1>9 DEF c
<1>11. c[0] = first /\ \A k \in 1..n : c[k] = ReadOneMore(b, c[k - 1])
  <2>1. 0 \in 0..n /\ \A k \in 1..n : k \in 0..n /\ k # 0
    OBVIOUS
  <2> QED  BY <1>10, <2>1 DEF first
<1>12. \A k \in 0..n : c[k] \in S
  <2> DEFINE T == {k \in 0..n : c[k] \in S}
  <2>1. 0 \in T
    BY <1>3, <1>11
  <2>2. ASSUME NEW k \in 1..n, k - 1 \in T  PROVE k \in T
    <3>1. c[k] = ReadOneMore(b, c[k - 1]) /\ c[k - 1] \in S /\ k \in 0..n
      BY <1>11, <2>2
    <3> QED  BY <1>0, <3>1
  <2> HIDE DEF T
  <2>3. \A k \in 0..n : k \in T
    BY <2>1, <2>2, CountUp
  <2> QED  BY <2>3 DEF T
<1>13. c \in [0..n -> S]
  <2>1. c = [k \in 0..n |-> c[k]]
    BY <1>10
  <2> QED  BY <1>12, <2>1
<1> QED  BY <1>2, <1>11, <1>13 DEF RecordWalk, S, first

\* Lists that go on as others go on as what those go on as.
LEMMA ContinuesFurther ==
  ASSUME NEW S, NEW r \in Seq(S), NEW s \in Seq(S), NEW t \in Seq(S),
         Continues(r, s), Continues(s, t)
  PROVE  Continues(r, t)
<1>1. Len(r) \in Nat /\ Len(s) \in Nat /\ Len(t) \in Nat
  OBVIOUS
<1>2. /\ Len(r) <= Len(s) /\ \A x \in 1..Len(r) : s[x] = r[x]
      /\ Len(s) <= Len(t) /\ \A x \in 1..Len(s) : t[x] = s[x]
  BY DEF Continues
<1>3. Len(r) <= Len(t)
  BY ONLY <1>1, <1>2
<1>4. \A x \in 1..Len(r) : x \in 1..Len(s)
  BY ONLY <1>1, <1>2
<1> QED  BY <1>2, <1>3, <1>4 DEF Continues

\* The records that could be read are the first of those that can.
LEMMA RecordsLonger ==
  ASSUME total \in Nat, NEW b \in Seq(Octets), NEW o \in Octets, NEW offset \in Nat
  PROVE  IsPrefix(read_records(b, offset), read_records(Append(b, o), offset))
<1> DEFINE c == Append(b, o)
<1>1. c \in Seq(Octets)
  BY OneMoreOctet
<1>2. PICK u : RecordWalk(u, b, offset)
  BY RecordsUnfold
<1>3. PICK v : RecordWalk(v, c, offset)
  BY <1>1, RecordsUnfold
<1>4. /\ u \in [0..total -> ListsRead] /\ v \in [0..total -> ListsRead] /\ v[0] = u[0]
      /\ \A k \in 1..total : u[k] = ReadOneMore(b, u[k - 1]) /\ v[k] = ReadOneMore(c, v[k - 1])
      /\ read_records(b, offset) = u[total].list /\ read_records(c, offset) = v[total].list
  BY <1>2, <1>3 DEF RecordWalk
<1>5. \A k \in 0..total : u[k].list \in Seq(RecordsRead) /\ v[k].list \in Seq(RecordsRead)
  BY <1>4 DEF ListsRead
<1> DEFINE T == {k \in 0..total : (u[k].more => v[k] = u[k]) /\ Continues(u[k].list, v[k].list)}
<1>6. 0 \in T
  <2>1. 0 \in 0..total
    OBVIOUS
  <2>2. Continues(u[0].list, u[0].list)
    BY <1>5, <2>1 DEF Continues
  <2> QED  BY <1>4, <2>1, <2>2
<1>7. ASSUME NEW k \in 1..total, k - 1 \in T  PROVE k \in T
  <2>1. k - 1 \in 0..total /\ k \in 0..total
    OBVIOUS
  <2>2. /\ u[k] = ReadOneMore(b, u[k - 1]) /\ v[k] = ReadOneMore(c, v[k - 1])
        /\ u[k - 1] \in ListsRead /\ v[k - 1] \in ListsRead
    BY <1>4, <2>1
  <2>3. /\ ~u[k].more => u[k].list = u[k - 1].list
        /\ u[k].more => u[k - 1].more /\ ReadOneMore(c, u[k - 1]) = u[k]
    BY <2>2, OneMoreIs
  <2>4. Continues(v[k - 1].list, v[k].list)
    <3> HIDE DEF c
    <3> QED  BY <1>1, <2>2, OneMoreIs
  <2>5. (u[k - 1].more => v[k - 1] = u[k - 1]) /\ Continues(u[k - 1].list, v[k - 1].list)
    BY <1>7
  <2>6. CASE u[k].more
    <3>1. v[k] = u[k]
      BY <2>2, <2>3, <2>5, <2>6
    <3>2. Continues(u[k].list, u[k].list)
      BY <1>5, <2>1 DEF Continues
    <3> QED  BY <2>1, <3>1, <3>2
  <2>7. CASE ~u[k].more
    <3>1. u[k].list = u[k - 1].list
      BY <2>3, <2>7
    <3>2. Continues(u[k - 1].list, v[k].list)
      <4>1. /\ u[k - 1].list \in Seq(RecordsRead) /\ v[k - 1].list \in Seq(RecordsRead)
            /\ v[k].list \in Seq(RecordsRead)
        BY <1>5, <2>1
      <4> QED  BY <2>4, <2>5, <4>1, ContinuesFurther
    <3> QED  BY <2>1, <2>7, <3>1, <3>2
  <2> QED  BY <2>6, <2>7
<1> HIDE DEF T, c
<1>8. \A k \in 0..total : k \in T
  BY <1>6, <1>7, CountUp
<1>9. total \in 0..total
  OBVIOUS
<1>10. Continues(u[total].list, v[total].list)
  BY <1>8, <1>9 DEF T
<1> QED  BY <1>4, <1>5, <1>9, <1>10, PrefixIs DEF c

\* What was read of the strings.
StringsRead == [at : Nat, strings : Seq(Seq(Octets))]

\* A turn reads one more string or none.
LEMMA StringIs ==
  ASSUME NEW b \in Seq(Octets), NEW o \in Octets, NEW w \in StringsRead
  PROVE  /\ ReadString(b, w) \in StringsRead
         /\ Continues(w.strings, ReadString(b, w).strings)
         /\ ReadString(b, w) # w => ReadString(Append(b, o), w) = ReadString(b, w)
<1> DEFINE c == Append(b, o)
           q == w.at
           to == q + 1 + Octet(b, q)
           x == Cut(b, q + 1, to)
           Short == ~Has(b, q) \/ to > Len(b)
<1>1. q \in Nat /\ w.strings \in Seq(Seq(Octets))
  BY DEF StringsRead
<1>2. ReadString(b, w) = IF Short THEN w ELSE [at |-> to, strings |-> Append(w.strings, x)]
  BY DEF ReadString
<1>3. Continues(w.strings, w.strings)
  BY <1>1 DEF Continues
<1>4. CASE Short
  BY <1>2, <1>3, <1>4
<1>5. CASE ~Short
  <2>1. Has(b, q) /\ ~(to > Len(b))
    BY <1>5
  <2>2. /\ Octet(b, q) \in 0..255 /\ Len(b) \in Nat /\ Len(c) = Len(b) + 1
        /\ Has(c, q) /\ Octet(c, q) = Octet(b, q)
    BY <1>1, <2>1, OctetsAre, OneMoreOctet
  <2>3. to \in Nat /\ to \in 0..Len(b) /\ q + 1 \in 0..to /\ ~(to > Len(c))
    <3> DEFINE l == Octet(b, q)
               m == Len(c)
    <3>1. l \in 0..255 /\ to = q + 1 + l /\ m = Len(b) + 1 /\ ~(to > Len(b)) /\ Len(b) \in Nat
      BY <2>1, <2>2
    <3> HIDE DEF l, to, m, q
    <3>2. to \in Nat /\ to \in 0..Len(b) /\ q + 1 \in 0..to
      BY <1>1, <3>1
    <3>3. ~(to > m)
      BY <3>1, <3>2
    <3> QED  BY <3>2, <3>3 DEF m
  <2>4. Cut(c, q + 1, to) = x /\ x \in Seq(Octets)
    <3> HIDE DEF to
    <3> QED  BY <2>3, OneMoreOctet DEF x
  <2> HIDE DEF x
  <2>5. Append(w.strings, x) \in Seq(Seq(Octets))
    BY <1>1, <2>4
  <2>6. ReadString(c, w) = [at |-> to, strings |-> Append(w.strings, x)]
    <3>1. ReadString(c, w) = IF ~Has(c, q) \/ to > Len(c) THEN w
                             ELSE [at |-> to, strings |-> Append(w.strings, Cut(c, q + 1, to))]
      BY <2>2 DEF ReadString
    <3> HIDE DEF to, q
    <3> QED  BY <2>2, <2>3, <2>4, <3>1
  <2>7. ReadString(b, w) = [at |-> to, strings |-> Append(w.strings, x)]
    BY <1>2, <1>5 DEF x
  <2>8. [at |-> to, strings |-> Append(w.strings, x)] \in StringsRead
    <3> HIDE DEF to
    <3> QED  BY <2>3, <2>5 DEF StringsRead
  <2>9. Continues(w.strings, Append(w.strings, x))
    BY <1>1, <1>3, <2>4, ContinuesOn
  <2> QED  BY <2>6, <2>7, <2>8, <2>9
<1> QED  BY <1>4, <1>5

\* The turns of reading the strings.
StringWalk(u, b) ==
  /\ u \in [0..Len(b) -> StringsRead]
  /\ u[0] = [at |-> 0, strings |-> << >>]
  /\ \A k \in 1..Len(b) : u[k] = ReadString(b, u[k - 1])
  /\ txt_strings(b) = u[Len(b)].strings

\* Reading the strings has turns.
LEMMA StringsUnfold ==
  ASSUME NEW b \in Seq(Octets), NEW o \in Octets
  PROVE  \E u : StringWalk(u, b)
<1> DEFINE n == Len(b)
           S == StringsRead
           first == [at |-> 0, strings |-> << >>]
           Is(f) == f = [k \in 0..n |-> IF k = 0
                                        THEN [at |-> 0, strings |-> << >>]
                                        ELSE ReadString(b, f[k - 1])]
           step == [k \in 1..n |-> [w \in S |-> ReadString(b, w)]]
           c == CHOOSE f : Is(f)
<1>1. n \in Nat
  OBVIOUS
<1>2. txt_strings(b) = c[n].strings
  BY DEF txt_strings
<1>3. first \in S
  BY DEF StringsRead
<1>0. \A w \in S : ReadString(b, w) \in S
  BY StringIs
<1>4. step \in [1..n -> [S -> S]]
  BY <1>0
<1>5. \A k \in 1..n, w \in S : step[k][w] = ReadString(b, w)
  OBVIOUS
<1> HIDE DEF step, c, S, first, n
<1>6. PICK f : StepsUpTo(f, n, first, step, S)
  BY <1>1, <1>3, <1>4, StepsExist
<1>7. /\ f \in [0..n -> S] /\ f[0] = first
      /\ \A k \in 1..n : f[k] = step[k][f[k - 1]]
  BY <1>6 DEF StepsUpTo
<1>8. ASSUME NEW k \in 1..n  PROVE f[k] = ReadString(b, f[k - 1])
  <2>1. k - 1 \in 0..n
    BY <1>1
  <2>2. f[k - 1] \in S
    BY <1>7, <2>1
  <2> QED  BY <1>5, <1>7, <2>2
<1>9. Is(f)
  <2>1. \A k \in 0..n : k = 0 \/ k \in 1..n
    BY <1>1
  <2> QED  BY <1>7, <1>8, <2>1 DEF first
<1>10. Is(c)
  BY <1>9 DEF c
<1>11. c[0] = first /\ \A k \in 1..n : c[k] = ReadString(b, c[k - 1])
  <2>1. 0 \in 0..n /\ \A k \in 1..n : k \in 0..n /\ k # 0
    BY <1>1
  <2> QED  BY <1>10, <2>1 DEF first
<1>12. \A k \in 0..n : c[k] \in S
  <2> DEFINE T == {k \in 0..n : c[k] \in S}
  <2>1. 0 \in T
    BY <1>1, <1>3, <1>11
  <2>2. ASSUME NEW k \in 1..n, k - 1 \in T  PROVE k \in T
    <3>1. c[k] = ReadString(b, c[k - 1]) /\ c[k - 1] \in S /\ k \in 0..n
      BY <1>1, <1>11, <2>2
    <3> QED  BY <1>0, <3>1
  <2> HIDE DEF T
  <2>3. \A k \in 0..n : k \in T
    BY <1>1, <2>1, <2>2, CountUp
  <2> QED  BY <2>3 DEF T
<1>13. c \in [0..n -> S]
  <2>1. c = [k \in 0..n |-> c[k]]
    BY <1>10
  <2> QED  BY <1>12, <2>1
<1> QED  BY <1>2, <1>11, <1>13 DEF StringWalk, S, first, n

\* The strings that could be read are the first of those that can.
LEMMA StringsLonger ==
  ASSUME NEW b \in Seq(Octets), NEW o \in Octets
  PROVE  IsPrefix(txt_strings(b), txt_strings(Append(b, o)))
<1> DEFINE c == Append(b, o)
           n == Len(b)
<1>1. c \in Seq(Octets) /\ n \in Nat /\ Len(c) = n + 1
  BY OneMoreOctet
<1>2. PICK u : StringWalk(u, b)
  BY StringsUnfold
<1>3. PICK v : StringWalk(v, c)
  BY <1>1, StringsUnfold
<1> HIDE DEF c, n
<1>4. /\ u \in [0..n -> StringsRead] /\ v \in [0..(n + 1) -> StringsRead] /\ v[0] = u[0]
      /\ \A k \in 1..n : u[k] = ReadString(b, u[k - 1])
      /\ \A k \in 1..(n + 1) : v[k] = ReadString(c, v[k - 1])
      /\ txt_strings(b) = u[n].strings /\ txt_strings(c) = v[n + 1].strings
  BY <1>1, <1>2, <1>3 DEF StringWalk, n
<1>5. \A k \in 0..n : u[k] \in StringsRead /\ v[k] \in StringsRead /\ v[k + 1] \in StringsRead
  <2>1. \A k \in 0..n : k \in 0..(n + 1) /\ k + 1 \in 0..(n + 1)
    BY <1>1
  <2> QED  BY <1>4, <2>1
<1>6. \A k \in 0..n : /\ u[k].strings \in Seq(Seq(Octets)) /\ v[k].strings \in Seq(Seq(Octets))
                      /\ v[k + 1].strings \in Seq(Seq(Octets))
  BY <1>5 DEF StringsRead
<1>7. \A w \in StringsRead : Continues(w.strings, ReadString(c, w).strings)
  BY <1>1, StringIs
<1> DEFINE T == {k \in 0..n : /\ Continues(u[k].strings, v[k].strings)
                              /\ v[k] = u[k] \/ ReadString(b, u[k]) = u[k]}
<1>8. 0 \in T
  <2>1. 0 \in 0..n
    BY <1>1
  <2>2. Continues(u[0].strings, u[0].strings)
    BY <1>6, <2>1 DEF Continues
  <2> QED  BY <1>4, <2>1, <2>2
<1>9. ASSUME NEW k \in 1..n, k - 1 \in T  PROVE k \in T
  <2>1. k - 1 \in 0..n /\ k \in 0..n /\ k \in 1..(n + 1)
    BY <1>1
  <2>2. /\ u[k] = ReadString(b, u[k - 1]) /\ v[k] = ReadString(c, v[k - 1])
        /\ u[k - 1] \in StringsRead /\ v[k - 1] \in StringsRead /\ u[k] \in StringsRead
    BY <1>4, <1>5, <2>1
  <2>3. /\ Continues(u[k - 1].strings, v[k - 1].strings)
        /\ v[k - 1] = u[k - 1] \/ ReadString(b, u[k - 1]) = u[k - 1]
    BY <1>9
  <2>4. CASE u[k] = u[k - 1]
    <3>1. Continues(v[k - 1].strings, v[k].strings)
      BY <1>7, <2>2
    <3>2. /\ u[k - 1].strings \in Seq(Seq(Octets)) /\ v[k - 1].strings \in Seq(Seq(Octets))
          /\ v[k].strings \in Seq(Seq(Octets))
      BY <1>6, <2>1
    <3>3. Continues(u[k - 1].strings, v[k].strings)
      BY <2>3, <3>1, <3>2, ContinuesFurther
    <3>4. ReadString(b, u[k]) = u[k]
      BY <2>2, <2>4
    <3> QED  BY <2>1, <2>4, <3>3, <3>4
  <2>5. CASE u[k] # u[k - 1]
    <3>1. v[k - 1] = u[k - 1]
      BY <2>2, <2>3, <2>5
    <3>2. ReadString(c, u[k - 1]) = ReadString(b, u[k - 1])
      BY <2>2, <2>5, StringIs DEF c
    <3>3. v[k] = u[k]
      BY <2>2, <3>1, <3>2
    <3>4. Continues(u[k].strings, u[k].strings)
      BY <1>6, <2>1 DEF Continues
    <3> QED  BY <2>1, <3>3, <3>4
  <2> QED  BY <2>4, <2>5
<1> HIDE DEF T
<1>10. \A k \in 0..n : k \in T
  BY <1>1, <1>8, <1>9, CountUp
<1>11. n \in 0..n /\ n + 1 \in 1..(n + 1) /\ (n + 1) - 1 = n
  BY <1>1
<1>12. Continues(u[n].strings, v[n].strings)
  BY <1>10, <1>11 DEF T
<1>13. Continues(v[n].strings, v[n + 1].strings)
  <2>1. v[n + 1] = ReadString(c, v[n])
    BY <1>4, <1>11
  <2> QED  BY <1>5, <1>7, <1>11, <2>1
<1>14. Continues(u[n].strings, v[n + 1].strings)
  BY <1>6, <1>11, <1>12, <1>13, ContinuesFurther
<1>15. u[n].strings \in Seq(Seq(Octets)) /\ v[n + 1].strings \in Seq(Seq(Octets))
  BY <1>6, <1>11
<1>16. IsPrefix(u[n].strings, v[n + 1].strings)
  BY <1>14, <1>15, PrefixIs
<1> QED  BY <1>4, <1>16 DEF c

\* What is captured of a message.
MessagesTypes ==
  /\ octets \in Seq(Octets) /\ qdcount \in Nat /\ total \in Nat

\* What is read of a message is the head of what is read with an octet more.
LEMMA HeadIsRead ==
  ASSUME qdcount \in Nat, total \in Nat, NEW b \in Seq(Octets), NEW o \in Octets
  PROVE  /\ parse_message(b) # Unread =>
              /\ parse_message(Append(b, o)) # Unread
              /\ parse_message(Append(b, o)).questions = parse_message(b).questions
              /\ IsPrefix(parse_message(b).records, parse_message(Append(b, o)).records)
         /\ IsPrefix(txt_strings(b), txt_strings(Append(b, o)))
<1> DEFINE c == Append(b, o)
           q == read_questions(b)
<1>1. IsPrefix(txt_strings(b), txt_strings(c))
  BY StringsLonger
<1>2. ASSUME parse_message(b) # Unread
      PROVE  /\ parse_message(c) # Unread
             /\ parse_message(c).questions = parse_message(b).questions
             /\ IsPrefix(parse_message(b).records, parse_message(c).records)
  <2>1. q # Unread
    BY <1>2 DEF parse_message
  <2>2. read_questions(c) = q /\ q \in QuestionsRead
    BY <2>1, QuestionsLonger
  <2>3. q.offset \in Nat /\ q.names \in Seq(NamesRead)
    BY <2>2 DEF QuestionsRead
  <2>4. parse_message(b) = [questions |-> q.names, records |-> read_records(b, q.offset)]
    BY <2>1 DEF parse_message
  <2>5. parse_message(c) = [questions |-> q.names, records |-> read_records(c, q.offset)]
    BY <2>1, <2>2 DEF parse_message
  <2> HIDE DEF q
  <2>6. IsPrefix(read_records(b, q.offset), read_records(c, q.offset))
    BY <2>3, RecordsLonger
  <2>7. read_records(c, q.offset) \in Seq(RecordsRead)
    <3>1. c \in Seq(Octets)
      BY OneMoreOctet
    <3>2. PICK u : RecordWalk(u, c, q.offset)
      <4> HIDE DEF c
      <4> QED  BY <2>3, <3>1, RecordsUnfold
    <3>3. u \in [0..total -> ListsRead] /\ read_records(c, q.offset) = u[total].list
      BY <3>2 DEF RecordWalk
    <3>4. u[total] \in ListsRead
      BY <3>3
    <3> QED  BY <3>3, <3>4 DEF ListsRead
  <2> HIDE DEF c
  <2>8. parse_message(c) \in MessagesRead
    BY <2>3, <2>5, <2>7 DEF MessagesRead
  <2>9. Unread \notin MessagesRead
    BY MessagesAssumption
  <2> QED  BY <2>4, <2>5, <2>6, <2>8, <2>9
<1> QED  BY <1>1, <1>2

-----------------------------------------------------------------------------
(***************************************************************************)
(* Messages: where a name lies                                             *)
(***************************************************************************)
\* Numbers that grow from each to the next grow altogether, and are as many as their places.
LEMMA Ascending ==
  ASSUME NEW n \in Nat, NEW a \in [0..n -> Nat], \A k \in 1..n : a[k - 1] < a[k]
  PROVE  /\ \A j \in 0..n : \A i \in 0..n : i < j => a[i] < a[j]
         /\ Cardinality({a[k] : k \in 0..n}) = n + 1
<1>1. \A j \in 0..n : \A i \in 0..n : i < j => a[i] < a[j]
  <2> DEFINE T == {j \in 0..n : \A i \in 0..n : i < j => a[i] < a[j]}
  <2>1. 0 \in T
    OBVIOUS
  <2>2. ASSUME NEW j \in 1..n, j - 1 \in T  PROVE j \in T
    <3>1. ASSUME NEW i \in 0..n, i < j  PROVE a[i] < a[j]
      <4>1. a[j - 1] < a[j] /\ j - 1 \in 0..n /\ j \in 0..n
        OBVIOUS
      <4>2. CASE i = j - 1
        BY <4>1, <4>2
      <4>3. CASE i # j - 1
        <5>1. i < j - 1
          BY <3>1, <4>3
        <5>2. a[i] < a[j - 1]
          BY <2>2, <5>1
        <5> DEFINE x == a[i]
                   y == a[j - 1]
                   z == a[j]
        <5>3. x \in Nat /\ y \in Nat /\ z \in Nat /\ x < y /\ y < z
          BY <4>1, <5>2
        <5> HIDE DEF x, y, z
        <5>4. x < z
          BY ONLY <5>3
        <5> QED  BY <5>4 DEF x, z
      <4> QED  BY <4>2, <4>3
    <3>2. j \in 0..n
      OBVIOUS
    <3> QED  BY <3>1, <3>2
  <2> HIDE DEF T
  <2>3. \A j \in 0..n : j \in T
    BY <2>1, <2>2, CountUp
  <2> QED  BY <2>3 DEF T
<1>2. Cardinality({a[k] : k \in 0..n}) = n + 1
  <2> DEFINE C == {a[k] : k \in 0..n}
  <2>1. IsFiniteSet(0..n) /\ Cardinality(0..n) = n + 1
    <3>1. 0 \in Int /\ n \in Int
      OBVIOUS
    <3>2. /\ IsFiniteSet(0..n)
          /\ Cardinality(0..n) = IF 0 > n THEN 0 ELSE n - 0 + 1
      BY ONLY <3>1, FS_Interval
    <3>3. (IF 0 > n THEN 0 ELSE n - 0 + 1) = n + 1
      OBVIOUS
    <3> QED  BY ONLY <3>2, <3>3
  <2>2. ASSUME NEW i \in 0..n, NEW j \in 0..n, a[i] = a[j]  PROVE i = j
    <3> DEFINE x == a[i]
               y == a[j]
    <3>1. x \in Nat /\ y \in Nat /\ x = y
      BY <2>2
    <3>2. (i < j => x < y) /\ (j < i => y < x)
      BY <1>1
    <3> HIDE DEF x, y
    <3>3. ~(x < y) /\ ~(y < x)
      BY ONLY <3>1
    <3>4. ~(i < j) /\ ~(j < i) /\ i \in Nat /\ j \in Nat
      BY <3>2, <3>3
    <3> QED  BY ONLY <3>4
  <2>3. \A y \in C : \E i \in 0..n : a[i] = y
    OBVIOUS
  <2>4. a \in [0..n -> C]
    <3>1. a = [k \in 0..n |-> a[k]]
      OBVIOUS
    <3> QED  BY <3>1
  <2> HIDE DEF C
  <2>5. a \in Bijection(0..n, C)
    BY <2>2, <2>3, <2>4, Fun_IsBij
  <2>6. Cardinality(C) = Cardinality(0..n)
    BY <2>1, <2>5, FS_Bijection DEF ExistsBijection
  <2> QED  BY <2>1, <2>6 DEF C
<1> QED  BY <1>1, <1>2

\* Labels that follow each other without a pointer, from p.
Chain(b, p, n, a) ==
  /\ a \in [0..n -> Nat] /\ a[0] = p
  /\ \A k \in 1..n : LabelHere(b, a[k - 1]) /\ a[k] = LabelEnd(b, a[k - 1])

\* Each of them is further than the one before, and none past the end.
Advances(b, n, a) ==
  \A k \in 1..n : /\ k - 1 \in 0..n /\ k \in 0..n
                  /\ a[k - 1] \in Nat /\ a[k] \in Nat
                  /\ a[k - 1] < a[k] /\ a[k] <= Len(b)
                  /\ Has(b, a[k - 1]) /\ Octet(b, a[k - 1]) \in 1..63
                  /\ a[k] = a[k - 1] + 1 + Octet(b, a[k - 1])

\* Labels that follow each other do.
LEMMA ChainGrows ==
  ASSUME NEW b \in Seq(Octets), NEW p \in Nat, NEW n \in Nat, NEW a, Chain(b, p, n, a)
  PROVE  Advances(b, n, a)
<1> SUFFICES ASSUME NEW k \in 1..n
             PROVE  /\ k - 1 \in 0..n /\ k \in 0..n
                    /\ a[k - 1] \in Nat /\ a[k] \in Nat
                    /\ a[k - 1] < a[k] /\ a[k] <= Len(b)
                    /\ Has(b, a[k - 1]) /\ Octet(b, a[k - 1]) \in 1..63
                    /\ a[k] = a[k - 1] + 1 + Octet(b, a[k - 1])
  BY DEF Advances
<1>1. a \in [0..n -> Nat] /\ LabelHere(b, a[k - 1]) /\ a[k] = LabelEnd(b, a[k - 1])
  BY DEF Chain
<1>2. k - 1 \in 0..n /\ k \in 0..n
  OBVIOUS
<1>3. a[k - 1] \in Nat /\ a[k] \in Nat
  BY <1>1, <1>2
<1>4. a[k - 1] < a[k] /\ a[k] <= Len(b)
  BY <1>1, <1>3, SpeltIs
<1> QED  BY <1>1, <1>2, <1>3, <1>4 DEF LabelHere, LabelEnd

\* The places of a chain are where the labels of the name lie, if none follows: the last
\* place is the last of them, and there are as many as places.
LEMMA LabelsLie ==
  ASSUME NEW b \in Seq(Octets), NEW p \in Nat, NEW n \in Nat, NEW a, Chain(b, p, n, a),
         Has(b, a[n]), Octet(b, a[n]) \notin 1..63
  PROVE  LastFrom(b, p) = a[n] /\ Cardinality(LabelsFrom(b, p)) = n + 1
<1> DEFINE C == {a[k] : k \in 0..n}
           Good(S) == /\ p \in S
                      /\ \A q \in S : Has(b, q) /\ Octet(b, q) \in 1..63 =>
                           q + 1 + Octet(b, q) \in S \cup {Len(b) + 1}
                      /\ \A q \in S \ {p} :
                           \E r \in S : r < q /\ Octet(b, r) \in 1..63 /\ q = r + 1 + Octet(b, r)
<1>1. Len(b) \in Nat /\ n \in Nat /\ p \in Nat /\ n \in 0..n /\ 0 \in 0..n
  OBVIOUS
<1>2. \A k \in 1..n : /\ k - 1 \in 0..n /\ k \in 0..n
                      /\ a[k - 1] \in Nat /\ a[k] \in Nat
                      /\ a[k - 1] < a[k] /\ a[k] <= Len(b)
                      /\ Has(b, a[k - 1]) /\ Octet(b, a[k - 1]) \in 1..63
                      /\ a[k] = a[k - 1] + 1 + Octet(b, a[k - 1])
  <2>1. Advances(b, n, a)
    BY ChainGrows
  <2> HIDE DEF C, Good
  <2> QED  BY <2>1 DEF Advances
<1>3. a \in [0..n -> Nat] /\ a[0] = p /\ Has(b, a[n]) /\ Octet(b, a[n]) \notin 1..63
  BY DEF Chain
<1>4. /\ \A j \in 0..n : \A i \in 0..n : i < j => a[i] < a[j]
      /\ Cardinality(C) = n + 1
  BY <1>2, <1>3, Ascending
<1>5. \A k \in 0..n : k = n \/ (k + 1 \in 1..n /\ (k + 1) - 1 = k /\ k + 1 \in 0..n)
  BY <1>1
<1> HIDE DEF Good
<1>6. \A k \in 0..n : a[k] \in p..Len(b)
  <2> TAKE k \in 0..n
  <2> DEFINE x == a[k]
  <2>1. x \in Nat
    BY <1>3
  <2>2. p <= x
    <3>1. CASE k = 0
      BY <1>1, <1>3, <3>1
    <3>2. CASE k # 0
      <4>1. 0 < k
        BY <3>2
      <4>2. a[0] < a[k]
        BY <1>1, <1>4, <4>1
      <4>3. p < x
        BY <1>3, <4>2
      <4> HIDE DEF x
      <4> QED  BY ONLY <1>1, <2>1, <4>3
    <3> QED  BY <3>1, <3>2
  <2>3. x < Len(b)
    <3>1. Has(b, a[k])
      <4>1. CASE k = n
        BY <1>3, <4>1
      <4>2. CASE k # n
        <5>1. k + 1 \in 1..n /\ (k + 1) - 1 = k
          BY <1>5, <4>2
        <5>2. Has(b, a[(k + 1) - 1])
          BY <1>2, <5>1
        <5> QED  BY <5>1, <5>2
      <4> QED  BY <4>1, <4>2
    <3> QED  BY <3>1 DEF Has
  <2> HIDE DEF x
  <2>4. x \in p..Len(b)
    BY ONLY <1>1, <2>1, <2>2, <2>3
  <2> QED  BY <2>4 DEF x
<1>7. Good(C)
  <2>1. p \in C
    BY <1>1, <1>3
  <2>2. ASSUME NEW q \in C, Octet(b, q) \in 1..63  PROVE q + 1 + Octet(b, q) \in C
    <3>1. PICK k \in 0..n : q = a[k]
      OBVIOUS
    <3>2. k # n
      BY <1>3, <2>2, <3>1
    <3>3. k + 1 \in 1..n /\ (k + 1) - 1 = k /\ k + 1 \in 0..n
      BY <1>5, <3>2
    <3>4. a[k + 1] = a[(k + 1) - 1] + 1 + Octet(b, a[(k + 1) - 1])
      BY <1>2, <3>3
    <3>5. a[k + 1] = q + 1 + Octet(b, q)
      BY <3>1, <3>3, <3>4
    <3> QED  BY <3>3, <3>5
  <2>3. ASSUME NEW q \in C \ {p}
        PROVE  \E r \in C : r < q /\ Octet(b, r) \in 1..63 /\ q = r + 1 + Octet(b, r)
    <3>1. PICK k \in 0..n : q = a[k]
      OBVIOUS
    <3>2. k # 0
      BY <1>3, <3>1
    <3>3. k \in 1..n
      BY <1>1, <3>2
    <3>4. /\ a[k - 1] \in C /\ a[k - 1] < q /\ Octet(b, a[k - 1]) \in 1..63
          /\ q = a[k - 1] + 1 + Octet(b, a[k - 1])
      BY <1>2, <3>1, <3>3
    <3> QED  BY <3>4
  <2> HIDE DEF C
  <2> QED  BY <2>1, <2>2, <2>3 DEF Good
<1>8. ASSUME NEW S \in SUBSET (p..Len(b)), Good(S)  PROVE S = C
  <2>1. /\ p \in S
        /\ \A q \in S : Has(b, q) /\ Octet(b, q) \in 1..63 =>
             q + 1 + Octet(b, q) \in S \cup {Len(b) + 1}
        /\ \A q \in S \ {p} :
             \E r \in S : r < q /\ Octet(b, r) \in 1..63 /\ q = r + 1 + Octet(b, r)
    BY <1>8 DEF Good
  <2>2. \A k \in 0..n : a[k] \in S
    <3> DEFINE T == {k \in 0..n : a[k] \in S}
    <3>1. 0 \in T
      BY <1>1, <1>3, <2>1
    <3>2. ASSUME NEW k \in 1..n, k - 1 \in T  PROVE k \in T
      <4>1. a[k - 1] \in S
        BY <3>2
      <4>2. a[k] \in S \cup {Len(b) + 1}
        BY <1>2, <2>1, <4>1
      <4>3. a[k] # Len(b) + 1 /\ k \in 0..n
        <5> DEFINE x == a[k]
        <5>1. x \in Nat /\ x <= Len(b) /\ k \in 0..n
          BY <1>2
        <5> HIDE DEF x
        <5>2. x # Len(b) + 1
          BY ONLY <1>1, <5>1
        <5> QED  BY <5>1, <5>2 DEF x
      <4> QED  BY <4>2, <4>3
    <3> HIDE DEF T
    <3>3. \A k \in 0..n : k \in T
      BY <1>1, <3>1, <3>2, CountUp
    <3> QED  BY <3>3 DEF T
  <2>3. S \subseteq C
    <3> DEFINE F == S \ C
    <3> SUFFICES ASSUME F # {}  PROVE FALSE
      OBVIOUS
    <3>1. S \in SUBSET Nat
      <4>1. p..Len(b) \in SUBSET Nat
        BY ONLY <1>1
      <4> QED  BY <4>1
    <3>2. PICK q \in F : \A r \in F : q <= r
      <4>1. F \in SUBSET Nat
        BY <3>1
      <4> HIDE DEF F
      <4> QED  BY <4>1, LeastNumber
    <3>3. q \in S /\ q \notin C /\ p \in C
      <4>1. p \in C
        BY <1>7 DEF Good
      <4> QED  BY <3>2, <4>1
    <3>4. PICK r \in S : r < q /\ Octet(b, r) \in 1..63 /\ q = r + 1 + Octet(b, r)
      BY <2>1, <3>3
    <3>5. r \in C
      <4>1. r \in Nat /\ q \in Nat
        BY <3>1, <3>3
      <4>2. ~(q <= r)
        BY ONLY <3>4, <4>1
      <4> QED  BY <3>2, <4>2
    <3>6. PICK k \in 0..n : r = a[k]
      BY <3>5
    <3>7. k # n
      BY <1>3, <3>4, <3>6
    <3>8. k + 1 \in 1..n /\ (k + 1) - 1 = k /\ k + 1 \in 0..n
      BY <1>5, <3>7
    <3>9. a[k + 1] = a[(k + 1) - 1] + 1 + Octet(b, a[(k + 1) - 1])
      BY <1>2, <3>8
    <3>10. a[k + 1] = r + 1 + Octet(b, r)
      BY <3>6, <3>8, <3>9
    <3> QED  BY <3>3, <3>4, <3>8, <3>10
  <2> QED  BY <2>2, <2>3
<1>9. C \in SUBSET (p..Len(b))
  BY <1>6
<1>10. LabelsFrom(b, p) = C
  <2>1. LabelsFrom(b, p) = CHOOSE S \in SUBSET (p..Len(b)) : Good(S)
    BY DEF LabelsFrom, Good
  <2> HIDE DEF C, Good
  <2> QED  BY <1>7, <1>8, <1>9, <2>1
<1>11. a[n] \in C /\ \A r \in C : r <= a[n]
  <2>1. a[n] \in C /\ a[n] \in Nat
    BY <1>1, <1>3
  <2>2. ASSUME NEW r \in C  PROVE r <= a[n]
    <3>1. PICK k \in 0..n : r = a[k]
      OBVIOUS
    <3> DEFINE x == a[k]
               y == a[n]
    <3>2. x \in Nat /\ y \in Nat
      BY <1>3, <2>1
    <3>3. x = y \/ x < y
      <4>1. CASE k = n
        BY <4>1
      <4>2. CASE k # n
        <5>1. k \in 0..n /\ n \in Nat /\ k # n
          BY <1>1, <4>2
        <5>2. k < n
          BY ONLY <5>1
        <5> QED  BY <1>1, <1>4, <5>2
      <4> QED  BY <4>1, <4>2
    <3> HIDE DEF x, y
    <3>4. x <= y
      BY ONLY <3>2, <3>3
    <3> QED  BY <3>1, <3>4 DEF x, y
  <2> QED  BY <2>1, <2>2
<1>12. LastFrom(b, p) = a[n]
  <2>1. LastFrom(b, p) = CHOOSE q \in C : \A r \in C : r <= q
    BY <1>10 DEF LastFrom
  <2>2. C \subseteq Nat
    BY <1>3
  <2>3. ASSUME NEW q \in C, \A r \in C : r <= q  PROVE q = a[n]
    <3> DEFINE x == a[n]
    <3>1. q \in Nat /\ x \in Nat /\ q <= x /\ x <= q
      BY <1>11, <2>2, <2>3
    <3> HIDE DEF x
    <3>2. q = x
      BY ONLY <3>1
    <3> QED  BY <3>2 DEF x
  <2> HIDE DEF C
  <2> QED  BY <1>11, <2>1, <2>3
<1> HIDE DEF C
<1> QED  BY <1>4, <1>10, <1>12

\* A name of which only labels of its own have been read.
OnlyOwn(w, k) ==
  w.state = "reading" /\ w.end = Unread /\ w.pointers = 0 /\ Len(w.labels) = k

\* The name's end, or the pointer it goes on by.
OwnEnd(b, w, t) ==
  \/ /\ EndsHere(b, w.at)
     /\ t.state = "read" /\ t.labels = w.labels /\ t.end = w.at + 1
  \/ /\ PointerHere(b, w.at)
     /\ t.state = "reading" /\ t.at = Target(b, w.at) /\ t.labels = w.labels
     /\ t.end = w.at + 2 /\ t.pointers = 1

\* One more label of its own, its end or its pointer, or nothing that can be read.
LEMMA OwnTurn ==
  ASSUME NEW b \in Seq(Octets), NEW w \in WalkStates, NEW k \in Nat, OnlyOwn(w, k)
  PROVE  \/ /\ OnlyOwn(Turn(b, w), k + 1) /\ LabelHere(b, w.at)
            /\ Turn(b, w).at = LabelEnd(b, w.at)
         \/ OwnEnd(b, w, Turn(b, w))
         \/ Turn(b, w).state = "bad"
<1>1. /\ w.at \in Nat /\ w.labels \in Seq(Seq(Octets)) /\ Len(w.labels) = k
      /\ w.state = "reading" /\ w.end = Unread /\ w.pointers = 0
      /\ w = [state |-> w.state, at |-> w.at, labels |-> w.labels, end |-> w.end,
              pointers |-> w.pointers]
  BY DEF WalkStates, NamesRead, OnlyOwn
<1>2. CASE EndsHere(b, w.at)
  <2>1. Turn(b, w) = NameEnded(w)
    BY <1>1, <1>2, TurnIs
  <2>2. /\ NameEnded(w).state = "read" /\ NameEnded(w).labels = w.labels
        /\ NameEnded(w).end = w.at + 1
    BY <1>1 DEF NameEnded
  <2> QED  BY <1>2, <2>1, <2>2 DEF OwnEnd
<1>3. CASE ~EndsHere(b, w.at) /\ Labels(b, w)
  <2>1. Turn(b, w) = Labelled(b, w) /\ LabelHere(b, w.at)
    BY <1>1, <1>3, TurnIs DEF Labels
  <2> DEFINE l == Append(w.labels, Spelt(b, w.at))
  <2>2. /\ Labelled(b, w).state = "reading" /\ Labelled(b, w).end = Unread
        /\ Labelled(b, w).pointers = 0 /\ Labelled(b, w).labels = l
        /\ Labelled(b, w).at = LabelEnd(b, w.at)
    <3> HIDE DEF l
    <3> QED  BY <1>1 DEF Labelled, l
  <2>3. Len(l) = k + 1
    <3>1. Spelt(b, w.at) \in Seq(Octets)
      BY <1>1, <2>1, SpeltIs
    <3> QED  BY <1>1, <3>1
  <2> HIDE DEF l
  <2> QED  BY <2>1, <2>2, <2>3 DEF OnlyOwn
<1>4. CASE ~EndsHere(b, w.at) /\ ~Labels(b, w) /\ Points(b, w)
  <2>1. Turn(b, w) = Pointed(b, w) /\ PointerHere(b, w.at)
    BY <1>1, <1>4, TurnIs DEF Points
  <2>2. EndsAt(w) = w.at + 2
    BY <1>1 DEF EndsAt
  <2>3. Pointed(b, w) = [w EXCEPT !.pointers = w.pointers + 1, !.end = w.at + 2,
                                  !.at = Target(b, w.at)]
    BY <2>2 DEF Pointed
  <2>4. /\ Pointed(b, w).state = "reading" /\ Pointed(b, w).end = w.at + 2
        /\ Pointed(b, w).labels = w.labels /\ Pointed(b, w).at = Target(b, w.at)
        /\ Pointed(b, w).pointers = 1
    BY <1>1, <2>3
  <2> QED  BY <2>1, <2>4 DEF OwnEnd
<1>5. CASE ~EndsHere(b, w.at) /\ ~Labels(b, w) /\ ~Points(b, w)
  <2>1. Turn(b, w) = Bad(w)
    BY <1>1, <1>5, TurnIs
  <2>2. Bad(w).state = "bad"
    BY <1>1 DEF Bad
  <2> QED  BY <2>1, <2>2
<1> QED  BY <1>2, <1>3, <1>4, <1>5

\* Of the turns of a name, those up to m read its own labels, and the m-th its end.
OwnUpTo(u, b, m) ==
  /\ \A k \in 0..(m - 1) : OnlyOwn(u[k], k)
  /\ Chain(b, u[0].at, m - 1, [k \in 0..(m - 1) |-> u[k].at])
  /\ OwnEnd(b, u[m - 1], u[m])

\* A name that is read has labels of its own, then its end or its pointer.
LEMMA OwnLabels ==
  ASSUME NEW b \in Seq(Octets), NEW p \in Nat, NEW u, NameWalk(u, b, p),
         read_name(b, p).state = "read"
  PROVE  \E m \in 1..Turns : OwnUpTo(u, b, m)
<1> DEFINE F == {k \in 0..Turns : ~OnlyOwn(u[k], k)}
<1>1. Turns \in Nat /\ Turns \in 0..Turns /\ 0 \in 0..Turns
  BY MessagesAssumption DEF Turns
<1>2. /\ u \in [0..Turns -> WalkStates] /\ u[0] = BeginAt(p)
      /\ \A k \in 1..Turns : u[k] = Turn(b, u[k - 1])
      /\ u[Turns].state = "read"
  BY DEF NameWalk
<1>3. \A k \in 0..Turns : u[k].state # "bad"
  <2> SUFFICES ASSUME NEW k \in 0..Turns, u[k].state = "bad"  PROVE FALSE
    OBVIOUS
  <2>1. Turns \in k..Turns
    BY <1>1
  <2>2. u[Turns] = u[k]
    BY <2>1, NameStays
  <2> QED  BY <1>2, <2>2
<1>4. PICK m \in F : \A j \in F : m <= j
  <2>1. Turns \in F
    BY <1>1, <1>2 DEF OnlyOwn
  <2>2. F \in SUBSET Nat
    BY <1>1
  <2> HIDE DEF F
  <2> QED  BY <2>1, <2>2, LeastNumber
<1>5. m # 0
  <2>1. Len(<< >>) = 0
    OBVIOUS
  <2>2. OnlyOwn(u[0], 0)
    BY <1>2, <2>1 DEF OnlyOwn, BeginAt
  <2> QED  BY <1>4, <2>2
<1>6. m \in 1..Turns /\ m - 1 \in Nat /\ m - 1 \in 0..Turns /\ ~OnlyOwn(u[m], m)
  BY <1>1, <1>4, <1>5
<1>7. \A k \in 0..(m - 1) : OnlyOwn(u[k], k) /\ u[k] \in WalkStates /\ k \in Nat
  <2> TAKE k \in 0..(m - 1)
  <2>1. k \in 0..Turns /\ ~(m <= k) /\ k \in Nat
    BY <1>1, <1>6
  <2>2. k \notin F
    BY <1>4, <2>1
  <2> QED  BY <1>2, <2>1, <2>2
<1> HIDE DEF F
<1>8. \A k \in 1..m : /\ k \in 1..Turns /\ k - 1 \in 0..(m - 1) /\ (k - 1) + 1 = k
                      /\ k \in 0..Turns
  BY <1>1, <1>6
<1>9. \A k \in 1..m : \/ /\ OnlyOwn(u[k], k) /\ LabelHere(b, u[k - 1].at)
                         /\ u[k].at = LabelEnd(b, u[k - 1].at)
                      \/ OwnEnd(b, u[k - 1], u[k])
  <2> TAKE k \in 1..m
  <2>1. /\ k \in 1..Turns /\ k - 1 \in 0..(m - 1) /\ (k - 1) + 1 = k /\ k \in 0..Turns
    BY <1>8
  <2>2. /\ OnlyOwn(u[k - 1], k - 1) /\ u[k - 1] \in WalkStates /\ k - 1 \in Nat
        /\ u[k] = Turn(b, u[k - 1]) /\ u[k].state # "bad"
    BY <1>2, <1>3, <1>7, <2>1
  <2>3. \/ /\ OnlyOwn(u[k], (k - 1) + 1) /\ LabelHere(b, u[k - 1].at)
           /\ u[k].at = LabelEnd(b, u[k - 1].at)
        \/ OwnEnd(b, u[k - 1], u[k])
    BY <2>2, OwnTurn
  <2> QED  BY <2>1, <2>3
<1>10. OwnEnd(b, u[m - 1], u[m])
  <2>1. m \in 1..m
    BY <1>6
  <2> QED  BY <1>6, <1>9, <2>1
<1>11. Chain(b, u[0].at, m - 1, [k \in 0..(m - 1) |-> u[k].at])
  <2> DEFINE a == [k \in 0..(m - 1) |-> u[k].at]
  <2>1. \A k \in 0..(m - 1) : u[k].at \in Nat
    BY <1>7 DEF WalkStates
  <2>2. a \in [0..(m - 1) -> Nat]
    BY <2>1
  <2>3. a[0] = u[0].at
    BY <1>6
  <2>4. ASSUME NEW k \in 1..(m - 1)
        PROVE  LabelHere(b, a[k - 1]) /\ a[k] = LabelEnd(b, a[k - 1])
    <3>1. k \in 1..m /\ k \in 0..(m - 1) /\ k - 1 \in 0..(m - 1)
      BY <1>6
    <3>2. a[k] = u[k].at /\ a[k - 1] = u[k - 1].at
      BY <3>1
    <3>3. ~OwnEnd(b, u[k - 1], u[k])
      <4>1. OnlyOwn(u[k], k)
        BY <1>7, <3>1
      <4>2. u[k].state = "reading" /\ u[k].pointers = 0
        BY <4>1 DEF OnlyOwn
      <4> QED  BY <4>2 DEF OwnEnd
    <3>4. LabelHere(b, u[k - 1].at) /\ u[k].at = LabelEnd(b, u[k - 1].at)
      BY <1>9, <3>1, <3>3
    <3> QED  BY <3>2, <3>4
  <2> HIDE DEF a
  <2> QED  BY <2>2, <2>3, <2>4 DEF Chain, a
<1>12. \A k \in 0..(m - 1) : OnlyOwn(u[k], k)
  BY <1>7
<1>13. OwnUpTo(u, b, m)
  BY <1>10, <1>11, <1>12 DEF OwnUpTo
<1> QED  BY <1>6, <1>13

\* A name read by way of a pointer: before what the pointed name reads are its own labels,
\* and it ends at e.
ByPointer(w, x, l, e) ==
  /\ w.state = x.state /\ w.at = x.at /\ w.labels = l \o x.labels
  /\ w.pointers = x.pointers + 1 /\ w.end = e

\* One more element after two lists is one more after the second.
AppendsAfter(s, t, x) == Append(s \o t, x) = s \o Append(t, x)

LEMMA AppendAfter ==
  ASSUME NEW S, NEW s \in Seq(S), NEW t \in Seq(S), NEW x \in S
  PROVE  AppendsAfter(s, t, x)
<1> DEFINE f == Append(s \o t, x)
           g == s \o Append(t, x)
<1>1. Len(s) \in Nat /\ Len(t) \in Nat
  OBVIOUS
<1>2. /\ Append(t, x) \in Seq(S) /\ Len(Append(t, x)) = Len(t) + 1
      /\ \A y \in 1..Len(t) : Append(t, x)[y] = t[y]
      /\ Append(t, x)[Len(t) + 1] = x
  OBVIOUS
<1>3. /\ s \o t \in Seq(S) /\ Len(s \o t) = Len(s) + Len(t)
      /\ \A i \in 1..(Len(s) + Len(t)) :
           (s \o t)[i] = IF i <= Len(s) THEN s[i] ELSE t[i - Len(s)]
  BY ConcatEntries
<1>4. /\ f \in Seq(S) /\ Len(f) = (Len(s) + Len(t)) + 1
      /\ \A y \in 1..(Len(s) + Len(t)) : f[y] = (s \o t)[y]
      /\ f[(Len(s) + Len(t)) + 1] = x
  BY <1>3
<1>5. /\ g \in Seq(S) /\ Len(g) = Len(s) + (Len(t) + 1)
      /\ \A i \in 1..(Len(s) + (Len(t) + 1)) :
           g[i] = IF i <= Len(s) THEN s[i] ELSE Append(t, x)[i - Len(s)]
  <2> DEFINE h == Append(t, x)
  <2>1. h \in Seq(S) /\ Len(h) = Len(t) + 1
    BY <1>2
  <2> HIDE DEF h
  <2>2. /\ s \o h \in Seq(S) /\ Len(s \o h) = Len(s) + Len(h)
        /\ \A i \in 1..(Len(s) + Len(h)) :
             (s \o h)[i] = IF i <= Len(s) THEN s[i] ELSE h[i - Len(s)]
    BY <2>1, ConcatEntries
  <2> QED  BY <2>1, <2>2 DEF h
<1> HIDE DEF f, g
<1>6. ASSUME NEW y \in 1..Len(f)  PROVE f[y] = g[y]
  <2> DEFINE m == Len(s)
             n == Len(t)
  <2>1. m \in Nat /\ n \in Nat /\ y \in 1..((m + n) + 1)
    BY <1>1, <1>4
  <2>2. y \in 1..(m + (n + 1))
    <3> HIDE DEF m, n
    <3> QED  BY ONLY <2>1
  <2>3. g[y] = IF y <= m THEN s[y] ELSE Append(t, x)[y - m]
    BY <1>5, <2>2
  <2>4. CASE y = (m + n) + 1
    <3>1. ~(y <= m) /\ y - m = n + 1
      <4> HIDE DEF m, n
      <4> QED  BY ONLY <2>1, <2>4
    <3> QED  BY <1>2, <1>4, <2>3, <2>4, <3>1
  <2>5. CASE y # (m + n) + 1
    <3>1. y \in 1..(m + n) /\ (~(y <= m) => y - m \in 1..n)
      <4> HIDE DEF m, n
      <4> QED  BY ONLY <2>1, <2>5
    <3>2. f[y] = IF y <= m THEN s[y] ELSE t[y - m]
      BY <1>3, <1>4, <3>1
    <3>3. CASE y <= m
      BY <2>3, <3>2, <3>3
    <3>4. CASE ~(y <= m)
      <4>1. Append(t, x)[y - m] = t[y - m]
        BY <1>2, <3>1, <3>4
      <4> QED  BY <2>3, <3>2, <3>4, <4>1
    <3> QED  BY <3>3, <3>4
  <2> QED  BY <2>4, <2>5
<1>7. Len(f) = Len(g)
  BY <1>1, <1>4, <1>5
<1>8. f = g
  BY <1>4, <1>5, <1>6, <1>7, SameEntries
<1> QED  BY <1>8 DEF AppendsAfter, f, g

\* What comes after a list is what it was put before.
LEMMA TailOfBoth ==
  ASSUME NEW S, NEW s \in Seq(S), NEW t \in Seq(S)
  PROVE  SubSeq(s \o t, Len(s) + 1, Len(s \o t)) = t
<1> DEFINE c == s \o t
           m == Len(s)
           n == Len(t)
           h == SubSeq(c, m + 1, m + n)
<1>1. m \in Nat /\ n \in Nat
  OBVIOUS
<1>2. /\ c \in Seq(S) /\ Len(c) = m + n
      /\ \A i \in 1..(m + n) : c[i] = IF i <= m THEN s[i] ELSE t[i - m]
  BY ConcatEntries
<1> HIDE DEF c, m, n
<1>3. /\ m + 1 \in 1..((m + n) + 1) /\ m + n \in ((m + 1) - 1)..(m + n)
      /\ ((m + n) - (m + 1)) + 1 = n
  BY ONLY <1>1
<1>4. /\ h \in Seq(S) /\ Len(h) = n
      /\ \A y \in 1..n : h[y] = c[((m + 1) + y) - 1]
  BY <1>2, <1>3, PartEntries
<1>5. ASSUME NEW y \in 1..n  PROVE h[y] = t[y]
  <2>1. /\ ((m + 1) + y) - 1 \in 1..(m + n) /\ ~(((m + 1) + y) - 1 <= m)
        /\ (((m + 1) + y) - 1) - m = y
    BY ONLY <1>1, <1>5
  <2> QED  BY <1>2, <1>4, <2>1
<1> HIDE DEF h
<1>6. h = t
  BY <1>4, <1>5, SameEntries DEF n
<1> QED  BY <1>2, <1>6 DEF c, m, n, h

\* A turn by way of a pointer is the turn of the pointed name.
LEMMA TurnFollows ==
  ASSUME NEW b \in Seq(Octets), NEW w \in WalkStates, NEW x \in WalkStates,
         NEW l \in NamesRead, NEW e \in Nat, ByPointer(w, x, l, e),
         w.pointers <= MaxPointers, Turn(b, w).state # "bad"
  PROVE  ByPointer(Turn(b, w), Turn(b, x), l, e)
<1>1. /\ w.at \in Nat /\ w.labels \in Seq(Seq(Octets)) /\ w.pointers \in Nat
      /\ w = [state |-> w.state, at |-> w.at, labels |-> w.labels, end |-> w.end,
              pointers |-> w.pointers]
  BY DEF WalkStates, NamesRead
<1>2. /\ x.at \in Nat /\ x.labels \in Seq(Seq(Octets)) /\ x.pointers \in Nat
      /\ x = [state |-> x.state, at |-> x.at, labels |-> x.labels, end |-> x.end,
              pointers |-> x.pointers]
  BY DEF WalkStates, NamesRead
<1>3. /\ w.state = x.state /\ w.at = x.at /\ w.labels = l \o x.labels
      /\ w.pointers = x.pointers + 1 /\ w.end = e /\ l \in Seq(Seq(Octets))
  BY DEF ByPointer, NamesRead
<1>4. e # Unread
  BY MessagesAssumption
<1>5. CASE w.state # "reading"
  <2>1. Turn(b, w) = w /\ Turn(b, x) = x
    BY <1>3, <1>5, TurnIs
  <2> QED  BY <2>1
<1>6. CASE w.state = "reading" /\ EndsHere(b, w.at)
  <2>1. Turn(b, w) = NameEnded(w) /\ Turn(b, x) = NameEnded(x)
    BY <1>3, <1>6, TurnIs
  <2>2. NameEnded(w) = [w EXCEPT !.state = "read"]
    <3>1. NameEnded(w) = [w EXCEPT !.state = "read", !.end = e]
      BY <1>1, <1>3, <1>4 DEF NameEnded
    <3> QED  BY <1>1, <1>3, <3>1
  <2>3. /\ NameEnded(w).state = "read" /\ NameEnded(w).at = w.at /\ NameEnded(w).labels = w.labels
        /\ NameEnded(w).pointers = w.pointers /\ NameEnded(w).end = e
    BY <1>1, <1>3, <2>2
  <2>4. /\ NameEnded(x).state = "read" /\ NameEnded(x).at = x.at /\ NameEnded(x).labels = x.labels
        /\ NameEnded(x).pointers = x.pointers
    BY <1>2 DEF NameEnded
  <2> QED  BY <1>3, <2>1, <2>3, <2>4 DEF ByPointer
<1>7. CASE w.state = "reading" /\ ~EndsHere(b, w.at) /\ Labels(b, w)
  <2>1. Turn(b, w) = Labelled(b, w) /\ LabelHere(b, w.at) /\ Len(w.labels) < MaxLabels
    BY <1>7, TurnIs DEF Labels
  <2>2. Len(x.labels) < MaxLabels
    <3>1. Len(w.labels) = Len(l) + Len(x.labels) /\ Len(l) \in Nat /\ Len(x.labels) \in Nat
      BY <1>2, <1>3, ConcatEntries
    <3> DEFINE k == Len(l)
               i == Len(x.labels)
               j == Len(w.labels)
    <3>2. j = k + i /\ k \in Nat /\ i \in Nat /\ j < MaxLabels /\ MaxLabels \in Nat
      BY <2>1, <3>1, MessagesAssumption
    <3> HIDE DEF k, i, j
    <3>3. i < MaxLabels
      BY ONLY <3>2
    <3> QED  BY <3>3 DEF i
  <2>3. Turn(b, x) = Labelled(b, x)
    BY <1>3, <1>7, <2>1, <2>2, TurnIs DEF Labels
  <2> DEFINE s == Spelt(b, w.at)
  <2>4. s \in Seq(Octets)
    BY <1>1, <2>1, SpeltIs
  <2>5. Append(w.labels, s) = l \o Append(x.labels, s)
    <3> DEFINE z == x.labels
               N == Seq(Octets)
    <3>1. s \in N /\ z \in Seq(N) /\ l \in Seq(N)
      BY <1>2, <1>3, <2>4
    <3>2. w.labels = l \o z
      BY <1>3
    <3> HIDE DEF s, z, N
    <3>3. AppendsAfter(l, z, s)
      BY ONLY <3>1, AppendAfter
    <3> QED  BY <3>2, <3>3 DEF AppendsAfter, z
  <2>6. /\ Labelled(b, w).state = w.state /\ Labelled(b, w).at = LabelEnd(b, w.at)
        /\ Labelled(b, w).labels = Append(w.labels, s)
        /\ Labelled(b, w).pointers = w.pointers /\ Labelled(b, w).end = w.end
    <3> HIDE DEF s
    <3> QED  BY <1>1 DEF Labelled, s
  <2>7. /\ Labelled(b, x).state = x.state /\ Labelled(b, x).at = LabelEnd(b, w.at)
        /\ Labelled(b, x).labels = Append(x.labels, s)
        /\ Labelled(b, x).pointers = x.pointers
    <3> HIDE DEF s
    <3> QED  BY <1>2, <1>3 DEF Labelled, s
  <2> HIDE DEF s
  <2> QED  BY <1>3, <2>1, <2>3, <2>5, <2>6, <2>7 DEF ByPointer
<1>8. CASE /\ w.state = "reading" /\ ~EndsHere(b, w.at) /\ ~Labels(b, w) /\ Points(b, w)
  <2>1. Turn(b, w) = Pointed(b, w) /\ PointerHere(b, w.at) /\ w.pointers # MaxPointers
    BY <1>8, TurnIs DEF Points
  <2>2. ~Labels(b, x)
    <3>1. Octet(b, w.at) \in 0..255 /\ Octet(b, w.at) >= 192
      <4>1. Has(b, w.at + 1) /\ Octet(b, w.at) >= 192
        BY <2>1 DEF PointerHere
      <4>2. Has(b, w.at)
        BY <1>1, <4>1 DEF Has
      <4> QED  BY <1>1, <4>1, <4>2, OctetsAre
    <3> DEFINE o == Octet(b, w.at)
    <3>2. o \in 0..255 /\ o >= 192
      BY <3>1
    <3> HIDE DEF o
    <3>3. o \notin 1..63
      BY ONLY <3>2
    <3> QED  BY <1>3, <3>3 DEF Labels, LabelHere, o
  <2>3. x.pointers # MaxPointers
    <3> DEFINE i == x.pointers
               j == w.pointers
    <3>1. i \in Nat /\ j = i + 1 /\ j <= MaxPointers /\ MaxPointers \in Nat
      BY <1>2, <1>3, MessagesAssumption
    <3> HIDE DEF i, j
    <3>2. i # MaxPointers
      BY ONLY <3>1
    <3> QED  BY <3>2 DEF i
  <2>4. Turn(b, x) = Pointed(b, x)
    BY <1>3, <1>8, <2>1, <2>2, <2>3, TurnIs DEF Points
  <2>5. EndsAt(w) = e
    BY <1>3, <1>4 DEF EndsAt
  <2>6. /\ Pointed(b, w).state = w.state /\ Pointed(b, w).at = Target(b, w.at)
        /\ Pointed(b, w).labels = w.labels /\ Pointed(b, w).pointers = w.pointers + 1
        /\ Pointed(b, w).end = e
    <3>1. Pointed(b, w) = [w EXCEPT !.pointers = w.pointers + 1, !.end = e,
                                    !.at = Target(b, w.at)]
      BY <2>5 DEF Pointed
    <3> QED  BY <1>1, <3>1
  <2>7. /\ Pointed(b, x).state = x.state /\ Pointed(b, x).at = Target(b, w.at)
        /\ Pointed(b, x).labels = x.labels /\ Pointed(b, x).pointers = x.pointers + 1
    <3>1. Pointed(b, x) = [x EXCEPT !.pointers = x.pointers + 1, !.end = EndsAt(x),
                                    !.at = Target(b, w.at)]
      BY <1>3 DEF Pointed
    <3> QED  BY <1>2, <3>1
  <2> QED  BY <1>3, <2>1, <2>4, <2>6, <2>7 DEF ByPointer
<1>9. CASE /\ w.state = "reading" /\ ~EndsHere(b, w.at) /\ ~Labels(b, w) /\ ~Points(b, w)
  <2>1. Turn(b, w) = Bad(w)
    BY <1>9, TurnIs
  <2>2. Bad(w).state = "bad"
    BY <1>1 DEF Bad
  <2> QED  BY <2>1, <2>2
<1> QED  BY <1>5, <1>6, <1>7, <1>8, <1>9

\* What is read by way of a pointer is the pointed name, after the labels before the pointer.
LEMMA PointerFollowed ==
  ASSUME NEW b \in Seq(Octets), NEW p \in Nat, NEW u, NameWalk(u, b, p),
         read_name(b, p).state = "read", NEW m \in 1..Turns,
         NEW l \in NamesRead, NEW t \in Nat, NEW e \in Nat,
         u[m].state = "reading", u[m].at = t, u[m].labels = l, u[m].end = e,
         u[m].pointers = 1
  PROVE  /\ read_name(b, t).state = "read"
         /\ read_name(b, p).labels = l \o read_name(b, t).labels
         /\ read_name(b, p).end = e
<1>1. /\ Turns \in Nat /\ Turns \in 0..Turns /\ m \in 0..Turns /\ Turns - m \in 0..Turns
      /\ m + (Turns - m) = Turns /\ Turns \in (Turns - m)..Turns
      /\ \A j \in 0..(Turns - m) : m + j \in 0..Turns /\ j \in 0..Turns
      /\ \A j \in 1..(Turns - m) : /\ m + j \in 1..Turns /\ j \in 1..Turns
                                   /\ (m + j) - 1 = m + (j - 1) /\ j - 1 \in 0..(Turns - m)
                                   /\ j \in 0..(Turns - m)
  <2>1. Turns \in Nat
    BY MessagesAssumption DEF Turns
  <2> DEFINE r == Turns
  <2>2. r \in Nat /\ m \in 1..r
    BY <2>1
  <2> HIDE DEF r
  <2>3. r \in 0..r /\ m \in 0..r /\ r - m \in 0..r /\ m + (r - m) = r /\ r \in (r - m)..r
    BY ONLY <2>2
  <2>4. \A j \in 0..(r - m) : m + j \in 0..r /\ j \in 0..r
    BY ONLY <2>2
  <2>5. \A j \in 1..(r - m) : m + j \in 1..r /\ j \in 1..r /\ j \in 0..(r - m)
    BY ONLY <2>2
  <2>6. \A j \in 1..(r - m) : (m + j) - 1 = m + (j - 1) /\ j - 1 \in 0..(r - m)
    BY ONLY <2>2
  <2> QED  BY <2>2, <2>3, <2>4, <2>5, <2>6 DEF r
<1>2. /\ u \in [0..Turns -> WalkStates]
      /\ \A k \in 1..Turns : u[k] = Turn(b, u[k - 1])
      /\ u[Turns] = read_name(b, p)
  BY DEF NameWalk
<1>3. \A k \in 0..Turns : u[k] \in WalkStates /\ TurnsCounted(u[k], k)
  BY WalkCounts
<1>4. \A k \in 0..Turns : u[k].state # "bad"
  <2> SUFFICES ASSUME NEW k \in 0..Turns, u[k].state = "bad"  PROVE FALSE
    OBVIOUS
  <2>1. Turns \in k..Turns
    BY <1>1
  <2>2. u[Turns] = u[k]
    BY <2>1, NameStays
  <2> QED  BY <1>2, <2>2
<1>5. PICK v : NameWalk(v, b, t)
  BY NameUnfolds
<1>6. /\ v \in [0..Turns -> WalkStates] /\ v[0] = BeginAt(t)
      /\ \A k \in 1..Turns : v[k] = Turn(b, v[k - 1])
      /\ v[Turns] = read_name(b, t)
  BY <1>5 DEF NameWalk
<1> DEFINE n == Turns - m
           T == {j \in 0..n : ByPointer(u[m + j], v[j], l, e)}
<1>7. 0 \in T
  <2>1. m + 0 = m /\ 0 \in 0..n
    BY <1>1
  <2>2. l \o << >> = l
    BY DEF NamesRead
  <2>3. v[0].state = "reading" /\ v[0].at = t /\ v[0].labels = << >> /\ v[0].pointers = 0
    BY <1>6 DEF BeginAt
  <2>4. u[m].labels = l \o v[0].labels
    BY <2>2, <2>3
  <2>5. u[m].pointers = v[0].pointers + 1
    BY <2>3
  <2>6. ByPointer(u[m], v[0], l, e)
    BY <2>3, <2>4, <2>5 DEF ByPointer
  <2> QED  BY <2>1, <2>6
<1>8. ASSUME NEW j \in 1..n, j - 1 \in T  PROVE j \in T
  <2>1. /\ m + j \in 1..Turns /\ j \in 1..Turns /\ (m + j) - 1 = m + (j - 1)
        /\ j - 1 \in 0..n /\ j \in 0..n
        /\ m + j \in 0..Turns /\ m + (j - 1) \in 0..Turns /\ j - 1 \in 0..Turns
    BY <1>1
  <2>2. u[m + j] = Turn(b, u[m + (j - 1)]) /\ v[j] = Turn(b, v[j - 1])
    BY <1>2, <1>6, <2>1
  <2>3. /\ u[m + (j - 1)] \in WalkStates /\ v[j - 1] \in WalkStates
        /\ u[m + (j - 1)].pointers <= MaxPointers /\ u[m + j].state # "bad"
    BY <1>3, <1>4, <1>6, <2>1 DEF TurnsCounted
  <2>4. ByPointer(u[m + (j - 1)], v[j - 1], l, e)
    BY <1>8
  <2>5. ByPointer(u[m + j], v[j], l, e)
    BY <2>2, <2>3, <2>4, TurnFollows
  <2> QED  BY <2>1, <2>5
<1>9. n \in Nat /\ n \in 0..n
  BY <1>1
<1> HIDE DEF T
<1>10. \A j \in 0..n : j \in T
  BY <1>7, <1>8, <1>9, CountUp
<1>11. ByPointer(u[Turns], v[n], l, e)
  <2>1. ByPointer(u[m + n], v[n], l, e)
    BY <1>9, <1>10 DEF T
  <2> QED  BY <1>1, <2>1
<1>12. v[n].state = "read"
  BY <1>2, <1>11 DEF ByPointer
<1>13. v[Turns] = v[n]
  <2>1. n \in 0..Turns /\ Turns \in n..Turns
    BY <1>1
  <2>2. v[n].state # "reading"
    BY <1>12
  <2> HIDE DEF n
  <2>3. \A k \in 0..Turns : v[k].state # "reading" => \A j \in k..Turns : v[j] = v[k]
    BY ONLY b \in Seq(Octets), t \in Nat, <1>5, NameStays
  <2> QED  BY ONLY <2>1, <2>2, <2>3
<1> QED  BY <1>2, <1>6, <1>11, <1>12, <1>13 DEF ByPointer

\* Every name lines up with its labels and what it points to.
LEMMA NameLinesUp ==
  ASSUME NEW b \in Seq(Octets), NEW p \in Nat, read_name(b, p).state = "read"
  PROVE  LET name == read_name(b, p)
             last == LastFrom(b, p)
             target == (Octet(b, last) - 192) * 256 + Octet(b, last + 1)
             own == Cardinality(LabelsFrom(b, p)) - 1
         IN  /\ own <= MaxLabels /\ Has(b, last)
             /\ IF Octet(b, last) = 0
                THEN name.end = last + 1 /\ Len(name.labels) = own
                ELSE /\ name.end = last + 2
                     /\ target < last
                     /\ read_name(b, target).state = "read"
                     /\ SubSeq(name.labels, own + 1, Len(name.labels))
                          = read_name(b, target).labels
<1>1. PICK u : NameWalk(u, b, p)
  BY NameUnfolds
<1>2. PICK m \in 1..Turns : OwnUpTo(u, b, m)
  BY <1>1, OwnLabels
<1>3. /\ Turns \in Nat /\ m - 1 \in Nat /\ m - 1 \in 0..(m - 1) /\ m - 1 \in 0..Turns
      /\ m \in 0..Turns /\ Turns \in m..Turns /\ ((m - 1) + 1) - 1 = m - 1
  BY MessagesAssumption DEF Turns
<1>4. /\ u \in [0..Turns -> WalkStates] /\ u[0] = BeginAt(p)
      /\ u[Turns] = read_name(b, p)
  BY <1>1 DEF NameWalk
<1> DEFINE a == [k \in 0..(m - 1) |-> u[k].at]
           l == u[m - 1].labels
           last == u[m - 1].at
<1>5. OnlyOwn(u[m - 1], m - 1) /\ Chain(b, p, m - 1, a) /\ OwnEnd(b, u[m - 1], u[m])
  <2>1. u[0].at = p
    BY <1>4 DEF BeginAt
  <2> QED  BY <1>2, <1>3, <2>1 DEF OwnUpTo
<1>6. /\ l \in NamesRead /\ Len(l) = m - 1 /\ last \in Nat /\ Len(l) <= MaxLabels
  <2>1. u[m - 1] \in WalkStates
    BY <1>3, <1>4
  <2>2. TurnsCounted(u[m - 1], m - 1)
    BY <1>1, <1>3, WalkCounts
  <2> QED  BY <1>5, <2>1, <2>2 DEF WalkStates, OnlyOwn, TurnsCounted
<1>7. a[m - 1] = last
  BY <1>3
<1>8. /\ Has(b, last) /\ Octet(b, last) \notin 1..63
      /\ EndsHere(b, last) <=> Octet(b, last) = 0
      /\ ~EndsHere(b, last) => PointerHere(b, last)
  <2>1. EndsHere(b, last) \/ PointerHere(b, last)
    BY <1>5 DEF OwnEnd
  <2>2. Has(b, last)
    <3>1. CASE EndsHere(b, last)
      BY <3>1 DEF EndsHere
    <3>2. CASE PointerHere(b, last)
      BY <1>6, <3>2 DEF PointerHere, Has
    <3> QED  BY <2>1, <3>1, <3>2
  <2> DEFINE o == Octet(b, last)
  <2>3. o \in 0..255 /\ (o = 0 \/ o >= 192)
    BY <1>6, <2>1, <2>2, OctetsAre DEF EndsHere, PointerHere
  <2> HIDE DEF o
  <2>4. o \notin 1..63
    BY ONLY <2>3
  <2>5. EndsHere(b, last) <=> o = 0
    BY <2>2 DEF EndsHere, o
  <2> QED  BY <2>1, <2>2, <2>4, <2>5 DEF o
<1>9. LastFrom(b, p) = last /\ Cardinality(LabelsFrom(b, p)) = (m - 1) + 1
  <2> DEFINE n == m - 1
  <2>1. n \in Nat /\ Chain(b, p, n, a) /\ Has(b, a[n]) /\ Octet(b, a[n]) \notin 1..63
    BY <1>3, <1>5, <1>7, <1>8
  <2> HIDE DEF a, n
  <2>2. LastFrom(b, p) = a[n] /\ Cardinality(LabelsFrom(b, p)) = n + 1
    BY ONLY b \in Seq(Octets), p \in Nat, <2>1, LabelsLie
  <2> QED  BY <1>7, <2>2 DEF n
<1>10. CASE Octet(b, last) = 0
  <2>1. EndsHere(b, last) /\ ~PointerHere(b, last)
    BY <1>8, <1>10 DEF PointerHere
  <2>2. u[m].state = "read" /\ u[m].labels = l /\ u[m].end = last + 1
    BY <1>5, <2>1 DEF OwnEnd
  <2>3. u[Turns] = u[m]
    <3>1. u[m].state # "reading"
      BY <2>2
    <3> QED  BY ONLY b \in Seq(Octets), p \in Nat, <1>1, <1>3, <3>1, NameStays
  <2> QED  BY <1>3, <1>4, <1>6, <1>8, <1>9, <1>10, <2>2, <2>3
<1>11. CASE Octet(b, last) # 0
  <2> DEFINE target == Target(b, last)
             name == read_name(b, p)
             far == read_name(b, target)
  <2>1. ~EndsHere(b, last) /\ PointerHere(b, last)
    BY <1>8, <1>11
  <2>2. /\ u[m].state = "reading" /\ u[m].at = target /\ u[m].labels = l
        /\ u[m].end = last + 2 /\ u[m].pointers = 1
    BY <1>5, <2>1 DEF OwnEnd
  <2>3. target < last
    BY <2>1 DEF PointerHere
  <2>4. target \in Nat /\ last + 2 \in Nat
    <3>1. u[m] \in WalkStates
      BY <1>3, <1>4
    <3> QED  BY <1>6, <2>2, <3>1 DEF WalkStates
  <2>5. far.state = "read" /\ name.labels = l \o far.labels /\ name.end = last + 2
    <3> DEFINE e == last + 2
    <3>1. /\ u[m].state = "reading" /\ u[m].at = target /\ u[m].labels = l
          /\ u[m].end = e /\ u[m].pointers = 1 /\ l \in NamesRead
          /\ target \in Nat /\ e \in Nat
      BY <1>6, <2>2, <2>4
    <3>2. b \in Seq(Octets) /\ p \in Nat /\ m \in 1..Turns /\ name.state = "read"
      OBVIOUS
    <3> HIDE DEF target, l, last, e
    <3>3. far.state = "read" /\ name.labels = l \o far.labels /\ name.end = e
      BY ONLY <1>1, <3>1, <3>2, PointerFollowed
    <3> QED  BY <3>3 DEF e
  <2>6. far.labels \in NamesRead
    BY <2>4, NameIs DEF WalkStates
  <2>7. SubSeq(name.labels, (m - 1) + 1, Len(name.labels)) = far.labels
    <3> DEFINE s == far.labels
               N == Seq(Octets)
    <3>1. l \in Seq(N) /\ s \in Seq(N)
      BY <1>6, <2>6 DEF NamesRead
    <3> HIDE DEF l, s, N
    <3>2. SubSeq(l \o s, Len(l) + 1, Len(l \o s)) = s
      BY <3>1, TailOfBoth
    <3> QED  BY <1>6, <2>5, <3>2 DEF s
  <2>8. target = (Octet(b, last) - 192) * 256 + Octet(b, last + 1)
    BY DEF Target
  <2> DEFINE own == Cardinality(LabelsFrom(b, p)) - 1
  <2>9. own = m - 1
    BY <1>3, <1>9
  <2>10. own <= MaxLabels
    BY <1>6, <2>9
  <2>11. SubSeq(name.labels, own + 1, Len(name.labels)) = far.labels
    BY <2>7, <2>9
  <2> HIDE DEF own
  <2>12. /\ own <= MaxLabels /\ Has(b, last)
         /\ name.end = last + 2
         /\ target < last
         /\ far.state = "read"
         /\ SubSeq(name.labels, own + 1, Len(name.labels)) = far.labels
    BY <1>8, <2>3, <2>5, <2>10, <2>11
  <2> HIDE DEF last, l, a
  <2> QED  BY <1>9, <1>11, <2>8, <2>12 DEF own
<1> QED  BY <1>10, <1>11

\* Typing: what is captured is octets, and the counts are numbers.
LEMMA MessagesTypeStep ==
  MessagesTypes /\ [MessagesNext]_messageVars => MessagesTypes'
<1> SUFFICES ASSUME MessagesTypes, [MessagesNext]_messageVars  PROVE MessagesTypes'
  OBVIOUS
<1>1. CASE UNCHANGED messageVars
  BY <1>1 DEF MessagesTypes, messageVars
<1>2. ASSUME NEW o \in Octets, Longer(o)  PROVE MessagesTypes'
  BY <1>2 DEF MessagesTypes, Longer
<1> QED  BY <1>1, <1>2 DEF MessagesNext

\* The reader of messages, whatever is captured of one: its names line up with the
\* message and come to an end, and what it reads of the head of a message is the head
\* of what it reads of the whole (read_name, read_record, parse_message, txt_strings).
THEOREM MessagesHold == MessagesSpec => ReaderKeepsItsPlace
<1> DEFINE Heads ==
             LET before == parse_message(octets)
                 after == parse_message(octets')
             IN  /\ before # Unread =>
                      /\ after # Unread /\ after.questions = before.questions
                      /\ IsPrefix(before.records, after.records)
                 /\ IsPrefix(txt_strings(octets), txt_strings(octets'))
<1>1. MessagesInit => MessagesTypes
  BY DEF MessagesInit, MessagesTypes
<1>2. MessagesTypes => NamesLineUp
  <2> SUFFICES ASSUME MessagesTypes  PROVE NamesLineUp
    OBVIOUS
  <2>1. octets \in Seq(Octets)
    BY DEF MessagesTypes
  <2>2. \A p \in 0..Len(octets) : p \in Nat
    BY <2>1
  <2>3. \A p \in 0..Len(octets) : read_name(octets, p).state # "reading"
    BY <2>1, <2>2, NameIs
  <2> QED  BY <2>1, <2>2, <2>3, NameLinesUp DEF NamesLineUp
<1>3. MessagesTypes /\ [MessagesNext]_messageVars => [Heads]_messageVars
  <2> SUFFICES ASSUME MessagesTypes, MessagesNext  PROVE Heads
    OBVIOUS
  <2>1. PICK o \in Octets : Longer(o)
    BY DEF MessagesNext
  <2>2. octets' = Append(octets, o) /\ octets \in Seq(Octets) /\ qdcount \in Nat /\ total \in Nat
    BY <2>1 DEF Longer, MessagesTypes
  <2> QED  BY <2>2, HeadIsRead
<1> QED  BY <1>1, <1>2, <1>3, MessagesTypeStep, PTL
         DEF MessagesSpec, ReaderKeepsItsPlace, HeadsStand
=============================================================================
