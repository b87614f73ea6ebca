---------------------------- MODULE IdentityProofs ----------------------------
(***************************************************************************)
(* Proofs about Identity, for any machines, addresses, names, owners, ranks*)
(* and settle window.                                                      *)
(***************************************************************************)
EXTENDS Identity, FunctionTheorems, FiniteSetTheorems, WellFoundedInduction, TLAPS

(***************************************************************************)
(* Lists.                                                                  *)
(***************************************************************************)
\* A nonempty set of numbers has a least one.
LEMMA LeastNumber ==
  ASSUME NEW T \in SUBSET Nat, T # {}
  PROVE  \E x \in T : \A y \in T : x <= y
<1>1. PICK x \in T : \A y \in T : ~ (<<y, x>> \in OpToRel(<, Nat))
  <2> HIDE DEF OpToRel
  <2> QED  BY NatLessThanWellFounded, WFMin
<1>2. \A y \in T : ~(y < x)
  BY <1>1 DEF OpToRel
<1> QED  BY <1>2

\* Min is a least member.
LEMMA MinIsLeast ==
  ASSUME NEW T \in SUBSET Nat, T # {}
  PROVE  Min(T) \in T /\ \A y \in T : Min(T) <= y
BY LeastNumber DEF Min

\* What is ahead of what: a strict total order of a finite set of positions.
OrderOf(I, ahead) ==
  /\ ahead \in [I -> SUBSET I]
  /\ \A i \in I : i \notin ahead[i]
  /\ \A i, j \in I : i # j => i \in ahead[j] \/ j \in ahead[i]
  /\ \A i, j \in I : i \in ahead[j] => ahead[i] \subseteq ahead[j]

\* p is the position each element of the arranged list comes from.
Places(p, q, I, ahead) ==
  /\ p \in [1..Cardinality(I) -> I]
  /\ Arranged(q, ahead) = [k \in 1..Cardinality(I) |-> q[p[k]]]
  /\ \A i \in I : \E k \in 1..Cardinality(I) : p[k] = i
  /\ \A k, l \in 1..Cardinality(I) : k < l => p[k] \in ahead[p[l]] /\ p[k] # p[l]

\* Arranged puts every chosen element once, each after those ahead of it.
LEMMA ArrangedInOrder ==
  ASSUME NEW q, NEW I, IsFiniteSet(I), NEW ahead, OrderOf(I, ahead)
  PROVE  \E p : Places(p, q, I, ahead)
<1> DEFINE n == Cardinality(I)
           place == [i \in I |-> Cardinality(ahead[i]) + 1]
           p == [k \in 1..n |-> CHOOSE i \in I : place[i] = k]
<1>0. n \in Nat
  BY FS_CardinalityType
<1>1. \A i \in I : IsFiniteSet(ahead[i]) /\ Cardinality(ahead[i]) \in Nat
  BY FS_Subset, FS_CardinalityType DEF OrderOf
<1>2. \A i \in I : Cardinality(ahead[i]) < n
  <2> TAKE i \in I
  <2>1. ahead[i] \in SUBSET I /\ ahead[i] # I
    BY DEF OrderOf
  <2>2. Cardinality(ahead[i]) <= n /\ n # Cardinality(ahead[i])
    BY <2>1, FS_Subset
  <2> QED  BY <1>0, <1>1, <2>2
<1>3. place \in [I -> 1..n]
  BY <1>0, <1>1, <1>2
<1>4. ASSUME NEW i \in I, NEW j \in I, i \in ahead[j]  PROVE place[i] < place[j]
  <2>1. ahead[i] \in SUBSET ahead[j] /\ ahead[i] # ahead[j]
    BY <1>4 DEF OrderOf
  <2>2. /\ Cardinality(ahead[i]) <= Cardinality(ahead[j])
        /\ Cardinality(ahead[j]) # Cardinality(ahead[i])
    BY <2>1, <1>1, FS_Subset
  <2> QED  BY <1>1, <2>2
<1>5. \A i, j \in I : place[i] = place[j] => i = j
  <2> SUFFICES ASSUME NEW i \in I, NEW j \in I, i # j  PROVE place[i] # place[j]
    OBVIOUS
  <2>1. place[i] < place[j] \/ place[j] < place[i]
    BY <1>4 DEF OrderOf
  <2>2. place[i] \in Int /\ place[j] \in Int
    BY <1>0, <1>3
  <2> HIDE DEF place
  <2> QED  BY <2>1, <2>2
<1>6. place \in Injection(I, 1..n)
  <2> HIDE DEF place
  <2> QED  BY <1>3, <1>5, Fun_IsInj
<1>7. \A k \in 1..n : \E i \in I : place[i] = k
  <2> HIDE DEF place
  <2>1. IsFiniteSet(1..n) /\ Cardinality(1..n) = n
    BY <1>0, FS_Interval
  <2>2. place \in Surjection(I, 1..n)
    BY <1>6, <2>1, FS_Injection
  <2> QED  BY <2>2 DEF Surjection
<1>8. p \in [1..n -> I] /\ \A k \in 1..n : place[p[k]] = k
  <2> HIDE DEF place
  <2> QED  BY <1>7
<1>9. Arranged(q, ahead) = [k \in 1..n |-> q[p[k]]]
  <2>1. DOMAIN ahead = I
    BY DEF OrderOf
  <2> QED  BY <2>1 DEF Arranged
<1>10. ASSUME NEW i \in I  PROVE \E k \in 1..n : p[k] = i
  <2> HIDE DEF place, p, n
  <2>1. place[i] \in 1..n
    BY <1>3
  <2>2. place[p[place[i]]] = place[i] /\ p[place[i]] \in I
    BY <1>8, <2>1
  <2> QED  BY <2>1, <2>2, <1>5
<1>11. ASSUME NEW k \in 1..n, NEW l \in 1..n, k < l
       PROVE  p[k] \in ahead[p[l]] /\ p[k] # p[l]
  <2> HIDE DEF place, p
  <2>1. p[k] \in I /\ p[l] \in I /\ place[p[k]] = k /\ place[p[l]] = l
    BY <1>8
  <2>2. p[k] # p[l]
    BY <2>1, <1>11, <1>0
  <2>3. p[l] \notin ahead[p[k]]
    BY <2>1, <1>4, <1>11, <1>0
  <2> QED  BY <2>1, <2>2, <2>3 DEF OrderOf
<1> HIDE DEF p
<1> QED  BY <1>8, <1>9, <1>10, <1>11 DEF Places

\* Positions of a list come in the order of the list.
LEMMA ThoseOfAList ==
  ASSUME NEW S, NEW q \in Seq(S), NEW I \in SUBSET (DOMAIN q)
  PROVE  /\ Those(q, I) \in Seq(S)
         /\ Range(Those(q, I)) = {q[i] : i \in I}
         /\ IsInjective(q) => IsInjective(Those(q, I))
<1> DEFINE ahead == [i \in I |-> {j \in I : j < i}]
           n == Cardinality(I)
<1>1. I \in SUBSET Nat /\ IsFiniteSet(I) /\ n \in Nat
  <2>1. I \in SUBSET (1..Len(q)) /\ Len(q) \in Nat
    OBVIOUS
  <2>2. IsFiniteSet(1..Len(q))
    BY <2>1, FS_Interval
  <2> QED  BY <2>1, <2>2, FS_Subset, FS_CardinalityType
<1>2. OrderOf(I, ahead)
  BY <1>1 DEF OrderOf
<1>3. PICK p : Places(p, q, I, ahead)
  <2> HIDE DEF ahead
  <2> QED  BY <1>1, <1>2, ArrangedInOrder
<1>4. Those(q, I) = [k \in 1..n |-> q[p[k]]]
  BY <1>3 DEF Those, Places
<1>5. /\ p \in [1..n -> I]
      /\ \A i \in I : \E k \in 1..n : p[k] = i
      /\ \A k, l \in 1..n : k < l => p[k] # p[l]
  BY <1>3 DEF Places
<1> HIDE DEF ahead, n
<1>6. \A k \in 1..n : p[k] \in I /\ q[p[k]] \in S
  BY <1>5
<1>7. Those(q, I) \in Seq(S)
  BY <1>1, <1>4, <1>6
<1>8. Range(Those(q, I)) = {q[i] : i \in I}
  BY <1>5, <1>4, <1>6 DEF Range
<1>9. ASSUME IsInjective(q)  PROVE IsInjective(Those(q, I))
  <2> SUFFICES ASSUME NEW k \in 1..n, NEW l \in 1..n, q[p[k]] = q[p[l]]  PROVE k = l
    BY <1>4 DEF IsInjective
  <2>1. p[k] = p[l]
    BY <1>6, <1>9 DEF IsInjective
  <2> QED  BY <1>1, <1>5, <2>1
<1> QED  BY <1>7, <1>8, <1>9

\* A name of a list has a first mention.
LEMMA FirstMention ==
  ASSUME NEW q \in Seq(Names), NEW i \in DOMAIN q
  PROVE  \E m \in DOMAIN q : q[m] = q[i] /\ \A j \in 1..(m - 1) : q[j] # q[m]
<1> DEFINE T == {j \in DOMAIN q : q[j] = q[i]}
<1>1. T \in SUBSET Nat /\ T # {} /\ DOMAIN q = 1..Len(q) /\ Len(q) \in Nat
  OBVIOUS
<1>2. PICK m \in T : \A j \in T : m <= j
  <2> HIDE DEF T
  <2> QED  BY <1>1, LeastNumber
<1>3. ASSUME NEW j \in 1..(m - 1)  PROVE q[j] # q[m]
  <2>1. j \in DOMAIN q /\ ~(m <= j)
    BY <1>1
  <2> QED  BY <1>2, <2>1
<1> QED  BY <1>2, <1>3

\* Evidence is kept one kind after the other, the strongest first.
Sorted(q) == \A k, l \in DOMAIN q : k < l => Rank[q[k]] >= Rank[q[l]]

\* ByKind keeps every name of a list, once.
LEMMA ByKindOfAList ==
  ASSUME NEW q \in Seq(Names)
  PROVE  /\ ByKind(q) \in NameOrders
         /\ Range(ByKind(q)) = Range(q)
         /\ Sorted(ByKind(q))
<1> DEFINE I == {i \in DOMAIN q : \A j \in 1..(i - 1) : q[j] # q[i]}
           ahead == [i \in I |-> {j \in I : \/ Rank[q[j]] > Rank[q[i]]
                                           \/ (Rank[q[j]] = Rank[q[i]] /\ j < i)}]
           n == Cardinality(I)
<1>1. I \in SUBSET Nat /\ IsFiniteSet(I) /\ n \in Nat
  <2>1. I \in SUBSET (1..Len(q)) /\ Len(q) \in Nat
    OBVIOUS
  <2>2. IsFiniteSet(1..Len(q))
    BY <2>1, FS_Interval
  <2>3. IsFiniteSet(I)
    <3> HIDE DEF I
    <3> QED  BY <2>1, <2>2, FS_Subset
  <2> QED  BY <2>1, <2>3, FS_CardinalityType
<1>2. \A i \in I : i \in DOMAIN q /\ q[i] \in Names /\ Rank[q[i]] \in Nat
  BY IdentityConstants
<1>3. OrderOf(I, ahead)
  <2> HIDE DEF I
  <2>1. \A i, j \in I : j \in ahead[i] <=> \/ Rank[q[j]] > Rank[q[i]]
                                         \/ (Rank[q[j]] = Rank[q[i]] /\ j < i)
    OBVIOUS
  <2>2. ahead \in [I -> SUBSET I]
    OBVIOUS
  <2> HIDE DEF ahead
  <2>3. \A i \in I : i \in Int /\ Rank[q[i]] \in Int
    BY <1>1, <1>2
  <2>4. \A i \in I : i \notin ahead[i]
    BY <2>1, <2>3
  <2>5. \A i, j \in I : i # j => i \in ahead[j] \/ j \in ahead[i]
    BY <2>1, <2>3
  <2>6. ASSUME NEW i \in I, NEW j \in I, i \in ahead[j], NEW k \in ahead[i]
        PROVE  k \in ahead[j]
    <3>1. k \in I
      BY <2>2
    <3> QED  BY <2>1, <2>3, <2>6, <3>1
  <2> QED  BY <2>2, <2>4, <2>5, <2>6 DEF OrderOf
<1>4. PICK p : Places(p, q, I, ahead)
  <2> HIDE DEF ahead, I
  <2> QED  BY <1>1, <1>3, ArrangedInOrder
<1>5. ByKind(q) = [k \in 1..n |-> q[p[k]]]
  BY <1>4 DEF ByKind, Places
<1>6. /\ p \in [1..n -> I]
      /\ \A i \in I : \E k \in 1..n : p[k] = i
      /\ \A k, l \in 1..n : k < l => p[k] \in ahead[p[l]] /\ p[k] # p[l]
  BY <1>4 DEF Places
<1>7. \A i, j \in I : q[i] = q[j] => i = j
  OBVIOUS
<1>8. \A i \in DOMAIN q : \E m \in I : q[m] = q[i]
  BY FirstMention
<1>9. \A i, j \in I : i \in ahead[j] => Rank[q[i]] >= Rank[q[j]]
  BY <1>2
<1> HIDE DEF ahead, n, I
<1>10. ByKind(q) \in Seq(Names)
  BY <1>1, <1>2, <1>5, <1>6
<1>11. IsInjective(ByKind(q))
  <2> SUFFICES ASSUME NEW k \in 1..n, NEW l \in 1..n, q[p[k]] = q[p[l]]  PROVE k = l
    BY <1>5 DEF IsInjective
  <2>1. p[k] = p[l]
    BY <1>7, <1>6
  <2> QED  BY <1>1, <1>6, <2>1
<1>12. Range(ByKind(q)) = Range(q)
  <2>1. \A k \in 1..n : q[p[k]] \in Range(q)
    BY <1>2, <1>6 DEF Range
  <2>2. \A i \in DOMAIN q : \E k \in 1..n : q[p[k]] = q[i]
    BY <1>6, <1>8
  <2> QED  BY <1>5, <2>1, <2>2 DEF Range
<1>13. Sorted(ByKind(q))
  BY <1>6, <1>5, <1>9 DEF Sorted
<1> QED  BY <1>10, <1>11, <1>12, <1>13 DEF NameOrders, Orders

(***************************************************************************)
(* Names added one after the other.                                        *)
(***************************************************************************)
\* f is what the first k additions make of an entry.
AddsUpTo(f, k, e, names) ==
  f = [i \in 0..k |-> IF i = 0 THEN e ELSE SignalAdded(f[i - 1], names[i])]

\* The recursion of Additions has a value, and unfolds step by step.
LEMMA AdditionsUnfold ==
  ASSUME NEW e, NEW names \in Seq(Names)
  PROVE  /\ Additions(e, names)[0] = e
         /\ \A i \in 1..Len(names) :
              Additions(e, names)[i] = SignalAdded(Additions(e, names)[i - 1], names[i])
<1> DEFINE n == Len(names)
           T == {k \in 0..n : ~ \E f : AddsUpTo(f, k, e, names)}
<1>0. n \in Nat
  OBVIOUS
<1>1. T = {}
  <2> SUFFICES ASSUME T # {}  PROVE FALSE
    OBVIOUS
  <2>1. PICK k \in T : \A j \in T : k <= j
    <3>1. T \in SUBSET Nat
      BY <1>0
    <3> HIDE DEF T
    <3> QED  BY <3>1, LeastNumber
  <2>2. k # 0
    <3> DEFINE f == [i \in 0..0 |-> e]
    <3>1. AddsUpTo(f, 0, e, names)
      BY DEF AddsUpTo
    <3> QED  BY <3>1
  <2>3. k - 1 \in 0..n /\ k - 1 \notin T /\ k \in 1..n
    BY <1>0, <2>1, <2>2
  <2>4. PICK g : AddsUpTo(g, k - 1, e, names)
    BY <2>3
  <2> DEFINE f == [i \in 0..k |-> IF i = k THEN SignalAdded(g[k - 1], names[k]) ELSE g[i]]
  <2>5. g = [i \in 0..(k - 1) |-> IF i = 0 THEN e ELSE SignalAdded(g[i - 1], names[i])]
    BY <2>4 DEF AddsUpTo
  <2>6. ASSUME NEW i \in 0..k
        PROVE  f[i] = IF i = 0 THEN e ELSE SignalAdded(f[i - 1], names[i])
    <3>1. CASE i = k
      <4>1. f[i - 1] = g[k - 1] /\ i # 0
        BY <3>1, <2>3, <1>0
      <4> QED  BY <3>1, <4>1
    <3>2. CASE i # k /\ i # 0
      <4>1. i \in 0..(k - 1) /\ i - 1 \in 0..k /\ i - 1 # k
        BY <3>2, <2>3, <1>0
      <4>2. f[i] = g[i] /\ f[i - 1] = g[i - 1]
        BY <3>2, <4>1
      <4>3. g[i] = SignalAdded(g[i - 1], names[i])
        BY <2>5, <3>2, <4>1
      <4> QED  BY <3>2, <4>2, <4>3
    <3>3. CASE i = 0
      <4>1. f[0] = g[0] /\ 0 \in 0..(k - 1)
        BY <2>3, <1>0
      <4> QED  BY <2>5, <3>3, <4>1
    <3> QED  BY <3>1, <3>2, <3>3
  <2>7. AddsUpTo(f, k, e, names)
    <3>1. f = [i \in 0..k |-> f[i]]
      OBVIOUS
    <3> HIDE DEF f
    <3> QED  BY <2>6, <3>1 DEF AddsUpTo
  <2> HIDE DEF f
  <2> QED  BY <2>1, <2>7
<1>2. \E f : AddsUpTo(f, n, e, names)
  BY <1>0, <1>1
<1>3. Additions(e, names) = CHOOSE f : AddsUpTo(f, n, e, names)
  BY DEF Additions, AddsUpTo
<1>4. AddsUpTo(Additions(e, names), n, e, names)
  BY <1>2, <1>3
<1>5. Additions(e, names) =
        [i \in 0..n |-> IF i = 0 THEN e ELSE SignalAdded(Additions(e, names)[i - 1], names[i])]
  BY <1>4 DEF AddsUpTo
<1>6. 0 \in 0..n /\ \A i \in 1..n : i \in 0..n /\ i # 0
  BY <1>0
<1> HIDE DEF n
<1> QED  BY <1>5, <1>6 DEF n

(***************************************************************************)
(* The evidence of one device.                                             *)
(***************************************************************************)
\* A list contains what is in its range.
LEMMA ContainsIsRange ==
  ASSUME NEW S, NEW q \in Seq(S), NEW x
  PROVE  Contains(q, x) <=> x \in Range(q)
BY DEF Contains, Range

\* Two lists put together hold what either holds.
LEMMA RangeOfConcatenation ==
  ASSUME NEW p \in Seq(Names), NEW q \in Seq(Names)
  PROVE  p \o q \in Seq(Names) /\ Range(p \o q) = Range(p) \union Range(q)
<1>1. p \o q \in Seq(Names) /\ Len(p \o q) = Len(p) + Len(q) /\ Len(p) \in Nat /\ Len(q) \in Nat
  OBVIOUS
<1>2. \A i \in 1..Len(p) : (p \o q)[i] = p[i] /\ i \in 1..Len(p \o q)
  BY <1>1
<1>3. \A i \in 1..Len(q) : (p \o q)[Len(p) + i] = q[i] /\ Len(p) + i \in 1..Len(p \o q)
  BY <1>1
<1>4. \A i \in 1..Len(p \o q) :
        \/ i \in 1..Len(p) /\ (p \o q)[i] = p[i]
        \/ i - Len(p) \in 1..Len(q) /\ (p \o q)[i] = q[i - Len(p)]
  BY <1>1
<1>5. DOMAIN p = 1..Len(p) /\ DOMAIN q = 1..Len(q) /\ DOMAIN (p \o q) = 1..Len(p \o q)
  BY <1>1
<1>6. Range(p \o q) \subseteq Range(p) \union Range(q)
  BY <1>4, <1>5 DEF Range
<1>7. Range(p) \subseteq Range(p \o q)
  BY <1>2, <1>5 DEF Range
<1>8. Range(q) \subseteq Range(p \o q)
  BY <1>3, <1>5 DEF Range
<1> QED  BY <1>1, <1>6, <1>7, <1>8

\* Recording a batch loses no evidence and invents none.
LEMMA RecordedKeeps ==
  ASSUME NEW q \in NameOrders, Sorted(q), NEW batch \in Seq(Names)
  PROVE  /\ Recorded(q, batch) \in NameOrders
         /\ Sorted(Recorded(q, batch))
         /\ Range(Recorded(q, batch)) = Range(q) \union Range(batch)
<1>1. q \in Seq(Names)
  BY DEF NameOrders, Orders
<1>2. CASE batch = <<>>
  <2>1. Recorded(q, batch) = q
    BY <1>2 DEF Recorded
  <2>2. Range(batch) = {}
    BY <1>2 DEF Range
  <2> QED  BY <2>1, <2>2
<1>3. CASE batch # <<>>
  <2>1. Recorded(q, batch) = ByKind(batch \o q)
    BY <1>3 DEF Recorded
  <2>2. batch \o q \in Seq(Names) /\ Range(batch \o q) = Range(batch) \union Range(q)
    BY <1>1, RangeOfConcatenation
  <2> QED  BY <2>1, <2>2, ByKindOfAList
<1> QED  BY <1>2, <1>3

\* What resolve returns outranks all the evidence.
LEMMA HeadIsStrongest ==
  ASSUME NEW q \in NameOrders, Sorted(q)
  PROVE  /\ \A n \in Range(q) : /\ n \in Names
                               /\ Resolve(q) \in Range(q)
                               /\ RankOf(Resolve(q)) >= RankOf(n)
         /\ Range(q) = {} => Resolve(q) = None
<1>1. q \in Seq(Names) /\ DOMAIN q = 1..Len(q) /\ Len(q) \in Nat
  BY DEF NameOrders, Orders
<1>2. \A n \in Names : RankOf(n) = Rank[n] /\ Rank[n] \in Nat \ {0}
  BY IdentityConstants DEF RankOf
<1>3. ASSUME NEW i \in DOMAIN q
      PROVE  /\ q[i] \in Names
             /\ Resolve(q) \in Range(q)
             /\ RankOf(Resolve(q)) >= RankOf(q[i])
  <2>1. 1 \in DOMAIN q /\ q # <<>>
    BY <1>1
  <2>2. Resolve(q) = q[1] /\ q[1] \in Names /\ q[i] \in Names
    BY <1>1, <2>1 DEF Resolve
  <2>3. Rank[q[1]] >= Rank[q[i]]
    <3>1. CASE i = 1
      BY <2>2, <1>2, <3>1
    <3>2. CASE i # 1
      BY <1>1, <2>1, <3>2 DEF Sorted
    <3> QED  BY <3>1, <3>2
  <2> QED  BY <1>2, <2>1, <2>2, <2>3 DEF Range
<1>4. ASSUME Range(q) = {}  PROVE Resolve(q) = None
  <2>1. q = <<>>
    <3> SUFFICES ASSUME q # <<>>  PROVE FALSE
      OBVIOUS
    <3>1. 1 \in DOMAIN q
      BY <1>1
    <3> QED  BY <1>4, <3>1 DEF Range
  <2> QED  BY <2>1 DEF Resolve
<1> QED  BY <1>3, <1>4 DEF Range

\* Rearranging the evidence does not change the rank it resolves to.
LEMMA SameEvidenceSameRank ==
  ASSUME NEW p \in NameOrders, Sorted(p), NEW q \in NameOrders, Sorted(q),
         Range(p) \subseteq Range(q)
  PROVE  /\ RankOf(Resolve(p)) <= RankOf(Resolve(q))
         /\ Range(p) = Range(q) => RankOf(Resolve(p)) = RankOf(Resolve(q))
<1>1. RankOf(None) = 0 /\ \A n \in Names : RankOf(n) \in Nat \ {0}
  BY IdentityConstants DEF RankOf
<1>2. /\ Resolve(p) = None \/ Resolve(p) \in Range(p)
      /\ Resolve(q) = None \/ Resolve(q) \in Range(q)
  BY HeadIsStrongest
<1>3. /\ Resolve(p) # None => RankOf(Resolve(p)) <= RankOf(Resolve(q))
      /\ Range(p) = Range(q) /\ Resolve(q) # None => RankOf(Resolve(q)) <= RankOf(Resolve(p))
  BY <1>2, HeadIsStrongest
<1>4. RankOf(Resolve(p)) \in Nat /\ RankOf(Resolve(q)) \in Nat
  BY <1>1, <1>2, HeadIsStrongest
<1> QED  BY <1>1, <1>3, <1>4

(***************************************************************************)
(* One entry, and what may become of it.                                   *)
(***************************************************************************)
\* What is always true of an entry.
EntryInv(e) ==
  /\ e \in Entries
  /\ Sorted(e.signals)
  /\ RankOf(e.identity) = RankOf(Resolve(e.signals))
  /\ e.identity # None => e.identity \in Range(e.signals)
  /\ e.pending # None =>
       /\ e.pending.name # e.identity
       /\ e.pending.name \in Range(e.signals)
       /\ RankOf(e.pending.name) = RankOf(e.identity)

\* A rival has not waited longer than the shown name has gone without winning.
Outwaited(e, w) == e.pending # None => e.pending.age <= w

\* The shown name keeps its rank and gives way to an equal only when it has gone
\* without winning for the settle window: w before, w2 after.
Lasts(e, w, e2, w2) ==
  /\ RankOf(e2.identity) >= RankOf(e.identity)
  /\ e2.identity # e.identity /\ RankOf(e2.identity) = RankOf(e.identity) => Settled(w)
  /\ Outwaited(e2, w2)

\* Where a rescoring may start: the shown name is in the evidence.
Judgeable(e) ==
  /\ e \in Entries
  /\ Sorted(e.signals)
  /\ e.identity # None => e.identity \in Range(e.signals)

\* Only the bare MAC has rank 0.
LEMMA RankTypes ==
  /\ RankOf(None) = 0
  /\ \A n \in Names : n # None /\ RankOf(n) \in Nat \ {0}
BY IdentityConstants DEF RankOf

\* A rescoring shows a name of the highest rank the evidence has.
LEMMA RescoredIsSound ==
  ASSUME NEW e, Judgeable(e)
  PROVE  /\ EntryInv(Rescored(e))
         /\ Rescored(e).signals = e.signals
         /\ Rescored(e).ip = e.ip
<1> DEFINE candidate == Resolve(e.signals)
           age == IF e.pending # None /\ e.pending.name = candidate THEN e.pending.age ELSE 0
           Adopted == [e EXCEPT !.identity = candidate, !.pending = None]
           Dropped == [e EXCEPT !.pending = None]
           Waiting == [e EXCEPT !.pending = [name |-> candidate, age |-> age]]
<1>1. /\ e.signals \in NameOrders /\ Sorted(e.signals)
      /\ e.identity \in Names \union {None}
      /\ e = [signals |-> e.signals, identity |-> e.identity, pending |-> e.pending, ip |-> e.ip]
      /\ e.pending # None => e.pending.age \in 0..SettleWindow
  BY DEF Judgeable, Entries
<1>2. /\ candidate = None \/ (candidate \in Range(e.signals) /\ candidate \in Names)
      /\ \A n \in Range(e.signals) : RankOf(candidate) >= RankOf(n)
  BY <1>1, HeadIsStrongest
<1>3. /\ RankOf(candidate) \in Nat /\ RankOf(e.identity) \in Nat
      /\ RankOf(candidate) >= RankOf(e.identity)
  BY <1>1, <1>2, RankTypes DEF Judgeable
<1>4. age \in 0..SettleWindow
  BY <1>1, IdentityConstants
<1> HIDE DEF candidate, age
<1>5. EntryInv(Adopted) /\ Adopted.signals = e.signals /\ Adopted.ip = e.ip
  <2>1. Adopted \in Entries
    BY <1>1, <1>2 DEF Judgeable, Entries
  <2> QED  BY <1>1, <1>2, <2>1 DEF EntryInv, candidate
<1>6. CASE RankOf(candidate) > RankOf(e.identity)
  <2>1. Rescored(e) = Adopted
    <3>1. candidate # e.identity /\ ~(RankOf(candidate) < RankOf(e.identity))
      BY <1>3, <1>6
    <3> QED  BY <1>6, <3>1 DEF Rescored, candidate
  <2> QED  BY <1>5, <2>1
<1>7. CASE ~(RankOf(candidate) > RankOf(e.identity)) /\ candidate = e.identity
  <2>1. Rescored(e) = Dropped
    BY <1>7 DEF Rescored, candidate
  <2>2. Dropped \in Entries
    BY <1>1 DEF Judgeable, Entries
  <2>3. /\ Dropped.signals = e.signals /\ Dropped.ip = e.ip
        /\ Dropped.identity = e.identity /\ Dropped.pending = None
    BY <1>1
  <2> HIDE DEF Dropped
  <2> QED  BY <1>1, <1>7, <2>1, <2>2, <2>3 DEF EntryInv, Judgeable, candidate
<1>8. CASE RankOf(candidate) = RankOf(e.identity) /\ candidate # e.identity
  <2>1. Rescored(e) = IF Settled(age) THEN Adopted ELSE Waiting
    <3>1. ~(RankOf(candidate) > RankOf(e.identity)) /\ ~(RankOf(candidate) < RankOf(e.identity))
      BY <1>3, <1>8
    <3> QED  BY <1>8, <3>1 DEF Rescored, candidate, age
  <2>2. candidate \in Range(e.signals) /\ candidate \in Names
    BY <1>1, <1>2, <1>8, RankTypes
  <2>3. Waiting \in Entries
    BY <1>1, <1>4, <2>2 DEF Judgeable, Entries
  <2>4. /\ Waiting.signals = e.signals /\ Waiting.ip = e.ip /\ Waiting.identity = e.identity
        /\ Waiting.pending.name = candidate
    BY <1>1
  <2> HIDE DEF Waiting
  <2>5. EntryInv(Waiting)
    BY <1>1, <1>8, <2>2, <2>3, <2>4 DEF EntryInv, Judgeable, candidate
  <2> QED  BY <1>5, <2>1, <2>4, <2>5
<1> QED  BY <1>3, <1>6, <1>7, <1>8

\* Rivals wait: a rescoring replaces a name by one of its rank only when the
\* rival has waited, and leaves no rival when the shown name wins.
LEMMA RescoredLasts ==
  ASSUME NEW e, Judgeable(e), NEW w \in 0..SettleWindow, Outwaited(e, w),
         NEW w2 \in {0, w}, w2 = 0 <=> Winning(Rescored(e)) \/ w = 0
  PROVE  Lasts(e, w, Rescored(e), w2)
<1> DEFINE candidate == Resolve(e.signals)
           age == IF e.pending # None /\ e.pending.name = candidate THEN e.pending.age ELSE 0
           Adopted == [e EXCEPT !.identity = candidate, !.pending = None]
           Dropped == [e EXCEPT !.pending = None]
           Waiting == [e EXCEPT !.pending = [name |-> candidate, age |-> age]]
<1>1. /\ e.signals \in NameOrders /\ Sorted(e.signals)
      /\ e.identity \in Names \union {None}
      /\ e = [signals |-> e.signals, identity |-> e.identity, pending |-> e.pending, ip |-> e.ip]
      /\ e.pending # None => e.pending.age \in 0..SettleWindow
  BY DEF Judgeable, Entries
<1>2. /\ candidate = None \/ (candidate \in Range(e.signals) /\ candidate \in Names)
      /\ \A n \in Range(e.signals) : RankOf(candidate) >= RankOf(n)
  BY <1>1, HeadIsStrongest
<1>3. /\ RankOf(candidate) \in Nat /\ RankOf(e.identity) \in Nat
      /\ RankOf(candidate) >= RankOf(e.identity)
  BY <1>1, <1>2, RankTypes DEF Judgeable
<1>4. age \in 0..w
  BY <1>1, IdentityConstants DEF Outwaited
<1> HIDE DEF candidate, age
<1>5. Adopted.identity = candidate /\ Adopted.pending = None
  BY <1>1
<1>6. CASE RankOf(candidate) > RankOf(e.identity)
  <2>1. Rescored(e) = Adopted
    <3>1. candidate # e.identity /\ ~(RankOf(candidate) < RankOf(e.identity))
      BY <1>3, <1>6
    <3> QED  BY <1>6, <3>1 DEF Rescored, candidate
  <2> QED  BY <1>3, <1>5, <1>6, <2>1 DEF Lasts, Outwaited
<1>7. CASE ~(RankOf(candidate) > RankOf(e.identity)) /\ candidate = e.identity
  <2>1. Rescored(e) = Dropped
    BY <1>7 DEF Rescored, candidate
  <2>2. Dropped.identity = e.identity /\ Dropped.pending = None
    BY <1>1
  <2> HIDE DEF Dropped
  <2> QED  BY <1>3, <2>1, <2>2 DEF Lasts, Outwaited
<1>8. CASE RankOf(candidate) = RankOf(e.identity) /\ candidate # e.identity
  <2>1. Rescored(e) = IF Settled(age) THEN Adopted ELSE Waiting
    <3>1. ~(RankOf(candidate) > RankOf(e.identity)) /\ ~(RankOf(candidate) < RankOf(e.identity))
      BY <1>3, <1>8
    <3> QED  BY <1>8, <3>1 DEF Rescored, candidate, age
  <2>2. CASE Settled(age)
    <3>1. Settled(w)
      BY <1>4, <2>2, IdentityConstants DEF Settled
    <3> QED  BY <1>3, <1>5, <2>1, <2>2, <3>1 DEF Lasts, Outwaited
  <2>3. CASE ~Settled(age)
    <3>1. /\ Waiting.identity = e.identity /\ Waiting.signals = e.signals
          /\ Waiting.pending.age = age
      BY <1>1
    <3>2. ~Winning(Waiting)
      BY <1>8, <3>1 DEF Winning, candidate
    <3> HIDE DEF Waiting
    <3>3. w2 = w
      BY <2>1, <2>3, <3>2
    <3> QED  BY <1>3, <1>4, <2>1, <2>3, <3>1, <3>3 DEF Lasts, Outwaited
  <2> QED  BY <2>2, <2>3
<1> QED  BY <1>3, <1>6, <1>7, <1>8

\* An entry with more evidence, not judged again yet, may be judged.
LEMMA NotedIsJudgeable ==
  ASSUME NEW e, EntryInv(e), NEW batch \in Seq(Names)
  PROVE  LET noted == [e EXCEPT !.signals = Recorded(e.signals, batch)]
         IN  /\ Judgeable(noted)
             /\ Range(noted.signals) = Range(e.signals) \union Range(batch)
             /\ noted.signals = Recorded(e.signals, batch)
             /\ noted.ip = e.ip /\ noted.identity = e.identity /\ noted.pending = e.pending
<1> DEFINE noted == [e EXCEPT !.signals = Recorded(e.signals, batch)]
<1>1. /\ e.signals \in NameOrders /\ Sorted(e.signals)
      /\ e = [signals |-> e.signals, identity |-> e.identity, pending |-> e.pending, ip |-> e.ip]
  BY DEF EntryInv, Entries
<1>2. /\ Recorded(e.signals, batch) \in NameOrders
      /\ Sorted(Recorded(e.signals, batch))
      /\ Range(Recorded(e.signals, batch)) = Range(e.signals) \union Range(batch)
  BY <1>1, RecordedKeeps
<1>3. /\ noted.signals = Recorded(e.signals, batch)
      /\ noted.ip = e.ip /\ noted.identity = e.identity /\ noted.pending = e.pending
  BY <1>1
<1>4. noted \in Entries
  BY <1>2 DEF EntryInv, Entries
<1> HIDE DEF noted
<1>5. Judgeable(noted)
  BY <1>2, <1>3, <1>4 DEF Judgeable, EntryInv
<1> QED  BY <1>2, <1>3, <1>5 DEF noted

\* add_signal keeps an entry sound, judged or not.
LEMMA SignalAddedIsSound ==
  ASSUME NEW e, EntryInv(e), NEW n \in Names
  PROVE  /\ EntryInv(SignalAdded(e, n))
         /\ Range(SignalAdded(e, n).signals) = Range(e.signals) \union {n}
         /\ SignalAdded(e, n).ip = e.ip
<1> DEFINE noted == [e EXCEPT !.signals = Recorded(e.signals, <<n>>)]
<1>1. <<n>> \in Seq(Names) /\ Range(<<n>>) = {n}
  BY DEF Range
<1>2. /\ Judgeable(noted)
      /\ Range(noted.signals) = Range(e.signals) \union {n}
      /\ noted.ip = e.ip /\ noted.identity = e.identity /\ noted.pending = e.pending
  <2>1. /\ Judgeable(noted)
        /\ Range(noted.signals) = Range(e.signals) \union Range(<<n>>)
        /\ noted.ip = e.ip /\ noted.identity = e.identity /\ noted.pending = e.pending
    BY <1>1, NotedIsJudgeable
  <2> HIDE DEF noted
  <2> QED  BY <1>1, <2>1
<1>3. SignalAdded(e, n) = IF Contains(e.signals, n) THEN noted ELSE Rescored(noted)
  BY DEF SignalAdded
<1>4. Contains(e.signals, n) <=> n \in Range(e.signals)
  <2>1. e.signals \in Seq(Names)
    BY DEF EntryInv, Entries, NameOrders, Orders
  <2> QED  BY <2>1, ContainsIsRange
<1> HIDE DEF noted
<1>5. CASE ~Contains(e.signals, n)
  BY <1>2, <1>3, <1>5, RescoredIsSound
<1>6. CASE Contains(e.signals, n)
  <2>1. Range(noted.signals) = Range(e.signals)
    BY <1>2, <1>4, <1>6
  <2>2. RankOf(Resolve(noted.signals)) = RankOf(Resolve(e.signals))
    BY <1>2, <2>1, SameEvidenceSameRank DEF Judgeable, EntryInv, Entries
  <2>3. EntryInv(noted)
    BY <1>2, <2>1, <2>2 DEF Judgeable, EntryInv
  <2> QED  BY <1>2, <1>3, <1>6, <2>3
<1> QED  BY <1>5, <1>6

\* add_signal lets the shown name last, as a rescoring does.
LEMMA SignalAddedLasts ==
  ASSUME NEW e, EntryInv(e), NEW n \in Names,
         NEW w \in 0..SettleWindow, Outwaited(e, w),
         NEW w2 \in {0, w},
         w2 = 0 <=> (~Contains(e.signals, n) /\ Winning(SignalAdded(e, n))) \/ w = 0
  PROVE  Lasts(e, w, SignalAdded(e, n), w2)
<1> DEFINE noted == [e EXCEPT !.signals = Recorded(e.signals, <<n>>)]
<1>1. <<n>> \in Seq(Names) /\ Range(<<n>>) = {n}
  BY DEF Range
<1>2. /\ Judgeable(noted)
      /\ noted.identity = e.identity /\ noted.pending = e.pending
  BY <1>1, NotedIsJudgeable
<1>3. SignalAdded(e, n) = IF Contains(e.signals, n) THEN noted ELSE Rescored(noted)
  BY DEF SignalAdded
<1>4. RankOf(e.identity) \in Nat
  BY RankTypes DEF EntryInv, Entries
<1> HIDE DEF noted
<1>5. CASE ~Contains(e.signals, n)
  <2>1. Outwaited(noted, w)
    BY <1>2 DEF Outwaited
  <2>2. Lasts(noted, w, Rescored(noted), w2)
    BY <1>2, <1>3, <1>5, <2>1, RescoredLasts
  <2> QED  BY <1>2, <1>3, <1>5, <2>2 DEF Lasts
<1>6. CASE Contains(e.signals, n)
  <2>1. w2 = w
    BY <1>6
  <2> QED  BY <1>2, <1>3, <1>4, <1>6, <2>1 DEF Lasts, Outwaited
<1> QED  BY <1>5, <1>6

\* Two steps that each let a name last, with at most one win in between.
LEMMA LastsTwice ==
  ASSUME NEW e, NEW e1, NEW e2, EntryInv(e), EntryInv(e1), EntryInv(e2),
         NEW w \in 0..SettleWindow, NEW w1 \in {0, w}, NEW w2,
         Lasts(e, w, e1, w1), Lasts(e1, w1, e2, w2)
  PROVE  Lasts(e, w, e2, w2)
<1>1. RankOf(e.identity) \in Nat /\ RankOf(e1.identity) \in Nat /\ RankOf(e2.identity) \in Nat
  BY RankTypes DEF EntryInv, Entries
<1>2. RankOf(e2.identity) >= RankOf(e.identity)
  BY <1>1 DEF Lasts
<1>3. ASSUME e2.identity # e.identity, RankOf(e2.identity) = RankOf(e.identity)
      PROVE  Settled(w)
  <2>1. RankOf(e1.identity) = RankOf(e.identity) /\ RankOf(e2.identity) = RankOf(e1.identity)
    BY <1>1, <1>3 DEF Lasts
  <2>2. CASE e1.identity # e.identity
    BY <2>1, <2>2 DEF Lasts
  <2>3. CASE e1.identity = e.identity
    <3>1. Settled(w1)
      BY <1>3, <2>1, <2>3 DEF Lasts
    <3> QED  BY <3>1, IdentityConstants DEF Settled
  <2> QED  BY <2>2, <2>3
<1> QED  BY <1>2, <1>3 DEF Lasts

\* What a run of additions leaves: the sum of its steps.
LEMMA SignalsAddedAreSound ==
  ASSUME NEW e, EntryInv(e), NEW names \in Seq(Names),
         NEW w \in 0..SettleWindow, Outwaited(e, w),
         NEW w2, w2 = IF Wins(e, names) THEN 0 ELSE w
  PROVE  /\ EntryInv(SignalsAdded(e, names))
         /\ SignalsAdded(e, names).ip = e.ip
         /\ Range(SignalsAdded(e, names).signals) = Range(e.signals) \union Range(names)
         /\ Lasts(e, w, SignalsAdded(e, names), w2)
<1> DEFINE n == Len(names)
           after == Additions(e, names)
           Won(i) == \E j \in 1..i :
                       ~Contains(after[j - 1].signals, names[j]) /\ Winning(after[j])
           W(i) == IF Won(i) THEN 0 ELSE w
           Sum(i) == /\ EntryInv(after[i])
                     /\ after[i].ip = e.ip
                     /\ Range(after[i].signals) =
                          Range(e.signals) \union {names[j] : j \in 1..i}
                     /\ Lasts(e, w, after[i], W(i))
           T == {i \in 0..n : ~Sum(i)}
<1>1. n \in Nat /\ DOMAIN names = 1..n /\ \A i \in 1..n : names[i] \in Names
  OBVIOUS
<1>2. after[0] = e /\ \A i \in 1..n : after[i] = SignalAdded(after[i - 1], names[i])
  BY AdditionsUnfold
<1> HIDE DEF after
<1>3. Sum(0)
  <2>1. ~Won(0)
    OBVIOUS
  <2>2. RankOf(e.identity) \in Nat
    BY RankTypes DEF EntryInv, Entries
  <2>3. Lasts(e, w, e, w)
    BY <2>2 DEF Lasts
  <2> QED  BY <1>2, <2>1, <2>3
<1>4. ASSUME NEW i \in 1..n, Sum(i - 1)  PROVE Sum(i)
  <2> DEFINE e1 == after[i - 1]
             w1 == W(i - 1)
             w3 == W(i)
             m == names[i]
  <2>1. after[i] = SignalAdded(e1, m) /\ m \in Names /\ EntryInv(e1) /\ w1 \in {0, w}
    BY <1>1, <1>2, <1>4
  <2>2. Won(i) <=> Won(i - 1) \/ (~Contains(e1.signals, m) /\ Winning(after[i]))
    <3>1. \A j \in 1..i : j \in 1..(i - 1) \/ j = i
      BY <1>1
    <3>2. i \in 1..i /\ \A j \in 1..(i - 1) : j \in 1..i
      BY <1>1
    <3> QED  BY <3>1, <3>2
  <2> HIDE DEF Won
  <2>3. w3 \in {0, w1} /\ w1 \in 0..SettleWindow
    BY <2>2, IdentityConstants
  <2>4. w3 = 0 <=> (~Contains(e1.signals, m) /\ Winning(SignalAdded(e1, m))) \/ w1 = 0
    BY <2>1, <2>2
  <2>5. EntryInv(after[i]) /\ after[i].ip = e1.ip
        /\ Range(after[i].signals) = Range(e1.signals) \union {m}
    BY <2>1, SignalAddedIsSound
  <2>6. Lasts(e, w, e1, w1)
    BY <1>4
  <2> HIDE DEF e1, w1, w3, m
  <2>7. Lasts(e1, w1, after[i], w3)
    <3>1. Outwaited(e1, w1)
      BY <2>6 DEF Lasts
    <3> QED  BY <2>1, <2>3, <2>4, <3>1, SignalAddedLasts
  <2>8. Lasts(e, w, after[i], w3)
    BY <2>1, <2>5, <2>6, <2>7, LastsTwice
  <2>9. Range(after[i].signals) = Range(e.signals) \union {names[j] : j \in 1..i}
    <3>1. \A j \in 1..i : j \in 1..(i - 1) \/ j = i
      BY <1>1
    <3>2. i \in 1..i /\ \A j \in 1..(i - 1) : j \in 1..i
      BY <1>1
    <3>3. Range(e1.signals) = Range(e.signals) \union {names[j] : j \in 1..(i - 1)}
      BY <1>4 DEF e1
    <3> QED  BY <2>5, <3>1, <3>2, <3>3 DEF m
  <2> QED  BY <1>4, <2>5, <2>8, <2>9 DEF e1, w3
<1> HIDE DEF Sum
<1>5. T = {}
  <2> SUFFICES ASSUME T # {}  PROVE FALSE
    OBVIOUS
  <2>1. PICK k \in T : \A j \in T : k <= j
    <3>1. T \in SUBSET Nat
      BY <1>1
    <3> HIDE DEF T
    <3> QED  BY <3>1, LeastNumber
  <2>2. k # 0
    BY <1>3, <2>1
  <2>3. k \in 1..n /\ k - 1 \in 0..n /\ k - 1 \notin T
    BY <1>1, <2>1, <2>2
  <2> QED  BY <1>4, <2>1, <2>3
<1>6. Sum(n)
  BY <1>1, <1>5
<1>7. Wins(e, names) <=> Won(n)
  BY DEF Wins, after
<1>8. SignalsAdded(e, names) = after[n]
  BY DEF SignalsAdded, after
<1>9. {names[j] : j \in 1..n} = Range(names)
  BY <1>1 DEF Range
<1> HIDE DEF Won, n
<1> QED  BY <1>6, <1>7, <1>8, <1>9 DEF Sum

(***************************************************************************)
(* The invariant.                                                          *)
(***************************************************************************)
\* What memory and the database keep of each device, whatever the network does:
\* the entry is sound, its rival is younger than its last win, its evidence is
\* in the database, and its row will be there when the daemon restarts.
EvidenceInv ==
  /\ entry \in [Devices -> Entries \union {None}]
  /\ heard \in DeviceOrders
  /\ index \in [Addresses -> Devices \union {None}]
  /\ row \in [Devices -> Addresses \union {None}]
  /\ rowOrder \in DeviceOrders
  /\ stored \in [Devices -> [ids : NameOrders, loaded : NameOrders]]
  /\ won \in [Devices -> 0..SettleWindow]
  /\ \A d \in Devices :
       /\ Sorted(stored[d].loaded)
       /\ entry[d] # None =>
            /\ EntryInv(entry[d])
            /\ Outwaited(entry[d], won[d])
            /\ d \in Range(heard)
            /\ d \in Range(rowOrder)
            /\ Range(entry[d].signals) \subseteq Range(stored[d].loaded)

\* The network: no two machines have one address.
NetworkInv ==
  /\ uses \in [Devices -> Addresses \union {None}]
  /\ restarts \in 0..MaxRestarts
  /\ \A d, o \in Devices : uses[d] = uses[o] /\ uses[d] # None => d = o

\* As long as the index was built by listening, it knows where every machine
\* is, and every name is with its owner.
ListeningInv ==
  restarts = 0 =>
    /\ \A d \in Devices : uses[d] # None =>
         entry[d] # None /\ entry[d].ip = uses[d] /\ index[uses[d]] = d
    /\ \A d \in Devices : entry[d] # None =>
         \A n \in Range(entry[d].signals) : Owner[n] = d

IdentityInv == EvidenceInv /\ NetworkInv /\ ListeningInv

(***************************************************************************)
(* The database and the orders of sightings.                               *)
(***************************************************************************)
\* The rows a batch confirms join the stored evidence, which loses nothing.
LEMMA UpsertedKeeps ==
  ASSUME NEW s \in [ids : NameOrders, loaded : NameOrders], Sorted(s.loaded),
         NEW batch \in Seq(Names)
  PROVE  /\ Upserted(s, batch) \in [ids : NameOrders, loaded : NameOrders]
         /\ Sorted(Upserted(s, batch).loaded)
         /\ Range(Upserted(s, batch).loaded) = Range(s.loaded) \union Range(batch)
<1> DEFINE ids == ByKind(s.ids \o batch)
           I == {i \in DOMAIN ids : ids[i] \in Range(batch)}
           confirmed == Those(ids, I)
<1>1. s.ids \in Seq(Names) /\ s.ids \in NameOrders /\ s.loaded \in NameOrders
  BY DEF NameOrders, Orders
<1>2. ids \in NameOrders /\ Range(ids) = Range(s.ids) \union Range(batch)
  BY <1>1, RangeOfConcatenation, ByKindOfAList
<1> HIDE DEF ids
<1>3. confirmed \in Seq(Names) /\ Range(confirmed) = {ids[i] : i \in I}
  <2>1. ids \in Seq(Names) /\ I \in SUBSET (DOMAIN ids)
    BY <1>2 DEF NameOrders, Orders
  <2> HIDE DEF I
  <2> QED  BY <2>1, ThoseOfAList
<1>4. Range(confirmed) = Range(batch)
  <2>1. \A x \in Range(ids) : \E i \in DOMAIN ids : ids[i] = x
    BY DEF Range
  <2>2. \A x \in Range(batch) : \E i \in I : ids[i] = x
    BY <1>2, <2>1
  <2> QED  BY <1>3, <2>2
<1>5. CASE batch = <<>>
  <2>1. Upserted(s, batch) = s /\ Range(batch) = {}
    BY <1>5 DEF Upserted, Range
  <2> QED  BY <2>1
<1>6. CASE batch # <<>>
  <2>1. Upserted(s, batch) = [ids |-> ids, loaded |-> Recorded(s.loaded, confirmed)]
    BY <1>6 DEF Upserted, ids
  <2> HIDE DEF confirmed
  <2>2. /\ Recorded(s.loaded, confirmed) \in NameOrders
        /\ Sorted(Recorded(s.loaded, confirmed))
        /\ Range(Recorded(s.loaded, confirmed)) = Range(s.loaded) \union Range(batch)
    BY <1>1, <1>3, <1>4, RecordedKeeps
  <2> QED  BY <1>2, <2>1, <2>2
<1> QED  BY <1>5, <1>6

\* A device seen for the first time goes to the end of the order.
LEMMA AppendKeeps ==
  ASSUME NEW order \in DeviceOrders, NEW d \in Devices, d \notin Range(order)
  PROVE  /\ Append(order, d) \in DeviceOrders
         /\ Range(Append(order, d)) = Range(order) \union {d}
<1> DEFINE longer == Append(order, d)
           n == Len(order)
<1>1. order \in Seq(Devices) /\ IsInjective(order) /\ n \in Nat /\ DOMAIN order = 1..n
  BY DEF DeviceOrders, Orders
<1>2. /\ longer \in Seq(Devices) /\ DOMAIN longer = 1..(n + 1)
      /\ longer[n + 1] = d /\ \A i \in 1..n : longer[i] = order[i]
  BY <1>1
<1>3. \A i \in 1..(n + 1) : i \in 1..n \/ i = n + 1
  BY <1>1
<1>4. \A i \in 1..n : order[i] # d
  BY <1>1 DEF Range
<1>5. n + 1 \in 1..(n + 1) /\ \A i \in 1..n : i \in 1..(n + 1)
  BY <1>1
<1> HIDE DEF longer, n
<1>6. IsInjective(longer)
  BY <1>1, <1>2, <1>3, <1>4 DEF IsInjective
<1>7. Range(longer) = Range(order) \union {d}
  <2>1. Range(longer) \subseteq Range(order) \union {d}
    BY <1>1, <1>2, <1>3 DEF Range
  <2>2. Range(order) \union {d} \subseteq Range(longer)
    BY <1>1, <1>2, <1>5 DEF Range
  <2> QED  BY <2>1, <2>2
<1> QED  BY <1>2, <1>6, <1>7 DEF DeviceOrders, Orders, longer

\* A device seen again moves to the end of the order.
LEMMA LatestKeeps ==
  ASSUME NEW order \in DeviceOrders, NEW d \in Devices
  PROVE  /\ Latest(order, d) \in DeviceOrders
         /\ Range(Latest(order, d)) = Range(order) \union {d}
<1> DEFINE I == {i \in DOMAIN order : order[i] # d}
           others == Those(order, I)
<1>1. order \in Seq(Devices) /\ IsInjective(order) /\ I \in SUBSET (DOMAIN order)
  BY DEF DeviceOrders, Orders
<1>2. others \in Seq(Devices) /\ IsInjective(others) /\ Range(others) = {order[i] : i \in I}
  <2> HIDE DEF I
  <2> QED  BY <1>1, ThoseOfAList
<1>3. Range(others) = Range(order) \ {d}
  BY <1>2 DEF Range
<1>4. Latest(order, d) = Append(others, d)
  BY DEF Latest
<1> HIDE DEF others
<1>5. others \in DeviceOrders
  BY <1>2 DEF DeviceOrders, Orders
<1> QED  BY <1>3, <1>4, <1>5, AppendKeeps

(***************************************************************************)
(* A frame.                                                                *)
(***************************************************************************)
\* What a frame may claim.
ClaimSet == [name : Names, of : Addresses \union {None}]

\* The names the claims of a frame give to device x.
Given(x, d, a, claims) ==
  {claims[i].name : i \in {j \in DOMAIN claims : SubjectOf(claims[j], d, a, claims) = x}}

\* The evidence held about a device, known or not.
EvidenceOf(e) == IF e = None THEN {} ELSE Range(e.signals)

\* The entry of a device heard from address a with a batch of its own, before it
\* is judged.
HeardOf(e, a, batch) ==
  [(IF e = None THEN Discovered ELSE e) EXCEPT !.ip = a, !.signals = Recorded(@, batch)]

\* What is owed of an entry e2 that comes of hearing entry e from address a with
\* a batch of its own: w and w2 are the waits of its winner, before and after.
Heeded(e, w, a, batch, e2, w2) ==
  /\ EntryInv(e2)
  /\ e2.ip = a
  /\ Range(e2.signals) = EvidenceOf(e) \union Range(batch)
  /\ Outwaited(e2, w2)
  /\ e # None => Lasts(e, w, e2, w2)

\* What becomes of an entry that is judged with a batch of its own: a device
\* heard for the first time starts from nothing.
LEMMA HeardIsSound ==
  ASSUME NEW e, NEW w \in 0..SettleWindow, e # None => EntryInv(e) /\ Outwaited(e, w),
         NEW a \in Addresses, NEW batch \in Seq(Names), NEW w2,
         NEW e2,
         e2 = Rescored(HeardOf(e, a, batch)),
         w2 = IF Winning(e2) THEN 0 ELSE w
  PROVE  Heeded(e, w, a, batch, e2, w2)
<1> DEFINE before == IF e = None THEN Discovered ELSE e
           noted == [before EXCEPT !.ip = a, !.signals = Recorded(@, batch)]
<1>1. EntryInv(before) /\ Outwaited(before, w)
  <2>1. CASE e = None
    <3>1. <<>> \in NameOrders /\ Sorted(<<>>)
      BY DEF NameOrders, Orders, Sorted, IsInjective
    <3>2. Discovered \in Entries
      BY <3>1 DEF Discovered, Entries
    <3> QED  BY <2>1, <3>1, <3>2 DEF EntryInv, Outwaited, Discovered, Resolve
  <2> QED  BY <2>1
<1>2. Range(before.signals) = EvidenceOf(e)
  BY DEF Discovered, Range, EvidenceOf
<1> HIDE DEF before
<1>3. /\ before.signals \in NameOrders /\ Sorted(before.signals)
      /\ before = [signals |-> before.signals, identity |-> before.identity,
                    pending |-> before.pending, ip |-> before.ip]
  BY <1>1 DEF EntryInv, Entries
<1>4. /\ Recorded(before.signals, batch) \in NameOrders
      /\ Sorted(Recorded(before.signals, batch))
      /\ Range(Recorded(before.signals, batch)) = Range(before.signals) \union Range(batch)
  BY <1>3, RecordedKeeps
<1>5. /\ noted.signals = Recorded(before.signals, batch)
      /\ noted.ip = a /\ noted.identity = before.identity /\ noted.pending = before.pending
  BY <1>3
<1>6. noted \in Entries
  BY <1>1, <1>4 DEF EntryInv, Entries
<1>7. e2 = Rescored(noted)
  BY DEF before, HeardOf
<1> HIDE DEF noted
<1>8. Judgeable(noted) /\ Outwaited(noted, w)
  BY <1>1, <1>4, <1>5, <1>6 DEF Judgeable, EntryInv, Outwaited
<1>9. EntryInv(e2) /\ e2.signals = noted.signals /\ e2.ip = a
  BY <1>5, <1>7, <1>8, RescoredIsSound
<1>10. Lasts(noted, w, e2, w2)
  <2>1. w2 \in {0, w} /\ (w2 = 0 <=> Winning(e2) \/ w = 0)
    OBVIOUS
  <2> QED  BY <1>7, <1>8, <2>1, RescoredLasts
<1>11. e # None => Lasts(e, w, e2, w2)
  BY <1>5, <1>10 DEF Lasts, before
<1>12. Outwaited(e2, w2)
  BY <1>10 DEF Lasts
<1> QED  BY <1>2, <1>4, <1>5, <1>9, <1>11, <1>12 DEF Heeded

\* Everything a frame of d changes, sent from address a.
LEMMA ObserveKeeps ==
  ASSUME EvidenceInv, NEW d \in Devices, NEW a \in Addresses,
         NEW claims \in Seq(ClaimSet), Observe(d, a, claims)
  PROVE  /\ EvidenceInv'
         /\ \A x \in Devices : entry[x] # None =>
              entry'[x] # None /\ Lasts(entry[x], won[x], entry'[x], won'[x])
         /\ \A x \in Devices : x # d /\ entry'[x] # None =>
              entry[x] # None /\ entry'[x].ip = entry[x].ip
         /\ entry'[d] # None /\ entry'[d].ip = a
         /\ index' = [index EXCEPT ![a] = d]
         /\ \A x \in Devices : entry'[x] # None =>
              Range(entry'[x].signals) =
                EvidenceOf(entry[x]) \union Given(x, d, a, claims)
<1> DEFINE names == [i \in DOMAIN claims |-> claims[i].name]
           subject == [i \in DOMAIN claims |-> SubjectOf(claims[i], d, a, claims)]
           about == [x \in Devices |-> Those(names, {i \in DOMAIN claims : subject[i] = x})]
<1>1. /\ entry' = [x \in Devices |->
            IF x = d
            THEN Rescored([(IF entry[d] = None THEN Discovered ELSE entry[d])
                             EXCEPT !.ip = a, !.signals = Recorded(@, about[d])])
            ELSE SignalsAdded(entry[x], about[x])]
      /\ heard' = Latest(heard, d)
      /\ index' = [index EXCEPT ![a] = d]
      /\ stored' = [x \in Devices |-> Upserted(stored[x], about[x])]
      /\ rowOrder' = IF Contains(rowOrder, d) THEN rowOrder ELSE Append(rowOrder, d)
      /\ won' = [x \in Devices |->
            IF \/ x = d /\ Winning(entry'[d])
               \/ x # d /\ Wins(entry[x], about[x])
            THEN 0 ELSE won[x]]
      /\ row' = row
  BY DEF Observe
<1>2. claims \in Seq(ClaimSet) /\ names \in Seq(Names) /\ DOMAIN names = DOMAIN claims
  <2>1. \A i \in 1..Len(claims) : claims[i] \in ClaimSet
    OBVIOUS
  <2>2. \A i \in 1..Len(claims) : claims[i].name \in Names
    BY <2>1 DEF ClaimSet
  <2> QED  BY <2>2
<1>3. ASSUME NEW x \in Devices
      PROVE  about[x] \in Seq(Names) /\ Range(about[x]) = Given(x, d, a, claims)
  <2> DEFINE I == {i \in DOMAIN claims : subject[i] = x}
  <2>1. about[x] = Those(names, I) /\ I \in SUBSET (DOMAIN names)
    BY <1>2
  <2>2. Given(x, d, a, claims) = {names[i] : i \in I}
    BY DEF Given
  <2> HIDE DEF about, names, I
  <2> QED  BY <1>2, <2>1, <2>2, ThoseOfAList
<1>4. ASSUME NEW x \in Devices, x # d, about[x] # <<>>  PROVE entry[x] # None
  <2>1. about[x] \in Seq(Names) /\ Range(about[x]) # {}
    <3>1. about[x] \in Seq(Names)
      BY <1>3
    <3>2. 1 \in DOMAIN about[x]
      BY <1>4, <3>1
    <3> HIDE DEF about
    <3> QED  BY <3>1, <3>2 DEF Range
  <2>2. PICK i \in DOMAIN claims : SubjectOf(claims[i], d, a, claims) = x
    <3> HIDE DEF about
    <3> QED  BY <1>3, <2>1 DEF Given
  <2>3. x # None
    BY IdentityConstants
  <2> QED  BY <1>4, <2>2, <2>3 DEF SubjectOf, HolderOf, Holds
<1> HIDE DEF about
<1>5. /\ EntryInv(entry'[d]) /\ entry'[d].ip = a
      /\ Range(entry'[d].signals) = EvidenceOf(entry[d]) \union Given(d, d, a, claims)
      /\ Outwaited(entry'[d], won'[d])
      /\ entry[d] # None => Lasts(entry[d], won[d], entry'[d], won'[d])
  <2>1. entry'[d] = Rescored(HeardOf(entry[d], a, about[d]))
    BY <1>1 DEF HeardOf
  <2>2. won'[d] = IF Winning(entry'[d]) THEN 0 ELSE won[d]
    BY <1>1
  <2>3. won[d] \in 0..SettleWindow
        /\ (entry[d] # None => EntryInv(entry[d]) /\ Outwaited(entry[d], won[d]))
    BY DEF EvidenceInv
  <2>4. about[d] \in Seq(Names) /\ Range(about[d]) = Given(d, d, a, claims)
    BY <1>3
  <2> DEFINE e == entry[d]
             e2 == entry'[d]
             w == won[d]
             w2 == won'[d]
             batch == about[d]
  <2>5. /\ w \in 0..SettleWindow
        /\ e # None => EntryInv(e) /\ Outwaited(e, w)
        /\ batch \in Seq(Names)
        /\ e2 = Rescored(HeardOf(e, a, batch))
        /\ w2 = IF Winning(e2) THEN 0 ELSE w
    BY <2>1, <2>2, <2>3, <2>4
  <2> HIDE DEF e, e2, w, w2, batch
  <2>6. Heeded(e, w, a, batch, e2, w2)
    BY <2>5, HeardIsSound
  <2> QED  BY <2>4, <2>6 DEF Heeded, e, e2, w, w2, batch
<1>6. ASSUME NEW x \in Devices, x # d, entry[x] # None
      PROVE  /\ EntryInv(entry'[x]) /\ entry'[x].ip = entry[x].ip
             /\ Range(entry'[x].signals) = Range(entry[x].signals) \union Given(x, d, a, claims)
             /\ Lasts(entry[x], won[x], entry'[x], won'[x])
  <2>1. entry'[x] = SignalsAdded(entry[x], about[x])
    BY <1>1, <1>6
  <2>2. won'[x] = IF Wins(entry[x], about[x]) THEN 0 ELSE won[x]
    BY <1>1, <1>6
  <2>3. won[x] \in 0..SettleWindow /\ EntryInv(entry[x]) /\ Outwaited(entry[x], won[x])
    BY <1>6 DEF EvidenceInv
  <2>4. about[x] \in Seq(Names) /\ Range(about[x]) = Given(x, d, a, claims)
    BY <1>3
  <2> DEFINE e == entry[x]
             w == won[x]
             w2 == won'[x]
             batch == about[x]
  <2>5. /\ w \in 0..SettleWindow /\ EntryInv(e) /\ Outwaited(e, w)
        /\ batch \in Seq(Names)
        /\ w2 = IF Wins(e, batch) THEN 0 ELSE w
    BY <2>2, <2>3, <2>4
  <2> HIDE DEF e, w, w2, batch
  <2>6. /\ EntryInv(SignalsAdded(e, batch))
        /\ SignalsAdded(e, batch).ip = e.ip
        /\ Range(SignalsAdded(e, batch).signals) = Range(e.signals) \union Range(batch)
        /\ Lasts(e, w, SignalsAdded(e, batch), w2)
    BY <2>5, SignalsAddedAreSound
  <2> QED  BY <2>1, <2>4, <2>6 DEF e, w, w2, batch
<1>7. ASSUME NEW x \in Devices, x # d, entry[x] = None
      PROVE  entry'[x] = None
  <2>1. about[x] = <<>>
    BY <1>4, <1>7
  <2>2. entry'[x] = SignalsAdded(entry[x], about[x])
    BY <1>1, <1>7
  <2>3. about[x] \in Seq(Names) /\ Len(about[x]) = 0
    BY <1>3, <2>1
  <2>4. Additions(entry[x], about[x])[0] = entry[x]
    BY <2>3, AdditionsUnfold
  <2> QED  BY <1>7, <2>2, <2>3, <2>4 DEF SignalsAdded
<1>8. \A e : EntryInv(e) => e # None
  BY NoneIsNoEntry DEF EntryInv
<1>9. ASSUME NEW x \in Devices
      PROVE  /\ stored'[x] \in [ids : NameOrders, loaded : NameOrders]
             /\ Sorted(stored'[x].loaded)
             /\ Range(stored'[x].loaded) = Range(stored[x].loaded) \union Given(x, d, a, claims)
  <2>1. stored'[x] = Upserted(stored[x], about[x])
    BY <1>1
  <2>2. stored[x] \in [ids : NameOrders, loaded : NameOrders] /\ Sorted(stored[x].loaded)
    BY DEF EvidenceInv
  <2> QED  BY <1>3, <2>1, <2>2, UpsertedKeeps
<1>10. heard' \in DeviceOrders /\ Range(heard') = Range(heard) \union {d}
  BY <1>1, LatestKeeps DEF EvidenceInv
<1>11. rowOrder' \in DeviceOrders /\ Range(rowOrder') = Range(rowOrder) \union {d}
  <2>1. rowOrder \in DeviceOrders /\ rowOrder \in Seq(Devices)
    BY DEF EvidenceInv, DeviceOrders, Orders
  <2>2. Contains(rowOrder, d) <=> d \in Range(rowOrder)
    BY <2>1, ContainsIsRange
  <2>3. CASE Contains(rowOrder, d)
    BY <1>1, <2>1, <2>2, <2>3
  <2>4. CASE ~Contains(rowOrder, d)
    BY <1>1, <2>1, <2>2, <2>4, AppendKeeps
  <2> QED  BY <2>3, <2>4
<1>12. \A x \in Devices : won'[x] \in 0..SettleWindow
  <2>1. \A x \in Devices : won'[x] \in {0, won[x]} /\ won[x] \in 0..SettleWindow
    BY <1>1 DEF EvidenceInv
  <2> QED  BY <2>1, IdentityConstants
<1>13. /\ DOMAIN entry' = Devices /\ DOMAIN stored' = Devices /\ DOMAIN won' = Devices
       /\ entry' = [x \in Devices |-> entry'[x]]
       /\ stored' = [x \in Devices |-> stored'[x]]
       /\ won' = [x \in Devices |-> won'[x]]
  BY <1>1
<1>14. EvidenceInv'
  <2>1. entry' \in [Devices -> Entries \union {None}]
    <3>1. \A x \in Devices : entry'[x] \in Entries \union {None}
      BY <1>5, <1>6, <1>7 DEF EntryInv
    <3> QED  BY <1>13, <3>1
  <2>2. /\ index' \in [Addresses -> Devices \union {None}]
        /\ row' \in [Devices -> Addresses \union {None}]
    BY <1>1 DEF EvidenceInv
  <2>3. stored' \in [Devices -> [ids : NameOrders, loaded : NameOrders]]
    BY <1>9, <1>13
  <2>4. won' \in [Devices -> 0..SettleWindow]
    BY <1>12, <1>13
  <2>5. ASSUME NEW x \in Devices, entry'[x] # None
        PROVE  /\ EntryInv(entry'[x])
               /\ Outwaited(entry'[x], won'[x])
               /\ x \in Range(heard')
               /\ x \in Range(rowOrder')
               /\ Range(entry'[x].signals) \subseteq Range(stored'[x].loaded)
    <3>1. CASE x = d
      <4>1. entry[d] # None => Range(entry[d].signals) \subseteq Range(stored[d].loaded)
        BY DEF EvidenceInv
      <4>2. Range(entry'[d].signals) \subseteq Range(stored'[d].loaded)
        BY <1>5, <1>9, <4>1 DEF EvidenceOf
      <4> QED  BY <1>5, <1>10, <1>11, <3>1, <4>2
    <3>2. CASE x # d
      <4>1. entry[x] # None
        BY <1>7, <2>5, <3>2
      <4>2. /\ x \in Range(heard) /\ x \in Range(rowOrder)
            /\ Range(entry[x].signals) \subseteq Range(stored[x].loaded)
        BY <4>1 DEF EvidenceInv
      <4>3. /\ EntryInv(entry'[x])
            /\ Range(entry'[x].signals) = Range(entry[x].signals) \union Given(x, d, a, claims)
            /\ Lasts(entry[x], won[x], entry'[x], won'[x])
        BY <1>6, <3>2, <4>1
      <4>4. Range(entry'[x].signals) \subseteq Range(stored'[x].loaded)
        BY <1>9, <4>2, <4>3
      <4> QED  BY <1>10, <1>11, <4>2, <4>3, <4>4 DEF Lasts
    <3> QED  BY <3>1, <3>2
  <2> QED  BY <1>9, <1>10, <1>11, <2>1, <2>2, <2>3, <2>4, <2>5 DEF EvidenceInv
<1>15. ASSUME NEW x \in Devices, entry'[x] # None
       PROVE  Range(entry'[x].signals) =
                EvidenceOf(entry[x]) \union Given(x, d, a, claims)
  <2>1. CASE x = d
    BY <1>5, <2>1
  <2>2. CASE x # d
    <3>1. entry[x] # None
      BY <1>7, <1>15, <2>2
    <3> QED  BY <1>6, <2>2, <3>1 DEF EvidenceOf
  <2> QED  BY <2>1, <2>2
<1>16. ASSUME NEW x \in Devices, entry[x] # None
       PROVE  entry'[x] # None /\ Lasts(entry[x], won[x], entry'[x], won'[x])
  BY <1>5, <1>6, <1>8, <1>16
<1>17. \A x \in Devices : x # d /\ entry'[x] # None =>
         entry[x] # None /\ entry'[x].ip = entry[x].ip
  BY <1>6, <1>7
<1>18. entry'[d] # None /\ entry'[d].ip = a /\ index' = [index EXCEPT ![a] = d]
  BY <1>1, <1>5, <1>8
<1> QED  BY <1>14, <1>15, <1>16, <1>17, <1>18

\* Listening: while the index is current, a truthful frame names only owners.
LEMMA NamesGoHome ==
  ASSUME IdentityInv, restarts = 0, NEW d \in Devices, uses[d] # None,
         NEW claims \in Seq(Sayable), Truthful(d, claims),
         NEW x \in Devices, NEW n \in Given(x, d, uses[d], claims)
  PROVE  Owner[n] = x
<1> DEFINE a == uses[d]
<1>1. PICK i \in DOMAIN claims : claims[i].name = n /\ SubjectOf(claims[i], d, a, claims) = x
  BY DEF Given
<1> DEFINE c == claims[i]
<1>2. \A j \in DOMAIN claims : claims[j] \in Sayable
  OBVIOUS
<1>3. \A j \in DOMAIN claims : /\ claims[j].name \in Names
                               /\ Owner[claims[j].name] \in Devices
                               /\ claims[j].of \in {None, uses[Owner[claims[j].name]]}
  BY <1>2, IdentityConstants DEF Sayable, Claims
<1>4. entry[d] # None /\ SenderAddresses(d, a) = {a}
  <2>1. entry[d] # None /\ entry[d].ip = a
    BY DEF IdentityInv, ListeningInv
  <2> QED  BY <2>1 DEF SenderAddresses
<1>5. \A o \in Devices : uses[o] = a => o = d
  BY DEF IdentityInv, NetworkInv
<1>6. x # None
  BY IdentityConstants
<1>7. CASE c.of = None
  <2>1. ~SpeaksForOthers(d, a, claims) /\ x = d
    BY <1>1, <1>6, <1>7 DEF SubjectOf
  <2>2. \A j \in DOMAIN claims : claims[j].of = None \/ claims[j].of = a
    BY <1>4, <2>1 DEF SpeaksForOthers, Range
  <2>3. \A j \in DOMAIN claims : claims[j].of # None => Owner[claims[j].name] = d
    BY <1>3, <1>5, <2>2
  <2>4. \A j \in DOMAIN claims : Owner[claims[j].name] = d
    BY <2>3 DEF Truthful, Range
  <2> QED  BY <1>1, <2>1, <2>4
<1>8. CASE c.of # None /\ c.of = a
  <2>1. x = d
    BY <1>1, <1>4, <1>8 DEF SubjectOf
  <2>2. Owner[c.name] = d
    BY <1>3, <1>5, <1>8
  <2> QED  BY <1>1, <2>1, <2>2
<1>9. CASE c.of # None /\ c.of # a
  <2> DEFINE o == Owner[c.name]
  <2>1. o \in Devices /\ uses[o] # None /\ c.of = uses[o]
    BY <1>3, <1>9
  <2>2. index[uses[o]] = o /\ uses[o] \in Addresses
    BY <2>1 DEF IdentityInv, ListeningInv, NetworkInv
  <2>3. x = HolderOf([index EXCEPT ![a] = d], c.of)
    BY <1>1, <1>4, <1>9 DEF SubjectOf
  <2>4. [index EXCEPT ![a] = d][c.of] = o
    <3>1. index \in [Addresses -> Devices \union {None}]
      BY DEF IdentityInv, EvidenceInv
    <3> QED  BY <3>1, <1>9, <2>1, <2>2
  <2>5. x = o
    BY <1>6, <2>3, <2>4 DEF HolderOf
  <2> QED  BY <1>1, <2>5
<1> QED  BY <1>7, <1>8, <1>9

\* A frame sent from the machine's own address leaves the index current.
LEMMA FrameKeeps ==
  ASSUME IdentityInv, NEW d \in Devices, NEW a \in Addresses, NEW claims \in Seq(ClaimSet),
         Observe(d, a, claims), restarts' = restarts,
         uses' = [uses EXCEPT ![d] = a],
         \A o \in Devices : uses[o] = a => o = d,
         restarts = 0 =>
           \A x \in Devices : \A n \in Given(x, d, a, claims) : Owner[n] = x
  PROVE  IdentityInv'
<1>1. /\ EvidenceInv'
      /\ \A x \in Devices : entry[x] # None => entry'[x] # None
      /\ \A x \in Devices : x # d /\ entry'[x] # None =>
           entry[x] # None /\ entry'[x].ip = entry[x].ip
      /\ entry'[d] # None /\ entry'[d].ip = a
      /\ index' = [index EXCEPT ![a] = d]
      /\ \A x \in Devices : entry'[x] # None =>
           Range(entry'[x].signals) = EvidenceOf(entry[x]) \union Given(x, d, a, claims)
  BY ObserveKeeps DEF IdentityInv
<1>2. /\ uses \in [Devices -> Addresses \union {None}]
      /\ \A x, o \in Devices : uses[x] = uses[o] /\ uses[x] # None => x = o
      /\ a # None
  BY IdentityConstants DEF IdentityInv, NetworkInv
<1>3. /\ uses'[d] = a
      /\ \A x \in Devices : x # d => uses'[x] = uses[x] /\ uses[x] # a
  BY <1>2
<1>4. NetworkInv'
  <2>1. uses' \in [Devices -> Addresses \union {None}]
    BY <1>2
  <2>2. ASSUME NEW x \in Devices, NEW o \in Devices, uses'[x] = uses'[o], uses'[x] # None
        PROVE  x = o
    BY <1>2, <1>3, <2>2
  <2> QED  BY <2>1, <2>2 DEF NetworkInv, IdentityInv
<1>5. ASSUME restarts = 0, NEW x \in Devices, uses'[x] # None
      PROVE  entry'[x] # None /\ entry'[x].ip = uses'[x] /\ index'[uses'[x]] = x
  <2>0. index \in [Addresses -> Devices \union {None}]
    BY DEF IdentityInv, EvidenceInv
  <2>1. CASE x = d
    BY <1>1, <1>3, <2>0, <2>1
  <2>2. CASE x # d
    <3>1. uses'[x] = uses[x] /\ uses[x] # a /\ uses[x] # None /\ uses[x] \in Addresses
      BY <1>2, <1>3, <1>5, <2>2
    <3>2. entry[x] # None /\ entry[x].ip = uses[x] /\ index[uses[x]] = x
      BY <1>5, <3>1 DEF IdentityInv, ListeningInv
    <3> QED  BY <1>1, <2>0, <2>2, <3>1, <3>2
  <2> QED  BY <2>1, <2>2
<1>6. ASSUME restarts = 0, NEW x \in Devices, entry'[x] # None,
             NEW n \in Range(entry'[x].signals)
      PROVE  Owner[n] = x
  <2>1. n \in EvidenceOf(entry[x]) \/ n \in Given(x, d, a, claims)
    BY <1>1, <1>6
  <2> QED  BY <1>6, <2>1 DEF EvidenceOf, IdentityInv, ListeningInv
<1>7. ListeningInv'
  BY <1>5, <1>6 DEF ListeningInv
<1> QED  BY <1>1, <1>4, <1>7 DEF IdentityInv

\* A machine that joins is heard with no claims.
LEMMA JoinKeeps ==
  ASSUME IdentityInv, NEW d \in Devices, NEW a \in Addresses, Join(d, a)
  PROVE  IdentityInv'
<1>1. <<>> \in Seq(ClaimSet) /\ \A x \in Devices : Given(x, d, a, <<>>) = {}
  BY DEF Given
<1> QED  BY <1>1, FrameKeeps DEF Join

\* A machine that announces is heard from the address it has.
LEMMA AnnounceKeeps ==
  ASSUME IdentityInv, NEW d \in Devices, NEW claims \in Seq(Sayable), Announce(d, claims)
  PROVE  IdentityInv'
<1>1. uses[d] # None /\ uses[d] \in Addresses /\ uses \in [Devices -> Addresses \union {None}]
  BY DEF Announce, IdentityInv, NetworkInv
<1>2. Sayable \subseteq ClaimSet
  BY DEF Sayable, Claims, ClaimSet
<1>3. claims \in Seq(ClaimSet)
  BY <1>2
<1>4. uses' = [uses EXCEPT ![d] = uses[d]]
  BY <1>1 DEF Announce
<1>5. \A o \in Devices : uses[o] = uses[d] => o = d
  BY <1>1 DEF IdentityInv, NetworkInv
<1>6. restarts = 0 =>
        \A x \in Devices : \A n \in Given(x, d, uses[d], claims) : Owner[n] = x
  BY <1>1, NamesGoHome DEF Announce
<1> QED  BY <1>1, <1>3, <1>4, <1>5, <1>6, FrameKeeps DEF Announce

(***************************************************************************)
(* The other actions.                                                      *)
(***************************************************************************)
\* The tables are empty at first.
LEMMA IdentityStart == Init => IdentityInv
<1> SUFFICES ASSUME Init  PROVE IdentityInv
  OBVIOUS
<1>1. <<>> \in NameOrders /\ <<>> \in DeviceOrders /\ Sorted(<<>>)
  BY DEF NameOrders, DeviceOrders, Orders, Sorted, IsInjective
<1>2. SettleWindow \in 0..SettleWindow /\ 0 \in 0..MaxRestarts
  BY IdentityConstants
<1>3. EvidenceInv
  BY <1>1, <1>2 DEF Init, EvidenceInv
<1>4. NetworkInv
  BY <1>2 DEF Init, NetworkInv
<1>5. ListeningInv
  BY DEF Init, ListeningInv
<1> QED  BY <1>3, <1>4, <1>5 DEF IdentityInv

\* A machine that leaves changes nothing in the tables.
LEMMA LeaveKeeps ==
  ASSUME IdentityInv, NEW d \in Devices, Leave(d)
  PROVE  IdentityInv'
<1>1. /\ uses' = [uses EXCEPT ![d] = None] /\ uses \in [Devices -> Addresses \union {None}]
      /\ UNCHANGED <<entry, heard, index, row, rowOrder, stored, restarts, won>>
  BY DEF Leave, table, database, IdentityInv, NetworkInv
<1>2. \A x \in Devices : uses'[x] # None => uses'[x] = uses[x]
  BY <1>1
<1>3. EvidenceInv'
  BY <1>1 DEF IdentityInv, EvidenceInv
<1>4. NetworkInv'
  BY <1>1, <1>2 DEF IdentityInv, NetworkInv
<1>5. ListeningInv'
  BY <1>1, <1>2 DEF IdentityInv, ListeningInv
<1> QED  BY <1>3, <1>4, <1>5 DEF IdentityInv

\* What an answer of the resolver makes of the device it is about.
LEMMA AnswerKeeps ==
  ASSUME IdentityInv, NEW d \in Devices, NEW n \in Names, ReverseDns(d, n)
  PROVE  /\ EntryInv(entry'[d]) /\ entry'[d] # None /\ entry'[d].ip = entry[d].ip
         /\ Range(entry'[d].signals) = Range(entry[d].signals) \union {n}
         /\ Lasts(entry[d], won[d], entry'[d], won'[d])
         /\ won'[d] \in 0..SettleWindow
         /\ stored'[d] \in [ids : NameOrders, loaded : NameOrders]
         /\ Sorted(stored'[d].loaded)
         /\ Range(stored'[d].loaded) = Range(stored[d].loaded) \union {n}
<1> DEFINE e == entry[d]
           w == won[d]
           w2 == won'[d]
           batch == <<n>>
<1>1. /\ EntryInv(e) /\ Outwaited(e, w) /\ w \in 0..SettleWindow
      /\ entry \in [Devices -> Entries \union {None}] /\ won \in [Devices -> 0..SettleWindow]
      /\ stored \in [Devices -> [ids : NameOrders, loaded : NameOrders]]
      /\ Sorted(stored[d].loaded)
  BY DEF ReverseDns, IdentityInv, EvidenceInv
<1>2. batch \in Seq(Names) /\ Range(batch) = {n}
  BY DEF Range
<1>3. /\ entry'[d] = SignalsAdded(e, batch)
      /\ w2 = IF Wins(e, batch) THEN 0 ELSE w
      /\ stored'[d] = Upserted(stored[d], batch)
  BY <1>1 DEF ReverseDns
<1> HIDE DEF e, w, w2, batch
<1>4. /\ EntryInv(SignalsAdded(e, batch))
      /\ SignalsAdded(e, batch).ip = e.ip
      /\ Range(SignalsAdded(e, batch).signals) = Range(e.signals) \union Range(batch)
      /\ Lasts(e, w, SignalsAdded(e, batch), w2)
  BY <1>1, <1>2, <1>3, SignalsAddedAreSound
<1>5. /\ stored'[d] \in [ids : NameOrders, loaded : NameOrders]
      /\ Sorted(stored'[d].loaded)
      /\ Range(stored'[d].loaded) = Range(stored[d].loaded) \union Range(batch)
  BY <1>1, <1>2, <1>3, UpsertedKeeps
<1>6. entry'[d] # None
  BY <1>3, <1>4, NoneIsNoEntry DEF EntryInv
<1>7. w2 \in 0..SettleWindow
  BY <1>1, <1>3, IdentityConstants
<1> QED  BY <1>2, <1>3, <1>4, <1>5, <1>6, <1>7 DEF e, w, w2

\* An answer of the resolver keeps the invariant.
LEMMA ReverseDnsKeeps ==
  ASSUME IdentityInv, NEW d \in Devices, NEW n \in Names, ReverseDns(d, n)
  PROVE  IdentityInv'
<1>1. /\ EntryInv(entry'[d]) /\ entry'[d] # None /\ entry'[d].ip = entry[d].ip
      /\ Range(entry'[d].signals) = Range(entry[d].signals) \union {n}
      /\ Outwaited(entry'[d], won'[d])
      /\ won'[d] \in 0..SettleWindow
      /\ stored'[d] \in [ids : NameOrders, loaded : NameOrders]
      /\ Sorted(stored'[d].loaded)
      /\ Range(stored'[d].loaded) = Range(stored[d].loaded) \union {n}
  BY AnswerKeeps DEF Lasts
<1>2. /\ entry \in [Devices -> Entries \union {None}] /\ won \in [Devices -> 0..SettleWindow]
      /\ stored \in [Devices -> [ids : NameOrders, loaded : NameOrders]]
      /\ entry[d] # None /\ Owner[n] = d
  BY DEF ReverseDns, IdentityInv, EvidenceInv
<1>3. /\ DOMAIN entry' = Devices /\ DOMAIN won' = Devices /\ DOMAIN stored' = Devices
      /\ entry' = [x \in Devices |-> entry'[x]]
      /\ stored' = [x \in Devices |-> stored'[x]]
      /\ won' = [x \in Devices |-> won'[x]]
      /\ \A x \in Devices : x # d =>
           entry'[x] = entry[x] /\ won'[x] = won[x] /\ stored'[x] = stored[x]
      /\ UNCHANGED <<heard, index, row, rowOrder, uses, restarts>>
  BY <1>2 DEF ReverseDns
<1>4. EvidenceInv'
  <2>1. entry' \in [Devices -> Entries \union {None}]
    <3>1. \A x \in Devices : entry'[x] \in Entries \union {None}
      BY <1>1, <1>2, <1>3 DEF EntryInv
    <3> QED  BY <1>3, <3>1
  <2>2. won' \in [Devices -> 0..SettleWindow]
    <3>1. \A x \in Devices : won'[x] \in 0..SettleWindow
      BY <1>1, <1>2, <1>3
    <3> QED  BY <1>3, <3>1
  <2>3. stored' \in [Devices -> [ids : NameOrders, loaded : NameOrders]]
    <3>1. \A x \in Devices : stored'[x] \in [ids : NameOrders, loaded : NameOrders]
      BY <1>1, <1>2, <1>3
    <3> QED  BY <1>3, <3>1
  <2>4. ASSUME NEW x \in Devices
        PROVE  /\ Sorted(stored'[x].loaded)
               /\ entry'[x] # None =>
                    /\ EntryInv(entry'[x])
                    /\ Outwaited(entry'[x], won'[x])
                    /\ x \in Range(heard')
                    /\ x \in Range(rowOrder')
                    /\ Range(entry'[x].signals) \subseteq Range(stored'[x].loaded)
    <3>1. CASE x # d
      BY <1>3, <3>1 DEF IdentityInv, EvidenceInv
    <3>2. CASE x = d
      <4>1. /\ d \in Range(heard) /\ d \in Range(rowOrder)
            /\ Range(entry[d].signals) \subseteq Range(stored[d].loaded)
        BY <1>2 DEF IdentityInv, EvidenceInv
      <4> QED  BY <1>1, <1>3, <3>2, <4>1
    <3> QED  BY <3>1, <3>2
  <2> QED  BY <1>3, <2>1, <2>2, <2>3, <2>4 DEF IdentityInv, EvidenceInv
<1>5. NetworkInv'
  BY <1>3 DEF IdentityInv, NetworkInv
<1>6. ListeningInv'
  <2> SUFFICES ASSUME restarts = 0  PROVE ListeningInv'
    BY <1>3 DEF ListeningInv
  <2>1. \A x \in Devices : uses[x] # None =>
          entry'[x] # None /\ entry'[x].ip = uses[x] /\ index[uses[x]] = x
    BY <1>1, <1>3 DEF IdentityInv, ListeningInv
  <2>2. \A x \in Devices : entry'[x] # None =>
          \A m \in Range(entry'[x].signals) : Owner[m] = x
    BY <1>1, <1>2, <1>3 DEF IdentityInv, ListeningInv
  <2> QED  BY <1>3, <2>1, <2>2 DEF ListeningInv
<1> QED  BY <1>4, <1>5, <1>6 DEF IdentityInv

\* A flush copies addresses and the order of sightings.
LEMMA FlushKeeps ==
  ASSUME IdentityInv, Flush
  PROVE  IdentityInv'
<1>1. /\ row' = [d \in Devices |-> IF entry[d] = None THEN None ELSE entry[d].ip]
      /\ rowOrder' = heard
      /\ UNCHANGED <<entry, heard, index, stored, uses, restarts, won>>
  BY DEF Flush, table
<1>2. row' \in [Devices -> Addresses \union {None}]
  <2>1. \A d \in Devices : entry[d] # None => entry[d].ip \in Addresses \union {None}
    BY DEF IdentityInv, EvidenceInv, Entries
  <2> QED  BY <1>1, <2>1
<1>3. EvidenceInv'
  BY <1>1, <1>2 DEF IdentityInv, EvidenceInv
<1> QED  BY <1>1, <1>3 DEF IdentityInv, NetworkInv, ListeningInv

\* An age grows by one and stops at the window.
LEMMA OlderIs ==
  ASSUME NEW age \in 0..SettleWindow
  PROVE  /\ Older(age) \in 0..SettleWindow
         /\ \A younger \in 0..age : Older(younger) <= Older(age)
<1>1. SettleWindow \in Nat
  BY IdentityConstants
<1>2. \A b \in 0..SettleWindow : Older(b) = IF b < SettleWindow THEN b + 1 ELSE SettleWindow
  <2> TAKE b \in 0..SettleWindow
  <2> DEFINE T == {b + 1, SettleWindow}
  <2>1. T \in SUBSET Nat /\ T # {}
    BY <1>1
  <2>2. Min(T) \in T /\ \A y \in T : Min(T) <= y
    <3> HIDE DEF T
    <3> QED  BY <2>1, MinIsLeast
  <2>3. Older(b) = Min(T)
    BY DEF Older
  <2> QED  BY <1>1, <2>2, <2>3
<1>3. \A younger \in 0..age : younger \in 0..SettleWindow
  BY <1>1
<1> QED  BY <1>1, <1>2, <1>3

\* Time passes for a rival and for the last win alike.
LEMMA TickKeeps ==
  ASSUME IdentityInv, Tick
  PROVE  /\ IdentityInv'
         /\ \A d \in Devices : entry[d] # None => entry'[d].identity = entry[d].identity
<1> DEFINE After(e) == IF e = None \/ e.pending = None THEN e
                       ELSE [e EXCEPT !.pending.age = Older(@)]
<1>1. /\ entry' = [d \in Devices |-> After(entry[d])]
      /\ won' = [d \in Devices |-> Older(won[d])]
      /\ UNCHANGED <<heard, index, row, rowOrder, stored, uses, restarts>>
  BY DEF Tick, database
<1>2. ASSUME NEW d \in Devices, entry[d] # None
      PROVE  /\ EntryInv(After(entry[d])) /\ After(entry[d]) # None
             /\ After(entry[d]).signals = entry[d].signals
             /\ After(entry[d]).identity = entry[d].identity
             /\ After(entry[d]).ip = entry[d].ip
             /\ Outwaited(After(entry[d]), Older(won[d]))
  <2> DEFINE e == entry[d]
             w == won[d]
             e2 == [e EXCEPT !.pending.age = Older(@)]
  <2>1. EntryInv(e) /\ Outwaited(e, w) /\ w \in 0..SettleWindow /\ e # None
    BY <1>2 DEF IdentityInv, EvidenceInv
  <2> HIDE DEF e, w
  <2>2. CASE e.pending = None
    <3>1. After(e) = e
      BY <2>2
    <3> HIDE DEF After
    <3>2. Outwaited(After(e), Older(w))
      BY <2>2, <3>1 DEF Outwaited
    <3> QED  BY <2>1, <3>1, <3>2 DEF e, w
  <2>3. CASE e.pending # None
    <3>1. /\ e.pending \in [name : Names, age : 0..SettleWindow] /\ e.pending.age \in 0..w
          /\ e = [signals |-> e.signals, identity |-> e.identity, pending |-> e.pending,
                  ip |-> e.ip]
      BY <2>1, <2>3, IdentityConstants DEF EntryInv, Entries, Outwaited
    <3>2. /\ e2.signals = e.signals /\ e2.identity = e.identity /\ e2.ip = e.ip
          /\ e2.pending = [name |-> e.pending.name, age |-> Older(e.pending.age)]
      BY <3>1
    <3>3. Older(e.pending.age) \in 0..SettleWindow /\ Older(e.pending.age) <= Older(w)
      BY <2>1, <3>1, OlderIs
    <3>4. e2 \in Entries
      <4>1. e2.pending \in [name : Names, age : 0..SettleWindow]
        BY <3>1, <3>2, <3>3
      <4>2. e2 = [e EXCEPT !.pending = e2.pending]
        BY <3>1
      <4> HIDE DEF e2
      <4>3. [e EXCEPT !.pending = e2.pending] \in Entries
        BY <2>1, <4>1 DEF EntryInv, Entries
      <4> QED  BY <4>2, <4>3
    <3>5. After(e) = e2
      BY <2>1, <2>3
    <3> HIDE DEF e2, After
    <3>6. EntryInv(e2)
      BY <2>1, <2>3, <3>2, <3>4 DEF EntryInv
    <3>7. Outwaited(e2, Older(w))
      BY <3>2, <3>3 DEF Outwaited
    <3>8. e2 # None
      BY <3>4, NoneIsNoEntry
    <3> QED  BY <3>2, <3>5, <3>6, <3>7, <3>8 DEF e, w
  <2> QED  BY <2>2, <2>3
<1>3. \A d \in Devices : /\ entry'[d] = After(entry[d])
                         /\ won'[d] = Older(won[d])
                         /\ entry[d] = None => entry'[d] = None
  BY <1>1
<1> HIDE DEF After
<1>4. EvidenceInv'
  <2>1. entry' \in [Devices -> Entries \union {None}]
    <3>1. \A d \in Devices : entry'[d] \in Entries \union {None}
      BY <1>2, <1>3 DEF EntryInv
    <3> QED  BY <1>1, <3>1
  <2>2. won' \in [Devices -> 0..SettleWindow]
    <3>1. \A d \in Devices : won'[d] \in 0..SettleWindow
      BY <1>3, OlderIs DEF IdentityInv, EvidenceInv
    <3> QED  BY <1>1, <3>1
  <2>3. ASSUME NEW d \in Devices, entry'[d] # None
        PROVE  /\ EntryInv(entry'[d])
               /\ Outwaited(entry'[d], won'[d])
               /\ d \in Range(heard')
               /\ d \in Range(rowOrder')
               /\ Range(entry'[d].signals) \subseteq Range(stored'[d].loaded)
    <3>1. entry[d] # None
      BY <1>3, <2>3
    <3>2. /\ d \in Range(heard) /\ d \in Range(rowOrder)
          /\ Range(entry[d].signals) \subseteq Range(stored[d].loaded)
      BY <3>1 DEF IdentityInv, EvidenceInv
    <3>3. entry'[d].signals = entry[d].signals
      BY <1>2, <1>3, <3>1
    <3> QED  BY <1>1, <1>2, <1>3, <3>1, <3>2, <3>3
  <2> QED  BY <1>1, <2>1, <2>2, <2>3 DEF IdentityInv, EvidenceInv
<1>5. NetworkInv'
  BY <1>1 DEF IdentityInv, NetworkInv
<1>6. ListeningInv'
  <2> SUFFICES ASSUME restarts = 0  PROVE ListeningInv'
    BY <1>1 DEF ListeningInv
  <2>1. \A x \in Devices : uses[x] # None =>
          entry'[x] # None /\ entry'[x].ip = uses[x] /\ index[uses[x]] = x
    BY <1>2, <1>3 DEF IdentityInv, ListeningInv
  <2>2. \A x \in Devices : entry'[x] # None =>
          \A m \in Range(entry'[x].signals) : Owner[m] = x
    BY <1>2, <1>3 DEF IdentityInv, ListeningInv
  <2> QED  BY <1>1, <2>1, <2>2 DEF ListeningInv
<1> QED  BY <1>2, <1>3, <1>4, <1>5, <1>6 DEF IdentityInv

\* A restart reads back evidence that was never lost, in another order.
LEMMA RestartKeeps ==
  ASSUME IdentityInv, Restart
  PROVE  /\ IdentityInv'
         /\ restarts' # restarts
         /\ \A d \in Devices : entry[d] # None =>
              /\ entry'[d] # None
              /\ RankOf(entry'[d].identity) >= RankOf(entry[d].identity)
<1> DEFINE Read(d) == [signals |-> stored[d].loaded, identity |-> Resolve(stored[d].loaded),
                       pending |-> None, ip |-> row[d]]
<1>1. /\ restarts < MaxRestarts /\ restarts' = restarts + 1
      /\ entry' = [d \in Devices |-> IF ~Contains(rowOrder, d) THEN None ELSE Read(d)]
      /\ heard' = rowOrder
      /\ index' = [a \in Addresses |-> Reindexed(a)]
      /\ won' = [d \in Devices |->
            IF Contains(rowOrder, d) /\ Winning(entry'[d]) THEN 0 ELSE won[d]]
      /\ UNCHANGED <<row, rowOrder, stored, uses>>
  BY DEF Restart, database
<1>2. \A d \in Devices : Contains(rowOrder, d) <=> d \in Range(rowOrder)
  <2>1. rowOrder \in Seq(Devices)
    BY DEF IdentityInv, EvidenceInv, DeviceOrders, Orders
  <2> QED  BY <2>1, ContainsIsRange
<1>3. ASSUME NEW d \in Devices
      PROVE  /\ EntryInv(Read(d)) /\ Read(d) # None
             /\ Read(d).pending = None
             /\ Read(d).signals = stored[d].loaded
             /\ Read(d).identity = Resolve(stored[d].loaded)
  <2> DEFINE q == stored[d].loaded
  <2>1. q \in NameOrders /\ Sorted(q) /\ row[d] \in Addresses \union {None}
    BY DEF IdentityInv, EvidenceInv
  <2> HIDE DEF q
  <2>2. Resolve(q) = None \/ (Resolve(q) \in Range(q) /\ Resolve(q) \in Names)
    BY <2>1, HeadIsStrongest
  <2> DEFINE e == [signals |-> q, identity |-> Resolve(q), pending |-> None, ip |-> row[d]]
  <2>3. e \in Entries
    BY <2>1, <2>2 DEF Entries
  <2>4. e.signals = q /\ e.identity = Resolve(q) /\ e.pending = None
    OBVIOUS
  <2>5. Read(d) = e
    BY DEF q
  <2> HIDE DEF e
  <2>6. EntryInv(e)
    BY <2>1, <2>2, <2>3, <2>4 DEF EntryInv
  <2>7. e # None
    BY <2>3, NoneIsNoEntry
  <2> QED  BY <2>4, <2>5, <2>6, <2>7 DEF q
<1>4. \A d \in Devices : entry'[d] = IF d \in Range(rowOrder) THEN Read(d) ELSE None
  BY <1>1, <1>2
<1> HIDE DEF Read
<1>5. ASSUME NEW d \in Devices, entry[d] # None
      PROVE  /\ entry'[d] # None
             /\ RankOf(entry'[d].identity) >= RankOf(entry[d].identity)
  <2>1. /\ d \in Range(rowOrder) /\ EntryInv(entry[d])
        /\ Range(entry[d].signals) \subseteq Range(stored[d].loaded)
        /\ stored[d].loaded \in NameOrders /\ Sorted(stored[d].loaded)
    BY <1>5 DEF IdentityInv, EvidenceInv
  <2>2. entry'[d] # None /\ entry'[d].identity = Resolve(stored[d].loaded)
    BY <1>3, <1>4, <2>1
  <2>3. entry[d].signals \in NameOrders /\ Sorted(entry[d].signals)
        /\ RankOf(entry[d].identity) = RankOf(Resolve(entry[d].signals))
    BY <2>1 DEF EntryInv, Entries
  <2>4. RankOf(Resolve(entry[d].signals)) <= RankOf(Resolve(stored[d].loaded))
    BY <2>1, <2>3, SameEvidenceSameRank
  <2>5. RankOf(entry[d].identity) \in Nat
    BY <2>1, RankTypes DEF EntryInv, Entries
  <2>6. RankOf(Resolve(stored[d].loaded)) \in Nat
    BY <1>3, RankTypes DEF EntryInv, Entries
  <2> QED  BY <2>2, <2>3, <2>4, <2>5, <2>6
<1>6. ASSUME NEW a \in Addresses  PROVE Reindexed(a) \in Devices \union {None}
  <2> DEFINE at == {i \in DOMAIN rowOrder : row[rowOrder[i]] = a}
  <2>1. rowOrder \in Seq(Devices) /\ at \in SUBSET Nat
    BY DEF IdentityInv, EvidenceInv, DeviceOrders, Orders
  <2>2. Reindexed(a) = IF at = {} THEN None ELSE rowOrder[Min(at)]
    BY DEF Reindexed
  <2>3. ASSUME at # {}  PROVE Min(at) \in at
    <3> HIDE DEF at
    <3> QED  BY <2>1, <2>3, MinIsLeast
  <2>4. \A i \in at : rowOrder[i] \in Devices
    BY <2>1
  <2> HIDE DEF at
  <2> QED  BY <2>2, <2>3, <2>4
<1>7. EvidenceInv'
  <2>1. entry' \in [Devices -> Entries \union {None}]
    <3>1. \A d \in Devices : entry'[d] \in Entries \union {None}
      BY <1>3, <1>4 DEF EntryInv
    <3> QED  BY <1>1, <3>1
  <2>2. index' \in [Addresses -> Devices \union {None}]
    BY <1>1, <1>6
  <2>3. won' \in [Devices -> 0..SettleWindow]
    <3>1. \A d \in Devices : won'[d] \in {0, won[d]} /\ won[d] \in 0..SettleWindow
      BY <1>1 DEF IdentityInv, EvidenceInv
    <3>2. \A d \in Devices : won'[d] \in 0..SettleWindow
      BY <3>1, IdentityConstants
    <3> QED  BY <1>1, <3>2
  <2>4. ASSUME NEW d \in Devices, entry'[d] # None
        PROVE  /\ EntryInv(entry'[d])
               /\ Outwaited(entry'[d], won'[d])
               /\ d \in Range(heard')
               /\ d \in Range(rowOrder')
               /\ Range(entry'[d].signals) \subseteq Range(stored'[d].loaded)
    <3>1. d \in Range(rowOrder) /\ entry'[d] = Read(d)
      BY <1>4, <2>4
    <3> QED  BY <1>1, <1>3, <3>1 DEF Outwaited
  <2> QED  BY <1>1, <2>1, <2>2, <2>3, <2>4 DEF IdentityInv, EvidenceInv
<1>8. restarts' # restarts /\ restarts' # 0 /\ restarts' \in 0..MaxRestarts
  BY <1>1, IdentityConstants DEF IdentityInv, NetworkInv
<1>9. NetworkInv'
  BY <1>1, <1>8 DEF IdentityInv, NetworkInv
<1>10. ListeningInv'
  BY <1>8 DEF ListeningInv
<1> QED  BY <1>5, <1>7, <1>8, <1>9, <1>10 DEF IdentityInv

(***************************************************************************)
(* The theorems.                                                           *)
(***************************************************************************)
\* What a step does to the shown names: NamesLast, step by step.
NamesLastStep ==
  /\ \A d \in Devices :
       (restarts' = restarts /\ entry[d] # None /\ entry[d].identity # entry'[d].identity
          /\ RankOf(entry[d].identity) = RankOf(entry'[d].identity))
       => Settled(won[d])
  /\ restarts' # restarts =>
       \A d \in Devices : entry[d] # None =>
         /\ entry'[d] # None
         /\ RankOf(entry'[d].identity) >= RankOf(entry[d].identity)

\* A list of one claim, or of two, is a list of claims.
LEMMA OneOrTwo ==
  \A c1, c2 \in Sayable : <<c1>> \in Seq(Sayable) /\ <<c1, c2>> \in Seq(Sayable)
OBVIOUS

\* Every step keeps the invariant and lets the shown names last.
LEMMA IdentityStep ==
  ASSUME IdentityInv, [Next]_vars
  PROVE  IdentityInv' /\ [NamesLastStep]_vars
<1>1. ASSUME NEW d \in Devices, NEW a \in Addresses, Join(d, a)
      PROVE  IdentityInv' /\ NamesLastStep
  <2>1. restarts' = restarts /\ Observe(d, a, <<>>) /\ <<>> \in Seq(ClaimSet)
    BY <1>1 DEF Join
  <2>2. \A x \in Devices : entry[x] # None =>
          Lasts(entry[x], won[x], entry'[x], won'[x])
    BY <2>1, ObserveKeeps DEF IdentityInv
  <2> QED  BY <1>1, <2>1, <2>2, JoinKeeps DEF NamesLastStep, Lasts
<1>2. ASSUME NEW d \in Devices, NEW claims \in Seq(Sayable), Announce(d, claims)
      PROVE  IdentityInv' /\ NamesLastStep
  <2>1. restarts' = restarts /\ Observe(d, uses[d], claims) /\ uses[d] \in Addresses
    BY <1>2 DEF Announce, IdentityInv, NetworkInv
  <2>2. claims \in Seq(ClaimSet)
    <3>1. Sayable \subseteq ClaimSet
      BY DEF Sayable, Claims, ClaimSet
    <3> QED  BY <3>1
  <2>3. \A x \in Devices : entry[x] # None =>
          Lasts(entry[x], won[x], entry'[x], won'[x])
    BY <2>1, <2>2, ObserveKeeps DEF IdentityInv
  <2> QED  BY <1>2, <2>1, <2>3, AnnounceKeeps DEF NamesLastStep, Lasts
<1>3. ASSUME NEW d \in Devices, Leave(d)  PROVE IdentityInv' /\ NamesLastStep
  <2>1. restarts' = restarts /\ entry' = entry
    BY <1>3 DEF Leave, table
  <2> QED  BY <1>3, <2>1, LeaveKeeps DEF NamesLastStep
<1>4. ASSUME NEW d \in Devices, NEW n \in PtrNames, ReverseDns(d, n)
      PROVE  IdentityInv' /\ NamesLastStep
  <2>1. n \in Names
    BY IdentityConstants
  <2>2. /\ restarts' = restarts
        /\ \A x \in Devices : x # d => entry'[x] = entry[x]
    BY <1>4 DEF ReverseDns, IdentityInv, EvidenceInv
  <2>3. Lasts(entry[d], won[d], entry'[d], won'[d])
    BY <1>4, <2>1, AnswerKeeps
  <2> QED  BY <1>4, <2>1, <2>2, <2>3, ReverseDnsKeeps DEF NamesLastStep, Lasts
<1>5. ASSUME Flush  PROVE IdentityInv' /\ NamesLastStep
  <2>1. restarts' = restarts /\ entry' = entry
    BY <1>5 DEF Flush, table
  <2> QED  BY <1>5, <2>1, FlushKeeps DEF NamesLastStep
<1>6. ASSUME Restart  PROVE IdentityInv' /\ NamesLastStep
  BY <1>6, RestartKeeps DEF NamesLastStep
<1>7. ASSUME Tick  PROVE IdentityInv' /\ NamesLastStep
  <2>1. restarts' = restarts
    BY <1>7 DEF Tick
  <2> QED  BY <1>7, <2>1, TickKeeps DEF NamesLastStep
<1>8. ASSUME UNCHANGED vars  PROVE IdentityInv'
  BY <1>8 DEF vars, table, database, IdentityInv, EvidenceInv, NetworkInv, ListeningInv
<1>9. CASE Next
  BY <1>1, <1>2, <1>3, <1>4, <1>5, <1>6, <1>7, <1>9, OneOrTwo DEF Next
<1> QED  BY <1>8, <1>9

\* What every behaviour keeps, and every step of it does.
LEMMA IdentityInvariant == Spec => []IdentityInv /\ [][NamesLastStep]_vars
<1>1. Init => IdentityInv
  BY IdentityStart
<1>2. IdentityInv /\ [Next]_vars => IdentityInv' /\ [NamesLastStep]_vars
  BY IdentityStep
<1> QED  BY <1>1, <1>2, PTL DEF Spec

\* The types, and that no evidence is kept twice: an order of sightings has a
\* device once and the evidence of a device has a name once, through frames,
\* flushes and restarts (TypeOK).
THEOREM IdentityTypes == Spec => []TypeOK
<1>1. IdentityInv => TypeOK
  BY DEF IdentityInv, EvidenceInv, NetworkInv, TypeOK
<1> QED  BY <1>1, IdentityInvariant, PTL

\* Every shown name is supported by evidence of the strongest kind there is, and,
\* until a restart rebuilds the address index, no machine is given another's
\* name: resolve, rescore and attribute for any machines, addresses and names.
THEOREM NamesEarned == Spec => []NamesAreEarned
<1>1. IdentityInv => NameMatchesEvidence
  <2> SUFFICES ASSUME IdentityInv, NEW d \in Devices, entry[d] # None
      PROVE  LET e == entry[d] IN
               /\ RankOf(e.identity) = RankOf(Resolve(e.signals))
               /\ e.identity # None => Contains(e.signals, e.identity)
               /\ e.pending # None =>
                    /\ e.pending.name # e.identity
                    /\ Contains(e.signals, e.pending.name)
                    /\ RankOf(e.pending.name) = RankOf(e.identity)
    BY DEF NameMatchesEvidence
  <2>1. EntryInv(entry[d])
    BY DEF IdentityInv, EvidenceInv
  <2>2. entry[d].signals \in Seq(Names)
    BY <2>1 DEF EntryInv, Entries, NameOrders, Orders
  <2>3. \A n : Contains(entry[d].signals, n) <=> n \in Range(entry[d].signals)
    BY <2>2, ContainsIsRange
  <2> QED  BY <2>1, <2>3 DEF EntryInv
<1>2. IdentityInv => NamesStayHome
  BY DEF IdentityInv, ListeningInv, NamesStayHome, Misnamed, Range
<1>3. IdentityInv => NamesAreEarned
  BY <1>1, <1>2 DEF NamesAreEarned
<1> QED  BY <1>3, IdentityInvariant, PTL

\* A name gives way to another of its rank only after the settle window, and a
\* restart never shows a name of a lower rank: rescore, add_signal and restore.
THEOREM NamesLasting == Spec => NamesLast
<1>1. [][NamesLastStep]_vars => NoFlapping
  <2>1. [NamesLastStep]_vars =>
          [\A d \in Devices :
             (restarts' = restarts /\ entry[d] # None /\ entry[d].identity # entry'[d].identity
                /\ RankOf(entry[d].identity) = RankOf(entry'[d].identity))
             => Settled(won[d])]_vars
    BY DEF NamesLastStep
  <2> QED  BY <2>1, PTL DEF NoFlapping
<1>2. [][NamesLastStep]_vars => RestartKeepsTheRank
  <2>1. [NamesLastStep]_vars =>
          [restarts' # restarts =>
             \A d \in Devices : entry[d] # None =>
               /\ entry'[d] # None
               /\ RankOf(entry'[d].identity) >= RankOf(entry[d].identity)]_vars
    BY DEF NamesLastStep
  <2> QED  BY <2>1, PTL DEF RestartKeepsTheRank
<1> QED  BY <1>1, <1>2, IdentityInvariant, PTL DEF NamesLast
===============================================================================
