-------------------------------- MODULE Lists --------------------------------
(***************************************************************************)
(* Rearranged lists: what Vec::retain, a filter and a stable sort make of  *)
(* one.                                                                    *)
(***************************************************************************)
EXTENDS Integers, Sequences, FiniteSets

\* Some of the elements of q, each after those at the positions ahead of its own.
Arranged(q, ahead) ==
  LET place == [i \in DOMAIN ahead |-> Cardinality(ahead[i]) + 1]
  IN  [k \in 1..Cardinality(DOMAIN ahead) |-> q[CHOOSE i \in DOMAIN ahead : place[i] = k]]

\* The elements of q at the positions I.
Those(q, I) == Arranged(q, [i \in I |-> {j \in I : j < i}])
=============================================================================
