----------------------------- MODULE MCIdentity -----------------------------
EXTENDS Identity, TLC
CONSTANTS d1, d2, inst, host, ptr, a1, a2

\* Every name is the first machine's; the second one answers for it.  Two of
\* them rank alike, the resolver's is weaker.
MCOwner == [n \in Names |-> d1]
MCRank == [n \in Names |-> IF n = ptr THEN 1 ELSE 2]
MCSymmetry == Permutations(Addresses)
=============================================================================
