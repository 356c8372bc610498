-------------------------- MODULE MCContextKeeper ---------------------------
(* Instances of ContextKeeper for TLC: two projects of one name, of which  *)
(* one may be registered by version 1, under the path of the other.       *)
EXTENDS ContextKeeper, TLC
CONSTANTS p1, p2, n1, d1, d2, t1, t2, c1, c2

MCCandidates == [n \in {n1} |-> <<d1, d2>>]
MCLegacyPath == [d \in {d1, d2} |-> IF d = d1 THEN p2 ELSE NoPath]
MCLegacyIndex == [p \in {p1, p2} |-> IF p = p1 THEN d1 ELSE NoDir]

KeeperSymmetry == Permutations({c1, c2}) \cup Permutations({t1, t2})
=============================================================================
