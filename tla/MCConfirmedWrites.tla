-------------------------- MODULE MCConfirmedWrites --------------------------
(* Instances of ConfirmedWrites for TLC. *)
EXTENDS ConfirmedWrites, TLC

CONSTANTS c1, c2, k1, k2, k3, b1, i1, i2, m1, m2

\* Two calls retry or race for one confirmation, a third is for the other one.
TwoAndOne == [k \in Call |-> IF k = k3 THEN c2 ELSE c1]
TwoItems == [b \in Batch |-> {i1, i2}]
\* The two calls for one confirmation are alike, and so are items and candidates.
Alike == Permutations({k1, k2}) \cup Permutations({i1, i2}) \cup Permutations({m1, m2})
=============================================================================
