---------------------------- MODULE MCLiveSession ----------------------------
(* A teacher and two people whose roles start out in every combination.     *)
EXTENDS LiveSession, TLC

CONSTANTS t, a, b, k1, k2

\* The two people and the two keys may be exchanged; the owner may not.
Symmetry == Permutations({a, b}) \cup Permutations({k1, k2})

=============================================================================
