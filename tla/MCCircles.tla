------------------------------ MODULE MCCircles ------------------------------
(* Two circles, three people, two transactions at a time.  No person,       *)
(* circle, transaction or code is special.                                  *)
EXTENDS Circles, TLC

Symmetry == Permutations(Users) \cup Permutations(Circles) \cup Permutations(Txs) \cup Permutations(Codes)

=============================================================================
