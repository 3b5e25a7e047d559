------------------------------ MODULE MCPayouts ------------------------------
(* Instances of Payouts for TLC. *)
EXTENDS Payouts, TLC

CONSTANTS c1, c2, h1, h2, k1, r1, r2

Symmetry == Permutations({c1, c2}) \cup Permutations({h1, h2}) \cup Permutations({r1, r2})
=============================================================================
