------------------------- MODULE MCSignupFulfilment --------------------------
(* Instances of SignupFulfilment for TLC. *)
EXTENDS SignupFulfilment, TLC

CONSTANTS h1, h2, s1, s2

Symmetry == Permutations({h1, h2}) \cup Permutations({s1, s2})
=============================================================================
