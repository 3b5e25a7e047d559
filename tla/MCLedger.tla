------------------------------- MODULE MCLedger ------------------------------
(* Instances of Ledger for TLC: one payment with a platform fee, one without. *)
EXTENDS Ledger, TLC

CONSTANTS w1, w2, withFee, noFee

NetOf == (withFee :> 3) @@ (noFee :> 5)
FeeOf == (withFee :> 1) @@ (noFee :> 0)

Symmetry == Permutations({w1, w2})
=============================================================================
