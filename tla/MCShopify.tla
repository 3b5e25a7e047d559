------------------------------ MODULE MCShopify ------------------------------
(* Instances of Shopify for TLC. *)
EXTENDS Shopify, TLC

CONSTANTS r1, r2, uninstalled

\* A shopper in trouble with a payment.
SomeTexts == {{"problem", "payment"}}

Symmetry == Permutations({r1, r2})
=============================================================================
