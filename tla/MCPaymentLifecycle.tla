------------------------- MODULE MCPaymentLifecycle --------------------------
(* Instances of PaymentLifecycle for TLC. *)
EXTENDS PaymentLifecycle, TLC

CONSTANTS h1, h2

YocoThenOzow == <<"YOCO", "OZOW">>
JustYoco == <<"YOCO">>
PaystackThenOzow == <<"PAYSTACK", "OZOW">>

Symmetry == Permutations({h1, h2})
=============================================================================
