---------------------------- MODULE MCConnections ----------------------------
(* Instances of Connections for TLC. *)
EXTENDS Connections, TLC

CONSTANTS p1, p2, m1, m2, old, new

\* The account the merchants began with has test keys, the other one live keys.
SomeKeyMode == (old :> "test") @@ (new :> "live")

Plain(a) == [account |-> a, encrypted |-> FALSE]

\* A merchant with Yoco and Paystack from before encryption, one with Ozow.
SomeLegacy ==
    [m \in Merchants |-> [g \in Gateways |->
        CASE m = m1 /\ g = "YOCO" -> [NoConnection EXCEPT !.public = old, !.mode = "test",
                                          !.secret = Plain(old), !.hook = Plain(old)]
          [] m = m1 /\ g = "PAYSTACK" -> [NoConnection EXCEPT !.mode = "test",
                                               !.secret = Plain(old)]
          [] m = m2 /\ g = "OZOW" -> [NoConnection EXCEPT !.public = old,
                                          !.secret = Plain(old), !.extra = Plain(old)]
          [] OTHER -> NoConnection]]

Symmetry == Permutations({p1, p2})
=============================================================================
