--------------------------- MODULE PaymentPromise ----------------------------
(***************************************************************************)
(* What the payment API promises of one payment when its handlers do not   *)
(* overlap: a status machine in which PAID is final, is reached only after *)
(* some provider has captured the money, and in which a payment that       *)
(* failed or was cancelled is revived only by a new checkout session.      *)
(***************************************************************************)
EXTENDS PaymentStatus

VARIABLES status,   \* "ABSENT" before the payment row exists
          funded    \* a provider has captured the customer's money

vars == <<status, funded>>

Init == status = "ABSENT" /\ funded = FALSE

Create ==
    /\ status = "ABSENT"
    /\ status' = "CREATED"
    /\ UNCHANGED funded

Capture ==
    /\ status # "ABSENT"
    /\ funded' = TRUE
    /\ UNCHANGED status

\* A webhook or a lookup reports a status.
Report(to) ==
    /\ status \in Statuses \ {to}
    /\ CanTransitionPaymentStatus(status, to)
    /\ to = "PAID" => funded
    /\ status' = to
    /\ UNCHANGED funded

\* A new session is opened for a payment that had failed or was cancelled.
Reopen ==
    /\ status \in {"FAILED", "CANCELLED"}
    /\ status' = "PENDING"
    /\ UNCHANGED funded

Next == Create \/ Capture \/ Reopen \/ \E to \in Statuses : Report(to)

Spec == Init /\ [][Next]_vars
=============================================================================
