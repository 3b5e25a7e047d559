---------------------------- MODULE PaymentStatus ----------------------------
(***************************************************************************)
(* The vocabulary of a payment and the pure maps around it: the transition *)
(* table every status writer consults, and the translation of what each    *)
(* gateway says into a payment status and into an attempt status.          *)
(*                                                                         *)
(* A gateway's own words are abstracted to four provider states: what the  *)
(* transaction is ("pending", "paid", "failed", "cancelled"), next to      *)
(* "open" (a session nobody has used) and "none" (no session).             *)
(***************************************************************************)

\* enum GatewayProvider, less the two gateways no code path initialises.
GatewayProviders == {"PAYFAST", "OZOW", "YOCO", "PAYSTACK"}

\* The gateways a hosted checkout may select or be locked to.
SelectableGateways == GatewayProviders \ {"PAYFAST"}

\* The gateways whose last webhook is kept in rawGateway and outranks a lookup.
EventGateways == {"YOCO", "PAYSTACK"}

\* enum PaymentStatus; REFUNDED exists in the enum and nothing ever writes it.
Statuses == {"CREATED", "PENDING", "PAID", "FAILED", "CANCELLED"}

ProviderStates == {"none", "open", "pending", "paid", "failed", "cancelled"}

ProviderFinal == {"paid", "failed", "cancelled"}

AttemptStatuses == {"CREATED", "PENDING", "SUCCEEDED", "FAILED", "CANCELLED"}

-----------------------------------------------------------------------------

TransitionsFrom(from) ==
    CASE from = "CREATED" -> {"PENDING", "PAID", "FAILED", "CANCELLED"}
      [] from = "PENDING" -> {"PAID", "FAILED", "CANCELLED"}
      [] OTHER            -> {}

CanTransitionPaymentStatus(from, to) == from = to \/ to \in TransitionsFrom(from)

\* A payment moved by an initialisation keeps CREATED and otherwise reopens.
ReopenedStatus(status) == IF status = "CREATED" THEN "CREATED" ELSE "PENDING"

\* "none" where the code answers null and leaves the attempt as it is.
MapPaymentStatusToAttemptStatus(status) ==
    CASE status = "PAID"      -> "SUCCEEDED"
      [] status = "FAILED"    -> "FAILED"
      [] status = "CANCELLED" -> "CANCELLED"
      [] status = "PENDING"   -> "PENDING"
      [] OTHER                -> "none"

-----------------------------------------------------------------------------

\* PayFast and Ozow words share one shape: whatever is not final is PENDING.
MapItnStatus(state) ==
    CASE state = "paid"      -> "PAID"
      [] state = "failed"    -> "FAILED"
      [] state = "cancelled" -> "CANCELLED"
      [] OTHER               -> "PENDING"

\* Only charge.success and charge.failed are handled, the rest is acknowledged.
MapPaystackEvent(state) ==
    CASE state = "paid"   -> "PAID"
      [] state = "failed" -> "FAILED"
      [] OTHER            -> "none"

\* An event outside these three is refused ("Unsupported Yoco payment status").
MapYocoEventToPaymentStatus(state) ==
    CASE state = "paid"      -> "PAID"
      [] state = "failed"    -> "FAILED"
      [] state = "cancelled" -> "CANCELLED"
      [] OTHER               -> "none"

MapWebhook(gateway, state) ==
    CASE gateway = "PAYSTACK" -> MapPaystackEvent(state)
      [] gateway = "YOCO"     -> MapYocoEventToPaymentStatus(state)
      [] OTHER                -> MapItnStatus(state)

\* Mutant: whatever has not failed counts as complete.
NotFailedIsPaid(state) == IF state = "failed" THEN "FAILED" ELSE "PAID"

\* Ozow's lookup knows no cancelled transaction: it answers "pending" for one.
MapOzowLookup(state) ==
    CASE state = "paid"   -> "PAID"
      [] state = "failed" -> "FAILED"
      [] OTHER            -> "PENDING"

MapPaystackTransactionStatusToPaymentStatus(state) == MapItnStatus(state)

\* What a Yoco checkout can map to: completed with a payment id is PAID, expiry
\* (a matter of the clock) cancels anything else, "created" and "started" remain.
\* A failed lookup falls back on the stored checkout, which may know less.
MapYocoCheckoutStatus(paid) ==
    {"CREATED", "PENDING", "CANCELLED"} \cup (IF paid THEN {"PAID"} ELSE {})
=============================================================================
