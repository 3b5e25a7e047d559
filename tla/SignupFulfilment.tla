-------------------------- MODULE SignupFulfilment ---------------------------
(***************************************************************************)
(* What a paid merchant signup sets off: fulfillPaidSignupPayment issues   *)
(* the first API key, activates the merchant and its users, and marks the  *)
(* payment as fulfilled, in separate statements and in no transaction.     *)
(*                                                                         *)
(* The mark lives in rawGateway, a JSON column that every status writer of *)
(* the payment reads before its await and writes back whole after it.  A   *)
(* merchant may have several signup payments (the request may name its own *)
(* reference).  The handlers of Procs overlap and may stop at any await.   *)
(***************************************************************************)
EXTENDS Integers, FiniteSets

CONSTANTS Procs,      \* handlers that run at the same time
          Payments,   \* the signup payments of one merchant
          MaxKeys     \* bound on the API keys issued

ASSUME ProcsAssumption == IsFiniteSet(Procs)

ASSUME MaxKeysAssumption == MaxKeys \in Nat

VARIABLES paid,      \* paid[s]: the payment's status is PAID
          flow,      \* rawGateway.publicFlow: "none" before the signup is marked
          active,    \* merchant.isActive
          users,     \* isActive of the merchant's users
          keys,      \* API keys of the merchant, none ever revoked
          pc, loc    \* where each handler stands and what it read

vars == <<paid, flow, active, users, keys, pc, loc>>

-----------------------------------------------------------------------------

Flows == {"none", "PENDING", "COMPLETED"}
Steps == {"idle", "status", "fulfil", "merchant", "findKey", "createKey",
          "activate", "users", "complete"}

\* snap, mark, active: what the handler of payment s read of it and of the merchant.
Locals == [s : Payments \cup {"none"}, snap : BOOLEAN, mark : Flows, active : BOOLEAN]
Idle == [s |-> "none", snap |-> FALSE, mark |-> "none", active |-> FALSE]

At(p, step) == pc[p] = step

Goto(p, step, local) ==
    /\ pc' = [pc EXCEPT ![p] = step]
    /\ loc' = [loc EXCEPT ![p] = local]

Step(p, from, to) == At(p, from) /\ Goto(p, to, loc[p])

Read(s) == [s |-> s, snap |-> paid[s], mark |-> flow[s], active |-> FALSE]

Leave(p) == Goto(p, "idle", Idle)

-----------------------------------------------------------------------------
(* The payment's side *)

\* The last write of initiatePublicOzowSignup, first or repeated: the fulfilment is
\* PENDING again whatever it was, also if the payment is PAID.
InitiatePublicOzowSignup(p, s) ==
    /\ At(p, "idle")
    /\ flow' = [flow EXCEPT ![s] = "PENDING"]
    /\ UNCHANGED <<paid, active, users, keys, pc, loc>>

\* A lookup or an Ozow notification reads the payment and awaits Ozow.
StatusRead(p, s) ==
    /\ At(p, "idle")
    /\ Goto(p, "status", Read(s))
    /\ UNCHANGED <<paid, flow, active, users, keys>>

\* Mutant: rawGateway is replaced instead of merged into.
ForgetsFlow(p) == "none"

\* Mutant: the payment's status is written where the mark belongs.
StatusAsMark(p) == IF loc[p].snap THEN "PAID" ELSE loc[p].mark

\* The rawGateway to write: merged into what was read before the await.
MergedFlow(p) == loc[p].mark

\* It writes the status, PAID or less, and rawGateway.  A lookup goes by the status
\* it read, a notification by the one in its transaction; from PAID nothing leads on.
StatusWrite(p, toPaid) ==
    LET s == loc[p].s IN
    /\ At(p, "status")
    /\ ~(loc[p].snap /\ paid[s])
    /\ paid' = [paid EXCEPT ![s] = toPaid]
    /\ flow' = [flow EXCEPT ![s] = MergedFlow(p)]
    /\ IF toPaid THEN Goto(p, "fulfil", loc[p]) ELSE Leave(p)
    /\ UNCHANGED <<active, users, keys>>

\* A notification of PAID for a payment it had read as PAID writes nothing, and
\* sets the fulfilment off again.
NotifiedAgain(p) ==
    /\ Step(p, "status", "fulfil")
    /\ loc[p].snap
    /\ UNCHANGED <<paid, flow, active, users, keys>>

-----------------------------------------------------------------------------
(* fulfillPaidSignupPayment *)

\* The payment must be PAID, of a signup, and not fulfilled.
FulfilRead(p) ==
    LET s == loc[p].s IN
    /\ At(p, "fulfil")
    /\ IF paid[s] /\ flow[s] = "PENDING" THEN Goto(p, "merchant", Read(s)) ELSE Leave(p)
    /\ UNCHANGED <<paid, flow, active, users, keys>>

ReadMerchant(p) ==
    /\ At(p, "merchant")
    /\ Goto(p, "findKey", [loc[p] EXCEPT !.active = active])
    /\ UNCHANGED <<paid, flow, active, users, keys>>

\* Mutant: a key is issued without looking for one.
NeverFound == FALSE

KeyFound == keys > 0

\* ensureInitialApiKey looks for a key ...
FindKey(p) ==
    /\ Step(p, "findKey", IF KeyFound THEN "activate" ELSE "createKey")
    /\ UNCHANGED <<paid, flow, active, users, keys>>

\* ... and creates one if it found none.
CreateKey(p) ==
    /\ Step(p, "createKey", "activate")
    /\ keys < MaxKeys
    /\ keys' = keys + 1
    /\ UNCHANGED <<paid, flow, active, users>>

\* The merchant, unless it was active when it was read.
ActivateMerchant(p) ==
    /\ Step(p, "activate", "users")
    /\ active' = (active \/ ~loc[p].active)
    /\ UNCHANGED <<paid, flow, users, keys>>

\* Mutant: the payment is marked before the users are activated.
MarksFirst(p) ==
    /\ Step(p, "users", "complete")
    /\ flow' = [flow EXCEPT ![loc[p].s] = "COMPLETED"]
    /\ UNCHANGED <<paid, active, users, keys>>

ActivateUsers(p) ==
    /\ Step(p, "users", "complete")
    /\ users' = TRUE
    /\ UNCHANGED <<paid, flow, active, keys>>

\* rawGateway as read, with the fulfilment's COMPLETED.
Complete(p) ==
    /\ At(p, "complete")
    /\ flow' = [flow EXCEPT ![loc[p].s] = "COMPLETED"]
    /\ Leave(p)
    /\ UNCHANGED <<paid, active, users, keys>>

-----------------------------------------------------------------------------

\* A handler stops: an exception, Ozow unreachable, a killed instance.
Abort(p) ==
    /\ ~At(p, "idle")
    /\ Leave(p)
    /\ UNCHANGED <<paid, flow, active, users, keys>>

\* The merchant is pending, its payments exist, none is marked yet.
Init ==
    /\ paid = [s \in Payments |-> FALSE]
    /\ flow = [s \in Payments |-> "none"]
    /\ active = FALSE /\ users = FALSE /\ keys = 0
    /\ pc = [p \in Procs |-> "idle"]
    /\ loc = [p \in Procs |-> Idle]

Fulfil(p) ==
    \/ FulfilRead(p)
    \/ ReadMerchant(p)
    \/ FindKey(p)
    \/ CreateKey(p)
    \/ ActivateMerchant(p)
    \/ ActivateUsers(p)
    \/ Complete(p)

Next ==
    \E p \in Procs :
        \/ \E s \in Payments : InitiatePublicOzowSignup(p, s) \/ StatusRead(p, s)
        \/ \E toPaid \in BOOLEAN : StatusWrite(p, toPaid)
        \/ NotifiedAgain(p)
        \/ Fulfil(p)
        \/ Abort(p)

Spec == Init /\ [][Next]_vars

-----------------------------------------------------------------------------
(* Properties *)

\* Every variable has its type.
TypeOK ==
    /\ paid \in [Payments -> BOOLEAN]
    /\ flow \in [Payments -> Flows]
    /\ active \in BOOLEAN /\ users \in BOOLEAN
    /\ keys \in 0..MaxKeys
    /\ pc \in [Procs -> Steps]
    /\ loc \in [Procs -> Locals]

\* A signup marked as fulfilled has its key, its merchant and its users active,
\* however handlers overlapped, stopped or wrote an old rawGateway back: whatever is
\* not ready can still be taken up by the next notification.
CompletedMeansReady ==
    \A s \in Payments : flow[s] = "COMPLETED" => keys > 0 /\ active /\ users

\* There is a key too many only for a handler too many: one at a time they issue one
\* key, also if a handler stops half-way and another takes it up, or the customer
\* initiates or pays again; and those that overlap no more than one each.
KeysPerHandler == keys <= Cardinality(Procs)

\* That a payment is a signup's is forgotten only by a status writer that read it
\* before it was marked so.
SignupRemembered ==
    [][\A s \in Payments : flow[s] # "none" /\ flow'[s] = "none" =>
        \E p \in Procs : pc[p] = "status" /\ pc'[p] # "status"
                          /\ loc[p].s = s /\ loc[p].mark = "none"]_vars
=============================================================================
