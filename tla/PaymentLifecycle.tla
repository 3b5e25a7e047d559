-------------------------- MODULE PaymentLifecycle ---------------------------
(***************************************************************************)
(* One payment row, its attempts and the webhook events about it, under    *)
(* every handler that writes them: the creation and its gateway loop, the  *)
(* hosted checkout's continue, initiateOzowPayment, failover, the status   *)
(* lookups of three gateways and the webhooks of four.                     *)
(*                                                                         *)
(* A handler is a process of Procs.  It reads the payment, awaits a        *)
(* gateway, and writes in a transaction; between the read and the write    *)
(* the other handlers run.  What it read stays in loc[p] (snap, raw), and  *)
(* the code decides and writes from that copy, as the transactions run     *)
(* at PostgreSQL's READ COMMITTED and lock no row they read.  The write    *)
(* and the commit are one step: a second writer of the same row waits for  *)
(* the first one's commit and then overwrites.                             *)
(*                                                                         *)
(* A handler may stop at any await (a gateway's error, an exception, a     *)
(* killed instance): Abort drops what it held, and its open transaction.   *)
(***************************************************************************)
EXTENDS PaymentStatus, Integers, Sequences

CONSTANTS Procs,           \* handlers that run at the same time
          Gateways,        \* the gateways the merchant has configured
          AutoOrder,       \* the eligible gateways in AUTO order
          PlanFallback,    \* the plan's "fallback" feature
          PlanManual,      \* the plan's "manualGatewaySelection" feature
          OzowVerifies,    \* the merchant has an Ozow API key
          MaxAttempts      \* bound on the attempts of the payment

ASSUME GatewaysAssumption == Gateways \subseteq GatewayProviders
ASSUME AutoOrderAssumption == AutoOrder \in Seq(Gateways \cap SelectableGateways)
ASSUME PlanAssumption ==
    PlanFallback \in BOOLEAN /\ PlanManual \in BOOLEAN /\ OzowVerifies \in BOOLEAN
ASSUME MaxAttemptsAssumption == MaxAttempts \in Nat

VARIABLES payment,    \* [status, gateway, raw]: the Payment row
          attempts,   \* the PaymentAttempt rows, oldest first
          session,    \* session[i]: the provider's side of attempts[i]
          processed,  \* keys of the WebhookEvent rows committed
          pc, loc     \* where each handler stands and what it read

vars == <<payment, attempts, session, processed, pc, loc>>

-----------------------------------------------------------------------------
(* Data *)

Requests == SelectableGateways \cup {"AUTO", "PAYFAST"}

\* What the guards read of rawGateway: the gateway asked for ("AUTO" = none),
\* whether a redirect was handed out, the last webhook status of each gateway.
Raws == [requested : Requests, handoff : BOOLEAN,
         event : [EventGateways -> Statuses \cup {"none"}]]

NoEvent == [g \in EventGateways |-> "none"]
NullRaw == [requested |-> "AUTO", handoff |-> FALSE, event |-> NoEvent]

Attempts == [gateway : GatewayProviders, status : AttemptStatuses, url : BOOLEAN]

\* A webhook event's unique key (provider, providerEventId).  PayFast's and
\* Ozow's is the transaction's id alone, whatever the status it reports.
Keys == [txn : Nat, word : ProviderStates]
EventKey(gateway, i, state) ==
    [txn |-> i, word |-> IF gateway \in EventGateways THEN state ELSE "none"]

Steps == {"idle", "init", "ozow", "failover", "lookup", "sync", "hook", "tx"}

Locals == [gateway : GatewayProviders, target : Statuses \cup {"none"},
           snap : Statuses, raw : Raws, requested : Requests,
           cands : Seq(GatewayProviders), key : Keys]

NoKey == [txn |-> 0, word |-> "none"]
Idle == [gateway |-> "OZOW", target |-> "none", snap |-> "CREATED", raw |-> NullRaw,
         requested |-> "AUTO", cands |-> << >>, key |-> NoKey]

Exists == payment.status # "ABSENT"
Funded == \E i \in DOMAIN session : session[i] = "paid"
SessionsOf(g) == {i \in DOMAIN attempts : attempts[i].gateway = g /\ attempts[i].url}

\* A handler's first read of the payment.
Reads == [Idle EXCEPT !.snap = payment.status, !.raw = payment.raw]

Enter(p, step, local) ==
    /\ pc[p] = "idle"
    /\ pc' = [pc EXCEPT ![p] = step]
    /\ loc' = [loc EXCEPT ![p] = local]

Leave(p) ==
    /\ pc' = [pc EXCEPT ![p] = "idle"]
    /\ loc' = [loc EXCEPT ![p] = Idle]

-----------------------------------------------------------------------------
(* Attempts *)

Open == {"CREATED", "PENDING"}

\* updateMany over the open attempts at the superseded gateways.
CancelOpenAttempts(superseded) ==
    [i \in DOMAIN attempts |->
        IF attempts[i].status \in Open /\ attempts[i].gateway \in superseded
        THEN [attempts[i] EXCEPT !.status = "CANCELLED"] ELSE attempts[i]]

\* A new attempt at g with its redirect, and the session the gateway opened for it.
AddAttempt(kept, g) ==
    /\ Len(attempts) < MaxAttempts
    /\ attempts' = Append(kept, [gateway |-> g, status |-> "CREATED", url |-> TRUE])
    /\ session' = Append(session, "open")

\* Mutant: the oldest attempt is looked up instead of the newest.
OldestAttemptFollows(status) ==
    LET to == MapPaymentStatusToAttemptStatus(status)
    IN  IF attempts = << >> \/ to = "none" THEN attempts
        ELSE [attempts EXCEPT ![1].status = to]

\* The newest attempt follows the payment's status, whichever gateway reported it.
LatestAttemptFollows(status) ==
    LET to == MapPaymentStatusToAttemptStatus(status)
    IN  IF attempts = << >> \/ to = "none" THEN attempts
        ELSE [attempts EXCEPT ![Len(attempts)].status = to]

\* Mutant: no look whether a checkout has started.
NeverStarted == FALSE

HasProviderCheckoutStarted ==
    \/ payment.raw.handoff
    \/ attempts # << >> /\ attempts[Len(attempts)].url

Untried(g) ==
    g # payment.gateway /\ \A i \in DOMAIN attempts : attempts[i].gateway # g

\* The first gateway in AUTO order that no attempt has tried, if there is one.
NextUntried ==
    {AutoOrder[i] : i \in {k \in DOMAIN AutoOrder :
        Untried(AutoOrder[k]) /\ \A j \in 1..(k - 1) : ~Untried(AutoOrder[j])}}

-----------------------------------------------------------------------------
(* Creation and the gateway loop *)

\* routingEngine.decide: the candidates of a request, none where it throws.
Decide(request) ==
    IF request = "AUTO" THEN AutoOrder
    ELSE IF request \in Gateways THEN <<request>> ELSE << >>

\* createPayment up to the gateway loop; the row is visible from here on.
CreatePayment(p, request) ==
    /\ ~Exists
    /\ request # "AUTO" => PlanManual
    /\ Decide(request) # << >>
    /\ payment' = [status |-> "CREATED", gateway |-> Head(Decide(request)), raw |-> NullRaw]
    /\ Enter(p, "init", [Idle EXCEPT !.requested = request, !.cands = Decide(request)])
    /\ UNCHANGED <<attempts, session, processed>>

\* initializePaymentGatewayWithFallback, the gateway answers with a session.
InitSucceeds(p) ==
    LET g == Head(loc[p].cands) IN
    /\ pc[p] = "init"
    /\ AddAttempt(CancelOpenAttempts(GatewayProviders), g)
    /\ payment' = [status  |-> ReopenedStatus(loc[p].snap),
                   gateway |-> g,
                   raw     |-> [loc[p].raw EXCEPT !.requested = loc[p].requested,
                                                  !.handoff = TRUE]]
    /\ Leave(p)
    /\ UNCHANGED processed

\* ... or fails: a FAILED attempt without redirect, then the next candidate.
InitFails(p) ==
    /\ pc[p] = "init"
    /\ Len(attempts) < MaxAttempts
    /\ attempts' = Append(attempts, [gateway |-> Head(loc[p].cands),
                                     status |-> "FAILED", url |-> FALSE])
    /\ session' = Append(session, "none")
    /\ payment' = [payment EXCEPT
                    !.raw = [loc[p].raw EXCEPT !.requested = loc[p].requested]]
    /\ IF loc[p].requested = "AUTO" /\ Len(loc[p].cands) > 1 /\ PlanFallback
       THEN /\ loc' = [loc EXCEPT ![p].cands = Tail(@)]
            /\ UNCHANGED pc
       ELSE Leave(p)
    /\ UNCHANGED processed

-----------------------------------------------------------------------------
(* Reopening an existing payment *)

\* continueHostedCheckout(token, request): "AUTO" stands for no request as well.
ContinueHostedCheckout(p, request) ==
    LET stored == IF payment.raw.requested \in SelectableGateways
                  THEN payment.raw.requested ELSE "AUTO"
        wanted == IF request = "AUTO" THEN stored ELSE request
        cands  == Decide(wanted)
    IN  /\ Exists
        /\ stored # "AUTO" => wanted = stored
        /\ stored = "AUTO" /\ wanted # "AUTO" => PlanManual
        /\ payment.status # "PAID"
        /\ cands # << >>
        /\ ~(payment.gateway = Head(cands) /\ HasProviderCheckoutStarted)
        /\ Enter(p, "init", [Reads EXCEPT !.requested = wanted, !.cands = cands])
        /\ UNCHANGED <<payment, attempts, session, processed>>

\* initiateOzowPayment for a reference that exists.
InitiateOzowPayment(p) ==
    /\ Exists
    /\ "OZOW" \in Gateways
    /\ payment.gateway = "OZOW"
    /\ payment.status # "PAID"
    /\ Enter(p, "ozow", Reads)
    /\ UNCHANGED <<payment, attempts, session, processed>>

\* Its transaction leaves the attempts that are open as they are.
InitiateOzowCommit(p) ==
    /\ pc[p] = "ozow"
    /\ AddAttempt(attempts, "OZOW")
    /\ payment' = [status  |-> ReopenedStatus(loc[p].snap),
                   gateway |-> "OZOW",
                   raw     |-> [loc[p].raw EXCEPT !.requested = "OZOW", !.handoff = TRUE]]
    /\ Leave(p)
    /\ UNCHANGED processed

\* createFailoverAttempt, on request or from the cancel and error pages.
Failover(p) ==
    /\ Exists
    /\ payment.status # "PAID"
    /\ payment.raw.requested = "AUTO"
    /\ ~HasProviderCheckoutStarted
    /\ PlanFallback
    /\ \E g \in NextUntried : Enter(p, "failover", [Reads EXCEPT !.cands = <<g>>])
    /\ UNCHANGED <<payment, attempts, session, processed>>

FailoverCommit(p) ==
    LET g == Head(loc[p].cands) IN
    /\ pc[p] = "failover"
    /\ AddAttempt(CancelOpenAttempts(GatewayProviders \ {g}), g)
    /\ payment' = [status  |-> "PENDING",
                   gateway |-> g,
                   raw     |-> [loc[p].raw EXCEPT !.handoff = TRUE]]
    /\ Leave(p)
    /\ UNCHANGED processed

-----------------------------------------------------------------------------
(* Status lookups: getOzowPaymentStatus, getPaystackPaymentStatus, getYocoPaymentStatus *)

LookupGateways == Gateways \cap SelectableGateways

\* The first read; the gateway is asked next.
LookupRead(p, g) ==
    /\ Exists
    /\ payment.gateway = g
    /\ Enter(p, "lookup", [Reads EXCEPT !.gateway = g])
    /\ UNCHANGED <<payment, attempts, session, processed>>

\* What the lookup may conclude: for Paystack and Yoco a stored webhook event wins.
LookupConcludes(g, raw) ==
    CASE g = "OZOW" -> {MapOzowLookup(session[i]) : i \in SessionsOf(g)}
      [] g \in EventGateways /\ raw.event[g] # "none" -> {raw.event[g]}
      [] g = "PAYSTACK" ->
            {MapPaystackTransactionStatusToPaymentStatus(session[i]) : i \in SessionsOf(g)}
      [] g = "YOCO" -> IF SessionsOf(g) = {} THEN {"CANCELLED"}
                       ELSE MapYocoCheckoutStatus(\E i \in SessionsOf(g) : session[i] = "paid")
      [] OTHER -> {}

\* Mutant: the answer is taken without consulting the transition table.
LookupAnswerUnchecked(p) ==
    /\ pc[p] = "lookup"
    /\ \E to \in LookupConcludes(loc[p].gateway, loc[p].raw) :
        /\ pc' = [pc EXCEPT ![p] = "sync"]
        /\ loc' = [loc EXCEPT ![p].target = to]
    /\ UNCHANGED <<payment, attempts, session, processed>>

\* The answer arrives and is weighed against the status read before the await.
LookupAnswer(p) ==
    /\ pc[p] = "lookup"
    /\ \E to \in LookupConcludes(loc[p].gateway, loc[p].raw) :
        IF /\ CanTransitionPaymentStatus(loc[p].snap, to)
           /\ loc[p].gateway = "OZOW" => loc[p].snap # to
        THEN /\ pc' = [pc EXCEPT ![p] = "sync"]
             /\ loc' = [loc EXCEPT ![p].target = to]
        ELSE Leave(p)
    /\ UNCHANGED <<payment, attempts, session, processed>>

\* The write: the status only where it differs from the one read, the rest always.
SyncCommit(p) ==
    /\ pc[p] = "sync"
    /\ payment' = [status  |-> IF loc[p].snap # loc[p].target THEN loc[p].target
                               ELSE payment.status,
                   gateway |-> loc[p].gateway,
                   raw     |-> loc[p].raw]
    /\ attempts' = LatestAttemptFollows(loc[p].target)
    /\ Leave(p)
    /\ UNCHANGED <<session, processed>>

-----------------------------------------------------------------------------
(* Webhooks: handlePayfastWebhook, handleOzowWebhook, handleYocoWebhook, *)
(* handlePaystackWebhook and their persistAndApply transactions          *)

\* What the gateway may say of session i, at any time and any number of times:
\* its state, or, late, that it was pending.
Says(i, state) ==
    /\ session[i] \notin {"none", "open"}
    /\ state \in {"pending", session[i]}

\* The status the handler takes from the notification.  With an Ozow API key the
\* notification is only a hint: the transaction is looked up and its state counts.
TakenStatus(g, state, to) ==
    IF g = "OZOW" /\ OzowVerifies
    THEN \E i \in SessionsOf(g) : to = MapWebhook(g, session[i])
    ELSE to = MapWebhook(g, state)

\* The notification is verified against the payment as it is now; the rawGateway
\* to write is built from this read, before the transaction (PayFast replaces it).
WebhookReceived(p, i, state, to) ==
    LET g == attempts[i].gateway IN
    /\ Says(i, state)
    /\ MapWebhook(g, state) # "none"
    /\ TakenStatus(g, state, to)
    /\ Enter(p, "hook",
             [Reads EXCEPT
                !.gateway = g, !.target = to, !.key = EventKey(g, i, state),
                !.raw = IF g = "PAYFAST" THEN NullRaw
                        ELSE IF g \in EventGateways THEN [payment.raw EXCEPT !.event[g] = to]
                        ELSE payment.raw])
    /\ UNCHANGED <<payment, attempts, session, processed>>

Claimed(key) == \E q \in Procs : pc[q] = "tx" /\ loc[q].key = key

\* Mutant: the event row has no unique key to wait on.
NeverClaimed(key) == FALSE

\* The unique index makes a second insert of a key wait for the first transaction.
Blocked(key) == Claimed(key)

\* Mutant: PAID is overwritten, only a second PAID is recognised.
AppliesAnythingNew(snap, to) == ~(snap = "PAID" /\ to = "PAID")

\* The transaction's decision on the status it reads.
Applies(snap, to) ==
    /\ ~(snap = "PAID" /\ to = "PAID")
    /\ CanTransitionPaymentStatus(snap, to)

\* The transaction finds the event (deduplicated), or inserts it and reads the
\* payment; an event that does not apply is marked processed and nothing else.
WebhookBegin(p) ==
    /\ pc[p] = "hook"
    /\ ~Blocked(loc[p].key)
    /\ IF loc[p].key \in processed
       THEN Leave(p) /\ UNCHANGED processed
       ELSE IF Applies(payment.status, loc[p].target)
       THEN /\ pc' = [pc EXCEPT ![p] = "tx"]
            /\ loc' = [loc EXCEPT ![p].snap = payment.status]
            /\ UNCHANGED processed
       ELSE /\ processed' = processed \cup {loc[p].key}
            /\ Leave(p)
    /\ UNCHANGED <<payment, attempts, session>>

\* The writes and the commit, with the event's processedAt.
WebhookCommit(p) ==
    LET l == loc[p] IN
    /\ pc[p] = "tx"
    /\ payment' = [status  |-> IF l.gateway \in EventGateways /\ l.snap = l.target
                               THEN payment.status ELSE l.target,
                   gateway |-> l.gateway,
                   raw     |-> l.raw]
    /\ attempts' = LatestAttemptFollows(l.target)
    /\ processed' = processed \cup {l.key}
    /\ Leave(p)
    /\ UNCHANGED session

-----------------------------------------------------------------------------
(* Failures, the gateways' side, and the whole *)

Abort(p) ==
    /\ pc[p] # "idle"
    /\ Leave(p)
    /\ UNCHANGED <<payment, attempts, session, processed>>

\* The customer pays, fails or walks away at a gateway, in whatever session it
\* left open: the gateways know nothing of an attempt superseded here.
GatewayMoves(i, state) ==
    /\ session[i] \in {"open", "pending"}
    /\ state \in (ProviderFinal \cup {"pending"}) \ {session[i]}
    /\ session' = [session EXCEPT ![i] = state]
    /\ UNCHANGED <<payment, attempts, processed, pc, loc>>

Init ==
    /\ payment = [status |-> "ABSENT", gateway |-> "none", raw |-> NullRaw]
    /\ attempts = << >>
    /\ session = << >>
    /\ processed = {}
    /\ pc = [p \in Procs |-> "idle"]
    /\ loc = [p \in Procs |-> Idle]

Handler(p) ==
    \/ \E request \in Requests : CreatePayment(p, request)
    \/ \E request \in SelectableGateways \cup {"AUTO"} : ContinueHostedCheckout(p, request)
    \/ InitSucceeds(p)
    \/ InitFails(p)
    \/ InitiateOzowPayment(p)
    \/ InitiateOzowCommit(p)
    \/ Failover(p)
    \/ FailoverCommit(p)
    \/ \E g \in LookupGateways : LookupRead(p, g)
    \/ LookupAnswer(p)
    \/ SyncCommit(p)
    \/ \E i \in DOMAIN session, state \in ProviderFinal \cup {"pending"}, to \in Statuses :
            WebhookReceived(p, i, state, to)
    \/ WebhookBegin(p)
    \/ WebhookCommit(p)
    \/ Abort(p)

Next ==
    \/ \E p \in Procs : Handler(p)
    \/ \E i \in DOMAIN session, state \in ProviderStates : GatewayMoves(i, state)

Spec == Init /\ [][Next]_vars

-----------------------------------------------------------------------------
(* Properties *)

\* Every variable has its type.
TypeOK ==
    /\ payment \in [status : Statuses \cup {"ABSENT"}, gateway : GatewayProviders \cup {"none"},
                    raw : Raws]
    /\ attempts \in Seq(Attempts)
    /\ session \in Seq(ProviderStates)
    /\ Len(session) = Len(attempts)
    /\ processed \subseteq Keys
    /\ pc \in [Procs -> Steps]
    /\ loc \in [Procs -> Locals]

\* A payment is PAID only if a gateway has captured the money in one of the
\* sessions opened for it: no retry, failover, stale lookup, stored event or
\* reordered webhook marks an unpaid order as paid.
PaidOnlyIfFunded == payment.status = "PAID" => Funded

\* Two deliveries of one event (same provider and event id) never both apply:
\* while one is in its transaction no other is, and none is once it committed.
EventAppliedOnce ==
    \A p \in Procs : pc[p] = "tx" =>
        /\ loc[p].key \notin processed
        /\ \A q \in Procs \ {p} : pc[q] = "tx" => loc[q].key # loc[p].key

\* The handlers' status discipline, overlaps included: a handler whose read is
\* still current moves the status along the transition table, or reopens a failed
\* or cancelled payment for a new session.  Whatever else happens to a status
\* (PAID undone, a terminal state left) is the work of a handler whose read has
\* been overtaken by another's commit.
StatusOrderly ==
    \A p \in Procs :
        /\ pc'[p] # pc[p]
        /\ loc[p].snap = payment.status
        /\ payment'.status # payment.status
        => \/ CanTransitionPaymentStatus(payment.status, payment'.status)
           \/ /\ pc[p] \in {"init", "ozow", "failover"}
              /\ payment.status \in {"FAILED", "CANCELLED"}
              /\ payment'.status = "PENDING"

OrderlyUnlessOvertaken == [][StatusOrderly]_vars

\* With one handler at a time, a PAID payment's newest attempt is the SUCCEEDED one.
PaidAttemptSucceeded ==
    payment.status = "PAID" =>
        attempts # << >> /\ attempts[Len(attempts)].status = "SUCCEEDED"

\* With one handler at a time the payment follows its abstract machine.
Promise == INSTANCE PaymentPromise WITH status <- payment.status, funded <- Funded
PromiseKept == Promise!Spec

\* A PAID payment stays PAID (the tests: "ignores illegal transition from PAID to FAILED").
PaidIsFinal == [][payment.status = "PAID" => payment'.status = "PAID"]_vars

\* PayFast's notification of a session has been applied or acknowledged.
PayfastSpoke ==
    \E i \in DOMAIN attempts :
        attempts[i].gateway = "PAYFAST" /\ EventKey("PAYFAST", i, session[i]) \in processed

\* With one handler at a time, a failover opens no session once a checkout was handed out,
\* though the newest attempt is a failed one and whatever was merged into rawGateway since
\* (the tests: "does not fail over after provider checkout has already started").  Only
\* PayFast's notification, which replaces rawGateway, makes the payment forget it.
NoFailoverAfterHandoff ==
    [][\A p \in Procs : pc[p] = "failover" /\ attempts' # attempts /\ pc'[p] = "idle"
        => PayfastSpoke \/ \A i \in DOMAIN attempts : ~attempts[i].url]_vars
=============================================================================
