----------------------- MODULE PaymentLifecycleProofs ------------------------
(***************************************************************************)
(* Theorems of PaymentLifecycle, for every set of handlers, every gateway  *)
(* configuration and every bound on the attempts.                          *)
(***************************************************************************)
EXTENDS PaymentLifecycle, TLAPS

-----------------------------------------------------------------------------
(* The inductive strengthening of TypeOK *)

\* Handlers and attempts only ever belong to a payment that exists.
Started ==
    /\ attempts # << >> => Exists
    /\ \A p \in Procs : pc[p] # "idle" => Exists

\* What a handler needs for its next step was set when it took the last one.
Armed ==
    \A p \in Procs :
        /\ pc[p] \in {"init", "failover"} => loc[p].cands # << >>
        /\ pc[p] \in {"sync", "hook", "tx"} => loc[p].target \in Statuses

IInv == TypeOK /\ Started /\ Armed

-----------------------------------------------------------------------------
(* Lemmas *)

\* The AUTO order is a sequence of gateways.
LEMMA AutoOrderType == AutoOrder \in Seq(GatewayProviders)
  BY AutoOrderAssumption DEF SelectableGateways

\* What is left of two or more candidates is not empty.
LEMMA TailType ==
    ASSUME NEW S, NEW s \in Seq(S), Len(s) > 1
    PROVE  Tail(s) \in Seq(S) /\ Tail(s) # << >>
<1>1. Tail(s) \in Seq(S) /\ Len(Tail(s)) = Len(s) - 1 /\ Len(s) \in Nat
  OBVIOUS
<1>2. Len(Tail(s)) # 0
  BY <1>1
<1>3. Len(<< >>) = 0
  OBVIOUS
<1> QED
  BY <1>1, <1>2, <1>3

\* A request's candidates are gateways.
LEMMA DecideType ==
    ASSUME NEW request \in Requests
    PROVE  Decide(request) \in Seq(GatewayProviders)
  BY AutoOrderType, GatewaysAssumption DEF Decide, Requests

\* The locals a handler starts from are well typed.
LEMMA IdleType == NullRaw \in Raws /\ NoKey \in Keys /\ Idle \in Locals
  BY DEF NullRaw, NoEvent, Raws, NoKey, Keys, Idle, Locals, Requests,
         SelectableGateways, GatewayProviders, Statuses, ProviderStates

LEMMA ReadsType ==
    ASSUME TypeOK, Exists
    PROVE  Reads \in Locals
  BY IdleType DEF TypeOK, Exists, Reads, Locals

\* Cancelling open attempts keeps their number and their type.
LEMMA CancelType ==
    ASSUME attempts \in Seq(Attempts), NEW superseded
    PROVE  /\ CancelOpenAttempts(superseded) \in Seq(Attempts)
           /\ Len(CancelOpenAttempts(superseded)) = Len(attempts)
<1> DEFINE kept == CancelOpenAttempts(superseded)
<1>1. DOMAIN attempts = 1..Len(attempts) /\ Len(attempts) \in Nat
  OBVIOUS
<1>2. \A i \in 1..Len(attempts) : attempts[i] \in Attempts
  OBVIOUS
<1>3. \A a \in Attempts : [a EXCEPT !.status = "CANCELLED"] \in Attempts
  BY DEF Attempts, AttemptStatuses
<1>4. kept \in [1..Len(attempts) -> Attempts]
  BY <1>1, <1>2, <1>3 DEF CancelOpenAttempts
<1> QED
  BY <1>1, <1>4

\* The newest attempt takes the status the payment's maps to.
LEMMA FollowType ==
    ASSUME attempts \in Seq(Attempts), NEW status \in Statuses
    PROVE  /\ LatestAttemptFollows(status) \in Seq(Attempts)
           /\ Len(LatestAttemptFollows(status)) = Len(attempts)
<1> DEFINE to == MapPaymentStatusToAttemptStatus(status)
<1>1. to \in AttemptStatuses \cup {"none"}
  BY DEF MapPaymentStatusToAttemptStatus, AttemptStatuses
<1>2. CASE attempts = << >> \/ to = "none"
  BY <1>2 DEF LatestAttemptFollows
<1>3. CASE attempts # << >> /\ to # "none"
  <2>1. Len(attempts) \in 1..Len(attempts) /\ attempts[Len(attempts)] \in Attempts
    BY <1>3
  <2>2. \A a \in Attempts : [a EXCEPT !.status = to] \in Attempts
    BY <1>1, <1>3 DEF Attempts
  <2>3. LatestAttemptFollows(status)
          = [attempts EXCEPT ![Len(attempts)] = [attempts[Len(attempts)] EXCEPT !.status = to]]
    BY <1>3 DEF LatestAttemptFollows
  <2> QED
    BY <2>1, <2>2, <2>3
<1> QED
  BY <1>2, <1>3

\* A new attempt keeps the attempts and the gateways' sessions aligned.
LEMMA AddType ==
    ASSUME TypeOK, NEW kept \in Seq(Attempts), Len(kept) = Len(attempts),
           NEW g \in GatewayProviders, AddAttempt(kept, g)
    PROVE  /\ attempts' \in Seq(Attempts)
           /\ session' \in Seq(ProviderStates)
           /\ Len(session') = Len(attempts')
<1>1. [gateway |-> g, status |-> "CREATED", url |-> TRUE] \in Attempts
  BY DEF Attempts, AttemptStatuses
<1>2. "open" \in ProviderStates
  BY DEF ProviderStates
<1> QED
  BY <1>1, <1>2 DEF AddAttempt, TypeOK

\* A handler that enters a step carries what that step needs.
LEMMA EnterType ==
    ASSUME TypeOK, Armed, NEW p \in Procs, NEW step \in Steps, NEW local \in Locals,
           step \in {"init", "failover"} => local.cands # << >>,
           step \in {"sync", "hook", "tx"} => local.target \in Statuses,
           Enter(p, step, local)
    PROVE  /\ pc' \in [Procs -> Steps]
           /\ loc' \in [Procs -> Locals]
           /\ Armed'
           /\ \A q \in Procs \ {p} : pc'[q] = pc[q]
  BY DEF TypeOK, Armed, Enter

\* A handler that ends is idle and has forgotten what it read.
LEMMA LeaveType ==
    ASSUME TypeOK, Armed, NEW p \in Procs, Leave(p)
    PROVE  /\ pc' \in [Procs -> Steps]
           /\ loc' \in [Procs -> Locals]
           /\ Armed'
           /\ \A q \in Procs : pc'[q] # "idle" => pc[q] # "idle"
<1>1. Idle \in Locals /\ "idle" \in Steps
  BY IdleType DEF Steps
<1> QED
  BY <1>1 DEF TypeOK, Armed, Leave

-----------------------------------------------------------------------------
(* Type correctness, one lemma per action that reads or writes *)

LEMMA CreatePaymentType ==
    ASSUME IInv, NEW p \in Procs, NEW request \in Requests, CreatePayment(p, request)
    PROVE  IInv'
<1> DEFINE local == [Idle EXCEPT !.requested = request, !.cands = Decide(request)]
<1>1. Decide(request) \in Seq(GatewayProviders) /\ Decide(request) # << >>
  BY DecideType DEF CreatePayment
<1>2. local \in Locals /\ local.cands # << >>
  BY <1>1, IdleType DEF Idle, Locals, Statuses
<1>3. Enter(p, "init", local) /\ "init" \in Steps
  BY DEF CreatePayment, Steps
<1>4. pc' \in [Procs -> Steps] /\ loc' \in [Procs -> Locals] /\ Armed'
  BY <1>2, <1>3, EnterType DEF IInv
<1>5. Head(Decide(request)) \in GatewayProviders
  BY <1>1
<1>6. TypeOK'
  BY <1>4, <1>5, IdleType DEF IInv, TypeOK, CreatePayment, Statuses
<1>7. Started'
  BY DEF Started, CreatePayment, Exists
<1> QED
  BY <1>4, <1>6, <1>7 DEF IInv

LEMMA InitSucceedsType ==
    ASSUME IInv, NEW p \in Procs, InitSucceeds(p)
    PROVE  IInv'
<1> DEFINE g == Head(loc[p].cands)
           kept == CancelOpenAttempts(GatewayProviders)
<1>1. g \in GatewayProviders
  BY DEF IInv, TypeOK, Armed, InitSucceeds, Locals
<1>2. kept \in Seq(Attempts) /\ Len(kept) = Len(attempts)
  BY CancelType DEF IInv, TypeOK
<1>3. /\ attempts' \in Seq(Attempts)
      /\ session' \in Seq(ProviderStates)
      /\ Len(session') = Len(attempts')
  BY <1>1, <1>2, AddType DEF IInv, InitSucceeds
<1>4. /\ pc' \in [Procs -> Steps] /\ loc' \in [Procs -> Locals] /\ Armed'
      /\ \A q \in Procs : pc'[q] # "idle" => pc[q] # "idle"
  BY LeaveType DEF IInv, InitSucceeds
<1>5. loc[p].raw \in Raws /\ loc[p].requested \in Requests
  BY DEF IInv, TypeOK, Locals
<1>6. [loc[p].raw EXCEPT !.requested = loc[p].requested, !.handoff = TRUE] \in Raws
  BY <1>5 DEF Raws
<1>7. TypeOK'
  BY <1>1, <1>3, <1>4, <1>6
  DEF IInv, TypeOK, InitSucceeds, ReopenedStatus, Statuses
<1>8. Started'
  BY DEF Started, InitSucceeds, Exists, ReopenedStatus
<1> QED
  BY <1>4, <1>7, <1>8 DEF IInv

LEMMA InitFailsType ==
    ASSUME IInv, NEW p \in Procs, InitFails(p)
    PROVE  IInv'
<1> DEFINE new == [gateway |-> Head(loc[p].cands), status |-> "FAILED", url |-> FALSE]
<1>1. /\ loc[p] \in Locals /\ loc[p].cands \in Seq(GatewayProviders)
      /\ loc[p].cands # << >>
  BY DEF IInv, TypeOK, Armed, InitFails, Locals
<1>2. new \in Attempts /\ "none" \in ProviderStates
  BY <1>1 DEF Attempts, AttemptStatuses, ProviderStates
<1>3. /\ attempts' \in Seq(Attempts)
      /\ session' \in Seq(ProviderStates)
      /\ Len(session') = Len(attempts')
  BY <1>2 DEF InitFails, IInv, TypeOK
<1>4. [loc[p].raw EXCEPT !.requested = loc[p].requested] \in Raws
  BY <1>1 DEF Locals, Raws
<1>5. /\ pc' \in [Procs -> Steps] /\ loc' \in [Procs -> Locals] /\ Armed'
      /\ \A q \in Procs : pc'[q] # "idle" => pc[q] # "idle"
  <2>1. CASE Leave(p)
    BY <2>1, LeaveType DEF IInv
  <2>2. CASE /\ Len(loc[p].cands) > 1
             /\ loc' = [loc EXCEPT ![p].cands = Tail(@)] /\ pc' = pc
    <3>1. Tail(loc[p].cands) \in Seq(GatewayProviders) /\ Tail(loc[p].cands) # << >>
      BY <1>1, <2>2, TailType
    <3>2. loc'[p] \in Locals
      BY <1>1, <2>2, <3>1 DEF IInv, TypeOK, Locals
    <3> QED
      BY <2>2, <3>1, <3>2 DEF IInv, TypeOK, Armed
  <2> QED
    BY <2>1, <2>2 DEF InitFails
<1>6. TypeOK'
  BY <1>3, <1>4, <1>5 DEF IInv, TypeOK, InitFails
<1>7. Started'
  BY <1>5 DEF IInv, TypeOK, Started, InitFails, Exists
<1> QED
  BY <1>5, <1>6, <1>7 DEF IInv

\* The steps that only read: the handler enters its next step, nothing is written.
LEMMA ReadingType ==
    ASSUME IInv, NEW p \in Procs, NEW step \in Steps, NEW local \in Locals, Exists,
           step \in {"init", "failover"} => local.cands # << >>,
           step \in {"sync", "hook", "tx"} => local.target \in Statuses,
           Enter(p, step, local), UNCHANGED <<payment, attempts, session, processed>>
    PROVE  IInv'
<1>1. /\ pc' \in [Procs -> Steps] /\ loc' \in [Procs -> Locals] /\ Armed'
      /\ \A q \in Procs \ {p} : pc'[q] = pc[q]
  BY EnterType DEF IInv
<1> QED
  BY <1>1 DEF IInv, TypeOK, Started, Exists

LEMMA ContinueType ==
    ASSUME IInv, NEW p \in Procs, NEW request \in SelectableGateways \cup {"AUTO"},
           ContinueHostedCheckout(p, request)
    PROVE  IInv'
<1>1. PICK wanted \in Requests :
        /\ Decide(wanted) # << >>
        /\ Enter(p, "init", [Reads EXCEPT !.requested = wanted, !.cands = Decide(wanted)])
  BY DEF ContinueHostedCheckout, Requests
<1>2. Exists /\ Reads \in Locals
  BY ReadsType DEF IInv, ContinueHostedCheckout
<1>3. [Reads EXCEPT !.requested = wanted, !.cands = Decide(wanted)] \in Locals
  BY <1>2, DecideType DEF Locals
<1>4. [Reads EXCEPT !.requested = wanted, !.cands = Decide(wanted)].cands # << >>
  BY <1>1, <1>2 DEF Locals
<1>5. UNCHANGED <<payment, attempts, session, processed>> /\ "init" \in Steps
  BY DEF ContinueHostedCheckout, Steps
<1> QED
  BY <1>1, <1>2, <1>3, <1>4, <1>5, ReadingType

LEMMA InitiateOzowType ==
    ASSUME IInv, NEW p \in Procs, InitiateOzowPayment(p)
    PROVE  IInv'
<1>1. Reads \in Locals /\ "ozow" \in Steps
  BY ReadsType DEF IInv, InitiateOzowPayment, Steps
<1> QED
  BY <1>1, ReadingType DEF InitiateOzowPayment

LEMMA InitiateOzowCommitType ==
    ASSUME IInv, NEW p \in Procs, InitiateOzowCommit(p)
    PROVE  IInv'
<1>1. /\ attempts' \in Seq(Attempts)
      /\ session' \in Seq(ProviderStates)
      /\ Len(session') = Len(attempts')
  BY AddType DEF IInv, TypeOK, InitiateOzowCommit, GatewayProviders
<1>2. /\ pc' \in [Procs -> Steps] /\ loc' \in [Procs -> Locals] /\ Armed'
      /\ \A q \in Procs : pc'[q] # "idle" => pc[q] # "idle"
  BY LeaveType DEF IInv, InitiateOzowCommit
<1>3. "OZOW" \in Requests /\ "OZOW" \in GatewayProviders
  BY DEF Requests, SelectableGateways, GatewayProviders
<1>4. loc[p].raw \in Raws
  BY DEF IInv, TypeOK, Locals
<1>5. [loc[p].raw EXCEPT !.requested = "OZOW", !.handoff = TRUE] \in Raws
  BY <1>3, <1>4 DEF Raws
<1>6. TypeOK'
  BY <1>1, <1>2, <1>3, <1>5
  DEF IInv, TypeOK, InitiateOzowCommit, ReopenedStatus, Statuses
<1>7. Started'
  BY DEF Started, InitiateOzowCommit, Exists, ReopenedStatus
<1> QED
  BY <1>2, <1>6, <1>7 DEF IInv

LEMMA FailoverType ==
    ASSUME IInv, NEW p \in Procs, Failover(p)
    PROVE  IInv'
<1>1. PICK g \in NextUntried : Enter(p, "failover", [Reads EXCEPT !.cands = <<g>>])
  BY DEF Failover
<1>2. g \in GatewayProviders
  BY AutoOrderType DEF NextUntried
<1>3. Exists /\ Reads \in Locals
  BY ReadsType DEF IInv, Failover
<1>4. <<g>> \in Seq(GatewayProviders) /\ <<g>> # << >>
  BY <1>2
<1>5. /\ [Reads EXCEPT !.cands = <<g>>] \in Locals
      /\ [Reads EXCEPT !.cands = <<g>>].cands = <<g>>
  BY <1>3, <1>4 DEF Locals
<1>6. UNCHANGED <<payment, attempts, session, processed>> /\ "failover" \in Steps
  BY DEF Failover, Steps
<1> QED
  BY <1>1, <1>3, <1>4, <1>5, <1>6, ReadingType

LEMMA FailoverCommitType ==
    ASSUME IInv, NEW p \in Procs, FailoverCommit(p)
    PROVE  IInv'
<1> DEFINE g == Head(loc[p].cands)
           kept == CancelOpenAttempts(GatewayProviders \ {g})
<1>1. g \in GatewayProviders
  BY DEF IInv, TypeOK, Armed, FailoverCommit, Locals
<1>2. kept \in Seq(Attempts) /\ Len(kept) = Len(attempts)
  BY CancelType DEF IInv, TypeOK
<1>3. /\ attempts' \in Seq(Attempts)
      /\ session' \in Seq(ProviderStates)
      /\ Len(session') = Len(attempts')
  BY <1>1, <1>2, AddType DEF IInv, FailoverCommit
<1>4. /\ pc' \in [Procs -> Steps] /\ loc' \in [Procs -> Locals] /\ Armed'
      /\ \A q \in Procs : pc'[q] # "idle" => pc[q] # "idle"
  BY LeaveType DEF IInv, FailoverCommit
<1>5. loc[p].raw \in Raws
  BY DEF IInv, TypeOK, Locals
<1>6. [loc[p].raw EXCEPT !.handoff = TRUE] \in Raws
  BY <1>5 DEF Raws
<1>7. TypeOK'
  BY <1>1, <1>3, <1>4, <1>6 DEF IInv, TypeOK, FailoverCommit, Statuses
<1>8. Started'
  BY DEF Started, FailoverCommit, Exists
<1> QED
  BY <1>4, <1>7, <1>8 DEF IInv

\* The steps that end a handler and write nothing of the payment.
LEMMA EndingType ==
    ASSUME IInv, NEW p \in Procs, Leave(p), UNCHANGED <<payment, attempts, session>>,
           processed' \subseteq Keys
    PROVE  IInv'
<1>1. /\ pc' \in [Procs -> Steps] /\ loc' \in [Procs -> Locals] /\ Armed'
      /\ \A q \in Procs : pc'[q] # "idle" => pc[q] # "idle"
  BY LeaveType DEF IInv
<1> QED
  BY <1>1 DEF IInv, TypeOK, Started, Exists

LEMMA LookupReadType ==
    ASSUME IInv, NEW p \in Procs, NEW g \in LookupGateways, LookupRead(p, g)
    PROVE  IInv'
<1>1. Exists /\ Reads \in Locals
  BY ReadsType DEF IInv, LookupRead
<1>2. g \in GatewayProviders
  BY DEF LookupGateways, SelectableGateways
<1>3. [Reads EXCEPT !.gateway = g] \in Locals
  BY <1>1, <1>2 DEF Locals
<1>4. "lookup" \in Steps
  BY DEF Steps
<1> QED
  BY <1>1, <1>3, <1>4, ReadingType DEF LookupRead

\* A lookup concludes a status of the enum.
LEMMA ConclusionType ==
    ASSUME IInv, NEW p \in Procs, NEW to \in LookupConcludes(loc[p].gateway, loc[p].raw),
           to # "none"
    PROVE  to \in Statuses
<1>1. loc[p].raw.event \in [EventGateways -> Statuses \cup {"none"}]
  BY DEF IInv, TypeOK, Locals, Raws
<1> QED
  BY <1>1 DEF LookupConcludes, MapOzowLookup, MapPaystackTransactionStatusToPaymentStatus,
     MapItnStatus, MapYocoCheckoutStatus, Statuses

LEMMA LookupAnswerType ==
    ASSUME IInv, NEW p \in Procs, LookupAnswer(p)
    PROVE  IInv'
<1>1. CASE Leave(p)
  BY <1>1, EndingType DEF LookupAnswer, IInv, TypeOK
<1>2. CASE \E to \in LookupConcludes(loc[p].gateway, loc[p].raw) :
             /\ CanTransitionPaymentStatus(loc[p].snap, to)
             /\ pc' = [pc EXCEPT ![p] = "sync"]
             /\ loc' = [loc EXCEPT ![p].target = to]
  <2>1. PICK to \in LookupConcludes(loc[p].gateway, loc[p].raw) :
             /\ CanTransitionPaymentStatus(loc[p].snap, to)
             /\ pc' = [pc EXCEPT ![p] = "sync"]
             /\ loc' = [loc EXCEPT ![p].target = to]
    BY <1>2
  <2>2. loc[p] \in Locals /\ loc[p].snap \in Statuses
    BY DEF IInv, TypeOK, Locals
  <2>3. to \in Statuses
    BY <2>1, <2>2 DEF CanTransitionPaymentStatus, TransitionsFrom, Statuses
  <2>4. [loc[p] EXCEPT !.target = to] \in Locals
    BY <2>2, <2>3 DEF Locals
  <2>5. loc'[p] = [loc[p] EXCEPT !.target = to] /\ loc'[p].target = to
    BY <2>1, <2>2 DEF IInv, TypeOK, Locals
  <2>6. loc' \in [Procs -> Locals] /\ pc' \in [Procs -> Steps]
    BY <2>1, <2>4 DEF IInv, TypeOK, Steps
  <2>7. Exists /\ UNCHANGED <<payment, attempts, session, processed>>
    BY DEF IInv, Started, LookupAnswer
  <2>8. Started'
    BY <2>7 DEF IInv, Started, Exists
  <2>9. Armed'
    BY <2>1, <2>3, <2>5 DEF IInv, TypeOK, Armed
  <2> QED
    BY <2>6, <2>7, <2>8, <2>9 DEF IInv, TypeOK
<1> QED
  BY <1>1, <1>2 DEF LookupAnswer

LEMMA SyncCommitType ==
    ASSUME IInv, NEW p \in Procs, SyncCommit(p)
    PROVE  IInv'
<1>1. /\ pc' \in [Procs -> Steps] /\ loc' \in [Procs -> Locals] /\ Armed'
      /\ \A q \in Procs : pc'[q] # "idle" => pc[q] # "idle"
  BY LeaveType DEF IInv, SyncCommit
<1>2. loc[p].target \in Statuses /\ loc[p] \in Locals
  BY DEF IInv, TypeOK, Armed, SyncCommit
<1>3. attempts' \in Seq(Attempts) /\ Len(attempts') = Len(attempts)
  BY <1>2, FollowType DEF IInv, TypeOK, SyncCommit
<1>4. Exists
  BY DEF IInv, Started, SyncCommit
<1>5. payment'.status \in Statuses
  BY <1>2, <1>4 DEF IInv, TypeOK, SyncCommit, Exists
<1>6. TypeOK'
  BY <1>1, <1>2, <1>3, <1>5 DEF IInv, TypeOK, SyncCommit, Locals
<1>7. Started'
  BY <1>5 DEF Started, Exists, Statuses
<1> QED
  BY <1>1, <1>6, <1>7 DEF IInv

LEMMA WebhookReceivedType ==
    ASSUME IInv, NEW p \in Procs, NEW i \in DOMAIN session, NEW to \in Statuses,
           NEW state \in ProviderFinal \cup {"pending"}, WebhookReceived(p, i, state, to)
    PROVE  IInv'
<1> DEFINE g == attempts[i].gateway
           raw == IF g = "PAYFAST" THEN NullRaw
                  ELSE IF g \in EventGateways THEN [payment.raw EXCEPT !.event[g] = to]
                  ELSE payment.raw
           local == [Reads EXCEPT !.gateway = g, !.target = to,
                                  !.key = EventKey(g, i, state), !.raw = raw]
<1>1. i \in DOMAIN attempts /\ i \in Nat
  BY DEF IInv, TypeOK
<1>2. attempts # << >> /\ attempts[i] \in Attempts
  BY <1>1 DEF IInv, TypeOK
<1>3. Exists /\ Reads \in Locals
  BY <1>2, ReadsType DEF IInv, Started
<1>4. g \in GatewayProviders
  BY <1>2 DEF Attempts
<1>5. EventKey(g, i, state) \in Keys
  BY <1>1 DEF EventKey, Keys, ProviderStates, ProviderFinal
<1>6. raw \in Raws
  BY IdleType DEF IInv, TypeOK, Raws
<1>7. local \in Locals /\ local.target = to
  BY <1>3, <1>4, <1>5, <1>6 DEF Locals
<1>8. Enter(p, "hook", local) /\ "hook" \in Steps
  BY DEF WebhookReceived, Steps
<1>9. UNCHANGED <<payment, attempts, session, processed>>
  BY DEF WebhookReceived
<1> QED
  BY <1>3, <1>7, <1>8, <1>9, ReadingType

LEMMA WebhookBeginType ==
    ASSUME IInv, NEW p \in Procs, WebhookBegin(p)
    PROVE  IInv'
<1>1. loc[p] \in Locals /\ loc[p].key \in Keys /\ loc[p].target \in Statuses
  BY DEF IInv, TypeOK, Armed, WebhookBegin, Locals
<1>2. CASE Leave(p)
  <2>1. processed' \subseteq Keys
    BY <1>1 DEF WebhookBegin, IInv, TypeOK
  <2> QED
    BY <1>2, <2>1, EndingType DEF WebhookBegin
<1>3. CASE /\ Applies(payment.status, loc[p].target)
           /\ pc' = [pc EXCEPT ![p] = "tx"]
           /\ loc' = [loc EXCEPT ![p].snap = payment.status]
           /\ UNCHANGED processed
  <2>1. Exists /\ payment.status \in Statuses
    BY DEF IInv, TypeOK, Started, WebhookBegin, Exists
  <2>2. [loc[p] EXCEPT !.snap = payment.status] \in Locals
    BY <1>1, <2>1 DEF Locals
  <2>3. /\ loc'[p] = [loc[p] EXCEPT !.snap = payment.status]
        /\ loc'[p].target = loc[p].target
    BY <1>1, <1>3 DEF IInv, TypeOK, Locals
  <2>4. loc' \in [Procs -> Locals] /\ pc' \in [Procs -> Steps]
    BY <1>3, <2>2 DEF IInv, TypeOK, Steps
  <2>5. Started'
    BY <2>1 DEF IInv, Started, Exists, WebhookBegin
  <2>6. Armed'
    BY <1>1, <1>3, <2>3 DEF IInv, TypeOK, Armed
  <2> QED
    BY <1>3, <2>4, <2>5, <2>6 DEF IInv, TypeOK, WebhookBegin
<1> QED
  BY <1>2, <1>3 DEF WebhookBegin

LEMMA WebhookCommitType ==
    ASSUME IInv, NEW p \in Procs, WebhookCommit(p)
    PROVE  IInv'
<1>1. /\ pc' \in [Procs -> Steps] /\ loc' \in [Procs -> Locals] /\ Armed'
      /\ \A q \in Procs : pc'[q] # "idle" => pc[q] # "idle"
  BY LeaveType DEF IInv, WebhookCommit
<1>2. loc[p].target \in Statuses /\ loc[p] \in Locals
  BY DEF IInv, TypeOK, Armed, WebhookCommit
<1>3. attempts' \in Seq(Attempts) /\ Len(attempts') = Len(attempts)
  BY <1>2, FollowType DEF IInv, TypeOK, WebhookCommit
<1>4. Exists
  BY DEF IInv, Started, WebhookCommit
<1>5. payment'.status \in Statuses
  BY <1>2, <1>4 DEF IInv, TypeOK, WebhookCommit, Exists
<1>6. processed' \subseteq Keys
  BY <1>2 DEF IInv, TypeOK, WebhookCommit, Locals
<1>7. TypeOK'
  BY <1>1, <1>2, <1>3, <1>5, <1>6 DEF IInv, TypeOK, WebhookCommit, Locals
<1>8. Started'
  BY <1>5 DEF Started, Exists, Statuses
<1> QED
  BY <1>1, <1>7, <1>8 DEF IInv

LEMMA GatewayMovesType ==
    ASSUME IInv, NEW i \in DOMAIN session, NEW state \in ProviderStates, GatewayMoves(i, state)
    PROVE  IInv'
  BY DEF IInv, TypeOK, Started, Armed, Exists, GatewayMoves

-----------------------------------------------------------------------------
(* The theorem *)

LEMMA InitType == Init => IInv
<1> SUFFICES ASSUME Init PROVE IInv
  OBVIOUS
<1> QED
  BY IdleType DEF Init, IInv, TypeOK, Started, Armed, Exists, Steps, Keys

LEMMA StepType ==
    ASSUME IInv, [Next]_vars
    PROVE  IInv'
<1>1. ASSUME NEW p \in Procs, Handler(p)
      PROVE  IInv'
  <2>1. CASE \E request \in Requests : CreatePayment(p, request)
    BY <2>1, CreatePaymentType
  <2>2. CASE \E request \in SelectableGateways \cup {"AUTO"} :
               ContinueHostedCheckout(p, request)
    BY <2>2, ContinueType
  <2>3. CASE InitSucceeds(p)
    BY <2>3, InitSucceedsType
  <2>4. CASE InitFails(p)
    BY <2>4, InitFailsType
  <2>5. CASE InitiateOzowPayment(p)
    BY <2>5, InitiateOzowType
  <2>6. CASE InitiateOzowCommit(p)
    BY <2>6, InitiateOzowCommitType
  <2>7. CASE Failover(p)
    BY <2>7, FailoverType
  <2>8. CASE FailoverCommit(p)
    BY <2>8, FailoverCommitType
  <2>9. CASE \E g \in LookupGateways : LookupRead(p, g)
    BY <2>9, LookupReadType
  <2>10. CASE LookupAnswer(p)
    BY <2>10, LookupAnswerType
  <2>11. CASE SyncCommit(p)
    BY <2>11, SyncCommitType
  <2>12. CASE \E i \in DOMAIN session, state \in ProviderFinal \cup {"pending"}, to \in Statuses :
                WebhookReceived(p, i, state, to)
    BY <2>12, WebhookReceivedType
  <2>13. CASE WebhookBegin(p)
    BY <2>13, WebhookBeginType
  <2>14. CASE WebhookCommit(p)
    BY <2>14, WebhookCommitType
  <2>15. CASE Abort(p)
    BY <2>15, EndingType DEF Abort, IInv, TypeOK
  <2> QED
    BY <1>1, <2>1, <2>2, <2>3, <2>4, <2>5, <2>6, <2>7, <2>8, <2>9, <2>10, <2>11, <2>12,
       <2>13, <2>14, <2>15 DEF Handler
<1>2. ASSUME NEW i \in DOMAIN session, NEW state \in ProviderStates, GatewayMoves(i, state)
      PROVE  IInv'
  BY <1>2, GatewayMovesType
<1>3. CASE UNCHANGED vars
  BY <1>3 DEF IInv, TypeOK, Started, Armed, Exists, vars
<1> QED
  BY <1>1, <1>2, <1>3 DEF Next

\* Every variable has its type in every reachable state, and every handler holds
\* what its next step reads (a candidate gateway, a status to write).
THEOREM TypeCorrect == Spec => []TypeOK
<1>1. Init => IInv
  BY InitType
<1>2. IInv /\ [Next]_vars => IInv'
  BY StepType
<1>3. IInv => TypeOK
  BY DEF IInv
<1> QED
  BY <1>1, <1>2, <1>3, PTL DEF Spec
-----------------------------------------------------------------------------
(* PAID only if funded *)

\* Whoever knows or says PAID: the row, the webhook events stored in it, and every
\* handler's copy of either, together with the status it is about to write.
SaysPaid(raw) == \E g \in EventGateways : raw.event[g] = "PAID"

ClaimsPaid(l) == l.snap = "PAID" \/ l.target = "PAID" \/ SaysPaid(l.raw)

FundedInv ==
    /\ payment.status = "PAID" \/ SaysPaid(payment.raw) => Funded
    /\ \A p \in Procs : ClaimsPaid(loc[p]) => Funded

\* Money that was captured stays captured, whatever step is taken.
LEMMA FundedStays ==
    ASSUME IInv, [Next]_vars, Funded
    PROVE  Funded'
<1>1. PICK k \in DOMAIN session : session[k] = "paid"
  BY DEF Funded
<1>2. session \in Seq(ProviderStates)
  BY DEF IInv, TypeOK
<1>3. CASE UNCHANGED session
  BY <1>1, <1>3 DEF Funded
<1>4. CASE \E state \in ProviderStates : session' = Append(session, state)
  <2>1. PICK state \in ProviderStates : session' = Append(session, state)
    BY <1>4
  <2>2. k \in DOMAIN session' /\ session'[k] = session[k]
    BY <1>1, <1>2, <2>1
  <2> QED
    BY <1>1, <2>2 DEF Funded
<1>5. CASE \E i \in DOMAIN session, state \in ProviderStates : GatewayMoves(i, state)
  <2>1. PICK i \in DOMAIN session, word \in ProviderStates : GatewayMoves(i, word)
    BY <1>5
  <2>2. i # k /\ session' = [session EXCEPT ![i] = word]
    BY <1>1, <2>1 DEF GatewayMoves
  <2>3. k \in DOMAIN session' /\ session'[k] = session[k]
    BY <1>1, <1>2, <2>2
  <2> QED
    BY <1>1, <2>3 DEF Funded
<1>6. \/ UNCHANGED session
      \/ \E state \in ProviderStates : session' = Append(session, state)
      \/ \E i \in DOMAIN session, state \in ProviderStates : GatewayMoves(i, state)
  BY DEF Next, vars, Handler, CreatePayment, ContinueHostedCheckout, InitSucceeds, InitFails,
     InitiateOzowPayment, InitiateOzowCommit, Failover, FailoverCommit, LookupRead,
     LookupAnswer, SyncCommit, WebhookReceived, WebhookBegin, WebhookCommit, Abort,
     AddAttempt, ProviderStates
<1> QED
  BY <1>3, <1>4, <1>5, <1>6

\* The steps that reach no new conclusion: the row and the locals of the others stay,
\* the handler's own locals claim no more than they or the row did.
LEMMA NoNewClaim ==
    ASSUME IInv, FundedInv, [Next]_vars, NEW p \in Procs,
           payment'.status = "PAID" => payment.status = "PAID" \/ ClaimsPaid(loc[p]),
           SaysPaid(payment'.raw) => SaysPaid(payment.raw) \/ ClaimsPaid(loc[p]),
           \A q \in Procs \ {p} : loc'[q] = loc[q],
           ClaimsPaid(loc'[p]) => \/ ClaimsPaid(loc[p]) \/ Funded
                                  \/ payment.status = "PAID" \/ SaysPaid(payment.raw)
    PROVE  FundedInv'
<1>1. Funded => Funded'
  BY FundedStays
<1>2. (payment'.status = "PAID" \/ SaysPaid(payment'.raw)) => Funded'
  BY <1>1 DEF FundedInv
<1>3. \A q \in Procs : ClaimsPaid(loc'[q]) => Funded'
  BY <1>1 DEF FundedInv
<1> QED
  BY <1>2, <1>3 DEF FundedInv, SaysPaid, ClaimsPaid

LEMMA NothingClaimed == ~ClaimsPaid(Idle) /\ ~SaysPaid(NullRaw)
  BY DEF ClaimsPaid, SaysPaid, Idle, NullRaw, NoEvent

\* A handler that has just read claims what the row says.
LEMMA ReadsClaim ==
    ASSUME IInv, NEW l \in Locals, l.snap = Reads.snap, l.raw = Reads.raw, l.target = "none",
           ClaimsPaid(l)
    PROVE  payment.status = "PAID" \/ SaysPaid(payment.raw)
  BY DEF Reads, Idle, ClaimsPaid, SaysPaid

\* A handler that leaves claims nothing.
LEMMA LeaveClaim ==
    ASSUME IInv, NEW p \in Procs, Leave(p)
    PROVE  ~ClaimsPaid(loc'[p]) /\ \A q \in Procs \ {p} : loc'[q] = loc[q]
<1>1. loc'[p] = Idle /\ \A q \in Procs \ {p} : loc'[q] = loc[q]
  BY DEF IInv, TypeOK, Leave
<1> QED
  BY <1>1, NothingClaimed

LEMMA EnterLocal ==
    ASSUME IInv, NEW p \in Procs, NEW step, NEW local, Enter(p, step, local)
    PROVE  loc'[p] = local /\ \A q \in Procs \ {p} : loc'[q] = loc[q]
  BY DEF IInv, TypeOK, Enter

\* The steps that read the row and write nothing.
LEMMA ReadingFunded ==
    ASSUME IInv, FundedInv, [Next]_vars, NEW p \in Procs, NEW step, NEW local \in Locals,
           Enter(p, step, local), UNCHANGED payment,
           local.snap = Reads.snap, local.raw = Reads.raw, local.target = "none"
    PROVE  FundedInv'
<1>1. loc'[p] = local /\ \A q \in Procs \ {p} : loc'[q] = loc[q]
  BY EnterLocal
<1>2. ClaimsPaid(local) => payment.status = "PAID" \/ SaysPaid(payment.raw)
  BY ReadsClaim
<1> QED
  BY <1>1, <1>2, NoNewClaim

\* The steps that write what the handler holds, or nothing, and end it.
LEMMA EndingFunded ==
    ASSUME IInv, FundedInv, [Next]_vars, NEW p \in Procs, Leave(p),
           payment'.status = "PAID" => payment.status = "PAID" \/ ClaimsPaid(loc[p]),
           SaysPaid(payment'.raw) => SaysPaid(payment.raw) \/ ClaimsPaid(loc[p])
    PROVE  FundedInv'
  BY LeaveClaim, NoNewClaim

LEMMA WriterFunded ==
    ASSUME IInv, FundedInv, [Next]_vars, NEW p \in Procs,
           InitSucceeds(p) \/ InitiateOzowCommit(p) \/ FailoverCommit(p)
             \/ SyncCommit(p) \/ WebhookCommit(p)
    PROVE  FundedInv'
<1>1. Leave(p)
  BY DEF InitSucceeds, InitiateOzowCommit, FailoverCommit, SyncCommit, WebhookCommit
<1>2. loc[p].raw \in Raws
  BY DEF IInv, TypeOK, Locals
<1>3. payment'.raw.event = loc[p].raw.event
  <2>1. CASE InitSucceeds(p)
    BY <1>2, <2>1 DEF Raws, InitSucceeds
  <2>2. CASE InitiateOzowCommit(p)
    BY <1>2, <2>2 DEF Raws, InitiateOzowCommit
  <2>3. CASE FailoverCommit(p)
    BY <1>2, <2>3 DEF Raws, FailoverCommit
  <2>4. CASE SyncCommit(p)
    BY <2>4 DEF SyncCommit
  <2>5. CASE WebhookCommit(p)
    BY <2>5 DEF WebhookCommit
  <2> QED
    BY <2>1, <2>2, <2>3, <2>4, <2>5
<1>4. payment'.status = "PAID" => payment.status = "PAID" \/ ClaimsPaid(loc[p])
  BY DEF ClaimsPaid, ReopenedStatus, InitSucceeds, InitiateOzowCommit, FailoverCommit,
         SyncCommit, WebhookCommit
<1>5. SaysPaid(payment'.raw) => ClaimsPaid(loc[p])
  BY <1>3 DEF SaysPaid, ClaimsPaid
<1> QED
  BY <1>1, <1>4, <1>5, EndingFunded

LEMMA InitFailsFunded ==
    ASSUME IInv, FundedInv, [Next]_vars, NEW p \in Procs, InitFails(p)
    PROVE  FundedInv'
<1>1. loc[p].raw \in Raws /\ loc[p] \in Locals
  BY DEF IInv, TypeOK, Locals
<1>2. payment'.raw.event = loc[p].raw.event /\ payment'.status = payment.status
  BY <1>1 DEF Raws, InitFails, IInv, TypeOK
<1>3. SaysPaid(payment'.raw) => ClaimsPaid(loc[p])
  BY <1>2 DEF SaysPaid, ClaimsPaid
<1>4. CASE Leave(p)
  BY <1>2, <1>3, <1>4, EndingFunded
<1>5. CASE loc' = [loc EXCEPT ![p].cands = Tail(@)]
  <2>1. /\ loc'[p] = [loc[p] EXCEPT !.cands = Tail(@)]
        /\ \A q \in Procs \ {p} : loc'[q] = loc[q]
    BY <1>5 DEF IInv, TypeOK
  <2>2. loc'[p].snap = loc[p].snap /\ loc'[p].target = loc[p].target /\ loc'[p].raw = loc[p].raw
    BY <1>1, <2>1 DEF Locals
  <2>3. ClaimsPaid(loc'[p]) => ClaimsPaid(loc[p])
    BY <2>2 DEF ClaimsPaid
  <2> QED
    BY <1>2, <1>3, <2>1, <2>3, NoNewClaim
<1> QED
  BY <1>4, <1>5 DEF InitFails

\* A lookup concludes PAID from a paid session, or from a stored PAID event.
LEMMA LookupAnswerFunded ==
    ASSUME IInv, FundedInv, [Next]_vars, NEW p \in Procs, LookupAnswer(p)
    PROVE  FundedInv'
<1>1. UNCHANGED payment
  BY DEF LookupAnswer
<1>2. CASE Leave(p)
  BY <1>1, <1>2, EndingFunded
<1>3. ASSUME NEW to \in LookupConcludes(loc[p].gateway, loc[p].raw),
             loc' = [loc EXCEPT ![p].target = to]
      PROVE  FundedInv'
  <2>1. loc[p] \in Locals
    BY DEF IInv, TypeOK
  <2>2. /\ loc'[p] = [loc[p] EXCEPT !.target = to]
        /\ \A q \in Procs \ {p} : loc'[q] = loc[q]
    BY <1>3 DEF IInv, TypeOK
  <2>3. loc'[p].snap = loc[p].snap /\ loc'[p].target = to /\ loc'[p].raw = loc[p].raw
    BY <2>1, <2>2 DEF Locals
  <2>4. \A g : SessionsOf(g) \subseteq DOMAIN session
    BY DEF SessionsOf, IInv, TypeOK
  <2>5. to = "PAID" => Funded \/ SaysPaid(loc[p].raw)
    BY <1>3, <2>4
    DEF LookupConcludes, MapOzowLookup, MapPaystackTransactionStatusToPaymentStatus,
        MapItnStatus, MapYocoCheckoutStatus, Funded, SaysPaid
  <2>6. ClaimsPaid(loc'[p]) => ClaimsPaid(loc[p]) \/ Funded
    BY <2>3, <2>5 DEF ClaimsPaid
  <2> QED
    BY <1>1, <2>2, <2>6, NoNewClaim
<1> QED
  BY <1>2, <1>3 DEF LookupAnswer

\* A gateway says paid only of a session it captured.
LEMMA WebhookReceivedFunded ==
    ASSUME IInv, FundedInv, [Next]_vars, NEW p \in Procs, NEW i \in DOMAIN session,
           NEW to \in Statuses, NEW state \in ProviderFinal \cup {"pending"},
           WebhookReceived(p, i, state, to)
    PROVE  FundedInv'
<1> DEFINE g == attempts[i].gateway
           raw == IF g = "PAYFAST" THEN NullRaw
                  ELSE IF g \in EventGateways THEN [payment.raw EXCEPT !.event[g] = to]
                  ELSE payment.raw
           local == [Reads EXCEPT !.gateway = g, !.target = to,
                                  !.key = EventKey(g, i, state), !.raw = raw]
<1>1. Enter(p, "hook", local) /\ UNCHANGED payment
  BY DEF WebhookReceived
<1>2. \A h : SessionsOf(h) \subseteq DOMAIN session
  BY DEF SessionsOf, IInv, TypeOK
<1>3. to = "PAID" => Funded
  BY <1>2 DEF WebhookReceived, TakenStatus, Says, MapWebhook, MapPaystackEvent,
              MapYocoEventToPaymentStatus, MapItnStatus, Funded
<1>4. payment.raw \in Raws
  BY DEF IInv, TypeOK
<1>5. SaysPaid(raw) => SaysPaid(payment.raw) \/ to = "PAID"
  BY <1>4, NothingClaimed DEF SaysPaid, Raws
<1>6. local.snap = payment.status /\ local.target = to /\ local.raw = raw
  BY DEF Reads, Idle
<1>7. ClaimsPaid(local) => Funded \/ payment.status = "PAID" \/ SaysPaid(payment.raw)
  BY <1>3, <1>5, <1>6 DEF ClaimsPaid
<1>8. loc'[p] = local /\ \A q \in Procs \ {p} : loc'[q] = loc[q]
  BY <1>1, EnterLocal
<1> QED
  BY <1>1, <1>7, <1>8, NoNewClaim

LEMMA WebhookBeginFunded ==
    ASSUME IInv, FundedInv, [Next]_vars, NEW p \in Procs, WebhookBegin(p)
    PROVE  FundedInv'
<1>1. UNCHANGED payment
  BY DEF WebhookBegin
<1>2. CASE Leave(p)
  BY <1>1, <1>2, EndingFunded
<1>3. CASE loc' = [loc EXCEPT ![p].snap = payment.status]
  <2>1. loc[p] \in Locals
    BY DEF IInv, TypeOK
  <2>2. /\ loc'[p] = [loc[p] EXCEPT !.snap = payment.status]
        /\ \A q \in Procs \ {p} : loc'[q] = loc[q]
    BY <1>3 DEF IInv, TypeOK
  <2>3. /\ loc'[p].snap = payment.status /\ loc'[p].target = loc[p].target
        /\ loc'[p].raw = loc[p].raw
    BY <2>1, <2>2 DEF Locals
  <2>4. ClaimsPaid(loc'[p]) => ClaimsPaid(loc[p]) \/ payment.status = "PAID"
    BY <2>3 DEF ClaimsPaid
  <2> QED
    BY <1>1, <2>2, <2>4, NoNewClaim
<1> QED
  BY <1>2, <1>3 DEF WebhookBegin

LEMMA CreatePaymentFunded ==
    ASSUME IInv, FundedInv, [Next]_vars, NEW p \in Procs, NEW request, CreatePayment(p, request)
    PROVE  FundedInv'
<1> DEFINE local == [Idle EXCEPT !.requested = request, !.cands = Decide(request)]
<1>1. loc'[p] = local /\ \A q \in Procs \ {p} : loc'[q] = loc[q]
  BY EnterLocal DEF CreatePayment
<1>2. ~ClaimsPaid(local)
  BY DEF ClaimsPaid, SaysPaid, Idle, NullRaw, NoEvent
<1>3. payment'.status # "PAID" /\ ~SaysPaid(payment'.raw)
  BY NothingClaimed DEF CreatePayment
<1> QED
  BY <1>1, <1>2, <1>3, NoNewClaim

\* The four handlers that begin with a read of the row.
LEMMA ReaderFunded ==
    ASSUME IInv, FundedInv, [Next]_vars, NEW p \in Procs,
           \/ \E request \in SelectableGateways \cup {"AUTO"} : ContinueHostedCheckout(p, request)
           \/ InitiateOzowPayment(p) \/ Failover(p)
           \/ \E g \in LookupGateways : LookupRead(p, g)
    PROVE  FundedInv'
<1>1. Exists /\ UNCHANGED payment /\ Reads \in Locals
  BY ReadsType DEF IInv, ContinueHostedCheckout, InitiateOzowPayment, Failover, LookupRead
<1>2. Reads.target = "none"
  BY DEF Reads, Idle
<1>3. ASSUME NEW request \in SelectableGateways \cup {"AUTO"}, ContinueHostedCheckout(p, request)
      PROVE  FundedInv'
  <2>1. PICK wanted \in Requests :
          Enter(p, "init", [Reads EXCEPT !.requested = wanted, !.cands = Decide(wanted)])
    BY <1>3 DEF ContinueHostedCheckout, Requests
  <2> DEFINE local == [Reads EXCEPT !.requested = wanted, !.cands = Decide(wanted)]
  <2>2. local \in Locals
    BY <1>1, DecideType DEF Locals
  <2>3. local.snap = Reads.snap /\ local.raw = Reads.raw /\ local.target = "none"
    BY <1>1, <1>2 DEF Locals
  <2> QED
    BY <1>1, <2>1, <2>2, <2>3, ReadingFunded
<1>4. ASSUME InitiateOzowPayment(p)
      PROVE  FundedInv'
  BY <1>1, <1>2, <1>4, ReadingFunded DEF InitiateOzowPayment
<1>5. ASSUME Failover(p)
      PROVE  FundedInv'
  <2>1. PICK g \in NextUntried : Enter(p, "failover", [Reads EXCEPT !.cands = <<g>>])
    BY <1>5 DEF Failover
  <2> DEFINE local == [Reads EXCEPT !.cands = <<g>>]
  <2>2. <<g>> \in Seq(GatewayProviders)
    BY AutoOrderType DEF NextUntried
  <2>3. local \in Locals /\ local.snap = Reads.snap /\ local.raw = Reads.raw
          /\ local.target = "none"
    BY <1>1, <1>2, <2>2 DEF Locals
  <2> QED
    BY <1>1, <2>1, <2>3, ReadingFunded
<1>6. ASSUME NEW g \in LookupGateways, LookupRead(p, g)
      PROVE  FundedInv'
  <2> DEFINE local == [Reads EXCEPT !.gateway = g]
  <2>1. local \in Locals /\ local.snap = Reads.snap /\ local.raw = Reads.raw
          /\ local.target = "none"
    BY <1>1, <1>2 DEF Locals, LookupGateways, SelectableGateways
  <2>2. Enter(p, "lookup", local)
    BY <1>6 DEF LookupRead
  <2> QED
    BY <1>1, <2>1, <2>2, ReadingFunded
<1> QED
  BY <1>3, <1>4, <1>5, <1>6

LEMMA InitFunded == Init => FundedInv
  BY NothingClaimed DEF Init, FundedInv

LEMMA StepFunded ==
    ASSUME IInv, FundedInv, [Next]_vars
    PROVE  FundedInv'
<1>1. ASSUME NEW p \in Procs, Handler(p)
      PROVE  FundedInv'
  <2>1. CASE \E request \in Requests : CreatePayment(p, request)
    BY <2>1, CreatePaymentFunded
  <2>2. CASE \/ \E request \in SelectableGateways \cup {"AUTO"} :
                    ContinueHostedCheckout(p, request)
             \/ InitiateOzowPayment(p) \/ Failover(p)
             \/ \E g \in LookupGateways : LookupRead(p, g)
    BY <2>2, ReaderFunded
  <2>3. CASE InitSucceeds(p) \/ InitiateOzowCommit(p) \/ FailoverCommit(p)
               \/ SyncCommit(p) \/ WebhookCommit(p)
    BY <2>3, WriterFunded
  <2>4. CASE InitFails(p)
    BY <2>4, InitFailsFunded
  <2>5. CASE LookupAnswer(p)
    BY <2>5, LookupAnswerFunded
  <2>6. CASE \E i \in DOMAIN session, state \in ProviderFinal \cup {"pending"}, to \in Statuses :
                WebhookReceived(p, i, state, to)
    BY <2>6, WebhookReceivedFunded
  <2>7. CASE WebhookBegin(p)
    BY <2>7, WebhookBeginFunded
  <2>8. CASE Abort(p)
    BY <2>8, EndingFunded DEF Abort
  <2> QED
    BY <1>1, <2>1, <2>2, <2>3, <2>4, <2>5, <2>6, <2>7, <2>8 DEF Handler
<1>2. CASE /\ UNCHANGED <<payment, loc>>
           /\ (\E i \in DOMAIN session, state \in ProviderStates : GatewayMoves(i, state))
                \/ UNCHANGED vars
  <2>1. Funded => Funded'
    BY FundedStays
  <2> QED
    BY <1>2, <2>1 DEF FundedInv, ClaimsPaid, SaysPaid
<1> QED
  BY <1>1, <1>2 DEF Next, GatewayMoves, vars

\* For any handlers, gateways and attempts: a payment is PAID only if a gateway has
\* captured the money.  Neither a stored event, nor a lookup's or a webhook's stale
\* read, nor a status held over an await says PAID of money nobody took.
THEOREM PaidIsFunded == Spec => []PaidOnlyIfFunded
<1>1. Init => IInv /\ FundedInv
  BY InitType, InitFunded
<1>2. IInv /\ FundedInv /\ [Next]_vars => IInv' /\ FundedInv'
  BY StepType, StepFunded
<1>3. IInv /\ FundedInv => PaidOnlyIfFunded
  BY DEF FundedInv, PaidOnlyIfFunded
<1> QED
  BY <1>1, <1>2, <1>3, PTL DEF Spec
-----------------------------------------------------------------------------
(* One transaction per event *)

\* A step that brings no handler into its transaction and commits no event.
LEMMA OutsideTransaction ==
    ASSUME EventAppliedOnce, UNCHANGED processed,
           \A q \in Procs : pc'[q] = "tx" => pc[q] = "tx" /\ loc'[q] = loc[q]
    PROVE  EventAppliedOnce'
  BY DEF EventAppliedOnce

LEMMA EnterOutside ==
    ASSUME IInv, NEW p \in Procs, NEW step, step # "tx", NEW local, Enter(p, step, local)
    PROVE  \A q \in Procs : pc'[q] = "tx" => pc[q] = "tx" /\ loc'[q] = loc[q]
  BY DEF IInv, TypeOK, Enter

LEMMA LeaveOutside ==
    ASSUME IInv, NEW p \in Procs, Leave(p)
    PROVE  \A q \in Procs : pc'[q] = "tx" => pc[q] = "tx" /\ loc'[q] = loc[q]
  BY DEF IInv, TypeOK, Leave

\* The event's row is inserted only when nobody holds it and nobody has committed it.
LEMMA WebhookBeginOnce ==
    ASSUME IInv, EventAppliedOnce, NEW p \in Procs, WebhookBegin(p)
    PROVE  EventAppliedOnce'
<1>1. \A q \in Procs : pc[q] = "tx" => loc[q].key # loc[p].key
  BY DEF WebhookBegin, Blocked, Claimed
<1>2. CASE loc[p].key \in processed
  BY <1>2, LeaveOutside, OutsideTransaction DEF WebhookBegin
<1>3. CASE /\ loc[p].key \notin processed
           /\ pc' = [pc EXCEPT ![p] = "tx"]
           /\ loc' = [loc EXCEPT ![p].snap = payment.status]
           /\ UNCHANGED processed
  <2>1. loc'[p].key = loc[p].key
    BY <1>3 DEF IInv, TypeOK, Locals
  <2>2. \A q \in Procs \ {p} : pc'[q] = pc[q] /\ loc'[q] = loc[q]
    BY <1>3 DEF IInv, TypeOK
  <2> QED
    BY <1>1, <1>3, <2>1, <2>2 DEF EventAppliedOnce
<1>4. CASE Leave(p) /\ processed' = processed \cup {loc[p].key}
  BY <1>1, <1>4, LeaveOutside DEF EventAppliedOnce
<1> QED
  BY <1>2, <1>3, <1>4 DEF WebhookBegin

LEMMA WebhookCommitOnce ==
    ASSUME IInv, EventAppliedOnce, NEW p \in Procs, WebhookCommit(p)
    PROVE  EventAppliedOnce'
<1>1. pc[p] = "tx" /\ Leave(p) /\ processed' = processed \cup {loc[p].key}
  BY DEF WebhookCommit
<1>2. pc'[p] = "idle" /\ \A q \in Procs \ {p} : pc'[q] = pc[q] /\ loc'[q] = loc[q]
  BY <1>1 DEF IInv, TypeOK, Leave
<1> QED
  BY <1>1, <1>2 DEF EventAppliedOnce

LEMMA StepOnce ==
    ASSUME IInv, EventAppliedOnce, [Next]_vars
    PROVE  EventAppliedOnce'
<1>1. ASSUME NEW p \in Procs, WebhookBegin(p) \/ WebhookCommit(p)
      PROVE  EventAppliedOnce'
  BY <1>1, WebhookBeginOnce, WebhookCommitOnce
<1>2. ASSUME NEW p \in Procs, Leave(p) \/ \E step, local : step # "tx" /\ Enter(p, step, local),
             UNCHANGED processed
      PROVE  EventAppliedOnce'
  BY <1>2, EnterOutside, LeaveOutside, OutsideTransaction
<1>3. ASSUME NEW p \in Procs, InitFails(p)
      PROVE  EventAppliedOnce'
  <2>1. CASE Leave(p)
    BY <1>2, <1>3, <2>1 DEF InitFails
  <2>2. CASE loc' = [loc EXCEPT ![p].cands = Tail(@)] /\ UNCHANGED pc
    <3>1. pc[p] # "tx" /\ \A q \in Procs \ {p} : loc'[q] = loc[q]
      BY <1>3, <2>2 DEF InitFails, IInv, TypeOK
    <3> QED
      BY <1>3, <2>2, <3>1, OutsideTransaction DEF InitFails
  <2> QED
    BY <1>3, <2>1, <2>2 DEF InitFails
<1>4. ASSUME NEW p \in Procs, LookupAnswer(p)
      PROVE  EventAppliedOnce'
  <2>1. CASE Leave(p)
    BY <1>2, <1>4, <2>1 DEF LookupAnswer
  <2>2. ASSUME NEW to, pc' = [pc EXCEPT ![p] = "sync"], loc' = [loc EXCEPT ![p].target = to]
        PROVE  EventAppliedOnce'
    <3>1. pc'[p] # "tx" /\ \A q \in Procs \ {p} : loc'[q] = loc[q] /\ pc'[q] = pc[q]
      BY <2>2 DEF IInv, TypeOK
    <3> QED
      BY <1>4, <3>1, OutsideTransaction DEF LookupAnswer
  <2> QED
    BY <1>4, <2>1, <2>2 DEF LookupAnswer
<1>5. ASSUME NEW p \in Procs,
             \/ \E request \in Requests : CreatePayment(p, request)
             \/ \E request \in SelectableGateways \cup {"AUTO"} : ContinueHostedCheckout(p, request)
             \/ InitSucceeds(p) \/ InitiateOzowPayment(p) \/ InitiateOzowCommit(p)
             \/ Failover(p) \/ FailoverCommit(p)
             \/ \E g \in LookupGateways : LookupRead(p, g)
             \/ SyncCommit(p) \/ Abort(p)
             \/ \E i \in DOMAIN session, state \in ProviderFinal \cup {"pending"}, to \in Statuses :
                    WebhookReceived(p, i, state, to)
      PROVE  EventAppliedOnce'
  <2>1. /\ UNCHANGED processed
        /\ Leave(p) \/ \E step, local : step # "tx" /\ Enter(p, step, local)
    BY <1>5 DEF CreatePayment, ContinueHostedCheckout, InitSucceeds, InitiateOzowPayment,
       InitiateOzowCommit, Failover, FailoverCommit, LookupRead, SyncCommit, Abort, WebhookReceived
  <2> QED
    BY <1>2, <2>1
<1>6. ASSUME UNCHANGED <<processed, pc, loc>>
      PROVE  EventAppliedOnce'
  BY <1>6 DEF EventAppliedOnce
<1> QED
  BY <1>1, <1>3, <1>4, <1>5, <1>6 DEF Next, Handler, GatewayMoves, vars

\* However many handlers receive one event, at most one of them applies it.
THEOREM AppliedOnce == Spec => []EventAppliedOnce
<1>1. Init => IInv /\ EventAppliedOnce
  BY InitType DEF Init, EventAppliedOnce
<1>2. IInv /\ EventAppliedOnce /\ [Next]_vars => IInv' /\ EventAppliedOnce'
  BY StepType, StepOnce
<1> QED
  BY <1>1, <1>2, PTL DEF Spec
-----------------------------------------------------------------------------
(* Status discipline *)

\* What a handler is about to write was allowed by the status it read.
Considered ==
    \A p \in Procs :
        /\ pc[p] \in {"sync", "tx"} => CanTransitionPaymentStatus(loc[p].snap, loc[p].target)
        /\ pc[p] \in {"init", "ozow", "failover"} => loc[p].snap # "PAID"

\* A handler that leaves, or enters a step with what that step may assume.
LEMMA LeaveConsidered ==
    ASSUME IInv, Considered, NEW p \in Procs, Leave(p)
    PROVE  Considered'
  BY DEF IInv, TypeOK, Leave, Considered

LEMMA EnterConsidered ==
    ASSUME IInv, Considered, NEW p \in Procs, NEW step, NEW local, Enter(p, step, local),
           step \notin {"sync", "tx"},
           step \in {"init", "ozow", "failover"} => local.snap # "PAID"
    PROVE  Considered'
  BY DEF IInv, TypeOK, Enter, Considered

\* The steps at which a handler reads the row.
LEMMA ReaderConsidered ==
    ASSUME IInv, Considered, NEW p \in Procs,
           \/ \E request \in Requests : CreatePayment(p, request)
           \/ \E request \in SelectableGateways \cup {"AUTO"} : ContinueHostedCheckout(p, request)
           \/ InitiateOzowPayment(p) \/ Failover(p)
           \/ \E g \in LookupGateways : LookupRead(p, g)
           \/ \E i \in DOMAIN session, state \in ProviderFinal \cup {"pending"}, to \in Statuses :
                WebhookReceived(p, i, state, to)
    PROVE  Considered'
<1>1. Idle.snap = "CREATED" /\ Reads.snap = payment.status
  BY DEF Idle, Reads
<1>2. \A request : [Idle EXCEPT !.requested = request, !.cands = Decide(request)].snap = "CREATED"
  BY DEF Idle
<1>3. \A wanted, cands :
        [Reads EXCEPT !.requested = wanted, !.cands = cands].snap = payment.status
  BY DEF Reads, Idle
<1>4. \A cands : [Reads EXCEPT !.cands = cands].snap = payment.status
  BY DEF Reads, Idle
<1>5. \E step, local : /\ Enter(p, step, local) /\ step \notin {"sync", "tx"}
                       /\ step \in {"init", "ozow", "failover"} => local.snap # "PAID"
  <2>1. CASE \E request \in Requests : CreatePayment(p, request)
    BY <1>2, <2>1 DEF CreatePayment
  <2>2. CASE \E request \in SelectableGateways \cup {"AUTO"} : ContinueHostedCheckout(p, request)
    <3>1. /\ payment.status # "PAID"
          /\ \E wanted, cands :
                Enter(p, "init", [Reads EXCEPT !.requested = wanted, !.cands = cands])
      BY <2>2 DEF ContinueHostedCheckout
    <3> QED
      BY <1>3, <3>1
  <2>3. CASE InitiateOzowPayment(p)
    BY <1>1, <2>3 DEF InitiateOzowPayment
  <2>4. CASE Failover(p)
    BY <1>4, <2>4 DEF Failover
  <2>5. CASE \E g \in LookupGateways : LookupRead(p, g)
    BY <2>5 DEF LookupRead
  <2>6. CASE \E i \in DOMAIN session, state \in ProviderFinal \cup {"pending"}, to \in Statuses :
                WebhookReceived(p, i, state, to)
    <3>1. \E local : Enter(p, "hook", local)
      BY <2>6 DEF WebhookReceived
    <3> QED
      BY <3>1
  <2> QED
    BY <2>1, <2>2, <2>3, <2>4, <2>5, <2>6
<1> QED
  BY <1>5, EnterConsidered

LEMMA StepConsidered ==
    ASSUME IInv, Considered, [Next]_vars
    PROVE  Considered'
<1>1. ASSUME NEW p \in Procs, Handler(p)
      PROVE  Considered'
  <2>1. CASE \/ \E request \in Requests : CreatePayment(p, request)
             \/ \E request \in SelectableGateways \cup {"AUTO"} : ContinueHostedCheckout(p, request)
             \/ InitiateOzowPayment(p) \/ Failover(p)
             \/ \E g \in LookupGateways : LookupRead(p, g)
             \/ \E i \in DOMAIN session, state \in ProviderFinal \cup {"pending"}, to \in Statuses :
                    WebhookReceived(p, i, state, to)
    BY <2>1, ReaderConsidered
  <2>2. CASE Leave(p)
    BY <2>2, LeaveConsidered
  <2>3. CASE InitFails(p) /\ ~Leave(p)
    <3>1. /\ loc[p] \in Locals /\ UNCHANGED pc
          /\ loc'[p] = [loc[p] EXCEPT !.cands = Tail(@)]
          /\ pc[p] = "init" /\ \A q \in Procs \ {p} : loc'[q] = loc[q]
      BY <2>3 DEF InitFails, IInv, TypeOK
    <3>2. loc'[p].snap = loc[p].snap
      BY <3>1 DEF Locals
    <3> QED
      BY <3>1, <3>2 DEF Considered
  <2>4. CASE LookupAnswer(p) /\ ~Leave(p)
    <3>1. PICK to : /\ CanTransitionPaymentStatus(loc[p].snap, to)
                    /\ pc' = [pc EXCEPT ![p] = "sync"]
                    /\ loc' = [loc EXCEPT ![p].target = to]
      BY <2>4 DEF LookupAnswer
    <3>2. /\ loc[p] \in Locals /\ loc'[p] = [loc[p] EXCEPT !.target = to] /\ pc'[p] = "sync"
          /\ \A q \in Procs \ {p} : loc'[q] = loc[q] /\ pc'[q] = pc[q]
      BY <3>1 DEF IInv, TypeOK
    <3>3. loc'[p].snap = loc[p].snap /\ loc'[p].target = to
      BY <3>2 DEF Locals
    <3> QED
      BY <3>1, <3>2, <3>3 DEF Considered
  <2>5. CASE WebhookBegin(p) /\ ~Leave(p)
    <3>1. /\ Applies(payment.status, loc[p].target)
          /\ pc' = [pc EXCEPT ![p] = "tx"]
          /\ loc' = [loc EXCEPT ![p].snap = payment.status]
      BY <2>5 DEF WebhookBegin
    <3>2. /\ loc[p] \in Locals /\ loc'[p] = [loc[p] EXCEPT !.snap = payment.status] /\ pc'[p] = "tx"
          /\ \A q \in Procs \ {p} : loc'[q] = loc[q] /\ pc'[q] = pc[q]
      BY <3>1 DEF IInv, TypeOK
    <3>3. loc'[p].snap = payment.status /\ loc'[p].target = loc[p].target
      BY <3>2 DEF Locals
    <3> QED
      BY <3>1, <3>2, <3>3 DEF Considered, Applies
  <2> QED
    BY <1>1, <2>1, <2>2, <2>3, <2>4, <2>5
    DEF Handler, InitSucceeds, InitiateOzowCommit, FailoverCommit, SyncCommit, WebhookCommit, Abort
<1>2. CASE UNCHANGED <<pc, loc>>
  BY <1>2 DEF Considered
<1> QED
  BY <1>1, <1>2 DEF Next, GatewayMoves, vars

\* Only these steps change a status that exists, and each changes its own handler.
LEMMA StatusWriters ==
    ASSUME IInv, Next, payment'.status # payment.status
    PROVE  \E h \in Procs :
             /\ \A q \in Procs \ {h} : pc'[q] = pc[q]
             /\ \/ \E request \in Requests : CreatePayment(h, request)
                \/ InitSucceeds(h) \/ InitiateOzowCommit(h) \/ FailoverCommit(h)
                \/ SyncCommit(h) \/ WebhookCommit(h)
<1>1. PICK h \in Procs : Handler(h)
  BY DEF Next, GatewayMoves
<1>2. \/ \E request \in Requests : CreatePayment(h, request)
      \/ InitSucceeds(h) \/ InitiateOzowCommit(h) \/ FailoverCommit(h)
      \/ SyncCommit(h) \/ WebhookCommit(h)
  BY <1>1 DEF Handler, ContinueHostedCheckout, InitFails, InitiateOzowPayment, Failover,
     LookupRead, LookupAnswer, WebhookReceived, WebhookBegin, Abort, IInv, TypeOK
<1>3. \A q \in Procs \ {h} : pc'[q] = pc[q]
  BY <1>2 DEF CreatePayment, InitSucceeds, InitiateOzowCommit, FailoverCommit, SyncCommit,
     WebhookCommit, Enter, Leave, IInv, TypeOK
<1> QED
  BY <1>2, <1>3

LEMMA StepOrderly ==
    ASSUME IInv, Considered, Next
    PROVE  StatusOrderly
<1> SUFFICES ASSUME NEW p \in Procs, pc'[p] # pc[p], loc[p].snap = payment.status,
                    payment'.status # payment.status
             PROVE  \/ CanTransitionPaymentStatus(payment.status, payment'.status)
                    \/ /\ pc[p] \in {"init", "ozow", "failover"}
                       /\ payment.status \in {"FAILED", "CANCELLED"}
                       /\ payment'.status = "PENDING"
  BY DEF StatusOrderly
<1>1. \/ \E request \in Requests : CreatePayment(p, request)
      \/ InitSucceeds(p) \/ InitiateOzowCommit(p) \/ FailoverCommit(p)
      \/ SyncCommit(p) \/ WebhookCommit(p)
  BY StatusWriters
<1>2. payment.status \in Statuses /\ loc[p].target \in Statuses \cup {"none"}
  BY DEF IInv, TypeOK, Locals
<1>3. CASE \E request \in Requests : CreatePayment(p, request)
  BY <1>2, <1>3 DEF CreatePayment, Exists, Statuses
<1>4. CASE InitSucceeds(p) \/ InitiateOzowCommit(p)
  BY <1>2, <1>4 DEF Considered, InitSucceeds, InitiateOzowCommit, ReopenedStatus, Statuses
<1>5. CASE FailoverCommit(p)
  BY <1>2, <1>5 DEF Considered, FailoverCommit, Statuses, CanTransitionPaymentStatus, TransitionsFrom
<1>6. CASE SyncCommit(p) \/ WebhookCommit(p)
  BY <1>6 DEF Considered, SyncCommit, WebhookCommit
<1> QED
  BY <1>1, <1>3, <1>4, <1>5, <1>6

\* Whatever the handlers and their overlaps: a handler that has not been overtaken
\* respects the transition table, or reopens a failed or cancelled payment.
THEOREM Orderliness == Spec => OrderlyUnlessOvertaken
<1>1. Init => IInv /\ Considered
  BY InitType DEF Init, Considered
<1>2. IInv /\ Considered /\ [Next]_vars => IInv' /\ Considered'
  BY StepType, StepConsidered
<1>3. IInv /\ Considered /\ [Next]_vars => [StatusOrderly]_vars
  BY StepOrderly
<1> QED
  BY <1>1, <1>2, <1>3, PTL DEF Spec, OrderlyUnlessOvertaken
-----------------------------------------------------------------------------
(* One handler at a time: the abstract machine is implemented *)

\* What a busy handler read is still the status of the row.
Fresh == \A p \in Procs : pc[p] # "idle" => loc[p].snap = payment.status

SerialInv == IInv /\ FundedInv /\ Considered /\ Fresh

\* A handler that enters with what it has just read.
LEMMA EnterFresh ==
    ASSUME IInv, NEW p \in Procs, NEW step, NEW local, Enter(p, step, local),
           local.snap = payment.status
    PROVE  loc'[p].snap = payment.status
<1>1. loc'[p] = local
  BY EnterLocal
<1> QED
  BY <1>1

\* With one handler, a step that leaves the handler busy has just read or changed
\* neither the row's status nor the copy.
LEMMA StepFresh ==
    ASSUME NEW h, Procs = {h}, IInv, Fresh, [Next]_vars
    PROVE  Fresh'
<1>1. ASSUME Handler(h)
      PROVE  Fresh'
  <2>1. loc[h] \in Locals
    BY DEF IInv, TypeOK
  <2>2. CASE Leave(h)
    BY <2>2 DEF Leave, Fresh, IInv, TypeOK
  <2>3. CASE \/ \E request \in SelectableGateways \cup {"AUTO"} : ContinueHostedCheckout(h, request)
             \/ InitiateOzowPayment(h) \/ Failover(h)
             \/ \E g \in LookupGateways : LookupRead(h, g)
             \/ \E i \in DOMAIN session, state \in ProviderFinal \cup {"pending"}, to \in Statuses :
                    WebhookReceived(h, i, state, to)
    <3>1. Reads.snap = payment.status
      BY DEF Reads, Idle
    <3>2. loc'[h].snap = payment.status
      <4>1. ASSUME NEW request, ContinueHostedCheckout(h, request)
            PROVE  loc'[h].snap = payment.status
        <5>1. PICK a, b : Enter(h, "init", [Reads EXCEPT !.requested = a, !.cands = b])
          BY <4>1 DEF ContinueHostedCheckout
        <5> DEFINE local == [Reads EXCEPT !.requested = a, !.cands = b]
        <5>2. Enter(h, "init", local)
          BY <5>1
        <5>3. local.snap = payment.status
          BY DEF Reads, Idle
        <5> HIDE DEF local
        <5> QED
          BY <5>2, <5>3, EnterFresh
      <4>2. CASE InitiateOzowPayment(h)
        BY <3>1, <4>2, EnterLocal DEF InitiateOzowPayment
      <4>3. CASE Failover(h)
        <5>1. PICK b : Enter(h, "failover", [Reads EXCEPT !.cands = b])
          BY <4>3 DEF Failover
        <5> DEFINE local == [Reads EXCEPT !.cands = b]
        <5>2. Enter(h, "failover", local)
          BY <5>1
        <5>3. local.snap = payment.status
          BY DEF Reads, Idle
        <5> HIDE DEF local
        <5> QED
          BY <5>2, <5>3, EnterFresh
      <4>4. ASSUME NEW g, LookupRead(h, g)
            PROVE  loc'[h].snap = payment.status
        <5> DEFINE local == [Reads EXCEPT !.gateway = g]
        <5>1. Enter(h, "lookup", local)
          BY <4>4 DEF LookupRead
        <5>2. local.snap = payment.status
          BY DEF Reads, Idle
        <5> HIDE DEF local
        <5> QED
          BY <5>1, <5>2, EnterFresh
      <4>5. ASSUME NEW i, NEW state, NEW to, WebhookReceived(h, i, state, to)
            PROVE  loc'[h].snap = payment.status
        <5>1. PICK a, b, c, d : Enter(h, "hook",
                [Reads EXCEPT !.gateway = a, !.target = b, !.key = c, !.raw = d])
          BY <4>5 DEF WebhookReceived
        <5> DEFINE local == [Reads EXCEPT !.gateway = a, !.target = b, !.key = c, !.raw = d]
        <5>2. Enter(h, "hook", local)
          BY <5>1
        <5>3. local.snap = payment.status
          BY DEF Reads, Idle
        <5> HIDE DEF local
        <5> QED
          BY <5>2, <5>3, EnterFresh
      <4> QED
        BY <2>3, <4>1, <4>2, <4>3, <4>4, <4>5
    <3>3. UNCHANGED payment
      BY <2>3 DEF ContinueHostedCheckout, InitiateOzowPayment, Failover, LookupRead, WebhookReceived
    <3> QED
      BY <3>2, <3>3 DEF Fresh
  <2>4. CASE \E request \in Requests : CreatePayment(h, request)
    <3>1. PICK request \in Requests : CreatePayment(h, request)
      BY <2>4
    <3>2. [Idle EXCEPT !.requested = request, !.cands = Decide(request)].snap = "CREATED"
      BY DEF Idle
    <3>3. payment'.status = "CREATED"
      BY <3>1 DEF CreatePayment
    <3>4. loc'[h].snap = "CREATED"
      BY <3>1, <3>2, EnterLocal DEF CreatePayment
    <3> QED
      BY <3>3, <3>4 DEF Fresh
  <2>5. CASE InitFails(h) /\ ~Leave(h)
    <3>1. /\ pc[h] # "idle" /\ payment'.status = payment.status
          /\ loc'[h] = [loc[h] EXCEPT !.cands = Tail(@)]
      BY <2>5 DEF InitFails, IInv, TypeOK
    <3>2. loc'[h].snap = loc[h].snap
      BY <2>1, <3>1 DEF Locals
    <3> QED
      BY <3>1, <3>2 DEF Fresh
  <2>6. CASE LookupAnswer(h) /\ ~Leave(h)
    <3>1. /\ pc[h] # "idle" /\ UNCHANGED payment
          /\ \E to : loc'[h] = [loc[h] EXCEPT !.target = to]
      BY <2>6 DEF LookupAnswer, IInv, TypeOK
    <3>2. loc'[h].snap = loc[h].snap
      BY <2>1, <3>1 DEF Locals
    <3> QED
      BY <3>1, <3>2 DEF Fresh
  <2>7. CASE WebhookBegin(h) /\ ~Leave(h)
    <3>1. UNCHANGED payment /\ loc'[h] = [loc[h] EXCEPT !.snap = payment.status]
      BY <2>7 DEF WebhookBegin, IInv, TypeOK
    <3>2. loc'[h].snap = payment.status
      BY <2>1, <3>1 DEF Locals
    <3> QED
      BY <3>1, <3>2 DEF Fresh
  <2> QED
    BY <1>1, <2>2, <2>3, <2>4, <2>5, <2>6, <2>7
    DEF Handler, InitSucceeds, InitiateOzowCommit, FailoverCommit, SyncCommit, WebhookCommit, Abort
<1>2. CASE UNCHANGED <<payment, pc, loc>>
  BY <1>2 DEF Fresh
<1> QED
  BY <1>1, <1>2 DEF Next, GatewayMoves, vars

\* Opening a session captures nothing.
LEMMA OpenSession ==
    ASSUME IInv, session' = Append(session, "open")
    PROVE  Funded' = Funded
<1>1. session \in Seq(ProviderStates)
  BY DEF IInv, TypeOK
<1>2. /\ DOMAIN session' = DOMAIN session \cup {Len(session) + 1}
      /\ \A i \in DOMAIN session : session'[i] = session[i]
      /\ session'[Len(session) + 1] = "open"
  BY <1>1
<1> QED
  BY <1>2 DEF Funded

\* A change of status that the abstract machine knows: created, reported or reopened.
LEMMA StatusPromise ==
    ASSUME NEW h, Procs = {h}, SerialInv, SerialInv', Next, payment'.status # payment.status
    PROVE  Promise!Next
<1>1. /\ \/ \E request \in Requests : CreatePayment(h, request)
         \/ InitSucceeds(h) \/ InitiateOzowCommit(h) \/ FailoverCommit(h)
         \/ SyncCommit(h) \/ WebhookCommit(h)
  BY StatusWriters DEF SerialInv
<1>2. Funded' = Funded
  BY <1>1, OpenSession DEF SerialInv, CreatePayment, InitSucceeds, InitiateOzowCommit,
     FailoverCommit, SyncCommit, WebhookCommit, AddAttempt, Funded
<1>3. CASE \E request \in Requests : CreatePayment(h, request)
  <2>1. payment.status = "ABSENT" /\ payment'.status = "CREATED"
    BY <1>3 DEF CreatePayment, Exists
  <2> QED
    BY <1>2, <2>1 DEF Promise!Next, Promise!Create
<1>4. CASE InitSucceeds(h) \/ InitiateOzowCommit(h) \/ FailoverCommit(h)
             \/ SyncCommit(h) \/ WebhookCommit(h)
  <2>1. pc[h] # "idle" /\ pc'[h] = "idle"
    BY <1>4 DEF InitSucceeds, InitiateOzowCommit, FailoverCommit, SyncCommit, WebhookCommit,
       Leave, SerialInv, IInv, TypeOK
  <2>2. Exists /\ payment.status \in Statuses
    BY <2>1 DEF SerialInv, IInv, Started, TypeOK, Exists
  <2>3. payment'.status \in Statuses
    BY <1>4, <2>2 DEF SerialInv, IInv, TypeOK, Armed, Locals, InitSucceeds, InitiateOzowCommit,
       FailoverCommit, SyncCommit, WebhookCommit, ReopenedStatus, Statuses
  <2>4. \/ CanTransitionPaymentStatus(payment.status, payment'.status)
        \/ payment.status \in {"FAILED", "CANCELLED"} /\ payment'.status = "PENDING"
    BY <2>1, StepOrderly DEF SerialInv, Fresh, StatusOrderly
  <2>5. payment'.status = "PAID" => Funded
    BY <1>2 DEF SerialInv, FundedInv
  <2> QED
    BY <1>2, <2>2, <2>3, <2>4, <2>5 DEF Promise!Next, Promise!Report, Promise!Reopen,
       Promise!CanTransitionPaymentStatus, CanTransitionPaymentStatus,
       Promise!TransitionsFrom, TransitionsFrom, Promise!Statuses, Statuses
<1> QED
  BY <1>1, <1>3, <1>4

\* Every step is a step of the abstract machine or changes nothing it sees.
LEMMA StepPromise ==
    ASSUME NEW h, Procs = {h}, SerialInv, SerialInv', [Next]_vars
    PROVE  [Promise!Next]_(Promise!vars)
<1>1. CASE payment'.status # payment.status
  BY <1>1, StatusPromise DEF vars
<1>2. CASE payment'.status = payment.status /\ Funded' = Funded
  BY <1>2 DEF Promise!vars
<1>3. CASE payment'.status = payment.status /\ Funded' # Funded
  <2>1. Funded' = TRUE
    BY <1>3, FundedStays DEF SerialInv, Funded
  <2>2. attempts' # << >>
    BY <2>1 DEF SerialInv, IInv, TypeOK, Funded
  <2>3. payment'.status # "ABSENT"
    BY <2>2 DEF SerialInv, IInv, Started, Exists
  <2> QED
    BY <1>3, <2>1, <2>3 DEF Promise!Next, Promise!Capture
<1> QED
  BY <1>1, <1>2, <1>3

\* With one handler at a time, and for any gateways and any number of attempts, the
\* payment implements the abstract machine: PAID is final and funded, and a failed or
\* cancelled payment is revived only by a new session.
THEOREM SerialPromise ==
    ASSUME NEW h, Procs = {h}
    PROVE  Spec => PromiseKept
<1>1. Init => SerialInv
  BY InitType, InitFunded DEF Init, SerialInv, Considered, Fresh
<1>2. SerialInv /\ [Next]_vars => SerialInv'
  BY StepType, StepFunded, StepConsidered, StepFresh DEF SerialInv
<1>3. Init => Promise!Init
  BY DEF Init, Promise!Init, Funded
<1>4. SerialInv /\ SerialInv' /\ [Next]_vars => [Promise!Next]_(Promise!vars)
  BY StepPromise
<1> QED
  BY <1>1, <1>2, <1>3, <1>4, PTL DEF Spec, PromiseKept, Promise!Spec

-----------------------------------------------------------------------------
(* One handler at a time: the newest attempt of a PAID payment *)

\* Who writes PAID marks the newest attempt, of which there is one: a session was paid.
LEMMA ReportSucceeded ==
    ASSUME NEW h \in Procs, SerialInv, FundedInv', SyncCommit(h) \/ WebhookCommit(h)
    PROVE  PaidAttemptSucceeded'
<1> SUFFICES ASSUME payment'.status = "PAID"
             PROVE  attempts' # << >> /\ attempts'[Len(attempts')].status = "SUCCEEDED"
  BY DEF PaidAttemptSucceeded
<1>1. loc[h].snap = payment.status /\ attempts \in Seq(Attempts) /\ Len(session) = Len(attempts)
      /\ session \in Seq(ProviderStates)
  BY DEF SerialInv, Fresh, IInv, TypeOK, SyncCommit, WebhookCommit
<1>2. loc[h].target = "PAID"
  BY <1>1 DEF SyncCommit, WebhookCommit
<1>3. attempts # << >>
  <2>1. Funded
    BY DEF FundedInv, Funded, SyncCommit, WebhookCommit
  <2> QED
    BY <1>1, <2>1 DEF Funded
<1>4. attempts' = [attempts EXCEPT ![Len(attempts)].status = "SUCCEEDED"]
  BY <1>2, <1>3 DEF SyncCommit, WebhookCommit, LatestAttemptFollows, MapPaymentStatusToAttemptStatus
<1>5. Len(attempts) \in DOMAIN attempts /\ attempts[Len(attempts)] \in Attempts
  BY <1>1, <1>3
<1>6. Len(attempts') = Len(attempts) /\ attempts' # << >>
  BY <1>1, <1>3, <1>4
<1> QED
  BY <1>4, <1>5, <1>6 DEF Attempts

\* A session is opened on a payment that is CREATED or PENDING afterwards.
LEMMA ReopenedOpen == \A s : ReopenedStatus(s) # "PAID"
  BY DEF ReopenedStatus

LEMMA StepSucceeded ==
    ASSUME NEW h, Procs = {h}, SerialInv, FundedInv', PaidAttemptSucceeded, [Next]_vars
    PROVE  PaidAttemptSucceeded'
<1>1. CASE payment'.status = payment.status /\ UNCHANGED attempts
  BY <1>1 DEF PaidAttemptSucceeded
<1>2. CASE payment'.status # "PAID"
  BY <1>2 DEF PaidAttemptSucceeded
<1>3. ASSUME Handler(h)
      PROVE  PaidAttemptSucceeded'
  <2>1. CASE InitFails(h)
    <3>1. payment.status # "PAID" /\ payment'.status = payment.status
      BY <2>1 DEF InitFails, SerialInv, Considered, Fresh, IInv, TypeOK
    <3> QED
      BY <1>2, <3>1
  <2>2. CASE SyncCommit(h) \/ WebhookCommit(h)
    BY <2>2, ReportSucceeded
  <2>3. CASE \/ \E request \in Requests : CreatePayment(h, request)
             \/ InitSucceeds(h) \/ InitiateOzowCommit(h) \/ FailoverCommit(h)
    <3>1. (\E request \in Requests : CreatePayment(h, request)) => payment'.status # "PAID"
      BY DEF CreatePayment
    <3>2. InitSucceeds(h) => payment'.status # "PAID"
      BY ReopenedOpen DEF InitSucceeds
    <3>3. InitiateOzowCommit(h) => payment'.status # "PAID"
      BY ReopenedOpen DEF InitiateOzowCommit
    <3>4. FailoverCommit(h) => payment'.status # "PAID"
      BY DEF FailoverCommit
    <3>5. payment'.status # "PAID"
      BY <2>3, <3>1, <3>2, <3>3, <3>4
    <3> QED
      BY <1>2, <3>5
  <2> QED
    BY <1>1, <1>3, <2>1, <2>2, <2>3 DEF Handler, ContinueHostedCheckout, InitiateOzowPayment,
       Failover, LookupRead, LookupAnswer, WebhookReceived, WebhookBegin, Abort
<1> QED
  BY <1>1, <1>3 DEF Next, GatewayMoves, vars

LEMMA InitSerial == Init => SerialInv
  BY InitType, InitFunded DEF Init, SerialInv, Considered, Fresh

LEMMA StepSerial ==
    ASSUME NEW h, Procs = {h}, SerialInv, [Next]_vars
    PROVE  SerialInv'
  BY StepType, StepFunded, StepConsidered, StepFresh DEF SerialInv

\* With one handler at a time, whatever gateways and however many attempts: a PAID
\* payment's newest attempt is the SUCCEEDED one.
THEOREM NewestSucceeded ==
    ASSUME NEW h, Procs = {h}
    PROVE  Spec => []PaidAttemptSucceeded
<1>1. Init => SerialInv /\ PaidAttemptSucceeded
  BY InitSerial DEF Init, PaidAttemptSucceeded
<1>2. SerialInv /\ PaidAttemptSucceeded /\ [Next]_vars => SerialInv' /\ PaidAttemptSucceeded'
  BY StepSerial, StepSucceeded DEF SerialInv
<1> QED
  BY <1>1, <1>2, PTL DEF Spec

-----------------------------------------------------------------------------
(* One handler at a time: no failover after a hand-off *)

UrlGiven == \E i \in DOMAIN attempts : attempts[i].url

\* A PayFast notification under way, which will replace rawGateway.
PayfastSpeaks(p) ==
    /\ pc[p] \in {"hook", "tx"}
    /\ \E i \in DOMAIN attempts :
          attempts[i].gateway = "PAYFAST" /\ loc[p].key = EventKey("PAYFAST", i, session[i])

\* Inductive: the row knows of a redirect that was handed out, and so does whoever
\* has read it, unless PayFast spoke.
HandoffInv ==
    /\ UrlGiven => payment.raw.handoff \/ PayfastSpoke
    /\ \A p \in Procs : pc[p] # "idle" =>
          loc[p].raw.handoff = payment.raw.handoff \/ PayfastSpeaks(p)
    /\ \A p \in Procs : pc[p] = "failover" => ~payment.raw.handoff

\* Attempts are added at the end, and keep their gateway and their redirect.
SameShape(new) ==
    /\ DOMAIN attempts \subseteq DOMAIN new
    /\ \A i \in DOMAIN attempts : new[i].gateway = attempts[i].gateway /\ new[i].url = attempts[i].url

LEMMA FollowShape ==
    ASSUME IInv, NEW status \in Statuses, attempts' = LatestAttemptFollows(status)
    PROVE  SameShape(attempts') /\ DOMAIN attempts' = DOMAIN attempts
<1> DEFINE to == MapPaymentStatusToAttemptStatus(status)
<1>1. attempts \in Seq(Attempts)
  BY DEF IInv, TypeOK
<1>2. CASE attempts' = attempts
  BY <1>2 DEF SameShape
<1>3. CASE attempts # << >> /\ to # "none"
  <2>1. attempts' = [attempts EXCEPT ![Len(attempts)].status = to]
    BY <1>3 DEF LatestAttemptFollows
  <2>2. DOMAIN attempts' = DOMAIN attempts
    BY <2>1
  <2>3. \A i \in DOMAIN attempts : attempts[i] \in Attempts
    BY <1>1
  <2>4. \A i \in DOMAIN attempts : attempts'[i] \in {attempts[i], [attempts[i] EXCEPT !.status = to]}
    BY <2>1
  <2> QED
    BY <2>2, <2>3, <2>4 DEF SameShape, Attempts
<1> QED
  BY <1>2, <1>3 DEF LatestAttemptFollows

\* What PayFast has said stays said.
LEMMA SpokeStays ==
    ASSUME PayfastSpoke, SameShape(attempts'), processed \subseteq processed'
    PROVE  PayfastSpoke'
  BY DEF PayfastSpoke, SameShape, EventKey, EventGateways

LEMMA SpeaksStays ==
    ASSUME NEW p, PayfastSpeaks(p), SameShape(attempts'),
           pc'[p] \in {"hook", "tx"}, loc'[p].key = loc[p].key
    PROVE  PayfastSpeaks(p)'
  BY DEF PayfastSpeaks, SameShape, EventKey, EventGateways

LEMMA UnchangedShape ==
    ASSUME UNCHANGED attempts
    PROVE  SameShape(attempts') /\ UrlGiven' = UrlGiven
  BY DEF SameShape, UrlGiven

\* The handler is gone: only the row has to know.
LEMMA LeaveHandoff ==
    ASSUME NEW h, Procs = {h}, IInv, Leave(h),
           UrlGiven' => payment'.raw.handoff \/ PayfastSpoke'
    PROVE  HandoffInv'
  BY DEF HandoffInv, Leave, IInv, TypeOK

\* The handler has just read the row.
LEMMA EnterHandoff ==
    ASSUME NEW h, Procs = {h}, IInv, HandoffInv, NEW step, NEW local, Enter(h, step, local),
           UNCHANGED <<payment, attempts, session, processed>>,
           local.raw.handoff = payment.raw.handoff \/ PayfastSpeaks(h)',
           step = "failover" => ~payment.raw.handoff
    PROVE  HandoffInv'
<1>1. loc'[h] = local /\ pc'[h] = step
  BY EnterLocal DEF Enter, IInv, TypeOK
<1>2. UrlGiven' => payment'.raw.handoff \/ PayfastSpoke'
  BY DEF HandoffInv, UrlGiven, PayfastSpoke
<1> QED
  BY <1>1, <1>2 DEF HandoffInv

LEMMA ReaderHandoff ==
    ASSUME NEW h, Procs = {h}, IInv, HandoffInv,
           \/ \E request \in SelectableGateways \cup {"AUTO"} : ContinueHostedCheckout(h, request)
           \/ InitiateOzowPayment(h) \/ Failover(h)
           \/ \E g \in LookupGateways : LookupRead(h, g)
    PROVE  HandoffInv'
<1>1. UNCHANGED <<payment, attempts, session, processed>>
  BY DEF ContinueHostedCheckout, InitiateOzowPayment, Failover, LookupRead
<1>2. \E step, local : /\ Enter(h, step, local) /\ local.raw = payment.raw
                       /\ step = "failover" => ~payment.raw.handoff
  <2>1. ASSUME NEW request, ContinueHostedCheckout(h, request)
        PROVE  \E local : Enter(h, "init", local) /\ local.raw = payment.raw
    <3>1. PICK a, b : Enter(h, "init", [Reads EXCEPT !.requested = a, !.cands = b])
      BY <2>1 DEF ContinueHostedCheckout
    <3>2. [Reads EXCEPT !.requested = a, !.cands = b].raw = payment.raw
      BY DEF Reads, Idle
    <3> QED
      BY <3>1, <3>2
  <2>2. CASE InitiateOzowPayment(h)
    <3>1. Enter(h, "ozow", Reads) /\ Reads.raw = payment.raw
      BY <2>2 DEF InitiateOzowPayment, Reads, Idle
    <3> QED
      BY <3>1
  <2>3. CASE Failover(h)
    <3>1. PICK b : Enter(h, "failover", [Reads EXCEPT !.cands = b])
      BY <2>3 DEF Failover
    <3>2. [Reads EXCEPT !.cands = b].raw = payment.raw
      BY DEF Reads, Idle
    <3>3. ~payment.raw.handoff
      BY <2>3 DEF Failover, HasProviderCheckoutStarted
    <3> QED
      BY <3>1, <3>2, <3>3
  <2>4. ASSUME NEW g, LookupRead(h, g)
        PROVE  \E local : Enter(h, "lookup", local) /\ local.raw = payment.raw
    <3>1. Enter(h, "lookup", [Reads EXCEPT !.gateway = g])
      BY <2>4 DEF LookupRead
    <3>2. [Reads EXCEPT !.gateway = g].raw = payment.raw
      BY DEF Reads, Idle
    <3> QED
      BY <3>1, <3>2
  <2> QED
    BY <2>1, <2>2, <2>3, <2>4
<1> QED
  BY <1>1, <1>2, EnterHandoff

LEMMA CreateHandoff ==
    ASSUME NEW h, Procs = {h}, IInv, NEW request \in Requests, CreatePayment(h, request)
    PROVE  HandoffInv'
<1> DEFINE local == [Idle EXCEPT !.requested = request, !.cands = Decide(request)]
<1>1. Enter(h, "init", local) /\ payment'.raw = NullRaw /\ UNCHANGED attempts
  BY DEF CreatePayment
<1>2. local.raw = NullRaw
  BY DEF Idle
<1> HIDE DEF local
<1>3. loc'[h] = local /\ pc'[h] = "init"
  BY <1>1, EnterLocal DEF Enter, IInv, TypeOK
<1>4. attempts' = << >>
  BY <1>1 DEF CreatePayment, IInv, Started
<1>5. ~UrlGiven'
  BY <1>4 DEF UrlGiven
<1> QED
  BY <1>1, <1>2, <1>3, <1>5 DEF HandoffInv

\* A notification merges into what it read, or is PayFast's.
LEMMA ReceivedHandoff ==
    ASSUME NEW h, Procs = {h}, IInv, HandoffInv, NEW i \in DOMAIN session, NEW to \in Statuses,
           NEW state, WebhookReceived(h, i, state, to)
    PROVE  HandoffInv'
<1> DEFINE g == attempts[i].gateway
           raw == IF g = "PAYFAST" THEN NullRaw
                  ELSE IF g \in EventGateways THEN [payment.raw EXCEPT !.event[g] = to]
                  ELSE payment.raw
           local == [Reads EXCEPT !.gateway = g, !.target = to,
                                  !.key = EventKey(g, i, state), !.raw = raw]
<1>1. Enter(h, "hook", local) /\ UNCHANGED <<payment, attempts, session, processed>>
  BY DEF WebhookReceived
<1>2. local.raw = raw /\ local.key = EventKey(g, i, state)
  BY DEF Reads, Idle
<1>3. loc'[h] = local /\ pc'[h] = "hook"
  BY <1>1, EnterLocal DEF Enter, IInv, TypeOK
<1>4. i \in DOMAIN attempts
  BY DEF IInv, TypeOK
<1>5. CASE g = "PAYFAST"
  <2> HIDE DEF local
  <2>1. loc'[h].key = EventKey("PAYFAST", i, session'[i])
    BY <1>2, <1>3, <1>5 DEF EventKey, EventGateways
  <2>2. PayfastSpeaks(h)'
    BY <1>1, <1>3, <1>4, <1>5, <2>1 DEF PayfastSpeaks
  <2> QED
    BY <1>1, <2>2, EnterHandoff
<1>6. CASE g # "PAYFAST"
  <2>1. raw.handoff = payment.raw.handoff
    BY <1>6 DEF IInv, TypeOK, Raws
  <2>2. local.raw.handoff = payment.raw.handoff
    BY <1>2, <2>1
  <2> HIDE DEF local
  <2> QED
    BY <1>1, <2>2, EnterHandoff
<1> QED
  BY <1>5, <1>6

\* Whoever opens a session writes the hand-off with it.
LEMMA OpenHandoff ==
    ASSUME NEW h, Procs = {h}, IInv,
           InitSucceeds(h) \/ InitiateOzowCommit(h) \/ FailoverCommit(h)
    PROVE  HandoffInv'
<1>1. Leave(h) /\ loc[h].raw \in Raws
  BY DEF InitSucceeds, InitiateOzowCommit, FailoverCommit, IInv, TypeOK, Locals
<1>2. payment'.raw.handoff
  <2>1. CASE InitSucceeds(h)
    BY <1>1, <2>1 DEF InitSucceeds, Raws
  <2>2. CASE InitiateOzowCommit(h)
    BY <1>1, <2>2 DEF InitiateOzowCommit, Raws
  <2>3. CASE FailoverCommit(h)
    BY <1>1, <2>3 DEF FailoverCommit, Raws
  <2> QED
    BY <2>1, <2>2, <2>3
<1> QED
  BY <1>1, <1>2, LeaveHandoff

LEMMA InitFailsHandoff ==
    ASSUME NEW h, Procs = {h}, IInv, HandoffInv, InitFails(h)
    PROVE  HandoffInv'
<1> DEFINE new == [gateway |-> Head(loc[h].cands), status |-> "FAILED", url |-> FALSE]
<1>1. loc[h] \in Locals /\ loc[h].raw \in Raws /\ pc[h] = "init"
      /\ attempts \in Seq(Attempts) /\ attempts' = Append(attempts, new) /\ UNCHANGED processed
  BY DEF IInv, TypeOK, Locals, InitFails
<1>2. payment'.raw.handoff = loc[h].raw.handoff
  BY <1>1 DEF InitFails, IInv, TypeOK, Raws
<1>3. loc[h].raw.handoff = payment.raw.handoff
  BY <1>1 DEF HandoffInv, PayfastSpeaks
<1>4. /\ DOMAIN attempts' = DOMAIN attempts \cup {Len(attempts) + 1}
      /\ \A i \in DOMAIN attempts : attempts'[i] = attempts[i]
      /\ attempts'[Len(attempts) + 1] = new
  BY <1>1
<1>5. SameShape(attempts') /\ (UrlGiven' => UrlGiven)
  BY <1>4 DEF SameShape, UrlGiven
<1>6. UrlGiven' => payment'.raw.handoff \/ PayfastSpoke'
  BY <1>1, <1>2, <1>3, <1>5, SpokeStays DEF HandoffInv
<1>7. CASE Leave(h)
  BY <1>6, <1>7, LeaveHandoff
<1>8. CASE loc' = [loc EXCEPT ![h].cands = Tail(@)] /\ UNCHANGED pc
  <2>1. loc'[h] = [loc[h] EXCEPT !.cands = Tail(@)] /\ pc'[h] = "init"
    BY <1>1, <1>8 DEF IInv, TypeOK
  <2>2. loc'[h].raw = loc[h].raw
    BY <1>1, <2>1 DEF Locals
  <2> QED
    BY <1>2, <1>6, <2>1, <2>2 DEF HandoffInv
<1> QED
  BY <1>7, <1>8 DEF InitFails

LEMMA AnswerHandoff ==
    ASSUME NEW h, Procs = {h}, IInv, HandoffInv, LookupAnswer(h)
    PROVE  HandoffInv'
<1>1. UNCHANGED <<payment, attempts, session, processed>> /\ pc[h] = "lookup" /\ loc[h] \in Locals
  BY DEF LookupAnswer, IInv, TypeOK
<1>2. UrlGiven' => payment'.raw.handoff \/ PayfastSpoke'
  BY <1>1 DEF HandoffInv, UrlGiven, PayfastSpoke
<1>3. CASE Leave(h)
  BY <1>2, <1>3, LeaveHandoff
<1>4. ASSUME NEW to, pc' = [pc EXCEPT ![h] = "sync"], loc' = [loc EXCEPT ![h].target = to]
      PROVE  HandoffInv'
  <2>1. loc'[h] = [loc[h] EXCEPT !.target = to] /\ pc'[h] = "sync"
    BY <1>4 DEF IInv, TypeOK
  <2>2. loc'[h].raw = loc[h].raw
    BY <1>1, <2>1 DEF Locals
  <2>3. loc[h].raw.handoff = payment.raw.handoff
    BY <1>1 DEF HandoffInv, PayfastSpeaks
  <2> QED
    BY <1>1, <1>2, <2>1, <2>2, <2>3 DEF HandoffInv
<1> QED
  BY <1>3, <1>4 DEF LookupAnswer

LEMMA BeginHandoff ==
    ASSUME NEW h, Procs = {h}, IInv, HandoffInv, WebhookBegin(h)
    PROVE  HandoffInv'
<1>1. UNCHANGED <<payment, attempts, session>> /\ pc[h] = "hook" /\ loc[h] \in Locals
      /\ processed \subseteq processed'
  BY DEF WebhookBegin, IInv, TypeOK
<1>2. UrlGiven' => payment'.raw.handoff \/ PayfastSpoke'
  BY <1>1, UnchangedShape, SpokeStays DEF HandoffInv
<1>3. CASE Leave(h)
  BY <1>2, <1>3, LeaveHandoff
<1>4. CASE pc' = [pc EXCEPT ![h] = "tx"] /\ loc' = [loc EXCEPT ![h].snap = payment.status]
  <2>1. loc'[h] = [loc[h] EXCEPT !.snap = payment.status] /\ pc'[h] = "tx"
    BY <1>4 DEF IInv, TypeOK
  <2>2. loc'[h].raw = loc[h].raw /\ loc'[h].key = loc[h].key
    BY <1>1, <2>1 DEF Locals
  <2>3. PayfastSpeaks(h) => PayfastSpeaks(h)'
    BY <1>1, <2>1, <2>2, UnchangedShape, SpeaksStays
  <2> QED
    BY <1>1, <1>2, <2>1, <2>2, <2>3 DEF HandoffInv
<1> QED
  BY <1>3, <1>4 DEF WebhookBegin

\* A status writer writes back the hand-off it read, or PayFast has spoken.
LEMMA ReportHandoff ==
    ASSUME NEW h, Procs = {h}, IInv, HandoffInv, SyncCommit(h) \/ WebhookCommit(h)
    PROVE  HandoffInv'
<1>1. Leave(h) /\ payment'.raw = loc[h].raw /\ loc[h].target \in Statuses
      /\ attempts' = LatestAttemptFollows(loc[h].target) /\ processed \subseteq processed'
      /\ pc[h] \in {"sync", "tx"}
  BY DEF SyncCommit, WebhookCommit, IInv, Armed
<1>2. SameShape(attempts') /\ (UrlGiven' => UrlGiven)
  BY <1>1, FollowShape DEF SameShape, UrlGiven
<1>3. CASE loc[h].raw.handoff = payment.raw.handoff
  BY <1>1, <1>2, <1>3, SpokeStays, LeaveHandoff DEF HandoffInv
<1>4. CASE PayfastSpeaks(h)
  <2>1. WebhookCommit(h)
    BY <1>4 DEF PayfastSpeaks, SyncCommit
  <2>2. PayfastSpoke'
    BY <1>2, <1>4, <2>1 DEF PayfastSpeaks, PayfastSpoke, WebhookCommit, SameShape
  <2> QED
    BY <1>1, <2>2, LeaveHandoff
<1> QED
  BY <1>1, <1>3, <1>4 DEF HandoffInv

LEMMA StepHandoff ==
    ASSUME NEW h, Procs = {h}, IInv, HandoffInv, [Next]_vars
    PROVE  HandoffInv'
<1>1. CASE Handler(h)
  <2>1. CASE Abort(h)
    <3>1. Leave(h) /\ UNCHANGED <<payment, attempts, session, processed>>
      BY <2>1 DEF Abort
    <3> QED
      BY <3>1, UnchangedShape, SpokeStays, LeaveHandoff DEF HandoffInv
  <2> QED
    BY <1>1, <2>1, ReaderHandoff, CreateHandoff, ReceivedHandoff, OpenHandoff, InitFailsHandoff,
       AnswerHandoff, BeginHandoff, ReportHandoff DEF Handler
<1>2. CASE UNCHANGED <<payment, attempts, processed, pc, loc>>
  <2>1. PayfastSpoke => PayfastSpoke'
    BY <1>2, UnchangedShape, SpokeStays
  <2>2. \A p \in Procs : PayfastSpeaks(p) => PayfastSpeaks(p)'
    BY <1>2 DEF PayfastSpeaks, EventKey, EventGateways
  <2> QED
    BY <1>2, <2>1, <2>2, UnchangedShape DEF HandoffInv
<1> QED
  BY <1>1, <1>2 DEF Next, GatewayMoves, vars

\* Of the handlers at "failover" only the commit adds an attempt and ends.
LEMMA FailoverBlind ==
    ASSUME NEW h, Procs = {h}, IInv, HandoffInv, pc[h] = "failover", attempts' # attempts
    PROVE  PayfastSpoke \/ \A i \in DOMAIN attempts : ~attempts[i].url
  BY DEF HandoffInv, UrlGiven

\* With one handler at a time, whatever gateways and however many attempts: a failover
\* opens a session only if no redirect was handed out, or PayFast's notification has
\* made the payment forget it.
THEOREM HandoffRespected ==
    ASSUME NEW h, Procs = {h}
    PROVE  Spec => NoFailoverAfterHandoff
<1>1. Init => IInv /\ HandoffInv
  BY InitType DEF Init, HandoffInv, UrlGiven
<1>2. IInv /\ HandoffInv /\ [Next]_vars => IInv' /\ HandoffInv'
  BY StepType, StepHandoff
<1>3. IInv /\ HandoffInv /\ [Next]_vars =>
        [\A p \in Procs : pc[p] = "failover" /\ attempts' # attempts /\ pc'[p] = "idle"
            => PayfastSpoke \/ \A i \in DOMAIN attempts : ~attempts[i].url]_vars
  BY FailoverBlind
<1> QED
  BY <1>1, <1>2, <1>3, PTL DEF Spec, NoFailoverAfterHandoff
=============================================================================
