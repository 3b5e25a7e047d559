------------------------------- MODULE Intake -------------------------------
(***************************************************************************)
(* How a merchant's payments and payment intents come to be: requests      *)
(* under Idempotency-Keys, the fee and the plan that price and permit      *)
(* them, and the hourly scheduler that charges a subscription by creating  *)
(* an intent.                                                              *)
(*                                                                         *)
(* The key's row is looked up first and written last, after the gateway    *)
(* was asked; a subscription is charged before its next billing date       *)
(* moves.  None of it is a transaction: requests and cycles of Procs       *)
(* overlap at every await and may stop there.                              *)
(***************************************************************************)
EXTENDS Integers, FiniteSets, Sequences, SequencesExt

CONSTANTS Procs,      \* requests and scheduler cycles that run at the same time
          Keys,       \* Idempotency-Keys
          Bodies,     \* request bodies
          Scope,      \* Scope[b]: the route b is sent to
          Reference,  \* Reference[b]: the reference it asks for, NoReference if none
          Gateway,    \* Gateway[b]: "AUTO", or "EXPLICIT" if it names one
          Amount,     \* Amount[b]: in cents
          Merchants,  \* the merchant's row: plan and own fee, as it may be when read
          PlanFee,    \* PlanFee[plan]: the fee set for the plan, NoFee if none
          PlatformFee, \* the fee where nothing else is set
          Offers,     \* subscriptions to choose from: first billing date and interval
          MaxRows     \* bound on the payments and intents

NoReference == "random"
NoKey == "none"
SubBody == "subscription"
Scopes == {"payments.create", "payment_intents.create"}
Plans == {"starter", "growth", "scale"}
NoFee == [fixed |-> -1, bps |-> -1]
NoMerchant == [plan |-> "none", fee |-> NoFee]
Fees == [fixed : Nat, bps : Nat]
Dates == [y : Nat, m : 1..12, d : 1..31]
Intervals == {"DAY", "WEEK", "MONTH", "YEAR"}

IsLeap(y) == y % 4 = 0 /\ (y % 100 # 0 \/ y % 400 = 0)

MonthLength(y, m) ==
    CASE m = 2 -> IF IsLeap(y) THEN 29 ELSE 28
      [] m \in {4, 6, 9, 11} -> 30
      [] OTHER -> 31

\* Of the days of its month, as every JavaScript date is.
IsDay(date) == date.d <= MonthLength(date.y, date.m)

ASSUME BodiesAssumption ==
    /\ SubBody \notin Bodies /\ "none" \notin Bodies
    /\ Scope \in [Bodies -> Scopes] /\ Gateway \in [Bodies -> {"AUTO", "EXPLICIT"}]
    /\ Amount \in [Bodies -> Nat \ {0}] /\ DOMAIN Reference = Bodies
    /\ \A b \in Bodies : Scope[b] = "payment_intents.create" => Reference[b] = NoReference
ASSUME FeesAssumption ==
    /\ Merchants \subseteq [plan : Plans, fee : Fees] /\ PlatformFee \in Fees
    /\ PlanFee \in [Plans -> Fees \cup {NoFee}]
ASSUME OffersAssumption ==
    /\ Offers \subseteq [start : Dates, interval : Intervals]
    /\ \A offer \in Offers : IsDay(offer.start)
ASSUME BoundAssumption == MaxRows \in Nat /\ NoKey \notin Keys

VARIABLES rows,    \* payments and intents, in the order of creation
          keyRow,  \* keyRow[s, k]: the body and the payment stored for the key, NoRow if none
          sub,     \* the subscription, NoSub before it is created
          pc, loc, \* where each request or cycle stands and what it holds
          excused, \* ghost: the keys under which more than one row may be created,
          rebilled \* ghost: the billing dates that may be charged again

vars == <<rows, keyRow, sub, pc, loc, excused, rebilled>>

-----------------------------------------------------------------------------
(* Plans and fees *)

\* BUILTIN_PLAN_FEATURES: a starter may not name a gateway; all may leave it open.
ManualGatewaySelection(plan) == plan # "starter"

\* The scheduler names a gateway (PAYFAST).
RoutingPlanAllows(m, b) ==
    b = SubBody \/ Gateway[b] = "EXPLICIT" => ManualGatewaySelection(m.plan)

\* resolveMerchantPlan: the merchant's own fee if any of it is set, else the plan's, else
\* the platform's.
FeePolicy(m) ==
    CASE m.fee.fixed > 0 \/ m.fee.bps > 0 -> m.fee
      [] m.fee = [fixed |-> 0, bps |-> 0] /\ PlanFee[m.plan] # NoFee -> PlanFee[m.plan]
      [] OTHER -> PlatformFee

\* Mutant: the fraction of a cent is dropped.
TruncatedShare(amount, bps) == (amount * bps) \div 10000

\* Math.round: to the nearest cent, halves up.
RoundedShare(amount, bps) == (2 * amount * bps + 10000) \div 20000

\* computePlatformFeeBreakdown: the customer pays the fee on top of the amount.
ComputedFee(amount, fee) == fee.fixed + RoundedShare(amount, fee.bps)

-----------------------------------------------------------------------------
(* Billing dates *)

NextMonth(date) == IF date.m = 12 THEN [date EXCEPT !.y = @ + 1, !.m = 1]
                   ELSE [date EXCEPT !.m = @ + 1]

\* A day past the end of its month is one of the next month (it is never two months past).
Overflown(date) ==
    IF date.d > MonthLength(date.y, date.m)
    THEN [NextMonth(date) EXCEPT !.d = date.d - MonthLength(date.y, date.m)]
    ELSE date

\* Mutant: a month is thirty days.
ThirtyDays(date, interval) ==
    CASE interval = "DAY" -> Overflown([date EXCEPT !.d = @ + 1])
      [] interval = "WEEK" -> Overflown([date EXCEPT !.d = @ + 7])
      [] interval = "MONTH" -> Overflown([date EXCEPT !.d = @ + 30])
      [] interval = "YEAR" -> Overflown([date EXCEPT !.y = @ + 1])

\* computeNextBillingDate: setDate, setMonth and setFullYear overflow: a month after the
\* 31st of January is a day in March.
ComputeNextBillingDate(date, interval) ==
    CASE interval = "DAY" -> Overflown([date EXCEPT !.d = @ + 1])
      [] interval = "WEEK" -> Overflown([date EXCEPT !.d = @ + 7])
      [] interval = "MONTH" -> Overflown(NextMonth(date))
      [] interval = "YEAR" -> Overflown([date EXCEPT !.y = @ + 1])

-----------------------------------------------------------------------------

NoDate == [y |-> 0, m |-> 1, d |-> 1]
NoSub == [start |-> NoDate, interval |-> "none", next |-> NoDate]
NoRow == [body |-> "none", row |-> 0]

Steps == {"idle", "prepare", "check", "insert", "gateway", "attempt", "key", "advance"}

\* key, body: of a request, or SubBody of a cycle with its due date; fee: as computed from
\* the merchant's row, merchant; row: the row created, 0 before.
Idle == [key |-> NoKey, body |-> "none", due |-> NoDate, fee |-> 0,
         merchant |-> NoMerchant, row |-> 0]

At(p, step) == pc[p] = step

Goto(p, step, local) ==
    /\ pc' = [pc EXCEPT ![p] = step]
    /\ loc' = [loc EXCEPT ![p] = local]

Leave(p) == Goto(p, "idle", Idle)

IsPayment(p) == loc[p].body \in Bodies /\ Scope[loc[p].body] = "payments.create"

\* A request under the key is past its look-up.
UnderWay(s, k) == \E p \in Procs : loc[p].key = k /\ Scope[loc[p].body] = s

\* A request that ends after it created its row leaves the key without it; a cycle that
\* ends before the date has moved leaves its charge to be made again.
GivesUp(p) ==
    /\ excused' = IF loc[p].key \in Keys /\ loc[p].row > 0
                  THEN excused \cup {<<Scope[loc[p].body], loc[p].key>>} ELSE excused
    /\ rebilled' = IF loc[p].body = SubBody /\ loc[p].row > 0
                   THEN rebilled \cup {loc[p].due} ELSE rebilled
    /\ Leave(p)

-----------------------------------------------------------------------------
(* createPayment and createPaymentIntent *)

\* getPaymentResponseById and getPaymentIntentResponseById, for a key's row.
Replay(sk) == rows[keyRow[sk].row]

\* The look for the key's row: another body is refused, the same is answered with the
\* payment as stored (neither writes anything); without a row the request goes on.  A request
\* without a key is as one whose key is never used again.
CreateRequest(p, k, b) ==
    LET sk == <<Scope[b], k>> IN
    /\ At(p, "idle")
    /\ keyRow[sk] = NoRow
    /\ excused' = IF UnderWay(Scope[b], k) THEN excused \cup {sk} ELSE excused
    /\ Goto(p, "prepare", [Idle EXCEPT !.key = k, !.body = b])
    /\ UNCHANGED <<rows, keyRow, sub, rebilled>>

\* The merchant's row is read and with it the plan and the fee; the request is refused if
\* the plan does not allow its gateway.  Intents carry no fee.
Prepare(p, m) ==
    /\ At(p, "prepare")
    /\ IF ~RoutingPlanAllows(m, loc[p].body)
       THEN Leave(p)
       ELSE IF IsPayment(p)
       THEN Goto(p, "check",
                 [loc[p] EXCEPT !.fee = ComputedFee(Amount[loc[p].body], FeePolicy(m)),
                                !.merchant = m])
       ELSE Goto(p, "insert", loc[p])
    /\ UNCHANGED <<rows, keyRow, sub, excused, rebilled>>

ReferenceOf(p) == IF IsPayment(p) THEN Reference[loc[p].body] ELSE NoReference

\* Mutant: no index.
NeverTaken(ref) == FALSE

Stored(ref) == \E i \in 1..Len(rows) : rows[i].reference = ref /\ ref # NoReference

\* The unique index on a payment's reference; a random one is new.
ReferenceTaken(ref) == Stored(ref)

\* The reference must be new: a replay of a request that stopped is refused here.
CheckReference(p) ==
    /\ At(p, "check")
    /\ IF Stored(ReferenceOf(p)) THEN Leave(p) ELSE Goto(p, "insert", loc[p])
    /\ UNCHANGED <<rows, keyRow, sub, excused, rebilled>>

Insert(p) ==
    /\ At(p, "insert")
    /\ Len(rows) < MaxRows
    /\ IF ReferenceTaken(ReferenceOf(p))
       THEN Leave(p) /\ rows' = rows
       ELSE /\ rows' = Append(rows, [body |-> loc[p].body, key |-> loc[p].key,
                                     due |-> loc[p].due, reference |-> ReferenceOf(p),
                                     fee |-> loc[p].fee, merchant |-> loc[p].merchant,
                                     session |-> FALSE])
            /\ Goto(p, "gateway", [loc[p] EXCEPT !.row = Len(rows) + 1])
    /\ UNCHANGED <<keyRow, sub, excused, rebilled>>

AfterSession(p) ==
    Goto(p, IF loc[p].body = SubBody THEN "advance" ELSE "key", loc[p])

\* The gateway opens a session, or the request fails and leaves its row.  A payment's
\* session is stored with the gateway's answer (PaymentLifecycle), an intent's after it.
AskGateway(p, ok) ==
    /\ At(p, "gateway")
    /\ IF ok
       THEN /\ IF IsPayment(p) THEN AfterSession(p) ELSE Goto(p, "attempt", loc[p])
            /\ rows' = IF IsPayment(p) THEN [rows EXCEPT ![loc[p].row].session = TRUE] ELSE rows
            /\ UNCHANGED <<excused, rebilled>>
       ELSE GivesUp(p) /\ rows' = rows
    /\ UNCHANGED <<keyRow, sub>>

StoreAttempt(p) ==
    /\ At(p, "attempt")
    /\ rows' = [rows EXCEPT ![loc[p].row].session = TRUE]
    /\ AfterSession(p)
    /\ UNCHANGED <<keyRow, sub, excused, rebilled>>

\* Mutant: an existing row keeps its body.
KeepsHash(p) ==
    LET sk == <<Scope[loc[p].body], loc[p].key>> IN
    /\ At(p, "key")
    /\ keyRow' = [keyRow EXCEPT ![sk] = [body |-> IF @ = NoRow THEN loc[p].body ELSE @.body,
                                         row |-> loc[p].row]]
    /\ Leave(p)
    /\ UNCHANGED <<rows, sub, excused, rebilled>>

\* The upsert of the key's row: the last of two requests that overlapped is kept.
StoreKey(p) ==
    LET sk == <<Scope[loc[p].body], loc[p].key>> IN
    /\ At(p, "key")
    /\ keyRow' = [keyRow EXCEPT ![sk] = [body |-> loc[p].body, row |-> loc[p].row]]
    /\ Leave(p)
    /\ UNCHANGED <<rows, sub, excused, rebilled>>

-----------------------------------------------------------------------------
(* Subscriptions *)

CreateSubscription(offer) ==
    /\ sub = NoSub
    /\ sub' = [start |-> offer.start, interval |-> offer.interval, next |-> offer.start]
    /\ UNCHANGED <<rows, keyRow, pc, loc, excused, rebilled>>

\* A cycle finds the subscription due (time may have passed as far as it likes).  Cycles
\* are not kept apart: the date may be in the hands of another.
ProcessSubscriptions(p) ==
    /\ At(p, "idle")
    /\ sub # NoSub
    /\ rebilled' = IF \E q \in Procs : loc[q].body = SubBody /\ loc[q].due = sub.next
                   THEN rebilled \cup {sub.next} ELSE rebilled
    /\ Goto(p, "prepare", [Idle EXCEPT !.body = SubBody, !.due = sub.next])
    /\ UNCHANGED <<rows, keyRow, sub, excused>>

Charged == {rows[i].due : i \in {j \in 1..Len(rows) : rows[j].body = SubBody}}

\* The date moves on from the one that was charged; if it has moved since, it moves back,
\* and what was charged meanwhile will be again.
Advance(p) ==
    LET next == ComputeNextBillingDate(loc[p].due, sub.interval) IN
    /\ At(p, "advance")
    /\ sub' = [sub EXCEPT !.next = next]
    /\ rebilled' = IF sub.next = loc[p].due THEN rebilled ELSE rebilled \cup Charged
    /\ Leave(p)
    /\ UNCHANGED <<rows, keyRow, excused>>

\* A crash, a database that fails, or a merchant without a gateway that is ready.
Stop(p) ==
    /\ ~At(p, "idle")
    /\ GivesUp(p)
    /\ UNCHANGED <<rows, keyRow, sub>>

-----------------------------------------------------------------------------

Init ==
    /\ rows = << >>
    /\ keyRow = [sk \in Scopes \X Keys |-> NoRow]
    /\ sub = NoSub
    /\ pc = [p \in Procs |-> "idle"] /\ loc = [p \in Procs |-> Idle]
    /\ excused = {} /\ rebilled = {}

Request(p) ==
    \/ \E k \in Keys, b \in Bodies : CreateRequest(p, k, b)
    \/ \E m \in Merchants : Prepare(p, m)
    \/ CheckReference(p)
    \/ Insert(p)
    \/ \E ok \in BOOLEAN : AskGateway(p, ok)
    \/ StoreAttempt(p)
    \/ StoreKey(p)

Next ==
    \/ \E offer \in Offers : CreateSubscription(offer)
    \/ \E p \in Procs : Request(p) \/ ProcessSubscriptions(p) \/ Advance(p) \/ Stop(p)

Spec == Init /\ [][Next]_vars

-----------------------------------------------------------------------------
(* Properties *)

Locals == [key : Keys \cup {NoKey}, body : Bodies \cup {SubBody, "none"},
           due : Dates \cup {NoDate}, fee : Nat, merchant : Merchants \cup {NoMerchant},
           row : 0..MaxRows]

\* The type invariant.
TypeOK ==
    /\ rows \in Seq([body : Bodies \cup {SubBody}, key : Keys \cup {NoKey},
                     due : Dates \cup {NoDate}, reference : Range(Reference) \cup {NoReference},
                     fee : Nat, merchant : Merchants \cup {NoMerchant}, session : BOOLEAN])
    /\ Len(rows) <= MaxRows
    /\ keyRow \in [Scopes \X Keys -> [body : Bodies \cup {"none"}, row : 0..MaxRows]]
    /\ sub \in [start : Dates \cup {NoDate}, interval : Intervals \cup {"none"},
                next : Dates \cup {NoDate}]
    /\ pc \in [Procs -> Steps] /\ loc \in [Procs -> Locals]
    /\ excused \subseteq Scopes \X Keys /\ rebilled \subseteq Dates \cup {NoDate}

\* No reference is given to two payments, whatever overlaps; and a key creates two only
\* if its requests overlapped or one of them broke off after it had created its row.
PaymentsDistinct ==
    \A i, j \in 1..Len(rows) : i # j =>
        /\ rows[i].reference = rows[j].reference => rows[i].reference = NoReference
        /\ (/\ rows[i].key = rows[j].key /\ rows[i].key \in Keys
            /\ Scope[rows[i].body] = Scope[rows[j].body])
              => <<Scope[rows[i].body], rows[i].key>> \in excused

\* What a replay is answered with was created from the replay's own body, and has a
\* session to pay in, also after two different requests under one key overlapped.
ReplaysAreWhole ==
    \A sk \in Scopes \X Keys : keyRow[sk] # NoRow =>
        /\ Replay(sk).body = keyRow[sk].body
        /\ Replay(sk).session

\* The fee of a payment is that of the merchant's row it was computed from, to the
\* nearest cent: the merchant's own, though only part of it is set, before the plan's.
FeesRoundFairly ==
    \A i \in 1..Len(rows) : rows[i].merchant # NoMerchant =>
        LET m == rows[i].merchant
            own == m.fee.fixed + m.fee.bps > 0
            fee == IF own THEN m.fee
                   ELSE IF PlanFee[m.plan] # NoFee THEN PlanFee[m.plan] ELSE PlatformFee
            off == 10000 * (rows[i].fee - fee.fixed) - Amount[rows[i].body] * fee.bps
        IN -5000 < off /\ off <= 5000

\* The number of a day, by the Gregorian calendar.
LeapYearsBefore(y) == (y + 3) \div 4 - (y + 99) \div 100 + (y + 399) \div 400
DaysBefore(y, m) ==
    <<0, 31, 59, 90, 120, 151, 181, 212, 243, 273, 304, 334>>[m]
        + (IF m > 2 /\ IsLeap(y) THEN 1 ELSE 0)
DayNumber(date) ==
    365 * date.y + LeapYearsBefore(date.y) + DaysBefore(date.y, date.m) + date.d

\* The date is the subscription's n-th after the first.
IsBillingDate(date, n) ==
    LET start == sub.start
        month == start.m - 1 + n
    IN CASE sub.interval = "DAY"  -> IsDay(date) /\ DayNumber(date) = DayNumber(start) + n
         [] sub.interval = "WEEK" -> IsDay(date) /\ DayNumber(date) = DayNumber(start) + 7 * n
         [] sub.interval = "MONTH" ->
              date = [y |-> start.y + month \div 12, m |-> (month % 12) + 1, d |-> start.d]
         [] sub.interval = "YEAR" -> date = [start EXCEPT !.y = @ + n]

\* A daily or weekly subscription, and one that began on one of a month's first 28 days, is
\* charged for every period before its next billing date, on its own day; any is charged
\* twice only if two cycles held the date at a time, one set it back, or one broke off
\* after charging.
EachPeriodBilled ==
    sub # NoSub =>
        /\ sub.interval \in {"DAY", "WEEK"} \/ sub.start.d <= 28 =>
              \E n \in 0..Len(rows) :
                  /\ IsBillingDate(sub.next, n)
                  /\ \A k \in 0..n-1 : \E due \in Charged : IsBillingDate(due, k)
        /\ \A i, j \in 1..Len(rows) :
              (i # j /\ rows[i].body = SubBody /\ rows[j].body = SubBody
                 /\ rows[i].due = rows[j].due) => rows[i].due \in rebilled
=============================================================================
