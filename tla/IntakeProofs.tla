---------------------------- MODULE IntakeProofs -----------------------------
(***************************************************************************)
(* For every set of requests, keys, bodies, fees and offers: a replay is   *)
(* answered with a whole payment of its own body, references and keys give *)
(* distinct payments unless excused, fees round to the nearest cent, and   *)
(* a subscription is charged for every period on its day.                  *)
(***************************************************************************)
EXTENDS Intake, SequenceTheorems, TLAPS

-----------------------------------------------------------------------------
(* The inductive invariant *)

Row == [body : Bodies \cup {SubBody}, key : Keys \cup {NoKey}, due : Dates \cup {NoDate},
        reference : Range(Reference) \cup {NoReference}, fee : Nat,
        merchant : Merchants \cup {NoMerchant}, session : BOOLEAN]

RowIds == 1..Len(rows)

\* TypeOK in parts: the rows, the keys', the subscription's and the tasks'.
RowTypes == rows \in Seq(Row) /\ Len(rows) <= MaxRows

KeyTypes == keyRow \in [Scopes \X Keys -> [body : Bodies \cup {"none"}, row : 0..MaxRows]]

SubTypes == /\ sub \in [start : Dates \cup {NoDate}, interval : Intervals \cup {"none"},
                        next : Dates \cup {NoDate}]
            /\ excused \subseteq Scopes \X Keys /\ rebilled \subseteq Dates \cup {NoDate}

TaskTypes == pc \in [Procs -> Steps] /\ loc \in [Procs -> Locals]

HasRow == {"gateway", "attempt", "key", "advance"}

\* A request has a body and a key, a cycle neither; after the insert they have a row of
\* their body and key, and at the key one with a session.
Held ==
    \A p \in Procs :
        /\ pc[p] = "idle" => loc[p] = Idle
        /\ pc[p] # "idle" => \/ loc[p].body \in Bodies /\ loc[p].key \in Keys
                             \/ loc[p].body = SubBody /\ loc[p].key = NoKey
                                   /\ sub.interval \in Intervals
        /\ pc[p] \in HasRow =>
              loc[p].row \in RowIds /\ rows[loc[p].row].body = loc[p].body
                 /\ rows[loc[p].row].key = loc[p].key
        /\ pc[p] \notin HasRow => loc[p].row = 0
        /\ pc[p] = "key" => loc[p].body \in Bodies /\ rows[loc[p].row].session
        /\ pc[p] = "advance" => loc[p].body = SubBody

RowsSound == \A i \in RowIds : rows[i].key \in Keys <=> rows[i].body \in Bodies

\* What a row, or a task that will insert one, carries as a fee was computed from the
\* merchant's row it carries.
IsPriced(r) == r.merchant # NoMerchant =>
    r.merchant \in Merchants /\ r.body \in Bodies
       /\ r.fee = ComputedFee(Amount[r.body], FeePolicy(r.merchant))

Priced == (\A i \in RowIds : IsPriced(rows[i])) /\ (\A p \in Procs : IsPriced(loc[p]))

KeysStand ==
    \A sk \in Scopes \X Keys : keyRow[sk] # NoRow =>
        /\ keyRow[sk].row \in RowIds
        /\ rows[keyRow[sk].row].body = keyRow[sk].body
        /\ rows[keyRow[sk].row].session

InHand(p, sk) == pc[p] # "idle" /\ loc[p].body \in Bodies /\ <<Scope[loc[p].body], loc[p].key>> = sk
IsOf(i, sk) == rows[i].body \in Bodies /\ <<Scope[rows[i].body], rows[i].key>> = sk

\* A key that is not excused is in the hands of one request, which holds the one row that
\* may have been created under it, or none; once it is stored nobody holds it.
OneHolder == \A sk \in Scopes \X Keys : sk \notin excused =>
                \A p, q \in Procs : InHand(p, sk) /\ InHand(q, sk) => p = q

HolderOrKey == \A sk \in Scopes \X Keys : sk \notin excused =>
                \A i \in RowIds : IsOf(i, sk) =>
                   keyRow[sk] # NoRow \/ \E p \in Procs : InHand(p, sk) /\ loc[p].row = i

StoredIsFree == \A sk \in Scopes \X Keys : sk \notin excused =>
                (keyRow[sk] # NoRow => \A p \in Procs : ~InHand(p, sk))

\* A subscription that was created has an interval.
SubSound == sub = NoSub \/ sub.interval \in Intervals

IInv == /\ TypeOK /\ SubSound /\ Held /\ RowsSound /\ Priced /\ KeysStand
        /\ OneHolder /\ HolderOrKey /\ StoredIsFree /\ PaymentsDistinct

-----------------------------------------------------------------------------
(* Types *)

LEMMA TypesParts == TypeOK <=> RowTypes /\ KeyTypes /\ SubTypes /\ TaskTypes
  BY DEF TypeOK, RowTypes, KeyTypes, SubTypes, TaskTypes, Row

LEMMA TypesNext == TypeOK' <=> (RowTypes /\ KeyTypes /\ SubTypes /\ TaskTypes)'
  BY DEF TypeOK, RowTypes, KeyTypes, SubTypes, TaskTypes, Row

LEMMA Limits == MaxRows \in Nat /\ NoKey \notin Keys
  BY BoundAssumption

LEMMA Parts == \A b \in Bodies : /\ b # SubBody /\ b # "none" /\ Scope[b] \in Scopes
                                 /\ Reference[b] \in Range(Reference)
  BY BodiesAssumption DEF Range

LEMMA IdleType == NoDate \in Dates /\ Idle \in Locals
<1>1. NoDate \in Dates
  BY DEF NoDate, Dates
<1> QED
  BY <1>1, Limits DEF Idle, Locals

\* One task moves.
LEMMA Moved ==
    ASSUME TaskTypes, NEW p \in Procs, NEW step \in Steps, NEW local \in Locals,
           Goto(p, step, local)
    PROVE  /\ TaskTypes'
           /\ pc'[p] = step /\ loc'[p] = local
           /\ \A q \in Procs \ {p} : pc'[q] = pc[q] /\ loc'[q] = loc[q]
  BY DEF TaskTypes, Goto

\* The share of the amount, and with it the fee, is the nearest cent.
LEMMA Rounding ==
    \A x \in Nat : LET q == (2 * x + 10000) \div 20000
                   IN q \in Nat /\ -5000 < 10000 * q - x /\ 10000 * q - x <= 5000
  OBVIOUS

LEMMA PolicyType ==
    ASSUME NEW m \in Merchants
    PROVE  FeePolicy(m) \in Fees
<1>1. m.plan \in Plans /\ m.fee \in Fees /\ PlatformFee \in Fees
      /\ PlanFee[m.plan] \in Fees \cup {NoFee}
  BY FeesAssumption
<1>2. CASE m.fee.fixed > 0 \/ m.fee.bps > 0
  BY <1>1, <1>2 DEF FeePolicy, Fees
<1>3. CASE ~(m.fee.fixed > 0 \/ m.fee.bps > 0) /\ m.fee = [fixed |-> 0, bps |-> 0]
              /\ PlanFee[m.plan] # NoFee
  <2>1. PlanFee[m.plan] \in Fees
    BY <1>1, <1>3
  <2>2. FeePolicy(m) = PlanFee[m.plan]
    BY <1>3 DEF FeePolicy
  <2> QED
    BY <2>1, <2>2
<1>4. CASE ~(m.fee.fixed > 0 \/ m.fee.bps > 0)
              /\ ~(m.fee = [fixed |-> 0, bps |-> 0] /\ PlanFee[m.plan] # NoFee)
  <2>1. FeePolicy(m) = PlatformFee
    BY <1>4 DEF FeePolicy
  <2> QED
    BY <1>1, <2>1
<1> QED
  BY <1>2, <1>3, <1>4

LEMMA Product ==
    ASSUME NEW a \in Nat, NEW b \in Nat
    PROVE  a * b \in Nat /\ 2 * a * b = 2 * (a * b)
  OBVIOUS

LEMMA FeeType ==
    ASSUME NEW amount \in Nat, NEW fee \in Fees
    PROVE  /\ ComputedFee(amount, fee) \in Nat /\ amount * fee.bps \in Nat
           /\ -5000 < 10000 * (ComputedFee(amount, fee) - fee.fixed) - amount * fee.bps
           /\ 10000 * (ComputedFee(amount, fee) - fee.fixed) - amount * fee.bps <= 5000
<1> DEFINE x == amount * fee.bps
           q == (2 * x + 10000) \div 20000
<1>1. fee.fixed \in Nat /\ fee.bps \in Nat
  BY DEF Fees
<1>2. x \in Nat /\ 2 * amount * fee.bps = 2 * x
  BY <1>1, Product
<1>3. ComputedFee(amount, fee) = fee.fixed + q
  BY <1>2 DEF ComputedFee, RoundedShare
<1> HIDE DEF x
<1>4. q \in Nat /\ -5000 < 10000 * q - x /\ 10000 * q - x <= 5000
  BY <1>2, Rounding
<1> HIDE DEF q
<1>5. /\ ComputedFee(amount, fee) \in Nat /\ x \in Nat
      /\ -5000 < 10000 * (ComputedFee(amount, fee) - fee.fixed) - x
      /\ 10000 * (ComputedFee(amount, fee) - fee.fixed) - x <= 5000
  BY <1>1, <1>2, <1>3, <1>4
<1> QED
  BY <1>5 DEF x

LEMMA NextMonthType ==
    ASSUME NEW date \in [y : Nat, m : 1..12, d : 1..38]
    PROVE  NextMonth(date) \in [y : Nat, m : 1..12, d : 1..38]
<1>1. CASE date.m = 12
  <2>1. NextMonth(date) = [y |-> date.y + 1, m |-> 1, d |-> date.d]
    BY <1>1 DEF NextMonth
  <2> QED
    BY <2>1
<1>2. CASE date.m # 12
  <2>1. NextMonth(date) = [y |-> date.y, m |-> date.m + 1, d |-> date.d]
    BY <1>2 DEF NextMonth
  <2>2. date.m + 1 \in 1..12
    BY <1>2
  <2> QED
    BY <2>1, <2>2
<1> QED
  BY <1>1, <1>2

\* A date that overflows by at most a week is one of the next month.
LEMMA OverflownType ==
    ASSUME NEW date \in [y : Nat, m : 1..12, d : 1..38]
    PROVE  Overflown(date) \in Dates
<1>1. MonthLength(date.y, date.m) \in 28..31
  BY DEF MonthLength
<1>2. NextMonth(date) \in [y : Nat, m : 1..12, d : 1..38]
  BY NextMonthType
<1>3. CASE date.d > MonthLength(date.y, date.m)
  <2>1. date.d - MonthLength(date.y, date.m) \in 1..31
    BY <1>1, <1>3
  <2> QED
    BY <1>2, <1>3, <2>1 DEF Overflown, Dates
<1>4. CASE ~(date.d > MonthLength(date.y, date.m))
  BY <1>1, <1>4 DEF Overflown, Dates
<1> QED
  BY <1>3, <1>4

LEMMA NextDateType ==
    ASSUME NEW date \in Dates, NEW interval \in Intervals
    PROVE  ComputeNextBillingDate(date, interval) \in Dates
<1> DEFINE Wide == [y : Nat, m : 1..12, d : 1..38]
<1>0. date \in Wide
  BY DEF Dates
<1>1. date \in Wide /\ NextMonth(date) \in Wide
  BY <1>0, NextMonthType
<1>2. [date EXCEPT !.d = @ + 1] \in Wide /\ [date EXCEPT !.d = @ + 7] \in Wide
      /\ [date EXCEPT !.y = @ + 1] \in Wide
  BY DEF Dates
<1>3. interval \in {"DAY", "WEEK", "MONTH", "YEAR"}
  BY DEF Intervals
<1> HIDE DEF Wide
<1>4. \A d \in Wide : Overflown(d) \in Dates
  BY OverflownType DEF Wide
<1> QED
  BY <1>1, <1>2, <1>3, <1>4 DEF ComputeNextBillingDate

-----------------------------------------------------------------------------
(* What the moves of a task have in common *)

\* The rows stay, but for a session that opens.
RowsKept ==
    /\ Len(rows') = Len(rows)
    /\ \A i \in RowIds : /\ rows'[i].body = rows[i].body /\ rows'[i].key = rows[i].key
                         /\ rows'[i].reference = rows[i].reference
                         /\ rows'[i].fee = rows[i].fee /\ rows'[i].merchant = rows[i].merchant
                         /\ rows[i].session => rows'[i].session

Others(p) == \A q \in Procs \ {p} : pc'[q] = pc[q] /\ loc'[q] = loc[q]

Carries(p) == /\ pc[p] # "idle" /\ pc'[p] # "idle" /\ loc'[p].body = loc[p].body
              /\ loc'[p].key = loc[p].key /\ loc'[p].row = loc[p].row

Drops(p) == /\ pc'[p] = "idle"
            /\ (pc[p] # "idle" /\ loc[p].body \in Bodies /\ loc[p].row > 0)
                  => <<Scope[loc[p].body], loc[p].key>> \in excused'

LEMMA Untouched ==
    ASSUME rows' = rows
    PROVE  RowsKept
  BY DEF RowsKept

\* One task moves on with what it holds, or lets go of it.
LEMMA Onward ==
    ASSUME IInv, NEW p \in Procs, RowsKept, keyRow' = keyRow, excused \subseteq excused',
           Others(p), Carries(p) \/ Drops(p)
    PROVE  /\ RowsSound' /\ KeysStand' /\ OneHolder' /\ HolderOrKey' /\ StoredIsFree'
           /\ PaymentsDistinct'
<1> USE DEF RowIds
<1>1. \A q \in Procs, sk \in Scopes \X Keys : InHand(q, sk)' => InHand(q, sk)
  BY DEF Others, Carries, Drops, InHand
<1>2. \A i \in RowIds', sk \in Scopes \X Keys : IsOf(i, sk)' => IsOf(i, sk)
  BY DEF RowsKept, IsOf
<1>3. RowIds' = RowIds
  BY DEF RowsKept
<1>4. RowsSound'
  BY <1>3 DEF IInv, RowsSound, RowsKept
<1>5. KeysStand'
  BY <1>3 DEF IInv, KeysStand, RowsKept
<1>6. OneHolder' /\ StoredIsFree'
  BY <1>1 DEF IInv, OneHolder, StoredIsFree
<1>7. HolderOrKey'
  <2> SUFFICES ASSUME NEW sk \in Scopes \X Keys, sk \notin excused', NEW i \in RowIds',
                      IsOf(i, sk)', keyRow'[sk] = NoRow
               PROVE  \E q \in Procs : InHand(q, sk)' /\ loc'[q].row = i
    BY DEF HolderOrKey
  <2>1. PICK q \in Procs : InHand(q, sk) /\ loc[q].row = i
    BY <1>2, <1>3 DEF IInv, HolderOrKey
  <2>2. q = p => Carries(p)
    <3>1. i > 0
      BY <1>3
    <3> QED
      BY <2>1, <3>1 DEF Drops, InHand
  <2>3. InHand(q, sk)' /\ loc'[q].row = i
    BY <2>1, <2>2 DEF Others, Carries, InHand
  <2> QED
    BY <2>3
<1>8. PaymentsDistinct'
  BY <1>3 DEF IInv, PaymentsDistinct, RowsKept
<1> QED
  BY <1>4, <1>5, <1>6, <1>7, <1>8

\* What the other tasks hold they still hold, and the prices stand.
HeldBy(q) ==
    /\ pc[q] = "idle" => loc[q] = Idle
    /\ pc[q] # "idle" => \/ loc[q].body \in Bodies /\ loc[q].key \in Keys
                         \/ loc[q].body = SubBody /\ loc[q].key = NoKey
                               /\ sub.interval \in Intervals
    /\ pc[q] \in HasRow =>
          loc[q].row \in RowIds /\ rows[loc[q].row].body = loc[q].body
             /\ rows[loc[q].row].key = loc[q].key
    /\ pc[q] \notin HasRow => loc[q].row = 0
    /\ pc[q] = "key" => loc[q].body \in Bodies /\ rows[loc[q].row].session
    /\ pc[q] = "advance" => loc[q].body = SubBody

LEMMA HeldEach == Held <=> \A q \in Procs : HeldBy(q)
  BY DEF Held, HeldBy

LEMMA HeldNext == Held' <=> \A q \in Procs : HeldBy(q)'
  BY DEF Held, HeldBy

LEMMA OthersHold ==
    ASSUME Held, NEW p \in Procs, RowsKept, Others(p),
           sub.interval \in Intervals => sub'.interval \in Intervals
    PROVE  \A q \in Procs \ {p} : HeldBy(q)'
<1> SUFFICES ASSUME NEW q \in Procs \ {p}
             PROVE  HeldBy(q)'
  OBVIOUS
<1>1. HeldBy(q) /\ pc'[q] = pc[q] /\ loc'[q] = loc[q]
  BY HeldEach DEF Others
<1>2. RowIds' = RowIds
  BY DEF RowsKept, RowIds
<1> QED
  BY <1>1, <1>2 DEF HeldBy, RowsKept, HasRow

LEMMA PricesStand ==
    ASSUME Priced, NEW p \in Procs, RowsKept, Others(p), IsPriced(loc'[p])
    PROVE  Priced'
<1>1. RowIds' = RowIds
  BY DEF RowsKept, RowIds
<1>2. \A i \in RowIds' : IsPriced(rows'[i])
  BY <1>1 DEF Priced, IsPriced, RowsKept
<1>3. \A q \in Procs : IsPriced(loc'[q])
  BY DEF Priced, Others
<1> QED
  BY <1>2, <1>3 DEF Priced

LEMMA IdlePriced == IsPriced(Idle)
  BY DEF IsPriced, Idle

-----------------------------------------------------------------------------
(* The actions *)

\* A task that lets go of what it held.
LEMMA Left ==
    ASSUME IInv, NEW p \in Procs, Leave(p), rows' = rows, keyRow' = keyRow, sub' = sub,
           Drops(p), excused \subseteq excused', SubTypes'
    PROVE  IInv'
<1>1. TaskTypes' /\ pc'[p] = "idle" /\ loc'[p] = Idle /\ Others(p)
  BY Moved, IdleType, TypesParts DEF IInv, Leave, Steps, Others
<1>2. TypeOK'
  BY <1>1, TypesParts, TypesNext DEF IInv, RowTypes, KeyTypes
<1>3. RowsKept
  BY Untouched
<1>4. HeldBy(p)'
  BY <1>1 DEF HeldBy, HasRow, Idle
<1>5. Held'
  BY <1>1, <1>3, <1>4, OthersHold, HeldNext DEF IInv
<1>6. Priced'
  BY <1>1, <1>3, PricesStand, IdlePriced DEF IInv
<1>7. SubSound'
  BY DEF IInv, SubSound
<1> QED
  BY <1>1, <1>2, <1>3, <1>5, <1>6, <1>7, Onward DEF IInv

\* A task that had no row to lose.
LEMMA LeftEmpty ==
    ASSUME IInv, NEW p \in Procs, pc[p] \notin HasRow, Leave(p), rows' = rows,
           keyRow' = keyRow, sub' = sub, excused' = excused, rebilled' = rebilled
    PROVE  IInv'
<1>1. Drops(p)
  <2>1. pc'[p] = "idle"
    BY Moved, IdleType, TypesParts DEF IInv, Leave, Steps
  <2> QED
    BY <2>1, HeldEach DEF IInv, HeldBy, Drops
<1>2. SubTypes'
  BY TypesParts DEF IInv, SubTypes
<1> QED
  BY <1>1, <1>2, Left

LEMMA GivenUp ==
    ASSUME IInv, NEW p \in Procs, pc[p] # "idle", GivesUp(p), rows' = rows,
           keyRow' = keyRow, sub' = sub
    PROVE  IInv'
<1>1. loc[p] \in Locals /\ HeldBy(p)
  BY HeldEach, TypesParts DEF IInv, TaskTypes
<1>2. Leave(p) /\ pc'[p] = "idle"
  BY Moved, IdleType, TypesParts DEF IInv, GivesUp, Leave, Steps
<1>3. excused \subseteq excused' /\ Drops(p)
  BY <1>1, <1>2, Parts, Limits DEF GivesUp, Drops, HeldBy
<1>4. SubTypes'
  <2>1. loc[p].key \in Keys => loc[p].body \in Bodies
    BY <1>1, Limits DEF HeldBy
  <2>2. excused' \subseteq Scopes \X Keys
    BY <2>1, Parts, TypesParts DEF IInv, GivesUp, SubTypes
  <2>3. rebilled' \subseteq Dates \cup {NoDate}
    BY <1>1, TypesParts DEF IInv, GivesUp, SubTypes, Locals
  <2> QED
    BY <2>2, <2>3, TypesParts DEF IInv, SubTypes
<1> QED
  BY <1>2, <1>3, <1>4, Left

\* A task goes on with what it holds, its row as it is.
LEMMA Continued ==
    ASSUME IInv, NEW p \in Procs, NEW step \in Steps, NEW local \in Locals,
           Goto(p, step, local), RowsKept, RowTypes', keyRow' = keyRow, sub' = sub,
           excused' = excused, rebilled' = rebilled, pc[p] # "idle", step # "idle",
           local.body = loc[p].body, local.key = loc[p].key, local.row = loc[p].row,
           IsPriced(local), HeldBy(p)'
    PROVE  IInv'
<1>1. TaskTypes' /\ pc'[p] = step /\ loc'[p] = local /\ Others(p)
  BY Moved, TypesParts DEF IInv, Others
<1>2. TypeOK'
  BY <1>1, TypesParts, TypesNext DEF IInv, SubTypes, KeyTypes
<1>3. Carries(p)
  BY <1>1 DEF Carries
<1>4. Held'
  BY <1>1, OthersHold, HeldNext DEF IInv
<1>5. Priced'
  BY <1>1, PricesStand DEF IInv
<1>6. SubSound'
  BY DEF IInv, SubSound
<1> QED
  BY <1>1, <1>2, <1>3, <1>4, <1>5, <1>6, Onward DEF IInv

LEMMA PrepareInv ==
    ASSUME IInv, NEW p \in Procs, NEW m \in Merchants, Prepare(p, m)
    PROVE  IInv'
<1>1. loc[p] \in Locals /\ HeldBy(p) /\ pc[p] = "prepare" /\ pc[p] \notin HasRow
      /\ IsPriced(loc[p]) /\ rows' = rows /\ RowsKept /\ RowTypes'
  BY HeldEach, TypesParts, Untouched
  DEF IInv, TaskTypes, Prepare, At, HasRow, Priced, RowTypes
<1>2. CASE ~RoutingPlanAllows(m, loc[p].body)
  BY <1>1, <1>2, LeftEmpty DEF Prepare
<1>3. CASE RoutingPlanAllows(m, loc[p].body) /\ IsPayment(p)
  <2> DEFINE fee == ComputedFee(Amount[loc[p].body], FeePolicy(m))
             local == [loc[p] EXCEPT !.fee = fee, !.merchant = m]
  <2>1. loc[p].body \in Bodies
    BY <1>3 DEF IsPayment
  <2>2. fee \in Nat
    BY <2>1, PolicyType, FeeType, BodiesAssumption
  <2>3. Goto(p, "check", local)
    BY <1>3 DEF Prepare
  <2> HIDE DEF fee
  <2>4. /\ local \in Locals /\ local.body = loc[p].body /\ local.key = loc[p].key
        /\ local.row = loc[p].row /\ local.fee = fee /\ local.merchant = m
    <3> DEFINE priced == [loc[p] EXCEPT !.fee = fee]
    <3>1. /\ priced \in Locals /\ priced.body = loc[p].body /\ priced.key = loc[p].key
          /\ priced.row = loc[p].row /\ priced.fee = fee
      BY <1>1, <2>2 DEF Locals
    <3>2. local = [priced EXCEPT !.merchant = m]
      OBVIOUS
    <3> HIDE DEF priced, local
    <3> QED
      BY <3>1, <3>2 DEF Locals
  <2>5. local \in Locals
    BY <2>4
  <2> HIDE DEF local
  <2>6. IsPriced(local)
    BY <2>1, <2>4 DEF IsPriced, fee
  <2>7. pc'[p] = "check" /\ loc'[p] = local
    BY <2>3, <2>5, Moved, TypesParts DEF IInv, Steps
  <2>8. HeldBy(p)'
    BY <1>1, <2>1, <2>4, <2>7, Parts DEF HeldBy, HasRow
  <2> QED
    BY <1>1, <2>3, <2>4, <2>5, <2>6, <2>8, Continued DEF Prepare, Steps
<1>4. CASE RoutingPlanAllows(m, loc[p].body) /\ ~IsPayment(p)
  <2>1. Goto(p, "insert", loc[p])
    BY <1>4 DEF Prepare
  <2>2. pc'[p] = "insert" /\ loc'[p] = loc[p]
    BY <1>1, <2>1, Moved, TypesParts DEF IInv, Steps
  <2>3. HeldBy(p)'
    BY <1>1, <2>2 DEF HeldBy, HasRow, Prepare
  <2> QED
    BY <1>1, <2>1, <2>3, Continued DEF Prepare, Steps
<1> QED
  BY <1>2, <1>3, <1>4

LEMMA CheckReferenceInv ==
    ASSUME IInv, NEW p \in Procs, CheckReference(p)
    PROVE  IInv'
<1>1. loc[p] \in Locals /\ HeldBy(p) /\ pc[p] = "check" /\ pc[p] \notin HasRow
      /\ IsPriced(loc[p]) /\ rows' = rows /\ RowsKept /\ RowTypes'
  BY HeldEach, TypesParts, Untouched
  DEF IInv, TaskTypes, CheckReference, At, HasRow, Priced, RowTypes
<1>2. CASE Stored(ReferenceOf(p))
  BY <1>1, <1>2, LeftEmpty DEF CheckReference
<1>3. CASE ~Stored(ReferenceOf(p))
  <2>1. Goto(p, "insert", loc[p])
    BY <1>3 DEF CheckReference
  <2>2. pc'[p] = "insert" /\ loc'[p] = loc[p]
    BY <1>1, <2>1, Moved, TypesParts DEF IInv, Steps
  <2>3. HeldBy(p)'
    BY <1>1, <2>2 DEF HeldBy, HasRow, CheckReference
  <2> QED
    BY <1>1, <2>1, <2>3, Continued DEF CheckReference, Steps
<1> QED
  BY <1>2, <1>3

LEMMA SessionOpens ==
    ASSUME RowTypes, NEW i \in RowIds, rows' = [rows EXCEPT ![i].session = TRUE]
    PROVE  RowTypes' /\ RowsKept /\ rows'[i].session /\ rows'[i].body = rows[i].body
           /\ rows'[i].key = rows[i].key /\ RowIds' = RowIds
<1> DEFINE opened == [rows[i] EXCEPT !.session = TRUE]
<1>1. rows[i] \in Row
  BY DEF RowTypes, RowIds
<1>2. opened \in Row /\ opened.body = rows[i].body /\ opened.key = rows[i].key
      /\ opened.reference = rows[i].reference /\ opened.fee = rows[i].fee
      /\ opened.merchant = rows[i].merchant /\ opened.session
  BY <1>1 DEF Row
<1>3. rows' = [rows EXCEPT ![i] = opened]
  OBVIOUS
<1> HIDE DEF opened
<1>4. rows' \in Seq(Row) /\ Len(rows') = Len(rows) /\ rows'[i] = opened
      /\ \A j \in RowIds : j # i => rows'[j] = rows[j]
  <2>1. rows \in Seq(Row) /\ i \in 1..Len(rows)
    BY DEF RowTypes, RowIds
  <2>2. opened \in Row
    BY <1>2
  <2>3. /\ [rows EXCEPT ![i] = opened] \in Seq(Row)
        /\ Len([rows EXCEPT ![i] = opened]) = Len(rows)
        /\ \A j \in 1..Len(rows) : [rows EXCEPT ![i] = opened][j] = IF j = i THEN opened
                                                                  ELSE rows[j]
    BY <2>1, <2>2, ExceptSeq
  <2> QED
    BY <1>3, <2>1, <2>3 DEF RowIds
<1> QED
  BY <1>2, <1>4 DEF RowTypes, RowsKept, RowIds

\* The request's or the cycle's session is open: the key or the date is next.
LEMMA SessionHeld ==
    ASSUME IInv, NEW p \in Procs, pc[p] \in {"gateway", "attempt"}, AfterSession(p),
           rows' = [rows EXCEPT ![loc[p].row].session = TRUE], keyRow' = keyRow, sub' = sub,
           excused' = excused, rebilled' = rebilled
    PROVE  IInv'
<1> DEFINE step == IF loc[p].body = SubBody THEN "advance" ELSE "key"
<1>1. loc[p] \in Locals /\ HeldBy(p) /\ IsPriced(loc[p]) /\ RowTypes
  BY HeldEach, TypesParts DEF IInv, TaskTypes, Priced
<1>2. loc[p].row \in RowIds
  BY <1>1 DEF HeldBy, HasRow
<1>3. RowTypes' /\ RowsKept /\ RowIds' = RowIds /\ rows'[loc[p].row].session
      /\ rows'[loc[p].row].body = rows[loc[p].row].body
      /\ rows'[loc[p].row].key = rows[loc[p].row].key
  BY <1>1, <1>2, SessionOpens
<1>4. Goto(p, step, loc[p]) /\ step \in Steps /\ step \in {"advance", "key"}
  BY DEF AfterSession, Steps
<1>5. loc[p].body = SubBody <=> step = "advance"
  OBVIOUS
<1> HIDE DEF step
<1>6. pc'[p] = step /\ loc'[p] = loc[p]
  BY <1>1, <1>4, Moved, TypesParts DEF IInv
<1>7. HeldBy(p)'
  BY <1>1, <1>2, <1>3, <1>4, <1>5, <1>6 DEF HeldBy, HasRow
<1> QED
  BY <1>1, <1>3, <1>4, <1>7, Continued

LEMMA AskGatewayInv ==
    ASSUME IInv, NEW p \in Procs, NEW ok \in BOOLEAN, AskGateway(p, ok)
    PROVE  IInv'
<1>1. loc[p] \in Locals /\ HeldBy(p) /\ pc[p] = "gateway" /\ IsPriced(loc[p])
  BY HeldEach, TypesParts DEF IInv, TaskTypes, AskGateway, At, Priced
<1>2. CASE ~ok
  BY <1>1, <1>2, GivenUp DEF AskGateway
<1>3. CASE ok /\ IsPayment(p)
  BY <1>1, <1>3, SessionHeld DEF AskGateway
<1>4. CASE ok /\ ~IsPayment(p)
  <2>1. Goto(p, "attempt", loc[p]) /\ rows' = rows /\ RowsKept /\ RowTypes'
    BY <1>4, Untouched, TypesParts DEF IInv, AskGateway, RowTypes
  <2>2. pc'[p] = "attempt" /\ loc'[p] = loc[p]
    BY <1>1, <2>1, Moved, TypesParts DEF IInv, Steps
  <2>3. HeldBy(p)'
    BY <1>1, <2>1, <2>2 DEF HeldBy, HasRow, AskGateway, RowIds
  <2> QED
    BY <1>1, <1>4, <2>1, <2>3, Continued DEF AskGateway, Steps
<1> QED
  BY <1>2, <1>3, <1>4

LEMMA StoreAttemptInv ==
    ASSUME IInv, NEW p \in Procs, StoreAttempt(p)
    PROVE  IInv'
  BY SessionHeld DEF StoreAttempt, At

LEMMA InsertInv ==
    ASSUME IInv, NEW p \in Procs, Insert(p)
    PROVE  IInv'
<1>0. PICK n : n = Len(rows) + 1
  OBVIOUS
<1> DEFINE row == [body |-> loc[p].body, key |-> loc[p].key, due |-> loc[p].due,
                   reference |-> ReferenceOf(p), fee |-> loc[p].fee,
                   merchant |-> loc[p].merchant, session |-> FALSE]
           local == [loc[p] EXCEPT !.row = n]
<1>1. loc[p] \in Locals /\ HeldBy(p) /\ pc[p] = "insert" /\ pc[p] \notin HasRow
      /\ IsPriced(loc[p]) /\ rows \in Seq(Row) /\ Len(rows) < MaxRows
  BY HeldEach, TypesParts DEF IInv, TaskTypes, Insert, At, HasRow, Priced, RowTypes
<1>2. CASE ReferenceTaken(ReferenceOf(p))
  BY <1>1, <1>2, LeftEmpty DEF Insert
<1>3. CASE ~ReferenceTaken(ReferenceOf(p))
  <2>1. rows' = Append(rows, row) /\ Goto(p, "gateway", local) /\ keyRow' = keyRow
        /\ sub' = sub /\ excused' = excused /\ rebilled' = rebilled
    BY <1>0, <1>3 DEF Insert
  <2>2. ReferenceOf(p) \in Range(Reference) \cup {NoReference}
    BY Parts DEF ReferenceOf, IsPayment
  <2>3. row \in Row
    BY <1>1, <2>2 DEF HeldBy, Row, Locals
  <2>4. n \in 1..MaxRows
    BY <1>0, <1>1, Limits, LenProperties
  <2>5. local \in Locals /\ local.body = loc[p].body /\ local.key = loc[p].key
        /\ local.fee = loc[p].fee /\ local.merchant = loc[p].merchant /\ local.row = n
    BY <1>1, <2>4 DEF Locals
  <2>6. row.body = loc[p].body /\ row.key = loc[p].key /\ row.reference = ReferenceOf(p)
        /\ row.fee = loc[p].fee /\ row.merchant = loc[p].merchant
    OBVIOUS
  <2> HIDE DEF row, local
  <2>7. rows' \in Seq(Row) /\ Len(rows') = n /\ rows'[n] = row
        /\ \A i \in RowIds : rows'[i] = rows[i]
    BY <1>0, <1>1, <2>1, <2>3, AppendProperties DEF RowIds
  <2>8. TaskTypes' /\ pc'[p] = "gateway" /\ loc'[p] = local /\ Others(p)
    BY <2>1, <2>5, Moved, TypesParts DEF IInv, Steps, Others
  <2>9. Len(rows) \in Nat /\ RowIds' = RowIds \cup {n} /\ n \notin RowIds
    BY <1>0, <1>1, <2>7, LenProperties DEF RowIds
  <2>10. TypeOK'
    BY <2>1, <2>4, <2>7, <2>8, TypesParts, TypesNext
    DEF IInv, RowTypes, SubTypes, KeyTypes
  <2>11. Held'
    <3>1. HeldBy(p)'
      BY <1>1, <2>1, <2>5, <2>6, <2>7, <2>8, <2>9 DEF HeldBy, HasRow
    <3>2. \A q \in Procs \ {p} : HeldBy(q)'
      <4> SUFFICES ASSUME NEW q \in Procs \ {p}
                   PROVE  HeldBy(q)'
        OBVIOUS
      <4>1. HeldBy(q) /\ pc'[q] = pc[q] /\ loc'[q] = loc[q] /\ sub' = sub
        BY <2>1, <2>8, HeldEach DEF IInv, Others
      <4> QED
        BY <2>7, <2>9, <4>1 DEF HeldBy, HasRow
    <3> QED
      BY <3>1, <3>2, HeldNext
  <2>12. RowsSound'
    BY <1>1, <2>6, <2>7, <2>9, Parts, Limits DEF IInv, RowsSound, HeldBy
  <2>13. Priced'
    BY <1>1, <2>5, <2>6, <2>7, <2>8, <2>9 DEF IInv, Priced, IsPriced, Others
  <2>14. KeysStand'
    BY <2>1, <2>7, <2>9 DEF IInv, KeysStand
  <2>15. \A q \in Procs, sk \in Scopes \X Keys : InHand(q, sk)' <=> InHand(q, sk)
    BY <1>1, <2>5, <2>8 DEF InHand, Others
  <2>16. OneHolder' /\ StoredIsFree'
    BY <2>1, <2>15 DEF IInv, OneHolder, StoredIsFree
  <2>17. \A i \in RowIds, sk \in Scopes \X Keys : IsOf(i, sk)' <=> IsOf(i, sk)
    BY <2>7 DEF IsOf
  <2>18. \A sk \in Scopes \X Keys : IsOf(n, sk)' <=> InHand(p, sk)
    BY <1>1, <2>6, <2>7 DEF IsOf, InHand
  <2>19. HolderOrKey'
    <3> SUFFICES ASSUME NEW sk \in Scopes \X Keys, sk \notin excused, NEW i \in RowIds',
                        IsOf(i, sk)', keyRow[sk] = NoRow
                 PROVE  \E q \in Procs : InHand(q, sk)' /\ loc'[q].row = i
      BY <2>1 DEF HolderOrKey
    <3>1. CASE i = n
      BY <2>5, <2>8, <2>15, <2>18, <3>1
    <3>2. CASE i \in RowIds
      <4>1. PICK q \in Procs : InHand(q, sk) /\ loc[q].row = i
        BY <2>17, <3>2 DEF IInv, HolderOrKey
      <4>2. q # p
        BY <1>1, <3>2, <4>1 DEF HeldBy, RowIds
      <4> QED
        BY <2>8, <2>15, <4>1, <4>2 DEF Others
    <3> QED
      BY <2>9, <3>1, <3>2
  \* No row was created under the key before, unless it is excused.
  <2>20. \A sk \in Scopes \X Keys : InHand(p, sk) /\ sk \notin excused =>
            \A i \in RowIds : ~IsOf(i, sk)
    <3> SUFFICES ASSUME NEW sk \in Scopes \X Keys, InHand(p, sk), sk \notin excused,
                        NEW i \in RowIds, IsOf(i, sk)
                 PROVE  FALSE
      OBVIOUS
    <3>1. keyRow[sk] = NoRow
      BY DEF IInv, StoredIsFree
    <3>2. PICK q \in Procs : InHand(q, sk) /\ loc[q].row = i
      BY <3>1 DEF IInv, HolderOrKey
    <3>3. q = p
      BY <3>2 DEF IInv, OneHolder
    <3> QED
      BY <1>1, <3>2, <3>3 DEF HeldBy, RowIds
  <2>21. PaymentsDistinct'
    <3>1. \A i \in RowIds : rows[i].reference = ReferenceOf(p) => ReferenceOf(p) = NoReference
      BY <1>3 DEF ReferenceTaken, Stored, RowIds
    <3>2. \A i \in RowIds :
             (/\ rows[i].key = row.key /\ row.key \in Keys
              /\ Scope[rows[i].body] = Scope[row.body])
                => <<Scope[row.body], row.key>> \in excused
      <4> SUFFICES ASSUME NEW i \in RowIds, rows[i].key = row.key, row.key \in Keys,
                          Scope[rows[i].body] = Scope[row.body]
                   PROVE  <<Scope[row.body], row.key>> \in excused
        OBVIOUS
      <4>1. rows[i].body \in Bodies /\ row.body \in Bodies
        BY <1>1, <2>6, Limits DEF IInv, RowsSound, HeldBy
      <4>2. <<Scope[row.body], row.key>> \in Scopes \X Keys
        BY <4>1, Parts
      <4>3. InHand(p, <<Scope[row.body], row.key>>) /\ IsOf(i, <<Scope[row.body], row.key>>)
        BY <1>1, <2>6, <4>1 DEF InHand, IsOf
      <4> QED
        BY <2>20, <4>2, <4>3
    <3>0. excused' = excused
      BY <2>1
    <3>3. rows'[n].reference = ReferenceOf(p) /\ rows'[n].key = row.key
          /\ rows'[n].body = row.body
      BY <2>6, <2>7
    <3>4. 1..Len(rows') = RowIds \cup {n} /\ 1..Len(rows) = RowIds
      BY <2>9 DEF RowIds
    <3> SUFFICES ASSUME NEW i \in RowIds \cup {n}, NEW j \in RowIds \cup {n}, i # j
                 PROVE  /\ rows'[i].reference = rows'[j].reference
                              => rows'[i].reference = NoReference
                        /\ (/\ rows'[i].key = rows'[j].key /\ rows'[i].key \in Keys
                            /\ Scope[rows'[i].body] = Scope[rows'[j].body])
                              => <<Scope[rows'[i].body], rows'[i].key>> \in excused
      BY <3>0, <3>4 DEF PaymentsDistinct
    <3>5. CASE i \in RowIds /\ j \in RowIds
      BY <2>7, <3>4, <3>5 DEF IInv, PaymentsDistinct
    <3>6. CASE i \in RowIds /\ j = n
      BY <2>7, <3>1, <3>2, <3>3, <3>6
    <3>7. CASE i = n /\ j \in RowIds
      BY <2>7, <3>1, <3>2, <3>3, <3>7
    <3> QED
      BY <3>5, <3>6, <3>7
  <2>22. SubSound'
    BY <2>1 DEF IInv, SubSound
  <2> QED
    BY <2>10, <2>11, <2>12, <2>13, <2>14, <2>16, <2>19, <2>21, <2>22 DEF IInv
<1> QED
  BY <1>2, <1>3

LEMMA StoreKeyInv ==
    ASSUME IInv, NEW p \in Procs, StoreKey(p)
    PROVE  IInv'
<1> DEFINE key == <<Scope[loc[p].body], loc[p].key>>
           entry == [body |-> loc[p].body, row |-> loc[p].row]
<1>1. loc[p] \in Locals /\ HeldBy(p) /\ pc[p] = "key" /\ RowTypes /\ KeyTypes
  BY HeldEach, TypesParts DEF IInv, TaskTypes, StoreKey, At
<1>2. /\ loc[p].body \in Bodies /\ loc[p].key \in Keys /\ key \in Scopes \X Keys
      /\ loc[p].row \in RowIds /\ rows[loc[p].row].body = loc[p].body
      /\ rows[loc[p].row].session /\ InHand(p, key)
  BY <1>1, Parts, Limits DEF HeldBy, HasRow, InHand
<1>3. keyRow' = [keyRow EXCEPT ![key] = entry] /\ Leave(p) /\ rows' = rows /\ sub' = sub
      /\ excused' = excused /\ rebilled' = rebilled
  BY DEF StoreKey
<1>4. entry # NoRow /\ entry \in [body : Bodies \cup {"none"}, row : 0..MaxRows]
      /\ entry.body = loc[p].body /\ entry.row = loc[p].row
  BY <1>1, <1>2, Parts DEF NoRow, Locals
<1>5. \A sk \in Scopes \X Keys : InHand(p, sk) => sk = key
  BY DEF InHand
<1> HIDE DEF key, entry
<1>6. KeyTypes' /\ keyRow'[key] = entry
      /\ \A sk \in Scopes \X Keys : sk # key => keyRow'[sk] = keyRow[sk]
  BY <1>1, <1>2, <1>3, <1>4 DEF KeyTypes
<1>7. TaskTypes' /\ pc'[p] = "idle" /\ loc'[p] = Idle /\ Others(p)
  BY <1>3, Moved, IdleType, TypesParts DEF IInv, Leave, Steps, Others
<1>8. TypeOK'
  BY <1>3, <1>6, <1>7, TypesParts, TypesNext DEF IInv, RowTypes, SubTypes
<1>9. RowsKept /\ RowIds' = RowIds
  BY <1>3, Untouched DEF RowIds
<1>10. Held' /\ Priced'
  <2>1. HeldBy(p)'
    BY <1>7 DEF HeldBy, HasRow, Idle
  <2> QED
    BY <1>3, <1>7, <1>9, <2>1, OthersHold, HeldNext, PricesStand, IdlePriced DEF IInv
<1>11. RowsSound' /\ PaymentsDistinct' /\ SubSound'
  BY <1>3, <1>9 DEF IInv, RowsSound, PaymentsDistinct, SubSound
<1>12. KeysStand'
  <2> SUFFICES ASSUME NEW sk \in Scopes \X Keys, keyRow'[sk] # NoRow
               PROVE  /\ keyRow'[sk].row \in RowIds
                      /\ rows[keyRow'[sk].row].body = keyRow'[sk].body
                      /\ rows[keyRow'[sk].row].session
    BY <1>3, <1>9 DEF KeysStand
  <2>1. CASE sk = key
    BY <1>2, <1>4, <1>6, <2>1
  <2>2. CASE sk # key
    BY <1>6, <2>2 DEF IInv, KeysStand
  <2> QED
    BY <2>1, <2>2
<1>13. \A q \in Procs, sk \in Scopes \X Keys : InHand(q, sk)' <=> InHand(q, sk) /\ q # p
  BY <1>7 DEF InHand, Others
<1>14. OneHolder'
  BY <1>3, <1>13 DEF IInv, OneHolder
<1>15. StoredIsFree'
  BY <1>2, <1>3, <1>6, <1>13 DEF IInv, StoredIsFree, OneHolder
<1>16. HolderOrKey'
  <2> SUFFICES ASSUME NEW sk \in Scopes \X Keys, sk \notin excused, NEW i \in RowIds,
                      IsOf(i, sk), keyRow'[sk] = NoRow
               PROVE  \E q \in Procs : InHand(q, sk)' /\ loc'[q].row = i
    BY <1>3, <1>9 DEF HolderOrKey, IsOf
  <2>1. sk # key
    BY <1>4, <1>6
  <2>2. PICK q \in Procs : InHand(q, sk) /\ loc[q].row = i
    BY <1>6, <2>1 DEF IInv, HolderOrKey
  <2>3. q # p
    BY <1>5, <2>1, <2>2
  <2> QED
    BY <1>7, <1>13, <2>2, <2>3 DEF Others
<1> QED
  BY <1>8, <1>10, <1>11, <1>12, <1>14, <1>15, <1>16 DEF IInv

\* A task that sets out: the rows, the keys' and those of the other tasks stay.
LEMMA SetsOut ==
    ASSUME IInv, NEW p \in Procs, At(p, "idle"), NEW local \in Locals,
           Goto(p, "prepare", local), local.row = 0, local.merchant = NoMerchant,
           \/ local.body \in Bodies /\ local.key \in Keys
                 /\ LET sk == <<Scope[local.body], local.key>> IN
                    keyRow[sk] = NoRow /\ (sk \in excused' \/ \A q \in Procs : ~InHand(q, sk))
           \/ local.body = SubBody /\ local.key = NoKey /\ sub.interval \in Intervals,
           rows' = rows, keyRow' = keyRow, sub' = sub, excused \subseteq excused', SubTypes'
    PROVE  IInv'
<1>1. TaskTypes' /\ pc'[p] = "prepare" /\ loc'[p] = local /\ Others(p)
  BY Moved, TypesParts DEF IInv, Steps, Others
<1>2. TypeOK'
  BY <1>1, TypesParts, TypesNext DEF IInv, RowTypes, KeyTypes
<1>3. RowsKept /\ RowIds' = RowIds
  BY Untouched DEF RowIds
<1>4. Held'
  <2>1. HeldBy(p)'
    BY <1>1 DEF HeldBy, HasRow
  <2> QED
    BY <1>1, <1>3, <2>1, OthersHold, HeldNext DEF IInv
<1>5. Priced'
  BY <1>1, <1>3, PricesStand DEF IInv, IsPriced
<1>6. RowsSound' /\ KeysStand' /\ SubSound' /\ PaymentsDistinct'
  BY <1>3 DEF IInv, RowsSound, KeysStand, SubSound, PaymentsDistinct
<1>7. \A q \in Procs \ {p}, sk \in Scopes \X Keys : InHand(q, sk)' <=> InHand(q, sk)
  BY <1>1 DEF InHand, Others
<1>8. \A sk \in Scopes \X Keys : ~InHand(p, sk)
  BY DEF At, InHand
<1>9. \A sk \in Scopes \X Keys : InHand(p, sk)' /\ sk \notin excused' =>
         keyRow[sk] = NoRow /\ \A q \in Procs : ~InHand(q, sk)
  BY <1>1, Parts DEF InHand
<1>10. OneHolder' /\ StoredIsFree'
  BY <1>7, <1>9 DEF IInv, OneHolder, StoredIsFree
<1>11. HolderOrKey'
  <2> SUFFICES ASSUME NEW sk \in Scopes \X Keys, sk \notin excused', NEW i \in RowIds,
                      IsOf(i, sk), keyRow[sk] = NoRow
               PROVE  \E q \in Procs : InHand(q, sk)' /\ loc'[q].row = i
    BY <1>3 DEF HolderOrKey, IsOf
  <2>1. PICK q \in Procs : InHand(q, sk) /\ loc[q].row = i
    BY DEF IInv, HolderOrKey
  <2> QED
    BY <1>1, <1>7, <1>8, <2>1 DEF Others
<1> QED
  BY <1>2, <1>4, <1>5, <1>6, <1>10, <1>11 DEF IInv

LEMMA CreateRequestInv ==
    ASSUME IInv, NEW p \in Procs, NEW k \in Keys, NEW b \in Bodies, CreateRequest(p, k, b)
    PROVE  IInv'
<1> DEFINE local == [Idle EXCEPT !.key = k, !.body = b]
           sk == <<Scope[b], k>>
<1>1. Goto(p, "prepare", local) /\ At(p, "idle") /\ keyRow[sk] = NoRow /\ rows' = rows
      /\ keyRow' = keyRow /\ sub' = sub /\ rebilled' = rebilled
      /\ excused' = IF UnderWay(Scope[b], k) THEN excused \cup {sk} ELSE excused
  BY DEF CreateRequest
<1>2. local = [key |-> k, body |-> b, due |-> NoDate, fee |-> 0, merchant |-> NoMerchant,
               row |-> 0]
  <2> DEFINE half == [Idle EXCEPT !.key = k]
  <2>1. half = [key |-> k, body |-> "none", due |-> NoDate, fee |-> 0,
                merchant |-> NoMerchant, row |-> 0]
    BY DEF Idle
  <2>2. local = [half EXCEPT !.body = b]
    OBVIOUS
  <2> HIDE DEF half
  <2> QED
    BY <2>1, <2>2
<1>3. sk \in Scopes \X Keys
  BY Parts
<1> HIDE DEF local
<1>4. local \in Locals /\ local.row = 0 /\ local.merchant = NoMerchant /\ local.body = b
      /\ local.key = k
  BY <1>2, IdleType, Limits DEF Locals
<1>5. sk \in excused' \/ \A q \in Procs : ~InHand(q, sk)
  <2>1. CASE UnderWay(Scope[b], k)
    BY <1>1, <2>1
  <2>2. CASE ~UnderWay(Scope[b], k)
    BY <2>2 DEF UnderWay, InHand
  <2> QED
    BY <2>1, <2>2
<1>6. excused \subseteq excused' /\ SubTypes'
  BY <1>1, <1>3, TypesParts DEF IInv, SubTypes
<1> QED
  BY <1>1, <1>4, <1>5, <1>6, SetsOut

LEMMA ProcessSubscriptionsInv ==
    ASSUME IInv, NEW p \in Procs, ProcessSubscriptions(p)
    PROVE  IInv'
<1> DEFINE local == [Idle EXCEPT !.body = SubBody, !.due = sub.next]
<1>1. Goto(p, "prepare", local) /\ At(p, "idle") /\ sub # NoSub /\ rows' = rows
      /\ keyRow' = keyRow /\ sub' = sub /\ excused' = excused
      /\ rebilled' \subseteq rebilled \cup {sub.next}
  BY DEF ProcessSubscriptions
<1>2. local = [key |-> NoKey, body |-> SubBody, due |-> sub.next, fee |-> 0,
               merchant |-> NoMerchant, row |-> 0]
  <2> DEFINE half == [Idle EXCEPT !.body = SubBody]
  <2>1. half = [key |-> NoKey, body |-> SubBody, due |-> NoDate, fee |-> 0,
                merchant |-> NoMerchant, row |-> 0]
    BY DEF Idle
  <2>2. local = [half EXCEPT !.due = sub.next]
    OBVIOUS
  <2> HIDE DEF half
  <2> QED
    BY <2>1, <2>2
<1>3. sub.next \in Dates \cup {NoDate} /\ sub.interval \in Intervals
  BY <1>1, TypesParts DEF IInv, SubTypes, SubSound
<1> HIDE DEF local
<1>4. local \in Locals /\ local.row = 0 /\ local.merchant = NoMerchant
      /\ local.body = SubBody /\ local.key = NoKey
  BY <1>2, <1>3, Limits DEF Locals
<1>5. SubTypes'
  BY <1>1, <1>3, TypesParts DEF IInv, SubTypes
<1> QED
  BY <1>1, <1>3, <1>4, <1>5, SetsOut

LEMMA AdvanceInv ==
    ASSUME IInv, NEW p \in Procs, Advance(p)
    PROVE  IInv'
<1> DEFINE next == ComputeNextBillingDate(loc[p].due, sub.interval)
<1>1. loc[p] \in Locals /\ HeldBy(p) /\ pc[p] = "advance" /\ SubTypes
  BY HeldEach, TypesParts DEF IInv, TaskTypes, Advance, At
<1>2. loc[p].body = SubBody /\ loc[p].key = NoKey /\ sub.interval \in Intervals
  BY <1>1, Parts DEF HeldBy
<1>3. sub' = [sub EXCEPT !.next = next] /\ Leave(p) /\ rows' = rows /\ keyRow' = keyRow
      /\ excused' = excused /\ rebilled' \subseteq rebilled \cup Charged
  BY DEF Advance
<1>4. loc[p].due \in Dates
  BY <1>1, IdleType DEF Locals
<1>5. next \in Dates
  BY <1>2, <1>4, NextDateType
<1> HIDE DEF next
<1>6. sub' \in [start : Dates \cup {NoDate}, interval : Intervals \cup {"none"},
                next : Dates \cup {NoDate}] /\ sub'.interval = sub.interval
  BY <1>1, <1>3, <1>5 DEF SubTypes
<1>7. Charged \subseteq Dates \cup {NoDate}
  <2>1. \A i \in 1..Len(rows) : rows[i] \in Row
    BY TypesParts DEF IInv, RowTypes
  <2>2. \A i \in 1..Len(rows) : rows[i].due \in Dates \cup {NoDate}
    BY <2>1 DEF Row
  <2> QED
    BY <2>2 DEF Charged
<1>8. SubTypes'
  BY <1>1, <1>3, <1>6, <1>7 DEF SubTypes
<1>9. TaskTypes' /\ pc'[p] = "idle" /\ loc'[p] = Idle /\ Others(p)
  BY <1>3, Moved, IdleType, TypesParts DEF IInv, Leave, Steps, Others
<1>10. TypeOK'
  BY <1>3, <1>8, <1>9, TypesParts, TypesNext DEF IInv, RowTypes, KeyTypes
<1>11. RowsKept
  BY <1>3, Untouched
<1>12. HeldBy(p)'
  BY <1>9 DEF HeldBy, HasRow, Idle
<1>13. Held' /\ Priced'
  BY <1>6, <1>9, <1>11, <1>12, OthersHold, HeldNext, PricesStand, IdlePriced DEF IInv
<1>14. SubSound'
  BY <1>2, <1>6 DEF SubSound
<1>15. Drops(p)
  BY <1>2, <1>9, Parts DEF Drops
<1> QED
  BY <1>3, <1>9, <1>10, <1>11, <1>13, <1>14, <1>15, Onward DEF IInv

LEMMA CreateSubscriptionInv ==
    ASSUME IInv, NEW offer \in Offers, CreateSubscription(offer)
    PROVE  IInv'
<1>1. offer.start \in Dates /\ offer.interval \in Intervals
  BY OffersAssumption
<1>2. sub' = [start |-> offer.start, interval |-> offer.interval, next |-> offer.start]
      /\ rows' = rows /\ keyRow' = keyRow /\ pc' = pc /\ loc' = loc /\ excused' = excused
      /\ rebilled' = rebilled /\ sub = NoSub
  BY DEF CreateSubscription
<1>3. TypeOK'
  BY <1>1, <1>2, TypesParts, TypesNext DEF IInv, RowTypes, KeyTypes, SubTypes, TaskTypes
<1>4. SubSound'
  BY <1>1, <1>2 DEF SubSound
<1>5. RowIds' = RowIds /\ sub'.interval \in Intervals
  BY <1>1, <1>2 DEF RowIds
<1>6. \A q \in Procs : HeldBy(q)'
  <2> SUFFICES ASSUME NEW q \in Procs
               PROVE  HeldBy(q)'
    OBVIOUS
  <2>1. HeldBy(q)
    BY HeldEach DEF IInv
  <2> QED
    BY <1>2, <1>5, <2>1 DEF HeldBy, HasRow
<1>7. Held'
  BY <1>6, HeldNext
<1>8. /\ RowsSound' /\ Priced' /\ KeysStand' /\ OneHolder' /\ HolderOrKey' /\ StoredIsFree'
      /\ PaymentsDistinct'
  BY <1>2, <1>5 DEF IInv, RowsSound, Priced, KeysStand, OneHolder, HolderOrKey, StoredIsFree,
                    PaymentsDistinct, InHand, IsOf
<1> QED
  BY <1>3, <1>4, <1>7, <1>8 DEF IInv

LEMMA StopInv ==
    ASSUME IInv, NEW p \in Procs, Stop(p)
    PROVE  IInv'
  BY GivenUp DEF Stop, At

-----------------------------------------------------------------------------
(* The specification *)

LEMMA InitInv ==
    ASSUME Init
    PROVE  IInv
<1> USE DEF Init
<1>1. rows = << >> /\ Len(rows) = 0 /\ RowIds = {} /\ rows \in Seq(Row)
  BY EmptySeq DEF RowIds
<1>2. NoRow \in [body : Bodies \cup {"none"}, row : 0..MaxRows]
  BY Limits DEF NoRow
<1>3. NoSub \in [start : Dates \cup {NoDate}, interval : Intervals \cup {"none"},
                 next : Dates \cup {NoDate}]
  BY DEF NoSub
<1>4. TypeOK
  <2>1. RowTypes
    BY <1>1, Limits DEF RowTypes
  <2>2. KeyTypes
    BY <1>2 DEF KeyTypes
  <2>3. SubTypes
    BY <1>3 DEF SubTypes
  <2>4. TaskTypes
    BY IdleType DEF TaskTypes, Steps
  <2> QED
    BY <2>1, <2>2, <2>3, <2>4, TypesParts
<1>5. Held
  <2>1. \A p \in Procs : HeldBy(p)
    BY DEF HeldBy, HasRow, Idle
  <2> QED
    BY <2>1, HeldEach
<1>6. Priced
  BY <1>1, IdlePriced DEF Priced
<1>7. RowsSound /\ KeysStand /\ HolderOrKey
  BY <1>1 DEF RowsSound, KeysStand, HolderOrKey
<1>8. OneHolder /\ StoredIsFree
  BY DEF OneHolder, StoredIsFree, InHand
<1>9. PaymentsDistinct
  BY <1>1 DEF PaymentsDistinct, RowIds
<1>10. SubSound
  BY DEF SubSound
<1> QED
  BY <1>4, <1>5, <1>6, <1>7, <1>8, <1>9, <1>10 DEF IInv

LEMMA StutterInv ==
    ASSUME IInv, UNCHANGED vars
    PROVE  IInv'
<1>1. rows' = rows /\ keyRow' = keyRow /\ sub' = sub /\ pc' = pc /\ loc' = loc
      /\ excused' = excused /\ rebilled' = rebilled
  BY DEF vars
<1>2. TypeOK'
  BY <1>1, TypesParts, TypesNext DEF IInv, RowTypes, KeyTypes, SubTypes, TaskTypes
<1> QED
  BY <1>1, <1>2 DEF IInv, SubSound, Held, RowsSound, Priced, KeysStand, OneHolder,
                    HolderOrKey, StoredIsFree, PaymentsDistinct, InHand, IsOf, RowIds

LEMMA NextInv ==
    ASSUME IInv, Next
    PROVE  IInv'
<1>1. CASE \E offer \in Offers : CreateSubscription(offer)
  BY <1>1, CreateSubscriptionInv
<1>2. ASSUME NEW p \in Procs, Request(p)
      PROVE  IInv'
  BY <1>2, CreateRequestInv, PrepareInv, CheckReferenceInv, InsertInv, AskGatewayInv,
     StoreAttemptInv, StoreKeyInv DEF Request
<1>3. ASSUME NEW p \in Procs, ProcessSubscriptions(p) \/ Advance(p) \/ Stop(p)
      PROVE  IInv'
  BY <1>3, ProcessSubscriptionsInv, AdvanceInv, StopInv
<1> QED
  BY <1>1, <1>2, <1>3 DEF Next

\* The inductive invariant holds in every state.
THEOREM Invariant == Spec => []IInv
<1>1. Init => IInv
  BY InitInv
<1>2. IInv /\ [Next]_vars => IInv'
  BY NextInv, StutterInv
<1> QED
  BY <1>1, <1>2, PTL DEF Spec

\* The variables have their types; in particular every billing date is one of the calendar.
THEOREM TypeCorrect == Spec => []TypeOK
<1>1. IInv => TypeOK
  BY DEF IInv
<1> QED
  BY <1>1, Invariant, PTL

\* createPayment and createPaymentIntent: a reference names one payment, and a key creates
\* two only if its requests overlapped or one broke off after creating its row.
THEOREM PaymentsApart == Spec => []PaymentsDistinct
<1>1. IInv => PaymentsDistinct
  BY DEF IInv
<1> QED
  BY <1>1, Invariant, PTL

\* A replay is answered with a payment of its own body that has a session.
THEOREM ReplaysWhole == Spec => []ReplaysAreWhole
<1>1. IInv => ReplaysAreWhole
  BY DEF IInv, KeysStand, ReplaysAreWhole, Replay
<1> QED
  BY <1>1, Invariant, PTL

\* Whose fee a merchant pays, said without the order in which the code looks.
LEMMA PolicyOf ==
    ASSUME NEW m \in Merchants
    PROVE  FeePolicy(m) = IF m.fee.fixed + m.fee.bps > 0 THEN m.fee
                          ELSE IF PlanFee[m.plan] # NoFee THEN PlanFee[m.plan]
                          ELSE PlatformFee
<1>1. m.fee \in [fixed : Nat, bps : Nat] /\ m.fee.fixed \in Nat /\ m.fee.bps \in Nat
  BY FeesAssumption DEF Fees
<1>2. m.fee.fixed + m.fee.bps > 0 <=> m.fee.fixed > 0 \/ m.fee.bps > 0
  BY <1>1
<1>3. ~(m.fee.fixed + m.fee.bps > 0) => m.fee = [fixed |-> 0, bps |-> 0]
  BY <1>1
<1>4. CASE m.fee.fixed + m.fee.bps > 0
  BY <1>2, <1>4 DEF FeePolicy
<1>5. CASE ~(m.fee.fixed + m.fee.bps > 0) /\ PlanFee[m.plan] # NoFee
  BY <1>2, <1>3, <1>5 DEF FeePolicy
<1>6. CASE ~(m.fee.fixed + m.fee.bps > 0) /\ PlanFee[m.plan] = NoFee
  BY <1>2, <1>6 DEF FeePolicy
<1> QED
  BY <1>4, <1>5, <1>6

\* computePlatformFeeBreakdown: every payment's fee is the nearest cent of the share that
\* applies to its merchant.
THEOREM FeesFair == Spec => []FeesRoundFairly
<1>1. ASSUME IInv
      PROVE  FeesRoundFairly
  <2> SUFFICES ASSUME NEW i \in 1..Len(rows), rows[i].merchant # NoMerchant
               PROVE  LET off == 10000 * (rows[i].fee - FeePolicy(rows[i].merchant).fixed)
                                   - Amount[rows[i].body] * FeePolicy(rows[i].merchant).bps
                      IN rows[i].merchant \in Merchants /\ -5000 < off /\ off <= 5000
    BY PolicyOf DEF FeesRoundFairly
  <2>1. rows[i].merchant \in Merchants /\ rows[i].body \in Bodies
        /\ rows[i].fee = ComputedFee(Amount[rows[i].body], FeePolicy(rows[i].merchant))
    BY <1>1 DEF IInv, Priced, IsPriced, RowIds
  <2> DEFINE amount == Amount[rows[i].body]
             fee == FeePolicy(rows[i].merchant)
  <2>2. amount \in Nat /\ fee \in Fees
    BY <2>1, PolicyType, BodiesAssumption
  <2>3. rows[i].fee = ComputedFee(amount, fee)
    BY <2>1
  <2> HIDE DEF amount, fee
  <2>4. /\ -5000 < 10000 * (rows[i].fee - fee.fixed) - amount * fee.bps
        /\ 10000 * (rows[i].fee - fee.fixed) - amount * fee.bps <= 5000
    BY <2>2, <2>3, FeeType
  <2> QED
    BY <2>1, <2>4 DEF amount, fee
<1> QED
  BY <1>1, Invariant, PTL

-----------------------------------------------------------------------------
(* Billing: the calendar *)

\* The order of dates: a later one has a higher rank.
Rank(date) == 372 * date.y + 31 * date.m + date.d

LEMMA RankType ==
    ASSUME NEW date \in Dates
    PROVE  Rank(date) \in Int
<1>1. date.y \in Nat /\ date.m \in 1..12 /\ date.d \in 1..31
  BY DEF Dates
<1> QED
  BY <1>1 DEF Rank

\* A date whose day may lie past its month.
LongDates == [y : Nat, m : 1..12, d : 1..38]

LEMMA MonthLengths == \A y, m : MonthLength(y, m) \in 28..31
  BY DEF MonthLength

LEMMA NextMonthIs ==
    ASSUME NEW date \in LongDates
    PROVE  /\ NextMonth(date) \in LongDates /\ NextMonth(date).d = date.d
           /\ NextMonth(date).y = IF date.m = 12 THEN date.y + 1 ELSE date.y
           /\ NextMonth(date).m = IF date.m = 12 THEN 1 ELSE date.m + 1
<1>1. CASE date.m = 12
  <2>1. NextMonth(date) = [y |-> date.y + 1, m |-> 1, d |-> date.d]
    BY <1>1 DEF NextMonth, LongDates
  <2> QED
    BY <1>1, <2>1 DEF LongDates
<1>2. CASE date.m # 12
  <2>1. NextMonth(date) = [y |-> date.y, m |-> date.m + 1, d |-> date.d]
    BY <1>2 DEF NextMonth, LongDates
  <2>2. date.m + 1 \in 1..12
    BY <1>2 DEF LongDates
  <2> QED
    BY <1>2, <2>1, <2>2 DEF LongDates
<1> QED
  BY <1>1, <1>2

LEMMA OverflownIs ==
    ASSUME NEW date \in LongDates
    PROVE  LET over == Overflown(date)
               length == MonthLength(date.y, date.m)
           IN  IF date.d > length
               THEN /\ over.y = NextMonth(date).y /\ over.m = NextMonth(date).m
                    /\ over.d = date.d - length
               ELSE over = date
<1>1. NextMonth(date) \in LongDates
  BY NextMonthIs
<1>2. CASE date.d > MonthLength(date.y, date.m)
  <2>1. Overflown(date)
          = [NextMonth(date) EXCEPT !.d = date.d - MonthLength(date.y, date.m)]
    BY <1>2 DEF Overflown
  <2> QED
    BY <1>1, <1>2, <2>1 DEF LongDates
<1>3. CASE ~(date.d > MonthLength(date.y, date.m))
  BY <1>3 DEF Overflown
<1> QED
  BY <1>2, <1>3

\* A day past its month is later than all of the month.
LEMMA OverflownLater ==
    ASSUME NEW date \in LongDates, NEW r \in Int, r < Rank(date), r < 372 * date.y + 31 * date.m + 32
    PROVE  r < Rank(Overflown(date))
<1> DEFINE length == MonthLength(date.y, date.m)
<1>1. length \in Int /\ date.y \in Nat /\ date.m \in 1..12 /\ date.d \in 1..38
  BY MonthLengths DEF LongDates
<1>2. CASE date.d > length
  <2>1. /\ Overflown(date).y = (IF date.m = 12 THEN date.y + 1 ELSE date.y)
        /\ Overflown(date).m = (IF date.m = 12 THEN 1 ELSE date.m + 1)
        /\ Overflown(date).d = date.d - length
    BY <1>2, NextMonthIs, OverflownIs
  <2>2. Overflown(date).d \in Int /\ Overflown(date).d >= 1
    BY <1>1, <1>2, <2>1
  <2> HIDE DEF length
  <2>3. CASE date.m = 12
    <3>1. Rank(Overflown(date)) = 372 * (date.y + 1) + 31 * 1 + Overflown(date).d
      BY <2>1, <2>3 DEF Rank
    <3> QED
      BY <1>1, <2>2, <2>3, <3>1
  <2>4. CASE date.m # 12
    <3>1. Rank(Overflown(date)) = 372 * date.y + 31 * (date.m + 1) + Overflown(date).d
      BY <2>1, <2>4 DEF Rank
    <3> QED
      BY <1>1, <2>2, <3>1
  <2> QED
    BY <2>3, <2>4
<1>3. CASE ~(date.d > length)
  BY <1>3, OverflownIs
<1> QED
  BY <1>2, <1>3

\* The dates a billing date moves to before it overflows.
LEMMA Shifted ==
    ASSUME NEW date \in Dates
    PROVE  /\ date \in LongDates
           /\ \A k \in {1, 7} : /\ [date EXCEPT !.d = @ + k] \in LongDates
                                /\ [date EXCEPT !.d = @ + k].y = date.y
                                /\ [date EXCEPT !.d = @ + k].m = date.m
                                /\ [date EXCEPT !.d = @ + k].d = date.d + k
           /\ [date EXCEPT !.y = @ + 1] \in LongDates
           /\ [date EXCEPT !.y = @ + 1].y = date.y + 1
           /\ [date EXCEPT !.y = @ + 1].m = date.m
           /\ [date EXCEPT !.y = @ + 1].d = date.d
  BY DEF Dates, LongDates

\* What a rank grows by.
LEMMA RankGrows ==
    \A y \in Nat, m \in 1..12, d \in 1..31 :
        /\ 372 * y + 31 * m + d < 372 * y + 31 * m + (d + 1)
        /\ 372 * y + 31 * m + d < 372 * y + 31 * m + (d + 7)
        /\ 372 * y + 31 * m + d < 372 * y + 31 * m + 32
        /\ 372 * y + 31 * m + d < 372 * y + 31 * (m + 1) + d
        /\ 372 * y + 31 * m + d < 372 * y + 31 * (m + 1) + 32
        /\ 372 * y + 31 * m + d < 372 * (y + 1) + 31 * 1 + d
        /\ 372 * y + 31 * m + d < 372 * (y + 1) + 31 * 1 + 32
        /\ 372 * y + 31 * m + d < 372 * (y + 1) + 31 * m + d
        /\ 372 * y + 31 * m + d < 372 * (y + 1) + 31 * m + 32
  OBVIOUS

\* The next billing date is later than the one before.
LEMMA NextLater ==
    ASSUME NEW date \in Dates, NEW interval \in Intervals
    PROVE  Rank(date) < Rank(ComputeNextBillingDate(date, interval))
<1> DEFINE r == Rank(date)
<1>1. /\ date.y \in Nat /\ date.m \in 1..12 /\ date.d \in 1..31
      /\ r = 372 * date.y + 31 * date.m + date.d /\ r \in Int
  BY DEF Dates, Rank
<1> HIDE DEF r
<1>2. ASSUME NEW k \in {1, 7} PROVE r < Rank(Overflown([date EXCEPT !.d = @ + k]))
  <2> DEFINE moved == [date EXCEPT !.d = @ + k]
  <2>1. moved \in LongDates /\ moved.y = date.y /\ moved.m = date.m /\ moved.d = date.d + k
    BY Shifted
  <2> HIDE DEF moved
  <2>2. r < Rank(moved) /\ r < 372 * moved.y + 31 * moved.m + 32
    <3>1. /\ Rank(moved) = 372 * date.y + 31 * date.m + (date.d + k)
          /\ 372 * moved.y + 31 * moved.m + 32 = 372 * date.y + 31 * date.m + 32
      BY <2>1 DEF Rank
    <3>2. /\ 372 * date.y + 31 * date.m + date.d < 372 * date.y + 31 * date.m + (date.d + k)
          /\ 372 * date.y + 31 * date.m + date.d < 372 * date.y + 31 * date.m + 32
      <4>1. CASE k = 1
        BY <1>1, <4>1, RankGrows
      <4>2. CASE k = 7
        BY <1>1, <4>2, RankGrows
      <4> QED
        BY <4>1, <4>2
    <3> QED
      BY <1>1, <3>1, <3>2, Zenon
  <2>3. r < Rank(Overflown(moved))
    BY <1>1, <2>1, <2>2, OverflownLater
  <2> QED
    BY <2>3 DEF moved
<1>3. r < Rank(Overflown(NextMonth(date)))
  <2> DEFINE moved == NextMonth(date)
  <2>1. /\ moved \in LongDates /\ moved.d = date.d
        /\ moved.y = (IF date.m = 12 THEN date.y + 1 ELSE date.y)
        /\ moved.m = (IF date.m = 12 THEN 1 ELSE date.m + 1)
    BY Shifted, NextMonthIs
  <2> HIDE DEF moved
  <2>2. r < Rank(moved) /\ r < 372 * moved.y + 31 * moved.m + 32
    <3>1. CASE date.m = 12
      <4>1. /\ Rank(moved) = 372 * (date.y + 1) + 31 * 1 + date.d
            /\ 372 * moved.y + 31 * moved.m + 32 = 372 * (date.y + 1) + 31 * 1 + 32
        BY <2>1, <3>1 DEF Rank
      <4> QED
        BY <1>1, <4>1, RankGrows
    <3>2. CASE date.m # 12
      <4>1. /\ Rank(moved) = 372 * date.y + 31 * (date.m + 1) + date.d
            /\ 372 * moved.y + 31 * moved.m + 32 = 372 * date.y + 31 * (date.m + 1) + 32
        BY <2>1, <3>2 DEF Rank
      <4>2. /\ 372 * date.y + 31 * date.m + date.d
                 < 372 * date.y + 31 * (date.m + 1) + date.d
            /\ 372 * date.y + 31 * date.m + date.d < 372 * date.y + 31 * (date.m + 1) + 32
        BY <1>1, RankGrows
      <4> QED
        BY <1>1, <4>1, <4>2, Zenon
    <3> QED
      BY <3>1, <3>2
  <2>3. r < Rank(Overflown(moved))
    BY <1>1, <2>1, <2>2, OverflownLater
  <2> QED
    BY <2>3 DEF moved
<1>4. r < Rank(Overflown([date EXCEPT !.y = @ + 1]))
  <2> DEFINE moved == [date EXCEPT !.y = @ + 1]
  <2>1. moved \in LongDates /\ moved.y = date.y + 1 /\ moved.m = date.m /\ moved.d = date.d
    BY Shifted
  <2> HIDE DEF moved
  <2>2. r < Rank(moved) /\ r < 372 * moved.y + 31 * moved.m + 32
    <3>1. /\ Rank(moved) = 372 * (date.y + 1) + 31 * date.m + date.d
          /\ 372 * moved.y + 31 * moved.m + 32 = 372 * (date.y + 1) + 31 * date.m + 32
      BY <2>1 DEF Rank
    <3> QED
      BY <1>1, <3>1, RankGrows
  <2>3. r < Rank(Overflown(moved))
    BY <1>1, <2>1, <2>2, OverflownLater
  <2> QED
    BY <2>3 DEF moved
<1>5. interval \in {"DAY", "WEEK", "MONTH", "YEAR"}
  BY DEF Intervals
<1> QED
  BY <1>2, <1>3, <1>4, <1>5 DEF ComputeNextBillingDate, r

\* A year has 365 days, or 366.
LEMMA YearEnds ==
    ASSUME NEW y \in Nat
    PROVE  LeapYearsBefore(y + 1) = LeapYearsBefore(y) + (IF IsLeap(y) THEN 1 ELSE 0)
<1>1. /\ (y + 1 + 3) \div 4 = (y + 3) \div 4 + (IF y % 4 = 0 THEN 1 ELSE 0)
      /\ (y + 1 + 3) \div 4 \in Int /\ (y + 3) \div 4 \in Int
  OBVIOUS
<1>2. /\ (y + 1 + 99) \div 100 = (y + 99) \div 100 + (IF y % 100 = 0 THEN 1 ELSE 0)
      /\ (y + 1 + 99) \div 100 \in Int /\ (y + 99) \div 100 \in Int
  OBVIOUS
<1>3. /\ (y + 1 + 399) \div 400 = (y + 399) \div 400 + (IF y % 400 = 0 THEN 1 ELSE 0)
      /\ (y + 1 + 399) \div 400 \in Int /\ (y + 399) \div 400 \in Int
  OBVIOUS
<1>4. (y % 400 = 0 => y % 100 = 0) /\ (y % 100 = 0 => y % 4 = 0)
  OBVIOUS
<1> QED
  BY <1>1, <1>2, <1>3, <1>4 DEF LeapYearsBefore, IsLeap

\* Days are numbered on over the end of a month.
LEMMA MonthEnds ==
    ASSUME NEW y \in Nat, NEW m \in 1..12
    PROVE  /\ LeapYearsBefore(y) \in Int /\ DaysBefore(y, m) \in Int
           /\ m < 12 => DaysBefore(y, m + 1) = DaysBefore(y, m) + MonthLength(y, m)
           /\ m = 12 => 365 + LeapYearsBefore(y + 1) + DaysBefore(y + 1, 1)
                          = LeapYearsBefore(y) + DaysBefore(y, 12) + MonthLength(y, 12)
<1>1. LeapYearsBefore(y) \in Int
  <2>1. (y + 3) \div 4 \in Int /\ (y + 99) \div 100 \in Int /\ (y + 399) \div 400 \in Int
    OBVIOUS
  <2> QED
    BY <2>1 DEF LeapYearsBefore
<1>2. m \in {1, 2, 3, 4, 5, 6, 7, 8, 9, 10, 11, 12}
  OBVIOUS
<1>3. DaysBefore(y, m) \in Int
  BY <1>2 DEF DaysBefore
<1>4. m < 12 => DaysBefore(y, m + 1) = DaysBefore(y, m) + MonthLength(y, m)
  BY <1>2 DEF DaysBefore, MonthLength
<1>5. 365 + LeapYearsBefore(y + 1) + DaysBefore(y + 1, 1)
        = LeapYearsBefore(y) + DaysBefore(y, 12) + MonthLength(y, 12)
  <2>1. /\ DaysBefore(y + 1, 1) = 0 /\ MonthLength(y, 12) = 31
        /\ DaysBefore(y, 12) = 334 + (IF IsLeap(y) THEN 1 ELSE 0)
    BY DEF DaysBefore, MonthLength
  <2> QED
    BY <1>1, <2>1, YearEnds
<1> QED
  BY <1>1, <1>3, <1>4, <1>5

\* A day past its month is the day it is named after.
LEMMA OverflownDay ==
    ASSUME NEW date \in LongDates, date.d <= MonthLength(date.y, date.m) + 7
    PROVE  DayNumber(Overflown(date)) = DayNumber(date) /\ IsDay(Overflown(date))
<1> DEFINE length == MonthLength(date.y, date.m)
           over == Overflown(date)
<1>1. /\ length \in 28..31 /\ MonthLength(over.y, over.m) \in 28..31
      /\ date.y \in Nat /\ date.m \in 1..12 /\ date.d \in Nat
  BY MonthLengths DEF LongDates
<1>2. CASE ~(date.d > length)
  <2>1. over = date
    BY <1>2, OverflownIs
  <2> QED
    BY <1>1, <1>2, <2>1 DEF IsDay
<1>3. CASE date.d > length
  <2>1. /\ over.y = (IF date.m = 12 THEN date.y + 1 ELSE date.y)
        /\ over.m = (IF date.m = 12 THEN 1 ELSE date.m + 1)
        /\ over.d = date.d - length
    BY <1>3, NextMonthIs, OverflownIs
  <2> DEFINE before == LeapYearsBefore(date.y) + DaysBefore(date.y, date.m)
             after == LeapYearsBefore(over.y) + DaysBefore(over.y, over.m)
  <2>2. before \in Int
    BY <1>1, MonthEnds
  <2>3. 365 * over.y + after = 365 * date.y + before + length /\ after \in Int
    <3>1. CASE date.m = 12
      <4>1. over.y = date.y + 1 /\ over.m = 1 /\ date.y + 1 \in Nat
        BY <1>1, <2>1, <3>1
      <4>2. LeapYearsBefore(date.y + 1) \in Int /\ DaysBefore(date.y + 1, 1) \in Int
        BY <4>1, MonthEnds
      <4>3. LeapYearsBefore(date.y) \in Int /\ DaysBefore(date.y, 12) \in Int
        BY <1>1, MonthEnds
      <4>4. 365 + LeapYearsBefore(date.y + 1) + DaysBefore(date.y + 1, 1)
              = LeapYearsBefore(date.y) + DaysBefore(date.y, 12) + length
        BY <1>1, <3>1, MonthEnds
      <4> HIDE DEF over, length
      <4> QED
        BY <1>1, <3>1, <4>1, <4>2, <4>3, <4>4
    <3>2. CASE date.m # 12
      <4>1. over.y = date.y /\ over.m = date.m + 1 /\ date.m < 12
        BY <1>1, <2>1, <3>2
      <4>2. /\ LeapYearsBefore(date.y) \in Int /\ DaysBefore(date.y, date.m) \in Int
            /\ DaysBefore(date.y, date.m + 1) = DaysBefore(date.y, date.m) + length
        BY <1>1, <4>1, MonthEnds
      <4> HIDE DEF over, length
      <4> QED
        BY <1>1, <4>1, <4>2
    <3> QED
      BY <3>1, <3>2
  <2>4. DayNumber(date) = 365 * date.y + before + date.d
    <3>1. LeapYearsBefore(date.y) \in Int /\ DaysBefore(date.y, date.m) \in Int
      BY <1>1, MonthEnds
    <3> QED
      BY <1>1, <3>1 DEF DayNumber
  <2>5. DayNumber(over) = 365 * over.y + after + over.d
    <3>1. over.y \in Nat /\ over.m \in 1..12 /\ over.d \in Int
      BY <1>1, <2>1
    <3>2. LeapYearsBefore(over.y) \in Int /\ DaysBefore(over.y, over.m) \in Int
      BY <3>1, MonthEnds
    <3> HIDE DEF over
    <3> QED
      BY <3>1, <3>2 DEF DayNumber
  <2>6. over.d <= 7 /\ over.d \in Int /\ over.y \in Nat
    BY <1>1, <2>1
  <2> HIDE DEF over, length, before, after
  <2>7. DayNumber(over) = DayNumber(date)
    BY <1>1, <2>1, <2>2, <2>3, <2>4, <2>5, <2>6
  <2>8. IsDay(over)
    BY <1>1, <2>6 DEF IsDay
  <2> QED
    BY <2>7, <2>8 DEF over
<1> QED
  BY <1>2, <1>3

LEMMA DayNumberType ==
    ASSUME NEW date, date.y \in Nat, date.m \in 1..12, date.d \in Int
    PROVE  DayNumber(date) \in Int
<1>1. LeapYearsBefore(date.y) \in Int /\ DaysBefore(date.y, date.m) \in Int
  BY MonthEnds
<1> QED
  BY <1>1 DEF DayNumber

\* The months are numbered on over the end of a year.
LEMMA Months ==
    \A i \in Nat : /\ i \div 12 \in Nat /\ i % 12 \in 0..11
                   /\ i % 12 = 11 => (i + 1) \div 12 = i \div 12 + 1 /\ (i + 1) % 12 = 0
                   /\ i % 12 # 11 => (i + 1) \div 12 = i \div 12 /\ (i + 1) % 12 = (i % 12) + 1
  OBVIOUS

\* A subscription whose dates do not drift.
Regular == sub.interval \in {"DAY", "WEEK"} \/ sub.start.d <= 28

\* After the n-th billing date comes the next.
LEMMA NextOnDay ==
    ASSUME sub.start \in Dates, sub.interval \in Intervals, Regular,
           NEW n \in Nat, NEW date \in Dates, IsBillingDate(date, n)
    PROVE  IsBillingDate(ComputeNextBillingDate(date, sub.interval), n + 1)
<1> DEFINE next == ComputeNextBillingDate(date, sub.interval)
           s == sub.start
<1>1. /\ date.y \in Nat /\ date.m \in 1..12 /\ date.d \in 1..31 /\ date \in LongDates
      /\ s.y \in Nat /\ s.m \in 1..12 /\ s.d \in 1..31
  BY Shifted DEF Dates
<1>2. DayNumber(s) \in Int /\ DayNumber(date) \in Int
  BY <1>1, DayNumberType
<1>3. ASSUME NEW k \in {1, 7}, IsDay(date)
      PROVE  /\ DayNumber(Overflown([date EXCEPT !.d = @ + k])) = DayNumber(date) + k
             /\ IsDay(Overflown([date EXCEPT !.d = @ + k]))
  <2> DEFINE moved == [date EXCEPT !.d = @ + k]
  <2>1. moved \in LongDates /\ moved.y = date.y /\ moved.m = date.m /\ moved.d = date.d + k
    BY Shifted
  <2> HIDE DEF moved
  <2>2. MonthLength(date.y, date.m) \in Int
    BY MonthLengths
  <2>3. moved.d <= MonthLength(moved.y, moved.m) + 7
    BY <1>1, <1>3, <2>1, <2>2 DEF IsDay
  <2>4. DayNumber(moved) = DayNumber(date) + k
    <3>1. LeapYearsBefore(date.y) \in Int /\ DaysBefore(date.y, date.m) \in Int
      BY <1>1, MonthEnds
    <3>2. DayNumber(moved) = 365 * date.y + LeapYearsBefore(date.y)
                               + DaysBefore(date.y, date.m) + (date.d + k)
      BY <2>1 DEF DayNumber
    <3> QED
      BY <1>1, <3>1, <3>2 DEF DayNumber
  <2>5. DayNumber(Overflown(moved)) = DayNumber(moved) /\ IsDay(Overflown(moved))
    BY <2>1, <2>3, OverflownDay
  <2> QED
    BY <2>4, <2>5 DEF moved
<1>4. CASE sub.interval = "DAY"
  <2>1. IsDay(date) /\ DayNumber(date) = DayNumber(s) + n
    BY <1>4 DEF IsBillingDate
  <2>2. next = Overflown([date EXCEPT !.d = @ + 1])
    BY <1>4 DEF ComputeNextBillingDate
  <2>3. DayNumber(next) = DayNumber(date) + 1 /\ IsDay(next)
    BY <1>3, <2>1, <2>2
  <2> HIDE DEF next
  <2>4. DayNumber(next) = DayNumber(s) + (n + 1)
    BY <1>2, <2>1, <2>3
  <2>5. IsBillingDate(next, n + 1)
    BY <1>4, <2>3, <2>4 DEF IsBillingDate
  <2> QED
    BY <2>5 DEF next
<1>5. CASE sub.interval = "WEEK"
  <2>1. IsDay(date) /\ DayNumber(date) = DayNumber(s) + 7 * n
    BY <1>5 DEF IsBillingDate
  <2>2. next = Overflown([date EXCEPT !.d = @ + 7])
    BY <1>5 DEF ComputeNextBillingDate
  <2>3. DayNumber(next) = DayNumber(date) + 7 /\ IsDay(next)
    BY <1>3, <2>1, <2>2
  <2> HIDE DEF next
  <2>4. DayNumber(next) = DayNumber(s) + 7 * (n + 1)
    BY <1>2, <2>1, <2>3
  <2>5. IsBillingDate(next, n + 1)
    BY <1>5, <2>3, <2>4 DEF IsBillingDate
  <2> QED
    BY <2>5 DEF next
<1>6. CASE sub.interval = "MONTH"
  <2> DEFINE i == s.m - 1 + n
             moved == NextMonth(date)
  <2>1. i \in Nat /\ s.m - 1 + (n + 1) = i + 1 /\ s.d <= 28
    BY <1>1, <1>6 DEF Regular
  <2>2. date = [y |-> s.y + i \div 12, m |-> (i % 12) + 1, d |-> s.d]
    BY <1>6 DEF IsBillingDate
  <2>3. moved \in LongDates /\ moved.d = s.d
    BY <1>1, <2>2, NextMonthIs
  <2>4. MonthLength(moved.y, moved.m) \in 28..31 /\ moved.d \in Int
    BY <1>1, <2>3, MonthLengths
  <2>5. next = moved
    <3>1. next = Overflown(moved)
      BY <1>6 DEF ComputeNextBillingDate
    <3> HIDE DEF moved, next
    <3>2. ~(moved.d > MonthLength(moved.y, moved.m))
      BY <1>1, <2>1, <2>3, <2>4
    <3> QED
      BY <2>3, <3>1, <3>2, OverflownIs
  <2> HIDE DEF i
  <2>6. moved = [y |-> s.y + (i + 1) \div 12, m |-> ((i + 1) % 12) + 1, d |-> s.d]
    <3>1. i \div 12 \in Nat /\ i % 12 \in 0..11 /\ date.y = s.y + i \div 12
          /\ date.m = (i % 12) + 1 /\ date.d = s.d
      BY <2>1, <2>2, Months
    <3>2. CASE date.m = 12
      <4>1. i % 12 = 11
        BY <3>1, <3>2
      <4>2. (i + 1) \div 12 = i \div 12 + 1 /\ (i + 1) % 12 = 0
        BY <2>1, <4>1, Months
      <4>3. moved = [y |-> date.y + 1, m |-> 1, d |-> date.d]
        BY <1>1, <3>2 DEF NextMonth, Dates
      <4>4. date.y + 1 = s.y + (i + 1) \div 12 /\ ((i + 1) % 12) + 1 = 1
        BY <1>1, <3>1, <4>2
      <4> QED
        BY <3>1, <4>3, <4>4
    <3>3. CASE date.m # 12
      <4>1. i % 12 # 11
        BY <3>1, <3>3
      <4>2. (i + 1) \div 12 = i \div 12 /\ (i + 1) % 12 = (i % 12) + 1
        BY <2>1, <4>1, Months
      <4>3. moved = [y |-> date.y, m |-> date.m + 1, d |-> date.d]
        BY <1>1, <3>3 DEF NextMonth, Dates
      <4>4. date.y = s.y + (i + 1) \div 12 /\ ((i + 1) % 12) + 1 = date.m + 1
        BY <1>1, <3>1, <4>2
      <4> QED
        BY <3>1, <4>3, <4>4
    <3> QED
      BY <3>2, <3>3
  <2> QED
    BY <1>6, <2>1, <2>5, <2>6 DEF IsBillingDate
<1>7. CASE sub.interval = "YEAR"
  <2> DEFINE moved == [date EXCEPT !.y = @ + 1]
  <2>1. s.d <= 28 /\ date = [s EXCEPT !.y = @ + n]
    BY <1>1, <1>7 DEF Regular, IsBillingDate
  <2>2. moved \in LongDates /\ moved.y = date.y + 1 /\ moved.m = date.m /\ moved.d = date.d
    BY Shifted
  <2>3. date.y = s.y + n /\ date.d = s.d
    BY <2>1 DEF Dates
  <2>4. MonthLength(moved.y, moved.m) \in 28..31
    BY MonthLengths
  <2>5. next = moved
    <3>1. next = Overflown(moved)
      BY <1>7 DEF ComputeNextBillingDate
    <3> HIDE DEF moved, next
    <3>2. ~(moved.d > MonthLength(moved.y, moved.m))
      BY <1>1, <2>1, <2>2, <2>3, <2>4
    <3> QED
      BY <2>2, <3>1, <3>2, OverflownIs
  <2>6. moved = [s EXCEPT !.y = @ + (n + 1)]
    <3>1. date.y + 1 = s.y + (n + 1)
      BY <1>1, <2>3
    <3>2. moved = [date EXCEPT !.y = s.y + (n + 1)]
      BY <3>1
    <3>3. moved = [s EXCEPT !.y = s.y + (n + 1)]
      BY <2>1, <3>2 DEF Dates
    <3> QED
      BY <3>3
  <2> QED
    BY <1>7, <2>5, <2>6 DEF IsBillingDate
<1> QED
  BY <1>4, <1>5, <1>6, <1>7 DEF Intervals

\* The first billing date is the start.
LEMMA FirstOnDay ==
    ASSUME NEW s \in Dates
    PROVE  /\ DayNumber(s) = DayNumber(s) + 0 /\ DayNumber(s) = DayNumber(s) + 7 * 0
           /\ s = [y |-> s.y + (s.m - 1 + 0) \div 12, m |-> ((s.m - 1 + 0) % 12) + 1, d |-> s.d]
           /\ s = [s EXCEPT !.y = @ + 0]
<1>1. s.y \in Nat /\ s.m \in 1..12 /\ s.d \in 1..31 /\ s = [y |-> s.y, m |-> s.m, d |-> s.d]
  BY DEF Dates
<1>2. DayNumber(s) \in Int
  BY <1>1, DayNumberType
<1>3. /\ s.m - 1 + 0 \in 0..11
      /\ s.y + (s.m - 1 + 0) \div 12 = s.y /\ ((s.m - 1 + 0) % 12) + 1 = s.m
  BY <1>1
<1>4. [s EXCEPT !.y = @ + 0] = s
  BY <1>1 DEF Dates
<1>5. DayNumber(s) = DayNumber(s) + 0 /\ DayNumber(s) = DayNumber(s) + 7 * 0
  BY <1>2
<1>6. s = [y |-> s.y + (s.m - 1 + 0) \div 12, m |-> ((s.m - 1 + 0) % 12) + 1, d |-> s.d]
  BY <1>1, <1>3
<1> QED
  BY <1>4, <1>5, <1>6

-----------------------------------------------------------------------------
(* Billing: the inductive invariant *)

Cycle(p) == loc[p].body = SubBody
Charging(p) == Cycle(p) /\ pc[p] \in HasRow
IsCharge(i) == rows[i].body = SubBody

\* Cycles run and charge only once there is a subscription, with a first date that exists.
Subscribed ==
    /\ sub = NoSub => (\A p \in Procs : ~Cycle(p)) /\ (\A i \in RowIds : ~IsCharge(i))
    /\ sub # NoSub => sub.interval \in Intervals /\ IsDay(sub.start)

\* A cycle's row is a charge for its date.
ChargeHeld == \A p \in Procs : Charging(p) => rows[loc[p].row].due = loc[p].due

\* Two cycles hold one date, or one is to charge what is charged, only if it was excused.
DateOnce ==
    \A p, q \in Procs : p # q /\ Cycle(p) /\ Cycle(q) /\ loc[p].due = loc[q].due
                          => loc[p].due \in rebilled

Uncharged ==
    \A p \in Procs : Cycle(p) /\ pc[p] \notin HasRow /\ loc[p].due \in Charged
                       => loc[p].due \in rebilled

\* A charge is of a date before the next, or of one whose cycle is still there.
Behind ==
    \A i \in RowIds : IsCharge(i) =>
        \/ Rank(rows[i].due) < Rank(sub.next)
        \/ rows[i].due \in rebilled
        \/ \E p \in Procs : Charging(p) /\ loc[p].due = rows[i].due

ChargedOnce ==
    \A i, j \in RowIds : i # j /\ IsCharge(i) /\ IsCharge(j) /\ rows[i].due = rows[j].due
                           => rows[i].due \in rebilled

OnceInv == Subscribed /\ ChargeHeld /\ DateOnce /\ Uncharged /\ Behind /\ ChargedOnce

\* The date is the n-th, and all before it were charged.
Reached(date, n) ==
    /\ IsBillingDate(date, n)
    /\ \A k \in 0..n-1 : \E due \in Charged : IsBillingDate(due, k)

\* What was charged before a cycle's date takes a row each, and its own one more.
RowsBefore(p) == IF pc[p] \in HasRow THEN loc[p].row - 1 ELSE Len(rows)
CycleReached == \A p \in Procs : Cycle(p) => \E n \in 0..RowsBefore(p) : Reached(loc[p].due, n)
NextReached == \E n \in 0..Len(rows) : Reached(sub.next, n)

DatesInv == sub # NoSub /\ Regular => CycleReached /\ NextReached

BilledInv == OnceInv /\ DatesInv

-----------------------------------------------------------------------------
(* Billing: the steps *)

LEMMA ChargedAre == \A due : due \in Charged <=> \E i \in RowIds : IsCharge(i) /\ rows[i].due = due
  BY DEF Charged, IsCharge, RowIds

LEMMA ChargedNext ==
    \A due : due \in Charged' <=> \E i \in RowIds' : rows'[i].body = SubBody /\ rows'[i].due = due
  BY DEF Charged, RowIds

\* What a step finds: the dates it may come across, and where the cycles stand.
LEMMA BillingTypes ==
    ASSUME IInv
    PROVE  /\ sub.start \in Dates /\ sub.next \in Dates
           /\ \A p \in Procs : loc[p].due \in Dates
           /\ \A i \in RowIds : rows[i].due \in Dates
           /\ \A p \in Procs : pc[p] \in HasRow =>
                 loc[p].row \in RowIds /\ rows[loc[p].row].body = loc[p].body
           /\ \A p \in Procs : pc[p] = "idle" => ~Cycle(p)
           /\ Len(rows) \in Nat
<1>1. sub.start \in Dates /\ sub.next \in Dates
  BY IdleType, TypesParts DEF IInv, SubTypes
<1>2. ASSUME NEW p \in Procs PROVE loc[p].due \in Dates
  <2>1. loc[p] \in Locals
    BY TypesParts DEF IInv, TaskTypes
  <2> QED
    BY <2>1, IdleType DEF Locals
<1>3. Len(rows) \in Nat /\ rows \in Seq(Row)
  BY TypesParts, LenProperties DEF IInv, RowTypes
<1>4. ASSUME NEW i \in RowIds PROVE rows[i].due \in Dates
  <2>1. rows[i] \in Row
    BY <1>3 DEF RowIds
  <2> QED
    BY <2>1, IdleType DEF Row
<1>5. ASSUME NEW p \in Procs
      PROVE  /\ pc[p] \in HasRow =>
                   loc[p].row \in RowIds /\ rows[loc[p].row].body = loc[p].body
             /\ pc[p] = "idle" => ~Cycle(p)
  <2>1. HeldBy(p)
    BY HeldEach DEF IInv
  <2> QED
    BY <2>1 DEF HeldBy, Cycle, Idle, SubBody
<1> QED
  BY <1>1, <1>2, <1>3, <1>4, <1>5

DuesKept ==
    /\ Len(rows') = Len(rows)
    /\ \A i \in RowIds : rows'[i].body = rows[i].body /\ rows'[i].due = rows[i].due

\* One task moves on with its cycle, or ends it; a charge it leaves behind is excused.
LEMMA BillingStays ==
    ASSUME IInv, BilledInv, NEW p \in Procs, DuesKept, Others(p), sub' = sub,
           rebilled \subseteq rebilled',
           Cycle(p)' => /\ Cycle(p) /\ loc'[p].due = loc[p].due /\ loc'[p].row = loc[p].row
                        /\ pc'[p] \in HasRow <=> pc[p] \in HasRow,
           Charging(p) => Charging(p)' \/ loc[p].due \in rebilled'
    PROVE  BilledInv'
<1>1. RowIds' = RowIds
  BY DEF DuesKept, RowIds
<1>2. Charged' = Charged
  <2>1. \A i \in RowIds : IsCharge(i) <=> rows'[i].body = SubBody
    BY DEF DuesKept, IsCharge
  <2>2. \A due : due \in Charged' <=> due \in Charged
    BY <1>1, <2>1, ChargedAre, ChargedNext DEF DuesKept
  <2> QED
    BY <2>2
<1>3. \A q \in Procs : Cycle(q)' => /\ Cycle(q) /\ loc'[q].due = loc[q].due
                                    /\ loc'[q].row = loc[q].row
                                    /\ pc'[q] \in HasRow <=> pc[q] \in HasRow
  BY DEF Others, Cycle
<1>4. \A q \in Procs : Charging(q) => Charging(q)' \/ loc[q].due \in rebilled'
  BY DEF Others, Charging, Cycle
<1>5. \A q \in Procs : Charging(q)' => Charging(q)
  BY <1>3 DEF Charging
<1>6. Subscribed'
  BY <1>1, <1>3 DEF BilledInv, OnceInv, Subscribed, DuesKept, IsCharge
<1>7. ChargeHeld'
  <2> SUFFICES ASSUME NEW q \in Procs, Charging(q)'
               PROVE  rows'[loc'[q].row].due = loc'[q].due
    BY DEF ChargeHeld
  <2>1. Charging(q) /\ loc'[q].row = loc[q].row /\ loc'[q].due = loc[q].due
    BY <1>3, <1>5 DEF Charging
  <2>2. loc[q].row \in RowIds /\ rows[loc[q].row].due = loc[q].due
    BY <2>1, BillingTypes DEF BilledInv, OnceInv, ChargeHeld, Charging
  <2> QED
    BY <2>1, <2>2 DEF DuesKept
<1>8. DateOnce'
  BY <1>3 DEF BilledInv, OnceInv, DateOnce
<1>9. Uncharged'
  BY <1>2, <1>3 DEF BilledInv, OnceInv, Uncharged
<1>10. Behind'
  <2> SUFFICES ASSUME NEW i \in RowIds, IsCharge(i)'
               PROVE  \/ Rank(rows'[i].due) < Rank(sub'.next)
                      \/ rows'[i].due \in rebilled'
                      \/ \E q \in Procs : Charging(q)' /\ loc'[q].due = rows'[i].due
    BY <1>1 DEF Behind
  <2>1. IsCharge(i) /\ rows'[i].due = rows[i].due
    BY DEF DuesKept, IsCharge
  <2>2. CASE Rank(rows[i].due) < Rank(sub.next) \/ rows[i].due \in rebilled
    BY <2>1, <2>2
  <2>3. ASSUME NEW q \in Procs, Charging(q), loc[q].due = rows[i].due
        PROVE  \/ rows'[i].due \in rebilled'
               \/ Charging(q)' /\ loc'[q].due = rows'[i].due
    BY <1>3, <1>4, <2>1, <2>3 DEF Charging
  <2> QED
    BY <2>1, <2>2, <2>3 DEF BilledInv, OnceInv, Behind
<1>11. ChargedOnce'
  BY <1>1 DEF BilledInv, OnceInv, ChargedOnce, DuesKept, IsCharge
<1>12. \A date, n : Reached(date, n)' <=> Reached(date, n)
  BY <1>2 DEF Reached, IsBillingDate
<1>13. DatesInv'
  <2> SUFFICES ASSUME sub # NoSub, Regular
               PROVE  CycleReached' /\ NextReached'
    BY DEF DatesInv, Regular
  <2>1. CycleReached /\ NextReached
    BY DEF BilledInv, DatesInv
  <2>2. NextReached'
    <3>1. PICK n \in 0..Len(rows) : Reached(sub.next, n)
      BY <2>1 DEF NextReached
    <3> QED
      BY <1>12, <3>1 DEF NextReached, DuesKept
  <2>3. ASSUME NEW q \in Procs, Cycle(q)'
        PROVE  \E n \in 0..RowsBefore(q)' : Reached(loc[q].due, n)'
    <3>1. /\ Cycle(q) /\ loc'[q].due = loc[q].due /\ RowsBefore(q)' = RowsBefore(q)
      BY <1>3, <2>3 DEF RowsBefore, DuesKept
    <3>2. PICK n \in 0..RowsBefore(q) : Reached(loc[q].due, n)
      BY <2>1, <3>1 DEF CycleReached
    <3> QED
      BY <1>12, <3>1, <3>2
  <2> QED
    BY <2>2, <2>3 DEF CycleReached
<1> QED
  BY <1>6, <1>7, <1>8, <1>9, <1>10, <1>11, <1>13 DEF BilledInv, OnceInv

\* A cycle ends, or a request ends or moves on: no cycle is in new hands.
LEMMA BillingLeft ==
    ASSUME IInv, BilledInv, NEW p \in Procs, Leave(p), rows' = rows, sub' = sub,
           rebilled \subseteq rebilled', Charging(p) => loc[p].due \in rebilled'
    PROVE  BilledInv'
<1>1. loc'[p] = Idle /\ Others(p)
  BY Moved, IdleType, TypesParts DEF IInv, Leave, Steps, Others
<1>2. ~Cycle(p)'
  BY <1>1 DEF Cycle, Idle, SubBody
<1>3. DuesKept
  BY DEF DuesKept
<1> QED
  BY <1>1, <1>2, <1>3, BillingStays

LEMMA BillingGivenUp ==
    ASSUME IInv, BilledInv, NEW p \in Procs, GivesUp(p), rows' = rows, sub' = sub
    PROVE  BilledInv'
<1>1. Leave(p) /\ rebilled \subseteq rebilled'
  BY DEF GivesUp
<1>2. Charging(p) => loc[p].due \in rebilled'
  <2>1. Charging(p) => loc[p].row \in RowIds
    BY BillingTypes DEF Charging
  <2>2. Charging(p) => loc[p].row > 0
    BY <2>1 DEF RowIds
  <2> QED
    BY <2>2 DEF GivesUp, Charging, Cycle
<1> QED
  BY <1>1, <1>2, BillingLeft

\* A task moves on with its row, or without one.
LEMMA BillingGoes ==
    ASSUME IInv, BilledInv, NEW p \in Procs, NEW step \in Steps, NEW local \in Locals,
           Goto(p, step, local), local.body = loc[p].body, local.due = loc[p].due,
           local.row = loc[p].row, step \in HasRow <=> pc[p] \in HasRow,
           DuesKept, sub' = sub, rebilled' = rebilled
    PROVE  BilledInv'
<1>1. pc'[p] = step /\ loc'[p] = local /\ Others(p)
  BY Moved, TypesParts DEF IInv, Others
<1> QED
  BY <1>1, BillingStays DEF Cycle, Charging

LEMMA CreateRequestBilled ==
    ASSUME IInv, BilledInv, NEW p \in Procs, NEW k \in Keys, NEW b \in Bodies,
           CreateRequest(p, k, b)
    PROVE  BilledInv'
<1> DEFINE local == [Idle EXCEPT !.key = k, !.body = b]
<1>1. /\ Goto(p, "prepare", local) /\ At(p, "idle") /\ rows' = rows /\ sub' = sub
      /\ rebilled' = rebilled
  BY DEF CreateRequest
<1>2. local.body = b /\ local \in Locals
  <2>1. local = [key |-> k, body |-> b, due |-> NoDate, fee |-> 0, merchant |-> NoMerchant,
                 row |-> 0]
    <3> DEFINE half == [Idle EXCEPT !.key = k]
    <3>1. half = [key |-> k, body |-> "none", due |-> NoDate, fee |-> 0,
                  merchant |-> NoMerchant, row |-> 0]
      BY DEF Idle
    <3>2. local = [half EXCEPT !.body = b]
      OBVIOUS
    <3> HIDE DEF half
    <3> QED
      BY <3>1, <3>2
  <2> HIDE DEF local
  <2> QED
    BY <2>1, IdleType, Limits DEF Locals
<1> HIDE DEF local
<1>3. loc'[p] = local /\ Others(p)
  BY <1>1, <1>2, Moved, TypesParts DEF IInv, Others, Steps
<1>4. ~Cycle(p)'
  BY <1>2, <1>3, Parts DEF Cycle
<1>5. ~Charging(p)
  BY <1>1 DEF At, Charging, HasRow
<1>6. DuesKept
  BY <1>1 DEF DuesKept
<1> QED
  BY <1>1, <1>3, <1>4, <1>5, <1>6, BillingStays

LEMMA PrepareBilled ==
    ASSUME IInv, BilledInv, NEW p \in Procs, NEW m \in Merchants, Prepare(p, m)
    PROVE  BilledInv'
<1>1. /\ loc[p] \in Locals /\ pc[p] = "prepare" /\ rows' = rows /\ sub' = sub
      /\ rebilled' = rebilled /\ DuesKept
  BY TypesParts DEF IInv, TaskTypes, Prepare, At, DuesKept
<1>2. CASE ~RoutingPlanAllows(m, loc[p].body)
  BY <1>1, <1>2, BillingLeft DEF Prepare, Charging, HasRow
<1>3. CASE RoutingPlanAllows(m, loc[p].body) /\ IsPayment(p)
  <2> DEFINE local == [loc[p] EXCEPT !.fee = ComputedFee(Amount[loc[p].body], FeePolicy(m)),
                                     !.merchant = m]
  <2>1. Goto(p, "check", local)
    BY <1>3 DEF Prepare
  <2>2. local.body = loc[p].body
    BY <1>1 DEF Locals
  <2>3. pc'[p] = "check" /\ loc'[p] = local /\ Others(p)
    BY <2>1, TypesParts DEF IInv, TaskTypes, Goto, Others
  <2> HIDE DEF local
  <2>4. ~Cycle(p)'
    BY <1>3, <2>2, <2>3, Parts DEF Cycle, IsPayment
  <2>5. ~Charging(p)
    BY <1>1 DEF Charging, HasRow
  <2> QED
    BY <1>1, <2>3, <2>4, <2>5, BillingStays
<1>4. CASE RoutingPlanAllows(m, loc[p].body) /\ ~IsPayment(p)
  <2>1. Goto(p, "insert", loc[p])
    BY <1>4 DEF Prepare
  <2> QED
    BY <1>1, <2>1, BillingGoes DEF Steps, HasRow
<1> QED
  BY <1>2, <1>3, <1>4

LEMMA CheckReferenceBilled ==
    ASSUME IInv, BilledInv, NEW p \in Procs, CheckReference(p)
    PROVE  BilledInv'
<1>1. /\ loc[p] \in Locals /\ pc[p] = "check" /\ rows' = rows /\ sub' = sub
      /\ rebilled' = rebilled /\ DuesKept
  BY TypesParts DEF IInv, TaskTypes, CheckReference, At, DuesKept
<1>2. CASE Stored(ReferenceOf(p))
  BY <1>1, <1>2, BillingLeft DEF CheckReference, Charging, HasRow
<1>3. CASE ~Stored(ReferenceOf(p))
  <2>1. Goto(p, "insert", loc[p])
    BY <1>3 DEF CheckReference
  <2> QED
    BY <1>1, <2>1, BillingGoes DEF Steps, HasRow
<1> QED
  BY <1>2, <1>3

LEMMA SessionBilled ==
    ASSUME IInv, BilledInv, NEW p \in Procs, pc[p] \in HasRow, AfterSession(p),
           rows' = [rows EXCEPT ![loc[p].row].session = TRUE], sub' = sub, rebilled' = rebilled
    PROVE  BilledInv'
<1> DEFINE step == IF loc[p].body = SubBody THEN "advance" ELSE "key"
           i == loc[p].row
<1>1. loc[p] \in Locals /\ rows \in Seq(Row) /\ i \in RowIds
  BY BillingTypes, TypesParts DEF IInv, TaskTypes, RowTypes
<1>2. DuesKept
  <2>1. rows[i] \in Row /\ i \in 1..Len(rows)
    BY <1>1 DEF RowIds
  <2> DEFINE opened == [rows[i] EXCEPT !.session = TRUE]
  <2>2. opened \in Row /\ opened.body = rows[i].body /\ opened.due = rows[i].due
    BY <2>1 DEF Row
  <2>3. rows' = [rows EXCEPT ![i] = opened]
    OBVIOUS
  <2> HIDE DEF opened, i
  <2>4. /\ Len([rows EXCEPT ![i] = opened]) = Len(rows)
        /\ \A j \in 1..Len(rows) : [rows EXCEPT ![i] = opened][j] = IF j = i THEN opened
                                                                  ELSE rows[j]
    BY <1>1, <2>1, <2>2, ExceptSeq
  <2> QED
    BY <2>2, <2>3, <2>4 DEF DuesKept, RowIds
<1>3. Goto(p, step, loc[p]) /\ step \in Steps /\ step \in HasRow
  BY DEF AfterSession, Steps, HasRow
<1> HIDE DEF step
<1> QED
  BY <1>1, <1>2, <1>3, BillingGoes

LEMMA AskGatewayBilled ==
    ASSUME IInv, BilledInv, NEW p \in Procs, NEW ok \in BOOLEAN, AskGateway(p, ok)
    PROVE  BilledInv'
<1>1. loc[p] \in Locals /\ pc[p] = "gateway" /\ pc[p] \in HasRow
  BY TypesParts DEF IInv, TaskTypes, AskGateway, At, HasRow
<1>2. CASE ~ok
  BY <1>2, BillingGivenUp DEF AskGateway
<1>3. CASE ok /\ IsPayment(p)
  BY <1>1, <1>3, SessionBilled DEF AskGateway
<1>4. CASE ok /\ ~IsPayment(p)
  <2>1. /\ Goto(p, "attempt", loc[p]) /\ rows' = rows /\ sub' = sub /\ rebilled' = rebilled
        /\ DuesKept
    BY <1>4 DEF AskGateway, DuesKept
  <2> QED
    BY <1>1, <2>1, BillingGoes DEF Steps, HasRow
<1> QED
  BY <1>2, <1>3, <1>4

LEMMA StoreAttemptBilled ==
    ASSUME IInv, BilledInv, NEW p \in Procs, StoreAttempt(p)
    PROVE  BilledInv'
  BY SessionBilled DEF StoreAttempt, At, HasRow

LEMMA StoreKeyBilled ==
    ASSUME IInv, BilledInv, NEW p \in Procs, StoreKey(p)
    PROVE  BilledInv'
<1>1. HeldBy(p) /\ pc[p] = "key"
  BY HeldEach DEF IInv, StoreKey, At
<1>2. ~Charging(p)
  BY <1>1, Parts DEF HeldBy, Charging, Cycle
<1> QED
  BY <1>2, BillingLeft DEF StoreKey

LEMMA StopBilled ==
    ASSUME IInv, BilledInv, NEW p \in Procs, Stop(p)
    PROVE  BilledInv'
  BY BillingGivenUp DEF Stop

\* A charge is a row more; its cycle was the only one to hold the date, or it was excused.
LEMMA InsertBilled ==
    ASSUME IInv, BilledInv, NEW p \in Procs, Insert(p)
    PROVE  BilledInv'
<1>0. PICK n : n = Len(rows) + 1
  OBVIOUS
<1> DEFINE row == [body |-> loc[p].body, key |-> loc[p].key, due |-> loc[p].due,
                   reference |-> ReferenceOf(p), fee |-> loc[p].fee,
                   merchant |-> loc[p].merchant, session |-> FALSE]
           local == [loc[p] EXCEPT !.row = n]
<1>1. /\ loc[p] \in Locals /\ pc[p] = "insert" /\ rows \in Seq(Row) /\ Len(rows) \in Nat
      /\ ~Charging(p) /\ sub' = sub /\ rebilled' = rebilled
  BY TypesParts, BillingTypes DEF IInv, TaskTypes, RowTypes, Insert, At, Charging, HasRow
<1>2. CASE ReferenceTaken(ReferenceOf(p))
  BY <1>1, <1>2, BillingLeft DEF Insert
<1>3. CASE ~ReferenceTaken(ReferenceOf(p))
  <2>1. rows' = Append(rows, row) /\ Goto(p, "gateway", local)
    BY <1>0, <1>3 DEF Insert
  <2>2. local.body = loc[p].body /\ local.due = loc[p].due /\ local.row = n
    BY <1>1 DEF Locals
  <2>3. row.body = loc[p].body /\ row.due = loc[p].due
    OBVIOUS
  <2>4. row \in Row
    <3>1. ReferenceOf(p) \in Range(Reference) \cup {NoReference}
      BY Parts DEF ReferenceOf, IsPayment
    <3>2. HeldBy(p)
      BY HeldEach DEF IInv
    <3> QED
      BY <1>1, <3>1, <3>2 DEF HeldBy, Row, Locals
  <2> HIDE DEF row, local
  <2>5. pc'[p] = "gateway" /\ loc'[p] = local /\ Others(p)
    BY <2>1, TypesParts DEF IInv, TaskTypes, Goto, Others
  <2>6. /\ Len(rows') = n /\ rows'[n] = row /\ \A i \in RowIds : rows'[i] = rows[i]
    BY <1>0, <1>1, <2>1, <2>4, AppendProperties DEF RowIds
  <2>7. RowIds' = RowIds \cup {n} /\ n \notin RowIds /\ n - 1 = Len(rows) /\ n \in Nat
    BY <1>0, <1>1, <2>6 DEF RowIds
  <2>8. \A q \in Procs : /\ (Cycle(q)' <=> Cycle(q)) /\ loc'[q].due = loc[q].due
                         /\ (q # p => pc'[q] = pc[q] /\ loc'[q] = loc[q])
    BY <2>2, <2>5 DEF Cycle, Others
  <2>9. (Charging(p)' <=> Cycle(p)) /\ \A q \in Procs \ {p} : Charging(q)' <=> Charging(q)
    BY <2>5, <2>8 DEF Charging, HasRow
  <2>10. /\ IsCharge(n)' <=> Cycle(p)
         /\ \A i \in RowIds : IsCharge(i)' <=> IsCharge(i)
    BY <2>3, <2>6 DEF IsCharge, Cycle
  <2>11. \A due : due \in Charged' <=> due \in Charged \/ (Cycle(p) /\ due = loc[p].due)
    <3>1. \A due : due \in Charged'
                     <=> \E i \in RowIds \cup {n} : rows'[i].body = SubBody /\ rows'[i].due = due
      BY <2>7, ChargedNext
    <3> QED
      BY <2>3, <2>6, <3>1, ChargedAre DEF IsCharge, Cycle
  <2>12. Cycle(p) /\ loc[p].due \in Charged => loc[p].due \in rebilled
    BY <1>1 DEF BilledInv, OnceInv, Uncharged, Charging
  <2>13. Subscribed'
    BY <1>1, <2>7, <2>8, <2>10 DEF BilledInv, OnceInv, Subscribed
  <2>14. ChargeHeld'
    <3> SUFFICES ASSUME NEW q \in Procs, Charging(q)'
                 PROVE  rows'[loc'[q].row].due = loc'[q].due
      BY DEF ChargeHeld
    <3>1. CASE q = p
      BY <2>2, <2>3, <2>5, <2>6, <3>1
    <3>2. CASE q # p
      <4>1. Charging(q) /\ loc'[q] = loc[q]
        BY <2>8, <2>9, <3>2
      <4>2. loc[q].row \in RowIds /\ rows[loc[q].row].due = loc[q].due
        BY <4>1, BillingTypes DEF BilledInv, OnceInv, ChargeHeld, Charging
      <4> QED
        BY <2>6, <4>1, <4>2
    <3> QED
      BY <3>1, <3>2
  <2>15. DateOnce'
    BY <1>1, <2>8 DEF BilledInv, OnceInv, DateOnce
  <2>16. Uncharged'
    <3> SUFFICES ASSUME NEW q \in Procs, Cycle(q)', pc'[q] \notin HasRow,
                        loc'[q].due \in Charged'
                 PROVE  loc'[q].due \in rebilled
      BY <1>1 DEF Uncharged
    <3>1. q # p /\ Cycle(q) /\ pc'[q] = pc[q] /\ loc'[q].due = loc[q].due
      BY <2>5, <2>8 DEF HasRow
    <3>2. CASE loc[q].due \in Charged
      BY <3>1, <3>2 DEF BilledInv, OnceInv, Uncharged
    <3>3. CASE Cycle(p) /\ loc[q].due = loc[p].due
      BY <3>1, <3>3 DEF BilledInv, OnceInv, DateOnce
    <3> QED
      BY <2>11, <3>1, <3>2, <3>3
  <2>17. Behind'
    <3> SUFFICES ASSUME NEW i \in RowIds \cup {n}, IsCharge(i)'
                 PROVE  \/ Rank(rows'[i].due) < Rank(sub.next)
                        \/ rows'[i].due \in rebilled
                        \/ \E q \in Procs : Charging(q)' /\ loc'[q].due = rows'[i].due
      BY <1>1, <2>7 DEF Behind
    <3>1. CASE i = n
      BY <2>3, <2>6, <2>8, <2>9, <2>10, <3>1
    <3>2. CASE i \in RowIds
      <4>1. IsCharge(i) /\ rows'[i] = rows[i]
        BY <2>6, <2>10, <3>2
      <4>2. \A q \in Procs : Charging(q) => Charging(q)' /\ loc'[q].due = loc[q].due
        BY <1>1, <2>8, <2>9
      <4> QED
        BY <3>2, <4>1, <4>2 DEF BilledInv, OnceInv, Behind
    <3> QED
      BY <3>1, <3>2
  <2>18. ChargedOnce'
    <3>1. \A i \in RowIds : IsCharge(i) /\ Cycle(p) /\ rows[i].due = loc[p].due
                              => loc[p].due \in rebilled
      BY <2>12, ChargedAre
    <3>2. rows'[n].due = loc[p].due
      BY <2>3, <2>6
    <3> SUFFICES ASSUME NEW i \in RowIds \cup {n}, NEW j \in RowIds \cup {n}, i # j,
                        IsCharge(i)', IsCharge(j)', rows'[i].due = rows'[j].due
                 PROVE  rows'[i].due \in rebilled
      BY <1>1, <2>7 DEF ChargedOnce
    <3>3. CASE i \in RowIds /\ j \in RowIds
      BY <2>6, <2>10, <3>3 DEF BilledInv, OnceInv, ChargedOnce
    <3>4. CASE i = n /\ j \in RowIds
      BY <2>6, <2>10, <3>1, <3>2, <3>4
    <3>5. CASE j = n /\ i \in RowIds
      BY <2>6, <2>10, <3>1, <3>2, <3>5
    <3> QED
      BY <3>3, <3>4, <3>5
  <2>19. \A date, k : Reached(date, k) => Reached(date, k)'
    <3>1. \A date, k : IsBillingDate(date, k)' <=> IsBillingDate(date, k)
      BY <1>1 DEF IsBillingDate
    <3> QED
      BY <2>11, <3>1 DEF Reached
  <2>20. DatesInv'
    <3> SUFFICES ASSUME sub # NoSub, Regular
                 PROVE  CycleReached' /\ NextReached'
      BY <1>1 DEF DatesInv, Regular
    <3>1. CycleReached /\ NextReached
      BY DEF BilledInv, DatesInv
    <3>2. NextReached'
      <4>1. PICK k \in 0..Len(rows) : Reached(sub.next, k)
        BY <3>1 DEF NextReached
      <4>2. k \in 0..n
        BY <1>0, <1>1
      <4> QED
        BY <1>1, <2>6, <2>19, <4>1, <4>2 DEF NextReached
    <3>3. ASSUME NEW q \in Procs, Cycle(q)'
          PROVE  \E k \in 0..RowsBefore(q)' : Reached(loc[q].due, k)'
      <4>1. Cycle(q) /\ loc'[q].due = loc[q].due
        BY <2>8, <3>3
      <4>2. PICK k \in 0..RowsBefore(q) : Reached(loc[q].due, k)
        BY <3>1, <4>1 DEF CycleReached
      <4>3. k \in 0..RowsBefore(q)'
        <5>1. CASE q = p
          BY <1>1, <2>2, <2>5, <2>7, <4>2, <5>1 DEF RowsBefore, HasRow
        <5>2. CASE q # p
          BY <1>0, <1>1, <2>6, <2>8, <4>2, <5>2 DEF RowsBefore
        <5> QED
          BY <5>1, <5>2
      <4> QED
        BY <2>19, <4>1, <4>2, <4>3
    <3> QED
      BY <3>2, <3>3 DEF CycleReached
  <2> QED
    BY <2>13, <2>14, <2>15, <2>16, <2>17, <2>18, <2>20 DEF BilledInv, OnceInv
<1> QED
  BY <1>2, <1>3

\* A cycle takes the next date: what was charged already is excused, or still held.
LEMMA ProcessSubscriptionsBilled ==
    ASSUME IInv, BilledInv, NEW p \in Procs, ProcessSubscriptions(p)
    PROVE  BilledInv'
<1> DEFINE local == [Idle EXCEPT !.body = SubBody, !.due = sub.next]
<1>1. /\ pc[p] = "idle" /\ sub # NoSub /\ rows' = rows /\ sub' = sub
      /\ Goto(p, "prepare", local) /\ rebilled \subseteq rebilled'
      /\ \A q \in Procs : Cycle(q) /\ loc[q].due = sub.next => sub.next \in rebilled'
  BY DEF ProcessSubscriptions, At, Cycle
<1>2. local.body = SubBody /\ local.due = sub.next
  BY DEF Idle
<1> HIDE DEF local
<1>3. pc'[p] = "prepare" /\ loc'[p] = local /\ Others(p)
  BY <1>1, TypesParts DEF IInv, TaskTypes, Goto, Others
<1>4. RowIds' = RowIds /\ Charged' = Charged /\ \A i \in RowIds : IsCharge(i)' <=> IsCharge(i)
  BY <1>1 DEF RowIds, Charged, IsCharge
<1>5. ~Cycle(p) /\ Cycle(p)' /\ loc'[p].due = sub.next
  BY <1>1, <1>2, <1>3, BillingTypes DEF Cycle
<1>6. \A q \in Procs \ {p} : /\ Cycle(q)' <=> Cycle(q)
                             /\ loc'[q] = loc[q] /\ pc'[q] = pc[q]
  BY <1>3 DEF Cycle, Others
<1>7. \A q \in Procs : (Charging(q)' <=> Charging(q)) /\ (Charging(q) => loc'[q] = loc[q])
  BY <1>3, <1>5, <1>6 DEF Charging, HasRow
<1>8. sub.next \in Charged => sub.next \in rebilled'
  <2> SUFFICES ASSUME sub.next \in Charged
               PROVE  sub.next \in rebilled'
    OBVIOUS
  <2>1. PICK i \in RowIds : IsCharge(i) /\ rows[i].due = sub.next
    BY ChargedAre
  <2>2. Rank(sub.next) \in Int
    BY BillingTypes, RankType
  <2>3. \/ rows[i].due \in rebilled
        \/ \E q \in Procs : Charging(q) /\ loc[q].due = rows[i].due
    BY <2>1, <2>2 DEF BilledInv, OnceInv, Behind
  <2> QED
    BY <1>1, <2>1, <2>3 DEF Charging
<1>9. Subscribed'
  BY <1>1 DEF BilledInv, OnceInv, Subscribed
<1>10. ChargeHeld'
  BY <1>1, <1>7 DEF BilledInv, OnceInv, ChargeHeld
<1>11. DateOnce'
  <2> SUFFICES ASSUME NEW q \in Procs, NEW r \in Procs, q # r, Cycle(q)', Cycle(r)',
                      loc'[q].due = loc'[r].due
               PROVE  loc'[q].due \in rebilled'
    BY DEF DateOnce
  <2>1. CASE q = p
    BY <1>1, <1>5, <1>6, <2>1
  <2>2. CASE r = p
    BY <1>1, <1>5, <1>6, <2>2
  <2>3. CASE q # p /\ r # p
    BY <1>1, <1>6, <2>3 DEF BilledInv, OnceInv, DateOnce
  <2> QED
    BY <2>1, <2>2, <2>3
<1>12. Uncharged'
  <2> SUFFICES ASSUME NEW q \in Procs, Cycle(q)', pc'[q] \notin HasRow, loc'[q].due \in Charged
               PROVE  loc'[q].due \in rebilled'
    BY <1>4 DEF Uncharged
  <2>1. CASE q = p
    BY <1>5, <1>8, <2>1
  <2>2. CASE q # p
    BY <1>1, <1>6, <2>2 DEF BilledInv, OnceInv, Uncharged
  <2> QED
    BY <2>1, <2>2
<1>13. Behind'
  <2> SUFFICES ASSUME NEW i \in RowIds, IsCharge(i)
               PROVE  \/ Rank(rows[i].due) < Rank(sub.next)
                      \/ rows[i].due \in rebilled'
                      \/ \E q \in Procs : Charging(q)' /\ loc'[q].due = rows[i].due
    BY <1>1, <1>4 DEF Behind
  <2> QED
    BY <1>1, <1>7 DEF BilledInv, OnceInv, Behind
<1>14. ChargedOnce'
  BY <1>1, <1>4 DEF BilledInv, OnceInv, ChargedOnce
<1>15. \A date, n : Reached(date, n)' <=> Reached(date, n)
  BY <1>1, <1>4 DEF Reached, IsBillingDate
<1>16. DatesInv'
  <2> SUFFICES ASSUME Regular
               PROVE  CycleReached' /\ NextReached'
    BY <1>1 DEF DatesInv, Regular
  <2>1. CycleReached /\ NextReached
    BY <1>1 DEF BilledInv, DatesInv
  <2>2. NextReached'
    BY <1>1, <1>15, <2>1 DEF NextReached
  <2>3. ASSUME NEW q \in Procs, Cycle(q)'
        PROVE  \E n \in 0..RowsBefore(q)' : Reached(loc[q].due, n)'
    <3>1. CASE q = p
      <4>1. PICK n \in 0..Len(rows) : Reached(sub.next, n)
        BY <2>1 DEF NextReached
      <4>2. RowsBefore(q)' = Len(rows)
        BY <1>1, <1>3, <3>1 DEF RowsBefore, HasRow
      <4> QED
        BY <1>5, <1>15, <3>1, <4>1, <4>2
    <3>2. CASE q # p
      <4>1. Cycle(q) /\ loc'[q].due = loc[q].due /\ RowsBefore(q)' = RowsBefore(q)
        BY <1>1, <1>6, <2>3, <3>2 DEF RowsBefore
      <4>2. PICK n \in 0..RowsBefore(q) : Reached(loc[q].due, n)
        BY <2>1, <4>1 DEF CycleReached
      <4> QED
        BY <1>15, <4>1, <4>2
    <3> QED
      BY <3>1, <3>2
  <2> QED
    BY <2>2, <2>3 DEF CycleReached
<1> QED
  BY <1>9, <1>10, <1>11, <1>12, <1>13, <1>14, <1>16 DEF BilledInv, OnceInv

\* The date moves on from the one that was charged: the next is later, and has one more
\* charged before it.
LEMMA AdvanceBilled ==
    ASSUME IInv, BilledInv, NEW p \in Procs, Advance(p)
    PROVE  BilledInv'
<1> DEFINE next == ComputeNextBillingDate(loc[p].due, sub.interval)
<1>1. /\ pc[p] = "advance" /\ rows' = rows /\ sub' = [sub EXCEPT !.next = next] /\ Leave(p)
      /\ rebilled' = IF sub.next = loc[p].due THEN rebilled ELSE rebilled \cup Charged
  BY DEF Advance, At
<1>2. /\ Charging(p) /\ loc[p].due \in Dates /\ sub.interval \in Intervals
      /\ sub.start \in Dates
  <2>1. HeldBy(p)
    BY HeldEach DEF IInv
  <2>2. loc[p].body = SubBody /\ sub.interval \in Intervals
    BY <1>1, <2>1, Parts DEF HeldBy
  <2> QED
    BY <1>1, <2>2, BillingTypes DEF Charging, Cycle, HasRow
<1>3. sub'.start = sub.start /\ sub'.interval = sub.interval /\ sub'.next = next
  BY <1>1, TypesParts DEF IInv, SubTypes
<1>4. Rank(loc[p].due) < Rank(next)
  BY <1>2, NextLater
<1>5. next \in Dates /\ Rank(next) \in Int /\ Rank(loc[p].due) \in Int
  <2>1. next \in Dates
    BY <1>2, NextDateType
  <2> QED
    BY <1>2, <2>1, RankType
<1> HIDE DEF next
<1>6. sub # NoSub /\ sub' # NoSub
  BY <1>2, <1>3 DEF BilledInv, OnceInv, Subscribed, Charging, NoSub, Intervals
<1>7. loc'[p] = Idle /\ ~Cycle(p)' /\ Others(p)
  BY <1>1, Moved, IdleType, TypesParts DEF IInv, Leave, Steps, Others, Cycle, Idle, SubBody
<1>8. \A q \in Procs \ {p} : /\ Cycle(q)' <=> Cycle(q)
                             /\ loc'[q] = loc[q] /\ pc'[q] = pc[q]
                             /\ Charging(q)' <=> Charging(q)
  BY <1>7 DEF Cycle, Others, Charging
<1>9. RowIds' = RowIds /\ Charged' = Charged /\ \A i \in RowIds : IsCharge(i)' <=> IsCharge(i)
  BY <1>1 DEF RowIds, Charged, IsCharge
<1>10. rebilled \subseteq rebilled'
  BY <1>1
<1>11. Subscribed'
  BY <1>2, <1>3, <1>6 DEF BilledInv, OnceInv, Subscribed
<1>12. ChargeHeld'
  <2>1. \A q \in Procs : Charging(q)' => q # p
    BY <1>7 DEF Charging
  <2> QED
    BY <1>1, <1>8, <2>1 DEF BilledInv, OnceInv, ChargeHeld
<1>13. DateOnce'
  BY <1>7, <1>8, <1>10 DEF BilledInv, OnceInv, DateOnce
<1>14. Uncharged'
  BY <1>7, <1>8, <1>9, <1>10 DEF BilledInv, OnceInv, Uncharged
<1>15. Behind'
  <2> SUFFICES ASSUME NEW i \in RowIds, IsCharge(i)
               PROVE  \/ Rank(rows[i].due) < Rank(next)
                      \/ rows[i].due \in rebilled'
                      \/ \E q \in Procs : Charging(q)' /\ loc'[q].due = rows[i].due
    BY <1>1, <1>3, <1>9 DEF Behind
  <2>1. CASE sub.next # loc[p].due
    BY <1>1, <2>1, ChargedAre
  <2>2. CASE sub.next = loc[p].due
    <3>1. Rank(rows[i].due) \in Int
      BY BillingTypes, RankType
    <3>2. CASE Rank(rows[i].due) < Rank(sub.next)
      BY <1>4, <1>5, <2>2, <3>1, <3>2
    <3>3. CASE rows[i].due \in rebilled
      BY <1>10, <3>3
    <3>4. ASSUME NEW q \in Procs, Charging(q), loc[q].due = rows[i].due
          PROVE  \/ Rank(rows[i].due) < Rank(next)
                 \/ Charging(q)' /\ loc'[q].due = rows[i].due
      <4>1. CASE q = p
        BY <1>4, <3>4, <4>1
      <4>2. CASE q # p
        BY <1>8, <3>4, <4>2
      <4> QED
        BY <4>1, <4>2
    <3> QED
      BY <3>2, <3>3, <3>4 DEF BilledInv, OnceInv, Behind
  <2> QED
    BY <2>1, <2>2
<1>16. ChargedOnce'
  BY <1>1, <1>9, <1>10 DEF BilledInv, OnceInv, ChargedOnce
<1>17. \A date, n : IsBillingDate(date, n)' <=> IsBillingDate(date, n)
  BY <1>3 DEF IsBillingDate
<1>18. \A date, n : Reached(date, n)' <=> Reached(date, n)
  BY <1>9, <1>17 DEF Reached
<1>19. DatesInv'
  <2> SUFFICES ASSUME Regular
               PROVE  CycleReached' /\ NextReached'
    BY <1>3 DEF DatesInv, Regular
  <2>1. CycleReached /\ NextReached
    BY <1>6 DEF BilledInv, DatesInv
  <2>2. NextReached'
    <3>1. loc[p].row \in RowIds /\ rows[loc[p].row].due = loc[p].due /\ Len(rows) \in Nat
          /\ rows[loc[p].row].body = SubBody
      BY <1>2, BillingTypes DEF Charging, Cycle, BilledInv, OnceInv, ChargeHeld
    <3>2. loc[p].due \in Charged
      BY <3>1, ChargedAre DEF IsCharge
    <3>3. PICK n \in 0..loc[p].row - 1 : Reached(loc[p].due, n)
      BY <1>2, <2>1 DEF CycleReached, RowsBefore, Charging
    <3>4. n \in Nat /\ n + 1 \in 0..Len(rows)
      BY <3>1, <3>3 DEF RowIds
    <3>5. IsBillingDate(next, n + 1)
      BY <1>2, <3>3, <3>4, NextOnDay DEF next, Reached
    <3>6. ASSUME NEW k \in 0..(n + 1) - 1
          PROVE  \E due \in Charged : IsBillingDate(due, k)
      <4>1. CASE k = n
        BY <3>2, <3>3, <4>1 DEF Reached
      <4>2. CASE k # n
        <5>1. k \in 0..n-1
          BY <3>4, <4>2
        <5> QED
          BY <3>3, <5>1 DEF Reached
      <4> QED
        BY <4>1, <4>2
    <3>7. Reached(next, n + 1)
      BY <3>5, <3>6 DEF Reached
    <3> QED
      BY <1>1, <1>3, <1>18, <3>4, <3>7 DEF NextReached
  <2>3. ASSUME NEW q \in Procs, Cycle(q)'
        PROVE  \E n \in 0..RowsBefore(q)' : Reached(loc[q].due, n)'
    <3>1. q # p
      BY <1>7, <2>3
    <3>2. Cycle(q) /\ loc'[q].due = loc[q].due /\ RowsBefore(q)' = RowsBefore(q)
      BY <1>1, <1>8, <2>3, <3>1 DEF RowsBefore
    <3>3. PICK n \in 0..RowsBefore(q) : Reached(loc[q].due, n)
      BY <2>1, <3>2 DEF CycleReached
    <3> QED
      BY <1>18, <3>2, <3>3
  <2> QED
    BY <2>2, <2>3 DEF CycleReached
<1> QED
  BY <1>11, <1>12, <1>13, <1>14, <1>15, <1>16, <1>19 DEF BilledInv, OnceInv

LEMMA CreateSubscriptionBilled ==
    ASSUME IInv, BilledInv, NEW offer \in Offers, CreateSubscription(offer)
    PROVE  BilledInv'
<1>1. /\ offer.start \in Dates /\ offer.interval \in Intervals /\ IsDay(offer.start)
      /\ Len(rows) \in Nat
  BY OffersAssumption, BillingTypes
<1>2. /\ sub = NoSub /\ rows' = rows /\ pc' = pc /\ loc' = loc /\ rebilled' = rebilled
      /\ sub'.start = offer.start /\ sub'.interval = offer.interval
      /\ sub'.next = offer.start /\ sub' # NoSub
  <2>1. sub' = [start |-> offer.start, interval |-> offer.interval, next |-> offer.start]
    BY DEF CreateSubscription
  <2> QED
    BY <1>1, <2>1 DEF CreateSubscription, NoSub, Intervals
<1>3. (\A p \in Procs : ~Cycle(p)) /\ (\A i \in RowIds : ~IsCharge(i))
  BY <1>2 DEF BilledInv, OnceInv, Subscribed
<1>4. (\A p \in Procs : ~Cycle(p)') /\ (\A i \in RowIds' : ~IsCharge(i)')
  BY <1>2, <1>3 DEF Cycle, IsCharge, RowIds
<1>5. OnceInv'
  <2>1. Subscribed'
    BY <1>1, <1>2 DEF Subscribed
  <2> QED
    BY <1>4, <2>1 DEF OnceInv, ChargeHeld, DateOnce, Uncharged, Behind, ChargedOnce, Charging
<1>6. IsBillingDate(sub.next, 0)'
  <2>1. sub'.start \in Dates /\ sub'.interval \in Intervals /\ IsDay(sub'.start)
    BY <1>1, <1>2
  <2>2. sub'.interval \in {"DAY", "WEEK", "MONTH", "YEAR"} /\ sub'.next = sub'.start
    BY <1>2, <2>1 DEF Intervals
  <2> QED
    BY <2>1, <2>2, FirstOnDay DEF IsBillingDate
<1>7. NextReached'
  <2>1. 0 \in 0..Len(rows') /\ 0..(0 - 1) = {}
    BY <1>1, <1>2
  <2> QED
    BY <1>6, <2>1 DEF NextReached, Reached
<1>8. CycleReached'
  BY <1>4 DEF CycleReached
<1> QED
  BY <1>5, <1>7, <1>8 DEF BilledInv, DatesInv

-----------------------------------------------------------------------------
(* Billing: the theorem *)

LEMMA InitBilled ==
    ASSUME Init
    PROVE  BilledInv
<1>1. /\ RowIds = {} /\ sub = NoSub /\ \A p \in Procs : ~Cycle(p)
  BY DEF Init, RowIds, Cycle, Idle, SubBody
<1>2. OnceInv
  BY <1>1 DEF OnceInv, Subscribed, ChargeHeld, DateOnce, Uncharged, Behind, ChargedOnce,
              Charging
<1> QED
  BY <1>1, <1>2 DEF BilledInv, DatesInv

LEMMA StutterBilled ==
    ASSUME BilledInv, UNCHANGED vars
    PROVE  BilledInv'
<1>1. rows' = rows /\ sub' = sub /\ pc' = pc /\ loc' = loc /\ rebilled' = rebilled
  BY DEF vars
<1>2. RowIds' = RowIds /\ Charged' = Charged
  BY <1>1 DEF RowIds, Charged
<1>3. \A p : /\ Cycle(p)' <=> Cycle(p)
             /\ Charging(p)' <=> Charging(p)
             /\ RowsBefore(p)' = RowsBefore(p)
  BY <1>1 DEF Cycle, Charging, RowsBefore
<1>4. \A i : IsCharge(i)' <=> IsCharge(i)
  BY <1>1 DEF IsCharge
<1>5. \A date, n : Reached(date, n)' <=> Reached(date, n)
  BY <1>1, <1>2 DEF Reached, IsBillingDate
<1>6. Subscribed' /\ ChargeHeld' /\ DateOnce' /\ Uncharged'
  BY <1>1, <1>2, <1>3, <1>4
  DEF BilledInv, OnceInv, Subscribed, ChargeHeld, DateOnce, Uncharged
<1>7. Behind' /\ ChargedOnce'
  BY <1>1, <1>2, <1>3, <1>4 DEF BilledInv, OnceInv, Behind, ChargedOnce
<1>8. CycleReached' <=> CycleReached
  BY <1>1, <1>3, <1>5 DEF CycleReached
<1>9. NextReached' <=> NextReached
  BY <1>1, <1>5 DEF NextReached
<1> QED
  BY <1>1, <1>6, <1>7, <1>8, <1>9 DEF BilledInv, OnceInv, DatesInv, Regular

LEMMA NextBilled ==
    ASSUME IInv, BilledInv, Next
    PROVE  BilledInv'
<1>1. CASE \E offer \in Offers : CreateSubscription(offer)
  BY <1>1, CreateSubscriptionBilled
<1>2. ASSUME NEW p \in Procs, Request(p)
      PROVE  BilledInv'
  BY <1>2, CreateRequestBilled, PrepareBilled, CheckReferenceBilled, InsertBilled,
     AskGatewayBilled, StoreAttemptBilled, StoreKeyBilled DEF Request
<1>3. ASSUME NEW p \in Procs, ProcessSubscriptions(p) \/ Advance(p) \/ Stop(p)
      PROVE  BilledInv'
  BY <1>3, ProcessSubscriptionsBilled, AdvanceBilled, StopBilled
<1> QED
  BY <1>1, <1>2, <1>3 DEF Next

\* Every period before the next billing date was charged, on its own day by the calendar,
\* and none twice but for the excuses named: computeNextBillingDate and the cycle that
\* charges before it moves the date, for any offers, years and overlapping cycles.
THEOREM PeriodsBilled == Spec => []EachPeriodBilled
<1>1. Init => BilledInv
  BY InitBilled
<1>2. IInv /\ BilledInv /\ [Next]_vars => BilledInv'
  BY NextBilled, StutterBilled
<1>3. BilledInv => EachPeriodBilled
  <2> SUFFICES ASSUME BilledInv, sub # NoSub
               PROVE  /\ Regular => NextReached
                      /\ ChargedOnce
    BY DEF EachPeriodBilled, Regular, NextReached, Reached, ChargedOnce, IsCharge, RowIds
  <2> QED
    BY DEF BilledInv, OnceInv, DatesInv
<1> QED
  BY <1>1, <1>2, <1>3, Invariant, PTL DEF Spec
=============================================================================
