------------------------------- MODULE Ledger --------------------------------
(***************************************************************************)
(* The double-entry ledger of one merchant: what a paid payment posts, and *)
(* the running balance each entry carries.                                 *)
(*                                                                         *)
(* recordSuccessfulPaymentLedgerByPaymentId is called by every handler     *)
(* that sees a payment PAID (webhook, its repetition, lookup) and by       *)
(* POST :reference/ledger.  It reads the status, looks for entries, and    *)
(* opens a transaction of two or three entries, each of which reads the    *)
(* account's entries first.  Nothing but that look keeps a second caller   *)
(* away; at READ COMMITTED each read sees what is committed by then.       *)
(***************************************************************************)
EXTENDS Integers, FiniteSets, Sequences

CONSTANTS Writers,    \* callers at the same time
          Payments,   \* the merchant's payments
          Net, Fee    \* merchantNetCents and platformFeeCents of a payment

ASSUME WritersAssumption == IsFiniteSet(Writers)

ASSUME AmountsAssumption ==
    /\ Net \in [Payments -> Nat] /\ Fee \in [Payments -> Nat]
    /\ \A s \in Payments : Net[s] + Fee[s] > 0

VARIABLES paid,      \* paid[s]: the payment's status is PAID
          ledger,    \* the LedgerEntry rows in the order of their commits
          pc,        \* where each writer stands
          job,       \* the payment it posts
          written    \* the entries of its open transaction

ledgerVars == <<paid, ledger, pc, job, written>>

-----------------------------------------------------------------------------

\* enum LedgerAccount, less GATEWAY_SETTLEMENT, which nothing posts to.
Accounts == {"CUSTOMER_FUNDS", "MERCHANT_BALANCE", "PLATFORM_FEES"}
Entries == [payment : Payments, account : Accounts, credit : Int, balanceAfter : Int]

\* Mutant: the fee is not posted.
MovementsWithoutFee(s) ==
    <<[account |-> "CUSTOMER_FUNDS", credit |-> -(Net[s] + Fee[s])],
      [account |-> "MERCHANT_BALANCE", credit |-> Net[s]]>>

\* Mutant: the customer's money is booked as the gateway's settlement.
SettlementMovements(s) ==
    <<[account |-> "GATEWAY_SETTLEMENT", credit |-> -(Net[s] + Fee[s])],
      [account |-> "MERCHANT_BALANCE", credit |-> Net[s]]>>

\* The movements a payment posts, debits negative; no fee, no third entry.
Movements(s) ==
    LET gross == [account |-> "CUSTOMER_FUNDS", credit |-> -(Net[s] + Fee[s])]
        net   == [account |-> "MERCHANT_BALANCE", credit |-> Net[s]]
        fee   == [account |-> "PLATFORM_FEES", credit |-> Fee[s]]
    IN  IF Fee[s] > 0 THEN <<gross, net, fee>> ELSE <<gross, net>>

\* The balance of an account over some entries.
Balance(entries, account) ==
    LET credit(n) == IF entries[n].account = account THEN entries[n].credit ELSE 0
        sum[n \in 0..Len(entries)] == IF n = 0 THEN 0 ELSE sum[n - 1] + credit(n)
    IN  sum[Len(entries)]

Goto(w, step) == pc' = [pc EXCEPT ![w] = step]

\* The writer is done; what it had not committed is gone.
Leave(w) ==
    /\ Goto(w, "idle")
    /\ written' = [written EXCEPT ![w] = << >>]

-----------------------------------------------------------------------------

\* The status is read; a payment that is not PAID is refused.
Begin(w, s) ==
    /\ pc[w] = "idle"
    /\ paid[s]
    /\ Goto(w, "look")
    /\ job' = [job EXCEPT ![w] = s]
    /\ UNCHANGED <<paid, ledger, written>>

\* Mutant: the look is for a fee entry only.
FeesOf(s) == {i \in DOMAIN ledger : ledger[i].payment = s /\ ledger[i].account = "PLATFORM_FEES"}

EntriesOf(s) == {i \in DOMAIN ledger : ledger[i].payment = s}

\* A payment with entries is left alone.
Look(w) ==
    /\ pc[w] = "look"
    /\ IF EntriesOf(job[w]) # {} THEN Leave(w) ELSE Goto(w, "post") /\ UNCHANGED written
    /\ UNCHANGED <<paid, ledger, job>>

\* What a read inside the transaction sees.
Visible(w) == ledger \o written[w]

\* Mutant: the sum runs over all the merchant's entries, whatever the account.
MerchantBalanceAfter(w, m) ==
    Balance(Visible(w), "CUSTOMER_FUNDS") + Balance(Visible(w), "MERCHANT_BALANCE")
        + Balance(Visible(w), "PLATFORM_FEES") + m.credit

ComputeLedgerBalanceAfter(w, m) == Balance(Visible(w), m.account) + m.credit

\* createLedgerEntry: the account's balance is read, the entry written.
CreateLedgerEntry(w) ==
    LET s == job[w]
        n == Len(written[w]) + 1
    IN  /\ pc[w] = "post"
        /\ n \in DOMAIN Movements(s)
        /\ LET m == Movements(s)[n]
           IN  written' = [written EXCEPT ![w] = Append(@,
                    [payment |-> s, account |-> m.account, credit |-> m.credit,
                     balanceAfter |-> ComputeLedgerBalanceAfter(w, m)])]
        /\ UNCHANGED <<paid, ledger, pc, job>>

Commit(w) ==
    /\ pc[w] = "post"
    /\ Len(written[w]) = Len(Movements(job[w]))
    /\ ledger' = ledger \o written[w]
    /\ Leave(w)
    /\ UNCHANGED <<paid, job>>

\* An exception or a killed instance: the transaction is rolled back.
Abort(w) ==
    /\ pc[w] # "idle"
    /\ Leave(w)
    /\ UNCHANGED <<paid, ledger, job>>

\* The status writers: a payment becomes PAID, and an overtaken one may undo it.
StatusMoves(s) ==
    /\ paid' = [paid EXCEPT ![s] = ~@]
    /\ UNCHANGED <<ledger, pc, job, written>>

LedgerInit ==
    /\ paid = [s \in Payments |-> FALSE]
    /\ ledger = << >>
    /\ pc = [w \in Writers |-> "idle"]
    /\ job \in [Writers -> Payments]
    /\ written = [w \in Writers |-> << >>]

Writer(w) ==
    \/ \E s \in Payments : Begin(w, s)
    \/ Look(w)
    \/ CreateLedgerEntry(w)
    \/ Commit(w)
    \/ Abort(w)

LedgerNext ==
    \/ \E w \in Writers : Writer(w)
    \/ \E s \in Payments : StatusMoves(s)

LedgerSpec == LedgerInit /\ [][LedgerNext]_ledgerVars

-----------------------------------------------------------------------------
(* Properties *)

\* Every variable has its type.
LedgerTypeOK ==
    /\ paid \in [Payments -> BOOLEAN]
    /\ ledger \in Seq(Entries)
    /\ pc \in [Writers -> {"idle", "look", "post"}]
    /\ job \in [Writers -> Payments]
    /\ written \in [Writers -> Seq(Entries)]

\* The accounts balance to zero at all times, whoever posted twice or was rolled back.
AccountsBalance ==
    Balance(ledger, "CUSTOMER_FUNDS") + Balance(ledger, "MERCHANT_BALANCE")
        + Balance(ledger, "PLATFORM_FEES") = 0

\* A payment is posted at most once by each of the writers that overlap: one at a time
\* they post it once, also if one stops half-way and another follows.
PostedPerWriter ==
    \A s \in Payments, account \in Accounts :
        Cardinality({i \in DOMAIN ledger : ledger[i].payment = s /\ ledger[i].account = account})
            <= Cardinality(Writers)

\* balanceAfter is a balance the account did have when some entry before was the last,
\* moved by this entry: it misses what overlapped (no running balance then), but
\* never counts what was rolled back, or another account's money.
BalanceOnceTrue ==
    \A i \in DOMAIN ledger : \E last \in 0..(i - 1) :
        ledger[i].balanceAfter = Balance(SubSeq(ledger, 1, last), ledger[i].account) + ledger[i].credit
=============================================================================
