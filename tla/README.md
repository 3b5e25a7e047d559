# Verification of stackaura-checkout-api

TLA+ models of the checkout API's stateful core, the TLC configurations that
check them on small instances, and TLAPS proofs of what matters most for every
value of the constants. Source positions below are `file:line` in the
repository's `src/`; the file `PROJECT.json` maps every definition to its lines.

Run, in this directory:

    tlc -workers 2 -config MCPaymentOverlap.cfg MCPaymentLifecycle
    tlapm PaymentLifecycleProofs.tla

## 1. The system

A NestJS service on Cloud Run, several instances of it, one PostgreSQL through
Prisma. Every controller calls a service, a service reads rows, awaits a gateway
(Yoco, Ozow, Paystack, PayFast) over HTTP, and writes rows, sometimes in a
`$transaction`. Transactions run at PostgreSQL's default, READ COMMITTED, and no
read takes a lock: between a read and the write it decides, every other request
may commit. There is no queue. What follows a payment (its ledger entries, the
signup it pays for, the merchant's webhook) is a call after the commit that
nobody awaits or repeats, except that webhook deliveries are rows which a cron
job of every instance takes up every ten seconds.

| Component | State | Operations | Correct when |
|---|---|---|---|
| Payment lifecycle (`payments/payments.service.ts`, `webhooks/webhooks.service.ts`) | `Payment`, `PaymentAttempt`, `WebhookEvent` rows; the JSON column `rawGateway` | create and its gateway loop, hosted checkout, Ozow initiation, failover, three status lookups, four webhooks | PAID only for money that was captured; PAID stays; an event is applied once; no second session after a hand-off |
| Merchant webhook delivery (`webhooks/`) | `WebhookEndpoint`, `WebhookDelivery` rows; `deliveryWorkerRunning` of an instance | enqueue, the worker's cycle and its lanes, record, retry by hand, (de)activate | nothing lost or given up early; SUCCESS is true; one sender at a time; all is settled in the end |
| Signup and its fulfilment (`merchants/merchants.service.ts`, `payments.service.ts`) | merchant, user and API-key rows; the mark in `rawGateway.publicFlow` | initiation, notification, poll, fulfilment | one initial key; a signup marked as done is done; a paid signup is not forgotten |
| Ledger (`payments.service.ts:1620-1900`) | `LedgerEntry` rows | post a paid payment | posted once; accounts sum to zero; `balanceAfter` is the balance |
| Payouts (`payouts/`) | `Payout` rows, `WebhookEvent` rows | create under an Idempotency-Key, provider webhook | answers to a key agree; status is what the provider did |
| Idempotent creation (`payments.service.ts:2085-2260`, `957-1146`) | `IdempotencyKey` rows | create payment, create intent, replay | one payment for a key unless requests overlap or break off; a replay gets a payment of its own body that can be paid |
| Fees and plans (`payments/monetization.config.ts`) | none | fee breakdown, plan resolution | the fee of the merchant, else of the plan, else of the platform, to the nearest cent |
| Subscriptions (`scheduler/`, `payments.service.ts:4140-4198`) | `Subscription` rows | create, the hourly scheduler | every period is charged, on its day, and twice only if a cycle was overtaken or broke off |
| Gateway configuration (`merchants/merchants.service.ts:960-1310`, `gateways/*.config.ts`) | the gateways' columns of the merchant's row | configure PayFast, Ozow, Yoco (with its webhook), Paystack; readiness | the keys of a connection are of one account; what is shown as connected can be paid with |
| Encryption of secrets (`security/`, `scripts/migrate-merchant-secrets.ts`) | the same columns; a backup file | apply, verify, dry run, roll back | after a clean verification no plaintext; what was encrypted can be rolled back |
| Shopify app (`shopify/`) | install row, settings, conversation; Shopify's side | exchange, settings, webhooks, widget ping, storefront chat | nothing outlives the installation it belongs to; a shopper in trouble is offered a human |
| Support (`support/`) | conversations, escalations | chat, escalate by email | one email for one trouble; an escalation's status is true |
| WhatsApp assistant (`webhooks/whatsapp.service.ts`) | memory of one process; conversations | answer a message, file the exchange | a message is answered once in a server's life, and filed under what that server knew its customer by |
| Routing (`routing/`) | none | readiness, ranking | only ready gateways, order by method |
| Gateway adapters (`gateways/`) | none | build, sign, map statuses | no status is read as PAID that is not |
| Merchants and API keys (`merchants/`) | merchant, key rows | create, issue and revoke keys | one initial key |
| Sessions, guards, checkout pages, admin, bootstrap | none | checks, rendering, queries | see section 6 |

The behaviours that are hard here: overlapping handlers of one payment (a
notification, its repetition, a customer's return and a poll come together);
statuses read before an await and written after it; webhooks late, repeated and
out of order; a process killed after a commit; a write that fails in the middle
of a chain; two instances running the same cron. `PROJECT.json` lists each one
at its line under "hazards", with the properties that catch it, or a note why none does.

## 2. Modules

| Module | Role |
|---|---|
| `PaymentStatus` | status sets, the maps of the gateways' statuses, `CanTransitionPaymentStatus`, the attempt's status |
| `PaymentLifecycle` | one payment, its attempts, provider sessions and events under concurrent handlers (EXTENDS `PaymentStatus`) |
| `PaymentPromise` | the abstract machine a payment promises to follow: a status and whether money came in |
| `PaymentLifecycleProofs` | theorems on `PaymentLifecycle`, with the refinement of `PaymentPromise` |
| `WebhookDelivery`, `WebhookDeliveryProofs` | the outbox, its worker and its receivers |
| `SignupFulfilment`, `SignupFulfilmentProofs` | what a paid signup sets off |
| `Ledger` | postings and running balances |
| `Payouts` | payout requests and their webhooks |
| `MoneyProofs` | theorems on `Ledger` and on `Payouts`; it extends both, so `Ledger` has `LedgerInit`, `LedgerNext`, `LedgerSpec` and `LedgerTypeOK` where the others have the plain names |
| `Intake`, `IntakeProofs` | how payments and intents come to be: Idempotency-Keys, fees and plans, the subscription scheduler |
| `Connections`, `ConnectionsProofs` | the merchants' gateway credentials, readiness, and the migration that encrypts secrets |
| `Shopify`, `ShopifyProofs` | one shop: its install row and what hangs on it, the widget, the storefront chat |
| `Support`, `SupportProofs` | support conversations, escalation by email, the WhatsApp assistant |
| `MC...` | instances for TLC: model values, sequences, symmetry |

The modules meet where the code calls across: `PaymentLifecycle` makes a payment
PAID, and from there `Ledger`, `SignupFulfilment` and `WebhookDelivery` start
with a `paid` of their own (or an `Enqueue`) that may happen at any time, more
than once and from several handlers. This is how the calls after the commit look
from the other side, so each can be checked alone. `Intake` is what comes before: its
`AskGateway` stands for the whole gateway loop of `PaymentLifecycle`, of which it keeps
that it opens a session or fails, and `Connections` is what makes a gateway a candidate of
that loop. `Shopify` and `Support` share no row with payments.

### PaymentLifecycle

A handler is a process of `Procs`. `pc[p]` is where it stands and `loc[p]` what it
read (`snap` and `raw`: the status and the JSON column of its first read). It
decides and writes from `loc[p]`, as the code does from its local `payment`.
One step is what the database makes one: a read, or the write and commit of a
transaction (a second writer of the row waits for that commit, then overwrites).
`Abort` stops a handler at any await: an exception, a gateway's error, a killed
instance.

| Actions | Code |
|---|---|
| `CreatePayment`, `ContinueHostedCheckout`, `InitSucceeds`, `InitFails` | the insert, the ordered gateway loop, its success transaction and its last failure |
| `InitiateOzowPayment`, `InitiateOzowCommit` | Ozow's own initiation route |
| `Failover`, `FailoverCommit` | `createFailoverAttempt`: guards on the first read, attempt added in a transaction |
| `LookupRead`, `LookupAnswer`, `SyncCommit` | the status lookups: a read, the gateway's answer, and a write if the transition is legal from what was read |
| `WebhookReceived`, `WebhookBegin`, `WebhookCommit` | the webhook: read and parse, insert the event's unique key, update in the transaction |
| `GatewayMoves` (external) | the provider's side: open, pending, then paid, failed or cancelled |

The rows' texts, amounts and URLs are dropped: no guard tells them apart. Of
`rawGateway` the model keeps what guards read: the gateway asked for, the
hand-off, the last event of each gateway.

### WebhookDelivery

A slot of `Cycles` is one run of `processPendingDeliveries`: it picks due PENDING
rows into jobs, and `Concurrency` lanes post them. A job carries the attempt
number and the endpoint's flag of the time of the pick; `Record` writes from it.
A lane that throws makes `Promise.all` reject, which resets
`deliveryWorkerRunning` while the other lanes go on (`LaneThrows`), so that the
instance may start a second run. `RecordFailsInTry` is a failing write inside
the `try`, which the `catch` records as a failed attempt. `Crash` kills an
instance and all its runs. `receiver[d]` is the merchant's side and remembers the
attempt numbers it saw in the bodies and what it answered.

### SignupFulfilment

`fulfillPaidSignupPayment` is a chain of reads and writes without a transaction;
each is an action, and a handler may stop between any two. The mark that it is
done lives in `rawGateway`, which the status writers read before their await and
write back whole. Signup payments of one merchant may be several.

### Ledger

`StatusMoves` is the status writers of `PaymentLifecycle`, seen as `paid`. A writer
reads it, looks for entries, opens the transaction and writes an entry at a time,
each after its own read of the account's committed entries and its own; the commit
appends them all, and a roll-back is possible before.

### Payouts

Requests look for their key, insert, and on a unique violation look at which
index was named. An insert that breaks both is reported on `reference`, whose
index was created first (`prisma/migrations/20260214090000_baseline`): the disjuncts
of `Insert` test it first. Webhooks insert their event,
read the row and write the status if the transition is legal from what they
read. The provider goes through `created`, `processing` and one final word;
webhooks may come in any order, more than once, or never.

### Intake

A process is a request (its key and body in `loc[p]`) or a cycle of the scheduler (body
`SubBody`, with the billing date it found due). The steps are the code's awaits:

| Actions | Code |
|---|---|
| `CreateRequest` | the look for the key's row: a hit ends the request (`Replay`), a miss goes on |
| `Prepare` | the merchant's row, its plan (`RoutingPlanAllows`) and fee (`ComputedFee`) |
| `CheckReference`, `Insert` | the look for the reference, and the row under its unique index |
| `AskGateway`, `StoreAttempt` | the session, stored with the answer (payment) or after it (intent) |
| `StoreKey` | the upsert of the key's row, last of all |
| `CreateSubscription`, `ProcessSubscriptions`, `Advance` | the offer, a due subscription found, its next date |
| `Stop` | an exception or a killed instance at any of these |

The calendar is modelled by what JavaScript's dates do: `Overflown` is the carry of
`setDate`, `setMonth` and `setFullYear`. Fees are in integer cents, `RoundedShare` is
`Math.round`. A request without a key is one whose key is never seen again. The ghosts
`excused` and `rebilled` collect the keys and dates for which the code gives no promise.

### Connections

`conn[m][g]` is what a merchant's row holds of a gateway; of a credential the model keeps
the account it belongs to, and whether it is encrypted. `KeyMode` is the prefix that
shows test or live keys, which some accounts' keys do not have. A `Configure` reads the
row and decides the mode and whether Yoco's webhook is still good; `RegisterYocoWebhook`
asks Yoco; `WriteConnection` writes all columns of the gateway. A run of the script reads
all rows (`LoadMerchantSecrets`), writes its file over (`WriteBackupFile`), updates a
merchant at a time from what it has read, and verifies; `ReadBackupFile` and
`RestoreMerchant` are the rollback. `Ready`, `Readable` and `Connected` are the code's two
views of one row: whether a payment can use it and what the dashboard says.

### Shopify

Shopify's side (external) installs and uninstalls; its `app/uninstalled` notice names the
shop and nothing else, so `HandleWebhook` deletes the row *as it is now*, with the
settings, the conversation and the messages that cascade. Requests with a session token
use the row that is there or exchange the token (`Begin`, `ExchangeOfflineAccessToken`,
`ExchangeSessionToken`, `Refind`) and go on to save settings or to register webhooks. The
storefront's ping and chat read, await, and write what they have read: `ReadActivation` and
`RecordActivation`; `ReadChat`, `UpsertConversation` and `AppendMessages`. A message is the
set of the words its classification asks for, and the AI one of six outcomes.

### Support

Escalating is `ReadConversation`, `CreateEscalation` (the PENDING row),
`DeliverEscalationEmail`, `MarkSent`, `MarkConversation`, with the handler that marks
FAILED whatever failed, an email that did go out included. The assistant's
`HandleIncomingWebhook` remembers the message before it answers; `SendTextMessage`
answers (a reply that goes out and is acknowledged too late counts as one), and
`RecallConversation`, `FindConversation`, `CreateConversation` and `StoreQuestion` file the
exchange. `memory` and `convOf` are of a process: `Restart` empties them and drops what it was
doing.

Everything a message says of its sender comes with that message: `Contacts[m]` is the contacts
of its payload, `FindContactForMessage` takes the sender's or else the first, and `WaId` and
`ConversationTitle` are the id and the title that follow, with the code's fall-backs. So a
customer may have another name in every message, two may have one name, and one may be taken
for another. `MerchantOf[m]` is the merchant to whose number it was sent; merchant and title
together are the `Heading` that a conversation is looked for by, but `convOf` goes by the id
alone. The dashboard is that of some merchants (`Desks`), with one user each. The ghost `seen`
is what a server had to do with since its start.

## 3. Runs

Handlers run only when somebody calls, and the bounds end every behaviour in a state
with nothing left to do, so all configurations say `CHECK_DEADLOCK FALSE`. `TypeOK` is
checked by the runs of `WebhookDelivery` (lanes), `SignupFulfilment`, `Ledger` and `Payouts`,
and proved of every component.

| Run | Configuration | Shows | Distinct states |
|---|---|---|---|
| `serial` | `MCPaymentSerial` | handlers that do not overlap implement `PaymentPromise`; PAID has a SUCCEEDED newest attempt; nothing fails over after a hand-off that PayFast's notification has not wiped out | 421,242 |
| `overlap` | `MCPaymentOverlap` | two overlapping handlers, Ozow's notifications being hints and AUTO failing over: `PaidOnlyIfFunded`, `EventAppliedOnce`, `OrderlyUnlessOvertaken` | 368,538 |
| `delivery_races` | `MCDeliveryRaces` | two instances, a retry by hand, a fault: gapless attempt numbers, nothing given up early, and under fairness every delivery is settled | 208,888 |
| `delivery_lanes` | `MCDeliveryLanes` | one instance, two lanes, two faults: SUCCESS is true, and one sender per delivery until the first fault | 1,705,152 |
| `signup_overlap` | `MCSignupOverlap` | two handlers, two payments: COMPLETED means ready, no more keys than handlers, the mark is lost only to a stale writer | 12,237 |
| `ledger_overlap` | `MCLedgerOverlap` | two writers: accounts sum to zero, no more postings than writers, `balanceAfter` built on a balance that was | 14,340 |
| `payout_overlap` | `MCPayoutOverlap` | requests and webhooks, two at a time: answers to a key agree, settled truthfully, on the table unless overtaken | 865,185 |
| `intake_overlap` | `MCIntakeOverlap` | two requests under one key, or cycles: one payment for a key and a date unless excused, replays that can be paid, fees to the cent, every period charged on its day | 1,639,948 |
| `connections_overlap` | `MCConnectionsOverlap` | two configurations or runs of the script: keys of one account and connected means ready unless the script put back what it had read, no plaintext after a clean verification, a file that can take back what was done | 745,453 |
| `shopify_overlap` | `MCShopifyOverlap` | a shop installed twice, two requests: nothing outlives the installation, two views of a status agree, a listed message exists, trouble reaches a human | 1,820,003 |
| `support_overlap` | `MCSupportOverlap` | two tasks, a failing email or write, messages twice and under changing names, a restart: true statuses, one email, one reply in a server's life, filed only under what the server knew the customer by | 3,440,429 |

One run ends in a violation. `paid_final`: `PaidIsFinal`, which the transition table and its
test promise (PAID has no successor but itself), fails when a handler that read the
payment before it became PAID writes its own status over it.

What the code's tests state of *serial* calls (one initial key, one posting, no second
session after a hand-off) does not survive an overlap either; no document promises it
there. The passing properties say what an overlap can cost at most: `KeysPerHandler`,
`PostedPerWriter`, `OrderlyUnlessOvertaken`, `BalanceOnceTrue`; with one handler at a time
the first three are the strong statement. `NoFailoverAfterHandoff` is checked where
handlers do not overlap, and has one exception there: a PayFast notification *replaces*
`rawGateway` (`webhooks.service.ts:158`) where the other gateways' merge into it, and with it
the record of the redirect that was handed out. A second failover may then follow although the
customer holds a link, against the test "does not fail over after provider checkout has
already started" (`payments.service.spec.ts:1295`). It takes three attempts to see:
`PayfastSpoke` names it, and the property says that nothing else does this.

In the newer modules the same form is a ghost that names the
excuse (`excused`, `rebilled`, `overtaken`, `stale`, `stopped`, `evicted`), and the property
says that nothing else breaks the promise:

- A key makes two payments only if its requests overlapped or one broke off after its
  insert (`PaymentsDistinct`); a replay then is refused on its own reference, or pays twice.
- A billing date is charged twice only if two cycles held it, one set it back, or one broke
  off (`EachPeriodBilled`). Its first conjunct, that the dates are the start and whole
  intervals after it with none left out, is of daily and weekly subscriptions of any start,
  and of monthly and yearly ones that began by the 28th: for the 29th, 30th and 31st
  `setMonth` overflows and the day drifts.
- The migration writes back what it read over what was configured meanwhile
  (`ConnectionWhole`); keys of two modes then make the merchant's whole row unreadable for
  payments, whatever the gateway (`ConnectedIsReady`).
- A second `--apply` writes the backup file over, and what the first had encrypted is not in
  it (`dropped` in `MigrationKeepsItsWord`).
- `app/uninstalled` that comes after a new installation deletes the new row; what is left
  of the old one is only what a request held (`StaleOnlyIfOvertaken`).
- An escalation whose task stopped stays PENDING and answers every later request
  (`abandoned` in `StatusIsTruth`); an email that was sent but answered late, or whose row
  could not be written, is sent again (`OneEmailUnlessExcused`).
- What the assistant has seen is known to one process, and to it for a while
  (`RepliesPerLife`).
- Conversations of the assistant do mix customers, and merchants. A customer who takes
  another name, or writes to another merchant, is still filed in the first conversation, since
  the server's map (`whatsapp.service.ts:884`) has neither; whoever has that conversation's
  title joins it; and a message without a contact of its sender is taken to be from the first
  contact (`:244`). `FiledUnderOwnHeading` says how far this goes: the server must have had to
  do with the customer, as the code takes him, under the conversation's own merchant and
  title, since it started. Messages of strangers to that heading never get in.

Some hazards the models have and no property forbids, because the code does not defend
against them and nothing in the repository says that it should: a failover that supersedes
what was handed out while it awaited its session (`payments.service.ts:3750`;
`NoFailoverAfterHandoff` is of handlers that do not overlap); the newest attempt marked as
succeeded though another session was paid (`PaidAttemptSucceeded` says only that a PAID
payment has its newest attempt marked); a ledger entry, fulfilment or event lost by a crash
after the commit (`SignupRemembered` keeps a mark, and brings about none); a payout whose
SUCCESS came before its PENDING and was ignored (`SettledTruthfully` is of those that are
settled); a delivery sent twice after a lane threw (`SoleSender` ends at the first fault,
`AttemptNumbersSound` does not).

Where the repository's own README differs from the code without a run to show it: it
gives a `gatewayOrder` that nothing reads (lines 105 to 107), and a fee that is clamped and
taken from the amount (lines 97 to 101), where `computePlatformFeeBreakdown` adds it on
top. The modules follow the code.

A replay of a payout that races its first request may be refused: the insert
violates both unique indexes, PostgreSQL reports the one on `reference`, and
`payouts.service.ts:110` answers it with 409. `Insert` models this, provided the error
names its index as the code's `meta.target` test expects; a driver that leaves it
empty makes the replay an error 500. `ReplayAgrees` does not depend on it.

### Bounds, and why they are enough

- Two handlers (`Procs`, `Cycles`, `Writers`, `Clients`, `Hooks`): every hazard here is
  a read, an await and a write of one handler around a commit of another. The
  theorems lift this bound.
- `MaxAttempts` of a payment: 2 in `overlap`, enough for a failover and for an event
  about a superseded session; 3 in `serial`, where what a first failover left behind has to
  stop, or not, a second. Of a delivery 3 in `delivery_races` (first, middle and
  last), 2 in `delivery_lanes`.
- Gateways: `serial` takes Yoco, Ozow and PayFast, with an AUTO order of two; `overlap`
  Paystack before Ozow with an API key, whose events differ most (status words
  against the transaction id). Together they fire every action; the theorems hold
  for every choice.
- `MaxRetries = 1`, `MaxFaults = 1` or `2`: a fault, and a fault during its repair.
- `Net`, `Fee`: one payment with a fee and one without, of different amounts, so that
  a wrong account or order cannot cancel out.
- `MaxKeys = 3` with two handlers: one more than the property allows.
- `Intake`: one key and three bodies (a payment with a reference, one that names its
  gateway, an intent), `MaxRows = 3`: two under a key and one more. Two merchants (the
  plan's fee, a fee of its own) and amounts of 33 and 34 cents, on either side of half a
  cent at 1.5 %. Two offers, monthly over a year's end and weekly over a leap day.
- `Connections`: four gateways, two accounts whose keys are of different modes, old rows
  of three gateways over two merchants, `MaxConfigurations = 2` and `MaxRuns = 2`: an apply
  with a rollback, or two applies, around a configuration. Rows from before encryption
  are plaintext in all their secrets, which `ConnectionWhole` needs: only then does a run
  put them back together.
- `Shopify`: two installations (`MaxTokens`), two rows, two chats: the least in which
  something old can meet something new. One text, of a problem with a payment: the
  theorem has all of them. One topic: several are registered one by one, and no property
  tells them apart.
- `Support`: two conversations, escalations, customers, merchants and deliveries, one restart, and
  `MemorySize = 1`, so that a second message pushes the first out. Of the three messages a
  delivery takes, two are taken to be from one customer under two names and for two
  merchants, one of them having another's contact only; two are of two customers under one heading, one
  of them with its own contact second. The theorem has every assignment of contacts and
  merchants to messages.
- `MaxServed = 2` requests and webhooks of payouts at a time, in any mix.
- Symmetry is used for handlers, runs, deliveries, signup payments and references, and
  in no run with a liveness property.

### Fairness

Only `Settled` in `delivery_races` needs it, and `WebhookDelivery` states it: every instance's
cron keeps ticking (`@Cron` every ten seconds), a run's lanes progress (the fetch
is bounded by undici's own timeouts, a write returns or throws) and a delay
passes. Faults and retries by hand are bounded and nothing makes them happen;
merchants are never obliged to act. All other properties are safety.

## 4. What is proved

Every safety invariant and every action property that a run checks is a theorem, for any
sets of handlers, rows and references and for any bounds, with overlaps, repetitions and
stops included (three, marked *, for one handler at a time, as their run checks them).
The only property without a theorem is the liveness one.

| Theorem | Statement |
|---|---|
| `PaymentLifecycleProofs!TypeCorrect` | `Spec => []TypeOK` |
| `PaymentLifecycleProofs!PaidIsFunded`, `AppliedOnce`, `Orderliness` | `PaidOnlyIfFunded`, `EventAppliedOnce`, `OrderlyUnlessOvertaken` |
| `PaymentLifecycleProofs!SerialPromise`*, `NewestSucceeded`*, `HandoffRespected`* | `PromiseKept` (the refinement of `PaymentPromise`), `PaidAttemptSucceeded`, `NoFailoverAfterHandoff` |
| `WebhookDeliveryProofs!TypeCorrect`, `AttemptNumbers`, `GivenUpInTheEnd`, `SuccessIsTrue`, `OneSender` | `TypeOK`, `AttemptNumbersSound`, `NotAbandonedEarly`, `SuccessWasAccepted`, `SoleSender` |
| `SignupFulfilmentProofs!SignupTypes`, `FulfilledIsReady`, `NoKeyWithoutHandler`, `MarkLostToStaleWriter` | `TypeOK`, `CompletedMeansReady`, `KeysPerHandler`, `SignupRemembered` |
| `MoneyProofs!LedgerTypeCorrect`, `LedgerBalances`, `PostedOncePerWriter`, `BuiltOnABalance` | `LedgerTypeOK`, `AccountsBalance`, `PostedPerWriter`, `BalanceOnceTrue` |
| `MoneyProofs!TypeCorrect`, `ReplaysAgree`, `SettlementTrue`, `Orderliness` | of payouts: `TypeOK`, `ReplayAgrees`, `SettledTruthfully`, `OrderlyUnlessOvertaken` |
| `IntakeProofs!TypeCorrect`, `PaymentsApart`, `ReplaysWhole`, `FeesFair`, `PeriodsBilled` | `TypeOK`, `PaymentsDistinct`, `ReplaysAreWhole`, `FeesRoundFairly`, `EachPeriodBilled` |
| `ConnectionsProofs!TypeCorrect`, `OneAccount`, `ConnectedReady`, `MigrationKept` | `TypeOK`, `ConnectionWhole`, `ConnectedIsReady`, `MigrationKeepsItsWord` |
| `ShopifyProofs!TypeCorrect`, `NothingOutlives`, `StaleWasOvertaken`, `SummaryStands`, `HumanOffered`, `StatusAgreed` | `TypeOK` and all five properties of the run |
| `SupportProofs!TypeCorrect`, `StatusTrue`, `OneEmail`, `RepliesBounded`, `FiledUnderHeading` | `TypeOK` and all four properties of the run |

The assumptions are the named ones of the modules, which TLC evaluates in the runs. Most
give a constant its type. Those that say more:

- `ProcsAssumption`, `WritersAssumption`, `InstancesAssumption`, and of `Support` tasks and
  servers: what runs at a time is finitely many, as it is on any set of machines; only then
  can it be counted.
- `LegacyWholeAssumption` of `Connections`: a connection that is there at first is one that a
  request wrote, all of it at once: of one account, of the mode that was stored with it, Yoco's
  key and webhook secret both from before or both from after the encryption of secrets.
  Paystack has no public key, for which the schema has no column.
- `OffersAssumption` of `Intake`: a start is a day of its month, as every JavaScript date is.
- `ConflictApart` of `Payouts`: a refusal is no reference.

The arguments:

- Payment. The types are inductive together with `Started` (a handler past its
  start works on an existing payment) and `Armed` (what it holds fits where it
  stands). A handler writes PAID because of something it read earlier, so
  `PaidOnlyIfFunded` is not inductive; `FundedInv` adds that whoever *claims*
  PAID (a status read, a target to write, an event remembered in `raw`) does so
  of funded money, and `FundedStays` that money once captured stays captured.
  `Considered` adds that the target a handler is about to write is one that its
  own read admits: hence orderliness as long as the read is current. With a
  single handler the read *is* current (`Fresh`), and the step maps to a step of
  `PaymentPromise` or a stutter. `SerialInv` joins these, and carries `NewestSucceeded`: who
  writes PAID writes the newest attempt with it, and whoever adds an attempt or opens a
  session leaves the payment at another status. `HandoffInv` says that the row knows of every
  redirect that was handed out and so does whoever has read it, unless PayFast's
  notification was applied or is about to be.
- Delivery. What a run holds is a copy. `JobsSound` says of each copy what is true
  whatever happened to the row since: its number follows one that was posted, its
  recorded answer was given. `LanesSound` says that a job is in one lane of a
  run. With `Honest` (the three properties) they are inductive. `SoleInv` adds what holds of
  one instance until its first fault: the flag is up while a run is on, so there is one
  (`OneRun`); it holds a delivery once (`OnceHeld`) and as the row says (`Current`), since
  a retry by hand makes a row PENDING but keeps its attempts, and nothing else writes a PENDING one.
- Signup. `Knows(p)`: a handler at step n of the chain has made steps 1 to n-1 true, or
  read that they were; nothing undoes them. So whoever writes COMPLETED, and
  whoever writes an older COMPLETED back, knows it to be so. `KeysToCome`: whoever is
  about to create a key looked when there was none, and after the first key nobody finds
  none, so the keys there are and those still to come are no more than the handlers.
- Ledger. `Moving`: what a transaction has written are the first of its payment's
  movements; that these add up to nothing (`MovementsTotal`) makes `AccountsBalance` inductive.
  `Places`: the entries of a payment and the writers that are past their look and may still
  post it are together no more than the writers. `WrittenOnceTrue` says of what is not yet
  committed what `BalanceOnceTrue` says of what is. `Balance` is a recursive function over the
  length of a sequence: that it is defined, that it is the same on a common prefix, and that
  appending adds are shown by least counterexample (`Least`, from the library's
  well-foundedness of the order on `Nat`), which needs no operator as a parameter.
- Payouts. `RowsUnique` is the two indexes; `AnswersStand` ties every answer to a
  row, and rows are never deleted. `HooksTrue` says that a word under way was
  said by the provider; `SnapsAdmit` that a writer's read admits its word;
  `OfRows` that only rows have a status.
- Intake. `Held` ties what a request holds to its row, `RowsSound` a row's key to its body,
  `Priced` a fee to the merchant it was computed from, `KeysStand` a key's row to a payment
  with a session. That a key makes one payment takes three more, each for keys that are
  not excused: at most one request is under way (`OneHolder`), a row of the key has
  a holder or the key's row is written (`HolderOrKey`), and under a written key's row nobody is
  under way (`StoredIsFree`). An insert then finds no row of its key.
- Subscriptions. `OnceInv`: a charge is of a date before the next one by `Rank` (dates in
  their order), is excused, or its cycle is still there (`Behind`); two cycles hold one date,
  or one is about to charge what is charged, only if that is excused. So a charge is new or
  excused. `DatesInv`: the next date, and each that a cycle holds, is the start and a whole
  number of intervals, all dates before it were charged (`Reached`), and each of these charges
  takes a row, which bounds their number. What is left is the calendar: a date moved by
  an interval is later (`NextLater`) and is the next of its kind (`NextOnDay`), by the
  Gregorian day number (`YearEnds`, `MonthEnds`, `OverflownDay`) of any year.
- Connections. What a run still has to encrypt is in the file or was dropped from it
  (`InFile`), so it may count as migrated; a configuration seals what it writes and an
  update only rewrites sealed, so no plaintext appears (`NoNewPlaintext`) but by a
  rollback, which takes the verification's word back. `WholeInv`: of a connection's old
  plaintext secrets all are plaintext or none, and a run or the file has all of them or none
  (`OldTogether`), so the script puts them back together; what a configuration is about to
  write fits together (`Coherent`); and a connection the script has not put back is of one
  account and of its stored mode (`AllFit`).
- Shopify. `ShopTrue`: notices are of tokens that are gone. `HeldKnown`: a token that was
  handled, or a row that was deleted, and is in a request's hands, is in `overtaken`; so whoever writes
  it has the excuse. `ChatsApart` gives a chat to one request and ties the last message
  shown to the conversation that request will append to, `OffersHuman` says of what
  a request holds what the property says of the thread.
- Support. `DeskHeld` and `ChatHeld` say what a task holds at each of its steps: an
  escalation that is PENDING is in one task's hands. `OneCounts`: of a conversation that is
  not excused, one escalation is open or has its email out. `Numbered` counts replies
  against the deliveries that a server remembers. `Tied` is what `FiledUnderOwnHeading` says of
  a step, said of a server, a customer and a conversation; it holds of every entry of the
  map (`Remembers`) and of every conversation a task is about to write to (`Answers`), since
  headings do not change and `seen` only shrinks at a restart, which empties the map as well.

## 5. Only model-checked

`Settled`, the one liveness property, which rests on fairness: the prover has no rules for
`WF` and `ENABLED`. TLC checks it in `delivery_races`, for two instances, one delivery of three
attempts, a fault and a retry by hand. What the theorems say of it for all constants is the
safety half: a delivery that is SUCCESS was accepted, and one that is FAILED was refused for
good or had its last attempt.

That the actions can happen at all (no guard is never true) is also shown by the runs only,
which between them fire every action.

## 6. Not modelled, and the plan

Left out for good: wording, formatting and rendering of pages, signatures,
ciphers and hashing (libraries, or pure computation over bytes), read-only
queries (listings, analytics, admin, Shopify's snapshot), stateless token checks (sessions,
guards), the language model's texts and prompts, usage rows that nothing reads, connection
set-up. Fall-backs on environment values (a gateway's platform credentials, fees) are
constants here. A replay is answered and writes nothing, so it has no action. The clock is
the step `BecomesDue` or, for subscriptions, may have passed as far as it likes.

Left out, and worth adding, the most important first:

1. A composition `Settlement` of what follows PAID (ledger, fulfilment, event) with the
   payment that may lose PAID again, in place of three separate `paid` flags.
2. `Routing`: the ranking by payment method, and what readiness asks of one payment
   (currency, least amount, email), to replace the assumption on `AutoOrder`.
3. `ApiKeys`: revoking a key, and the requests that validated it before.

Theorems to come: of the composition, what is posted and fulfilled when PAID is undone; that
with one handler at a time `Ledger` and `SignupFulfilment` each implement a machine of one step
per payment; and the transfer of `PaidOnlyIfFunded` to what was posted.
