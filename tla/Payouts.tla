------------------------------- MODULE Payouts -------------------------------
(***************************************************************************)
(* Payouts: POST /payouts under an Idempotency-Key, and the provider's     *)
(* webhooks that move a payout's status.                                   *)
(*                                                                         *)
(* Both run in transactions at READ COMMITTED and lock nothing they read,  *)
(* so two of them may decide on the same row.  What keeps duplicates out   *)
(* are unique indexes, and their order matters: the index on reference was *)
(* created first, so PostgreSQL reports it when an insert violates both.   *)
(***************************************************************************)
EXTENDS Integers, FiniteSets

CONSTANTS Clients,      \* requests served at the same time
          Hooks,        \* webhooks served at the same time
          MaxServed,    \* bound on both together
          Keys,         \* a merchant and its Idempotency-Key
          References

\* A refusal (409) is an answer of its own, never a payout's reference.
ASSUME ConflictApart == "conflict" \notin References

VARIABLES rows,       \* [key, ref] of the Payout rows
          status,     \* status[r]: the status of the row with reference r
          request,    \* request[c]: what client c asks for, and how far it is
          answers,    \* what was answered: [key, ref, got]
          provider,   \* provider[r]: the states the provider has gone through
          processed,  \* the WebhookEvent rows committed
          hook        \* hook[h]: the webhook h serves, and what it read

vars == <<rows, status, request, answers, provider, processed, hook>>

-----------------------------------------------------------------------------
(* Data *)

\* enum PayoutStatus; "none" where there is no row.
PayoutStatuses == {"CREATED", "PENDING", "SUCCESS", "FAILED"}

Words == {"created", "processing", "paid", "failed", "reversed"}
Events == [ref : References, word : Words]

Rows == [key : Keys, ref : References]
Answers == [key : Keys, ref : References, got : References \cup {"conflict"}]

\* A request, and a webhook with the status it has read.
Idle == [step |-> "idle"]
Requests == {Idle} \cup [step : {"find", "insert", "refetch"}, key : Keys, ref : References]
Webhooks == {Idle} \cup [step : {"begin"}, event : Events]
                  \cup [step : {"write"}, event : Events, snap : PayoutStatuses]

\* Mutant: a word the code does not expect is a failure.
OtherwiseFailed(word) ==
    CASE word = "processing" -> "PENDING"
      [] word = "paid"       -> "SUCCESS"
      [] OTHER               -> "FAILED"

MapDerivPayoutStatus(word) ==
    CASE word = "created"                -> "CREATED"
      [] word = "processing"             -> "PENDING"
      [] word = "paid"                   -> "SUCCESS"
      [] word \in {"failed", "reversed"} -> "FAILED"

CanTransitionPayoutStatus(from, to) ==
    \/ from = to
    \/ from = "CREATED" /\ to = "PENDING"
    \/ from = "PENDING" /\ to \in {"SUCCESS", "FAILED"}

-----------------------------------------------------------------------------
(* createPayout *)

At(c, step) == request[c].step = step

Served ==
    Cardinality({c \in Clients : ~At(c, "idle")})
        + Cardinality({h \in Hooks : hook[h].step # "idle"})

RowOf(key) == {row \in rows : row.key = key}

Answer(c, got) ==
    /\ answers' = answers \cup {[key |-> request[c].key, ref |-> request[c].ref, got |-> got]}
    /\ request' = [request EXCEPT ![c] = Idle]

Proceed(c, step) ==
    /\ request' = [request EXCEPT ![c].step = step]
    /\ UNCHANGED answers

CreatePayout(c, key, ref) ==
    /\ At(c, "idle")
    /\ Served < MaxServed
    /\ request' = [request EXCEPT ![c] = [step |-> "find", key |-> key, ref |-> ref]]
    /\ UNCHANGED <<rows, status, answers, provider, processed, hook>>

\* The transaction's first read: a row with this key is the answer.
FindExisting(c) ==
    /\ At(c, "find")
    /\ IF RowOf(request[c].key) = {} THEN Proceed(c, "insert")
       ELSE \E row \in RowOf(request[c].key) : Answer(c, row.ref)
    /\ UNCHANGED <<rows, status, provider, processed, hook>>

\* Mutant: the key has no unique index.
KeyUnchecked(key) == FALSE

KeyTaken(key) == RowOf(key) # {}

\* The insert and its commit.  An insert of a value that another transaction has
\* inserted waits for that transaction's end, so the indexes are those of the rows.
Insert(c) ==
    LET r == request[c] IN
    /\ At(c, "insert")
    /\ \/ /\ \E row \in rows : row.ref = r.ref
          /\ Answer(c, "conflict")
          /\ UNCHANGED <<rows, status>>
       \/ /\ \A row \in rows : row.ref # r.ref
          /\ KeyTaken(r.key)
          /\ Proceed(c, "refetch")
          /\ UNCHANGED <<rows, status>>
       \/ /\ \A row \in rows : row.ref # r.ref
          /\ ~KeyTaken(r.key)
          /\ rows' = rows \cup {[key |-> r.key, ref |-> r.ref]}
          /\ status' = [status EXCEPT ![r.ref] = "CREATED"]
          /\ Answer(c, r.ref)
    /\ UNCHANGED <<provider, processed, hook>>

\* The catch block's read, outside the transaction.
Refetch(c) ==
    /\ At(c, "refetch")
    /\ \E row \in RowOf(request[c].key) : Answer(c, row.ref)
    /\ UNCHANGED <<rows, status, provider, processed, hook>>

\* The connection or the instance is lost; the client may ask again.
RequestLost(c) ==
    /\ ~At(c, "idle")
    /\ request' = [request EXCEPT ![c] = Idle]
    /\ UNCHANGED <<rows, status, answers, provider, processed, hook>>

-----------------------------------------------------------------------------
(* handleDerivPaWebhook and persistAndApplyDerivWebhook *)

Done(h) == hook' = [hook EXCEPT ![h] = Idle]

\* The provider says where it is, or late where it was.
WebhookReceived(h, ref, word) ==
    /\ hook[h].step = "idle"
    /\ Served < MaxServed
    /\ word \in provider[ref]
    /\ hook' = [hook EXCEPT ![h] = [step |-> "begin", event |-> [ref |-> ref, word |-> word]]]
    /\ UNCHANGED <<rows, status, request, answers, provider, processed>>

\* The transaction that has inserted an event makes a second one of it wait.
Claimed(event) == \E g \in Hooks : hook[g].step = "write" /\ hook[g].event = event

\* Mutant: any change is admitted.
AdmitsAnything(ref, to) == status[ref] # "none"

\* There is such a payout, and its status may become this one.
Admits(ref, to) ==
    status[ref] # "none" /\ CanTransitionPayoutStatus(status[ref], to)

\* A known event is acknowledged; a new one of no payout, or that its payout's
\* status does not admit, is marked processed and nothing else.
WebhookBegin(h) ==
    LET event == hook[h].event
        to    == MapDerivPayoutStatus(event.word)
    IN  /\ hook[h].step = "begin"
        /\ ~Claimed(event)
        /\ IF event \in processed
           THEN Done(h) /\ UNCHANGED processed
           ELSE IF Admits(event.ref, to)
           THEN /\ hook' = [hook EXCEPT ![h] =
                        [step |-> "write", event |-> event, snap |-> status[event.ref]]]
                /\ UNCHANGED processed
           ELSE /\ processed' = processed \cup {event}
                /\ Done(h)
        /\ UNCHANGED <<rows, status, request, answers, provider>>

\* Mutant: the provider's word is written as it came.
CommitsTheWord(h) ==
    LET event == hook[h].event IN
    /\ hook[h].step = "write"
    /\ status' = [status EXCEPT ![event.ref] = event.word]
    /\ processed' = processed \cup {event}
    /\ Done(h)
    /\ UNCHANGED <<rows, request, answers, provider>>

\* The write and the commit.
WebhookCommit(h) ==
    LET event == hook[h].event IN
    /\ hook[h].step = "write"
    /\ status' = [status EXCEPT ![event.ref] = MapDerivPayoutStatus(event.word)]
    /\ processed' = processed \cup {event}
    /\ Done(h)
    /\ UNCHANGED <<rows, request, answers, provider>>

WebhookLost(h) ==
    /\ hook[h].step # "idle"
    /\ Done(h)
    /\ UNCHANGED <<rows, status, request, answers, provider, processed>>

-----------------------------------------------------------------------------
(* The provider, and the whole *)

\* The provider takes the payout up, settles it, and may reverse what it paid.
ProviderMoves(ref, word) ==
    /\ word \notin provider[ref]
    /\ word = "processing" => "created" \in provider[ref]
    /\ word \in {"paid", "failed"} =>
          "processing" \in provider[ref] /\ provider[ref] \cap {"paid", "failed"} = {}
    /\ word = "reversed" => "paid" \in provider[ref]
    /\ provider' = [provider EXCEPT ![ref] = @ \cup {word}]
    /\ UNCHANGED <<rows, status, request, answers, processed, hook>>

Init ==
    /\ rows = {}
    /\ status = [r \in References |-> "none"]
    /\ request = [c \in Clients |-> Idle]
    /\ answers = {}
    /\ provider = [r \in References |-> {}]
    /\ processed = {}
    /\ hook = [h \in Hooks |-> Idle]

Next ==
    \/ \E c \in Clients :
        \/ \E key \in Keys, ref \in References : CreatePayout(c, key, ref)
        \/ FindExisting(c)
        \/ Insert(c)
        \/ Refetch(c)
        \/ RequestLost(c)
    \/ \E h \in Hooks :
        \/ \E ref \in References, word \in Words : WebhookReceived(h, ref, word)
        \/ WebhookBegin(h)
        \/ WebhookCommit(h)
        \/ WebhookLost(h)
    \/ \E ref \in References, word \in Words : ProviderMoves(ref, word)

Spec == Init /\ [][Next]_vars

-----------------------------------------------------------------------------
(* Properties *)

\* Every variable has its type.
TypeOK ==
    /\ rows \subseteq Rows
    /\ status \in [References -> PayoutStatuses \cup {"none"}]
    /\ request \in [Clients -> Requests]
    /\ answers \subseteq Answers
    /\ provider \in [References -> SUBSET Words]
    /\ processed \subseteq Events
    /\ hook \in [Hooks -> Webhooks]

\* Every answer to a key names one and the same payout, however many requests race
\* with it, whatever reference they carry, and whichever of them was lost.
ReplayAgrees ==
    \A a, b \in answers :
        a.key = b.key /\ a.got # "conflict" /\ b.got # "conflict" => a.got = b.got

\* A payout is settled as the provider settled it, whatever order, delay, repetition
\* or overlap its webhooks had.
SettledTruthfully ==
    \A r \in References :
        /\ status[r] = "SUCCESS" => "paid" \in provider[r]
        /\ status[r] = "FAILED" => provider[r] \cap {"failed", "reversed"} # {}

\* Only a webhook that was overtaken by another's commit takes a payout off the
\* transition table (SUCCESS or FAILED left, PENDING back to CREATED).
StatusOrderly ==
    \A r \in References :
        status[r] # "none" /\ ~CanTransitionPayoutStatus(status[r], status'[r])
            => \E h \in Hooks : hook[h].step = "write" /\ hook'[h].step = "idle"
                                /\ hook[h].event.ref = r /\ hook[h].snap # status[r]

OrderlyUnlessOvertaken == [][StatusOrderly]_vars
=============================================================================
