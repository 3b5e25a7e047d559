--------------------------- MODULE WebhookDelivery ---------------------------
(***************************************************************************)
(* The outbox of merchant webhooks: deliverEvent enqueues, the cron worker *)
(* of every instance takes a batch and posts it over a few lanes, failures *)
(* are retried with a delay, and a merchant may retry by hand or disable   *)
(* the endpoint.                                                           *)
(*                                                                         *)
(* A slot of Cycles is one run of processPendingDeliveries.  What the run  *)
(* read of a delivery (attempts, the endpoint's isActive) travels in a job *)
(* and is what it decides and writes from; nothing marks the row as taken. *)
(* deliveryWorkerRunning keeps an instance from starting a second run, but *)
(* is released by the first lane that throws while the others go on.       *)
(*                                                                         *)
(* An instance may be killed and a write may fail, MaxFaults times in all. *)
(***************************************************************************)
EXTENDS Integers, FiniteSets

CONSTANTS Instances,      \* processes that run the cron worker
          Cycles,         \* slots for the worker's runs
          Deliveries,     \* the deliveries of one endpoint
          BatchSize,      \* WEBHOOK_WORKER_BATCH_SIZE
          Concurrency,    \* WEBHOOK_WORKER_CONCURRENCY
          MaxAttempts,    \* WEBHOOK_MAX_ATTEMPTS
          MaxRetries,     \* bound on retries by hand
          MaxFaults       \* bound on crashes and failed writes

ASSUME InstancesAssumption == IsFiniteSet(Instances) /\ "free" \notin Instances
ASSUME DeliveriesAssumption == IsFiniteSet(Deliveries)
ASSUME LimitsAssumption ==
    BatchSize \in Nat \ {0} /\ Concurrency \in Nat \ {0} /\ MaxAttempts \in Nat \ {0}
ASSUME BoundsAssumption == MaxRetries \in Nat /\ MaxFaults \in Nat

VARIABLES delivery,   \* delivery[d]: the row's status, attempts and whether it is due
          active,     \* the endpoint's isActive
          running,    \* deliveryWorkerRunning of each instance
          cycle,      \* cycle[c]: the run in slot c
          receiver,   \* receiver[d]: what the merchant's server saw and answered
          retries, faults

vars == <<delivery, active, running, cycle, receiver, retries, faults>>

-----------------------------------------------------------------------------
(* Data *)

DeliveryStatuses == {"NONE", "PENDING", "SUCCESS", "FAILED", "SKIPPED"}

\* due: nextAttemptAt is null or has passed.
Rows == [status : DeliveryStatuses, attempts : Nat, due : BOOLEAN]

\* A job's step: what the lane does next, or the answer it has to record.
\* "caught" is the catch block: no status code, so no client error either.
JobSteps == {"send", "skip", "ok", "client", "server", "caught"}
Jobs == [d : Deliveries, n : Nat, step : JobSteps]

Runs == [inst : Instances \cup {"free"}, waiting : SUBSET Jobs, flight : SUBSET Jobs,
         lanes : Nat, thrown : BOOLEAN]
Free == [inst |-> "free", waiting |-> {}, flight |-> {}, lanes |-> 0, thrown |-> FALSE]

Seen == [posted : SUBSET Nat, accepted : BOOLEAN, refused : BOOLEAN]

Lesser(a, b) == IF a < b THEN a ELSE b

-----------------------------------------------------------------------------
(* The API *)

\* deliverEvent: one PENDING row for the active endpoint, none otherwise.
Enqueue(d) ==
    /\ delivery[d].status = "NONE"
    /\ active
    /\ delivery' = [delivery EXCEPT ![d] = [status |-> "PENDING", attempts |-> 0, due |-> TRUE]]
    /\ UNCHANGED <<active, running, cycle, receiver, retries, faults>>

SetWebhookEndpointActive(isActive) ==
    /\ active # isActive
    /\ active' = isActive
    /\ UNCHANGED <<delivery, running, cycle, receiver, retries, faults>>

\* retryWebhookDelivery: of any delivery, whatever its status; attempts stay.
RetryWebhookDelivery(d) ==
    /\ delivery[d].status # "NONE"
    /\ retries < MaxRetries
    /\ retries' = retries + 1
    /\ delivery' = [delivery EXCEPT ![d] = [@ EXCEPT !.status = "PENDING", !.due = TRUE]]
    /\ UNCHANGED <<active, running, cycle, receiver, faults>>

-----------------------------------------------------------------------------
(* The worker *)

Due == {d \in Deliveries : delivery[d].status = "PENDING" /\ delivery[d].due}

JobOf(d) == [d |-> d, n |-> delivery[d].attempts + 1, step |-> IF active THEN "send" ELSE "skip"]

\* Mutant: the in-process flag is not looked at.
MayBeginAlways(i) == TRUE

MayBegin(i) == ~running[i]

\* A cron tick that finds something due; which deliveries come first is left open.
CycleBegins(c, i) ==
    /\ MayBegin(i)
    /\ cycle[c].inst = "free"
    /\ Due # {}
    /\ \E batch \in SUBSET Due :
        /\ Cardinality(batch) = Lesser(BatchSize, Cardinality(Due))
        /\ cycle' = [cycle EXCEPT ![c] =
              [inst |-> i, waiting |-> {JobOf(d) : d \in batch}, flight |-> {},
               lanes |-> Lesser(Concurrency, Cardinality(batch)), thrown |-> FALSE]]
    /\ running' = [running EXCEPT ![i] = TRUE]
    /\ UNCHANGED <<delivery, active, receiver, retries, faults>>

\* A free lane takes the next delivery of its run's batch.
LaneTakes(c, j) ==
    /\ j \in cycle[c].waiting
    /\ Cardinality(cycle[c].flight) < cycle[c].lanes
    /\ cycle' = [cycle EXCEPT ![c].waiting = @ \ {j}, ![c].flight = @ \cup {j}]
    /\ UNCHANGED <<delivery, active, running, receiver, retries, faults>>

\* The job goes on to another step in its lane.
Advance(c, j, step) ==
    cycle' = [cycle EXCEPT ![c].flight = (@ \ {j}) \cup {[j EXCEPT !.step = step]}]

\* The POST and its answer.  "lost": the receiver accepted, its answer did not
\* arrive; "down": the receiver was not reached.  Both throw into the catch block.
Post(c, j, answer) ==
    /\ j \in cycle[c].flight
    /\ j.step = "send"
    /\ receiver' = [receiver EXCEPT ![j.d] =
          [posted   |-> @.posted \cup {j.n},
           accepted |-> @.accepted \/ answer \in {"ok", "lost"},
           refused  |-> @.refused \/ answer = "client"]]
    /\ Advance(c, j, IF answer \in {"lost", "down"} THEN "caught" ELSE answer)
    /\ UNCHANGED <<delivery, active, running, retries, faults>>

\* Mutant: a failed attempt is not counted.
FailureUncounted(row, j) ==
    IF j.step # "client" /\ j.n < MaxAttempts
    THEN [row EXCEPT !.status = "PENDING", !.due = FALSE]
    ELSE [row EXCEPT !.status = "FAILED", !.due = TRUE]

\* Mutant: the last attempt is given away.
GivesUpOneEarly(row, j) ==
    IF j.step # "client" /\ j.n + 1 < MaxAttempts
    THEN [status |-> "PENDING", attempts |-> j.n, due |-> FALSE]
    ELSE [status |-> "FAILED", attempts |-> j.n, due |-> TRUE]

\* Mutant: the attempt is counted by the worker and once more by the failure.
CountsTwice(row, j) ==
    IF j.step # "client" /\ j.n < MaxAttempts
    THEN [status |-> "PENDING", attempts |-> j.n + 1, due |-> FALSE]
    ELSE [status |-> "FAILED", attempts |-> j.n + 1, due |-> TRUE]

\* handleDeliveryFailure: a client error or the last attempt is final.
HandleDeliveryFailure(row, j) ==
    IF j.step # "client" /\ j.n < MaxAttempts
    THEN [status |-> "PENDING", attempts |-> j.n, due |-> FALSE]
    ELSE [status |-> "FAILED", attempts |-> j.n, due |-> TRUE]

\* Mutant: whatever answered was reached.
AnyAnswerSucceeds(row, j) ==
    CASE j.step = "skip" -> [row EXCEPT !.status = "SKIPPED", !.due = TRUE]
      [] j.step \in {"ok", "server"} -> [status |-> "SUCCESS", attempts |-> j.n, due |-> TRUE]
      [] OTHER -> HandleDeliveryFailure(row, j)

\* Mutant: the answer's own word is stored as the status.
AnswerAsStatus(row, j) == [row EXCEPT !.status = j.step]

\* The row after the job's write; a skipped one keeps its attempts.
Recorded(row, j) ==
    CASE j.step = "skip" -> [row EXCEPT !.status = "SKIPPED", !.due = TRUE]
      [] j.step = "ok"   -> [status |-> "SUCCESS", attempts |-> j.n, due |-> TRUE]
      [] OTHER           -> HandleDeliveryFailure(row, j)

Record(c, j) ==
    /\ j \in cycle[c].flight
    /\ j.step # "send"
    /\ delivery' = [delivery EXCEPT ![j.d] = Recorded(@, j)]
    /\ cycle' = [cycle EXCEPT ![c].flight = @ \ {j}]
    /\ UNCHANGED <<active, running, receiver, retries, faults>>

\* The write of an answer fails inside the try: the catch block records a failure
\* instead, of a delivery the receiver may have accepted.
RecordFailsInTry(c, j) ==
    /\ j \in cycle[c].flight
    /\ j.step \in {"ok", "client", "server"}
    /\ faults < MaxFaults
    /\ faults' = faults + 1
    /\ Advance(c, j, "caught")
    /\ UNCHANGED <<delivery, active, running, receiver, retries>>

\* Any other write that fails ends its lane; the first one rejects Promise.all, and
\* the finally block frees the instance for another run while the other lanes work.
LaneThrows(c, j) ==
    /\ j \in cycle[c].flight
    /\ j.step \in {"skip", "caught"}
    /\ faults < MaxFaults
    /\ faults' = faults + 1
    /\ cycle' = [cycle EXCEPT ![c].flight = @ \ {j}, ![c].lanes = @ - 1, ![c].thrown = TRUE]
    /\ running' = IF cycle[c].thrown THEN running
                  ELSE [running EXCEPT ![cycle[c].inst] = FALSE]
    /\ UNCHANGED <<delivery, active, receiver, retries>>

\* No lane has work left.
CycleEnds(c) ==
    /\ cycle[c].inst # "free"
    /\ cycle[c].flight = {}
    /\ cycle[c].waiting = {} \/ cycle[c].lanes = 0
    /\ cycle' = [cycle EXCEPT ![c] = Free]
    /\ running' = IF cycle[c].thrown THEN running
                  ELSE [running EXCEPT ![cycle[c].inst] = FALSE]
    /\ UNCHANGED <<delivery, active, receiver, retries, faults>>

-----------------------------------------------------------------------------
(* The environment, and the whole *)

\* nextRetryAt passes.
BecomesDue(d) ==
    /\ ~delivery[d].due
    /\ delivery' = [delivery EXCEPT ![d].due = TRUE]
    /\ UNCHANGED <<active, running, cycle, receiver, retries, faults>>

\* An instance is killed and restarted: its runs are gone, its flag is clear.
Crash(i) ==
    /\ faults < MaxFaults
    /\ faults' = faults + 1
    /\ running' = [running EXCEPT ![i] = FALSE]
    /\ cycle' = [c \in Cycles |-> IF cycle[c].inst = i THEN Free ELSE cycle[c]]
    /\ UNCHANGED <<delivery, active, receiver, retries>>

Init ==
    /\ delivery = [d \in Deliveries |-> [status |-> "NONE", attempts |-> 0, due |-> TRUE]]
    /\ active = TRUE
    /\ running = [i \in Instances |-> FALSE]
    /\ cycle = [c \in Cycles |-> Free]
    /\ receiver = [d \in Deliveries |-> [posted |-> {}, accepted |-> FALSE, refused |-> FALSE]]
    /\ retries = 0
    /\ faults = 0

Answers == {"ok", "client", "server", "lost", "down"}

Lane(c) ==
    \/ \E j \in cycle[c].waiting : LaneTakes(c, j)
    \/ \E j \in cycle[c].flight :
        \/ \E answer \in Answers : Post(c, j, answer)
        \/ Record(c, j)
    \/ CycleEnds(c)

Fault ==
    \/ \E c \in Cycles : \E j \in cycle[c].flight : RecordFailsInTry(c, j) \/ LaneThrows(c, j)
    \/ \E i \in Instances : Crash(i)

Next ==
    \/ \E d \in Deliveries : Enqueue(d) \/ RetryWebhookDelivery(d) \/ BecomesDue(d)
    \/ \E isActive \in BOOLEAN : SetWebhookEndpointActive(isActive)
    \/ \E c \in Cycles, i \in Instances : CycleBegins(c, i)
    \/ \E c \in Cycles : Lane(c)
    \/ Fault

Spec == Init /\ [][Next]_vars

\* The cron keeps ticking on every instance, the clock runs, and a run goes on: a
\* fetch ends (undici bounds it), a write returns.  Nothing makes a merchant act.
Fairness ==
    /\ \A i \in Instances : WF_vars(\E c \in Cycles : CycleBegins(c, i))
    /\ \A c \in Cycles : WF_vars(Lane(c))
    /\ \A d \in Deliveries : WF_vars(BecomesDue(d))

FairSpec == Spec /\ Fairness

-----------------------------------------------------------------------------
(* Properties *)

TypeOK ==
    /\ delivery \in [Deliveries -> Rows]
    /\ active \in BOOLEAN
    /\ running \in [Instances -> BOOLEAN]
    /\ cycle \in [Cycles -> Runs]
    /\ receiver \in [Deliveries -> Seen]
    /\ retries \in 0..MaxRetries
    /\ faults \in 0..MaxFaults

\* The attempt numbers a receiver sees in the bodies have no gaps, and the row's
\* attempts is one of them: racing runs, lost writes and restarts may repeat a
\* number or take the row back to an older one, never skip one.
AttemptNumbersSound ==
    \A d \in Deliveries :
        /\ delivery[d].attempts \in receiver[d].posted \cup {0}
        /\ \A n \in receiver[d].posted : n - 1 \in receiver[d].posted \cup {0}

\* A delivery is given up only after a 4xx or after the last attempt was posted,
\* whichever runs raced to record it.
NotAbandonedEarly ==
    \A d \in Deliveries : delivery[d].status = "FAILED" =>
        receiver[d].refused \/ \E n \in receiver[d].posted : n >= MaxAttempts

\* A delivery is recorded as a success only if the receiver accepted it.
SuccessWasAccepted ==
    \A d \in Deliveries : delivery[d].status = "SUCCESS" => receiver[d].accepted

\* With one instance and until its first fault, a delivery a run holds is still
\* PENDING, with the attempts the run read, and no other run holds it: nothing is
\* sent twice at a time, and no write is lost.
SoleSender ==
    Cardinality(Instances) = 1 /\ faults = 0 =>
    \A c \in Cycles : \A j \in cycle[c].waiting \cup cycle[c].flight :
        /\ delivery[j.d].status = "PENDING"
        /\ delivery[j.d].attempts = j.n - 1
        /\ \A b \in Cycles : \A k \in cycle[b].waiting \cup cycle[b].flight :
              k.d = j.d => b = c /\ k = j

\* Every delivery is settled in the end, also when instances race and overwrite
\* each other's attempts: each run counts one more than the least anyone holds.
Settled == <>[](\A d \in Deliveries : delivery[d].status # "PENDING")
=============================================================================
