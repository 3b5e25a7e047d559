------------------------ MODULE WebhookDeliveryProofs ------------------------
(***************************************************************************)
(* Theorems of WebhookDelivery, for any number of instances, runs,         *)
(* deliveries, lanes, retries and faults.                                  *)
(***************************************************************************)
EXTENDS WebhookDelivery, FiniteSetTheorems, TLAPS

-----------------------------------------------------------------------------
(* The inductive invariant *)

Held(c) == cycle[c].waiting \cup cycle[c].flight

\* A run holds finitely many jobs, and no more in its lanes than it has lanes.
LanesSound ==
    \A c \in Cycles : /\ IsFiniteSet(cycle[c].flight)
                      /\ Cardinality(cycle[c].flight) <= cycle[c].lanes

\* A job carries a number the receiver has not skipped, and an answer only after
\* the POST that it answers.
JobSound(j) ==
    /\ j.n \in Nat \ {0}
    /\ j.n - 1 \in receiver[j.d].posted \cup {0}
    /\ j.step \notin {"send", "skip"} => j.n \in receiver[j.d].posted
    /\ j.step = "ok" => receiver[j.d].accepted
    /\ j.step = "client" => receiver[j.d].refused

JobsSound == \A c \in Cycles : \A j \in Held(c) : JobSound(j)

Honest == AttemptNumbersSound /\ NotAbandonedEarly /\ SuccessWasAccepted

IInv == TypeOK /\ LanesSound /\ JobsSound /\ Honest

-----------------------------------------------------------------------------
(* Lemmas *)

\* The steps that change neither what the receiver saw nor what the rows say keep
\* the rows honest.
LEMMA HonestKept ==
    ASSUME IInv, UNCHANGED receiver,
           \A d \in Deliveries :
              /\ delivery'[d].attempts \in {delivery[d].attempts, 0}
              /\ delivery'[d].status \in {delivery[d].status, "PENDING", "SKIPPED"}
    PROVE  Honest'
  BY DEF IInv, TypeOK, Honest, AttemptNumbersSound, NotAbandonedEarly, SuccessWasAccepted

\* A run that holds no jobs but those it held, with as many lanes, stays sound.
LEMMA SameJobs ==
    ASSUME IInv, UNCHANGED receiver, cycle' \in [Cycles -> Runs],
           \A c \in Cycles : Held(c)' \subseteq Held(c)
    PROVE  JobsSound'
  BY DEF IInv, JobsSound, JobSound

\* One more job where there is room, or one less, stays within the lanes.
LEMMA AddWithin ==
    ASSUME NEW S, NEW x, IsFiniteSet(S), NEW n \in Nat, Cardinality(S) < n
    PROVE  IsFiniteSet(S \cup {x}) /\ Cardinality(S \cup {x}) <= n
<1>1. /\ IsFiniteSet(S \cup {x})
      /\ Cardinality(S \cup {x}) = IF x \in S THEN Cardinality(S) ELSE Cardinality(S) + 1
  BY FS_AddElement
<1>2. Cardinality(S) \in Nat
  BY FS_CardinalityType
<1> QED
  BY <1>1, <1>2

LEMMA RemoveWithin ==
    ASSUME NEW S, NEW x \in S, IsFiniteSet(S), NEW n \in Nat, Cardinality(S) <= n
    PROVE  IsFiniteSet(S \ {x}) /\ Cardinality(S \ {x}) <= n - 1 /\ n - 1 \in Nat
<1>1. IsFiniteSet(S \ {x}) /\ Cardinality(S \ {x}) = Cardinality(S) - 1
  BY FS_RemoveElement
<1>2. Cardinality(S \ {x}) \in Nat /\ Cardinality(S) \in Nat
  BY <1>1, FS_CardinalityType
<1> QED
  BY <1>1, <1>2

LEMMA FreeType == Free \in Runs
  BY DEF Free, Runs

-----------------------------------------------------------------------------
(* The steps that touch no run *)

LEMMA ApiInv ==
    ASSUME IInv,
           \/ \E d \in Deliveries : Enqueue(d) \/ RetryWebhookDelivery(d) \/ BecomesDue(d)
           \/ \E isActive \in BOOLEAN : SetWebhookEndpointActive(isActive)
    PROVE  IInv'
<1>1. UNCHANGED <<cycle, receiver, running>>
  BY DEF Enqueue, RetryWebhookDelivery, BecomesDue, SetWebhookEndpointActive
<1>2. LanesSound' /\ JobsSound'
  BY <1>1 DEF IInv, LanesSound, JobsSound, JobSound, Held
<1>3. TypeOK' /\ Honest'
  <2>1. ASSUME NEW d \in Deliveries, Enqueue(d)
        PROVE  TypeOK' /\ Honest'
    <3>1. TypeOK'
      BY <2>1 DEF Enqueue, IInv, TypeOK, Rows, DeliveryStatuses
    <3>2. \A e \in Deliveries :
            /\ delivery'[e].attempts \in {delivery[e].attempts, 0}
            /\ delivery'[e].status \in {delivery[e].status, "PENDING", "SKIPPED"}
      BY <2>1 DEF Enqueue, IInv, TypeOK
    <3> QED
      BY <1>1, <3>1, <3>2, HonestKept
  <2>2. ASSUME NEW d \in Deliveries, RetryWebhookDelivery(d)
        PROVE  TypeOK' /\ Honest'
    <3> DEFINE row == [delivery[d] EXCEPT !.status = "PENDING", !.due = TRUE]
    <3>1. row \in Rows /\ row.attempts = delivery[d].attempts /\ row.status = "PENDING"
      BY DEF IInv, TypeOK, Rows, DeliveryStatuses
    <3>2. delivery' = [delivery EXCEPT ![d] = row]
      BY <2>2 DEF RetryWebhookDelivery
    <3>3. TypeOK'
      <4>1. delivery' \in [Deliveries -> Rows]
        BY <3>1, <3>2 DEF IInv, TypeOK
      <4>2. retries' \in 0..MaxRetries
        <5>1. retries < MaxRetries /\ retries' = retries + 1
          BY <2>2 DEF RetryWebhookDelivery
        <5>2. retries \in 0..MaxRetries
          BY DEF IInv, TypeOK
        <5> QED
          BY <5>1, <5>2, BoundsAssumption
      <4> QED
        BY <2>2, <4>1, <4>2 DEF RetryWebhookDelivery, IInv, TypeOK
    <3>4. \A e \in Deliveries :
            /\ delivery'[e].attempts \in {delivery[e].attempts, 0}
            /\ delivery'[e].status \in {delivery[e].status, "PENDING", "SKIPPED"}
      BY <3>1, <3>2 DEF IInv, TypeOK
    <3> QED
      BY <1>1, <3>3, <3>4, HonestKept
  <2>3. ASSUME NEW d \in Deliveries, BecomesDue(d)
        PROVE  TypeOK' /\ Honest'
    <3> DEFINE row == [delivery[d] EXCEPT !.due = TRUE]
    <3>1. row \in Rows /\ row.attempts = delivery[d].attempts /\ row.status = delivery[d].status
      BY DEF IInv, TypeOK, Rows, DeliveryStatuses
    <3>2. delivery' = [delivery EXCEPT ![d] = row]
      BY <2>3 DEF BecomesDue
    <3>3. TypeOK'
      BY <2>3, <3>1, <3>2 DEF BecomesDue, IInv, TypeOK
    <3>4. \A e \in Deliveries :
            /\ delivery'[e].attempts \in {delivery[e].attempts, 0}
            /\ delivery'[e].status \in {delivery[e].status, "PENDING", "SKIPPED"}
      BY <3>1, <3>2 DEF IInv, TypeOK
    <3> QED
      BY <1>1, <3>3, <3>4, HonestKept
  <2>4. ASSUME NEW isActive \in BOOLEAN, SetWebhookEndpointActive(isActive)
        PROVE  TypeOK' /\ Honest'
    BY <2>4 DEF SetWebhookEndpointActive, IInv, TypeOK, Honest, AttemptNumbersSound,
       NotAbandonedEarly, SuccessWasAccepted
  <2> QED
    BY <2>1, <2>2, <2>3, <2>4
<1> QED
  BY <1>2, <1>3 DEF IInv

-----------------------------------------------------------------------------
(* The runs *)

\* A delivery's job when it is read: its number follows the row's attempts.
LEMMA JobOfSound ==
    ASSUME IInv, NEW d \in Deliveries
    PROVE  JobOf(d) \in Jobs /\ JobSound(JobOf(d)) /\ JobOf(d).d = d
<1>1. delivery[d].attempts \in Nat /\ receiver[d] \in Seen
  BY DEF IInv, TypeOK, Rows
<1>2. delivery[d].attempts \in receiver[d].posted \cup {0}
  BY DEF IInv, Honest, AttemptNumbersSound
<1>3. /\ JobOf(d) \in Jobs /\ JobOf(d).d = d /\ JobOf(d).n = delivery[d].attempts + 1
      /\ JobOf(d).step \in {"send", "skip"}
  BY <1>1 DEF JobOf, Jobs, JobSteps
<1> QED
  BY <1>1, <1>2, <1>3 DEF JobSound

LEMMA CycleBeginsInv ==
    ASSUME IInv, NEW c \in Cycles, NEW i \in Instances, CycleBegins(c, i)
    PROVE  IInv'
<1>1. PICK batch \in SUBSET Due :
        cycle' = [cycle EXCEPT ![c] =
              [inst |-> i, waiting |-> {JobOf(d) : d \in batch}, flight |-> {},
               lanes |-> Lesser(Concurrency, Cardinality(batch)), thrown |-> FALSE]]
  BY DEF CycleBegins
<1> DEFINE run == [inst |-> i, waiting |-> {JobOf(d) : d \in batch}, flight |-> {},
                   lanes |-> Lesser(Concurrency, Cardinality(batch)), thrown |-> FALSE]
<1>2. batch \subseteq Deliveries
  BY DEF Due
<1>3. Lesser(Concurrency, Cardinality(batch)) \in Nat
  BY <1>2, DeliveriesAssumption, LimitsAssumption, FS_Subset, FS_CardinalityType DEF Lesser
<1>4. run \in Runs
  BY <1>2, <1>3, JobOfSound DEF Runs
<1>5. TypeOK'
  BY <1>1, <1>4 DEF CycleBegins, IInv, TypeOK
<1>6. LanesSound'
  BY <1>1, <1>3, FS_EmptySet DEF IInv, TypeOK, LanesSound
<1>7. JobsSound'
  <2>1. \A d \in batch : JobSound(JobOf(d))
    BY <1>2, JobOfSound
  <2>2. Held(c)' = {JobOf(d) : d \in batch} /\ \A b \in Cycles \ {c} : Held(b)' = Held(b)
    BY <1>1 DEF IInv, TypeOK, Held
  <2> QED
    BY <2>1, <2>2 DEF CycleBegins, IInv, JobsSound, JobSound
<1>8. Honest'
  BY HonestKept DEF CycleBegins, IInv, TypeOK
<1> QED
  BY <1>5, <1>6, <1>7, <1>8 DEF IInv

LEMMA LaneTakesInv ==
    ASSUME IInv, NEW c \in Cycles, NEW j \in cycle[c].waiting, LaneTakes(c, j)
    PROVE  IInv'
<1> DEFINE run == [cycle[c] EXCEPT !.waiting = @ \ {j}, !.flight = @ \cup {j}]
<1>1. cycle[c] \in Runs /\ cycle' = [cycle EXCEPT ![c] = run]
  BY DEF LaneTakes, IInv, TypeOK
<1>2. /\ run \in Runs /\ run.waiting = cycle[c].waiting \ {j}
      /\ run.flight = cycle[c].flight \cup {j} /\ run.lanes = cycle[c].lanes
  BY <1>1 DEF Runs
<1>3. TypeOK'
  BY <1>1, <1>2 DEF LaneTakes, IInv, TypeOK
<1>4. LanesSound'
  <2>1. /\ IsFiniteSet(cycle[c].flight) /\ Cardinality(cycle[c].flight) < cycle[c].lanes
        /\ cycle[c].lanes \in Nat
    BY <1>1 DEF LaneTakes, IInv, LanesSound, Runs
  <2>2. /\ IsFiniteSet(cycle[c].flight \cup {j})
        /\ Cardinality(cycle[c].flight \cup {j}) <= cycle[c].lanes
    BY <2>1, AddWithin
  <2> QED
    BY <1>1, <1>2, <2>2 DEF IInv, TypeOK, LanesSound
<1>5. \A b \in Cycles : Held(b)' \subseteq Held(b)
  BY <1>1, <1>2 DEF IInv, TypeOK, Held
<1> QED
  BY <1>3, <1>4, <1>5, SameJobs, HonestKept DEF LaneTakes, IInv, TypeOK

\* A job that moves on to a sound next step, in its lane.
LEMMA AdvanceInv ==
    ASSUME IInv, NEW c \in Cycles, NEW j \in cycle[c].flight, NEW step \in JobSteps,
           Advance(c, j, step)
    PROVE  /\ cycle' \in [Cycles -> Runs]
           /\ LanesSound'
           /\ Held(c)' \subseteq Held(c) \cup {[j EXCEPT !.step = step]}
           /\ \A b \in Cycles \ {c} : Held(b)' = Held(b)
<1> DEFINE next == [j EXCEPT !.step = step]
           left == cycle[c].flight \ {j}
           run == [cycle[c] EXCEPT !.flight = left \cup {next}]
<1>1. cycle[c] \in Runs /\ cycle' = [cycle EXCEPT ![c] = run]
  BY DEF Advance, IInv, TypeOK
<1>2. j \in Jobs /\ next \in Jobs
  BY <1>1 DEF Runs, Jobs
<1>3. /\ run \in Runs /\ run.waiting = cycle[c].waiting
      /\ run.flight = left \cup {next} /\ run.lanes = cycle[c].lanes
  BY <1>1, <1>2 DEF Runs
<1>4. cycle' \in [Cycles -> Runs]
  BY <1>1, <1>3 DEF IInv, TypeOK
<1>5. /\ IsFiniteSet(cycle[c].flight) /\ cycle[c].lanes \in Nat
      /\ Cardinality(cycle[c].flight) <= cycle[c].lanes
  BY <1>1 DEF IInv, LanesSound, Runs
<1>6. IsFiniteSet(left) /\ Cardinality(left) <= cycle[c].lanes - 1 /\ cycle[c].lanes - 1 \in Nat
  BY <1>5, RemoveWithin
<1>7. Cardinality(left) < cycle[c].lanes
  BY <1>5, <1>6, FS_CardinalityType
<1>8. IsFiniteSet(left \cup {next}) /\ Cardinality(left \cup {next}) <= cycle[c].lanes
  BY <1>5, <1>6, <1>7, AddWithin
<1>9. LanesSound'
  BY <1>1, <1>3, <1>8 DEF IInv, TypeOK, LanesSound
<1> QED
  BY <1>1, <1>3, <1>4, <1>9 DEF IInv, TypeOK, Held

LEMMA PostInv ==
    ASSUME IInv, NEW c \in Cycles, NEW j \in cycle[c].flight, NEW answer \in Answers,
           Post(c, j, answer)
    PROVE  IInv'
<1> DEFINE step == IF answer \in {"lost", "down"} THEN "caught" ELSE answer
           next == [j EXCEPT !.step = step]
           seen == receiver[j.d]
<1>1. cycle[c] \in Runs /\ j \in Jobs /\ j \in Held(c)
  BY DEF IInv, TypeOK, Runs, Held
<1>2. j.d \in Deliveries /\ j.n \in Nat /\ seen \in Seen
  BY <1>1 DEF Jobs, IInv, TypeOK
<1>3. step \in JobSteps /\ Advance(c, j, step)
  BY DEF Post, Answers, JobSteps
<1>4. /\ cycle' \in [Cycles -> Runs] /\ LanesSound'
      /\ Held(c)' \subseteq Held(c) \cup {next}
      /\ \A b \in Cycles \ {c} : Held(b)' = Held(b)
  BY <1>3, AdvanceInv
<1>5. /\ receiver' \in [Deliveries -> Seen]
      /\ receiver'[j.d].posted = seen.posted \cup {j.n}
      /\ receiver'[j.d].accepted = (seen.accepted \/ answer \in {"ok", "lost"})
      /\ receiver'[j.d].refused = (seen.refused \/ answer = "client")
      /\ \A d \in Deliveries \ {j.d} : receiver'[d] = receiver[d]
  BY <1>2 DEF Post, IInv, TypeOK, Seen
<1>6. TypeOK'
  BY <1>4, <1>5 DEF Post, IInv, TypeOK
<1>7. JobSound(j)
  BY <1>1 DEF IInv, JobsSound
<1>8. JobsSound'
  <2>1. \A k \in Jobs : JobSound(k) => JobSound(k)'
    BY <1>5 DEF JobSound, Jobs
  <2>2. next.d = j.d /\ next.n = j.n /\ next.step = step
    BY <1>1 DEF Jobs
  <2>3. ASSUME NEW k \in Jobs, k.d = j.d, k.n = j.n, k.step = step
        PROVE  JobSound(k)'
    <3>1. j.n \in Nat \ {0} /\ j.n - 1 \in seen.posted \cup {0}
      BY <1>7 DEF JobSound
    <3>2. (step = "ok" => answer = "ok") /\ (step = "client" => answer = "client")
      BY DEF Answers
    <3> QED
      BY <1>5, <2>3, <3>1, <3>2 DEF JobSound
  <2>4. \A b \in Cycles : Held(b) \subseteq Jobs
    BY DEF Held, IInv, TypeOK, Runs
  <2> QED
    <3>1. next \in Jobs
      BY <1>1, <1>3 DEF Jobs
    <3>2. ASSUME NEW b \in Cycles, NEW k \in Held(b)'
          PROVE  JobSound(k)'
      <4>1. CASE k \in Held(b)
        BY <2>1, <2>4, <4>1 DEF IInv, JobsSound
      <4>2. CASE k = next
        BY <2>2, <2>3, <3>1, <4>2
      <4> QED
        BY <1>4, <4>1, <4>2
    <3> QED
      BY <3>2 DEF JobsSound
<1>9. Honest'
  <2>1. UNCHANGED delivery
    BY DEF Post
  <2>2. j.n - 1 \in seen.posted \cup {0}
    BY <1>7 DEF JobSound
  <2>3. AttemptNumbersSound'
    BY <1>5, <2>1, <2>2 DEF IInv, Honest, AttemptNumbersSound
  <2>4. NotAbandonedEarly'
    BY <1>5, <2>1 DEF IInv, Honest, NotAbandonedEarly
  <2>5. SuccessWasAccepted'
    BY <1>5, <2>1 DEF IInv, Honest, SuccessWasAccepted
  <2> QED
    BY <2>3, <2>4, <2>5 DEF Honest
<1> QED
  BY <1>4, <1>6, <1>8, <1>9 DEF IInv

\* A job that leaves its lane, with the lane or without it.
LEMMA DropInv ==
    ASSUME IInv, NEW c \in Cycles, NEW j \in cycle[c].flight,
           NEW lanes, lanes \in {cycle[c].lanes, cycle[c].lanes - 1}, NEW thrown \in BOOLEAN,
           cycle' = [cycle EXCEPT ![c].flight = @ \ {j}, ![c].lanes = lanes, ![c].thrown = thrown]
    PROVE  /\ cycle' \in [Cycles -> Runs]
           /\ LanesSound'
           /\ \A b \in Cycles : Held(b)' \subseteq Held(b)
<1> DEFINE left == cycle[c].flight \ {j}
           run == [cycle[c] EXCEPT !.flight = left, !.lanes = lanes, !.thrown = thrown]
<1>1. cycle[c] \in Runs /\ cycle' = [cycle EXCEPT ![c] = run]
  BY DEF IInv, TypeOK
<1>2. /\ IsFiniteSet(cycle[c].flight) /\ cycle[c].lanes \in Nat
      /\ Cardinality(cycle[c].flight) <= cycle[c].lanes
  BY <1>1 DEF IInv, LanesSound, Runs
<1>3. IsFiniteSet(left) /\ Cardinality(left) <= cycle[c].lanes - 1 /\ cycle[c].lanes - 1 \in Nat
  BY <1>2, RemoveWithin
<1>4. Cardinality(left) <= lanes /\ lanes \in Nat
  BY <1>2, <1>3, FS_CardinalityType
<1>5. /\ run \in Runs /\ run.waiting = cycle[c].waiting
      /\ run.flight = left /\ run.lanes = lanes
  BY <1>1, <1>4 DEF Runs
<1> QED
  BY <1>1, <1>3, <1>4, <1>5 DEF IInv, TypeOK, LanesSound, Held

LEMMA RecordInv ==
    ASSUME IInv, NEW c \in Cycles, NEW j \in cycle[c].flight, Record(c, j)
    PROVE  IInv'
<1> DEFINE row == Recorded(delivery[j.d], j)
<1>1. /\ cycle[c] \in Runs /\ j \in Jobs /\ j.d \in Deliveries /\ j.n \in Nat
      /\ delivery[j.d] \in Rows
  BY DEF IInv, TypeOK, Runs, Jobs
<1>2. JobSound(j) /\ j.step # "send"
  BY DEF IInv, JobsSound, Held, Record
<1>3. /\ row \in Rows
      /\ row.attempts = j.n \/ (j.step = "skip" /\ row.attempts = delivery[j.d].attempts)
      /\ row.status = "FAILED" => j.step = "client" \/ j.n >= MaxAttempts
      /\ row.status = "SUCCESS" => j.step = "ok"
      /\ row.status = "FAILED" => j.step # "skip"
  <2>1. CASE j.step = "skip"
    <3>1. row = [delivery[j.d] EXCEPT !.status = "SKIPPED", !.due = TRUE]
      BY <2>1 DEF Recorded
    <3> QED
      BY <3>1, <2>1, <1>1 DEF Rows, DeliveryStatuses
  <2>2. CASE j.step = "ok"
    <3>1. row = [status |-> "SUCCESS", attempts |-> j.n, due |-> TRUE]
      BY <2>2 DEF Recorded
    <3> QED
      BY <3>1, <2>2, <1>1 DEF Rows, DeliveryStatuses
  <2>3. CASE j.step \notin {"skip", "ok"}
    <3>1. row = HandleDeliveryFailure(delivery[j.d], j)
      BY <2>3 DEF Recorded
    <3>2. MaxAttempts \in Nat
      BY LimitsAssumption
    <3>3. CASE j.step # "client" /\ j.n < MaxAttempts
      <4>1. row = [status |-> "PENDING", attempts |-> j.n, due |-> FALSE]
        BY <3>1, <3>3 DEF HandleDeliveryFailure
      <4> QED
        BY <4>1, <2>3, <1>1 DEF Rows, DeliveryStatuses
    <3>4. CASE ~(j.step # "client" /\ j.n < MaxAttempts)
      <4>1. row = [status |-> "FAILED", attempts |-> j.n, due |-> TRUE]
        BY <3>1, <3>4 DEF HandleDeliveryFailure
      <4>2. j.step = "client" \/ j.n >= MaxAttempts
        BY <3>4, <3>2, <1>1
      <4> QED
        BY <4>1, <4>2, <2>3, <1>1 DEF Rows, DeliveryStatuses
    <3> QED
      BY <3>3, <3>4
  <2> QED
    BY <2>1, <2>2, <2>3
<1>4. delivery' = [delivery EXCEPT ![j.d] = row]
  BY DEF Record
<1>5. cycle' = [cycle EXCEPT ![c].flight = @ \ {j}, ![c].lanes = cycle[c].lanes,
                             ![c].thrown = cycle[c].thrown]
  <2>1. [cycle[c] EXCEPT !.flight = @ \ {j}]
          = [cycle[c] EXCEPT !.flight = @ \ {j}, !.lanes = cycle[c].lanes,
                             !.thrown = cycle[c].thrown]
    BY <1>1 DEF Runs
  <2> QED
    BY <2>1 DEF Record, IInv, TypeOK
<1>6. /\ cycle' \in [Cycles -> Runs] /\ LanesSound'
      /\ \A b \in Cycles : Held(b)' \subseteq Held(b)
  BY <1>1, <1>5, DropInv DEF Runs
<1>7. JobsSound'
  BY <1>6, SameJobs DEF Record
<1>8. TypeOK'
  BY <1>3, <1>4, <1>6 DEF Record, IInv, TypeOK
<1>9. Honest'
  <2>1. /\ UNCHANGED receiver /\ delivery'[j.d] = row
        /\ \A d \in Deliveries \ {j.d} : delivery'[d] = delivery[d]
    BY <1>1, <1>4 DEF Record, IInv, TypeOK
  <2>2. AttemptNumbersSound'
    <3>1. row.attempts \in receiver[j.d].posted \cup {0}
      <4>1. j.step # "skip" => j.n \in receiver[j.d].posted
        BY <1>2 DEF JobSound
      <4>2. delivery[j.d].attempts \in receiver[j.d].posted \cup {0}
        BY <1>1 DEF IInv, Honest, AttemptNumbersSound
      <4>3. CASE row.attempts = j.n /\ j.step # "skip"
        BY <4>1, <4>3
      <4>4. CASE j.step = "skip" /\ row.attempts = delivery[j.d].attempts
        BY <4>2, <4>4
      <4>5. j.step = "skip" => row.attempts = delivery[j.d].attempts
        BY <1>1 DEF Recorded, Rows
      <4> QED
        BY <1>3, <4>3, <4>4, <4>5
    <3> HIDE DEF row
    <3>2. \A d \in Deliveries : delivery'[d].attempts \in receiver[d].posted \cup {0}
      BY <2>1, <3>1 DEF IInv, Honest, AttemptNumbersSound
    <3> QED
      BY <2>1, <3>2 DEF IInv, Honest, AttemptNumbersSound
  <2>3. NotAbandonedEarly'
    BY <1>2, <1>3, <2>1 DEF IInv, Honest, NotAbandonedEarly, JobSound
  <2>4. SuccessWasAccepted'
    BY <1>2, <1>3, <2>1 DEF IInv, Honest, SuccessWasAccepted, JobSound
  <2> QED
    BY <2>2, <2>3, <2>4 DEF Honest
<1> QED
  BY <1>6, <1>7, <1>8, <1>9 DEF IInv

LEMMA FaultsType ==
    ASSUME IInv, faults < MaxFaults, faults' = faults + 1
    PROVE  faults' \in 0..MaxFaults
<1>1. faults \in 0..MaxFaults
  BY DEF IInv, TypeOK
<1> QED
  BY <1>1, BoundsAssumption

LEMMA RecordFailsInv ==
    ASSUME IInv, NEW c \in Cycles, NEW j \in cycle[c].flight, RecordFailsInTry(c, j)
    PROVE  IInv'
<1> DEFINE next == [j EXCEPT !.step = "caught"]
<1>1. cycle[c] \in Runs /\ j \in Jobs /\ JobSound(j) /\ j.step \notin {"send", "skip"}
  BY DEF IInv, TypeOK, Runs, JobsSound, Held, RecordFailsInTry
<1>2. Advance(c, j, "caught") /\ "caught" \in JobSteps
  BY DEF RecordFailsInTry, JobSteps
<1>3. /\ cycle' \in [Cycles -> Runs] /\ LanesSound'
      /\ Held(c)' \subseteq Held(c) \cup {next}
      /\ \A b \in Cycles \ {c} : Held(b)' = Held(b)
  BY <1>2, AdvanceInv
<1>4. JobSound(next)
  <2>1. next.d = j.d /\ next.n = j.n /\ next.step = "caught"
    BY <1>1 DEF Jobs
  <2> QED
    BY <1>1, <2>1 DEF JobSound
<1>5. UNCHANGED <<delivery, receiver>>
  BY DEF RecordFailsInTry
<1>6. JobsSound'
  BY <1>3, <1>4, <1>5 DEF IInv, JobsSound, JobSound
<1>7. TypeOK'
  BY <1>3, FaultsType DEF RecordFailsInTry, IInv, TypeOK
<1>8. Honest'
  BY <1>5, HonestKept DEF IInv, TypeOK
<1> QED
  BY <1>3, <1>6, <1>7, <1>8 DEF IInv

LEMMA LaneThrowsInv ==
    ASSUME IInv, NEW c \in Cycles, NEW j \in cycle[c].flight, LaneThrows(c, j)
    PROVE  IInv'
<1>1. /\ cycle' = [cycle EXCEPT ![c].flight = @ \ {j}, ![c].lanes = cycle[c].lanes - 1,
                                ![c].thrown = TRUE]
      /\ UNCHANGED <<delivery, receiver>>
  BY DEF LaneThrows
<1>2. /\ cycle' \in [Cycles -> Runs] /\ LanesSound'
      /\ \A b \in Cycles : Held(b)' \subseteq Held(b)
  BY <1>1, DropInv
<1>3. running' \in [Instances -> BOOLEAN]
  BY DEF LaneThrows, IInv, TypeOK
<1>4. TypeOK'
  BY <1>1, <1>2, <1>3, FaultsType DEF LaneThrows, IInv, TypeOK
<1> QED
  BY <1>1, <1>2, <1>4, SameJobs, HonestKept DEF IInv, TypeOK

\* A run that ends, or is killed with its instance, leaves its slot empty.
LEMMA FreedInv ==
    ASSUME IInv, UNCHANGED <<delivery, receiver>>,
           \A c \in Cycles : cycle'[c] \in {cycle[c], Free},
           cycle' = [c \in Cycles |-> cycle'[c]]
    PROVE  cycle' \in [Cycles -> Runs] /\ LanesSound' /\ JobsSound' /\ Honest'
<1>1. cycle' \in [Cycles -> Runs]
  BY FreeType DEF IInv, TypeOK
<1>2. Free.waiting = {} /\ Free.flight = {} /\ Free.lanes = 0
  BY DEF Free
<1>3. LanesSound'
  <2>1. IsFiniteSet({}) /\ Cardinality({}) = 0
    BY FS_EmptySet
  <2>2. ASSUME NEW c \in Cycles
        PROVE  IsFiniteSet(cycle'[c].flight) /\ Cardinality(cycle'[c].flight) <= cycle'[c].lanes
    <3>1. CASE cycle'[c] = cycle[c]
      BY <3>1 DEF IInv, LanesSound
    <3>2. CASE cycle'[c] = Free
      <4>1. cycle'[c].flight = {} /\ cycle'[c].lanes = 0
        BY <3>2, <1>2
      <4> QED
        BY <4>1, <2>1
    <3> QED
      BY <3>1, <3>2
  <2> QED
    BY <2>2 DEF LanesSound
<1>4. \A c \in Cycles : Held(c)' \subseteq Held(c)
  BY <1>2 DEF Held
<1> QED
  BY <1>1, <1>3, <1>4, SameJobs, HonestKept DEF IInv, TypeOK

LEMMA CycleEndsInv ==
    ASSUME IInv, NEW c \in Cycles, CycleEnds(c)
    PROVE  IInv'
<1>1. /\ UNCHANGED <<delivery, receiver>>
      /\ \A b \in Cycles : cycle'[b] \in {cycle[b], Free}
      /\ cycle' = [b \in Cycles |-> cycle'[b]]
  BY DEF CycleEnds, IInv, TypeOK
<1>2. running' \in [Instances -> BOOLEAN]
  BY DEF CycleEnds, IInv, TypeOK
<1> QED
  BY <1>1, <1>2, FreedInv DEF CycleEnds, IInv, TypeOK

LEMMA CrashInv ==
    ASSUME IInv, NEW i \in Instances, Crash(i)
    PROVE  IInv'
<1>1. /\ UNCHANGED <<delivery, receiver>>
      /\ \A b \in Cycles : cycle'[b] \in {cycle[b], Free}
      /\ cycle' = [b \in Cycles |-> cycle'[b]]
  BY DEF Crash, IInv, TypeOK
<1>2. running' \in [Instances -> BOOLEAN] /\ faults' \in 0..MaxFaults
  BY FaultsType DEF Crash, IInv, TypeOK
<1> QED
  BY <1>1, <1>2, FreedInv DEF Crash, IInv, TypeOK

-----------------------------------------------------------------------------
(* The theorems *)

LEMMA InitInv == Init => IInv
<1> SUFFICES ASSUME Init PROVE IInv
  OBVIOUS
<1>1. TypeOK
  BY FreeType, BoundsAssumption DEF Init, TypeOK, Rows, DeliveryStatuses, Seen
<1>2. LanesSound
  <2>1. \A c \in Cycles : cycle[c].flight = {} /\ cycle[c].lanes = 0
    BY DEF Init, Free
  <2>2. IsFiniteSet({}) /\ Cardinality({}) = 0
    BY FS_EmptySet
  <2>3. ASSUME NEW c \in Cycles
        PROVE  IsFiniteSet(cycle[c].flight) /\ Cardinality(cycle[c].flight) <= cycle[c].lanes
    <3>1. cycle[c].flight = {} /\ cycle[c].lanes = 0
      BY <2>1
    <3> QED
      BY <3>1, <2>2
  <2> QED
    BY <2>3 DEF LanesSound
<1>3. JobsSound
  BY DEF Init, JobsSound, Held, Free
<1>4. Honest
  BY DEF Init, Honest, AttemptNumbersSound, NotAbandonedEarly, SuccessWasAccepted
<1> QED
  BY <1>1, <1>2, <1>3, <1>4 DEF IInv

LEMMA StepInv ==
    ASSUME IInv, [Next]_vars
    PROVE  IInv'
<1>1. CASE \/ \E d \in Deliveries : Enqueue(d) \/ RetryWebhookDelivery(d) \/ BecomesDue(d)
           \/ \E isActive \in BOOLEAN : SetWebhookEndpointActive(isActive)
  BY <1>1, ApiInv
<1>2. CASE \E c \in Cycles, i \in Instances : CycleBegins(c, i)
  BY <1>2, CycleBeginsInv
<1>3. ASSUME NEW c \in Cycles, Lane(c)
      PROVE  IInv'
  BY <1>3, LaneTakesInv, PostInv, RecordInv, CycleEndsInv DEF Lane
<1>4. CASE Fault
  BY <1>4, RecordFailsInv, LaneThrowsInv, CrashInv DEF Fault
<1>5. CASE UNCHANGED vars
  BY <1>5 DEF vars, IInv, TypeOK, LanesSound, JobsSound, JobSound, Held, Honest,
     AttemptNumbersSound, NotAbandonedEarly, SuccessWasAccepted
<1> QED
  BY <1>1, <1>2, <1>3, <1>4, <1>5 DEF Next

LEMMA Invariance == Spec => []IInv
  BY InitInv, StepInv, PTL DEF Spec

\* Whatever races, fails or restarts: the numbers a receiver sees have no gaps and
\* the row's attempts is one of them.
THEOREM AttemptNumbers == Spec => []AttemptNumbersSound
<1>1. IInv => AttemptNumbersSound
  BY DEF IInv, Honest
<1> QED
  BY <1>1, Invariance, PTL

\* Whatever races, fails or restarts: FAILED is recorded only of a delivery that was
\* refused with a 4xx or whose last attempt was posted.
THEOREM GivenUpInTheEnd == Spec => []NotAbandonedEarly
<1>1. IInv => NotAbandonedEarly
  BY DEF IInv, Honest
<1> QED
  BY <1>1, Invariance, PTL

\* Whatever races, fails or restarts: SUCCESS is recorded only of a delivery the
\* receiver accepted.
THEOREM SuccessIsTrue == Spec => []SuccessWasAccepted
<1>1. IInv => SuccessWasAccepted
  BY DEF IInv, Honest
<1> QED
  BY <1>1, Invariance, PTL

\* Every variable has its type.
THEOREM TypeCorrect == Spec => []TypeOK
<1>1. IInv => TypeOK
  BY DEF IInv
<1> QED
  BY <1>1, Invariance, PTL

-----------------------------------------------------------------------------
(* One sender at a time *)

\* One instance, nothing has failed yet.
Undisturbed == Cardinality(Instances) = 1 /\ faults = 0

Busy(c) == cycle[c].inst # "free"

\* The instance's flag is up while a run is on, which is therefore the only one.
OneRun ==
    /\ \A c \in Cycles : Busy(c) => running[cycle[c].inst] /\ ~cycle[c].thrown
    /\ \A c \in Cycles : ~Busy(c) => Held(c) = {}
    /\ \A b, c \in Cycles : Busy(b) /\ Busy(c) => b = c

\* What a run holds is as the row says, and is in one place.
Current(j) == delivery[j.d].status = "PENDING" /\ delivery[j.d].attempts = j.n - 1

OnceHeld(c) ==
    /\ cycle[c].waiting \cap cycle[c].flight = {}
    /\ \A j, k \in Held(c) : j.d = k.d => j = k

SoleInv ==
    Undisturbed => OneRun /\ \A c \in Cycles : OnceHeld(c) /\ \A j \in Held(c) : Current(j)

LEMMA OneInstance ==
    ASSUME Undisturbed, NEW i \in Instances, NEW k \in Instances
    PROVE  i = k
  BY InstancesAssumption, FS_Singleton DEF Undisturbed

\* A row that a run holds keeps what the run knows of it; no run is touched.
LEMMA ApiSole ==
    ASSUME IInv, SoleInv,
           \/ \E d \in Deliveries : Enqueue(d) \/ RetryWebhookDelivery(d) \/ BecomesDue(d)
           \/ \E isActive \in BOOLEAN : SetWebhookEndpointActive(isActive)
    PROVE  SoleInv'
<1>1. UNCHANGED <<cycle, running, faults>>
  BY DEF Enqueue, RetryWebhookDelivery, BecomesDue, SetWebhookEndpointActive
<1>2. ASSUME NEW e \in Deliveries, delivery[e].status = "PENDING"
      PROVE  delivery'[e].status = "PENDING" /\ delivery'[e].attempts = delivery[e].attempts
  <2>1. delivery \in [Deliveries -> Rows]
    BY DEF IInv, TypeOK
  <2>2. ASSUME NEW d \in Deliveries, Enqueue(d)
        PROVE  delivery'[e] = delivery[e]
    BY <1>2, <2>1, <2>2 DEF Enqueue
  <2>3. ASSUME NEW d \in Deliveries, RetryWebhookDelivery(d)
        PROVE  delivery'[e].status = "PENDING" /\ delivery'[e].attempts = delivery[e].attempts
    BY <1>2, <2>1, <2>3 DEF RetryWebhookDelivery, Rows
  <2>4. ASSUME NEW d \in Deliveries, BecomesDue(d)
        PROVE  delivery'[e].status = "PENDING" /\ delivery'[e].attempts = delivery[e].attempts
    BY <1>2, <2>1, <2>4 DEF BecomesDue, Rows
  <2>5. ASSUME NEW isActive \in BOOLEAN, SetWebhookEndpointActive(isActive)
        PROVE  delivery'[e] = delivery[e]
    BY <2>5 DEF SetWebhookEndpointActive
  <2> QED
    BY <1>2, <2>2, <2>3, <2>4, <2>5
<1>3. \A c \in Cycles : \A j \in Held(c) : j.d \in Deliveries
  BY DEF Held, IInv, TypeOK, Runs, Jobs
<1>4. \A c \in Cycles : \A j \in Held(c) : Current(j) => Current(j)'
  BY <1>1, <1>2, <1>3 DEF Current
<1> QED
  BY <1>1, <1>4 DEF SoleInv, Undisturbed, OneRun, OnceHeld, Held, Busy

\* A run begins only where none is on.
LEMMA CycleBeginsSole ==
    ASSUME IInv, SoleInv, NEW c \in Cycles, NEW i \in Instances, CycleBegins(c, i)
    PROVE  SoleInv'
<1> SUFFICES ASSUME Undisturbed'
             PROVE  OneRun' /\ \A b \in Cycles : OnceHeld(b)' /\ \A j \in Held(b)' : Current(j)'
  BY DEF SoleInv
<1>1. Undisturbed /\ OneRun
  BY DEF Undisturbed, CycleBegins, SoleInv
<1>2. PICK batch \in SUBSET Due :
        cycle' = [cycle EXCEPT ![c] =
              [inst |-> i, waiting |-> {JobOf(d) : d \in batch}, flight |-> {},
               lanes |-> Lesser(Concurrency, Cardinality(batch)), thrown |-> FALSE]]
  BY DEF CycleBegins
<1>3. \A b \in Cycles : ~Busy(b)
  <2> SUFFICES ASSUME NEW b \in Cycles, Busy(b) PROVE FALSE
    OBVIOUS
  <2>1. cycle[b].inst \in Instances
    BY DEF Busy, IInv, TypeOK, Runs
  <2>2. cycle[b].inst = i
    BY <1>1, <2>1, OneInstance
  <2> QED
    BY <1>1, <2>2 DEF OneRun, CycleBegins, MayBegin
<1>4. /\ cycle'[c].inst = i /\ cycle'[c].waiting = {JobOf(d) : d \in batch}
      /\ cycle'[c].flight = {} /\ cycle'[c].thrown = FALSE
      /\ \A b \in Cycles \ {c} : cycle'[b] = cycle[b]
      /\ running'[i] = TRUE
  BY <1>2 DEF CycleBegins, IInv, TypeOK
<1>5. \A b \in Cycles \ {c} : ~Busy(b)' /\ Held(b)' = {}
  BY <1>1, <1>3, <1>4 DEF OneRun, Busy, Held
<1>6. Held(c)' = {JobOf(d) : d \in batch} /\ Busy(c)'
  BY <1>4, InstancesAssumption DEF Held, Busy
<1>7. \A d \in batch : /\ JobOf(d).d = d /\ JobOf(d).n - 1 = delivery[d].attempts
                       /\ delivery[d].status = "PENDING"
  <2>1. \A d \in batch : d \in Deliveries /\ delivery[d].status = "PENDING"
    BY DEF Due
  <2>2. \A d \in Deliveries : delivery[d].attempts \in Nat
    BY DEF IInv, TypeOK, Rows
  <2> QED
    BY <2>1, <2>2 DEF JobOf
<1>8. OnceHeld(c)'
  BY <1>4, <1>6, <1>7 DEF OnceHeld
<1>9. \A j \in Held(c)' : Current(j)'
  BY <1>6, <1>7 DEF Current, CycleBegins
<1>10. OneRun'
  BY <1>4, <1>5, <1>6 DEF OneRun
<1>11. \A b \in Cycles \ {c} : OnceHeld(b)'
  BY <1>5 DEF OnceHeld, Held
<1> QED
  BY <1>5, <1>8, <1>9, <1>10, <1>11

\* A step of run c that holds what it held, or less, where it was.
LEMMA SameRun ==
    ASSUME IInv, OneRun, NEW c \in Cycles, UNCHANGED running,
           cycle' \in [Cycles -> Runs], Busy(c),
           cycle'[c].inst = cycle[c].inst, cycle'[c].thrown = cycle[c].thrown,
           \A b \in Cycles \ {c} : cycle'[b] = cycle[b]
    PROVE  OneRun'
<1>1. \A b \in Cycles : Busy(b)' = Busy(b)
  BY DEF Busy
<1>2. \A b \in Cycles : ~Busy(b) => Held(b)' = Held(b)
  BY DEF Held
<1> QED
  BY <1>1, <1>2 DEF OneRun

LEMMA LaneTakesSole ==
    ASSUME IInv, SoleInv, NEW c \in Cycles, NEW j \in cycle[c].waiting, LaneTakes(c, j)
    PROVE  SoleInv'
<1> SUFFICES ASSUME Undisturbed'
             PROVE  OneRun' /\ \A b \in Cycles : OnceHeld(b)' /\ \A k \in Held(b)' : Current(k)'
  BY DEF SoleInv
<1>1. /\ Undisturbed /\ OneRun /\ UNCHANGED <<running, delivery>>
      /\ \A b \in Cycles : OnceHeld(b) /\ \A k \in Held(b) : Current(k)
  BY DEF Undisturbed, LaneTakes, SoleInv
<1>2. /\ cycle'[c].waiting = cycle[c].waiting \ {j}
      /\ cycle'[c].flight = cycle[c].flight \cup {j}
      /\ cycle'[c].inst = cycle[c].inst /\ cycle'[c].thrown = cycle[c].thrown
      /\ \A b \in Cycles \ {c} : cycle'[b] = cycle[b]
  BY DEF LaneTakes, IInv, TypeOK, Runs
<1>3. Busy(c)
  BY <1>1 DEF OneRun, Held
<1>4. cycle' \in [Cycles -> Runs]
  BY LaneTakesInv DEF IInv, TypeOK
<1>5. OneRun'
  BY <1>1, <1>2, <1>3, <1>4, SameRun
<1>6. \A b \in Cycles : Held(b)' = Held(b)
  BY <1>2 DEF Held
<1>7. \A b \in Cycles : cycle'[b].waiting \cap cycle'[b].flight = {}
  BY <1>1, <1>2 DEF OnceHeld
<1> QED
  BY <1>1, <1>5, <1>6, <1>7 DEF OnceHeld, Current

\* The answer to a POST stays with its job.
LEMMA PostSole ==
    ASSUME IInv, SoleInv, NEW c \in Cycles, NEW j \in cycle[c].flight, NEW answer \in Answers,
           Post(c, j, answer)
    PROVE  SoleInv'
<1> DEFINE step == IF answer \in {"lost", "down"} THEN "caught" ELSE answer
           next == [j EXCEPT !.step = step]
<1> SUFFICES ASSUME Undisturbed'
             PROVE  OneRun' /\ \A b \in Cycles : OnceHeld(b)' /\ \A k \in Held(b)' : Current(k)'
  BY DEF SoleInv
<1>1. /\ Undisturbed /\ OneRun /\ UNCHANGED <<running, delivery>>
      /\ \A b \in Cycles : OnceHeld(b) /\ \A k \in Held(b) : Current(k)
  BY DEF Undisturbed, Post, SoleInv
<1>2. j \in Held(c) /\ next.d = j.d /\ next.n = j.n
  BY DEF Held, IInv, TypeOK, Runs, Jobs
<1>3. /\ cycle'[c].waiting = cycle[c].waiting
      /\ cycle'[c].flight = (cycle[c].flight \ {j}) \cup {next}
      /\ cycle'[c].inst = cycle[c].inst /\ cycle'[c].thrown = cycle[c].thrown
      /\ \A b \in Cycles \ {c} : cycle'[b] = cycle[b]
  <2>1. Advance(c, j, step)
    BY DEF Post
  <2> QED
    BY <2>1 DEF Advance, IInv, TypeOK, Runs
<1> HIDE DEF next
<1>4. Busy(c)
  BY <1>1, <1>2 DEF OneRun
<1>5. cycle' \in [Cycles -> Runs]
  BY PostInv DEF IInv, TypeOK
<1>6. OneRun'
  BY <1>1, <1>3, <1>4, <1>5, SameRun
<1>7. Held(c)' = (Held(c) \ {j}) \cup {next}
  BY <1>1, <1>3 DEF OnceHeld, Held
<1>8. \A k \in Held(c) \ {j} : k.d # j.d
  BY <1>1, <1>2 DEF OnceHeld
<1>9. cycle'[c].waiting \cap cycle'[c].flight = {}
  BY <1>1, <1>2, <1>3, <1>8 DEF OnceHeld, Held
<1>10. OnceHeld(c)'
  <2>1. ASSUME NEW k \in Held(c)', NEW l \in Held(c)', k.d = l.d
        PROVE  k = l
    BY <2>1, <1>1, <1>2, <1>7, <1>8 DEF OnceHeld
  <2> QED
    BY <2>1, <1>9 DEF OnceHeld
<1>11. \A k \in Held(c)' : Current(k)'
  BY <1>1, <1>2, <1>7 DEF Current
<1>12. ASSUME NEW b \in Cycles \ {c}
       PROVE  OnceHeld(b)' /\ \A k \in Held(b)' : Current(k)'
  BY <1>1, <1>3 DEF OnceHeld, Held, Current
<1> QED
  BY <1>6, <1>10, <1>11, <1>12

\* A recorded job is gone from its run, and nobody else holds its delivery.
LEMMA RecordSole ==
    ASSUME IInv, SoleInv, NEW c \in Cycles, NEW j \in cycle[c].flight, Record(c, j)
    PROVE  SoleInv'
<1> SUFFICES ASSUME Undisturbed'
             PROVE  OneRun' /\ \A b \in Cycles : OnceHeld(b)' /\ \A k \in Held(b)' : Current(k)'
  BY DEF SoleInv
<1>1. /\ Undisturbed /\ OneRun /\ UNCHANGED running
      /\ \A b \in Cycles : OnceHeld(b) /\ \A k \in Held(b) : Current(k)
  BY DEF Undisturbed, Record, SoleInv
<1>2. j \in Held(c)
  BY DEF Held
<1>3. /\ cycle'[c].waiting = cycle[c].waiting
      /\ cycle'[c].flight = cycle[c].flight \ {j}
      /\ cycle'[c].inst = cycle[c].inst /\ cycle'[c].thrown = cycle[c].thrown
      /\ \A b \in Cycles \ {c} : cycle'[b] = cycle[b]
  BY DEF Record, IInv, TypeOK, Runs
<1>4. Busy(c)
  BY <1>1, <1>2 DEF OneRun
<1>5. cycle' \in [Cycles -> Runs]
  BY RecordInv DEF IInv, TypeOK
<1>6. OneRun'
  BY <1>1, <1>3, <1>4, <1>5, SameRun
<1>7. Held(c)' = Held(c) \ {j}
  BY <1>1, <1>3 DEF OnceHeld, Held
<1>8. \A b \in Cycles \ {c} : Held(b)' = {}
  BY <1>1, <1>3, <1>4 DEF OneRun, Held
<1>9. \A k \in Held(c)' : k.d # j.d /\ k \in Held(c)
  BY <1>1, <1>2, <1>7 DEF OnceHeld
<1>10. \A d : d # j.d => delivery'[d] = delivery[d]
  BY DEF Record, IInv, TypeOK
<1>11. \A k \in Held(c)' : Current(k)'
  <2> SUFFICES ASSUME NEW k \in Held(c)' PROVE Current(k)'
    OBVIOUS
  <2>1. delivery'[k.d] = delivery[k.d] /\ Current(k)
    BY <1>1, <1>9, <1>10
  <2> QED
    BY <2>1 DEF Current
<1>12. OnceHeld(c)'
  BY <1>1, <1>3, <1>7 DEF OnceHeld
<1>13. \A b \in Cycles \ {c} : OnceHeld(b)'
  BY <1>8 DEF OnceHeld, Held
<1> QED
  BY <1>6, <1>8, <1>11, <1>12, <1>13

LEMMA CycleEndsSole ==
    ASSUME IInv, SoleInv, NEW c \in Cycles, CycleEnds(c)
    PROVE  SoleInv'
<1> SUFFICES ASSUME Undisturbed'
             PROVE  OneRun' /\ \A b \in Cycles : OnceHeld(b)' /\ \A k \in Held(b)' : Current(k)'
  BY DEF SoleInv
<1>1. Undisturbed /\ OneRun /\ Busy(c)
  BY DEF Undisturbed, CycleEnds, SoleInv, Busy
<1>2. cycle'[c] = Free /\ \A b \in Cycles \ {c} : cycle'[b] = cycle[b]
  BY DEF CycleEnds, IInv, TypeOK
<1>3. \A b \in Cycles \ {c} : ~Busy(b) /\ Held(b) = {}
  BY <1>1 DEF OneRun
<1>4. \A b \in Cycles : ~Busy(b)' /\ Held(b)' = {}
  BY <1>2, <1>3 DEF Busy, Held, Free
<1> QED
  BY <1>4 DEF OneRun, OnceHeld, Held

LEMMA SoleStep == IInv /\ SoleInv /\ [Next]_vars => SoleInv'
<1> SUFFICES ASSUME IInv, SoleInv, [Next]_vars PROVE SoleInv'
  OBVIOUS
<1>1. CASE \/ \E d \in Deliveries : Enqueue(d) \/ RetryWebhookDelivery(d) \/ BecomesDue(d)
           \/ \E isActive \in BOOLEAN : SetWebhookEndpointActive(isActive)
  BY <1>1, ApiSole
<1>2. CASE \E c \in Cycles, i \in Instances : CycleBegins(c, i)
  BY <1>2, CycleBeginsSole
<1>3. ASSUME NEW c \in Cycles, Lane(c)
      PROVE  SoleInv'
  BY <1>3, LaneTakesSole, PostSole, RecordSole, CycleEndsSole DEF Lane
<1>4. CASE Fault
  <2>1. faults' = faults + 1
    BY <1>4 DEF Fault, RecordFailsInTry, LaneThrows, Crash
  <2>2. faults \in 0..MaxFaults
    BY DEF IInv, TypeOK
  <2>3. faults' # 0
    BY <2>1, <2>2, BoundsAssumption
  <2> QED
    BY <2>3 DEF SoleInv, Undisturbed
<1>5. CASE UNCHANGED vars
  BY <1>5 DEF vars, SoleInv, Undisturbed, OneRun, OnceHeld, Current, Held, Busy
<1> QED
  BY <1>1, <1>2, <1>3, <1>4, <1>5 DEF Next

LEMMA SoleInit == Init => SoleInv
  BY DEF Init, SoleInv, OneRun, OnceHeld, Held, Busy, Free

\* With one instance and until its first fault, whatever the lanes, batches, retries
\* by hand and switches of the endpoint: a delivery that a run holds is as the run
\* read it, and no other job is of the same delivery.
THEOREM OneSender == Spec => []SoleSender
<1>1. IInv /\ SoleInv => SoleSender
  <2> SUFFICES ASSUME IInv, SoleInv, Undisturbed,
                      NEW c \in Cycles, NEW j \in Held(c)
               PROVE  /\ Current(j)
                      /\ \A b \in Cycles : \A k \in Held(b) : k.d = j.d => b = c /\ k = j
    BY DEF SoleSender, Undisturbed, Held, Current
  <2>1. Current(j)
    BY DEF SoleInv
  <2>2. ASSUME NEW b \in Cycles, NEW k \in Held(b), k.d = j.d
        PROVE  b = c /\ k = j
    <3>1. b = c
      BY DEF SoleInv, OneRun
    <3> QED
      BY <2>2, <3>1 DEF SoleInv, OnceHeld
  <2> QED
    BY <2>1, <2>2
<1> QED
  BY <1>1, Invariance, SoleInit, SoleStep, PTL DEF Spec
=============================================================================
