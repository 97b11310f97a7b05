-------------------------- MODULE RetryScheduleProofs --------------------------
(***************************************************************************)
(* Proofs about RetrySchedule, for any base delay, retry limit, set of     *)
(* replies and pauses.                                                     *)
(*                                                                         *)
(* Schedule says where the delivery stands in each phase: how many         *)
(* attempts were started and answered for its retry count, that all but    *)
(* the last answered in a retryable way, and how the clock, the time of    *)
(* the last attempt and the due time of the job relate.  It is inductive   *)
(* and implies the four properties.  Its only arithmetic beyond addition   *)
(* is that the delay doubles, PowerDoubles.                                *)
(***************************************************************************)
EXTENDS RetrySchedule, FiniteSetTheorems, FunctionTheorems, TLAPS

(***************************************************************************)
(* Powers of two, as sizes of power sets.                                  *)
(***************************************************************************)
LEMMA PowerIsPositive ==
    ASSUME NEW n \in Nat
    PROVE  2 ^ n \in Nat /\ 2 ^ n >= 1
  <1>1. IsFiniteSet(1..n) /\ Cardinality(1..n) = n
    BY FS_Interval
  <1>2. IsFiniteSet(SUBSET (1..n)) /\ Cardinality(SUBSET (1..n)) = 2 ^ n
    BY <1>1, FS_SUBSET
  <1>3. Cardinality(SUBSET (1..n)) \in Nat
    BY <1>2, FS_CardinalityType
  <1>4. SUBSET (1..n) # {}
    OBVIOUS
  <1>5. Cardinality(SUBSET (1..n)) # 0
    BY <1>2, <1>4, FS_EmptySet
  <1>6. QED
    BY <1>2, <1>3, <1>5

\* The subsets of 1..n+1 are those of 1..n, without and with n+1.
LEMMA PowerDoubles ==
    ASSUME NEW n \in Nat
    PROVE  2 ^ (n + 1) = 2 * 2 ^ n
  <1> DEFINE A == SUBSET (1..n)
             B == {T \cup {n + 1} : T \in A}
             f == [T \in A |-> T \cup {n + 1}]
  <1>1. SUBSET (1..n + 1) = A \cup B
    <2>1. ASSUME NEW T \in SUBSET (1..n + 1)
          PROVE  T \in A \cup B
      <3>1. CASE n + 1 \notin T
        <4>1. T \subseteq 1..n
          BY <3>1
        <4>2. QED
          BY <4>1
      <3>2. CASE n + 1 \in T
        <4>1. T \ {n + 1} \in A
          OBVIOUS
        <4>2. T = (T \ {n + 1}) \cup {n + 1}
          BY <3>2
        <4>3. QED
          BY <4>1, <4>2
      <3>3. QED
        BY <3>1, <3>2
    <2>2. ASSUME NEW T \in A \cup B
          PROVE  T \in SUBSET (1..n + 1)
      OBVIOUS
    <2>3. QED
      BY <2>1, <2>2
  <1>2. A \cap B = {}
    <2>1. \A T \in A : n + 1 \notin T
      OBVIOUS
    <2>2. \A T \in B : n + 1 \in T
      OBVIOUS
    <2>3. QED
      BY <2>1, <2>2
  <1>3. /\ IsFiniteSet(A) /\ Cardinality(A) = 2 ^ n
        /\ IsFiniteSet(A \cup B) /\ Cardinality(A \cup B) = 2 ^ (n + 1)
    <2>1. /\ IsFiniteSet(1..n) /\ Cardinality(1..n) = n
          /\ IsFiniteSet(1..n + 1) /\ Cardinality(1..n + 1) = n + 1
      BY FS_Interval
    <2>2. QED
      BY <1>1, <2>1, FS_SUBSET
  <1>4. ExistsBijection(A, B)
    <2>1. \A T, U \in A : f[T] = f[U] => T = U
      <3> SUFFICES ASSUME NEW T \in A, NEW U \in A, T \cup {n + 1} = U \cup {n + 1}
                   PROVE  T = U
        OBVIOUS
      <3>1. n + 1 \notin T /\ n + 1 \notin U
        OBVIOUS
      <3>2. QED
        BY <3>1
    <2>2. f \in [A -> B]
      OBVIOUS
    <2>3. ASSUME NEW T \in B
          PROVE  \E U \in A : f[U] = T
      <3>1. PICK U \in A : T = U \cup {n + 1}
        OBVIOUS
      <3>2. f[U] = T
        BY <3>1
      <3>3. QED
        BY <3>2
    <2> HIDE DEF A, B, f
    <2>4. f \in Bijection(A, B)
      BY <2>1, <2>2, <2>3, Fun_IsBij
    <2>5. QED
      BY <2>4 DEF ExistsBijection
  <1> HIDE DEF A, B
  <1>5. IsFiniteSet(B) /\ Cardinality(B) = 2 ^ n
    BY <1>3, <1>4, FS_Bijection
  <1>6. Cardinality(A \cup B) = Cardinality(A) + Cardinality(B) - Cardinality(A \cap B)
    BY <1>3, <1>5, FS_Union
  <1>7. Cardinality(A \cap B) = 0
    BY <1>2, FS_EmptySet
  <1>8. QED
    BY <1>3, <1>5, <1>6, <1>7, PowerIsPositive

\* Delays are positive, and the waits so far and the next delay make up the
\* sum of one delay more.
LEMMA DelayIsPositive ==
    ASSUME NEW n \in Nat \ {0}
    PROVE  CalculateDelay(n) \in Nat /\ CalculateDelay(n) >= 1
  <1>1. n - 1 \in Nat
    OBVIOUS
  <1>2. 2 ^ (n - 1) \in Nat /\ 2 ^ (n - 1) >= 1
    BY <1>1, PowerIsPositive
  <1>3. ASSUME NEW p \in Nat, p >= 1
        PROVE  BaseDelay * p \in Nat /\ BaseDelay * p >= 1
    BY <1>3, ScheduleAssumption
  <1>4. QED
    BY <1>2, <1>3 DEF CalculateDelay

\* The least time between the first attempt and the n-th.
Waited(n) == BaseDelay * (2 ^ (n - 1) - 1)

\* One attempt more takes one delay more.
LEMMA WaitsAddUp ==
    ASSUME NEW n \in Nat \ {0}
    PROVE  Waited(n) \in Nat /\ Waited(n + 1) = Waited(n) + CalculateDelay(n)
  <1>1. n - 1 \in Nat /\ (n - 1) + 1 = n /\ (n + 1) - 1 = n
    OBVIOUS
  <1>2. PICK p \in Nat : p = 2 ^ (n - 1) /\ p >= 1
    BY <1>1, PowerIsPositive
  <1>3. 2 ^ n = 2 * p
    BY <1>1, <1>2, PowerDoubles
  <1>4. BaseDelay * (2 * p - 1) = BaseDelay * (p - 1) + BaseDelay * p
    BY <1>2, ScheduleAssumption
  <1>5. BaseDelay * (p - 1) \in Nat
    BY <1>2, ScheduleAssumption
  <1>6. Waited(n) = BaseDelay * (p - 1) /\ CalculateDelay(n) = BaseDelay * p
    BY <1>2 DEF Waited, CalculateDelay
  <1>7. Waited(n + 1) = BaseDelay * (2 * p - 1)
    BY <1>1, <1>3 DEF Waited
  <1>8. QED
    BY <1>4, <1>5, <1>6, <1>7

(***************************************************************************)
(* What a reply amounts to.                                                *)
(***************************************************************************)
\* Of all replies, 200..299 are successes, 400..499 are final, and the rest,
\* lost replies among them, are worth a retry.
LEMMA OutcomeOfReply ==
    ASSUME NEW reply \in Replies
    PROVE  /\ OutcomeOf(reply) = "success" <=> IsStatus(reply, 200..299)
           /\ OutcomeOf(reply) = "terminal" <=> IsStatus(reply, 400..499)
           /\ OutcomeOf(reply) \in Outcome
           /\ IsLost(reply) => OutcomeOf(reply) = "retryable"
  <1>1. CASE reply \in {<<"network">>, <<"lost">>, <<"thrown">>}
    <2>1. reply[1] \in {"network", "lost", "thrown"}
      BY <1>1
    <2>2. \A codes : ~ IsStatus(reply, codes)
      BY <2>1 DEF IsStatus
    <2>3. ClassifyFailure(reply) \in {"network_error", "provider_execution_error"}
      BY <2>1, <2>2 DEF ClassifyFailure
    <2>4. IsRetryable(NormalizeCategory(ClassifyFailure(reply)))
      BY <2>3 DEF NormalizeCategory, IsRetryable
    <2>5. QED
      BY <2>2, <2>4 DEF OutcomeOf, Outcome
  <1>2. ASSUME NEW code \in 100..599, reply = <<"status", code>>
        PROVE  /\ OutcomeOf(reply) = "success" <=> IsStatus(reply, 200..299)
               /\ OutcomeOf(reply) = "terminal" <=> IsStatus(reply, 400..499)
               /\ OutcomeOf(reply) \in Outcome
               /\ ~ IsLost(reply)
    <2>1. reply[1] = "status" /\ reply[2] = code
      BY <1>2
    <2>2. \A codes : IsStatus(reply, codes) <=> code \in codes
      BY <2>1 DEF IsStatus
    <2>3. CASE code \in 200..299
      BY <2>1, <2>2, <2>3 DEF OutcomeOf, IsLost, Outcome
    <2>4. CASE code \in 400..499
      <3>1. ClassifyFailure(reply) \in {"authorization_failure", "invalid_destination", "downstream_request_error"}
        <4>1. /\ reply[1] \notin {"network", "lost"} /\ reply[1] # "thrown"
              /\ ~ IsStatus(reply, 500..599) /\ ~ IsStatus(reply, 100..399)
          <5>1. code \in Int /\ 400 <= code /\ code <= 499
            BY <2>4
          <5>2. ~ IsStatus(reply, 500..599) /\ ~ IsStatus(reply, 100..399)
            BY <2>1, <5>1 DEF IsStatus
          <5>3. reply[1] \notin {"network", "lost"} /\ reply[1] # "thrown"
            BY <2>1
          <5>4. QED
            BY <5>2, <5>3
        <4>2. CASE code \in {401, 403}
          <5>1. IsStatus(reply, {401, 403}) /\ ~ IsStatus(reply, {404})
                /\ ~ IsStatus(reply, 400..499 \ {401, 403, 404})
            BY <2>2, <4>2
          <5>2. QED
            BY <4>1, <5>1 DEF ClassifyFailure
        <4>3. CASE code = 404
          <5>1. IsStatus(reply, {404}) /\ ~ IsStatus(reply, {401, 403})
                /\ ~ IsStatus(reply, 400..499 \ {401, 403, 404})
            BY <2>2, <4>3
          <5>2. QED
            BY <4>1, <5>1 DEF ClassifyFailure
        <4>4. CASE code \notin {401, 403, 404}
          <5>1. IsStatus(reply, 400..499 \ {401, 403, 404}) /\ ~ IsStatus(reply, {401, 403})
                /\ ~ IsStatus(reply, {404})
            BY <2>2, <2>4, <4>4
          <5>2. QED
            BY <4>1, <5>1 DEF ClassifyFailure
        <4>5. QED
          BY <4>2, <4>3, <4>4
      <3>2. ~ IsRetryable(NormalizeCategory(ClassifyFailure(reply)))
        BY <3>1 DEF NormalizeCategory, IsRetryable
      <3>3. QED
        BY <2>1, <2>2, <2>4, <3>2 DEF OutcomeOf, IsLost, Outcome
    <2>5. CASE code \in 100..199 \cup 300..399 \cup 500..599
      <3>1. ClassifyFailure(reply) \in {"provider_http_error", "unknown_failure"}
        BY <2>1, <2>2, <2>5 DEF ClassifyFailure
      <3>2. IsRetryable(NormalizeCategory(ClassifyFailure(reply)))
        BY <3>1 DEF NormalizeCategory, IsRetryable
      <3>3. QED
        BY <2>1, <2>2, <2>5, <3>2 DEF OutcomeOf, IsLost, Outcome
    <2>6. QED
      BY <2>3, <2>4, <2>5
  <1>3. QED
    BY <1>1, <1>2, RepliesAssumption

(***************************************************************************)
(* The inductive invariant.                                                *)
(***************************************************************************)
Phases == {"queued", "sending", "answered", "enqueueing", "resolved"}

\* The types of the variables.
Typed ==
    /\ now \in Nat \ {0} /\ paused \in Nat
    /\ phase \in Phases
    /\ dueAt \in Nat /\ attemptedAt \in Nat /\ nextRetryAt \in Nat
    /\ retryCount \in 0..MaxRetryLimit
    /\ status \in DeliveryStatus
    /\ starts \in Seq(Nat) /\ replies \in Seq(Replies)

\* How many attempts were started and answered.
Tally ==
    /\ Len(starts) = IF phase \in {"queued", "enqueueing"} THEN retryCount ELSE retryCount + 1
    /\ Len(replies) = IF phase \in {"answered", "resolved"} THEN retryCount + 1 ELSE retryCount
    /\ \A n \in 1..retryCount : OutcomeOf(replies[n]) = "retryable"

\* The columns of the row in each phase.
Row ==
    /\ phase = "queued" => \/ status = "pending" /\ retryCount = 0 /\ nextRetryAt = Unset
                           \/ status = "retrying" /\ retryCount > 0 /\ nextRetryAt # Unset
    /\ phase \in {"sending", "answered"} => status = "processing" /\ nextRetryAt = Unset
    /\ phase = "enqueueing" =>
         /\ status = "retrying" /\ retryCount > 0
         /\ nextRetryAt = attemptedAt + CalculateDelay(retryCount)
    /\ phase = "resolved" =>
         /\ nextRetryAt = Unset
         /\ LET outcome == OutcomeOf(replies[retryCount + 1])
            IN  \/ status = "succeeded" /\ outcome = "success"
                \/ /\ status = "failed" /\ outcome # "success"
                   /\ outcome = "terminal" \/ retryCount = MaxRetryLimit

\* The clock, the last attempt and the job.
Times ==
    /\ phase \in {"sending", "answered", "enqueueing"} =>
         attemptedAt = starts[Len(starts)] /\ attemptedAt <= now
    /\ phase = "queued" /\ retryCount > 0 =>
         /\ starts[retryCount] + CalculateDelay(retryCount) <= dueAt
         /\ nextRetryAt <= dueAt
    /\ \A n \in 1..Len(starts) - 1 : starts[n] + CalculateDelay(n) <= starts[n + 1]
    /\ Len(starts) > 0 => starts[1] + Waited(Len(starts)) <= starts[Len(starts)]

\* The inductive invariant.
Schedule == Typed /\ Tally /\ Row /\ Times

\* The initial state is on schedule.
LEMMA InitScheduled == Init => Schedule
  <1> SUFFICES ASSUME Init PROVE Schedule
    OBVIOUS
  <1>1. Typed
    BY RetryLimitAssumption DEF Init, Typed, Phases, Unset, DeliveryStatus
  <1>2. Tally /\ Row /\ Times
    BY DEF Init, Tally, Row, Times
  <1>3. QED
    BY <1>1, <1>2 DEF Schedule

\* Taking the job: it is due, so the new attempt keeps its distance.
LEMMA StartScheduled ==
    ASSUME Schedule, Start
    PROVE  Schedule'
  <1> USE DEF Schedule, Start
  <1>1. Typed'
    BY DEF Typed, Phases, Unset, DeliveryStatus
  <1>2. Len(starts) = retryCount /\ Len(replies) = retryCount /\ retryCount \in Nat
    BY DEF Tally, Typed
  <1>3. /\ Len(starts') = retryCount + 1 /\ starts'[retryCount + 1] = now
        /\ \A n \in 1..retryCount : starts'[n] = starts[n] /\ starts[n] \in Nat
    BY <1>2 DEF Typed
  <1>4. Tally'
    BY <1>2, <1>3 DEF Tally
  <1>5. Row'
    BY DEF Row
  <1>6. Times'
    <2>1. phase' = "sending" /\ attemptedAt' = starts'[Len(starts')] /\ attemptedAt' <= now'
      BY <1>3 DEF Typed
    <2>2. CASE retryCount = 0
      <3>1. Waited(1) = 0
        BY ScheduleAssumption DEF Waited
      <3>2. starts'[1] + Waited(Len(starts')) <= starts'[Len(starts')]
        BY <1>3, <2>2, <3>1 DEF Typed
      <3>3. \A n \in 1..Len(starts') - 1 : starts'[n] + CalculateDelay(n) <= starts'[n + 1]
        BY <1>3, <2>2
      <3>4. QED
        BY <2>1, <3>2, <3>3 DEF Times
    <2>3. CASE retryCount > 0
      <3> DEFINE k == retryCount
      <3>1. k \in Nat \ {0} /\ now \in Nat /\ dueAt \in Nat
        BY <1>2, <2>3 DEF Typed
      <3>2. CalculateDelay(k) \in Nat /\ Waited(k) \in Nat /\ Waited(k + 1) = Waited(k) + CalculateDelay(k)
        BY <3>1, DelayIsPositive, WaitsAddUp
      <3>3. starts[k] + CalculateDelay(k) <= now
        BY <1>3, <2>3, <3>1, <3>2 DEF Times
      <3>4. starts[1] + Waited(k) <= starts[k]
        BY <1>2, <2>3 DEF Times
      <3>5. starts'[1] + Waited(k + 1) <= starts'[k + 1]
        BY <1>3, <3>1, <3>2, <3>3, <3>4
      <3>6. ASSUME NEW n \in 1..k
            PROVE  starts'[n] + CalculateDelay(n) <= starts'[n + 1]
        <4>1. CASE n = k
          BY <1>3, <3>3, <4>1
        <4>2. CASE n \in 1..k - 1
          <5>1. n \in 1..Len(starts) - 1 /\ n \in 1..k /\ n + 1 \in 1..k
            BY <1>2, <4>2
          <5>2. QED
            BY <1>3, <5>1 DEF Times
        <4>3. n = k \/ n \in 1..k - 1
          BY <3>1
        <4>4. QED
          BY <4>1, <4>2, <4>3
      <3>7. Len(starts') = k + 1 /\ Len(starts') - 1 = k
        BY <1>3, <3>1
      <3>8. QED
        BY <2>1, <3>5, <3>6, <3>7 DEF Times
    <2>4. QED
      BY <1>2, <2>2, <2>3
  <1>7. QED
    BY <1>1, <1>4, <1>5, <1>6

\* An attempt keeps the schedule.
LEMMA SendScheduled ==
    ASSUME Schedule, Send
    PROVE  Schedule'
  <1> USE DEF Schedule, Send
  <1>1. PICK reply \in Replies : replies' = Append(replies, reply)
    OBVIOUS
  <1>2. /\ Len(replies) = retryCount /\ retryCount \in Nat
        /\ Len(replies') = retryCount + 1
        /\ \A n \in 1..retryCount : replies'[n] = replies[n]
    BY <1>1 DEF Tally, Typed
  <1>3. Typed'
    BY <1>1 DEF Typed, Phases
  <1>4. Tally'
    BY <1>2 DEF Tally
  <1>5. Row'
    BY DEF Row
  <1>6. Times'
    BY DEF Times
  <1>7. QED
    BY <1>3, <1>4, <1>5, <1>6

\* The decision about a reply keeps the schedule.
LEMMA DecideScheduled ==
    ASSUME Schedule, Decide
    PROVE  Schedule'
  <1> USE DEF Schedule
  <1> DEFINE k == retryCount
             outcome == OutcomeOf(replies[k + 1])
  <1>1. /\ phase = "answered" /\ k \in Nat /\ k <= MaxRetryLimit
        /\ Len(replies) = k + 1 /\ Len(starts) = k + 1
        /\ attemptedAt \in Nat /\ attemptedAt = starts[k + 1] /\ attemptedAt <= now
    BY RetryLimitAssumption DEF Decide, Typed, Tally, Times
  <1>2. replies[k + 1] \in Replies
    BY <1>1 DEF Typed
  <1>3. outcome \in Outcome
    BY <1>2, OutcomeOfReply
  <1>4. CASE ShouldRetry(k, outcome)
    <2>1. /\ phase' = "enqueueing" /\ status' = "retrying" /\ retryCount' = k + 1
          /\ nextRetryAt' = attemptedAt + CalculateDelay(k + 1)
          /\ UNCHANGED <<now, paused, dueAt, attemptedAt, starts, replies>>
      BY <1>1, <1>4 DEF Decide
    <2>2. outcome = "retryable" /\ k < MaxRetryLimit
      BY <1>4 DEF ShouldRetry
    <2>3. CalculateDelay(k + 1) \in Nat
      BY <1>1, DelayIsPositive
    <2>4. Typed'
      BY <1>1, <2>1, <2>2, <2>3, RetryLimitAssumption DEF Typed, Phases, DeliveryStatus
    <2>5. Tally'
      BY <1>1, <2>1, <2>2 DEF Tally
    <2>6. Row'
      BY <1>1, <2>1 DEF Row
    <2>7. Times'
      BY <1>1, <2>1 DEF Times
    <2>8. QED
      BY <2>4, <2>5, <2>6, <2>7
  <1>5. CASE ~ ShouldRetry(k, outcome)
    <2>1. /\ phase' = "resolved" /\ nextRetryAt' = Unset
          /\ status' = IF outcome = "success" THEN "succeeded" ELSE "failed"
          /\ UNCHANGED <<now, paused, dueAt, attemptedAt, retryCount, starts, replies>>
      BY <1>1, <1>5 DEF Decide
    <2>2. outcome = "terminal" \/ outcome = "success" \/ k = MaxRetryLimit
      BY <1>1, <1>3, <1>5, RetryLimitAssumption DEF ShouldRetry, Outcome
    <2>3. Typed'
      BY <2>1 DEF Typed, Phases, DeliveryStatus, Unset
    <2>4. Tally'
      BY <1>1, <2>1 DEF Tally
    <2>5. Row'
      BY <2>1, <2>2 DEF Row
    <2>6. Times'
      BY <1>1, <2>1 DEF Times
    <2>7. QED
      BY <2>3, <2>4, <2>5, <2>6
  <1>6. QED
    BY <1>4, <1>5

\* The job is added no earlier than the attempt began, so it is not due
\* before the announced time.
LEMMA EnqueueScheduled ==
    ASSUME Schedule, Enqueue
    PROVE  Schedule'
  <1> USE DEF Schedule, Enqueue
  <1>1. /\ retryCount \in Nat \ {0} /\ Len(starts) = retryCount
        /\ attemptedAt \in Nat /\ now \in Nat
        /\ attemptedAt = starts[retryCount] /\ attemptedAt <= now
    BY DEF Typed, Tally, Row, Times
  <1>2. CalculateDelay(retryCount) \in Nat /\ CalculateDelay(retryCount) >= 1
    BY <1>1, DelayIsPositive
  <1>3. nextRetryAt = attemptedAt + CalculateDelay(retryCount) /\ status = "retrying"
    BY DEF Row
  <1>4. Typed'
    BY <1>1, <1>2 DEF Typed, Phases, Unset
  <1>5. Tally'
    BY DEF Tally
  <1>6. Row'
    BY <1>1, <1>2, <1>3 DEF Row, Unset
  <1>7. Times'
    BY <1>1, <1>2, <1>3 DEF Times
  <1>8. QED
    BY <1>4, <1>5, <1>6, <1>7

\* Every step keeps the schedule.
LEMMA NextScheduled == Schedule /\ [Next]_vars => Schedule'
  <1> SUFFICES ASSUME Schedule, [Next]_vars PROVE Schedule'
    OBVIOUS
  <1>1. CASE Wait \/ Pause
    <2>1. /\ UNCHANGED <<phase, dueAt, attemptedAt, retryCount, nextRetryAt, status, starts, replies>>
          /\ now' = now + 1 /\ paused' \in {paused, paused + 1}
      BY <1>1 DEF Wait, Pause
    <2>2. now \in Nat /\ paused \in Nat /\ attemptedAt \in Nat
      BY DEF Schedule, Typed
    <2>3. Typed'
      BY <2>1, <2>2 DEF Schedule, Typed
    <2>4. Tally' /\ Row'
      BY <2>1 DEF Schedule, Tally, Row
    <2>5. Times'
      BY <2>1, <2>2 DEF Schedule, Times
    <2>6. QED
      BY <2>3, <2>4, <2>5 DEF Schedule
  <1>2. CASE UNCHANGED vars
    BY <1>2 DEF vars, Schedule, Typed, Tally, Row, Times
  <1>3. QED
    BY <1>1, <1>2, StartScheduled, SendScheduled, DecideScheduled, EnqueueScheduled
       DEF Next, Rest

\* The schedule always holds, for any limit, delay, pauses and replies.
THEOREM ScheduleHolds == Spec => []Schedule
  BY InitScheduled, NextScheduled, PTL DEF Spec

(***************************************************************************)
(* The properties.                                                         *)
(***************************************************************************)
\* Attempts back off, one by one and in sum, whatever the base delay.
THEOREM RetriesBackOff == Spec => []AttemptsBackOff
  <1>1. Schedule => AttemptsBackOff
    <2> SUFFICES ASSUME Schedule PROVE AttemptsBackOff
      OBVIOUS
    <2> USE DEF Schedule
    <2>1. Len(starts) \in Nat /\ \A n \in 1..Len(starts) : starts[n] \in Nat
      BY DEF Typed
    <2>2. ASSUME NEW n \in 1..Len(starts) - 1
          PROVE  starts[n + 1] - starts[n] >= BaseDelay * 2 ^ (n - 1)
      <3>1. starts[n] \in Nat /\ starts[n + 1] \in Nat /\ n \in Nat \ {0}
        BY <2>1
      <3>2. CalculateDelay(n) \in Nat
        BY <3>1, DelayIsPositive
      <3>3. starts[n] + CalculateDelay(n) <= starts[n + 1]
        BY DEF Times
      <3>4. starts[n + 1] - starts[n] >= CalculateDelay(n)
        BY <3>1, <3>2, <3>3
      <3>5. QED
        BY <3>4 DEF CalculateDelay
    <2>3. ASSUME Len(starts) > 0
          PROVE  starts[Len(starts)] - starts[1] >= BaseDelay * (2 ^ (Len(starts) - 1) - 1)
      <3>1. starts[1] \in Nat /\ starts[Len(starts)] \in Nat /\ Len(starts) \in Nat \ {0}
        BY <2>1, <2>3
      <3>2. Waited(Len(starts)) \in Nat
        BY <3>1, WaitsAddUp
      <3>3. starts[1] + Waited(Len(starts)) <= starts[Len(starts)]
        BY <2>3 DEF Times
      <3>4. starts[Len(starts)] - starts[1] >= Waited(Len(starts))
        BY <3>1, <3>2, <3>3
      <3>5. QED
        BY <3>4 DEF Waited
    <2>4. QED
      BY <2>2, <2>3 DEF AttemptsBackOff
  <1>2. QED
    BY <1>1, ScheduleHolds, PTL

\* The announced time of a retry is set while it is awaited, and kept.
THEOREM AnnouncementsAreHonest == Spec => []AnnouncedRetryIsHonest
  <1>1. Schedule => AnnouncedRetryIsHonest
    <2> SUFFICES ASSUME Schedule PROVE AnnouncedRetryIsHonest
      OBVIOUS
    <2>1. phase = "enqueueing" => nextRetryAt # Unset
      <3> SUFFICES ASSUME phase = "enqueueing" PROVE nextRetryAt # Unset
        OBVIOUS
      <3>1. retryCount \in Nat \ {0} /\ attemptedAt \in Nat
        BY DEF Schedule, Typed, Row
      <3>2. CalculateDelay(retryCount) \in Nat /\ CalculateDelay(retryCount) >= 1
        BY <3>1, DelayIsPositive
      <3>3. nextRetryAt = attemptedAt + CalculateDelay(retryCount)
        BY DEF Schedule, Row
      <3>4. QED
        BY <3>1, <3>2, <3>3 DEF Unset
    <2>2. QED
      BY <2>1 DEF Schedule, Typed, Row, Times, Phases, AnnouncedRetryIsHonest
  <1>2. QED
    BY <1>1, ScheduleHolds, PTL

\* What the answers so far say: all but the last are worth a retry.
LEMMA AnswersSoFar ==
    ASSUME Schedule
    PROVE  /\ Len(replies) \in {retryCount, retryCount + 1} /\ retryCount \in Nat
           /\ \A n \in 1..Len(replies) : replies[n] \in Replies
           /\ \A n \in 1..Len(replies) :
                n < Len(replies) => OutcomeOf(replies[n]) = "retryable"
  BY DEF Schedule, Typed, Tally

\* A delivery is given up on a rejection, at once, or with the last retry.
THEOREM GivingUpHasAReason == Spec => []GivenUpForAReason
  <1>1. Schedule => GivenUpForAReason
    <2> SUFFICES ASSUME Schedule PROVE GivenUpForAReason
      OBVIOUS
    <2>1. ASSUME NEW n \in 1..Len(replies) - 1
          PROVE  replies[n] \notin Rejections /\ ~ IsStatus(replies[n], 200..299)
      <3>1. replies[n] \in Replies /\ OutcomeOf(replies[n]) = "retryable"
        BY AnswersSoFar
      <3>2. QED
        BY <3>1, OutcomeOfReply DEF Rejections
    <2>2. ASSUME status = "failed"
          PROVE  replies[Len(replies)] \in Rejections \/ Len(replies) = MaxRetryLimit + 1
      <3>1. phase = "resolved"
        BY <2>2 DEF Schedule, Typed, Phases, Row
      <3>2. Len(replies) = retryCount + 1
        BY <3>1 DEF Schedule, Tally
      <3>3. OutcomeOf(replies[retryCount + 1]) = "terminal" \/ retryCount = MaxRetryLimit
        BY <2>2, <3>1 DEF Schedule, Row
      <3>4. replies[retryCount + 1] \in Replies
        BY <3>2, AnswersSoFar
      <3>5. QED
        BY <3>2, <3>3, <3>4, OutcomeOfReply DEF Rejections
    <2>3. QED
      BY <2>1, <2>2 DEF GivenUpForAReason
  <1>2. QED
    BY <1>1, ScheduleHolds, PTL

\* Each time but one that an endpoint takes the notification in, its reply
\* is lost.
THEOREM LostRepliesExplainDuplicates == Spec => []DuplicatesComeFromLostReplies
  <1>1. Schedule => DuplicatesComeFromLostReplies
    <2> SUFFICES ASSUME Schedule PROVE DuplicatesComeFromLostReplies
      OBVIOUS
    <2> DEFINE k == Len(replies)
               T == {n \in 1..k : IsTakenIn(replies[n])}
               L == {n \in 1..k : IsLost(replies[n])}
    <2>1. k \in Nat
      BY AnswersSoFar
    <2>2. ASSUME NEW n \in 1..k
          PROVE  /\ OutcomeOf(replies[n]) = "success" => n \in T /\ n \notin L
                 /\ OutcomeOf(replies[n]) # "success" => (n \in T <=> n \in L)
      <3>1. replies[n] \in Replies
        BY AnswersSoFar
      <3>2. QED
        BY <3>1, OutcomeOfReply DEF IsTakenIn
    <2>3. /\ IsFiniteSet(T) /\ IsFiniteSet(L)
          /\ Cardinality(T) \in Nat /\ Cardinality(L) \in Nat
      <3>1. IsFiniteSet(1..k) /\ T \in SUBSET (1..k) /\ L \in SUBSET (1..k)
        BY <2>1, FS_Interval
      <3> HIDE DEF T, L, k
      <3>2. QED
        BY <3>1, FS_Subset, FS_CardinalityType
    <2>4. ASSUME NEW n \in 1..k, n # k
          PROVE  n \in T <=> n \in L
      <3>1. OutcomeOf(replies[n]) = "retryable"
        BY <2>1, <2>4, AnswersSoFar
      <3>2. QED
        BY <2>2, <3>1
    <2>5. T = L \/ (T = L \cup {k} /\ k \notin L)
      <3>1. CASE k = 0
        BY <3>1
      <3>2. CASE k # 0 /\ OutcomeOf(replies[k]) = "success"
        <4>1. k \in 1..k
          BY <2>1, <3>2
        <4>2. k \in T /\ k \notin L
          BY <2>2, <3>2, <4>1
        <4>3. \A n : n \in T <=> n \in L \cup {k}
          BY <2>4, <4>2
        <4>4. QED
          BY <4>2, <4>3
      <3>3. CASE k # 0 /\ OutcomeOf(replies[k]) # "success"
        <4>1. k \in 1..k
          BY <2>1, <3>3
        <4>2. k \in T <=> k \in L
          BY <2>2, <3>3, <4>1
        <4>3. \A n : n \in T <=> n \in L
          BY <2>4, <4>2
        <4>4. QED
          BY <4>3
      <3>4. QED
        BY <3>1, <3>2, <3>3
    <2>6. \/ T = L /\ Cardinality(T) = Cardinality(L)
          \/ k \in T /\ k \notin L /\ Cardinality(T) = Cardinality(L) + 1
      <3> HIDE DEF T, L, k
      <3>1. CASE T = L
        BY <3>1
      <3>2. CASE T = L \cup {k} /\ k \notin L
        BY <2>3, <3>2, FS_AddElement
      <3>3. QED
        BY <2>5, <3>1, <3>2
    <2>7. ASSUME status \in {"succeeded", "failed"}
          PROVE  k \in 1..k /\ (status = "succeeded" <=> OutcomeOf(replies[k]) = "success")
      <3>1. phase = "resolved"
        BY <2>7 DEF Schedule, Typed, Phases, Row
      <3>2. k = retryCount + 1 /\ retryCount \in Nat
        BY <3>1, AnswersSoFar DEF Schedule, Tally
      <3>3. QED
        BY <2>7, <3>1, <3>2 DEF Schedule, Row
    <2>8. status = "succeeded" => Cardinality(T) = Cardinality(L) + 1
      BY <2>2, <2>6, <2>7
    <2>9. status = "failed" => Cardinality(T) = Cardinality(L)
      BY <2>2, <2>6, <2>7
    <2>10. Cardinality(T) <= Cardinality(L) + 1
      BY <2>3, <2>6
    <2>11. QED
      BY <2>8, <2>9, <2>10 DEF DuplicatesComeFromLostReplies
  <1>2. QED
    BY <1>1, ScheduleHolds, PTL
=============================================================================
