----------------------------- MODULE RetrySchedule -----------------------------
(***************************************************************************)
(* One delivery against one endpoint, with real replies and a clock: how   *)
(* webhook.provider.ts and delivery-failure-classification.service.ts turn *)
(* a reply into a decision, and when delivery-retry-policy.service.ts lets *)
(* the next attempt happen.  NotificationPipeline abstracts both: replies  *)
(* to three outcomes, delays to "a delayed job is a waiting one".          *)
(*                                                                         *)
(* Fault-free, and the queue takes the id of the retry job (see JobQueue): *)
(* one worker, one job at a time.  Time passes while a job is delayed, and *)
(* up to MaxPause units of it at any other moment (a slow endpoint, a slow *)
(* database, a busy worker).                                               *)
(***************************************************************************)
EXTENDS DeliveryRules, FiniteSets

CONSTANTS Replies,    \* <<"status", code>>, <<"network">>, <<"lost">> or <<"thrown">>
          BaseDelay,  \* RETRY_BASE_DELAY_MS
          MaxPause    \* bound on the time that passes outside delays

ASSUME ScheduleAssumption == BaseDelay \in Nat \ {0} /\ MaxPause \in Nat

ASSUME RepliesAssumption == \A reply \in Replies :
    \/ reply \in {<<"network">>, <<"lost">>, <<"thrown">>}
    \/ \E code \in 100..599 : reply = <<"status", code>>

VARIABLES now, paused,   \* the clock, and how much of MaxPause is used
          phase,         \* queued, sending, answered, enqueueing or resolved
          dueAt,         \* when the job in the queue may run
          attemptedAt,   \* local of executeDeliveryAttempt
          retryCount, nextRetryAt, \* columns of the delivery row
          status,
          starts,        \* attemptedAt of each attempt so far
          replies        \* the reply to each of them

vars == <<now, paused, phase, dueAt, attemptedAt, retryCount, nextRetryAt,
          status, starts, replies>>

Unset == 0  \* a null timestamp; the clock starts at 1

(***************************************************************************)
(* From a reply to an outcome.                                             *)
(***************************************************************************)
IsStatus(reply, codes) == reply[1] = "status" /\ reply[2] \in codes

\* The connection broke after the endpoint had taken the notification in: for
\* fetch this is a network error like any other.
IsLost(reply) == reply[1] = "lost"
IsTakenIn(reply) == IsLost(reply) \/ IsStatus(reply, 200..299)

\* Mutant: the test for >= 400 comes before the one for >= 500.
ClassifyFailureSwapped(reply) ==
    CASE reply[1] \in {"network", "lost"} -> "network_error"
      [] reply[1] = "thrown" -> "provider_execution_error"
      [] IsStatus(reply, {401, 403}) -> "authorization_failure"
      [] IsStatus(reply, {404}) -> "invalid_destination"
      [] IsStatus(reply, 400..599 \ {401, 403, 404}) -> "downstream_request_error"
      [] IsStatus(reply, 100..399) -> "unknown_failure"

\* classifyFailure of the provider, and the category of what it throws.
ClassifyFailure(reply) ==
    CASE reply[1] \in {"network", "lost"} -> "network_error"
      [] reply[1] = "thrown" -> "provider_execution_error"
      [] IsStatus(reply, {401, 403}) -> "authorization_failure"
      [] IsStatus(reply, {404}) -> "invalid_destination"
      [] IsStatus(reply, 500..599) -> "provider_http_error"
      [] IsStatus(reply, 400..499 \ {401, 403, 404}) -> "downstream_request_error"
      [] IsStatus(reply, 100..399) -> "unknown_failure"

NormalizeCategory(raw) ==
    CASE raw = "provider_http_error" -> "provider_temporary_failure"
      [] raw = "downstream_request_error" -> "malformed_request"
      [] raw = "provider_execution_error" -> "internal_error"
      [] raw \in {"network_error", "invalid_destination", "authorization_failure"} -> raw
      [] OTHER -> "unknown_failure"

IsRetryable(category) ==
    category \notin {"invalid_destination", "authorization_failure", "malformed_request"}

\* Mutant: only 200 will do.
OutcomeOf200(reply) ==
    IF IsStatus(reply, {200}) THEN "success"
    ELSE IF IsRetryable(NormalizeCategory(ClassifyFailure(reply))) THEN "retryable"
    ELSE "terminal"

\* response.ok, else the classification.
OutcomeOf(reply) ==
    IF IsStatus(reply, 200..299) THEN "success"
    ELSE IF IsRetryable(NormalizeCategory(ClassifyFailure(reply))) THEN "retryable"
    ELSE "terminal"

\* Mutant: the delay grows with the retries already made, from zero.
CalculateDelayLinear(nextRetryCount) == BaseDelay * (nextRetryCount - 1)

CalculateDelay(nextRetryCount) == BaseDelay * 2 ^ (nextRetryCount - 1)

(***************************************************************************)
(* The attempts of the delivery.                                           *)
(***************************************************************************)
Init ==
    /\ now = 1 /\ paused = 0
    /\ phase = "queued" /\ dueAt = 1 /\ attemptedAt = Unset
    /\ retryCount = 0 /\ nextRetryAt = Unset /\ status = "pending"
    /\ starts = <<>> /\ replies = <<>>

\* A worker takes the job, which is due, notes the time and claims.
Start ==
    /\ phase = "queued"
    /\ now >= dueAt
    /\ phase' = "sending"
    /\ attemptedAt' = now
    /\ starts' = Append(starts, now)
    /\ nextRetryAt' = Unset
    /\ status' = "processing"
    /\ UNCHANGED <<now, paused, dueAt, retryCount, replies>>

Send ==
    /\ phase = "sending"
    /\ \E reply \in Replies : replies' = Append(replies, reply)
    /\ phase' = "answered"
    /\ UNCHANGED <<now, paused, dueAt, attemptedAt, retryCount, nextRetryAt, status, starts>>

\* evaluateRetry and the save of what it decides.
Decide ==
    LET outcome == OutcomeOf(replies[Len(replies)])
    IN  /\ phase = "answered"
        /\ IF ShouldRetry(retryCount, outcome)
             THEN /\ phase' = "enqueueing"
                  /\ status' = "retrying"
                  /\ retryCount' = retryCount + 1
                  /\ nextRetryAt' = attemptedAt + CalculateDelay(retryCount + 1)
             ELSE /\ phase' = "resolved"
                  /\ status' = IF outcome = "success" THEN "succeeded" ELSE "failed"
                  /\ nextRetryAt' = Unset
                  /\ UNCHANGED retryCount
        /\ UNCHANGED <<now, paused, dueAt, attemptedAt, starts, replies>>

\* Mutant: the job runs as soon as a worker is free.
EnqueueAtOnce ==
    /\ phase = "enqueueing"
    /\ phase' = "queued"
    /\ dueAt' = now
    /\ attemptedAt' = Unset
    /\ UNCHANGED <<now, paused, retryCount, nextRetryAt, status, starts, replies>>

\* The delay of the job counts from the moment it is added.
Enqueue ==
    /\ phase = "enqueueing"
    /\ phase' = "queued"
    /\ dueAt' = now + CalculateDelay(retryCount)
    /\ attemptedAt' = Unset
    /\ UNCHANGED <<now, paused, retryCount, nextRetryAt, status, starts, replies>>

Wait ==
    /\ phase = "queued"
    /\ now < dueAt
    /\ now' = now + 1
    /\ UNCHANGED <<paused, phase, dueAt, attemptedAt, retryCount, nextRetryAt, status, starts, replies>>

Pause ==
    /\ phase # "resolved"
    /\ paused < MaxPause
    /\ now' = now + 1
    /\ paused' = paused + 1
    /\ UNCHANGED <<phase, dueAt, attemptedAt, retryCount, nextRetryAt, status, starts, replies>>

Rest == phase = "resolved" /\ UNCHANGED vars

Next == Start \/ Send \/ Decide \/ Enqueue \/ Wait \/ Pause \/ Rest

Spec == Init /\ [][Next]_vars

(***************************************************************************)
(* Properties.                                                             *)
(***************************************************************************)
\* Attempts back off: the n-th retry starts at least BaseDelay * 2^(n-1)
\* after the attempt before it (docs/06: "retries should be delayed rather
\* than executed in tight immediate loops").  The sum of the waits is known.
AttemptsBackOff ==
    /\ \A n \in 1..Len(starts) - 1 : starts[n + 1] - starts[n] >= BaseDelay * 2 ^ (n - 1)
    /\ Len(starts) > 0 =>
         starts[Len(starts)] - starts[1] >= BaseDelay * (2 ^ (Len(starts) - 1) - 1)

\* The next_retry_at shown to an operator is honest: it is set exactly while
\* the delivery is RETRYING, and the job in the queue is not due before it.
AnnouncedRetryIsHonest ==
    /\ (nextRetryAt # Unset) <=> (status = "retrying")
    /\ phase = "queued" /\ status = "retrying" => nextRetryAt <= dueAt

\* Replies that speak against the request itself.
Rejections == {reply \in Replies : IsStatus(reply, 400..499)}

\* A delivery is given up for a reason: the endpoint rejected the request,
\* which ends the delivery at once, or the whole retry budget was used.
GivenUpForAReason ==
    /\ \A n \in 1..Len(replies) - 1 :
         replies[n] \notin Rejections /\ ~ IsStatus(replies[n], 200..299)
    /\ status = "failed" =>
         replies[Len(replies)] \in Rejections \/ Len(replies) = MaxRetryLimit + 1

\* An endpoint gets a notification again only for a reply that was lost, and
\* a delivery that ends FAILED although the endpoint has the notification
\* does so only on account of lost replies (docs/09: "Tolerate at-least-once
\* processing").
DuplicatesComeFromLostReplies ==
    LET takenIn == Cardinality({n \in 1..Len(replies) : IsTakenIn(replies[n])})
        lost == Cardinality({n \in 1..Len(replies) : IsLost(replies[n])})
    IN  /\ takenIn <= lost + 1
        /\ status = "succeeded" => takenIn = lost + 1
        /\ status = "failed" => takenIn = lost
=============================================================================
