---------------------------- MODULE DeliveryRules ----------------------------
(***************************************************************************)
(* The rules of the platform that touch no shared state: what a row of the *)
(* events and deliveries tables holds, how each repository method changes  *)
(* the copy of a row it has loaded, when a delivery may be sent, what the  *)
(* retry policy decides, and how an event is summarised from its           *)
(* deliveries.  The state machines apply these operators.                  *)
(*                                                                         *)
(* Timestamps, failure text and provider metadata are left out; a nullable *)
(* timestamp that is part of the meaning of a state (queuedAt,             *)
(* finalizedAt) is kept as "is it set".                                    *)
(***************************************************************************)
EXTENDS Naturals, Sequences

CONSTANT MaxRetryLimit  \* maxRetryLimit, stored in a delivery row at creation

ASSUME RetryLimitAssumption == MaxRetryLimit \in Nat

(***************************************************************************)
(* Rows.                                                                   *)
(***************************************************************************)
EventStatus == {"accepted", "queued", "processing", "completed", "failed"}
DeliveryStatus == {"pending", "processing", "retrying", "succeeded", "failed"}
Terminal == {"succeeded", "failed"}

\* What a provider call amounts to once classified: a success, a failure the
\* policy may retry, or one it must not.
Outcome == {"success", "retryable", "terminal"}

EventRow == [status : EventStatus \cup {"absent"},
             queuedAt : BOOLEAN,
             finalizedAt : BOOLEAN]

DeliveryRow == [status : DeliveryStatus \cup {"absent"},
                attemptCount : Nat,
                retryCount : Nat]

AbsentEvent == [status |-> "absent", queuedAt |-> FALSE, finalizedAt |-> FALSE]
AbsentDelivery == [status |-> "absent", attemptCount |-> 0, retryCount |-> 0]

Exists(row) == row.status # "absent"

(***************************************************************************)
(* What each repository method does to the event it has loaded.            *)
(***************************************************************************)
CreateAcceptedEvent == [AbsentEvent EXCEPT !.status = "accepted"]

MarkQueued(event) == [event EXCEPT !.status = "queued", !.queuedAt = TRUE]

\* markProcessing, markCompleted and markFailed.  Only the last two touch
\* finalizedAt, and nothing ever clears it.
MarkSummary(event, status) ==
    [event EXCEPT !.status = status,
                  !.finalizedAt = @ \/ status \in {"completed", "failed"}]

(***************************************************************************)
(* What each repository method does to the delivery it has loaded.         *)
(***************************************************************************)
CreateDelivery == [AbsentDelivery EXCEPT !.status = "pending"]

\* Mutant: a claim starts the retry count again.
MarkProcessingAnew(delivery) ==
    [delivery EXCEPT !.status = "processing", !.retryCount = 0]

MarkProcessing(delivery) == [delivery EXCEPT !.status = "processing"]

\* Mutant: only final outcomes count as attempts.
MarkRetryingUncounted(delivery, retryCount) ==
    [delivery EXCEPT !.status = "retrying", !.retryCount = retryCount]

MarkRetrying(delivery, retryCount) ==
    [status |-> "retrying",
     attemptCount |-> delivery.attemptCount + 1,
     retryCount |-> retryCount]

\* Mutant: only retried attempts count.
MarkAttemptOutcomeUncounted(delivery, status) == [delivery EXCEPT !.status = status]

MarkAttemptOutcome(delivery, status) ==
    [delivery EXCEPT !.status = status, !.attemptCount = @ + 1]

(***************************************************************************)
(* Decisions.                                                              *)
(***************************************************************************)
\* Mutants: one retry too many; any failure is retried.
ShouldRetryOnceMore(retryCount, outcome) ==
    outcome = "retryable" /\ retryCount <= MaxRetryLimit
ShouldRetryAnyFailure(retryCount, outcome) ==
    outcome # "success" /\ retryCount < MaxRetryLimit

\* evaluateRetry: a retryable failure below the limit is scheduled again.
ShouldRetry(retryCount, outcome) ==
    outcome = "retryable" /\ retryCount < MaxRetryLimit

\* The three ways executeDeliveryAttempt ends.  The retry decision uses the
\* retry count of the copy returned when the delivery was claimed; the row
\* it is applied to is loaded again.
RecordOutcome(delivery, claimedRetryCount, outcome) ==
    IF outcome = "success"
      THEN MarkAttemptOutcome(delivery, "succeeded")
      ELSE IF ShouldRetry(claimedRetryCount, outcome)
             THEN MarkRetrying(delivery, claimedRetryCount + 1)
             ELSE MarkAttemptOutcome(delivery, "failed")

\* Mutants: an interrupted send is taken for an initial one; attempts on
\* record are not looked at and a RETRYING delivery passes.
IsEligibleAlsoProcessing(delivery, attemptsMade) ==
    delivery.status \notin Terminal /\ attemptsMade = 0
IsEligibleAlsoRetrying(delivery, attemptsMade) ==
    delivery.status \in {"pending", "retrying"}

\* A first send needs an untouched delivery with no attempt on record.
IsEligibleForInitialSend(delivery, attemptsMade) ==
    delivery.status = "pending" /\ attemptsMade = 0

\* Mutant: an interrupted retry is sent again.
IsEligibleRetryAlsoProcessing(delivery, scheduledRetryCount) ==
    /\ delivery.status \in {"retrying", "processing"}
    /\ delivery.retryCount = scheduledRetryCount

\* A retry needs the delivery to be waiting for exactly this retry.
IsEligibleForRetrySend(delivery, scheduledRetryCount) ==
    delivery.status = "retrying" /\ delivery.retryCount = scheduledRetryCount

\* Mutant: a delivery that failed once fails the event.
EventDeliverySummaryHasty(statuses) ==
    IF statuses \cap {"failed", "retrying"} # {} THEN "failed"
    ELSE IF statuses = {"succeeded"} THEN "completed"
    ELSE "processing"

\* getEventDeliverySummary over the statuses of the deliveries that exist.
EventDeliverySummary(statuses) ==
    IF "failed" \in statuses THEN "failed"
    ELSE IF statuses = {"succeeded"} THEN "completed"
    ELSE "processing"
=============================================================================
