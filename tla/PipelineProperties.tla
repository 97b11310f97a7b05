-------------------------- MODULE PipelineProperties --------------------------
(***************************************************************************)
(* What NotificationPipeline is checked for.                               *)
(***************************************************************************)
EXTENDS NotificationPipeline

(***************************************************************************)
(* Types.                                                                  *)
(***************************************************************************)
ApiState == {"idle", "inserted", "enqueued", "loaded", "answered", "aborted"}

\* The awaits of executeDeliveryAttempt, from the claim to the retry job.
Claimed == {"send", "sequence", "attempt", "loadoutcome", "saveoutcome"}
InAttempt == Claimed \cup {"loadclaim", "saveclaim", "enqueue"}

Labels == InAttempt \cup
    {"idle", "subscriptions", "find", "create", "latest", "loaddelivery",
     "summary", "loadevent", "saveevent", "finish"}

Locals ==
    [job : EventJobs \cup RetryJobs \cup {NoJob},
     todo : SUBSET Subs,
     delivery : Deliveries \cup {NoDelivery},
     row : DeliveryRow,
     event : EventRow,
     sequence : Nat,
     outcome : Outcome \cup {"none"},
     claimed : Nat,
     target : {"completed", "failed", "processing", "none"}]

\* What a handler needs of its locals at each await.
LocalsOK(label, m) ==
    /\ label # "idle" => /\ m.job \in EventJobs \cup RetryJobs
                         /\ m.todo \subseteq MatchingSubs[EventOf(m.job)]
    /\ label \in InAttempt \cup {"create", "latest", "loaddelivery"} =>
         m.delivery \in Deliveries
    /\ label \in {"loadevent", "saveevent"} => m.target # "none"
    /\ label \in Claimed \ {"send"} => m.outcome # "none"

DatabaseOK ==
    /\ events \in [Events -> EventRow]
    /\ deliveries \in [Deliveries -> DeliveryRow]
    /\ attempts \in [Deliveries -> Seq(Outcome)]
    /\ active \subseteq Subs

\* Both queues together: a function from jobs to job records.
IsQueue(q) ==
    /\ q = [j \in DOMAIN q |-> q[j]]
    /\ DOMAIN q \subseteq EventJobs \cup RetryJobs
    /\ \A j \in DOMAIN q : q[j] \in JobRecord(Workers)

WorkersOK ==
    /\ pc \in [Workers -> Labels]
    /\ mem \in [Workers -> Locals]
    /\ \A w \in Workers : LocalsOK(pc[w], mem[w])

\* Type correctness: every variable of the pipeline stays in its type, no
\* handler reaches an await without the locals it is about to use, and the
\* job of a handler is known to the queue.
TypeOK ==
    /\ DatabaseOK
    /\ IsQueue(jobs)
    /\ api \in [Events -> ApiState]
    /\ apiEvent \in [Events -> EventRow]
    /\ WorkersOK
    /\ \A w \in Workers : pc[w] # "idle" => mem[w].job \in DOMAIN jobs
    /\ sent \in [Deliveries -> Seq(Outcome)]

-----------------------------------------------------------------------------
(***************************************************************************)
(* Deliveries.                                                             *)
(***************************************************************************)
\* A notification is sent again only after a retryable failure: never after
\* the provider accepted it, never after a terminal failure.  The guards
\* that see to it are isEligibleForInitialSend and isEligibleForRetrySend,
\* each applied to a copy of the row.
ResentOnlyAfterRetryableFailure ==
    \A d \in Deliveries : \A i \in 1..Len(sent[d]) :
        i < Len(sent[d]) => sent[d][i] = "retryable"

\* Retries are bounded: however jobs are repeated, a delivery is sent at
\* most once more than its retry limit (evaluateRetry).
RetryBudget ==
    \A d \in Deliveries :
        /\ deliveries[d].retryCount <= MaxRetryLimit
        /\ Len(sent[d]) <= MaxRetryLimit + 1

\* The delivery_attempts rows are the provider calls made, in order.  They
\* lag by the one whose row is not written yet, attemptCount lags by the
\* one whose outcome is not, and neither lags unless the delivery is
\* PROCESSING.
AttemptLedger ==
    \A d \in Deliveries :
        LET calls == Len(sent[d])
            rows == Len(attempts[d])
            counted == deliveries[d].attemptCount
        IN  /\ attempts[d] = SubSeq(sent[d], 1, rows)
            /\ rows \in {calls, calls - 1}
            /\ counted \in {rows, rows - 1}
            /\ deliveries[d].status # "processing" => counted = calls

\* The copy returned by the claim stays right for as long as it is used:
\* until the outcome is saved the row is PROCESSING and has the retry count
\* the retry decision is taken from.
ClaimHolds ==
    \A w \in Workers : pc[w] \in Claimed =>
        LET row == deliveries[mem[w].delivery]
        IN  row.status = "processing" /\ row.retryCount = mem[w].claimed

\* Two handlers are never inside executeDeliveryAttempt for one delivery.
OneAttemptAtATime ==
    \A v, w \in Workers :
        /\ pc[v] \in InAttempt
        /\ pc[w] \in InAttempt
        /\ mem[v].delivery = mem[w].delivery
        => v = w

\* The queues never run ahead of the database: an event is durable before
\* its job exists and a delivery before its retry jobs, so no handler meets
\* its "not found" branch, and no retry is queued beyond the limit.
JobsReferToRows ==
    \A j \in DOMAIN jobs :
        /\ j[1] = "event" => Exists(events[j[2]])
        /\ j[1] = "retry" => Exists(deliveries[j[2]]) /\ j[3] \in 1..MaxRetryLimit

\* A retry job is for a retry its delivery has reached: the row is saved
\* before the job is added, and nothing takes the retry count back.
RetriesAreRecorded ==
    \A j \in DOMAIN jobs :
        j[1] = "retry" => j[3] <= deliveries[j[2]].retryCount

\* A retry job is due when its delivery waits for that retry, an event job
\* for as long as the delivery was never claimed.
Due(job, row) ==
    IF job[1] = "event" THEN row.status = "pending"
    ELSE row.status = "retrying" /\ row.retryCount = job[3]

\* What a handler at an await may count on, given the rows of the deliveries
\* and the jobs ever added: the delivery is one of its job, the copy it acts
\* on is the row, and the retry job it is about to add is a new one.
Fit(label, m, rows, known) ==
    LET row == rows[m.delivery]
    IN  /\ m.job[1] = "event" =>
             /\ label # "loaddelivery"
             /\ label \in InAttempt \cup {"create", "latest"} => m.delivery[1] = m.job[2]
        /\ m.job[1] = "retry" =>
             /\ label \notin {"subscriptions", "find", "create", "latest"}
             /\ m.todo = {}
             /\ label \in InAttempt \cup {"loaddelivery"} => m.delivery = m.job[2]
        /\ label = "latest" => (m.row.status = "pending" => row.status = "pending")
        /\ label \in {"loadclaim", "saveclaim"} => Due(m.job, row)
        /\ label \in {"saveclaim", "saveoutcome", "enqueue"} => m.row = row
        /\ label \in Claimed => row.status = "processing" /\ row.retryCount = m.claimed
        /\ label = "enqueue" => /\ row.status = "retrying"
                                /\ RetryJob(m.delivery, row.retryCount) \notin known

\* A handler that may go on to send its delivery, or is doing so.
EngagedAt(label, m) ==
    label \in InAttempt \/ (label = "latest" /\ m.row.status = "pending")
Engaged(w) == EngagedAt(pc[w], mem[w])

\* As long as no running handler loses its lock: every handler owns its job,
\* all it counts on is so, and it shares its delivery with no other.  This
\* is why the guards of the workers suffice although nothing is locked in
\* the database, and the inductive invariant the proofs rest on.
Exclusion ==
    /\ \A w \in Workers : pc[w] # "idle" =>
         /\ jobs[mem[w].job].state = "active"
         /\ jobs[mem[w].job].owner = w
         /\ Fit(pc[w], mem[w], deliveries, DOMAIN jobs)
    /\ \A v, w \in Workers :
         Engaged(v) /\ Engaged(w) /\ mem[v].delivery = mem[w].delivery => v = w
    /\ RetriesAreRecorded

\* What the history of a delivery says, given its row: how many calls were
\* made and recorded, and that all but the last failed in a retryable way.
Booked(row, calls, recorded) ==
    LET n == row.retryCount
    IN  /\ n <= MaxRetryLimit
        /\ Len(recorded) <= Len(calls)
        /\ \A i \in 1..Len(recorded) : recorded[i] = calls[i]
        /\ \A i \in 1..n : calls[i] = "retryable"
        /\ row.status \in {"absent", "pending"} => n = 0
        /\ row.status \in Terminal
             => Len(calls) = n + 1 /\ Len(recorded) = n + 1 /\ row.attemptCount = n + 1
        /\ row.status \notin Terminal => row.attemptCount = n
        /\ row.status = "processing" => Len(calls) \in {n, n + 1} /\ Len(recorded) \in {n, n + 1}
        /\ row.status \notin Terminal \cup {"processing"} => Len(calls) = n /\ Len(recorded) = n

\* How far a handler has got with its attempt, in that history.
BookedAt(label, m, row, calls, recorded) ==
    LET n == row.retryCount
    IN  /\ label = "send" => Len(calls) = n
        /\ label \in Claimed \ {"send"} => Len(calls) = n + 1 /\ calls[n + 1] = m.outcome
        /\ label \in {"sequence", "attempt"} => Len(recorded) = n
        /\ label \in {"loadoutcome", "saveoutcome"} => Len(recorded) = n + 1

\* As long as no running handler loses its lock: the row of a delivery, the
\* calls made for it, the attempts recorded and the handler at work on it
\* agree at every await.  With Exclusion this is inductive; budget, ledger
\* and lifecycle follow from it.
Ledger ==
    /\ \A d \in Deliveries : Booked(deliveries[d], sent[d], attempts[d])
    /\ \A w \in Workers : pc[w] \in Claimed =>
         LET d == mem[w].delivery
         IN  BookedAt(pc[w], mem[w], deliveries[d], sent[d], attempts[d])

Count(outcomes, o) == Cardinality({i \in 1..Len(outcomes) : outcomes[i] = o})

\* Even when handlers of one delivery overlap and the loser of a duplicate
\* sequence fails, the history holds nothing that did not happen: no more
\* rows of an outcome than provider calls that ended so.
NoInventedAttempt ==
    \A d \in Deliveries : \A o \in Outcome : Count(attempts[d], o) <= Count(sent[d], o)

\* Even when handlers of one delivery overlap, sends are bounded: a retry
\* job exists once per retry count, and a job runs once more per stall.
SendsAreBounded ==
    \A d \in Deliveries :
        Len(sent[d]) <= (MaxRetryLimit + 1) * (MaxStalledCount + 1)

\* The job whose handler orders retry n of a delivery.
OrderedBy(d, n) == IF n = 1 THEN EventJob(d[1]) ELSE RetryJob(d, n - 1)

HasFailed(j) == j \in DOMAIN jobs /\ jobs[j].state = "failed"

\* A job is about a delivery when a run of it may send that delivery.
Concerns(j, d) == j = EventJob(d[1]) \/ (j[1] = "retry" /\ j[2] = d)

\* Retry n of a delivery has its job to come: the job is not finished, or
\* the handler that marked the delivery is about to add it.
ToCome(d, n) ==
    \/ RetryJob(d, n) \in DOMAIN jobs /\ jobs[RetryJob(d, n)].state \in {"waiting", "active"}
    \/ \E w \in Workers : pc[w] = "enqueue" /\ mem[w].delivery = d

\* A RETRYING delivery has its retry job to come (README: "Retryable failures
\* schedule delayed delivery-retry jobs").  Without it nothing sends the
\* delivery again.
RetryingIsScheduled ==
    \A d \in Deliveries :
        deliveries[d].status = "retrying" => ToCome(d, deliveries[d].retryCount)

\* Where nothing fails but, perhaps, the queue refuses the ids of retry jobs,
\* a RETRYING delivery has its job to come or was refused one, and then the
\* job whose handler asked for it is on record as failed.
RetryingIsAccountedFor ==
    \A d \in Deliveries : deliveries[d].status = "retrying" =>
        LET n == deliveries[d].retryCount
        IN  \/ ToCome(d, n)
            \/ "refused" \in RetryIdAnswers /\ HasFailed(OrderedBy(d, n))

\* A job that has been interrupted: its handler rejected, or the process that
\* ran it died.
Interrupted(j) ==
    /\ j \in DOMAIN jobs
    /\ \/ jobs[j].state = "failed"
       \/ jobs[j].stalls > 0
       \/ jobs[j].state = "active" /\ ~ Running(jobs[j].owner, j)

\* How many runs of a job, of which it can have MaxStalledCount + 1, were cut
\* short: it stalled, its handler rejected, or the process that runs it died.
CutShort(j) ==
    jobs[j].stalls + IF \/ jobs[j].state = "failed"
                        \/ jobs[j].state = "active" /\ ~ Running(jobs[j].owner, j)
                     THEN 1 ELSE 0

LostRuns(d) ==
    {run \in {j \in DOMAIN jobs : Concerns(j, d)} \X (0..MaxStalledCount) :
        run[2] < CutShort(run[1])}

\* A provider call of which no attempt row tells (the loser of a duplicate
\* attemptSequence, a crash before the insert) leaves a trace in the queues:
\* a delivery has no more of them than handlers about to insert their row and
\* runs of its jobs that were cut short.
UnrecordedSendsLeaveTrace ==
    \A d \in Deliveries :
        LET reporting == {w \in Workers : pc[w] \in {"sequence", "attempt"} /\ mem[w].delivery = d}
        IN  Len(sent[d]) <=
              Len(attempts[d]) + Cardinality(reporting) + Cardinality(LostRuns(d))

\* A RETRYING delivery that nothing will send again can be traced in the
\* queues: either the job of the retry or the job whose handler ordered the
\* retry was interrupted.  No retry gets lost between two handlers that ran
\* to their end.
LostRetryLeavesTrace ==
    \A d \in Deliveries : deliveries[d].status = "retrying" =>
        LET n == deliveries[d].retryCount
            j == RetryJob(d, n)
        IN  \/ j \in DOMAIN jobs /\ jobs[j].state = "waiting"
            \/ \E w \in Workers : \/ Running(w, j)
                                  \/ pc[w] = "enqueue" /\ mem[w].delivery = d
            \/ Interrupted(j)
            \/ Interrupted(OrderedBy(d, n))

Lifecycle == INSTANCE DeliveryLifecycle WITH
    status <- [d \in Deliveries |-> deliveries[d].status],
    retries <- [d \in Deliveries |-> deliveries[d].retryCount],
    log <- attempts

\* Every delivery follows its lifecycle: claims, attempts and resolutions
\* alternate, the last recorded outcome decides, and terminal is final.
ImplementsLifecycle == Lifecycle!Spec

\* When everything is over and no job has failed, no delivery is left
\* PROCESSING: the handler that ran the job again has resumed it (docs/06:
\* "able to resume from durable state if runtime processing is interrupted").
CompletedJobsLeaveNothingProcessing ==
    (Quiescent /\ \A j \in DOMAIN jobs : jobs[j].state = "completed") =>
        \A d \in Deliveries : deliveries[d].status # "processing"

-----------------------------------------------------------------------------
(***************************************************************************)
(* Events.                                                                 *)
(***************************************************************************)
\* When everything is over, every event that was recorded has been handed to
\* the queue (docs/02, FR-05: "shall place accepted events into asynchronous
\* processing after they have been accepted and recorded").
RecordedEventsAreQueued ==
    Quiescent => \A e \in Events : Exists(events[e]) => EventJob(e) \in DOMAIN jobs

\* An event is FAILED only on account of a delivery that failed for good.
FailedEventHasFailedDelivery ==
    \A e \in Events : events[e].status = "failed" =>
        \E d \in DeliveriesOf(e) : deliveries[d].status = "failed"

\* When everything is over, the status of an event that has deliveries is
\* their summary (README: "Event status is summarized from its derived
\* delivery states").
EventStatusIsSummary ==
    Quiescent => \A e \in Events :
        ExistingDeliveriesOf(e) # {} => events[e].status = Summary(e)

-----------------------------------------------------------------------------
(***************************************************************************)
(* Progress, under FairSpec.                                               *)
(***************************************************************************)
\* Once an event is queued, each matching subscription gets a delivery that
\* reaches a terminal status, through as many retries as it takes, unless
\* the queue refuses a retry job: then a job about it ends as failed.
EveryMatchIsResolved ==
    \A d \in Deliveries :
        EventJob(d[1]) \in DOMAIN jobs ~>
            \/ deliveries[d].status \in Terminal
            \/ /\ "refused" \in RetryIdAnswers
               /\ \E j \in DOMAIN jobs : Concerns(j, d) /\ HasFailed(j)

\* Whatever fails, the queues drain: from any point on, every job and every
\* request comes to an end.
QueuesDrain == []<>Quiescent
=============================================================================
