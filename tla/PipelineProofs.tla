---------------------------- MODULE PipelineProofs ----------------------------
(***************************************************************************)
(* Theorems about NotificationPipeline for any number of events,           *)
(* subscriptions and workers, any retry limit and any faults: its types,   *)
(* and that no job is ahead of the database.                               *)
(***************************************************************************)
EXTENDS PipelineProperties, TLAPS

(***************************************************************************)
(* Facts about the rules and the queue.                                    *)
(***************************************************************************)
\* Every way a row of the deliveries table is rewritten keeps it a row.
LEMMA DeliveryRowsTyped ==
    ASSUME NEW row \in DeliveryRow, NEW n \in Nat, NEW o \in Outcome
    PROVE  /\ CreateDelivery \in DeliveryRow
           /\ MarkProcessing(row) \in DeliveryRow
           /\ RecordOutcome(row, n, o) \in DeliveryRow
  <1> USE DEF DeliveryRow, DeliveryStatus
  <1>1. CreateDelivery \in DeliveryRow
    BY DEF AbsentDelivery, CreateDelivery
  <1>2. MarkProcessing(row) \in DeliveryRow
    BY DEF MarkProcessing
  <1>0. row.attemptCount + 1 \in Nat /\ n + 1 \in Nat
    OBVIOUS
  <1>3. MarkRetrying(row, n + 1) \in DeliveryRow
    BY <1>0 DEF MarkRetrying
  <1>4. \A status \in Terminal : MarkAttemptOutcome(row, status) \in DeliveryRow
    BY <1>0 DEF MarkAttemptOutcome, Terminal
  <1>5. RecordOutcome(row, n, o) \in DeliveryRow
    BY <1>3, <1>4 DEF RecordOutcome, Terminal
  <1>6. QED
    BY <1>1, <1>2, <1>5

\* Every way a row of the events table is rewritten keeps it a row.
LEMMA EventRowsTyped ==
    ASSUME NEW row \in EventRow, NEW status \in {"completed", "failed", "processing"}
    PROVE  /\ CreateAcceptedEvent \in EventRow
           /\ MarkQueued(row) \in EventRow
           /\ MarkSummary(row, status) \in EventRow
  BY DEF EventRow, EventStatus, AbsentEvent, CreateAcceptedEvent, MarkQueued, MarkSummary

\* Every queue operation gives a queue again.
LEMMA AddTyped ==
    ASSUME NEW q, IsQueue(q), NEW j \in EventJobs \cup RetryJobs
    PROVE  IsQueue(Add(q, j))
  BY StalledAssumption DEF IsQueue, Add, NewJob, JobRecord, JobState

LEMMA MoveTyped ==
    ASSUME NEW q, IsQueue(q), NEW j \in DOMAIN q, NEW w \in Workers,
           NEW state \in {"completed", "failed"}
    PROVE  /\ IsQueue(MoveToActive(q, j, w))
           /\ IsQueue(MoveToFinished(q, j, w, state))
           /\ DOMAIN MoveToActive(q, j, w) = DOMAIN q
           /\ DOMAIN MoveToFinished(q, j, w, state) = DOMAIN q
  <1>1. q[j] \in JobRecord(Workers)
    BY DEF IsQueue
  <1>2. [q[j] EXCEPT !.state = "active", !.owner = w] \in JobRecord(Workers)
    BY <1>1 DEF JobRecord, JobState
  <1>3. [q[j] EXCEPT !.state = state, !.owner = NoWorker] \in JobRecord(Workers)
    BY <1>1 DEF JobRecord, JobState
  <1>4. QED
    BY <1>2, <1>3 DEF IsQueue, MoveToActive, MoveToFinished

LEMMA MoveStalledTyped ==
    ASSUME NEW q, IsQueue(q), NEW j \in DOMAIN q
    PROVE  IsQueue(MoveStalled(q, j)) /\ DOMAIN MoveStalled(q, j) = DOMAIN q
  <1> DEFINE stalled == IF q[j].stalls < MaxStalledCount
                  THEN [state |-> "waiting", owner |-> NoWorker, stalls |-> q[j].stalls + 1]
                  ELSE [state |-> "failed", owner |-> NoWorker, stalls |-> q[j].stalls]
  <1>1. q[j] \in JobRecord(Workers)
    BY DEF IsQueue
  <1>2. stalled \in JobRecord(Workers)
    <2>1. CASE q[j].stalls < MaxStalledCount
      BY <1>1, <2>1, StalledAssumption DEF JobRecord, JobState
    <2>2. CASE ~ (q[j].stalls < MaxStalledCount)
      BY <1>1, <2>2 DEF JobRecord, JobState
    <2>3. QED
      BY <2>1, <2>2
  <1>3. QED
    BY <1>2 DEF IsQueue, MoveStalled

-----------------------------------------------------------------------------
(***************************************************************************)
(* Type correctness.                                                       *)
(***************************************************************************)
\* A step of one handler to locals that suit the next await is type correct.
LEMMA GoToTyped ==
    ASSUME WorkersOK, NEW w \in Workers, NEW label \in Labels, NEW m \in Locals,
           LocalsOK(label, m), GoTo(w, label, m)
    PROVE  WorkersOK'
  BY DEF WorkersOK, GoTo

LEMMA NoMemTyped == NoMem \in Locals /\ LocalsOK("idle", NoMem)
  BY DEF NoMem, Locals, LocalsOK, NoJob, NoDelivery, AbsentDelivery, AbsentEvent,
         DeliveryRow, EventRow, InAttempt, Claimed

\* Whatever the loop leaves is still fit for its head and for the summary.
LEMMA NextInLoopTyped ==
    ASSUME WorkersOK, NEW w \in Workers, pc[w] # "idle", NextInLoop(w)
    PROVE  WorkersOK'
  <1> DEFINE m == mem[w]
             rest == m.todo \ {m.delivery[2]}
             label == IF rest = {} THEN "summary" ELSE "find"
             next == [NoMem EXCEPT !.job = m.job, !.todo = rest, !.delivery = m.delivery]
  <1>1. m \in Locals /\ LocalsOK(pc[w], m)
    BY DEF WorkersOK
  <1>2. next \in Locals
    BY <1>1, NoMemTyped DEF NoMem, Locals
  <1>3. LocalsOK(label, next)
    BY <1>1 DEF LocalsOK, NoMem, Locals, InAttempt, Claimed
  <1>4. label \in Labels
    BY DEF Labels
  <1>5. GoTo(w, label, next)
    BY DEF NextInLoop
  <1> HIDE DEF m, rest, label, next
  <1>6. QED
    BY <1>2, <1>3, <1>4, <1>5, GoToTyped

\* A handler that rejects leaves a queue and an idle worker behind.
LEMMA RejectTyped ==
    ASSUME WorkersOK, IsQueue(jobs), NEW w \in Workers, mem[w].job \in DOMAIN jobs,
           Reject(w)
    PROVE  WorkersOK' /\ IsQueue(jobs')
  <1>1. WorkersOK'
    BY NoMemTyped, GoToTyped DEF Reject, Labels
  <1>2. IsQueue(jobs')
    BY MoveTyped DEF Reject
  <1>3. QED
    BY <1>1, <1>2

\* Adding a job keeps the queue, its jobs and every handler's job in it.
LEMMA AddKeepsJobs ==
    ASSUME NEW q, NEW j
    PROVE  DOMAIN Add(q, j) = DOMAIN q \cup {j}
  BY DEF Add

LEMMA InitTyped == Init => TypeOK
  <1> SUFFICES ASSUME Init PROVE TypeOK
    OBVIOUS
  <1> USE DEF Init
  <1>1. AbsentEvent \in EventRow /\ AbsentDelivery \in DeliveryRow
    BY DEF AbsentEvent, EventRow, AbsentDelivery, DeliveryRow
  <1>2. DatabaseOK /\ sent \in [Deliveries -> Seq(Outcome)]
    BY <1>1 DEF DatabaseOK
  <1>3. IsQueue(jobs)
    BY DEF IsQueue
  <1>4. WorkersOK
    BY NoMemTyped DEF WorkersOK, Labels
  <1>5. QED
    BY <1>1, <1>2, <1>3, <1>4 DEF TypeOK, ApiState

\* The steps of createEvent and of an administrator.
LEMMA RequestTyped ==
    ASSUME TypeOK, NEW e \in Events,
           InsertEvent(e) \/ RequestStep(e) \/ AbortRequest(e)
    PROVE  TypeOK'
  <1> USE DEF TypeOK, ApiState
  <1>0. AbsentEvent \in EventRow
    BY DEF AbsentEvent, EventRow
  <1>1. CASE InsertEvent(e)
    <2>1. CreateAcceptedEvent \in EventRow
      BY DEF CreateAcceptedEvent, AbsentEvent, EventRow, EventStatus
    <2>2. QED
      BY <1>1, <2>1 DEF InsertEvent, DatabaseOK, WorkersOK
  <1>2. CASE EnqueueEvent(e)
    <2>1. EventJob(e) \in EventJobs
      BY DEF EventJob, EventJobs
    <2>2. IsQueue(jobs') /\ DOMAIN jobs \subseteq DOMAIN jobs'
      <3>1. jobs' = Add(jobs, EventJob(e)) /\ IsQueue(jobs)
        BY <1>2 DEF EnqueueEvent
      <3> HIDE DEF TypeOK
      <3>2. QED
        BY <2>1, <3>1, AddTyped, AddKeepsJobs
    <2>3. QED
      BY <1>2, <2>2 DEF EnqueueEvent, DatabaseOK, WorkersOK, db
  <1>3. CASE LoadQueuedEvent(e)
    BY <1>3 DEF LoadQueuedEvent, DatabaseOK, WorkersOK, db
  <1>4. CASE SaveQueuedEvent(e)
    <2>1. MarkQueued(apiEvent[e]) \in EventRow
      BY EventRowsTyped
    <2>2. QED
      BY <1>0, <1>4, <2>1 DEF SaveQueuedEvent, DatabaseOK, WorkersOK
  <1>5. CASE AbortRequest(e)
    BY <1>0, <1>5 DEF AbortRequest, DatabaseOK, WorkersOK, db
  <1>6. QED
    BY <1>1, <1>2, <1>3, <1>4, <1>5 DEF RequestStep

\* The locals that let a handler go from the await it is at to another one:
\* they are typed, fit for it, and still about the same job.
Suits(w, label, m) ==
    /\ label \in Labels
    /\ m \in Locals
    /\ LocalsOK(label, m)
    /\ label # "idle" => m.job \in DOMAIN jobs

\* A handler step that leaves the queue alone.
LEMMA QuietStepTyped ==
    ASSUME TypeOK, NEW w \in Workers, NEW label, NEW m, Suits(w, label, m),
           GoTo(w, label, m), UNCHANGED <<jobs, apiVars>>,
           DatabaseOK', sent' \in [Deliveries -> Seq(Outcome)]
    PROVE  TypeOK'
  <1>1. WorkersOK'
    BY GoToTyped DEF TypeOK, Suits
  <1>2. \A v \in Workers : pc'[v] # "idle" => mem'[v].job \in DOMAIN jobs
    BY DEF TypeOK, WorkersOK, GoTo, Suits
  <1>3. QED
    BY <1>1, <1>2 DEF TypeOK, apiVars

\* The same for the end of a loop iteration, which may have added a job.
LEMMA NextInLoopStepTyped ==
    ASSUME TypeOK, NEW w \in Workers, pc[w] # "idle", NextInLoop(w),
           IsQueue(jobs'), DOMAIN jobs \subseteq DOMAIN jobs', UNCHANGED apiVars,
           DatabaseOK', sent' \in [Deliveries -> Seq(Outcome)]
    PROVE  TypeOK'
  <1>1. WorkersOK'
    BY NextInLoopTyped DEF TypeOK
  <1>2. \A v \in Workers : pc'[v] # "idle" => mem'[v].job \in DOMAIN jobs'
    <2>1. mem'[w].job = mem[w].job
      BY DEF TypeOK, WorkersOK, NextInLoop, GoTo, NoMem
    <2>2. QED
      BY <2>1 DEF TypeOK, WorkersOK, NextInLoop, GoTo
  <1>3. QED
    BY <1>1, <1>2 DEF TypeOK, apiVars

LEMMA RejectStepTyped ==
    ASSUME TypeOK, NEW w \in Workers, pc[w] # "idle", Reject(w), UNCHANGED apiVars,
           DatabaseOK', sent' \in [Deliveries -> Seq(Outcome)]
    PROVE  TypeOK'
  <1>1. WorkersOK' /\ IsQueue(jobs')
    BY RejectTyped DEF TypeOK
  <1>2. DOMAIN jobs' = DOMAIN jobs
    BY MoveTyped DEF TypeOK, Reject
  <1>3. \A v \in Workers : pc'[v] # "idle" => mem'[v].job \in DOMAIN jobs'
    BY <1>2 DEF TypeOK, WorkersOK, Reject, GoTo
  <1>4. QED
    BY <1>1, <1>3 DEF TypeOK, apiVars

LEMMA TakeJobTyped ==
    ASSUME TypeOK, NEW w \in Workers, TakeEventJob(w) \/ TakeRetryJob(w)
    PROVE  TypeOK'
  <1>1. PICK j, label, m :
          /\ j \in DOMAIN jobs
          /\ label \in {"subscriptions", "loaddelivery"}
          /\ jobs' = MoveToActive(jobs, j, w)
          /\ GoTo(w, label, m)
          /\ \/ /\ label = "subscriptions"
                /\ m = [NoMem EXCEPT !.job = j]
             \/ /\ label = "loaddelivery"
                /\ m = [NoMem EXCEPT !.job = j, !.delivery = j[2]]
                /\ j \in RetryJobs
    BY DEF TakeEventJob, TakeRetryJob, TypeOK, IsQueue
  <1>2. j \in EventJobs \cup RetryJobs
    BY <1>1 DEF TypeOK, IsQueue
  <1>3. m \in Locals /\ m.job = j /\ m.todo = {}
    BY <1>1, <1>2, NoMemTyped DEF NoMem, Locals, RetryJobs
  <1>4. LocalsOK(label, m)
    BY <1>1, <1>2, <1>3 DEF LocalsOK, InAttempt, Claimed, NoMem, RetryJobs
  <1>5. IsQueue(jobs') /\ DOMAIN jobs' = DOMAIN jobs
    BY <1>1, MoveTyped DEF TypeOK
  <1>6. WorkersOK'
    BY <1>1, <1>3, <1>4, GoToTyped DEF TypeOK, Labels
  <1>7. \A v \in Workers : pc'[v] # "idle" => mem'[v].job \in DOMAIN jobs'
    BY <1>1, <1>3, <1>5 DEF TypeOK, WorkersOK, GoTo
  <1>8. UNCHANGED <<db, active, apiVars, sent>>
    BY DEF TakeEventJob, TakeRetryJob
  <1>9. QED
    BY <1>5, <1>6, <1>7, <1>8 DEF TypeOK, DatabaseOK, db, apiVars

\* The steps that only read: they change nothing but the worker.
LEMMA ReadStepTyped ==
    ASSUME TypeOK, NEW w \in Workers,
           \/ FindSubscriptions(w) \/ FindDelivery(w) \/ CheckInitialSend(w)
           \/ LoadDelivery(w) \/ LoadClaim(w) \/ NextAttemptSequence(w)
           \/ LoadForOutcome(w) \/ ReadSummary(w) \/ LoadEvent(w)
    PROVE  TypeOK'
  <1> DEFINE m == mem[w]
  <1> USE DEF InAttempt, Claimed
  <1>1. m \in Locals /\ LocalsOK(pc[w], m) /\ (pc[w] # "idle" => m.job \in DOMAIN jobs)
    BY DEF TypeOK, WorkersOK
  <1>2. UNCHANGED <<db, active, jobs, apiVars, sent>> /\ pc[w] # "idle"
    BY DEF FindSubscriptions, FindDelivery, CheckInitialSend, LoadDelivery, LoadClaim,
           NextAttemptSequence, LoadForOutcome, ReadSummary, LoadEvent
  <1>3. DatabaseOK' /\ sent' \in [Deliveries -> Seq(Outcome)]
    BY <1>2 DEF TypeOK, DatabaseOK, db
  <1>4. \A label, n : Suits(w, label, n) /\ GoTo(w, label, n) => TypeOK'
    BY <1>2, <1>3, QuietStepTyped
  <1>5. EventOf(m.job) \in Events
    BY <1>1, <1>2 DEF LocalsOK, EventOf, EventJobs, RetryJobs, Deliveries
  <1>6. MatchingSubs[EventOf(m.job)] \subseteq Subs
    BY <1>5, SubsAssumption
  <1>7. CASE FindSubscriptions(w)
    <2> DEFINE matched == MatchingSubs[EventOf(m.job)] \cap active
               n == [m EXCEPT !.todo = matched,
                              !.target = IF matched = {} THEN "completed" ELSE "processing"]
    <2>1. n \in Locals /\ n.job = m.job /\ n.todo = matched /\ n.target # "none"
      BY <1>1, <1>6 DEF Locals
    <2>2. Suits(w, "loadevent", n)
      BY <1>1, <1>2, <2>1 DEF Suits, LocalsOK, Labels
    <2>3. QED
      BY <1>4, <1>7, <2>2 DEF FindSubscriptions
  <1>8. CASE FindDelivery(w)
    <2>1. PICK s \in m.todo :
            GoTo(w, IF Exists(deliveries[<<EventOf(m.job), s>>]) THEN "latest" ELSE "create",
                 [m EXCEPT !.delivery = <<EventOf(m.job), s>>,
                           !.row = deliveries[<<EventOf(m.job), s>>]])
      BY <1>8 DEF FindDelivery
    <2> DEFINE d == <<EventOf(m.job), s>>
               n == [m EXCEPT !.delivery = d, !.row = deliveries[d]]
               label == IF Exists(deliveries[d]) THEN "latest" ELSE "create"
    <2>2. d \in Deliveries
      BY <1>1, <1>2, <1>5, <1>6 DEF LocalsOK, Deliveries
    <2>3. n \in Locals /\ n.job = m.job /\ n.todo = m.todo /\ n.delivery = d
      BY <1>1, <2>2 DEF Locals, TypeOK, DatabaseOK
    <2>4. Suits(w, label, n)
      BY <1>1, <1>2, <2>2, <2>3 DEF Suits, LocalsOK, Labels
    <2>5. QED
      BY <1>4, <2>1, <2>4
  <1>9. CASE CheckInitialSend(w)
    <2>1. CASE IsEligibleForInitialSend(m.row, Len(attempts[m.delivery]))
      <3> DEFINE n == [m EXCEPT !.row = AbsentDelivery]
      <3>1. n \in Locals /\ n.job = m.job /\ n.todo = m.todo /\ n.delivery = m.delivery
        BY <1>1 DEF Locals, AbsentDelivery, DeliveryRow
      <3>2. Suits(w, "loadclaim", n)
        BY <1>1, <1>2, <1>9, <3>1 DEF Suits, LocalsOK, Labels, CheckInitialSend
      <3>3. QED
        BY <1>4, <1>9, <2>1, <3>2 DEF CheckInitialSend
    <2>2. CASE ~ IsEligibleForInitialSend(m.row, Len(attempts[m.delivery]))
      <3>1. NextInLoop(w)
        BY <1>9, <2>2 DEF CheckInitialSend
      <3>2. IsQueue(jobs') /\ DOMAIN jobs \subseteq DOMAIN jobs' /\ UNCHANGED apiVars
        BY <1>2 DEF TypeOK
      <3>3. QED
        BY <1>2, <1>3, <3>1, <3>2, NextInLoopStepTyped
    <2>3. QED
      BY <2>1, <2>2
  <1>10. CASE LoadDelivery(w)
    <2>1. Suits(w, "loadclaim", m) /\ Suits(w, "summary", m)
      BY <1>1, <1>2, <1>10 DEF Suits, LocalsOK, Labels, LoadDelivery
    <2>2. QED
      BY <1>4, <1>10, <2>1 DEF LoadDelivery
  <1>11. CASE LoadClaim(w) \/ LoadForOutcome(w)
    <2> DEFINE n == [m EXCEPT !.row = deliveries[m.delivery]]
    <2>1. m.delivery \in Deliveries
      BY <1>1, <1>11 DEF LocalsOK, LoadClaim, LoadForOutcome
    <2>2. /\ n \in Locals /\ n.job = m.job /\ n.todo = m.todo
          /\ n.delivery = m.delivery /\ n.outcome = m.outcome
      BY <1>1, <2>1 DEF Locals, TypeOK, DatabaseOK
    <2>3. CASE LoadClaim(w)
      <3>1. Suits(w, "saveclaim", n)
        BY <1>1, <1>2, <2>1, <2>2, <2>3 DEF Suits, LocalsOK, Labels, LoadClaim
      <3>2. QED
        BY <1>4, <2>3, <3>1 DEF LoadClaim
    <2>4. CASE LoadForOutcome(w)
      <3>1. Suits(w, "saveoutcome", n)
        BY <1>1, <1>2, <2>1, <2>2, <2>4 DEF Suits, LocalsOK, Labels, LoadForOutcome
      <3>2. QED
        BY <1>4, <2>4, <3>1 DEF LoadForOutcome
    <2>5. QED
      BY <1>11, <2>3, <2>4
  <1>12. CASE NextAttemptSequence(w)
    <2> DEFINE n == [m EXCEPT !.sequence = Len(attempts[m.delivery]) + 1]
    <2>1. m.delivery \in Deliveries
      BY <1>1, <1>12 DEF LocalsOK, NextAttemptSequence
    <2>2. Len(attempts[m.delivery]) + 1 \in Nat
      BY <2>1 DEF TypeOK, DatabaseOK
    <2>3. /\ n \in Locals /\ n.job = m.job /\ n.todo = m.todo
          /\ n.delivery = m.delivery /\ n.outcome = m.outcome
      BY <1>1, <2>2 DEF Locals
    <2>4. Suits(w, "attempt", n)
      BY <1>1, <1>2, <1>12, <2>1, <2>3 DEF Suits, LocalsOK, Labels, NextAttemptSequence
    <2>5. QED
      BY <1>4, <1>12, <2>4 DEF NextAttemptSequence
  <1>13. CASE ReadSummary(w)
    <2> DEFINE n == [m EXCEPT !.target = Summary(EventOf(m.job))]
    <2>1. Summary(EventOf(m.job)) \in {"completed", "failed", "processing"}
      BY DEF Summary, EventDeliverySummary
    <2>2. n \in Locals /\ n.job = m.job /\ n.todo = m.todo /\ n.target # "none"
      BY <1>1, <2>1 DEF Locals
    <2>3. Suits(w, "loadevent", n)
      BY <1>1, <1>2, <2>2 DEF Suits, LocalsOK, Labels
    <2>4. QED
      BY <1>4, <1>13, <2>3 DEF ReadSummary
  <1>14. CASE LoadEvent(w)
    <2> DEFINE n == [m EXCEPT !.event = events[EventOf(m.job)]]
    <2>1. n \in Locals /\ n.job = m.job /\ n.todo = m.todo /\ n.target = m.target
      BY <1>1, <1>5 DEF Locals, TypeOK, DatabaseOK
    <2>2. Suits(w, "saveevent", n)
      BY <1>1, <1>2, <1>14, <2>1 DEF Suits, LocalsOK, Labels, LoadEvent
    <2>3. QED
      BY <1>4, <1>14, <2>2 DEF LoadEvent
  <1>15. QED
    BY <1>7, <1>8, <1>9, <1>10, <1>11, <1>12, <1>13, <1>14

\* The steps of executeDeliveryAttempt and of the loop that write.
LEMMA WriteStepTyped ==
    ASSUME TypeOK, NEW w \in Workers,
           \/ CreateOrFindDelivery(w) \/ SaveClaim(w) \/ Send(w)
           \/ InsertAttempt(w) \/ SaveOutcome(w) \/ EnqueueRetry(w)
    PROVE  TypeOK'
  <1> DEFINE m == mem[w]
             d == m.delivery
  <1> USE DEF InAttempt, Claimed
  <1>1. m \in Locals /\ LocalsOK(pc[w], m) /\ (pc[w] # "idle" => m.job \in DOMAIN jobs)
    BY DEF TypeOK, WorkersOK
  <1>2. pc[w] # "idle" /\ d \in Deliveries
    BY <1>1 DEF CreateOrFindDelivery, SaveClaim, Send, InsertAttempt, SaveOutcome,
                EnqueueRetry, RetryTaken, RetryRefused, LocalsOK
  <1>3. \A label, n : /\ Suits(w, label, n)
                      /\ GoTo(w, label, n)
                      /\ UNCHANGED <<jobs, apiVars>>
                      /\ DatabaseOK'
                      /\ sent' \in [Deliveries -> Seq(Outcome)]
                      => TypeOK'
    BY QuietStepTyped
  <1>4. AbsentDelivery \in DeliveryRow
    BY DEF AbsentDelivery, DeliveryRow
  <1>5. CASE CreateOrFindDelivery(w)
    <2> DEFINE row == IF Exists(deliveries[d]) THEN deliveries[d] ELSE CreateDelivery
               n == [m EXCEPT !.row = row]
    <2>1. row \in DeliveryRow
      BY <1>2 DEF TypeOK, DatabaseOK, CreateDelivery, AbsentDelivery, DeliveryRow, DeliveryStatus
    <2>2. n \in Locals /\ n.job = m.job /\ n.todo = m.todo /\ n.delivery = d
      BY <1>1, <2>1 DEF Locals
    <2>3. Suits(w, "latest", n)
      BY <1>1, <1>2, <2>2 DEF Suits, LocalsOK, Labels
    <2>4. DatabaseOK' /\ sent' \in [Deliveries -> Seq(Outcome)]
      BY <1>5, <2>1 DEF CreateOrFindDelivery, TypeOK, DatabaseOK
    <2>5. QED
      BY <1>3, <1>5, <2>3, <2>4 DEF CreateOrFindDelivery
  <1>6. CASE SaveClaim(w)
    <2> DEFINE n == [m EXCEPT !.claimed = m.row.retryCount, !.row = AbsentDelivery]
    <2>1. MarkProcessing(m.row) \in DeliveryRow /\ m.row.retryCount \in Nat
      BY <1>1 DEF Locals, MarkProcessing, DeliveryRow, DeliveryStatus
    <2>2. n \in Locals /\ n.job = m.job /\ n.todo = m.todo /\ n.delivery = d
      BY <1>1, <1>4, <2>1 DEF Locals
    <2>3. Suits(w, "send", n)
      BY <1>1, <1>2, <2>2 DEF Suits, LocalsOK, Labels
    <2>4. DatabaseOK' /\ sent' \in [Deliveries -> Seq(Outcome)]
      BY <1>6, <2>1 DEF SaveClaim, TypeOK, DatabaseOK
    <2>5. QED
      BY <1>3, <1>6, <2>3, <2>4 DEF SaveClaim
  <1>7. CASE Send(w)
    <2>1. PICK o \in ProviderOutcomes :
            /\ sent' = [sent EXCEPT ![d] = Append(@, o)]
            /\ GoTo(w, "sequence", [m EXCEPT !.outcome = o])
      BY <1>7 DEF Send
    <2> DEFINE n == [m EXCEPT !.outcome = o]
    <2>2. o \in Outcome /\ o # "none"
      BY OutcomesAssumption DEF Outcome
    <2>3. n \in Locals /\ n.job = m.job /\ n.todo = m.todo /\ n.delivery = d /\ n.outcome = o
      BY <1>1, <2>2 DEF Locals
    <2>4. Suits(w, "sequence", n)
      BY <1>1, <1>2, <2>2, <2>3 DEF Suits, LocalsOK, Labels
    <2>5. DatabaseOK' /\ sent' \in [Deliveries -> Seq(Outcome)]
      BY <1>2, <1>7, <2>1, <2>2 DEF Send, TypeOK, DatabaseOK, db
    <2>6. QED
      BY <1>3, <1>7, <2>1, <2>4, <2>5 DEF Send
  <1>8. CASE InsertAttempt(w)
    <2>1. m.outcome \in Outcome
      BY <1>1, <1>8 DEF InsertAttempt, LocalsOK, Locals
    <2>2. CASE m.sequence = Len(attempts[d]) + 1
      <3> DEFINE n == [m EXCEPT !.sequence = 0]
      <3>1. /\ n \in Locals /\ n.job = m.job /\ n.todo = m.todo
            /\ n.delivery = d /\ n.outcome = m.outcome
        BY <1>1 DEF Locals
      <3>2. Suits(w, "loadoutcome", n)
        BY <1>1, <1>2, <2>1, <3>1 DEF Suits, LocalsOK, Labels, Outcome
      <3>3. DatabaseOK' /\ sent' \in [Deliveries -> Seq(Outcome)]
        <4>1. attempts' = [attempts EXCEPT ![d] = Append(attempts[d], m.outcome)]
          BY <1>8, <2>2 DEF InsertAttempt
        <4>2. UNCHANGED <<events, deliveries, active, apiVars, sent>>
          BY <1>8 DEF InsertAttempt
        <4>3. attempts[d] \in Seq(Outcome)
          BY <1>2 DEF TypeOK, DatabaseOK
        <4>4. Append(attempts[d], m.outcome) \in Seq(Outcome)
          BY <2>1, <4>3
        <4>5. QED
          BY <4>1, <4>2, <4>4 DEF TypeOK, DatabaseOK
      <3>4. QED
        BY <1>3, <1>8, <2>2, <3>2, <3>3 DEF InsertAttempt
    <2>3. CASE m.sequence # Len(attempts[d]) + 1
      <3>1. Reject(w) /\ UNCHANGED <<events, deliveries, attempts, active, apiVars, sent>>
        BY <1>8, <2>3 DEF InsertAttempt
      <3>2. DatabaseOK' /\ sent' \in [Deliveries -> Seq(Outcome)]
        BY <3>1 DEF TypeOK, DatabaseOK
      <3>3. QED
        BY <1>2, <3>1, <3>2, RejectStepTyped
    <2>4. QED
      BY <2>2, <2>3
  <1>9. CASE SaveOutcome(w)
    <2> DEFINE row == RecordOutcome(m.row, m.claimed, m.outcome)
               n == [m EXCEPT !.row = row, !.outcome = "none", !.claimed = 0]
    <2>1. row \in DeliveryRow
      <3>1. m.row \in DeliveryRow /\ m.claimed \in Nat /\ m.outcome \in Outcome
        BY <1>1, <1>9 DEF SaveOutcome, LocalsOK, Locals
      <3>2. QED
        BY <3>1, DeliveryRowsTyped
    <2>2. DatabaseOK' /\ sent' \in [Deliveries -> Seq(Outcome)]
      BY <1>9, <2>1 DEF SaveOutcome, TypeOK, DatabaseOK
    <2>3. n \in Locals /\ n.job = m.job /\ n.todo = m.todo /\ n.delivery = d
      BY <1>1, <2>1 DEF Locals
    <2>4. Suits(w, "enqueue", n)
      BY <1>1, <1>2, <2>3 DEF Suits, LocalsOK, Labels
    <2> HIDE DEF row
    <2>5. UNCHANGED <<jobs, apiVars>>
      BY <1>9 DEF SaveOutcome
    <2>6. CASE row.status = "retrying"
      <3>1. GoTo(w, "enqueue", n)
        BY <1>9, <2>6 DEF SaveOutcome, row
      <3>2. QED
        BY <1>3, <2>2, <2>4, <2>5, <3>1
    <2>7. CASE row.status # "retrying"
      <3>1. NextInLoop(w)
        BY <1>9, <2>7 DEF SaveOutcome, row
      <3>2. QED
        BY <1>2, <2>2, <2>5, <3>1, NextInLoopStepTyped DEF TypeOK
    <2>8. QED
      BY <2>6, <2>7
  <1>10. CASE EnqueueRetry(w)
    <2> DEFINE j == RetryJob(d, m.row.retryCount)
    <2>1. j \in RetryJobs
      BY <1>1, <1>2 DEF RetryJob, RetryJobs, Locals, DeliveryRow
    <2> HIDE DEF j
    <2>2. /\ (jobs' = Add(jobs, j) /\ NextInLoop(w)) \/ Reject(w)
          /\ UNCHANGED <<db, active, apiVars, sent>>
      BY <1>10 DEF EnqueueRetry, RetryTaken, RetryRefused, j
    <2>3. DatabaseOK' /\ sent' \in [Deliveries -> Seq(Outcome)]
      BY <2>2 DEF TypeOK, DatabaseOK, db
    <2>4. ASSUME jobs' = Add(jobs, j), NextInLoop(w)
          PROVE  TypeOK'
      <3>1. IsQueue(jobs)
        BY DEF TypeOK
      <3>2. IsQueue(jobs') /\ DOMAIN jobs \subseteq DOMAIN jobs'
        BY <2>1, <2>4, <3>1, AddTyped, AddKeepsJobs
      <3>3. QED
        BY <1>2, <2>2, <2>3, <2>4, <3>2, NextInLoopStepTyped
    <2>5. ASSUME Reject(w)
          PROVE  TypeOK'
      BY <1>2, <2>2, <2>3, <2>5, RejectStepTyped
    <2>6. QED
      BY <2>2, <2>4, <2>5
  <1>11. QED
    BY <1>5, <1>6, <1>7, <1>8, <1>9, <1>10

\* The end of a handler, and everything that goes wrong.
LEMMA EndOrFaultTyped ==
    ASSUME TypeOK, NEW w \in Workers,
           SaveEvent(w) \/ FinishJob(w) \/ Throw(w) \/ Crash(w)
    PROVE  TypeOK'
  <1> DEFINE m == mem[w]
  <1>1. m \in Locals /\ LocalsOK(pc[w], m) /\ (pc[w] # "idle" => m.job \in DOMAIN jobs)
    BY DEF TypeOK, WorkersOK
  <1>2. pc[w] # "idle"
    BY DEF SaveEvent, FinishJob, Throw, Crash
  <1>3. CASE SaveEvent(w)
    <2> DEFINE n == [m EXCEPT !.event = AbsentEvent, !.target = "none"]
               label == IF m.todo = {} THEN "finish" ELSE "find"
    <2>1. m.target \in {"completed", "failed", "processing"} /\ m.event \in EventRow
      BY <1>1, <1>3 DEF SaveEvent, LocalsOK, Locals
    <2>2. MarkSummary(m.event, m.target) \in EventRow
      BY <2>1, EventRowsTyped
    <2>3. n \in Locals /\ n.job = m.job /\ n.todo = m.todo
      BY <1>1 DEF Locals, AbsentEvent, EventRow
    <2>4. Suits(w, label, n)
      BY <1>1, <1>2, <2>3 DEF Suits, LocalsOK, Labels, InAttempt, Claimed
    <2>5. DatabaseOK' /\ sent' \in [Deliveries -> Seq(Outcome)]
      BY <1>3, <2>2 DEF SaveEvent, TypeOK, DatabaseOK
    <2>6. GoTo(w, label, n) /\ UNCHANGED <<jobs, apiVars>>
      BY <1>3 DEF SaveEvent
    <2> HIDE DEF n, label
    <2>7. QED
      BY <2>4, <2>5, <2>6, QuietStepTyped
  <1>4. CASE FinishJob(w)
    <2>1. IsQueue(jobs') /\ DOMAIN jobs' = DOMAIN jobs
      BY <1>1, <1>2, <1>4, MoveTyped DEF FinishJob, TypeOK
    <2>2. GoTo(w, "idle", NoMem) /\ UNCHANGED <<db, active, apiVars, sent>>
      BY <1>4 DEF FinishJob
    <2>3. WorkersOK'
      BY <2>2, NoMemTyped, GoToTyped DEF TypeOK, Labels
    <2>4. QED
      BY <2>1, <2>2, <2>3 DEF TypeOK, DatabaseOK, WorkersOK, GoTo, db, apiVars
  <1>5. CASE Throw(w)
    <2>1. Reject(w) /\ UNCHANGED <<db, active, apiVars, sent>>
      BY <1>5 DEF Throw
    <2>2. DatabaseOK' /\ sent' \in [Deliveries -> Seq(Outcome)]
      BY <2>1 DEF TypeOK, DatabaseOK, db
    <2>3. QED
      BY <1>2, <2>1, <2>2, RejectStepTyped
  <1>6. CASE Crash(w)
    <2>1. GoTo(w, "idle", NoMem) /\ UNCHANGED <<db, active, jobs, apiVars, sent>>
      BY <1>6 DEF Crash
    <2>2. Suits(w, "idle", NoMem)
      BY NoMemTyped DEF Suits, Labels
    <2>3. QED
      BY <2>1, <2>2, QuietStepTyped DEF TypeOK, DatabaseOK, db
  <1>7. QED
    BY <1>3, <1>4, <1>5, <1>6

LEMMA StalledTyped ==
    ASSUME TypeOK, DetectStalled \/ LoseLock
    PROVE  TypeOK'
  <1>1. PICK j \in DOMAIN jobs : jobs' = MoveStalled(jobs, j)
    BY DEF DetectStalled, LoseLock
  <1>2. IsQueue(jobs') /\ DOMAIN jobs' = DOMAIN jobs
    BY <1>1, MoveStalledTyped DEF TypeOK
  <1>3. UNCHANGED <<db, active, apiVars, pc, mem, sent>>
    BY DEF DetectStalled, LoseLock
  <1>4. QED
    BY <1>2, <1>3 DEF TypeOK, DatabaseOK, WorkersOK, db, apiVars

\* Type correctness is inductive.
LEMMA NextTyped == TypeOK /\ [Next]_vars => TypeOK'
  <1> SUFFICES ASSUME TypeOK, [Next]_vars PROVE TypeOK'
    OBVIOUS
  <1>1. CASE \E e \in Events : InsertEvent(e) \/ RequestStep(e) \/ AbortRequest(e)
    BY <1>1, RequestTyped
  <1>2. CASE \E s \in Subs : UpdateSubscription(s)
    BY <1>2 DEF UpdateSubscription, TypeOK, DatabaseOK, WorkersOK, db, apiVars
  <1>3. CASE \E w \in Workers : WorkerStep(w) \/ Throw(w) \/ Crash(w)
    BY <1>3, TakeJobTyped, ReadStepTyped, WriteStepTyped, EndOrFaultTyped
       DEF WorkerStep, Attempt
  <1>4. CASE DetectStalled \/ LoseLock
    BY <1>4, StalledTyped
  <1>5. CASE Rest \/ UNCHANGED vars
    BY <1>5 DEF Rest, vars, TypeOK, DatabaseOK, WorkersOK
  <1>6. QED
    BY <1>1, <1>2, <1>3, <1>4, <1>5 DEF Next

\* Every reachable state is type correct, for any constants that satisfy the
\* assumptions: no handler reaches an await without the locals it uses.
THEOREM TypeCorrect == Spec => []TypeOK
  <1>1. QED
    BY InitTyped, NextTyped, PTL DEF Spec

(***************************************************************************)
(* The queues never run ahead of the database, whatever fails: a proof of  *)
(* JobsReferToRows.  It needs, besides TypeOK, that rows are never taken   *)
(* back, that a request has inserted its event before it goes on, and that *)
(* a handler about to add a retry job has saved the delivery it is for.    *)
(***************************************************************************)

RequestsHaveRows == \A e \in Events : api[e] # "idle" => Exists(events[e])

EnqueuersHaveRows ==
    \A w \in Workers : pc[w] = "enqueue" =>
        /\ Exists(deliveries[mem[w].delivery])
        /\ mem[w].row.retryCount \in 1..MaxRetryLimit

RowsFirst == RequestsHaveRows /\ EnqueuersHaveRows /\ JobsReferToRows

\* No step takes a row of the events or deliveries table back.
RowsStay ==
    /\ \A e \in Events : Exists(events[e]) => Exists(events'[e])
    /\ \A d \in Deliveries : Exists(deliveries[d]) => Exists(deliveries'[d])

\* A step that leaves the jobs, the requests and the handlers about to add a
\* retry job as they are.
LEMMA NothingAdded ==
    ASSUME TypeOK, RowsFirst, RowsStay, DOMAIN jobs' = DOMAIN jobs,
           \A e \in Events : api'[e] # "idle" => api[e] # "idle",
           \A w \in Workers : pc'[w] = "enqueue" => pc[w] = "enqueue" /\ mem'[w] = mem[w]
    PROVE  RowsFirst'
  <1>1. RequestsHaveRows'
    BY DEF RowsFirst, RequestsHaveRows, RowsStay
  <1>2. EnqueuersHaveRows'
    <2> SUFFICES ASSUME NEW w \in Workers, pc'[w] = "enqueue"
                 PROVE  /\ Exists(deliveries'[mem'[w].delivery])
                        /\ mem'[w].row.retryCount \in 1..MaxRetryLimit
      BY DEF EnqueuersHaveRows
    <2>1. mem[w].delivery \in Deliveries
      BY DEF TypeOK, WorkersOK, LocalsOK, InAttempt
    <2>2. QED
      BY <2>1 DEF RowsFirst, EnqueuersHaveRows, RowsStay
  <1>3. JobsReferToRows'
    <2> SUFFICES ASSUME NEW j \in DOMAIN jobs
                 PROVE  /\ j[1] = "event" => Exists(events'[j[2]])
                        /\ j[1] = "retry" => /\ Exists(deliveries'[j[2]])
                                             /\ j[3] \in 1..MaxRetryLimit
      BY DEF JobsReferToRows
    <2>1. j \in EventJobs \cup RetryJobs
      BY DEF TypeOK, IsQueue
    <2>2. /\ j[1] = "event" => j[2] \in Events
          /\ j[1] = "retry" => j[2] \in Deliveries
      BY <2>1 DEF EventJobs, RetryJobs
    <2>3. QED
      BY <2>2 DEF RowsFirst, JobsReferToRows, RowsStay
  <1>4. QED
    BY <1>1, <1>2, <1>3 DEF RowsFirst

LEMMA StepKeepsRows ==
    ASSUME TypeOK, [Next]_vars
    PROVE  RowsStay
  <1> USE DEF Exists
  <1>1. ASSUME UNCHANGED <<events, deliveries>>
        PROVE  RowsStay
    BY <1>1 DEF RowsStay
  <1>2. ASSUME NEW e \in Events,
               InsertEvent(e) \/ RequestStep(e) \/ AbortRequest(e)
        PROVE  RowsStay
    <2>1. CASE InsertEvent(e) \/ SaveQueuedEvent(e)
      <3>1. PICK row : events' = [events EXCEPT ![e] = row] /\ row.status # "absent"
        <4>1. ASSUME InsertEvent(e)
              PROVE  \E row : events' = [events EXCEPT ![e] = row] /\ row.status # "absent"
          <5>1. CreateAcceptedEvent.status # "absent"
            BY DEF CreateAcceptedEvent, AbsentEvent
          <5>2. events' = [events EXCEPT ![e] = CreateAcceptedEvent]
            BY <4>1 DEF InsertEvent
          <5>3. QED
            BY <5>1, <5>2
        <4>2. ASSUME SaveQueuedEvent(e)
              PROVE  \E row : events' = [events EXCEPT ![e] = row] /\ row.status # "absent"
          <5>1. apiEvent[e] \in EventRow
            BY DEF TypeOK
          <5>2. MarkQueued(apiEvent[e]).status # "absent"
            BY <5>1 DEF MarkQueued, EventRow
          <5>3. events' = [events EXCEPT ![e] = MarkQueued(apiEvent[e])]
            BY <4>2 DEF SaveQueuedEvent
          <5>4. QED
            BY <5>2, <5>3
        <4>3. QED
          BY <2>1, <4>1, <4>2
      <3>2. deliveries' = deliveries /\ events \in [Events -> EventRow]
        BY <2>1 DEF InsertEvent, SaveQueuedEvent, TypeOK, DatabaseOK
      <3>3. QED
        BY <3>1, <3>2 DEF RowsStay
    <2>2. CASE EnqueueEvent(e) \/ LoadQueuedEvent(e) \/ AbortRequest(e)
      BY <1>1, <2>2 DEF EnqueueEvent, LoadQueuedEvent, AbortRequest, db
    <2>3. QED
      BY <1>2, <2>1, <2>2 DEF RequestStep
  <1>3. ASSUME NEW w \in Workers, SaveEvent(w)
        PROVE  RowsStay
    <2>1. mem[w].target \in {"completed", "failed", "processing"}
      BY <1>3 DEF SaveEvent, TypeOK, WorkersOK, LocalsOK, Locals
    <2>2. Exists(MarkSummary(mem[w].event, mem[w].target))
      BY <2>1 DEF MarkSummary, TypeOK, WorkersOK, Locals, EventRow
    <2>3. QED
      BY <1>3, <2>2 DEF SaveEvent, RowsStay, TypeOK, DatabaseOK
  <1>4. ASSUME NEW w \in Workers, CreateOrFindDelivery(w) \/ SaveClaim(w) \/ SaveOutcome(w)
        PROVE  RowsStay
    <2> DEFINE m == mem[w]
    <2>1. m \in Locals
      BY DEF TypeOK, WorkersOK
    <2>2. Exists(CreateDelivery) /\ Exists(MarkProcessing(m.row))
      BY <2>1 DEF CreateDelivery, AbsentDelivery, MarkProcessing, Locals, DeliveryRow
    <2>3. Exists(RecordOutcome(m.row, m.claimed, m.outcome))
      BY <2>1 DEF RecordOutcome, MarkRetrying, MarkAttemptOutcome, Locals, DeliveryRow
    <2>4. PICK row : Exists(row) /\ deliveries' = [deliveries EXCEPT ![m.delivery] = row]
      BY <1>4, <2>2, <2>3 DEF CreateOrFindDelivery, SaveClaim, SaveOutcome
    <2>5. UNCHANGED events
      BY <1>4 DEF CreateOrFindDelivery, SaveClaim, SaveOutcome
    <2>6. QED
      BY <2>4, <2>5 DEF RowsStay, TypeOK, DatabaseOK
  <1>5. ASSUME NEW w \in Workers, WorkerStep(w) \/ Throw(w) \/ Crash(w)
        PROVE  RowsStay
    <2>1. \/ UNCHANGED <<events, deliveries>>
          \/ SaveEvent(w) \/ CreateOrFindDelivery(w) \/ SaveClaim(w) \/ SaveOutcome(w)
      BY <1>5 DEF WorkerStep, Attempt, db, Throw, Crash, TakeEventJob, FindSubscriptions,
           FindDelivery, CheckInitialSend, TakeRetryJob, LoadDelivery, LoadClaim, Send,
           NextAttemptSequence, InsertAttempt, LoadForOutcome, EnqueueRetry, RetryTaken,
           RetryRefused, ReadSummary,
           LoadEvent, FinishJob
    <2>2. QED
      BY <1>1, <1>3, <1>4, <2>1
  <1>6. CASE DetectStalled \/ LoseLock \/ Rest \/ UNCHANGED vars
             \/ \E s \in Subs : UpdateSubscription(s)
    BY <1>1, <1>6 DEF DetectStalled, LoseLock, Rest, UpdateSubscription, vars, db
  <1>7. QED
    BY <1>2, <1>5, <1>6 DEF Next

\* The two places where a job is added.
LEMMA EnqueueKeepsRowsFirst ==
    ASSUME TypeOK, RowsFirst, RowsStay, NEW j \in EventJobs \cup RetryJobs,
           jobs' = Add(jobs, j),
           /\ j[1] = "event" => Exists(events'[j[2]])
           /\ j[1] = "retry" => Exists(deliveries'[j[2]]) /\ j[3] \in 1..MaxRetryLimit
    PROVE  JobsReferToRows'
  <1> SUFFICES ASSUME NEW k \in DOMAIN jobs'
               PROVE  /\ k[1] = "event" => Exists(events'[k[2]])
                      /\ k[1] = "retry" => Exists(deliveries'[k[2]]) /\ k[3] \in 1..MaxRetryLimit
    BY DEF JobsReferToRows
  <1>1. CASE k = j
    BY <1>1
  <1>2. CASE k \in DOMAIN jobs
    <2>1. k \in EventJobs \cup RetryJobs
      BY <1>2 DEF TypeOK, IsQueue
    <2>2. /\ k[1] = "event" => k[2] \in Events
          /\ k[1] = "retry" => k[2] \in Deliveries
      BY <2>1 DEF EventJobs, RetryJobs
    <2>3. QED
      BY <1>2, <2>2 DEF RowsFirst, JobsReferToRows, RowsStay
  <1>3. k = j \/ k \in DOMAIN jobs
    BY DEF Add
  <1>4. QED
    BY <1>1, <1>2, <1>3

\* RowsFirst is inductive.
LEMMA NextRowsFirst ==
    ASSUME TypeOK, RowsFirst, [Next]_vars
    PROVE  RowsFirst'
  <1>1. RowsStay
    BY StepKeepsRows
  <1>2. ASSUME NEW e \in Events,
               InsertEvent(e) \/ RequestStep(e) \/ AbortRequest(e)
        PROVE  RowsFirst'
    <2>1. CASE InsertEvent(e)
      <3>1. RequestsHaveRows'
        BY <1>1, <2>1 DEF InsertEvent, RowsFirst, RequestsHaveRows, RowsStay, Exists,
                    CreateAcceptedEvent, AbsentEvent, TypeOK, DatabaseOK
      <3>2. EnqueuersHaveRows'
        BY <2>1 DEF InsertEvent, RowsFirst, EnqueuersHaveRows
      <3>3. JobsReferToRows'
        BY <1>1, <2>1 DEF InsertEvent, RowsFirst, JobsReferToRows, RowsStay,
                          TypeOK, IsQueue, EventJobs, RetryJobs
      <3>4. QED
        BY <3>1, <3>2, <3>3 DEF RowsFirst
    <2>2. CASE EnqueueEvent(e)
      <3>1. Exists(events[e]) /\ UNCHANGED <<events, deliveries, pc, mem>>
        BY <2>2 DEF EnqueueEvent, RowsFirst, RequestsHaveRows, db
      <3>2. JobsReferToRows'
        <4> DEFINE j == EventJob(e)
        <4>1. j \in EventJobs /\ j[1] = "event" /\ j[2] = e
          BY DEF EventJob, EventJobs
        <4>2. jobs' = Add(jobs, j)
          BY <2>2 DEF EnqueueEvent
        <4> HIDE DEF j
        <4>3. QED
          BY <1>1, <3>1, <4>1, <4>2, EnqueueKeepsRowsFirst
      <3>3. QED
        BY <2>2, <3>1, <3>2 DEF EnqueueEvent, RowsFirst, RequestsHaveRows,
                                EnqueuersHaveRows, TypeOK
    <2>3. CASE LoadQueuedEvent(e) \/ SaveQueuedEvent(e) \/ AbortRequest(e)
      <3>1. UNCHANGED <<jobs, pc, mem>> /\ \A x \in Events : api'[x] # "idle" => api[x] # "idle"
        BY <2>3 DEF LoadQueuedEvent, SaveQueuedEvent, AbortRequest, TypeOK
      <3>2. QED
        BY <1>1, <3>1, NothingAdded
    <2>4. QED
      BY <1>2, <2>1, <2>2, <2>3 DEF RequestStep
  <1>3. ASSUME NEW w \in Workers, SaveOutcome(w)
        PROVE  RowsFirst'
    <2> DEFINE m == mem[w]
               row == RecordOutcome(m.row, m.claimed, m.outcome)
    <2>1. m \in Locals /\ m.delivery \in Deliveries
      BY <1>3 DEF SaveOutcome, TypeOK, WorkersOK, LocalsOK, InAttempt, Claimed
    <2>2. row.status = "retrying" => row.retryCount \in 1..MaxRetryLimit
      BY <2>1, RetryLimitAssumption
         DEF RecordOutcome, MarkRetrying, MarkAttemptOutcome, ShouldRetry, Locals, DeliveryRow
    <2>3. UNCHANGED <<events, jobs, api>>
      BY <1>3 DEF SaveOutcome, apiVars
    <2>4. EnqueuersHaveRows'
      <3> SUFFICES ASSUME NEW v \in Workers, pc'[v] = "enqueue"
                   PROVE  /\ Exists(deliveries'[mem'[v].delivery])
                          /\ mem'[v].row.retryCount \in 1..MaxRetryLimit
        BY DEF EnqueuersHaveRows
      <3>1. CASE v = w
        <4>1. row.status = "retrying"
          BY <1>3, <3>1 DEF SaveOutcome, NextInLoop, GoTo, TypeOK, WorkersOK
        <4>2. /\ deliveries' = [deliveries EXCEPT ![m.delivery] = row]
              /\ mem' = [mem EXCEPT ![w] =
                          [m EXCEPT !.row = row, !.outcome = "none", !.claimed = 0]]
          BY <1>3, <4>1 DEF SaveOutcome, GoTo
        <4> HIDE DEF row
        <4>3. mem'[w].row = row /\ mem'[w].delivery = m.delivery
          BY <2>1, <4>2 DEF TypeOK, WorkersOK, Locals
        <4>4. deliveries'[m.delivery] = row
          BY <2>1, <4>2 DEF TypeOK, DatabaseOK
        <4>5. QED
          BY <2>2, <3>1, <4>1, <4>3, <4>4 DEF Exists
      <3>2. CASE v # w
        <4>1. pc[v] = "enqueue" /\ mem'[v] = mem[v]
          BY <1>3, <3>2 DEF SaveOutcome, NextInLoop, GoTo, TypeOK, WorkersOK
        <4>2. mem[v].delivery \in Deliveries
          BY <4>1 DEF TypeOK, WorkersOK, LocalsOK, InAttempt
        <4>3. QED
          BY <1>1, <4>1, <4>2 DEF RowsFirst, EnqueuersHaveRows, RowsStay
      <3>3. QED
        BY <3>1, <3>2
    <2>5. JobsReferToRows'
      BY <1>1, <2>3 DEF RowsFirst, JobsReferToRows, RowsStay,
                        TypeOK, IsQueue, EventJobs, RetryJobs
    <2>6. QED
      BY <2>3, <2>4, <2>5 DEF RowsFirst, RequestsHaveRows
  <1>4. ASSUME NEW w \in Workers, EnqueueRetry(w), RetryTaken(w)
        PROVE  RowsFirst'
    <2> DEFINE m == mem[w]
               j == RetryJob(m.delivery, m.row.retryCount)
    <2>1. m \in Locals /\ m.delivery \in Deliveries
      BY <1>4 DEF EnqueueRetry, RetryTaken, RetryRefused, TypeOK, WorkersOK, LocalsOK, InAttempt
    <2>2. /\ j \in RetryJobs /\ j[1] = "retry" /\ j[2] = m.delivery
          /\ j[3] = m.row.retryCount
      BY <2>1 DEF RetryJob, RetryJobs, Locals, DeliveryRow
    <2>3. jobs' = Add(jobs, j) /\ NextInLoop(w) /\ UNCHANGED <<db, active, apiVars, sent>>
      BY <1>4 DEF EnqueueRetry, RetryTaken
    <2>4. Exists(deliveries'[m.delivery]) /\ m.row.retryCount \in 1..MaxRetryLimit
      BY <1>4, <2>3 DEF EnqueueRetry, RetryTaken, RetryRefused, RowsFirst, EnqueuersHaveRows, db
    <2> HIDE DEF j
    <2>5. JobsReferToRows'
      BY <1>1, <2>2, <2>3, <2>4, EnqueueKeepsRowsFirst
    <2>6. EnqueuersHaveRows'
      BY <2>3 DEF RowsFirst, EnqueuersHaveRows, NextInLoop, GoTo, TypeOK, WorkersOK, db
    <2>7. QED
      BY <2>3, <2>5, <2>6 DEF RowsFirst, RequestsHaveRows, db, apiVars
  <1>5. ASSUME NEW w \in Workers, WorkerStep(w) \/ Throw(w) \/ Crash(w),
               ~ SaveOutcome(w), ~ (EnqueueRetry(w) /\ RetryTaken(w))
        PROVE  RowsFirst'
    <2>1. UNCHANGED api
      BY <1>5 DEF WorkerStep, Attempt, apiVars, Throw, Crash, TakeEventJob,
           FindSubscriptions, FindDelivery, CreateOrFindDelivery, CheckInitialSend,
           TakeRetryJob, LoadDelivery, LoadClaim, SaveClaim, Send, NextAttemptSequence,
           InsertAttempt, LoadForOutcome, EnqueueRetry, RetryTaken, RetryRefused, ReadSummary,
           LoadEvent, SaveEvent, FinishJob
    <2>2. PICK label, n : label # "enqueue" /\ GoTo(w, label, n)
      BY <1>5 DEF WorkerStep, Attempt, Throw, Crash, TakeEventJob,
           FindSubscriptions, FindDelivery, CreateOrFindDelivery, CheckInitialSend,
           TakeRetryJob, LoadDelivery, LoadClaim, SaveClaim, Send, NextAttemptSequence,
           InsertAttempt, LoadForOutcome, EnqueueRetry, RetryTaken, RetryRefused, ReadSummary,
           LoadEvent, SaveEvent, FinishJob,
           NextInLoop, Reject
    <2>3. \A v \in Workers : pc'[v] = "enqueue" => pc[v] = "enqueue" /\ mem'[v] = mem[v]
      BY <2>2 DEF GoTo, TypeOK, WorkersOK
    <2>4. DOMAIN jobs' = DOMAIN jobs
      <3>1. \/ UNCHANGED jobs
            \/ \E k \in DOMAIN jobs : jobs' = MoveToActive(jobs, k, w)
            \/ \E s \in {"completed", "failed"} :
                 pc[w] # "idle" /\ jobs' = MoveToFinished(jobs, mem[w].job, w, s)
        BY <1>5 DEF WorkerStep, Attempt, Throw, Crash, TakeEventJob,
             FindSubscriptions, FindDelivery, CreateOrFindDelivery, CheckInitialSend,
             TakeRetryJob, LoadDelivery, LoadClaim, SaveClaim, Send, NextAttemptSequence,
             InsertAttempt, LoadForOutcome, EnqueueRetry, RetryTaken, RetryRefused,
             ReadSummary, LoadEvent, SaveEvent, FinishJob, Reject
      <3>2. QED
        BY <3>1, MoveTyped DEF TypeOK
    <2>5. QED
      BY <1>1, <2>1, <2>3, <2>4, NothingAdded
  <1>6. CASE DetectStalled \/ LoseLock
    <2>1. PICK j \in DOMAIN jobs : jobs' = MoveStalled(jobs, j)
      BY <1>6 DEF DetectStalled, LoseLock
    <2>2. DOMAIN jobs' = DOMAIN jobs /\ UNCHANGED <<api, pc, mem>>
      BY <1>6, <2>1, MoveStalledTyped DEF DetectStalled, LoseLock, TypeOK, apiVars
    <2>3. QED
      BY <1>1, <2>2, NothingAdded
  <1>7. CASE Rest \/ UNCHANGED vars \/ \E s \in Subs : UpdateSubscription(s)
    BY <1>1, <1>7, NothingAdded DEF Rest, UpdateSubscription, vars, apiVars
  <1>8. QED
    BY <1>2, <1>3, <1>4, <1>5, <1>6, <1>7 DEF Next

\* Whatever crashes, rejects or loses its lock, each job in a queue is about
\* an event or a delivery that is in the database, and each retry job is for
\* a retry within the limit.
THEOREM JobsAreBacked == Spec => []JobsReferToRows
  <1>1. Init => RowsFirst
    BY DEF Init, RowsFirst, RequestsHaveRows, EnqueuersHaveRows, JobsReferToRows
  <1>2. TypeOK /\ RowsFirst /\ [Next]_vars => RowsFirst'
    BY NextRowsFirst
  <1>3. RowsFirst => JobsReferToRows
    BY DEF RowsFirst
  <1>4. QED
    BY <1>1, <1>2, <1>3, TypeCorrect, PTL DEF Spec
===============================================================================
