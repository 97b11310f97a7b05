------------------------ MODULE NotificationPipeline ------------------------
(***************************************************************************)
(* The notification platform end to end: POST /events, the two BullMQ      *)
(* queues, the event-processing worker, the delivery-retry worker and the  *)
(* PostgreSQL rows they all read and write.                                *)
(*                                                                         *)
(* Every await on the database, the queue or a provider is a step of its   *)
(* own, because any other process may run there.  In particular each       *)
(* repository mark* method loads a row, changes the copy and saves the     *)
(* whole copy back: two steps.  Nothing runs in a transaction.             *)
(*                                                                         *)
(* A delivery is named by its (event, subscription) pair, which is its     *)
(* unique key, a job by <<queue, what it is about, retry count>>.          *)
(***************************************************************************)
EXTENDS DeliveryRules, JobQueue, FiniteSets

CONSTANTS Events,         \* the events producers will submit
          Subs,           \* subscriptions, numbered in createdAt order
          MatchingSubs,   \* the subscriptions whose event type is the event's
          EventWorkers,   \* processes running event-processing.worker.ts
          RetryWorkers,   \* processes running delivery-retry.worker.ts
          ProviderOutcomes, \* how provider calls may end
          Faults,         \* what may go wrong, see below
          AdminChanges    \* whether PATCH /subscriptions/:id is used

Workers == EventWorkers \cup RetryWorkers
Deliveries == {d \in Events \X Subs : d[2] \in MatchingSubs[d[1]]}

ASSUME SubsAssumption == /\ Subs \subseteq Nat
                         /\ IsFiniteSet(Subs)
                         /\ MatchingSubs \in [Events -> SUBSET Subs]

\* The email and SMS providers always succeed; a webhook may end in any way.
ASSUME OutcomesAssumption == ProviderOutcomes \subseteq Outcome

ASSUME WorkersAssumption == /\ EventWorkers \cap RetryWorkers = {}
                            /\ NoWorker \notin Workers

(***************************************************************************)
(* crash    : a worker process dies and is started again                   *)
(* error    : an await of a handler rejects (database or Redis)            *)
(* lockloss : a worker that still runs a job fails to renew its lock       *)
(* apicrash : the API process dies, or an await of createEvent rejects     *)
(***************************************************************************)
ASSUME FaultsAssumption ==
    /\ Faults \subseteq {"crash", "error", "lockloss", "apicrash"}
    /\ AdminChanges \in BOOLEAN

VARIABLES
    (***********************************************************************)
    (* PostgreSQL                                                          *)
    (***********************************************************************)
    events,      \* row of each event
    deliveries,  \* row of each delivery
    attempts,    \* outcomes of the delivery_attempts rows, by attemptSequence
    active,      \* subscriptions whose status is active
    (***********************************************************************)
    (* Redis                                                               *)
    (***********************************************************************)
    jobs,        \* every job added to either queue
    (***********************************************************************)
    (* Processes                                                           *)
    (***********************************************************************)
    api,         \* where createEvent stands for each event
    apiEvent,    \* the row markQueued has loaded for it
    pc,          \* the await a worker is about to make
    mem,         \* the locals of its handler
    (***********************************************************************)
    (* History                                                             *)
    (***********************************************************************)
    sent         \* outcomes of the provider calls made for each delivery

db == <<events, deliveries, attempts>>
apiVars == <<api, apiEvent>>
vars == <<events, deliveries, attempts, active, jobs, api, apiEvent, pc, mem, sent>>

(***************************************************************************)
(* Jobs and worker locals.                                                 *)
(***************************************************************************)
EventJob(e) == <<"event", e, 0>>
RetryJob(d, n) == <<"retry", d, n>>
EventJobs == {"event"} \X Events \X {0}
RetryJobs == {"retry"} \X Deliveries \X Nat

NoJob == <<>>
NoDelivery == <<>>

\* The locals of a handler between two awaits.  todo holds the subscriptions
\* the loop has not finished with, delivery the one being worked on, claimed
\* the retry count of processingDelivery, target the status mark* will write.
NoMem == [job |-> NoJob, todo |-> {}, delivery |-> NoDelivery,
          row |-> AbsentDelivery, event |-> AbsentEvent, sequence |-> 0,
          outcome |-> "none", claimed |-> 0, target |-> "none"]

EventOf(job) == IF job[1] = "event" THEN job[2] ELSE job[2][1]

DeliveriesOf(e) == {d \in Deliveries : d[1] = e}
ExistingDeliveriesOf(e) == {d \in DeliveriesOf(e) : Exists(deliveries[d])}
Summary(e) == EventDeliverySummary({deliveries[d].status : d \in ExistingDeliveriesOf(e)})

Running(w, j) == pc[w] # "idle" /\ mem[w].job = j

Init ==
    /\ events = [e \in Events |-> AbsentEvent]
    /\ deliveries = [d \in Deliveries |-> AbsentDelivery]
    /\ attempts = [d \in Deliveries |-> <<>>]
    /\ active = Subs
    /\ jobs = [j \in {} |-> NewJob]
    /\ api = [e \in Events |-> "idle"]
    /\ apiEvent = [e \in Events |-> AbsentEvent]
    /\ pc = [w \in Workers |-> "idle"]
    /\ mem = [w \in Workers |-> NoMem]
    /\ sent = [d \in Deliveries |-> <<>>]

-----------------------------------------------------------------------------
(***************************************************************************)
(* POST /events: EventService.createEvent.                                 *)
(***************************************************************************)
\* Mutant: the insert is not awaited and gets lost.
InsertEventLost(e) ==
    /\ api[e] = "idle"
    /\ api' = [api EXCEPT ![e] = "inserted"]
    /\ UNCHANGED <<db, active, jobs, apiEvent, pc, mem, sent>>

InsertEvent(e) ==
    /\ api[e] = "idle"
    /\ events' = [events EXCEPT ![e] = CreateAcceptedEvent]
    /\ api' = [api EXCEPT ![e] = "inserted"]
    /\ UNCHANGED <<deliveries, attempts, active, jobs, apiEvent, pc, mem, sent>>

EnqueueEvent(e) ==
    /\ api[e] = "inserted"
    /\ jobs' = Add(jobs, EventJob(e))
    /\ api' = [api EXCEPT ![e] = "enqueued"]
    /\ UNCHANGED <<db, active, apiEvent, pc, mem, sent>>

LoadQueuedEvent(e) ==
    /\ api[e] = "enqueued"
    /\ apiEvent' = [apiEvent EXCEPT ![e] = events[e]]
    /\ api' = [api EXCEPT ![e] = "loaded"]
    /\ UNCHANGED <<db, active, jobs, pc, mem, sent>>

SaveQueuedEvent(e) ==
    /\ api[e] = "loaded"
    /\ events' = [events EXCEPT ![e] = MarkQueued(apiEvent[e])]
    /\ apiEvent' = [apiEvent EXCEPT ![e] = AbsentEvent]
    /\ api' = [api EXCEPT ![e] = "answered"]
    /\ UNCHANGED <<deliveries, attempts, active, jobs, pc, mem, sent>>

\* The request ends in a 500 or with its process; nothing is undone.
AbortRequest(e) ==
    /\ "apicrash" \in Faults
    /\ api[e] \in {"inserted", "enqueued", "loaded"}
    /\ apiEvent' = [apiEvent EXCEPT ![e] = AbsentEvent]
    /\ api' = [api EXCEPT ![e] = "aborted"]
    /\ UNCHANGED <<db, active, jobs, pc, mem, sent>>

\* PATCH /subscriptions/:id flips the status of a subscription.  One that
\* is inactive from the start also stands for one not created yet.
UpdateSubscription(s) ==
    /\ AdminChanges
    /\ active' = IF s \in active THEN active \ {s} ELSE active \cup {s}
    /\ UNCHANGED <<db, jobs, apiVars, pc, mem, sent>>

-----------------------------------------------------------------------------
(***************************************************************************)
(* How a handler moves on.                                                 *)
(***************************************************************************)
GoTo(w, label, locals) ==
    /\ pc' = [pc EXCEPT ![w] = label]
    /\ mem' = [mem EXCEPT ![w] = locals]

\* The handler rejects: BullMQ fails the job.
Reject(w) ==
    /\ jobs' = MoveToFinished(jobs, mem[w].job, w, "failed")
    /\ GoTo(w, "idle", NoMem)

\* Mutant: the loop starts over.
NextInLoopAgain(w) ==
    GoTo(w, IF mem[w].todo = {} THEN "summary" ELSE "find",
         [NoMem EXCEPT !.job = mem[w].job, !.todo = mem[w].todo, !.delivery = mem[w].delivery])

\* On to the next subscription of the loop, or past it.
NextInLoop(w) ==
    LET m == mem[w]
        rest == m.todo \ {m.delivery[2]}
    IN  GoTo(w, IF rest = {} THEN "summary" ELSE "find",
             [NoMem EXCEPT !.job = m.job, !.todo = rest, !.delivery = m.delivery])

(***************************************************************************)
(* The event-processing handler.                                           *)
(***************************************************************************)
TakeEventJob(w) ==
    /\ w \in EventWorkers
    /\ pc[w] = "idle"
    /\ \E j \in DOMAIN jobs \cap EventJobs :
         /\ jobs[j].state = "waiting"
         /\ jobs' = MoveToActive(jobs, j, w)
         /\ GoTo(w, "subscriptions", [NoMem EXCEPT !.job = j])
    /\ UNCHANGED <<db, active, apiVars, sent>>

\* getStoredEventById and findActiveSubscriptionsByEventType.  Only columns
\* of the event that never change are used, so the two reads are one step.
FindSubscriptions(w) ==
    LET e == EventOf(mem[w].job)
        matched == MatchingSubs[e] \cap active
    IN  /\ pc[w] = "subscriptions"
        /\ Exists(events[e])
        /\ GoTo(w, "loadevent",
                [mem[w] EXCEPT !.todo = matched,
                               !.target = IF matched = {} THEN "completed" ELSE "processing"])
        /\ UNCHANGED <<db, active, jobs, apiVars, sent>>

\* getDeliveryForEventAndSubscription for the oldest subscription left.
FindDelivery(w) ==
    LET e == EventOf(mem[w].job)
    IN  /\ pc[w] = "find"
        /\ \E s \in mem[w].todo :
             /\ \A t \in mem[w].todo : s <= t
             /\ GoTo(w, IF Exists(deliveries[<<e, s>>]) THEN "latest" ELSE "create",
                     [mem[w] EXCEPT !.delivery = <<e, s>>, !.row = deliveries[<<e, s>>]])
        /\ UNCHANGED <<db, active, jobs, apiVars, sent>>

\* getOrCreateDelivery: the unique key makes find, insert and the second
\* find after a violation behave as one step.
CreateOrFindDelivery(w) ==
    LET d == mem[w].delivery
        row == IF Exists(deliveries[d]) THEN deliveries[d] ELSE CreateDelivery
    IN  /\ pc[w] = "create"
        /\ deliveries' = [deliveries EXCEPT ![d] = row]
        /\ GoTo(w, "latest", [mem[w] EXCEPT !.row = row])
        /\ UNCHANGED <<events, attempts, active, jobs, apiVars, sent>>

CheckInitialSend(w) ==
    /\ pc[w] = "latest"
    /\ IF IsEligibleForInitialSend(mem[w].row, Len(attempts[mem[w].delivery]))
         THEN GoTo(w, "loadclaim", [mem[w] EXCEPT !.row = AbsentDelivery])
         ELSE NextInLoop(w)
    /\ UNCHANGED <<db, active, jobs, apiVars, sent>>

(***************************************************************************)
(* The delivery-retry handler.                                             *)
(***************************************************************************)
TakeRetryJob(w) ==
    /\ w \in RetryWorkers
    /\ pc[w] = "idle"
    /\ \E j \in DOMAIN jobs \ EventJobs :
         /\ jobs[j].state = "waiting"
         /\ jobs' = MoveToActive(jobs, j, w)
         /\ GoTo(w, "loaddelivery", [NoMem EXCEPT !.job = j, !.delivery = j[2]])
    /\ UNCHANGED <<db, active, apiVars, sent>>

\* getDeliveryById, then getStoredEventById, then the eligibility test on
\* the copy.
LoadDelivery(w) ==
    LET m == mem[w]
    IN  /\ pc[w] = "loaddelivery"
        /\ Exists(deliveries[m.delivery])
        /\ GoTo(w, IF IsEligibleForRetrySend(deliveries[m.delivery], m.job[3])
                     THEN "loadclaim" ELSE "summary", m)
        /\ UNCHANGED <<db, active, jobs, apiVars, sent>>

-----------------------------------------------------------------------------
(***************************************************************************)
(* executeDeliveryAttempt, run by both handlers.                           *)
(***************************************************************************)
LoadClaim(w) ==
    /\ pc[w] = "loadclaim"
    /\ GoTo(w, "saveclaim", [mem[w] EXCEPT !.row = deliveries[mem[w].delivery]])
    /\ UNCHANGED <<db, active, jobs, apiVars, sent>>

SaveClaim(w) ==
    LET m == mem[w]
    IN  /\ pc[w] = "saveclaim"
        /\ deliveries' = [deliveries EXCEPT ![m.delivery] = MarkProcessing(m.row)]
        /\ GoTo(w, "send", [m EXCEPT !.claimed = m.row.retryCount, !.row = AbsentDelivery])
        /\ UNCHANGED <<events, attempts, active, jobs, apiVars, sent>>

\* Mutants: a retryable failure is reported without calling the provider; the
\* provider is called again at once and one attempt recorded.
SendWithoutCall(w) ==
    /\ pc[w] = "send"
    /\ \E o \in ProviderOutcomes :
         /\ sent' = IF o = "retryable" THEN sent
                    ELSE [sent EXCEPT ![mem[w].delivery] = Append(@, o)]
         /\ GoTo(w, "sequence", [mem[w] EXCEPT !.outcome = o])
    /\ UNCHANGED <<db, active, jobs, apiVars>>

SendAgainAtOnce(w) ==
    /\ pc[w] = "send"
    /\ \E o \in ProviderOutcomes :
         /\ sent' = [sent EXCEPT ![mem[w].delivery] =
                       IF o = "retryable" THEN @ \o <<o, o>> ELSE Append(@, o)]
         /\ GoTo(w, "sequence", [mem[w] EXCEPT !.outcome = o])
    /\ UNCHANGED <<db, active, jobs, apiVars>>

\* provider.send and the classification of its result.  A provider that
\* throws is turned into a retryable failure.
Send(w) ==
    /\ pc[w] = "send"
    /\ \E o \in ProviderOutcomes :
         /\ sent' = [sent EXCEPT ![mem[w].delivery] = Append(@, o)]
         /\ GoTo(w, "sequence", [mem[w] EXCEPT !.outcome = o])
    /\ UNCHANGED <<db, active, jobs, apiVars>>

\* createNextAttempt: read the latest sequence ...
NextAttemptSequence(w) ==
    /\ pc[w] = "sequence"
    /\ GoTo(w, "attempt", [mem[w] EXCEPT !.sequence = Len(attempts[mem[w].delivery]) + 1])
    /\ UNCHANGED <<db, active, jobs, apiVars, sent>>

\* ... and insert.  A sequence taken meanwhile violates the unique key.
InsertAttempt(w) ==
    LET m == mem[w]
    IN  /\ pc[w] = "attempt"
        /\ IF m.sequence = Len(attempts[m.delivery]) + 1
             THEN /\ attempts' = [attempts EXCEPT ![m.delivery] = Append(@, m.outcome)]
                  /\ GoTo(w, "loadoutcome", [m EXCEPT !.sequence = 0])
                  /\ UNCHANGED jobs
             ELSE /\ Reject(w)
                  /\ UNCHANGED attempts
        /\ UNCHANGED <<events, deliveries, active, apiVars, sent>>

LoadForOutcome(w) ==
    /\ pc[w] = "loadoutcome"
    /\ GoTo(w, "saveoutcome", [mem[w] EXCEPT !.row = deliveries[mem[w].delivery]])
    /\ UNCHANGED <<db, active, jobs, apiVars, sent>>

\* markSucceeded, markRetrying or markFailed.
SaveOutcome(w) ==
    LET m == mem[w]
        row == RecordOutcome(m.row, m.claimed, m.outcome)
    IN  /\ pc[w] = "saveoutcome"
        /\ deliveries' = [deliveries EXCEPT ![m.delivery] = row]
        /\ IF row.status = "retrying"
             THEN GoTo(w, "enqueue", [m EXCEPT !.row = row, !.outcome = "none", !.claimed = 0])
             ELSE NextInLoop(w)
        /\ UNCHANGED <<events, attempts, active, jobs, apiVars, sent>>

\* Mutants: the job is for one retry later; the job id lacks the retry count;
\* queue.add is not awaited and its rejection gets lost.
EnqueueRetryAhead(w) ==
    LET m == mem[w]
    IN  /\ pc[w] = "enqueue"
        /\ jobs' = Add(jobs, RetryJob(m.delivery, m.row.retryCount + 1))
        /\ NextInLoop(w)
        /\ UNCHANGED <<db, active, apiVars, sent>>
EnqueueRetrySameId(w) ==
    LET m == mem[w]
    IN  /\ pc[w] = "enqueue"
        /\ jobs' = Add(jobs, RetryJob(m.delivery, 1))
        /\ NextInLoop(w)
        /\ UNCHANGED <<db, active, apiVars, sent>>
EnqueueRetryUnawaited(w) ==
    LET m == mem[w]
    IN  /\ pc[w] = "enqueue"
        /\ \/ jobs' = Add(jobs, RetryJob(m.delivery, m.row.retryCount))
           \/ "refused" \in RetryIdAnswers /\ UNCHANGED jobs
        /\ NextInLoop(w)
        /\ UNCHANGED <<db, active, apiVars, sent>>

RetryTaken(w) ==
    /\ "taken" \in RetryIdAnswers
    /\ jobs' = Add(jobs, RetryJob(mem[w].delivery, mem[w].row.retryCount))
    /\ NextInLoop(w)

\* If the queue refuses the id, queue.add rejects, and with it the handler:
\* a loop ends there.
RetryRefused(w) ==
    /\ "refused" \in RetryIdAnswers
    /\ Reject(w)

\* enqueueDeliveryRetry, after RETRYING was saved.
EnqueueRetry(w) ==
    /\ pc[w] = "enqueue"
    /\ RetryTaken(w) \/ RetryRefused(w)
    /\ UNCHANGED <<db, active, apiVars, sent>>

-----------------------------------------------------------------------------
(***************************************************************************)
(* synchronizeEventStatus, and the mark* calls of the event it ends in.    *)
(***************************************************************************)
ReadSummary(w) ==
    /\ pc[w] = "summary"
    /\ GoTo(w, "loadevent", [mem[w] EXCEPT !.target = Summary(EventOf(mem[w].job))])
    /\ UNCHANGED <<db, active, jobs, apiVars, sent>>

LoadEvent(w) ==
    /\ pc[w] = "loadevent"
    /\ GoTo(w, "saveevent", [mem[w] EXCEPT !.event = events[EventOf(mem[w].job)]])
    /\ UNCHANGED <<db, active, jobs, apiVars, sent>>

\* The first mark of the event handler goes on to the loop; the mark of an
\* event without subscriptions and the final one end the handler.
SaveEvent(w) ==
    LET m == mem[w]
    IN  /\ pc[w] = "saveevent"
        /\ events' = [events EXCEPT ![EventOf(m.job)] = MarkSummary(m.event, m.target)]
        /\ GoTo(w, IF m.todo = {} THEN "finish" ELSE "find",
                [m EXCEPT !.event = AbsentEvent, !.target = "none"])
        /\ UNCHANGED <<deliveries, attempts, active, jobs, apiVars, sent>>

FinishJob(w) ==
    /\ pc[w] = "finish"
    /\ jobs' = MoveToFinished(jobs, mem[w].job, w, "completed")
    /\ GoTo(w, "idle", NoMem)
    /\ UNCHANGED <<db, active, apiVars, sent>>

-----------------------------------------------------------------------------
(***************************************************************************)
(* What goes wrong.                                                        *)
(***************************************************************************)
\* The await the handler is at rejects, before or after taking effect.
Throw(w) ==
    /\ "error" \in Faults
    /\ pc[w] # "idle"
    /\ Reject(w)
    /\ UNCHANGED <<db, active, apiVars, sent>>

\* The process dies.  Its job stays active under a lock nobody renews.
Crash(w) ==
    /\ "crash" \in Faults
    /\ pc[w] # "idle"
    /\ GoTo(w, "idle", NoMem)
    /\ UNCHANGED <<db, active, jobs, apiVars, sent>>

\* BullMQ finds an active job whose owner no longer runs it.
DetectStalled ==
    /\ \E j \in DOMAIN jobs :
         /\ jobs[j].state = "active"
         /\ ~ Running(jobs[j].owner, j)
         /\ jobs' = MoveStalled(jobs, j)
    /\ UNCHANGED <<db, active, apiVars, pc, mem, sent>>

\* BullMQ takes the lock from a worker that still runs the job.
LoseLock ==
    /\ "lockloss" \in Faults
    /\ \E j \in DOMAIN jobs :
         /\ jobs[j].state = "active"
         /\ Running(jobs[j].owner, j)
         /\ jobs' = MoveStalled(jobs, j)
    /\ UNCHANGED <<db, active, apiVars, pc, mem, sent>>

-----------------------------------------------------------------------------
RequestStep(e) == EnqueueEvent(e) \/ LoadQueuedEvent(e) \/ SaveQueuedEvent(e)

Attempt(w) ==
    \/ LoadClaim(w) \/ SaveClaim(w) \/ Send(w) \/ NextAttemptSequence(w)
    \/ InsertAttempt(w) \/ LoadForOutcome(w) \/ SaveOutcome(w) \/ EnqueueRetry(w)

WorkerStep(w) ==
    \/ TakeEventJob(w) \/ FindSubscriptions(w) \/ FindDelivery(w)
    \/ CreateOrFindDelivery(w) \/ CheckInitialSend(w)
    \/ TakeRetryJob(w) \/ LoadDelivery(w)
    \/ Attempt(w)
    \/ ReadSummary(w) \/ LoadEvent(w) \/ SaveEvent(w) \/ FinishJob(w)

\* No request is under way, no worker runs and no job is left to run.
Quiescent ==
    /\ \A e \in Events : api[e] \in {"idle", "answered", "aborted"}
    /\ \A w \in Workers : pc[w] = "idle"
    /\ \A j \in DOMAIN jobs : jobs[j].state \in {"completed", "failed"}

\* The only place where the system may stop: TLC reports any other as a
\* deadlock.
Rest == Quiescent /\ UNCHANGED vars

Next ==
    \/ \E e \in Events : InsertEvent(e) \/ RequestStep(e) \/ AbortRequest(e)
    \/ \E s \in Subs : UpdateSubscription(s)
    \/ \E w \in Workers : WorkerStep(w) \/ Throw(w) \/ Crash(w)
    \/ DetectStalled
    \/ LoseLock
    \/ Rest

Spec == Init /\ [][Next]_vars

\* A request under way goes on, a worker that can take a job or whose await
\* can answer does, and BullMQ's stalled check runs again and again.  No
\* producer, fault, administrator or particular provider answer is owed.
FairSpec ==
    /\ Spec
    /\ \A e \in Events : WF_vars(RequestStep(e))
    /\ \A w \in Workers : WF_vars(WorkerStep(w))
    /\ WF_vars(DetectStalled)
=============================================================================
