------------------------------ MODULE JobProofs -------------------------------
(***************************************************************************)
(* Theorems about the jobs of a delivery and what their handlers do for    *)
(* it.                                                                     *)
(*                                                                         *)
(* Whatever fails: the attempts on record are calls that were made, a call *)
(* without a row has left an interrupted run of a job behind, and a        *)
(* delivery is sent at most once per run of a job about it.  The proofs    *)
(* count what handlers have in hand, whether or not they still hold their  *)
(* job.                                                                    *)
(*                                                                         *)
(* Unless a running handler loses its lock: a retry that will never come   *)
(* leaves an interrupted job behind; and where nothing fails at all every  *)
(* retry has its job to come, or was refused one.                          *)
(*                                                                         *)
(* They rest on lemmas about single steps: what a handler has in hand      *)
(* after each await, and how its job moves.                                *)
(***************************************************************************)
EXTENDS LedgerProofs, FiniteSetTheorems

(***************************************************************************)
(* How the locals of a handler change from one await to the next.  The     *)
(* proofs about single actions cite these facts instead of the records.    *)
(***************************************************************************)
\* A step of one handler leaves the others where they are.
OthersStay(w) == \A v \in Workers \ {w} : pc'[v] = pc[v] /\ mem'[v] = mem[v]

\* The handler goes on with the same job, subscriptions and delivery.
Stays(w) ==
    /\ mem'[w].job = mem[w].job
    /\ mem'[w].todo = mem[w].todo
    /\ mem'[w].delivery = mem[w].delivery

\* The handler has finished with its delivery.
Looped(w) ==
    /\ mem'[w].job = mem[w].job
    /\ mem'[w].todo = mem[w].todo \ {mem[w].delivery[2]}
    /\ mem'[w].delivery = mem[w].delivery
    /\ pc'[w] = IF mem'[w].todo = {} THEN "summary" ELSE "find"

\* A step of one handler leaves the others where they are.
LEMMA StepOfOne ==
    ASSUME TypeOK, NEW w \in Workers, WorkerStep(w) \/ Throw(w) \/ Crash(w)
    PROVE  OthersStay(w)
  <1>1. \E label, m : GoTo(w, label, m)
    BY DEF WorkerStep, Attempt, TakeEventJob, FindSubscriptions, FindDelivery,
       CreateOrFindDelivery, CheckInitialSend, TakeRetryJob, LoadDelivery, LoadClaim, SaveClaim,
       Send, NextAttemptSequence, InsertAttempt, LoadForOutcome, SaveOutcome, EnqueueRetry,
       RetryTaken, RetryRefused,
       ReadSummary, LoadEvent, SaveEvent, FinishJob, Throw, Crash, Reject, NextInLoop
  <1>2. QED
    BY <1>1 DEF GoTo, OthersStay, TypeOK, WorkersOK

\* Going on in the loop takes the delivery off the list.
LEMMA LoopMoves ==
    ASSUME TypeOK, NEW w \in Workers, NextInLoop(w)
    PROVE  Looped(w)
  BY DEF NextInLoop, GoTo, Looped, TypeOK, WorkersOK, NoMem

\* Going to an await sets the label and the locals of one handler.
LEMMA GoToMoves ==
    ASSUME TypeOK, NEW w \in Workers, NEW label, NEW m, GoTo(w, label, m)
    PROVE  pc'[w] = label /\ mem'[w] = m
  BY DEF GoTo, TypeOK, WorkersOK

\* Taking a job.
LEMMA TakeMoves ==
    ASSUME TypeOK, NEW w \in Workers, TakeEventJob(w) \/ TakeRetryJob(w)
    PROVE  LET j == mem'[w].job
           IN  /\ pc[w] = "idle"
               /\ j \in DOMAIN jobs /\ jobs[j].state = "waiting"
               /\ jobs' = MoveToActive(jobs, j, w)
               /\ mem'[w].todo = {}
               /\ \/ pc'[w] = "subscriptions" /\ j \in EventJobs
                  \/ pc'[w] = "loaddelivery" /\ j \in RetryJobs /\ mem'[w].delivery = j[2]
  <1>1. PICK j, label, m :
          /\ j \in DOMAIN jobs
          /\ pc[w] = "idle"
          /\ jobs[j].state = "waiting"
          /\ jobs' = MoveToActive(jobs, j, w)
          /\ GoTo(w, label, m)
          /\ \/ /\ label = "subscriptions"
                /\ m = [NoMem EXCEPT !.job = j]
                /\ j \in EventJobs
             \/ /\ label = "loaddelivery"
                /\ m = [NoMem EXCEPT !.job = j, !.delivery = j[2]]
                /\ j \in RetryJobs
    BY DEF TakeEventJob, TakeRetryJob, TypeOK, IsQueue
  <1>2. m.job = j /\ m.todo = {} /\ (label = "loaddelivery" => m.delivery = j[2])
    BY <1>1 DEF NoMem
  <1>3. QED
    BY <1>1, <1>2, GoToMoves

\* The awaits of the event handler.
LEMMA EventMoves ==
    ASSUME TypeOK, NEW w \in Workers
    PROVE  /\ FindSubscriptions(w) => /\ pc[w] = "subscriptions" /\ pc'[w] = "loadevent"
                                      /\ mem'[w].job = mem[w].job
                                      /\ mem'[w].todo = MatchingSubs[EventOf(mem[w].job)] \cap active
           /\ FindDelivery(w) => /\ pc[w] = "find" /\ pc'[w] \in {"latest", "create"}
                                 /\ mem'[w].job = mem[w].job
                                 /\ mem'[w].todo = mem[w].todo
                                 /\ \E s \in mem[w].todo : mem'[w].delivery = <<EventOf(mem[w].job), s>>
           /\ CreateOrFindDelivery(w) => pc[w] = "create" /\ pc'[w] = "latest" /\ Stays(w)
           /\ CheckInitialSend(w) => /\ pc[w] = "latest"
                                     /\ \/ pc'[w] = "loadclaim" /\ Stays(w)
                                        \/ Looped(w)
  <1> USE DEF Stays
  <1>1. mem[w] \in Locals
    BY DEF TypeOK, WorkersOK
  <1>2. ASSUME FindSubscriptions(w)
        PROVE  /\ pc[w] = "subscriptions" /\ pc'[w] = "loadevent"
               /\ mem'[w].job = mem[w].job
               /\ mem'[w].todo = MatchingSubs[EventOf(mem[w].job)] \cap active
    <2> DEFINE matched == MatchingSubs[EventOf(mem[w].job)] \cap active
               target == IF matched = {} THEN "completed" ELSE "processing"
               n == [mem[w] EXCEPT !.todo = matched, !.target = target]
    <2>1. n.job = mem[w].job /\ n.todo = matched
      BY <1>1 DEF Locals
    <2>2. pc[w] = "subscriptions" /\ GoTo(w, "loadevent", n)
      BY <1>2 DEF FindSubscriptions
    <2> HIDE DEF n
    <2>3. QED
      BY <2>1, <2>2, GoToMoves
  <1>3. ASSUME FindDelivery(w)
        PROVE  /\ pc[w] = "find" /\ pc'[w] \in {"latest", "create"}
               /\ mem'[w].job = mem[w].job
               /\ mem'[w].todo = mem[w].todo
               /\ \E s \in mem[w].todo : mem'[w].delivery = <<EventOf(mem[w].job), s>>
    <2>1. PICK s \in mem[w].todo :
            GoTo(w, IF Exists(deliveries[<<EventOf(mem[w].job), s>>]) THEN "latest" ELSE "create",
                 [mem[w] EXCEPT !.delivery = <<EventOf(mem[w].job), s>>,
                                !.row = deliveries[<<EventOf(mem[w].job), s>>]])
      BY <1>3 DEF FindDelivery
    <2> DEFINE d == <<EventOf(mem[w].job), s>>
               n == [mem[w] EXCEPT !.delivery = d, !.row = deliveries[d]]
               label == IF Exists(deliveries[d]) THEN "latest" ELSE "create"
    <2>2. n.job = mem[w].job /\ n.todo = mem[w].todo /\ n.delivery = d
      BY <1>1 DEF Locals
    <2>3. label \in {"latest", "create"} /\ GoTo(w, label, n)
      BY <2>1
    <2> HIDE DEF n, label, d
    <2>4. pc'[w] = label /\ mem'[w] = n
      BY <2>3, GoToMoves
    <2>5. d = <<EventOf(mem[w].job), s>> /\ pc[w] = "find"
      BY <1>3 DEF d, FindDelivery
    <2>6. QED
      BY <2>2, <2>3, <2>4, <2>5
  <1>4. ASSUME CreateOrFindDelivery(w)
        PROVE  pc[w] = "create" /\ pc'[w] = "latest" /\ Stays(w)
    <2> DEFINE n == [mem[w] EXCEPT
                       !.row = IF Exists(deliveries[mem[w].delivery])
                                 THEN deliveries[mem[w].delivery] ELSE CreateDelivery]
    <2>1. n.job = mem[w].job /\ n.todo = mem[w].todo /\ n.delivery = mem[w].delivery
      BY <1>1 DEF Locals
    <2>2. pc[w] = "create" /\ GoTo(w, "latest", n)
      BY <1>4 DEF CreateOrFindDelivery
    <2> HIDE DEF n
    <2>3. QED
      BY <2>1, <2>2, GoToMoves
  <1>5. ASSUME CheckInitialSend(w)
        PROVE  pc[w] = "latest" /\ ((pc'[w] = "loadclaim" /\ Stays(w)) \/ Looped(w))
    BY <1>1, <1>5, GoToMoves, LoopMoves DEF CheckInitialSend, Locals
  <1>6. QED
    BY <1>2, <1>3, <1>4, <1>5

\* The awaits of the retry handler and of the claim.
LEMMA ClaimMoves ==
    ASSUME TypeOK, NEW w \in Workers
    PROVE  /\ LoadDelivery(w) =>
                /\ pc[w] = "loaddelivery" /\ pc'[w] \in {"loadclaim", "summary"} /\ Stays(w)
                /\ pc'[w] = "summary" =>
                     ~ IsEligibleForRetrySend(deliveries[mem[w].delivery], mem[w].job[3])
           /\ LoadClaim(w) => pc[w] = "loadclaim" /\ pc'[w] = "saveclaim" /\ Stays(w)
           /\ SaveClaim(w) => /\ pc[w] = "saveclaim" /\ pc'[w] = "send" /\ Stays(w)
                              /\ mem'[w].claimed = mem[w].row.retryCount
  <1> USE DEF Stays
  <1>1. mem[w] \in Locals
    BY DEF TypeOK, WorkersOK
  <1>2. ASSUME LoadDelivery(w)
        PROVE  /\ pc[w] = "loaddelivery" /\ pc'[w] \in {"loadclaim", "summary"} /\ Stays(w)
               /\ pc'[w] = "summary" =>
                    ~ IsEligibleForRetrySend(deliveries[mem[w].delivery], mem[w].job[3])
    BY <1>1, <1>2, GoToMoves DEF LoadDelivery
  <1>3. ASSUME LoadClaim(w)
        PROVE  pc[w] = "loadclaim" /\ pc'[w] = "saveclaim" /\ Stays(w)
    BY <1>1, <1>3, GoToMoves DEF LoadClaim, Locals
  <1>4. ASSUME SaveClaim(w)
        PROVE  /\ pc[w] = "saveclaim" /\ pc'[w] = "send" /\ Stays(w)
               /\ mem'[w].claimed = mem[w].row.retryCount
    <2> DEFINE n == [mem[w] EXCEPT !.claimed = mem[w].row.retryCount, !.row = AbsentDelivery]
    <2>1. pc[w] = "saveclaim" /\ GoTo(w, "send", n)
      BY <1>4 DEF SaveClaim
    <2>2. /\ n.job = mem[w].job /\ n.todo = mem[w].todo /\ n.delivery = mem[w].delivery
          /\ n.claimed = mem[w].row.retryCount
      BY <1>1 DEF Locals
    <2> HIDE DEF n
    <2>3. pc'[w] = "send" /\ mem'[w] = n
      BY <2>1, GoToMoves
    <2>4. QED
      BY <2>1, <2>2, <2>3
  <1>5. QED
    BY <1>2, <1>3, <1>4

\* The awaits from the provider call to the retry job.
LEMMA AttemptMoves ==
    ASSUME TypeOK, NEW w \in Workers
    PROVE  /\ Send(w) => /\ pc[w] = "send" /\ pc'[w] = "sequence" /\ Stays(w)
                         /\ mem'[w].claimed = mem[w].claimed
                         /\ mem'[w].outcome \in ProviderOutcomes
                         /\ sent' = [sent EXCEPT ![mem[w].delivery] = Append(@, mem'[w].outcome)]
           /\ NextAttemptSequence(w) =>
                /\ pc[w] = "sequence" /\ pc'[w] = "attempt" /\ Stays(w)
                /\ mem'[w].claimed = mem[w].claimed
                /\ mem'[w].outcome = mem[w].outcome
                /\ mem'[w].sequence = Len(attempts[mem[w].delivery]) + 1
           /\ InsertAttempt(w) =>
                /\ pc[w] = "attempt"
                /\ \/ /\ pc'[w] = "loadoutcome" /\ Stays(w)
                      /\ mem'[w].claimed = mem[w].claimed
                      /\ mem[w].sequence = Len(attempts[mem[w].delivery]) + 1
                      /\ attempts' = [attempts EXCEPT ![mem[w].delivery] = Append(@, mem[w].outcome)]
                      /\ UNCHANGED jobs
                   \/ /\ mem[w].sequence # Len(attempts[mem[w].delivery]) + 1
                      /\ Reject(w) /\ UNCHANGED attempts
           /\ LoadForOutcome(w) =>
                /\ pc[w] = "loadoutcome" /\ pc'[w] = "saveoutcome" /\ Stays(w)
                /\ mem'[w].claimed = mem[w].claimed
           /\ SaveOutcome(w) => /\ pc[w] = "saveoutcome"
                                /\ \/ pc'[w] = "enqueue" /\ Stays(w)
                                   \/ Looped(w)
           /\ EnqueueRetry(w) =>
                /\ pc[w] = "enqueue"
                /\ \/ /\ "taken" \in RetryIdAnswers /\ Looped(w)
                      /\ jobs' = Add(jobs, RetryJob(mem[w].delivery, mem[w].row.retryCount))
                   \/ "refused" \in RetryIdAnswers /\ Reject(w)
  <1> USE DEF Stays
  <1>1. mem[w] \in Locals
    BY DEF TypeOK, WorkersOK
  <1>2. ASSUME Send(w)
        PROVE  /\ pc[w] = "send" /\ pc'[w] = "sequence" /\ Stays(w)
               /\ mem'[w].claimed = mem[w].claimed
               /\ mem'[w].outcome \in ProviderOutcomes
               /\ sent' = [sent EXCEPT ![mem[w].delivery] = Append(@, mem'[w].outcome)]
    <2>1. PICK o \in ProviderOutcomes :
            /\ sent' = [sent EXCEPT ![mem[w].delivery] = Append(@, o)]
            /\ GoTo(w, "sequence", [mem[w] EXCEPT !.outcome = o])
      BY <1>2 DEF Send
    <2> DEFINE n == [mem[w] EXCEPT !.outcome = o]
    <2>2. /\ n.job = mem[w].job /\ n.todo = mem[w].todo /\ n.delivery = mem[w].delivery
          /\ n.claimed = mem[w].claimed /\ n.outcome = o
      BY <1>1 DEF Locals
    <2> HIDE DEF n
    <2>3. pc[w] = "send" /\ pc'[w] = "sequence" /\ mem'[w] = n
      BY <1>2, <2>1, GoToMoves DEF Send, n
    <2>4. QED
      BY <2>1, <2>2, <2>3
  <1>3. ASSUME NextAttemptSequence(w)
        PROVE  /\ pc[w] = "sequence" /\ pc'[w] = "attempt" /\ Stays(w)
               /\ mem'[w].claimed = mem[w].claimed
               /\ mem'[w].outcome = mem[w].outcome
               /\ mem'[w].sequence = Len(attempts[mem[w].delivery]) + 1
    BY <1>1, <1>3, GoToMoves DEF NextAttemptSequence, Locals
  <1>4. ASSUME InsertAttempt(w)
        PROVE  /\ pc[w] = "attempt"
               /\ \/ /\ pc'[w] = "loadoutcome" /\ Stays(w)
                     /\ mem'[w].claimed = mem[w].claimed
                     /\ mem[w].sequence = Len(attempts[mem[w].delivery]) + 1
                     /\ attempts' = [attempts EXCEPT ![mem[w].delivery] = Append(@, mem[w].outcome)]
                     /\ UNCHANGED jobs
                  \/ /\ mem[w].sequence # Len(attempts[mem[w].delivery]) + 1
                     /\ Reject(w) /\ UNCHANGED attempts
    BY <1>1, <1>4, GoToMoves DEF InsertAttempt, Locals
  <1>5. ASSUME LoadForOutcome(w)
        PROVE  /\ pc[w] = "loadoutcome" /\ pc'[w] = "saveoutcome" /\ Stays(w)
               /\ mem'[w].claimed = mem[w].claimed
    BY <1>1, <1>5, GoToMoves DEF LoadForOutcome, Locals
  <1>6. ASSUME SaveOutcome(w)
        PROVE  pc[w] = "saveoutcome" /\ ((pc'[w] = "enqueue" /\ Stays(w)) \/ Looped(w))
    <2>1. CASE NextInLoop(w)
      BY <1>6, <2>1, LoopMoves DEF SaveOutcome
    <2>2. ASSUME NEW row, GoTo(w, "enqueue", [mem[w] EXCEPT !.row = row, !.outcome = "none", !.claimed = 0])
          PROVE  pc[w] = "saveoutcome" /\ pc'[w] = "enqueue" /\ Stays(w)
      <3> DEFINE n == [mem[w] EXCEPT !.row = row, !.outcome = "none", !.claimed = 0]
      <3>1. n.job = mem[w].job /\ n.todo = mem[w].todo /\ n.delivery = mem[w].delivery
        BY <1>1 DEF Locals
      <3> HIDE DEF n
      <3>2. pc'[w] = "enqueue" /\ mem'[w] = n
        BY <2>2, GoToMoves DEF n
      <3>3. QED
        BY <1>6, <3>1, <3>2 DEF SaveOutcome
    <2>3. QED
      BY <1>6, <2>1, <2>2 DEF SaveOutcome
  <1>7. ASSUME EnqueueRetry(w)
        PROVE  /\ pc[w] = "enqueue"
               /\ \/ /\ "taken" \in RetryIdAnswers /\ Looped(w)
                     /\ jobs' = Add(jobs, RetryJob(mem[w].delivery, mem[w].row.retryCount))
                  \/ "refused" \in RetryIdAnswers /\ Reject(w)
    BY <1>7, LoopMoves DEF EnqueueRetry, RetryTaken, RetryRefused
  <1>8. QED
    BY <1>2, <1>3, <1>4, <1>5, <1>6, <1>7

\* The awaits of synchronizeEventStatus, and the ends of a handler.
LEMMA EndMoves ==
    ASSUME TypeOK, NEW w \in Workers
    PROVE  /\ ReadSummary(w) => pc[w] = "summary" /\ pc'[w] = "loadevent" /\ Stays(w)
           /\ LoadEvent(w) => pc[w] = "loadevent" /\ pc'[w] = "saveevent" /\ Stays(w)
           /\ SaveEvent(w) => /\ pc[w] = "saveevent" /\ Stays(w)
                              /\ pc'[w] = IF mem[w].todo = {} THEN "finish" ELSE "find"
           /\ FinishJob(w) => /\ pc[w] = "finish" /\ pc'[w] = "idle"
                              /\ jobs' = MoveToFinished(jobs, mem[w].job, w, "completed")
           /\ Throw(w) => Reject(w) /\ pc[w] # "idle"
           /\ Reject(w) => /\ pc'[w] = "idle"
                           /\ jobs' = MoveToFinished(jobs, mem[w].job, w, "failed")
           /\ Crash(w) => pc[w] # "idle" /\ pc'[w] = "idle" /\ UNCHANGED jobs
  <1> USE DEF Stays
  <1>1. mem[w] \in Locals
    BY DEF TypeOK, WorkersOK
  <1>2. ASSUME ReadSummary(w)
        PROVE  pc[w] = "summary" /\ pc'[w] = "loadevent" /\ Stays(w)
    BY <1>1, <1>2, GoToMoves DEF ReadSummary, Locals
  <1>3. ASSUME LoadEvent(w)
        PROVE  pc[w] = "loadevent" /\ pc'[w] = "saveevent" /\ Stays(w)
    BY <1>1, <1>3, GoToMoves DEF LoadEvent, Locals
  <1>4. ASSUME SaveEvent(w)
        PROVE  /\ pc[w] = "saveevent" /\ Stays(w)
               /\ pc'[w] = IF mem[w].todo = {} THEN "finish" ELSE "find"
    <2> DEFINE n == [mem[w] EXCEPT !.event = AbsentEvent, !.target = "none"]
    <2>1. n.job = mem[w].job /\ n.todo = mem[w].todo /\ n.delivery = mem[w].delivery
      BY <1>1 DEF Locals
    <2>2. pc[w] = "saveevent" /\ GoTo(w, IF mem[w].todo = {} THEN "finish" ELSE "find", n)
      BY <1>4 DEF SaveEvent
    <2> HIDE DEF n
    <2>3. QED
      BY <2>1, <2>2, GoToMoves
  <1>5. QED
    BY <1>2, <1>3, <1>4, GoToMoves DEF FinishJob, Throw, Reject, Crash

\* A step is one of a handler, or it touches neither handlers nor deliveries
\* and at most adds the job of an event or moves a stalled job.
LEMMA WhoMoves ==
    ASSUME [Next]_vars
    PROVE  \/ \E w \in Workers : WorkerStep(w) \/ Throw(w) \/ Crash(w)
           \/ /\ UNCHANGED <<deliveries, attempts, sent, pc, mem>>
              /\ \/ UNCHANGED jobs
                 \/ \E e \in Events : jobs' = Add(jobs, EventJob(e))
                 \/ \E j \in DOMAIN jobs :
                      /\ jobs[j].state = "active"
                      /\ Running(jobs[j].owner, j) => "lockloss" \in Faults
                      /\ jobs' = MoveStalled(jobs, j)
  <1>1. ASSUME NEW e \in Events, InsertEvent(e) \/ RequestStep(e) \/ AbortRequest(e)
        PROVE  /\ UNCHANGED <<deliveries, attempts, sent, pc, mem>>
               /\ UNCHANGED jobs \/ jobs' = Add(jobs, EventJob(e))
    BY <1>1 DEF RequestStep, InsertEvent, EnqueueEvent, LoadQueuedEvent, SaveQueuedEvent,
       AbortRequest, db
  <1>2. CASE DetectStalled \/ LoseLock
    BY <1>2 DEF DetectStalled, LoseLock, db
  <1>3. CASE Rest \/ UNCHANGED vars \/ \E s \in Subs : UpdateSubscription(s)
    BY <1>3 DEF Rest, UpdateSubscription, vars, db
  <1>4. QED
    BY <1>1, <1>2, <1>3 DEF Next

\* A handler that runs after a step ran the same job before, or has just
\* taken a waiting one.
LEMMA KeepsItsJob ==
    ASSUME TypeOK, [Next]_vars, NEW w \in Workers, pc'[w] # "idle"
    PROVE  \/ pc[w] # "idle" /\ mem'[w].job = mem[w].job
           \/ /\ pc[w] = "idle" /\ (TakeEventJob(w) \/ TakeRetryJob(w))
              /\ mem'[w].job \in DOMAIN jobs /\ jobs[mem'[w].job].state = "waiting"
  <1>1. CASE UNCHANGED <<pc, mem>>
    BY <1>1
  <1>2. ASSUME NEW v \in Workers, WorkerStep(v) \/ Throw(v) \/ Crash(v), v # w
        PROVE  pc[w] # "idle" /\ mem'[w].job = mem[w].job
    BY <1>2, StepOfOne DEF OthersStay
  <1>3. CASE TakeEventJob(w) \/ TakeRetryJob(w)
    BY <1>3, TakeMoves
  <1>4. CASE WorkerStep(w) /\ ~ TakeEventJob(w) /\ ~ TakeRetryJob(w)
    BY <1>4, EventMoves, ClaimMoves, AttemptMoves, EndMoves
       DEF WorkerStep, Attempt, Stays, Looped
  <1>5. CASE Throw(w) \/ Crash(w)
    BY <1>5, EndMoves
  <1>6. QED
    BY <1>1, <1>2, <1>3, <1>4, <1>5, WhoMoves

\* The ways the record of a job changes.
Taken(j, w) ==
    /\ jobs[j].state = "waiting" /\ pc[w] = "idle"
    /\ pc'[w] # "idle" /\ mem'[w].job = j
    /\ jobs'[j].state = "active" /\ jobs'[j].owner = w /\ jobs'[j].stalls = jobs[j].stalls

\* The run of job j by handler w has ended in the given state.
Ended(j, w, state) ==
    /\ jobs[j].state = "active" /\ jobs[j].owner = w /\ pc[w] # "idle" /\ mem[w].job = j
    /\ jobs'[j].state = state /\ jobs'[j].stalls = jobs[j].stalls

\* The handler finished its job.
Completed(j, w) == pc[w] = "finish" /\ pc'[w] = "idle" /\ Ended(j, w, "completed")

\* The handler rejected: a fault, a retry job the queue refused, or the
\* unique key of its attempt.
Failed(j, w) ==
    /\ \/ "error" \in Faults
       \/ "refused" \in RetryIdAnswers /\ pc[w] = "enqueue"
       \/ pc[w] = "attempt" /\ mem[w].sequence # Len(attempts[mem[w].delivery]) + 1
    /\ Ended(j, w, "failed")

\* The job of a handler that is gone waits again or fails for good.
Stalled(j) ==
    /\ jobs[j].state = "active"
    /\ Running(jobs[j].owner, j) => "lockloss" \in Faults
    /\ \/ jobs'[j].state = "waiting" /\ jobs'[j].stalls = jobs[j].stalls + 1
       \/ jobs'[j].state = "failed" /\ jobs'[j].stalls = jobs[j].stalls

\* Finishing a job touches only the job of the handler, and only while it
\* holds the lock.
LEMMA FinishedJob ==
    ASSUME TypeOK, NEW w \in Workers, pc[w] # "idle", NEW s \in {"completed", "failed"},
           jobs' = MoveToFinished(jobs, mem[w].job, w, s), NEW j \in DOMAIN jobs
    PROVE  /\ j \in DOMAIN jobs'
           /\ jobs'[j] = jobs[j] \/ Ended(j, w, s)
  <1>1. mem[w].job \in DOMAIN jobs /\ jobs[j] \in JobRecord(Workers)
    BY DEF TypeOK, IsQueue
  <1>2. j \in DOMAIN jobs'
    BY <1>1, MoveTyped DEF TypeOK
  <1>3. QED
    BY <1>1, <1>2 DEF MoveToFinished, JobRecord, Ended

\* What a step does to a job in the queue.
LEMMA JobStep ==
    ASSUME TypeOK, [Next]_vars, NEW j \in DOMAIN jobs
    PROVE  /\ j \in DOMAIN jobs'
           /\ \/ jobs'[j] = jobs[j] \/ Stalled(j)
              \/ \E w \in Workers : Taken(j, w) \/ Completed(j, w) \/ Failed(j, w)
  <1>1. jobs[j] \in JobRecord(Workers) /\ IsQueue(jobs)
    BY DEF TypeOK, IsQueue
  <1>2. CASE UNCHANGED jobs
    BY <1>2
  <1>3. ASSUME NEW k, jobs' = Add(jobs, k)
        PROVE  j \in DOMAIN jobs' /\ jobs'[j] = jobs[j]
    BY <1>3 DEF Add
  <1>4. ASSUME NEW k \in DOMAIN jobs, jobs[k].state = "active",
               Running(jobs[k].owner, k) => "lockloss" \in Faults,
               jobs' = MoveStalled(jobs, k)
        PROVE  j \in DOMAIN jobs' /\ (jobs'[j] = jobs[j] \/ Stalled(j))
    <2>1. j \in DOMAIN jobs'
      BY <1>1, <1>4, MoveStalledTyped
    <2>2. CASE j # k
      BY <1>1, <1>4, <2>1, <2>2 DEF MoveStalled
    <2>3. CASE j = k
      <3>1. jobs'[j] = IF jobs[j].stalls < MaxStalledCount
                         THEN [state |-> "waiting", owner |-> NoWorker, stalls |-> jobs[j].stalls + 1]
                         ELSE [state |-> "failed", owner |-> NoWorker, stalls |-> jobs[j].stalls]
        BY <1>1, <1>4, <2>3 DEF MoveStalled
      <3>2. QED
        BY <1>4, <2>1, <2>3, <3>1 DEF Stalled
    <2>4. QED
      BY <2>2, <2>3
  <1>5. ASSUME NEW w \in Workers, TakeEventJob(w) \/ TakeRetryJob(w)
        PROVE  j \in DOMAIN jobs' /\ (jobs'[j] = jobs[j] \/ Taken(j, w))
    <2>1. PICK k : k = mem'[w].job
      OBVIOUS
    <2>2. /\ pc[w] = "idle" /\ pc'[w] # "idle" /\ k \in DOMAIN jobs
          /\ jobs[k].state = "waiting" /\ jobs' = MoveToActive(jobs, k, w)
      BY <1>5, <2>1, TakeMoves
    <2>3. jobs'[j] = IF j = k THEN [jobs[j] EXCEPT !.state = "active", !.owner = w] ELSE jobs[j]
      BY <1>1, <2>2 DEF MoveToActive
    <2>4. \/ jobs'[j] = jobs[j]
          \/ /\ j = k /\ jobs'[j].state = "active" /\ jobs'[j].owner = w
             /\ jobs'[j].stalls = jobs[j].stalls
      BY <1>1, <2>3 DEF JobRecord
    <2>5. j \in DOMAIN jobs'
      BY <1>1, <2>2, MoveTyped
    <2>6. QED
      BY <2>1, <2>2, <2>4, <2>5 DEF Taken
  <1>6. ASSUME NEW w \in Workers, FinishJob(w)
        PROVE  j \in DOMAIN jobs' /\ (jobs'[j] = jobs[j] \/ Completed(j, w))
    <2>1. /\ pc[w] = "finish" /\ pc'[w] = "idle"
          /\ jobs' = MoveToFinished(jobs, mem[w].job, w, "completed")
      BY <1>6, EndMoves
    <2>2. QED
      BY <2>1, FinishedJob DEF Completed
  <1>7. ASSUME NEW w \in Workers, InsertAttempt(w) \/ Throw(w) \/ (EnqueueRetry(w) /\ RetryRefused(w))
        PROVE  j \in DOMAIN jobs' /\ (jobs'[j] = jobs[j] \/ Failed(j, w))
    <2>1. \/ UNCHANGED jobs
          \/ /\ Reject(w) /\ pc[w] # "idle"
             /\ \/ "error" \in Faults
                \/ "refused" \in RetryIdAnswers /\ pc[w] = "enqueue"
                \/ pc[w] = "attempt" /\ mem[w].sequence # Len(attempts[mem[w].delivery]) + 1
      BY <1>7, AttemptMoves DEF Throw, RetryRefused
    <2>2. Reject(w) => jobs' = MoveToFinished(jobs, mem[w].job, w, "failed")
      BY EndMoves
    <2>3. QED
      BY <2>1, <2>2, FinishedJob DEF Failed
  <1>8. ASSUME NEW w \in Workers, WorkerStep(w) \/ Crash(w), ~ FinishJob(w), ~ InsertAttempt(w),
               ~ TakeEventJob(w), ~ TakeRetryJob(w), EnqueueRetry(w) => ~ RetryRefused(w)
        PROVE  UNCHANGED jobs \/ \E k : jobs' = Add(jobs, k)
    BY <1>8 DEF WorkerStep, Attempt, FindSubscriptions, FindDelivery,
       CreateOrFindDelivery, CheckInitialSend, LoadDelivery, LoadClaim, SaveClaim,
       Send, NextAttemptSequence, LoadForOutcome, SaveOutcome, EnqueueRetry, RetryTaken,
       ReadSummary, LoadEvent, SaveEvent, Crash
  <1>9. QED
    BY <1>2, <1>3, <1>4, <1>5, <1>6, <1>7, <1>8, WhoMoves

\* A job that was not there before is a new one, added by a request or, if
\* the queue takes its id, by a handler that has marked its delivery for retry.
LEMMA JobsAdded ==
    ASSUME TypeOK, [Next]_vars, NEW j \in DOMAIN jobs' \ DOMAIN jobs
    PROVE  /\ jobs'[j] = NewJob
           /\ \/ \E e \in Events : j = EventJob(e)
              \/ /\ "taken" \in RetryIdAnswers
                 /\ \E w \in Workers :
                      EnqueueRetry(w) /\ j = RetryJob(mem[w].delivery, mem[w].row.retryCount)
  <1>1. ASSUME NEW k, jobs' = Add(jobs, k)
        PROVE  j = k /\ jobs'[j] = NewJob
    BY <1>1 DEF Add
  <1>2. ASSUME NEW w \in Workers, WorkerStep(w) \/ Throw(w) \/ Crash(w),
               ~ (EnqueueRetry(w) /\ RetryTaken(w))
        PROVE  FALSE
    <2>1. \/ UNCHANGED jobs
          \/ \E k \in DOMAIN jobs : jobs' = MoveToActive(jobs, k, w)
          \/ \E s \in {"completed", "failed"} :
               pc[w] # "idle" /\ jobs' = MoveToFinished(jobs, mem[w].job, w, s)
      BY <1>2 DEF WorkerStep, Attempt, Throw, Crash, TakeEventJob,
           FindSubscriptions, FindDelivery, CreateOrFindDelivery, CheckInitialSend,
           TakeRetryJob, LoadDelivery, LoadClaim, SaveClaim, Send, NextAttemptSequence,
           InsertAttempt, LoadForOutcome, SaveOutcome, EnqueueRetry, RetryTaken, RetryRefused,
           ReadSummary, LoadEvent,
           SaveEvent, FinishJob, Reject
    <2>2. DOMAIN jobs' = DOMAIN jobs
      BY <2>1, MoveTyped DEF TypeOK
    <2>3. QED
      BY <2>2
  <1>3. ASSUME NEW w \in Workers, EnqueueRetry(w), RetryTaken(w)
        PROVE  /\ "taken" \in RetryIdAnswers
               /\ jobs' = Add(jobs, RetryJob(mem[w].delivery, mem[w].row.retryCount))
    BY <1>3 DEF EnqueueRetry, RetryTaken, RetryRefused
  <1>4. ASSUME NEW k \in DOMAIN jobs, jobs' = MoveStalled(jobs, k)
        PROVE  FALSE
    BY <1>4, MoveStalledTyped DEF TypeOK
  <1>5. QED
    BY <1>1, <1>2, <1>3, <1>4, WhoMoves

(***************************************************************************)
(* Retries to come. Scheduled says which job stands for the retry that a   *)
(* RETRYING delivery waits for: its own job, or the one whose handler is   *)
(* about to add it, or an interrupted one. It is inductive relative to     *)
(* Exclusion.                                                              *)
(***************************************************************************)

\* The awaits a retry job may be at while the retry it is for is still due.
BeforeClaim == {"loaddelivery", "loadclaim", "saveclaim"}

\* The retry a job is for is due, given the rows of the deliveries.
DueIn(j, rows) == Due(j, rows[j[2]])

\* A handler acts on the retry count its job was added for, and inserts the
\* attempt that follows those on record.
OnCount(label, m) ==
    /\ label \in Claimed => m.claimed = m.job[3]
    /\ label = "enqueue" => m.row.retryCount = m.job[3] + 1
    /\ label = "attempt" => m.sequence = m.claimed + 1

\* An active job is owned by a worker.
OwnersKnown == \A j \in DOMAIN jobs : jobs[j].state = "active" => jobs[j].owner \in Workers

\* A retry job that has completed, or is past the claim, is not due any more.
DoneIsNotDue ==
    /\ \A j \in DOMAIN jobs : j[1] = "retry" /\ jobs[j].state = "completed" => ~ DueIn(j, deliveries)
    /\ \A w \in Workers :
         pc[w] \notin BeforeClaim \cup {"idle"} /\ mem[w].job[1] = "retry" => ~ DueIn(mem[w].job, deliveries)

\* A retry that is due and has no job will get it, unless the job that
\* ordered it was interrupted.
Ordered(d) ==
    \A n \in Nat :
        /\ deliveries[d].status = "retrying" /\ deliveries[d].retryCount = n
        /\ RetryJob(d, n) \notin DOMAIN jobs
        => \/ \E w \in Workers : pc[w] = "enqueue" /\ mem[w].delivery = d
           \/ Interrupted(OrderedBy(d, n))

\* The invariant: owners, counts and orders agree for every retry.
Scheduled ==
    /\ OwnersKnown
    /\ \A w \in Workers : OnCount(pc[w], mem[w])
    /\ DoneIsNotDue
    /\ \A d \in Deliveries : Ordered(d)

\* A job once interrupted remains recognisable.
LEMMA InterruptedStays ==
    ASSUME TypeOK, OwnersKnown, [Next]_vars, NEW j, Interrupted(j)
    PROVE  Interrupted(j)'
  <1>1. j \in DOMAIN jobs /\ jobs[j].stalls \in Nat
    BY DEF Interrupted, TypeOK, IsQueue, JobRecord
  <1>2. CASE jobs'[j] = jobs[j]
    <2>1. CASE jobs[j].state = "active" /\ ~ Running(jobs[j].owner, j)
      <3>1. jobs[j].owner \in Workers
        BY <1>1, <2>1 DEF OwnersKnown
      <3>2. ~ Running(jobs[j].owner, j)'
        BY <1>2, <2>1, <3>1, KeepsItsJob DEF Running
      <3>3. QED
        BY <1>1, <1>2, <2>1, <3>2, JobStep DEF Interrupted
    <2>2. CASE jobs[j].state = "failed" \/ jobs[j].stalls > 0
      BY <1>1, <1>2, <2>2, JobStep DEF Interrupted
    <2>3. QED
      BY <2>1, <2>2 DEF Interrupted
  <1>3. CASE jobs'[j] # jobs[j]
    <2>1. j \in DOMAIN jobs'
      BY <1>1, JobStep
    <2>2. \/ jobs'[j].stalls = jobs[j].stalls /\ jobs[j].stalls > 0
          \/ jobs'[j].stalls = jobs[j].stalls + 1
          \/ jobs'[j].state = "failed"
      <3>1. ASSUME NEW o \in Workers, jobs[j].state = "active", jobs[j].owner = o,
                   pc[o] # "idle", mem[o].job = j
            PROVE  jobs[j].stalls > 0
        BY <3>1 DEF Interrupted, Running
      <3>2. jobs[j].state = "waiting" => jobs[j].stalls > 0
        BY DEF Interrupted
      <3>3. QED
        BY <1>1, <1>3, <3>1, <3>2, JobStep DEF Stalled, Taken, Completed, Failed, Ended
    <2>3. QED
      BY <1>1, <2>1, <2>2 DEF Interrupted
  <1>4. QED
    BY <1>2, <1>3

\* What a step does to a delivery that waits for a retry after it.
LEMMA RetryingStep ==
    ASSUME TypeOK, Exclusion, [Next]_vars, NEW d \in Deliveries,
           deliveries'[d].status = "retrying"
    PROVE  \/ deliveries'[d] = deliveries[d]
           \/ /\ deliveries'[d].retryCount = deliveries[d].retryCount + 1
              /\ \E w \in Workers : pc'[w] = "enqueue" /\ mem'[w].delivery = d
  <1>1. CASE UNCHANGED deliveries
    BY <1>1
  <1>2. ASSUME NEW w \in Workers, CreateOrFindDelivery(w)
        PROVE  deliveries'[d] = deliveries[d]
    BY <1>2 DEF CreateOrFindDelivery, CreateDelivery, AbsentDelivery, TypeOK, DatabaseOK
  <1>3. ASSUME NEW w \in Workers, SaveClaim(w)
        PROVE  deliveries'[d] = deliveries[d]
    <2>1. mem[w] \in Locals
      BY DEF TypeOK, WorkersOK
    <2>2. MarkProcessing(mem[w].row).status = "processing"
      BY <2>1 DEF MarkProcessing, Locals, DeliveryRow
    <2>3. QED
      BY <1>3, <2>2 DEF SaveClaim, TypeOK, DatabaseOK
  <1>4. ASSUME NEW w \in Workers, SaveOutcome(w), deliveries'[d] # deliveries[d]
        PROVE  /\ deliveries'[d].retryCount = deliveries[d].retryCount + 1
               /\ pc'[w] = "enqueue" /\ mem'[w].delivery = d
    <2> DEFINE m == mem[w]
               row == RecordOutcome(m.row, m.claimed, m.outcome)
    <2>1. pc[w] = "saveoutcome" /\ m \in Locals /\ deliveries' = [deliveries EXCEPT ![m.delivery] = row]
      BY <1>4 DEF SaveOutcome, TypeOK, WorkersOK
    <2>2. m.delivery = d /\ deliveries'[d] = row /\ row.status = "retrying"
      BY <1>4, <2>1 DEF TypeOK, DatabaseOK
    <2>3. row.retryCount = m.claimed + 1
      <3>1. row = MarkRetrying(m.row, m.claimed + 1)
        BY <2>1, <2>2 DEF RecordOutcome, MarkAttemptOutcome, Locals, DeliveryRow
      <3>2. QED
        BY <3>1 DEF MarkRetrying
    <2>4. m.claimed = deliveries[d].retryCount
      BY <2>1, <2>2 DEF Exclusion, Fit, Claimed
    <2>5. pc'[w] = "enqueue"
      BY <1>4, <2>2, GoToMoves DEF SaveOutcome
    <2>6. pc'[w] = "enqueue" /\ mem'[w].delivery = d
      BY <1>4, <2>2, <2>5, AttemptMoves DEF Stays, Looped
    <2>7. QED
      BY <2>2, <2>3, <2>4, <2>6
  <1>5. ASSUME NEW w \in Workers, WorkerStep(w) \/ Throw(w) \/ Crash(w),
               ~ CreateOrFindDelivery(w), ~ SaveClaim(w), ~ SaveOutcome(w)
        PROVE  UNCHANGED deliveries
    BY <1>5 DEF WorkerStep, Attempt, TakeEventJob, FindSubscriptions, FindDelivery,
       CheckInitialSend, TakeRetryJob, LoadDelivery, LoadClaim,
       Send, NextAttemptSequence, InsertAttempt, LoadForOutcome, EnqueueRetry, RetryTaken,
       RetryRefused,
       ReadSummary, LoadEvent, SaveEvent, FinishJob, Throw, Crash, db
  <1>6. QED
    BY <1>1, <1>2, <1>3, <1>4, <1>5, WhoMoves

\* A retry that is over stays over: the count of a delivery only grows.
LEMMA NotDueStays ==
    ASSUME TypeOK, Exclusion, [Next]_vars, NEW j \in DOMAIN jobs, j[1] = "retry", ~ DueIn(j, deliveries)
    PROVE  ~ DueIn(j, deliveries')
  <1>1. j[2] \in Deliveries /\ j[3] \in Nat
    BY JobShapes DEF TypeOK, IsQueue
  <1>2. j[3] <= deliveries[j[2]].retryCount /\ deliveries[j[2]].retryCount \in Nat
    BY <1>1 DEF Exclusion, RetriesAreRecorded, TypeOK, DatabaseOK, DeliveryRow
  <1>3. QED
    BY <1>1, <1>2, RetryingStep DEF DueIn, Due

-----------------------------------------------------------------------------
\* Only a handler makes a job active, and it becomes the owner.
LEMMA OwnersStayKnown ==
    ASSUME TypeOK, OwnersKnown, [Next]_vars
    PROVE  OwnersKnown'
  <1> SUFFICES ASSUME NEW j \in DOMAIN jobs', jobs'[j].state = "active"
               PROVE  jobs'[j].owner \in Workers
    BY DEF OwnersKnown
  <1>1. CASE j \in DOMAIN jobs
    BY <1>1, JobStep DEF OwnersKnown, Stalled, Taken, Completed, Failed, Ended
  <1>2. CASE j \notin DOMAIN jobs
    BY <1>2, JobsAdded DEF NewJob
  <1>3. QED
    BY <1>1, <1>2

\* A handler takes the count for its retry from its job.
LEMMA OnCountStays ==
    ASSUME TypeOK, JobsReferToRows, Exclusion, Ledger, Scheduled, [Next]_vars, NEW w \in Workers
    PROVE  OnCount(pc'[w], mem'[w])
  <1> USE DEF OnCount, Claimed
  <1>1. OnCount(pc[w], mem[w])
    BY DEF Scheduled
  <1>2. CASE pc'[w] = pc[w] /\ mem'[w] = mem[w]
    BY <1>1, <1>2
  <1>3. CASE pc'[w] \notin Claimed \cup {"enqueue"}
    BY <1>3
  <1>4. CASE SaveClaim(w)
    <2>1. /\ pc[w] = "saveclaim" /\ pc'[w] = "send" /\ mem'[w].job = mem[w].job
          /\ mem'[w].claimed = mem[w].row.retryCount
      BY <1>4, ClaimMoves DEF Stays
    <2>2. /\ mem[w].row = deliveries[mem[w].delivery]
          /\ Due(mem[w].job, deliveries[mem[w].delivery])
      BY <2>1 DEF Exclusion, Fit
    <2>3. mem[w].delivery \in Deliveries /\ mem[w].job \in EventJobs \cup RetryJobs
      BY <2>1 DEF TypeOK, WorkersOK, LocalsOK, InAttempt
    <2>4. CASE mem[w].job[1] = "event"
      <3>1. mem[w].job[3] = 0
        BY <2>3, <2>4 DEF EventJobs, RetryJobs
      <3>2. deliveries[mem[w].delivery].retryCount = 0
        BY <2>2, <2>3, <2>4 DEF Due, Ledger, Booked
      <3>3. QED
        BY <2>1, <2>2, <3>1, <3>2
    <2>5. CASE mem[w].job[1] # "event"
      BY <2>1, <2>2, <2>5 DEF Due
    <2>6. QED
      BY <2>4, <2>5
  <1>5. CASE Send(w) \/ LoadForOutcome(w)
    BY <1>1, <1>5, AttemptMoves DEF Stays
  <1>6. CASE NextAttemptSequence(w)
    <2>1. /\ pc[w] = "sequence" /\ pc'[w] = "attempt" /\ mem'[w].job = mem[w].job
          /\ mem'[w].claimed = mem[w].claimed
          /\ mem'[w].sequence = Len(attempts[mem[w].delivery]) + 1
      BY <1>6, AttemptMoves DEF Stays
    <2>2. Len(attempts[mem[w].delivery]) = mem[w].claimed
      BY <2>1, AttemptFacts DEF BookedAt
    <2>3. QED
      BY <1>1, <2>1, <2>2
  <1>7. CASE InsertAttempt(w)
    BY <1>1, <1>7, AttemptMoves, EndMoves DEF Stays
  <1>8. CASE SaveOutcome(w)
    <2> DEFINE m == mem[w]
               row == RecordOutcome(m.row, m.claimed, m.outcome)
               n == [m EXCEPT !.row = row, !.outcome = "none", !.claimed = 0]
    <2>1. m \in Locals /\ pc[w] = "saveoutcome"
      BY <1>8 DEF SaveOutcome, TypeOK, WorkersOK
    <2>2. CASE row.status = "retrying"
      <3>1. row.retryCount = m.claimed + 1
        <4>1. row = MarkRetrying(m.row, m.claimed + 1)
          BY <2>1, <2>2 DEF RecordOutcome, MarkAttemptOutcome, Locals, DeliveryRow
        <4>2. QED
          BY <4>1 DEF MarkRetrying
      <3>2. pc'[w] = "enqueue" /\ mem'[w] = n
        BY <1>8, <2>2, GoToMoves DEF SaveOutcome
      <3>3. n.row = row /\ n.job = m.job
        BY <2>1 DEF Locals
      <3> HIDE DEF n, row
      <3>4. QED
        BY <1>1, <2>1, <3>1, <3>2, <3>3
    <2>3. CASE row.status # "retrying"
      BY <1>8, <2>3, LoopMoves DEF SaveOutcome, Looped
    <2>4. QED
      BY <2>2, <2>3
  <1>9. ASSUME WorkerStep(w) \/ Throw(w) \/ Crash(w), ~ SaveClaim(w), ~ Send(w),
               ~ LoadForOutcome(w), ~ NextAttemptSequence(w), ~ InsertAttempt(w), ~ SaveOutcome(w)
        PROVE  pc'[w] \notin Claimed \cup {"enqueue"}
    BY <1>9, TakeMoves, EventMoves, ClaimMoves, AttemptMoves, EndMoves
       DEF WorkerStep, Attempt, Looped
  <1>10. QED
    BY <1>2, <1>3, <1>4, <1>5, <1>6, <1>7, <1>8, <1>9, WhoMoves, StepOfOne DEF OthersStay

\* What a retry job stands for is over once its handler is past the claim.
LEMMA PastClaim ==
    ASSUME TypeOK, Exclusion, Scheduled, [Next]_vars, NEW w \in Workers,
           pc'[w] \notin BeforeClaim \cup {"idle"}, mem'[w].job[1] = "retry"
    PROVE  ~ DueIn(mem'[w].job, deliveries')
  <1> DEFINE j == mem[w].job
  <1> USE DEF BeforeClaim
  <1>1. CASE pc[w] \notin BeforeClaim \cup {"idle"} /\ mem'[w].job = j
    <2>1. ~ DueIn(j, deliveries) /\ j \in DOMAIN jobs
      BY <1>1 DEF Scheduled, DoneIsNotDue, TypeOK
    <2>2. ~ DueIn(j, deliveries')
      BY <1>1, <2>1, NotDueStays
    <2>3. QED
      BY <1>1, <2>2 DEF DueIn
  <1>2. CASE pc[w] = "idle"
    <2>1. pc'[w] = "subscriptions" /\ mem'[w].job \in EventJobs
      BY <1>2, KeepsItsJob, TakeMoves
    <2>2. QED
      BY <2>1 DEF EventJobs
  <1>3. CASE pc[w] \in BeforeClaim
    <2>1. CASE UNCHANGED <<pc, mem>>
      BY <1>3, <2>1
    <2>2. PICK v \in Workers : WorkerStep(v) \/ Throw(v) \/ Crash(v)
      BY <1>3, WhoMoves
    <2>3. v = w
      BY <1>3, <2>2, StepOfOne DEF OthersStay
    <2>4. LoadDelivery(w) \/ LoadClaim(w) \/ SaveClaim(w)
      BY <1>3, <2>2, <2>3, TakeMoves, EventMoves, ClaimMoves, AttemptMoves, EndMoves
         DEF WorkerStep, Attempt
    <2>5. /\ mem'[w].job = j /\ j \in DOMAIN jobs /\ j \in EventJobs \cup RetryJobs
          /\ mem[w].delivery \in Deliveries
      BY <1>3, <2>4, ClaimMoves DEF Stays, TypeOK, WorkersOK, LocalsOK, InAttempt
    <2>6. mem[w].delivery = j[2]
      BY <1>3, <2>5 DEF Exclusion, Fit, InAttempt
    <2>7. CASE LoadDelivery(w)
      <3>1. ~ IsEligibleForRetrySend(deliveries[mem[w].delivery], j[3]) /\ UNCHANGED deliveries
        BY <2>7, ClaimMoves DEF LoadDelivery, db
      <3>2. QED
        BY <2>5, <2>6, <3>1 DEF IsEligibleForRetrySend, DueIn, Due
    <2>8. CASE SaveClaim(w)
      <3>1. deliveries'[j[2]] = MarkProcessing(mem[w].row) /\ mem[w].row \in DeliveryRow
        BY <2>5, <2>6, <2>8 DEF SaveClaim, TypeOK, DatabaseOK, WorkersOK, Locals
      <3>2. deliveries'[j[2]].status = "processing"
        BY <3>1 DEF MarkProcessing, DeliveryRow
      <3>3. QED
        BY <2>5, <3>2 DEF DueIn, Due
    <2>9. CASE LoadClaim(w)
      BY <2>9, ClaimMoves
    <2>10. QED
      BY <2>4, <2>7, <2>8, <2>9
  <1>4. QED
    BY <1>1, <1>2, <1>3, KeepsItsJob

\* The retry of a job that is completed or past its claim stays over.
LEMMA DoneStaysDone ==
    ASSUME TypeOK, Exclusion, Scheduled, [Next]_vars
    PROVE  DoneIsNotDue'
  <1>1. ASSUME NEW j \in DOMAIN jobs', j[1] = "retry", jobs'[j].state = "completed"
        PROVE  ~ DueIn(j, deliveries')
    <2>1. j \in DOMAIN jobs
      BY <1>1, JobsAdded DEF NewJob
    <2>2. \/ jobs[j].state = "completed"
          \/ \E w \in Workers : pc[w] = "finish" /\ mem[w].job = j
      BY <1>1, <2>1, JobStep DEF Stalled, Taken, Completed, Failed, Ended
    <2>3. ~ DueIn(j, deliveries)
      BY <1>1, <2>1, <2>2 DEF Scheduled, DoneIsNotDue, BeforeClaim
    <2>4. QED
      BY <1>1, <2>1, <2>3, NotDueStays
  <1>2. QED
    BY <1>1, PastClaim DEF DoneIsNotDue

\* A handler about to add a retry job does so, or its own job is interrupted.
LEMMA OrderIsCarriedOut ==
    ASSUME TypeOK, JobsReferToRows, Exclusion, Scheduled, [Next]_vars,
           NEW w \in Workers, pc[w] = "enqueue",
           NEW d, mem[w].delivery = d, NEW n, deliveries[d].retryCount = n
    PROVE  \/ pc'[w] = "enqueue" /\ mem'[w].delivery = d
           \/ RetryJob(d, n) \in DOMAIN jobs'
           \/ Interrupted(OrderedBy(d, n))'
  <1>0. PICK j : j = mem[w].job
    OBVIOUS
  <1>1. /\ d \in Deliveries /\ j \in DOMAIN jobs /\ j \in EventJobs \cup RetryJobs
        /\ jobs[j].state = "active" /\ jobs[j].owner = w
        /\ mem[w].row = deliveries[d]
        /\ n = j[3] + 1
    BY <1>0 DEF TypeOK, WorkersOK, LocalsOK, InAttempt, Exclusion, Fit, Scheduled, OnCount
  <1>2. j = OrderedBy(d, n)
    <2>1. CASE j[1] = "event"
      <3>1. j = EventJob(d[1])
        BY <1>0, <1>1, <2>1, JobShapes DEF Exclusion, Fit, InAttempt
      <3>2. j[3] = 0
        BY <3>1 DEF EventJob
      <3>3. QED
        BY <1>1, <3>1, <3>2 DEF OrderedBy
    <2>2. CASE j[1] = "retry"
      <3>1. d = j[2] /\ j = RetryJob(d, j[3])
        BY <1>0, <1>1, <2>2, JobShapes DEF Exclusion, Fit, InAttempt
      <3>2. j[3] \in Nat \ {0}
        BY <1>1, <2>2, RetryLimitAssumption DEF JobsReferToRows
      <3>3. n # 1 /\ n - 1 = j[3]
        BY <1>1, <3>2
      <3>4. QED
        BY <3>1, <3>3 DEF OrderedBy
    <2>3. QED
      BY <1>1, <2>1, <2>2, JobShapes
  <1>3. CASE UNCHANGED <<pc, mem>> \/ (pc'[w] = pc[w] /\ mem'[w] = mem[w])
    BY <1>3
  <1>4. CASE EnqueueRetry(w) /\ ~ Reject(w)
    <2>1. jobs' = Add(jobs, RetryJob(d, n))
      BY <1>0, <1>1, <1>4, AttemptMoves
    <2>2. QED
      BY <2>1 DEF Add
  <1>5. CASE Throw(w) \/ (EnqueueRetry(w) /\ Reject(w))
    <2>1. jobs' = MoveToFinished(jobs, j, w, "failed")
      BY <1>0, <1>5, AttemptMoves, EndMoves
    <2>2. jobs'[j] = [jobs[j] EXCEPT !.state = "failed", !.owner = NoWorker] /\ j \in DOMAIN jobs'
      BY <1>1, <2>1 DEF MoveToFinished, TypeOK, IsQueue
    <2>3. jobs'[j].state = "failed"
      BY <1>1, <2>2 DEF TypeOK, IsQueue, JobRecord
    <2>4. QED
      BY <1>2, <2>2, <2>3 DEF Interrupted
  <1>6. CASE Crash(w)
    <2>1. pc'[w] = "idle" /\ UNCHANGED jobs
      BY <1>6, EndMoves
    <2>2. QED
      BY <1>1, <1>2, <2>1 DEF Interrupted, Running
  <1>7. ASSUME WorkerStep(w), ~ EnqueueRetry(w)
        PROVE  FALSE
    BY <1>7, TakeMoves, EventMoves, ClaimMoves, AttemptMoves, EndMoves DEF WorkerStep, Attempt
  <1>8. QED
    BY <1>3, <1>4, <1>5, <1>6, <1>7, WhoMoves, StepOfOne DEF OthersStay

\* A retry that is due and has no job yet is still to be added, or the job
\* that ordered it was interrupted.
LEMMA OrdersStay ==
    ASSUME TypeOK, JobsReferToRows, Exclusion, Scheduled, [Next]_vars, NEW d \in Deliveries
    PROVE  Ordered(d)'
  <1> SUFFICES ASSUME NEW n \in Nat, deliveries'[d].status = "retrying",
                      deliveries'[d].retryCount = n, RetryJob(d, n) \notin DOMAIN jobs',
                      ~ \E w \in Workers : pc'[w] = "enqueue" /\ mem'[w].delivery = d
               PROVE  Interrupted(OrderedBy(d, n))'
    BY DEF Ordered
  <1>1. deliveries'[d] = deliveries[d]
    BY RetryingStep
  <1>2. RetryJob(d, n) \notin DOMAIN jobs
    BY JobStep
  <1>3. CASE Interrupted(OrderedBy(d, n))
    BY <1>3, InterruptedStays DEF Scheduled
  <1>4. ASSUME NEW w \in Workers, pc[w] = "enqueue", mem[w].delivery = d
        PROVE  Interrupted(OrderedBy(d, n))'
    BY <1>1, <1>4, OrderIsCarriedOut
  <1>5. QED
    BY <1>1, <1>2, <1>3, <1>4 DEF Scheduled, Ordered

\* Scheduled is inductive.
LEMMA NextKeepsScheduled ==
    ASSUME TypeOK, JobsReferToRows, Exclusion, Ledger, Scheduled, [Next]_vars
    PROVE  Scheduled'
  <1>1. OwnersKnown'
    BY OwnersStayKnown DEF Scheduled
  <1>2. \A w \in Workers : OnCount(pc'[w], mem'[w])
    BY OnCountStays
  <1>3. DoneIsNotDue'
    BY DoneStaysDone
  <1>4. \A d \in Deliveries : Ordered(d)'
    BY OrdersStay
  <1>5. QED
    BY <1>1, <1>2, <1>3, <1>4 DEF Scheduled

\* Scheduled always holds if no running handler loses its lock.
LEMMA ScheduledIsInvariant ==
    ASSUME "lockloss" \notin Faults PROVE Spec => []Scheduled
  <1>1. Init => Scheduled
    BY DEF Init, Scheduled, OwnersKnown, OnCount, Claimed, DoneIsNotDue, Ordered, AbsentDelivery
  <1>2. TypeOK /\ JobsReferToRows /\ Exclusion /\ Ledger /\ Scheduled /\ [Next]_vars => Scheduled'
    BY NextKeepsScheduled
  <1>3. QED
    BY <1>1, <1>2, TypeCorrect, JobsAreBacked, ExclusionIsInvariant, LedgerIsInvariant, PTL DEF Spec

\* However workers crash and reject, a retry that nothing will make again has
\* left a trace: its job, or the one whose handler ordered it, was
\* interrupted.  Only a running handler must not lose its lock.
THEOREM LostRetriesAreTraceable ==
    ASSUME "lockloss" \notin Faults PROVE Spec => []LostRetryLeavesTrace
  <1>1. TypeOK /\ Scheduled => LostRetryLeavesTrace
    <2> SUFFICES ASSUME TypeOK, Scheduled, NEW d \in Deliveries, deliveries[d].status = "retrying",
                        NEW n, n = deliveries[d].retryCount, NEW j, j = RetryJob(d, n)
                 PROVE  \/ j \in DOMAIN jobs /\ jobs[j].state = "waiting"
                        \/ \E w \in Workers : \/ Running(w, j)
                                              \/ pc[w] = "enqueue" /\ mem[w].delivery = d
                        \/ Interrupted(j)
                        \/ Interrupted(OrderedBy(d, n))
      BY DEF LostRetryLeavesTrace
    <2>1. n \in Nat
      BY DEF TypeOK, DatabaseOK, DeliveryRow
    <2>2. CASE j \notin DOMAIN jobs
      BY <2>1, <2>2 DEF Scheduled, Ordered
    <2>3. CASE j \in DOMAIN jobs
      <3>1. jobs[j].state \in JobState
        BY <2>3 DEF TypeOK, IsQueue, JobRecord
      <3>2. jobs[j].state # "completed"
        BY <2>3 DEF Scheduled, DoneIsNotDue, DueIn, Due, RetryJob
      <3>3. jobs[j].state = "active" => jobs[j].owner \in Workers
        BY <2>3 DEF Scheduled, OwnersKnown
      <3>4. QED
        BY <2>3, <3>1, <3>2, <3>3 DEF JobState, Interrupted
    <2>4. QED
      BY <2>2, <2>3
  <1>2. QED
    BY <1>1, TypeCorrect, ScheduledIsInvariant, PTL

-----------------------------------------------------------------------------
\* Without faults the only job that fails is one whose handler was refused a
\* retry job, which is past its own retry: the unique key of an attempt is
\* free when it is inserted, and every active job is run by its owner.
OnlyRefusalsFail ==
    \A j \in DOMAIN jobs :
        /\ jobs[j].state = "failed" => "refused" \in RetryIdAnswers
        /\ jobs[j].state = "failed" /\ j[1] = "retry" => ~ DueIn(j, deliveries)
        /\ jobs[j].stalls = 0
        /\ jobs[j].state = "active" => Running(jobs[j].owner, j)

\* Without faults a step interrupts a job only by a refusal.
LEMMA NextKeepsOnlyRefusalsFail ==
    ASSUME Faults \cap {"crash", "error", "lockloss"} = {},
           TypeOK, Exclusion, Ledger, Scheduled, OnlyRefusalsFail, [Next]_vars
    PROVE  OnlyRefusalsFail'
  <1>1. ASSUME NEW w \in Workers, pc[w] = "attempt"
        PROVE  mem[w].sequence = Len(attempts[mem[w].delivery]) + 1
    <2>1. Len(attempts[mem[w].delivery]) = mem[w].claimed
      BY <1>1, AttemptFacts DEF BookedAt, Claimed
    <2>2. QED
      BY <1>1, <2>1 DEF Scheduled, OnCount
  <1>2. ASSUME NEW j \in DOMAIN jobs', j \notin DOMAIN jobs
        PROVE  jobs'[j].state = "waiting" /\ jobs'[j].stalls = 0
    BY <1>2, JobsAdded DEF NewJob
  <1>3. ASSUME NEW j \in DOMAIN jobs
        PROVE  /\ jobs'[j].state = "failed" => "refused" \in RetryIdAnswers
               /\ jobs'[j].stalls = 0
               /\ jobs'[j].state = "active" =>
                    \E w \in Workers : jobs'[j].owner = w /\ pc'[w] # "idle" /\ mem'[w].job = j
    <2>1. CASE jobs'[j] = jobs[j]
      <3>1. CASE jobs[j].state = "active"
        <4>1. PICK w \in Workers : w = jobs[j].owner
          BY <3>1 DEF Scheduled, OwnersKnown
        <4>2. pc[w] # "idle" /\ mem[w].job = j
          BY <3>1, <4>1 DEF OnlyRefusalsFail, Running
        <4>3. ASSUME NEW s \in {"completed", "failed"}, jobs' = MoveToFinished(jobs, j, w, s)
              PROVE  FALSE
          BY <2>1, <3>1, <4>1, <4>3 DEF MoveToFinished, TypeOK, IsQueue, JobRecord
        <4>4. pc'[w] # "idle"
          <5>1. ~ FinishJob(w) /\ ~ Reject(w)
            BY <4>2, <4>3, EndMoves
          <5>2. CASE WorkerStep(w)
            BY <1>1, <5>1, <5>2, TakeMoves, EventMoves, ClaimMoves, AttemptMoves, EndMoves
               DEF WorkerStep, Attempt, Looped
          <5>3. ~ Throw(w) /\ ~ Crash(w)
            BY DEF Throw, Crash
          <5>4. QED
            BY <4>2, <5>2, <5>3, WhoMoves, StepOfOne DEF OthersStay
        <4>5. QED
          BY <2>1, <4>1, <4>2, <4>4, KeepsItsJob DEF OnlyRefusalsFail
      <3>2. CASE jobs[j].state # "active"
        BY <2>1, <3>2 DEF OnlyRefusalsFail
      <3>3. QED
        BY <3>1, <3>2
    <2>2. ~ Stalled(j)
      BY DEF Stalled, OnlyRefusalsFail
    <2>3. ASSUME NEW w \in Workers, Failed(j, w)
          PROVE  /\ "refused" \in RetryIdAnswers
                 /\ jobs'[j].stalls = 0 /\ jobs'[j].state = "failed"
      BY <1>1, <2>3 DEF Failed, Ended, OnlyRefusalsFail
    <2>4. ASSUME NEW w \in Workers, Taken(j, w) \/ Completed(j, w)
          PROVE  /\ jobs'[j].stalls = 0
                 /\ \/ jobs'[j].state = "completed"
                    \/ jobs'[j].state = "active" /\ jobs'[j].owner = w /\ pc'[w] # "idle" /\ mem'[w].job = j
      BY <2>4 DEF Taken, Completed, Ended, OnlyRefusalsFail
    <2>5. QED
      BY <2>1, <2>2, <2>3, <2>4, JobStep
  <1>4. ASSUME NEW j \in DOMAIN jobs, j[1] = "retry", jobs'[j].state = "failed"
        PROVE  ~ DueIn(j, deliveries')
    <2>1. CASE jobs[j].state = "failed"
      BY <1>4, <2>1, NotDueStays DEF OnlyRefusalsFail
    <2>2. ASSUME NEW w \in Workers, Failed(j, w)
          PROVE  ~ DueIn(j, deliveries)
      <3>1. pc[w] = "enqueue" /\ mem[w].job = j
        BY <1>1, <2>2 DEF Failed, Ended
      <3>2. QED
        BY <1>4, <3>1 DEF Scheduled, DoneIsNotDue, BeforeClaim
    <2>3. ~ Stalled(j)
      BY DEF Stalled, OnlyRefusalsFail
    <2>4. CASE \E w \in Workers : Failed(j, w)
      BY <1>4, <2>2, <2>4, NotDueStays
    <2>5. jobs[j].state = "failed" \/ \E w \in Workers : Failed(j, w)
      BY <1>4, <2>3, JobStep DEF Taken, Completed, Ended
    <2>6. QED
      BY <2>1, <2>4, <2>5
  <1>5. QED
    BY <1>2, <1>3, <1>4 DEF OnlyRefusalsFail, Running

\* Where nothing fails but, perhaps, the queue refuses the ids of retry jobs:
\* a RETRYING delivery has its retry job to come, at every await of any number
\* of handlers, unless that job was refused and the job that asked for it
\* failed.
THEOREM RetriesAreAccountedFor ==
    ASSUME Faults \cap {"crash", "error", "lockloss"} = {} PROVE Spec => []RetryingIsAccountedFor
  <1>1. "lockloss" \notin Faults
    OBVIOUS
  <1>2. Init => OnlyRefusalsFail
    BY DEF Init, OnlyRefusalsFail
  <1>3. TypeOK /\ Exclusion /\ Ledger /\ Scheduled /\ OnlyRefusalsFail /\ [Next]_vars => OnlyRefusalsFail'
    BY NextKeepsOnlyRefusalsFail
  <1>4. TypeOK /\ Scheduled /\ OnlyRefusalsFail => RetryingIsAccountedFor
    <2> SUFFICES ASSUME TypeOK, Scheduled, OnlyRefusalsFail,
                        NEW d \in Deliveries, deliveries[d].status = "retrying",
                        NEW n, n = deliveries[d].retryCount, NEW j, j = RetryJob(d, n)
                 PROVE  \/ j \in DOMAIN jobs /\ jobs[j].state \in {"waiting", "active"}
                        \/ \E w \in Workers : pc[w] = "enqueue" /\ mem[w].delivery = d
                        \/ "refused" \in RetryIdAnswers /\ HasFailed(OrderedBy(d, n))
      BY DEF RetryingIsAccountedFor, ToCome
    <2>1. n \in Nat
      BY DEF TypeOK, DatabaseOK, DeliveryRow
    <2>2. CASE j \notin DOMAIN jobs
      <3>1. Interrupted(OrderedBy(d, n)) =>
              "refused" \in RetryIdAnswers /\ HasFailed(OrderedBy(d, n))
        BY DEF Interrupted, HasFailed, OnlyRefusalsFail
      <3>2. QED
        BY <2>1, <2>2, <3>1 DEF Scheduled, Ordered
    <2>3. CASE j \in DOMAIN jobs
      <3>1. jobs[j].state \in JobState
        BY <2>3 DEF TypeOK, IsQueue, JobRecord
      <3>2. jobs[j].state # "completed"
        BY <2>3 DEF Scheduled, DoneIsNotDue, DueIn, Due, RetryJob
      <3>3. jobs[j].state # "failed"
        BY <2>3 DEF OnlyRefusalsFail, DueIn, Due, RetryJob
      <3>4. QED
        BY <2>3, <3>1, <3>2, <3>3 DEF JobState
    <2>4. QED
      BY <2>2, <2>3
  <1>5. QED
    BY <1>1, <1>2, <1>3, <1>4, TypeCorrect, ExclusionIsInvariant, LedgerIsInvariant,
       ScheduledIsInvariant, PTL DEF Spec

(***************************************************************************)
(* Counting outcomes: NoInventedAttempt.                                   *)
(***************************************************************************)
LEMMA CountIsNat ==
    ASSUME NEW s \in Seq(Outcome), NEW o
    PROVE  Count(s, o) \in Nat
  <1>1. IsFiniteSet(1..Len(s))
    BY FS_Interval
  <1>2. {i \in 1..Len(s) : s[i] = o} \in SUBSET (1..Len(s))
    OBVIOUS
  <1>3. IsFiniteSet({i \in 1..Len(s) : s[i] = o})
    BY <1>1, <1>2, FS_Subset
  <1>4. QED
    BY <1>3, FS_CardinalityType DEF Count

\* One more outcome counts once, for itself.
LEMMA CountAppend ==
    ASSUME NEW s \in Seq(Outcome), NEW x \in Outcome, NEW o
    PROVE  Count(Append(s, x), o) = IF x = o THEN Count(s, o) + 1 ELSE Count(s, o)
  <1> DEFINE n == Len(s)
             I == {i \in 1..n : s[i] = o}
             J == {i \in 1..n + 1 : Append(s, x)[i] = o}
  <1>1. n \in Nat /\ Len(Append(s, x)) = n + 1
    OBVIOUS
  <1>2. \A i \in 1..n : Append(s, x)[i] = s[i]
    OBVIOUS
  <1>3. Append(s, x)[n + 1] = x
    OBVIOUS
  <1>4. J = IF x = o THEN I \cup {n + 1} ELSE I
    BY <1>1, <1>2, <1>3
  <1>5. IsFiniteSet(I)
    <2>1. I \in SUBSET (1..n) /\ IsFiniteSet(1..n)
      BY <1>1, FS_Interval
    <2>2. QED
      BY <2>1, FS_Subset
  <1>6. n + 1 \notin I
    BY <1>1
  <1>7. Count(s, o) = Cardinality(I) /\ Count(Append(s, x), o) = Cardinality(J)
    BY <1>1 DEF Count
  <1> HIDE DEF n, I, J
  <1>8. QED
    BY <1>4, <1>5, <1>6, <1>7, FS_AddElement

\* The handlers that have made a call for d which ended in o and have not
\* written the attempt.
Reporting(d, o) ==
    {w \in Workers : /\ pc[w] \in {"sequence", "attempt"}
                     /\ mem[w].delivery = d
                     /\ mem[w].outcome = o}

\* Each attempt on record and each attempt about to be recorded has a call
\* of its own.
CallsCoverReports ==
    \A d \in Deliveries : \A o \in Outcome :
        /\ IsFiniteSet(Reporting(d, o))
        /\ Count(attempts[d], o) + Cardinality(Reporting(d, o)) <= Count(sent[d], o)

\* A call is counted when it is made, an attempt when its handler reports it.
LEMMA NextKeepsCallsCovered ==
    TypeOK /\ [Next]_vars /\ CallsCoverReports => CallsCoverReports'
  <1> SUFFICES ASSUME TypeOK, [Next]_vars, CallsCoverReports,
                      NEW d \in Deliveries, NEW o \in Outcome
               PROVE  /\ IsFiniteSet(Reporting(d, o)')
                      /\ Count(attempts'[d], o) + Cardinality(Reporting(d, o)') <= Count(sent'[d], o)
    BY DEF CallsCoverReports
  <1> DEFINE R == Reporting(d, o)
             S == Reporting(d, o)'
  <1>1. /\ IsFiniteSet(R) /\ Cardinality(R) \in Nat
        /\ Count(attempts[d], o) \in Nat /\ Count(sent[d], o) \in Nat
        /\ Count(attempts[d], o) + Cardinality(R) <= Count(sent[d], o)
    BY CountIsNat, FS_CardinalityType DEF CallsCoverReports, TypeOK, DatabaseOK
  <1>2. CASE UNCHANGED <<attempts, sent>> /\ S \in SUBSET R
    <2>1. IsFiniteSet(S) /\ Cardinality(S) \in Nat /\ Cardinality(S) <= Cardinality(R)
      BY <1>1, <1>2, FS_Subset, FS_CardinalityType
    <2> HIDE DEF R, S
    <2>2. QED
      BY <1>1, <1>2, <2>1 DEF S
  <1>3. ASSUME NEW w \in Workers, Send(w)
        PROVE  /\ IsFiniteSet(S)
               /\ Count(attempts'[d], o) + Cardinality(S) <= Count(sent'[d], o)
    <2> DEFINE x == mem'[w].outcome
               here == mem[w].delivery = d
    <2>1. /\ pc[w] = "send" /\ pc'[w] = "sequence" /\ Stays(w)
          /\ x \in Outcome
          /\ sent' = [sent EXCEPT ![mem[w].delivery] = Append(@, x)]
          /\ OthersStay(w) /\ UNCHANGED attempts
      BY <1>3, AttemptMoves, StepOfOne, OutcomesAssumption DEF WorkerStep, Attempt, Send, db
    <2>2. mem[w].delivery \in Deliveries
      BY <2>1 DEF TypeOK, WorkersOK, LocalsOK, InAttempt, Claimed
    <2>3. w \notin R
      BY <2>1 DEF Reporting
    <2>4. S = IF here /\ x = o THEN R \cup {w} ELSE R
      BY <2>1 DEF Reporting, OthersStay, Stays
    <2>5. sent[d] \in Seq(Outcome)
      BY DEF TypeOK
    <2>6. sent'[d] = IF here THEN Append(sent[d], x) ELSE sent[d]
      BY <2>1, <2>2 DEF TypeOK
    <2>7. Count(sent'[d], o) = IF here /\ x = o THEN Count(sent[d], o) + 1 ELSE Count(sent[d], o)
      BY <2>1, <2>5, <2>6, CountAppend
    <2>8. /\ IsFiniteSet(S)
          /\ Cardinality(S) = IF here /\ x = o THEN Cardinality(R) + 1 ELSE Cardinality(R)
      <3> HIDE DEF R, S, here, x
      <3> QED
        BY <1>1, <2>3, <2>4, FS_AddElement
    <2> HIDE DEF R, S, here, x
    <2>9. QED
      BY <1>1, <2>1, <2>7, <2>8
  <1>4. ASSUME NEW w \in Workers, InsertAttempt(w)
        PROVE  /\ IsFiniteSet(S)
               /\ Count(attempts'[d], o) + Cardinality(S) <= Count(sent'[d], o)
    <2> DEFINE x == mem[w].outcome
               here == mem[w].delivery = d
    <2>1. OthersStay(w) /\ UNCHANGED sent /\ pc[w] = "attempt"
      BY <1>4, StepOfOne DEF WorkerStep, Attempt, InsertAttempt
    <2>2. mem[w].delivery \in Deliveries /\ x \in Outcome
      BY <2>1 DEF TypeOK, WorkersOK, LocalsOK, InAttempt, Claimed, Locals
    <2>3. pc'[w] \notin {"sequence", "attempt"}
      BY <1>4, AttemptMoves, EndMoves
    <2>4. S = R \ {w} /\ (w \in R <=> here /\ x = o)
      BY <2>1, <2>3 DEF Reporting, OthersStay
    <2>5. CASE UNCHANGED attempts
      BY <1>2, <2>1, <2>4, <2>5
    <2>6. CASE attempts' = [attempts EXCEPT ![mem[w].delivery] = Append(@, x)]
      <3>1. attempts'[d] = IF here THEN Append(attempts[d], x) ELSE attempts[d]
        BY <2>2, <2>6 DEF TypeOK, DatabaseOK
      <3>2. attempts[d] \in Seq(Outcome)
        BY DEF TypeOK, DatabaseOK
      <3>3. Count(attempts'[d], o) =
              IF here /\ x = o THEN Count(attempts[d], o) + 1 ELSE Count(attempts[d], o)
        BY <2>2, <3>1, <3>2, CountAppend
      <3>4. /\ IsFiniteSet(S)
            /\ Cardinality(S) = IF here /\ x = o THEN Cardinality(R) - 1 ELSE Cardinality(R)
        <4> HIDE DEF R, S, here, x
        <4> QED
          BY <1>1, <2>4, FS_RemoveElement
      <3> HIDE DEF R, S, here, x
      <3>5. QED
        BY <1>1, <2>1, <3>3, <3>4
    <2>7. QED
      BY <1>4, <2>5, <2>6, AttemptMoves
  <1>5. ASSUME NEW w \in Workers, WorkerStep(w) \/ Throw(w) \/ Crash(w), ~ Send(w), ~ InsertAttempt(w)
        PROVE  UNCHANGED <<attempts, sent>> /\ S \in SUBSET R
    <2>1. UNCHANGED <<attempts, sent>>
      BY <1>5 DEF WorkerStep, Attempt, TakeEventJob, FindSubscriptions, FindDelivery,
         CreateOrFindDelivery, CheckInitialSend, TakeRetryJob, LoadDelivery, LoadClaim, SaveClaim,
         NextAttemptSequence, LoadForOutcome, SaveOutcome, EnqueueRetry, RetryTaken,
         RetryRefused,
         ReadSummary, LoadEvent, SaveEvent, FinishJob, Throw, Crash, db
    <2>2. ASSUME NextAttemptSequence(w)
          PROVE  S \in SUBSET R
      BY <1>5, <2>2, AttemptMoves, StepOfOne DEF Reporting, OthersStay, Stays
    <2>3. ASSUME ~ NextAttemptSequence(w)
          PROVE  pc'[w] \notin {"sequence", "attempt"}
      BY <1>5, <2>3, TakeMoves, EventMoves, ClaimMoves, AttemptMoves, EndMoves
         DEF WorkerStep, Attempt, Looped
    <2>4. ASSUME ~ NextAttemptSequence(w)
          PROVE  S \in SUBSET R
      BY <1>5, <2>3, <2>4, StepOfOne DEF Reporting, OthersStay
    <2>5. QED
      BY <2>1, <2>2, <2>4
  <1>6. CASE UNCHANGED <<deliveries, attempts, sent, pc, mem>>
    BY <1>2, <1>6 DEF Reporting
  <1>7. QED
    BY <1>2, <1>3, <1>4, <1>5, <1>6, WhoMoves

\* Reports are covered from the start.
LEMMA CallsAlwaysCover == Spec => []CallsCoverReports
  <1>1. Init => CallsCoverReports
    <2> SUFFICES ASSUME Init, NEW d \in Deliveries, NEW o \in Outcome
                 PROVE  /\ IsFiniteSet(Reporting(d, o))
                        /\ Count(attempts[d], o) + Cardinality(Reporting(d, o)) <= Count(sent[d], o)
      BY DEF CallsCoverReports
    <2>1. Reporting(d, o) = {}
      BY DEF Init, Reporting
    <2>2. attempts[d] = <<>> /\ sent[d] = <<>>
      BY DEF Init
    <2>3. sent[d] \in Seq(Outcome) /\ Count(sent[d], o) \in Nat
      BY InitTyped, CountIsNat DEF TypeOK
    <2>4. IsFiniteSet({}) /\ Cardinality({}) = 0
      BY FS_EmptySet
    <2>5. QED
      BY <2>1, <2>2, <2>3, <2>4
  <1>2. QED
    BY <1>1, TypeCorrect, NextKeepsCallsCovered, PTL DEF Spec

\* Whatever fails and however many handlers of one delivery overlap, the
\* attempts on record stand for calls that were made and ended that way.
THEOREM AttemptsAreReal == Spec => []NoInventedAttempt
  <1>1. TypeOK /\ CallsCoverReports => NoInventedAttempt
    <2> SUFFICES ASSUME TypeOK, CallsCoverReports, NEW d \in Deliveries, NEW o \in Outcome
                 PROVE  Count(attempts[d], o) <= Count(sent[d], o)
      BY DEF NoInventedAttempt
    <2>1. Count(attempts[d], o) \in Nat /\ Count(sent[d], o) \in Nat
      BY CountIsNat DEF TypeOK, DatabaseOK
    <2>2. Cardinality(Reporting(d, o)) \in Nat
      BY FS_CardinalityType DEF CallsCoverReports
    <2>3. QED
      BY <2>1, <2>2 DEF CallsCoverReports
  <1>2. QED
    BY <1>1, TypeCorrect, CallsAlwaysCover, PTL

(***************************************************************************)
(* Runs and sends: SendsAreBounded.                                        *)
(***************************************************************************)
\* A retry handler never loops over subscriptions, and a handler works on
\* deliveries its job is about.
OnItsJob(label, m) ==
    label # "idle" =>
        /\ m.job[1] = "retry" => m.todo = {} /\ label \notin {"subscriptions", "find"}
        /\ label \in InAttempt \cup {"create", "latest", "loaddelivery"} => Concerns(m.job, m.delivery)

\* The awaits after the provider call and before it.
Sent == {"sequence", "attempt", "loadoutcome", "saveoutcome", "enqueue"}
Unsent == {"create", "latest", "loaddelivery", "loadclaim", "saveclaim", "send"}

\* A handler may yet send d: it has not matched the subscriptions, it has
\* that of d on its list, or it works on d and has not called the provider.
MaySendAt(label, m, d) ==
    /\ label # "idle"
    /\ Concerns(m.job, d)
    /\ \/ label = "subscriptions"
       \/ d[2] \in m.todo /\ (m.delivery # d \/ label \notin Sent)
       \/ m.delivery = d /\ label \in Unsent

\* The handlers that may yet send d.
MaySend(d) == {w \in Workers : MaySendAt(pc[w], mem[w], d)}

\* The jobs about d, the k-th being for the k-th retry, and how many runs of
\* a job have begun: one more than it has stalled, unless it waits.
JobAbout(d, k) == IF k = 0 THEN EventJob(d[1]) ELSE RetryJob(d, k)

Begun(record) == IF record.state = "waiting" THEN record.stalls ELSE record.stalls + 1

AllRuns == (0..MaxRetryLimit) \X (0..MaxStalledCount)

\* The runs that have begun of the jobs about d.
Runs(d) ==
    {run \in AllRuns : /\ JobAbout(d, run[1]) \in DOMAIN jobs
                       /\ run[2] < Begun(jobs[JobAbout(d, run[1])])}

\* Each call made for a delivery, and each that a handler may yet make, has
\* a run of its own.
RunsCoverSends ==
    /\ \A w \in Workers : OnItsJob(pc[w], mem[w])
    /\ \A d \in Deliveries :
         /\ IsFiniteSet(MaySend(d))
         /\ Len(sent[d]) + Cardinality(MaySend(d)) <= Cardinality(Runs(d))

\* A handler that does anything but take a job is running one.
LEMMA BusyHandler ==
    ASSUME TypeOK, NEW w \in Workers, WorkerStep(w) \/ Throw(w) \/ Crash(w),
           ~ TakeEventJob(w), ~ TakeRetryJob(w)
    PROVE  pc[w] # "idle"
  BY EventMoves, ClaimMoves, AttemptMoves, EndMoves DEF WorkerStep, Attempt

\* A step leaves every handler with its job.
LEMMA OnItsJobStays ==
    ASSUME TypeOK, [Next]_vars, NEW w \in Workers, OnItsJob(pc[w], mem[w])
    PROVE  OnItsJob(pc'[w], mem'[w])
  <1> USE DEF OnItsJob
  <1>1. CASE pc'[w] = pc[w] /\ mem'[w] = mem[w]
    BY <1>1
  <1>2. CASE pc'[w] = "idle"
    BY <1>2
  <1>3. CASE TakeEventJob(w) \/ TakeRetryJob(w)
    <2>1. PICK j : j = mem'[w].job
      OBVIOUS
    <2>2. CASE pc'[w] = "subscriptions" /\ j \in EventJobs
      BY <2>1, <2>2 DEF EventJobs, InAttempt, Claimed
    <2>3. CASE pc'[w] = "loaddelivery" /\ j \in RetryJobs
      <3>1. j[1] = "retry" /\ mem'[w].todo = {} /\ mem'[w].delivery = j[2]
        BY <1>3, <2>1, <2>3, TakeMoves DEF RetryJobs, EventJobs
      <3>2. QED
        BY <2>1, <2>3, <3>1 DEF Concerns
    <2>4. QED
      BY <1>3, <2>1, <2>2, <2>3, TakeMoves
  <1>4. CASE FindSubscriptions(w)
    BY <1>4, EventMoves DEF InAttempt, Claimed
  <1>5. CASE FindDelivery(w)
    <2>1. PICK s \in mem[w].todo : mem'[w].delivery = <<EventOf(mem[w].job), s>>
      BY <1>5, EventMoves
    <2>2. PICK j \in EventJobs \cup RetryJobs : j = mem[w].job
      BY <1>5, EventMoves DEF TypeOK, WorkersOK, LocalsOK
    <2>3. j[1] = "event"
      BY <1>5, <2>2, EventMoves, JobShapes
    <2>4. Concerns(j, <<EventOf(j), s>>)
      BY <2>2, <2>3, JobShapes DEF Concerns, EventOf
    <2>5. QED
      BY <1>5, <2>1, <2>2, <2>3, <2>4, EventMoves
  <1>6. CASE Looped(w) /\ pc[w] # "idle"
    BY <1>6 DEF Looped, InAttempt, Claimed
  <1>7. ASSUME WorkerStep(w) \/ Throw(w) \/ Crash(w),
               ~ TakeEventJob(w), ~ TakeRetryJob(w), ~ FindSubscriptions(w), ~ FindDelivery(w),
               ~ Looped(w), pc'[w] # "idle"
        PROVE  /\ Stays(w) /\ pc[w] # "idle"
               /\ pc'[w] \in {"subscriptions", "find"} => mem[w].todo # {}
               /\ pc'[w] \in InAttempt \cup {"create", "latest", "loaddelivery"}
                    => pc[w] \in InAttempt \cup {"create", "latest", "loaddelivery"}
    BY <1>7, EventMoves, ClaimMoves, AttemptMoves, EndMoves
       DEF WorkerStep, Attempt, InAttempt, Claimed
  <1>8. ASSUME NEW v \in Workers, WorkerStep(v) \/ Throw(v) \/ Crash(v), v # w
        PROVE  pc'[w] = pc[w] /\ mem'[w] = mem[w]
    BY <1>8, StepOfOne DEF OthersStay
  <1>9. CASE Stays(w) /\ pc[w] # "idle"
              /\ (pc'[w] \in {"subscriptions", "find"} => mem[w].todo # {})
              /\ (pc'[w] \in InAttempt \cup {"create", "latest", "loaddelivery"}
                    => pc[w] \in InAttempt \cup {"create", "latest", "loaddelivery"})
    BY <1>9 DEF Stays
  <1>10. QED
    BY <1>1, <1>2, <1>3, <1>4, <1>5, <1>6, <1>7, <1>8, <1>9, BusyHandler, WhoMoves

\* Only a handler that has just taken a job about d may send it without
\* having been able to before, and the call uses that possibility up.
LEMMA MaySendStays ==
    ASSUME TypeOK, [Next]_vars, NEW w \in Workers, OnItsJob(pc[w], mem[w]),
           NEW d \in Deliveries, MaySendAt(pc'[w], mem'[w], d)
    PROVE  /\ \/ MaySendAt(pc[w], mem[w], d)
              \/ \E j \in DOMAIN jobs : Taken(j, w) /\ Concerns(j, d)
           /\ ~ (Send(w) /\ mem[w].delivery = d)
  <1> USE DEF MaySendAt, Sent, Unsent
  <1>1. CASE pc'[w] = pc[w] /\ mem'[w] = mem[w]
    BY <1>1, AttemptMoves
  <1>2. CASE TakeEventJob(w) \/ TakeRetryJob(w)
    <2>1. PICK j : j = mem'[w].job
      OBVIOUS
    <2>2. /\ pc[w] = "idle" /\ pc'[w] # "idle"
          /\ j \in DOMAIN jobs /\ jobs[j].state = "waiting" /\ jobs' = MoveToActive(jobs, j, w)
      BY <1>2, <2>1, TakeMoves
    <2>3. jobs[j] \in JobRecord(Workers) /\ IsQueue(jobs)
      BY <2>2 DEF TypeOK, IsQueue
    <2>4. jobs'[j] = [jobs[j] EXCEPT !.state = "active", !.owner = w]
      BY <2>2, <2>3 DEF MoveToActive
    <2>5. Taken(j, w)
      BY <2>1, <2>2, <2>3, <2>4 DEF Taken, JobRecord
    <2>6. QED
      BY <2>1, <2>2, <2>5, AttemptMoves
  <1>3. CASE FindSubscriptions(w)
    BY <1>3, EventMoves, AttemptMoves
  <1>4. CASE FindDelivery(w)
    <2>1. PICK s \in mem[w].todo : mem'[w].delivery = <<EventOf(mem[w].job), s>>
      BY <1>4, EventMoves
    <2>2. mem'[w].delivery = d => d[2] = s
      BY <2>1
    <2>3. QED
      BY <1>4, <2>2, EventMoves, AttemptMoves
  <1>5. CASE Looped(w) /\ pc[w] # "idle"
    BY <1>5, AttemptMoves DEF Looped, Stays
  <1>6. ASSUME WorkerStep(w) \/ Throw(w) \/ Crash(w),
               ~ TakeEventJob(w), ~ TakeRetryJob(w), ~ FindSubscriptions(w), ~ FindDelivery(w),
               ~ Looped(w)
        PROVE  /\ Stays(w) /\ pc[w] # "idle" /\ pc'[w] # "subscriptions"
               /\ pc'[w] \in Unsent => pc[w] \in Unsent
               /\ pc'[w] \notin Sent => pc[w] \notin Sent
               /\ Send(w) => pc'[w] \in Sent
    BY <1>6, EventMoves, ClaimMoves, AttemptMoves, EndMoves DEF WorkerStep, Attempt
  <1>7. CASE /\ Stays(w) /\ pc[w] # "idle" /\ pc'[w] # "subscriptions"
             /\ pc'[w] \in Unsent => pc[w] \in Unsent
             /\ pc'[w] \notin Sent => pc[w] \notin Sent
             /\ Send(w) => pc'[w] \in Sent
    BY <1>7 DEF Stays
  <1>8. ASSUME NEW v \in Workers, WorkerStep(v) \/ Throw(v) \/ Crash(v), v # w
        PROVE  pc'[w] = pc[w] /\ mem'[w] = mem[w]
    BY <1>8, StepOfOne DEF OthersStay
  <1>9. QED
    BY <1>1, <1>2, <1>3, <1>4, <1>5, <1>6, <1>7, <1>8, BusyHandler, WhoMoves

\* A run that has begun has begun for good, and taking a job begins one.
LEMMA RunsGrow ==
    ASSUME TypeOK, [Next]_vars, NEW d \in Deliveries
    PROVE  Runs(d) \subseteq Runs(d)'
  <1> SUFFICES ASSUME NEW k \in 0..MaxRetryLimit, NEW r \in 0..MaxStalledCount,
                      JobAbout(d, k) \in DOMAIN jobs, r < Begun(jobs[JobAbout(d, k)])
               PROVE  JobAbout(d, k) \in DOMAIN jobs' /\ r < Begun(jobs'[JobAbout(d, k)])
    BY DEF Runs, AllRuns
  <1>1. PICK j \in DOMAIN jobs : j = JobAbout(d, k)
    OBVIOUS
  <1>2. jobs[j] \in JobRecord(Workers)
    BY DEF TypeOK, IsQueue
  <1>3. j \in DOMAIN jobs' /\ Begun(jobs[j]) <= Begun(jobs'[j])
    <2>1. jobs[j].stalls \in Nat
      BY <1>2 DEF JobRecord
    <2>2. Stalled(j) => Begun(jobs[j]) <= Begun(jobs'[j])
      BY <2>1 DEF Stalled, Begun
    <2>3. ASSUME NEW w \in Workers, Taken(j, w) \/ Completed(j, w) \/ Failed(j, w)
          PROVE  Begun(jobs[j]) <= Begun(jobs'[j])
      BY <2>1, <2>3 DEF Taken, Completed, Failed, Ended, Begun
    <2>4. jobs'[j] = jobs[j] => Begun(jobs[j]) <= Begun(jobs'[j])
      BY <2>1 DEF Begun
    <2>5. QED
      BY <2>2, <2>3, <2>4, JobStep
  <1>4. Begun(jobs[j]) \in Nat /\ Begun(jobs'[j]) \in Nat
    <2>1. jobs'[j] \in JobRecord(Workers)
      BY <1>3, NextTyped DEF TypeOK, IsQueue
    <2>2. QED
      BY <1>2, <2>1 DEF JobRecord, Begun
  <1>5. QED
    BY <1>1, <1>3, <1>4

\* Taking a job about d begins a run that had not begun before.
LEMMA TakeBeginsRun ==
    ASSUME TypeOK, JobsReferToRows, [Next]_vars, NEW d \in Deliveries,
           NEW w \in Workers, NEW j \in DOMAIN jobs, Taken(j, w), Concerns(j, d)
    PROVE  \E run \in Runs(d)' : run \notin Runs(d)
  <1>1. PICK k \in 0..MaxRetryLimit : j = JobAbout(d, k)
    <2>1. CASE j = EventJob(d[1])
      BY <2>1, RetryLimitAssumption DEF JobAbout
    <2>2. CASE j[1] = "retry" /\ j[2] = d
      <3>1. j = RetryJob(d, j[3]) /\ j[3] \in 1..MaxRetryLimit
        BY <2>2, JobShapes DEF TypeOK, IsQueue, JobsReferToRows
      <3>2. QED
        BY <3>1, RetryLimitAssumption DEF JobAbout
    <2>3. QED
      BY <2>1, <2>2 DEF Concerns
  <1>2. jobs[j] \in JobRecord(Workers)
    BY DEF TypeOK, IsQueue
  <1>3. PICK r \in 0..MaxStalledCount : r = jobs[j].stalls
    BY <1>2 DEF JobRecord
  <1>4. j \in DOMAIN jobs' /\ Begun(jobs[j]) = r /\ Begun(jobs'[j]) = r + 1
    BY <1>3, JobStep DEF Taken, Begun
  <1>5. <<k, r>> \in Runs(d)' /\ <<k, r>> \notin Runs(d)
    BY <1>1, <1>3, <1>4, StalledAssumption DEF Runs, AllRuns
  <1>6. QED
    BY <1>5

\* There are at most as many runs as jobs about d and stalls allow.
LEMMA RunsAreFinite ==
    ASSUME NEW R \in SUBSET AllRuns
    PROVE  /\ IsFiniteSet(R) /\ Cardinality(R) \in Nat
           /\ Cardinality(R) <= (MaxRetryLimit + 1) * (MaxStalledCount + 1)
  <1>1. /\ IsFiniteSet(0..MaxRetryLimit) /\ Cardinality(0..MaxRetryLimit) = MaxRetryLimit + 1
        /\ IsFiniteSet(0..MaxStalledCount) /\ Cardinality(0..MaxStalledCount) = MaxStalledCount + 1
    BY FS_Interval, RetryLimitAssumption, StalledAssumption
  <1>2. /\ IsFiniteSet(AllRuns)
        /\ Cardinality(AllRuns) = (MaxRetryLimit + 1) * (MaxStalledCount + 1)
    BY <1>1, FS_Product DEF AllRuns
  <1>3. QED
    BY <1>2, FS_Subset, FS_CardinalityType

\* A send is paid for by a run when the handler takes the job.
LEMMA NextKeepsRunsCovering ==
    TypeOK /\ JobsReferToRows /\ RunsCoverSends /\ [Next]_vars => RunsCoverSends'
  <1> SUFFICES ASSUME TypeOK, JobsReferToRows, RunsCoverSends, [Next]_vars
               PROVE  RunsCoverSends'
    OBVIOUS
  <1>1. \A w \in Workers : OnItsJob(pc'[w], mem'[w])
    BY OnItsJobStays DEF RunsCoverSends
  <1>2. ASSUME NEW d \in Deliveries
        PROVE  /\ IsFiniteSet(MaySend(d)')
               /\ Len(sent'[d]) + Cardinality(MaySend(d)') <= Cardinality(Runs(d)')
    <2> DEFINE R == Runs(d)
               S == Runs(d)'
               M == MaySend(d)
               N == MaySend(d)'
    <2>1. /\ IsFiniteSet(M) /\ Cardinality(M) \in Nat
          /\ Len(sent[d]) \in Nat
          /\ Len(sent[d]) + Cardinality(M) <= Cardinality(R)
      BY FS_CardinalityType DEF RunsCoverSends, TypeOK
    <2>2. /\ IsFiniteSet(R) /\ IsFiniteSet(S)
          /\ Cardinality(R) \in Nat /\ Cardinality(S) \in Nat
          /\ R \in SUBSET S
      <3>1. R \in SUBSET AllRuns /\ S \in SUBSET AllRuns
        BY DEF Runs
      <3>2. QED
        BY <3>1, RunsAreFinite, RunsGrow
    <2>3. Cardinality(R) <= Cardinality(S)
      BY <2>2, FS_Subset
    <2>5. ASSUME NEW w \in Workers, Send(w), mem[w].delivery = d
          PROVE  IsFiniteSet(N) /\ Len(sent'[d]) + Cardinality(N) <= Cardinality(S)
      <3>1. Len(sent'[d]) = Len(sent[d]) + 1
        BY <2>5, AttemptMoves DEF TypeOK
      <3>2. w \in M
        <4>1. pc[w] = "send" /\ Concerns(mem[w].job, d)
          BY <2>5, AttemptMoves DEF RunsCoverSends, OnItsJob, InAttempt, Claimed
        <4>2. QED
          BY <2>5, <4>1 DEF MaySend, MaySendAt, Unsent
      <3>3. ASSUME NEW v \in N
            PROVE  v \in M \ {w}
        <4>1. pc[w] = "send" /\ \A u \in Workers : u # w => pc'[u] = pc[u] /\ mem'[u] = mem[u]
          BY <2>5, StepOfOne, AttemptMoves DEF WorkerStep, Attempt, OthersStay
        <4>2. v # w
          BY <2>5, <3>3, MaySendStays DEF MaySend, RunsCoverSends
        <4>3. QED
          BY <3>3, <4>1, <4>2 DEF MaySend
      <3>4. /\ IsFiniteSet(M \ {w}) /\ Cardinality(M \ {w}) = Cardinality(M) - 1
            /\ IsFiniteSet(N) /\ Cardinality(N) <= Cardinality(M \ {w})
        <4>1. IsFiniteSet(M \ {w}) /\ Cardinality(M \ {w}) = Cardinality(M) - 1
          BY <2>1, <3>2, FS_RemoveElement
        <4>2. N \in SUBSET (M \ {w})
          BY <3>3
        <4>3. QED
          BY <4>1, <4>2, FS_Subset
      <3>5. Cardinality(N) \in Nat
        BY <3>4, FS_CardinalityType
      <3> HIDE DEF R, S, M, N
      <3>6. QED
        BY <2>1, <2>2, <2>3, <3>1, <3>4, <3>5
    <2>6. ASSUME NEW w \in Workers, NEW j \in DOMAIN jobs, Taken(j, w), Concerns(j, d),
                 TakeEventJob(w) \/ TakeRetryJob(w)
          PROVE  IsFiniteSet(N) /\ Len(sent'[d]) + Cardinality(N) <= Cardinality(S)
      <3>1. UNCHANGED sent /\ \A u \in Workers : u # w => pc'[u] = pc[u] /\ mem'[u] = mem[u]
        BY <2>6, StepOfOne DEF WorkerStep, OthersStay, TakeEventJob, TakeRetryJob
      <3>2. N \in SUBSET (M \cup {w})
        BY <3>1 DEF MaySend
      <3>3. PICK run \in S : run \notin R
        BY <2>6, TakeBeginsRun
      <3>4. Cardinality(R) + 1 <= Cardinality(S)
        <4>1. R \cup {run} \in SUBSET S
          BY <2>2, <3>3
        <4>2. Cardinality(R \cup {run}) = Cardinality(R) + 1
          BY <2>2, <3>3, FS_AddElement
        <4>3. QED
          BY <2>2, <4>1, <4>2, FS_Subset
      <3>5. /\ IsFiniteSet(N) /\ Cardinality(N) \in Nat
            /\ Cardinality(N) <= Cardinality(M) + 1
        <4> HIDE DEF N, M
        <4>0. /\ IsFiniteSet(M \cup {w})
              /\ Cardinality(M \cup {w}) = IF w \in M THEN Cardinality(M) ELSE Cardinality(M) + 1
          BY <2>1, FS_AddElement
        <4>1. IsFiniteSet(M \cup {w}) /\ Cardinality(M \cup {w}) <= Cardinality(M) + 1
          BY <2>1, <4>0
        <4>2. IsFiniteSet(N) /\ Cardinality(N) <= Cardinality(M \cup {w})
          BY <3>2, <4>1, FS_Subset
        <4>3. Cardinality(N) \in Nat /\ Cardinality(M \cup {w}) \in Nat
          BY <4>1, <4>2, FS_CardinalityType
        <4>4. QED
          BY <2>1, <4>1, <4>2, <4>3
      <3> HIDE DEF R, S, M, N
      <3>6. QED
        BY <2>1, <2>2, <3>1, <3>4, <3>5
    <2>7. ASSUME ~ \E w \in Workers : Send(w) /\ mem[w].delivery = d
          PROVE  sent'[d] = sent[d]
      <3>1. CASE \E w \in Workers : Send(w)
        BY <2>7, <3>1, AttemptMoves DEF TypeOK, WorkersOK, LocalsOK, InAttempt, Claimed
      <3>2. CASE UNCHANGED sent
        BY <3>2
      <3>3. ASSUME NEW w \in Workers, WorkerStep(w) \/ Throw(w) \/ Crash(w), ~ Send(w)
            PROVE  UNCHANGED sent
        BY <3>3 DEF WorkerStep, Attempt, TakeEventJob, FindSubscriptions, FindDelivery,
           CreateOrFindDelivery, CheckInitialSend, TakeRetryJob, LoadDelivery, LoadClaim, SaveClaim,
           NextAttemptSequence, InsertAttempt, LoadForOutcome, SaveOutcome, EnqueueRetry,
           RetryTaken, RetryRefused,
           ReadSummary, LoadEvent, SaveEvent, FinishJob, Throw, Crash
      <3>4. QED
        BY <3>1, <3>2, <3>3, WhoMoves
    <2>8. CASE sent'[d] = sent[d] /\ N \in SUBSET M
      <3>1. IsFiniteSet(N) /\ Cardinality(N) \in Nat /\ Cardinality(N) <= Cardinality(M)
        BY <2>1, <2>8, FS_Subset, FS_CardinalityType
      <3> HIDE DEF R, S, M, N
      <3>2. QED
        BY <2>1, <2>2, <2>3, <2>8, <3>1 DEF N, S
    <2>9. ASSUME NEW w \in Workers, w \in N, w \notin M
          PROVE  \E j \in DOMAIN jobs : Taken(j, w) /\ Concerns(j, d)
      BY <2>9, MaySendStays DEF MaySend, RunsCoverSends
    <2>10. ASSUME NEW w \in Workers, NEW j \in DOMAIN jobs, Taken(j, w)
           PROVE  TakeEventJob(w) \/ TakeRetryJob(w)
      BY <2>10, KeepsItsJob DEF Taken
    <2>11. QED
      <3>1. N \in SUBSET M \/ \E w \in Workers : w \in N /\ w \notin M
        BY DEF MaySend
      <3> HIDE DEF R, S, M, N
      <3>2. QED
        BY <2>5, <2>6, <2>7, <2>8, <2>9, <2>10, <3>1 DEF N, S
  <1>3. QED
    BY <1>1, <1>2 DEF RunsCoverSends

\* Sends are covered from the start.
LEMMA RunsAlwaysCover == Spec => []RunsCoverSends
  <1>1. Init => RunsCoverSends
    <2> SUFFICES ASSUME Init
                 PROVE  RunsCoverSends
      OBVIOUS
    <2>1. \A w \in Workers : pc[w] = "idle"
      BY DEF Init
    <2>2. ASSUME NEW d \in Deliveries
          PROVE  MaySend(d) = {} /\ sent[d] = <<>>
      BY <2>1 DEF MaySend, MaySendAt, Init
    <2>3. IsFiniteSet({}) /\ Cardinality({}) = 0
      BY FS_EmptySet
    <2>4. ASSUME NEW d \in Deliveries
          PROVE  /\ IsFiniteSet(MaySend(d))
                 /\ Len(sent[d]) + Cardinality(MaySend(d)) <= Cardinality(Runs(d))
      <3>1. Runs(d) \in SUBSET AllRuns
        BY DEF Runs
      <3>2. Cardinality(Runs(d)) \in Nat
        BY <3>1, RunsAreFinite
      <3>3. Len(sent[d]) = 0
        BY <2>2, <2>4
      <3>4. IsFiniteSet(MaySend(d)) /\ Cardinality(MaySend(d)) = 0
        BY <2>2, <2>3
      <3>5. QED
        BY <3>2, <3>3, <3>4
    <2>5. \A w \in Workers : OnItsJob(pc[w], mem[w])
      BY <2>1 DEF OnItsJob
    <2>6. QED
      BY <2>4, <2>5 DEF RunsCoverSends
  <1>2. QED
    BY <1>1, TypeCorrect, JobsAreBacked, NextKeepsRunsCovering, PTL DEF Spec

\* Whatever fails: a delivery is sent at most once per run of a job about it,
\* and each of its jobs runs at most once more than it may stall.
THEOREM SendsStayBounded == Spec => []SendsAreBounded
  <1>1. TypeOK /\ RunsCoverSends => SendsAreBounded
    <2> SUFFICES ASSUME TypeOK, RunsCoverSends, NEW d \in Deliveries
                 PROVE  Len(sent[d]) <= (MaxRetryLimit + 1) * (MaxStalledCount + 1)
      BY DEF SendsAreBounded
    <2> DEFINE bound == (MaxRetryLimit + 1) * (MaxStalledCount + 1)
    <2> Runs(d) \in SUBSET AllRuns
      BY DEF Runs
    <2>1. Len(sent[d]) \in Nat /\ Cardinality(MaySend(d)) \in Nat /\ Cardinality(Runs(d)) \in Nat
      BY RunsAreFinite, FS_CardinalityType DEF TypeOK, RunsCoverSends
    <2>2. bound \in Nat
      BY RetryLimitAssumption, StalledAssumption
    <2>3. Cardinality(Runs(d)) <= bound
      BY RunsAreFinite
    <2>4. Len(sent[d]) + Cardinality(MaySend(d)) <= Cardinality(Runs(d))
      BY DEF RunsCoverSends
    <2> HIDE DEF bound
    <2>5. Len(sent[d]) <= bound
      BY <2>1, <2>2, <2>3, <2>4
    <2>6. QED
      BY <2>5 DEF bound
  <1>2. QED
    BY <1>1, TypeCorrect, RunsAlwaysCover, PTL

(***************************************************************************)
(* Calls without an attempt row: UnrecordedSendsLeaveTrace.                *)
(*                                                                         *)
(* A handler that holds its job accounts for its own call until the row is *)
(* written. When it loses the job, a run of the job is cut short, and that *)
(* run accounts for the call it has made, or may still make.               *)
(***************************************************************************)
\* The handler holds the lock of its job.
Holds(w) ==
    LET j == mem[w].job
    IN  pc[w] # "idle" /\ j \in DOMAIN jobs /\ jobs[j].state = "active" /\ jobs[j].owner = w

LetsGo(w) == Holds(w) /\ ~ Holds(w)'

\* The handlers about to write the attempt of d, those of them that hold
\* their job, and the handlers that may send d though they lost their job.
AtReport(d) == {w \in Workers : pc[w] \in {"sequence", "attempt"} /\ mem[w].delivery = d}
Reporters(d) == {w \in AtReport(d) : Holds(w)}
Strays(d) == {w \in MaySend(d) : ~ Holds(w)}

\* Each call made for a delivery, and each that a handler without its job
\* may yet make, has a row, a handler about to write one or a lost run.
TracesCoverSends ==
    \A d \in Deliveries :
        Len(sent[d]) + Cardinality(Strays(d)) <=
            Len(attempts[d]) + Cardinality(Reporters(d)) + Cardinality(LostRuns(d))

\* The sizes of two finite sets that differ by little.
LEMMA Sizes ==
    ASSUME NEW S, NEW T, IsFiniteSet(S), IsFiniteSet(T), NEW x
    PROVE  /\ Cardinality(S) \in Nat /\ Cardinality(T) \in Nat
           /\ S \subseteq T => Cardinality(S) <= Cardinality(T)
           /\ S \ {x} \subseteq T => Cardinality(S) <= Cardinality(T) + 1
           /\ S \subseteq T /\ x \in T /\ x \notin S => Cardinality(S) + 1 <= Cardinality(T)
  <1>1. Cardinality(S) \in Nat /\ Cardinality(T) \in Nat
    BY FS_CardinalityType
  <1>2. S \subseteq T => Cardinality(S) <= Cardinality(T)
    BY FS_Subset
  <1>3. ASSUME S \ {x} \subseteq T
        PROVE  Cardinality(S) <= Cardinality(T) + 1
    <2>1. /\ IsFiniteSet(S \ {x}) /\ Cardinality(S \ {x}) \in Nat
          /\ Cardinality(S \ {x}) = IF x \in S THEN Cardinality(S) - 1 ELSE Cardinality(S)
      BY FS_RemoveElement, FS_CardinalityType
    <2>2. Cardinality(S \ {x}) <= Cardinality(T)
      BY <1>3, FS_Subset
    <2>3. QED
      BY <1>1, <2>1, <2>2
  <1>4. ASSUME S \subseteq T, x \in T, x \notin S
        PROVE  Cardinality(S) + 1 <= Cardinality(T)
    <2>1. IsFiniteSet(S \cup {x}) /\ Cardinality(S \cup {x}) = Cardinality(S) + 1
      BY <1>4, FS_AddElement
    <2>2. S \cup {x} \in SUBSET T
      BY <1>4
    <2>3. Cardinality(S \cup {x}) <= Cardinality(T)
      BY <2>2, FS_Subset
    <2>4. QED
      BY <2>1, <2>3
  <1>5. QED
    BY <1>1, <1>2, <1>3, <1>4

\* The jobs there may be about d, and all their runs.
AboutRuns(d) == {JobAbout(d, k) : k \in 0..MaxRetryLimit} \X (0..MaxStalledCount)

\* A delivery has few jobs, so it cannot have lost many runs.
LEMMA LostRunsAreFinite ==
    ASSUME NEW d, NEW L \in SUBSET AboutRuns(d)
    PROVE  IsFiniteSet(L)
  <1> DEFINE K == 0..MaxRetryLimit
             J == {JobAbout(d, k) : k \in K}
             f == [k \in K |-> JobAbout(d, k)]
  <1>1. IsFiniteSet(K) /\ IsFiniteSet(0..MaxStalledCount)
    BY FS_Interval, RetryLimitAssumption, StalledAssumption
  <1>2. f \in Surjection(K, J)
    BY DEF Surjection
  <1>3. IsFiniteSet(J)
    <2> HIDE DEF K, J, f
    <2> QED
      BY <1>1, <1>2, FS_Surjection
  <1>4. IsFiniteSet(J \X (0..MaxStalledCount))
    BY <1>1, <1>3, FS_Product
  <1>5. QED
    BY <1>4, FS_Subset DEF AboutRuns

\* Every job about d is the job for one of its retries, or that of its event.
LEMMA JobsAboutKnown ==
    ASSUME NEW d \in Deliveries, NEW j \in EventJobs \cup RetryJobs, Concerns(j, d),
           j[1] = "retry" => j[3] \in 1..MaxRetryLimit
    PROVE  \E k \in 0..MaxRetryLimit : j = JobAbout(d, k)
  <1>1. CASE j = EventJob(d[1])
    BY <1>1, RetryLimitAssumption DEF JobAbout
  <1>2. CASE j[1] = "retry" /\ j[2] = d
    BY <1>2, JobShapes, RetryLimitAssumption DEF JobAbout
  <1>3. QED
    BY <1>1, <1>2 DEF Concerns

\* A run once cut short stays so.
LEMMA CutShortGrows ==
    ASSUME TypeOK, OwnersKnown, [Next]_vars, NEW j \in DOMAIN jobs
    PROVE  /\ CutShort(j) \in Nat /\ CutShort(j)' \in Nat
           /\ CutShort(j) <= CutShort(j)'
  <1>1. jobs[j] \in JobRecord(Workers) /\ j \in DOMAIN jobs' /\ jobs'[j] \in JobRecord(Workers)
    BY JobStep, NextTyped DEF TypeOK, IsQueue
  <1>2. jobs[j].stalls \in Nat /\ jobs'[j].stalls \in Nat
    BY <1>1 DEF JobRecord
  <1>3. CASE jobs'[j] = jobs[j]
    <2>1. ASSUME jobs[j].state = "active", ~ Running(jobs[j].owner, j)
          PROVE  ~ Running(jobs[j].owner, j)'
      BY <1>3, <2>1, KeepsItsJob DEF Running, OwnersKnown
    <2>2. QED
      BY <1>2, <1>3, <2>1 DEF CutShort
  <1>4. CASE Stalled(j)
    BY <1>2, <1>4 DEF Stalled, CutShort
  <1>5. ASSUME NEW w \in Workers, Taken(j, w) \/ Completed(j, w) \/ Failed(j, w)
        PROVE  CutShort(j) <= CutShort(j)'
    BY <1>2, <1>5 DEF Taken, Completed, Failed, Ended, CutShort, Running
  <1>6. CutShort(j) <= CutShort(j)'
    BY <1>3, <1>4, <1>5, <1>2, JobStep DEF CutShort
  <1>7. QED
    BY <1>2, <1>6 DEF CutShort

\* A handler that loses hold of its job has finished it, or one more run of
\* the job is cut short.
LEMMA LosingIsCounted ==
    ASSUME TypeOK, [Next]_vars, NEW w \in Workers, LetsGo(w), NEW j, j = mem[w].job
    PROVE  /\ j \in DOMAIN jobs
           /\ \/ pc[w] = "finish" /\ pc'[w] = "idle"
              \/ CutShort(j) = jobs[j].stalls /\ CutShort(j)' = jobs[j].stalls + 1
  <1>1. /\ pc[w] # "idle" /\ j \in DOMAIN jobs
        /\ jobs[j].state = "active" /\ jobs[j].owner = w
    BY DEF LetsGo, Holds
  <1>2. j \in DOMAIN jobs' /\ jobs[j].stalls \in Nat
    BY <1>1, JobStep DEF TypeOK, IsQueue, JobRecord
  <1>3. CutShort(j) = jobs[j].stalls
    BY <1>1, <1>2 DEF CutShort, Running
  <1>4. CASE jobs'[j] = jobs[j]
    <2>1. pc'[w] = "idle"
      BY <1>1, <1>2, <1>4, KeepsItsJob DEF LetsGo, Holds
    <2>2. QED
      BY <1>1, <1>2, <1>3, <1>4, <2>1 DEF CutShort, Running
  <1>5. CASE Stalled(j)
    BY <1>1, <1>2, <1>3, <1>5 DEF Stalled, CutShort
  <1>6. ASSUME NEW v \in Workers, Failed(j, v)
        PROVE  CutShort(j)' = jobs[j].stalls + 1
    BY <1>2, <1>6 DEF Failed, Ended, CutShort
  <1>7. ASSUME NEW v \in Workers, Taken(j, v) \/ Completed(j, v)
        PROVE  pc[w] = "finish" /\ pc'[w] = "idle"
    BY <1>1, <1>7 DEF Taken, Completed, Ended
  <1>8. QED
    BY <1>1, <1>3, <1>4, <1>5, <1>6, <1>7, JobStep

\* A handler's own step costs no other handler its job.
LEMMA OthersHold ==
    ASSUME TypeOK, NEW w \in Workers, WorkerStep(w) \/ Throw(w) \/ Crash(w),
           NEW u \in Workers, u # w, Holds(u)
    PROVE  Holds(u)'
  <1>1. PICK j : j = mem[u].job
    OBVIOUS
  <1>2. /\ pc[u] # "idle" /\ j \in DOMAIN jobs /\ IsQueue(jobs)
        /\ jobs[j].state = "active" /\ jobs[j].owner = u
    BY <1>1 DEF Holds, TypeOK
  <1>3. pc'[u] = pc[u] /\ mem'[u] = mem[u]
    BY StepOfOne DEF OthersStay
  <1>4. \/ UNCHANGED jobs
        \/ \E k : jobs' = Add(jobs, k)
        \/ \E k \in DOMAIN jobs : jobs[k].state = "waiting" /\ jobs' = MoveToActive(jobs, k, w)
        \/ \E s \in {"completed", "failed"} :
             pc[w] # "idle" /\ jobs' = MoveToFinished(jobs, mem[w].job, w, s)
    BY DEF WorkerStep, Attempt, Throw, Crash, TakeEventJob,
         FindSubscriptions, FindDelivery, CreateOrFindDelivery, CheckInitialSend,
         TakeRetryJob, LoadDelivery, LoadClaim, SaveClaim, Send, NextAttemptSequence,
         InsertAttempt, LoadForOutcome, SaveOutcome, EnqueueRetry, RetryTaken, RetryRefused,
         ReadSummary, LoadEvent, SaveEvent, FinishJob, Reject
  <1>5. j \in DOMAIN jobs' /\ jobs'[j] = jobs[j]
    <2>1. ASSUME NEW k, jobs' = Add(jobs, k)
          PROVE  j \in DOMAIN jobs' /\ jobs'[j] = jobs[j]
      BY <1>2, <2>1 DEF Add
    <2>2. ASSUME NEW k \in DOMAIN jobs, jobs[k].state = "waiting", jobs' = MoveToActive(jobs, k, w)
          PROVE  j \in DOMAIN jobs' /\ jobs'[j] = jobs[j]
      BY <1>2, <2>2 DEF MoveToActive, IsQueue
    <2>3. ASSUME NEW s \in {"completed", "failed"}, pc[w] # "idle",
                 jobs' = MoveToFinished(jobs, mem[w].job, w, s)
          PROVE  j \in DOMAIN jobs' /\ jobs'[j] = jobs[j]
      BY <1>2, <2>3 DEF MoveToFinished, IsQueue
    <2>4. QED
      BY <1>2, <1>4, <2>1, <2>2, <2>3
  <1>6. QED
    BY <1>1, <1>2, <1>3, <1>5 DEF Holds

\* A step costs at most one handler its job, and if it is a handler's own,
\* only that handler.
LEMMA OneLetsGo ==
    ASSUME TypeOK, [Next]_vars, NEW u \in Workers, LetsGo(u)
    PROVE  /\ \A v \in Workers : LetsGo(v) => v = u
           /\ \A w \in Workers : WorkerStep(w) \/ Throw(w) \/ Crash(w) => w = u
  <1>1. ASSUME NEW w \in Workers, WorkerStep(w) \/ Throw(w) \/ Crash(w),
               NEW v \in Workers, LetsGo(v)
        PROVE  v = w
    BY <1>1, OthersHold DEF LetsGo
  <1>2. CASE \E w \in Workers : WorkerStep(w) \/ Throw(w) \/ Crash(w)
    BY <1>1, <1>2
  <1>3. CASE /\ UNCHANGED <<pc, mem>>
             /\ \/ UNCHANGED jobs
                \/ \E e \in Events : jobs' = Add(jobs, EventJob(e))
    BY <1>3 DEF LetsGo, Holds, Add
  <1>4. ASSUME UNCHANGED <<pc, mem>>, NEW k \in DOMAIN jobs, jobs' = MoveStalled(jobs, k),
               NEW v \in Workers, LetsGo(v)
        PROVE  mem[v].job = k /\ jobs[k].owner = v
    BY <1>4 DEF LetsGo, Holds, MoveStalled, TypeOK, IsQueue
  <1>5. QED
    BY <1>1, <1>2, <1>3, <1>4, WhoMoves

\* Only a handler that has just lost its job becomes a stray.
LEMMA NewStray ==
    ASSUME TypeOK, RunsCoverSends, [Next]_vars, NEW d \in Deliveries,
           NEW w \in Strays(d)', w \notin Strays(d)
    PROVE  w \in Workers /\ LetsGo(w) /\ w \in MaySend(d)
  <1>1. w \in Workers /\ MaySendAt(pc'[w], mem'[w], d) /\ ~ Holds(w)'
    BY DEF Strays, MaySend
  <1>2. ASSUME NEW j \in DOMAIN jobs, Taken(j, w)
        PROVE  FALSE
    BY <1>1, <1>2, JobStep DEF Taken, Holds
  <1>3. w \in MaySend(d)
    BY <1>1, <1>2, MaySendStays DEF MaySend, RunsCoverSends
  <1>4. QED
    BY <1>1, <1>3 DEF Strays, LetsGo

\* A handler about to write an attempt stops doing so by writing it, or by
\* losing its job.
LEMMA LessReporter ==
    ASSUME TypeOK, [Next]_vars, NEW d \in Deliveries,
           NEW w \in Reporters(d), w \notin Reporters(d)'
    PROVE  /\ w \in Workers
           /\ \/ LetsGo(w)
              \/ InsertAttempt(w) /\ attempts' = [attempts EXCEPT ![d] = Append(@, mem[w].outcome)]
  <1>1. w \in Workers /\ pc[w] \in {"sequence", "attempt"} /\ mem[w].delivery = d /\ Holds(w)
    BY DEF Reporters, AtReport
  <1> SUFFICES ASSUME Holds(w)'
               PROVE  InsertAttempt(w) /\ attempts' = [attempts EXCEPT ![d] = Append(@, mem[w].outcome)]
    BY <1>1 DEF LetsGo
  <1>2. pc'[w] # "idle"
    BY DEF Holds
  <1>3. ~ (pc'[w] \in {"sequence", "attempt"} /\ mem'[w].delivery = d)
    BY <1>1 DEF Reporters, AtReport
  <1>4. WorkerStep(w) \/ Throw(w) \/ Crash(w)
    BY <1>1, <1>3, WhoMoves, StepOfOne DEF OthersStay
  <1>5. CASE InsertAttempt(w)
    BY <1>1, <1>2, <1>5, AttemptMoves, EndMoves
  <1>6. CASE NextAttemptSequence(w)
    BY <1>1, <1>3, <1>6, AttemptMoves DEF Stays
  <1>7. ASSUME WorkerStep(w) \/ Throw(w) \/ Crash(w), ~ InsertAttempt(w), ~ NextAttemptSequence(w)
        PROVE  FALSE
    BY <1>1, <1>2, <1>7, TakeMoves, EventMoves, ClaimMoves, AttemptMoves, EndMoves
       DEF WorkerStep, Attempt
  <1>8. QED
    BY <1>4, <1>5, <1>6, <1>7

\* The calls and rows of a delivery grow only by Send and InsertAttempt.
LEMMA CallsAndRows ==
    ASSUME TypeOK, [Next]_vars, NEW d \in Deliveries
    PROVE  /\ sent'[d] = sent[d] \/ \E w \in Workers : Send(w) /\ mem[w].delivery = d
           /\ Len(attempts[d]) <= Len(attempts'[d])
           /\ \A w \in Workers : Send(w) => UNCHANGED <<attempts, jobs>>
  <1>1. \A w \in Workers : Send(w) => UNCHANGED <<attempts, jobs>>
    BY DEF Send, db
  <1>2. Len(attempts[d]) \in Nat
    BY DEF TypeOK, DatabaseOK
  <1>3. ASSUME NEW w \in Workers, Send(w)
        PROVE  /\ sent'[d] = sent[d] \/ mem[w].delivery = d
               /\ Len(attempts[d]) <= Len(attempts'[d])
    <2>1. mem[w].delivery \in Deliveries
      BY <1>3 DEF Send, TypeOK, WorkersOK, LocalsOK, InAttempt, Claimed
    <2>2. QED
      BY <1>1, <1>2, <1>3, <2>1, AttemptMoves DEF TypeOK
  <1>4. ASSUME NEW w \in Workers, InsertAttempt(w)
        PROVE  UNCHANGED sent /\ Len(attempts[d]) <= Len(attempts'[d])
    <2>1. UNCHANGED sent /\ mem[w].delivery \in Deliveries
      BY <1>4 DEF InsertAttempt, TypeOK, WorkersOK, LocalsOK, InAttempt, Claimed
    <2>2. mem[w].outcome \in Outcome /\ attempts[d] \in Seq(Outcome)
      BY <1>4 DEF InsertAttempt, TypeOK, DatabaseOK, WorkersOK, LocalsOK, Locals, Claimed
    <2>3. CASE UNCHANGED attempts
      BY <1>2, <2>1, <2>3
    <2>4. CASE attempts' = [attempts EXCEPT ![mem[w].delivery] = Append(@, mem[w].outcome)]
      BY <1>2, <2>1, <2>2, <2>4 DEF TypeOK, DatabaseOK
    <2>5. QED
      BY <1>4, <2>1, <2>3, <2>4, AttemptMoves
  <1>5. ASSUME NEW w \in Workers, WorkerStep(w) \/ Throw(w) \/ Crash(w), ~ Send(w), ~ InsertAttempt(w)
        PROVE  UNCHANGED <<attempts, sent>>
    BY <1>5 DEF WorkerStep, Attempt, TakeEventJob, FindSubscriptions, FindDelivery,
       CreateOrFindDelivery, CheckInitialSend, TakeRetryJob, LoadDelivery, LoadClaim, SaveClaim,
       NextAttemptSequence, LoadForOutcome, SaveOutcome, EnqueueRetry, RetryTaken, RetryRefused,
       ReadSummary, LoadEvent, SaveEvent, FinishJob, Throw, Crash, db
  <1>6. CASE UNCHANGED <<attempts, sent>>
    BY <1>1, <1>2, <1>6
  <1>7. QED
    BY <1>1, <1>3, <1>4, <1>5, <1>6, WhoMoves

\* What is counted is finite.
TracesAreFinite ==
    \A d \in Deliveries :
        /\ IsFiniteSet(Strays(d)) /\ IsFiniteSet(AtReport(d))
        /\ IsFiniteSet(Reporters(d)) /\ IsFiniteSet(LostRuns(d))

\* The sets counted are subsets of what the other invariants bound.
LEMMA CountedIsFinite ==
    TypeOK /\ JobsReferToRows /\ RunsCoverSends /\ CallsCoverReports => TracesAreFinite
  <1> SUFFICES ASSUME TypeOK, JobsReferToRows, RunsCoverSends, CallsCoverReports,
                      NEW d \in Deliveries
               PROVE  /\ IsFiniteSet(Strays(d)) /\ IsFiniteSet(AtReport(d))
                      /\ IsFiniteSet(Reporters(d)) /\ IsFiniteSet(LostRuns(d))
    BY DEF TracesAreFinite
  <1>1. IsFiniteSet(Strays(d))
    <2>1. Strays(d) \in SUBSET MaySend(d) /\ IsFiniteSet(MaySend(d))
      BY DEF Strays, RunsCoverSends
    <2>2. QED
      BY <2>1, FS_Subset
  <1>2. IsFiniteSet(AtReport(d))
    <2> DEFINE A == Reporting(d, "success")
               B == Reporting(d, "retryable")
               C == Reporting(d, "terminal")
    <2>1. IsFiniteSet(A) /\ IsFiniteSet(B) /\ IsFiniteSet(C)
      BY DEF CallsCoverReports, Outcome
    <2>2. AtReport(d) \in SUBSET (A \cup B \cup C)
      BY DEF AtReport, Reporting, TypeOK, WorkersOK, LocalsOK, Locals, Claimed, Outcome
    <2> HIDE DEF A, B, C
    <2>3. IsFiniteSet(A \cup B)
      BY <2>1, FS_Union
    <2>4. IsFiniteSet(A \cup B \cup C)
      BY <2>1, <2>3, FS_Union
    <2>5. QED
      BY <2>2, <2>4, FS_Subset
  <1>3. IsFiniteSet(Reporters(d))
    <2>1. Reporters(d) \in SUBSET AtReport(d)
      BY DEF Reporters
    <2>2. QED
      BY <1>2, <2>1, FS_Subset
  <1>4. LostRuns(d) \in SUBSET AboutRuns(d)
    <2> SUFFICES ASSUME NEW j \in DOMAIN jobs, Concerns(j, d)
                 PROVE  \E k \in 0..MaxRetryLimit : j = JobAbout(d, k)
      BY DEF LostRuns, AboutRuns
    <2>1. j \in EventJobs \cup RetryJobs /\ (j[1] = "retry" => j[3] \in 1..MaxRetryLimit)
      BY DEF TypeOK, IsQueue, JobsReferToRows
    <2>2. QED
      BY <2>1, JobsAboutKnown
  <1>5. IsFiniteSet(LostRuns(d))
    BY <1>4, LostRunsAreFinite
  <1>6. QED
    BY <1>1, <1>2, <1>3, <1>5

\* The jobs about a delivery lose no trace of a run.
LEMMA LostRunsGrow ==
    ASSUME TypeOK, OwnersKnown, [Next]_vars, NEW d \in Deliveries
    PROVE  LostRuns(d) \subseteq LostRuns(d)'
  <1> SUFFICES ASSUME NEW j \in DOMAIN jobs, Concerns(j, d), NEW r \in 0..MaxStalledCount,
                      r < CutShort(j)
               PROVE  j \in DOMAIN jobs' /\ r < CutShort(j)'
    BY DEF LostRuns
  <1>1. j \in DOMAIN jobs'
    BY JobStep
  <1>2. QED
    BY <1>1, CutShortGrows

\* A handler that loses its job while it has a call to account for leaves a
\* lost run behind.
LEMMA LosingLeavesTrace ==
    ASSUME TypeOK, OwnersKnown, RunsCoverSends, [Next]_vars, NEW d \in Deliveries,
           NEW w \in Workers, LetsGo(w), w \in Reporters(d) \/ w \in Strays(d)'
    PROVE  \E run \in LostRuns(d)' : run \notin LostRuns(d)
  <1>1. PICK j : j = mem[w].job
    OBVIOUS
  <1>2. j \in DOMAIN jobs /\ (\/ pc[w] = "finish" /\ pc'[w] = "idle"
                              \/ CutShort(j) = jobs[j].stalls /\ CutShort(j)' = jobs[j].stalls + 1)
    BY <1>1, LosingIsCounted
  <1>3. CutShort(j) = jobs[j].stalls /\ CutShort(j)' = jobs[j].stalls + 1
    BY <1>2 DEF Reporters, AtReport, Strays, MaySend, MaySendAt
  <1>4. Concerns(j, d)
    <2>1. CASE w \in Reporters(d)
      BY <1>1, <2>1 DEF Reporters, AtReport, RunsCoverSends, OnItsJob, InAttempt, Claimed
    <2>2. CASE w \in Strays(d)' /\ w \notin Strays(d)
      BY <1>1, <2>2, NewStray DEF MaySend, MaySendAt
    <2>3. CASE w \in Strays(d)
      BY <1>1, <2>3 DEF Strays, MaySend, MaySendAt
    <2>4. QED
      BY <2>1, <2>2, <2>3
  <1>5. PICK r \in 0..MaxStalledCount : r = jobs[j].stalls
    BY <1>2 DEF TypeOK, IsQueue, JobRecord
  <1>6. j \in DOMAIN jobs'
    BY <1>2, JobStep
  <1>7. <<j, r>> \in LostRuns(d)' /\ <<j, r>> \notin LostRuns(d)
    BY <1>2, <1>3, <1>4, <1>5, <1>6, StalledAssumption DEF LostRuns
  <1>8. QED
    BY <1>7

\* A call is accounted for from the moment it is made.
LEMMA NextKeepsTraces ==
    TypeOK /\ OwnersKnown /\ RunsCoverSends /\ TracesAreFinite /\ TracesAreFinite'
      /\ TracesCoverSends /\ [Next]_vars => TracesCoverSends'
  <1> SUFFICES ASSUME TypeOK, OwnersKnown, RunsCoverSends, TracesAreFinite, TracesAreFinite',
                      TracesCoverSends, [Next]_vars, NEW d \in Deliveries
               PROVE  Len(sent'[d]) + Cardinality(Strays(d)') <=
                        Len(attempts'[d]) + Cardinality(Reporters(d)') + Cardinality(LostRuns(d)')
    BY DEF TracesCoverSends
  <1> DEFINE D == Strays(d)
             E == Strays(d)'
             R == Reporters(d)
             S == Reporters(d)'
             L == LostRuns(d)
             M == LostRuns(d)'
             a == Len(attempts[d])
             b == Len(attempts'[d])
             s == Len(sent[d])
             t == Len(sent'[d])
  <1>1. /\ IsFiniteSet(D) /\ IsFiniteSet(E) /\ IsFiniteSet(R) /\ IsFiniteSet(S)
        /\ IsFiniteSet(L) /\ IsFiniteSet(M)
    BY DEF TracesAreFinite
  <1>2. /\ a \in Nat /\ b \in Nat /\ s \in Nat /\ a <= b
        /\ s + Cardinality(D) <= a + Cardinality(R) + Cardinality(L)
    BY CallsAndRows, NextTyped DEF TypeOK, DatabaseOK, TracesCoverSends
  <1>3. L \subseteq M
    BY LostRunsGrow
  <1>4. ASSUME NEW w \in Workers, Send(w), mem[w].delivery = d
        PROVE  /\ t = s + 1
               /\ \/ E \subseteq D /\ R \subseteq S /\ w \in S /\ w \notin R
                  \/ E \subseteq D /\ R \subseteq S /\ w \in D /\ w \notin E
    <2>1. /\ pc[w] = "send" /\ pc'[w] = "sequence" /\ Stays(w)
          /\ sent' = [sent EXCEPT ![d] = Append(@, mem'[w].outcome)] /\ UNCHANGED jobs
      BY <1>4, AttemptMoves, CallsAndRows
    <2>2. t = s + 1
      BY <2>1 DEF TypeOK
    <2>3. Holds(w)' <=> Holds(w)
      BY <2>1 DEF Holds, Stays
    <2>4. \A u \in Workers : ~ LetsGo(u)
      BY <1>4, <2>3, OneLetsGo DEF LetsGo, WorkerStep, Attempt
    <2>5. E \subseteq D
      BY <2>4, NewStray
    <2>6. R \subseteq S
      BY <1>4, <2>1, <2>4, LessReporter, AttemptMoves, StepOfOne
         DEF WorkerStep, Attempt, Reporters, AtReport, OthersStay
    <2>7. Concerns(mem[w].job, d) /\ w \in MaySend(d)
      BY <1>4, <2>1 DEF RunsCoverSends, OnItsJob, InAttempt, Claimed, MaySend, MaySendAt, Unsent
    <2>8. w \notin MaySend(d)'
      BY <1>4, MaySendStays DEF MaySend, RunsCoverSends
    <2>9. QED
      BY <1>4, <2>1, <2>2, <2>3, <2>5, <2>6, <2>7, <2>8 DEF Strays, Reporters, AtReport, Stays
  <1>5. ASSUME NEW w \in Workers, LetsGo(w)
        PROVE  \/ E \subseteq D /\ R \subseteq S
               \/ E \ {w} \subseteq D /\ R \subseteq S /\ \E run \in M : run \notin L
               \/ E \subseteq D /\ R \ {w} \subseteq S /\ \E run \in M : run \notin L
    <2>1. E \ {w} \subseteq D
      BY <1>5, NewStray, OneLetsGo
    <2>2. ASSUME NEW u \in R, u # w
          PROVE  u \in S
      <3>1. ~ LetsGo(u) /\ ~ WorkerStep(u)
        BY <1>5, <2>2, OneLetsGo DEF Reporters, AtReport
      <3>2. QED
        BY <2>2, <3>1, LessReporter DEF WorkerStep, Attempt
    <2>3. ~ (w \in R /\ w \in MaySend(d))
      BY DEF Reporters, AtReport, MaySend, MaySendAt, Sent, Unsent
    <2>4. CASE w \in E /\ w \notin D
      <3>1. w \notin R
        BY <2>3, <2>4, NewStray
      <3>2. \E run \in M : run \notin L
        BY <1>5, <2>4, LosingLeavesTrace
      <3>3. R \subseteq S
        BY <2>2, <3>1
      <3>4. QED
        BY <2>1, <3>2, <3>3
    <2>5. CASE w \in R /\ w \notin S /\ ~ (w \in E /\ w \notin D)
      <3>1. \E run \in M : run \notin L
        BY <1>5, <2>5, LosingLeavesTrace
      <3>2. E \subseteq D
        BY <2>1, <2>5
      <3>3. R \ {w} \subseteq S
        BY <2>2
      <3>4. QED
        BY <3>1, <3>2, <3>3
    <2>6. CASE ~ (w \in E /\ w \notin D) /\ ~ (w \in R /\ w \notin S)
      <3>1. E \subseteq D
        BY <2>1, <2>6
      <3>2. R \subseteq S
        BY <2>2, <2>6
      <3>3. QED
        BY <3>1, <3>2
    <2>7. QED
      BY <2>4, <2>5, <2>6
  <1>6. ASSUME NEW w \in Workers, w \in R, w \notin S, ~ LetsGo(w)
        PROVE  E \subseteq D /\ R \ {w} \subseteq S /\ b = a + 1
    <2>1. InsertAttempt(w) /\ attempts' = [attempts EXCEPT ![d] = Append(@, mem[w].outcome)]
      BY <1>6, LessReporter
    <2>2. WorkerStep(w)
      BY <2>1 DEF WorkerStep, Attempt
    <2>3. \A u \in Workers : ~ LetsGo(u)
      BY <1>6, <2>2, OneLetsGo
    <2>4. E \subseteq D
      BY <2>3, NewStray
    <2>5. ASSUME NEW u \in R, u # w
          PROVE  u \in S
      <3>1. u \in Workers /\ pc'[u] = pc[u]
        BY <2>2, <2>5, StepOfOne DEF OthersStay, Reporters, AtReport
      <3>2. ~ InsertAttempt(u)
        BY <3>1, AttemptMoves, EndMoves
      <3>3. QED
        BY <2>3, <2>5, <3>1, <3>2, LessReporter
    <2>6. b = a + 1
      <3>1. attempts[d] \in Seq(Outcome) /\ attempts'[d] = Append(attempts[d], mem[w].outcome)
        BY <2>1 DEF TypeOK, DatabaseOK
      <3>2. mem[w].outcome \in Outcome
        BY <1>6 DEF TypeOK, WorkersOK, LocalsOK, Locals, Claimed, Reporters, AtReport
      <3>3. QED
        BY <3>1, <3>2
    <2>7. QED
      BY <2>4, <2>5, <2>6
  <1>7. ASSUME \A w \in Workers : ~ LetsGo(w)
        PROVE  E \subseteq D
    BY <1>7, NewStray
  <1>8. t = s \/ \E w \in Workers : Send(w) /\ mem[w].delivery = d
    BY CallsAndRows
  <1>9. R \subseteq Workers
    BY DEF Reporters, AtReport
  <1> HIDE DEF D, E, R, S, L, M, a, b, s, t
  <1>10. /\ Cardinality(D) \in Nat /\ Cardinality(E) \in Nat /\ Cardinality(R) \in Nat
         /\ Cardinality(S) \in Nat /\ Cardinality(L) \in Nat /\ Cardinality(M) \in Nat
         /\ Cardinality(L) <= Cardinality(M)
    BY <1>1, <1>3, Sizes
  <1>11. E \subseteq D => Cardinality(E) <= Cardinality(D)
    BY <1>1, Sizes
  <1>12. R \subseteq S => Cardinality(R) <= Cardinality(S)
    BY <1>1, Sizes
  <1>13. (\E run \in M : run \notin L) => Cardinality(L) + 1 <= Cardinality(M)
    BY <1>1, <1>3, Sizes
  <1>14. \A w : /\ E \ {w} \subseteq D => Cardinality(E) <= Cardinality(D) + 1
                /\ R \ {w} \subseteq S => Cardinality(R) <= Cardinality(S) + 1
                /\ R \subseteq S /\ w \in S /\ w \notin R => Cardinality(R) + 1 <= Cardinality(S)
                /\ E \subseteq D /\ w \in D /\ w \notin E => Cardinality(E) + 1 <= Cardinality(D)
    BY <1>1, Sizes
  <1>15. ASSUME t = s
         PROVE  t + Cardinality(E) <= b + Cardinality(S) + Cardinality(M)
    <2>1. CASE \E w \in Workers : LetsGo(w)
      BY <1>2, <1>5, <1>10, <1>11, <1>12, <1>13, <1>14, <1>15, <2>1
    <2>2. CASE \E w \in Workers : w \in R /\ w \notin S /\ ~ LetsGo(w)
      BY <1>2, <1>6, <1>10, <1>11, <1>14, <1>15, <2>2
    <2>3. CASE R \subseteq S /\ \A w \in Workers : ~ LetsGo(w)
      BY <1>2, <1>7, <1>10, <1>11, <1>12, <1>15, <2>3
    <2>4. QED
      BY <1>9, <2>1, <2>2, <2>3
  <1>16. ASSUME NEW w \in Workers, Send(w), mem[w].delivery = d
         PROVE  t + Cardinality(E) <= b + Cardinality(S) + Cardinality(M)
    BY <1>2, <1>4, <1>10, <1>11, <1>12, <1>14, <1>16
  <1>17. t + Cardinality(E) <= b + Cardinality(S) + Cardinality(M)
    BY <1>8, <1>15, <1>16
  <1>18. QED
    BY <1>17 DEF D, E, R, S, L, M, a, b, s, t

\* A call leaves its row, a handler about to write it, or a run cut short.
LEMMA TracesSuffice ==
    TypeOK /\ TracesAreFinite /\ TracesCoverSends => UnrecordedSendsLeaveTrace
  <1> SUFFICES ASSUME TypeOK, TracesAreFinite, TracesCoverSends, NEW d \in Deliveries
               PROVE  Len(sent[d]) <= Len(attempts[d]) + Cardinality(AtReport(d)) + Cardinality(LostRuns(d))
    BY DEF UnrecordedSendsLeaveTrace, AtReport
  <1>1. Reporters(d) \subseteq AtReport(d)
    BY DEF Reporters
  <1>2. /\ Cardinality(Reporters(d)) <= Cardinality(AtReport(d))
        /\ Cardinality(Reporters(d)) \in Nat /\ Cardinality(AtReport(d)) \in Nat
        /\ Cardinality(LostRuns(d)) \in Nat /\ Cardinality(Strays(d)) \in Nat
    BY <1>1, FS_Subset, FS_CardinalityType DEF TracesAreFinite
  <1>3. Len(sent[d]) \in Nat /\ Len(attempts[d]) \in Nat
    BY DEF TypeOK, DatabaseOK
  <1>4. Len(sent[d]) + Cardinality(Strays(d)) <=
          Len(attempts[d]) + Cardinality(Reporters(d)) + Cardinality(LostRuns(d))
    BY DEF TracesCoverSends
  <1>5. QED
    BY <1>2, <1>3, <1>4

\* At the start nothing has been sent.
LEMMA InitTraces == Init => TracesCoverSends
  <1> SUFFICES ASSUME Init, NEW d \in Deliveries
               PROVE  Len(sent[d]) + Cardinality(Strays(d)) <=
                        Len(attempts[d]) + Cardinality(Reporters(d)) + Cardinality(LostRuns(d))
    BY DEF TracesCoverSends
  <1>1. Strays(d) = {} /\ Reporters(d) = {} /\ LostRuns(d) = {}
    BY DEF Init, Strays, MaySend, MaySendAt, Reporters, AtReport, LostRuns
  <1>2. Len(sent[d]) = 0 /\ Len(attempts[d]) = 0
    BY DEF Init
  <1>3. Cardinality({}) = 0
    BY FS_EmptySet
  <1>4. QED
    BY <1>1, <1>2, <1>3

\* Owners are known from the start.
LEMMA OwnersAlwaysKnown == Spec => []OwnersKnown
  <1>1. Init => OwnersKnown
    BY DEF Init, OwnersKnown
  <1>2. TypeOK /\ OwnersKnown /\ [Next]_vars => OwnersKnown'
    BY OwnersStayKnown
  <1>3. QED
    BY <1>1, <1>2, TypeCorrect, PTL DEF Spec

\* Whatever fails and however many handlers of one delivery overlap: a call
\* of which no row tells is one whose handler is about to write the row, or
\* the queue has on record that a run of a job of the delivery was cut short.
THEOREM UnrecordedSendsAreTraceable == Spec => []UnrecordedSendsLeaveTrace
  BY TypeCorrect, JobsAreBacked, OwnersAlwaysKnown, RunsAlwaysCover, CallsAlwaysCover,
     CountedIsFinite, InitTraces, NextKeepsTraces, TracesSuffice, PTL DEF Spec
===============================================================================
