---------------------------- MODULE ExclusionProofs ----------------------------
(***************************************************************************)
(* As long as no running handler loses its lock, handlers of one delivery  *)
(* exclude each other, and what a handler read when it claimed a delivery  *)
(* stays true until it has saved the outcome.  The proof is that Exclusion *)
(* is inductive relative to TypeOK and JobsReferToRows:                    *)
(*                                                                         *)
(*  - a running handler owns its job, so no two run the same job;          *)
(*  - a PENDING delivery can only be engaged by its event job and a        *)
(*    RETRYING one only by the job of its retry count, so one delivery is  *)
(*    engaged through one job;                                             *)
(*  - a row is therefore written by the one handler engaged with it, from  *)
(*    a copy that is the row.                                              *)
(***************************************************************************)
EXTENDS PipelineProofs

(***************************************************************************)
(* Consequences of Exclusion in one state.                                 *)
(***************************************************************************)
\* A job read as a record of its parts.
LEMMA JobShapes ==
    ASSUME NEW j \in EventJobs \cup RetryJobs
    PROVE  \/ j[1] = "event" /\ j[2] \in Events /\ j = EventJob(j[2])
           \/ j[1] = "retry" /\ j[2] \in Deliveries /\ j[3] \in Nat /\ j = RetryJob(j[2], j[3])
  BY DEF EventJobs, RetryJobs, EventJob, RetryJob

\* No two handlers run the same job.
LEMMA OneHandlerPerJob ==
    ASSUME Exclusion, NEW v \in Workers, NEW w \in Workers,
           pc[v] # "idle", pc[w] # "idle", mem[v].job = mem[w].job
    PROVE  v = w
  BY DEF Exclusion

\* What holds of a handler that is engaged with a delivery.
LEMMA EngagedFacts ==
    ASSUME TypeOK, Exclusion, NEW w \in Workers, Engaged(w)
    PROVE  /\ pc[w] # "idle"
           /\ mem[w].delivery \in Deliveries
           /\ mem[w].job \in EventJobs \cup RetryJobs
           /\ Fit(pc[w], mem[w], deliveries, DOMAIN jobs)
           /\ Exists(deliveries[mem[w].delivery])
  <1>1. pc[w] \in InAttempt \cup {"latest"}
    BY DEF Engaged, EngagedAt
  <1>2. pc[w] # "idle" /\ mem[w].delivery \in Deliveries /\ mem[w].job \in EventJobs \cup RetryJobs
    BY <1>1 DEF TypeOK, WorkersOK, LocalsOK, InAttempt, Claimed
  <1>3. Fit(pc[w], mem[w], deliveries, DOMAIN jobs)
    BY <1>2 DEF Exclusion
  <1>4. Exists(deliveries[mem[w].delivery])
    BY <1>1, <1>3 DEF Fit, Engaged, EngagedAt, InAttempt, Claimed, Due, Exists
  <1>5. QED
    BY <1>2, <1>3, <1>4

\* Only the event job of a PENDING delivery is engaged with it, and only the
\* retry job of its retry count with a RETRYING one whose retry job exists.
LEMMA EngagedThroughOneJob ==
    ASSUME TypeOK, Exclusion, NEW w \in Workers, Engaged(w)
    PROVE  LET d == mem[w].delivery
               row == deliveries[d]
           IN  /\ row.status = "pending" => mem[w].job = EventJob(d[1])
               /\ row.status = "retrying" /\ RetryJob(d, row.retryCount) \in DOMAIN jobs
                    => mem[w].job = RetryJob(d, row.retryCount)
  <1> DEFINE m == mem[w]
             d == m.delivery
             row == deliveries[d]
  <1>1. /\ m.job \in EventJobs \cup RetryJobs
        /\ Fit(pc[w], m, deliveries, DOMAIN jobs)
        /\ pc[w] \in InAttempt \cup {"latest"}
    BY EngagedFacts DEF Engaged, EngagedAt
  <1>2. CASE m.job[1] = "event"
    <2>1. m.job = EventJob(d[1])
      BY <1>1, <1>2, JobShapes DEF Fit
    <2>2. row.status = "retrying" => pc[w] = "enqueue"
      BY <1>1, <1>2 DEF Fit, Engaged, EngagedAt, InAttempt, Claimed, Due
    <2>3. QED
      BY <1>1, <2>1, <2>2 DEF Fit
  <1>3. CASE m.job[1] = "retry"
    <2>1. m.job = RetryJob(d, m.job[3])
      BY <1>1, <1>3, JobShapes DEF Fit
    <2>2. row.status # "pending"
      BY <1>1, <1>3 DEF Fit, Engaged, EngagedAt, InAttempt, Claimed, Due
    <2>3. row.status = "retrying" => pc[w] = "enqueue" \/ row.retryCount = m.job[3]
      BY <1>1, <1>3 DEF Fit, Engaged, EngagedAt, InAttempt, Claimed, Due
    <2>4. QED
      BY <1>1, <2>1, <2>2, <2>3 DEF Fit
  <1>4. QED
    BY <1>1, <1>2, <1>3, JobShapes

-----------------------------------------------------------------------------
(***************************************************************************)
(* How a step of one handler preserves Exclusion.                          *)
(***************************************************************************)
OwnsItsJob(w) == jobs[mem[w].job].state = "active" /\ jobs[mem[w].job].owner = w

\* The step leaves alone what the other engaged handlers rely on: the row of
\* their delivery, and that its next retry job is still to be added.
LeavesOthersAlone(w) ==
    \A v \in Workers \ {w} : Engaged(v) =>
        /\ deliveries'[mem[v].delivery] = deliveries[mem[v].delivery]
        /\ \A k \in DOMAIN jobs' \ DOMAIN jobs :
             ~ (k[1] = "retry" /\ k[2] = mem[v].delivery)

\* A handler that is engaged after the step is alone with its delivery.
EngagesAlone(w, label, m) ==
    EngagedAt(label, m) =>
        \A v \in Workers \ {w} : Engaged(v) => mem[v].delivery # m.delivery

\* What others rely on survives a step that leaves them alone.
LEMMA OthersStayFit ==
    ASSUME TypeOK, Exclusion, NEW w \in Workers, LeavesOthersAlone(w),
           NEW v \in Workers \ {w}, pc[v] # "idle"
    PROVE  Fit(pc[v], mem[v], deliveries', DOMAIN jobs')
  <1> DEFINE m == mem[v]
             d == m.delivery
  <1>1. Fit(pc[v], m, deliveries, DOMAIN jobs)
    BY DEF Exclusion
  <1>2. CASE ~ Engaged(v)
    BY <1>1, <1>2 DEF Fit, Engaged, EngagedAt, InAttempt, Claimed
  <1>3. CASE Engaged(v)
    <2>1. deliveries'[d] = deliveries[d]
      BY <1>3 DEF LeavesOthersAlone
    <2>2. d \in Deliveries
      BY <1>3, EngagedFacts
    <2>3. RetryJob(d, deliveries[d].retryCount) \notin DOMAIN jobs' \ DOMAIN jobs
      BY <1>3 DEF LeavesOthersAlone, RetryJob
    <2>4. QED
      BY <1>1, <2>1, <2>3 DEF Fit
  <1>4. QED
    BY <1>2, <1>3

LEMMA HandlerStep ==
    ASSUME TypeOK, Exclusion, NEW w \in Workers, NEW label, NEW m, GoTo(w, label, m),
           \A v \in Workers : pc'[v] # "idle" => OwnsItsJob(v)',
           label # "idle" => Fit(label, m, deliveries', DOMAIN jobs'),
           LeavesOthersAlone(w), EngagesAlone(w, label, m), RetriesAreRecorded'
    PROVE  Exclusion'
  <1>1. /\ pc'[w] = label /\ mem'[w] = m
        /\ \A v \in Workers \ {w} : pc'[v] = pc[v] /\ mem'[v] = mem[v]
    BY DEF GoTo, TypeOK, WorkersOK
  <1>2. \A v \in Workers : pc'[v] # "idle" => Fit(pc'[v], mem'[v], deliveries', DOMAIN jobs')
    BY <1>1, OthersStayFit
  <1>3. ASSUME NEW u \in Workers, NEW v \in Workers, Engaged(u)', Engaged(v)',
               mem'[u].delivery = mem'[v].delivery
        PROVE  u = v
    <2>1. CASE u # w /\ v # w
      BY <1>1, <1>3, <2>1 DEF Exclusion, Engaged
    <2>2. CASE u = w /\ v # w
      BY <1>1, <1>3, <2>2 DEF EngagesAlone, Engaged
    <2>3. CASE u # w /\ v = w
      BY <1>1, <1>3, <2>3 DEF EngagesAlone, Engaged
    <2>4. QED
      BY <2>1, <2>2, <2>3
  <1>4. QED
    BY <1>2, <1>3 DEF Exclusion, OwnsItsJob

\* Handlers that keep their jobs still own them when the jobs they run are
\* not touched.
LEMMA OwnersStay ==
    ASSUME TypeOK, Exclusion, NEW w \in Workers, NEW label, NEW m, GoTo(w, label, m),
           label # "idle" => pc[w] # "idle" /\ m.job = mem[w].job,
           \A v \in Workers : pc[v] # "idle" /\ (v = w => label # "idle") =>
             jobs'[mem[v].job] = jobs[mem[v].job]
    PROVE  \A v \in Workers : pc'[v] # "idle" => OwnsItsJob(v)'
  <1> SUFFICES ASSUME NEW v \in Workers, pc'[v] # "idle" PROVE OwnsItsJob(v)'
    OBVIOUS
  <1>1. pc[v] # "idle" /\ mem'[v].job = mem[v].job /\ (v = w => label # "idle")
    BY DEF GoTo, TypeOK, WorkersOK
  <1>2. jobs'[mem'[v].job] = jobs[mem[v].job]
    BY <1>1
  <1>3. QED
    BY <1>1, <1>2 DEF Exclusion, OwnsItsJob

\* A step that writes neither the deliveries nor the queue.
LEMMA QuietStep ==
    ASSUME TypeOK, Exclusion, NEW w \in Workers, NEW label, NEW m, GoTo(w, label, m),
           UNCHANGED <<deliveries, jobs>>,
           label # "idle" => /\ pc[w] # "idle"
                             /\ m.job = mem[w].job
                             /\ Fit(label, m, deliveries, DOMAIN jobs),
           EngagesAlone(w, label, m)
    PROVE  Exclusion'
  <1>1. LeavesOthersAlone(w)
    BY DEF LeavesOthersAlone
  <1>2. \A v \in Workers : pc'[v] # "idle" => OwnsItsJob(v)'
    BY OwnersStay
  <1>3. RetriesAreRecorded'
    BY DEF Exclusion, RetriesAreRecorded
  <1>4. QED
    BY <1>1, <1>2, <1>3, HandlerStep

\* A handler that was engaged with a delivery before the step still is alone.
LEMMA StaysAlone ==
    ASSUME Exclusion, NEW w \in Workers, NEW label, NEW m,
           EngagedAt(label, m) => Engaged(w) /\ m.delivery = mem[w].delivery
    PROVE  EngagesAlone(w, label, m)
  BY DEF Exclusion, EngagesAlone

-----------------------------------------------------------------------------
(***************************************************************************)
(* The steps.                                                              *)
(***************************************************************************)
\* Going on in the loop or to the summary asks nothing of the rows.
LEMMA NextInLoopFit ==
    ASSUME TypeOK, Exclusion, NEW w \in Workers, pc[w] # "idle", NextInLoop(w)
    PROVE  \E label, n :
             /\ label \in {"summary", "find"}
             /\ GoTo(w, label, n)
             /\ n.job = mem[w].job
             /\ \A rows, known : Fit(label, n, rows, known)
  <1> DEFINE m == mem[w]
             rest == m.todo \ {m.delivery[2]}
             label == IF rest = {} THEN "summary" ELSE "find"
             n == [NoMem EXCEPT !.job = m.job, !.todo = rest, !.delivery = m.delivery]
  <1>1. n.job = m.job /\ n.todo = rest
    BY DEF NoMem
  <1>2. m.job[1] = "retry" => rest = {}
    BY DEF Exclusion, Fit
  <1>3. \A rows, known : Fit(label, n, rows, known)
    BY <1>1, <1>2 DEF Fit, InAttempt, Claimed
  <1>4. GoTo(w, label, n)
    BY DEF NextInLoop
  <1> HIDE DEF n, label
  <1>5. label \in {"summary", "find"}
    BY DEF label
  <1>6. QED
    BY <1>1, <1>3, <1>4, <1>5

\* A handler that leaves the loop body, whatever it has written before.
LEMMA NextInLoopKeepsExclusion ==
    ASSUME TypeOK, Exclusion, NEW w \in Workers, pc[w] # "idle", NextInLoop(w),
           LeavesOthersAlone(w), RetriesAreRecorded',
           \A v \in Workers : pc[v] # "idle" => jobs'[mem[v].job] = jobs[mem[v].job]
    PROVE  Exclusion'
  <1>1. PICK label, n :
          /\ label \in {"summary", "find"}
          /\ GoTo(w, label, n)
          /\ n.job = mem[w].job
          /\ \A rows, known : Fit(label, n, rows, known)
    BY NextInLoopFit
  <1>2. EngagesAlone(w, label, n)
    BY <1>1 DEF EngagesAlone, EngagedAt, InAttempt, Claimed
  <1>3. \A v \in Workers : pc'[v] # "idle" => OwnsItsJob(v)'
    BY <1>1, OwnersStay
  <1>4. QED
    BY <1>1, <1>2, <1>3, HandlerStep

\* Giving up the job, by death or by finishing it.
LEMMA EndKeepsExclusion ==
    ASSUME TypeOK, Exclusion, NEW w \in Workers, pc[w] # "idle", GoTo(w, "idle", NoMem),
           UNCHANGED deliveries,
           \/ UNCHANGED jobs
           \/ \E s \in {"completed", "failed"} : jobs' = MoveToFinished(jobs, mem[w].job, w, s)
    PROVE  Exclusion'
  <1>1. DOMAIN jobs' = DOMAIN jobs
    BY MoveTyped DEF TypeOK
  <1>2. \A j \in DOMAIN jobs : j # mem[w].job => jobs'[j] = jobs[j]
    BY DEF MoveToFinished, TypeOK, IsQueue
  <1>3. ASSUME NEW v \in Workers, pc[v] # "idle", v # w
        PROVE  jobs'[mem[v].job] = jobs[mem[v].job]
    BY <1>2, <1>3, OneHandlerPerJob DEF TypeOK
  <1>4. \A v \in Workers : pc'[v] # "idle" => OwnsItsJob(v)'
    BY <1>3, OwnersStay
  <1>5. LeavesOthersAlone(w) /\ EngagesAlone(w, "idle", NoMem)
    BY <1>1 DEF LeavesOthersAlone, EngagesAlone, EngagedAt, InAttempt, Claimed
  <1>6. RetriesAreRecorded'
    BY <1>1 DEF Exclusion, RetriesAreRecorded
  <1>7. QED
    BY <1>4, <1>5, <1>6, HandlerStep

\* Taking a waiting job: nobody runs it.
LEMMA TakeKeepsExclusion ==
    ASSUME TypeOK, Exclusion, NEW w \in Workers, TakeEventJob(w) \/ TakeRetryJob(w)
    PROVE  Exclusion'
  <1>1. PICK j, label, m :
          /\ j \in DOMAIN jobs
          /\ label \in {"subscriptions", "loaddelivery"}
          /\ jobs[j].state = "waiting"
          /\ jobs' = MoveToActive(jobs, j, w)
          /\ GoTo(w, label, m)
          /\ \/ /\ label = "subscriptions"
                /\ m = [NoMem EXCEPT !.job = j]
                /\ j \in EventJobs
             \/ /\ label = "loaddelivery"
                /\ m = [NoMem EXCEPT !.job = j, !.delivery = j[2]]
                /\ j \in RetryJobs
    BY DEF TakeEventJob, TakeRetryJob, TypeOK, IsQueue
  <1>2. /\ m.job = j /\ m.todo = {}
        /\ label = "loaddelivery" => m.delivery = j[2]
    BY <1>1 DEF NoMem
  <1>3. \A rows, known : Fit(label, m, rows, known)
    BY <1>1, <1>2 DEF Fit, InAttempt, Claimed, EventJobs, RetryJobs
  <1>4. DOMAIN jobs' = DOMAIN jobs /\ UNCHANGED deliveries
    <2>1. DOMAIN jobs' = DOMAIN jobs
      BY <1>1 DEF MoveToActive
    <2>2. UNCHANGED deliveries
      BY DEF TakeEventJob, TakeRetryJob, db
    <2>3. QED
      BY <2>1, <2>2
  <1>5. \A v \in Workers : pc'[v] # "idle" => OwnsItsJob(v)'
    <2> SUFFICES ASSUME NEW v \in Workers, pc'[v] # "idle" PROVE OwnsItsJob(v)'
      OBVIOUS
    <2>1. CASE v = w
      <3>1. jobs'[j] = [jobs[j] EXCEPT !.state = "active", !.owner = w]
        BY <1>1 DEF MoveToActive, TypeOK, IsQueue
      <3>2. jobs[j] \in JobRecord(Workers)
        BY <1>1 DEF TypeOK, IsQueue
      <3>3. jobs'[j].state = "active" /\ jobs'[j].owner = w
        BY <3>1, <3>2 DEF JobRecord
      <3>4. mem'[w].job = j
        BY <1>1, <1>2 DEF GoTo, TypeOK, WorkersOK
      <3>5. QED
        BY <2>1, <3>3, <3>4 DEF OwnsItsJob
    <2>2. CASE v # w
      <3>1. pc[v] # "idle" /\ mem'[v] = mem[v]
        BY <1>1, <2>2 DEF GoTo, TypeOK, WorkersOK
      <3>2. jobs[mem[v].job].state = "active" /\ jobs[mem[v].job].owner = v
        BY <3>1 DEF Exclusion
      <3>3. jobs'[mem[v].job] = jobs[mem[v].job]
        BY <1>1, <3>1, <3>2 DEF MoveToActive, TypeOK, IsQueue
      <3>4. QED
        BY <3>1, <3>2, <3>3 DEF OwnsItsJob
    <2>3. QED
      BY <2>1, <2>2
  <1>6. LeavesOthersAlone(w) /\ EngagesAlone(w, label, m)
    <2>1. ~ EngagedAt(label, m)
      BY <1>1 DEF EngagedAt, InAttempt, Claimed
    <2>2. QED
      BY <1>4, <2>1 DEF LeavesOthersAlone, EngagesAlone
  <1>7. RetriesAreRecorded'
    BY <1>4 DEF Exclusion, RetriesAreRecorded
  <1>8. GoTo(w, label, m) /\ Fit(label, m, deliveries', DOMAIN jobs')
    BY <1>1, <1>3
  <1>9. QED
    BY <1>5, <1>6, <1>7, <1>8, HandlerStep

\* The event job comes to a delivery that is new or untouched: nobody else
\* is engaged with it.
LEMMA UntouchedIsFree ==
    ASSUME TypeOK, Exclusion, NEW w \in Workers, pc[w] # "idle", NEW d,
           mem[w].job = EventJob(d[1]), deliveries[d].status \in {"absent", "pending"},
           NEW v \in Workers \ {w}, Engaged(v)
    PROVE  mem[v].delivery # d
  <1> SUFFICES ASSUME mem[v].delivery = d PROVE FALSE
    OBVIOUS
  <1>1. deliveries[d].status = "pending"
    BY EngagedFacts DEF Exists
  <1>2. mem[v].job = EventJob(d[1]) /\ pc[v] # "idle"
    BY <1>1, EngagedFacts, EngagedThroughOneJob
  <1>3. QED
    BY <1>2, OneHandlerPerJob

\* The steps that neither write deliveries nor jobs and engage with nothing
\* new.
LEMMA ReadKeepsExclusion ==
    ASSUME TypeOK, Exclusion, NEW w \in Workers,
           \/ FindSubscriptions(w) \/ LoadClaim(w) \/ Send(w) \/ NextAttemptSequence(w)
           \/ LoadForOutcome(w) \/ ReadSummary(w) \/ LoadEvent(w) \/ SaveEvent(w)
    PROVE  Exclusion'
  <1> DEFINE m == mem[w]
  <1> USE DEF InAttempt, Claimed
  <1>1. m \in Locals /\ pc[w] # "idle" /\ UNCHANGED <<deliveries, jobs>>
    BY DEF FindSubscriptions, LoadClaim, Send, NextAttemptSequence, LoadForOutcome,
           ReadSummary, LoadEvent, SaveEvent, TypeOK, WorkersOK, db
  <1>2. Fit(pc[w], m, deliveries, DOMAIN jobs)
    BY <1>1 DEF Exclusion
  <1>3. \A label, n : /\ GoTo(w, label, n)
                      /\ n.job = m.job
                      /\ Fit(label, n, deliveries, DOMAIN jobs)
                      /\ EngagedAt(label, n) => Engaged(w) /\ n.delivery = m.delivery
                      => Exclusion'
    BY <1>1, QuietStep, StaysAlone
  <1>4. CASE FindSubscriptions(w)
    <2>1. PICK todo, target : GoTo(w, "loadevent", [m EXCEPT !.todo = todo, !.target = target])
      BY <1>4 DEF FindSubscriptions
    <2> DEFINE n == [m EXCEPT !.todo = todo, !.target = target]
    <2>2. n.job = m.job
      BY <1>1 DEF Locals
    <2>3. Fit("loadevent", n, deliveries, DOMAIN jobs)
      BY <1>2, <1>4, <2>2 DEF Fit, FindSubscriptions
    <2>4. QED
      BY <1>3, <2>1, <2>2, <2>3 DEF EngagedAt
  <1>5. CASE LoadClaim(w) \/ LoadForOutcome(w)
    <2> DEFINE n == [m EXCEPT !.row = deliveries[m.delivery]]
    <2>1. /\ n.job = m.job /\ n.todo = m.todo /\ n.delivery = m.delivery
          /\ n.claimed = m.claimed /\ n.row = deliveries[m.delivery]
      BY <1>1 DEF Locals
    <2>2. Engaged(w)
      BY <1>5 DEF LoadClaim, LoadForOutcome, Engaged, EngagedAt
    <2>3. CASE LoadClaim(w)
      <3>1. Fit("saveclaim", n, deliveries, DOMAIN jobs)
        BY <1>2, <2>1, <2>3 DEF Fit, LoadClaim, Due
      <3>2. QED
        BY <1>3, <2>1, <2>2, <2>3, <3>1 DEF LoadClaim
    <2>4. CASE LoadForOutcome(w)
      <3>1. Fit("saveoutcome", n, deliveries, DOMAIN jobs)
        BY <1>2, <2>1, <2>4 DEF Fit, LoadForOutcome
      <3>2. QED
        BY <1>3, <2>1, <2>2, <2>4, <3>1 DEF LoadForOutcome
    <2>5. QED
      BY <1>5, <2>3, <2>4
  <1>6. CASE Send(w)
    <2>1. PICK o : GoTo(w, "sequence", [m EXCEPT !.outcome = o])
      BY <1>6 DEF Send
    <2> DEFINE n == [m EXCEPT !.outcome = o]
    <2>2. /\ n.job = m.job /\ n.todo = m.todo /\ n.delivery = m.delivery
          /\ n.claimed = m.claimed
      BY <1>1 DEF Locals
    <2>3. Fit("sequence", n, deliveries, DOMAIN jobs)
      BY <1>2, <1>6, <2>2 DEF Fit, Send
    <2>4. QED
      BY <1>3, <1>6, <2>1, <2>2, <2>3 DEF Send, Engaged, EngagedAt
  <1>7. CASE NextAttemptSequence(w)
    <2> DEFINE n == [m EXCEPT !.sequence = Len(attempts[m.delivery]) + 1]
    <2>1. /\ n.job = m.job /\ n.todo = m.todo /\ n.delivery = m.delivery
          /\ n.claimed = m.claimed
      BY <1>1 DEF Locals
    <2>2. Fit("attempt", n, deliveries, DOMAIN jobs)
      BY <1>2, <1>7, <2>1 DEF Fit, NextAttemptSequence
    <2>3. QED
      BY <1>3, <1>7, <2>1, <2>2 DEF NextAttemptSequence, Engaged, EngagedAt
  <1>8. CASE ReadSummary(w) \/ LoadEvent(w) \/ SaveEvent(w)
    <2>1. ASSUME NEW label \in {"loadevent", "saveevent", "find", "finish"}, NEW n,
                 GoTo(w, label, n), n.job = m.job, n.todo = m.todo,
                 label = "find" => m.todo # {}
          PROVE  Exclusion'
      <3>1. Fit(label, n, deliveries, DOMAIN jobs)
        BY <1>2, <2>1 DEF Fit
      <3>2. QED
        BY <1>3, <2>1, <3>1 DEF EngagedAt
    <2>2. CASE ReadSummary(w)
      <3> DEFINE n == [m EXCEPT !.target = Summary(EventOf(m.job))]
      <3>1. GoTo(w, "loadevent", n) /\ n.job = m.job /\ n.todo = m.todo
        BY <1>1, <2>2 DEF ReadSummary, Locals
      <3> HIDE DEF n
      <3>2. QED
        BY <2>1, <3>1
    <2>3. CASE LoadEvent(w)
      <3> DEFINE n == [m EXCEPT !.event = events[EventOf(m.job)]]
      <3>1. GoTo(w, "saveevent", n) /\ n.job = m.job /\ n.todo = m.todo
        BY <1>1, <2>3 DEF LoadEvent, Locals
      <3> HIDE DEF n
      <3>2. QED
        BY <2>1, <3>1
    <2>4. CASE SaveEvent(w)
      <3> DEFINE n == [m EXCEPT !.event = AbsentEvent, !.target = "none"]
                 label == IF m.todo = {} THEN "finish" ELSE "find"
      <3>1. GoTo(w, label, n) /\ n.job = m.job /\ n.todo = m.todo
        BY <1>1, <2>4 DEF SaveEvent, Locals
      <3>2. label \in {"find", "finish"} /\ (label = "find" => m.todo # {})
        OBVIOUS
      <3> HIDE DEF n, label
      <3>3. QED
        BY <2>1, <3>1, <3>2
    <2>5. QED
      BY <1>8, <2>2, <2>3, <2>4
  <1>9. QED
    BY <1>4, <1>5, <1>6, <1>7, <1>8

\* The steps that engage with a delivery.
LEMMA EngageKeepsExclusion ==
    ASSUME TypeOK, Exclusion, NEW w \in Workers,
           FindDelivery(w) \/ CheckInitialSend(w) \/ LoadDelivery(w)
    PROVE  Exclusion'
  <1> DEFINE m == mem[w]
  <1> USE DEF InAttempt, Claimed
  <1>1. /\ m \in Locals /\ pc[w] # "idle" /\ UNCHANGED <<deliveries, jobs>>
        /\ m.job \in EventJobs \cup RetryJobs /\ m.job \in DOMAIN jobs
    BY DEF FindDelivery, CheckInitialSend, LoadDelivery, TypeOK, WorkersOK, LocalsOK, db
  <1>2. Fit(pc[w], m, deliveries, DOMAIN jobs)
    BY <1>1 DEF Exclusion
  <1>3. CASE FindDelivery(w)
    <2>1. PICK s \in m.todo :
            GoTo(w, IF Exists(deliveries[<<EventOf(m.job), s>>]) THEN "latest" ELSE "create",
                 [m EXCEPT !.delivery = <<EventOf(m.job), s>>,
                           !.row = deliveries[<<EventOf(m.job), s>>]])
      BY <1>3 DEF FindDelivery
    <2> DEFINE d == <<EventOf(m.job), s>>
               n == [m EXCEPT !.delivery = d, !.row = deliveries[d]]
               label == IF Exists(deliveries[d]) THEN "latest" ELSE "create"
    <2>2. m.job[1] = "event" /\ m.job = EventJob(d[1]) /\ d[1] = m.job[2]
      BY <1>1, <1>2, <1>3, JobShapes DEF Fit, FindDelivery, EventOf
    <2>3. n.job = m.job /\ n.delivery = d /\ n.row = deliveries[d]
      BY <1>1 DEF Locals
    <2>4. Fit(label, n, deliveries, DOMAIN jobs)
      BY <2>2, <2>3 DEF Fit
    <2>5. EngagesAlone(w, label, n)
      BY <1>1, <2>2, <2>3, UntouchedIsFree DEF EngagesAlone, EngagedAt
    <2> HIDE DEF n, label
    <2>6. GoTo(w, label, n)
      BY <2>1 DEF n, label
    <2>7. QED
      BY <1>1, <2>3, <2>4, <2>5, <2>6, QuietStep
  <1>4. CASE CheckInitialSend(w)
    <2>1. CASE IsEligibleForInitialSend(m.row, Len(attempts[m.delivery]))
      <3> DEFINE n == [m EXCEPT !.row = AbsentDelivery]
      <3>1. n.job = m.job /\ n.todo = m.todo /\ n.delivery = m.delivery
        BY <1>1 DEF Locals
      <3>2. pc[w] = "latest" /\ m.row.status = "pending" /\ GoTo(w, "loadclaim", n)
        BY <1>4, <2>1 DEF CheckInitialSend, IsEligibleForInitialSend
      <3>3. m.job[1] = "event"
        BY <1>1, <1>2, <3>2, JobShapes DEF Fit
      <3>4. Fit("loadclaim", n, deliveries, DOMAIN jobs)
        BY <1>2, <3>1, <3>2, <3>3 DEF Fit, Due
      <3>5. EngagesAlone(w, "loadclaim", n)
        BY <3>1, <3>2, StaysAlone DEF Engaged, EngagedAt
      <3>6. QED
        BY <1>1, <3>1, <3>2, <3>4, <3>5, QuietStep
    <2>2. CASE ~ IsEligibleForInitialSend(m.row, Len(attempts[m.delivery]))
      <3>1. NextInLoop(w)
        BY <1>4, <2>2 DEF CheckInitialSend
      <3>2. LeavesOthersAlone(w) /\ RetriesAreRecorded'
        BY <1>1 DEF LeavesOthersAlone, Exclusion, RetriesAreRecorded
      <3>3. QED
        BY <1>1, <3>1, <3>2, NextInLoopKeepsExclusion
    <2>3. QED
      BY <2>1, <2>2
  <1>5. CASE LoadDelivery(w)
    <2> DEFINE d == m.delivery
               label == IF IsEligibleForRetrySend(deliveries[d], m.job[3])
                          THEN "loadclaim" ELSE "summary"
    <2>1. GoTo(w, label, m) /\ pc[w] = "loaddelivery"
      BY <1>5 DEF LoadDelivery
    <2>2. m.job[1] = "retry" /\ d = m.job[2] /\ m.job = RetryJob(d, m.job[3])
      BY <1>1, <1>2, <2>1, JobShapes DEF Fit
    <2>3. label = "loadclaim" => /\ deliveries[d].status = "retrying"
                                 /\ deliveries[d].retryCount = m.job[3]
      BY DEF IsEligibleForRetrySend
    <2> HIDE DEF label
    <2>4. label \in {"loadclaim", "summary"}
      BY DEF label
    <2>5. Fit(label, m, deliveries, DOMAIN jobs)
      BY <1>2, <2>1, <2>2, <2>3, <2>4 DEF Fit, Due
    <2>6. EngagesAlone(w, label, m)
      <3> SUFFICES ASSUME label = "loadclaim", NEW v \in Workers \ {w}, Engaged(v),
                          mem[v].delivery = d
                   PROVE  FALSE
        BY <2>4 DEF EngagesAlone, EngagedAt
      <3>1. mem[v].job = m.job /\ pc[v] # "idle"
        BY <1>1, <2>2, <2>3, EngagedFacts, EngagedThroughOneJob
      <3>2. QED
        BY <1>1, <3>1, OneHandlerPerJob
    <2>7. QED
      BY <1>1, <2>1, <2>5, <2>6, QuietStep
  <1>6. QED
    BY <1>3, <1>4, <1>5

\* The event job finds or creates the delivery.
LEMMA CreateKeepsExclusion ==
    ASSUME TypeOK, JobsReferToRows, Exclusion, NEW w \in Workers, CreateOrFindDelivery(w)
    PROVE  Exclusion'
  <1> DEFINE m == mem[w]
             d == m.delivery
             row == IF Exists(deliveries[d]) THEN deliveries[d] ELSE CreateDelivery
             n == [m EXCEPT !.row = row]
  <1> USE DEF InAttempt, Claimed
  <1>1. /\ m \in Locals /\ pc[w] = "create" /\ d \in Deliveries
        /\ m.job \in EventJobs \cup RetryJobs
    BY DEF CreateOrFindDelivery, TypeOK, WorkersOK, LocalsOK
  <1>2. deliveries' = [deliveries EXCEPT ![d] = row] /\ GoTo(w, "latest", n) /\ UNCHANGED jobs
    BY DEF CreateOrFindDelivery
  <1>3. Fit("create", m, deliveries, DOMAIN jobs)
    BY <1>1 DEF Exclusion
  <1>4. m.job[1] = "event" /\ d[1] = m.job[2] /\ m.job = EventJob(d[1])
    BY <1>1, <1>3, JobShapes DEF Fit
  <1>5. n.job = m.job /\ n.delivery = d /\ n.row = row
    BY <1>1 DEF Locals
  <1>6. deliveries'[d] = row /\ \A x \in Deliveries \ {d} : deliveries'[x] = deliveries[x]
    BY <1>1, <1>2 DEF TypeOK, DatabaseOK
  <1>7. Fit("latest", n, deliveries', DOMAIN jobs')
    BY <1>4, <1>5, <1>6 DEF Fit
  <1>8. ~ Exists(deliveries[d]) => \A v \in Workers \ {w} : Engaged(v) => mem[v].delivery # d
    BY EngagedFacts
  <1>9. LeavesOthersAlone(w)
    <2> SUFFICES ASSUME NEW v \in Workers \ {w}, Engaged(v)
                 PROVE  deliveries'[mem[v].delivery] = deliveries[mem[v].delivery]
      BY <1>2 DEF LeavesOthersAlone
    <2>1. mem[v].delivery \in Deliveries
      BY EngagedFacts
    <2>2. QED
      BY <1>6, <1>8, <2>1
  <1>10. EngagesAlone(w, "latest", n)
    <2> SUFFICES ASSUME row.status = "pending", NEW v \in Workers \ {w}, Engaged(v)
                 PROVE  mem[v].delivery # d
      BY <1>5 DEF EngagesAlone, EngagedAt
    <2>1. deliveries[d].status \in {"absent", "pending"}
      BY DEF Exists
    <2>2. QED
      BY <1>1, <1>4, <2>1, UntouchedIsFree
  <1>11. RetriesAreRecorded'
    <2> SUFFICES ASSUME NEW j \in DOMAIN jobs, j[1] = "retry"
                 PROVE  j[3] <= deliveries'[j[2]].retryCount
      BY <1>2 DEF RetriesAreRecorded
    <2>1. j[2] \in Deliveries
      BY JobShapes DEF TypeOK, IsQueue
    <2>2. j[3] <= deliveries[j[2]].retryCount /\ Exists(deliveries[j[2]])
      BY DEF Exclusion, RetriesAreRecorded, JobsReferToRows
    <2>3. QED
      BY <1>6, <2>1, <2>2
  <1>12. \A v \in Workers : pc'[v] # "idle" => OwnsItsJob(v)'
    BY <1>1, <1>2, <1>5, OwnersStay
  <1> HIDE DEF n
  <1>13. QED
    BY <1>2, <1>7, <1>9, <1>10, <1>11, <1>12, HandlerStep

\* An engaged handler writes the row of its delivery and takes the retry
\* count not back: the others rely on other rows.
LEMMA OwnWriteIsAlone ==
    ASSUME TypeOK, Exclusion, NEW w \in Workers, Engaged(w), NEW row \in DeliveryRow,
           deliveries' = [deliveries EXCEPT ![mem[w].delivery] = row], UNCHANGED jobs,
           row.retryCount >= deliveries[mem[w].delivery].retryCount
    PROVE  /\ LeavesOthersAlone(w)
           /\ RetriesAreRecorded'
           /\ deliveries'[mem[w].delivery] = row
  <1> DEFINE d == mem[w].delivery
  <1>1. d \in Deliveries
    BY EngagedFacts
  <1>2. deliveries'[d] = row /\ \A x \in Deliveries \ {d} : deliveries'[x] = deliveries[x]
    BY <1>1 DEF TypeOK, DatabaseOK
  <1>3. LeavesOthersAlone(w)
    <2> SUFFICES ASSUME NEW v \in Workers \ {w}, Engaged(v)
                 PROVE  deliveries'[mem[v].delivery] = deliveries[mem[v].delivery]
      BY DEF LeavesOthersAlone
    <2>1. mem[v].delivery \in Deliveries \ {d}
      BY EngagedFacts DEF Exclusion
    <2>2. QED
      BY <1>2, <2>1
  <1>4. RetriesAreRecorded'
    <2> SUFFICES ASSUME NEW j \in DOMAIN jobs, j[1] = "retry"
                 PROVE  j[3] <= deliveries'[j[2]].retryCount
      BY DEF RetriesAreRecorded
    <2>1. j[2] \in Deliveries /\ j[3] \in Nat
      BY JobShapes DEF TypeOK, IsQueue
    <2>2. j[3] <= deliveries[j[2]].retryCount
      BY DEF Exclusion, RetriesAreRecorded
    <2>3. deliveries[j[2]].retryCount \in Nat /\ row.retryCount \in Nat
      BY <2>1 DEF TypeOK, DatabaseOK, DeliveryRow
    <2>4. QED
      BY <1>2, <2>1, <2>2, <2>3
  <1>5. QED
    BY <1>2, <1>3, <1>4

LEMMA ClaimKeepsExclusion ==
    ASSUME TypeOK, Exclusion, NEW w \in Workers, SaveClaim(w)
    PROVE  Exclusion'
  <1> DEFINE m == mem[w]
             d == m.delivery
             row == MarkProcessing(m.row)
             n == [m EXCEPT !.claimed = m.row.retryCount, !.row = AbsentDelivery]
  <1> USE DEF InAttempt, Claimed
  <1>1. m \in Locals /\ pc[w] = "saveclaim" /\ Engaged(w)
    BY DEF SaveClaim, TypeOK, WorkersOK, Engaged, EngagedAt
  <1>2. Fit("saveclaim", m, deliveries, DOMAIN jobs)
    BY <1>1 DEF Exclusion
  <1>3. /\ row \in DeliveryRow /\ row.status = "processing"
        /\ row.retryCount = deliveries[d].retryCount
        /\ row.retryCount >= deliveries[d].retryCount
    BY <1>1, <1>2 DEF MarkProcessing, Locals, DeliveryRow, DeliveryStatus, Fit
  <1>4. /\ deliveries' = [deliveries EXCEPT ![d] = row]
        /\ GoTo(w, "send", n)
        /\ UNCHANGED jobs
    BY DEF SaveClaim
  <1> HIDE DEF row
  <1>5. /\ n.job = m.job /\ n.todo = m.todo /\ n.delivery = d
        /\ n.claimed = deliveries[d].retryCount
    BY <1>1, <1>2 DEF Locals, Fit
  <1>6. LeavesOthersAlone(w) /\ RetriesAreRecorded' /\ deliveries'[d] = row
    BY <1>1, <1>3, <1>4, OwnWriteIsAlone
  <1>7. Fit("send", n, deliveries', DOMAIN jobs')
    BY <1>2, <1>3, <1>5, <1>6 DEF Fit
  <1>8. EngagesAlone(w, "send", n)
    BY <1>1, <1>5, StaysAlone
  <1>9. \A v \in Workers : pc'[v] # "idle" => OwnsItsJob(v)'
    BY <1>1, <1>4, <1>5, OwnersStay
  <1>10. QED
    BY <1>4, <1>6, <1>7, <1>8, <1>9, HandlerStep

LEMMA OutcomeKeepsExclusion ==
    ASSUME TypeOK, Exclusion, NEW w \in Workers, SaveOutcome(w)
    PROVE  Exclusion'
  <1> DEFINE m == mem[w]
             d == m.delivery
             row == RecordOutcome(m.row, m.claimed, m.outcome)
             n == [m EXCEPT !.row = row, !.outcome = "none", !.claimed = 0]
  <1> USE DEF InAttempt, Claimed
  <1>1. /\ m \in Locals /\ pc[w] = "saveoutcome" /\ Engaged(w) /\ m.outcome \in Outcome
        /\ d \in Deliveries
    BY DEF SaveOutcome, TypeOK, WorkersOK, LocalsOK, Locals, Engaged, EngagedAt
  <1>2. Fit("saveoutcome", m, deliveries, DOMAIN jobs)
    BY <1>1 DEF Exclusion
  <1>3. m.row = deliveries[d] /\ m.claimed = m.row.retryCount /\ m.row \in DeliveryRow
    BY <1>1, <1>2 DEF Fit, Locals
  <1>4. row \in DeliveryRow
    BY <1>1, <1>3, DeliveryRowsTyped DEF DeliveryRow
  <1>5. /\ row.retryCount >= m.row.retryCount
        /\ row.status = "retrying" => row.retryCount = m.row.retryCount + 1
    BY <1>3 DEF RecordOutcome, MarkRetrying, MarkAttemptOutcome, DeliveryRow
  <1> HIDE DEF row
  <1>6. /\ deliveries' = [deliveries EXCEPT ![d] = row]
        /\ UNCHANGED jobs
        /\ IF row.status = "retrying" THEN GoTo(w, "enqueue", n) ELSE NextInLoop(w)
    BY DEF SaveOutcome, row
  <1>7. LeavesOthersAlone(w) /\ RetriesAreRecorded' /\ deliveries'[d] = row
    BY <1>1, <1>3, <1>4, <1>5, <1>6, OwnWriteIsAlone
  <1>8. CASE row.status = "retrying"
    <2>1. n.job = m.job /\ n.todo = m.todo /\ n.delivery = d /\ n.row = row
      BY <1>1 DEF Locals
    <2>2. RetryJob(d, row.retryCount) \notin DOMAIN jobs
      <3> SUFFICES ASSUME RetryJob(d, row.retryCount) \in DOMAIN jobs PROVE FALSE
        OBVIOUS
      <3>1. row.retryCount <= deliveries[d].retryCount
        BY DEF Exclusion, RetriesAreRecorded, RetryJob
      <3>2. QED
        BY <1>3, <1>5, <1>8, <3>1 DEF DeliveryRow
    <2>3. Fit("enqueue", n, deliveries', DOMAIN jobs')
      BY <1>2, <1>6, <1>7, <1>8, <2>1, <2>2 DEF Fit
    <2>4. EngagesAlone(w, "enqueue", n)
      BY <1>1, <2>1, StaysAlone
    <2>5. GoTo(w, "enqueue", n)
      BY <1>6, <1>8
    <2>6. \A v \in Workers : pc'[v] # "idle" => OwnsItsJob(v)'
      BY <1>1, <1>6, <2>1, <2>5, OwnersStay
    <2> HIDE DEF n
    <2>7. QED
      BY <1>7, <2>3, <2>4, <2>5, <2>6, HandlerStep
  <1>9. CASE row.status # "retrying"
    <2>1. NextInLoop(w) /\ pc[w] # "idle"
      BY <1>1, <1>6, <1>9
    <2>2. QED
      BY <1>6, <1>7, <2>1, NextInLoopKeepsExclusion
  <1>10. QED
    BY <1>8, <1>9

LEMMA EnqueueKeepsExclusion ==
    ASSUME TypeOK, Exclusion, NEW w \in Workers, EnqueueRetry(w)
    PROVE  Exclusion'
  <1> DEFINE m == mem[w]
             d == m.delivery
             j == RetryJob(d, m.row.retryCount)
  <1>1. /\ m \in Locals /\ pc[w] = "enqueue" /\ Engaged(w) /\ d \in Deliveries
    BY DEF EnqueueRetry, RetryTaken, RetryRefused, TypeOK, WorkersOK, LocalsOK, InAttempt,
       Engaged, EngagedAt
  <1>2. Fit("enqueue", m, deliveries, DOMAIN jobs)
    BY <1>1 DEF Exclusion
  <1>3. j[1] = "retry" /\ j[2] = d /\ j[3] = deliveries[d].retryCount
    BY <1>2 DEF Fit, RetryJob
  <1> HIDE DEF j
  <1>4. /\ (jobs' = Add(jobs, j) /\ NextInLoop(w)) \/ Reject(w)
        /\ UNCHANGED deliveries
    BY DEF EnqueueRetry, RetryTaken, RetryRefused, j, db
  <1>5. ASSUME jobs' = Add(jobs, j), NextInLoop(w)
        PROVE  Exclusion'
    <2>1. DOMAIN jobs' = DOMAIN jobs \cup {j} /\ \A k \in DOMAIN jobs : jobs'[k] = jobs[k]
      BY <1>5 DEF Add
    <2>2. LeavesOthersAlone(w)
      BY <1>1, <1>3, <1>4, <2>1 DEF LeavesOthersAlone, Exclusion
    <2>3. RetriesAreRecorded'
      <3> SUFFICES ASSUME NEW k \in DOMAIN jobs', k[1] = "retry"
                   PROVE  k[3] <= deliveries[k[2]].retryCount
        BY <1>4 DEF RetriesAreRecorded
      <3>1. CASE k = j
        <4>1. deliveries[d].retryCount \in Nat
          BY <1>1 DEF TypeOK, DatabaseOK, DeliveryRow
        <4>2. QED
          BY <1>3, <3>1, <4>1
      <3>2. CASE k \in DOMAIN jobs
        BY <3>2 DEF Exclusion, RetriesAreRecorded
      <3>3. QED
        BY <2>1, <3>1, <3>2
    <2>4. \A v \in Workers : pc[v] # "idle" => jobs'[mem[v].job] = jobs[mem[v].job]
      BY <2>1 DEF TypeOK
    <2>5. QED
      BY <1>1, <1>5, <2>2, <2>3, <2>4, NextInLoopKeepsExclusion
  <1>6. ASSUME Reject(w)
        PROVE  Exclusion'
    BY <1>1, <1>4, <1>6, EndKeepsExclusion DEF Reject
  <1>7. QED
    BY <1>4, <1>5, <1>6

\* The attempt row is inserted, or the handler ends on the unique key.
LEMMA InsertKeepsExclusion ==
    ASSUME TypeOK, Exclusion, NEW w \in Workers, InsertAttempt(w)
    PROVE  Exclusion'
  <1> DEFINE m == mem[w]
             n == [m EXCEPT !.sequence = 0]
  <1>1. m \in Locals /\ pc[w] = "attempt" /\ Engaged(w) /\ UNCHANGED deliveries
    BY DEF InsertAttempt, TypeOK, WorkersOK, Engaged, EngagedAt, InAttempt, Claimed
  <1>2. CASE GoTo(w, "loadoutcome", n) /\ UNCHANGED jobs
    <2>1. /\ n.job = m.job /\ n.todo = m.todo /\ n.delivery = m.delivery
          /\ n.claimed = m.claimed
      BY <1>1 DEF Locals
    <2>2. Fit("loadoutcome", n, deliveries, DOMAIN jobs)
      BY <1>1, <2>1 DEF Exclusion, Fit, InAttempt, Claimed
    <2>3. QED
      BY <1>1, <1>2, <2>1, <2>2, QuietStep, StaysAlone
  <1>3. CASE Reject(w)
    BY <1>1, <1>3, EndKeepsExclusion DEF Reject
  <1>4. QED
    BY <1>2, <1>3 DEF InsertAttempt

\* Steps of the queue and of createEvent touch no job a handler runs.
LEMMA QueueKeepsExclusion ==
    ASSUME TypeOK, Exclusion, UNCHANGED <<deliveries, pc, mem>>,
           \/ \E e \in Events : jobs' = Add(jobs, EventJob(e))
           \/ \E j \in DOMAIN jobs : /\ jobs[j].state = "active"
                                     /\ ~ Running(jobs[j].owner, j)
                                     /\ jobs' = MoveStalled(jobs, j)
           \/ UNCHANGED jobs
    PROVE  Exclusion'
  <1> DEFINE Harmless ==
        /\ DOMAIN jobs \subseteq DOMAIN jobs'
        /\ \A k \in DOMAIN jobs' \ DOMAIN jobs : k[1] = "event"
        /\ \A v \in Workers : pc[v] # "idle" => jobs'[mem[v].job] = jobs[mem[v].job]
  <1>1. \A v \in Workers : pc[v] # "idle" => /\ mem[v].job \in DOMAIN jobs
                                            /\ jobs[mem[v].job].owner = v
    BY DEF TypeOK, Exclusion
  <1>2. Harmless
    <2>1. ASSUME NEW e \in Events, jobs' = Add(jobs, EventJob(e))
          PROVE  Harmless
      BY <1>1, <2>1 DEF Add, EventJob
    <2>2. ASSUME NEW j \in DOMAIN jobs, ~ Running(jobs[j].owner, j),
                 jobs' = MoveStalled(jobs, j)
          PROVE  Harmless
      <3>1. DOMAIN jobs' = DOMAIN jobs
        BY <2>2, MoveStalledTyped DEF TypeOK
      <3>2. \A k \in DOMAIN jobs : k # j => jobs'[k] = jobs[k]
        BY <2>2 DEF MoveStalled, TypeOK, IsQueue
      <3>3. \A v \in Workers : pc[v] # "idle" => mem[v].job # j
        BY <1>1, <2>2 DEF Running
      <3>4. QED
        BY <1>1, <3>1, <3>2, <3>3
    <2>3. CASE UNCHANGED jobs
      BY <2>3
    <2>4. QED
      BY <2>1, <2>2, <2>3
  <1>3. \A v \in Workers : pc[v] # "idle" => Fit(pc[v], mem[v], deliveries, DOMAIN jobs')
    BY <1>2 DEF Exclusion, Fit, RetryJob
  <1>4. RetriesAreRecorded'
    BY <1>2 DEF Exclusion, RetriesAreRecorded
  <1>5. QED
    BY <1>2, <1>3, <1>4 DEF Exclusion, Engaged

\* Exclusion is inductive unless a running handler can lose its lock.
LEMMA NextKeepsExclusion ==
    ASSUME "lockloss" \notin Faults, TypeOK, JobsReferToRows, Exclusion, [Next]_vars
    PROVE  Exclusion'
  <1>1. ASSUME NEW e \in Events, InsertEvent(e) \/ RequestStep(e) \/ AbortRequest(e)
        PROVE  Exclusion'
    BY <1>1, QueueKeepsExclusion DEF RequestStep, InsertEvent, EnqueueEvent,
       LoadQueuedEvent, SaveQueuedEvent, AbortRequest, db
  <1>2. ASSUME NEW w \in Workers, WorkerStep(w)
        PROVE  Exclusion'
    <2>1. CASE FinishJob(w)
      BY <2>1, EndKeepsExclusion DEF FinishJob, db
    <2>2. QED
      BY <1>2, <2>1, TakeKeepsExclusion, ReadKeepsExclusion, EngageKeepsExclusion,
         CreateKeepsExclusion, ClaimKeepsExclusion, InsertKeepsExclusion,
         OutcomeKeepsExclusion, EnqueueKeepsExclusion DEF WorkerStep, Attempt
  <1>3. ASSUME NEW w \in Workers, Throw(w) \/ Crash(w)
        PROVE  Exclusion'
    BY <1>3, EndKeepsExclusion DEF Throw, Crash, Reject, db
  <1>4. CASE DetectStalled
    BY <1>4, QueueKeepsExclusion DEF DetectStalled, db
  <1>5. CASE Rest \/ UNCHANGED vars \/ \E s \in Subs : UpdateSubscription(s)
    BY <1>5, QueueKeepsExclusion DEF Rest, UpdateSubscription, vars, db
  <1>6. ~ LoseLock
    BY DEF LoseLock
  <1>7. QED
    BY <1>1, <1>2, <1>3, <1>4, <1>5, <1>6 DEF Next

\* Unless a running handler loses its lock, handlers own their jobs, what
\* they count on is so, and no two share a delivery.
THEOREM ExclusionIsInvariant ==
    ASSUME "lockloss" \notin Faults PROVE Spec => []Exclusion
  <1>1. Init => Exclusion
    BY DEF Init, Exclusion, Engaged, EngagedAt, InAttempt, Claimed, RetriesAreRecorded
  <1>2. TypeOK /\ JobsReferToRows /\ Exclusion /\ [Next]_vars => Exclusion'
    BY NextKeepsExclusion
  <1>3. QED
    BY <1>1, <1>2, TypeCorrect, JobsAreBacked, PTL DEF Spec

\* Any number of workers, crashing and failing as they may, never run two
\* attempts of one delivery at a time, as long as running handlers keep
\* their locks.
THEOREM AttemptsExclude ==
    ASSUME "lockloss" \notin Faults PROVE Spec => []OneAttemptAtATime
  <1>1. Exclusion => OneAttemptAtATime
    BY DEF Exclusion, OneAttemptAtATime, Engaged, EngagedAt
  <1>2. QED
    BY <1>1, ExclusionIsInvariant, PTL

\* The copy a claim returned stays right until the outcome is saved.
THEOREM ClaimsHold ==
    ASSUME "lockloss" \notin Faults PROVE Spec => []ClaimHolds
  <1>1. Exclusion => ClaimHolds
    BY DEF Exclusion, ClaimHolds, Fit, Claimed
  <1>2. QED
    BY <1>1, ExclusionIsInvariant, PTL

\* No retry job is ahead of its delivery.
THEOREM RetriesRecorded ==
    ASSUME "lockloss" \notin Faults PROVE Spec => []RetriesAreRecorded
  <1>1. Exclusion => RetriesAreRecorded
    BY DEF Exclusion
  <1>2. QED
    BY <1>1, ExclusionIsInvariant, PTL
=============================================================================
