------------------------------ MODULE JobQueue ------------------------------
(***************************************************************************)
(* The part of BullMQ the platform relies on, as operators on a function   *)
(* from the jobs ever added to their records.  It is not code of this      *)
(* repository: it is modelled from how src/src/config/bullmq.ts, the       *)
(* producers and the workers use it.                                       *)
(*                                                                         *)
(*  - No "attempts" option is set anywhere, so a handler that throws moves *)
(*    its job to failed for good.                                          *)
(*  - A job is active under the lock of one worker.  When the lock is no   *)
(*    longer renewed the job is stalled: it goes back to waiting at most   *)
(*    MaxStalledCount times, then to failed.                               *)
(*  - Only the holder of the lock can finish a job.                        *)
(*  - Adding a job under an id that is present changes nothing.            *)
(*  - The ids of retry jobs, delivery-retry:<uuid>:retry:<n>, may be       *)
(*    refused: BullMQ 5 throws "Custom Id cannot contain :" for an id with *)
(*    colons that has not exactly three parts, and these have four.        *)
(*                                                                         *)
(* A delayed job is a waiting one (time is not modelled), waiting jobs are *)
(* taken in any order, and finished jobs are never evicted (the code keeps *)
(* the last 1000).                                                         *)
(***************************************************************************)
EXTENDS Naturals

CONSTANTS MaxStalledCount,  \* stalls after which BullMQ fails the job
          RetryIdAnswers,   \* what queue.add may do with the id of a retry job
          NoWorker          \* holder of a lock nobody holds

ASSUME StalledAssumption == MaxStalledCount \in Nat

\* The code relies on {"taken"}.  With the version package-lock.json resolves
\* (5.71.0) it is {"refused"}.  With both, each add may go either way.
ASSUME RetryIdsAssumption ==
    RetryIdAnswers \subseteq {"taken", "refused"} /\ RetryIdAnswers # {}

JobState == {"waiting", "active", "completed", "failed"}

JobRecord(workers) ==
    [state : JobState, owner : workers \cup {NoWorker}, stalls : 0..MaxStalledCount]

NewJob == [state |-> "waiting", owner |-> NoWorker, stalls |-> 0]

\* Mutant: no deduplication by job id.
AddAgain(jobs, j) ==
    [k \in DOMAIN jobs \cup {j} |-> IF k = j THEN NewJob ELSE jobs[k]]

Add(jobs, j) ==
    [k \in DOMAIN jobs \cup {j} |-> IF k \in DOMAIN jobs THEN jobs[k] ELSE NewJob]

MoveToActive(jobs, j, w) ==
    [jobs EXCEPT ![j] = [@ EXCEPT !.state = "active", !.owner = w]]

\* moveToCompleted and moveToFailed: refused without the lock.
MoveToFinished(jobs, j, w, state) ==
    IF jobs[j].state = "active" /\ jobs[j].owner = w
      THEN [jobs EXCEPT ![j] = [@ EXCEPT !.state = state, !.owner = NoWorker]]
      ELSE jobs

\* Mutants: one stall too many; stalls are not counted.
MoveStalledOnceMore(jobs, j) ==
    [jobs EXCEPT ![j] =
        IF @.stalls <= MaxStalledCount
          THEN [state |-> "waiting", owner |-> NoWorker, stalls |-> @.stalls + 1]
          ELSE [@ EXCEPT !.state = "failed", !.owner = NoWorker]]
MoveStalledForever(jobs, j) ==
    [jobs EXCEPT ![j] = [@ EXCEPT !.state = "waiting", !.owner = NoWorker]]

MoveStalled(jobs, j) ==
    [jobs EXCEPT ![j] =
        IF @.stalls < MaxStalledCount
          THEN [state |-> "waiting", owner |-> NoWorker, stalls |-> @.stalls + 1]
          ELSE [state |-> "failed", owner |-> NoWorker, stalls |-> @.stalls]]
=============================================================================
