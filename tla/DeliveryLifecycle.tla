-------------------------- MODULE DeliveryLifecycle --------------------------
(***************************************************************************)
(* What the platform promises about one delivery, with no workers, queues  *)
(* or copies of rows in sight: it is created, claimed, attempted once per  *)
(* claim, and resolved by the outcome of that attempt.  At most            *)
(* MaxRetryLimit retries follow the first attempt, and a delivery that     *)
(* succeeded or failed never changes again.  The whole pipeline is checked *)
(* to implement this specification for all deliveries at once.             *)
(***************************************************************************)
EXTENDS Naturals, Sequences

CONSTANTS Deliveries, MaxRetryLimit

VARIABLES status,   \* status of each delivery
          retries,  \* its retryCount
          log       \* outcomes of its recorded attempts

vars == <<status, retries, log>>

Init ==
    /\ status = [d \in Deliveries |-> "absent"]
    /\ retries = [d \in Deliveries |-> 0]
    /\ log = [d \in Deliveries |-> <<>>]

\* A subscription matched the event.
Create(d) ==
    /\ status[d] = "absent"
    /\ status' = [status EXCEPT ![d] = "pending"]
    /\ UNCHANGED <<retries, log>>

\* A worker takes the delivery: only a new one or one due for a retry.
Claim(d) ==
    /\ status[d] \in {"pending", "retrying"}
    /\ status' = [status EXCEPT ![d] = "processing"]
    /\ UNCHANGED <<retries, log>>

\* The one attempt this claim is good for.
Record(d, outcome) ==
    /\ status[d] = "processing"
    /\ Len(log[d]) = retries[d]
    /\ log' = [log EXCEPT ![d] = Append(@, outcome)]
    /\ UNCHANGED <<status, retries>>

Attempted(d, outcome) ==
    /\ status[d] = "processing"
    /\ Len(log[d]) = retries[d] + 1
    /\ log[d][Len(log[d])] = outcome

Retry(d) ==
    /\ Attempted(d, "retryable")
    /\ retries[d] < MaxRetryLimit
    /\ status' = [status EXCEPT ![d] = "retrying"]
    /\ retries' = [retries EXCEPT ![d] = @ + 1]
    /\ UNCHANGED log

Succeed(d) ==
    /\ Attempted(d, "success")
    /\ status' = [status EXCEPT ![d] = "succeeded"]
    /\ UNCHANGED <<retries, log>>

GiveUp(d) ==
    /\ \/ Attempted(d, "terminal")
       \/ Attempted(d, "retryable") /\ retries[d] = MaxRetryLimit
    /\ status' = [status EXCEPT ![d] = "failed"]
    /\ UNCHANGED <<retries, log>>

Next ==
    \E d \in Deliveries :
      \/ Create(d) \/ Claim(d) \/ Retry(d) \/ Succeed(d) \/ GiveUp(d)
      \/ \E outcome \in {"success", "retryable", "terminal"} : Record(d, outcome)

Spec == Init /\ [][Next]_vars
=============================================================================
