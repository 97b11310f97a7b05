----------------------------- MODULE LedgerProofs -----------------------------
(***************************************************************************)
(* As long as no running handler loses its lock, the row of a delivery,    *)
(* the provider calls made for it and the attempts recorded for it agree:  *)
(* Ledger is inductive relative to TypeOK, JobsReferToRows and Exclusion.  *)
(* From it follow the retry budget, that a notification is only sent again *)
(* after a retryable failure, that the attempt rows are the calls, and     *)
(* that the pipeline implements DeliveryLifecycle.                         *)
(***************************************************************************)
EXTENDS ExclusionProofs

\* The books of one delivery are as they were.
SameBooks(d) ==
    /\ deliveries'[d] = deliveries[d]
    /\ sent'[d] = sent[d]
    /\ attempts'[d] = attempts[d]

\* A handler that was in its attempt before the step, one await later.
SameAttempt(w) ==
    /\ pc[w] \in Claimed
    /\ mem'[w].delivery = mem[w].delivery
    /\ mem'[w].outcome = mem[w].outcome
    /\ \/ pc'[w] = pc[w]
       \/ pc[w] = "sequence" /\ pc'[w] = "attempt"
       \/ pc[w] = "loadoutcome" /\ pc'[w] = "saveoutcome"

\* A step that changes no books.
LEMMA NoEntry ==
    ASSUME TypeOK, Ledger, \A d \in Deliveries : SameBooks(d),
           \A w \in Workers : pc'[w] \in Claimed => SameAttempt(w)
    PROVE  Ledger'
  <1>1. ASSUME NEW d \in Deliveries
        PROVE  Booked(deliveries'[d], sent'[d], attempts'[d])
    BY DEF Ledger, SameBooks
  <1>2. ASSUME NEW w \in Workers, pc'[w] \in Claimed
        PROVE  LET d == mem'[w].delivery
               IN  BookedAt(pc'[w], mem'[w], deliveries'[d], sent'[d], attempts'[d])
    <2> DEFINE d == mem[w].delivery
    <2>1. SameAttempt(w) /\ mem'[w].delivery = d
      BY <1>2 DEF SameAttempt
    <2>2. d \in Deliveries
      BY <2>1 DEF SameAttempt, TypeOK, WorkersOK, LocalsOK, InAttempt
    <2>3. BookedAt(pc[w], mem[w], deliveries[d], sent[d], attempts[d])
      BY <2>1 DEF Ledger, SameAttempt
    <2>4. BookedAt(pc'[w], mem'[w], deliveries[d], sent[d], attempts[d])
      BY <2>1, <2>3 DEF BookedAt, SameAttempt, Claimed
    <2>5. QED
      BY <2>1, <2>2, <2>4 DEF SameBooks
  <1>3. QED
    BY <1>1, <1>2 DEF Ledger

\* A step of a handler that changes the books of the one delivery it is
\* alone with.
LEMMA OneEntry ==
    ASSUME TypeOK, Ledger, NEW w \in Workers, NEW d \in Deliveries,
           NEW label, NEW m, GoTo(w, label, m),
           label \in Claimed => m.delivery = d,
           \A x \in Deliveries \ {d} : SameBooks(x),
           \A v \in Workers \ {w} : pc[v] \in Claimed => mem[v].delivery # d,
           Booked(deliveries'[d], sent'[d], attempts'[d]),
           label \in Claimed => BookedAt(label, m, deliveries'[d], sent'[d], attempts'[d])
    PROVE  Ledger'
  <1>1. /\ pc'[w] = label /\ mem'[w] = m
        /\ \A v \in Workers \ {w} : pc'[v] = pc[v] /\ mem'[v] = mem[v]
    BY DEF GoTo, TypeOK, WorkersOK
  <1>2. ASSUME NEW x \in Deliveries
        PROVE  Booked(deliveries'[x], sent'[x], attempts'[x])
    <2>1. CASE x = d
      BY <2>1
    <2>2. CASE x # d
      BY <2>2 DEF Ledger, SameBooks
    <2>3. QED
      BY <2>1, <2>2
  <1>3. ASSUME NEW v \in Workers, pc'[v] \in Claimed
        PROVE  LET x == mem'[v].delivery
               IN  BookedAt(pc'[v], mem'[v], deliveries'[x], sent'[x], attempts'[x])
    <2>1. CASE v = w
      BY <1>1, <1>3, <2>1
    <2>2. CASE v # w
      <3>1. pc[v] \in Claimed /\ pc'[v] = pc[v] /\ mem'[v] = mem[v]
        BY <1>1, <1>3, <2>2
      <3>2. mem[v].delivery \in Deliveries \ {d}
        BY <2>2, <3>1 DEF TypeOK, WorkersOK, LocalsOK, InAttempt
      <3>3. QED
        BY <3>1, <3>2 DEF Ledger, SameBooks
    <2>3. QED
      BY <2>1, <2>2
  <1>4. QED
    BY <1>2, <1>3 DEF Ledger

\* A handler in its attempt is alone with its delivery.
LEMMA AloneInAttempt ==
    ASSUME Exclusion, NEW w \in Workers, pc[w] \in InAttempt
    PROVE  \A v \in Workers \ {w} : pc[v] \in Claimed => mem[v].delivery # mem[w].delivery
  BY DEF Exclusion, Engaged, EngagedAt, InAttempt

-----------------------------------------------------------------------------
(***************************************************************************)
(* The steps.                                                              *)
(***************************************************************************)
\* Steps that write neither deliveries nor attempts and make no call.
LEMMA ReadKeepsLedger ==
    ASSUME TypeOK, Ledger, NEW w \in Workers,
           \/ TakeEventJob(w) \/ FindSubscriptions(w) \/ FindDelivery(w) \/ CheckInitialSend(w)
           \/ TakeRetryJob(w) \/ LoadDelivery(w) \/ LoadClaim(w) \/ NextAttemptSequence(w)
           \/ LoadForOutcome(w) \/ EnqueueRetry(w) \/ ReadSummary(w) \/ LoadEvent(w)
           \/ SaveEvent(w) \/ FinishJob(w) \/ Throw(w) \/ Crash(w)
    PROVE  Ledger'
  <1> DEFINE m == mem[w]
  <1>1. UNCHANGED <<deliveries, attempts, sent>>
    BY DEF TakeEventJob, FindSubscriptions, FindDelivery, CheckInitialSend, TakeRetryJob,
           LoadDelivery, LoadClaim, NextAttemptSequence, LoadForOutcome, EnqueueRetry,
           RetryTaken, RetryRefused,
           ReadSummary, LoadEvent, SaveEvent, FinishJob, Throw, Crash, db
  <1>2. \A d \in Deliveries : SameBooks(d)
    BY <1>1 DEF SameBooks
  <1>3. ASSUME NEW label, NEW n, GoTo(w, label, n),
               label \notin Claimed
               \/ /\ pc[w] = "sequence" /\ label = "attempt"
                  /\ n.delivery = m.delivery /\ n.outcome = m.outcome
               \/ /\ pc[w] = "loadoutcome" /\ label = "saveoutcome"
                  /\ n.delivery = m.delivery /\ n.outcome = m.outcome
        PROVE  Ledger'
    <2>1. /\ pc'[w] = label /\ mem'[w] = n
          /\ \A v \in Workers \ {w} : pc'[v] = pc[v] /\ mem'[v] = mem[v]
      BY <1>3 DEF GoTo, TypeOK, WorkersOK
    <2>2. \A v \in Workers : pc'[v] \in Claimed => SameAttempt(v)
      BY <1>3, <2>1 DEF SameAttempt, Claimed
    <2>3. QED
      BY <1>2, <2>2, NoEntry
  <1>4. m \in Locals
    BY DEF TypeOK, WorkersOK
  <1>5. CASE NextAttemptSequence(w)
    <2> DEFINE n == [m EXCEPT !.sequence = Len(attempts[m.delivery]) + 1]
    <2>1. n.delivery = m.delivery /\ n.outcome = m.outcome
      BY <1>4 DEF Locals
    <2>2. pc[w] = "sequence" /\ GoTo(w, "attempt", n)
      BY <1>5 DEF NextAttemptSequence
    <2> HIDE DEF n
    <2>3. QED
      BY <1>3, <2>1, <2>2
  <1>6. CASE LoadForOutcome(w)
    <2> DEFINE n == [m EXCEPT !.row = deliveries[m.delivery]]
    <2>1. n.delivery = m.delivery /\ n.outcome = m.outcome
      BY <1>4 DEF Locals
    <2>2. pc[w] = "loadoutcome" /\ GoTo(w, "saveoutcome", n)
      BY <1>6 DEF LoadForOutcome
    <2> HIDE DEF n
    <2>3. QED
      BY <1>3, <2>1, <2>2
  <1>7. CASE \/ TakeEventJob(w) \/ FindSubscriptions(w) \/ FindDelivery(w) \/ CheckInitialSend(w)
             \/ TakeRetryJob(w) \/ LoadDelivery(w) \/ LoadClaim(w)
             \/ EnqueueRetry(w) \/ ReadSummary(w) \/ LoadEvent(w)
             \/ SaveEvent(w) \/ FinishJob(w) \/ Throw(w) \/ Crash(w)
    <2>1. \E label, n : label \notin Claimed /\ GoTo(w, label, n)
      BY <1>7 DEF TakeEventJob, FindSubscriptions, FindDelivery, CheckInitialSend,
           TakeRetryJob, LoadDelivery, LoadClaim, EnqueueRetry, RetryTaken, RetryRefused,
           ReadSummary, LoadEvent,
           SaveEvent, FinishJob, Throw, Crash, Reject, NextInLoop, Claimed
    <2>2. QED
      BY <1>3, <2>1
  <1>8. QED
    BY <1>5, <1>6, <1>7

\* A delivery that is there stays as it is, a new one has an empty history.
LEMMA CreateKeepsLedger ==
    ASSUME TypeOK, Exclusion, Ledger, NEW w \in Workers, CreateOrFindDelivery(w)
    PROVE  Ledger'
  <1> DEFINE m == mem[w]
             d == m.delivery
             row == IF Exists(deliveries[d]) THEN deliveries[d] ELSE CreateDelivery
             n == [m EXCEPT !.row = row]
  <1>1. d \in Deliveries /\ pc[w] = "create"
    BY DEF CreateOrFindDelivery, TypeOK, WorkersOK, LocalsOK
  <1>2. /\ deliveries' = [deliveries EXCEPT ![d] = row]
        /\ GoTo(w, "latest", n)
        /\ UNCHANGED <<sent, attempts>>
    BY DEF CreateOrFindDelivery
  <1>3. deliveries'[d] = row /\ \A x \in Deliveries \ {d} : SameBooks(x)
    BY <1>1, <1>2 DEF TypeOK, DatabaseOK, SameBooks
  <1>4. Booked(deliveries[d], sent[d], attempts[d])
    BY <1>1 DEF Ledger
  <1> HIDE DEF n
  <1>5. CASE Exists(deliveries[d])
    <2>1. \A x \in Deliveries : SameBooks(x)
      BY <1>2, <1>3, <1>5 DEF SameBooks
    <2>2. \A v \in Workers : pc'[v] \in Claimed => SameAttempt(v)
      BY <1>2 DEF GoTo, TypeOK, WorkersOK, SameAttempt, Claimed
    <2>3. QED
      BY <2>1, <2>2, NoEntry
  <1>6. CASE ~ Exists(deliveries[d])
    <2>1. deliveries[d].status = "absent" /\ row = CreateDelivery
      BY <1>6 DEF Exists
    <2>2. row.status = "pending" /\ row.retryCount = 0 /\ row.attemptCount = 0
      BY <2>1 DEF CreateDelivery, AbsentDelivery
    <2> HIDE DEF row
    <2>3. Booked(row, sent[d], attempts[d])
      BY <1>4, <2>1, <2>2, RetryLimitAssumption DEF Booked, Terminal
    <2>4. \A v \in Workers \ {w} : pc[v] \in Claimed => mem[v].delivery # d
      BY <1>6, EngagedFacts DEF Engaged, EngagedAt, InAttempt
    <2>5. "latest" \notin Claimed
      BY DEF Claimed
    <2>6. Booked(deliveries'[d], sent'[d], attempts'[d])
      BY <1>2, <1>3, <2>3
    <2>7. QED
      BY <1>1, <1>2, <1>3, <2>4, <2>5, <2>6, OneEntry
  <1>7. QED
    BY <1>5, <1>6

\* A claim opens an attempt for which no call has been made.
LEMMA ClaimKeepsLedger ==
    ASSUME TypeOK, Exclusion, Ledger, NEW w \in Workers, SaveClaim(w)
    PROVE  Ledger'
  <1> DEFINE m == mem[w]
             d == m.delivery
             row == MarkProcessing(m.row)
             n == [m EXCEPT !.claimed = m.row.retryCount, !.row = AbsentDelivery]
  <1>1. /\ m \in Locals /\ pc[w] = "saveclaim" /\ d \in Deliveries /\ pc[w] \in InAttempt
    BY DEF SaveClaim, TypeOK, WorkersOK, LocalsOK, InAttempt
  <1>2. m.row = deliveries[d] /\ deliveries[d].status \in {"pending", "retrying"}
    BY <1>1 DEF Exclusion, Fit, Due
  <1>3. /\ deliveries' = [deliveries EXCEPT ![d] = row]
        /\ GoTo(w, "send", n)
        /\ UNCHANGED <<sent, attempts>>
    BY DEF SaveClaim
  <1>4. deliveries'[d] = row /\ \A x \in Deliveries \ {d} : SameBooks(x)
    BY <1>1, <1>3 DEF TypeOK, DatabaseOK, SameBooks
  <1>5. /\ row.status = "processing" /\ row.retryCount = deliveries[d].retryCount
        /\ row.attemptCount = deliveries[d].attemptCount
    BY <1>1, <1>2 DEF MarkProcessing, Locals, DeliveryRow
  <1>6. n.delivery = d
    BY <1>1 DEF Locals
  <1>7. Booked(deliveries[d], sent[d], attempts[d])
    BY <1>1 DEF Ledger
  <1> HIDE DEF n, row
  <1>8. Booked(row, sent[d], attempts[d]) /\ BookedAt("send", n, row, sent[d], attempts[d])
    BY <1>2, <1>5, <1>7 DEF Booked, BookedAt, Terminal, Claimed
  <1>9. Booked(deliveries'[d], sent'[d], attempts'[d]) /\ BookedAt("send", n, deliveries'[d], sent'[d], attempts'[d])
    BY <1>3, <1>4, <1>8
  <1>10. QED
    BY <1>1, <1>3, <1>4, <1>6, <1>9, AloneInAttempt, OneEntry

\* The books of an attempt that is under way.
LEMMA AttemptFacts ==
    ASSUME TypeOK, Exclusion, Ledger, NEW w \in Workers, pc[w] \in Claimed
    PROVE  LET d == mem[w].delivery
           IN  /\ d \in Deliveries
               /\ deliveries[d].status = "processing"
               /\ deliveries[d].retryCount = mem[w].claimed
               /\ deliveries[d].retryCount \in Nat
               /\ sent[d] \in Seq(Outcome) /\ attempts[d] \in Seq(Outcome)
               /\ Booked(deliveries[d], sent[d], attempts[d])
               /\ BookedAt(pc[w], mem[w], deliveries[d], sent[d], attempts[d])
  <1> DEFINE d == mem[w].delivery
  <1>1. d \in Deliveries /\ pc[w] # "idle"
    BY DEF TypeOK, WorkersOK, LocalsOK, InAttempt, Claimed
  <1>2. deliveries[d].status = "processing" /\ deliveries[d].retryCount = mem[w].claimed
    BY <1>1 DEF Exclusion, Fit
  <1>3. /\ deliveries[d].retryCount \in Nat
        /\ sent[d] \in Seq(Outcome) /\ attempts[d] \in Seq(Outcome)
    BY <1>1 DEF TypeOK, DatabaseOK, DeliveryRow
  <1>4. QED
    BY <1>1, <1>2, <1>3 DEF Ledger

\* The books of a delivery that is PROCESSING.
LEMMA OpenBooks ==
    ASSUME NEW row, NEW calls, NEW recorded, NEW n \in Nat,
           row.status = "processing", row.retryCount = n, row.attemptCount = n,
           n <= MaxRetryLimit, Len(calls) = n + 1, Len(recorded) \in {n, n + 1},
           \A i \in 1..n : calls[i] = "retryable",
           \A i \in 1..Len(recorded) : recorded[i] = calls[i]
    PROVE  Booked(row, calls, recorded)
  BY DEF Booked, Terminal

\* The provider is called once for the claim.
LEMMA SendKeepsLedger ==
    ASSUME TypeOK, Exclusion, Ledger, NEW w \in Workers, Send(w)
    PROVE  Ledger'
  <1> DEFINE m == mem[w]
             d == m.delivery
             row == deliveries[d]
  <1>1. m \in Locals /\ pc[w] = "send" /\ pc[w] \in Claimed /\ pc[w] \in InAttempt
    BY DEF Send, TypeOK, WorkersOK, InAttempt, Claimed
  <1>2. PICK o \in ProviderOutcomes :
          sent' = [sent EXCEPT ![d] = Append(@, o)] /\ GoTo(w, "sequence", [m EXCEPT !.outcome = o])
    BY DEF Send
  <1> DEFINE n == [m EXCEPT !.outcome = o]
  <1>3. n.delivery = d /\ n.outcome = o
    BY <1>1 DEF Locals
  <1>4. GoTo(w, "sequence", n) /\ UNCHANGED <<deliveries, attempts>>
    BY <1>2 DEF Send, db
  <1> HIDE DEF n
  <1>5. /\ d \in Deliveries /\ row.status = "processing" /\ row.retryCount \in Nat
        /\ sent[d] \in Seq(Outcome) /\ attempts[d] \in Seq(Outcome)
        /\ Booked(row, sent[d], attempts[d]) /\ Len(sent[d]) = row.retryCount
    BY <1>1, AttemptFacts DEF BookedAt
  <1>6. sent'[d] = Append(sent[d], o) /\ \A x \in Deliveries \ {d} : SameBooks(x)
    BY <1>2, <1>4, <1>5 DEF TypeOK, SameBooks
  <1>7. /\ Len(sent'[d]) = row.retryCount + 1 /\ sent'[d][row.retryCount + 1] = o
        /\ \A i \in 1..row.retryCount : sent'[d][i] = sent[d][i]
    BY <1>5, <1>6
  <1>8. Len(attempts[d]) = row.retryCount
    BY <1>5 DEF Booked
  <1>9. Booked(deliveries'[d], sent'[d], attempts'[d])
    <2>1. \A i \in 1..Len(attempts[d]) : attempts[d][i] = sent'[d][i]
      BY <1>5, <1>7, <1>8 DEF Booked
    <2>2. \A i \in 1..row.retryCount : sent'[d][i] = "retryable"
      BY <1>5, <1>7 DEF Booked
    <2>3. row.retryCount <= MaxRetryLimit /\ row.attemptCount = row.retryCount
      BY <1>5 DEF Booked, Terminal
    <2>4. Booked(row, sent'[d], attempts[d])
      BY <1>5, <1>7, <1>8, <2>1, <2>2, <2>3, OpenBooks
    <2>5. QED
      BY <1>4, <2>4
  <1>10. BookedAt("sequence", n, deliveries'[d], sent'[d], attempts'[d])
    BY <1>3, <1>4, <1>7, <1>8 DEF BookedAt, Claimed
  <1>11. QED
    BY <1>1, <1>3, <1>4, <1>5, <1>6, <1>9, <1>10, AloneInAttempt, OneEntry

\* The call is recorded, or the handler ends on the unique key.
LEMMA InsertKeepsLedger ==
    ASSUME TypeOK, Exclusion, Ledger, NEW w \in Workers, InsertAttempt(w)
    PROVE  Ledger'
  <1> DEFINE m == mem[w]
             d == m.delivery
             row == deliveries[d]
             n == [m EXCEPT !.sequence = 0]
  <1>1. m \in Locals /\ pc[w] = "attempt" /\ pc[w] \in Claimed /\ pc[w] \in InAttempt
    BY DEF InsertAttempt, TypeOK, WorkersOK, InAttempt, Claimed
  <1>2. UNCHANGED <<deliveries, sent>>
    BY DEF InsertAttempt
  <1>3. CASE attempts' = [attempts EXCEPT ![d] = Append(@, m.outcome)] /\ GoTo(w, "loadoutcome", n)
    <2>1. n.delivery = d /\ n.outcome = m.outcome
      BY <1>1 DEF Locals
    <2> HIDE DEF n
    <2>2. /\ d \in Deliveries /\ row.status = "processing" /\ row.retryCount \in Nat
          /\ sent[d] \in Seq(Outcome) /\ attempts[d] \in Seq(Outcome)
          /\ Booked(row, sent[d], attempts[d])
          /\ Len(sent[d]) = row.retryCount + 1 /\ Len(attempts[d]) = row.retryCount
          /\ sent[d][row.retryCount + 1] = m.outcome
      BY <1>1, AttemptFacts DEF BookedAt
    <2>3. attempts'[d] = Append(attempts[d], m.outcome) /\ \A x \in Deliveries \ {d} : SameBooks(x)
      BY <1>2, <1>3, <2>2 DEF TypeOK, DatabaseOK, SameBooks
    <2>4. /\ Len(attempts'[d]) = row.retryCount + 1
          /\ attempts'[d][row.retryCount + 1] = m.outcome
          /\ \A i \in 1..row.retryCount : attempts'[d][i] = attempts[d][i]
      BY <2>2, <2>3
    <2>5. Booked(row, sent[d], attempts'[d])
      <3>1. \A i \in 1..Len(attempts'[d]) : attempts'[d][i] = sent[d][i]
        <4>1. \A i \in 1..row.retryCount : attempts[d][i] = sent[d][i]
          BY <2>2 DEF Booked
        <4>2. \A i \in 1..Len(attempts'[d]) : i \in 1..row.retryCount \/ i = row.retryCount + 1
          BY <2>2, <2>4
        <4>3. QED
          BY <2>2, <2>4, <4>1, <4>2
      <3>2. /\ \A i \in 1..row.retryCount : sent[d][i] = "retryable"
            /\ row.retryCount <= MaxRetryLimit /\ row.attemptCount = row.retryCount
        BY <2>2 DEF Booked, Terminal
      <3>3. QED
        BY <2>2, <2>4, <3>1, <3>2, OpenBooks
    <2>6. BookedAt("loadoutcome", n, row, sent[d], attempts'[d])
      BY <2>1, <2>2, <2>4 DEF BookedAt, Claimed
    <2>7. /\ Booked(deliveries'[d], sent'[d], attempts'[d])
          /\ BookedAt("loadoutcome", n, deliveries'[d], sent'[d], attempts'[d])
      BY <1>2, <2>5, <2>6
    <2>8. QED
      BY <1>1, <1>3, <2>1, <2>2, <2>3, <2>7, AloneInAttempt, OneEntry
  <1>4. CASE Reject(w) /\ UNCHANGED attempts
    <2>1. \A x \in Deliveries : SameBooks(x)
      BY <1>2, <1>4 DEF SameBooks
    <2>2. \A v \in Workers : pc'[v] \in Claimed => SameAttempt(v)
      BY <1>4 DEF Reject, GoTo, TypeOK, WorkersOK, SameAttempt, Claimed
    <2>3. QED
      BY <2>1, <2>2, NoEntry
  <1>5. QED
    BY <1>3, <1>4 DEF InsertAttempt

\* What recording an outcome makes of a row.
LEMMA RecordedRow ==
    ASSUME NEW row \in DeliveryRow, NEW outcome \in Outcome
    PROVE  LET new == RecordOutcome(row, row.retryCount, outcome)
           IN  /\ new.attemptCount = row.attemptCount + 1
               /\ \/ /\ new.status = "retrying" /\ outcome = "retryable"
                     /\ new.retryCount = row.retryCount + 1
                     /\ row.retryCount < MaxRetryLimit
                  \/ /\ new.status = "succeeded" /\ outcome = "success"
                     /\ new.retryCount = row.retryCount
                  \/ /\ new.status = "failed" /\ new.retryCount = row.retryCount
                     /\ \/ outcome = "terminal"
                        \/ outcome = "retryable" /\ row.retryCount >= MaxRetryLimit
  <1>1. CASE outcome = "success"
    BY <1>1 DEF RecordOutcome, MarkAttemptOutcome, DeliveryRow
  <1>2. CASE outcome # "success" /\ ShouldRetry(row.retryCount, outcome)
    BY <1>2 DEF RecordOutcome, MarkRetrying, ShouldRetry
  <1>3. CASE outcome # "success" /\ ~ ShouldRetry(row.retryCount, outcome)
    <2>1. \/ outcome = "terminal"
          \/ outcome = "retryable" /\ row.retryCount >= MaxRetryLimit
      BY <1>3, RetryLimitAssumption DEF ShouldRetry, Outcome, DeliveryRow
    <2>2. QED
      BY <1>3, <2>1 DEF RecordOutcome, MarkAttemptOutcome, DeliveryRow
  <1>4. QED
    BY <1>1, <1>2, <1>3

\* The outcome is saved over the row it was loaded from.
LEMMA OutcomeFacts ==
    ASSUME TypeOK, Exclusion, NEW w \in Workers, SaveOutcome(w)
    PROVE  LET m == mem[w]
               d == m.delivery
               row == RecordOutcome(deliveries[d], deliveries[d].retryCount, m.outcome)
           IN  /\ pc[w] = "saveoutcome" /\ m.outcome \in Outcome /\ d \in Deliveries
               /\ deliveries[d] \in DeliveryRow
               /\ deliveries' = [deliveries EXCEPT ![d] = row]
               /\ \E label, n : label \notin Claimed /\ GoTo(w, label, n)
               /\ UNCHANGED <<sent, attempts>>
  <1> DEFINE m == mem[w]
             d == m.delivery
  <1>1. /\ m \in Locals /\ pc[w] = "saveoutcome" /\ d \in Deliveries
        /\ m.outcome \in Outcome
    BY DEF SaveOutcome, TypeOK, WorkersOK, LocalsOK, Locals, InAttempt, Claimed
  <1>2. m.row = deliveries[d] /\ m.claimed = deliveries[d].retryCount
    BY <1>1 DEF Exclusion, Fit, Claimed
  <1>3. deliveries[d] \in DeliveryRow
    BY <1>1 DEF TypeOK, DatabaseOK
  <1>4. deliveries' = [deliveries EXCEPT ![d] = RecordOutcome(m.row, m.claimed, m.outcome)]
    BY DEF SaveOutcome
  <1>5. \E label, n : label \notin Claimed /\ GoTo(w, label, n)
    BY DEF SaveOutcome, NextInLoop, Claimed
  <1>6. UNCHANGED <<sent, attempts>>
    BY DEF SaveOutcome
  <1>7. QED
    BY <1>1, <1>2, <1>3, <1>4, <1>5, <1>6

LEMMA OutcomeKeepsLedger ==
    ASSUME TypeOK, Exclusion, Ledger, NEW w \in Workers, SaveOutcome(w)
    PROVE  Ledger'
  <1> DEFINE m == mem[w]
             d == m.delivery
             old == deliveries[d]
             row == RecordOutcome(old, old.retryCount, m.outcome)
  <1>1. /\ pc[w] = "saveoutcome" /\ m.outcome \in Outcome /\ d \in Deliveries
        /\ old \in DeliveryRow
        /\ deliveries' = [deliveries EXCEPT ![d] = row]
        /\ UNCHANGED <<sent, attempts>>
    BY OutcomeFacts
  <1>2. PICK label, n : label \notin Claimed /\ GoTo(w, label, n)
    BY OutcomeFacts
  <1>3. deliveries'[d] = row /\ \A x \in Deliveries \ {d} : SameBooks(x)
    BY <1>1 DEF TypeOK, DatabaseOK, SameBooks
  <1>4. pc[w] \in Claimed /\ pc[w] \in InAttempt
    BY <1>1 DEF Claimed, InAttempt
  <1>5. /\ old.status = "processing" /\ old.retryCount \in Nat
        /\ Booked(old, sent[d], attempts[d])
        /\ Len(sent[d]) = old.retryCount + 1 /\ Len(attempts[d]) = old.retryCount + 1
        /\ sent[d][old.retryCount + 1] = m.outcome
    BY <1>1, <1>4, AttemptFacts DEF BookedAt, Claimed
  <1>6. /\ \A i \in 1..old.retryCount : sent[d][i] = "retryable"
        /\ \A i \in 1..Len(attempts[d]) : attempts[d][i] = sent[d][i]
        /\ old.retryCount <= MaxRetryLimit /\ old.attemptCount = old.retryCount
    BY <1>5 DEF Booked, Terminal
  <1>7. /\ row.attemptCount = old.retryCount + 1
        /\ \/ /\ row.status = "retrying" /\ m.outcome = "retryable"
              /\ row.retryCount = old.retryCount + 1
              /\ old.retryCount < MaxRetryLimit
           \/ row.status \in Terminal /\ row.retryCount = old.retryCount
    BY <1>1, <1>6, RecordedRow DEF Terminal
  <1> HIDE DEF row
  <1>8. Booked(row, sent[d], attempts[d])
    <2>1. CASE row.status = "retrying"
      <3>1. row.retryCount = old.retryCount + 1 /\ row.retryCount <= MaxRetryLimit
        BY <1>5, <1>7, <2>1, RetryLimitAssumption DEF Terminal
      <3>2. \A i \in 1..row.retryCount : sent[d][i] = "retryable"
        BY <1>5, <1>6, <1>7, <2>1, <3>1 DEF Terminal
      <3>3. QED
        BY <1>5, <1>6, <1>7, <2>1, <3>1, <3>2 DEF Booked, Terminal
    <2>2. CASE row.status \in Terminal
      BY <1>5, <1>6, <1>7, <2>2 DEF Booked, Terminal
    <2>3. QED
      BY <1>7, <2>1, <2>2
  <1>9. Booked(deliveries'[d], sent'[d], attempts'[d])
    BY <1>1, <1>3, <1>8
  <1>10. QED
    BY <1>1, <1>2, <1>3, <1>4, <1>9, AloneInAttempt, OneEntry

LEMMA NextKeepsLedger ==
    ASSUME TypeOK, Exclusion, Ledger, [Next]_vars
    PROVE  Ledger'
  <1>1. ASSUME UNCHANGED <<deliveries, attempts, sent, pc, mem>>
        PROVE  Ledger'
    BY <1>1 DEF Ledger
  <1>2. ASSUME NEW w \in Workers, WorkerStep(w) \/ Throw(w) \/ Crash(w)
        PROVE  Ledger'
    BY <1>2, ReadKeepsLedger, CreateKeepsLedger, ClaimKeepsLedger, SendKeepsLedger,
       InsertKeepsLedger, OutcomeKeepsLedger DEF WorkerStep, Attempt
  <1>3. ASSUME NEW e \in Events, InsertEvent(e) \/ RequestStep(e) \/ AbortRequest(e)
        PROVE  Ledger'
    BY <1>1, <1>3 DEF InsertEvent, RequestStep, EnqueueEvent, LoadQueuedEvent,
       SaveQueuedEvent, AbortRequest, db
  <1>4. CASE DetectStalled \/ LoseLock \/ Rest \/ UNCHANGED vars
             \/ \E s \in Subs : UpdateSubscription(s)
    BY <1>1, <1>4 DEF DetectStalled, LoseLock, Rest, vars, UpdateSubscription, db
  <1>5. QED
    BY <1>2, <1>3, <1>4 DEF Next

\* Unless a running handler loses its lock, the row of a delivery, the calls
\* made for it and its attempts agree at every await of every handler.
THEOREM LedgerIsInvariant ==
    ASSUME "lockloss" \notin Faults PROVE Spec => []Ledger
  <1>1. Init => Ledger
    <2> SUFFICES ASSUME Init PROVE Ledger
      OBVIOUS
    <2>1. ASSUME NEW d \in Deliveries
          PROVE  Booked(deliveries[d], sent[d], attempts[d])
      BY RetryLimitAssumption DEF Init, AbsentDelivery, Booked, Terminal
    <2>2. \A w \in Workers : pc[w] \notin Claimed
      BY DEF Init, Claimed
    <2>3. QED
      BY <2>1, <2>2 DEF Ledger
  <1>2. TypeOK /\ Exclusion /\ Ledger /\ [Next]_vars => Ledger'
    BY NextKeepsLedger
  <1>3. QED
    BY <1>1, <1>2, TypeCorrect, ExclusionIsInvariant, PTL DEF Spec

\* What is booked for a delivery, in terms of its sequences.
LEMMA BookedSequences ==
    ASSUME TypeOK, Ledger, NEW d \in Deliveries
    PROVE  LET row == deliveries[d]
               calls == Len(sent[d])
               rows == Len(attempts[d])
           IN  /\ row \in DeliveryRow /\ calls \in Nat /\ rows \in Nat
               /\ row.retryCount \in Nat /\ row.retryCount <= MaxRetryLimit
               /\ calls \in {row.retryCount, row.retryCount + 1}
               /\ rows \in {row.retryCount, row.retryCount + 1} /\ rows <= calls
               /\ attempts[d] = SubSeq(sent[d], 1, rows)
               /\ \A i \in 1..row.retryCount : sent[d][i] = "retryable"
  <1> DEFINE row == deliveries[d]
  <1>1. /\ row \in DeliveryRow /\ row.retryCount \in Nat
        /\ sent[d] \in Seq(Outcome) /\ attempts[d] \in Seq(Outcome)
    BY DEF TypeOK, DatabaseOK, DeliveryRow
  <1>2. Booked(row, sent[d], attempts[d])
    BY DEF Ledger
  <1>3. /\ row.retryCount <= MaxRetryLimit
        /\ Len(sent[d]) \in {row.retryCount, row.retryCount + 1}
        /\ Len(attempts[d]) \in {row.retryCount, row.retryCount + 1}
        /\ Len(attempts[d]) <= Len(sent[d])
        /\ \A i \in 1..Len(attempts[d]) : attempts[d][i] = sent[d][i]
        /\ \A i \in 1..row.retryCount : sent[d][i] = "retryable"
    BY <1>1, <1>2 DEF Booked, Terminal
  <1>4. attempts[d] = SubSeq(sent[d], 1, Len(attempts[d]))
    BY <1>1, <1>3
  <1>5. QED
    BY <1>1, <1>3, <1>4

\* Unless a running handler loses its lock, no delivery is sent more often
\* than its retry limit allows.
THEOREM BudgetIsKept ==
    ASSUME "lockloss" \notin Faults PROVE Spec => []RetryBudget
  <1>1. TypeOK /\ Ledger => RetryBudget
    BY BookedSequences, RetryLimitAssumption DEF RetryBudget
  <1>2. QED
    BY <1>1, TypeCorrect, LedgerIsInvariant, PTL

\* Under the same assumption a notification is sent again only after a
\* retryable failure.
THEOREM ResentForAReason ==
    ASSUME "lockloss" \notin Faults PROVE Spec => []ResentOnlyAfterRetryableFailure
  <1>1. ASSUME TypeOK, Ledger, NEW d \in Deliveries, NEW i \in 1..Len(sent[d]), i < Len(sent[d])
        PROVE  sent[d][i] = "retryable"
    <2>1. i \in 1..deliveries[d].retryCount
      BY <1>1, BookedSequences
    <2>2. QED
      BY <1>1, <2>1, BookedSequences
  <1>2. TypeOK /\ Ledger => ResentOnlyAfterRetryableFailure
    BY <1>1 DEF ResentOnlyAfterRetryableFailure
  <1>3. QED
    BY <1>2, TypeCorrect, LedgerIsInvariant, PTL

\* How far the counters of a delivery may lag.
LEMMA Lag ==
    ASSUME NEW n \in Nat, NEW calls \in {n, n + 1}, NEW rows \in {n, n + 1}, rows <= calls,
           NEW counted, NEW open \in BOOLEAN,
           \/ calls = n + 1 /\ rows = n + 1 /\ counted = n + 1
           \/ counted = n /\ (~ open => calls = n)
    PROVE  /\ rows \in {calls, calls - 1}
           /\ counted \in {rows, rows - 1}
           /\ ~ open => counted = calls
  OBVIOUS

\* Under the same assumption the attempt rows are the calls that were made,
\* in order, and the counters follow them.
THEOREM LedgerAgrees ==
    ASSUME "lockloss" \notin Faults PROVE Spec => []AttemptLedger
  <1>1. ASSUME TypeOK, Ledger, NEW d \in Deliveries
        PROVE  LET calls == Len(sent[d])
                   rows == Len(attempts[d])
                   counted == deliveries[d].attemptCount
               IN  /\ attempts[d] = SubSeq(sent[d], 1, rows)
                   /\ rows \in {calls, calls - 1}
                   /\ counted \in {rows, rows - 1}
                   /\ deliveries[d].status # "processing" => counted = calls
    <2>1. Booked(deliveries[d], sent[d], attempts[d])
      BY <1>1 DEF Ledger
    <2>2. attempts[d] = SubSeq(sent[d], 1, Len(attempts[d]))
      BY <1>1, BookedSequences
    <2>3. /\ deliveries[d].retryCount \in Nat /\ Len(sent[d]) \in Nat /\ Len(attempts[d]) \in Nat
          /\ Len(sent[d]) \in {deliveries[d].retryCount, deliveries[d].retryCount + 1}
          /\ Len(attempts[d]) \in {deliveries[d].retryCount, deliveries[d].retryCount + 1}
          /\ Len(attempts[d]) <= Len(sent[d])
      BY <1>1, BookedSequences
    <2>4. \/ /\ Len(sent[d]) = deliveries[d].retryCount + 1
             /\ Len(attempts[d]) = deliveries[d].retryCount + 1
             /\ deliveries[d].attemptCount = deliveries[d].retryCount + 1
          \/ /\ deliveries[d].attemptCount = deliveries[d].retryCount
             /\ deliveries[d].status # "processing" => Len(sent[d]) = deliveries[d].retryCount
      BY <2>1 DEF Booked
    <2> DEFINE n == deliveries[d].retryCount
               calls == Len(sent[d])
               rows == Len(attempts[d])
               counted == deliveries[d].attemptCount
               open == deliveries[d].status = "processing"
    <2>5. /\ n \in Nat /\ calls \in {n, n + 1} /\ rows \in {n, n + 1} /\ rows <= calls
          /\ open \in BOOLEAN
      BY <2>3
    <2>6. \/ calls = n + 1 /\ rows = n + 1 /\ counted = n + 1
          \/ counted = n /\ (~ open => calls = n)
      BY <2>4
    <2> HIDE DEF n, calls, rows, counted, open
    <2>7. /\ rows \in {calls, calls - 1}
          /\ counted \in {rows, rows - 1}
          /\ ~ open => counted = calls
      BY <2>5, <2>6, Lag
    <2>8. QED
      BY <2>2, <2>7 DEF calls, rows, counted, open
  <1>2. TypeOK /\ Ledger => AttemptLedger
    BY <1>1 DEF AttemptLedger
  <1>3. QED
    BY <1>2, TypeCorrect, LedgerIsInvariant, PTL

-----------------------------------------------------------------------------
(***************************************************************************)
(* The pipeline implements DeliveryLifecycle.                              *)
(***************************************************************************)
StatusOf == [d \in Deliveries |-> deliveries[d].status]
RetriesOf == [d \in Deliveries |-> deliveries[d].retryCount]

\* What writing one row of deliveries is for the lifecycle.
LEMMA WriteOfOneRow ==
    ASSUME TypeOK, NEW d \in Deliveries, NEW row,
           deliveries' = [deliveries EXCEPT ![d] = row]
    PROVE  /\ StatusOf' = [StatusOf EXCEPT ![d] = row.status]
           /\ RetriesOf' = [RetriesOf EXCEPT ![d] = row.retryCount]
           /\ row.retryCount = deliveries[d].retryCount => RetriesOf' = RetriesOf
  <1>1. \A x \in Deliveries : deliveries'[x] = IF x = d THEN row ELSE deliveries[x]
    BY DEF TypeOK, DatabaseOK
  <1>2. StatusOf' = [StatusOf EXCEPT ![d] = row.status]
    <2>1. StatusOf' = [x \in Deliveries |-> deliveries'[x].status]
      BY DEF StatusOf
    <2>2. StatusOf = [x \in Deliveries |-> deliveries[x].status]
      BY DEF StatusOf
    <2>3. QED
      BY <1>1, <2>1, <2>2
  <1>3. RetriesOf' = [RetriesOf EXCEPT ![d] = row.retryCount]
    <2>1. RetriesOf' = [x \in Deliveries |-> deliveries'[x].retryCount]
      BY DEF RetriesOf
    <2>2. RetriesOf = [x \in Deliveries |-> deliveries[x].retryCount]
      BY DEF RetriesOf
    <2>3. QED
      BY <1>1, <2>1, <2>2
  <1>4. row.retryCount = deliveries[d].retryCount => RetriesOf' = RetriesOf
    BY <1>1 DEF RetriesOf
  <1>5. QED
    BY <1>2, <1>3, <1>4

LEMMA CreateRefines ==
    ASSUME TypeOK, Ledger, NEW w \in Workers, CreateOrFindDelivery(w)
    PROVE  [Lifecycle!Next]_(Lifecycle!vars)
  <1> DEFINE d == mem[w].delivery
             row == IF Exists(deliveries[d]) THEN deliveries[d] ELSE CreateDelivery
  <1>1. /\ pc[w] = "create"
        /\ deliveries' = [deliveries EXCEPT ![d] = row]
        /\ UNCHANGED attempts
    BY DEF CreateOrFindDelivery
  <1>2. d \in Deliveries /\ deliveries[d] \in DeliveryRow
    BY <1>1 DEF TypeOK, DatabaseOK, WorkersOK, LocalsOK
  <1>3. CASE Exists(deliveries[d])
    <2>1. deliveries' = deliveries
      BY <1>1, <1>2, <1>3 DEF TypeOK, DatabaseOK
    <2>2. QED
      BY <1>1, <2>1 DEF Lifecycle!vars
  <1>4. CASE ~ Exists(deliveries[d])
    <2>1. deliveries[d].status = "absent" /\ row.status = "pending" /\ row.retryCount = 0
      BY <1>4 DEF Exists, CreateDelivery, AbsentDelivery
    <2>2. deliveries[d].retryCount = 0
      BY <1>2, <2>1 DEF Ledger, Booked
    <2> HIDE DEF row
    <2>3. /\ StatusOf' = [StatusOf EXCEPT ![d] = "pending"]
          /\ RetriesOf' = RetriesOf
      <3>1. /\ StatusOf' = [StatusOf EXCEPT ![d] = row.status]
            /\ row.retryCount = deliveries[d].retryCount => RetriesOf' = RetriesOf
        BY <1>1, <1>2, WriteOfOneRow
      <3>2. QED
        BY <2>1, <2>2, <3>1
    <2>4. StatusOf[d] = "absent"
      BY <1>2, <2>1 DEF StatusOf
    <2>5. Lifecycle!Create(d)
      BY <1>1, <2>3, <2>4 DEF Lifecycle!Create, StatusOf, RetriesOf
    <2>6. Lifecycle!Next
      BY <1>2, <2>5 DEF Lifecycle!Next, Lifecycle!Create
    <2>7. QED
      BY <2>6
  <1>5. QED
    BY <1>3, <1>4

LEMMA ClaimRefines ==
    ASSUME TypeOK, Exclusion, NEW w \in Workers, SaveClaim(w)
    PROVE  [Lifecycle!Next]_(Lifecycle!vars)
  <1> DEFINE m == mem[w]
             d == m.delivery
             row == MarkProcessing(m.row)
  <1>1. /\ pc[w] = "saveclaim"
        /\ deliveries' = [deliveries EXCEPT ![d] = row]
        /\ UNCHANGED attempts
    BY DEF SaveClaim
  <1>2. m \in Locals /\ d \in Deliveries
    BY <1>1 DEF TypeOK, WorkersOK, LocalsOK, InAttempt
  <1>3. m.row = deliveries[d] /\ deliveries[d].status \in {"pending", "retrying"}
    BY <1>1 DEF Exclusion, Fit, Due
  <1>4. row.status = "processing" /\ row.retryCount = deliveries[d].retryCount
    BY <1>2, <1>3 DEF MarkProcessing, Locals, DeliveryRow
  <1> HIDE DEF row
  <1>5. /\ StatusOf' = [StatusOf EXCEPT ![d] = "processing"]
        /\ RetriesOf' = RetriesOf
    <2>1. /\ StatusOf' = [StatusOf EXCEPT ![d] = row.status]
          /\ row.retryCount = deliveries[d].retryCount => RetriesOf' = RetriesOf
      BY <1>1, <1>2, WriteOfOneRow
    <2>2. QED
      BY <1>4, <2>1
  <1>6. StatusOf[d] \in {"pending", "retrying"}
    BY <1>2, <1>3 DEF StatusOf
  <1>7. Lifecycle!Claim(d)
    BY <1>1, <1>5, <1>6 DEF Lifecycle!Claim, StatusOf, RetriesOf
  <1>8. Lifecycle!Next
    BY <1>2, <1>7 DEF Lifecycle!Next, Lifecycle!Claim
  <1>9. QED
    BY <1>8

LEMMA InsertRefines ==
    ASSUME TypeOK, Exclusion, Ledger, NEW w \in Workers, InsertAttempt(w)
    PROVE  [Lifecycle!Next]_(Lifecycle!vars)
  <1> DEFINE m == mem[w]
             d == m.delivery
  <1>1. pc[w] = "attempt" /\ pc[w] \in Claimed /\ UNCHANGED deliveries
    BY DEF InsertAttempt, Claimed
  <1>2. CASE UNCHANGED attempts
    BY <1>1, <1>2 DEF Lifecycle!vars
  <1>3. CASE attempts' = [attempts EXCEPT ![d] = Append(@, m.outcome)]
    <2>1. /\ d \in Deliveries /\ deliveries[d].status = "processing"
          /\ Len(attempts[d]) = deliveries[d].retryCount
      BY <1>1, AttemptFacts DEF BookedAt
    <2>2. m.outcome \in Outcome
      BY <1>1 DEF TypeOK, WorkersOK, LocalsOK, Locals
    <2>3. Lifecycle!Record(d, m.outcome)
      BY <1>1, <1>3, <2>1 DEF Lifecycle!Record
    <2>4. QED
      BY <2>1, <2>2, <2>3 DEF Lifecycle!Next, Outcome
  <1>4. QED
    BY <1>2, <1>3 DEF InsertAttempt

LEMMA OutcomeRefines ==
    ASSUME TypeOK, Exclusion, Ledger, NEW w \in Workers, SaveOutcome(w)
    PROVE  [Lifecycle!Next]_(Lifecycle!vars)
  <1> DEFINE m == mem[w]
             d == m.delivery
             old == deliveries[d]
             row == RecordOutcome(old, old.retryCount, m.outcome)
  <1>1. /\ pc[w] = "saveoutcome" /\ m.outcome \in Outcome /\ d \in Deliveries
        /\ old \in DeliveryRow
        /\ deliveries' = [deliveries EXCEPT ![d] = row]
        /\ UNCHANGED attempts
    BY OutcomeFacts
  <1>2. /\ old.status = "processing" /\ old.retryCount \in Nat
        /\ Len(attempts[d]) = old.retryCount + 1 /\ Len(sent[d]) = old.retryCount + 1
        /\ sent[d][old.retryCount + 1] = m.outcome
        /\ Booked(old, sent[d], attempts[d])
    BY <1>1, AttemptFacts DEF BookedAt, Claimed
  <1>3. attempts[d][Len(attempts[d])] = m.outcome /\ old.retryCount <= MaxRetryLimit
    BY <1>2 DEF Booked
  <1>4. Lifecycle!Attempted(d, m.outcome)
    BY <1>1, <1>2, <1>3 DEF Lifecycle!Attempted
  <1>5. \/ /\ row.status = "retrying" /\ m.outcome = "retryable"
           /\ row.retryCount = old.retryCount + 1
           /\ old.retryCount < MaxRetryLimit
        \/ /\ row.status = "succeeded" /\ m.outcome = "success"
           /\ row.retryCount = old.retryCount
        \/ /\ row.status = "failed" /\ row.retryCount = old.retryCount
           /\ \/ m.outcome = "terminal"
              \/ m.outcome = "retryable" /\ old.retryCount = MaxRetryLimit
    BY <1>1, <1>2, <1>3, RecordedRow, RetryLimitAssumption
  <1> HIDE DEF row
  <1>6. /\ StatusOf' = [StatusOf EXCEPT ![d] = row.status]
        /\ RetriesOf' = [RetriesOf EXCEPT ![d] = row.retryCount]
        /\ row.retryCount = old.retryCount => RetriesOf' = RetriesOf
        /\ RetriesOf[d] = old.retryCount
    BY <1>1, WriteOfOneRow DEF RetriesOf
  <1>7. Lifecycle!Retry(d) \/ Lifecycle!Succeed(d) \/ Lifecycle!GiveUp(d)
    <2>1. CASE row.status = "retrying"
      <3>1. RetriesOf' = [RetriesOf EXCEPT ![d] = RetriesOf[d] + 1]
        BY <1>5, <1>6, <2>1
      <3>2. Lifecycle!Retry(d)
        BY <1>1, <1>4, <1>5, <1>6, <2>1, <3>1 DEF Lifecycle!Retry, StatusOf, RetriesOf
      <3>3. QED
        BY <3>2
    <2>2. CASE row.status = "succeeded"
      BY <1>1, <1>4, <1>5, <1>6, <2>2 DEF Lifecycle!Succeed, StatusOf, RetriesOf
    <2>3. CASE row.status = "failed"
      BY <1>1, <1>4, <1>5, <1>6, <2>3 DEF Lifecycle!GiveUp, StatusOf, RetriesOf
    <2>4. QED
      BY <1>5, <2>1, <2>2, <2>3
  <1>8. Lifecycle!Next
    BY <1>1, <1>7 DEF Lifecycle!Next, Lifecycle!Retry, Lifecycle!Succeed, Lifecycle!GiveUp, Lifecycle!Attempted
  <1>9. QED
    BY <1>8

LEMMA NextRefines ==
    ASSUME TypeOK, Exclusion, Ledger, [Next]_vars
    PROVE  [Lifecycle!Next]_(Lifecycle!vars)
  <1>1. ASSUME UNCHANGED <<deliveries, attempts>>
        PROVE  [Lifecycle!Next]_(Lifecycle!vars)
    BY <1>1 DEF Lifecycle!vars
  <1>2. ASSUME NEW w \in Workers,
               \/ TakeEventJob(w) \/ FindSubscriptions(w) \/ FindDelivery(w) \/ CheckInitialSend(w)
               \/ TakeRetryJob(w) \/ LoadDelivery(w) \/ LoadClaim(w) \/ NextAttemptSequence(w)
               \/ Send(w) \/ LoadForOutcome(w) \/ EnqueueRetry(w) \/ ReadSummary(w) \/ LoadEvent(w)
               \/ SaveEvent(w) \/ FinishJob(w) \/ Throw(w) \/ Crash(w)
        PROVE  [Lifecycle!Next]_(Lifecycle!vars)
    <2>1. UNCHANGED <<deliveries, attempts>>
      BY <1>2 DEF TakeEventJob, FindSubscriptions, FindDelivery, CheckInitialSend, TakeRetryJob,
           LoadDelivery, LoadClaim, NextAttemptSequence, Send, LoadForOutcome, EnqueueRetry,
           RetryTaken, RetryRefused,
           ReadSummary, LoadEvent, SaveEvent, FinishJob, Throw, Crash, db
    <2>2. QED
      BY <1>1, <2>1
  <1>3. ASSUME NEW w \in Workers, WorkerStep(w) \/ Throw(w) \/ Crash(w)
        PROVE  [Lifecycle!Next]_(Lifecycle!vars)
    BY <1>2, <1>3, CreateRefines, ClaimRefines, InsertRefines, OutcomeRefines
       DEF WorkerStep, Attempt
  <1>4. ASSUME NEW e \in Events, InsertEvent(e) \/ RequestStep(e) \/ AbortRequest(e)
        PROVE  [Lifecycle!Next]_(Lifecycle!vars)
    BY <1>1, <1>4 DEF InsertEvent, RequestStep, EnqueueEvent, LoadQueuedEvent,
       SaveQueuedEvent, AbortRequest, db
  <1>5. CASE DetectStalled \/ LoseLock \/ Rest \/ UNCHANGED vars
             \/ \E s \in Subs : UpdateSubscription(s)
    BY <1>1, <1>5 DEF DetectStalled, LoseLock, Rest, vars, UpdateSubscription, db
  <1>6. QED
    BY <1>3, <1>4, <1>5 DEF Next

\* Unless a running handler loses its lock, every delivery follows its
\* lifecycle, for any number of workers that crash and fail.
THEOREM PipelineImplementsLifecycle ==
    ASSUME "lockloss" \notin Faults PROVE Spec => ImplementsLifecycle
  <1>1. Init => Lifecycle!Init
    BY DEF Init, Lifecycle!Init, AbsentDelivery
  <1>2. TypeOK /\ Exclusion /\ Ledger /\ [Next]_vars => [Lifecycle!Next]_(Lifecycle!vars)
    BY NextRefines
  <1>3. QED
    BY <1>1, <1>2, TypeCorrect, ExclusionIsInvariant, LedgerIsInvariant, PTL
       DEF Spec, ImplementsLifecycle, Lifecycle!Spec

(***************************************************************************)
(* An event is only FAILED on account of a delivery that failed for good.  *)
(* The summary an event handler saves was read some awaits earlier; what   *)
(* makes it safe to save late is that a terminal delivery never changes,   *)
(* which the pipeline inherits from DeliveryLifecycle.                     *)
(***************************************************************************)

HasFailedDelivery(e) == \E d \in DeliveriesOf(e) : deliveries[d].status = "failed"

\* A handler that has read the summary "failed" and is to save it.
BringsFailure(w) == pc[w] \in {"loadevent", "saveevent"} /\ mem[w].target = "failed"

\* The status of an event, and the one a handler is about to give it, are
\* "failed" only if a delivery of the event is.
FailureIsBacked ==
    /\ \A e \in Events : events[e].status = "failed" => HasFailedDelivery(e)
    /\ \A w \in Workers : BringsFailure(w) => HasFailedDelivery(EventOf(mem[w].job))

\* A delivery that failed for good stays so.
LEMMA FailedIsFinal ==
    ASSUME TypeOK, Exclusion, Ledger, [Next]_vars, NEW d \in Deliveries,
           deliveries[d].status = "failed"
    PROVE  deliveries'[d].status = "failed"
  <1>1. [Lifecycle!Next]_(Lifecycle!vars)
    BY NextRefines
  <1>2. StatusOf[d] = "failed"
    BY DEF StatusOf
  <1>3. StatusOf'[d] = "failed"
    BY <1>1, <1>2 DEF StatusOf, Lifecycle!Next, Lifecycle!vars, Lifecycle!Create, Lifecycle!Claim,
       Lifecycle!Record, Lifecycle!Retry, Lifecycle!Succeed, Lifecycle!GiveUp, Lifecycle!Attempted
  <1>4. QED
    BY <1>3 DEF StatusOf

LEMMA FailureStays ==
    ASSUME TypeOK, Exclusion, Ledger, [Next]_vars, NEW e, HasFailedDelivery(e)
    PROVE  HasFailedDelivery(e)'
  <1>1. PICK d \in DeliveriesOf(e) : deliveries[d].status = "failed"
    BY DEF HasFailedDelivery
  <1>2. d \in Deliveries
    BY DEF DeliveriesOf
  <1>3. deliveries'[d].status = "failed"
    BY <1>1, <1>2, FailedIsFinal
  <1>4. QED
    BY <1>3 DEF HasFailedDelivery

\* A summary is "failed" because a delivery is.
LEMMA SummaryOfFailure ==
    ASSUME NEW e, Summary(e) = "failed"
    PROVE  HasFailedDelivery(e)
  <1>1. "failed" \in {deliveries[d].status : d \in ExistingDeliveriesOf(e)}
    BY DEF Summary, EventDeliverySummary
  <1>2. QED
    BY <1>1 DEF HasFailedDelivery, ExistingDeliveriesOf

\* What a step does to the events: it leaves one as it is, or gives it a
\* status that is not "failed", or the one a handler brings.
LEMMA EventStep ==
    ASSUME TypeOK, [Next]_vars, NEW e \in Events, events'[e].status = "failed"
    PROVE  \/ events[e].status = "failed"
           \/ \E w \in Workers : BringsFailure(w) /\ EventOf(mem[w].job) = e
  <1>1. CASE UNCHANGED events
    BY <1>1
  <1>2. ASSUME NEW x \in Events, InsertEvent(x)
        PROVE  events[e].status = "failed"
    BY <1>2 DEF InsertEvent, CreateAcceptedEvent, AbsentEvent, TypeOK, DatabaseOK
  <1>3. ASSUME NEW x \in Events, SaveQueuedEvent(x)
        PROVE  events[e].status = "failed"
    BY <1>3 DEF SaveQueuedEvent, MarkQueued, TypeOK, DatabaseOK, EventRow
  <1>4. ASSUME NEW w \in Workers, SaveEvent(w)
        PROVE  \/ events[e].status = "failed"
               \/ BringsFailure(w) /\ EventOf(mem[w].job) = e
    <2>1. /\ mem[w].event \in EventRow /\ pc[w] = "saveevent"
          /\ events' = [events EXCEPT ![EventOf(mem[w].job)] = MarkSummary(mem[w].event, mem[w].target)]
      BY <1>4 DEF SaveEvent, TypeOK, WorkersOK, Locals
    <2>2. MarkSummary(mem[w].event, mem[w].target).status = mem[w].target
      BY <2>1 DEF MarkSummary, EventRow
    <2>3. QED
      BY <2>1, <2>2 DEF BringsFailure, TypeOK, DatabaseOK
  <1>5. ASSUME NEW w \in Workers, WorkerStep(w) \/ Throw(w) \/ Crash(w), ~ SaveEvent(w)
        PROVE  UNCHANGED events
    BY <1>5 DEF WorkerStep, Attempt, TakeEventJob, FindSubscriptions, FindDelivery,
       CreateOrFindDelivery, CheckInitialSend, TakeRetryJob, LoadDelivery, LoadClaim, SaveClaim,
       Send, NextAttemptSequence, InsertAttempt, LoadForOutcome, SaveOutcome, EnqueueRetry,
       RetryTaken, RetryRefused,
       ReadSummary, LoadEvent, FinishJob, Throw, Crash, db
  <1>6. ASSUME NEW x \in Events, EnqueueEvent(x) \/ LoadQueuedEvent(x) \/ AbortRequest(x)
        PROVE  UNCHANGED events
    BY <1>6 DEF EnqueueEvent, LoadQueuedEvent, AbortRequest, db
  <1>7. CASE DetectStalled \/ LoseLock \/ Rest \/ UNCHANGED vars
             \/ \E s \in Subs : UpdateSubscription(s)
    BY <1>1, <1>7 DEF DetectStalled, LoseLock, Rest, vars, UpdateSubscription, db
  <1>8. QED
    BY <1>1, <1>2, <1>3, <1>4, <1>5, <1>6, <1>7 DEF Next, RequestStep

\* What a step does to a handler: one that brings a failure has just read
\* it, or brought it before.
LEMMA HandlerBringsFailure ==
    ASSUME TypeOK, [Next]_vars, NEW w \in Workers, BringsFailure(w)'
    PROVE  \/ BringsFailure(w) /\ mem'[w].job = mem[w].job
           \/ Summary(EventOf(mem[w].job)) = "failed" /\ mem'[w].job = mem[w].job
  <1>1. CASE UNCHANGED <<pc, mem>>
    BY <1>1 DEF BringsFailure
  <1>2. mem[w] \in Locals
    BY DEF TypeOK, WorkersOK
  <1>3. ASSUME NEW v \in Workers, NEW label, NEW m, GoTo(v, label, m), v # w
        PROVE  BringsFailure(w) /\ mem'[w].job = mem[w].job
    BY <1>3 DEF GoTo, BringsFailure, TypeOK, WorkersOK
  <1>4. ASSUME NEW label, NEW m, GoTo(w, label, m)
        PROVE  label \in {"loadevent", "saveevent"} /\ m.target = "failed" /\ mem'[w] = m
    BY <1>4 DEF GoTo, BringsFailure, TypeOK, WorkersOK
  <1>5. ASSUME NEW v \in Workers, WorkerStep(v) \/ Throw(v) \/ Crash(v)
        PROVE  \E label, m : GoTo(v, label, m)
    BY <1>5 DEF WorkerStep, Attempt, TakeEventJob, FindSubscriptions, FindDelivery,
       CreateOrFindDelivery, CheckInitialSend, TakeRetryJob, LoadDelivery, LoadClaim, SaveClaim,
       Send, NextAttemptSequence, InsertAttempt, LoadForOutcome, SaveOutcome, EnqueueRetry,
       RetryTaken, RetryRefused,
       ReadSummary, LoadEvent, SaveEvent, FinishJob, Throw, Crash, Reject, NextInLoop
  <1>6. CASE FindSubscriptions(w)
    <2> DEFINE matched == MatchingSubs[EventOf(mem[w].job)] \cap active
               target == IF matched = {} THEN "completed" ELSE "processing"
               m == [mem[w] EXCEPT !.todo = matched, !.target = target]
    <2>1. GoTo(w, "loadevent", m) /\ m.target = target
      BY <1>2, <1>6 DEF FindSubscriptions, Locals
    <2>2. target # "failed"
      OBVIOUS
    <2> HIDE DEF m, target
    <2>3. QED
      BY <1>4, <2>1, <2>2
  <1>7. CASE ReadSummary(w)
    <2> DEFINE m == [mem[w] EXCEPT !.target = Summary(EventOf(mem[w].job))]
    <2>1. /\ GoTo(w, "loadevent", m)
          /\ m.target = Summary(EventOf(mem[w].job)) /\ m.job = mem[w].job
      BY <1>2, <1>7 DEF ReadSummary, Locals
    <2> HIDE DEF m
    <2>2. QED
      BY <1>4, <2>1
  <1>8. CASE LoadEvent(w)
    <2> DEFINE m == [mem[w] EXCEPT !.event = events[EventOf(mem[w].job)]]
    <2>1. /\ GoTo(w, "saveevent", m) /\ pc[w] = "loadevent"
          /\ m.target = mem[w].target /\ m.job = mem[w].job
      BY <1>2, <1>8 DEF LoadEvent, Locals
    <2> HIDE DEF m
    <2>2. QED
      BY <1>4, <2>1 DEF BringsFailure
  <1>9. ASSUME WorkerStep(w) \/ Throw(w) \/ Crash(w),
               ~ FindSubscriptions(w), ~ ReadSummary(w), ~ LoadEvent(w)
        PROVE  FALSE
    <2> DEFINE Elsewhere == \E label, m : label \notin {"loadevent", "saveevent"} /\ GoTo(w, label, m)
    <2>1. CASE \/ TakeEventJob(w) \/ FindDelivery(w) \/ CreateOrFindDelivery(w)
               \/ CheckInitialSend(w) \/ TakeRetryJob(w) \/ LoadDelivery(w)
      <3>1. Elsewhere
        BY <2>1 DEF TakeEventJob, FindDelivery, CreateOrFindDelivery, CheckInitialSend,
           TakeRetryJob, LoadDelivery, NextInLoop
      <3>2. QED
        BY <1>4, <3>1
    <2>2. CASE LoadClaim(w) \/ SaveClaim(w) \/ Send(w) \/ NextAttemptSequence(w) \/ InsertAttempt(w)
      <3>1. Elsewhere
        BY <2>2 DEF LoadClaim, SaveClaim, Send, NextAttemptSequence, InsertAttempt, Reject
      <3>2. QED
        BY <1>4, <3>1
    <2>3. CASE LoadForOutcome(w) \/ SaveOutcome(w) \/ EnqueueRetry(w)
      <3>1. Elsewhere
        BY <2>3 DEF LoadForOutcome, SaveOutcome, EnqueueRetry, RetryTaken, RetryRefused,
           NextInLoop, Reject
      <3>2. QED
        BY <1>4, <3>1
    <2>4. CASE SaveEvent(w) \/ FinishJob(w) \/ Throw(w) \/ Crash(w)
      <3>1. Elsewhere
        BY <2>4 DEF SaveEvent, FinishJob, Throw, Crash, Reject
      <3>2. QED
        BY <1>4, <3>1
    <2>5. QED
      BY <1>9, <2>1, <2>2, <2>3, <2>4 DEF WorkerStep, Attempt
  <1>10. ASSUME NEW v \in Workers, WorkerStep(v) \/ Throw(v) \/ Crash(v)
         PROVE  \/ BringsFailure(w) /\ mem'[w].job = mem[w].job
                \/ Summary(EventOf(mem[w].job)) = "failed" /\ mem'[w].job = mem[w].job
    <2>1. CASE v = w
      BY <1>6, <1>7, <1>8, <1>9, <1>10, <2>1
    <2>2. CASE v # w
      BY <1>3, <1>5, <1>10, <2>2
    <2>3. QED
      BY <2>1, <2>2
  <1>11. ASSUME NEW e \in Events, InsertEvent(e) \/ RequestStep(e) \/ AbortRequest(e)
         PROVE  UNCHANGED <<pc, mem>>
    BY <1>11 DEF InsertEvent, RequestStep, EnqueueEvent, LoadQueuedEvent, SaveQueuedEvent, AbortRequest
  <1>12. CASE DetectStalled \/ LoseLock \/ Rest \/ UNCHANGED vars
              \/ \E s \in Subs : UpdateSubscription(s)
    BY <1>1, <1>12 DEF DetectStalled, LoseLock, Rest, vars, UpdateSubscription
  <1>13. QED
    BY <1>1, <1>10, <1>11, <1>12 DEF Next

\* Unless a running handler loses its lock, an event is FAILED only on
\* account of a delivery that failed for good, however late its summary is
\* saved.
THEOREM FailureHasACause ==
    ASSUME "lockloss" \notin Faults PROVE Spec => []FailedEventHasFailedDelivery
  <1>1. Init => FailureIsBacked
    BY DEF Init, FailureIsBacked, BringsFailure, AbsentEvent
  <1>2. TypeOK /\ Exclusion /\ Ledger /\ FailureIsBacked /\ [Next]_vars => FailureIsBacked'
    <2> SUFFICES ASSUME TypeOK, Exclusion, Ledger, FailureIsBacked, [Next]_vars
                 PROVE  FailureIsBacked'
      OBVIOUS
    <2>1. ASSUME NEW e \in Events, events'[e].status = "failed"
          PROVE  HasFailedDelivery(e)'
      <3>1. HasFailedDelivery(e)
        BY <2>1, EventStep DEF FailureIsBacked
      <3>2. QED
        BY <3>1, FailureStays
    <2>2. ASSUME NEW w \in Workers, BringsFailure(w)'
          PROVE  HasFailedDelivery(EventOf(mem[w].job))'
      <3>1. PICK e : e = EventOf(mem[w].job)
        OBVIOUS
      <3>2. HasFailedDelivery(e) /\ mem'[w].job = mem[w].job
        BY <2>2, <3>1, HandlerBringsFailure, SummaryOfFailure DEF FailureIsBacked
      <3>3. HasFailedDelivery(e)' /\ e = EventOf(mem[w].job)'
        BY <3>1, <3>2, FailureStays DEF EventOf
      <3>4. QED
        BY <3>3 DEF HasFailedDelivery
    <2>3. QED
      BY <2>1, <2>2 DEF FailureIsBacked
  <1>3. FailureIsBacked => FailedEventHasFailedDelivery
    BY DEF FailureIsBacked, FailedEventHasFailedDelivery, HasFailedDelivery
  <1>4. QED
    BY <1>1, <1>2, <1>3, TypeCorrect, ExclusionIsInvariant, LedgerIsInvariant, PTL DEF Spec
===============================================================================
