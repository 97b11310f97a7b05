# Event-driven notification platform: TLA+ models, checks and proofs

The platform accepts events over HTTP, fans each one out to the active
subscriptions of its type, sends one notification per subscription through a
provider, retries failures with exponential backoff, and keeps the state of
everything in PostgreSQL. Redis (BullMQ) carries the work between an API
process, any number of event-processing workers and any number of
delivery-retry workers. Nothing runs in a database transaction, no row is
locked, and every write of a row is "load, change the copy, save all of it".
What keeps a notification from being sent twice are two eligibility tests on
copies of rows, the ids of jobs, and the locks BullMQ puts on jobs. This
development says what that buys and what it does not.

Paths below are relative to `src/src` of the repository, `docs/..` to its docs.

## 1. Inventory

| Part | State | Operations | Modelled in |
|---|---|---|---|
| Event ingestion (`modules/events/services/event.service.ts`) | none of its own | `createEvent`: insert ACCEPTED, add the job, `markQueued` | `NotificationPipeline` |
| Events (`modules/events/repositories`) | row: status, queuedAt, finalizedAt | `createAcceptedEvent`, `markQueued`, `markProcessing`, `markCompleted`, `markFailed` | `DeliveryRules`, `NotificationPipeline` |
| Deliveries (`modules/deliveries`) | row: status, attemptCount, retryCount, maxRetryLimit, nextRetryAt; unique (event, subscription) | `findOrCreate`, `markProcessing`, `markRetrying`, `markSucceeded`, `markFailed`, `getEventDeliverySummary` | `DeliveryRules`, `NotificationPipeline` |
| Delivery attempts (`modules/delivery-attempts`) | rows numbered by attemptSequence; unique (delivery, sequence) | `createNextAttempt` | `NotificationPipeline` |
| Event-processing worker (`workers/event-processing.worker.ts`) | locals of its handler | find subscriptions, mark the event, loop: find or create, test, attempt; summarise | `NotificationPipeline` |
| Delivery-retry worker (`workers/delivery-retry.worker.ts`) | locals of its handler | load the delivery, test, attempt; summarise | `NotificationPipeline` |
| Attempt (`workers/delivery-execution.ts`) | locals | claim, send, record the attempt, record the outcome, add the retry job | `NotificationPipeline` |
| Classification, retry policy (`modules/deliveries/services`) | none | reply to category to retryable; retry or give up; delay | `DeliveryRules`, `RetrySchedule` |
| Providers (`providers`) | none | `send`; only the webhook one can fail | `RetrySchedule` |
| Queues (`config/bullmq.ts`, `queues/producers`) | Redis: jobs by id | add, take, finish, stall | `JobQueue` |
| Subscriptions (`modules/subscriptions`) | row: status, event type, channel, target | create, PATCH, lookup by the event worker, list | `Subscriptions`; the list in `PagedListing`; for the pipeline, the status |
| Bootstrap and shutdown (`server.ts`, the ends of the worker modules, `config`) | the process: what is open, what runs | open connections, take work, stop on a signal | `GracefulStop` |
| Lists and cursors (`utils/pagination.util.ts`, the `list*` methods) | none; the client holds the cursor | read a page | `PagedListing` |
| Inspection (`delivery-inspection.service.ts`, controllers) | none | the lists; queries for one row, redaction | the lists only |
| HTTP boundary, environment, signing | none | validation, API keys, error mapping, HMAC | not modelled |

**Interactions.** The API writes the event row and then adds an event job; the
event worker reads the row the job names. Both workers read and write the same
event and delivery rows, and both add retry jobs. The administrator changes
subscriptions that the event worker reads. The only thing that passes from one
handler to the next is a row and the retry count in a job's id.

**Hard behaviours.** Every `await` on the database, the queue or a provider
is a place where any other process may run. A worker process may die between
any two awaits, an await may reject, BullMQ may give a job to another worker
while the first still runs it; the API may fail between its insert and its
add; subscriptions change under a job that is run again, and under each
other; an endpoint may take a notification in and its reply get lost; a
process is told to stop, perhaps twice, with handlers at work.

**What makes the parts correct.**

- Delivery: sent again only after a retryable failure; at most
  `maxRetryLimit + 1` sends; terminal states are final; the claim's copy stays
  right while it is used; never two attempts at a time; eventually resolved.
- Attempts: rows are the provider calls that were made, in order.
- Jobs: never ahead of the database; a RETRYING delivery has its job, or there
  is a failed job that says why not.
- Event: its status is the summary of its deliveries; FAILED only because of
  a failed delivery; every recorded event is queued.
- Retry policy: attempts back off; the announced time is honest; a delivery
  is given up only for a reason.
- Subscriptions: targets fit their channels whatever edits overlap; an edit
  undoes only what was written since it loaded the row; an untouched
  subscription is matched exactly; all attempts of a delivery go to one place.
- Shutdown: no handler is cut off; a process that is told to stop does.
- Lists: a walk through the pages misses nothing that kept its place, and sees
  a row twice only because of a change.

`PROJECT.json` lists, under "hazards", each place where one of these could go
wrong and a test would hardly reach, with the properties that watch over it.

## 2. Modules

| Module | What it holds |
|---|---|
| `DeliveryRules` | Rows, what each repository method does to the copy it has loaded, the two eligibility tests, the retry decision, the event summary. No state. |
| `JobQueue` | BullMQ, as operators on a function from job ids to job records. External: written from how the code uses it. `RetryIdAnswers` says what it may do with the id of a retry job: take it, refuse it, or either. |
| `NotificationPipeline` | The state machine of API, workers, queues and tables. One action per await. |
| `PipelineProperties` | Type invariant, invariants, liveness, the refinement mapping. |
| `DeliveryLifecycle` | The abstract specification: what is promised for a delivery, with no workers, queues or copies in sight. |
| `RetrySchedule` | One delivery against one endpoint, with real replies and a clock. |
| `PagedListing` | A client that walks through a list while rows are inserted and updated, and rows of equal key change places. |
| `Subscriptions` | Create and PATCH requests that overlap, and the event that is matched and sent meanwhile. |
| `GracefulStop` | One process from bootstrap to exit: connections, handlers, signals. |
| `MCPipeline`, `MCRetrySchedule`, `MCPagedListing`, `MCSubscriptions`, `MCGracefulStop` | Instances for TLC. |
| `PipelineProofs`, `ExclusionProofs`, `LedgerProofs`, `JobProofs` | Theorems about the pipeline, each module on top of the one before. |
| `RetryScheduleProofs` | All properties of `RetrySchedule`. |
| `PagedListingProofs` | All properties of `PagedListing`. |
| `SubscriptionsProofs` | All properties of `Subscriptions`. |
| `GracefulStopProofs` | Theorems about a process that stops. |

`NotificationPipeline` is composed of `DeliveryRules` and `JobQueue`, and
implements `DeliveryLifecycle`. `RetrySchedule`, `Subscriptions`,
`PagedListing` and `GracefulStop` each take one thing the pipeline abstracts
(replies and time, the row of a subscription, what is read from outside, the
process itself) and model that in full.

### How `NotificationPipeline` corresponds to the code

*State.* `events`, `deliveries`, `attempts` and `active` are the tables. A
delivery is named by its unique key `<<event, subscription>>`, an attempt by
its sequence number. `jobs` holds every job ever added, of both queues, under
`<<queue, subject, retry count>>`. For retry jobs this is what their producer
builds the job id from; the event producer sets no id, but it is called once
per event, whose id is new, so a job per event is what its queue holds. `api` and `apiEvent` are where `createEvent` stands and the row
`markQueued` has loaded. `pc[w]` names the await a worker is about to make and
`mem[w]` holds the locals of its handler. `sent` is a history variable: the
outcomes of the provider calls made for each delivery.

*Actions.* A handler is a chain of steps, each of which is what the code does
from one await to the next:

    TakeEventJob - FindSubscriptions - LoadEvent - SaveEvent
      - loop: FindDelivery [- CreateOrFindDelivery] - CheckInitialSend [- attempt]
      - ReadSummary - LoadEvent - SaveEvent - FinishJob
    TakeRetryJob - LoadDelivery [- attempt] - ReadSummary - LoadEvent
      - SaveEvent - FinishJob
    attempt: LoadClaim - SaveClaim - Send - NextAttemptSequence - InsertAttempt
      - LoadForOutcome - SaveOutcome [- EnqueueRetry]

`EnqueueRetry` has two outcomes. When the queue takes the id the handler goes
on (`RetryTaken`); when it refuses it the await rejects, the handler ends there
and its job fails (`RetryRefused`), after RETRYING was saved. The constant
`RetryIdAnswers` has the outcomes that are possible.

With no subscription left the first `SaveEvent` marks the event COMPLETED and
the handler ends. `Throw` is a rejected await at any of these places, `Crash`
the death of the process, `DetectStalled` BullMQ's check for jobs whose owner
is gone, `LoseLock` the same for an owner that is still running. Each mode of
failure is switched on by an element of the constant `Faults`.

*Abstractions, and why they are safe.*

- Two awaits are merged when the second reads only columns nobody writes
  (`getStoredEventById` after `getDeliveryById`), or when the unique key makes
  the sequence behave as one step (`findOrCreate`: find, insert, find again
  after a violation).
- TypeORM's `save` of a loaded entity is the overwrite of the whole row by the
  copy. `save` compares with the row first and updates the columns that
  differ, so the effect is that of the whole copy, except within the two
  statements of `save` itself.
- A rejected await is modelled without its effect and, by the next step
  followed by `Throw`, with it.
- A provider call is one step with any of three outcomes: success, a failure
  the policy may retry, one it must not. `RetrySchedule` says which replies
  are which. A call that never answers is a worker that crashes or loses its
  lock; the code sets no timeout on it.
- A delayed job is a waiting one: the pipeline's properties hold however
  early or late retries come. `RetrySchedule` has the clock.
- Whether BullMQ accepts an id is not something `src` can tell. The code is
  written as if it did. The id of a retry job, `delivery-retry:<uuid>:retry:<n>`
  (`delivery-retry.producer.ts:13-14`), has four parts between colons, and
  BullMQ 5 (`package-lock.json` resolves 5.71.0) throws "Custom Id cannot
  contain :" unless there are exactly three. This is known from BullMQ itself,
  whose source is not in the repository; the repository's tests replace the
  producer by a double and do not show it. `RetryIdAnswers = {"refused"}` is
  this version, `{"taken"}` is what the code relies on, and with both answers
  each add may go either way. The theorems hold for all three.
- Finished jobs stay in `jobs`. The code keeps the last 1000 of them.
- "Not found" branches of the handlers have no step of their own. The guards
  `Exists(...)` stand for them, and `JobsReferToRows` shows that they are
  never taken: nothing in the code deletes a row.

*Mutants.* The definitions marked "Mutant" next to a definition change it the
way a bug would. `PROJECT.json` pairs each property of each passing run with
one that violates it.

### How `RetrySchedule` corresponds to the code

The module is about a queue that takes the retry job (`"taken"` in
`RetryIdAnswers`); with one that refuses it a delivery is sent once.
`ClassifyFailure` is `classifyFailure` of the webhook provider together with
the category `executeDeliveryAttempt` gives to what a provider throws;
`NormalizeCategory` and `IsRetryable` are the classification service;
`CalculateDelay` is `calculateDelayMs`. `attemptedAt` is read before the claim,
so the announced `nextRetryAt` counts from there, while the delay of the job
counts from when it is added: `AnnouncedRetryIsHonest` is about the two
clocks. Any step may be preceded by up to `MaxPause` units of time. The reply
`<<"lost">>` is a connection that breaks after the endpoint has taken the
notification in: `fetch` throws, the provider reports `network_error`, and
the notification is sent again. `DuplicatesComeFromLostReplies` says that
nothing else makes an endpoint receive one twice.

### How `Subscriptions` corresponds to the code

`rows` is the table. A request is an element of `Requests`, `pc` and `mem` are
where its handler stands and the copy it holds. `CreateSubscription` is
`createSubscription` (validate, insert). A PATCH is `LoadSubscription`
(`findById`, 404, `validateTargetForChannel` against the channel of the row,
the assignments of `update`), `CompareSubscription` and `WriteSubscription`,
the two statements of TypeORM's `save`: it selects the row once more and
writes the columns in which the copy differs. `overtaken` is history: the
fields others have written since a request loaded its row.

An event passes through `AcceptEvent` (the answer to `POST /events`), `LookUp`
(`findActiveSubscriptionsByEventType`; no match ends the handler with
COMPLETED), one `GetOrCreateDelivery` per subscription of the lookup, with the
copy the lookup returned, and `RepeatJob`, after which the lookup is made
again. `Send` is any attempt, at any time: the channel and target stored with
the delivery are what the provider is given. `settled` is history: for each
event, the subscriptions that no request was holding when the event was
accepted or has loaded since. For those `SettledSubscriptionsDecide` is exact.
For the others either answer is right, as before or as after the edit.

Targets are elements of a set with the channels whose pattern they match
(`FitsChannels`); the two regular expressions and the URL test are external to
it. The order of the lookup, by `createdAt`, makes no difference here;
`NotificationPipeline` has it.

### How `GracefulStop` corresponds to the code

The module is the life of one process; `role` says whether it is the API
server or a worker. `BootOrder` and `CloseOrder` are the statements of
`bootstrap` and `shutdown` in `server.ts`, `event-processing.worker.ts` and
`delivery-retry.worker.ts`, in order; `Needs` is what the awaits of a handler
use, in order. An await on something that is closed, or not open yet, fails the
handler; `Exit` kills what is running. `Signal` starts a run of `shutdown`,
any number of them beside each other, since nothing in the code stops a
second one. `CloseTwice` is the one place where two runs meet badly: a
connection that is closing is closed again, which may reject, and an
unhandled rejection ends the process. By then the intake has drained, which
is why `NoWorkIsCutOff` holds all the same.

`held` is what the close of the intake waits for. For a worker these are its
running handlers (BullMQ's `Worker.close`); for the API server they are open
connections (`server.close`), so a request whose client goes away is no longer
waited for while its handler goes on (`Leave`). `NoWorkIsCutOff` excepts
exactly those.

### How `PagedListing` corresponds to the code

Each page is a query of its own with `skip` and `take`; the cursor is an
offset. `order` is the list by ascending key, `Query` the `skip`/`take` of the
`list*` methods, `FinalizePage` is `finalizeCursorPagination` and `TakeOf` the
extra row of `resolveCursorPagination`. `Insert` puts a row anywhere, since
the time in its key is taken before the insert by one of several processes.
That includes the attempts of one delivery: `attemptedAt` is taken before the
claim (`delivery-execution.ts:73`) and the row is inserted after the provider
call, so handlers that overlap after a lost lock, and hosts whose clocks
differ, record attempts in another order. `AttemptHistoryIsExact` is therefore
about histories that were recorded in order (`RecordedInOrder`), which is what
`Exclusion` and one clock give. `Save` moves a row in the lists whose key is
`updatedAt` or `lastProcessedAt` (null until processed, which sorts as newest).

Behind the key the events and deliveries are ordered by id and the attempts by
sequence number, so their order is fixed. The subscriptions are ordered by
`createdAt` alone (`subscription.repository.ts:64`), and PostgreSQL owes equal
rows no order: the rows of that list have a `createdAt` (from the set `Times`),
and `Exchange` is the moment from which the database returns two neighbours of
equal `createdAt` the other way round. `moved` has the rows that were updated or
exchanged.

Which of the sort orders give which guarantee is what `PushesBack`
says: keys that never change, and `updatedAt:desc`. In the other orders a row
that moves past the reader pulls others after it, and those can be missed; the
same goes for a filter on a status, which rows leave (not modelled).

## 3. Runs

| Run | Instance | States | Shows |
|---|---|---|---|
| `faults` | 1 event, 1 subscription, 2 workers per role, 1 retry, crashes, rejections, API crash, administrator, fairness | 442k | `TypeOK`, `ResentOnlyAfterRetryableFailure`, `RetryBudget`, `AttemptLedger`, `JobsReferToRows`, `RetriesAreRecorded`, `ClaimHolds`, `OneAttemptAtATime`, `Exclusion`, `Ledger`, `LostRetryLeavesTrace`, `ImplementsLifecycle`, `QueuesDrain` |
| `fan_out` | 2 subscriptions, 1 worker per role, 1 retry, crashes | 2.9M | the loop and the retry worker side by side: `ResentOnlyAfterRetryableFailure`, `AttemptLedger`, `FailedEventHasFailedDelivery`, `ImplementsLifecycle` |
| `overlap` | 2 event workers, 1 retry worker, lost locks, crashes, every send fails | 2.8M | what is left when two handlers of one delivery overlap: `JobsReferToRows`, `NoInventedAttempt`, `SendsAreBounded`, `UnrecordedSendsLeaveTrace` |
| `progress` | 2 subscriptions, 2 retries, each retry id taken or refused, no other fault, fairness | 109k | `RetryingIsAccountedFor`, `EveryMatchIsResolved` |
| `subscriptions` | 4 requests, 2 subscriptions, 2 event types, 2 channels, 4 targets, 1 event | 688k | `TypeOK`, `TargetsFit`, `SettledSubscriptionsDecide`, `OneDestinationPerDelivery`, `EditsCompose` |
| `graceful_stop` | either role, 3 requests or jobs, 2 signals, fairness | 41k | `TypeOK`, `NoWorkIsCutOff`, `StopsWhenTold` |
| `retry_schedule` | 3 retries, 13 replies, pauses up to 2 | 267k | `AttemptsBackOff`, `AnnouncedRetryIsHonest`, `GivenUpForAReason`, `DuplicatesComeFromLostReplies` |
| `paged_listing` | 4 rows, up to 3 changes, 2 values of `createdAt`, pages of 1 to 3, every list and order | 802k | `NothingSettledIsMissed`, `RepeatsAreAccountedFor`, `AttemptHistoryIsExact` |
| `late_queued`, `crash_strands`, `accepted_not_queued`, `retry_refused` | smallest that shows it | - | the disagreements of section 4 |

**Retry ids.** In `retry_refused` the queue refuses the ids of retry jobs,
which is what the locked version of BullMQ does, and in `progress` each add of a
retry job may be taken or refused, so that its two properties are about either
kind of queue and any mixture of them. The other runs of the pipeline have a
queue that takes the ids: that is the system the code means to be, and its
retry worker never runs otherwise. The behaviours of a queue that refuses are
among those with rejected awaits (`Throw` at the same place has the same
effect), so the safety properties of `faults` cover it as well, and so does
`QueuesDrain`, as no fairness keeps an await from being rejected.

Deadlock is checked in every run. `Rest` is a stuttering step allowed only
where the system really may stop: nothing requested, nothing running and no
job left to run (`RetrySchedule`: the delivery is resolved; `PagedListing`: the
walk is over; `Subscriptions`: every request is answered and the event
processed; `GracefulStop`: the process has exited).

**Why these bounds are enough.** Handlers interact only through the rows of one
event and its deliveries, and events share nothing but subscriptions, so one
event suffices. Two subscriptions give the loop a delivery whose retry can run
while the other is still to be made; two workers per role give each handler a
rival. One retry gives every kind of job; two make a second id for the same
delivery. `MaxStalledCount = 1` is BullMQ's default, which the code does not
change. In `overlap` all outcomes are retryable since that makes the most
sends, and the workers of a role are interchangeable (they only appear as
owners and as indices of `pc` and `mem`), so symmetry is sound: the run has
invariants only. In `paged_listing` four rows and pages of one to three give
walks of up to four pages, with a last page that is full and one that is not,
and three changes are enough to shift the list by a whole page; two values of
`createdAt` for four rows give ties at a page boundary and inside a page. In
`subscriptions` two requests can overlap on a row while a third edits the
other one, a fourth can be the one that creates it, and every target has
another valid and an invalid one beside it; requests and ids are
interchangeable, and only safety is checked, so symmetry is sound. In
`graceful_stop` three tasks can stand at three different awaits, and two
signals are the two the code listens to.

**Lost locks.** `faults` has every fault but a lock lost by a handler that is
still running. With that, two handlers of one delivery overlap, and
`ResentOnlyAfterRetryableFailure`, `RetryBudget`, `AttemptLedger`,
`ClaimHolds` and the refinement fail, and a call may have no attempt row
(section 4). `overlap` checks what remains: sends are bounded, rows are never
made up, and a call without a row is accounted for by a handler about to insert
it or by a run of a job that was cut short (`UnrecordedSendsLeaveTrace`).

**Fairness.** `FairSpec` has weak fairness of `RequestStep(e)` for each
request (an API process that is running goes on), of `WorkerStep(w)` for each
worker (processes are restarted and an idle BullMQ worker takes a job when
there is one) and of `DetectStalled` (BullMQ runs the check periodically).
No producer, fault, administrator or provider outcome is owed anything. A
worker may still fail at every job, and `QueuesDrain` in `faults` shows that the queues drain
all the same: a stalled job is repeated a bounded number of times and a job
whose handler rejects is not repeated at all.

The `FairSpec` of `GracefulStop` has weak fairness of `Proceed(t)` (the awaits
of a handler end; the provider call does because `fetch` gives up after
timeouts of its own), of `FinishClose(c)` (a close ends once what it waits for
is over) and of `EndConnection(t)` (a Node HTTP server closes connections that
wait for nothing, at `server.close` or after `keepAliveTimeout`). That awaits
end is an assumption about the database and Redis as well: with
`maxRetriesPerRequest: null` (`config/redis.ts:8`) a command waits for as long as
Redis is down, and a process that is told to stop waits with it. No client,
no signal and no fault is owed.

## 4. Where code and documents disagree

Each is a run that TLC ends with a counterexample.

- `late_queued`: `createEvent` adds the job and only then calls `markQueued`,
  which overwrites whatever status the row has. A worker that was quick has
  its COMPLETED replaced by QUEUED for good, though "event status is
  summarized from its derived delivery states" (`README.md:72`).
- `crash_strands`: a worker that dies after the claim leaves its delivery
  PROCESSING; the repeated job passes over it and completes
  (`docs/06-queue-and-worker-design.md:200`: "able to resume from durable
  state"). The price of never sending twice.
- `accepted_not_queued`: the event is inserted and then its job is added. If the
  request fails in between, nothing will ever process the event (`docs/02-user-stories-and-requirements.md:272`, FR-05).
- `retry_refused`: RETRYING is saved before the retry job is added, and adding
  it rejects, with the locked version of BullMQ every time (section 2). The
  delivery waits for ever, though "retryable failures schedule delayed
  `delivery-retry` jobs" (`README.md:71`). The same happens with any queue when
  the add fails or the process dies in between; `LostRetryLeavesTrace` and
  `RetryingIsAccountedFor` say where to look for such deliveries: at the failed
  and stalled jobs.

Further disagreements, without a run of their own:

- The summary of an event is read in one step and saved in another, unordered
  against the other worker (`delivery-execution.ts:165-189`). The retry worker can
  read "all succeeded" while the event worker is still going to make a second
  delivery, and save COMPLETED after the event worker has saved FAILED: a second
  way to violate `EventStatusIsSummary`
  (`docs/06-queue-and-worker-design.md:195`: "a stable summary state once all
  derived deliveries are resolved"). It takes a retry worker with something to
  do, so a queue that takes retry ids. That an event is FAILED without a failed
  delivery is impossible (`FailedEventHasFailedDelivery`).
- An attempt is recorded after its provider call. When two handlers of one
  delivery overlap, after a lost lock, and take the same sequence number, the
  second insert fails and its call has no row; a crash between call and insert
  does the same. "A `DeliveryAttempt` record is created for every real send
  attempt" (`README.md:69`; FR-13 in docs/02) is therefore not so.
  `NoInventedAttempt` (never more rows than calls) and
  `UnrecordedSendsLeaveTrace` are what holds.
- An await that rejects in the loop of the event worker ends the loop, and
  BullMQ does not run the job again. Subscriptions that come later never get a
  delivery, though the system shall "create delivery records for all eligible
  notifications" (`docs/02-user-stories-and-requirements.md:277`, FR-10). With a
  queue that refuses retry ids one retryable failure is enough. This is why
  `EveryMatchIsResolved` has its second alternative: the event job is then on
  record as failed.
- A webhook that answers 429 is given up at once, since `status >= 400` is a
  rejected request (`webhook.provider.ts:101`), while
  `docs/06-queue-and-worker-design.md:287` counts throttling among the failures
  that are usually retryable. `GivenUpForAReason` describes what the code does.
- A walk through the subscriptions may see one of two rows of equal `createdAt`
  twice and the other not at all, with nothing written meanwhile
  (`subscription.repository.ts:64`; `docs/05-api-specification.md:672`: "list
  endpoints should support consistent query behavior"). `RepeatsAreAccountedFor`
  and `NothingSettledIsMissed` allow for these exchanges and nothing else.
- The later of two overlapping PATCH requests may undo the earlier, answered
  one: a deactivation (`docs/02-user-stories-and-requirements.md:176`) is
  undone by a change of the target that loaded the row before and whose save
  compares after it. `EditsCompose` says that nothing else can undo an edit.
- A client that gives up on `POST /events` while the API server is being
  stopped may leave an event that is recorded and not queued; see
  `NoWorkIsCutOff`.
- An event job that is run again after its only subscription was deactivated
  marks its event COMPLETED over a delivery that is still PROCESSING.

## 5. Proofs

All hold for every value of the constants: any sets of events, subscriptions,
workers, requests or tasks, any retry limit and stall limit. They rest on the
assumptions named in the modules: retry and stall limits are naturals,
subscriptions are a finite set of naturals, the roles share no worker,
`NoWorker` is none, `RetryIdAnswers` has at least one of its two answers,
outcomes and faults are of the listed kinds; in
`Subscriptions`, what a target fits and the type of an event are functions and
`Nothing` is no row; in `RetrySchedule`, the base delay is positive and a reply
is a status from 100 to 599, a network error, a lost reply or a thrown error;
in `PagedListing`, page sizes are positive and times are naturals. Every safety property that a run
checks and finds to hold is the subject of a theorem.

- **`TypeCorrect`** (`PipelineProofs`): `Spec => []TypeOK`. `TypeOK` is
  inductive as it stands because it says, for each await, which locals are set
  (`LocalsOK`), and that the job a handler runs is known to the queue. One
  lemma covers each action that moves a worker.
- **`JobsAreBacked`** (`PipelineProofs`): `Spec => []JobsReferToRows`, whatever
  fails. Strengthened by two facts: a request past its insert has its row
  (`RequestsHaveRows`), and a handler about to add a retry job has a delivery
  that exists and a retry count within the limit (`EnqueuersHaveRows`). The
  other ingredient is that no step makes a row absent again; this takes the
  stale copies into account, which are copies of rows that were there.
- **`AttemptsExclude`**, **`ClaimsHold`**, **`RetriesRecorded`**
  (`ExclusionProofs`): if no running handler loses its lock, then
  `OneAttemptAtATime`, `ClaimHolds` and `RetriesAreRecorded` always hold, for
  any number of workers that crash and fail. The inductive invariant is
  `Exclusion` (**`ExclusionIsInvariant`**), which the run `faults` checks: every handler
  owns its job, so there is one handler per job; a delivery that is PENDING can only be engaged
  through its event's job and one that is RETRYING only through the job of its
  retry count, so there is one handler per delivery; so the copy a handler
  holds is the row, and saving it loses nothing. That a retry job about to be
  added is a new one closes the circle: a handler of the old job cannot
  come back for the new retry. `lockloss` is excluded because the conclusion is
  false with it.

- **`LedgerIsInvariant`** (`LedgerProofs`): under the same assumption
  `Spec => []Ledger`. `Ledger` relates, for each delivery, the row to the calls
  made and the attempts recorded, and, for each handler in an attempt, its
  label to how far those have got. It is inductive relative to `Exclusion`:
  because a handler is alone with its delivery and its copy is the row, a step
  changes the books of one delivery only (`OneEntry`), and all other steps
  leave them alone (`NoEntry`). From it follow **`BudgetIsKept`**
  (`RetryBudget`), **`ResentForAReason`**
  (`ResentOnlyAfterRetryableFailure`), **`LedgerAgrees`** (`AttemptLedger`) and
  **`PipelineImplementsLifecycle`** (`ImplementsLifecycle`): initial states map
  to initial states, and each of the four steps that write a delivery or an
  attempt is a step of `DeliveryLifecycle` or a stutter, every other step is a
  stutter.
- **`FailureHasACause`** (`LedgerProofs`): under the same assumption
  `FailedEventHasFailedDelivery`. The summary is saved awaits after it was
  read; the invariant `FailureIsBacked` therefore also covers handlers that
  bring "failed" to an event. That a failed delivery stays one is taken from
  the refinement, where terminal is final.
- **`AttemptsAreReal`**, **`SendsStayBounded`** (`JobProofs`):
  `NoInventedAttempt` and `SendsAreBounded`, whatever fails. With lost locks
  nothing excludes a second handler of the same delivery, so neither `Exclusion`
  nor `Ledger` is of use, and both invariants count. `CallsCoverReports`: the
  attempts of one outcome on record, and the handlers that have made such a call
  and not written it, are at most the calls that ended so. `RunsCoverSends`: the
  calls made for a delivery, and the handlers that may yet make one, are at most
  the runs that have begun of the jobs about it (a handler may yet send a
  delivery if it has not matched the subscriptions, has this one on its list, or
  works on it and has not called the provider). Taking a job begins a run and
  adds one handler, calling the provider turns a handler into a call, and a job
  that stalls keeps the runs it has had.
- **`UnrecordedSendsAreTraceable`** (`JobProofs`): `UnrecordedSendsLeaveTrace`,
  whatever fails. The invariant `TracesCoverSends` counts once more: the calls
  made for a delivery, and the handlers that may yet make one although they have
  lost their job (`Strays`), are at most its attempt rows, the handlers between
  the call and their insert that still have their job (`Reporters`), and the
  runs that were cut short (`LostRuns`). A handler that still has awaits
  to make loses its job only when the job stalls or the handler rejects or dies,
  and that cuts its run short:
  so a handler that becomes a stray, or stops being a reporter without a row,
  adds a lost run.
- **`LostRetriesAreTraceable`** (`JobProofs`): `LostRetryLeavesTrace`, if no running
  handler loses its lock. The invariant `Scheduled` says that a retry job that
  has completed or is past its claim is not due any more, and that a due retry
  has a job, or a handler about to add it, or was ordered by a job that was
  interrupted. **`RetriesAreAccountedFor`** (`RetryingIsAccountedFor`) adds that
  where nothing fails only a refused id interrupts a job (`OnlyRefusalsFail`): a
  RETRYING delivery has its job to come, or, if the queue may refuse retry ids,
  the job whose handler asked for it has failed. It holds for every
  `RetryIdAnswers`; the claim without the second alternative,
  `RetryingIsScheduled`, is false of a queue that refuses (`retry_refused`).
- **`RetriesBackOff`**, **`AnnouncementsAreHonest`**, **`GivingUpHasAReason`**,
  **`LostRepliesExplainDuplicates`** (`RetryScheduleProofs`): the four properties
  of `RetrySchedule` for any limit, delay, pause and set of replies. `Schedule`
  says where a delivery stands in each phase (`Tally`: how many attempts were
  started and answered for its retry count, and that all answers but the last
  were retryable; `Times`: how the clock, the last attempt, `nextRetryAt` and
  the due time relate). The provers know nothing of powers; that a delay doubles
  is proved from the number of subsets of `1..n` (`PowerDoubles`).
- **`NothingIsMissed`**, **`RepeatsAreFew`**, **`HistoriesAreExact`**
  (`PagedListingProofs`): the three properties of `PagedListing` for any page
  sizes, rows and changes. Lemmas first say what the list operators do to
  each position: an insert puts in one row (`Inserted`), a save moves one
  (`SaveMovesOne`) and an exchange of neighbours moves one by one place
  (`ExchangeMovesOne`), seen from either end; a page appends the rows behind the offset
  (`Reads`). The invariant is `Walk`. `SettledRead`: what lies before the offset
  was received, updated or exchanged, if rows only move away from the reader, and
  a walk ends at the end of the list. `RepeatsCovered`: the rows received, and those of
  them that lie behind the offset and so can come again, are at most the
  different rows received and the changes; a change brings at most one row
  behind the offset, and a page that repeats rows takes them away from behind it.
  `AttemptsInOrder`: in a list recorded in order the offset is the number of rows
  received; a list that is out of order never comes into order again.
- **`SubscriptionTypes`**, **`TargetsAlwaysFit`**, **`DestinationIsFixed`**,
  **`EditsAlwaysCompose`**, **`SettledAlwaysDecide`** (`SubscriptionsProofs`):
  `TypeOK`, `TargetsFit`, `OneDestinationPerDelivery`, `EditsCompose` and
  `SettledSubscriptionsDecide` for any number of overlapping requests and of
  events. Three invariants say what copies are good for. `FitInv`: the copy of
  a PATCH, of the event worker and of a delivery has a target that fits the
  channel, and the copy of a PATCH has the channel of its row, so any mixture
  of row and copy that a save writes fits. `StaleWhereOvertaken`: outside the
  fields others have written since, a PATCH's copy differs from the row only in
  what was asked for, and what is to be saved is exactly where it differs.
  `SettledInv`: no request is about to write a settled subscription, the event
  worker's copy of it is its row, and in the loop a match is still to be done
  or has its delivery.
- **`TypesHold`**, **`NothingIsCutOff`** (`GracefulStopProofs`): `TypeOK` and
  `NoWorkIsCutOff` for any number of tasks and signals. The inductive invariant
  `StopInv` says what is open while booting, while running (everything whose
  place in `CloseOrder` no run of shutdown has reached) and at the exit, and
  that no run is past the intake while a handler whose client has not left
  still runs.

**Only model-checked:** liveness (`QueuesDrain`, `EveryMatchIsResolved`,
`StopsWhenTold`), which is out of the proof system's reach. That the
violations listed in section 4 occur is what their runs show; there is nothing
to prove.

## 6. Not modelled

- The limits of `Date` and of BullMQ delays for very large retry limits, and a
  retry limit that is reconfigured: it is copied into a delivery when that is
  created, and one instance of the model has one limit.
- Lists filtered by a status, and that TypeORM counts, or loads joined rows, in
  a second query for the same page.
- Eviction of finished jobs. It would matter if an id came again;
  `RetriesAreRecorded` and `Exclusion` say it does not.
- What several processes that synchronise the schema at the same time do to
  each other (`synchronize: true` in `config/database.ts`): a matter of TypeORM
  and PostgreSQL.
- Queries for one row, redaction, the HTTP boundary, the parsing of the
  environment and signing: no state, and nothing else depends on them.

## 7. Plan

1. (done) Pipeline, lifecycle, schedule with lost replies, lists,
   subscriptions, bootstrap and shutdown.
2. (done) Type correctness, durability, exclusion, ledger, refinement, the
   reason of a FAILED event; what holds with lost locks; where a lost retry and an
   unrecorded call leave their traces, for queues that take retry ids and queues
   that refuse them; the properties of `Subscriptions`, `RetrySchedule` and
   `PagedListing`; type correctness and `NoWorkIsCutOff` of a process that stops.
3. Proofs still worth having: the safety half of the liveness properties, as
   measures that a step can only lower (runs left to a job, handlers left to a
   signal), so that what TLC checks for `QueuesDrain` and `StopsWhenTold` rests on
   fairness alone.
