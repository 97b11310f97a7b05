----------------------------- MODULE GracefulStop -----------------------------
(***************************************************************************)
(* One process of the platform, from its bootstrap to its exit: the API    *)
(* server, or one of the two workers, which boot and stop in the same way. *)
(*                                                                         *)
(* A process opens its connections one after the other and then begins to  *)
(* take work.  On SIGINT or SIGTERM its shutdown function stops the intake *)
(* (server.close, worker.close), waits until that has drained, closes what *)
(* the handlers were using, each close an await, and exits.  Nothing keeps *)
(* a second signal from starting a second shutdown beside the first.       *)
(*                                                                         *)
(* What draining means is not the same everywhere: a BullMQ worker waits   *)
(* for its handlers, an HTTP server waits for its connections.             *)
(***************************************************************************)
EXTENDS Naturals, Sequences

CONSTANTS Roles,    \* the kinds of process to consider
          Tasks,    \* requests or jobs that may come
          Signals   \* signals that may come

ASSUME RolesAssumption == Roles \subseteq {"api", "worker"}

Resources == {"database", "redis", "queue", "intake"}

\* What bootstrap opens, in order.  "redis" is the connection that only the
\* API server has, for its ping; "queue" is the one handlers add jobs to.
BootOrder(r) ==
    IF r = "api" THEN <<"database", "redis", "queue", "intake">>
                 ELSE <<"database", "queue", "intake">>

\* Mutant: the queue is closed before the handlers that use it are done.
CloseOrderQueueFirst(r) ==
    IF r = "api" THEN <<"queue", "intake", "redis", "database">>
                 ELSE <<"queue", "intake", "database">>

\* What shutdown closes, in order.
CloseOrder(r) ==
    IF r = "api" THEN <<"intake", "queue", "redis", "database">>
                 ELSE <<"intake", "queue", "database">>

\* What the awaits of a handler need, in order.  The API server runs
\* createEvent: insert, add the job, load, mark QUEUED.  A worker runs an
\* attempt that has to be retried: claim, call the provider, record, add the
\* retry job, summarise.
Needs(r) ==
    IF r = "api" THEN <<"database", "queue", "database", "database">>
                 ELSE <<"database", "provider", "database", "queue", "database">>

VARIABLES
    role,    \* the kind of process
    state,   \* of the process
    open,    \* resources that can be used
    call,    \* the close each run of shutdown awaits: a place in CloseOrder
    status,  \* of each task
    step,    \* the await a running task is at: a place in Needs
    held,    \* tasks the intake waits for before it has drained
    left     \* history: tasks whose client went away before the answer

taskVars == <<status, step, held, left>>
vars == <<role, state, open, call, status, step, held, left>>

Init ==
    /\ role \in Roles
    /\ state = "booting"
    /\ open = {}
    /\ call = [c \in Signals |-> 0]
    /\ status = [t \in Tasks |-> "none"]
    /\ step = [t \in Tasks |-> 1]
    /\ held = {}
    /\ left = {}

-----------------------------------------------------------------------------
(***************************************************************************)
(* Bootstrap.                                                              *)
(***************************************************************************)
\* The next connection is there.  With the intake, which comes last, the
\* signal handlers are installed before anything else can run.
Open(resource) ==
    LET order == BootOrder(role)
    IN  /\ state = "booting"
        /\ \E k \in DOMAIN order : /\ order[k] = resource
                                   /\ open = {order[i] : i \in 1..(k - 1)}
                                   /\ state' = IF k = Len(order) THEN "running" ELSE state
        /\ open' = open \cup {resource}
        /\ UNCHANGED <<role, call, taskVars>>

\* The process is over, and with it every handler that was running.
Exit ==
    /\ state' = "exited"
    /\ open' = {}
    /\ status' = [t \in Tasks |-> IF status[t] = "running" THEN "killed" ELSE status[t]]
    /\ held' = {}
    /\ UNCHANGED <<role, step, left>>

\* bootstrap rejects, or a signal meets no handler yet.
FailToBoot == state = "booting" /\ Exit /\ UNCHANGED call

-----------------------------------------------------------------------------
(***************************************************************************)
(* Work.                                                                   *)
(***************************************************************************)
\* A client connects to the API server; its request may come later.
Connect(t) ==
    /\ role = "api" /\ state # "exited"
    /\ "intake" \in open
    /\ status[t] = "none"
    /\ held' = held \cup {t}
    /\ UNCHANGED <<role, state, open, call, status, step, left>>

\* A request arrives on its connection, also after the intake was closed, or
\* a worker that is not closing takes a job.
Begin(t) ==
    /\ state # "exited"
    /\ status[t] = "none"
    /\ IF role = "api" THEN t \in held ELSE "intake" \in open
    /\ status' = [status EXCEPT ![t] = "running"]
    /\ held' = held \cup {t}
    /\ UNCHANGED <<role, state, open, call, step, left>>

\* Mutant: a handler that is done still counts as running.
ProceedHolding(t) ==
    LET needs == Needs(role)
        usable == needs[step[t]] \in open \cup {"provider"}
    IN  /\ status[t] = "running"
        /\ step' = [step EXCEPT ![t] = IF usable THEN @ + 1 ELSE @]
        /\ status' = [status EXCEPT ![t] =
                        IF ~ usable THEN "failed"
                        ELSE IF step[t] = Len(needs) THEN "done" ELSE @]
        /\ UNCHANGED <<role, state, open, call, held, left>>

\* An await of the handler.  It rejects when what it needs has been closed;
\* after the last one the handler returns.
Proceed(t) ==
    LET needs == Needs(role)
        usable == needs[step[t]] \in open \cup {"provider"}
    IN  /\ status[t] = "running"
        /\ step' = [step EXCEPT ![t] = IF usable THEN @ + 1 ELSE @]
        /\ status' = [status EXCEPT ![t] =
                        IF ~ usable THEN "failed"
                        ELSE IF step[t] = Len(needs) THEN "done" ELSE @]
        /\ held' = IF role = "worker" /\ status'[t] # "running" THEN held \ {t} ELSE held
        /\ UNCHANGED <<role, state, open, call, left>>

\* A connection ends that waits for nothing: the client or a timeout of the
\* server closes it.
EndConnection(t) ==
    /\ role = "api" /\ state # "exited"
    /\ t \in held
    /\ status[t] # "running"
    /\ held' = held \ {t}
    /\ UNCHANGED <<role, state, open, call, status, step, left>>

\* The client goes away without waiting for the answer.  Its handler goes on.
Leave(t) ==
    /\ role = "api"
    /\ t \in held
    /\ status[t] = "running"
    /\ held' = held \ {t}
    /\ left' = left \cup {t}
    /\ UNCHANGED <<role, state, open, call, status, step>>

-----------------------------------------------------------------------------
(***************************************************************************)
(* Shutdown.                                                               *)
(***************************************************************************)
\* A run of shutdown goes on to the k-th close.  The resource can not be
\* used from then on.
GoOnToClose(c, k) ==
    /\ call' = [call EXCEPT ![c] = k]
    /\ open' = open \ {CloseOrder(role)[k]}
    /\ UNCHANGED <<role, state, taskVars>>

Signal(c) ==
    /\ state = "running"
    /\ call[c] = 0
    /\ GoOnToClose(c, 1)

\* The close a shutdown awaits is over.
Closed(c) ==
    /\ state = "running"
    /\ call[c] > 0
    /\ CloseOrder(role)[call[c]] = "intake" => held = {}

\* Mutant: the process is left to end by itself.
FinishCloseNoExit(c) ==
    /\ Closed(c)
    /\ call[c] < Len(CloseOrder(role))
    /\ GoOnToClose(c, call[c] + 1)

\* On to the next close, or to process.exit.
FinishClose(c) ==
    /\ Closed(c)
    /\ IF call[c] < Len(CloseOrder(role))
         THEN GoOnToClose(c, call[c] + 1)
         ELSE Exit /\ UNCHANGED call

\* To quit a Redis connection, or to destroy a data source, that another run
\* of shutdown is already closing may reject.  Nobody handles it: the
\* process ends.
CloseTwice(c) ==
    /\ state = "running"
    /\ call[c] > 0
    /\ CloseOrder(role)[call[c]] \in {"redis", "database"}
    /\ \E b \in Signals \ {c} : call[b] >= call[c]
    /\ Exit
    /\ UNCHANGED call

-----------------------------------------------------------------------------
Rest == state = "exited" /\ UNCHANGED vars

Next ==
    \/ \E resource \in Resources : Open(resource)
    \/ FailToBoot
    \/ \E t \in Tasks : Connect(t) \/ Begin(t) \/ Proceed(t) \/ EndConnection(t) \/ Leave(t)
    \/ \E c \in Signals : Signal(c) \/ FinishClose(c) \/ CloseTwice(c)
    \/ Rest

Spec == Init /\ [][Next]_vars

\* Awaits of handlers and closes come to an end (the provider call too: fetch
\* gives up after its own timeout), and a connection that waits for nothing
\* is closed.  No client and no signal is owed.
FairSpec ==
    /\ Spec
    /\ \A t \in Tasks : WF_vars(Proceed(t)) /\ WF_vars(EndConnection(t))
    /\ \A c \in Signals : WF_vars(FinishClose(c))

-----------------------------------------------------------------------------
(***************************************************************************)
(* Properties.                                                             *)
(***************************************************************************)
\* Type correctness.  A worker's intake waits for exactly the handlers that
\* run, the API server's for every request whose client has not gone away.
TypeOK ==
    /\ role \in Roles
    /\ state \in {"booting", "running", "exited"}
    /\ open \subseteq Resources
    /\ call \in [Signals -> 0..Len(CloseOrder(role))]
    /\ status \in [Tasks -> {"none", "running", "done", "failed", "killed"}]
    /\ step \in [Tasks -> 1..(Len(Needs(role)) + 1)]
    /\ held \subseteq Tasks
    /\ left \subseteq Tasks
    /\ \A t \in Tasks : status[t] = "running" => t \in held \cup left
    /\ role = "worker" => held = {t \in Tasks : status[t] = "running"}

\* No work is cut off: from bootstrap to exit, and also when a second
\* shutdown runs beside the first, no handler finds a resource it needs not
\* open yet or already closed, and none is running at the exit, but for the
\* requests whose client went away before the answer.  For a worker this
\* says that a deployment strands no delivery, for the API server that it
\* leaves no event recorded and not queued.
NoWorkIsCutOff ==
    \A t \in Tasks : status[t] \in {"failed", "killed"} => role = "api" /\ t \in left

\* A process that was told to stop does, if providers answer and connections
\* that wait for nothing are closed; runs of shutdown do not wait for each
\* other.
StopsWhenTold == (\E c \in Signals : call[c] > 0) ~> state = "exited"
=============================================================================
