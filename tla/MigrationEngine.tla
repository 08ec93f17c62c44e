--------------------------- MODULE MigrationEngine ---------------------------
(***************************************************************************)
(* The migration engine (src/migration/migration_engine.cpp): worker       *)
(* threads take tasks from a priority queue and move blocks between the    *)
(* storage tiers; clients submit, cancel and await tasks.  Workers and     *)
(* clients sleep on the same condition variable, task_cv_.                 *)
(*                                                                         *)
(* A critical section of task_mutex_, stream_mutex_ or stats_mutex_ is one *)
(* action, but for one: a worker that finds nothing to do keeps task_mutex_*)
(* between evaluating its predicate and going to sleep, and running_ may   *)
(* change in between, because shutdown stores it without the mutex.        *)
(*                                                                         *)
(* A thread sleeps on task_cv_ while its pc is "asleep"; notify_one wakes  *)
(* any one of them, notify_all wakes all.  Spurious wake-ups are left out: *)
(* nothing may depend on them.                                             *)
(*                                                                         *)
(* Abstracted: addresses and data (a transfer succeeds or fails, and fails *)
(* for sure where a pointer was unknown at submission), sizes (1 a block), *)
(* times and the counters of MigrationStats by direction.                  *)
(***************************************************************************)
EXTENDS Integers, Sequences, FiniteSets

CONSTANTS
  Workers,      \* worker_threads_: config_.max_concurrent_transfers of them
  Clients,      \* the threads that submit, cancel and await
  Priorities,   \* the priorities they use, out of LOW = 0 .. URGENT = 3
  IdModulus,    \* 1000 in the code; smaller to see ids wrap with few tasks
  Routes,       \* the <<source tier, target tier>> pairs they use
  MaxTasks,     \* bound: tasks ever submitted
  MaxStops,     \* bound: shutdowns and failed initializations
  MaxSize,      \* SIZE_MAX: the usages of type size_t count modulo MaxSize + 1
  Calls         \* which of OptionalCalls are made (streamFailure: the driver
                \* may fail to create a stream)

OptionalCalls == {"cancel", "await", "awaitAll", "timeout", "shutdown", "streamFailure"}

Tiers == {"HOT", "WARM", "COLD"}

ASSUME EngineAssumption ==
  /\ IsFiniteSet(Workers)
  /\ Priorities \subseteq 0..3
  /\ IdModulus \in Nat \ {0}
  /\ Routes \subseteq Tiers \X Tiers
  /\ MaxTasks \in Nat
  /\ MaxStops \in Nat
  /\ MaxSize \in Nat /\ MaxTasks <= MaxSize
  /\ Calls \subseteq OptionalCalls

Statuses == {"PENDING", "IN_PROGRESS", "COMPLETED", "FAILED", "CANCELLED"}
TaskId == 1..MaxTasks
NoTask == 0
AllTasks == MaxTasks + 1          \* what awaitAllMigrations waits for
Task == [priority : Priorities, route : Routes, addressed : BOOLEAN, status : Statuses]

WorkerStates == {"ended", "loop", "lock", "block", "asleep", "fetch", "stream",
                 "execute", "release", "finish", "stats", "notify"}

VARIABLES
  initialized_,
  running_,
  owner,                 \* where initialize/shutdown is
  tasks_,                \* a map from the ids given out
  task_priority_queue_,  \* the ids queued
  available_streams_,    \* queue of streams, TRUE while a stream exists
  usage,                 \* vram_usage_, ram_usage_, ssd_usage_
  total_migrations,
  failed_migrations,
  stops,                 \* for the bound MaxStops
  wpc,                   \* where each worker is
  task,                  \* the task it has popped
  stream,                \* the stream it has taken
  success,               \* what executeMigration returned to it
  cpc,                   \* where each client is
  awaited                \* what it waits for

lifecycle == <<initialized_, running_, owner, stops>>
counters == <<usage, total_migrations, failed_migrations>>
worker == <<wpc, task, stream, success>>
client == <<cpc, awaited>>
vars == <<lifecycle, tasks_, task_priority_queue_, available_streams_, counters,
          worker, client>>

Known(id) == id \in DOMAIN tasks_
Status(id) == tasks_[id].status
Done(id) == Status(id) \in {"COMPLETED", "FAILED"}

TypeOK ==
  /\ initialized_ \in BOOLEAN /\ running_ \in BOOLEAN
  /\ owner \in {"idle", "notify", "join"}
  /\ \E n \in 0..MaxTasks : DOMAIN tasks_ = 1..n
  /\ tasks_ \in [DOMAIN tasks_ -> Task]
  /\ task_priority_queue_ \subseteq DOMAIN tasks_
  /\ available_streams_ \in Seq(BOOLEAN)
  /\ usage \in [Tiers -> 0..MaxSize]
  /\ total_migrations \in Nat /\ failed_migrations \in Nat
  /\ stops \in 0..MaxStops
  /\ wpc \in [Workers -> WorkerStates]
  /\ task \in [Workers -> DOMAIN tasks_ \cup {NoTask}]
  /\ stream \in [Workers -> BOOLEAN]
  /\ success \in [Workers -> BOOLEAN]
  /\ cpc \in [Clients -> {"idle", "asleep", "woken"}]
  /\ awaited \in [Clients -> DOMAIN tasks_ \cup {NoTask, AllTasks}]

Init ==
  /\ initialized_ = FALSE /\ running_ = FALSE /\ owner = "idle" /\ stops = 0
  /\ tasks_ = <<>>
  /\ task_priority_queue_ = {}
  /\ available_streams_ = <<>>
  /\ usage = [t \in Tiers |-> 0]
  /\ total_migrations = 0 /\ failed_migrations = 0
  /\ wpc = [w \in Workers |-> "ended"]
  /\ task = [w \in Workers |-> NoTask]
  /\ stream = [w \in Workers |-> FALSE]
  /\ success = [w \in Workers |-> FALSE]
  /\ cpc = [c \in Clients |-> "idle"]
  /\ awaited = [c \in Clients |-> NoTask]

\* task_mutex_ is taken only by a worker about to sleep; every other critical
\* section is one action.
MutexFree == \A w \in Workers : wpc[w] # "block"

-----------------------------------------------------------------------------
(* Condition variable *)

Woken(w) == IF wpc[w] = "asleep" THEN "lock" ELSE wpc[w]
Roused(c) == IF cpc[c] = "asleep" THEN "woken" ELSE cpc[c]

NobodyAsleep ==
  /\ \A w \in Workers : wpc[w] # "asleep"
  /\ \A c \in Clients : cpc[c] # "asleep"

NotifyOne ==
  \/ \E w \in Workers : /\ wpc[w] = "asleep"
                        /\ wpc' = [wpc EXCEPT ![w] = "lock"]
                        /\ UNCHANGED cpc
  \/ \E c \in Clients : /\ cpc[c] = "asleep"
                        /\ cpc' = [cpc EXCEPT ![c] = "woken"]
                        /\ UNCHANGED wpc
  \/ NobodyAsleep /\ UNCHANGED <<wpc, cpc>>

-----------------------------------------------------------------------------
(* Lifecycle: one owner thread calls initialize and shutdown. *)

Initialize ==
  /\ ~initialized_ /\ owner = "idle"
  /\ initialized_' = TRUE /\ running_' = TRUE
  /\ available_streams_' = available_streams_ \o [i \in 1..Cardinality(Workers) |-> TRUE]
  /\ wpc' = [w \in Workers |-> "loop"]
  /\ UNCHANGED <<owner, stops, tasks_, task_priority_queue_, counters,
                 task, stream, success, client>>

\* Stream creation fails after k streams: they are destroyed and leave
\* stream_pool_, but stay in available_streams_.
InitializeFails ==
  /\ "streamFailure" \in Calls
  /\ ~initialized_ /\ owner = "idle"
  /\ stops < MaxStops /\ stops' = stops + 1
  /\ \E k \in 0..Cardinality(Workers) - 1 :
       available_streams_' = available_streams_ \o [i \in 1..k |-> FALSE]
  /\ UNCHANGED <<initialized_, running_, owner, tasks_, task_priority_queue_,
                 counters, worker, client>>

\* shutdown, first part: running_ is stored without task_mutex_.
ShutdownStop ==
  /\ "shutdown" \in Calls
  /\ initialized_ /\ owner = "idle"
  /\ stops < MaxStops /\ stops' = stops + 1
  /\ running_' = FALSE
  /\ owner' = "notify"
  /\ UNCHANGED <<initialized_, tasks_, task_priority_queue_, available_streams_,
                 counters, worker, client>>

ShutdownNotify ==
  /\ owner = "notify"
  /\ owner' = "join"
  /\ wpc' = [w \in Workers |-> Woken(w)]
  /\ cpc' = [c \in Clients |-> Roused(c)]
  /\ UNCHANGED <<initialized_, running_, stops, tasks_, task_priority_queue_,
                 available_streams_, counters, task, stream, success, awaited>>

\* The workers are joined, then the streams destroyed; tasks stay queued.
ShutdownJoin ==
  /\ owner = "join"
  /\ \A w \in Workers : wpc[w] = "ended"
  /\ owner' = "idle"
  /\ initialized_' = FALSE
  /\ available_streams_' = <<>>
  /\ UNCHANGED <<running_, stops, tasks_, task_priority_queue_, counters, worker, client>>

-----------------------------------------------------------------------------
(* Clients *)

\* Fault: the queue is filled but nobody is told.
Unannounced == UNCHANGED <<wpc, cpc>>

Announce == NotifyOne

\* Fault: ids count from 0, which stands for no task.
IdsFromZero == Cardinality(DOMAIN tasks_)

\* getNextTaskId; tasks_ never loses an entry.
NextTaskId == Cardinality(DOMAIN tasks_) + 1

\* Both overloads of submitMigration, and one round of submitMigrationBatch,
\* processHeatRecommendations or triggerPrefetch.  addressed: both pointers
\* are known.
SubmitMigration(c, priority, route, addressed) ==
  LET id == NextTaskId IN
  /\ cpc[c] = "idle" /\ MutexFree
  /\ id <= MaxTasks
  /\ tasks_' = [i \in 1..id |->
       IF i = id THEN [priority |-> priority, route |-> route,
                       addressed |-> addressed, status |-> "PENDING"]
       ELSE tasks_[i]]
  /\ task_priority_queue_' = task_priority_queue_ \cup {id}
  /\ Announce
  /\ UNCHANGED <<lifecycle, available_streams_, counters, task, stream, success, awaited>>

\* Fault: a task that a worker has started can be cancelled.
CancellableUntilDone(id) == Status(id) \in {"PENDING", "IN_PROGRESS"}

Cancellable(id) == Status(id) = "PENDING"

\* The id stays queued until a worker pops it and passes it over.
CancelMigration(c, id) ==
  /\ "cancel" \in Calls
  /\ cpc[c] = "idle" /\ MutexFree
  /\ Cancellable(id)
  /\ tasks_' = [tasks_ EXCEPT ![id].status = "CANCELLED"]
  /\ UNCHANGED <<lifecycle, task_priority_queue_, available_streams_, counters,
                 worker, client>>

\* The predicates of awaitMigration and awaitAllMigrations.
Satisfied(what) ==
  IF what = AllTasks
  THEN task_priority_queue_ = {} /\ \A id \in DOMAIN tasks_ : Done(id)
  ELSE ~Known(what) \/ Done(what)

\* The predicate reads only what task_mutex_ protects, so testing it and
\* falling asleep is one step.
Await(c, what) ==
  /\ cpc[c] = "idle" /\ MutexFree
  /\ ~Satisfied(what)
  /\ cpc' = [cpc EXCEPT ![c] = "asleep"]
  /\ awaited' = [awaited EXCEPT ![c] = what]
  /\ UNCHANGED <<lifecycle, tasks_, task_priority_queue_, available_streams_,
                 counters, worker>>

AwaitMigration(c, id) == "await" \in Calls /\ Await(c, id)
AwaitAllMigrations(c) == "awaitAll" \in Calls /\ Await(c, AllTasks)

\* A woken client tests its predicate again.
Recheck(c) ==
  /\ cpc[c] = "woken" /\ MutexFree
  /\ IF Satisfied(awaited[c])
     THEN /\ cpc' = [cpc EXCEPT ![c] = "idle"]
          /\ awaited' = [awaited EXCEPT ![c] = NoTask]
     ELSE /\ cpc' = [cpc EXCEPT ![c] = "asleep"]
          /\ UNCHANGED awaited
  /\ UNCHANGED <<lifecycle, tasks_, task_priority_queue_, available_streams_,
                 counters, worker>>

\* wait_for gives up; awaitAllMigrations has no timeout.
AwaitTimeout(c) ==
  /\ "timeout" \in Calls
  /\ cpc[c] # "idle" /\ MutexFree
  /\ awaited[c] # AllTasks
  /\ cpc' = [cpc EXCEPT ![c] = "idle"]
  /\ awaited' = [awaited EXCEPT ![c] = NoTask]
  /\ UNCHANGED <<lifecycle, tasks_, task_priority_queue_, available_streams_,
                 counters, worker>>

-----------------------------------------------------------------------------
(* Workers *)

Step(w, from, to) == wpc[w] = from /\ wpc' = [wpc EXCEPT ![w] = to]

\* while (running_.load()), without the mutex.
WorkerLoop(w) ==
  /\ Step(w, "loop", IF running_ THEN "lock" ELSE "ended")
  /\ UNCHANGED <<lifecycle, tasks_, task_priority_queue_, available_streams_,
                 counters, task, stream, success, client>>

\* task_priority_queue_ is a max-heap of <<rank, id>>.
Rank(id) == tasks_[id].priority * IdModulus + (id % IdModulus)

\* Fault: the least pair is on top.
BeforeInMinHeap(i, j) == Rank(i) < Rank(j) \/ (Rank(i) = Rank(j) /\ i <= j)

Before(i, j) == Rank(i) > Rank(j) \/ (Rank(i) = Rank(j) /\ i >= j)
Top(id) == id \in task_priority_queue_ /\ \A j \in task_priority_queue_ : Before(id, j)

\* Fault: the queue is emptied for one task.
QueueEmptied(id) == {}

QueueWithout(id) == task_priority_queue_ \ {id}

\* The wait's predicate holds: leave, or take the first task of the queue.
WorkerLock(w) ==
  /\ MutexFree
  /\ \/ /\ ~running_
        /\ Step(w, "lock", "ended")
        /\ UNCHANGED <<task_priority_queue_, task>>
     \/ /\ running_
        /\ Step(w, "lock", "fetch")
        /\ \E id \in task_priority_queue_ :
             /\ Top(id)
             /\ task' = [task EXCEPT ![w] = id]
             /\ task_priority_queue_' = QueueWithout(id)
     \/ /\ running_ /\ task_priority_queue_ = {}
        /\ Step(w, "lock", "block")
        /\ UNCHANGED <<task_priority_queue_, task>>
  /\ UNCHANGED <<lifecycle, tasks_, available_streams_, counters, stream, success, client>>

\* The predicate did not hold: sleep, which gives task_mutex_ up.
WorkerBlock(w) ==
  /\ Step(w, "block", "asleep")
  /\ UNCHANGED <<lifecycle, tasks_, task_priority_queue_, available_streams_,
                 counters, task, stream, success, client>>

\* Fault: a cancelled task is executed all the same.
StartableAnyway(id) == TRUE

Startable(id) == Status(id) = "PENDING"

WorkerFetch(w) ==
  LET id == task[w] IN
  /\ wpc[w] = "fetch" /\ MutexFree
  /\ \/ /\ Startable(id)
        /\ Step(w, "fetch", "stream")
        /\ tasks_' = [tasks_ EXCEPT ![id].status = "IN_PROGRESS"]
        /\ UNCHANGED task
     \/ /\ ~Startable(id)
        /\ Step(w, "fetch", "loop")
        /\ task' = [task EXCEPT ![w] = NoTask]
        /\ UNCHANGED tasks_
  /\ UNCHANGED <<lifecycle, task_priority_queue_, available_streams_, counters,
                 stream, success, client>>

\* allocateStream creates a stream when there is none.
WorkerAllocateStream(w) ==
  /\ Step(w, "stream", "execute")
  /\ \/ /\ available_streams_ # <<>>
        /\ stream' = [stream EXCEPT ![w] = Head(available_streams_)]
        /\ available_streams_' = Tail(available_streams_)
     \/ /\ available_streams_ = <<>>
        /\ stream' = [stream EXCEPT ![w] = TRUE]
        /\ UNCHANGED available_streams_
  /\ UNCHANGED <<lifecycle, tasks_, task_priority_queue_, counters, task, success, client>>

\* Arithmetic of std::size_t.
OneMore(n) == IF n = MaxSize THEN 0 ELSE n + 1
OneLess(n) == IF n = 0 THEN MaxSize ELSE n - 1

\* Fault: the source tier is not charged.
ChargeTarget(route) == [usage EXCEPT ![route[2]] = OneMore(@)]

\* The usages start at 0 and submitting a task charges nothing, so the first
\* block to leave a tier takes its usage below zero: it wraps.
Charge(route) == [usage EXCEPT ![route[1]] = OneLess(@), ![route[2]] = OneMore(@)]

\* executeMigration; there is no transfer within a tier.
WorkerExecute(w) ==
  LET t == tasks_[task[w]] IN
  /\ Step(w, "execute", "release")
  /\ \/ /\ t.addressed /\ t.route[1] # t.route[2]
        /\ success' = [success EXCEPT ![w] = TRUE]
        /\ usage' = Charge(t.route)
     \/ /\ success' = [success EXCEPT ![w] = FALSE]
        /\ UNCHANGED usage
  /\ UNCHANGED <<lifecycle, tasks_, task_priority_queue_, available_streams_,
                 total_migrations, failed_migrations, task, stream, client>>

\* Fault: the stream is not given back.
StreamsKept(s) == available_streams_

StreamsWith(s) == Append(available_streams_, s)

WorkerReleaseStream(w) ==
  /\ Step(w, "release", "finish")
  /\ available_streams_' = StreamsWith(stream[w])
  /\ stream' = [stream EXCEPT ![w] = FALSE]
  /\ UNCHANGED <<lifecycle, tasks_, task_priority_queue_, counters, task, success, client>>

WorkerFinish(w) ==
  /\ MutexFree
  /\ Step(w, "finish", "stats")
  /\ tasks_' = [tasks_ EXCEPT ![task[w]].status =
       IF success[w] THEN "COMPLETED" ELSE "FAILED"]
  /\ UNCHANGED <<lifecycle, task_priority_queue_, available_streams_, counters,
                 task, stream, success, client>>

\* Fault: only transfers that succeeded are counted.
FailuresForgotten(w) == failed_migrations

FailuresAfter(w) == IF success[w] THEN failed_migrations ELSE failed_migrations + 1

WorkerUpdateStats(w) ==
  /\ Step(w, "stats", "notify")
  /\ total_migrations' = IF success[w] THEN total_migrations + 1 ELSE total_migrations
  /\ failed_migrations' = FailuresAfter(w)
  /\ UNCHANGED <<lifecycle, tasks_, task_priority_queue_, available_streams_, usage,
                 task, stream, success, client>>

\* Fault: a finished task wakes one sleeper only.
FinishNotifiesOne(w) ==
  /\ wpc[w] = "notify"
  /\ \/ \E c \in Clients : /\ cpc[c] = "asleep"
                           /\ cpc' = [cpc EXCEPT ![c] = "woken"]
                           /\ wpc' = [wpc EXCEPT ![w] = "loop"]
     \/ \E v \in Workers : /\ wpc[v] = "asleep"
                           /\ wpc' = [wpc EXCEPT ![v] = "lock", ![w] = "loop"]
                           /\ UNCHANGED cpc
     \/ NobodyAsleep /\ wpc' = [wpc EXCEPT ![w] = "loop"] /\ UNCHANGED cpc

FinishNotifies(w) ==
  /\ wpc[w] = "notify"
  /\ wpc' = [v \in Workers |-> IF v = w THEN "loop" ELSE Woken(v)]
  /\ cpc' = [c \in Clients |-> Roused(c)]

\* The callback, then notify_all.
WorkerNotify(w) ==
  /\ FinishNotifies(w)
  /\ task' = [task EXCEPT ![w] = NoTask]
  /\ success' = [success EXCEPT ![w] = FALSE]
  /\ UNCHANGED <<lifecycle, tasks_, task_priority_queue_, available_streams_, counters,
                 stream, awaited>>

-----------------------------------------------------------------------------
WorkerNext(w) ==
  \/ WorkerLoop(w)
  \/ WorkerLock(w)
  \/ WorkerBlock(w)
  \/ WorkerFetch(w)
  \/ WorkerAllocateStream(w)
  \/ WorkerExecute(w)
  \/ WorkerReleaseStream(w)
  \/ WorkerFinish(w)
  \/ WorkerUpdateStats(w)
  \/ WorkerNotify(w)

ClientNext(c) ==
  \/ \E p \in Priorities, r \in Routes, a \in BOOLEAN : SubmitMigration(c, p, r, a)
  \/ \E id \in DOMAIN tasks_ : CancelMigration(c, id)
  \/ \E id \in DOMAIN tasks_ : AwaitMigration(c, id)
  \/ AwaitAllMigrations(c)
  \/ Recheck(c)
  \/ AwaitTimeout(c)

Next ==
  \/ Initialize \/ InitializeFails
  \/ ShutdownStop \/ ShutdownNotify \/ ShutdownJoin
  \/ \E w \in Workers : WorkerNext(w)
  \/ \E c \in Clients : ClientNext(c)

Spec == Init /\ [][Next]_vars

\* Threads are scheduled, transfers end, shutdown goes on once called.
Fairness ==
  /\ \A w \in Workers : WF_vars(WorkerNext(w))
  /\ \A c \in Clients : WF_vars(Recheck(c))
  /\ WF_vars(ShutdownNotify) /\ WF_vars(ShutdownJoin)
FairSpec == Spec /\ Fairness

-----------------------------------------------------------------------------
(* Safety *)

Holds(w) == wpc[w] \in {"stream", "execute", "release", "finish"}
HoldsStream(w) == wpc[w] \in {"execute", "release"}

\* Every task in progress is the task of exactly one worker, and every worker
\* past its fetch works on a task in progress: nothing is executed twice, and
\* nothing is in progress with nobody at it, across shutdowns too.
OneWorkerPerTask ==
  /\ \A w \in Workers : Holds(w) => Known(task[w]) /\ Status(task[w]) = "IN_PROGRESS"
  /\ \A id \in DOMAIN tasks_ :
       Status(id) = "IN_PROGRESS" =>
         \E w \in Workers : task[w] = id /\ Holds(w)
           /\ \A v \in Workers : task[v] = id /\ Holds(v) => v = w

\* A PENDING task is queued, or some worker has just popped it: no task is
\* dropped between the two critical sections of a worker.
PendingIsQueued ==
  \A id \in DOMAIN tasks_ :
    Status(id) = "PENDING" =>
      id \in task_priority_queue_ \/ \E w \in Workers : wpc[w] = "fetch" /\ task[w] = id

NothingCancelled == \A id \in DOMAIN tasks_ : Status(id) # "CANCELLED"

\* While tasks are queued in a running engine and none was ever cancelled, some
\* worker runs and will look at the queue, although submitMigration's notify_one
\* may wake an awaiting client instead of a worker.
SomeoneAttends ==
  initialized_ /\ running_ /\ task_priority_queue_ # {} /\ NothingCancelled =>
    \E w \in Workers : wpc[w] \notin {"asleep", "ended"}

\* max_concurrent_transfers streams are enough: as many exist, each listed or
\* with one worker, also where an initialization failed before; so none is
\* created on the way, which nobody would destroy.
StreamsSuffice ==
  initialized_ =>
    Cardinality({i \in DOMAIN available_streams_ : available_streams_[i]})
      + Cardinality({w \in Workers : HoldsStream(w) /\ stream[w]})
    = Cardinality(Workers)

\* The tasks whose block has moved: completed, or transferred by a worker that
\* has not set the status yet.
Moved ==
  {id \in DOMAIN tasks_ :
     \/ Status(id) = "COMPLETED"
     \/ \E w \in Workers : task[w] = id /\ wpc[w] \in {"release", "finish"} /\ success[w]}

Minus(m, n) == IF m >= n THEN m - n ELSE m - n + MaxSize + 1

\* getTierUsage: the usage of a tier is, in size_t, the blocks that came minus
\* the blocks that left, by tasks that succeeded, whatever fails or is
\* cancelled and however many workers finish at a time.  Where more have left
\* than came it is close to SIZE_MAX, and no block that comes is lost for it.
UsageMatchesTasks ==
  \A t \in Tiers :
    usage[t] = Minus(Cardinality({id \in Moved : tasks_[id].route[2] = t}),
                     Cardinality({id \in Moved : tasks_[id].route[1] = t}))

\* The statistics count every finished task once, but for those whose worker is
\* still between setting the status and updating the statistics.
StatsCountTasks ==
  total_migrations + failed_migrations
    + Cardinality({w \in Workers : wpc[w] = "stats"})
  = Cardinality({id \in DOMAIN tasks_ : Done(id)})

\* What a task ended with stays: a finished task is not cancelled, and a
\* cancelled one is never started, also when the cancellation comes between a
\* worker's pop and its fetch.
OutcomeStays ==
  [][\A id \in DOMAIN tasks_ :
       Status(id) \in {"COMPLETED", "FAILED", "CANCELLED"} =>
         tasks_'[id].status = Status(id)]_vars

\* A worker never starts on a task while one of a higher priority is queued.
UrgentFirst ==
  [][\A id \in task_priority_queue_ \ task_priority_queue_' :
       \A j \in task_priority_queue_' : tasks_[j].priority <= tasks_[id].priority]_vars

-----------------------------------------------------------------------------
(* Liveness *)

\* A task submitted to a running engine finishes or is cancelled, unless the
\* engine is shut down: lower priorities are served once submissions end.
TasksFinish ==
  \A id \in TaskId :
    (Known(id) /\ running_) ~>
      ((Known(id) /\ Status(id) \notin {"PENDING", "IN_PROGRESS"}) \/ ~running_)

\* "Wait for the migration to complete": a client that waits for tasks of a
\* running engine returns.
AwaitEnds ==
  \A c \in Clients : (cpc[c] # "idle" /\ running_) ~> (cpc[c] = "idle" \/ ~running_)

\* "Shut the migration engine down": the call returns.
ShutdownEnds == (owner # "idle") ~> (owner = "idle")

=============================================================================
