------------------------- MODULE MigrationEngineProofs -------------------------
(***************************************************************************)
(* The safety of the migration engine for any number of workers, clients   *)
(* and tasks.  EngineInv follows each task from the queue through the hands*)
(* of one worker to its outcome; the counts of streams, statistics and     *)
(* usage follow from it.                                                   *)
(***************************************************************************)
EXTENDS MigrationEngine, FiniteSetTheorems, SequenceTheorems, TLAPS

Popped(w) == Holds(w) \/ wpc[w] \in {"fetch", "stats", "notify"}

\* Workers run only in an initialized engine, and stop only in one that stops.
LifecycleInv ==
  /\ ~initialized_ => owner = "idle" /\ ~running_ /\ \A w \in Workers : wpc[w] = "ended"
  /\ running_ => owner = "idle" /\ \A w \in Workers : wpc[w] # "ended"

\* A task that was popped is in the hands of one worker and never queued again.
PoppedOnce ==
  /\ \A w \in Workers : Popped(w) => task[w] \in DOMAIN tasks_ \ task_priority_queue_
  /\ \A v, w \in Workers : Popped(v) /\ Popped(w) /\ task[v] = task[w] => v = w

\* The status of a task is that of where it is.
StatusFits ==
  /\ \A id \in task_priority_queue_ : Status(id) \in {"PENDING", "CANCELLED"}
  /\ \A w \in Workers : wpc[w] = "fetch" => Status(task[w]) \in {"PENDING", "CANCELLED"}
  /\ \A w \in Workers : Holds(w) => Status(task[w]) = "IN_PROGRESS"
  /\ \A id \in DOMAIN tasks_ :
       Status(id) = "IN_PROGRESS" => \E w \in Workers : Holds(w) /\ task[w] = id

\* Each task is in one place, and its status is that of the place.
TasksInv == PoppedOnce /\ StatusFits /\ PendingIsQueued

EngineInv == TypeOK /\ LifecycleInv /\ TasksInv

\* A worker goes to sleep on an empty queue; a client sleeps on a predicate that
\* is false, or a worker is about to notify it.
SleepersKnow ==
  /\ (\E w \in Workers : wpc[w] = "block") => task_priority_queue_ = {}
  /\ \A c \in Clients : cpc[c] = "asleep" /\ Satisfied(awaited[c]) =>
       \E w \in Workers : wpc[w] \in {"stats", "notify"}

-----------------------------------------------------------------------------
(* Types *)

\* Ids are given out in order.
LEMMA NextIdIsFresh ==
  ASSUME NEW n \in Nat, DOMAIN tasks_ = 1..n
  PROVE  NextTaskId = n + 1
<1>1. Cardinality(1..n) = IF 1 > n THEN 0 ELSE n - 1 + 1
  BY FS_Interval
<1>2. QED BY <1>1 DEF NextTaskId

\* A new task is added at the end of the table.
LEMMA SubmitEffect ==
  ASSUME TypeOK, NEW c \in Clients, NEW p \in Priorities, NEW r \in Routes, NEW a \in BOOLEAN,
         SubmitMigration(c, p, r, a)
  PROVE  /\ NextTaskId \in TaskId /\ NextTaskId \notin DOMAIN tasks_
         /\ DOMAIN tasks_' = DOMAIN tasks_ \cup {NextTaskId}
         /\ \A id \in DOMAIN tasks_ : tasks_'[id] = tasks_[id]
         /\ tasks_'[NextTaskId] =
              [priority |-> p, route |-> r, addressed |-> a, status |-> "PENDING"]
         /\ \E m \in 0..MaxTasks : DOMAIN tasks_' = 1..m
<1>1. PICK n \in 0..MaxTasks : DOMAIN tasks_ = 1..n
  BY DEF TypeOK
<1>2. NextTaskId = n + 1 /\ n + 1 \in 0..MaxTasks
  BY <1>1, NextIdIsFresh, EngineAssumption DEF SubmitMigration
<1>3. DOMAIN tasks_' = 1..(n + 1)
  BY <1>2 DEF SubmitMigration
<1>4. QED
  BY <1>1, <1>2, <1>3, EngineAssumption DEF SubmitMigration, TaskId

\* A new status changes nothing else of the table.
LEMMA StatusEffect ==
  ASSUME TypeOK, NEW id, NEW s \in Statuses,
         tasks_' = [tasks_ EXCEPT ![id].status = s]
  PROVE  /\ DOMAIN tasks_' = DOMAIN tasks_
         /\ tasks_' \in [DOMAIN tasks_ -> Task]
         /\ \A i \in DOMAIN tasks_ :
              tasks_'[i] = IF i = id THEN [tasks_[i] EXCEPT !.status = s] ELSE tasks_[i]
         /\ \A i \in DOMAIN tasks_ : tasks_'[i].status = IF i = id THEN s ELSE Status(i)
<1>1. tasks_ \in [DOMAIN tasks_ -> Task]
  BY DEF TypeOK
<1>2. \A t \in Task : [t EXCEPT !.status = s] \in Task /\ [t EXCEPT !.status = s].status = s
  BY DEF Task
<1>3. QED
  BY <1>1, <1>2 DEF Status

\* Workers and clients stay in their types when some of them are woken.
LEMMA NotifyType ==
  ASSUME TypeOK, NotifyOne
  PROVE  /\ wpc' \in [Workers -> WorkerStates]
         /\ cpc' \in [Clients -> {"idle", "asleep", "woken"}]
BY DEF TypeOK, NotifyOne, WorkerStates

LEMMA InitType == Init => TypeOK
<1> SUFFICES ASSUME Init PROVE TypeOK
  OBVIOUS
<1>1. DOMAIN tasks_ = 1..0 /\ 0 \in 0..MaxTasks
  BY EngineAssumption DEF Init
<1>2. tasks_ \in [DOMAIN tasks_ -> Task]
  BY DEF Init
<1>3. available_streams_ \in Seq(BOOLEAN)
  BY DEF Init
<1>4. stops \in 0..MaxStops
  BY EngineAssumption DEF Init
<1>5. QED
  <2>1. initialized_ \in BOOLEAN /\ running_ \in BOOLEAN
    BY DEF Init
  <2>2. usage \in [Tiers -> 0..MaxSize]
    BY EngineAssumption DEF Init
  <2>3. QED
    BY <1>1, <1>2, <1>3, <1>4, <2>1, <2>2 DEF Init, TypeOK, WorkerStates

\* A list of streams that all exist, or of none that does.
LEMMA ConstantSeq ==
  ASSUME NEW n \in Nat, NEW b \in BOOLEAN
  PROVE  [i \in 1..n |-> b] \in Seq(BOOLEAN)
<1>1. [i \in 1..n |-> b] \in [1..n -> BOOLEAN]
  OBVIOUS
<1>2. [i \in 1..n |-> b] \in UNION {[1..m -> BOOLEAN] : m \in Nat}
  BY <1>1, Zenon
<1>3. QED BY <1>2, SeqDef, Zenon

LEMMA LifecycleType ==
  ASSUME TypeOK,
         Initialize \/ InitializeFails \/ ShutdownStop \/ ShutdownNotify \/ ShutdownJoin
  PROVE  TypeOK'
<1>1. UNCHANGED <<tasks_, task_priority_queue_, counters, task, stream, success, awaited>>
  BY DEF Initialize, InitializeFails, ShutdownStop, ShutdownNotify, ShutdownJoin, worker, client
<1>2. CASE Initialize
  <2>1. Cardinality(Workers) \in Nat
    BY FS_CardinalityType, EngineAssumption
  <2>2. [i \in 1..Cardinality(Workers) |-> TRUE] \in Seq(BOOLEAN)
    BY <2>1, ConstantSeq, Zenon
  <2>3. available_streams_' \in Seq(BOOLEAN)
    BY <1>2, <2>2, ConcatProperties DEF Initialize, TypeOK
  <2>4. QED
    BY <1>1, <1>2, <2>3 DEF Initialize, TypeOK, counters, client, WorkerStates
<1>3. CASE InitializeFails
  <2>1. PICK k \in 0..Cardinality(Workers) - 1 :
          available_streams_' = available_streams_ \o [i \in 1..k |-> FALSE]
    BY <1>3 DEF InitializeFails
  <2>2. [i \in 1..k |-> FALSE] \in Seq(BOOLEAN)
    <3>1. k \in Nat
      BY <2>1, FS_CardinalityType, EngineAssumption
    <3>2. QED BY <3>1, ConstantSeq, Zenon
  <2>3. available_streams_' \in Seq(BOOLEAN)
    BY <2>1, <2>2, ConcatProperties DEF TypeOK
  <2>4. QED
    BY <1>1, <1>3, <2>3, EngineAssumption DEF InitializeFails, TypeOK, counters, client, worker
<1>4. CASE ShutdownStop
  <2>1. running_' \in BOOLEAN
    BY <1>4 DEF ShutdownStop
  <2>2. QED
    BY <1>1, <1>4, <2>1, EngineAssumption DEF ShutdownStop, TypeOK, counters, client, worker
<1>5. CASE ShutdownNotify
  BY <1>1, <1>5 DEF ShutdownNotify, TypeOK, counters, Woken, Roused, WorkerStates
<1>6. CASE ShutdownJoin
  <2>1. initialized_' \in BOOLEAN
    BY <1>6 DEF ShutdownJoin
  <2>2. available_streams_' \in Seq(BOOLEAN)
    BY <1>6 DEF ShutdownJoin
  <2>3. QED
    BY <1>1, <1>6, <2>1, <2>2 DEF ShutdownJoin, TypeOK, counters, client, worker
<1>7. QED BY <1>2, <1>3, <1>4, <1>5, <1>6

LEMMA ClientType ==
  ASSUME TypeOK, NEW c \in Clients, ClientNext(c)
  PROVE  TypeOK'
<1>1. ASSUME NEW p \in Priorities, NEW r \in Routes, NEW a \in BOOLEAN,
             SubmitMigration(c, p, r, a)
      PROVE  TypeOK'
  <2>1. tasks_' \in [DOMAIN tasks_' -> Task]
    <3>1. tasks_'[NextTaskId] \in Task
      <4>1. [priority |-> p, route |-> r, addressed |-> a, status |-> "PENDING"] \in Task
        BY DEF Task, Statuses
      <4>2. QED BY <1>1, <4>1, SubmitEffect
    <3>2. \A id \in DOMAIN tasks_' : tasks_'[id] \in Task
      BY <1>1, <3>1, SubmitEffect DEF TypeOK
    <3>3. tasks_' = [i \in DOMAIN tasks_' |-> tasks_'[i]]
      BY <1>1 DEF SubmitMigration
    <3>4. QED BY <3>2, <3>3
  <2>2. task_priority_queue_' \subseteq DOMAIN tasks_'
    BY <1>1, SubmitEffect DEF SubmitMigration, TypeOK
  <2>3. /\ task' \in [Workers -> DOMAIN tasks_' \cup {NoTask}]
        /\ awaited' \in [Clients -> DOMAIN tasks_' \cup {NoTask, AllTasks}]
    BY <1>1, SubmitEffect DEF SubmitMigration, TypeOK
  <2>4. /\ wpc' \in [Workers -> WorkerStates]
        /\ cpc' \in [Clients -> {"idle", "asleep", "woken"}]
    BY <1>1, NotifyType DEF SubmitMigration, Announce
  <2>5. \E m \in 0..MaxTasks : DOMAIN tasks_' = 1..m
    BY <1>1, SubmitEffect
  <2>6. UNCHANGED <<lifecycle, available_streams_, counters, stream, success>>
    BY <1>1 DEF SubmitMigration
  <2>7. QED
    BY <2>1, <2>2, <2>3, <2>4, <2>5, <2>6 DEF TypeOK, lifecycle, counters
<1>2. ASSUME NEW id \in DOMAIN tasks_, CancelMigration(c, id)
      PROVE  TypeOK'
  <2>1. DOMAIN tasks_' = DOMAIN tasks_ /\ tasks_' \in [DOMAIN tasks_ -> Task]
    BY <1>2, StatusEffect DEF CancelMigration, Statuses
  <2>2. QED
    BY <1>2, <2>1 DEF CancelMigration, TypeOK, lifecycle, counters, worker, client
<1>3. ASSUME NEW what \in DOMAIN tasks_ \cup {AllTasks}, Await(c, what)
      PROVE  TypeOK'
  BY <1>3 DEF Await, TypeOK, lifecycle, counters, worker
<1>4. CASE Recheck(c)
  BY <1>4 DEF Recheck, TypeOK, lifecycle, counters, worker
<1>5. CASE AwaitTimeout(c)
  BY <1>5 DEF AwaitTimeout, TypeOK, lifecycle, counters, worker
<1>6. QED
  BY <1>1, <1>2, <1>3, <1>4, <1>5
     DEF ClientNext, AwaitMigration, AwaitAllMigrations

\* What a worker's step does to the data, but for the tasks' status.
LEMMA WorkerType ==
  ASSUME EngineInv, NEW w \in Workers, WorkerNext(w)
  PROVE  TypeOK'
<1> USE DEF EngineInv
<1>1. CASE WorkerLoop(w)
  BY <1>1 DEF WorkerLoop, Step, TypeOK, WorkerStates, lifecycle, counters, client
<1>2. CASE WorkerLock(w)
  BY <1>2 DEF WorkerLock, Step, TypeOK, WorkerStates, QueueWithout, lifecycle, counters, client
<1>3. CASE WorkerBlock(w)
  BY <1>3 DEF WorkerBlock, Step, TypeOK, WorkerStates, lifecycle, counters, client
<1>4. CASE WorkerFetch(w)
  <2>1. DOMAIN tasks_' = DOMAIN tasks_ /\ tasks_' \in [DOMAIN tasks_ -> Task]
    BY <1>4, StatusEffect DEF WorkerFetch, TypeOK, Statuses
  <2>2. QED
    BY <1>4, <2>1 DEF WorkerFetch, Step, TypeOK, WorkerStates, lifecycle, counters, client
<1>5. CASE WorkerAllocateStream(w)
  <2>1. available_streams_' \in Seq(BOOLEAN) /\ stream' \in [Workers -> BOOLEAN]
    <3>1. CASE available_streams_ # <<>>
      <4>1. Head(available_streams_) \in BOOLEAN /\ Tail(available_streams_) \in Seq(BOOLEAN)
        BY <3>1, HeadTailProperties DEF TypeOK
      <4>2. QED
        BY <1>5, <3>1, <4>1 DEF WorkerAllocateStream, TypeOK
    <3>2. CASE available_streams_ = <<>>
      BY <1>5, <3>2 DEF WorkerAllocateStream, TypeOK
    <3>3. QED BY <3>1, <3>2
  <2>2. QED
    BY <1>5, <2>1 DEF WorkerAllocateStream, Step, TypeOK, WorkerStates, lifecycle, counters, client
<1>6. CASE WorkerExecute(w)
  <2>1. usage' \in [Tiers -> 0..MaxSize]
    <3>1. CASE UNCHANGED usage
      BY <3>1 DEF TypeOK
    <3>2. CASE usage' = Charge(tasks_[task[w]].route)
      <4>1. tasks_[task[w]] \in Task
        BY <1>6 DEF WorkerExecute, Step, TasksInv, PoppedOnce, Popped, Holds, TypeOK
      <4>2. /\ tasks_[task[w]].route[1] \in Tiers
            /\ tasks_[task[w]].route[2] \in Tiers
        BY <4>1, EngineAssumption DEF Task
      <4>3. \A n \in 0..MaxSize : OneMore(n) \in 0..MaxSize /\ OneLess(n) \in 0..MaxSize
        BY EngineAssumption DEF OneMore, OneLess
      <4>4. QED BY <3>2, <4>2, <4>3 DEF Charge, TypeOK
    <3>3. QED BY <1>6, <3>1, <3>2 DEF WorkerExecute
  <2>2. QED
    BY <1>6, <2>1 DEF WorkerExecute, Step, TypeOK, WorkerStates, lifecycle, client
<1>7. CASE WorkerReleaseStream(w)
  <2>1. available_streams_' \in Seq(BOOLEAN)
    BY <1>7, AppendProperties DEF WorkerReleaseStream, StreamsWith, TypeOK
  <2>2. QED
    BY <1>7, <2>1 DEF WorkerReleaseStream, Step, TypeOK, WorkerStates, lifecycle, counters, client
<1>8. CASE WorkerFinish(w)
  <2>1. DOMAIN tasks_' = DOMAIN tasks_ /\ tasks_' \in [DOMAIN tasks_ -> Task]
    BY <1>8, StatusEffect DEF WorkerFinish, TypeOK, Statuses
  <2>2. QED
    BY <1>8, <2>1 DEF WorkerFinish, Step, TypeOK, WorkerStates, lifecycle, counters, client
<1>9. CASE WorkerUpdateStats(w)
  BY <1>9 DEF WorkerUpdateStats, FailuresAfter, Step, TypeOK, WorkerStates, lifecycle, client
<1>10. CASE WorkerNotify(w)
  BY <1>10 DEF WorkerNotify, FinishNotifies, Woken, Roused, TypeOK, WorkerStates, lifecycle, counters
<1>11. QED
  BY <1>1, <1>2, <1>3, <1>4, <1>5, <1>6, <1>7, <1>8, <1>9, <1>10 DEF WorkerNext

-----------------------------------------------------------------------------
(* Where tasks are *)

\* What matters of a step that moves no task.
LEMMA TasksStay ==
  ASSUME TasksInv, UNCHANGED <<tasks_, task_priority_queue_>>,
         \A w \in Workers : /\ Popped(w)' => Popped(w) /\ task'[w] = task[w]
                            /\ (wpc'[w] = "fetch") = (wpc[w] = "fetch")
                            /\ Holds(w)' = Holds(w)
  PROVE  TasksInv'
<1>1. PoppedOnce'
  BY DEF TasksInv, PoppedOnce
<1>2. StatusFits'
  BY DEF TasksInv, StatusFits, Status, Popped
<1>3. PendingIsQueued'
  BY DEF TasksInv, PendingIsQueued, Status, Popped
<1>4. QED BY <1>1, <1>2, <1>3 DEF TasksInv

LEMMA LifecycleTasks ==
  ASSUME EngineInv,
         Initialize \/ InitializeFails \/ ShutdownStop \/ ShutdownNotify \/ ShutdownJoin
  PROVE  TasksInv'
<1>1. UNCHANGED <<tasks_, task_priority_queue_, task>>
  BY DEF Initialize, InitializeFails, ShutdownStop, ShutdownNotify, ShutdownJoin, worker
<1>2. \A w \in Workers : wpc'[w] = wpc[w] \/ {wpc[w], wpc'[w]} \subseteq {"ended", "loop", "asleep", "lock"}
  BY DEF Initialize, InitializeFails, ShutdownStop, ShutdownNotify, ShutdownJoin, worker,
         EngineInv, TypeOK, LifecycleInv, Woken
<1>3. QED
  BY <1>1, <1>2, TasksStay DEF EngineInv, Popped, Holds

LEMMA ClientTasks ==
  ASSUME EngineInv, NEW c \in Clients, ClientNext(c)
  PROVE  TasksInv'
<1> USE DEF EngineInv
<1>1. ASSUME NEW p \in Priorities, NEW r \in Routes, NEW a \in BOOLEAN,
             SubmitMigration(c, p, r, a)
      PROVE  TasksInv'
  <2>0. PICK id : id = NextTaskId
    OBVIOUS
  <2>1. /\ id \notin DOMAIN tasks_ /\ DOMAIN tasks_' = DOMAIN tasks_ \cup {id}
        /\ \A i \in DOMAIN tasks_ : tasks_'[i].status = tasks_[i].status
        /\ tasks_'[id].status = "PENDING"
    <3>1. id \notin DOMAIN tasks_ /\ DOMAIN tasks_' = DOMAIN tasks_ \cup {id}
      BY <1>1, <2>0, SubmitEffect
    <3>2. \A i \in DOMAIN tasks_ : tasks_'[i] = tasks_[i]
      BY <1>1, SubmitEffect
    <3>3. tasks_'[id] = [priority |-> p, route |-> r, addressed |-> a, status |-> "PENDING"]
      BY <1>1, <2>0, SubmitEffect, Zenon
    <3>4. QED BY <3>1, <3>2, <3>3
  <2>2. task_priority_queue_' = task_priority_queue_ \cup {id} /\ task' = task
    BY <1>1, <2>0 DEF SubmitMigration
  <2>3. \A w \in Workers : /\ (wpc'[w] = "fetch") = (wpc[w] = "fetch")
                           /\ Holds(w)' = Holds(w) /\ Popped(w)' = Popped(w)
    BY <1>1 DEF SubmitMigration, Announce, NotifyOne, Holds, Popped, TypeOK
  <2>4. PoppedOnce'
    BY <2>1, <2>2, <2>3 DEF TasksInv, PoppedOnce
  <2>5. StatusFits'
    BY <2>1, <2>2, <2>3 DEF TasksInv, StatusFits, PoppedOnce, Popped, Status, TypeOK
  <2>6. PendingIsQueued'
    BY <2>1, <2>2, <2>3 DEF TasksInv, PendingIsQueued, Status
  <2>7. QED BY <2>4, <2>5, <2>6 DEF TasksInv
<1>2. ASSUME NEW id \in DOMAIN tasks_, CancelMigration(c, id)
      PROVE  TasksInv'
  <2>1. /\ DOMAIN tasks_' = DOMAIN tasks_
        /\ \A i \in DOMAIN tasks_ :
             tasks_'[i].status = IF i = id THEN "CANCELLED" ELSE tasks_[i].status
        /\ Status(id) = "PENDING"
    BY <1>2, StatusEffect DEF CancelMigration, Cancellable, Status, Statuses
  <2>2. UNCHANGED <<task_priority_queue_, wpc, task>>
    BY <1>2 DEF CancelMigration, worker
  <2>3. PoppedOnce'
    BY <2>1, <2>2 DEF TasksInv, PoppedOnce, Popped, Holds
  <2>4. StatusFits'
    <3>0. task_priority_queue_ \subseteq DOMAIN tasks_
      BY DEF TypeOK
    <3>1. \A i \in task_priority_queue_ : tasks_'[i].status \in {"PENDING", "CANCELLED"}
      BY <2>1, <3>0 DEF TasksInv, StatusFits, Status
    <3>2. \A w \in Workers : wpc[w] = "fetch" => tasks_'[task[w]].status \in {"PENDING", "CANCELLED"}
      BY <2>1 DEF TasksInv, StatusFits, PoppedOnce, Popped, Status
    <3>3. \A w \in Workers : Holds(w) => tasks_'[task[w]].status = "IN_PROGRESS"
      BY <2>1 DEF TasksInv, StatusFits, PoppedOnce, Popped, Status
    <3>4. \A i \in DOMAIN tasks_ :
             tasks_'[i].status = "IN_PROGRESS" => \E w \in Workers : Holds(w) /\ task[w] = i
      BY <2>1 DEF TasksInv, StatusFits, Status
    <3>5. QED BY <2>1, <2>2, <3>1, <3>2, <3>3, <3>4 DEF StatusFits, Holds, Status
  <2>5. PendingIsQueued'
    BY <2>1, <2>2 DEF TasksInv, PendingIsQueued, Status
  <2>6. QED BY <2>3, <2>4, <2>5 DEF TasksInv
<1>3. ASSUME UNCHANGED <<tasks_, task_priority_queue_, wpc, task>>
      PROVE  TasksInv'
  BY <1>3, TasksStay DEF Popped, Holds
<1>4. QED
  BY <1>1, <1>2, <1>3
     DEF ClientNext, AwaitMigration, AwaitAllMigrations, Await, Recheck, AwaitTimeout, worker

LEMMA WorkerTasks ==
  ASSUME EngineInv, NEW w \in Workers, WorkerNext(w)
  PROVE  TasksInv'
<1> USE DEF EngineInv
<1>1. ASSUME UNCHANGED <<tasks_, task_priority_queue_, task>>,
             \A v \in Workers : /\ Popped(v)' => Popped(v)
                                /\ (wpc'[v] = "fetch") = (wpc[v] = "fetch")
                                /\ Holds(v)' = Holds(v)
      PROVE  TasksInv'
  BY <1>1, TasksStay
<1>2. CASE WorkerLoop(w) \/ WorkerBlock(w) \/ WorkerAllocateStream(w) \/ WorkerExecute(w)
           \/ WorkerReleaseStream(w) \/ WorkerUpdateStats(w)
  BY <1>1, <1>2 DEF WorkerLoop, WorkerBlock, WorkerAllocateStream, WorkerExecute,
                    WorkerReleaseStream, WorkerUpdateStats, Step, TypeOK, Popped, Holds
<1>3. CASE WorkerNotify(w)
  <2>1. \A v \in Workers : /\ Popped(v)' => Popped(v) /\ task'[v] = task[v]
                           /\ (wpc'[v] = "fetch") = (wpc[v] = "fetch")
                           /\ Holds(v)' = Holds(v)
    BY <1>3 DEF WorkerNotify, FinishNotifies, Woken, TypeOK, Popped, Holds
  <2>2. QED
    BY <1>3, <2>1, TasksStay DEF WorkerNotify
<1>4. CASE WorkerLock(w)
  <2>1. ASSUME UNCHANGED <<task_priority_queue_, task>>,
               Step(w, "lock", "ended") \/ Step(w, "lock", "block")
        PROVE  TasksInv'
    BY <1>1, <1>4, <2>1 DEF WorkerLock, Step, TypeOK, Popped, Holds
  <2>2. ASSUME NEW id \in task_priority_queue_,
               task' = [task EXCEPT ![w] = id],
               task_priority_queue_' = QueueWithout(id),
               Step(w, "lock", "fetch")
        PROVE  TasksInv'
    <3>1. tasks_' = tasks_
      BY <1>4 DEF WorkerLock
    <3>2. \A v \in Workers : IF v = w THEN task'[v] = id /\ wpc[v] = "lock" /\ wpc'[v] = "fetch"
                             ELSE task'[v] = task[v] /\ wpc'[v] = wpc[v]
      BY <2>2 DEF Step, TypeOK
    <3>3. task_priority_queue_' = task_priority_queue_ \ {id} /\ id \in DOMAIN tasks_
      BY <2>2 DEF QueueWithout, TypeOK
    <3>4. PoppedOnce'
      BY <3>1, <3>2, <3>3 DEF TasksInv, PoppedOnce, Popped, Holds
    <3>5. StatusFits'
      BY <3>1, <3>2, <3>3 DEF TasksInv, StatusFits, Popped, Holds, Status
    <3>6. PendingIsQueued'
      BY <3>1, <3>2, <3>3 DEF TasksInv, PendingIsQueued, Status
    <3>7. QED BY <3>4, <3>5, <3>6 DEF TasksInv
  <2>3. QED BY <1>4, <2>1, <2>2 DEF WorkerLock
<1>5. CASE WorkerFetch(w)
  <2>1. wpc[w] = "fetch" /\ task[w] \in DOMAIN tasks_
    BY <1>5 DEF WorkerFetch, TasksInv, PoppedOnce, Popped
  <2>2. CASE Startable(task[w])
    <3>1. /\ DOMAIN tasks_' = DOMAIN tasks_ /\ Status(task[w]) = "PENDING"
          /\ \A i \in DOMAIN tasks_ :
               tasks_'[i].status = IF i = task[w] THEN "IN_PROGRESS" ELSE tasks_[i].status
      BY <1>5, <2>2, StatusEffect DEF WorkerFetch, Startable, Status, Statuses
    <3>2. /\ UNCHANGED <<task_priority_queue_, task>>
          /\ \A v \in Workers : wpc'[v] = IF v = w THEN "stream" ELSE wpc[v]
      BY <1>5, <2>2 DEF WorkerFetch, Step, TypeOK
    <3>3. PoppedOnce'
      BY <2>1, <3>1, <3>2 DEF TasksInv, PoppedOnce, Popped, Holds
    <3>4. StatusFits'
      <4>1. \A i \in task_priority_queue_ : i \in DOMAIN tasks_ /\ i # task[w]
        BY <2>1 DEF TypeOK, TasksInv, PoppedOnce, Popped
      <4>2. \A v \in Workers \ {w} :
              Popped(v) => task[v] \in DOMAIN tasks_ /\ tasks_'[task[v]].status = Status(task[v])
        BY <2>1, <3>1 DEF TasksInv, PoppedOnce, Popped, Status
      <4>3. \A v \in Workers : wpc'[v] = "fetch" => Status(task[v])' \in {"PENDING", "CANCELLED"}
        BY <3>2, <4>2 DEF TasksInv, StatusFits, Popped, Status
      <4>4. \A v \in Workers : Holds(v)' => Status(task[v])' = "IN_PROGRESS"
        BY <2>1, <3>1, <3>2, <4>2 DEF TasksInv, StatusFits, Popped, Holds, Status
      <4>5. \A i \in DOMAIN tasks_ :
              tasks_'[i].status = "IN_PROGRESS" => \E v \in Workers : Holds(v)' /\ task[v] = i
        BY <2>1, <3>1, <3>2 DEF TasksInv, StatusFits, Holds, Status
      <4>6. QED
        BY <3>1, <3>2, <4>1, <4>3, <4>4, <4>5 DEF TasksInv, StatusFits, Status
    <3>5. PendingIsQueued'
      BY <2>1, <3>1, <3>2 DEF TasksInv, PendingIsQueued, Status
    <3>6. QED BY <3>3, <3>4, <3>5 DEF TasksInv
  <2>3. CASE ~Startable(task[w])
    <3>1. UNCHANGED <<tasks_, task_priority_queue_>>
      BY <1>5, <2>3 DEF WorkerFetch
    <3>2. \A v \in Workers : /\ wpc'[v] = IF v = w THEN "loop" ELSE wpc[v]
                             /\ v # w => task'[v] = task[v]
      BY <1>5, <2>3 DEF WorkerFetch, Step, TypeOK
    <3>3. PoppedOnce'
      BY <2>1, <3>1, <3>2 DEF TasksInv, PoppedOnce, Popped, Holds
    <3>4. StatusFits'
      BY <2>1, <3>1, <3>2 DEF TasksInv, StatusFits, Holds, Status
    <3>5. PendingIsQueued'
      BY <2>1, <2>3, <3>1, <3>2 DEF TasksInv, PendingIsQueued, Status, Startable
    <3>6. QED BY <3>3, <3>4, <3>5 DEF TasksInv
  <2>4. QED BY <2>2, <2>3
<1>6. CASE WorkerFinish(w)
  <2>1. Holds(w) /\ Popped(w) /\ task[w] \in DOMAIN tasks_
    BY <1>6 DEF WorkerFinish, Step, TasksInv, PoppedOnce, Popped, Holds
  <2>2. /\ DOMAIN tasks_' = DOMAIN tasks_ /\ Status(task[w]) = "IN_PROGRESS"
        /\ \A i \in DOMAIN tasks_ : i # task[w] => tasks_'[i].status = tasks_[i].status
        /\ tasks_'[task[w]].status \in {"COMPLETED", "FAILED"}
    <3>1. PICK st \in {"COMPLETED", "FAILED"} : tasks_' = [tasks_ EXCEPT ![task[w]].status = st]
      BY <1>6 DEF WorkerFinish
    <3>2. /\ DOMAIN tasks_' = DOMAIN tasks_
          /\ \A i \in DOMAIN tasks_ : tasks_'[i].status = IF i = task[w] THEN st ELSE Status(i)
      BY <3>1, StatusEffect DEF Statuses
    <3>3. Status(task[w]) = "IN_PROGRESS"
      BY <2>1 DEF TasksInv, StatusFits
    <3>4. QED BY <2>1, <3>2, <3>3 DEF Status
  <2>3. /\ UNCHANGED <<task_priority_queue_, task>>
        /\ \A v \in Workers : wpc'[v] = IF v = w THEN "stats" ELSE wpc[v]
    BY <1>6 DEF WorkerFinish, Step, TypeOK
  <2>4. PoppedOnce'
    BY <2>1, <2>2, <2>3 DEF TasksInv, PoppedOnce, Popped, Holds
  <2>5. StatusFits'
    <3>1. \A i \in task_priority_queue_ : i \in DOMAIN tasks_ /\ i # task[w]
      BY <2>1 DEF TypeOK, TasksInv, PoppedOnce, Popped
    <3>2. \A v \in Workers \ {w} :
            Popped(v) => task[v] \in DOMAIN tasks_ /\ tasks_'[task[v]].status = Status(task[v])
      BY <2>1, <2>2 DEF TasksInv, PoppedOnce, Popped, Status
    <3>3. \A v \in Workers : wpc'[v] = "fetch" => Status(task[v])' \in {"PENDING", "CANCELLED"}
      BY <2>3, <3>2 DEF TasksInv, StatusFits, Popped, Status
    <3>4. \A v \in Workers : Holds(v)' => Status(task[v])' = "IN_PROGRESS"
      BY <2>1, <2>2, <2>3, <3>2 DEF TasksInv, StatusFits, Popped, Holds, Status
    <3>5. \A i \in DOMAIN tasks_ :
            tasks_'[i].status = "IN_PROGRESS" => \E v \in Workers : Holds(v)' /\ task[v] = i
      BY <2>1, <2>2, <2>3 DEF TasksInv, StatusFits, Holds, Status
    <3>6. QED
      BY <2>2, <2>3, <3>1, <3>3, <3>4, <3>5 DEF TasksInv, StatusFits, Status
  <2>6. PendingIsQueued'
    BY <2>1, <2>2, <2>3 DEF TasksInv, PendingIsQueued, Status
  <2>7. QED BY <2>4, <2>5, <2>6 DEF TasksInv
<1>7. QED
  BY <1>2, <1>3, <1>4, <1>5, <1>6 DEF WorkerNext

-----------------------------------------------------------------------------
(* The inductive invariant *)

LEMMA InitEngine == Init => EngineInv
<1> SUFFICES ASSUME Init PROVE EngineInv
  OBVIOUS
<1>1. TypeOK
  BY InitType
<1>2. LifecycleInv
  BY DEF Init, LifecycleInv
<1>3. TasksInv
  BY DEF Init, TasksInv, PoppedOnce, StatusFits, PendingIsQueued, Popped, Holds
<1>4. QED BY <1>1, <1>2, <1>3 DEF EngineInv

\* Workers leave "ended" only in initialize, and enter it only after running_
\* was cleared.
LEMMA LifecycleStep ==
  ASSUME EngineInv, [Next]_vars
  PROVE  LifecycleInv'
<1> USE DEF EngineInv, LifecycleInv
<1>1. CASE Initialize
  BY <1>1 DEF Initialize
<1>2. CASE InitializeFails
  BY <1>2 DEF InitializeFails, worker
<1>3. CASE ShutdownStop
  BY <1>3 DEF ShutdownStop, worker
<1>4. CASE ShutdownNotify
  BY <1>4 DEF ShutdownNotify, Woken
<1>5. CASE ShutdownJoin
  BY <1>5 DEF ShutdownJoin, worker
<1>6. ASSUME NEW w \in Workers, WorkerNext(w)
      PROVE  LifecycleInv'
  <2>1. wpc[w] # "ended" /\ UNCHANGED lifecycle
    BY <1>6 DEF WorkerNext, WorkerLoop, WorkerLock, WorkerBlock, WorkerFetch, WorkerAllocateStream,
                WorkerExecute, WorkerReleaseStream, WorkerFinish, WorkerUpdateStats, WorkerNotify,
                FinishNotifies, Step
  <2>2. \A v \in Workers : v # w => wpc'[v] = wpc[v] \/ {wpc[v], wpc'[v]} = {"asleep", "lock"}
    BY <1>6 DEF WorkerNext, WorkerLoop, WorkerLock, WorkerBlock, WorkerFetch, WorkerAllocateStream,
                WorkerExecute, WorkerReleaseStream, WorkerFinish, WorkerUpdateStats, WorkerNotify,
                FinishNotifies, Step, Woken, TypeOK
  <2>3. running_ => wpc'[w] # "ended"
    BY <1>6 DEF WorkerNext, WorkerLoop, WorkerLock, WorkerBlock, WorkerFetch, WorkerAllocateStream,
                WorkerExecute, WorkerReleaseStream, WorkerFinish, WorkerUpdateStats, WorkerNotify,
                FinishNotifies, Step, TypeOK
  <2>4. QED BY <2>1, <2>2, <2>3 DEF lifecycle
<1>7. ASSUME NEW c \in Clients, ClientNext(c)
      PROVE  LifecycleInv'
  <2>1. UNCHANGED lifecycle
    BY <1>7 DEF ClientNext, SubmitMigration, CancelMigration, AwaitMigration, AwaitAllMigrations,
                Await, Recheck, AwaitTimeout
  <2>2. \A w \in Workers : wpc'[w] = wpc[w] \/ {wpc[w], wpc'[w]} = {"asleep", "lock"}
    BY <1>7 DEF ClientNext, SubmitMigration, CancelMigration, AwaitMigration, AwaitAllMigrations,
                Await, Recheck, AwaitTimeout, Announce, NotifyOne, worker, TypeOK
  <2>3. QED BY <2>1, <2>2 DEF lifecycle
<1>8. CASE UNCHANGED vars
  BY <1>8 DEF vars, lifecycle, worker
<1>9. QED
  BY <1>1, <1>2, <1>3, <1>4, <1>5, <1>6, <1>7, <1>8 DEF Next

LEMMA EngineStep == EngineInv /\ [Next]_vars => EngineInv'
<1> SUFFICES ASSUME EngineInv, [Next]_vars PROVE TypeOK' /\ TasksInv'
  BY LifecycleStep DEF EngineInv
<1>1. CASE Initialize \/ InitializeFails \/ ShutdownStop \/ ShutdownNotify \/ ShutdownJoin
  BY <1>1, LifecycleType, LifecycleTasks DEF EngineInv
<1>2. ASSUME NEW w \in Workers, WorkerNext(w) PROVE TypeOK' /\ TasksInv'
  BY <1>2, WorkerType, WorkerTasks
<1>3. ASSUME NEW c \in Clients, ClientNext(c) PROVE TypeOK' /\ TasksInv'
  BY <1>3, ClientType, ClientTasks DEF EngineInv
<1>4. CASE UNCHANGED vars
  <2>1. TypeOK'
    BY <1>4 DEF EngineInv, TypeOK, vars, lifecycle, counters, worker, client
  <2>2. TasksInv'
    BY <1>4, TasksStay DEF EngineInv, vars, worker, Popped, Holds
  <2>3. QED BY <2>1, <2>2
<1>5. QED BY <1>1, <1>2, <1>3, <1>4 DEF Next

LEMMA EngineInvHolds == Spec => []EngineInv
BY InitEngine, EngineStep, PTL DEF Spec

\* Every call and every thread keeps the engine's state in its types: ids are
\* given out without gaps, queued ids and ids in hand are known.
THEOREM EngineTyped == Spec => []TypeOK
<1>1. EngineInv => TypeOK
  BY DEF EngineInv
<1>2. QED BY <1>1, EngineInvHolds, PTL

\* No task is executed by two workers, or left in progress by all, whatever is
\* cancelled, shut down and initialized again.
THEOREM EachTaskOneWorker == Spec => []OneWorkerPerTask
<1>1. EngineInv => OneWorkerPerTask
  BY DEF EngineInv, TasksInv, PoppedOnce, StatusFits, OneWorkerPerTask, Popped, Known, Status
<1>2. QED BY <1>1, EngineInvHolds, PTL

\* No pending task is lost, neither between a pop and a fetch nor by a shutdown.
THEOREM NoTaskDropped == Spec => []PendingIsQueued
<1>1. EngineInv => PendingIsQueued
  BY DEF EngineInv, TasksInv
<1>2. QED BY <1>1, EngineInvHolds, PTL

-----------------------------------------------------------------------------
(* Steps *)

\* A status goes from PENDING to IN_PROGRESS or CANCELLED, and from IN_PROGRESS
\* to an outcome, when its worker finishes; nothing else of a known task changes.
LEMMA StatusMoves ==
  ASSUME EngineInv, [Next]_vars, NEW id \in DOMAIN tasks_
  PROVE  /\ id \in DOMAIN tasks_' /\ tasks_'[id].route = tasks_[id].route
         /\ \/ tasks_'[id].status = Status(id)
            \/ Status(id) = "PENDING" /\ tasks_'[id].status \in {"CANCELLED", "IN_PROGRESS"}
            \/ /\ Status(id) = "IN_PROGRESS" /\ tasks_'[id].status \in {"COMPLETED", "FAILED"}
               /\ \E w \in Workers : WorkerFinish(w)
<1> DEFINE Moves == /\ id \in DOMAIN tasks_' /\ tasks_'[id].route = tasks_[id].route
                    /\ \/ tasks_'[id].status = Status(id)
                       \/ /\ Status(id) = "PENDING"
                          /\ tasks_'[id].status \in {"CANCELLED", "IN_PROGRESS"}
                       \/ /\ Status(id) = "IN_PROGRESS"
                          /\ tasks_'[id].status \in {"COMPLETED", "FAILED"}
                          /\ \E w \in Workers : WorkerFinish(w)
<1>1. TypeOK
  BY DEF EngineInv
<1>2. CASE UNCHANGED tasks_
  BY <1>2 DEF Status
<1>3. ASSUME NEW what \in DOMAIN tasks_, NEW s \in Statuses,
             tasks_' = [tasks_ EXCEPT ![what].status = s],
             \/ Status(what) = "PENDING" /\ s \in {"CANCELLED", "IN_PROGRESS"}
             \/ /\ Status(what) = "IN_PROGRESS" /\ s \in {"COMPLETED", "FAILED"}
                /\ \E w \in Workers : WorkerFinish(w)
      PROVE  Moves
  <2>1. tasks_'[id] = IF id = what THEN [tasks_[id] EXCEPT !.status = s] ELSE tasks_[id]
    BY <1>1, <1>3, StatusEffect
  <2>2. tasks_[id] \in Task /\ DOMAIN tasks_' = DOMAIN tasks_
    BY <1>1, <1>3, StatusEffect DEF TypeOK
  <2>3. tasks_'[id].route = tasks_[id].route
        /\ tasks_'[id].status = IF id = what THEN s ELSE Status(id)
    BY <2>1, <2>2 DEF Task, Status
  <2>4. QED BY <1>3, <2>2, <2>3
<1>4. ASSUME NEW c \in Clients, ClientNext(c)
      PROVE  Moves
  <2>1. ASSUME NEW p \in Priorities, NEW r \in Routes, NEW a \in BOOLEAN,
               SubmitMigration(c, p, r, a)
        PROVE  Moves
    <3>1. id \in DOMAIN tasks_' /\ tasks_'[id] = tasks_[id]
      BY <1>1, <2>1, SubmitEffect
    <3>2. QED BY <3>1 DEF Status
  <2>2. ASSUME NEW what \in DOMAIN tasks_, CancelMigration(c, what)
        PROVE  Moves
    BY <1>3, <2>2 DEF CancelMigration, Cancellable, Statuses
  <2>3. ASSUME \A p \in Priorities, r \in Routes, a \in BOOLEAN : ~SubmitMigration(c, p, r, a),
               \A what \in DOMAIN tasks_ : ~CancelMigration(c, what)
        PROVE  UNCHANGED tasks_
    BY <1>4, <2>3 DEF ClientNext, AwaitMigration, AwaitAllMigrations, Await, Recheck, AwaitTimeout
  <2>4. QED BY <1>2, <2>1, <2>2, <2>3
<1>5. ASSUME NEW w \in Workers, WorkerNext(w)
      PROVE  Moves
  <2>1. CASE WorkerFetch(w) /\ Startable(task[w])
    <3>1. task[w] \in DOMAIN tasks_
      BY <2>1 DEF WorkerFetch, EngineInv, TasksInv, PoppedOnce, Popped
    <3>2. QED BY <1>3, <2>1, <3>1 DEF WorkerFetch, Startable, Statuses
  <2>2. CASE WorkerFinish(w)
    <3>1. Holds(w)
      BY <2>2 DEF WorkerFinish, Step, Holds
    <3>2. task[w] \in DOMAIN tasks_ /\ Status(task[w]) = "IN_PROGRESS"
      BY <3>1 DEF EngineInv, TasksInv, PoppedOnce, StatusFits, Popped
    <3>3. PICK st \in {"COMPLETED", "FAILED"} : tasks_' = [tasks_ EXCEPT ![task[w]].status = st]
      BY <2>2 DEF WorkerFinish
    <3>4. QED BY <1>3, <2>2, <3>2, <3>3 DEF Statuses
  <2>3. CASE ~(WorkerFetch(w) /\ Startable(task[w])) /\ ~WorkerFinish(w)
    <3>1. UNCHANGED tasks_
      BY <1>5, <2>3 DEF WorkerNext, WorkerLoop, WorkerLock, WorkerBlock, WorkerFetch,
           WorkerAllocateStream, WorkerExecute, WorkerReleaseStream, WorkerUpdateStats, WorkerNotify
    <3>2. QED BY <1>2, <3>1
  <2>4. QED BY <2>1, <2>2, <2>3
<1>6. CASE Initialize \/ InitializeFails \/ ShutdownStop \/ ShutdownNotify \/ ShutdownJoin
  BY <1>2, <1>6 DEF Initialize, InitializeFails, ShutdownStop, ShutdownNotify, ShutdownJoin
<1>7. CASE UNCHANGED vars
  BY <1>2, <1>7 DEF vars
<1>8. QED BY <1>4, <1>5, <1>6, <1>7 DEF Next

\* What a task ended with is final: no worker overwrites a cancellation, and no
\* cancellation an outcome.
THEOREM OutcomesAreFinal == Spec => OutcomeStays
<1>1. EngineInv /\ [Next]_vars =>
        [\A id \in DOMAIN tasks_ : Status(id) \in {"COMPLETED", "FAILED", "CANCELLED"} =>
           tasks_'[id].status = Status(id)]_vars
  BY StatusMoves
<1>2. QED BY <1>1, EngineInvHolds, PTL DEF Spec, OutcomeStays

\* Ranks order priorities, whatever ids wrap.
LEMMA RankOrdersPriorities ==
  ASSUME NEW i \in Nat, NEW j \in Nat, NEW p \in 0..3, NEW q \in 0..3, p < q
  PROVE  p * IdModulus + (i % IdModulus) < q * IdModulus + (j % IdModulus)
<1>1. IdModulus \in Nat /\ IdModulus > 0
  BY EngineAssumption
<1>2. i % IdModulus \in 0..(IdModulus - 1) /\ j % IdModulus \in 0..(IdModulus - 1)
  BY <1>1
<1>3. \E d \in 1..3 : q = p + d
  BY Z3
<1>4. QED BY <1>1, <1>2, <1>3, Z3

\* A worker takes a task of the highest priority that is queued.
THEOREM UrgentServedFirst == Spec => UrgentFirst
<1>1. ASSUME EngineInv, Next,
             NEW id \in task_priority_queue_ \ task_priority_queue_',
             NEW j \in task_priority_queue_'
      PROVE  tasks_[j].priority <= tasks_[id].priority
  <2>1. PICK w \in Workers : WorkerLock(w) /\ ~UNCHANGED task_priority_queue_
    <3>1. UNCHANGED task_priority_queue_ \/ task_priority_queue_ \subseteq task_priority_queue_'
          \/ \E w \in Workers : WorkerLock(w)
      BY <1>1 DEF Next, Initialize, InitializeFails, ShutdownStop, ShutdownNotify, ShutdownJoin,
           ClientNext, SubmitMigration, CancelMigration, AwaitMigration, AwaitAllMigrations, Await,
           Recheck, AwaitTimeout, WorkerNext, WorkerLoop, WorkerBlock, WorkerFetch,
           WorkerAllocateStream, WorkerExecute, WorkerReleaseStream, WorkerFinish,
           WorkerUpdateStats, WorkerNotify
    <3>2. QED BY <3>1
  <2>2. Top(id) /\ j \in task_priority_queue_
    BY <2>1 DEF WorkerLock, QueueWithout
  <2>3. /\ id \in DOMAIN tasks_ /\ j \in DOMAIN tasks_
        /\ tasks_ \in [DOMAIN tasks_ -> Task] /\ DOMAIN tasks_ \subseteq Nat
    BY <1>1, <2>2 DEF EngineInv, TypeOK
  <2>4. /\ id \in Nat /\ j \in Nat
        /\ tasks_[id].priority \in 0..3 /\ tasks_[j].priority \in 0..3
    BY <2>3, EngineAssumption DEF Task
  <2>5. Rank(id) >= Rank(j)
    <3>1. IdModulus \in Nat /\ IdModulus > 0
      BY EngineAssumption
    <3>2. id % IdModulus \in Int /\ j % IdModulus \in Int
      BY <2>4, <3>1
    <3>3. Rank(id) \in Int /\ Rank(j) \in Int
      BY <2>4, <3>1, <3>2 DEF Rank
    <3>4. Before(id, j)
      BY <2>2 DEF Top
    <3>5. QED BY <3>3, <3>4 DEF Before
  <2>6. ~ tasks_[id].priority < tasks_[j].priority
    <3> SUFFICES ASSUME tasks_[id].priority < tasks_[j].priority PROVE FALSE
      OBVIOUS
    <3>1. Rank(id) < Rank(j)
      BY <2>4, RankOrdersPriorities DEF Rank
    <3>2. Rank(id) \in Int /\ Rank(j) \in Int
      BY <2>4, EngineAssumption DEF Rank
    <3>3. QED BY <2>5, <3>1, <3>2
  <2>7. QED BY <2>4, <2>6
<1>2. EngineInv /\ [Next]_vars =>
        [\A id \in task_priority_queue_ \ task_priority_queue_' :
           \A j \in task_priority_queue_' : tasks_[j].priority <= tasks_[id].priority]_vars
  BY <1>1
<1>3. QED BY <1>2, EngineInvHolds, PTL DEF Spec, UrgentFirst

-----------------------------------------------------------------------------
(* Waking up *)

\* Only a worker that finishes makes the predicate of a wait true.
LEMMA SatisfiedByFinish ==
  ASSUME EngineInv, [Next]_vars, \A w \in Workers : ~WorkerFinish(w),
         NEW what \in DOMAIN tasks_ \cup {NoTask, AllTasks}, Satisfied(what)'
  PROVE  Satisfied(what)
<1>1. \A id \in DOMAIN tasks_ :
        id \in DOMAIN tasks_' /\ (tasks_'[id].status \in {"COMPLETED", "FAILED"} => Done(id))
  BY StatusMoves DEF Done
<1>2. CASE what = AllTasks
  <2>1. \A id \in DOMAIN tasks_ : Done(id)
    BY <1>1, <1>2 DEF Satisfied, Done, Status
  <2>2. task_priority_queue_ = {}
    BY <2>1 DEF EngineInv, TypeOK, TasksInv, StatusFits, Done
  <2>3. QED BY <1>2, <2>1, <2>2 DEF Satisfied
<1>3. CASE what # AllTasks
  BY <1>1, <1>3 DEF Satisfied, Known, Done, Status
<1>4. QED BY <1>2, <1>3

\* A worker that is about to notify stays so until it does.
LEMMA NotifierStays ==
  ASSUME EngineInv, [Next]_vars, \A w \in Workers : ~WorkerNotify(w),
         NEW v \in Workers, wpc[v] \in {"stats", "notify"}
  PROVE  wpc'[v] \in {"stats", "notify"}
<1> USE DEF EngineInv, TypeOK, Step
<1>1. ASSUME NEW w \in Workers, WorkerNext(w) PROVE wpc'[v] \in {"stats", "notify"}
  BY <1>1 DEF WorkerNext, WorkerLoop, WorkerLock, WorkerBlock, WorkerFetch, WorkerAllocateStream,
              WorkerExecute, WorkerReleaseStream, WorkerFinish, WorkerUpdateStats
<1>2. ASSUME NEW c \in Clients, ClientNext(c) PROVE wpc'[v] \in {"stats", "notify"}
  BY <1>2 DEF ClientNext, SubmitMigration, CancelMigration, AwaitMigration, AwaitAllMigrations,
              Await, Recheck, AwaitTimeout, Announce, NotifyOne, worker
<1>3. CASE Initialize \/ InitializeFails \/ ShutdownStop \/ ShutdownNotify \/ ShutdownJoin
  BY <1>3 DEF Initialize, InitializeFails, ShutdownStop, ShutdownNotify, ShutdownJoin,
              LifecycleInv, Woken, worker
<1>4. CASE UNCHANGED vars
  BY <1>4 DEF vars, worker
<1>5. QED BY <1>1, <1>2, <1>3, <1>4 DEF Next

\* A client falls asleep only when its predicate is false, and is asleep after a
\* step that notifies only if it was before.
LEMMA ClientSleeps ==
  ASSUME EngineInv, [Next]_vars, NEW c \in Clients, cpc'[c] = "asleep"
  PROVE  /\ \A w \in Workers : ~WorkerNotify(w)
         /\ \/ cpc[c] = "asleep" /\ awaited'[c] = awaited[c]
            \/ ~Satisfied(awaited[c])'
<1> USE DEF EngineInv, TypeOK
<1>1. ASSUME NEW w \in Workers, WorkerNext(w)
      PROVE  ~WorkerNotify(w) /\ cpc' = cpc /\ awaited' = awaited
  BY <1>1 DEF WorkerNext, WorkerLoop, WorkerLock, WorkerBlock, WorkerFetch, WorkerAllocateStream,
              WorkerExecute, WorkerReleaseStream, WorkerFinish, WorkerUpdateStats, WorkerNotify,
              FinishNotifies, Roused, client
<1>2. ASSUME NEW d \in Clients, ClientNext(d)
      PROVE  \/ cpc[c] = "asleep" /\ awaited'[c] = awaited[c]
             \/ ~Satisfied(awaited[c])'
  <2>1. ASSUME UNCHANGED <<tasks_, task_priority_queue_>>,
               \/ cpc'[c] = cpc[c] /\ awaited'[c] = awaited[c]
               \/ ~Satisfied(awaited'[c])
        PROVE  \/ cpc[c] = "asleep" /\ awaited'[c] = awaited[c]
               \/ ~Satisfied(awaited[c])'
    BY <2>1 DEF Satisfied, Known, Done, Status
  <2>2. CASE \E what \in DOMAIN tasks_ \cup {AllTasks} : Await(d, what)
    BY <2>1, <2>2 DEF Await
  <2>3. CASE Recheck(d) \/ AwaitTimeout(d)
    BY <2>1, <2>3 DEF Recheck, AwaitTimeout
  <2>4. CASE \E p \in Priorities, r \in Routes, a \in BOOLEAN : SubmitMigration(d, p, r, a)
    BY <2>4 DEF SubmitMigration, Announce, NotifyOne
  <2>5. CASE \E id \in DOMAIN tasks_ : CancelMigration(d, id)
    BY <2>5 DEF CancelMigration, client
  <2>6. QED
    BY <1>2, <2>2, <2>3, <2>4, <2>5 DEF ClientNext, AwaitMigration, AwaitAllMigrations
<1>3. ASSUME Initialize \/ InitializeFails \/ ShutdownStop \/ ShutdownNotify \/ ShutdownJoin
             \/ UNCHANGED vars
      PROVE  cpc[c] = "asleep" /\ awaited'[c] = awaited[c]
  BY <1>3 DEF Initialize, InitializeFails, ShutdownStop, ShutdownNotify, ShutdownJoin, Roused,
       client, vars
<1>4. \A w \in Workers : ~WorkerNotify(w)
  BY DEF WorkerNotify, FinishNotifies, Roused
<1>5. QED BY <1>1, <1>2, <1>3, <1>4 DEF Next

LEMMA SleepersStep == EngineInv /\ SleepersKnow /\ [Next]_vars => SleepersKnow'
<1> SUFFICES ASSUME EngineInv, SleepersKnow, [Next]_vars PROVE SleepersKnow'
  OBVIOUS
<1>1. ASSUME NEW v \in Workers, wpc'[v] = "block"
      PROVE  task_priority_queue_' = {}
  <2> USE DEF EngineInv, TypeOK, SleepersKnow, MutexFree, Step
  <2>1. ASSUME NEW w \in Workers, WorkerNext(w) PROVE task_priority_queue_' = {}
    <3>1. CASE wpc[v] = "block"
      BY <1>1, <2>1, <3>1 DEF WorkerNext, WorkerLoop, WorkerLock, WorkerBlock, WorkerFetch,
           WorkerAllocateStream, WorkerExecute, WorkerReleaseStream, WorkerFinish,
           WorkerUpdateStats, WorkerNotify, FinishNotifies, Woken
    <3>2. CASE wpc[v] # "block"
      BY <1>1, <2>1, <3>2 DEF WorkerNext, WorkerLoop, WorkerLock, WorkerBlock, WorkerFetch,
           WorkerAllocateStream, WorkerExecute, WorkerReleaseStream, WorkerFinish,
           WorkerUpdateStats, WorkerNotify, FinishNotifies, Woken
    <3>3. QED BY <3>1, <3>2
  <2>2. ASSUME NEW c \in Clients, ClientNext(c) PROVE task_priority_queue_' = {}
    BY <1>1, <2>2 DEF ClientNext, SubmitMigration, CancelMigration, AwaitMigration,
         AwaitAllMigrations, Await, Recheck, AwaitTimeout, Announce, NotifyOne, worker
  <2>3. CASE Initialize \/ InitializeFails \/ ShutdownStop \/ ShutdownNotify \/ ShutdownJoin
    BY <1>1, <2>3 DEF Initialize, InitializeFails, ShutdownStop, ShutdownNotify, ShutdownJoin,
         Woken, worker
  <2>4. CASE UNCHANGED vars
    BY <1>1, <2>4 DEF vars, worker
  <2>5. QED BY <2>1, <2>2, <2>3, <2>4 DEF Next
<1>2. ASSUME NEW c \in Clients, cpc'[c] = "asleep", Satisfied(awaited[c])'
      PROVE  \E w \in Workers : wpc'[w] \in {"stats", "notify"}
  <2>1. CASE \E w \in Workers : WorkerFinish(w)
    BY <2>1 DEF WorkerFinish, Step, EngineInv, TypeOK
  <2>2. CASE \A w \in Workers : ~WorkerFinish(w)
    <3>1. cpc[c] = "asleep" /\ awaited'[c] = awaited[c]
      BY <1>2, ClientSleeps
    <3>2. awaited[c] \in DOMAIN tasks_ \cup {NoTask, AllTasks}
      BY DEF EngineInv, TypeOK
    <3>3. \A what : what = awaited'[c] => Satisfied(what)'
      BY <1>2 DEF Satisfied, Known, Done, Status
    <3>4. Satisfied(awaited[c])
      BY <2>2, <3>1, <3>2, <3>3, SatisfiedByFinish
    <3>5. PICK w \in Workers : wpc[w] \in {"stats", "notify"}
      BY <3>1, <3>4 DEF SleepersKnow
    <3>6. QED BY <1>2, <3>5, NotifierStays, ClientSleeps
  <2>3. QED BY <2>1, <2>2
<1>3. QED BY <1>1, <1>2 DEF SleepersKnow

\* No wakeup is lost between the critical sections: a worker that is about to
\* sleep sees an empty queue, and a client that sleeps in a wait whose condition
\* holds is about to be notified by a worker.
THEOREM NoWakeupLost == Spec => []SleepersKnow
<1>1. Init => SleepersKnow
  BY DEF Init, SleepersKnow
<1>2. QED BY <1>1, SleepersStep, EngineInvHolds, PTL DEF Spec

\* While every worker of an engine that runs sleeps and nothing is queued or
\* cancelled, every task is finished and no client sleeps.
LEMMA AllAsleepAllDone ==
  ASSUME EngineInv, SleepersKnow, NothingCancelled, task_priority_queue_ = {},
         \A w \in Workers : wpc[w] = "asleep"
  PROVE  \A c \in Clients : cpc[c] # "asleep"
<1>1. \A id \in DOMAIN tasks_ : Status(id) \in Statuses
  BY DEF EngineInv, TypeOK, Task, Status
<1>2. \A id \in DOMAIN tasks_ : Status(id) \notin {"PENDING", "IN_PROGRESS", "CANCELLED"}
  BY DEF EngineInv, TasksInv, PendingIsQueued, StatusFits, NothingCancelled, Holds
<1>3. \A id \in DOMAIN tasks_ : Done(id)
  BY <1>1, <1>2 DEF Statuses, Done
<1>4. \A c \in Clients : Satisfied(awaited[c])
  BY <1>3 DEF Satisfied, Known
<1>5. QED BY <1>4 DEF SleepersKnow

LEMMA AttendsStep ==
  ASSUME Workers # {}, EngineInv, SleepersKnow, SomeoneAttends, [Next]_vars
  PROVE  SomeoneAttends'
<1> DEFINE Up(w) == wpc[w] \notin {"asleep", "ended"}
<1> SUFFICES ASSUME initialized_', running_', task_priority_queue_' # {}, NothingCancelled'
             PROVE  \E w \in Workers : Up(w)'
  BY DEF SomeoneAttends
<1>1. NothingCancelled
  <2> SUFFICES ASSUME NEW id \in DOMAIN tasks_, Status(id) = "CANCELLED" PROVE FALSE
    BY DEF NothingCancelled
  <2>1. id \in DOMAIN tasks_' /\ tasks_'[id].status = "CANCELLED"
    BY StatusMoves
  <2>2. QED BY <2>1 DEF NothingCancelled, Status
<1>2. CASE Initialize
  BY <1>2 DEF Initialize
<1>3. CASE ~Initialize
  <2>1. initialized_ /\ running_
    BY <1>3 DEF Next, InitializeFails, ShutdownStop, ShutdownNotify, ShutdownJoin,
         ClientNext, SubmitMigration, CancelMigration, AwaitMigration, AwaitAllMigrations, Await,
         Recheck, AwaitTimeout, WorkerNext, WorkerLoop, WorkerLock, WorkerBlock, WorkerFetch,
         WorkerAllocateStream, WorkerExecute, WorkerReleaseStream, WorkerFinish,
         WorkerUpdateStats, WorkerNotify, lifecycle, vars
  <2>2. \A w \in Workers : wpc[w] # "ended"
    BY <2>1 DEF EngineInv, LifecycleInv
  <2>3. ASSUME NEW w \in Workers, Up(w) PROVE Up(w)'
    <3> USE DEF EngineInv, TypeOK, Step
    <3>1. ASSUME NEW v \in Workers, WorkerNext(v) PROVE Up(w)'
      BY <2>1, <2>3, <3>1 DEF WorkerNext, WorkerLoop, WorkerLock, WorkerBlock, WorkerFetch,
           WorkerAllocateStream, WorkerExecute, WorkerReleaseStream, WorkerFinish,
           WorkerUpdateStats, WorkerNotify, FinishNotifies, Woken, SleepersKnow
    <3>2. ASSUME NEW c \in Clients, ClientNext(c) PROVE Up(w)'
      BY <2>3, <3>2 DEF ClientNext, SubmitMigration, CancelMigration, AwaitMigration,
           AwaitAllMigrations, Await, Recheck, AwaitTimeout, Announce, NotifyOne, worker
    <3>3. CASE InitializeFails \/ ShutdownStop \/ ShutdownNotify \/ ShutdownJoin \/ UNCHANGED vars
      BY <2>3, <3>3 DEF InitializeFails, ShutdownStop, ShutdownNotify, ShutdownJoin, Woken,
           worker, vars
    <3>4. QED BY <1>3, <3>1, <3>2, <3>3 DEF Next
  <2>4. CASE \E w \in Workers : Up(w)
    BY <2>3, <2>4
  <2>5. CASE \A w \in Workers : wpc[w] = "asleep"
    <3>1. task_priority_queue_ = {}
      BY <2>1, <2>5, <1>1 DEF SomeoneAttends
    <3>2. \A c \in Clients : cpc[c] # "asleep"
      BY <1>1, <2>5, <3>1, AllAsleepAllDone
    <3>3. PICK c \in Clients, p \in Priorities, r \in Routes, a \in BOOLEAN :
            SubmitMigration(c, p, r, a)
      BY <1>3, <2>5, <3>1 DEF Next, InitializeFails, ShutdownStop, ShutdownNotify, ShutdownJoin,
           ClientNext, CancelMigration, AwaitMigration, AwaitAllMigrations, Await,
           Recheck, AwaitTimeout, WorkerNext, WorkerLoop, WorkerLock, WorkerBlock, WorkerFetch,
           WorkerAllocateStream, WorkerExecute, WorkerReleaseStream, WorkerFinish,
           WorkerUpdateStats, WorkerNotify, FinishNotifies, Step, vars
    <3>4. PICK w \in Workers : wpc' = [wpc EXCEPT ![w] = "lock"]
      BY <2>5, <3>2, <3>3 DEF SubmitMigration, Announce, NotifyOne, NobodyAsleep
    <3>5. QED BY <3>4 DEF EngineInv, TypeOK
  <2>6. QED BY <2>2, <2>4, <2>5
<1>4. QED BY <1>2, <1>3

\* While tasks wait in an engine that runs and none was cancelled, some worker is
\* up, whoever a submission wakes.
THEOREM QueueIsAttended ==
  ASSUME Workers # {}
  PROVE  Spec => []SomeoneAttends
<1>1. Init => SomeoneAttends
  BY DEF Init, SomeoneAttends
<1>2. EngineInv /\ SleepersKnow /\ SomeoneAttends /\ [Next]_vars => SomeoneAttends'
  BY AttendsStep
<1>3. QED BY <1>1, <1>2, EngineInvHolds, NoWakeupLost, PTL DEF Spec

-----------------------------------------------------------------------------
(* Statistics and usage *)

Finished == {id \in DOMAIN tasks_ : Done(id)}
Uncounted == {w \in Workers : wpc[w] = "stats"}

LEMMA TasksFinite ==
  ASSUME TypeOK
  PROVE  /\ \A S \in SUBSET (DOMAIN tasks_) : IsFiniteSet(S) /\ Cardinality(S) \in Nat
         /\ \A S \in SUBSET Workers : IsFiniteSet(S) /\ Cardinality(S) \in Nat
<1>1. PICK n \in 0..MaxTasks : DOMAIN tasks_ = 1..n
  BY DEF TypeOK
<1>2. IsFiniteSet(1..n)
  BY FS_Interval
<1>3. QED BY <1>1, <1>2, FS_Subset, FS_CardinalityType, EngineAssumption

\* A step adds tasks only in PENDING.
LEMMA NewTasksPend ==
  ASSUME EngineInv, [Next]_vars, NEW id \in DOMAIN tasks_' \ DOMAIN tasks_
  PROVE  tasks_'[id].status = "PENDING"
<1>1. PICK c \in Clients, p \in Priorities, r \in Routes, a \in BOOLEAN :
        SubmitMigration(c, p, r, a)
  <2>1. \/ UNCHANGED tasks_
        \/ \E w \in Workers, s \in Statuses : tasks_' = [tasks_ EXCEPT ![task[w]].status = s]
        \/ \E i \in DOMAIN tasks_ : tasks_' = [tasks_ EXCEPT ![i].status = "CANCELLED"]
        \/ \E c \in Clients, p \in Priorities, r \in Routes, a \in BOOLEAN :
             SubmitMigration(c, p, r, a)
    BY DEF Next, Initialize, InitializeFails, ShutdownStop, ShutdownNotify, ShutdownJoin,
         ClientNext, CancelMigration, AwaitMigration, AwaitAllMigrations, Await,
         Recheck, AwaitTimeout, WorkerNext, WorkerLoop, WorkerLock, WorkerBlock, WorkerFetch,
         WorkerAllocateStream, WorkerExecute, WorkerReleaseStream, WorkerFinish,
         WorkerUpdateStats, WorkerNotify, vars, Statuses
  <2>2. QED BY <2>1
<1>2. /\ DOMAIN tasks_' = DOMAIN tasks_ \cup {NextTaskId}
      /\ tasks_'[NextTaskId] = [priority |-> p, route |-> r, addressed |-> a, status |-> "PENDING"]
  BY <1>1, SubmitEffect DEF EngineInv
<1>3. id = NextTaskId
  BY <1>2
<1>4. QED BY <1>2, <1>3

\* A task is finished by WorkerFinish only, and was not before.
LEMMA FinishedStep ==
  ASSUME EngineInv, [Next]_vars
  PROVE  /\ \A w \in Workers : WorkerFinish(w) =>
              Finished' = Finished \cup {task[w]} /\ task[w] \notin Finished
         /\ (\A w \in Workers : ~WorkerFinish(w)) => Finished' = Finished
<1>1. ASSUME NEW w \in Workers, WorkerFinish(w)
      PROVE  Finished' = Finished \cup {task[w]} /\ task[w] \notin Finished
  <2>1. task[w] \in DOMAIN tasks_ /\ Status(task[w]) = "IN_PROGRESS"
    BY <1>1 DEF EngineInv, TasksInv, PoppedOnce, StatusFits, WorkerFinish, Step, Popped, Holds
  <2>2. PICK s \in {"COMPLETED", "FAILED"} : tasks_' = [tasks_ EXCEPT ![task[w]].status = s]
    BY <1>1 DEF WorkerFinish
  <2>3. /\ DOMAIN tasks_' = DOMAIN tasks_
        /\ \A i \in DOMAIN tasks_ : tasks_'[i].status = IF i = task[w] THEN s ELSE Status(i)
    BY <2>2, StatusEffect DEF EngineInv, Statuses
  <2>4. QED BY <2>1, <2>3 DEF Finished, Done, Status
<1>2. ASSUME \A w \in Workers : ~WorkerFinish(w) PROVE Finished' = Finished
  <2>1. \A id \in DOMAIN tasks_ :
          id \in DOMAIN tasks_' /\ (tasks_'[id].status \in {"COMPLETED", "FAILED"} <=> Done(id))
    BY <1>2, StatusMoves DEF Done
  <2>2. \A id \in DOMAIN tasks_' \ DOMAIN tasks_ : tasks_'[id].status = "PENDING"
    BY NewTasksPend
  <2>3. QED BY <2>1, <2>2 DEF Finished, Done, Status
<1>3. QED BY <1>1, <1>2

LEMMA StatsStep == EngineInv /\ StatsCountTasks /\ [Next]_vars => StatsCountTasks'
<1> SUFFICES ASSUME EngineInv, StatsCountTasks, [Next]_vars PROVE StatsCountTasks'
  OBVIOUS
<1> USE DEF Step
<1>1. TypeOK /\ TypeOK' /\ wpc \in [Workers -> WorkerStates]
  BY EngineStep DEF EngineInv, TypeOK
<1>2. total_migrations + failed_migrations + Cardinality(Uncounted) = Cardinality(Finished)
  BY DEF StatsCountTasks, Uncounted, Finished
<1>3. /\ total_migrations \in Nat /\ failed_migrations \in Nat
      /\ IsFiniteSet(Uncounted) /\ Cardinality(Uncounted) \in Nat
      /\ IsFiniteSet(Finished) /\ Cardinality(Finished) \in Nat
  BY <1>1, TasksFinite DEF TypeOK, Uncounted, Finished
<1>4. ASSUME NEW w \in Workers, WorkerFinish(w) PROVE StatsCountTasks'
  <2>1. Uncounted' = Uncounted \cup {w} /\ w \notin Uncounted
    BY <1>1, <1>4 DEF Uncounted, WorkerFinish
  <2>2. Cardinality(Uncounted') = Cardinality(Uncounted) + 1
    BY <1>3, <2>1, FS_AddElement
  <2>3. Cardinality(Finished') = Cardinality(Finished) + 1
    BY <1>3, <1>4, FinishedStep, FS_AddElement
  <2>4. total_migrations' = total_migrations /\ failed_migrations' = failed_migrations
    BY <1>4 DEF WorkerFinish, counters
  <2>5. QED BY <1>2, <1>3, <2>2, <2>3, <2>4 DEF StatsCountTasks, Uncounted, Finished
<1>5. ASSUME NEW w \in Workers, WorkerUpdateStats(w) PROVE StatsCountTasks'
  <2>1. Uncounted' = Uncounted \ {w} /\ w \in Uncounted
    BY <1>1, <1>5 DEF Uncounted, WorkerUpdateStats
  <2>2. Cardinality(Uncounted') = Cardinality(Uncounted) - 1
    BY <1>3, <2>1, FS_RemoveElement
  <2>3. Cardinality(Finished') = Cardinality(Finished)
    BY <1>5 DEF WorkerUpdateStats, Finished, Done, Status
  <2>4. \/ total_migrations' = total_migrations + 1 /\ failed_migrations' = failed_migrations
        \/ total_migrations' = total_migrations /\ failed_migrations' = failed_migrations + 1
    BY <1>5 DEF WorkerUpdateStats, FailuresAfter
  <2>5. QED BY <1>2, <1>3, <2>2, <2>3, <2>4 DEF StatsCountTasks, Uncounted, Finished
<1>6. ASSUME \A w \in Workers : ~WorkerFinish(w) /\ ~WorkerUpdateStats(w)
      PROVE  StatsCountTasks'
  <2>1. Finished' = Finished
    BY <1>6, FinishedStep
  <2>2. UNCHANGED <<total_migrations, failed_migrations>>
    BY <1>6 DEF Next, Initialize, InitializeFails, ShutdownStop, ShutdownNotify, ShutdownJoin,
         ClientNext, SubmitMigration, CancelMigration, AwaitMigration, AwaitAllMigrations, Await,
         Recheck, AwaitTimeout, WorkerNext, WorkerLoop, WorkerLock, WorkerBlock, WorkerFetch,
         WorkerAllocateStream, WorkerExecute, WorkerReleaseStream, WorkerNotify, counters, vars
  <2>3. Uncounted' = Uncounted
    <3>1. ASSUME NEW w \in Workers, WorkerNext(w) PROVE Uncounted' = Uncounted
      BY <1>1, <1>6, <3>1 DEF WorkerNext, WorkerLoop, WorkerLock, WorkerBlock, WorkerFetch,
           WorkerAllocateStream, WorkerExecute, WorkerReleaseStream, WorkerNotify,
           FinishNotifies, Woken, Uncounted
    <3>2. ASSUME NEW c \in Clients, ClientNext(c) PROVE Uncounted' = Uncounted
      BY <1>1, <3>2 DEF ClientNext, SubmitMigration, CancelMigration, AwaitMigration,
           AwaitAllMigrations, Await, Recheck, AwaitTimeout, Announce, NotifyOne, worker, Uncounted
    <3>3. CASE Initialize \/ InitializeFails \/ ShutdownStop \/ ShutdownNotify \/ ShutdownJoin
               \/ UNCHANGED vars
      BY <1>1, <3>3 DEF Initialize, InitializeFails, ShutdownStop, ShutdownNotify, ShutdownJoin,
           Woken, worker, vars, EngineInv, LifecycleInv, Uncounted
    <3>4. QED BY <3>1, <3>2, <3>3 DEF Next
  <2>4. QED BY <1>2, <2>1, <2>2, <2>3 DEF StatsCountTasks, Uncounted, Finished
<1>7. QED BY <1>4, <1>5, <1>6

\* The statistics count every finished task once.
THEOREM StatisticsExact == Spec => []StatsCountTasks
<1>1. Init => StatsCountTasks
  <2> SUFFICES ASSUME Init PROVE StatsCountTasks
    OBVIOUS
  <2>1. {w \in Workers : wpc[w] = "stats"} = {}
    BY DEF Init
  <2>2. {id \in DOMAIN tasks_ : Done(id)} = {}
    BY DEF Init
  <2>3. /\ Cardinality({w \in Workers : wpc[w] = "stats"}) = 0
        /\ Cardinality({id \in DOMAIN tasks_ : Done(id)}) = 0
    BY <2>1, <2>2, FS_EmptySet, Zenon
  <2>4. QED BY <2>3 DEF Init, StatsCountTasks
<1>2. QED BY <1>1, StatsStep, EngineInvHolds, PTL DEF Spec

\* Carried: the worker has transferred the block of its task.
Carried(w) == wpc[w] \in {"release", "finish"} /\ success[w]

\* But for WorkerExecute, no step makes or ends the transfer of a worker that is
\* not about to finish.
LEMMA CarriedStays ==
  ASSUME EngineInv, [Next]_vars, \A w \in Workers : ~WorkerExecute(w) /\ ~WorkerFinish(w),
         NEW v \in Workers
  PROVE  (Carried(v)' <=> Carried(v)) /\ (Carried(v) => task'[v] = task[v])
<1> USE DEF EngineInv, TypeOK, Step
<1>1. ASSUME NEW w \in Workers, WorkerNext(w)
      PROVE  (Carried(v)' <=> Carried(v)) /\ (Carried(v) => task'[v] = task[v])
  <2>1. CASE WorkerNotify(w)
    BY <2>1 DEF WorkerNotify, FinishNotifies, Woken, Carried
  <2>2. CASE ~WorkerNotify(w)
    <3>1. success' = success
      BY <1>1, <2>2 DEF WorkerNext, WorkerLoop, WorkerLock, WorkerBlock, WorkerFetch,
           WorkerAllocateStream, WorkerReleaseStream, WorkerUpdateStats
    <3>2. (wpc'[v] \in {"release", "finish"} <=> wpc[v] \in {"release", "finish"})
          /\ (wpc[v] \in {"release", "finish"} => task'[v] = task[v])
      BY <1>1, <2>2 DEF WorkerNext, WorkerLoop, WorkerLock, WorkerBlock, WorkerFetch,
           WorkerAllocateStream, WorkerReleaseStream, WorkerUpdateStats
    <3>3. QED BY <3>1, <3>2 DEF Carried
  <2>3. QED BY <2>1, <2>2
<1>2. ASSUME NEW c \in Clients, ClientNext(c)
      PROVE  (Carried(v)' <=> Carried(v)) /\ (Carried(v) => task'[v] = task[v])
  <2>1. success' = success /\ task' = task
    BY <1>2 DEF ClientNext, SubmitMigration, CancelMigration, AwaitMigration,
         AwaitAllMigrations, Await, Recheck, AwaitTimeout, worker
  <2>2. wpc'[v] \in {"release", "finish"} <=> wpc[v] \in {"release", "finish"}
    BY <1>2 DEF ClientNext, SubmitMigration, CancelMigration, AwaitMigration,
         AwaitAllMigrations, Await, Recheck, AwaitTimeout, Announce, NotifyOne, worker
  <2>3. QED BY <2>1, <2>2 DEF Carried
<1>3. CASE Initialize \/ InitializeFails \/ ShutdownStop \/ ShutdownNotify \/ ShutdownJoin
           \/ UNCHANGED vars
  <2>1. success' = success /\ task' = task
    BY <1>3 DEF Initialize, InitializeFails, ShutdownStop, ShutdownNotify, ShutdownJoin,
         worker, vars
  <2>2. wpc'[v] \in {"release", "finish"} <=> wpc[v] \in {"release", "finish"}
    BY <1>3 DEF Initialize, InitializeFails, ShutdownStop, ShutdownNotify, ShutdownJoin,
         Woken, worker, vars, LifecycleInv
  <2>3. QED BY <2>1, <2>2 DEF Carried
<1>4. QED BY <1>1, <1>2, <1>3 DEF Next

MovedIn(t) == {id \in Moved : tasks_[id].route[2] = t}
MovedOut(t) == {id \in Moved : tasks_[id].route[1] = t}

\* A block moves in WorkerExecute only, with the charge for it, and once.
LEMMA MovedStep ==
  ASSUME EngineInv, [Next]_vars
  PROVE  \/ Moved' = Moved /\ usage' = usage
         \/ \E id \in DOMAIN tasks_ \ Moved :
              /\ Moved' = Moved \cup {id} /\ usage' = Charge(tasks_[id].route)
              /\ tasks_[id].route[1] # tasks_[id].route[2]
<1> USE DEF Step
<1>1. /\ tasks_ \in [DOMAIN tasks_ -> Task] /\ wpc \in [Workers -> WorkerStates]
      /\ success \in [Workers -> BOOLEAN]
  BY DEF EngineInv, TypeOK
<1>2. \A w \in Workers : Holds(w) =>
        /\ task[w] \in DOMAIN tasks_ /\ Status(task[w]) = "IN_PROGRESS"
        /\ \A v \in Workers : Holds(v) /\ task[v] = task[w] => v = w
  BY DEF EngineInv, TasksInv, PoppedOnce, StatusFits, Popped
<1>3. Moved = {id \in DOMAIN tasks_ : Status(id) = "COMPLETED"
                                      \/ \E v \in Workers : task[v] = id /\ Carried(v)}
  BY DEF Moved, Carried
<1>4. Moved' = {id \in DOMAIN tasks_' : tasks_'[id].status = "COMPLETED"
                                        \/ \E v \in Workers : task'[v] = id /\ Carried(v)'}
  BY DEF Moved, Carried, Status
<1>5. \A v \in Workers : Carried(v) => Holds(v)
  BY DEF Carried, Holds
<1>6. ASSUME NEW w \in Workers, WorkerExecute(w)
      PROVE  \/ Moved' = Moved /\ usage' = usage
             \/ \E id \in DOMAIN tasks_ \ Moved :
                  /\ Moved' = Moved \cup {id} /\ usage' = Charge(tasks_[id].route)
                  /\ tasks_[id].route[1] # tasks_[id].route[2]
  <2>1. /\ Holds(w) /\ ~Carried(w) /\ UNCHANGED <<tasks_, task>>
        /\ wpc[w] = "execute" /\ wpc' = [wpc EXCEPT ![w] = "release"]
    BY <1>6 DEF WorkerExecute, Holds, Carried
  <2>2. task[w] \in DOMAIN tasks_ \ Moved
    BY <1>2, <1>3, <1>5, <2>1
  <2>3. CASE /\ success' = [success EXCEPT ![w] = TRUE] /\ usage' = Charge(tasks_[task[w]].route)
             /\ tasks_[task[w]].route[1] # tasks_[task[w]].route[2]
    <3>1. \A v \in Workers : Carried(v)' <=> Carried(v) \/ v = w
      BY <1>1, <2>1, <2>3 DEF Carried
    <3>2. Moved' = Moved \cup {task[w]}
      BY <1>3, <1>4, <2>1, <2>2, <3>1 DEF Status
    <3>3. QED BY <2>2, <2>3, <3>2
  <2>4. CASE success' = [success EXCEPT ![w] = FALSE] /\ usage' = usage
    <3>1. \A v \in Workers : Carried(v)' <=> Carried(v)
      BY <1>1, <2>1, <2>4 DEF Carried
    <3>2. Moved' = Moved
      BY <1>3, <1>4, <2>1, <3>1 DEF Status
    <3>3. QED BY <2>4, <3>2
  <2>5. QED BY <1>6, <2>3, <2>4 DEF WorkerExecute
<1>7. ASSUME NEW w \in Workers, WorkerFinish(w) PROVE Moved' = Moved /\ usage' = usage
  <2>1. /\ Holds(w) /\ UNCHANGED <<task, success, usage>>
        /\ wpc[w] = "finish" /\ wpc' = [wpc EXCEPT ![w] = "stats"]
    BY <1>7 DEF WorkerFinish, Holds, counters
  <2>2. PICK s \in {"COMPLETED", "FAILED"} :
          (s = "COMPLETED" <=> success[w]) /\ tasks_' = [tasks_ EXCEPT ![task[w]].status = s]
    BY <1>7 DEF WorkerFinish
  <2>3. /\ DOMAIN tasks_' = DOMAIN tasks_
        /\ \A i \in DOMAIN tasks_ : tasks_'[i].status = IF i = task[w] THEN s ELSE Status(i)
    <3>1. s \in Statuses /\ tasks_' = [tasks_ EXCEPT ![task[w]].status = s]
      BY <2>2 DEF Statuses
    <3>2. QED BY <3>1, StatusEffect DEF EngineInv
  <2>4. \A v \in Workers : Carried(v)' <=> Carried(v) /\ v # w
    BY <1>1, <2>1 DEF Carried
  <2>5. Carried(w) <=> success[w]
    BY <2>1 DEF Carried
  <2>6. \A id \in DOMAIN tasks_ : id # task[w] => (id \in Moved' <=> id \in Moved)
    BY <1>3, <1>4, <2>1, <2>3, <2>4
  <2>7. task[w] \in Moved' <=> task[w] \in Moved
    BY <1>2, <1>3, <1>4, <1>5, <2>1, <2>2, <2>3, <2>4, <2>5
  <2>8. QED BY <1>3, <1>4, <2>1, <2>3, <2>6, <2>7
<1>8. ASSUME \A w \in Workers : ~WorkerExecute(w) /\ ~WorkerFinish(w)
      PROVE  Moved' = Moved /\ usage' = usage
  <2>1. usage' = usage
    BY <1>8 DEF Next, Initialize, InitializeFails, ShutdownStop, ShutdownNotify, ShutdownJoin,
         ClientNext, SubmitMigration, CancelMigration, AwaitMigration, AwaitAllMigrations, Await,
         Recheck, AwaitTimeout, WorkerNext, WorkerLoop, WorkerLock, WorkerBlock, WorkerFetch,
         WorkerAllocateStream, WorkerReleaseStream, WorkerUpdateStats, WorkerNotify, counters, vars
  <2>2. \A id \in DOMAIN tasks_ :
          id \in DOMAIN tasks_' /\ (tasks_'[id].status = "COMPLETED" <=> Status(id) = "COMPLETED")
    BY <1>8, StatusMoves
  <2>3. \A v \in Workers : (Carried(v)' <=> Carried(v)) /\ (Carried(v) => task'[v] = task[v])
    BY <1>8, CarriedStays
  <2>4. \A id \in DOMAIN tasks_' \ DOMAIN tasks_ : tasks_'[id].status = "PENDING"
    BY NewTasksPend
  <2>5. \A id \in DOMAIN tasks_ : id \in Moved' <=> id \in Moved
    BY <1>3, <1>4, <2>2, <2>3
  <2>6. \A id \in DOMAIN tasks_' \ DOMAIN tasks_ : id \notin Moved'
    BY <1>2, <1>4, <1>5, <2>3, <2>4
  <2>7. QED BY <1>3, <1>4, <2>1, <2>2, <2>5, <2>6
<1>9. QED BY <1>6, <1>7, <1>8

LEMMA FewTasks ==
  ASSUME NEW S \in SUBSET TaskId
  PROVE  Cardinality(S) \in Nat /\ Cardinality(S) <= MaxTasks
<1>1. MaxTasks \in Nat
  BY EngineAssumption
<1>2. IsFiniteSet(TaskId) /\ Cardinality(TaskId) = MaxTasks
  BY <1>1, FS_Interval DEF TaskId
<1>3. QED BY <1>2, FS_Subset, FS_CardinalityType

LEMMA UsageStep == EngineInv /\ UsageMatchesTasks /\ [Next]_vars => UsageMatchesTasks'
<1> SUFFICES ASSUME EngineInv, UsageMatchesTasks, [Next]_vars,
                    NEW t \in Tiers
             PROVE  usage'[t] = Minus(Cardinality(MovedIn(t)'), Cardinality(MovedOut(t)'))
  BY DEF UsageMatchesTasks, MovedIn, MovedOut
<1>1. usage[t] = Minus(Cardinality(MovedIn(t)), Cardinality(MovedOut(t)))
  BY DEF UsageMatchesTasks, MovedIn, MovedOut
<1>2. TypeOK /\ Moved \subseteq DOMAIN tasks_
  BY DEF EngineInv, Moved
<1>3. /\ IsFiniteSet(MovedIn(t)) /\ Cardinality(MovedIn(t)) \in Nat
      /\ IsFiniteSet(MovedOut(t)) /\ Cardinality(MovedOut(t)) \in Nat
  BY <1>2, TasksFinite DEF MovedIn, MovedOut
<1>4. \A id \in DOMAIN tasks_ : tasks_'[id].route = tasks_[id].route
  BY StatusMoves
<1>5. CASE Moved' = Moved /\ usage' = usage
  <2>1. MovedIn(t)' = MovedIn(t) /\ MovedOut(t)' = MovedOut(t)
    BY <1>2, <1>4, <1>5 DEF MovedIn, MovedOut
  <2>2. QED BY <1>1, <1>5, <2>1
<1>6. ASSUME NEW id \in DOMAIN tasks_ \ Moved,
             Moved' = Moved \cup {id}, usage' = Charge(tasks_[id].route),
             tasks_[id].route[1] # tasks_[id].route[2]
      PROVE  usage'[t] = Minus(Cardinality(MovedIn(t)'), Cardinality(MovedOut(t)'))
  <2> DEFINE from == tasks_[id].route[1]
             to == tasks_[id].route[2]
  <2>1. from \in Tiers /\ to \in Tiers /\ from # to /\ usage \in [Tiers -> 0..MaxSize]
    BY <1>2, <1>6, EngineAssumption DEF TypeOK, Task
  <2>2. usage'[t] = IF to = t THEN OneMore(usage[t])
                    ELSE IF from = t THEN OneLess(usage[t]) ELSE usage[t]
    BY <1>6, <2>1 DEF Charge
  <2>3. /\ MovedIn(t)' = IF to = t THEN MovedIn(t) \cup {id} ELSE MovedIn(t)
        /\ MovedOut(t)' = IF from = t THEN MovedOut(t) \cup {id} ELSE MovedOut(t)
        /\ id \notin MovedIn(t) /\ id \notin MovedOut(t)
    BY <1>2, <1>4, <1>6 DEF MovedIn, MovedOut
  <2>4. Cardinality(MovedIn(t)') = Cardinality(MovedIn(t)) + (IF to = t THEN 1 ELSE 0)
    <3>1. Cardinality(MovedIn(t) \cup {id}) = Cardinality(MovedIn(t)) + 1
      BY <1>3, <2>3, FS_AddElement
    <3>2. QED BY <1>3, <2>3, <3>1
  <2>5. Cardinality(MovedOut(t)') = Cardinality(MovedOut(t)) + (IF from = t THEN 1 ELSE 0)
    <3>1. Cardinality(MovedOut(t) \cup {id}) = Cardinality(MovedOut(t)) + 1
      BY <1>3, <2>3, FS_AddElement
    <3>2. QED BY <1>3, <2>3, <3>1
  <2>6. /\ Cardinality(MovedIn(t)') <= MaxTasks /\ Cardinality(MovedOut(t)') <= MaxTasks
        /\ Cardinality(MovedIn(t)') \in Nat /\ Cardinality(MovedOut(t)') \in Nat
    <3>1. MovedIn(t)' \in SUBSET TaskId /\ MovedOut(t)' \in SUBSET TaskId
      <4>1. PICK n \in 0..MaxTasks : DOMAIN tasks_ = 1..n
        BY <1>2 DEF TypeOK
      <4>2. DOMAIN tasks_ \subseteq TaskId
        BY <4>1, EngineAssumption DEF TaskId
      <4>3. MovedIn(t) \subseteq DOMAIN tasks_ /\ MovedOut(t) \subseteq DOMAIN tasks_
        BY <1>2 DEF MovedIn, MovedOut
      <4>4. QED BY <1>6, <2>3, <4>2, <4>3
    <3>2. QED BY <3>1, FewTasks
  <2> HIDE DEF from, to
  <2>7. QED
    <3> PICK i, o : i = Cardinality(MovedIn(t)) /\ o = Cardinality(MovedOut(t))
      OBVIOUS
    <3>1. /\ i \in Nat /\ o \in Nat /\ MaxTasks \in Nat /\ MaxSize \in Nat
          /\ MaxTasks <= MaxSize /\ usage[t] = Minus(i, o)
      BY <1>1, <1>3, EngineAssumption
    <3>2. CASE to = t
      <4>1. i + 1 <= MaxTasks /\ o <= MaxTasks
        BY <2>1, <2>4, <2>5, <2>6, <3>1, <3>2
      <4>2. OneMore(Minus(i, o)) = Minus(i + 1, o)
        BY <3>1, <4>1 DEF OneMore, Minus
      <4>3. QED BY <2>1, <2>2, <2>4, <2>5, <3>1, <3>2, <4>2
    <3>3. CASE from = t
      <4>1. i <= MaxTasks /\ o + 1 <= MaxTasks
        BY <2>1, <2>4, <2>5, <2>6, <3>1, <3>3
      <4>2. OneLess(Minus(i, o)) = Minus(i, o + 1)
        BY <3>1, <4>1 DEF OneLess, Minus
      <4>3. QED BY <2>1, <2>2, <2>4, <2>5, <3>1, <3>3, <4>2
    <3>4. CASE to # t /\ from # t
      BY <2>2, <2>4, <2>5, <3>1, <3>4
    <3>5. QED BY <3>2, <3>3, <3>4
<1>7. QED BY <1>5, <1>6, MovedStep

\* The usage of a tier is, in size_t, what the tasks that succeeded moved
\* there, less what they moved away.
THEOREM UsageExact == Spec => []UsageMatchesTasks
<1>1. Init => UsageMatchesTasks
  <2> SUFFICES ASSUME Init, NEW t \in Tiers
               PROVE  usage[t] = Minus(Cardinality(MovedIn(t)), Cardinality(MovedOut(t)))
    BY DEF UsageMatchesTasks, MovedIn, MovedOut
  <2>1. MovedIn(t) = {} /\ MovedOut(t) = {}
    BY DEF Init, Moved, MovedIn, MovedOut
  <2>2. Cardinality(MovedIn(t)) = 0 /\ Cardinality(MovedOut(t)) = 0
    BY <2>1, FS_EmptySet, Zenon
  <2>3. QED BY <2>2 DEF Init, Minus
<1>2. QED BY <1>1, UsageStep, EngineInvHolds, PTL DEF Spec

-----------------------------------------------------------------------------
(* Streams *)

Live(s) == {i \in DOMAIN s : s[i]}
Held == {w \in Workers : HoldsStream(w) /\ stream[w]}

LEMMA LiveFinite ==
  ASSUME NEW s \in Seq(BOOLEAN)
  PROVE  IsFiniteSet(Live(s)) /\ Cardinality(Live(s)) \in Nat
<1>1. DOMAIN s = 1..Len(s) /\ Len(s) \in Nat
  BY LenProperties
<1>2. IsFiniteSet(1..Len(s))
  BY <1>1, FS_Interval
<1>3. QED BY <1>1, <1>2, FS_Subset, FS_CardinalityType DEF Live

\* A stream given back counts if it exists.
LEMMA LiveAppend ==
  ASSUME NEW s \in Seq(BOOLEAN), NEW b \in BOOLEAN
  PROVE  Cardinality(Live(Append(s, b))) = Cardinality(Live(s)) + (IF b THEN 1 ELSE 0)
<1> DEFINE t == Append(s, b)
<1>1. Len(s) \in Nat /\ DOMAIN s = 1..Len(s) /\ DOMAIN t = 1..(Len(s) + 1)
  BY LenProperties, AppendProperties
<1>2. (\A i \in 1..Len(s) : t[i] = s[i]) /\ t[Len(s) + 1] = b
  BY AppendProperties
<1>3. Len(s) + 1 \notin Live(s)
  BY <1>1 DEF Live
<1>4. Live(t) = IF b THEN Live(s) \cup {Len(s) + 1} ELSE Live(s)
  <2> HIDE DEF t
  <2>1. \A i : i \in 1..(Len(s) + 1) <=> i \in 1..Len(s) \/ i = Len(s) + 1
    BY <1>1
  <2>2. \A i : i \in Live(t) <=> i \in Live(s) \/ (i = Len(s) + 1 /\ b)
    BY <1>1, <1>2, <2>1, Zenon DEF Live
  <2>3. QED BY <2>2
<1>5. Cardinality(Live(s) \cup {Len(s) + 1}) = Cardinality(Live(s)) + 1
  BY <1>3, LiveFinite, FS_AddElement
<1>6. QED BY <1>4, <1>5, LiveFinite

\* The first stream taken counts if it exists.
LEMMA LiveTail ==
  ASSUME NEW s \in Seq(BOOLEAN), s # <<>>
  PROVE  Cardinality(Live(s)) = Cardinality(Live(Tail(s))) + (IF Head(s) THEN 1 ELSE 0)
<1> DEFINE t == Tail(s)
<1>1. /\ Len(s) \in Nat /\ DOMAIN s = 1..Len(s) /\ DOMAIN t = 1..(Len(s) - 1)
      /\ Len(s) # 0 /\ Head(s) = s[1] /\ t \in Seq(BOOLEAN)
  BY LenProperties, HeadTailProperties, EmptySeq
<1>2. \A i \in 1..(Len(s) - 1) : t[i] = s[i + 1]
  BY <1>1, HeadTailProperties
<1> HIDE DEF t
<1>3. \A i \in Live(s) \ {1} : i - 1 \in Live(t)
  <2> SUFFICES ASSUME NEW i \in Live(s) \ {1} PROVE i - 1 \in Live(t)
    OBVIOUS
  <2>1. i \in 1..Len(s) /\ s[i] /\ i - 1 \in 1..(Len(s) - 1) /\ (i - 1) + 1 = i
    BY <1>1 DEF Live
  <2>2. t[i - 1] = s[i]
    BY <1>2, <2>1
  <2>3. QED BY <1>1, <2>1, <2>2, Zenon DEF Live
<1>4. \A i \in Live(t) : i + 1 \in Live(s) \ {1} /\ i \in Nat
  <2> SUFFICES ASSUME NEW i \in Live(t) PROVE i + 1 \in Live(s) \ {1} /\ i \in Nat
    OBVIOUS
  <2>1. /\ i \in 1..(Len(s) - 1) /\ t[i] /\ i + 1 \in 1..Len(s) /\ i + 1 # 1
        /\ i \in Nat
    BY <1>1 DEF Live
  <2>2. t[i] = s[i + 1]
    BY <1>2, <2>1
  <2>3. QED BY <1>1, <2>1, <2>2, Zenon DEF Live
<1>5. ExistsBijection(Live(t), Live(s) \ {1})
  <2> DEFINE f == [i \in Live(t) |-> i + 1]
  <2>1. f \in [Live(t) -> Live(s) \ {1}]
    BY <1>4
  <2>2. \A i, j \in Live(t) : f[i] = f[j] => i = j
    BY <1>4
  <2>3. \A j \in Live(s) \ {1} : \E i \in Live(t) : f[i] = j
    <3> SUFFICES ASSUME NEW j \in Live(s) \ {1} PROVE \E i \in Live(t) : f[i] = j
      OBVIOUS
    <3>1. j - 1 \in Live(t) /\ (j - 1) + 1 = j
      BY <1>1, <1>3 DEF Live
    <3>2. QED BY <3>1
  <2> HIDE DEF f
  <2>4. f \in Bijection(Live(t), Live(s) \ {1})
    BY <2>1, <2>2, <2>3 DEF Bijection, Injection, Surjection, IsInjective
  <2>5. QED BY <2>4 DEF ExistsBijection
<1>6. IsFiniteSet(Live(t)) /\ Cardinality(Live(s) \ {1}) = Cardinality(Live(t))
  BY <1>1, <1>5, LiveFinite, FS_Bijection
<1>7. 1 \in Live(s) <=> Head(s)
  <2>1. 1 \in DOMAIN s
    BY <1>1
  <2>2. QED BY <1>1, <2>1, Zenon DEF Live
<1>8. Cardinality(Live(s) \ {1}) =
        IF 1 \in Live(s) THEN Cardinality(Live(s)) - 1 ELSE Cardinality(Live(s))
  BY LiveFinite, FS_RemoveElement
<1>9. Cardinality(Live(s)) = Cardinality(Live(t)) + (IF Head(s) THEN 1 ELSE 0)
  <2>1. Cardinality(Live(s)) \in Nat /\ Cardinality(Live(t)) \in Nat
    BY <1>1, LiveFinite
  <2>2. CASE 1 \in Live(s)
    <3>1. (IF Head(s) THEN 1 ELSE 0) = 1
      BY <1>7, <2>2, Zenon
    <3>2. Cardinality(Live(s)) = Cardinality(Live(t)) + 1
      BY <1>6, <1>8, <2>1, <2>2
    <3>3. QED BY <3>1, <3>2, Zenon
  <2>3. CASE 1 \notin Live(s)
    <3>1. (IF Head(s) THEN 1 ELSE 0) = 0
      BY <1>7, <2>3, Zenon
    <3>2. Cardinality(Live(s)) = Cardinality(Live(t)) + 0
      BY <1>6, <1>8, <2>1, <2>3
    <3>3. QED BY <3>1, <3>2, Zenon
  <2>4. QED BY <2>2, <2>3
<1>10. QED BY <1>9 DEF t

\* New streams after a list that names none that exists.
LEMMA LiveAfterDead ==
  ASSUME NEW s \in Seq(BOOLEAN), \A i \in DOMAIN s : s[i] = FALSE,
         NEW n \in Nat, NEW b \in BOOLEAN
  PROVE  LET t == s \o [i \in 1..n |-> b]
         IN  IF b THEN Cardinality(Live(t)) = n ELSE \A i \in DOMAIN t : t[i] = FALSE
<1> DEFINE new == [i \in 1..n |-> b]
           t == s \o new
<1>1. new \in Seq(BOOLEAN)
  BY ConstantSeq, Zenon
<1>2. Len(new) = n
  BY <1>1, LenProperties
<1>3. new \in Seq(BOOLEAN) /\ \A i \in 1..n : new[i] = b
  BY <1>1
<1> HIDE DEF new
<1>4. /\ t \in Seq(BOOLEAN) /\ Len(t) = Len(s) + n
      /\ \A i \in 1..(Len(s) + n) : t[i] = IF i <= Len(s) THEN s[i] ELSE new[i - Len(s)]
  BY <1>2, <1>3, ConcatProperties
<1>5. Len(s) \in Nat /\ DOMAIN s = 1..Len(s) /\ DOMAIN t = 1..(Len(s) + n)
  BY <1>4, LenProperties
<1> HIDE DEF t
<1>6. \A i \in DOMAIN t : t[i] = IF i <= Len(s) THEN FALSE ELSE b
  <2> SUFFICES ASSUME NEW i \in 1..(Len(s) + n) PROVE t[i] = IF i <= Len(s) THEN FALSE ELSE b
    BY <1>5
  <2>1. CASE i <= Len(s)
    <3>1. i \in DOMAIN s
      BY <1>5, <2>1
    <3>2. QED BY <1>4, <2>1, <3>1
  <2>2. CASE ~(i <= Len(s))
    <3>1. i - Len(s) \in 1..n
      BY <1>5, <2>2
    <3>2. new[i - Len(s)] = b
      BY <1>3, <3>1
    <3>3. QED BY <1>4, <2>2, <3>2
  <2>3. QED BY <2>1, <2>2
<1>7. CASE b
  <2>1. Live(t) = (Len(s) + 1)..(Len(s) + n)
    <3>1. \A i \in DOMAIN t : t[i] <=> ~(i <= Len(s))
      BY <1>6, <1>7
    <3>2. \A i : i \in (Len(s) + 1)..(Len(s) + n) <=> i \in 1..(Len(s) + n) /\ ~(i <= Len(s))
      BY <1>5
    <3>3. \A i : i \in Live(t) <=> i \in DOMAIN t /\ t[i]
      BY Zenon DEF Live
    <3>4. QED BY <1>5, <3>1, <3>2, <3>3
  <2>2. \A a, z \in Int : Cardinality(a..z) = IF a > z THEN 0 ELSE z - a + 1
    BY FS_Interval
  <2>3. Cardinality(Live(t)) = n
    BY <1>5, <2>1, <2>2
  <2>4. QED BY <1>7, <2>3 DEF t, new
<1>8. CASE ~b
  <2>1. \A i \in DOMAIN t : t[i] = FALSE
    BY <1>6, <1>8
  <2>2. QED BY <1>8, <2>1 DEF t, new
<1>9. QED BY <1>7, <1>8

\* An engine that is not initialized has no stream.
StreamsInv ==
  /\ StreamsSuffice
  /\ ~initialized_ => \A i \in DOMAIN available_streams_ : available_streams_[i] = FALSE

\* Only the two actions of the streams change which streams there are and who
\* has one, while the engine is initialized.
LEMMA StreamsStay ==
  ASSUME EngineInv, [Next]_vars, initialized_', ~Initialize,
         \A w \in Workers : ~WorkerAllocateStream(w) /\ ~WorkerReleaseStream(w)
  PROVE  initialized_ /\ available_streams_' = available_streams_ /\ Held' = Held
<1>1. initialized_ /\ available_streams_' = available_streams_ /\ stream' = stream
  BY DEF Next, InitializeFails, ShutdownStop, ShutdownNotify, ShutdownJoin,
       ClientNext, SubmitMigration, CancelMigration, AwaitMigration, AwaitAllMigrations, Await,
       Recheck, AwaitTimeout, WorkerNext, WorkerLoop, WorkerLock, WorkerBlock, WorkerFetch,
       WorkerExecute, WorkerFinish, WorkerUpdateStats, WorkerNotify, lifecycle, worker, vars,
       EngineInv, LifecycleInv
<1>2. \A v \in Workers : HoldsStream(v)' <=> HoldsStream(v)
  <2> USE DEF EngineInv, TypeOK, HoldsStream, Step
  <2> TAKE v \in Workers
  <2>1. ASSUME NEW w \in Workers, WorkerNext(w) PROVE HoldsStream(v)' <=> HoldsStream(v)
    BY <2>1 DEF WorkerNext, WorkerLoop, WorkerLock, WorkerBlock, WorkerFetch,
         WorkerExecute, WorkerFinish, WorkerUpdateStats, WorkerNotify, FinishNotifies, Woken
  <2>2. ASSUME NEW c \in Clients, ClientNext(c) PROVE HoldsStream(v)' <=> HoldsStream(v)
    BY <2>2 DEF ClientNext, SubmitMigration, CancelMigration, AwaitMigration,
         AwaitAllMigrations, Await, Recheck, AwaitTimeout, Announce, NotifyOne, worker
  <2>3. CASE InitializeFails \/ ShutdownStop \/ ShutdownNotify \/ ShutdownJoin \/ UNCHANGED vars
    BY <2>3 DEF InitializeFails, ShutdownStop, ShutdownNotify, ShutdownJoin, Woken, worker, vars
  <2>4. QED BY <2>1, <2>2, <2>3 DEF Next
<1>3. Held' = Held
  BY <1>1, <1>2 DEF Held
<1>4. QED BY <1>1, <1>3

LEMMA StreamsStep == EngineInv /\ StreamsInv /\ [Next]_vars => StreamsInv'
<1> SUFFICES ASSUME EngineInv, StreamsInv, [Next]_vars PROVE StreamsInv'
  OBVIOUS
<1> USE DEF Step
<1>1. /\ TypeOK /\ available_streams_ \in Seq(BOOLEAN) /\ stream \in [Workers -> BOOLEAN]
      /\ wpc \in [Workers -> WorkerStates]
  BY DEF EngineInv, TypeOK
<1>2. initialized_ =>
        Cardinality(Live(available_streams_)) + Cardinality(Held) = Cardinality(Workers)
  BY DEF StreamsInv, StreamsSuffice, Live, Held
<1>3. /\ IsFiniteSet(Held) /\ Cardinality(Held) \in Nat /\ Cardinality(Workers) \in Nat
      /\ Cardinality(Live(available_streams_)) \in Nat
  BY <1>1, TasksFinite, LiveFinite, FS_CardinalityType, EngineAssumption DEF Held
<1>4. ASSUME initialized_'
      PROVE  Cardinality(Live(available_streams_)') + Cardinality(Held') = Cardinality(Workers)
  <2>1. CASE Initialize
    <3> DEFINE n == Cardinality(Workers)
    <3>1. available_streams_' = available_streams_ \o [i \in 1..n |-> TRUE]
      BY <2>1 DEF Initialize
    <3>2. \A i \in DOMAIN available_streams_ : available_streams_[i] = FALSE
      BY <2>1 DEF Initialize, StreamsInv
    <3>3. Cardinality(Live(available_streams_')) = n
      BY <1>1, <1>3, <3>1, <3>2, LiveAfterDead
    <3>4. Held' = {}
      BY <2>1 DEF Initialize, Held, HoldsStream
    <3>5. Cardinality(Held') = 0
      BY <3>4, FS_EmptySet
    <3>6. QED BY <1>3, <3>3, <3>5
  <2>2. ASSUME NEW w \in Workers, WorkerAllocateStream(w)
        PROVE  Cardinality(Live(available_streams_)') + Cardinality(Held') = Cardinality(Workers)
    <3>1. initialized_ /\ wpc[w] = "stream" /\ wpc' = [wpc EXCEPT ![w] = "execute"]
      BY <1>4, <2>2 DEF WorkerAllocateStream, lifecycle
    <3>2. w \notin Held
      BY <3>1 DEF Held, HoldsStream
    <3>3. Cardinality(Held \cup {w}) = Cardinality(Held) + 1
      BY <1>3, <3>2, FS_AddElement
    <3>4. available_streams_ # <<>>
      <4>1. SUFFICES ASSUME available_streams_ = <<>> PROVE FALSE
        OBVIOUS
      <4>2. Cardinality(Live(available_streams_)) = 0
        BY <4>1, FS_EmptySet DEF Live
      <4>3. Held \cup {w} \in SUBSET Workers
        BY DEF Held
      <4>4. Cardinality(Held \cup {w}) <= Cardinality(Workers)
        BY <4>3, FS_Subset, EngineAssumption
      <4>5. QED BY <1>2, <1>3, <3>1, <3>3, <4>2, <4>4
    <3>5. /\ stream' = [stream EXCEPT ![w] = Head(available_streams_)]
          /\ available_streams_' = Tail(available_streams_)
          /\ Head(available_streams_) \in BOOLEAN
      BY <1>1, <2>2, <3>4, HeadTailProperties DEF WorkerAllocateStream
    <3>6. Cardinality(Live(available_streams_)) =
            Cardinality(Live(Tail(available_streams_)))
              + (IF Head(available_streams_) THEN 1 ELSE 0)
      BY <1>1, <3>4, LiveTail
    <3>7. /\ Cardinality(Live(Tail(available_streams_))) \in Nat
          /\ Live(available_streams_)' = Live(Tail(available_streams_))
      BY <1>1, <3>4, <3>5, LiveFinite, HeadTailProperties DEF Live
    <3>8. CASE Head(available_streams_) = TRUE
      <4>1. Held' = Held \cup {w}
        BY <1>1, <3>1, <3>5, <3>8 DEF Held, HoldsStream
      <4>2. Cardinality(Live(available_streams_)) =
              Cardinality(Live(Tail(available_streams_))) + 1
        BY <3>6, <3>8
      <4>3. QED BY <1>2, <1>3, <3>1, <3>3, <3>7, <4>1, <4>2
    <3>9. CASE Head(available_streams_) = FALSE
      <4>1. Held' = Held
        BY <1>1, <3>1, <3>2, <3>5, <3>9 DEF Held, HoldsStream
      <4>2. Cardinality(Live(available_streams_)) =
              Cardinality(Live(Tail(available_streams_)))
        <5>1. (IF Head(available_streams_) THEN 1 ELSE 0) = 0
          BY <3>9, Zenon
        <5>2. Cardinality(Live(available_streams_)) =
                Cardinality(Live(Tail(available_streams_))) + 0
          BY <3>6, <5>1, Zenon
        <5>3. QED BY <3>7, <5>2
      <4>3. QED BY <1>2, <1>3, <3>1, <3>7, <4>1, <4>2
    <3>10. QED BY <3>5, <3>8, <3>9
  <2>3. ASSUME NEW w \in Workers, WorkerReleaseStream(w)
        PROVE  Cardinality(Live(available_streams_)') + Cardinality(Held') = Cardinality(Workers)
    <3>1. /\ initialized_ /\ wpc[w] = "release" /\ wpc' = [wpc EXCEPT ![w] = "finish"]
          /\ stream' = [stream EXCEPT ![w] = FALSE]
          /\ available_streams_' = Append(available_streams_, stream[w])
      BY <1>4, <2>3 DEF WorkerReleaseStream, StreamsWith, lifecycle
    <3>2. Cardinality(Live(Append(available_streams_, stream[w]))) =
            Cardinality(Live(available_streams_)) + (IF stream[w] THEN 1 ELSE 0)
      BY <1>1, LiveAppend
    <3>3. Live(available_streams_)' = Live(Append(available_streams_, stream[w]))
      BY <3>1 DEF Live
    <3>4. Held' = Held \ {w}
      BY <1>1, <3>1 DEF Held, HoldsStream
    <3>5. Cardinality(Held \ {w}) = IF w \in Held THEN Cardinality(Held) - 1 ELSE Cardinality(Held)
      BY <1>3, FS_RemoveElement
    <3>6. CASE stream[w] = TRUE
      <4>1. w \in Held
        BY <3>1, <3>6 DEF Held, HoldsStream
      <4>2. Cardinality(Live(Append(available_streams_, stream[w]))) =
              Cardinality(Live(available_streams_)) + 1
        BY <3>2, <3>6
      <4>3. QED BY <1>2, <1>3, <3>1, <3>3, <3>4, <3>5, <4>1, <4>2
    <3>7. CASE stream[w] = FALSE
      <4>1. w \notin Held
        BY <3>7 DEF Held
      <4>2. Cardinality(Live(Append(available_streams_, stream[w]))) =
              Cardinality(Live(available_streams_))
        BY <1>3, <3>2, <3>7
      <4>3. QED BY <1>2, <1>3, <3>1, <3>3, <3>4, <3>5, <4>1, <4>2
    <3>8. QED BY <1>1, <3>6, <3>7
  <2>4. ASSUME ~Initialize,
               \A w \in Workers : ~WorkerAllocateStream(w) /\ ~WorkerReleaseStream(w)
        PROVE  Cardinality(Live(available_streams_)') + Cardinality(Held') = Cardinality(Workers)
    BY <1>2, <1>4, <2>4, StreamsStay DEF Live
  <2>5. QED BY <2>1, <2>2, <2>3, <2>4
<1>5. ASSUME ~initialized_'
      PROVE  \A i \in DOMAIN available_streams_' : available_streams_'[i] = FALSE
  <2>1. CASE InitializeFails
    <3>1. PICK k \in 0..Cardinality(Workers) - 1 :
            available_streams_' = available_streams_ \o [i \in 1..k |-> FALSE]
      BY <2>1 DEF InitializeFails
    <3>2. \A i \in DOMAIN available_streams_ : available_streams_[i] = FALSE
      BY <2>1 DEF InitializeFails, StreamsInv
    <3>3. k \in Nat /\ FALSE \in BOOLEAN
      BY <1>3, <3>1
    <3>4. QED BY <1>1, <3>1, <3>2, <3>3, LiveAfterDead
  <2>2. CASE ShutdownJoin
    BY <2>2 DEF ShutdownJoin
  <2>3. CASE ~InitializeFails /\ ~ShutdownJoin
    <3>1. ~initialized_ /\ available_streams_' = available_streams_
      <4>1. ASSUME NEW w \in Workers, WorkerNext(w) PROVE FALSE
        BY <1>5, <4>1 DEF WorkerNext, WorkerLoop, WorkerLock, WorkerBlock, WorkerFetch,
             WorkerAllocateStream, WorkerExecute, WorkerReleaseStream, WorkerFinish,
             WorkerUpdateStats, WorkerNotify, FinishNotifies, lifecycle, EngineInv, LifecycleInv
      <4>2. ASSUME NEW c \in Clients, ClientNext(c)
            PROVE  ~initialized_ /\ available_streams_' = available_streams_
        BY <1>5, <4>2 DEF ClientNext, SubmitMigration, CancelMigration, AwaitMigration,
             AwaitAllMigrations, Await, Recheck, AwaitTimeout, lifecycle
      <4>3. ~Initialize
        BY <1>5, Zenon DEF Initialize
      <4>4. CASE ShutdownStop \/ ShutdownNotify \/ UNCHANGED vars
        BY <1>5, <4>4 DEF ShutdownStop, ShutdownNotify, lifecycle, vars
      <4>5. QED BY <2>3, <4>1, <4>2, <4>3, <4>4 DEF Next
    <3>2. QED BY <3>1 DEF StreamsInv
  <2>4. QED BY <2>1, <2>2, <2>3
<1>6. QED BY <1>4, <1>5 DEF StreamsInv, StreamsSuffice, Live, Held

\* max_concurrent_transfers streams are enough, and none is lost.
THEOREM StreamsAreEnough == Spec => []StreamsSuffice
<1>1. Init => StreamsInv
  BY DEF Init, StreamsInv, StreamsSuffice
<1>2. StreamsInv => StreamsSuffice
  BY DEF StreamsInv
<1>3. QED BY <1>1, <1>2, StreamsStep, EngineInvHolds, PTL DEF Spec

=============================================================================
