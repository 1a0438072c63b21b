----------------------------- MODULE ThreadPool -----------------------------
(***************************************************************************)
(* dw::ThreadPool: the worker loops, and the thread that owns the pool and *)
(* calls enqueue, isIdle and shutdown (the main thread, through            *)
(* ImportQueue).  m_shutdown is an atomic stored and notified without      *)
(* m_mutex; m_mutex spans several steps only while a worker has found      *)
(* nothing to do and has not yet gone to sleep ("dozing").                 *)
(***************************************************************************)
EXTENDS Naturals, Sequences, FiniteSets

CONSTANTS Workers, Tasks, NoTask

ASSUME PoolAssumption ==
  NoTask \notin Tasks /\ IsFiniteSet(Workers) /\ Workers # {}

VARIABLES
  taskQueue,     \* m_taskQueue
  poolShutdown,  \* m_shutdown
  active,        \* the workers counted in m_activeCount
  pc, task,      \* of each worker
  ownerPc, arg,  \* of the owner, and the task it is handing over
  submitted,     \* history: tasks the owner has called enqueue with
  finished       \* history: tasks that have been executed

worker   == <<pc, task, active>>
owner    == <<ownerPc, arg, submitted>>
poolVars == <<taskQueue, poolShutdown, worker, owner, finished>>

WorkerPcs == {"ready", "dozing", "asleep", "taken", "running", "exited"}
OwnerPcs == {"idle", "push", "notify", "counting", "notifyAll", "join", "closed"}

MutexFree == \A w \in Workers : pc[w] # "dozing"
activeCount == Cardinality(active)

PoolInit ==
  /\ taskQueue = <<>> /\ poolShutdown = FALSE /\ active = {}
  /\ pc = [w \in Workers |-> "ready"] /\ task = [w \in Workers |-> NoTask]
  /\ ownerPc = "idle" /\ arg = NoTask
  /\ submitted = {} /\ finished = {}
-----------------------------------------------------------------------------
(* workerLoop.                                                              *)

Goto(w, to) == pc' = [pc EXCEPT ![w] = to]

PeekFront == UNCHANGED taskQueue
PopFront == taskQueue' = Tail(taskQueue)

WorkerTake(w) ==
  /\ pc[w] = "ready" /\ MutexFree /\ taskQueue # <<>>
  /\ task' = [task EXCEPT ![w] = Head(taskQueue)]
  /\ PopFront
  /\ Goto(w, "taken")
  /\ UNCHANGED <<poolShutdown, active, owner, finished>>

ExitAllowed == poolShutdown /\ taskQueue = <<>>

WorkerExit(w) ==
  /\ pc[w] = "ready" /\ MutexFree /\ ExitAllowed
  /\ Goto(w, "exited")
  /\ UNCHANGED <<taskQueue, poolShutdown, active, task, owner, finished>>

\* The predicate of the wait is false: m_shutdown was read, m_mutex is held.
WorkerDoze(w) ==
  /\ pc[w] = "ready" /\ MutexFree /\ ~poolShutdown /\ taskQueue = <<>>
  /\ Goto(w, "dozing")
  /\ UNCHANGED <<taskQueue, poolShutdown, active, task, owner, finished>>

WorkerSleep(w) ==
  /\ pc[w] = "dozing"
  /\ Goto(w, "asleep")
  /\ UNCHANGED <<taskQueue, poolShutdown, active, task, owner, finished>>

\* A condition variable may wake a thread for no reason.
WorkerWakesSpuriously(w) ==
  /\ pc[w] = "asleep"
  /\ Goto(w, "ready")
  /\ UNCHANGED <<taskQueue, poolShutdown, active, task, owner, finished>>

\* m_activeCount is raised after the task has left the queue.
WorkerStart(w) ==
  /\ pc[w] = "taken"
  /\ active' = active \cup {w}
  /\ Goto(w, "running")
  /\ UNCHANGED <<taskQueue, poolShutdown, task, owner, finished>>

\* The task object goes out of scope at the end of the turn.
DropTask(w) == task' = [task EXCEPT ![w] = NoTask]

WorkerFinish(w) ==
  /\ pc[w] = "running"
  /\ finished' = finished \cup {task[w]}
  /\ DropTask(w)
  /\ active' = active \ {w}
  /\ Goto(w, "ready")
  /\ UNCHANGED <<taskQueue, poolShutdown, owner>>
-----------------------------------------------------------------------------
(* The owner: enqueue, isIdle, shutdown.                                    *)

\* enqueue, the unlocked look at m_shutdown.
EnqueueCheck(t) ==
  /\ ownerPc \in {"idle", "closed"} /\ t \in Tasks \ submitted
  /\ submitted' = submitted \cup {t}
  /\ IF poolShutdown THEN UNCHANGED <<ownerPc, arg>>
                 ELSE ownerPc' = "push" /\ arg' = t
  /\ UNCHANGED <<taskQueue, poolShutdown, worker, finished>>

PushBack == taskQueue' = Append(taskQueue, arg)

EnqueuePush ==
  /\ ownerPc = "push" /\ MutexFree
  /\ PushBack
  /\ ownerPc' = "notify" /\ arg' = NoTask
  /\ UNCHANGED <<poolShutdown, worker, submitted, finished>>

NotifyNone == UNCHANGED pc

\* notify_one wakes one of the workers asleep, if there is one.
NotifyOne ==
  IF \E w \in Workers : pc[w] = "asleep"
  THEN \E w \in Workers : pc[w] = "asleep" /\ Goto(w, "ready")
  ELSE UNCHANGED pc

EnqueueNotify ==
  /\ ownerPc = "notify"
  /\ NotifyOne
  /\ ownerPc' = "idle"
  /\ UNCHANGED <<taskQueue, poolShutdown, active, task, arg, submitted, finished>>

\* isIdle reads the queue, then the count, both without m_mutex.
IsIdleQueue ==
  /\ ownerPc = "idle" /\ taskQueue = <<>>
  /\ ownerPc' = "counting"
  /\ UNCHANGED <<taskQueue, poolShutdown, worker, arg, submitted, finished>>

IsIdleCount ==
  /\ ownerPc = "counting"
  /\ ownerPc' = "idle"
  /\ UNCHANGED <<taskQueue, poolShutdown, worker, arg, submitted, finished>>

ShutdownPool ==
  /\ ownerPc = "idle" /\ ~poolShutdown
  /\ poolShutdown' = TRUE
  /\ ownerPc' = "notifyAll"
  /\ UNCHANGED <<taskQueue, worker, arg, submitted, finished>>

NotifyAll ==
  /\ ownerPc = "notifyAll"
  /\ pc' = [w \in Workers |-> IF pc[w] = "asleep" THEN "ready" ELSE pc[w]]
  /\ ownerPc' = "join"
  /\ UNCHANGED <<taskQueue, poolShutdown, active, task, arg, submitted, finished>>

Join ==
  /\ ownerPc = "join" /\ \A w \in Workers : pc[w] = "exited"
  /\ ownerPc' = "closed"
  /\ UNCHANGED <<taskQueue, poolShutdown, worker, arg, submitted, finished>>
-----------------------------------------------------------------------------
WorkerStep(w) ==
  \/ WorkerTake(w) \/ WorkerExit(w) \/ WorkerDoze(w) \/ WorkerSleep(w)
  \/ WorkerStart(w) \/ WorkerFinish(w)

OwnerFinishes == EnqueuePush \/ EnqueueNotify \/ IsIdleCount \/ NotifyAll \/ Join

PoolNext ==
  \/ \E w \in Workers : WorkerStep(w) \/ WorkerWakesSpuriously(w)
  \/ \E t \in Tasks : EnqueueCheck(t)
  \/ IsIdleQueue \/ ShutdownPool \/ OwnerFinishes

PoolSpec == PoolInit /\ [][PoolNext]_poolVars

\* Every thread keeps running; nothing makes a sleeping worker wake but a
\* notification.
FairSpec ==
  /\ PoolSpec /\ WF_poolVars(OwnerFinishes)
  /\ \A w \in Workers : WF_poolVars(WorkerStep(w))
-----------------------------------------------------------------------------
PoolTypes ==
  /\ taskQueue \in Seq(Tasks) /\ poolShutdown \in BOOLEAN
  /\ active \subseteq Workers
  /\ pc \in [Workers -> WorkerPcs] /\ task \in [Workers -> Tasks \cup {NoTask}]
  /\ ownerPc \in OwnerPcs /\ arg \in Tasks \cup {NoTask}
  /\ submitted \subseteq Tasks /\ finished \subseteq Tasks

\* The tasks in the queue and the tasks a worker has taken from it.
Queued == {taskQueue[i] : i \in DOMAIN taskQueue}
Held == {task[w] : w \in Workers} \ {NoTask}

\* A task is in one place only: two workers never hold the same task, and
\* one that is queued or held has not been executed before.
TaskInOnePlace ==
  /\ \A i, j \in DOMAIN taskQueue : taskQueue[i] = taskQueue[j] => i = j
  /\ \A v, w \in Workers : task[v] = task[w] /\ task[v] # NoTask => v = w
  /\ Queued \cap Held = {} /\ (Queued \cup Held) \cap finished = {}
  /\ arg \notin Queued \cup Held \cup finished

\* When shutdown has returned, no task accepted is left in the queue or in
\* the hands of a worker (thread_pool.h: remaining queued tasks are executed
\* before threads exit).
ClosedMeansDone == ownerPc = "closed" => Queued \cup Held = {}

\* The pool does what TaskExecution promises.
Abstract == INSTANCE TaskExecution WITH
  waiting <- Queued, running <- Held, closed <- ownerPc = "closed"
AbstractSpec == Abstract!Spec

\* A task in the queue is executed: no wake-up an enqueue sends is lost.
EveryTaskRuns == \A t \in Tasks : t \in Queued ~> t \in finished

\* A shutdown that has begun returns.
ShutdownReturns == ownerPc = "notifyAll" ~> ownerPc = "closed"
=============================================================================
