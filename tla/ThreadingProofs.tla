--------------------------- MODULE ThreadingProofs ---------------------------
(***************************************************************************)
(* The two classes of core/threading: ThreadPool keeps its promise for any *)
(* number of workers and tasks, and MainThreadQueue its bound and its      *)
(* order for any producers and any size; so does the queue between the two *)
(* threads of CncController, since every step of CncCallbacks is a step of *)
(* MainThreadQueue or leaves the queue alone.                              *)
(***************************************************************************)
EXTENDS ThreadPool, CncCallbacks, SequenceTheorems, TLAPS

-----------------------------------------------------------------------------
(* ThreadPool.                                                              *)

\* A worker has a task exactly while it is about to run it or running it.
HoldersBusy ==
  \A w \in Workers : task[w] # NoTask <=> pc[w] \in {"taken", "running"}

\* What the owner has not handed over is nowhere in the pool.
OwnerHandsOver ==
  /\ Queued \cup Held \cup finished \subseteq submitted
  /\ arg \in submitted \cup {NoTask}
  /\ ownerPc = "push" <=> arg # NoTask

\* Workers only leave a pool that is shut down and empty.
ExitsAreFinal ==
  /\ poolShutdown <=> ownerPc \in {"notifyAll", "join", "closed"}
  /\ \A w \in Workers : pc[w] = "exited" => poolShutdown /\ taskQueue = <<>>
  /\ ownerPc = "closed" => \A w \in Workers : pc[w] = "exited"

PoolInv ==
  PoolTypes /\ TaskInOnePlace /\ HoldersBusy /\ OwnerHandsOver /\ ExitsAreFinal

-----------------------------------------------------------------------------
(* What the steps do to the queue and to the tasks held.                    *)

LEMMA PushQueued ==
  ASSUME PoolTypes, PushBack
  PROVE  /\ Queued' = Queued \cup {arg}
         /\ DOMAIN taskQueue' = DOMAIN taskQueue \cup {Len(taskQueue) + 1}
         /\ \A i \in DOMAIN taskQueue : taskQueue'[i] = taskQueue[i]
         /\ taskQueue'[Len(taskQueue) + 1] = arg
         /\ Len(taskQueue) + 1 \notin DOMAIN taskQueue
<1>1. taskQueue \in Seq(Tasks)
  BY DEF PoolTypes
<1>2. /\ DOMAIN taskQueue = 1 .. Len(taskQueue) /\ DOMAIN taskQueue' = 1 .. Len(taskQueue) + 1
      /\ \A i \in 1 .. Len(taskQueue) : taskQueue'[i] = taskQueue[i]
      /\ taskQueue'[Len(taskQueue) + 1] = arg
      /\ Len(taskQueue) \in Nat
  BY <1>1 DEF PushBack
<1>3. DOMAIN taskQueue' = DOMAIN taskQueue \cup {Len(taskQueue) + 1}
  BY <1>2
<1>4. Queued' = Queued \cup {arg}
  BY <1>2, <1>3 DEF Queued
<1>5. Len(taskQueue) + 1 \notin DOMAIN taskQueue
  BY <1>2
<1> QED BY <1>2, <1>3, <1>4, <1>5

LEMMA PopQueued ==
  ASSUME PoolTypes, TaskInOnePlace, taskQueue # <<>>, PopFront
  PROVE  /\ Queued' = Queued \ {Head(taskQueue)}
         /\ Head(taskQueue) \in Queued
         /\ taskQueue' \in Seq(Tasks)
         /\ \A i \in DOMAIN taskQueue' :
               i \in Nat /\ i + 1 \in DOMAIN taskQueue /\ taskQueue'[i] = taskQueue[i + 1]
<1>1. taskQueue \in Seq(Tasks)
  BY DEF PoolTypes
<1>2. /\ DOMAIN taskQueue = 1 .. Len(taskQueue) /\ DOMAIN taskQueue' = 1 .. Len(taskQueue) - 1
      /\ \A i \in 1 .. Len(taskQueue) - 1 : taskQueue'[i] = taskQueue[i + 1]
      /\ Len(taskQueue) \in Nat \ {0} /\ Head(taskQueue) = taskQueue[1]
      /\ taskQueue' \in Seq(Tasks)
  BY <1>1 DEF PopFront
<1>3. Head(taskQueue) \in Queued
  BY <1>2 DEF Queued
<1>4. ASSUME NEW t PROVE t \in Queued' <=> t \in Queued \ {Head(taskQueue)}
  <2>1. ASSUME t \in Queued' PROVE t \in Queued \ {Head(taskQueue)}
    <3>1. PICK i \in 1 .. Len(taskQueue) - 1 : t = taskQueue[i + 1]
      BY <1>2, <2>1 DEF Queued
    <3>2. i + 1 \in DOMAIN taskQueue /\ 1 \in DOMAIN taskQueue /\ i + 1 # 1
      BY <1>2
    <3>3. taskQueue[i + 1] # taskQueue[1]
      BY <3>2 DEF TaskInOnePlace
    <3> QED BY <1>2, <3>1, <3>2, <3>3 DEF Queued
  <2>2. ASSUME t \in Queued \ {Head(taskQueue)} PROVE t \in Queued'
    <3>1. PICK i \in 1 .. Len(taskQueue) : t = taskQueue[i] /\ i # 1
      BY <1>2, <2>2 DEF Queued
    <3>2. i - 1 \in DOMAIN taskQueue' /\ taskQueue'[i - 1] = t
      BY <1>2, <3>1
    <3> QED BY <3>2 DEF Queued
  <2> QED BY <2>1, <2>2
<1> QED BY <1>2, <1>3, <1>4

LEMMA TakeHeld ==
  ASSUME PoolTypes, NEW w \in Workers, task[w] = NoTask,
         NEW t \in Tasks, task' = [task EXCEPT ![w] = t]
  PROVE  Held' = Held \cup {t}
BY PoolAssumption DEF PoolTypes, Held, PoolAssumption

LEMMA DropHeld ==
  ASSUME PoolTypes, TaskInOnePlace, NEW w \in Workers, task[w] # NoTask, DropTask(w)
  PROVE  Held' = Held \ {task[w]} /\ task[w] \in Held
BY DEF PoolTypes, TaskInOnePlace, DropTask, Held

-----------------------------------------------------------------------------
(* The invariant.                                                           *)

LEMMA PoolBegins == PoolInit => PoolInv
<1> SUFFICES ASSUME PoolInit PROVE PoolInv
  OBVIOUS
<1>1. PoolTypes
  <2>1. taskQueue \in Seq(Tasks)
    BY DEF PoolInit
  <2>2. pc \in [Workers -> WorkerPcs] /\ task \in [Workers -> Tasks \cup {NoTask}]
    BY DEF PoolInit, WorkerPcs
  <2> QED BY <2>1, <2>2 DEF PoolInit, PoolTypes, OwnerPcs
<1>2. Queued = {} /\ Held = {}
  BY DEF PoolInit, Queued, Held
<1>3. TaskInOnePlace /\ HoldersBusy /\ OwnerHandsOver /\ ExitsAreFinal
  BY <1>2, PoolAssumption
     DEF PoolInit, TaskInOnePlace, HoldersBusy, OwnerHandsOver, ExitsAreFinal, PoolAssumption
<1> QED BY <1>1, <1>3 DEF PoolInv

\* Taking the front task moves it from the queue into the worker's hands.
LEMMA TakeStep ==
  ASSUME PoolInv, NEW w \in Workers, WorkerTake(w)
  PROVE  PoolInv' /\ Queued' = Queued \ {Head(taskQueue)} /\ Held' = Held \cup {Head(taskQueue)}
                  /\ Head(taskQueue) \in Queued
<1> DEFINE t == Head(taskQueue)
<1>1. /\ pc[w] = "ready" /\ taskQueue # <<>> /\ PopFront
      /\ task' = [task EXCEPT ![w] = t] /\ pc' = [pc EXCEPT ![w] = "taken"]
      /\ UNCHANGED <<poolShutdown, active, ownerPc, arg, submitted, finished>>
  BY DEF WorkerTake, Goto, owner
<1>2. /\ t \in Tasks /\ t # NoTask
  BY <1>1, PoolAssumption DEF PoolInv, PoolTypes, PoolAssumption
<1>3. task[w] = NoTask
  BY <1>1 DEF PoolInv, HoldersBusy
<1>4. /\ Queued' = Queued \ {t} /\ t \in Queued /\ taskQueue' \in Seq(Tasks)
      /\ \A i \in DOMAIN taskQueue' :
            i \in Nat /\ i + 1 \in DOMAIN taskQueue /\ taskQueue'[i] = taskQueue[i + 1]
  BY <1>1, PopQueued DEF PoolInv
<1>5. Held' = Held \cup {t}
  BY <1>1, <1>2, <1>3, TakeHeld DEF PoolInv
<1> HIDE DEF t
<1>6. PoolTypes'
  BY <1>1, <1>2, <1>4 DEF PoolInv, PoolTypes, WorkerPcs
<1>7. TaskInOnePlace'
  <2>1. \A i, j \in DOMAIN taskQueue' : taskQueue'[i] = taskQueue'[j] => i = j
    BY <1>4 DEF PoolInv, TaskInOnePlace
  <2>2. \A v \in Workers : task[v] # t
    BY <1>2, <1>4 DEF PoolInv, TaskInOnePlace, Held
  <2>3. \A u, v \in Workers : task'[u] = task'[v] /\ task'[u] # NoTask => u = v
    BY <1>1, <2>2 DEF PoolInv, PoolTypes, TaskInOnePlace
  <2> QED BY <1>1, <1>4, <1>5, <2>1, <2>3 DEF PoolInv, TaskInOnePlace
<1>8. HoldersBusy'
  BY <1>1, <1>2 DEF PoolInv, PoolTypes, HoldersBusy
<1>9. OwnerHandsOver'
  BY <1>1, <1>4, <1>5 DEF PoolInv, OwnerHandsOver
<1>10. ExitsAreFinal'
  BY <1>1 DEF PoolInv, PoolTypes, ExitsAreFinal
<1> QED BY <1>4, <1>5, <1>6, <1>7, <1>8, <1>9, <1>10 DEF PoolInv, t

\* Executing a task takes it out of the worker's hands for good.
LEMMA FinishStep ==
  ASSUME PoolInv, NEW w \in Workers, WorkerFinish(w)
  PROVE  /\ PoolInv' /\ Queued' = Queued /\ Held' = Held \ {task[w]}
         /\ task[w] \in Held /\ finished' = finished \cup {task[w]}
<1>1. /\ pc[w] = "running" /\ finished' = finished \cup {task[w]}
      /\ DropTask(w) /\ task' = [task EXCEPT ![w] = NoTask]
      /\ active' = active \ {w} /\ pc' = [pc EXCEPT ![w] = "ready"]
      /\ UNCHANGED <<taskQueue, poolShutdown, ownerPc, arg, submitted>>
  BY DEF WorkerFinish, DropTask, Goto, owner
<1>2. task[w] # NoTask /\ task[w] \in Tasks
  BY <1>1 DEF PoolInv, HoldersBusy, PoolTypes
<1>3. Held' = Held \ {task[w]} /\ task[w] \in Held
  BY <1>1, <1>2, DropHeld DEF PoolInv
<1>4. Queued' = Queued
  BY <1>1 DEF Queued
<1>5. PoolTypes'
  BY <1>1, <1>2 DEF PoolInv, PoolTypes, WorkerPcs
<1>6. TaskInOnePlace'
  BY <1>1, <1>2, <1>3, <1>4 DEF PoolInv, PoolTypes, TaskInOnePlace
<1>7. HoldersBusy'
  BY <1>1 DEF PoolInv, PoolTypes, HoldersBusy
<1>8. OwnerHandsOver'
  BY <1>1, <1>3, <1>4 DEF PoolInv, OwnerHandsOver
<1>9. ExitsAreFinal'
  BY <1>1 DEF PoolInv, PoolTypes, ExitsAreFinal
<1> QED BY <1>1, <1>3, <1>4, <1>5, <1>6, <1>7, <1>8, <1>9 DEF PoolInv

\* A task is accepted where enqueue pushes it.
LEMMA PushStep ==
  ASSUME PoolInv, EnqueuePush
  PROVE  /\ PoolInv' /\ Queued' = Queued \cup {arg} /\ Held' = Held
         /\ arg \in Tasks /\ arg \notin Queued \cup Held \cup finished
<1>1. /\ ownerPc = "push" /\ PushBack /\ taskQueue' = Append(taskQueue, arg)
      /\ ownerPc' = "notify" /\ arg' = NoTask
      /\ UNCHANGED <<poolShutdown, pc, task, active, submitted, finished>>
  BY DEF EnqueuePush, PushBack, worker
<1>2. arg \in Tasks /\ arg \in submitted /\ arg \notin Queued \cup Held \cup finished
  BY <1>1 DEF PoolInv, OwnerHandsOver, PoolTypes, TaskInOnePlace
<1>3. /\ Queued' = Queued \cup {arg}
      /\ DOMAIN taskQueue' = DOMAIN taskQueue \cup {Len(taskQueue) + 1}
      /\ \A i \in DOMAIN taskQueue : taskQueue'[i] = taskQueue[i]
      /\ taskQueue'[Len(taskQueue) + 1] = arg
      /\ Len(taskQueue) + 1 \notin DOMAIN taskQueue
  BY <1>1, PushQueued DEF PoolInv
<1>4. Held' = Held
  BY <1>1 DEF Held
<1>5. PoolTypes'
  BY <1>1, <1>2 DEF PoolInv, PoolTypes, OwnerPcs
<1>6. TaskInOnePlace'
  <2>1. \A i \in DOMAIN taskQueue : taskQueue[i] # arg
    BY <1>2 DEF Queued
  <2>2. \A i, j \in DOMAIN taskQueue' : taskQueue'[i] = taskQueue'[j] => i = j
    BY <1>3, <2>1 DEF PoolInv, TaskInOnePlace
  <2>3. NoTask \notin Queued' \cup Held' \cup finished'
    BY <1>1, <1>2, <1>3, <1>4, PoolAssumption
       DEF PoolInv, PoolTypes, Queued, Held, PoolAssumption
  <2> QED BY <1>1, <1>2, <1>3, <1>4, <2>2, <2>3 DEF PoolInv, TaskInOnePlace
<1>7. HoldersBusy'
  BY <1>1 DEF PoolInv, HoldersBusy
<1>8. OwnerHandsOver'
  BY <1>1, <1>2, <1>3, <1>4 DEF PoolInv, OwnerHandsOver
<1>9. ExitsAreFinal'
  BY <1>1 DEF PoolInv, ExitsAreFinal
<1> QED BY <1>2, <1>3, <1>4, <1>5, <1>6, <1>7, <1>8, <1>9 DEF PoolInv

\* The other steps of a worker move it between program points only.
LEMMA MoveStep ==
  ASSUME PoolInv, NEW w \in Workers,
         \/ WorkerExit(w) \/ WorkerDoze(w) \/ WorkerSleep(w)
         \/ WorkerWakesSpuriously(w) \/ WorkerStart(w)
  PROVE  PoolInv' /\ UNCHANGED <<taskQueue, task, finished, ownerPc>>
<1>1. UNCHANGED <<taskQueue, poolShutdown, task, ownerPc, arg, submitted, finished>>
  BY DEF WorkerExit, WorkerDoze, WorkerSleep, WorkerWakesSpuriously, WorkerStart, owner
<1>2. Queued' = Queued /\ Held' = Held
  BY <1>1 DEF Queued, Held
<1>3. TaskInOnePlace' /\ OwnerHandsOver'
  BY <1>1, <1>2 DEF PoolInv, TaskInOnePlace, OwnerHandsOver
<1>4. PoolTypes'
  BY <1>1 DEF PoolInv, PoolTypes, WorkerPcs, Goto,
     WorkerExit, WorkerDoze, WorkerSleep, WorkerWakesSpuriously, WorkerStart
<1>5. HoldersBusy'
  BY <1>1 DEF PoolInv, PoolTypes, HoldersBusy, Goto,
     WorkerExit, WorkerDoze, WorkerSleep, WorkerWakesSpuriously, WorkerStart
<1>6. ExitsAreFinal'
  <2>1. \E to \in {"dozing", "asleep", "ready", "running", "exited"} :
          /\ pc' = [pc EXCEPT ![w] = to] /\ pc[w] # "exited"
          /\ to = "exited" => poolShutdown /\ taskQueue = <<>>
    BY DEF WorkerExit, WorkerDoze, WorkerSleep, WorkerWakesSpuriously, WorkerStart,
           Goto, ExitAllowed
  <2> QED BY <1>1, <2>1 DEF PoolInv, PoolTypes, ExitsAreFinal
<1> QED BY <1>1, <1>3, <1>4, <1>5, <1>6 DEF PoolInv

\* So do the other steps of the owner; Join finds every worker gone.
LEMMA OwnerStep ==
  ASSUME PoolInv,
         \/ \E t \in Tasks : EnqueueCheck(t)
         \/ EnqueueNotify \/ IsIdleQueue \/ IsIdleCount \/ ShutdownPool \/ NotifyAll
         \/ Join
  PROVE  /\ PoolInv' /\ UNCHANGED <<taskQueue, task, finished>>
         /\ ~Join => (ownerPc' = "closed" <=> ownerPc = "closed")
<1>1. UNCHANGED <<taskQueue, task, active, finished>>
  BY DEF EnqueueCheck, EnqueueNotify, IsIdleQueue, IsIdleCount, ShutdownPool, NotifyAll,
         Join, worker
<1>2. Queued' = Queued /\ Held' = Held
  BY <1>1 DEF Queued, Held
<1>3. CASE \E t \in Tasks : EnqueueCheck(t)
  <2>1. PICK t \in Tasks : EnqueueCheck(t)
    BY <1>3
  <2>2. /\ submitted' = submitted \cup {t} /\ t \notin submitted
        /\ poolShutdown' = poolShutdown /\ pc' = pc
        /\ ownerPc \in {"idle", "closed"}
        /\ \/ poolShutdown /\ ownerPc' = ownerPc /\ arg' = arg
           \/ ~poolShutdown /\ ownerPc' = "push" /\ arg' = t
    BY <2>1 DEF EnqueueCheck, worker
  <2>3. t \notin Queued \cup Held \cup finished /\ t # NoTask
    BY <2>2, PoolAssumption DEF PoolInv, OwnerHandsOver, PoolAssumption
  <2>4. PoolTypes' /\ HoldersBusy' /\ ExitsAreFinal'
    BY <1>1, <2>2 DEF PoolInv, PoolTypes, OwnerPcs, HoldersBusy, ExitsAreFinal
  <2>5. TaskInOnePlace'
    BY <1>1, <1>2, <2>2, <2>3 DEF PoolInv, TaskInOnePlace
  <2>6. OwnerHandsOver'
    BY <1>1, <1>2, <2>2, <2>3 DEF PoolInv, OwnerHandsOver
  <2> QED BY <1>1, <2>2, <2>4, <2>5, <2>6 DEF PoolInv, ExitsAreFinal
<1>4. CASE EnqueueNotify \/ NotifyAll
  <2>1. /\ UNCHANGED <<poolShutdown, arg, submitted>>
        /\ \/ ownerPc = "notify" /\ ownerPc' = "idle"
           \/ ownerPc = "notifyAll" /\ ownerPc' = "join"
        /\ pc' \in [Workers -> WorkerPcs]
        /\ \A w \in Workers : pc'[w] = pc[w] \/ (pc[w] = "asleep" /\ pc'[w] = "ready")
    BY <1>4 DEF EnqueueNotify, NotifyAll, NotifyOne, Goto, PoolInv, PoolTypes, WorkerPcs
  <2>2. PoolTypes' /\ HoldersBusy' /\ ExitsAreFinal'
    BY <1>1, <2>1 DEF PoolInv, PoolTypes, OwnerPcs, HoldersBusy, ExitsAreFinal
  <2>3. TaskInOnePlace' /\ OwnerHandsOver'
    BY <1>1, <1>2, <2>1 DEF PoolInv, TaskInOnePlace, OwnerHandsOver
  <2> QED BY <1>1, <2>1, <2>2, <2>3 DEF PoolInv
<1>5. CASE IsIdleQueue \/ IsIdleCount \/ ShutdownPool \/ Join
  <2>1. /\ UNCHANGED <<pc, arg, submitted>>
        /\ \/ ownerPc = "idle" /\ ownerPc' = "counting" /\ poolShutdown' = poolShutdown
           \/ ownerPc = "counting" /\ ownerPc' = "idle" /\ poolShutdown' = poolShutdown
           \/ ownerPc = "idle" /\ ownerPc' = "notifyAll" /\ poolShutdown'
           \/ /\ ownerPc = "join" /\ ownerPc' = "closed" /\ poolShutdown' = poolShutdown /\ Join
              /\ \A w \in Workers : pc[w] = "exited"
    BY <1>5 DEF IsIdleQueue, IsIdleCount, ShutdownPool, Join, worker
  <2>2. PoolTypes'
    BY <1>1, <1>5, <2>1 DEF PoolInv, PoolTypes, OwnerPcs, ShutdownPool
  <2>3. HoldersBusy' /\ TaskInOnePlace' /\ OwnerHandsOver'
    BY <1>1, <1>2, <2>1 DEF PoolInv, HoldersBusy, TaskInOnePlace, OwnerHandsOver
  <2>4. ExitsAreFinal'
    BY <1>1, <2>1 DEF PoolInv, ExitsAreFinal
  <2> QED BY <1>1, <2>1, <2>2, <2>3, <2>4 DEF PoolInv
<1> QED BY <1>3, <1>4, <1>5

LEMMA PoolStep ==
  ASSUME PoolInv, [PoolNext]_poolVars PROVE PoolInv'
<1>1. CASE \E w \in Workers : WorkerTake(w)
  BY <1>1, TakeStep
<1>2. CASE \E w \in Workers : WorkerFinish(w)
  BY <1>2, FinishStep
<1>3. CASE EnqueuePush
  BY <1>3, PushStep
<1>4. CASE \E w \in Workers : \/ WorkerExit(w) \/ WorkerDoze(w) \/ WorkerSleep(w)
                              \/ WorkerWakesSpuriously(w) \/ WorkerStart(w)
  BY <1>4, MoveStep
<1>5. CASE \/ \E t \in Tasks : EnqueueCheck(t)
           \/ EnqueueNotify \/ IsIdleQueue \/ IsIdleCount \/ ShutdownPool \/ NotifyAll
           \/ Join
  BY <1>5, OwnerStep
<1>6. CASE UNCHANGED poolVars
  BY <1>6 DEF poolVars, worker, owner, PoolInv, PoolTypes, TaskInOnePlace, HoldersBusy,
     OwnerHandsOver, ExitsAreFinal, Queued, Held
<1> QED BY <1>1, <1>2, <1>3, <1>4, <1>5, <1>6 DEF PoolNext, WorkerStep, OwnerFinishes

LEMMA PoolInvariant == PoolSpec => []PoolInv
BY PoolBegins, PoolStep, PTL DEF PoolSpec

\* No interleaving of workers and owner loses the place of a task or runs it
\* a second time.
THEOREM TasksStayInOnePlace == PoolSpec => []TaskInOnePlace
<1>1. PoolInv => TaskInOnePlace
  BY DEF PoolInv
<1> QED BY <1>1, PoolInvariant, PTL

\* Once shutdown has returned, every task that was accepted has been executed.
THEOREM ShutdownDrains == PoolSpec => []ClosedMeansDone
<1>1. PoolInv => ClosedMeansDone
  <2> SUFFICES ASSUME PoolInv, ownerPc = "closed" PROVE Queued \cup Held = {}
    BY DEF ClosedMeansDone
  <2>1. \A w \in Workers : pc[w] = "exited" /\ poolShutdown /\ taskQueue = <<>>
    BY DEF PoolInv, ExitsAreFinal
  <2>2. Queued = {}
    BY <2>1, PoolAssumption DEF Queued, PoolAssumption
  <2>3. Held = {}
    BY <2>1 DEF PoolInv, HoldersBusy, Held
  <2> QED BY <2>2, <2>3
<1> QED BY <1>1, PoolInvariant, PTL

\* ThreadPool implements TaskExecution: enqueue's push accepts, a worker's pop
\* starts, the end of a task finishes it and the join closes the pool.
THEOREM PoolExecutesTasks == PoolSpec => AbstractSpec
<1>1. PoolInit => Abstract!Init
  BY DEF PoolInit, Abstract!Init, Queued, Held
<1>2. PoolInv /\ PoolInv' /\ [PoolNext]_poolVars
        => [Abstract!Next]_<<Queued, Held, finished, ownerPc = "closed">>
  <2> SUFFICES ASSUME PoolInv, PoolInv', [PoolNext]_poolVars
               PROVE  \/ Abstract!Next
                      \/ /\ Queued' = Queued /\ Held' = Held /\ finished' = finished
                         /\ (ownerPc' = "closed") = (ownerPc = "closed")
    OBVIOUS
  <2>1. CASE \E w \in Workers : WorkerTake(w)
    <3>1. PICK w \in Workers : WorkerTake(w)
      BY <2>1
    <3>2. Head(taskQueue) \in Tasks
      BY <3>1 DEF WorkerTake, PoolInv, PoolTypes
    <3>3. finished' = finished /\ ownerPc' = ownerPc
      BY <3>1 DEF WorkerTake, owner
    <3> QED BY <3>1, <3>2, <3>3, TakeStep DEF Abstract!Next, Abstract!Start
  <2>2. CASE \E w \in Workers : WorkerFinish(w)
    <3>1. PICK w \in Workers : WorkerFinish(w)
      BY <2>2
    <3>2. ownerPc' = ownerPc /\ task[w] \in Held
      BY <3>1, FinishStep DEF WorkerFinish, owner
    <3>3. task[w] \in Tasks
      BY <3>2 DEF Held, PoolInv, PoolTypes
    <3> QED BY <3>1, <3>2, <3>3, FinishStep DEF Abstract!Next, Abstract!Finish
  <2>3. CASE EnqueuePush
    <3>1. ownerPc = "push" /\ ownerPc' = "notify" /\ finished' = finished
      BY <2>3 DEF EnqueuePush
    <3> QED BY <2>3, <3>1, PushStep DEF Abstract!Next, Abstract!Accept
  <2>4. CASE \E w \in Workers : \/ WorkerExit(w) \/ WorkerDoze(w) \/ WorkerSleep(w)
                                \/ WorkerWakesSpuriously(w) \/ WorkerStart(w)
    BY <2>4, MoveStep DEF Queued, Held
  <2>5. CASE \/ \E t \in Tasks : EnqueueCheck(t)
             \/ EnqueueNotify \/ IsIdleQueue \/ IsIdleCount \/ ShutdownPool \/ NotifyAll
             \/ Join
    <3>1. Queued' = Queued /\ Held' = Held /\ finished' = finished
      BY <2>5, OwnerStep DEF Queued, Held
    <3>2. CASE Join
      <4>1. ownerPc' = "closed" /\ \A w \in Workers : pc'[w] = "exited"
        BY <3>2 DEF Join, worker
      <4>2. taskQueue' = <<>> /\ \A w \in Workers : task'[w] = NoTask
        BY <4>1, PoolAssumption DEF PoolInv, ExitsAreFinal, HoldersBusy, PoolAssumption
      <4>3. Queued' = {} /\ Held' = {}
        BY <4>2 DEF Queued, Held
      <4> QED BY <3>1, <4>1, <4>3 DEF Abstract!Next, Abstract!Close
    <3>3. CASE ~Join
      BY <2>5, <3>1, <3>3, OwnerStep
    <3> QED BY <3>2, <3>3
  <2>6. CASE UNCHANGED poolVars
    BY <2>6 DEF poolVars, worker, owner, Queued, Held
  <2> QED BY <2>1, <2>2, <2>3, <2>4, <2>5, <2>6 DEF PoolNext, WorkerStep, OwnerFinishes
<1> QED
  BY <1>1, <1>2, PoolInvariant, PTL DEF PoolSpec, AbstractSpec, Abstract!Spec
-----------------------------------------------------------------------------
(* MainThreadQueue.                                                         *)

LEMMA AppendedTo ==
  ASSUME NEW s \in Seq(Nat), NEW e \in Nat
  PROVE  /\ Append(s, e) \in Seq(Nat)
         /\ Len(Append(s, e)) = Len(s) + 1
         /\ \A i \in 1 .. Len(s) : Append(s, e)[i] = s[i]
         /\ Append(s, e)[Len(s) + 1] = e
BY AppendProperties

LEMMA TailOf ==
  ASSUME NEW s \in Seq(Nat), s # <<>>
  PROVE  /\ Tail(s) \in Seq(Nat) /\ Head(s) \in Nat /\ Head(s) = s[1]
         /\ Len(s) >= 1 /\ Len(Tail(s)) = Len(s) - 1
         /\ \A i \in 1 .. Len(s) - 1 : Tail(s)[i] = s[i + 1]
BY HeadTailProperties

LEMMA NoTasks == <<>> \in Seq(Nat) /\ Len(<<>>) = 0
OBVIOUS

-----------------------------------------------------------------------------
(* The inductive invariant: order and bound need the types, and each other. *)

QueueInv == TypeOK /\ WithinBound /\ InOrder

LEMMA QueueInit == Init => QueueInv
<1> SUFFICES ASSUME Init PROVE QueueInv OBVIOUS
<1>1. TypeOK BY NoTasks DEF Init, TypeOK, Calls, MainPcs
<1>2. Len(queue) = 0 /\ Len(batch) = 0 /\ posted = 0 /\ done = 0
  BY NoTasks DEF Init
<1>3. WithinBound /\ InOrder
  BY <1>2, QueueAssumption DEF WithinBound, InOrder, QueueAssumption
<1> QED BY <1>1, <1>3 DEF QueueInv

\* A push appends the next number to a queue that has room.
LEMMA PushKeeps ==
  ASSUME QueueInv, NEW p \in Producers, Push(p) PROVE QueueInv'
<1>1. /\ queue \in Seq(Nat) /\ posted \in Nat /\ done \in Nat /\ batch \in Seq(Nat)
      /\ ~(Len(queue) >= MaxSize)
      /\ queue' = Append(queue, posted + 1) /\ posted' = posted + 1
      /\ call' = [call EXCEPT ![p] = "none"]
      /\ UNCHANGED <<shutdown, batch, mainPc, done>>
  BY DEF QueueInv, TypeOK, Push, Full, GoTo
<1>2. /\ queue' \in Seq(Nat) /\ Len(queue') = Len(queue) + 1
      /\ \A i \in 1 .. Len(queue) : queue'[i] = queue[i]
      /\ queue'[Len(queue) + 1] = posted + 1
  BY <1>1, AppendedTo
<1>3. Len(queue) \in Nat /\ Len(batch) \in Nat BY <1>1
<1>4. TypeOK'
  BY <1>1, <1>2 DEF QueueInv, TypeOK, Calls
<1>5. WithinBound'
  BY <1>1, <1>2, <1>3, QueueAssumption DEF QueueInv, WithinBound, QueueAssumption
<1>6. InOrder'
  <2>1. Len(batch) + Len(queue) = posted - done BY DEF QueueInv, InOrder
  <2>2. \A i \in 1 .. Len(queue) : queue[i] = done + Len(batch) + i
    BY DEF QueueInv, InOrder
  <2>3. ASSUME NEW i \in 1 .. Len(queue')
        PROVE  queue'[i] = done + Len(batch) + i
    <3>1. CASE i \in 1 .. Len(queue) BY <3>1, <1>2, <2>2
    <3>2. CASE i = Len(queue) + 1 BY <3>2, <1>1, <1>2, <1>3, <2>1
    <3> QED BY <3>1, <3>2, <1>2, <1>3
  <2>4. Len(batch') + Len(queue') = posted' - done'
    <3>1. Len(batch') = Len(batch) BY <1>1
    <3>2. Len(queue') = Len(queue) + 1 BY <1>2
    <3>3. posted' = posted + 1 /\ done' = done /\ posted \in Nat /\ done \in Nat BY <1>1
    <3> QED BY <3>1, <3>2, <3>3, <1>3, <2>1
  <2>5. \A i \in 1 .. Len(batch') : batch'[i] = done' + i
    BY <1>1 DEF QueueInv, InOrder
  <2>6. \A i \in 1 .. Len(queue') : queue'[i] = done' + Len(batch') + i
    BY <1>1, <2>3
  <2> QED BY <2>4, <2>5, <2>6 DEF InOrder
<1> QED BY <1>4, <1>5, <1>6 DEF QueueInv

\* processAll moves the whole queue into an empty batch.
LEMMA DrainKeeps == ASSUME QueueInv, Drain PROVE QueueInv'
<1>1. /\ queue \in Seq(Nat) /\ batch = <<>>
      /\ batch' = queue /\ queue' = <<>> /\ mainPc' = "running"
      /\ UNCHANGED <<shutdown, posted, done>>
  BY DEF QueueInv, TypeOK, Drain
<1>2. call' \in [Producers -> Calls]
  BY DEF QueueInv, TypeOK, Drain, WakeAll, Calls
<1>3. TypeOK' BY <1>1, <1>2, NoTasks DEF QueueInv, TypeOK, MainPcs
<1>4. WithinBound' BY <1>1, NoTasks, QueueAssumption DEF QueueInv, WithinBound, QueueAssumption
<1>5. InOrder'
  <2>1. Len(queue) \in Nat /\ done \in Nat /\ posted \in Nat
    BY <1>1 DEF QueueInv, TypeOK
  <2> QED BY <1>1, <2>1, NoTasks DEF QueueInv, InOrder
<1> QED BY <1>3, <1>4, <1>5 DEF QueueInv

\* The first task of the batch is the next in order.
LEMMA RunKeeps == ASSUME QueueInv, RunTask PROVE QueueInv'
<1>1. /\ batch \in Seq(Nat) /\ batch # <<>> /\ done \in Nat /\ posted \in Nat
      /\ done' = Head(batch) /\ batch' = Tail(batch) /\ mainPc = "running"
      /\ UNCHANGED <<queue, shutdown, call, mainPc, posted>>
  BY DEF QueueInv, TypeOK, RunTask, NextTask
<1>2. /\ batch' \in Seq(Nat) /\ Head(batch) = batch[1] /\ Len(batch) >= 1
      /\ Len(batch') = Len(batch) - 1
      /\ \A i \in 1 .. Len(batch) - 1 : batch'[i] = batch[i + 1]
  BY <1>1, TailOf
<1>3. Len(batch) \in Nat BY <1>1
<1>4. /\ Len(batch) + Len(queue) = posted - done
      /\ \A i \in 1 .. Len(batch) : batch[i] = done + i
      /\ \A i \in 1 .. Len(queue) : queue[i] = done + Len(batch) + i
  BY DEF QueueInv, InOrder
<1>5. done' = done + 1 BY <1>1, <1>2, <1>3, <1>4
<1>6. TypeOK' BY <1>1, <1>2, <1>5 DEF QueueInv, TypeOK
<1>7. WithinBound' BY <1>1 DEF QueueInv, WithinBound
<1>8. InOrder'
  <2>1. Len(queue) \in Nat BY DEF QueueInv, TypeOK
  <2>2. Len(batch') + Len(queue') = posted' - done'
    BY <1>1, <1>2, <1>3, <1>4, <1>5, <2>1
  <2>3. \A i \in 1 .. Len(batch') : batch'[i] = done' + i
    BY <1>1, <1>2, <1>3, <1>4, <1>5
  <2>4. \A i \in 1 .. Len(queue') : queue'[i] = done' + Len(batch') + i
    BY <1>1, <1>2, <1>3, <1>4, <1>5, <2>1
  <2> QED BY <2>2, <2>3, <2>4 DEF InOrder
<1> QED BY <1>6, <1>7, <1>8 DEF QueueInv

\* The other steps only move control.
LEMMA MoveKeeps ==
  ASSUME QueueInv,
         UNCHANGED <<queue, batch, posted, done>>,
         call' \in [Producers -> Calls], shutdown' \in BOOLEAN,
         mainPc' \in MainPcs, mainPc' # "running" => batch = <<>>
  PROVE  QueueInv'
BY DEF QueueInv, TypeOK, WithinBound, InOrder

LEMMA QueueNext == ASSUME QueueInv, [Next]_vars PROVE QueueInv'
<1> USE DEF Calls, MainPcs
<1>0. TypeOK BY DEF QueueInv
<1>1. ASSUME NEW p \in Producers,
             Call(p) \/ Wait(p) \/ Refuse(p) \/ WakesSpuriously(p)
      PROVE  QueueInv'
  BY <1>0, <1>1, MoveKeeps
     DEF TypeOK, Call, Wait, Refuse, WakesSpuriously, GoTo
<1>2. ASSUME NEW p \in Producers, Push(p) PROVE QueueInv' BY <1>2, PushKeeps
<1>3. CASE Drain BY <1>3, DrainKeeps
<1>4. CASE RunTask BY <1>4, RunKeeps
<1>5. CASE Return
  BY <1>0, <1>5, MoveKeeps DEF TypeOK, Return, FrameDone
<1>6. CASE Shutdown
  BY <1>0, <1>6, MoveKeeps DEF TypeOK, Shutdown
<1>7. CASE ShutdownNotify
  BY <1>0, <1>7, MoveKeeps DEF TypeOK, ShutdownNotify, WakeAll
<1>8. CASE UNCHANGED vars
  BY <1>0, <1>8, MoveKeeps DEF TypeOK, vars
<1> QED
  BY <1>1, <1>2, <1>3, <1>4, <1>5, <1>6, <1>7, <1>8
     DEF Next, Enqueueing, MainLoop

LEMMA QueueInvariant == Spec => []QueueInv
BY QueueInit, QueueNext, PTL DEF Spec

\* The queue never grows past m_maxSize, whoever posts to it.
THEOREM QueueBounded == Spec => []WithinBound
<1>1. QueueInv => WithinBound BY DEF QueueInv
<1> QED BY <1>1, QueueInvariant, PTL

\* Callbacks run in the order in which they were posted, each once.
THEOREM CallbacksInOrder == Spec => []InOrder
<1>1. QueueInv => InOrder BY DEF QueueInv
<1> QED BY <1>1, QueueInvariant, PTL

\* A queue that has been shut down accepts nothing.
THEOREM ShutdownIsFinal == Spec => NothingAfterShutdown
<1>1. ASSUME [Next]_vars, shutdown PROVE posted' = posted
  BY <1>1 DEF Next, vars, Enqueueing, MainLoop, Call, Wait,
     Refuse, Push, Accepting, WakesSpuriously, Drain, RunTask,
     Return, Shutdown, ShutdownNotify
<1>2. [Next]_vars => [shutdown => posted' = posted]_vars BY <1>1
<1> QED BY <1>2, PTL DEF Spec, NothingAfterShutdown
-----------------------------------------------------------------------------
(* The controller's two threads use the queue as it allows.                 *)

LEMMA CncStep ==
  ASSUME Io \in Producers, Main \in Producers, [CncNext]_allVars
  PROVE  [Next]_vars
<1>1. ASSUME NEW p \in Producers, Post(p) PROVE Next
  BY <1>1 DEF Post, Next, Enqueueing
<1>2. ASSUME NEW p, Lock(p) \/ Unlock(p) PROVE UNCHANGED vars
  BY <1>2 DEF Lock, Unlock, vars
<1>3. CASE \/ IoTurn \/ IoReturn \/ Operate
           \/ StopIo \/ JoinIo \/ DestroyUi
  BY <1>3 DEF IoTurn, IoReturn, Operate, StopIo, JoinIo,
     DestroyUi, vars
<1>4. CASE CloseQueue \/ Frame
  BY <1>4 DEF CloseQueue, Frame, Next, MainLoop
<1>5. CASE \E p \in Producers : WakesSpuriously(p) /\ UNCHANGED cncVars
  BY <1>5 DEF Next
<1>6. CASE UNCHANGED allVars BY <1>6 DEF allVars, vars
<1> QED
  BY <1>1, <1>2, <1>3, <1>4, <1>5, <1>6 DEF CncNext, IoStep, MainStep

\* Whatever the two threads do, the queue between them behaves as
\* MainThreadQueue specifies, so callbacks reach the main thread in order.
THEOREM ControllerUsesQueue ==
  ASSUME Io \in Producers, Main \in Producers
  PROVE  CncSpec => Spec /\ []InOrder
<1>1. CncInit => Init BY DEF CncInit
<1>2. [CncNext]_allVars => [Next]_vars BY CncStep
<1>3. CncSpec => Spec BY <1>1, <1>2, PTL DEF CncSpec, Spec
<1> QED BY <1>3, CallbacksInOrder, PTL
=============================================================================
