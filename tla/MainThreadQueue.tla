-------------------------- MODULE MainThreadQueue --------------------------
(***************************************************************************)
(* dw::MainThreadQueue: the bounded queue through which other threads hand *)
(* callbacks to the main thread.  A task is the number of its acceptance:  *)
(* the n-th task pushed is n.  m_mutex guards every step on the queue; a   *)
(* producer that finds it full sleeps on m_cvFull.                         *)
(***************************************************************************)
EXTENDS Naturals, Sequences, FiniteSets

CONSTANTS
  Producers,   \* the threads that call enqueue
  Main,        \* the main thread; it may be one of them
  MaxSize,     \* m_maxSize
  MaxPosts     \* bound: tasks handed over in a behaviour

ASSUME QueueAssumption == MaxSize \in Nat \ {0} /\ MaxPosts \in Nat

VARIABLES
  queue,       \* m_queue; m_size is its length
  shutdown,    \* m_shutdown
  call,        \* where each producer is in enqueue
  batch,       \* the tasks processAll has drained and not yet run
  mainPc,      \* the main thread: before, in or past processAll, or in shutdown
  posted, done \* history: tasks accepted; tasks begun

vars == <<queue, shutdown, call, batch, mainPc, posted, done>>

Calls == {"none", "trying", "asleep"}
MainPcs == {"frame", "running", "waking", "off"}

Init ==
  /\ queue = <<>> /\ shutdown = FALSE
  /\ call = [p \in Producers |-> "none"]
  /\ batch = <<>> /\ mainPc = "frame"
  /\ posted = 0 /\ done = 0

Full == Len(queue) >= MaxSize
MainIsFree == Main \in Producers => call[Main] = "none"
Inside == {p \in Producers : call[p] # "none"}
-----------------------------------------------------------------------------
(* enqueue.                                                                 *)

GoTo(p, to) == call' = [call EXCEPT ![p] = to]

Call(p) ==
  /\ call[p] = "none"
  /\ posted + Cardinality(Inside) < MaxPosts
  /\ GoTo(p, "trying")
  /\ UNCHANGED <<queue, shutdown, batch, mainPc, posted, done>>

Wait(p) ==
  /\ call[p] = "trying" /\ Full /\ ~shutdown
  /\ GoTo(p, "asleep")
  /\ UNCHANGED <<queue, shutdown, batch, mainPc, posted, done>>

\* A condition variable may wake a thread for no reason.
WakesSpuriously(p) ==
  /\ call[p] = "asleep"
  /\ GoTo(p, "trying")
  /\ UNCHANGED <<queue, shutdown, batch, mainPc, posted, done>>

Refuse(p) ==
  /\ call[p] = "trying" /\ shutdown
  /\ GoTo(p, "none")
  /\ UNCHANGED <<queue, shutdown, batch, mainPc, posted, done>>

Accepting == ~shutdown

Push(p) ==
  /\ call[p] = "trying" /\ ~Full /\ Accepting
  /\ queue' = Append(queue, posted + 1)
  /\ posted' = posted + 1
  /\ GoTo(p, "none")
  /\ UNCHANGED <<shutdown, batch, mainPc, done>>
-----------------------------------------------------------------------------
(* processAll and shutdown, on the main thread.                             *)

WakeNobody == UNCHANGED call
WakeAll ==
  call' = [p \in Producers |-> IF call[p] = "asleep" THEN "trying" ELSE call[p]]

Drain ==
  /\ mainPc = "frame" /\ MainIsFree
  /\ batch' = queue /\ queue' = <<>>
  /\ WakeAll
  /\ mainPc' = "running"
  /\ UNCHANGED <<shutdown, posted, done>>

NewestTask == batch[Len(batch)]
NextTask == Head(batch)

RunTask ==
  /\ mainPc = "running" /\ MainIsFree /\ batch # <<>>
  /\ done' = NextTask
  /\ batch' = Tail(batch)
  /\ UNCHANGED <<queue, shutdown, call, mainPc, posted>>

FrameDone == batch = <<>>

Return ==
  /\ mainPc = "running" /\ MainIsFree /\ FrameDone
  /\ mainPc' = "frame"
  /\ UNCHANGED <<queue, shutdown, call, batch, posted, done>>

Shutdown ==
  /\ mainPc = "frame" /\ MainIsFree
  /\ shutdown' = TRUE
  /\ mainPc' = "waking"
  /\ UNCHANGED <<queue, call, batch, posted, done>>

ShutdownNotify ==
  /\ mainPc = "waking"
  /\ WakeAll
  /\ mainPc' = "off"
  /\ UNCHANGED <<queue, shutdown, batch, posted, done>>
-----------------------------------------------------------------------------
Enqueueing(p) == Wait(p) \/ Refuse(p) \/ Push(p)
MainLoop == Drain \/ RunTask \/ Return \/ ShutdownNotify

Next ==
  \/ \E p \in Producers : Call(p) \/ Enqueueing(p) \/ WakesSpuriously(p)
  \/ MainLoop \/ Shutdown

Spec == Init /\ [][Next]_vars
-----------------------------------------------------------------------------
TypeOK ==
  /\ queue \in Seq(Nat) /\ batch \in Seq(Nat)
  /\ shutdown \in BOOLEAN
  /\ call \in [Producers -> Calls]
  /\ mainPc \in MainPcs /\ (mainPc # "running" => batch = <<>>)
  /\ posted \in Nat /\ done \in Nat

\* The queue never holds more than its bound.
WithinBound == Len(queue) <= MaxSize

\* First in, first out, each once: what has been drained and what is queued
\* are exactly the tasks accepted and not yet begun, in order of acceptance.
InOrder ==
  /\ Len(batch) + Len(queue) = posted - done
  /\ \A i \in 1 .. Len(batch) : batch[i] = done + i
  /\ \A i \in 1 .. Len(queue) : queue[i] = done + Len(batch) + i

\* After shutdown nothing is accepted (main_thread_queue.h: prevents further
\* enqueues).
NothingAfterShutdown == [][shutdown => posted' = posted]_vars
=============================================================================
