---------------------------- MODULE CncCallbacks ----------------------------
(***************************************************************************)
(* MainThreadQueue between the two threads of CncController: the IO thread *)
(* posts its callbacks, in places while it holds m_streamMutex, and the    *)
(* main thread, which alone empties the queue, takes m_streamMutex, posts  *)
(* and joins the IO thread in the operations of the user interface and in  *)
(* the callbacks themselves.  What a turn of the IO thread or an operation *)
(* does with locks and the queue is a script of steps:                     *)
(*   post            m_mtq->enqueue                                        *)
(*   lock, unlock    m_streamMutex                                         *)
(*   return          the IO thread's function returns                      *)
(*   stop, join      m_running = false, m_ioThread.join()                  *)
(*   destroyUi       the panels are gone (Application::shutdown)           *)
(*   close           MainThreadQueue::shutdown                             *)
(***************************************************************************)
EXTENDS MainThreadQueue

CONSTANTS
  Io,
  Operations,   \* names of the operations the main thread performs
  MaxOps        \* bound: operations of a behaviour

VARIABLES
  script,       \* what is left of each thread's turn or operation
  streamMutex,  \* the holder of m_streamMutex, or "free"
  running,      \* m_running
  ioAlive,      \* the IO thread has not returned
  uiAlive,      \* the panels the callbacks refer to exist
  ops           \* operations so far

cncVars == <<script, streamMutex, running, ioAlive, uiAlive, ops>>
allVars == <<vars, cncVars>>
-----------------------------------------------------------------------------
(* The scripts.                                                             *)

Locked(posts) == <<"lock">> \o posts \o <<"unlock">>

\* ioThreadFunc: a read that times out, or the raw line followed by what
\* processResponse does with it.
ReadNothing == <<>>
ReadStatus == <<"post", "post">>
ReadAlarm == <<"post", "post", "post">>
ReadAck == <<"post">> \o Locked(<<"post", "post">>)
ReadError == <<"post">> \o Locked(<<"post", "post", "post">>)
Reads == {ReadNothing, ReadStatus, ReadAlarm, ReadAck, ReadError}

\* The thread's two ends of its own accord: handleDisconnect, and no banner.
Drops == {Locked(<<>>) \o <<"post", "post", "return">>, <<"post", "return">>}

\* sendNextLines: nothing to send, a line sent, or a tool change met.
Sends == {<<>>, Locked(<<>>), Locked(<<"post">>)}

DisconnectJoinFirst == <<"post", "join", "stop">>
Disconnect == <<"stop", "post", "join">>

\* (disconnect's last post never happens: the IO thread has cleared m_connected
\* by the time join returns.)

\* Application::shutdown destroys the panels, then the controller, whose
\* destructor disconnects, and shuts the queue down and destroys it last.
Quit == <<"destroyUi">> \o Disconnect \o <<"close">>

Script ==
  [softReset |-> Locked(<<>>) \o <<"post">>,
   startStream |-> Locked(<<"post">>),
   startRefused |-> <<"post">>,
   acknowledgeToolChange |-> Locked(<<>>),
   stopStream |-> <<"post">>,
   disconnect |-> Disconnect,
   quit |-> Quit]
-----------------------------------------------------------------------------
CncInit ==
  /\ Init
  /\ script = [p \in {Io, Main} |-> <<>>]
  /\ streamMutex = "free" /\ running = TRUE /\ ioAlive = TRUE /\ uiAlive = TRUE
  /\ ops = 0

Doing(p, step) == script[p] # <<>> /\ Head(script[p]) = step
Advance(p) == script' = [script EXCEPT ![p] = Tail(@)]
Posts(s) == Len(SelectSeq(s, LAMBDA step : step = "post"))

Post(p) ==
  /\ Doing(p, "post")
  /\ \/ (Call(p) \/ Wait(p)) /\ UNCHANGED script
     \/ (Push(p) \/ Refuse(p)) /\ Advance(p)
  /\ UNCHANGED <<streamMutex, running, ioAlive, uiAlive, ops>>

Lock(p) ==
  /\ Doing(p, "lock") /\ streamMutex = "free"
  /\ streamMutex' = p
  /\ Advance(p)
  /\ UNCHANGED <<vars, running, ioAlive, uiAlive, ops>>

Unlock(p) ==
  /\ Doing(p, "unlock")
  /\ streamMutex' = "free"
  /\ Advance(p)
  /\ UNCHANGED <<vars, running, ioAlive, uiAlive, ops>>
-----------------------------------------------------------------------------
(* The IO thread.                                                           *)

IoTurn ==
  /\ ioAlive /\ running /\ script[Io] = <<>>
  /\ \E turn \in {r \o s : r \in Reads, s \in Sends} \cup Drops :
       /\ posted + Posts(turn) + Posts(script[Main]) <= MaxPosts
       /\ script' = [script EXCEPT ![Io] = turn]
  /\ UNCHANGED <<vars, streamMutex, running, ioAlive, uiAlive, ops>>

IoReturn ==
  /\ ioAlive
  /\ \/ script[Io] = <<>> /\ ~running /\ UNCHANGED script
     \/ Doing(Io, "return") /\ Advance(Io)
  /\ ioAlive' = FALSE
  /\ UNCHANGED <<vars, streamMutex, running, uiAlive, ops>>

IoStep == IoReturn \/ Post(Io) \/ Lock(Io) \/ Unlock(Io)
-----------------------------------------------------------------------------
(* The main thread: an operation between two frames (processEvents,         *)
(* render) or out of a callback, and the frames.                            *)

\* Of the callbacks only onConnectionChanged calls back into the controller:
\* connectSimulator, which disconnects.
Possible(op) == mainPc = "running" => op = "disconnect"

Operate ==
  /\ mainPc \in {"frame", "running"} /\ script[Main] = <<>> /\ uiAlive
  /\ ops < MaxOps
  /\ \E op \in Operations :
       /\ Possible(op)
       /\ posted + Posts(script[Io]) + Posts(Script[op]) <= MaxPosts
       /\ script' = [script EXCEPT ![Main] = Script[op]]
  /\ ops' = ops + 1
  /\ UNCHANGED <<vars, streamMutex, running, ioAlive, uiAlive>>

StopIo ==
  /\ Doing(Main, "stop")
  /\ running' = FALSE
  /\ Advance(Main)
  /\ UNCHANGED <<vars, streamMutex, ioAlive, uiAlive, ops>>

JoinIo ==
  /\ Doing(Main, "join") /\ ~ioAlive
  /\ Advance(Main)
  /\ UNCHANGED <<vars, streamMutex, running, ioAlive, uiAlive, ops>>

DestroyUi ==
  /\ Doing(Main, "destroyUi")
  /\ uiAlive' = FALSE
  /\ Advance(Main)
  /\ UNCHANGED <<vars, streamMutex, running, ioAlive, ops>>

CloseQueue ==
  /\ \/ Doing(Main, "close") /\ Shutdown /\ Advance(Main)
     \/ ShutdownNotify /\ UNCHANGED script
  /\ UNCHANGED <<streamMutex, running, ioAlive, uiAlive, ops>>

Frame ==
  /\ script[Main] = <<>>
  /\ Drain \/ RunTask \/ Return
  /\ UNCHANGED cncVars

MainStep ==
  \/ Post(Main) \/ Unlock(Main) \/ StopIo \/ JoinIo
  \/ DestroyUi \/ CloseQueue \/ Frame

CncNext ==
  \/ IoTurn \/ IoStep \/ Operate \/ Lock(Main) \/ MainStep
  \/ \E p \in Producers : WakesSpuriously(p) /\ UNCHANGED cncVars

CncSpec == CncInit /\ [][CncNext]_allVars

\* Both threads run; the IO thread leaves m_streamMutex free while it reads
\* the port, so the main thread gets it in the end.
CncFairSpec ==
  /\ CncSpec
  /\ WF_allVars(IoStep) /\ WF_allVars(MainStep) /\ SF_allVars(Lock(Main))
-----------------------------------------------------------------------------
\* The main thread comes back to its frames, whatever operation it is in,
\* until the application ends.
MainReturns == []<>((mainPc = "frame" /\ script[Main] = <<>>) \/ mainPc = "off")

\* While neither thread has to wait for room in the queue, the main thread
\* comes back: waiting on the full queue is the only way to hang.
MainReturnsWithRoom ==
  [](\A p \in Producers : call[p] # "asleep") => MainReturns

\* A thread blocked on the full queue is woken by the next processAll, or by
\* the shutdown: no notification is lost as long as the main thread comes back
\* to its frames.
PosterWakes ==
  MainReturns => \A p \in Producers : call[p] = "asleep" ~> call[p] # "asleep"
=============================================================================
