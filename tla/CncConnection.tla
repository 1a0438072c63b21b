--------------------------- MODULE CncConnection ---------------------------
(***************************************************************************)
(* The life of CncController's connection: the IO thread that looks for a  *)
(* controller on the port, announces it, turns and watches for silence, or *)
(* plays the machine itself (the simulator); the main thread that connects, *)
(* disconnects and joins it; and the notices (onConnectionChanged) through *)
(* which the panels and the menu bar learn of it.                          *)
(*                                                                         *)
(* A connection, to a port or to the simulator, is a link; links are       *)
(* numbered.  A request, and the job being streamed, carry the number of   *)
(* the link they were meant for, which the code does not have: properties  *)
(* compare it with the current one.  What a stream does with its lines is  *)
(* CncStream; of the callbacks only onConnectionChanged is here, the locks *)
(* and the bound of the queue are in CncCallbacks.                         *)
(***************************************************************************)
EXTENDS Integers, Sequences

CONSTANTS
  MaxTimeouts,   \* MAX_CONSECUTIVE_TIMEOUTS
  MaxOps         \* bound: what the user does

ASSUME ConnectionAssumption == MaxTimeouts \in Nat \ {0} /\ MaxOps \in Nat

VARIABLES
  \* members of the controller
  running, connected, simulating, statusPending, timeouts,
  job,        \* m_streaming: the link a job streams on, or 0
  pending,    \* m_pendingRtCommands and m_pendingStringCmds
  \* threads
  io,         \* where the IO thread is
  main, goal, \* where the main thread is in an operation, and what it is for
  \* the application
  queue,      \* the notices in the main thread's queue
  shown,      \* what panels and menu bar were told last
  wasReal,    \* m_wasRealConnection
  \* the port and the machine (external)
  port, alive,
  link, ops   \* history: links so far, what the user did so far

controller == <<running, connected, simulating, statusPending, timeouts>>
requests   == <<job, pending>>
mainThread == <<main, goal, wasReal, ops>>
external   == <<port, alive>>
vars == <<controller, requests, io, mainThread, queue, shown, external, link>>

RtKinds == {"reset", "hold"}
Kinds == RtKinds \cup {"text"}
Turning == {"loop", "read", "poll"}
SimTurning == {"simLoop", "simStream"}
Over == {"none", "ended"}
IoPcs == Turning \cup SimTurning \cup Over
           \cup {"probe", "simStart", "announce", "lost"}
Notices == {"up", "down"}

\* The requests of kinds ks, made now.
Asked(ks) == [kind : ks, link : {link}]

\* Application::initialize ends with connectSimulator.
Init ==
  /\ running = TRUE /\ connected = FALSE /\ simulating = TRUE
  /\ statusPending = FALSE /\ timeouts = 0
  /\ job = 0 /\ pending = {}
  /\ io = "simStart" /\ main = "idle" /\ goal = "simulator"
  /\ queue = <<>> /\ shown = [connected |-> FALSE, simulating |-> FALSE]
  /\ wasReal = FALSE
  /\ port = "none" /\ alive = FALSE
  /\ link = 1 /\ ops = 0

Post(notice) == queue' = Append(queue, notice)
-----------------------------------------------------------------------------
(* The IO thread of a port: ioThreadFunc.  Only its loop looks at running.  *)

\* A banner, or the answer to "?".
ProbeFinds ==
  /\ io = "probe" /\ port = "up" /\ alive
  /\ connected' = TRUE
  /\ io' = "announce"
  /\ UNCHANGED <<running, simulating, statusPending, timeouts, requests,
                 mainThread, queue, shown, external, link>>

\* Seven seconds without either.
ProbeFails ==
  /\ io = "probe"
  /\ running' = FALSE
  /\ Post("down")
  /\ io' = "ended"
  /\ UNCHANGED <<connected, simulating, statusPending, timeouts, requests,
                 mainThread, shown, external, link>>

Announce ==
  /\ io = "announce"
  /\ Post("up")
  /\ io' = IF simulating THEN "simLoop" ELSE "loop"
  /\ UNCHANGED <<controller, requests, mainThread, shown, external, link>>

ResetAsked == \E r \in pending : r.kind = "reset"

\* dispatchPendingCommands: a reset goes out alone, the text commands wait.
Dispatch ==
  /\ io = "loop" /\ running
  /\ pending' = IF ResetAsked THEN {r \in pending : r.kind = "text"} ELSE {}
  /\ io' = "read"
  /\ UNCHANGED <<controller, job, mainThread, queue, shown, external, link>>

\* processResponse, a status report.
ReadStatus ==
  /\ io = "read" /\ port = "up" /\ alive
  /\ statusPending' = FALSE /\ timeouts' = 0
  /\ io' = "poll"
  /\ UNCHANGED <<running, connected, simulating, requests, mainThread, queue,
                 shown, external, link>>

\* processResponse, any other line: it may end the job (the last answer, an
\* alarm, an error, which asks for a reset).
ReadLine ==
  /\ io = "read" /\ port = "up" /\ alive
  /\ timeouts' = 0
  /\ \/ UNCHANGED requests
     \/ job # 0 /\ job' = 0 /\ pending' \in {pending, pending \cup Asked({"reset"})}
  /\ io' = "poll"
  /\ UNCHANGED <<running, connected, simulating, statusPending, mainThread,
                 queue, shown, external, link>>

\* readLine times out: the watchdog counts the silence after a query ...
StillPatient == statusPending => timeouts + 1 < MaxTimeouts
CountSilenceAnew == timeouts' = IF statusPending THEN 1 ELSE 0
CountSilence == timeouts' = timeouts + (IF statusPending THEN 1 ELSE 0)
ReadNothing ==
  /\ io = "read" /\ port = "up" /\ StillPatient
  /\ CountSilence
  /\ io' = "poll"
  /\ UNCHANGED <<running, connected, simulating, statusPending, requests,
                 mainThread, queue, shown, external, link>>

\* ... and gives up in the end, as the thread does when the port reports an
\* error: the atomics of handleDisconnect, and then its notice.
GiveUp ==
  /\ io = "read"
  /\ \/ port = "gone" /\ UNCHANGED timeouts
     \/ port = "up" /\ ~StillPatient /\ CountSilence
  /\ connected' = FALSE /\ job' = 0
  /\ io' = "lost"
  /\ UNCHANGED <<running, simulating, statusPending, pending, mainThread,
                 queue, shown, external, link>>

ReportLossSilently ==
  /\ io = "lost"
  /\ io' = "ended"
  /\ UNCHANGED <<controller, requests, mainThread, queue, shown, external, link>>
ReportLoss ==
  /\ io = "lost"
  /\ Post("down")
  /\ io' = "ended"
  /\ UNCHANGED <<controller, requests, mainThread, shown, external, link>>

\* The poll interval has elapsed: requestStatus.  (Sending is CncStream.)
Query ==
  /\ io = "poll"
  /\ statusPending' = TRUE
  /\ io' = "loop"
  /\ UNCHANGED <<running, connected, simulating, timeouts, requests,
                 mainThread, queue, shown, external, link>>
NoQuery ==
  /\ io = "poll"
  /\ io' = "loop"
  /\ UNCHANGED <<controller, requests, mainThread, queue, shown, external, link>>

\* The loop of either thread function ends.
Leave ==
  /\ io \in {"loop", "simLoop"} /\ ~running
  /\ connected' = FALSE
  /\ io' = "ended"
  /\ UNCHANGED <<running, simulating, statusPending, timeouts, requests,
                 mainThread, queue, shown, external, link>>

-----------------------------------------------------------------------------
(* The IO thread of the simulator: simIoThreadFunc.                         *)

SimStart ==
  /\ io = "simStart"
  /\ connected' = TRUE
  /\ io' = "announce"
  /\ UNCHANGED <<running, simulating, statusPending, timeouts, requests,
                 mainThread, queue, shown, external, link>>

\* All requests are taken; a reset ends the job.
SimDispatch ==
  /\ io = "simLoop" /\ running
  /\ pending' = {}
  /\ job' = IF ResetAsked THEN 0 ELSE job
  /\ io' = "simStream"
  /\ UNCHANGED <<controller, mainThread, queue, shown, external, link>>

\* The next line of the job, perhaps its last.
SimStream ==
  /\ io = "simStream"
  /\ job' \in {job, 0}
  /\ io' = "simLoop"
  /\ UNCHANGED <<controller, pending, mainThread, queue, shown, external, link>>
-----------------------------------------------------------------------------
(* The main thread: disconnect(), with what connect and connectSimulator do *)
(* after it.  (The menu's handlers disconnect twice; the second time finds  *)
(* everything done.)                                                        *)

Operate == main = "idle" /\ ops < MaxOps /\ ops' = ops + 1

\* What every button of the menu bar and of the G-code panel leaves alone.
Elsewhere == UNCHANGED <<controller, io, queue, shown, external, link>>

\* Where the user finds the button, what it is for, and m_wasRealConnection.
Button(offered, for, real) ==
  /\ Operate /\ offered
  /\ main' = "stop" /\ goal' = for /\ wasReal' = real
  /\ UNCHANGED requests /\ Elsewhere

MenuConnect == Button(shown.simulating, "port", TRUE)
MenuDisconnect == Button(shown.connected /\ ~shown.simulating, "simulator", FALSE)
PanelConnect == Button(~shown.connected, "port", wasReal)
PanelDisconnect == Button(shown.connected, "closed", wasReal)

Stop ==
  /\ main = "stop"
  /\ running' = FALSE /\ job' = 0
  /\ main' = "join"
  /\ UNCHANGED <<connected, simulating, statusPending, timeouts, pending, io,
                 goal, wasReal, ops, queue, shown, external, link>>

IoIsOver == io \in Over
ForgetRealTime == pending' = {r \in pending : r.kind = "text"}
ForgetRequests == pending' = {}
Join ==
  /\ main = "join" /\ IoIsOver
  /\ ForgetRequests
  /\ timeouts' = 0 /\ statusPending' = FALSE
  /\ connected' = FALSE /\ simulating' = FALSE
  /\ port' = "none"
  /\ IF connected /\ (simulating \/ port # "none") THEN Post("down") ELSE UNCHANGED queue
  /\ io' = "none"
  /\ main' = IF goal = "closed" THEN "idle" ELSE "begin"
  /\ UNCHANGED <<running, job, goal, wasReal, ops, shown, alive, link>>

\* What connect, connectTcp and connectSimulator do to start the thread.
Launch(pc) ==
  /\ running' = TRUE /\ connected' = FALSE
  /\ pending' = {r \in pending : r.kind \notin RtKinds}
  /\ link' = link + 1
  /\ io' = pc /\ main' = "idle"
  /\ UNCHANGED <<job, goal, wasReal, ops, queue, shown>>

Open ==
  /\ main = "begin" /\ goal = "port"
  /\ Launch("probe")
  /\ timeouts' = 0 /\ statusPending' = FALSE
  /\ port' = "up" /\ alive' \in BOOLEAN
  /\ UNCHANGED simulating

OpenFails ==
  /\ main = "begin" /\ goal = "port"
  /\ main' = "idle"
  /\ UNCHANGED <<controller, requests, io, goal, wasReal, ops, queue, shown,
                 external, link>>

Simulate ==
  /\ main = "begin" /\ goal = "simulator"
  /\ Launch("simStart")
  /\ simulating' = TRUE
  /\ UNCHANGED <<statusPending, timeouts, external>>
-----------------------------------------------------------------------------
(* The main thread: the notices, each in a task of the queue.               *)

Hear(notice) ==
  /\ main = "idle" /\ queue # <<>> /\ Head(queue) = notice
  /\ queue' = Tail(queue)
  /\ shown' = [connected |-> notice = "up", simulating |-> simulating]
  /\ UNCHANGED <<controller, job, io, ops, external, link>>

\* The settings and offset panels ask the machine for theirs.
HearUp ==
  /\ Hear("up")
  /\ pending' = pending \cup Asked({"text"})
  /\ UNCHANGED <<main, goal, wasReal>>

\* After a connection of the menu's the simulator takes over.
HearDown ==
  /\ Hear("down")
  /\ wasReal' = FALSE
  /\ IF wasReal THEN main' = "stop" /\ goal' = "simulator" ELSE UNCHANGED <<main, goal>>
  /\ UNCHANGED pending
-----------------------------------------------------------------------------
(* The main thread: jobs and requests.                                      *)

\* startStream: the checks, and the section under m_streamMutex.
StartCheck ==
  /\ Operate /\ shown.connected
  /\ connected /\ job = 0
  /\ main' = "commit"
  /\ UNCHANGED <<goal, wasReal, requests>> /\ Elsewhere

StartCommit ==
  /\ main = "commit"
  /\ job' = link
  /\ main' = "idle"
  /\ UNCHANGED <<pending, goal, wasReal, ops>> /\ Elsewhere

Ask(ks) ==
  /\ Operate
  /\ pending' = pending \cup Asked(ks)
  /\ UNCHANGED <<main, goal, wasReal>> /\ Elsewhere

SoftReset == Ask({"reset"}) /\ job' = 0
\* feedHold, and stopStream, which ends in one.
Hold == Ask({"hold"}) /\ job' \in {job, 0}
SendCommand == shown.connected /\ Ask({"text"}) /\ UNCHANGED job
-----------------------------------------------------------------------------
(* The port and the machine (external).                                     *)

Environment == UNCHANGED <<controller, requests, io, mainThread, queue, shown, link>>

MachineChanges == port = "up" /\ alive' = ~alive /\ UNCHANGED port /\ Environment
PortGoes == port = "up" /\ port' = "gone" /\ UNCHANGED alive /\ Environment
-----------------------------------------------------------------------------
PortNext ==
  \/ ProbeFinds \/ ProbeFails \/ Announce \/ Dispatch
  \/ ReadStatus \/ ReadLine \/ ReadNothing \/ GiveUp \/ ReportLoss
  \/ Query \/ NoQuery \/ Leave
IoNext == PortNext \/ SimStart \/ SimDispatch \/ SimStream
Connecting ==
  \/ MenuConnect \/ MenuDisconnect \/ PanelConnect \/ PanelDisconnect
Working == StartCheck \/ SoftReset \/ Hold \/ SendCommand
MainFinish ==
  \/ Stop \/ Join \/ Open \/ OpenFails \/ Simulate \/ StartCommit
  \/ HearUp \/ HearDown
Next ==
  IoNext \/ Connecting \/ Working \/ MainFinish \/ MachineChanges \/ PortGoes

Spec == Init /\ [][Next]_vars

\* Both threads run, and the poll interval elapses again and again.
FairSpec ==
  Spec /\ WF_vars(IoNext) /\ WF_vars(MainFinish) /\ SF_vars(Query)
-----------------------------------------------------------------------------
FlagsTyped ==
  /\ running \in BOOLEAN /\ connected \in BOOLEAN /\ simulating \in BOOLEAN
  /\ statusPending \in BOOLEAN /\ wasReal \in BOOLEAN /\ alive \in BOOLEAN

StateTyped ==
  /\ timeouts \in 0 .. MaxTimeouts /\ link \in Nat \ {0} /\ job \in 0 .. link
  /\ pending \subseteq [kind : Kinds, link : 1 .. link]
  /\ io \in IoPcs /\ main \in {"idle", "stop", "join", "begin", "commit"}
  /\ goal \in {"closed", "port", "simulator"}
  /\ queue \in Seq(Notices) /\ shown \in [connected : BOOLEAN, simulating : BOOLEAN]
  /\ port \in {"none", "up", "gone"} /\ ops \in 0 .. MaxOps

\* The type invariant: the counters stay within their bounds and no request or
\* job names a link that has not been made.
TypeOK == FlagsTyped /\ StateTyped

\* What was asked of one machine never reaches the next: every request still
\* pending, and the job that streams, belong to the current link.  Requests
\* are made before, during and after the loss of a link; disconnect, which
\* every connect begins with, drops them only after it has joined the thread
\* that may still make one.
RequestsStayHome ==
  /\ \A r \in pending : r.link = link
  /\ job \in {0, link}

\* Once its notices are delivered the application knows the truth: while the
\* loop of either thread turns, panels and menu say connected, and to what;
\* when a thread has ended of its own accord they do not say connected.
\* Notices of earlier links may be heard long after later links began.
ViewFollows ==
  main = "idle" /\ queue = <<>> =>
    /\ io \in Turning \cup SimTurning =>
         shown = [connected |-> TRUE, simulating |-> simulating]
    /\ io = "ended" => ~shown.connected

\* A machine that has fallen silent is noticed, and the application told,
\* unless the machine speaks again or the user disconnects first.
SilenceIsShown ==
  io \in Turning /\ ~alive ~> alive \/ io = "none" \/ ~shown.connected

\* The thread never uses a port that has been closed under it.
PortOutlivesIo ==
  io \in Turning \cup {"probe", "lost"} => port # "none"

\* When disconnect has joined the thread m_connected is false already, so that
\* it never posts a notice of its own: panels are not told of a disconnection
\* that the user asked them for.
DisconnectTellsNobody == main = "join" /\ IoIsOver => ~connected
=============================================================================
