----------------------------- MODULE CncStream -----------------------------
(***************************************************************************)
(* The character-counting G-code stream of CncController: the UI thread    *)
(* that calls startStream, stopStream, feedHold, cycleStart, softReset,    *)
(* the acknowledgements and sendCommand, the IO thread that runs           *)
(* ioThreadFunc, and the machine at the other end of the byte stream.      *)
(*                                                                         *)
(* The atomics of the controller are read and written one step at a time;  *)
(* m_streamMutex is held by the IO thread exactly when ioPc is "send" or   *)
(* "raise", and by the UI thread only inside single steps.  The machine is *)
(* external: a queue of lines in its receive buffer, answered in order,    *)
(* with the real-time bytes taking effect at once.                         *)
(***************************************************************************)
EXTENDS Integers, Sequences

CONSTANTS
  Programs,        \* programs an operator may stream, sequences of Line
  RxBufferSize,    \* cnc::RX_BUFFER_SIZE
  CommandSize,     \* bytes a string command such as "$X\n" takes
  MaxOps,          \* bound on starts, stops, holds, resets and commands
  WaitForQuiet,    \* the operator starts a job only when nothing is under way
  CommandsWhen,    \* string commands: "never", "betweenJobs" or "anytime"
  MayAlarm,        \* the machine may raise an alarm
  MayDrop          \* the port may go down

LineKinds == {"cut", "bad", "toolChange"}
Line == [kind : LineKinds, size : Nat]
Commands == {"unlock", "gcode"}
RtCommands == {"hold", "start", "reset"}
MachineStates == {"Idle", "Run", "Hold", "Alarm"}

ASSUME StreamAssumption ==
  /\ Programs \subseteq Seq(Line)
  /\ RxBufferSize \in Nat
  /\ CommandSize \in Nat
  /\ MaxOps \in Nat
  /\ CommandsWhen \in {"never", "betweenJobs", "anytime"}
  /\ {WaitForQuiet, MayAlarm, MayDrop} \subseteq BOOLEAN

VARIABLES
  \* atomics shared by the UI thread and the IO thread
  connected, streaming, held, errorState, toolChangePending, rtPending,
  \* m_pendingStringCmds, under its own mutex
  commands,
  \* state under m_streamMutex
  program, sendIndex, ackIndex, sentLengths, bufferUsed,
  \* where each thread is
  ioPc, uiPc, newProgram, lastStatus,
  \* the port and the machine (external)
  portUp, rx, replies, holding, alarmed,
  \* history: operator actions so far, streams started, lines of the current
  \* stream the machine executed, lines acknowledgeToolChange stepped over,
  \* last stream that ended in a streaming error, last stream soft-reset
  ops, run, executed, skipped, failedRun, resetRun

flags    == <<connected, streaming, held, errorState, toolChangePending>>
buffer   == <<sentLengths, bufferUsed>>
job      == <<program, sendIndex, ackIndex>>
machine  == <<rx, replies, holding, alarmed>>
ui       == <<uiPc, newProgram, ops>>
history  == <<run, executed, skipped, failedRun, resetRun>>
controller == <<flags, rtPending, commands, job, buffer, ioPc, ui, lastStatus>>
\* what the steps that only touch flags and requests leave alone
rest     == <<commands, job, buffer, lastStatus, portUp, machine, history>>
vars == <<controller, portUp, machine, history>>

IoPcs == {"dispatch", "commands", "read", "raise", "check", "send",
          "drop", "stopped"}
UiPcs == {"idle", "start", "hold", "held", "resume", "reset", "cleared",
          "tool"}

\* m_streamMutex is free unless the IO thread is inside a locked section.
StreamMutexFree == ioPc \notin {"raise", "send"}

-----------------------------------------------------------------------------
(* What travels on the port.  A line carries the stream it belongs to and  *)
(* its index, which the machine and the controller never see.              *)

\* The line and its newline.
LineEntry(i) == [run |-> run, idx |-> i, bytes |-> program[i + 1].size + 1,
                 kind |-> program[i + 1].kind]
CommandEntry(c) == [run |-> 0, idx |-> 0, bytes |-> CommandSize, kind |-> c]
Answer(type, e) == [type |-> type, run |-> e.run, idx |-> e.idx, bytes |-> e.bytes]
Status(s) == [type |-> s, run |-> 0, idx |-> 0, bytes |-> 0]
AlarmReport == [type |-> "alarm", run |-> 0, idx |-> 0, bytes |-> 0]
IsAnswer(r) == r.type \in {"ok", "error"}

Indices(p) == 0 .. Len(p) - 1

Init ==
  /\ connected = TRUE
  /\ streaming = FALSE /\ held = FALSE /\ errorState = FALSE
  /\ toolChangePending = FALSE
  /\ rtPending = {} /\ commands = <<>>
  /\ program = <<>> /\ sendIndex = 0 /\ ackIndex = 0
  /\ sentLengths = <<>> /\ bufferUsed = 0
  /\ ioPc = "dispatch" /\ uiPc = "idle" /\ newProgram = <<>>
  /\ lastStatus = "Idle"
  /\ portUp = TRUE
  /\ rx = <<>> /\ replies = <<>> /\ holding = FALSE /\ alarmed = FALSE
  /\ ops = 0 /\ run = 0
  /\ executed = {} /\ skipped = {} /\ failedRun = 0 /\ resetRun = 0

-----------------------------------------------------------------------------
(* The machine (external): answers lines in order, obeys real-time bytes.  *)

MachineState == IF alarmed THEN "Alarm"
                ELSE IF holding THEN "Hold"
                ELSE IF rx # <<>> THEN "Run"
                ELSE "Idle"

Accepts(e) == e.kind # "bad" /\ (alarmed => e.kind = "unlock")

MachineLine ==
  /\ rx # <<>> /\ ~holding
  /\ rx' = Tail(rx)
  /\ IF Accepts(Head(rx))
     THEN /\ replies' = Append(replies, Answer("ok", Head(rx)))
          /\ alarmed' = (alarmed /\ Head(rx).kind # "unlock")
          /\ executed' = IF Head(rx).run = run /\ run # 0
                         THEN executed \cup {Head(rx).idx} ELSE executed
     ELSE /\ replies' = Append(replies, Answer("error", Head(rx)))
          /\ UNCHANGED <<alarmed, executed>>
  /\ UNCHANGED <<controller, portUp, holding, run, skipped, failedRun, resetRun>>

\* A limit switch or a failed motion: the machine drops what it buffered.
MachineAlarm ==
  /\ MayAlarm /\ ~alarmed
  /\ alarmed' = TRUE
  /\ rx' = <<>> /\ holding' = FALSE
  /\ replies' = Append(replies, AlarmReport)
  /\ UNCHANGED <<controller, portUp, history>>

PortDown ==
  /\ MayDrop /\ portUp
  /\ portUp' = FALSE
  /\ UNCHANGED <<controller, machine, history>>

\* handleDisconnect, the streaming error, startStream and softReset all empty
\* the account.
ClearAccount == sentLengths' = <<>> /\ bufferUsed' = 0

-----------------------------------------------------------------------------
(* The IO thread: one turn of the loop of ioThreadFunc.                     *)

\* dispatchPendingCommands, real-time part: a reset goes out alone and ends
\* the dispatch, dropping what was requested with it; drain() then discards
\* the answers that have arrived.
IoDispatchReset ==
  /\ ioPc = "dispatch" /\ "reset" \in rtPending
  /\ rtPending' = {}
  /\ IF portUp
     THEN /\ rx' = <<>> /\ holding' = FALSE
          /\ alarmed' \in {alarmed, alarmed \/ rx # <<>>}
          /\ \E n \in 0 .. Len(replies) :
                replies' = SubSeq(replies, n + 1, Len(replies))
     ELSE UNCHANGED machine
  /\ resetRun' = run
  /\ ioPc' = "read"
  /\ UNCHANGED <<flags, commands, job, buffer, ui, lastStatus, portUp, run,
                 executed, skipped, failedRun>>

\* The bits say which requests were made, not in which order: the hold byte
\* always goes out before the start byte.  A machine that gets both at once
\* resumes, or (GRBL 1.1 while it decelerates) ignores the start.
HoldsAfter(bits) ==
  IF {"hold", "start"} \subseteq bits THEN BOOLEAN
  ELSE IF "hold" \in bits THEN {~alarmed}
  ELSE IF "start" \in bits THEN {FALSE}
  ELSE {holding}

IoDispatchRt ==
  /\ ioPc = "dispatch" /\ "reset" \notin rtPending
  /\ rtPending' = {}
  /\ IF portUp THEN holding' \in HoldsAfter(rtPending) ELSE UNCHANGED holding
  /\ ioPc' = "commands"
  /\ UNCHANGED <<flags, commands, job, buffer, ui, lastStatus, portUp, rx,
                 replies, alarmed, history>>

\* dispatchPendingCommands, string part.
IoDispatchCommands ==
  /\ ioPc = "commands"
  /\ commands' = <<>>
  /\ rx' = IF portUp THEN rx \o [i \in DOMAIN commands |-> CommandEntry(commands[i])]
                     ELSE rx
  /\ ioPc' = "read"
  /\ UNCHANGED <<flags, rtPending, job, buffer, ui, lastStatus, portUp,
                 replies, holding, alarmed, history>>

\* readLine gives up after its timeout.
IoReadNothing ==
  /\ ioPc = "read" /\ portUp /\ replies = <<>>
  /\ ioPc' = "check"
  /\ UNCHANGED <<flags, rtPending, ui, rest>>

\* The port reports Disconnected or Error: handleDisconnect, atomics first.
IoDrop ==
  /\ ioPc = "read" /\ ~portUp
  /\ connected' = FALSE /\ streaming' = FALSE /\ held' = FALSE
  /\ ioPc' = "drop"
  /\ UNCHANGED <<errorState, toolChangePending, rtPending, ui, rest>>

\* handleDisconnect, the section under m_streamMutex; the loop then ends.
IoDropClear ==
  /\ ioPc = "drop"
  /\ ClearAccount
  /\ ioPc' = "stopped"
  /\ UNCHANGED <<flags, rtPending, commands, job, ui, lastStatus, portUp,
                 machine, history>>

Receive(type) ==
  /\ ioPc = "read" /\ portUp
  /\ replies # <<>> /\ Head(replies).type = type
  /\ replies' = Tail(replies)

\* The oldest length in flight is given back to the buffer account.
PopLengthOnly ==
  /\ sentLengths' = IF sentLengths = <<>> THEN <<>> ELSE Tail(sentLengths)
  /\ UNCHANGED bufferUsed
PopSentLength ==
  IF sentLengths = <<>>
  THEN UNCHANGED buffer
  ELSE /\ bufferUsed' = bufferUsed - Head(sentLengths)
       /\ sentLengths' = Tail(sentLengths)

\* processResponse, "<...>".
IoReadStatus ==
  /\ \E s \in MachineStates : Receive(s) /\ lastStatus' = s
  /\ ioPc' = "check"
  /\ UNCHANGED <<flags, rtPending, commands, job, buffer, ui, portUp, rx,
                 holding, alarmed, history>>

\* processResponse, "ALARM:": streaming stops, the account is left alone.
IoReadAlarm ==
  /\ Receive("alarm")
  /\ streaming' = FALSE
  /\ ioPc' = "check"
  /\ UNCHANGED <<connected, held, errorState, toolChangePending, rtPending,
                 commands, job, buffer, ui, lastStatus, portUp, rx, holding,
                 alarmed, history>>

\* The answer being counted is the last one the program waits for.
AllSent == sendIndex >= Len(program)
PastTheEnd == ackIndex >= Len(program)
Complete == ackIndex + 1 >= Len(program)

\* processResponse, "ok", and "error:" while nothing streams.
IoReadAck ==
  /\ Receive("ok") \/ (Receive("error") /\ ~streaming)
  /\ PopSentLength
  /\ ackIndex' = ackIndex + 1
  /\ streaming' = (streaming /\ ~Complete)
  /\ ioPc' = "check"
  /\ UNCHANGED <<connected, held, errorState, toolChangePending, rtPending,
                 commands, program, sendIndex, ui, lastStatus, portUp, rx,
                 holding, alarmed, history>>

\* processResponse, "error:" while streaming: reset requested, stream ended,
\* account cleared, all under m_streamMutex, before m_errorState is raised.
IoReadStreamError ==
  /\ Receive("error") /\ streaming
  /\ rtPending' = rtPending \cup {"reset"}
  /\ streaming' = FALSE /\ held' = FALSE
  /\ ClearAccount
  /\ failedRun' = run
  /\ ioPc' = "raise"
  /\ UNCHANGED <<connected, errorState, toolChangePending, commands, job, ui,
                 lastStatus, portUp, rx, holding, alarmed, run, executed,
                 skipped, resetRun>>

IoRaiseError ==
  /\ ioPc = "raise"
  /\ errorState' = TRUE
  /\ ioPc' = "check"
  /\ UNCHANGED <<connected, streaming, held, toolChangePending, rtPending, ui,
                 rest>>

MaySendUnlessHeld == ~held
MaySend == streaming /\ ~held

\* The status query goes out when its interval has elapsed (bound: one answer
\* in flight); then the loop reads m_streaming and m_held outside the mutex.
IoPollAndCheck ==
  /\ ioPc = "check"
  /\ \/ UNCHANGED replies
     \/ /\ portUp /\ \A i \in DOMAIN replies : replies[i].type \notin MachineStates
        /\ replies' = Append(replies, Status(MachineState))
  /\ ioPc' = IF MaySend THEN "send" ELSE "dispatch"
  /\ UNCHANGED <<flags, rtPending, commands, job, buffer, ui, lastStatus,
                 portUp, rx, holding, alarmed, history>>

-----------------------------------------------------------------------------
(* sendNextLines, one line a step, m_streamMutex held from "check" on.      *)

NextLine == program[sendIndex + 1]

LineBytesBare(l) == l.size
LineBytes(l) == l.size + 1

Advance(i) == i + 1

CanSendToolChange ==
  /\ sendIndex < Len(program)
  /\ bufferUsed + LineBytes(NextLine) <= RxBufferSize
  /\ portUp
CanSend ==
  /\ ~toolChangePending
  /\ sendIndex < Len(program)
  /\ NextLine.kind # "toolChange"
  /\ bufferUsed + LineBytes(NextLine) <= RxBufferSize
  /\ portUp

IoSendLine ==
  /\ ioPc = "send" /\ CanSend
  /\ rx' = Append(rx, LineEntry(sendIndex))
  /\ sentLengths' = Append(sentLengths, LineBytes(NextLine))
  /\ bufferUsed' = bufferUsed + LineBytes(NextLine)
  /\ sendIndex' = Advance(sendIndex)
  /\ UNCHANGED <<flags, rtPending, commands, program, ackIndex, ioPc, ui,
                 lastStatus, portUp, replies, holding, alarmed, history>>

\* Buffer full, program exhausted, tool change met or write failed.
IoSendDone ==
  /\ ioPc = "send" /\ ~CanSend
  /\ toolChangePending' =
       (toolChangePending \/ (sendIndex < Len(program) /\ NextLine.kind = "toolChange"))
  /\ ioPc' = "dispatch"
  /\ UNCHANGED <<connected, streaming, held, errorState, rtPending, ui, rest>>
-----------------------------------------------------------------------------
(* The UI thread.  An operation that touches several shared cells takes    *)
(* several steps; no other operation starts before it is over.             *)

Operate == uiPc = "idle" /\ ops < MaxOps /\ ops' = ops + 1

Quiet == /\ rx = <<>> /\ replies = <<>> /\ commands = <<>> /\ rtPending = {}
         /\ ~holding /\ ~alarmed

\* The panel enables Start on the last status report it was given.
StartEnabled == lastStatus = "Idle" /\ (WaitForQuiet => Quiet)

StartAllowed(p) == connected /\ p # <<>> /\ ~streaming /\ ~errorState

\* startStream: the checks, made before the mutex is taken.
UiStartCheck(p) ==
  /\ Operate /\ StartEnabled
  /\ StartAllowed(p)
  /\ uiPc' = "start" /\ newProgram' = p
  /\ UNCHANGED <<flags, rtPending, ioPc, rest>>

\* startStream: the section under m_streamMutex.
UiStartCommit ==
  /\ uiPc = "start" /\ StreamMutexFree
  /\ program' = newProgram /\ sendIndex' = 0 /\ ackIndex' = 0
  /\ ClearAccount
  /\ held' = FALSE /\ toolChangePending' = FALSE /\ streaming' = TRUE
  /\ run' = run + 1 /\ executed' = {} /\ skipped' = {}
  /\ uiPc' = "idle" /\ newProgram' = <<>>
  /\ UNCHANGED <<connected, errorState, rtPending, commands, ioPc, ops,
                 lastStatus, portUp, machine, failedRun, resetRun>>

\* stopStream: m_streaming first, then feedHold.
UiStop ==
  /\ Operate
  /\ streaming' = FALSE
  /\ uiPc' = "hold"
  /\ UNCHANGED <<connected, held, errorState, toolChangePending, rtPending,
                 ioPc, newProgram, rest>>

\* feedHold: the request bit, then m_held.
UiHold ==
  /\ Operate \/ (uiPc = "hold" /\ UNCHANGED ops)
  /\ rtPending' = rtPending \cup {"hold"}
  /\ uiPc' = "held"
  /\ UNCHANGED <<flags, ioPc, newProgram, rest>>

UiHeld ==
  /\ uiPc = "held"
  /\ held' = TRUE
  /\ uiPc' = "idle"
  /\ UNCHANGED <<connected, streaming, errorState, toolChangePending,
                 rtPending, ioPc, newProgram, ops, rest>>

\* cycleStart: the request bit, then m_held.
UiCycleStart ==
  /\ uiPc = "idle"
  /\ rtPending' = rtPending \cup {"start"}
  /\ uiPc' = "resume"
  /\ UNCHANGED <<flags, ioPc, newProgram, ops, rest>>

UiResumed ==
  /\ uiPc = "resume"
  /\ held' = FALSE
  /\ uiPc' = "idle"
  /\ UNCHANGED <<connected, streaming, errorState, toolChangePending,
                 rtPending, ioPc, newProgram, ops, rest>>

\* softReset: the request bit, then the flags, then the account.
UiReset ==
  /\ Operate
  /\ rtPending' = rtPending \cup {"reset"}
  /\ uiPc' = "reset"
  /\ UNCHANGED <<flags, ioPc, newProgram, rest>>

UiResetFlags ==
  /\ uiPc = "reset"
  /\ streaming' = FALSE /\ held' = FALSE /\ errorState' = FALSE
  /\ uiPc' = "cleared"
  /\ UNCHANGED <<connected, toolChangePending, rtPending, ioPc, newProgram,
                 ops, rest>>

UiResetClear ==
  /\ uiPc = "cleared" /\ StreamMutexFree
  /\ ClearAccount
  /\ uiPc' = "idle"
  /\ UNCHANGED <<flags, rtPending, commands, job, ioPc, newProgram, ops,
                 lastStatus, portUp, machine, history>>

UiAcknowledgeError ==
  /\ uiPc = "idle" /\ errorState
  /\ errorState' = FALSE
  /\ UNCHANGED <<connected, streaming, held, toolChangePending, rtPending,
                 ioPc, ui, rest>>

\* acknowledgeToolChange: the flag is cleared before the mutex is taken.
UiAcknowledgeTool ==
  /\ uiPc = "idle" /\ toolChangePending
  /\ toolChangePending' = FALSE
  /\ uiPc' = "tool"
  /\ UNCHANGED <<connected, streaming, held, errorState, rtPending, ioPc,
                 newProgram, ops, rest>>

UiSkipTool ==
  /\ uiPc = "tool" /\ StreamMutexFree
  /\ IF sendIndex < Len(program)
     THEN sendIndex' = Advance(sendIndex) /\ skipped' = skipped \cup {sendIndex}
     ELSE UNCHANGED <<sendIndex, skipped>>
  /\ uiPc' = "idle"
  /\ UNCHANGED <<flags, rtPending, commands, program, ackIndex, buffer, ioPc,
                 newProgram, ops, lastStatus, portUp, machine, run, executed,
                 failedRun, resetRun>>

\* unlock (offered on an Alarm status) and sendCommand.
UiCommand(c) ==
  /\ Operate
  /\ c = "unlock" => lastStatus = "Alarm"
  /\ CommandsWhen = "anytime" \/ (CommandsWhen = "betweenJobs" /\ ~streaming)
  /\ commands' = Append(commands, c)
  /\ UNCHANGED <<flags, rtPending, job, buffer, ioPc, uiPc, newProgram,
                 lastStatus, portUp, machine, history>>

-----------------------------------------------------------------------------
IoDispatch == IoDispatchReset \/ IoDispatchRt \/ IoDispatchCommands
IoRead ==
  \/ IoReadNothing \/ IoReadStatus \/ IoReadAlarm \/ IoReadAck
  \/ IoReadStreamError \/ IoRaiseError \/ IoDrop \/ IoDropClear
IoNext == IoDispatch \/ IoRead \/ IoPollAndCheck \/ IoSendLine \/ IoSendDone

\* The steps that finish an operation the UI thread has begun.
UiFinish ==
  \/ UiStartCommit \/ (uiPc = "hold" /\ UiHold) \/ UiHeld \/ UiResumed
  \/ UiResetFlags \/ UiResetClear \/ UiSkipTool

UiNext ==
  \/ \E p \in Programs : UiStartCheck(p)
  \/ \E c \in Commands : UiCommand(c)
  \/ UiStop \/ UiHold \/ UiCycleStart \/ UiReset
  \/ UiAcknowledgeError \/ UiAcknowledgeTool
  \/ UiFinish

MachineNext == MachineLine \/ MachineAlarm \/ PortDown

Next == IoNext \/ UiNext \/ MachineNext

Spec == Init /\ [][Next]_vars

\* The IO thread keeps turning and its poll interval keeps elapsing, the
\* machine works through its buffer, an operation begun is carried through,
\* and an operator who sees a job on hold resumes it and acknowledges a tool
\* change.
Fairness ==
  /\ WF_vars(IoNext)
  /\ SF_vars(IoPollAndCheck /\ replies' # replies)
  /\ WF_vars(MachineLine)
  /\ WF_vars(UiFinish)
  /\ WF_vars((held \/ lastStatus = "Hold") /\ UiCycleStart)
  /\ WF_vars(UiAcknowledgeTool)

FairSpec == Spec /\ Fairness
-----------------------------------------------------------------------------
(* What is claimed of every stream.                                         *)

Entries == [run : Nat, idx : Nat, bytes : Nat, kind : LineKinds \cup Commands]
Replies == [type : {"ok", "error", "alarm"} \cup MachineStates,
            run : Nat, idx : Nat, bytes : Nat]

FlagsTyped ==
  /\ connected \in BOOLEAN /\ streaming \in BOOLEAN /\ held \in BOOLEAN
  /\ errorState \in BOOLEAN /\ toolChangePending \in BOOLEAN
  /\ rtPending \subseteq RtCommands
  /\ ioPc \in IoPcs /\ uiPc \in UiPcs /\ lastStatus \in MachineStates
  /\ portUp \in BOOLEAN /\ holding \in BOOLEAN /\ alarmed \in BOOLEAN

JobTyped ==
  /\ program \in Programs \cup {<<>>} /\ newProgram \in Programs \cup {<<>>}
  /\ sendIndex \in 0 .. Len(program) /\ ackIndex \in Nat
  /\ bufferUsed \in 0 .. RxBufferSize

QueuesTyped ==
  /\ commands \in Seq(Commands) /\ sentLengths \in Seq(Nat)
  /\ rx \in Seq(Entries) /\ replies \in Seq(Replies)

HistoryTyped ==
  /\ ops \in 0 .. MaxOps /\ run \in Nat
  /\ executed \subseteq Nat /\ skipped \subseteq Nat
  /\ failedRun \in 0 .. run /\ resetRun \in 0 .. run

\* The type invariant: every variable keeps its kind of value, and m_sendIndex
\* never runs past the end of m_program.
TypeOK == FlagsTyped /\ JobTyped /\ QueuesTyped /\ HistoryTyped

\* t[i] is what remains of m_bufferUsed once the i oldest lines are answered.
IsAccount(t) ==
  /\ t[0] = bufferUsed
  /\ t[Len(sentLengths)] = 0
  /\ \A i \in 1 .. Len(sentLengths) : t[i - 1] = t[i] + sentLengths[i]
  /\ \A i, j \in 0 .. Len(sentLengths) : i <= j => t[j] <= t[i]

\* Whatever the operator does and in whatever order resets, errors, lost ports
\* and answers come, m_bufferUsed is exactly the sum of m_sentLengths and
\* stays between 0 and RX_BUFFER_SIZE: every path that clears or pops one
\* treats the other alike.
AccountExact ==
  \E t \in [0 .. Len(sentLengths) -> 0 .. RxBufferSize] : IsAccount(t)

\* Lines of one stream stand in the receive buffer in program order, none of
\* them twice: sendNextLines never goes back, whatever interrupts it.
RxInOrder ==
  \A i, j \in DOMAIN rx :
    i < j /\ rx[i].run = rx[j].run /\ rx[i].run # 0 => rx[i].idx < rx[j].idx

\* A line behind an M6 reaches the machine only after an acknowledgement
\* stepped over that M6: acknowledgeToolChange clears the flag before it takes
\* the mutex, and sendNextLines may run in between.
ToolChangeHeldBack ==
  \A i \in 0 .. sendIndex - 1 :
    program[i + 1].kind = "toolChange" => i \in skipped

\* After the streaming error of a stream no further line of it is sent.
NoLineAfterError ==
  [][Len(rx') > Len(rx) /\ rx'[Len(rx')].run # 0
       => rx'[Len(rx')].run # failedRun]_vars

\* m_errorState and m_streaming exclude each other: so it is for an operator who
\* starts a job only when nothing is under way.  A job started while the last
\* one fails passes both checks before the error is noted.
ErrorStopsJob == errorState => ~streaming

Bytes(s) ==
  LET total[n \in 0 .. Len(s)] == IF n = 0 THEN 0 ELSE total[n - 1] + s[n].bytes
  IN  total[Len(s)]

\* The answers the controller has not read, and how many of the lengths it
\* books belong to lines that have left the receive buffer.
Answers == {i \in DOMAIN replies : IsAnswer(replies[i])}
Answered == Len(sentLengths) - Len(rx)

\* The last lengths are those of the lines in the receive buffer, in order; m
\* gives each answer, in order, one of the lengths before them.
TailMatches == \A i \in DOMAIN rx : sentLengths[Answered + i] = rx[i].bytes
InOrderOf(m) == \A i, j \in Answers : i < j => m[i] < m[j]

\* None of those lengths is left over, and each is that of the line answered.
Complementary(m) ==
  /\ {m[i] : i \in Answers} = 1 .. Answered
  /\ \A i \in Answers : sentLengths[m[i]] = replies[i].bytes

LengthsMatch ==
  /\ Len(rx) <= Len(sentLengths) /\ TailMatches
  /\ \E m \in [Answers -> 1 .. Answered] : InOrderOf(m) /\ Complementary(m)

\* The machine's receive buffer never holds more than RX_BUFFER_SIZE bytes
\* while a job streams (README: RX buffer accounting, 128-byte buffer), because
\* m_sentLengths lists exactly the lines in flight, in order: each answer read
\* is the answer to the line popped for it.
RxWithinBuffer ==
  streaming => /\ Bytes(rx) <= RxBufferSize
               /\ uiPc # "reset" /\ ~alarmed => LengthsMatch

\* When processResponse counts the last line in and ends the stream, the
\* machine has accepted every line of it.
CompletionIsTruthful ==
  [][streaming /\ ~streaming' /\ ioPc = "read" /\ replies # <<>>
       /\ Head(replies).type = "ok" /\ replies' = Tail(replies)
       => Indices(program) \subseteq executed]_vars

\* A soft reset is the last thing an aborted stream sends.
NothingAfterReset ==
  \A i \in DOMAIN rx : rx[i].run # 0 => rx[i].run # resetRun

\* Every line of the program goes to the machine except the tool changes.
OnlyToolChangesSkipped ==
  \A i \in skipped : program[i + 1].kind = "toolChange"

HasToolChange(p) == \E i \in DOMAIN p : p[i].kind = "toolChange"

\* A job without tool changes comes to an end: it completes, fails or is
\* stopped.  (One with a tool change does not complete: no answer ever comes
\* for the M6, so m_ackIndex stays one short of the program's length.)
StreamEnds == (streaming /\ ~HasToolChange(program)) ~> ~streaming
=============================================================================
