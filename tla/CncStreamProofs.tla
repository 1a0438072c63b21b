-------------------------- MODULE CncStreamProofs --------------------------
(***************************************************************************)
(* What holds of CncStream for every set of programs, every buffer size    *)
(* and any number of operations.  The first half assumes nothing of the    *)
(* operator; the second, from QuietOperator on, is about one who starts a  *)
(* job only when nothing is under way and sends no string commands into    *)
(* it: then the length booked for a line is popped by its own answer.      *)
(***************************************************************************)
EXTENDS CncStream, SequenceTheorems, FiniteSetTheorems, WellFoundedInduction, TLAPS

-----------------------------------------------------------------------------
(* The buffer account.                                                      *)

\* Emptying m_sentLengths and zeroing m_bufferUsed leaves an exact account.
LEMMA ClearExact ==
  ASSUME ClearAccount PROVE AccountExact'
<1> PICK t : t = [i \in {0} |-> 0]
  OBVIOUS
<1>1. sentLengths' = <<>> /\ bufferUsed' = 0
  BY DEF ClearAccount
<1>2. t \in [0 .. Len(<<>>) -> 0 .. RxBufferSize]
  <2>1. Len(<<>>) = 0 /\ 0 .. 0 = {0}
    OBVIOUS
  <2> QED BY <2>1, StreamAssumption DEF StreamAssumption
<1>3. IsAccount(t)'
  BY <1>1 DEF IsAccount
<1> QED
  BY <1>1, <1>2, <1>3 DEF AccountExact

\* Giving the oldest length back leaves an exact account.
LEMMA PopExact ==
  ASSUME sentLengths \in Seq(Nat), AccountExact, PopSentLength
  PROVE  AccountExact'
<1>1. PICK t \in [0 .. Len(sentLengths) -> 0 .. RxBufferSize] : IsAccount(t)
  BY DEF AccountExact
<1>2. CASE sentLengths = <<>>
  <2>1. sentLengths' = sentLengths /\ bufferUsed' = bufferUsed
    BY <1>2 DEF PopSentLength, buffer
  <2> QED BY <1>1, <2>1 DEF AccountExact, IsAccount
<1>3. CASE sentLengths # <<>>
  <2> DEFINE n == Len(sentLengths)
  <2> PICK u : u = [i \in 0 .. n - 1 |-> t[i + 1]]
    OBVIOUS
  <2>1. /\ n \in Nat \ {0}
        /\ sentLengths' = Tail(sentLengths)
        /\ bufferUsed' = bufferUsed - sentLengths[1]
    BY <1>3 DEF PopSentLength
  <2>2. /\ Len(sentLengths') = n - 1
        /\ \A i \in 1 .. n - 1 : sentLengths'[i] = sentLengths[i + 1]
    BY <2>1
  <2>3. u \in [0 .. Len(sentLengths') -> 0 .. RxBufferSize]
    BY <2>1, <2>2
  <2>4. IsAccount(u)'
    <3>1. u[0] = bufferUsed'
      <4>1. t[0] = t[1] + sentLengths[1] /\ t[0] = bufferUsed
        BY <1>1, <2>1 DEF IsAccount
      <4>2. t[1] \in Int /\ sentLengths[1] \in Int
        BY <2>1, StreamAssumption DEF StreamAssumption
      <4>3. u[0] = t[1]
        BY <2>1
      <4> QED BY <4>1, <4>2, <4>3, <2>1
    <3>2. u[n - 1] = 0
      BY <1>1, <2>1 DEF IsAccount
    <3>3. \A i \in 1 .. n - 1 : u[i - 1] = u[i] + sentLengths'[i]
      BY <1>1, <2>1, <2>2 DEF IsAccount
    <3>4. \A i, j \in 0 .. n - 1 : i <= j => u[j] <= u[i]
      BY <1>1, <2>1 DEF IsAccount
    <3> QED BY <2>2, <3>1, <3>2, <3>3, <3>4 DEF IsAccount
  <2> QED BY <2>3, <2>4 DEF AccountExact
<1> QED BY <1>2, <1>3

\* Booking a line that fits leaves an exact account.
LEMMA PushExact ==
  ASSUME sentLengths \in Seq(Nat), AccountExact,
         NEW b \in Nat, bufferUsed + b <= RxBufferSize,
         sentLengths' = Append(sentLengths, b), bufferUsed' = bufferUsed + b
  PROVE  AccountExact'
<1>1. PICK t \in [0 .. Len(sentLengths) -> 0 .. RxBufferSize] : IsAccount(t)
  BY DEF AccountExact
<1> DEFINE n == Len(sentLengths)
<1> PICK u : u = [i \in 0 .. n + 1 |-> IF i = n + 1 THEN 0 ELSE t[i] + b]
  OBVIOUS
<1>2. /\ n \in Nat
      /\ Len(sentLengths') = n + 1
      /\ sentLengths'[n + 1] = b
      /\ \A i \in 1 .. n : sentLengths'[i] = sentLengths[i]
  OBVIOUS
<1>3. \A i \in 0 .. n : t[i] \in Nat /\ t[i] <= bufferUsed
  <2> TAKE i \in 0 .. n
  <2>1. t[i] \in Nat
    BY StreamAssumption DEF StreamAssumption
  <2>2. 0 \in 0 .. Len(sentLengths) /\ 0 <= i /\ i \in 0 .. Len(sentLengths)
    BY <1>2
  <2>3. t[i] <= t[0] /\ t[0] = bufferUsed
    BY <1>1, <2>2 DEF IsAccount
  <2> QED BY <2>1, <2>3
<1>4. u \in [0 .. Len(sentLengths') -> 0 .. RxBufferSize]
  BY <1>2, <1>3, <1>1, StreamAssumption DEF StreamAssumption, IsAccount
<1>5. IsAccount(u)'
  <2>1. u[0] = bufferUsed' /\ u[n + 1] = 0
    BY <1>1, <1>2 DEF IsAccount
  <2>2. \A i \in 1 .. n + 1 : u[i - 1] = u[i] + sentLengths'[i]
    BY <1>1, <1>2, <1>3 DEF IsAccount
  <2>3. \A i, j \in 0 .. n + 1 : i <= j => u[j] <= u[i]
    BY <1>1, <1>2, <1>3 DEF IsAccount
  <2> QED BY <1>2, <2>1, <2>2, <2>3 DEF IsAccount
<1> QED BY <1>4, <1>5 DEF AccountExact
-----------------------------------------------------------------------------
(* Lines of the program.                                                    *)

\* What sendNextLines reads at m_sendIndex is a line.
LEMMA ProgramLine ==
  ASSUME TypeOK, NEW i \in 0 .. Len(program) - 1
  PROVE  /\ program[i + 1] \in Line
         /\ LineBytes(program[i + 1]) \in Nat
         /\ LineEntry(i) \in Entries
<1>1. program \in Seq(Line)
  BY StreamAssumption DEF TypeOK, JobTyped, StreamAssumption
<1>2. i \in Nat /\ i + 1 \in 1 .. Len(program)
  BY <1>1
<1>3. program[i + 1] \in Line
  BY <1>1, <1>2
<1>4. program[i + 1].size \in Nat /\ program[i + 1].kind \in LineKinds
  BY <1>3 DEF Line
<1> QED
  BY <1>2, <1>3, <1>4 DEF LineBytes, LineEntry, Entries, TypeOK, HistoryTyped

-----------------------------------------------------------------------------
(* Next, action by action.                                                  *)

\* The steps that leave m_sentLengths and m_bufferUsed alone.
Elsewhere ==
  \/ \E p \in Programs : UiStartCheck(p)
  \/ \E c \in Commands : UiCommand(c)
  \/ UiStop \/ UiHold \/ UiHeld \/ UiCycleStart \/ UiResumed \/ UiReset
  \/ UiResetFlags \/ UiAcknowledgeError \/ UiAcknowledgeTool \/ UiSkipTool
  \/ IoDispatchReset \/ IoDispatchRt \/ IoDispatchCommands \/ IoReadNothing
  \/ IoReadStatus \/ IoReadAlarm \/ IoRaiseError \/ IoDrop
  \/ IoPollAndCheck \/ IoSendDone
  \/ MachineLine \/ MachineAlarm \/ PortDown
  \/ UNCHANGED vars

\* Every step either leaves the account alone or is one of the six that do not.
LEMMA NextSplit ==
  [Next]_vars <=> \/ Elsewhere
                  \/ IoReadAck \/ IoReadStreamError \/ IoDropClear
                  \/ IoSendLine \/ UiStartCommit \/ UiResetClear
BY Zenon DEF Next, IoNext, UiNext, MachineNext, IoDispatch, IoRead, UiFinish, Elsewhere

\* The other actions leave the account alone.
LEMMA ElsewhereKeepsAccount ==
  Elsewhere => UNCHANGED <<sentLengths, bufferUsed>>
BY DEF Elsewhere, UiStartCheck, UiCommand,
   UiStop, UiHold, UiHeld, UiCycleStart, UiResumed, UiReset, UiResetFlags, UiAcknowledgeError, UiAcknowledgeTool, UiSkipTool,
   IoDispatchReset, IoDispatchRt, IoDispatchCommands, IoReadNothing, IoReadStatus, IoReadAlarm, IoRaiseError, IoDrop, IoPollAndCheck, IoSendDone,
   MachineLine, MachineAlarm, PortDown, vars, controller, rest, ui, flags, job, buffer, machine, history

\* A step of the controller or of the machine keeps the account exact.
LEMMA AccountStep ==
  ASSUME TypeOK, AccountExact, [Next]_vars PROVE AccountExact'
<1>1. CASE Elsewhere
  BY <1>1, ElsewhereKeepsAccount DEF AccountExact, IsAccount
<1>2. CASE IoReadAck
  BY <1>2, PopExact DEF IoReadAck, TypeOK, QueuesTyped
<1>3. CASE IoReadStreamError \/ IoDropClear \/ UiStartCommit \/ UiResetClear
  BY <1>3, ClearExact DEF IoReadStreamError, IoDropClear, UiStartCommit, UiResetClear
<1>4. CASE IoSendLine
  <2>1. LineBytes(NextLine) \in Nat
    <3>1. sendIndex \in 0 .. Len(program) - 1
      BY <1>4 DEF IoSendLine, CanSend, TypeOK, JobTyped, QueuesTyped
    <3> QED BY <3>1, ProgramLine DEF NextLine
  <2> QED BY <1>4, <2>1, PushExact DEF IoSendLine, CanSend, TypeOK, JobTyped, QueuesTyped
<1> QED BY <1>1, <1>2, <1>3, <1>4, NextSplit

\* m_sentLengths only ever holds byte counts.
LEMMA LengthsStep ==
  ASSUME TypeOK, [Next]_vars PROVE sentLengths' \in Seq(Nat)
<1>1. CASE Elsewhere
  BY <1>1, ElsewhereKeepsAccount DEF TypeOK, QueuesTyped
<1>2. CASE IoReadAck
  <2>1. \/ sentLengths' = sentLengths
        \/ sentLengths # <<>> /\ sentLengths' = Tail(sentLengths)
    BY <1>2 DEF IoReadAck, PopSentLength, buffer
  <2>2. sentLengths \in Seq(Nat)
    BY DEF TypeOK, QueuesTyped
  <2> QED BY <2>1, <2>2
<1>3. CASE IoReadStreamError \/ IoDropClear \/ UiStartCommit \/ UiResetClear
  <2>1. sentLengths' = <<>>
    BY <1>3 DEF IoReadStreamError, IoDropClear, UiStartCommit, UiResetClear, ClearAccount
  <2> QED BY <2>1
<1>4. CASE IoSendLine
  <2>1. sendIndex \in 0 .. Len(program) - 1
    BY <1>4 DEF IoSendLine, CanSend, TypeOK, JobTyped, QueuesTyped
  <2> QED BY <1>4, <2>1, ProgramLine DEF IoSendLine, NextLine, TypeOK, QueuesTyped
<1> QED BY <1>1, <1>2, <1>3, <1>4, NextSplit

\* An exact account bounds m_bufferUsed.
LEMMA BufferStep ==
  ASSUME TypeOK, AccountExact, [Next]_vars PROVE bufferUsed' \in 0 .. RxBufferSize
<1>1. AccountExact' /\ sentLengths' \in Seq(Nat)
  BY AccountStep, LengthsStep
<1>2. PICK t \in [0 .. Len(sentLengths') -> 0 .. RxBufferSize] : IsAccount(t)'
  BY <1>1 DEF AccountExact
<1> QED BY <1>1, <1>2 DEF IsAccount

\* Flags, requests and program counters keep their kind of value.
LEMMA FlagsStep ==
  ASSUME TypeOK, [Next]_vars PROVE FlagsTyped'
<1> USE DEF TypeOK, FlagsTyped, IoPcs, UiPcs, RtCommands, vars, controller,
            rest, ui, flags, machine, history
<1>1. CASE \E p \in Programs : UiStartCheck(p)
  BY <1>1 DEF UiStartCheck
<1>2. CASE \E c \in Commands : UiCommand(c)
  BY <1>2 DEF UiCommand
<1>3. CASE UiStop
  BY <1>3 DEF UiStop
<1>4. CASE UiHold
  BY <1>4 DEF UiHold
<1>5. CASE UiHeld
  BY <1>5 DEF UiHeld
<1>6. CASE UiCycleStart
  BY <1>6 DEF UiCycleStart
<1>7. CASE UiResumed
  BY <1>7 DEF UiResumed
<1>8. CASE UiReset
  BY <1>8 DEF UiReset
<1>9. CASE UiResetFlags
  BY <1>9 DEF UiResetFlags
<1>10. CASE UiResetClear
  BY <1>10 DEF UiResetClear
<1>11. CASE UiAcknowledgeError
  BY <1>11 DEF UiAcknowledgeError
<1>12. CASE UiAcknowledgeTool
  BY <1>12 DEF UiAcknowledgeTool
<1>13. CASE UiStartCommit
  BY <1>13 DEF UiStartCommit
<1>14. CASE UiSkipTool
  BY <1>14 DEF UiSkipTool
<1>15. CASE IoDispatchReset
  BY <1>15 DEF IoDispatchReset
<1>16. CASE IoDispatchRt
  BY <1>16 DEF IoDispatchRt, HoldsAfter
<1>17. CASE IoDispatchCommands
  BY <1>17 DEF IoDispatchCommands
<1>18. CASE IoReadNothing
  BY <1>18 DEF IoReadNothing
<1>19. CASE IoReadStatus
  BY <1>19 DEF IoReadStatus
<1>20. CASE IoReadAlarm
  BY <1>20 DEF IoReadAlarm
<1>21. CASE IoReadAck
  BY <1>21 DEF IoReadAck
<1>22. CASE IoReadStreamError
  BY <1>22 DEF IoReadStreamError
<1>23. CASE IoRaiseError
  BY <1>23 DEF IoRaiseError
<1>24. CASE IoDrop
  BY <1>24 DEF IoDrop
<1>25. CASE IoDropClear
  BY <1>25 DEF IoDropClear
<1>26. CASE IoPollAndCheck
  BY <1>26 DEF IoPollAndCheck
<1>27. CASE IoSendLine
  BY <1>27 DEF IoSendLine
<1>28. CASE IoSendDone
  BY <1>28 DEF IoSendDone
<1>29. CASE MachineLine
  BY <1>29 DEF MachineLine
<1>30. CASE MachineAlarm
  BY <1>30 DEF MachineAlarm
<1>31. CASE PortDown
  BY <1>31 DEF PortDown
<1>32. CASE UNCHANGED vars
  BY <1>32
<1> QED
  BY <1>1, <1>2, <1>3, <1>4, <1>5, <1>6, <1>7, <1>8, <1>9, <1>10, <1>11,
     <1>12, <1>13, <1>14, <1>15, <1>16, <1>17, <1>18, <1>19, <1>20, <1>21,
     <1>22, <1>23, <1>24, <1>25, <1>26, <1>27, <1>28, <1>29, <1>30, <1>31,
     <1>32, NextSplit DEF Elsewhere

\* The job keeps a program, a position in it and a count within the buffer.
LEMMA JobStep ==
  ASSUME TypeOK, AccountExact, [Next]_vars PROVE JobTyped'
<1>1. bufferUsed' \in 0 .. RxBufferSize
  BY BufferStep
<1>2. CASE UiStartCommit
  <2>1. program' \in Programs \cup {<<>>} /\ Len(program') \in Nat
    BY <1>2, StreamAssumption DEF UiStartCommit, TypeOK, JobTyped, StreamAssumption
  <2> QED BY <1>1, <1>2, <2>1 DEF UiStartCommit, JobTyped
<1>3. CASE \E p \in Programs : UiStartCheck(p)
  BY <1>1, <1>3 DEF UiStartCheck, TypeOK, JobTyped, rest, job
<1>4. CASE IoSendLine \/ UiSkipTool
  <2>1. Len(program) \in Nat
    BY StreamAssumption DEF TypeOK, JobTyped, StreamAssumption
  <2> QED BY <1>1, <1>4, <2>1
          DEF IoSendLine, CanSend, UiSkipTool, Advance, TypeOK, JobTyped, ui
<1>5. CASE IoReadAck
  BY <1>1, <1>5 DEF IoReadAck, TypeOK, JobTyped, ui
<1>6. CASE IoReadStreamError \/ IoDropClear \/ UiResetClear
  BY <1>1, <1>6 DEF IoReadStreamError, IoDropClear, UiResetClear, TypeOK, JobTyped, job, ui
<1>7. CASE Elsewhere /\ ~UiSkipTool /\ ~\E p \in Programs : UiStartCheck(p)
  <2>1. UNCHANGED <<program, newProgram, sendIndex, ackIndex>>
    BY <1>7 DEF Elsewhere, UiCommand,
         UiStop, UiHold, UiHeld, UiCycleStart, UiResumed, UiReset, UiResetFlags,
         UiAcknowledgeError, UiAcknowledgeTool,
         IoDispatchReset, IoDispatchRt, IoDispatchCommands, IoReadNothing,
         IoReadStatus, IoReadAlarm, IoRaiseError, IoDrop, IoPollAndCheck, IoSendDone,
         MachineLine, MachineAlarm, PortDown, vars, controller, rest, ui, job
  <2> QED BY <1>1, <2>1 DEF TypeOK, JobTyped
<1> QED BY <1>2, <1>3, <1>4, <1>5, <1>6, <1>7, NextSplit

\* The queues between the two threads and the machine keep their elements.
LEMMA QueuesStep ==
  ASSUME TypeOK, [Next]_vars PROVE QueuesTyped'
<1>1. sentLengths' \in Seq(Nat)
  BY LengthsStep
<1>2. commands \in Seq(Commands) /\ rx \in Seq(Entries) /\ replies \in Seq(Replies)
  BY DEF TypeOK, QueuesTyped
<1>3. CASE \E c \in Commands : UiCommand(c)
  BY <1>1, <1>2, <1>3 DEF UiCommand, QueuesTyped, machine
<1>4. CASE IoDispatchReset
  <2>1. rx' \in {rx, <<>>} /\ commands' = commands
    BY <1>4 DEF IoDispatchReset, machine
  <2>2. \/ replies' = replies
        \/ \E n \in 0 .. Len(replies) :
              replies' = SubSeq(replies, n + 1, Len(replies))
    BY <1>4 DEF IoDispatchReset, machine
  <2>3. replies' \in Seq(Replies)
    <3>1. CASE replies' = replies
      BY <1>2, <3>1
    <3>2. ASSUME NEW n \in 0 .. Len(replies),
                 replies' = SubSeq(replies, n + 1, Len(replies))
          PROVE  replies' \in Seq(Replies)
      <4>1. \A i \in n + 1 .. Len(replies) : i \in 1 .. Len(replies)
        BY <1>2
      <4>2. SubSeq(replies, n + 1, Len(replies)) \in Seq(Replies)
        BY <1>2, <4>1, SubSeqProperties
      <4> QED BY <3>2, <4>2
    <3> QED BY <2>2, <3>1, <3>2
  <2>4. rx' \in Seq(Entries)
    <3>1. <<>> \in Seq(Entries)
      OBVIOUS
    <3> QED BY <1>2, <2>1, <3>1
  <2> QED BY <1>1, <1>2, <2>1, <2>3, <2>4 DEF QueuesTyped
<1>5. CASE IoDispatchCommands
  <2> DEFINE sent == [i \in DOMAIN commands |-> CommandEntry(commands[i])]
  <2>1. \A c \in Commands : CommandEntry(c) \in Entries
    BY StreamAssumption DEF CommandEntry, Entries, StreamAssumption
  <2>2. sent \in Seq(Entries)
    <3>1. DOMAIN commands = 1 .. Len(commands) /\ Len(commands) \in Nat
      BY <1>2
    <3>2. \A i \in 1 .. Len(commands) : commands[i] \in Commands
      BY <1>2
    <3>3. sent \in [1 .. Len(commands) -> Entries]
      BY <2>1, <3>1, <3>2
    <3> QED BY <3>1, <3>3
  <2>3. rx' \in Seq(Entries)
    <3>1. rx \o sent \in Seq(Entries)
      <4> HIDE DEF sent
      <4> QED BY <1>2, <2>2
    <3> QED BY <1>2, <1>5, <3>1 DEF IoDispatchCommands
  <2>4. commands' = <<>> /\ replies' = replies
    BY <1>5 DEF IoDispatchCommands
  <2> QED BY <1>1, <1>2, <2>3, <2>4 DEF QueuesTyped
<1>6. CASE IoReadStatus \/ IoReadAlarm \/ IoReadAck \/ IoReadStreamError
  <2>1. replies # <<>> /\ replies' = Tail(replies)
    BY <1>6 DEF IoReadStatus, IoReadAlarm, IoReadAck, IoReadStreamError, Receive
  <2>2. UNCHANGED <<commands, rx>>
    BY <1>6 DEF IoReadStatus, IoReadAlarm, IoReadAck, IoReadStreamError
  <2> QED BY <1>1, <1>2, <2>1, <2>2 DEF QueuesTyped
<1>7. CASE IoPollAndCheck
  <2>1. Status(MachineState) \in Replies
    BY DEF Status, MachineState, MachineStates, Replies
  <2>2. /\ UNCHANGED <<commands, rx>>
        /\ replies' \in {replies, Append(replies, Status(MachineState))}
    BY <1>7 DEF IoPollAndCheck
  <2>3. replies' \in Seq(Replies)
    BY <1>2, <2>1, <2>2
  <2> QED BY <1>1, <1>2, <2>2, <2>3 DEF QueuesTyped
<1>8. CASE IoSendLine
  <2>1. LineEntry(sendIndex) \in Entries
    <3>1. sendIndex \in 0 .. Len(program) - 1
      BY <1>8 DEF IoSendLine, CanSend, TypeOK, JobTyped
    <3> QED BY <3>1, ProgramLine
  <2> QED BY <1>1, <1>2, <1>8, <2>1 DEF IoSendLine, QueuesTyped
<1>9. CASE MachineLine
  <2>1. Head(rx) \in Entries /\ Tail(rx) \in Seq(Entries)
    BY <1>2, <1>9 DEF MachineLine
  <2>2. Answer("ok", Head(rx)) \in Replies /\ Answer("error", Head(rx)) \in Replies
    BY <2>1 DEF Answer, Entries, Replies
  <2>3. \E a \in {"ok", "error"} : replies' = Append(replies, Answer(a, Head(rx)))
    BY <1>9 DEF MachineLine
  <2>4. replies' \in Seq(Replies)
    BY <1>2, <2>2, <2>3
  <2> QED BY <1>1, <1>2, <1>9, <2>1, <2>4 DEF MachineLine, QueuesTyped, controller
<1>10. CASE MachineAlarm
  <2>1. AlarmReport \in Replies
    BY DEF AlarmReport, Replies
  <2> QED BY <1>1, <1>2, <1>10, <2>1 DEF MachineAlarm, QueuesTyped, controller
<1>11. CASE UNCHANGED <<commands, rx, replies>>
  BY <1>1, <1>2, <1>11 DEF QueuesTyped
<1>12. CASE \/ \E p \in Programs : UiStartCheck(p)
            \/ UiStop \/ UiHold \/ UiHeld \/ UiCycleStart \/ UiResumed \/ UiReset
            \/ UiResetFlags \/ UiAcknowledgeError \/ UiAcknowledgeTool \/ UiSkipTool
            \/ UiStartCommit \/ UiResetClear
            \/ IoDispatchRt \/ IoReadNothing \/ IoRaiseError \/ IoDrop \/ IoDropClear
            \/ IoSendDone \/ PortDown \/ UNCHANGED vars
  <2>1. UNCHANGED <<commands, rx, replies>>
    BY <1>12 DEF UiStartCheck, UiStop, UiHold, UiHeld, UiCycleStart, UiResumed,
         UiReset, UiResetFlags, UiAcknowledgeError, UiAcknowledgeTool, UiSkipTool,
         UiStartCommit, UiResetClear, IoDispatchRt, IoReadNothing, IoRaiseError,
         IoDrop, IoDropClear, IoSendDone, PortDown, vars, controller, rest, machine
  <2> QED BY <1>11, <2>1
<1> QED BY <1>3, <1>4, <1>5, <1>6, <1>7, <1>8, <1>9, <1>10, <1>12, NextSplit DEF Elsewhere

\* The history variables keep their kind of value.
LEMMA HistoryStep ==
  ASSUME TypeOK, [Next]_vars PROVE HistoryTyped'
<1>1. /\ ops \in 0 .. MaxOps /\ MaxOps \in Nat /\ run \in Nat
      /\ executed \subseteq Nat /\ skipped \subseteq Nat
      /\ failedRun \in 0 .. run /\ resetRun \in 0 .. run
  BY StreamAssumption DEF TypeOK, HistoryTyped, StreamAssumption
<1>2. ops' \in 0 .. MaxOps
  <2>1. CASE Operate
    BY <1>1, <2>1 DEF Operate
  <2>2. CASE ops' = ops
    BY <1>1, <2>2
  <2>3. Operate \/ ops' = ops
    BY NextSplit DEF Elsewhere, UiStartCheck, UiCommand,
         UiStop, UiHold, UiHeld, UiCycleStart, UiResumed, UiReset, UiResetFlags,
         UiAcknowledgeError, UiAcknowledgeTool, UiSkipTool, UiStartCommit, UiResetClear,
         IoDispatchReset, IoDispatchRt, IoDispatchCommands, IoReadNothing,
         IoReadStatus, IoReadAlarm, IoReadAck, IoReadStreamError, IoRaiseError,
         IoDrop, IoDropClear, IoPollAndCheck, IoSendLine, IoSendDone,
         MachineLine, MachineAlarm, PortDown, vars, controller, ui
  <2> QED BY <2>1, <2>2, <2>3
<1>3. CASE UiStartCommit
  <2>1. /\ run' = run + 1 /\ executed' = {} /\ skipped' = {}
        /\ UNCHANGED <<failedRun, resetRun>>
    BY <1>3 DEF UiStartCommit
  <2> QED BY <1>1, <1>2, <2>1 DEF HistoryTyped
<1>4. CASE UiSkipTool
  <2>1. sendIndex \in Nat
    BY StreamAssumption DEF TypeOK, JobTyped, StreamAssumption
  <2> QED BY <1>1, <1>2, <1>4, <2>1 DEF UiSkipTool, HistoryTyped
<1>5. CASE IoDispatchReset
  BY <1>1, <1>2, <1>5 DEF IoDispatchReset, HistoryTyped
<1>6. CASE IoReadStreamError
  BY <1>1, <1>2, <1>6 DEF IoReadStreamError, HistoryTyped
<1>7. CASE MachineLine
  <2>1. Head(rx).idx \in Nat
    <3>1. rx \in Seq(Entries) /\ rx # <<>>
      BY <1>7 DEF MachineLine, TypeOK, QueuesTyped
    <3>2. Head(rx) \in Entries
      BY <3>1
    <3> QED BY <3>2 DEF Entries
  <2>2. executed' \in {executed, executed \cup {Head(rx).idx}}
    BY <1>7 DEF MachineLine
  <2>3. executed' \subseteq Nat
    BY <1>1, <2>1, <2>2
  <2>4. UNCHANGED <<run, skipped, failedRun, resetRun>>
    BY <1>7 DEF MachineLine
  <2> QED BY <1>1, <1>2, <2>3, <2>4 DEF HistoryTyped
<1>8. CASE \/ \E p \in Programs : UiStartCheck(p)
           \/ \E c \in Commands : UiCommand(c)
           \/ UiStop \/ UiHold \/ UiHeld \/ UiCycleStart \/ UiResumed \/ UiReset
           \/ UiResetFlags \/ UiAcknowledgeError \/ UiAcknowledgeTool \/ UiResetClear
           \/ IoDispatchRt \/ IoDispatchCommands \/ IoReadNothing \/ IoReadStatus
           \/ IoReadAlarm \/ IoReadAck \/ IoRaiseError \/ IoDrop \/ IoDropClear
           \/ IoPollAndCheck \/ IoSendLine \/ IoSendDone
           \/ MachineAlarm \/ PortDown \/ UNCHANGED vars
  <2>1. UNCHANGED history
    BY <1>8 DEF UiStartCheck, UiCommand, UiStop, UiHold, UiHeld, UiCycleStart,
         UiResumed, UiReset, UiResetFlags, UiAcknowledgeError, UiAcknowledgeTool,
         UiResetClear, IoDispatchRt, IoDispatchCommands, IoReadNothing, IoReadStatus,
         IoReadAlarm, IoReadAck, IoRaiseError, IoDrop, IoDropClear, IoPollAndCheck,
         IoSendLine, IoSendDone, MachineAlarm, PortDown, vars, rest, history
  <2> QED BY <1>1, <1>2, <2>1 DEF HistoryTyped, history
<1> QED BY <1>3, <1>4, <1>5, <1>6, <1>7, <1>8, NextSplit DEF Elsewhere

-----------------------------------------------------------------------------
(* The theorems.                                                            *)

StreamInv == TypeOK /\ AccountExact

\* The invariant holds at the start, every step keeps it, so it holds throughout.
LEMMA StreamInit == Init => StreamInv
<1> SUFFICES ASSUME Init PROVE StreamInv
  OBVIOUS
<1>1. TypeOK
  <2>1. FlagsTyped
    BY DEF Init, FlagsTyped, IoPcs, UiPcs, MachineStates
  <2>2. JobTyped
    <3>1. 0 \in 0 .. Len(<<>>) /\ 0 \in Nat /\ 0 \in 0 .. RxBufferSize
      BY StreamAssumption DEF StreamAssumption
    <3> QED BY <3>1 DEF Init, JobTyped
  <2>3. QueuesTyped
    BY DEF Init, QueuesTyped
  <2>4. HistoryTyped
    BY StreamAssumption DEF Init, HistoryTyped, StreamAssumption
  <2> QED BY <2>1, <2>2, <2>3, <2>4 DEF TypeOK
<1>2. AccountExact
  <2> PICK t : t = [i \in {0} |-> 0]
    OBVIOUS
  <2>1. Len(<<>>) = 0 /\ 0 .. 0 = {0}
    OBVIOUS
  <2>2. t \in [0 .. Len(<<>>) -> 0 .. RxBufferSize]
    BY <2>1, StreamAssumption DEF StreamAssumption
  <2>3. IsAccount(t)
    BY DEF Init, IsAccount
  <2> QED BY <2>2, <2>3 DEF Init, AccountExact
<1> QED BY <1>1, <1>2 DEF StreamInv

LEMMA StreamStep == StreamInv /\ [Next]_vars => StreamInv'
BY AccountStep, FlagsStep, JobStep, QueuesStep, HistoryStep DEF StreamInv, TypeOK

LEMMA StreamInvariant == Spec => []StreamInv
BY StreamInit, StreamStep, PTL DEF Spec

\* Every reachable state of the stream is well typed; in particular
\* sendNextLines never moves m_sendIndex past the end of m_program.
THEOREM TypeCorrect == Spec => []TypeOK
<1>1. StreamInv => TypeOK
  BY DEF StreamInv
<1> QED BY <1>1, StreamInvariant, PTL

\* Whatever the programs, the buffer size and the order of operations, errors
\* and answers, m_bufferUsed is the sum of m_sentLengths and stays within
\* RX_BUFFER_SIZE.
THEOREM AccountIsExact == Spec => []AccountExact
<1>1. StreamInv => AccountExact
  BY DEF StreamInv
<1> QED BY <1>1, StreamInvariant, PTL

-----------------------------------------------------------------------------
(* What the sender may send.                                                *)

\* The steps that leave the program, the position in it and the lines stepped
\* over alone.
LEMMA PositionKept ==
  [Next]_vars =>
    \/ IoSendLine \/ UiSkipTool \/ UiStartCommit
    \/ UNCHANGED <<program, sendIndex, skipped, run>>
BY NextSplit DEF Elsewhere, UiStartCheck, UiCommand, UiStop, UiHold, UiHeld,
   UiCycleStart, UiResumed, UiReset, UiResetFlags, UiResetClear,
   UiAcknowledgeError, UiAcknowledgeTool, IoDispatchReset, IoDispatchRt,
   IoDispatchCommands, IoReadNothing, IoReadStatus, IoReadAlarm, IoReadAck,
   IoReadStreamError, IoRaiseError, IoDrop, IoDropClear, IoPollAndCheck,
   IoSendDone, MachineLine, MachineAlarm, PortDown, vars, controller, rest, job,
   history

\* sendNextLines stops in front of an M6, and only acknowledgeToolChange steps
\* over one.
LEMMA ToolChangeStep ==
  ASSUME TypeOK, ToolChangeHeldBack, [Next]_vars PROVE ToolChangeHeldBack'
<1>1. sendIndex \in Nat
  BY StreamAssumption DEF TypeOK, JobTyped, StreamAssumption
<1>2. CASE IoSendLine
  <2>1. /\ sendIndex' = sendIndex + 1
        /\ program[sendIndex + 1].kind # "toolChange"
        /\ UNCHANGED <<program, skipped>>
    BY <1>2 DEF IoSendLine, CanSend, NextLine, Advance, history
  <2> QED BY <1>1, <2>1 DEF ToolChangeHeldBack
<1>3. CASE UiSkipTool
  <2>1. /\ program' = program
        /\ \/ sendIndex' = sendIndex + 1 /\ skipped' = skipped \cup {sendIndex}
           \/ UNCHANGED <<sendIndex, skipped>>
    BY <1>3 DEF UiSkipTool, Advance
  <2> QED BY <1>1, <2>1 DEF ToolChangeHeldBack
<1>4. CASE UiStartCommit
  BY <1>4 DEF UiStartCommit, ToolChangeHeldBack
<1>5. CASE UNCHANGED <<program, sendIndex, skipped, run>>
  BY <1>5 DEF ToolChangeHeldBack
<1> QED BY <1>2, <1>3, <1>4, <1>5, PositionKept

\* Whatever the operator acknowledges and whenever the IO thread looks at the
\* flag, no line behind an M6 has been sent before that M6 was stepped over.
THEOREM ToolChangeSafe == Spec => []ToolChangeHeldBack
<1>1. Init => ToolChangeHeldBack
  BY DEF Init, ToolChangeHeldBack
<1>2. TypeOK /\ ToolChangeHeldBack /\ [Next]_vars => ToolChangeHeldBack'
  BY ToolChangeStep
<1> QED BY <1>1, <1>2, TypeCorrect, PTL DEF Spec

\* The stream under way, and the one the sender is busy with, is later than
\* the last one that failed: a failed stream is never taken up again.
FailedIsOver ==
  (streaming => failedRun < run) /\ (ioPc = "send" => failedRun < run)

\* A stream that failed is not taken up again.
LEMMA FailedStep ==
  ASSUME TypeOK, FailedIsOver, [Next]_vars PROVE FailedIsOver'
<1>1. run \in Nat /\ failedRun \in 0 .. run
  BY DEF TypeOK, HistoryTyped
<1>2. CASE UiStartCommit
  <2>1. run' = run + 1 /\ failedRun' = failedRun
    BY <1>2 DEF UiStartCommit
  <2>2. failedRun' < run'
    BY <1>1, <2>1
  <2> QED BY <2>2 DEF FailedIsOver
<1>3. CASE IoReadStreamError
  BY <1>3 DEF IoReadStreamError, FailedIsOver
<1>4. CASE IoPollAndCheck
  <2>1. /\ UNCHANGED <<streaming, run, failedRun>>
        /\ ioPc' = "send" => streaming
    BY <1>4 DEF IoPollAndCheck, MaySend, flags, history
  <2> QED BY <2>1 DEF FailedIsOver
<1>5. ~UiStartCommit /\ ~IoReadStreamError /\ ~IoPollAndCheck =>
        /\ UNCHANGED <<run, failedRun>>
        /\ streaming' => streaming
        /\ ioPc' = "send" => ioPc = "send"
  BY NextSplit DEF Elsewhere, UiStartCheck, UiCommand, UiStop, UiHold, UiHeld,
     UiCycleStart, UiResumed, UiReset, UiResetFlags, UiResetClear, UiSkipTool,
     UiAcknowledgeError, UiAcknowledgeTool, IoDispatchReset, IoDispatchRt,
     IoDispatchCommands, IoReadNothing, IoReadStatus, IoReadAlarm, IoReadAck,
     IoRaiseError, IoDrop, IoDropClear, IoSendLine, IoSendDone,
     MachineLine, MachineAlarm, PortDown, vars, controller, rest, flags, history
<1>6. CASE ~UiStartCommit /\ ~IoReadStreamError /\ ~IoPollAndCheck
  BY <1>5, <1>6 DEF FailedIsOver
<1> QED BY <1>2, <1>3, <1>4, <1>6

\* How the receive buffer of the machine may change in one step.
LEMMA RxSteps ==
  ASSUME TypeOK, [Next]_vars
  PROVE  \/ IoDispatchCommands
         \/ IoSendLine
         \/ rx' = rx \/ rx' = <<>> \/ (rx # <<>> /\ rx' = Tail(rx))
BY NextSplit DEF Elsewhere, UiStartCheck, UiCommand, UiStop, UiHold, UiHeld,
   UiCycleStart, UiResumed, UiReset, UiResetFlags, UiResetClear, UiSkipTool,
   UiStartCommit, UiAcknowledgeError, UiAcknowledgeTool, IoDispatchReset,
   IoDispatchRt, IoReadNothing, IoReadStatus, IoReadAlarm, IoReadAck,
   IoReadStreamError, IoRaiseError, IoDrop, IoDropClear, IoPollAndCheck,
   IoSendDone, MachineLine, MachineAlarm, PortDown, vars, controller, rest,
   machine

\* The string commands append entries that belong to no stream.
LEMMA CommandsAppend ==
  ASSUME TypeOK, IoDispatchCommands
  PROVE  /\ Len(rx') >= Len(rx)
         /\ \A i \in 1 .. Len(rx) : rx'[i] = rx[i]
         /\ \A i \in Len(rx) + 1 .. Len(rx') : rx'[i].run = 0
<1> DEFINE sent == [i \in 1 .. Len(commands) |-> CommandEntry(commands[i])]
<1>1. commands \in Seq(Commands) /\ rx \in Seq(Entries)
  BY DEF TypeOK, QueuesTyped
<1>2. DOMAIN commands = 1 .. Len(commands) /\ Len(commands) \in Nat
  BY <1>1
<1>3. sent \in Seq(Entries) /\ Len(sent) = Len(commands)
  <2>1. \A c \in Commands : CommandEntry(c) \in Entries
    BY StreamAssumption DEF CommandEntry, Entries, StreamAssumption
  <2>2. \A i \in 1 .. Len(commands) : commands[i] \in Commands
    BY <1>1
  <2>3. sent \in [1 .. Len(commands) -> Entries]
    BY <2>1, <2>2
  <2> QED BY <1>2, <2>3
<1>4. \A i \in 1 .. Len(commands) : sent[i].run = 0
  BY DEF CommandEntry
<1>5. rx' = rx \/ rx' = rx \o sent
  BY <1>2 DEF IoDispatchCommands
<1> HIDE DEF sent
<1>6. CASE rx' = rx
  BY <1>1, <1>6
<1>7. CASE rx' = rx \o sent
  <2>1. Len(rx') = Len(rx) + Len(sent)
    BY <1>1, <1>3, <1>7, ConcatProperties
  <2>2. \A i \in 1 .. Len(rx) : rx'[i] = rx[i]
    BY <1>1, <1>3, <1>7, ConcatProperties
  <2>3. \A i \in Len(rx) + 1 .. Len(rx') :
          rx'[i] = sent[i - Len(rx)] /\ i - Len(rx) \in 1 .. Len(commands)
    BY <1>1, <1>3, <1>7, <2>1, ConcatProperties
  <2> QED BY <1>1, <1>3, <1>4, <2>1, <2>2, <2>3
<1> QED BY <1>5, <1>6, <1>7

\* Once a stream has met a streaming error, none of its lines is sent again,
\* however the IO thread, the operator and the machine interleave.
THEOREM ErrorIsFinal == Spec => NoLineAfterError
<1> DEFINE Safe == Len(rx') > Len(rx) /\ rx'[Len(rx')].run # 0
                     => rx'[Len(rx')].run # failedRun
<1>1. Init => FailedIsOver
  BY DEF Init, FailedIsOver
<1>2. TypeOK /\ FailedIsOver /\ [Next]_vars => FailedIsOver'
  BY FailedStep
<1>3. TypeOK /\ FailedIsOver /\ [Next]_vars => Safe
  <2> SUFFICES ASSUME TypeOK, FailedIsOver, [Next]_vars PROVE Safe
    OBVIOUS
  <2>1. rx \in Seq(Entries) /\ run \in Nat /\ failedRun \in 0 .. run
    BY DEF TypeOK, QueuesTyped, HistoryTyped
  <2>2. CASE IoDispatchCommands
    <3>1. rx' \in Seq(Entries)
      BY QueuesStep DEF QueuesTyped
    <3>2. Len(rx') > Len(rx) => Len(rx') \in Len(rx) + 1 .. Len(rx')
      BY <2>1, <3>1
    <3> QED BY <2>2, <3>2, CommandsAppend
  <2>3. CASE IoSendLine
    <3>1. rx' = Append(rx, LineEntry(sendIndex)) /\ failedRun < run
      BY <2>3 DEF IoSendLine, FailedIsOver
    <3>2. LineEntry(sendIndex).run = run
      BY DEF LineEntry
    <3>3. rx'[Len(rx')] = LineEntry(sendIndex)
      BY <2>1, <3>1
    <3> QED BY <2>1, <3>1, <3>2, <3>3
  <2>4. CASE rx' = rx \/ rx' = <<>> \/ (rx # <<>> /\ rx' = Tail(rx))
    <3>1. ~(Len(rx') > Len(rx))
      BY <2>1, <2>4
    <3> QED BY <3>1
  <2> QED BY <2>2, <2>3, <2>4, RxSteps
<1> QED BY <1>1, <1>2, <1>3, TypeCorrect, PTL DEF Spec, NoLineAfterError

-----------------------------------------------------------------------------
(* The order of lines in the machine's receive buffer.                      *)

\* What is in the receive buffer is no later than the stream under way, and
\* of that stream only lines before m_sendIndex are in it.
RxBelow ==
  \A i \in DOMAIN rx :
    /\ rx[i].run <= run
    /\ rx[i].run = run /\ run # 0 => rx[i].idx < sendIndex

RxInv == RxBelow /\ RxInOrder

\* What the fields of a line in the buffer are.
LEMMA EntryFields ==
  ASSUME rx \in Seq(Entries), NEW i \in DOMAIN rx
  PROVE  rx[i].run \in Nat /\ rx[i].idx \in Nat
<1>1. rx[i] \in Entries
  <2>1. i \in 1 .. Len(rx)
    OBVIOUS
  <2> QED BY <2>1
<1> QED BY <1>1 DEF Entries

\* A line sent at m_sendIndex goes behind every line of its stream.
LEMMA SendInOrder ==
  ASSUME TypeOK, RxInv, IoSendLine PROVE RxInv'
<1> DEFINE e == LineEntry(sendIndex)
<1>1. /\ rx' = Append(rx, e) /\ sendIndex' = sendIndex + 1 /\ run' = run
      /\ e.run = run /\ e.idx = sendIndex
  BY DEF IoSendLine, Advance, LineEntry, history
<1>2. rx \in Seq(Entries) /\ sendIndex \in Nat /\ run \in Nat
  BY StreamAssumption DEF TypeOK, QueuesTyped, HistoryTyped, JobTyped, StreamAssumption
<1>3. \A i \in 1 .. Len(rx) : rx[i].run \in Nat /\ rx[i].idx \in Nat
  <2>1. DOMAIN rx = 1 .. Len(rx)
    BY <1>2
  <2> QED BY <1>2, <2>1, EntryFields
<1> HIDE DEF e
<1>4. /\ Len(rx') = Len(rx) + 1 /\ DOMAIN rx' = 1 .. Len(rx) + 1
      /\ \A i \in 1 .. Len(rx) : rx'[i] = rx[i]
      /\ rx'[Len(rx) + 1] = e
  BY <1>1, <1>2
<1>5. RxBelow'
  BY <1>1, <1>2, <1>3, <1>4 DEF RxInv, RxBelow
<1>6. RxInOrder'
  <2> SUFFICES ASSUME NEW i \in DOMAIN rx', NEW j \in DOMAIN rx',
                      i < j, rx'[i].run = rx'[j].run, rx'[i].run # 0
               PROVE  rx'[i].idx < rx'[j].idx
    BY DEF RxInOrder
  <2>1. i \in 1 .. Len(rx) /\ rx'[i] = rx[i]
    BY <1>2, <1>4
  <2>2. CASE j \in 1 .. Len(rx)
    <3>1. rx'[j] = rx[j] /\ i \in DOMAIN rx /\ j \in DOMAIN rx
      BY <1>2, <1>4, <2>1, <2>2
    <3> QED BY <2>1, <3>1 DEF RxInv, RxInOrder
  <2>3. CASE j = Len(rx) + 1
    <3>1. rx[i].run = run /\ run # 0 /\ rx'[j].idx = sendIndex
      BY <1>1, <1>4, <2>1, <2>3
    <3> QED BY <1>2, <2>1, <3>1 DEF RxInv, RxBelow
  <2> QED BY <1>2, <1>4, <2>2, <2>3
<1> QED BY <1>5, <1>6 DEF RxInv

\* String commands belong to no stream and disturb the order of none.
LEMMA CommandsInOrder ==
  ASSUME TypeOK, RxInv, IoDispatchCommands PROVE RxInv'
<1>1. UNCHANGED <<sendIndex, run>>
  BY DEF IoDispatchCommands, job, history
<1>2. rx \in Seq(Entries) /\ run \in Nat
  BY DEF TypeOK, QueuesTyped, HistoryTyped
<1>3. IoDispatchCommands => [Next]_vars
  BY DEF Next, IoNext, IoDispatch
<1>4. rx' \in Seq(Entries)
  BY <1>3, QueuesStep DEF QueuesTyped
<1>5. /\ Len(rx') >= Len(rx)
      /\ \A i \in 1 .. Len(rx) : rx'[i] = rx[i]
      /\ \A i \in Len(rx) + 1 .. Len(rx') : rx'[i].run = 0
  BY CommandsAppend
<1>6. /\ DOMAIN rx = 1 .. Len(rx) /\ Len(rx) \in Nat
      /\ DOMAIN rx' = 1 .. Len(rx') /\ Len(rx') \in Nat
  BY <1>2, <1>4
<1>7. \A i \in DOMAIN rx' : rx'[i].run # 0 => i \in DOMAIN rx /\ rx'[i] = rx[i]
  BY <1>5, <1>6
<1>8. RxBelow'
  <2> SUFFICES ASSUME NEW i \in DOMAIN rx'
               PROVE  /\ rx'[i].run <= run
                      /\ rx'[i].run = run /\ run # 0 => rx'[i].idx < sendIndex
    BY <1>1 DEF RxBelow
  <2>1. CASE rx'[i].run = 0
    BY <1>2, <2>1
  <2>2. CASE rx'[i].run # 0
    BY <1>7, <2>2 DEF RxInv, RxBelow
  <2> QED BY <2>1, <2>2
<1>9. RxInOrder'
  BY <1>7 DEF RxInv, RxInOrder
<1> QED BY <1>8, <1>9 DEF RxInv

\* What the machine has taken away leaves the rest in order.
LEMMA TailInOrder ==
  ASSUME TypeOK, RxInv,
         rx' = rx \/ rx' = <<>> \/ (rx # <<>> /\ rx' = Tail(rx)),
         run' = run /\ sendIndex' >= sendIndex /\ sendIndex' \in Nat
  PROVE  RxInv'
<1>1. rx \in Seq(Entries) /\ run \in Nat /\ sendIndex \in Nat
  BY StreamAssumption DEF TypeOK, QueuesTyped, HistoryTyped, JobTyped, StreamAssumption
<1>2. \A i \in DOMAIN rx : rx[i].idx \in Nat
  BY <1>1, EntryFields
<1>3. \E k \in {0, 1} : \A i \in DOMAIN rx' :
         i \in Nat /\ i + k \in DOMAIN rx /\ rx'[i] = rx[i + k]
  <2>1. CASE rx' = rx
    BY <1>1, <2>1
  <2>2. CASE rx' = <<>>
    BY <2>2
  <2>3. CASE rx # <<>> /\ rx' = Tail(rx)
    <3>1. Len(rx') = Len(rx) - 1 /\ \A i \in 1 .. Len(rx') : rx'[i] = rx[i + 1]
      BY <1>1, <2>3
    <3>2. DOMAIN rx' = 1 .. Len(rx') /\ DOMAIN rx = 1 .. Len(rx)
      BY <1>1, <2>3
    <3> QED BY <1>1, <3>1, <3>2
  <2> QED BY <2>1, <2>2, <2>3
<1>4. PICK k \in {0, 1} : \A i \in DOMAIN rx' :
         i \in Nat /\ i + k \in DOMAIN rx /\ rx'[i] = rx[i + k]
  BY <1>3
<1>5. RxBelow'
  BY <1>1, <1>2, <1>4 DEF RxInv, RxBelow
<1>6. RxInOrder'
  BY <1>4 DEF RxInv, RxInOrder
<1> QED BY <1>5, <1>6 DEF RxInv

\* Every step keeps the buffer in order.
LEMMA RxStep ==
  ASSUME TypeOK, RxInv, [Next]_vars PROVE RxInv'
<1>1. CASE IoSendLine
  BY <1>1, SendInOrder
<1>2. CASE IoDispatchCommands
  BY <1>2, CommandsInOrder
<1>3. CASE UiStartCommit
  <2>1. rx' = rx /\ run' = run + 1
    BY <1>3 DEF UiStartCommit, machine
  <2>2. rx \in Seq(Entries) /\ run \in Nat
    BY DEF TypeOK, QueuesTyped, HistoryTyped
  <2>3. \A i \in DOMAIN rx : rx[i].run \in Nat /\ rx[i].run <= run
    BY <2>2, EntryFields DEF RxInv, RxBelow
  <2>4. RxBelow'
    BY <2>1, <2>2, <2>3 DEF RxBelow
  <2> QED BY <2>1, <2>4 DEF RxInv, RxInOrder
<1>4. CASE ~IoSendLine /\ ~IoDispatchCommands /\ ~UiStartCommit
  <2>1. rx' = rx \/ rx' = <<>> \/ (rx # <<>> /\ rx' = Tail(rx))
    BY <1>4, RxSteps
  <2>2. sendIndex \in Nat
    BY StreamAssumption DEF TypeOK, JobTyped, StreamAssumption
  <2>3. run' = run /\ sendIndex' \in {sendIndex, sendIndex + 1}
    <3>1. CASE UiSkipTool
      BY <3>1 DEF UiSkipTool, Advance
    <3> QED BY <1>4, <3>1, PositionKept
  <2> QED BY <2>1, <2>2, <2>3, TailInOrder
<1> QED BY <1>1, <1>2, <1>3, <1>4

\* Nothing makes sendNextLines send a line twice or out of program order
\* within one stream.
THEOREM StreamInOrder == Spec => []RxInOrder
<1>1. Init => RxInv
  BY DEF Init, RxInv, RxBelow, RxInOrder
<1>2. TypeOK /\ RxInv /\ [Next]_vars => RxInv'
  BY RxStep
<1>3. RxInv => RxInOrder
  BY DEF RxInv
<1> QED BY <1>1, <1>2, <1>3, TypeCorrect, PTL DEF Spec

-----------------------------------------------------------------------------
(* What Bytes computes, and why the booked lines fit.                       *)

\* A set of naturals that is not empty has a least element: the induction the
\* next lemma needs, as a fact without an operator parameter.
LEMMA LeastNatural ==
  ASSUME NEW T, T \subseteq Nat, T # {}
  PROVE  \E x \in T : \A y \in T : x <= y
<1> DEFINE Below == OpToRel(<, Nat)
<1>1. \A x, y \in Nat : <<y, x>> \in Below <=> y < x BY DEF OpToRel
<1>2. IsWellFoundedOn(Below, Nat) BY NatLessThanWellFounded
<1> HIDE DEF Below
<1>3. PICK x \in T : \A y \in T : ~ (<<y, x>> \in Below) BY <1>2, WFMin
<1>4. ASSUME NEW y \in T PROVE x <= y
  <2>1. x \in Nat /\ y \in Nat BY <1>3
  <2>2. ~ (y < x) BY <1>1, <1>3, <2>1
  <2> QED BY <2>1, <2>2
<1> QED BY <1>4

\* A function that meets the equation of Bytes is the one Bytes computes.
LEMMA BytesComputed ==
  ASSUME NEW s \in Seq(Entries), NEW u \in [0 .. Len(s) -> Int],
         u[0] = 0, \A n \in 1 .. Len(s) : u[n] = u[n - 1] + s[n].bytes
  PROVE  Bytes(s) = u[Len(s)]
<1> DEFINE Meets(f) ==
      f = [n \in 0 .. Len(s) |-> IF n = 0 THEN 0 ELSE f[n - 1] + s[n].bytes]
    total == CHOOSE f : Meets(f)
<1>1. Len(s) \in Nat /\ \A n \in 1 .. Len(s) : s[n].bytes \in Nat
  <2>1. \A n \in 1 .. Len(s) : s[n] \in Entries OBVIOUS
  <2> QED BY <2>1 DEF Entries
<1>2. Bytes(s) = total[Len(s)] BY DEF Bytes
<1>3. Meets(u)
  <2>1. u = [n \in 0 .. Len(s) |-> u[n]] OBVIOUS
  <2>2. \A n \in 0 .. Len(s) : u[n] = IF n = 0 THEN 0 ELSE u[n - 1] + s[n].bytes
    <3>1. \A n \in 0 .. Len(s) : n # 0 => n \in 1 .. Len(s) BY <1>1
    <3> QED BY <3>1
  <2> QED BY <2>1, <2>2
<1>4. Meets(total)
  <2> HIDE DEF Meets
  <2> QED BY <1>3
<1>5. \A n \in 0 .. Len(s) :
        total[n] = IF n = 0 THEN 0 ELSE total[n - 1] + s[n].bytes
  <2> HIDE DEF total
  <2> QED BY <1>4
<1> HIDE DEF total, Meets
<1> DEFINE Differ == {n \in 0 .. Len(s) : total[n] # u[n]}
<1>6. Differ = {}
  <2>1. SUFFICES ASSUME Differ # {} PROVE FALSE OBVIOUS
  <2>2. Differ \subseteq Nat OBVIOUS
  <2>3. PICK m \in Differ : \A n \in Differ : m <= n
    <3> HIDE DEF Differ
    <3> QED BY <2>1, <2>2, LeastNatural
  <2>4. m \in 0 .. Len(s) /\ total[m] # u[m] OBVIOUS
  <2>5. m # 0 BY <1>1, <1>5, <2>4
  <2>6. m - 1 \in 0 .. Len(s) /\ m \in 1 .. Len(s) /\ ~(m <= m - 1) BY <1>1, <2>4, <2>5
  <2>7. total[m - 1] = u[m - 1] BY <2>3, <2>6
  <2>8. total[m] = total[m - 1] + s[m].bytes BY <1>5, <2>4, <2>5
  <2>9. u[m] = u[m - 1] + s[m].bytes BY <2>6
  <2> QED BY <2>4, <2>7, <2>8, <2>9
<1>7. Len(s) \in 0 .. Len(s) BY <1>1
<1> QED BY <1>2, <1>6, <1>7

\* When the lines in the receive buffer are the last ones booked, they fit.
LEMMA BookedFits ==
  ASSUME TypeOK, AccountExact, Len(rx) <= Len(sentLengths), TailMatches
  PROVE  Bytes(rx) <= RxBufferSize
<1>1. PICK t \in [0 .. Len(sentLengths) -> 0 .. RxBufferSize] : IsAccount(t)
  BY DEF AccountExact
<1> DEFINE k == Len(rx)
           a == Answered
           u == [n \in 0 .. k |-> t[a] - t[a + n]]
<1>2. /\ rx \in Seq(Entries) /\ sentLengths \in Seq(Nat) /\ RxBufferSize \in Nat
      /\ k \in Nat /\ a \in Nat /\ a + k = Len(sentLengths) /\ DOMAIN rx = 1 .. k
  BY StreamAssumption DEF TypeOK, QueuesTyped, StreamAssumption, Answered
<1>3. \A n \in 0 .. k : a + n \in 0 .. Len(sentLengths) /\ t[a + n] \in 0 .. RxBufferSize
  <2> TAKE n \in 0 .. k
  <2>1. a + n \in 0 .. Len(sentLengths)
    <3> HIDE DEF a, k
    <3> QED BY <1>2
  <2> QED BY <2>1
<1>4. \A n \in 1 .. k : t[a + n - 1] = t[a + n] + rx[n].bytes
  <2> TAKE n \in 1 .. k
  <2>1. a + n \in 1 .. Len(sentLengths)
    <3> HIDE DEF a, k
    <3> QED BY <1>2
  <2>2. t[a + n - 1] = t[a + n] + sentLengths[a + n]
    <3>1. \A i \in 1 .. Len(sentLengths) : t[i - 1] = t[i] + sentLengths[i]
      BY <1>1 DEF IsAccount
    <3>2. PICK i \in 1 .. Len(sentLengths) : i = a + n BY <2>1
    <3>3. t[i - 1] = t[i] + sentLengths[i] BY <3>1
    <3> QED BY <3>2, <3>3
  <2>3. sentLengths[a + n] = rx[n].bytes BY <1>2 DEF TailMatches
  <2> QED BY <2>2, <2>3
<1>5. \A n \in 1 .. k : rx[n].bytes \in Nat
  <2>1. \A n \in 1 .. k : rx[n] \in Entries BY <1>2
  <2> QED BY <2>1 DEF Entries
<1>6. t[a] \in 0 .. RxBufferSize
  <2>1. 0 \in 0 .. k /\ a + 0 = a BY <1>2
  <2> QED BY <1>3, <2>1
<1>7. u \in [0 .. k -> Int] /\ u[0] = 0
  <2>1. \A n \in 0 .. k : t[a] - t[a + n] \in Int BY <1>3, <1>6
  <2>2. 0 \in 0 .. k /\ a + 0 = a BY <1>2
  <2>3. t[a] - t[a + 0] = 0 BY <1>6, <2>2
  <2> QED BY <2>1, <2>2, <2>3
<1>8. \A n \in 1 .. k : u[n] = u[n - 1] + rx[n].bytes
  <2> TAKE n \in 1 .. k
  <2>1. n \in 0 .. k /\ n - 1 \in 0 .. k /\ a + (n - 1) = a + n - 1 BY <1>2
  <2>2. u[n] = t[a] - t[a + n] /\ u[n - 1] = t[a] - t[a + n - 1] BY <2>1
  <2>3. t[a + n] \in Int /\ t[a + n - 1] \in Int BY <1>3, <2>1
  <2> QED BY <1>4, <1>5, <1>6, <2>2, <2>3
<1>9. Bytes(rx) = u[k]
  <2> HIDE DEF u
  <2> QED BY <1>2, <1>7, <1>8, BytesComputed
<1>10. u[k] = t[a] - t[a + k] BY <1>2
<1>11. t[a + k] = 0 BY <1>1, <1>2 DEF IsAccount
<1> QED BY <1>6, <1>9, <1>10, <1>11

-----------------------------------------------------------------------------
(* The books of a stream, kept by each kind of step.                        *)

\* The operator who starts a job only when nothing is under way and sends no
\* string commands into one.
QuietOperator == WaitForQuiet /\ CommandsWhen # "anytime"

\* m gives each answer the length booked for its line; the other conjunct is
\* suspended between the reset and the clearing of the account, and in alarm,
\* when lines are gone and their lengths are not.
Booked(m) == InOrderOf(m) /\ (uiPc # "reset" /\ ~alarmed => Complementary(m))

\* What a stream has in flight and what m_sentLengths says of it.
Books ==
  /\ Len(rx) <= Len(sentLengths) /\ TailMatches
  /\ \E m \in [Answers -> 1 .. Answered] : Booked(m)

LinesBooked == streaming => Books

\* What the six lemmas below need of the queues.
LEMMA QueueFacts ==
  ASSUME TypeOK
  PROVE  /\ rx \in Seq(Entries) /\ sentLengths \in Seq(Nat) /\ replies \in Seq(Replies)
         /\ Len(rx) \in Nat /\ Len(sentLengths) \in Nat /\ Len(replies) \in Nat
         /\ DOMAIN rx = 1 .. Len(rx) /\ DOMAIN replies = 1 .. Len(replies)
         /\ Answers \subseteq 1 .. Len(replies) /\ Answered \in Int
         /\ Answered + Len(rx) = Len(sentLengths)
BY DEF TypeOK, QueuesTyped, Answers, Answered

\* Nothing is answered, sent or read.
LEMMA BooksKept ==
  ASSUME Books, UNCHANGED <<sentLengths, rx, replies>>,
         uiPc' # "reset" /\ ~alarmed' => uiPc # "reset" /\ ~alarmed
  PROVE  Books'
<1>1. PICK m \in [Answers -> 1 .. Answered] : Booked(m) BY DEF Books
<1>2. Answers' = Answers /\ Answered' = Answered BY DEF Answers, Answered
<1>3. Booked(m)' BY <1>1, <1>2 DEF Booked, InOrderOf, Complementary
<1>4. Len(rx') <= Len(sentLengths') /\ TailMatches' BY <1>2 DEF Books, TailMatches
<1> QED BY <1>2, <1>3, <1>4 DEF Books

\* The controller books a line as it sends it.
LEMMA BooksSend ==
  ASSUME TypeOK, Books, NEW e \in Entries,
         rx' = Append(rx, e), sentLengths' = Append(sentLengths, e.bytes),
         UNCHANGED <<replies, uiPc, alarmed>>
  PROVE  Books'
<1>1. PICK m \in [Answers -> 1 .. Answered] : Booked(m) BY DEF Books
<1>2. /\ rx \in Seq(Entries) /\ sentLengths \in Seq(Nat) /\ e.bytes \in Nat
      /\ Len(rx') = Len(rx) + 1 /\ Len(sentLengths') = Len(sentLengths) + 1
      /\ DOMAIN rx' = 1 .. Len(rx) + 1 /\ DOMAIN rx = 1 .. Len(rx)
      /\ Len(rx) \in Nat /\ Len(sentLengths) \in Nat
  BY QueueFacts DEF Entries
<1>3. Answers' = Answers /\ Answered' = Answered BY <1>2 DEF Answers, Answered
<1>4. /\ \A i \in 1 .. Len(rx) : rx'[i] = rx[i]
      /\ rx'[Len(rx) + 1] = e
      /\ \A i \in 1 .. Len(sentLengths) : sentLengths'[i] = sentLengths[i]
      /\ sentLengths'[Len(sentLengths) + 1] = e.bytes
  BY <1>2
<1>5. Answered + Len(rx) = Len(sentLengths) /\ Answered \in Nat
  BY <1>2 DEF Books, Answered
<1>6. TailMatches'
  <2> SUFFICES ASSUME NEW i \in 1 .. Len(rx) + 1
               PROVE  sentLengths'[Answered + i] = rx'[i].bytes
    BY <1>2, <1>3 DEF TailMatches
  <2>1. CASE i = Len(rx) + 1 
    <3>1. Answered + i = Len(sentLengths) + 1 BY <1>2, <1>5, <2>1
    <3> QED BY <1>4, <2>1, <3>1
  <2>2. CASE i \in 1 .. Len(rx)
    <3>1. Answered + i \in 1 .. Len(sentLengths) BY <1>2, <1>5, <2>2
    <3>2. sentLengths[Answered + i] = rx[i].bytes BY <1>2, <2>2 DEF Books, TailMatches
    <3> QED BY <1>4, <2>2, <3>1, <3>2
  <2>3. i = Len(rx) + 1 \/ i \in 1 .. Len(rx) BY <1>2
  <2> QED BY <2>1, <2>2, <2>3
<1>7. Booked(m)'
  <2>1. \A i \in Answers : m[i] \in 1 .. Len(sentLengths) BY <1>2, <1>5
  <2> QED BY <1>1, <1>3, <1>4, <2>1 DEF Booked, InOrderOf, Complementary
<1> QED BY <1>2, <1>3, <1>6, <1>7 DEF Books

\* A notice that is no answer goes behind the answers; with an alarm the
\* machine drops its lines.
LEMMA BooksNotice ==
  ASSUME TypeOK, Books, NEW r, ~IsAnswer(r), replies' = Append(replies, r),
         UNCHANGED <<sentLengths, uiPc>>,
         \/ rx' = rx /\ alarmed' = alarmed
         \/ rx' = <<>> /\ alarmed'
  PROVE  Books'
<1>1. PICK m \in [Answers -> 1 .. Answered] : Booked(m) BY DEF Books
<1>2. Answers' = Answers
  <2>1. /\ DOMAIN replies' = 1 .. Len(replies) + 1 /\ replies'[Len(replies) + 1] = r
        /\ \A i \in 1 .. Len(replies) : replies'[i] = replies[i]
        /\ DOMAIN replies = 1 .. Len(replies) /\ Len(replies) \in Nat
    BY QueueFacts
  <2> QED BY <2>1 DEF Answers
<1>3. \A i \in Answers : replies'[i] = replies[i] BY QueueFacts
<1>4. CASE rx' = rx /\ alarmed' = alarmed
  <2>1. Answered' = Answered /\ Len(rx') <= Len(sentLengths') BY <1>4 DEF Answered, Books
  <2>2. TailMatches' BY <1>4, <2>1 DEF TailMatches, Books
  <2>3. Booked(m)' BY <1>1, <1>2, <1>3, <1>4, <2>1 DEF Booked, InOrderOf, Complementary
  <2> QED BY <1>2, <2>1, <2>2, <2>3 DEF Books
<1>5. CASE rx' = <<>> /\ alarmed'
  <2>1. /\ Len(rx') = 0 /\ DOMAIN rx' = {} /\ Answered' = Len(sentLengths)
        /\ Answered <= Len(sentLengths) /\ Answered \in Int /\ Len(sentLengths) \in Nat
    BY <1>5, QueueFacts DEF Answered
  <2>2. TailMatches' /\ Len(rx') <= Len(sentLengths') BY <2>1 DEF TailMatches
  <2>3. m \in [Answers' -> 1 .. Answered'] BY <1>2, <2>1
  <2>4. Booked(m)' BY <1>1, <1>2, <1>5 DEF Booked, InOrderOf
  <2> QED BY <2>2, <2>3, <2>4 DEF Books
<1> QED BY <1>4, <1>5

\* The machine answers its oldest line: the length of that line is now the
\* last of those before the lines it still holds.
LEMMA BooksAnswer ==
  ASSUME TypeOK, Books, rx # <<>>, rx' = Tail(rx),
         NEW r, IsAnswer(r), r.bytes = Head(rx).bytes, replies' = Append(replies, r),
         UNCHANGED <<sentLengths, uiPc>>, ~alarmed' => ~alarmed
  PROVE  Books'
<1>1. PICK m \in [Answers -> 1 .. Answered] : Booked(m) BY DEF Books
<1> PICK n : n = Len(replies) + 1 OBVIOUS
<1> PICK w : w = [i \in Answers' |-> IF i = n THEN Answered + 1 ELSE m[i]] OBVIOUS
<1>2. /\ Len(rx) \in Nat \ {0} /\ Len(rx') = Len(rx) - 1 /\ Head(rx) = rx[1]
      /\ DOMAIN rx = 1 .. Len(rx) /\ DOMAIN rx' = 1 .. Len(rx) - 1
      /\ \A i \in 1 .. Len(rx) - 1 : rx'[i] = rx[i + 1]
      /\ Len(sentLengths) \in Nat /\ Answered \in Nat
      /\ Answered + Len(rx) = Len(sentLengths)
  BY QueueFacts DEF Books
<1>3. Answered' = Answered + 1 BY <1>2 DEF Answered
<1>4. /\ Len(replies) \in Nat /\ DOMAIN replies = 1 .. Len(replies)
      /\ DOMAIN replies' = 1 .. n /\ replies'[n] = r
      /\ \A i \in 1 .. Len(replies) : replies'[i] = replies[i]
  BY QueueFacts
<1>5. Answers' = Answers \cup {n} /\ n \notin Answers /\ \A i \in Answers : i < n
  BY <1>4 DEF Answers
<1>6. \A i \in Answers : m[i] \in 1 .. Answered BY <1>1
<1>7. w \in [Answers' -> 1 .. Answered'] BY <1>2, <1>3, <1>5, <1>6
<1>8. TailMatches' /\ Len(rx') <= Len(sentLengths')
  <2>1. ASSUME NEW i \in 1 .. Len(rx) - 1 PROVE sentLengths[Answered + 1 + i] = rx'[i].bytes
    <3>1. i + 1 \in DOMAIN rx /\ Answered + (i + 1) = Answered + 1 + i BY <1>2
    <3> QED BY <1>2, <3>1 DEF Books, TailMatches
  <2> QED BY <1>2, <1>3, <2>1 DEF TailMatches
<1>9. Booked(w)'
  <2>1. InOrderOf(w)'
    <3>1. \A i, j \in Answers : i < j => m[i] < m[j] BY <1>1 DEF Booked, InOrderOf
    <3>2. \A i \in Answers : i # n /\ w[i] = m[i] /\ m[i] < Answered + 1 BY <1>2, <1>5, <1>6
    <3>3. w[n] = Answered + 1 BY <1>5
    <3>4. \A i \in Answers : ~(n < i) BY <1>5, <1>4 DEF Answers
    <3>5. ~(n < n) BY <1>4
    <3> QED BY <1>5, <3>1, <3>2, <3>3, <3>4, <3>5 DEF InOrderOf
  <2>2. ASSUME uiPc' # "reset" /\ ~alarmed' PROVE Complementary(w)'
    <3>1. Complementary(m) BY <1>1, <2>2 DEF Booked
    <3>2. /\ {m[i] : i \in Answers} = 1 .. Answered
          /\ \A i \in Answers : sentLengths[m[i]] = replies[i].bytes
      BY <3>1 DEF Complementary
    <3>3. \A i \in Answers : i # n /\ w[i] = m[i] BY <1>5
    <3>4. w[n] = Answered + 1 BY <1>5
    <3>5. {w[i] : i \in Answers'} = {m[i] : i \in Answers} \cup {Answered + 1}
      <4> QED BY <1>5, <3>3, <3>4
    <3>6. 1 .. Answered + 1 = (1 .. Answered) \cup {Answered + 1} BY <1>2
    <3>7. sentLengths[Answered + 1] = r.bytes
      <4>1. 1 \in DOMAIN rx BY <1>2
      <4> QED BY <1>2, <4>1 DEF Books, TailMatches
    <3>8. \A i \in Answers' : sentLengths[w[i]] = replies'[i].bytes
      <4>1. \A i \in Answers : replies'[i] = replies[i] BY <1>4 DEF Answers
      <4> QED BY <1>4, <1>5, <3>2, <3>3, <3>4, <3>7, <4>1 
    <3> QED BY <1>3, <3>2, <3>5, <3>6, <3>8 DEF Complementary
  <2> QED BY <2>1, <2>2 DEF Booked
<1> QED BY <1>7, <1>8, <1>9 DEF Books

\* What is read is the oldest reply; the others move up.
LEMMA RepliesMoveUp ==
  ASSUME TypeOK, replies # <<>>, replies' = Tail(replies)
  PROVE  /\ Answers' = {i \in 1 .. Len(replies) - 1 : i + 1 \in Answers}
         /\ \A i \in Answers' : i + 1 \in Answers /\ replies'[i] = replies[i + 1]
         /\ \A i \in Answers : i # 1 => i - 1 \in Answers'
         /\ 1 \in Answers <=> IsAnswer(Head(replies))
<1>1. /\ Len(replies) \in Nat \ {0} /\ DOMAIN replies = 1 .. Len(replies)
      /\ DOMAIN replies' = 1 .. Len(replies) - 1 /\ Head(replies) = replies[1]
      /\ \A i \in 1 .. Len(replies) - 1 : replies'[i] = replies[i + 1]
  BY QueueFacts
<1>2. \A i \in 1 .. Len(replies) - 1 : i + 1 \in 1 .. Len(replies) BY <1>1
<1>3. Answers' = {i \in 1 .. Len(replies) - 1 : i + 1 \in Answers}
  BY <1>1, <1>2 DEF Answers
<1>4. \A i \in Answers : i \in 1 .. Len(replies) BY <1>1 DEF Answers
<1>5. \A i \in Answers : i # 1 => i - 1 \in Answers'
  <2> TAKE i \in Answers
  <2> HAVE i # 1
  <2>1. i - 1 \in 1 .. Len(replies) - 1 /\ (i - 1) + 1 = i BY <1>1, <1>4
  <2> QED BY <1>3, <2>1
<1>6. 1 \in Answers <=> IsAnswer(Head(replies)) BY <1>1 DEF Answers
<1> QED BY <1>1, <1>3, <1>5, <1>6

\* A notice is read: the answers keep their lengths.
LEMMA BooksRead ==
  ASSUME TypeOK, Books, replies # <<>>, ~IsAnswer(Head(replies)),
         replies' = Tail(replies), UNCHANGED <<sentLengths, rx, uiPc, alarmed>>
  PROVE  Books'
<1>1. PICK m \in [Answers -> 1 .. Answered] : Booked(m) BY DEF Books
<1> PICK w : w = [i \in Answers' |-> m[i + 1]] OBVIOUS
<1>2. Answered' = Answered /\ TailMatches' /\ Len(rx') <= Len(sentLengths')
  BY DEF Answered, TailMatches, Books
<1>3. \A i \in Answers' : w[i] = m[i + 1] /\ i + 1 \in Answers /\ i \in Nat
  <2>1. Answers' \subseteq Nat BY RepliesMoveUp
  <2> QED BY <2>1, RepliesMoveUp
<1>4. w \in [Answers' -> 1 .. Answered'] BY <1>2, <1>3
<1>5. InOrderOf(w)' 
  <2>1. \A i, j \in Answers : i < j => m[i] < m[j] BY <1>1 DEF Booked, InOrderOf
  <2> QED BY <1>3, <2>1 DEF InOrderOf
<1>6. ASSUME uiPc' # "reset" /\ ~alarmed' PROVE Complementary(w)'
  <2>1. /\ {m[i] : i \in Answers} = 1 .. Answered
        /\ \A i \in Answers : sentLengths[m[i]] = replies[i].bytes
    BY <1>1, <1>6 DEF Booked, Complementary
  <2>2. \A i \in Answers : i - 1 \in Answers' /\ w[i - 1] = m[i]
    <3> TAKE i \in Answers
    <3>1. i # 1 /\ i \in Nat BY RepliesMoveUp, QueueFacts
    <3>2. i - 1 \in Answers' /\ (i - 1) + 1 = i BY <3>1, RepliesMoveUp
    <3> QED BY <1>3, <3>2
  <2>3. {w[i] : i \in Answers'} = {m[i] : i \in Answers} BY <1>3, <2>2
  <2>4. \A i \in Answers' : sentLengths[w[i]] = replies'[i].bytes
    BY <1>3, <2>1, RepliesMoveUp
  <2> QED BY <1>2, <2>1, <2>3, <2>4 DEF Complementary
<1> QED BY <1>2, <1>4, <1>5, <1>6 DEF Books, Booked

\* An answer is read and the oldest length popped: it was booked for it.
LEMMA BooksPop ==
  ASSUME TypeOK, Books, replies # <<>>, IsAnswer(Head(replies)),
         replies' = Tail(replies), PopSentLength, UNCHANGED <<rx, uiPc, alarmed>>
  PROVE  Books'
<1>1. PICK m \in [Answers -> 1 .. Answered] : Booked(m) BY DEF Books
<1> PICK w : w = [i \in Answers' |-> m[i + 1] - 1] OBVIOUS
<1>2. \A i \in Answers : m[i] \in 1 .. Answered BY <1>1
<1>3. 1 \in Answers BY RepliesMoveUp
<1>4. Answered \in Nat \ {0} /\ Len(sentLengths) \in Nat \ {0}
  <2>1. Answered \in Int /\ Len(rx) \in Nat /\ Answered + Len(rx) = Len(sentLengths)
    BY QueueFacts
  <2> QED BY <1>2, <1>3, <2>1
<1>5. /\ sentLengths' = Tail(sentLengths) /\ Len(sentLengths') = Len(sentLengths) - 1
      /\ \A i \in 1 .. Len(sentLengths) - 1 : sentLengths'[i] = sentLengths[i + 1]
  <2>1. sentLengths \in Seq(Nat) /\ sentLengths # <<>> BY <1>4, QueueFacts
  <2>2. sentLengths' = Tail(sentLengths) BY <2>1 DEF PopSentLength
  <2> QED BY <2>1, <2>2
<1>6. Answered' = Answered - 1 /\ Answered + Len(rx) = Len(sentLengths) /\ Len(rx) \in Nat
  <2>1. Len(rx) \in Nat /\ Answered + Len(rx) = Len(sentLengths) BY QueueFacts
  <2>2. Answered' = Len(sentLengths') - Len(rx) BY DEF Answered
  <2>3. Len(sentLengths') = Len(sentLengths) - 1 BY <1>5
  <2> QED BY <1>4, <2>1, <2>2, <2>3
<1>7. Len(rx') <= Len(sentLengths') BY <1>4, <1>5, <1>6
<1>8. TailMatches'
  <2> SUFFICES ASSUME NEW i \in 1 .. Len(rx)
               PROVE  sentLengths'[Answered - 1 + i] = rx[i].bytes
    BY <1>6, QueueFacts DEF TailMatches
  <2>1. /\ Answered - 1 + i \in 1 .. Len(sentLengths) - 1
        /\ (Answered - 1 + i) + 1 = Answered + i
    BY <1>4, <1>6
  <2>2. sentLengths[Answered + i] = rx[i].bytes BY QueueFacts DEF Books, TailMatches
  <2> QED BY <1>5, <2>1, <2>2
<1>9. \A i, j \in Answers : i < j => m[i] < m[j] BY <1>1 DEF Booked, InOrderOf
<1>10. \A i \in Answers' :
         /\ w[i] = m[i + 1] - 1 /\ i + 1 \in Answers /\ i \in Nat
         /\ m[i + 1] \in 2 .. Answered /\ replies'[i] = replies[i + 1]
  <2> TAKE i \in Answers'
  <2>1. i + 1 \in Answers /\ i \in Nat \ {0} /\ replies'[i] = replies[i + 1]
    BY RepliesMoveUp, QueueFacts
  <2>2. m[1] < m[i + 1] /\ m[1] \in 1 .. Answered /\ m[i + 1] \in 1 .. Answered
    BY <1>2, <1>3, <1>9, <2>1
  <2>3. m[i + 1] \in 2 .. Answered BY <1>4, <2>2
  <2> QED BY <2>1, <2>3
<1>11. w \in [Answers' -> 1 .. Answered'] BY <1>4, <1>6, <1>10
<1>12. InOrderOf(w)' 
  <2> SUFFICES ASSUME NEW i \in Answers', NEW j \in Answers', i < j PROVE w[i] < w[j]
    BY DEF InOrderOf
  <2>1. m[i + 1] < m[j + 1] BY <1>9, <1>10
  <2> QED BY <1>10, <2>1
<1>13. ASSUME uiPc' # "reset" /\ ~alarmed' PROVE Complementary(w)'
  <2>1. /\ {m[i] : i \in Answers} = 1 .. Answered
        /\ \A i \in Answers : sentLengths[m[i]] = replies[i].bytes
    BY <1>1, <1>13 DEF Booked, Complementary
  <2>2. m[1] = 1
    <3>1. PICK i \in Answers : m[i] = 1
      <4>1. 1 \in 1 .. Answered BY <1>4
      <4> QED BY <2>1, <4>1
    <3>2. i \in Nat \ {0} BY QueueFacts
    <3>3. i = 1 \/ 1 < i BY <3>2
    <3>4. m[1] \in 1 .. Answered BY <1>2, <1>3
    <3>5. 1 < i => m[1] < m[i] BY <1>3, <1>9
    <3> QED BY <3>1, <3>3, <3>4, <3>5
  <2>3. {w[i] : i \in Answers'} = 1 .. Answered'
    <3>1. ASSUME NEW x \in 1 .. Answered - 1 PROVE \E i \in Answers' : w[i] = x
      <4>1. x + 1 \in 1 .. Answered /\ x + 1 # 1 /\ (x + 1) - 1 = x BY <1>4
      <4>2. PICK i \in Answers : m[i] = x + 1 BY <2>1, <4>1
      <4>3. i # 1 /\ i \in Nat BY <2>2, <4>1, <4>2, QueueFacts
      <4>4. i - 1 \in Answers' /\ (i - 1) + 1 = i BY <4>3, RepliesMoveUp
      <4> QED BY <1>10, <4>1, <4>2, <4>4
    <3>2. \A i \in Answers' : w[i] \in 1 .. Answered - 1 BY <1>6, <1>11
    <3> QED BY <1>6, <3>1, <3>2
  <2>4. \A i \in Answers' : sentLengths'[w[i]] = replies'[i].bytes
    <3> TAKE i \in Answers'
    <3>1. m[i + 1] - 1 \in 1 .. Len(sentLengths) - 1 /\ (m[i + 1] - 1) + 1 = m[i + 1]
      BY <1>4, <1>6, <1>10
    <3>2. sentLengths'[m[i + 1] - 1] = sentLengths[m[i + 1]] BY <1>5, <3>1
    <3> QED BY <1>10, <2>1, <3>2
  <2> QED BY <2>3, <2>4 DEF Complementary
<1> QED BY <1>7, <1>8, <1>11, <1>12, <1>13 DEF Books, Booked

\* What drain() leaves of the replies are the last ones.
LEMMA RepliesDropped ==
  ASSUME TypeOK, NEW n \in 0 .. Len(replies),
         replies' = SubSeq(replies, n + 1, Len(replies))
  PROVE  /\ DOMAIN replies' = 1 .. Len(replies) - n
         /\ \A i \in 1 .. Len(replies) - n : replies'[i] = replies[i + n]
<1>1. /\ replies \in Seq(Replies) /\ DOMAIN replies = 1 .. Len(replies)
      /\ n \in Nat /\ n + 1 \in Int /\ Len(replies) \in Nat /\ n <= Len(replies)
  BY QueueFacts
<1>2. \A i \in n + 1 .. Len(replies) : replies[i] \in Replies
  <2>1. \A i \in n + 1 .. Len(replies) : i \in 1 .. Len(replies) BY <1>1
  <2> QED BY <1>1, <2>1
<1>3. /\ SubSeq(replies, n + 1, Len(replies)) \in Seq(Replies)
      /\ Len(SubSeq(replies, n + 1, Len(replies)))
           = IF n + 1 <= Len(replies) THEN Len(replies) - (n + 1) + 1 ELSE 0
      /\ \A i \in 1 .. Len(replies) - (n + 1) + 1 :
           SubSeq(replies, n + 1, Len(replies))[i] = replies[n + 1 + i - 1]
  BY <1>1, <1>2, SubSeqProperties
<1>8. n \in Int /\ Len(replies) \in Int /\ n <= Len(replies) BY <1>1
<1>4. Len(replies) - (n + 1) + 1 = Len(replies) - n BY <1>8
<1>5. ~(n + 1 <= Len(replies)) => Len(replies) - n = 0 BY <1>8
<1>6. replies' \in Seq(Replies) /\ Len(replies') = Len(replies) - n BY <1>3, <1>4, <1>5
<1>7. \A i \in 1 .. Len(replies) - n : n + 1 + i - 1 = i + n BY <1>8
<1>9. DOMAIN replies' = 1 .. Len(replies) - n BY <1>6
<1> QED BY <1>3, <1>4, <1>7, <1>9

\* A reset: the machine drops its lines and the controller some of the answers,
\* and until softReset comes to the account that books too much.
LEMMA BooksReset ==
  ASSUME TypeOK, Books, UNCHANGED <<sentLengths, uiPc>>, uiPc = "reset",
         rx' = <<>>,
         NEW n \in 0 .. Len(replies), replies' = SubSeq(replies, n + 1, Len(replies))
  PROVE  Books'
<1>1. PICK m \in [Answers -> 1 .. Answered] : Booked(m) BY DEF Books
<1> PICK w : w = [i \in Answers' |-> m[i + n]] OBVIOUS
<1>2. /\ Len(rx') = 0 /\ DOMAIN rx' = {} /\ Answered' = Len(sentLengths)
      /\ Answered <= Len(sentLengths) /\ Answered \in Int /\ Len(sentLengths) \in Nat
  BY QueueFacts DEF Answered
<1>3. TailMatches' /\ Len(rx') <= Len(sentLengths') BY <1>2 DEF TailMatches
<1>4. \A i \in Answers' : i + n \in Answers /\ i \in Nat
  <2>1. /\ replies \in Seq(Replies) /\ Len(replies) \in Nat /\ n \in Nat
        /\ DOMAIN replies = 1 .. Len(replies)
    BY QueueFacts
  <2>3. /\ DOMAIN replies' = 1 .. Len(replies) - n
        /\ \A i \in 1 .. Len(replies) - n : replies'[i] = replies[i + n]
    BY RepliesDropped
  <2>4. \A i \in 1 .. Len(replies) - n : i \in Nat /\ i + n \in 1 .. Len(replies) BY <2>1
  <2> QED BY <2>1, <2>3, <2>4 DEF Answers
<1>5. \A i \in Answers' : w[i] = m[i + n] /\ m[i + n] \in 1 .. Len(sentLengths)
  BY <1>1, <1>2, <1>4
<1>6. w \in [Answers' -> 1 .. Answered'] BY <1>2, <1>5
<1>7. InOrderOf(w)'
  <2>1. \A i, j \in Answers : i < j => m[i] < m[j] BY <1>1 DEF Booked, InOrderOf
  <2>2. \A i, j \in Answers' : i < j => i + n < j + n BY <1>4
  <2> QED BY <1>4, <1>5, <2>1, <2>2 DEF InOrderOf
<1> QED BY <1>3, <1>6, <1>7 DEF Books, Booked

\* A job begins with nothing in flight.
LEMMA BooksEmpty ==
  ASSUME sentLengths' = <<>>, rx' = <<>>, Answers' = {}
  PROVE  Books'
<1>1. /\ Len(rx') = 0 /\ Len(sentLengths') = 0 /\ DOMAIN rx' = {} /\ Answered' = 0
      /\ 1 .. 0 = {}
  BY DEF Answered
<1> PICK w : w = [i \in {} |-> 0] OBVIOUS
<1>2. w \in [Answers' -> 1 .. Answered'] OBVIOUS
<1>4. TailMatches' /\ Len(rx') <= Len(sentLengths') BY <1>1 DEF TailMatches
<1>3. InOrderOf(w)' /\ Complementary(w)' BY <1>1 DEF InOrderOf, Complementary
<1> QED BY <1>2, <1>3, <1>4 DEF Books, Booked

-----------------------------------------------------------------------------
(* What the quiet operator brings about.                                    *)

\* Nothing of an earlier job is in flight when startStream has passed its checks:
\* no line, no answer, no command, no reset, and the IO thread sends nothing.
StartIsQuiet ==
  uiPc = "start" =>
    /\ ~streaming /\ rx = <<>> /\ commands = <<>> /\ rtPending = {}
    /\ Answers = {} /\ ioPc # "send"

\* sendNextLines goes on after a stream has ended only where somebody is about to
\* reset the machine or has asked for it.
SendingEnds ==
  ioPc = "send" /\ ~streaming => uiPc \in {"hold", "cleared"} \/ rtPending # {}

\* A reset on its way while m_streaming is still set is that of a softReset which
\* has not come to clear it, and drain() leaves no length behind.
ResetEnds ==
  /\ streaming /\ "reset" \in rtPending => uiPc = "reset"
  /\ uiPc = "cleared" => ~streaming
  /\ ioPc = "drop" /\ streaming => sentLengths = <<>>

\* The lines in the receive buffer are those of this stream, and no string command
\* is among them.
OwnLines ==
  streaming =>
    /\ commands = <<>> /\ run > 0
    /\ \A i \in DOMAIN rx : rx[i].run = run /\ rx[i].kind # "unlock"

\* The inductive invariant of the quiet operator.
QuietInv == StartIsQuiet /\ SendingEnds /\ ResetEnds /\ OwnLines /\ LinesBooked

\* An empty m_pendingStringCmds sends nothing.
LEMMA CommandsAreNone ==
  ASSUME commands = <<>>
  PROVE  [i \in DOMAIN commands |-> CommandEntry(commands[i])] = <<>>
<1>1. DOMAIN commands = {} OBVIOUS
<1> QED BY <1>1

\* Between the checks of startStream and its commit the UI thread does nothing else.
LEMMA WhileStarting ==
  ASSUME [Next]_vars, uiPc = "start"
  PROVE  UiStartCommit \/ IoNext \/ MachineNext \/ UNCHANGED vars
BY DEF Next, UiNext, UiFinish, UiStartCheck, UiCommand, UiStop, UiHold, UiHeld,
   UiCycleStart, UiResumed, UiReset, UiResetFlags, UiResetClear,
   UiAcknowledgeError, UiAcknowledgeTool, UiSkipTool, Operate

\* What is said to be in flight when a job is being started stays as it is.
LEMMA AppendNotice ==
  ASSUME TypeOK, NEW r, ~IsAnswer(r), replies' = Append(replies, r)
  PROVE  Answers' = Answers
<1>1. /\ DOMAIN replies' = 1 .. Len(replies) + 1 /\ replies'[Len(replies) + 1] = r
      /\ \A i \in 1 .. Len(replies) : replies'[i] = replies[i]
      /\ DOMAIN replies = 1 .. Len(replies) /\ Len(replies) \in Nat
  BY QueueFacts
<1> QED BY <1>1 DEF Answers

\* Status and alarm reports answer no line.
LEMMA StatusIsNotice == ~IsAnswer(Status(MachineState)) /\ ~IsAnswer(AlarmReport)
BY DEF Status, MachineState, IsAnswer, AlarmReport

\* The operator waited, and until the commit only reports and polls happen.
LEMMA StartStep ==
  ASSUME QuietOperator, TypeOK, StartIsQuiet, SendingEnds, [Next]_vars
  PROVE  StartIsQuiet'
<1>1. ASSUME NEW p \in Programs, UiStartCheck(p) PROVE StartIsQuiet'
  <2>1. /\ rx = <<>> /\ replies = <<>> /\ commands = <<>> /\ rtPending = {}
        /\ ~streaming /\ uiPc = "idle"
    BY <1>1 DEF UiStartCheck, StartEnabled, Quiet, QuietOperator, StartAllowed, Operate
  <2>2. UNCHANGED <<streaming, rx, replies, commands, rtPending, ioPc>>
    BY <1>1 DEF UiStartCheck, flags, rest, machine
  <2>3. Answers' = {} BY <2>1, <2>2 DEF Answers
  <2>4. ioPc # "send" BY <2>1 DEF SendingEnds
  <2> QED BY <2>1, <2>2, <2>3, <2>4 DEF StartIsQuiet
<1>2. CASE uiPc = "start"
  <2> USE <1>2 DEF StartIsQuiet
  <2>1. CASE UiStartCommit BY <2>1 DEF UiStartCommit
  <2>2. CASE IoDispatchReset BY <2>2 DEF IoDispatchReset
  <2>3. CASE IoDispatchRt
    BY <2>3 DEF IoDispatchRt, flags, Answers
  <2>4. CASE IoDispatchCommands
    <3>1. [i \in DOMAIN commands |-> CommandEntry(commands[i])] = <<>>
      BY CommandsAreNone
    <3> QED BY <2>4, <3>1 DEF IoDispatchCommands, flags, Answers
  <2>5. CASE IoReadNothing \/ IoDrop \/ IoRaiseError \/ IoDropClear \/ IoSendDone \/ PortDown
             \/ UNCHANGED vars
    BY <2>5 DEF IoReadNothing, IoDrop, IoRaiseError, IoDropClear, IoSendDone, PortDown,
       vars, controller, rest, flags, machine, Answers
  <2>6. CASE IoReadStatus \/ IoReadAlarm \/ IoReadAck
    <3>1. replies # <<>> /\ replies' = Tail(replies)
      BY <2>6 DEF IoReadStatus, IoReadAlarm, IoReadAck, Receive
    <3>2. Answers' = {} BY <3>1, RepliesMoveUp
    <3> QED BY <2>6, <3>2 DEF IoReadStatus, IoReadAlarm, IoReadAck, flags, ui
  <2>7. CASE IoReadStreamError \/ IoSendLine \/ MachineLine
    BY <2>7 DEF IoReadStreamError, IoSendLine, MachineLine
  <2>8. CASE IoPollAndCheck
    <3>1. Answers' = {}
      BY <2>8, AppendNotice, StatusIsNotice DEF IoPollAndCheck, Answers
    <3> QED BY <2>8, <3>1 DEF IoPollAndCheck, MaySend, flags, ui
  <2>9. CASE MachineAlarm
    <3>1. Answers' = {} BY <2>9, AppendNotice, StatusIsNotice DEF MachineAlarm
    <3> QED BY <2>9, <3>1 DEF MachineAlarm, controller, flags, ui
  <2> QED BY <2>1, <2>2, <2>3, <2>4, <2>5, <2>6, <2>7, <2>8, <2>9, WhileStarting
          DEF IoNext, IoDispatch, IoRead, MachineNext
<1>3. CASE uiPc # "start" /\ ~\E p \in Programs : UiStartCheck(p)
  <2>1. uiPc' # "start"
    BY <1>3, NextSplit DEF Elsewhere, UiCommand, UiStop, UiHold, UiHeld,
       UiCycleStart, UiResumed, UiReset, UiResetFlags, UiResetClear, UiSkipTool,
       UiStartCommit, UiAcknowledgeError, UiAcknowledgeTool, IoDispatchReset, IoDispatchRt,
       IoDispatchCommands, IoReadNothing, IoReadStatus, IoReadAlarm, IoReadAck,
       IoReadStreamError, IoRaiseError, IoDrop, IoDropClear, IoPollAndCheck, IoSendLine,
       IoSendDone, MachineLine, MachineAlarm, PortDown, vars, controller, ui, Operate
  <2> QED BY <2>1 DEF StartIsQuiet
<1> QED BY <1>1, <1>2, <1>3

\* A stream that ends while the IO thread sends ends by a stop or a reset.
LEMMA SendingStep ==
  ASSUME QuietOperator, TypeOK, SendingEnds, [Next]_vars
  PROVE  SendingEnds'
<1>1. ASSUME NEW p \in Programs, UiStartCheck(p) PROVE SendingEnds'
  BY <1>1 DEF UiStartCheck, StartEnabled, Quiet, QuietOperator, SendingEnds, Operate,
     StartAllowed, flags
<1>2. CASE ~\E p \in Programs : UiStartCheck(p)
  <2>1. ioPc' = "send" /\ ~streaming' => uiPc' \in {"hold", "cleared"} \/ rtPending' # {}
  BY <1>2, NextSplit DEF SendingEnds, Elsewhere, UiCommand, UiStop, UiHold, UiHeld,
       UiCycleStart, UiResumed, UiReset, UiResetFlags, UiResetClear, UiSkipTool,
       UiStartCommit, UiAcknowledgeError, UiAcknowledgeTool, IoDispatchReset, IoDispatchRt,
       IoDispatchCommands, IoReadNothing, IoReadStatus, IoReadAlarm, IoReadAck,
       IoReadStreamError, IoRaiseError, IoDrop, IoDropClear, IoPollAndCheck, IoSendLine,
       IoSendDone, MachineLine, MachineAlarm, PortDown, vars, controller, ui, flags, Operate,
       MaySend, StreamMutexFree
  <2> QED BY <2>1 DEF SendingEnds
<1> QED BY <1>1, <1>2

\* A reset is asked for by softReset, which clears m_streaming right after.
LEMMA ResetStep ==
  ASSUME QuietOperator, TypeOK, StartIsQuiet, ResetEnds, [Next]_vars
  PROVE  ResetEnds'
<1>1. streaming' /\ "reset" \in rtPending' => uiPc' = "reset"
  <2>1. CASE UiStartCommit BY <2>1 DEF UiStartCommit, StartIsQuiet
  <2>2. CASE UiReset BY <2>2 DEF UiReset
  <2>3. CASE ~UiStartCommit /\ ~UiReset
    <3>1. streaming' => streaming
      BY <2>3, NextSplit DEF Elsewhere, UiStartCheck, UiCommand, UiStop, UiHold, UiHeld,
       UiCycleStart, UiResumed, UiReset, UiResetFlags, UiResetClear, UiSkipTool,
       UiAcknowledgeError, UiAcknowledgeTool, IoDispatchReset, IoDispatchRt,
       IoDispatchCommands, IoReadNothing, IoReadStatus, IoReadAlarm, IoReadAck,
       IoReadStreamError, IoRaiseError, IoDrop, IoDropClear, IoPollAndCheck, IoSendLine,
       IoSendDone, MachineLine, MachineAlarm, PortDown, vars, controller, ui, flags
    <3>2. streaming' => ("reset" \in rtPending' => "reset" \in rtPending)
      <4>1. CASE UiHold BY <4>1 DEF UiHold
      <4>2. CASE UiCycleStart BY <4>2 DEF UiCycleStart
      <4>3. CASE IoReadStreamError BY <4>3 DEF IoReadStreamError
      <4>4. CASE ~UiHold /\ ~UiCycleStart /\ ~IoReadStreamError
        <5>1. rtPending' = rtPending \/ rtPending' = {}
          BY <2>3, <4>4, NextSplit DEF Elsewhere, UiStartCheck, UiCommand, UiStop, UiHeld,
             UiResumed, UiResetFlags, UiResetClear, UiSkipTool,
             UiAcknowledgeError, UiAcknowledgeTool, IoDispatchReset, IoDispatchRt,
             IoDispatchCommands, IoReadNothing, IoReadStatus, IoReadAlarm, IoReadAck,
             IoRaiseError, IoDrop, IoDropClear, IoPollAndCheck, IoSendLine,
             IoSendDone, MachineLine, MachineAlarm, PortDown, vars, controller
        <5> QED BY <5>1
      <4> QED BY <4>1, <4>2, <4>3, <4>4
    <3>3. streaming' /\ uiPc = "reset" => uiPc' = "reset"
      BY <2>3, NextSplit DEF Elsewhere, UiStartCommit, Operate,
       UiStartCheck, UiCommand, UiStop, UiHold, UiHeld,
       UiCycleStart, UiResumed, UiReset, UiResetFlags, UiResetClear, UiSkipTool,
       UiAcknowledgeError, UiAcknowledgeTool, IoDispatchReset, IoDispatchRt,
       IoDispatchCommands, IoReadNothing, IoReadStatus, IoReadAlarm, IoReadAck,
       IoReadStreamError, IoRaiseError, IoDrop, IoDropClear, IoPollAndCheck, IoSendLine,
       IoSendDone, MachineLine, MachineAlarm, PortDown, vars, controller, ui, flags
    <3> QED BY <3>1, <3>2, <3>3 DEF ResetEnds
  <2> QED BY <2>1, <2>2, <2>3
<1>2. uiPc' = "cleared" => ~streaming'
  BY NextSplit DEF StartIsQuiet, ResetEnds, Elsewhere, UiStartCheck, UiCommand, UiStop, UiHold, UiHeld,
       UiCycleStart, UiResumed, UiReset, UiResetFlags, UiResetClear, UiSkipTool,
       UiStartCommit, UiAcknowledgeError, UiAcknowledgeTool, IoDispatchReset, IoDispatchRt,
       IoDispatchCommands, IoReadNothing, IoReadStatus, IoReadAlarm, IoReadAck,
       IoReadStreamError, IoRaiseError, IoDrop, IoDropClear, IoPollAndCheck, IoSendLine,
       IoSendDone, MachineLine, MachineAlarm, PortDown, vars, controller, ui, flags, Operate
<1>3. ioPc' = "drop" /\ streaming' => sentLengths' = <<>>
  <2>1. CASE Elsewhere 
    <3>1. sentLengths' = sentLengths BY <2>1, ElsewhereKeepsAccount
    <3>2. ioPc' = "drop" /\ streaming' => ioPc = "drop" /\ streaming
      BY <2>1 DEF Elsewhere, UiStartCheck, UiCommand, UiStop, UiHold, UiHeld,
       UiCycleStart, UiResumed, UiReset, UiResetFlags, UiSkipTool,
       UiAcknowledgeError, UiAcknowledgeTool, IoDispatchReset, IoDispatchRt,
       IoDispatchCommands, IoReadNothing, IoReadStatus, IoReadAlarm, IoRaiseError, IoDrop,
       IoPollAndCheck, IoSendDone, MachineLine, MachineAlarm, PortDown, vars, controller, ui, flags
    <3> QED BY <3>1, <3>2 DEF ResetEnds
  <2>2. CASE IoReadAck \/ IoReadStreamError \/ IoDropClear \/ IoSendLine
    BY <2>2 DEF IoReadAck, IoReadStreamError, IoDropClear, IoSendLine
  <2>3. CASE UiStartCommit \/ UiResetClear
    BY <2>3 DEF UiStartCommit, UiResetClear, ClearAccount
  <2> QED BY <2>1, <2>2, <2>3, NextSplit
<1> QED BY <1>1, <1>2, <1>3 DEF ResetEnds

\* Only startStream lets a stream begin.
LEMMA StreamGoesOn ==
  ASSUME [Next]_vars, streaming', ~UiStartCommit
  PROVE  /\ streaming /\ run' = run
         /\ uiPc = "reset" => uiPc' = "reset"
<1>1. streaming /\ run' = run
  BY NextSplit DEF Elsewhere, UiStartCheck, UiCommand, UiStop, UiHold, UiHeld,
     UiCycleStart, UiResumed, UiReset, UiResetFlags, UiResetClear, UiSkipTool,
     UiAcknowledgeError, UiAcknowledgeTool, IoDispatchReset, IoDispatchRt,
     IoDispatchCommands, IoReadNothing, IoReadStatus, IoReadAlarm, IoReadAck,
     IoReadStreamError, IoRaiseError, IoDrop, IoDropClear, IoPollAndCheck, IoSendLine,
     IoSendDone, MachineLine, MachineAlarm, PortDown, vars, controller, flags, rest, history
<1>2. uiPc = "reset" => uiPc' = "reset"
  BY NextSplit DEF Elsewhere, UiStartCheck, UiCommand, UiStop, UiHold, UiHeld,
     UiCycleStart, UiResumed, UiReset, UiResetFlags, UiResetClear, UiSkipTool,
     UiAcknowledgeError, UiAcknowledgeTool, IoDispatchReset, IoDispatchRt,
     IoDispatchCommands, IoReadNothing, IoReadStatus, IoReadAlarm, IoReadAck,
     IoReadStreamError, IoRaiseError, IoDrop, IoDropClear, IoPollAndCheck, IoSendLine,
     IoSendDone, MachineLine, MachineAlarm, PortDown, vars, controller, ui, Operate
<1> QED BY <1>1, <1>2

\* What sendNextLines sends is booked with its bytes and is a line of this stream.
LEMMA LineSent ==
  ASSUME TypeOK, IoSendLine
  PROVE  LET e == LineEntry(sendIndex) IN
         /\ e \in Entries /\ e.run = run /\ e.idx = sendIndex /\ e.kind # "unlock"
         /\ rx' = Append(rx, e) /\ sentLengths' = Append(sentLengths, e.bytes)
         /\ sendIndex \in 0 .. Len(program) - 1 /\ sendIndex' = sendIndex + 1
<1>1. sendIndex \in 0 .. Len(program) - 1
  BY StreamAssumption DEF IoSendLine, CanSend, TypeOK, JobTyped, StreamAssumption
<1>2. program[sendIndex + 1] \in Line /\ LineEntry(sendIndex) \in Entries
  BY <1>1, ProgramLine
<1>3. program[sendIndex + 1].kind \in LineKinds BY <1>2 DEF Line
<1>4. LineEntry(sendIndex).kind # "unlock" BY <1>3 DEF LineEntry, LineKinds
<1>5. LineEntry(sendIndex).bytes = LineBytes(NextLine)
  BY DEF LineEntry, LineBytes, NextLine
<1> QED BY <1>1, <1>2, <1>4, <1>5 DEF IoSendLine, LineEntry, Advance

\* Only sendNextLines adds lines while a stream is on, and they carry its number.
LEMMA OwnStep ==
  ASSUME QuietOperator, TypeOK, StartIsQuiet, OwnLines, [Next]_vars
  PROVE  OwnLines'
<1> SUFFICES ASSUME streaming'
             PROVE  /\ commands' = <<>> /\ run' > 0
                    /\ \A i \in DOMAIN rx' : rx'[i].run = run' /\ rx'[i].kind # "unlock"
  BY DEF OwnLines
<1>1. CASE UiStartCommit
  <2>1. rx' = <<>> /\ commands' = <<>> /\ run' = run + 1
    BY <1>1 DEF UiStartCommit, StartIsQuiet, machine
  <2>2. run \in Nat BY DEF TypeOK, HistoryTyped
  <2> QED BY <2>1, <2>2
<1>2. CASE ~UiStartCommit
  <2>1. streaming /\ run' = run BY <1>2, StreamGoesOn
  <2>2. /\ commands = <<>> /\ run > 0
        /\ \A i \in DOMAIN rx : rx[i].run = run /\ rx[i].kind # "unlock"
    BY <2>1 DEF OwnLines
  <2>3. commands' = <<>>
    <3>1. commands' = commands \/ commands' = <<>> \/ \E c \in Commands : UiCommand(c)
      BY <1>2, NextSplit DEF Elsewhere, UiStartCheck, UiStop, UiHold, UiHeld,
         UiCycleStart, UiResumed, UiReset, UiResetFlags, UiResetClear, UiSkipTool,
         UiAcknowledgeError, UiAcknowledgeTool, IoDispatchReset, IoDispatchRt,
         IoDispatchCommands, IoReadNothing, IoReadStatus, IoReadAlarm, IoReadAck,
         IoReadStreamError, IoRaiseError, IoDrop, IoDropClear, IoPollAndCheck, IoSendLine,
         IoSendDone, MachineLine, MachineAlarm, PortDown, vars, controller, rest
    <3> QED BY <2>1, <2>2, <3>1 DEF UiCommand, QuietOperator
  <2>4. rx \in Seq(Entries) /\ DOMAIN rx = 1 .. Len(rx) /\ Len(rx) \in Nat BY QueueFacts
  <2>5. CASE IoDispatchCommands
    <3>1. rx' = rx BY <2>2, <2>4, <2>5, CommandsAreNone DEF IoDispatchCommands
    <3> QED BY <2>1, <2>2, <2>3, <3>1
  <2>6. CASE IoSendLine
    <3> PICK e : e = LineEntry(sendIndex) OBVIOUS
    <3>1. e.run = run /\ e.kind # "unlock" /\ rx' = Append(rx, e) /\ e \in Entries
      BY <2>6, LineSent
    <3>2. /\ DOMAIN rx' = 1 .. Len(rx) + 1 /\ rx'[Len(rx) + 1] = e
          /\ \A i \in 1 .. Len(rx) : rx'[i] = rx[i]
      BY <2>4, <3>1
    <3> QED BY <2>1, <2>2, <2>3, <2>4, <3>1, <3>2
  <2>7. CASE rx' = rx BY <2>1, <2>2, <2>3, <2>7
  <2>8. CASE rx' = <<>> BY <2>1, <2>2, <2>3, <2>8
  <2>9. CASE rx # <<>> /\ rx' = Tail(rx)
    <3>1. /\ DOMAIN rx' = 1 .. Len(rx) - 1
          /\ \A i \in 1 .. Len(rx) - 1 : rx'[i] = rx[i + 1] /\ i + 1 \in DOMAIN rx
      BY <2>4, <2>9
    <3> QED BY <2>1, <2>2, <2>3, <3>1
  <2> QED BY <2>5, <2>6, <2>7, <2>8, <2>9, RxSteps
<1> QED BY <1>1, <1>2

\* Every step keeps the books of a stream: a line is booked as it is sent, answered
\* lines keep their lengths, and an answer read pops the oldest.
LEMMA BookStep ==
  ASSUME QuietOperator, TypeOK, QuietInv, [Next]_vars
  PROVE  LinesBooked'
<1> SUFFICES ASSUME streaming' PROVE Books'
  BY DEF LinesBooked
<1> USE DEF QuietInv
<1>1. CASE UiStartCommit
  <2>1. rx' = <<>> /\ sentLengths' = <<>> /\ Answers = {} /\ replies' = replies
    BY <1>1 DEF UiStartCommit, StartIsQuiet, ClearAccount, machine
  <2> QED BY <2>1, BooksEmpty DEF Answers
<1>2. CASE ~UiStartCommit
  <2>1. streaming /\ Books /\ (uiPc = "reset" => uiPc' = "reset")
    BY <1>2, StreamGoesOn DEF LinesBooked
  <2>2. CASE IoSendLine
    BY <2>1, <2>2, LineSent, BooksSend DEF IoSendLine, ui
  <2>3. CASE MachineLine
    <3>1. /\ rx # <<>> /\ rx' = Tail(rx)
          /\ \E a \in {"ok", "error"} : replies' = Append(replies, Answer(a, Head(rx)))
          /\ UNCHANGED <<sentLengths, uiPc>>
      BY <2>3 DEF MachineLine, controller, buffer, ui
    <3>2. ~alarmed' => ~alarmed
      <4>1. 1 \in DOMAIN rx /\ Head(rx) = rx[1] BY <3>1, QueueFacts
      <4>2. Head(rx).kind # "unlock" BY <2>1, <4>1 DEF OwnLines
      <4> QED BY <2>3, <4>2 DEF MachineLine
    <3>3. \A a \in {"ok", "error"} : 
            IsAnswer(Answer(a, Head(rx))) /\ Answer(a, Head(rx)).bytes = Head(rx).bytes
      BY DEF IsAnswer, Answer
    <3> QED BY <2>1, <3>1, <3>2, <3>3, BooksAnswer
  <2>4. CASE MachineAlarm
    BY <2>1, <2>4, StatusIsNotice, BooksNotice DEF MachineAlarm, controller, buffer, ui
  <2>5. CASE IoDispatchReset
    <3>1. uiPc = "reset" /\ UNCHANGED <<sentLengths, uiPc>>
      BY <2>1, <2>5 DEF IoDispatchReset, ResetEnds, buffer, ui
    <3>2. CASE portUp BY <2>1, <2>5, <3>1, <3>2, BooksReset DEF IoDispatchReset
    <3>3. CASE ~portUp
      BY <2>1, <2>5, <3>1, <3>3, BooksKept DEF IoDispatchReset, machine
    <3> QED BY <3>2, <3>3
  <2>6. CASE IoReadStatus
    <3>1. /\ replies # <<>> /\ replies' = Tail(replies) /\ Head(replies).type \in MachineStates
          /\ UNCHANGED <<sentLengths, rx, uiPc, alarmed>>
      BY <2>6 DEF IoReadStatus, Receive, buffer, ui
    <3>2. ~IsAnswer(Head(replies)) BY <3>1 DEF IsAnswer, MachineStates
    <3> QED BY <2>1, <3>1, <3>2, BooksRead
  <2>7. CASE IoReadAck
    <3>1. /\ replies # <<>> /\ replies' = Tail(replies) /\ Head(replies).type = "ok"
          /\ PopSentLength /\ UNCHANGED <<rx, uiPc, alarmed>>
      BY <2>1, <2>7 DEF IoReadAck, Receive, ui
    <3>2. IsAnswer(Head(replies)) BY <3>1 DEF IsAnswer
    <3> QED BY <2>1, <3>1, <3>2, BooksPop
  <2>8. CASE IoReadAlarm \/ IoReadStreamError \/ UiResetFlags
    BY <2>8 DEF IoReadAlarm, IoReadStreamError, UiResetFlags
  <2>9. CASE IoPollAndCheck
    <3>1. UNCHANGED <<sentLengths, rx, uiPc, alarmed>>
      BY <2>9 DEF IoPollAndCheck, buffer, ui
    <3>2. CASE replies' = replies BY <2>1, <3>1, <3>2, BooksKept
    <3>3. CASE replies' = Append(replies, Status(MachineState))
      BY <2>1, <3>1, <3>3, StatusIsNotice, BooksNotice
    <3> QED BY <2>9, <3>2, <3>3 DEF IoPollAndCheck
  <2>10. CASE IoDispatchCommands
    <3>1. commands = <<>> /\ rx \in Seq(Entries) BY <2>1, QueueFacts DEF OwnLines
    <3>2. rx' = rx BY <2>10, <3>1, CommandsAreNone DEF IoDispatchCommands
    <3> QED BY <2>1, <2>10, <3>2, BooksKept DEF IoDispatchCommands, buffer, ui
  <2>11. CASE IoDropClear
    BY <2>1, <2>11, BooksKept DEF IoDropClear, ClearAccount, ResetEnds, machine, ui
  <2>12. CASE UiResetClear
    BY <2>1, <2>12 DEF UiResetClear, ResetEnds
  <2>13. CASE \/ \E p \in Programs : UiStartCheck(p)
              \/ \E c \in Commands : UiCommand(c)
              \/ UiStop \/ UiHold \/ UiHeld \/ UiCycleStart \/ UiResumed \/ UiReset
              \/ UiAcknowledgeError \/ UiAcknowledgeTool \/ UiSkipTool
              \/ IoDispatchRt \/ IoReadNothing \/ IoRaiseError \/ IoDrop
              \/ IoSendDone \/ PortDown \/ UNCHANGED vars
    <3>1. UNCHANGED <<sentLengths, rx, replies, alarmed>>
      BY <2>13 DEF UiStartCheck, UiCommand, UiStop, UiHold, UiHeld, UiCycleStart,
         UiResumed, UiReset, UiAcknowledgeError, UiAcknowledgeTool, UiSkipTool,
         IoDispatchRt, IoReadNothing, IoRaiseError, IoDrop, IoSendDone, PortDown,
         vars, controller, rest, buffer, machine
    <3> QED BY <2>1, <3>1, BooksKept
  <2> QED BY <1>2, <2>2, <2>3, <2>4, <2>5, <2>6, <2>7, <2>8, <2>9, <2>10, <2>11,
             <2>12, <2>13, NextSplit DEF Elsewhere
<1> QED BY <1>1, <1>2

\* Nothing is under way at the start.
LEMMA QuietInit == Init => QuietInv
BY DEF Init, QuietInv, StartIsQuiet, SendingEnds, ResetEnds, OwnLines, LinesBooked

\* Every step keeps the invariant.
LEMMA QuietStep == QuietOperator /\ TypeOK /\ QuietInv /\ [Next]_vars => QuietInv'
BY StartStep, SendingStep, ResetStep, OwnStep, BookStep DEF QuietInv

\* For an operator who starts a job only when nothing is under way and sends no
\* string commands into it, sendNextLines never lets the machine's receive buffer
\* overflow, and processResponse pops for every answer the length of the line it
\* answers, through alarms, resets and lost ports.
THEOREM BufferRespected ==
  ASSUME QuietOperator PROVE Spec => []RxWithinBuffer
<1>1. TypeOK /\ QuietInv /\ [Next]_vars => QuietInv' BY QuietStep
<1>2. StreamInv /\ QuietInv => RxWithinBuffer
  <2> SUFFICES ASSUME StreamInv, QuietInv, streaming
               PROVE  /\ Bytes(rx) <= RxBufferSize
                      /\ uiPc # "reset" /\ ~alarmed => LengthsMatch
    BY DEF RxWithinBuffer
  <2>1. Books BY DEF QuietInv, LinesBooked
  <2>2. Bytes(rx) <= RxBufferSize BY <2>1, BookedFits DEF StreamInv, Books
  <2>3. uiPc # "reset" /\ ~alarmed => LengthsMatch BY <2>1 DEF Books, Booked, LengthsMatch
  <2> QED BY <2>2, <2>3
<1> QED BY <1>1, <1>2, QuietInit, TypeCorrect, StreamInvariant, PTL DEF Spec

-----------------------------------------------------------------------------
(* The acknowledgements counted.                                            *)

\* The acknowledgements on their way.
Oks == {i \in DOMAIN replies : replies[i].type = "ok"}

\* m_ackIndex and the acknowledgements still to be read never count more lines than
\* the machine has executed, and those are before the lines it still holds.
AcksCounted ==
  streaming =>
    /\ executed \subseteq 0 .. sendIndex - 1
    /\ \A x \in executed : \A i \in DOMAIN rx : x < rx[i].idx
    /\ ackIndex + Cardinality(Oks) <= Cardinality(executed)

\* There are finitely many of them.
LEMMA OksFinite ==
  ASSUME TypeOK
  PROVE  /\ Oks \subseteq 1 .. Len(replies) /\ IsFiniteSet(Oks) /\ Cardinality(Oks) \in Nat
<1>1. Oks \subseteq 1 .. Len(replies) BY QueueFacts DEF Oks
<1>2. IsFiniteSet(1 .. Len(replies)) BY QueueFacts, FS_Interval
<1> QED BY <1>1, <1>2, FS_Subset, FS_CardinalityType

\* A reading is never mistaken for a writing.
LEMMA TailIsNoAppend ==
  ASSUME TypeOK, replies # <<>>
  PROVE  Tail(replies) # replies /\ \A r : Tail(replies) # Append(replies, r)
<1>1. replies \in Seq(Replies) BY QueueFacts
<1> PICK k : k = Len(replies) OBVIOUS
<1> PICK t : t = Tail(replies) OBVIOUS
<1> PICK l : l = Len(t) OBVIOUS
<1>2. k \in Nat \ {0} /\ l = k - 1 BY <1>1
<1>3. ASSUME NEW r PROVE t # Append(replies, r)
  <2>1. replies \in Seq(Replies \cup {r}) BY <1>1
  <2> PICK a : a = Append(replies, r) OBVIOUS
  <2> PICK m : m = Len(a) OBVIOUS
  <2>2. m = k + 1 BY <2>1, AppendProperties
  <2>3. k - 1 # k + 1 BY <1>2
  <2>4. l # m BY <1>2, <2>2, <2>3, Zenon
  <2> QED BY <2>4, Zenon
<1>4. t # replies
  <2>1. k - 1 # k BY <1>2
  <2>2. l # k BY <1>2, <2>1, Zenon
  <2> QED BY <2>2, Zenon
<1> QED BY <1>3, <1>4, Zenon

\* Reading an acknowledgement leaves one fewer.
LEMMA OksPop ==
  ASSUME TypeOK, replies # <<>>, replies' = Tail(replies), Head(replies).type = "ok"
  PROVE  Cardinality(Oks') + 1 <= Cardinality(Oks) /\ Cardinality(Oks') \in Nat
<1>1. /\ Len(replies) \in Nat \ {0} /\ DOMAIN replies = 1 .. Len(replies)
      /\ DOMAIN replies' = 1 .. Len(replies) - 1 /\ Head(replies) = replies[1]
      /\ \A i \in 1 .. Len(replies) - 1 : replies'[i] = replies[i + 1]
  BY QueueFacts
<1>2. 1 \in Oks BY <1>1 DEF Oks
<1> PICK f : f = [i \in Oks' |-> i + 1] OBVIOUS
<1>3. \A i \in Oks' : i \in Nat \ {0} /\ i + 1 \in Oks \ {1}
  <2> TAKE i \in Oks'
  <2>1. i \in 1 .. Len(replies) - 1 /\ replies'[i].type = "ok" BY <1>1 DEF Oks
  <2>2. i + 1 \in 1 .. Len(replies) /\ i + 1 # 1 BY <1>1, <2>1
  <2> QED BY <1>1, <2>1, <2>2 DEF Oks
<1>4. f \in Injection(Oks', Oks \ {1}) BY <1>3 DEF Injection, IsInjective
<1>5. IsFiniteSet(Oks \ {1}) /\ Cardinality(Oks \ {1}) = Cardinality(Oks) - 1
  BY <1>2, OksFinite, FS_RemoveElement
<1>6. IsFiniteSet(Oks') /\ Cardinality(Oks') <= Cardinality(Oks \ {1})
  BY <1>4, <1>5, FS_Injection
<1> QED BY <1>5, <1>6, OksFinite, FS_CardinalityType

\* Reading or dropping replies adds no acknowledgement.
LEMMA OksShift ==
  ASSUME TypeOK, NEW n \in 0 .. Len(replies),
         DOMAIN replies' = 1 .. Len(replies) - n,
         \A i \in 1 .. Len(replies) - n : replies'[i] = replies[i + n]
  PROVE  Cardinality(Oks') <= Cardinality(Oks) /\ Cardinality(Oks') \in Nat
<1>1. /\ replies \in Seq(Replies) /\ Len(replies) \in Nat /\ n \in Nat
      /\ DOMAIN replies = 1 .. Len(replies)
  BY QueueFacts
<1> PICK f : f = [i \in Oks' |-> i + n] OBVIOUS
<1>2. \A i \in Oks' : i \in Nat /\ i + n \in Oks
  <2> TAKE i \in Oks'
  <2>1. i \in 1 .. Len(replies) - n /\ replies'[i].type = "ok" BY DEF Oks
  <2>2. i + n \in 1 .. Len(replies) BY <1>1, <2>1
  <2> QED BY <1>1, <2>1, <2>2 DEF Oks
<1>3. f \in Injection(Oks', Oks) BY <1>1, <1>2 DEF Injection, IsInjective
<1> QED BY <1>3, OksFinite, FS_Injection, FS_CardinalityType

\* A reply adds one acknowledgement or none.
LEMMA OksAppend ==
  ASSUME TypeOK, NEW r, replies' = Append(replies, r)
  PROVE  /\ r.type # "ok" => Oks' = Oks
         /\ r.type = "ok" => Cardinality(Oks') = Cardinality(Oks) + 1
<1>1. /\ DOMAIN replies' = 1 .. Len(replies) + 1 /\ replies'[Len(replies) + 1] = r
      /\ \A i \in 1 .. Len(replies) : replies'[i] = replies[i]
      /\ DOMAIN replies = 1 .. Len(replies) /\ Len(replies) \in Nat
  BY QueueFacts
<1>2. r.type # "ok" => Oks' = Oks BY <1>1 DEF Oks
<1>3. ASSUME r.type = "ok" PROVE Cardinality(Oks') = Cardinality(Oks) + 1
  <2>1. Oks' = Oks \cup {Len(replies) + 1} /\ Len(replies) + 1 \notin Oks
    BY <1>1, <1>3 DEF Oks
  <2> QED BY <2>1, OksFinite, FS_AddElement
<1> QED BY <1>2, <1>3

\* The count through every step of a stream that is on and stays on.
LEMMA AcksGrow ==
  ASSUME QuietOperator, TypeOK, QuietInv, RxInv, AcksCounted, [Next]_vars, streaming',
         ~UiStartCommit
  PROVE  /\ executed' \subseteq 0 .. sendIndex' - 1
         /\ \A x \in executed' : \A i \in DOMAIN rx' : x < rx'[i].idx
         /\ ackIndex' + Cardinality(Oks') <= Cardinality(executed')
<1>1. streaming /\ run' = run BY StreamGoesOn
<1>2. /\ executed \subseteq 0 .. sendIndex - 1
      /\ \A x \in executed : \A i \in DOMAIN rx : x < rx[i].idx
      /\ ackIndex + Cardinality(Oks) <= Cardinality(executed)
  BY <1>1 DEF AcksCounted
<1>3. /\ commands = <<>> /\ run > 0
      /\ \A i \in DOMAIN rx : rx[i].run = run
  BY <1>1 DEF QuietInv, OwnLines
<1>4. /\ sendIndex \in Nat /\ ackIndex \in Nat /\ run \in Nat
      /\ rx \in Seq(Entries) /\ DOMAIN rx = 1 .. Len(rx) /\ Len(rx) \in Nat
  BY QueueFacts, StreamAssumption DEF TypeOK, JobTyped, HistoryTyped, StreamAssumption
<1>5. /\ IsFiniteSet(executed) /\ Cardinality(executed) \in Nat
      /\ Cardinality(Oks) \in Nat
  <2>1. IsFiniteSet(0 .. sendIndex - 1) BY <1>4, FS_Interval
  <2> QED BY <1>2, <2>1, FS_Subset, FS_CardinalityType, OksFinite
<1>6. CASE IoSendLine
  <2> PICK e : e = LineEntry(sendIndex) OBVIOUS
  <2>1. e.idx = sendIndex /\ rx' = Append(rx, e) /\ sendIndex' = sendIndex + 1
    BY <1>6, LineSent
  <2>2. UNCHANGED <<executed, ackIndex, replies>> BY <1>6 DEF IoSendLine, history
  <2>3. /\ DOMAIN rx' = 1 .. Len(rx) + 1 /\ rx'[Len(rx) + 1] = e
        /\ \A i \in 1 .. Len(rx) : rx'[i] = rx[i]
    BY <1>4, <2>1
  <2>4. Oks' = Oks BY <2>2 DEF Oks
  <2>5. \A x \in executed : x < sendIndex BY <1>2, <1>4
  <2>6. \A x \in executed' : \A i \in DOMAIN rx' : x < rx'[i].idx
    BY <1>2, <1>4, <2>1, <2>2, <2>3, <2>5
  <2>7. executed' \subseteq 0 .. sendIndex' - 1 BY <1>2, <1>4, <2>1, <2>2
  <2> QED BY <1>2, <2>2, <2>4, <2>6, <2>7
<1>7. CASE MachineLine
  <2>1. rx # <<>> /\ rx' = Tail(rx) /\ UNCHANGED <<sendIndex, ackIndex>>
    BY <1>7 DEF MachineLine, controller, job
  <2>2. /\ Len(rx) \in Nat \ {0} /\ 1 \in DOMAIN rx /\ Head(rx) = rx[1]
        /\ DOMAIN rx' = 1 .. Len(rx) - 1
        /\ \A i \in 1 .. Len(rx) - 1 : rx'[i] = rx[i + 1] /\ i + 1 \in DOMAIN rx
    BY <1>4, <2>1
  <2> PICK h : h = rx[1].idx OBVIOUS
  <2>3. h \in 0 .. sendIndex - 1 /\ rx[1].run = run /\ run # 0
    <3>1. h \in Nat BY <1>4, <2>2, EntryFields
    <3>2. rx[1].run = run /\ run # 0 BY <1>3, <1>4, <2>2
    <3>3. h < sendIndex BY <2>2, <3>2 DEF RxInv, RxBelow
    <3> QED BY <1>4, <3>1, <3>2, <3>3
  <2>4. \A i \in DOMAIN rx' : h < rx'[i].idx
    <3> TAKE i \in DOMAIN rx'
    <3>1. i + 1 \in DOMAIN rx /\ 1 < i + 1 /\ rx'[i] = rx[i + 1] BY <2>2
    <3>2. rx[1].run = rx[i + 1].run /\ rx[1].run # 0 BY <1>3, <2>3, <3>1
    <3> QED BY <2>2, <3>1, <3>2 DEF RxInv, RxInOrder
  <2>5. \A x \in executed : \A i \in DOMAIN rx' : x < rx'[i].idx BY <1>2, <2>2
  <2>6. CASE Accepts(Head(rx))
    <3>1. executed' = executed \cup {h} /\ h \notin executed
      <4>1. executed' = executed \cup {h} BY <1>7, <2>2, <2>3, <2>6 DEF MachineLine
      <4>2. ~(h < h) BY <2>3
      <4>3. h \notin executed BY <1>2, <2>2, <4>2
      <4> QED BY <4>1, <4>3
    <3>2. Cardinality(executed') = Cardinality(executed) + 1 BY <1>5, <3>1, FS_AddElement
    <3>3. Cardinality(Oks') = Cardinality(Oks) + 1
      BY <1>7, <2>6, OksAppend DEF MachineLine, Answer
    <3>4. \A x \in executed' : \A i \in DOMAIN rx' : x < rx'[i].idx BY <2>4, <2>5, <3>1
    <3>5. executed' \subseteq 0 .. sendIndex' - 1 BY <1>2, <2>1, <2>3, <3>1
    <3>6. ackIndex' + Cardinality(Oks') <= Cardinality(executed')
      BY <1>2, <1>4, <1>5, <2>1, <3>2, <3>3
    <3> QED BY <3>4, <3>5, <3>6
  <2>7. CASE ~Accepts(Head(rx))
    <3>1. executed' = executed BY <1>7, <2>7 DEF MachineLine
    <3>2. Oks' = Oks BY <1>7, <2>7, OksAppend DEF MachineLine, Answer
    <3> QED BY <1>2, <2>1, <2>5, <3>1, <3>2
  <2> QED BY <2>6, <2>7
<1>8. CASE IoDispatchReset
  <2>1. /\ UNCHANGED <<executed, ackIndex, sendIndex>>
        /\ rx' = rx \/ rx' = <<>>
    BY <1>8 DEF IoDispatchReset, job, machine
  <2>2. Cardinality(Oks') <= Cardinality(Oks) /\ Cardinality(Oks') \in Nat
    <3>1. CASE portUp
      <4>1. PICK n \in 0 .. Len(replies) : replies' = SubSeq(replies, n + 1, Len(replies))
        BY <1>8, <3>1 DEF IoDispatchReset
      <4> QED BY <4>1, RepliesDropped, OksShift
    <3>2. CASE ~portUp
      <4>1. Oks' = Oks BY <1>8, <3>2 DEF IoDispatchReset, machine, Oks
      <4> QED BY <1>5, <4>1
    <3> QED BY <3>1, <3>2
  <2>3. \A x \in executed' : \A i \in DOMAIN rx' : x < rx'[i].idx BY <1>2, <2>1
  <2> QED BY <1>2, <1>4, <1>5, <2>1, <2>2, <2>3
<1>9. CASE IoReadAck
  <2>1. /\ replies # <<>> /\ replies' = Tail(replies) /\ Head(replies).type = "ok"
        /\ ackIndex' = ackIndex + 1 /\ UNCHANGED <<executed, sendIndex, rx>>
    BY <1>1, <1>9 DEF IoReadAck, Receive, history
  <2>2. Cardinality(Oks') + 1 <= Cardinality(Oks) /\ Cardinality(Oks') \in Nat
    BY <2>1, OksPop
  <2> QED BY <1>2, <1>4, <1>5, <2>1, <2>2
<1>10. CASE IoReadStatus
  <2>1. /\ replies # <<>> /\ replies' = Tail(replies)
        /\ UNCHANGED <<executed, sendIndex, ackIndex, rx>>
    BY <1>10 DEF IoReadStatus, Receive, history, job
  <2>2. /\ 1 \in 0 .. Len(replies) /\ DOMAIN replies' = 1 .. Len(replies) - 1
        /\ \A i \in 1 .. Len(replies) - 1 : replies'[i] = replies[i + 1]
    BY <2>1, QueueFacts
  <2>3. Cardinality(Oks') <= Cardinality(Oks) /\ Cardinality(Oks') \in Nat
    BY <2>2, OksShift
  <2> QED BY <1>2, <1>4, <1>5, <2>1, <2>3
<1>11. CASE MachineAlarm
  <2>1. rx' = <<>> /\ UNCHANGED <<executed, sendIndex, ackIndex>>
    BY <1>11 DEF MachineAlarm, controller, job, history
  <2>2. Oks' = Oks BY <1>11, OksAppend DEF MachineAlarm, AlarmReport
  <2> QED BY <1>2, <2>1, <2>2
<1>12. CASE IoPollAndCheck
  <2>1. UNCHANGED <<executed, sendIndex, ackIndex, rx>>
    BY <1>12 DEF IoPollAndCheck, job, history
  <2>2. Oks' = Oks
    <3>1. Status(MachineState).type # "ok" BY DEF Status, MachineState
    <3>2. CASE replies' = replies BY <3>2 DEF Oks
    <3>3. CASE replies' = Append(replies, Status(MachineState))
      BY <3>1, <3>3, OksAppend
    <3> QED BY <1>12, <3>2, <3>3 DEF IoPollAndCheck
  <2> QED BY <1>2, <2>1, <2>2
<1>13. CASE IoDispatchCommands
  <2>1. rx' = rx BY <1>3, <1>4, <1>13, CommandsAreNone DEF IoDispatchCommands
  <2>2. UNCHANGED <<executed, sendIndex, ackIndex, replies>>
    BY <1>13 DEF IoDispatchCommands, job, history
  <2> QED BY <1>2, <2>1, <2>2 DEF Oks
<1>14. CASE UiSkipTool
  <2>1. /\ UNCHANGED <<executed, ackIndex, rx, replies>>
        /\ sendIndex' = sendIndex \/ sendIndex' = sendIndex + 1
    BY <1>14 DEF UiSkipTool, machine, Advance
  <2>2. executed' \subseteq 0 .. sendIndex' - 1 BY <1>2, <1>4, <2>1
  <2> QED BY <1>2, <2>1, <2>2 DEF Oks
<1>15. CASE IoReadAlarm \/ IoReadStreamError \/ UiResetFlags
  BY <1>15 DEF IoReadAlarm, IoReadStreamError, UiResetFlags
<1>16. CASE \/ \E p \in Programs : UiStartCheck(p)
            \/ \E c \in Commands : UiCommand(c)
            \/ UiStop \/ UiHold \/ UiHeld \/ UiCycleStart \/ UiResumed \/ UiReset
            \/ UiAcknowledgeError \/ UiAcknowledgeTool \/ UiResetClear
            \/ IoDispatchRt \/ IoReadNothing \/ IoRaiseError \/ IoDrop \/ IoDropClear
            \/ IoSendDone \/ PortDown \/ UNCHANGED vars
  <2>1. UNCHANGED <<executed, sendIndex, ackIndex, rx, replies>>
    BY <1>16 DEF UiStartCheck, UiCommand, UiStop, UiHold, UiHeld, UiCycleStart,
       UiResumed, UiReset, UiAcknowledgeError, UiAcknowledgeTool, UiResetClear,
       IoDispatchRt, IoReadNothing, IoRaiseError, IoDrop, IoDropClear, IoSendDone,
       PortDown, vars, controller, rest, job, machine, history
  <2> QED BY <1>2, <2>1 DEF Oks
<1> QED BY <1>6, <1>7, <1>8, <1>9, <1>10, <1>11, <1>12, <1>13, <1>14, <1>15, <1>16,
           NextSplit DEF Elsewhere

\* The count through every step.
LEMMA CountStep ==
  ASSUME QuietOperator, TypeOK, QuietInv, RxInv, AcksCounted, [Next]_vars
  PROVE  AcksCounted'
<1>1. CASE UiStartCommit
  <2>1. /\ executed' = {} /\ ackIndex' = 0 /\ rx' = <<>> /\ Answers = {}
        /\ replies' = replies
    BY <1>1 DEF UiStartCommit, QuietInv, StartIsQuiet, machine
  <2>2. Oks' = {} BY <2>1 DEF Oks, Answers, IsAnswer
  <2>3. Cardinality(executed') = 0 /\ Cardinality(Oks') = 0 BY <2>1, <2>2, FS_EmptySet
  <2> QED BY <2>1, <2>3 DEF AcksCounted
<1> QED BY <1>1, AcksGrow DEF AcksCounted

\* For the same operator a job that processResponse declares complete, by counting
\* its last acknowledgement, has had every line of it executed by the machine.
THEOREM CompletionTold ==
  ASSUME QuietOperator PROVE Spec => CompletionIsTruthful
<1> DEFINE Told == streaming /\ ~streaming' /\ ioPc = "read" /\ replies # <<>>
                     /\ Head(replies).type = "ok" /\ replies' = Tail(replies)
                     => Indices(program) \subseteq executed
<1>1. Init => RxInv /\ AcksCounted
  BY DEF Init, RxInv, RxBelow, RxInOrder, AcksCounted
<1>2. TypeOK /\ QuietInv /\ [Next]_vars => QuietInv' BY QuietStep
<1>3. TypeOK /\ RxInv /\ [Next]_vars => RxInv' BY RxStep
<1>4. TypeOK /\ QuietInv /\ RxInv /\ AcksCounted /\ [Next]_vars => AcksCounted'
  BY CountStep
<1>5. TypeOK /\ AcksCounted /\ [Next]_vars => Told
  <2> SUFFICES ASSUME TypeOK, AcksCounted, [Next]_vars, streaming, ~streaming',
                      ioPc = "read", replies # <<>>, Head(replies).type = "ok",
                      replies' = Tail(replies)
               PROVE  Indices(program) \subseteq executed
    OBVIOUS
  <2>1. Len(replies') = Len(replies) - 1 /\ Len(replies) \in Nat \ {0} BY QueueFacts
  <2>2. replies' # replies /\ \A r : replies' # Append(replies, r) BY TailIsNoAppend
  <2>3. IoReadAck
    BY <2>2, NextSplit DEF Elsewhere, UiStartCheck, UiCommand, UiStop, UiHold, UiHeld,
       UiCycleStart, UiResumed, UiReset, UiResetFlags, UiResetClear, UiSkipTool,
       UiStartCommit, UiAcknowledgeError, UiAcknowledgeTool, IoDispatchReset, IoDispatchRt,
       IoDispatchCommands, IoReadNothing, IoReadStatus, IoReadAlarm, MachineStates,
       IoReadStreamError, IoRaiseError, IoDrop, IoDropClear, IoPollAndCheck, IoSendLine,
       IoSendDone, MachineLine, MachineAlarm, PortDown, Receive, vars, controller, rest,
       machine
  <2>4. ackIndex + 1 >= Len(program) BY <2>3 DEF IoReadAck, Complete
  <2>5. /\ sendIndex \in 0 .. Len(program) /\ Len(program) \in Nat /\ ackIndex \in Nat
    BY StreamAssumption DEF TypeOK, JobTyped, StreamAssumption
  <2>6. /\ executed \subseteq 0 .. sendIndex - 1
        /\ ackIndex + Cardinality(Oks) <= Cardinality(executed)
    BY DEF AcksCounted
  <2>7. executed \subseteq Indices(program) BY <2>5, <2>6 DEF Indices
  <2>8. IsFiniteSet(Indices(program)) /\ Cardinality(Indices(program)) = Len(program)
    <3> DEFINE last == Len(program) - 1
    <3>1. last \in Int /\ 0 \in Int BY <2>5
    <3>2. /\ IsFiniteSet(0 .. last)
          /\ Cardinality(0 .. last) = IF 0 > last THEN 0 ELSE last - 0 + 1
      <4> HIDE DEF last
      <4> QED BY <3>1, FS_Interval
    <3>3. (IF 0 > last THEN 0 ELSE last - 0 + 1) = Len(program) BY <2>5
    <3> QED BY <3>2, <3>3 DEF Indices
  <2>9. Cardinality(Oks) >= 1
    <3>1. 1 \in Oks BY <2>1, QueueFacts DEF Oks
    <3>2. Cardinality(Oks) # 0 BY <3>1, OksFinite, FS_EmptySet
    <3> QED BY <3>2, OksFinite
  <2>10. /\ Cardinality(executed) <= Cardinality(Indices(program))
         /\ IsFiniteSet(executed)
    BY <2>7, <2>8, FS_Subset
  <2>11. Cardinality(executed) \in Nat /\ Cardinality(Oks) \in Nat
    BY <2>10, OksFinite, FS_CardinalityType
  <2>12. Cardinality(executed) = Cardinality(Indices(program))
    BY <2>4, <2>5, <2>6, <2>8, <2>9, <2>10, <2>11
  <2> QED BY <2>7, <2>8, <2>12, FS_Subset
<1>6. TypeOK /\ AcksCounted /\ [Next]_vars => [Told]_vars BY <1>5
<1> QED BY <1>1, <1>2, <1>3, <1>4, <1>6, QuietInit, TypeCorrect, PTL
        DEF Spec, CompletionIsTruthful

=============================================================================
