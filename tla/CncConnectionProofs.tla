------------------------ MODULE CncConnectionProofs ------------------------
(***************************************************************************)
(* Theorems about CncConnection, for any limit of the watchdog and any     *)
(* number of operations: requests stay with their link, the application    *)
(* learns the truth about the connection, and the IO thread never uses a   *)
(* port that was closed under it.                                          *)
(***************************************************************************)
EXTENDS CncConnection, TLAPS

Looping == Turning \cup SimTurning

\* The last notice posted, heard or not.
LastTold == IF queue = <<>> THEN shown.connected ELSE queue[Len(queue)] = "up"

\* A thread that lives is told to end only by an operation that waits for it.
EndsWhenTold == io \notin Over /\ ~running => main = "join"

\* m_connected is false before the announcement and after the end.
ConnectedInBetween == io \in Over \cup {"lost", "probe", "simStart"} => ~connected

\* While disconnect waits nothing streams; when it is over nothing is left of
\* the link.
Disconnecting ==
  /\ main = "join" => ~running /\ job = 0
  /\ main = "begin" => /\ io = "none" /\ goal # "closed" /\ ~simulating
                       /\ pending = {} /\ job = 0 /\ timeouts = 0

\* The watchdog has not given up on a link that lives.
NotGivenUp == io \notin Over \cup {"lost"} => timeouts < MaxTimeouts

\* Each thread function runs with what it needs.
Equipped ==
  /\ io \in SimTurning \cup {"simStart"} => simulating
  /\ io \in Turning \cup {"probe", "lost"} => ~simulating /\ port # "none"
  /\ io = "announce" /\ ~simulating => port # "none"

\* The last notice posted is true.
Told ==
  /\ io \in Looping => LastTold
  /\ io \in Looping /\ queue = <<>> => shown.simulating = simulating
  /\ io = "ended" /\ main # "join" => ~LastTold

ConnInv ==
  /\ TypeOK /\ RequestsStayHome
  /\ EndsWhenTold /\ ConnectedInBetween /\ Disconnecting /\ NotGivenUp
  /\ Equipped /\ Told

USE ConnectionAssumption
USE DEF ConnectionAssumption, RtKinds, Kinds, Turning, SimTurning, Over, IoPcs, Notices, Looping
-----------------------------------------------------------------------------
(* Notices and requests.                                                    *)

LEMMA PostedIsLast ==
  ASSUME queue \in Seq(Notices), NEW n \in Notices, Post(n)
  PROVE  /\ queue' \in Seq(Notices) /\ queue' # <<>>
         /\ LastTold' <=> n = "up"
  BY DEF Post, LastTold

LEMMA HeardIsFirst ==
  ASSUME queue \in Seq(Notices), NEW n \in Notices, Hear(n)
  PROVE  /\ queue' \in Seq(Notices)
         /\ LastTold' <=> LastTold
<1> queue # <<>> /\ queue' = Tail(queue) /\ queue[1] = n
    /\ shown' = [connected |-> n = "up", simulating |-> simulating]
  BY DEF Hear
<1>1. queue' \in Seq(Notices) /\ Len(queue') = Len(queue) - 1
  OBVIOUS
<1>2. CASE Len(queue) = 1
  <2> queue' = <<>> /\ queue[Len(queue)] = n  BY <1>1, <1>2
  <2> QED  BY <1>1 DEF LastTold
<1>3. CASE Len(queue) > 1
  <2> queue' # <<>> /\ queue'[Len(queue')] = queue[Len(queue)]  BY <1>1, <1>3
  <2> queue[Len(queue)] = "up" <=> queue'[Len(queue')] = "up"  OBVIOUS
  <2> QED  BY <1>1 DEF LastTold
<1>4. Len(queue) = 1 \/ Len(queue) > 1  BY <1>1
<1> QED  BY <1>1, <1>2, <1>3, <1>4

LEMMA AskedType ==
  ASSUME NEW ks \in SUBSET Kinds, link \in Nat \ {0}
  PROVE  /\ Asked(ks) \subseteq [kind : Kinds, link : 1 .. link]
         /\ \A r \in Asked(ks) : r.link = link
<1>1. link \in 1 .. link  OBVIOUS
<1> QED  BY <1>1 DEF Asked

LEMMA ConnInvInit == ASSUME Init PROVE ConnInv
<1>1. FlagsTyped  BY DEF Init, FlagsTyped
<1>4. StateTyped  BY DEF Init, StateTyped
<1>2. RequestsStayHome /\ Told  BY DEF Init, RequestsStayHome, Told, LastTold
<1>3. EndsWhenTold /\ ConnectedInBetween /\ Disconnecting /\ NotGivenUp /\ Equipped
  BY DEF Init, EndsWhenTold, ConnectedInBetween, Disconnecting, NotGivenUp, Equipped
<1> QED  BY <1>1, <1>2, <1>3, <1>4 DEF ConnInv, TypeOK
-----------------------------------------------------------------------------
(* The IO thread.                                                           *)

LEMMA PortThreadKeeps == ASSUME ConnInv, PortNext PROVE ConnInv'
<1> USE DEF ConnInv, TypeOK, FlagsTyped, StateTyped, RequestsStayHome, EndsWhenTold,
            ConnectedInBetween, Disconnecting, NotGivenUp, Equipped, Told,
            controller, requests, mainThread, external
<1>1. CASE ProbeFinds  BY <1>1 DEF ProbeFinds, LastTold
<1>2. CASE ProbeFails  BY <1>2, PostedIsLast DEF ProbeFails
<1>3. CASE Announce  BY <1>3, PostedIsLast DEF Announce
<1>4. CASE Dispatch  BY <1>4 DEF Dispatch, ResetAsked, LastTold
<1>5. CASE ReadStatus
  <2>1. FlagsTyped'  BY <1>5 DEF ReadStatus, LastTold
  <2>5. StateTyped'  BY <1>5 DEF ReadStatus, LastTold
  <2>2. RequestsStayHome'  BY <1>5 DEF ReadStatus, LastTold
  <2>3. EndsWhenTold' /\ ConnectedInBetween' /\ Disconnecting' /\ NotGivenUp' /\ Equipped'
    BY <1>5 DEF ReadStatus, LastTold
  <2>4. Told'  BY <1>5 DEF ReadStatus, LastTold
  <2> QED  BY <2>1, <2>2, <2>3, <2>4, <2>5
<1>6. CASE ReadLine  BY <1>6, AskedType DEF ReadLine, LastTold
<1>7. CASE ReadNothing  BY <1>7 DEF ReadNothing, StillPatient, CountSilence, LastTold
<1>8. CASE GiveUp
  <2>1. FlagsTyped'  BY <1>8 DEF GiveUp, StillPatient, CountSilence, LastTold
  <2>5. StateTyped'
    <3>1. timeouts' \in 0 .. MaxTimeouts
      BY <1>8 DEF GiveUp, StillPatient, CountSilence
    <3> QED  BY <1>8, <3>1 DEF GiveUp
  <2>2. RequestsStayHome'  BY <1>8 DEF GiveUp, StillPatient, CountSilence, LastTold
  <2>3. EndsWhenTold' /\ ConnectedInBetween' /\ Disconnecting' /\ NotGivenUp' /\ Equipped'
    BY <1>8 DEF GiveUp, StillPatient, CountSilence, LastTold
  <2>4. Told'  BY <1>8 DEF GiveUp, StillPatient, CountSilence, LastTold
  <2> QED  BY <2>1, <2>2, <2>3, <2>4, <2>5
<1>9. CASE ReportLoss  BY <1>9, PostedIsLast DEF ReportLoss
<1>10. CASE Query  BY <1>10 DEF Query, LastTold
<1>11. CASE NoQuery  BY <1>11 DEF NoQuery, LastTold
<1>12. CASE Leave  BY <1>12 DEF Leave, LastTold
<1> QED  BY <1>1, <1>2, <1>3, <1>4, <1>5, <1>6, <1>7, <1>8, <1>9, <1>10, <1>11, <1>12 DEF PortNext

LEMMA SimulatorKeeps == ASSUME ConnInv, SimStart \/ SimDispatch \/ SimStream PROVE ConnInv'
<1> USE DEF ConnInv, TypeOK, FlagsTyped, StateTyped, RequestsStayHome, EndsWhenTold,
            ConnectedInBetween, Disconnecting, NotGivenUp, Equipped, Told,
            controller, requests, mainThread, external
<1>1. CASE SimStart  BY <1>1 DEF SimStart, LastTold
<1>2. CASE SimDispatch
  <2>1. FlagsTyped'  BY <1>2 DEF SimDispatch, LastTold
  <2>5. StateTyped'  BY <1>2 DEF SimDispatch, LastTold
  <2>2. RequestsStayHome'  BY <1>2 DEF SimDispatch, LastTold
  <2>3. EndsWhenTold' /\ ConnectedInBetween' /\ Disconnecting' /\ NotGivenUp' /\ Equipped'
    BY <1>2 DEF SimDispatch, LastTold
  <2>4. Told'  BY <1>2 DEF SimDispatch, LastTold
  <2> QED  BY <2>1, <2>2, <2>3, <2>4, <2>5
<1>3. CASE SimStream
  <2>1. FlagsTyped'  BY <1>3 DEF SimStream, LastTold
  <2>5. StateTyped'  BY <1>3 DEF SimStream, LastTold
  <2>2. RequestsStayHome'  BY <1>3 DEF SimStream, LastTold
  <2>3. EndsWhenTold' /\ ConnectedInBetween' /\ Disconnecting' /\ NotGivenUp' /\ Equipped'
    BY <1>3 DEF SimStream, LastTold
  <2>4. Told'  BY <1>3 DEF SimStream, LastTold
  <2> QED  BY <2>1, <2>2, <2>3, <2>4, <2>5
<1> QED  BY <1>1, <1>2, <1>3

LEMMA ConnectingKeeps == ASSUME ConnInv, Connecting PROVE ConnInv'
<1> USE DEF ConnInv, TypeOK, FlagsTyped, StateTyped, RequestsStayHome, EndsWhenTold,
            ConnectedInBetween, Disconnecting, NotGivenUp, Equipped, Told,
            controller, requests, mainThread, external
<1>1. CASE MenuConnect
  <2>1. FlagsTyped'  BY <1>1 DEF MenuConnect, LastTold, Button, Operate, Elsewhere
  <2>5. StateTyped'  BY <1>1 DEF MenuConnect, LastTold, Button, Operate, Elsewhere
  <2>2. RequestsStayHome'  BY <1>1 DEF MenuConnect, LastTold, Button, Operate, Elsewhere
  <2>3. EndsWhenTold' /\ ConnectedInBetween' /\ Disconnecting' /\ NotGivenUp' /\ Equipped'
    BY <1>1 DEF MenuConnect, LastTold, Button, Operate, Elsewhere
  <2>4. Told'  BY <1>1 DEF MenuConnect, LastTold, Button, Operate, Elsewhere
  <2> QED  BY <2>1, <2>2, <2>3, <2>4, <2>5
<1>2. CASE MenuDisconnect
  <2>1. FlagsTyped'  BY <1>2 DEF MenuDisconnect, LastTold, Button, Operate, Elsewhere
  <2>5. StateTyped'  BY <1>2 DEF MenuDisconnect, LastTold, Button, Operate, Elsewhere
  <2>2. RequestsStayHome'  BY <1>2 DEF MenuDisconnect, LastTold, Button, Operate, Elsewhere
  <2>3. EndsWhenTold' /\ ConnectedInBetween' /\ Disconnecting' /\ NotGivenUp' /\ Equipped'
    BY <1>2 DEF MenuDisconnect, LastTold, Button, Operate, Elsewhere
  <2>4. Told'  BY <1>2 DEF MenuDisconnect, LastTold, Button, Operate, Elsewhere
  <2> QED  BY <2>1, <2>2, <2>3, <2>4, <2>5
<1>3. CASE PanelConnect  BY <1>3 DEF PanelConnect, LastTold, Button, Operate, Elsewhere
<1>4. CASE PanelDisconnect  BY <1>4 DEF PanelDisconnect, LastTold, Button, Operate, Elsewhere
<1> QED  BY <1>1, <1>2, <1>3, <1>4 DEF Connecting

LEMMA WorkingKeeps == ASSUME ConnInv, Working PROVE ConnInv'
<1> USE DEF ConnInv, TypeOK, FlagsTyped, StateTyped, RequestsStayHome, EndsWhenTold,
            ConnectedInBetween, Disconnecting, NotGivenUp, Equipped, Told,
            controller, requests, mainThread, external
<1>1. CASE StartCheck  BY <1>1 DEF StartCheck, LastTold, Operate, Elsewhere
<1>2. CASE SoftReset  BY <1>2, AskedType DEF SoftReset, LastTold, Ask, Operate, Elsewhere
<1>3. CASE Hold  BY <1>3, AskedType DEF Hold, LastTold, Ask, Operate, Elsewhere
<1>4. CASE SendCommand  BY <1>4, AskedType DEF SendCommand, LastTold, Ask, Operate, Elsewhere
<1> QED  BY <1>1, <1>2, <1>3, <1>4 DEF Working

LEMMA MainKeeps == ASSUME ConnInv, MainFinish PROVE ConnInv'
<1> USE DEF ConnInv, TypeOK, FlagsTyped, StateTyped, RequestsStayHome, EndsWhenTold,
            ConnectedInBetween, Disconnecting, NotGivenUp, Equipped, Told,
            controller, requests, mainThread, external
<1>1. CASE Stop
  <2>1. FlagsTyped'  BY <1>1 DEF Stop, LastTold
  <2>5. StateTyped'  BY <1>1 DEF Stop, LastTold
  <2>2. RequestsStayHome'  BY <1>1 DEF Stop, LastTold
  <2>3. EndsWhenTold' /\ ConnectedInBetween' /\ Disconnecting' /\ NotGivenUp' /\ Equipped'
    BY <1>1 DEF Stop, LastTold
  <2>4. Told'  BY <1>1 DEF Stop, LastTold
  <2> QED  BY <2>1, <2>2, <2>3, <2>4, <2>5
<1>2. CASE Join
  <2>1. FlagsTyped'  BY <1>2, PostedIsLast DEF Join, IoIsOver, ForgetRequests
  <2>5. StateTyped'  BY <1>2, PostedIsLast DEF Join, IoIsOver, ForgetRequests
  <2>2. RequestsStayHome'  BY <1>2, PostedIsLast DEF Join, IoIsOver, ForgetRequests
  <2>3. EndsWhenTold' /\ ConnectedInBetween' /\ Disconnecting' /\ NotGivenUp' /\ Equipped'
    BY <1>2, PostedIsLast DEF Join, IoIsOver, ForgetRequests
  <2>4. Told'  BY <1>2, PostedIsLast DEF Join, IoIsOver, ForgetRequests
  <2> QED  BY <2>1, <2>2, <2>3, <2>4, <2>5
<1>3. CASE Open
  <2>1. FlagsTyped'  BY <1>3 DEF Open, Launch, LastTold
  <2>5. StateTyped'  BY <1>3 DEF Open, Launch, LastTold
  <2>2. RequestsStayHome'  BY <1>3 DEF Open, Launch, LastTold
  <2>3. EndsWhenTold' /\ ConnectedInBetween' /\ Disconnecting' /\ NotGivenUp' /\ Equipped'
    BY <1>3 DEF Open, Launch, LastTold
  <2>4. Told'  BY <1>3 DEF Open, Launch, LastTold
  <2> QED  BY <2>1, <2>2, <2>3, <2>4, <2>5
<1>4. CASE OpenFails  BY <1>4 DEF OpenFails, LastTold
<1>5. CASE Simulate
  <2>1. FlagsTyped'  BY <1>5 DEF Simulate, Launch, LastTold
  <2>5. StateTyped'  BY <1>5 DEF Simulate, Launch, LastTold
  <2>2. RequestsStayHome'  BY <1>5 DEF Simulate, Launch, LastTold
  <2>3. EndsWhenTold' /\ ConnectedInBetween' /\ Disconnecting' /\ NotGivenUp' /\ Equipped'
    BY <1>5 DEF Simulate, Launch, LastTold
  <2>4. Told'  BY <1>5 DEF Simulate, Launch, LastTold
  <2> QED  BY <2>1, <2>2, <2>3, <2>4, <2>5
<1>6. CASE StartCommit  BY <1>6 DEF StartCommit, LastTold, Elsewhere
<1>7. CASE HearUp  BY <1>7, HeardIsFirst, AskedType DEF HearUp, Hear
<1>8. CASE HearDown
  <2>1. FlagsTyped'  BY <1>8, HeardIsFirst, AskedType DEF HearDown, Hear
  <2>5. StateTyped'  BY <1>8, HeardIsFirst, AskedType DEF HearDown, Hear
  <2>2. RequestsStayHome'  BY <1>8, HeardIsFirst, AskedType DEF HearDown, Hear
  <2>3. EndsWhenTold' /\ ConnectedInBetween' /\ Disconnecting' /\ NotGivenUp' /\ Equipped'
    BY <1>8, HeardIsFirst, AskedType DEF HearDown, Hear
  <2>4. Told'  BY <1>8, HeardIsFirst, AskedType DEF HearDown, Hear
  <2> QED  BY <2>1, <2>2, <2>3, <2>4, <2>5
<1> QED  BY <1>1, <1>2, <1>3, <1>4, <1>5, <1>6, <1>7, <1>8 DEF MainFinish

LEMMA EnvironmentKeeps ==
  ASSUME ConnInv, MachineChanges \/ PortGoes \/ UNCHANGED vars
  PROVE  ConnInv'
<1> USE DEF ConnInv, TypeOK, FlagsTyped, StateTyped, RequestsStayHome, EndsWhenTold,
            ConnectedInBetween, Disconnecting, NotGivenUp, Equipped, Told,
            controller, requests, mainThread, external, LastTold
<1>1. CASE MachineChanges  BY <1>1 DEF MachineChanges, Environment
<1>2. CASE PortGoes  BY <1>2 DEF PortGoes, Environment
<1>3. CASE UNCHANGED vars  BY <1>3 DEF vars
<1> QED  BY <1>1, <1>2, <1>3
-----------------------------------------------------------------------------
(* The theorems.                                                            *)

\* ConnInv is inductive.
LEMMA ConnInvHolds == Spec => []ConnInv
<1>1. ConnInv /\ [Next]_vars => ConnInv'
  BY PortThreadKeeps, SimulatorKeeps, ConnectingKeeps, WorkingKeeps, MainKeeps,
     EnvironmentKeeps DEF Next, IoNext
<1> QED  BY ConnInvInit, <1>1, PTL DEF Spec

\* Every variable of the connection keeps to its type and the watchdog's count
\* to its limit.
THEOREM ConnectionTypes == Spec => []TypeOK
<1>1. ConnInv => TypeOK  BY DEF ConnInv
<1> QED  BY ConnInvHolds, <1>1, PTL

\* Requests and jobs of an earlier link never reach a later one.
THEOREM RequestsAreHome == Spec => []RequestsStayHome
<1>1. ConnInv => RequestsStayHome  BY DEF ConnInv
<1> QED  BY ConnInvHolds, <1>1, PTL

\* Panels and menu, once they have heard everything, show the link that turns
\* and do not show one that has ended of its own accord.
THEOREM ViewIsTrue == Spec => []ViewFollows
<1>1. ASSUME ConnInv PROVE ViewFollows
  <2>1. SUFFICES ASSUME main = "idle", queue = <<>>
                 PROVE  /\ io \in Looping =>
                             shown = [connected |-> TRUE, simulating |-> simulating]
                        /\ io = "ended" => ~shown.connected
    BY DEF ViewFollows
  <2>2. LastTold = shown.connected  BY <2>1 DEF LastTold
  <2>3. shown \in [connected : BOOLEAN, simulating : BOOLEAN]
    BY <1>1 DEF ConnInv, TypeOK, StateTyped
  <2>4. CASE io \in Looping
    <3>1. shown.connected = TRUE /\ shown.simulating = simulating
      BY <1>1, <2>1, <2>2, <2>3, <2>4 DEF ConnInv, Told
    <3> QED  BY <2>3, <2>4, <3>1
  <2>5. CASE io = "ended"  BY <1>1, <2>1, <2>2, <2>5 DEF ConnInv, Told
  <2> QED  BY <2>4, <2>5
<1> QED  BY ConnInvHolds, <1>1, PTL

\* disconnect closes the port only when no thread uses it any more.
THEOREM PortIsThere == Spec => []PortOutlivesIo
<1>1. ConnInv => PortOutlivesIo  BY DEF ConnInv, Equipped, PortOutlivesIo
<1> QED  BY ConnInvHolds, <1>1, PTL

\* The notices disconnect itself would post are never posted.
THEOREM DisconnectIsSilent == Spec => []DisconnectTellsNobody
<1>1. ConnInv => DisconnectTellsNobody
  BY DEF ConnInv, ConnectedInBetween, DisconnectTellsNobody, IoIsOver
<1> QED  BY ConnInvHolds, <1>1, PTL
=============================================================================
