------------------------ MODULE RunCoordinatorProofs ------------------------
(***************************************************************************)
(* For any runs, setups and batches: the coordinator holds the lock while  *)
(* a run is live and only then, a live run keeps its package, no late or   *)
(* repeated report takes it back, and a stop or a hold is obeyed whatever  *)
(* else the turn brings (RunInv, and for the counts TypeOK); and with the  *)
(* adapter, whichever effects it rejects, the machine moves only under the *)
(* lock, the coordinator is right about it between turns, and so is the    *)
(* job history.                                                            *)
(***************************************************************************)
EXTENDS RunEffects, WellFoundedInduction, TLAPS

-----------------------------------------------------------------------------
(* Arbitration chooses one of the commands of the batch.                    *)

LEMMA LeastNatural ==
  ASSUME NEW T, T \subseteq Nat, T # {}
  PROVE  \E x \in T : \A y \in T : x <= y
<1> DEFINE Below == OpToRel(<, Nat)
<1>1. \A x, y \in Nat : <<y, x>> \in Below <=> y < x BY DEF OpToRel
<1>2. IsWellFoundedOn(Below, Nat) BY NatLessThanWellFounded
<1> HIDE DEF Below
<1>3. PICK x \in T : \A y \in T : ~ (<<y, x>> \in Below) BY <1>2, WFMin
<1>4. ASSUME NEW y \in T PROVE x <= y
  <2>1. x \in Nat /\ y \in Nat BY <1>3
  <2>2. ~ (y < x) BY <1>1, <1>3, <2>1
  <2> QED BY <2>1, <2>2
<1> QED BY <1>4

LEMMA PriorityType == ASSUME NEW c \in Commands PROVE Priority(c) \in Nat
BY DEF Commands, Starts, Controls, Reports, Progresses, Priority

LEMMA ForemostIsOne ==
  ASSUME NEW n \in Nat, NEW batch \in [1 .. n -> Commands],
         NEW among, among \subseteq 1 .. n, among # {}
  PROVE  /\ Foremost(batch, among) \in among
         /\ \A j \in among : Priority(batch[Foremost(batch, among)]) <= Priority(batch[j])
<1> DEFINE rank == {Priority(batch[i]) : i \in among}
<1>1. \A i \in among : Priority(batch[i]) \in Nat BY PriorityType
<1>2. PICK p \in rank : \A q \in rank : p <= q
  <2>1. rank \subseteq Nat /\ rank # {} BY <1>1
  <2> HIDE DEF rank
  <2> QED BY <2>1, LeastNatural
<1> DEFINE best == {i \in among : Priority(batch[i]) = p}
<1>3. PICK i \in best : \A j \in best : i <= j
  <2>1. best \subseteq Nat /\ best # {} BY <1>2
  <2> HIDE DEF best
  <2> QED BY <2>1, LeastNatural
<1>4. ASSUME NEW j \in among
      PROVE  \/ Priority(batch[i]) < Priority(batch[j])
             \/ Priority(batch[i]) = Priority(batch[j]) /\ i <= j
  <2>1. Priority(batch[i]) = p /\ Priority(batch[j]) \in rank BY <1>3
  <2>2. p <= Priority(batch[j]) BY <1>2, <2>1
  <2>3. p \in Nat /\ Priority(batch[j]) \in Nat BY <1>1, <2>1, <1>3
  <2>4. CASE p = Priority(batch[j])
    <3>1. j \in best BY <2>4
    <3> QED BY <3>1, <1>3, <2>1, <2>4
  <2> QED BY <2>1, <2>2, <2>3, <2>4
<1>5. /\ Foremost(batch, among) \in among
      /\ \A j \in among : LET f == Foremost(batch, among) IN
            \/ Priority(batch[f]) < Priority(batch[j])
            \/ Priority(batch[f]) = Priority(batch[j]) /\ f <= j
  BY <1>3, <1>4 DEF Foremost
<1> QED BY <1>1, <1>5

\* The command obeyed is one of those given.
LEMMA SelectedIsGiven ==
  ASSUME NEW batch \in Batches
  PROVE  \E i \in DOMAIN batch : Selected(batch) = batch[i] /\ batch[i] \in Commands
<1>1. PICK n \in 1 .. MaxBatch : batch \in [1 .. n -> Commands] BY DEF Batches
<1> DEFINE eligible == {i \in DOMAIN batch : Eligible(batch[i])}
           among == IF eligible # {} THEN eligible ELSE DOMAIN batch
<1>2. n \in Nat /\ n >= 1 /\ DOMAIN batch = 1 .. n BY <1>1, CoordinatorAssumption
<1>3. among \subseteq 1 .. n /\ among # {}
  <2>1. eligible \subseteq 1 .. n BY <1>2
  <2>2. 1 \in 1 .. n BY <1>2
  <2> QED BY <1>2, <2>1, <2>2
<1>4. Foremost(batch, among) \in among
  <2> HIDE DEF among
  <2> QED BY <1>1, <1>2, <1>3, ForemostIsOne
<1>5. Foremost(batch, among) \in 1 .. n BY <1>3, <1>4
<1>6. batch[Foremost(batch, among)] \in Commands
  <2> HIDE DEF among
  <2> QED BY <1>1, <1>5
<1> QED BY <1>2, <1>5, <1>6 DEF Selected
-----------------------------------------------------------------------------
(* The coordinator by itself: its lock, and its package.                    *)

Control ==
  /\ state \in States /\ package \in Packages \cup {NoPackage}
  /\ state = "Idle" <=> package = NoPackage
  /\ lockHeld \in BOOLEAN

RunInv == Control /\ LockIffLive

LEMMA RunInit == Init => RunInv
BY DEF Init, RunInv, Control, LockIffLive, live, States

\* What a started run brings with it.
LEMMA StartKeeps ==
  ASSUME RunInv, NEW c \in Commands, Obeyed(c), Start(c)
  PROVE  /\ RunInv' /\ ~lockHeld /\ lockHeld' /\ state' = "Streaming"
         /\ package'.id = c.id /\ effects' = LockThenStream(c.id)
<1>1. c.kind = "Start" BY DEF Start
<1>2. c \in Starts BY <1>1 DEF Commands, Controls, Reports, Progresses
<1>3. c.preflight # Failed /\ ~lockHeld BY <1>1 DEF Obeyed, StartObeyed
<1>4. package' \in Packages BY <1>2, <1>3 DEF Start, Starts, Packages
<1>5. Control' /\ LockIffLive'
  BY <1>4, CoordinatorAssumption DEF Start, Control, LockIffLive, live, States
<1> QED BY <1>3, <1>5 DEF Start, RunInv

\* Any other command that is obeyed is one for the live run, which it keeps.
LEMMA OthersKeep ==
  ASSUME RunInv, NEW c \in Commands, Obeyed(c), c.kind # "Start",
         Pause(c) \/ Resume(c) \/ Abort(c) \/ Progress(c) \/ Complete(c) \/ Fail(c)
  PROVE  RunInv' /\ lockHeld /\ live /\ c.id = package.id /\ package' = package
<1>1. lockHeld /\ c.id = package.id BY DEF Obeyed, ActiveIdentity
<1>2. live /\ package # NoPackage
  BY <1>1 DEF RunInv, LockIffLive, live, Control
<1>3. package' = package
  BY DEF Pause, Resume, Abort, Progress, Complete, Fail
<1>4. /\ state' \in {"Streaming", "Paused", "Completed", "Aborted", "Failed"}
      /\ lockHeld' <=> state' \in {"Streaming", "Paused"}
      /\ lockHeld' \in BOOLEAN
  BY <1>1, <1>2 DEF Pause, Resume, Abort, Progress, Complete, Fail, DropLock, live
<1> QED BY <1>1, <1>2, <1>3, <1>4 DEF RunInv, Control, LockIffLive, live, States

LEMMA HandleKeeps ==
  ASSUME RunInv, NEW c \in Commands, Handle(c)
  PROVE  RunInv'
<1>1. CASE ~Obeyed(c)
  BY <1>1 DEF Handle, Ignore, snapshot, RunInv, Control, LockIffLive, live
<1>2. CASE Obeyed(c) /\ c.kind = "Start"
  <2>1. Start(c)
    BY <1>2 DEF Handle, Pause, Resume, Abort, Progress, Complete, Fail
  <2> QED BY <1>2, <2>1, StartKeeps
<1>3. CASE Obeyed(c) /\ c.kind # "Start"
  <2>1. Pause(c) \/ Resume(c) \/ Abort(c) \/ Progress(c) \/ Complete(c) \/ Fail(c)
    BY <1>3 DEF Handle, Start
  <2> QED BY <1>3, <2>1, OthersKeep
<1> QED BY <1>1, <1>2, <1>3

LEMMA RunNext == ASSUME RunInv, [Next]_vars PROVE RunInv'
<1>1. ASSUME NEW batch \in Batches, DispatchBatch(batch) PROVE RunInv'
  <2>1. Selected(batch) \in Commands BY SelectedIsGiven
  <2>2. Handle(Selected(batch)) BY <1>1 DEF DispatchBatch
  <2> QED BY <2>1, <2>2, HandleKeeps
<1>2. CASE UNCHANGED snapshot
  BY <1>2 DEF snapshot, RunInv, Control, LockIffLive, live
<1> QED BY <1>1, <1>2 DEF Next, Take, vars

\* The run lock is held exactly while a run streams or is paused: no run is
\* commanded without one, and one that has ended never keeps it.
THEOREM LockHeldWhileLive == Spec => []LockIffLive
<1>1. RunInv => LockIffLive BY DEF RunInv
<1> QED BY <1>1, RunInit, RunNext, PTL DEF Spec

\* RUNX-05: while a run is live its package is the one it was started with.
THEOREM LivePackagePinned == Spec => PackageIsPinned
<1>1. ASSUME [Next]_vars, live, live' PROVE package' = package
  <2>1. ASSUME NEW batch, Handle(Selected(batch)) PROVE package' = package
    BY <1>1, <2>1 DEF Handle, Obeyed, StartObeyed, Start, Pause, Resume, Abort,
       Progress, Complete, Fail, Ignore, snapshot
  <2> QED BY <1>1, <2>1 DEF Next, vars, snapshot, DispatchBatch, Take
<1>2. [Next]_vars => [live /\ live' => package' = package]_vars BY <1>1
<1> QED BY <1>2, PTL DEF Spec, PackageIsPinned
-----------------------------------------------------------------------------
(* The counts of a run: RunInv alone does not bound them, TypeOK does.      *)

\* What a command that is obeyed does to the counts of its run, and to its
\* demands: a report counts on, and a new run is another run.
LEMMA HandleCounts ==
  ASSUME TypeOK, NEW c \in Commands, Handle(c)
  PROVE  /\ lastSequence' \in 0 .. MaxSequence /\ fraction' \in 0 .. MaxFraction
         /\ effects' \in Seq([effect : EffectKinds, id : Identities])
         /\ package' = package =>
              /\ lastSequence' >= lastSequence /\ fraction' >= fraction
              /\ fraction' # fraction => lastSequence' > lastSequence \/ state' = "Completed"
<1> DEFINE Issued == [effect : EffectKinds, id : Identities]
<1>1. /\ lastSequence \in 0 .. MaxSequence /\ fraction \in 0 .. MaxFraction
      /\ MaxSequence \in Nat /\ MaxFraction \in Nat /\ c.id \in Identities
  BY CoordinatorAssumption DEF TypeOK, Commands, Starts, Controls, Reports, Progresses
<1>2. \A kind \in EffectKinds : Effect(kind, c.id) \in Issued BY <1>1 DEF Effect
<1>8. /\ <<Effect("FeedHold", c.id)>> \in Seq(Issued)
      /\ <<Effect("CycleStart", c.id)>> \in Seq(Issued)
      /\ <<Effect("ReleaseRunLock", c.id)>> \in Seq(Issued)
      /\ AbortThenRelease(c.id) \in Seq(Issued)
  <2>1. /\ Effect("FeedHold", c.id) \in Issued /\ Effect("CycleStart", c.id) \in Issued
        /\ Effect("ReleaseRunLock", c.id) \in Issued
        /\ Effect("AbortStream", c.id) \in Issued
    BY <1>2 DEF EffectKinds
  <2>2. \A a, b \in Issued : <<a>> \in Seq(Issued) /\ <<a, b>> \in Seq(Issued)
    <3> HIDE DEF Issued
    <3> QED OBVIOUS
  <2> QED BY <2>1, <2>2 DEF AbortThenRelease
<1>3. CASE ~Obeyed(c)
  <2>1. effects' = <<>> /\ UNCHANGED <<state, lastSequence, fraction>>
    BY <1>3 DEF Handle, Ignore, snapshot
  <2> QED BY <1>1, <2>1
<1>4. CASE Obeyed(c) /\ Start(c)
  <2>1. /\ c.preflight # Failed /\ (package # NoPackage => package.id.run # c.id.run)
        /\ c \in Starts
    BY <1>4 DEF Obeyed, StartObeyed, Start, Commands, Controls, Reports, Progresses
  <2>2. package' \in Packages /\ package'.id = c.id
    BY <1>4, <2>1 DEF Start, Starts, Packages
  <2>3. package' # package BY <2>1, <2>2, CoordinatorAssumption
  <2>4. effects' \in Seq(Issued)
    BY <1>2, <1>4 DEF Start, LockThenStream, EffectKinds
  <2> QED BY <1>1, <1>4, <2>3, <2>4 DEF Start
<1>5. CASE Obeyed(c) /\ (Pause(c) \/ Resume(c) \/ Abort(c))
  <2>1. effects' \in Seq(Issued)
    <3>1. \/ effects' = <<Effect("FeedHold", c.id)>>
          \/ effects' = <<Effect("CycleStart", c.id)>>
          \/ effects' = AbortThenRelease(c.id)
      BY <1>5 DEF Pause, Resume, Abort, Hold
    <3> QED BY <3>1, <1>8
  <2>2. UNCHANGED <<lastSequence, fraction>> BY <1>5 DEF Pause, Resume, Abort
  <2> QED BY <1>1, <2>1, <2>2
<1>6. CASE Obeyed(c) /\ Progress(c)
  <2>1. /\ FreshSequence(c.sequence) /\ ValidFraction(c) /\ c \in Progresses
        /\ lastSequence' = c.sequence /\ fraction' = c.fraction /\ effects' = <<>>
    BY <1>6 DEF Obeyed, Progress, Commands, Starts, Controls, Reports
  <2>2. c.sequence \in 0 .. MaxSequence /\ c.fraction \in 0 .. MaxFraction + 1
    BY <2>1 DEF Progresses
  <2> QED BY <1>1, <2>1, <2>2 DEF FreshSequence, ValidFraction
<1>7. CASE Obeyed(c) /\ (Complete(c) \/ Fail(c))
  <2>1. FreshSequence(c.sequence) /\ c \in Reports /\ lastSequence' = c.sequence
    BY <1>7 DEF Obeyed, Complete, Fail, Commands, Starts, Controls, Progresses
  <2>2. c.sequence \in 0 .. MaxSequence BY <2>1 DEF Reports
  <2>3. effects' \in Seq(Issued)
    <3>1. effects' = <<Effect("ReleaseRunLock", c.id)>> \/ effects' = AbortThenRelease(c.id)
      BY <1>7 DEF Complete, Fail
    <3> QED BY <3>1, <1>8
  <2>4. fraction' = fraction \/ (fraction' = MaxFraction /\ state' = "Completed")
    BY <1>7 DEF Complete, Fail
  <2> QED BY <1>1, <2>1, <2>2, <2>3, <2>4 DEF FreshSequence
<1> QED BY <1>3, <1>4, <1>5, <1>6, <1>7 DEF Handle

LEMMA CoordinatorNext == ASSUME RunInv, TypeOK, [Next]_vars PROVE TypeOK'
<1>1. RunInv' BY RunNext
<1>2. ASSUME NEW batch \in Batches, DispatchBatch(batch) PROVE TypeOK'
  <2>1. Selected(batch) \in Commands /\ Handle(Selected(batch))
    BY <1>2, SelectedIsGiven DEF DispatchBatch
  <2>2. asked' \subseteq {"Pause", "Abort"} BY <1>2 DEF DispatchBatch, Demands
  <2> QED BY <1>1, <2>1, <2>2, HandleCounts DEF TypeOK, RunInv, Control
<1>3. CASE Take
  <2> DEFINE Issued == [effect : EffectKinds, id : Identities]
  <2>1. effects \in Seq(Issued) BY DEF TypeOK
  <2>2. <<>> \in Seq(Issued) /\ (effects # <<>> => Tail(effects) \in Seq(Issued))
    <3> HIDE DEF Issued
    <3> QED BY <2>1
  <2>3. effects # <<>> /\ effects' \in {Tail(effects), <<>>} BY <1>3 DEF Take
  <2>4. effects' \in Seq(Issued) BY <2>2, <2>3
  <2> QED BY <1>3, <2>4 DEF TypeOK, Take, snapshot
<1>4. CASE UNCHANGED vars BY <1>4 DEF vars, snapshot, TypeOK
<1> QED BY <1>2, <1>3, <1>4 DEF Next

\* For any runs, setups and bounds the coordinator's variables keep their types.
THEOREM CoordinatorTypes == Spec => []TypeOK
<1>1. Init => TypeOK
  <2>1. ASSUME Init PROVE effects \in Seq([effect : EffectKinds, id : Identities])
    BY <2>1 DEF Init
  <2>2. ASSUME Init PROVE lastSequence \in 0 .. MaxSequence /\ fraction \in 0 .. MaxFraction
    BY <2>2, CoordinatorAssumption DEF Init
  <2>3. ASSUME Init
        PROVE  /\ state \in States /\ package \in Packages \cup {NoPackage}
               /\ (state = "Idle" <=> package = NoPackage)
               /\ lockHeld \in BOOLEAN /\ asked \subseteq {"Pause", "Abort"}
    BY <2>3 DEF Init, States
  <2> QED BY <2>1, <2>2, <2>3 DEF TypeOK
<1>2. RunInv /\ TypeOK /\ [Next]_vars => TypeOK' BY CoordinatorNext
<1> QED BY <1>1, <1>2, RunInit, RunNext, PTL DEF Spec

\* No late or repeated report takes a run back or is applied twice.
THEOREM ReportsCountOn == Spec => NothingStale
<1>1. ASSUME TypeOK, [Next]_vars, package' = package
      PROVE  /\ lastSequence' >= lastSequence /\ fraction' >= fraction
             /\ fraction' # fraction => lastSequence' > lastSequence \/ state' = "Completed"
  <2>1. ASSUME NEW batch \in Batches, DispatchBatch(batch)
        PROVE  /\ lastSequence' >= lastSequence /\ fraction' >= fraction
               /\ fraction' # fraction => lastSequence' > lastSequence \/ state' = "Completed"
    BY <1>1, <2>1, SelectedIsGiven, HandleCounts DEF DispatchBatch
  <2>2. CASE UNCHANGED <<lastSequence, fraction>>
    BY <1>1, <2>2 DEF TypeOK
  <2> QED BY <1>1, <2>1, <2>2 DEF Next, Take, vars, snapshot
<1>2. TypeOK /\ [Next]_vars
        => [package' = package =>
              /\ lastSequence' >= lastSequence /\ fraction' >= fraction
              /\ (fraction' # fraction => lastSequence' > lastSequence \/ state' = "Completed")]_vars
  BY <1>1
<1> QED BY <1>2, CoordinatorTypes, PTL DEF Spec, NothingStale
-----------------------------------------------------------------------------
(* The demands of a turn.                                                   *)

\* Of a turn that demands something of the live run, a command for that run is
\* obeyed that ranks at least as high as every one of the demands.
LEMMA DemandRanks ==
  ASSUME RunInv, NEW batch \in Batches, NEW kind \in Demands(batch)
  PROVE  /\ live /\ lockHeld /\ Selected(batch) \in Commands /\ Eligible(Selected(batch))
         /\ kind = "Abort" => Priority(Selected(batch)) <= 0
         /\ kind = "Pause" => Priority(Selected(batch)) <= 2
<1>1. PICK n \in 1 .. MaxBatch : batch \in [1 .. n -> Commands] BY DEF Batches
<1>2. n \in Nat /\ DOMAIN batch = 1 .. n BY <1>1, CoordinatorAssumption
<1>3. PICK d \in 1 .. n :
        live /\ batch[d].id = package.id /\ batch[d].kind = kind /\ kind \in {"Pause", "Abort"}
  BY <1>2 DEF Demands
<1> DEFINE eligible == {i \in DOMAIN batch : Eligible(batch[i])}
<1>4. d \in eligible BY <1>2, <1>3 DEF Eligible
<1>5. eligible \subseteq 1 .. n /\ eligible # {} BY <1>2, <1>4
<1>6. Selected(batch) = batch[Foremost(batch, eligible)] BY <1>5 DEF Selected
<1>7. /\ Foremost(batch, eligible) \in eligible
      /\ Priority(batch[Foremost(batch, eligible)]) <= Priority(batch[d])
  <2> HIDE DEF eligible
  <2> QED BY <1>1, <1>2, <1>4, <1>5, ForemostIsOne
<1>8. Eligible(Selected(batch)) /\ Selected(batch) \in Commands
  BY <1>1, <1>5, <1>6, <1>7
<1>9. /\ kind = "Abort" => Priority(batch[d]) = 0
      /\ kind = "Pause" => Priority(batch[d]) = 2
  BY <1>3 DEF Priority
<1>10. lockHeld BY <1>3 DEF RunInv, LockIffLive
<1> QED BY <1>3, <1>6, <1>7, <1>8, <1>9, <1>10

\* A stop or a hold of the live run is obeyed whatever comes with it.
THEOREM StopsOutrank == Spec => StopWins
<1>1. ASSUME RunInv, NEW batch \in Batches, DispatchBatch(batch)
      PROVE  /\ "Abort" \in asked' => state' = "Aborted"
             /\ "Pause" \in asked' => state' # "Streaming"
  <2> DEFINE c == Selected(batch)
  <2>1. Handle(c) /\ asked' = Demands(batch) BY <1>1 DEF DispatchBatch
  <2>2. ASSUME "Abort" \in asked' PROVE state' = "Aborted"
    <3>1. /\ live /\ lockHeld /\ c \in Commands /\ Eligible(c) /\ Priority(c) <= 0
      BY <1>1, <2>1, <2>2, DemandRanks
    <3> HIDE DEF c
    <3>2. c.kind = "Abort"
      BY <3>1 DEF Commands, Starts, Controls, Reports, Progresses, Priority
    <3>3. Obeyed(c) BY <3>1, <3>2 DEF Obeyed, ActiveIdentity, Eligible
    <3> QED BY <2>1, <3>2, <3>3
         DEF Handle, Start, Pause, Resume, Abort, Progress, Complete, Fail
  <2>3. ASSUME "Pause" \in asked' PROVE state' # "Streaming"
    <3>1. /\ live /\ lockHeld /\ c \in Commands /\ Eligible(c) /\ Priority(c) <= 2
      BY <1>1, <2>1, <2>3, DemandRanks
    <3> HIDE DEF c
    <3>2. c.kind \in {"Abort", "Fail", "Pause"}
      BY <3>1 DEF Commands, Starts, Controls, Reports, Progresses, Priority
    <3>3. c.kind \in {"Abort", "Fail"} => Obeyed(c)
      BY <3>1, <3>2 DEF Obeyed, ActiveIdentity, Eligible
    <3>4. c.kind = "Pause" /\ ~Obeyed(c) => state = "Paused"
      BY <3>1 DEF Obeyed, ActiveIdentity, Eligible, live
    <3>5. CASE Obeyed(c)
      BY <2>1, <3>2, <3>5
         DEF Handle, Start, Pause, Resume, Abort, Progress, Complete, Fail
    <3>6. CASE ~Obeyed(c)
      BY <2>1, <3>2, <3>3, <3>4, <3>6 DEF Handle, Ignore, snapshot
    <3> QED BY <3>5, <3>6
  <2> QED BY <2>2, <2>3
<1>2. ASSUME Take PROVE asked' = {} BY <1>2 DEF Take
<1>3. RunInv /\ [Next]_vars
        => [/\ "Abort" \in asked' => state' = "Aborted"
            /\ "Pause" \in asked' => state' # "Streaming"]_vars
  BY <1>1, <1>2 DEF Next
<1> QED BY <1>3, RunInit, RunNext, PTL DEF Spec, StopWins
-----------------------------------------------------------------------------
(* With the adapter the coordinator still behaves as specified.             *)

LEMMA ExecuteTakes == ASSUME Execute PROVE Take
<1>1. CASE AcquireRunLock BY <1>1 DEF AcquireRunLock, Stays, Done, Take
<1>2. CASE StartStream BY <1>2 DEF StartStream, Stays, Done, Take
<1>3. CASE FeedHold BY <1>3 DEF FeedHold, Stays, Done, Take
<1>4. CASE CycleStart BY <1>4 DEF CycleStart, Stays, Done, Take
<1>5. CASE AbortStream BY <1>5 DEF AbortStream, Stays, Done, Take
<1>6. CASE ReleaseRunLock BY <1>6 DEF ReleaseRunLock, Stays, Done, Take
<1> QED BY <1>1, <1>2, <1>3, <1>4, <1>5, <1>6 DEF Execute

\* Every turn and every effect carried out or rejected is a step of the
\* coordinator; what the machine does by itself is none of its business.
THEOREM EffectsImplementCoordinator == EffectsSpec => Spec
<1>1. EffectsInit => Init BY DEF EffectsInit
<1>2. ASSUME [EffectsNext]_allVars PROVE [Next]_vars
  <2>1. CASE Turn BY <2>1 DEF Turn, Next
  <2>2. CASE Execute BY <2>2, ExecuteTakes DEF Next
  <2>3. CASE StreamCompletes \/ StreamDies BY <2>3 DEF StreamCompletes, StreamDies
  <2>4. CASE UNCHANGED allVars BY <2>4 DEF allVars
  <2> QED BY <1>2, <2>1, <2>2, <2>3, <2>4 DEF EffectsNext
<1> QED BY <1>1, <1>2, PTL DEF Spec, EffectsSpec
-----------------------------------------------------------------------------
(* The inductive invariant of both: who holds the lock and what the adapter *)
(* knows of the machine, the job's row, and what is still to be carried out *)
(* in which of the adapter's states.                                        *)

Hands ==
  /\ control \in {"Idle", "Locked", "Streaming", "Paused", "Aborting"}
  /\ identity \in Identities \cup {NoLock} /\ lock = identity
  /\ identity = NoLock <=> control = "Idle"
  /\ identity # NoLock => identity = package.id
  /\ Moving => control \in {"Streaming", "Paused"}
  /\ control = "Paused" => machine # "streaming"
  /\ control = "Streaming" => machine # "held"
  /\ streamAttempted => control \in {"Streaming", "Paused", "Aborting"}

OnRecord ==
  effects = <<>> /\ state = "Completed" =>
    job = [of |-> package.id, status |-> "completed"] \/ reported

Recorded ==
  /\ job \in Rows \cup {NoRow}
  /\ hasJob => control \in {"Streaming", "Paused", "Aborting"} /\ job.of = identity
  /\ control \in {"Streaming", "Paused"} => hasJob
  /\ job.status = "running" => hasJob \/ reported
  /\ OnRecord

Unstarted == control \in {"Idle", "Locked", "Aborting"}

ToDo ==
  LET A == package.id IN
  \/ effects = <<>> /\ lockHeld /\ ~owed /\ control = state
  \/ effects = <<>> /\ lockHeld /\ owed /\ Unstarted
  \/ effects = <<>> /\ ~lockHeld /\ ~owed /\ control = "Idle"
  \/ effects = LockThenStream(A) /\ state = "Streaming" /\ ~owed /\ control = "Idle"
  \/ /\ effects = <<Effect("StartStream", A)>> /\ state = "Streaming"
     /\ (~owed /\ control = "Locked") \/ (owed /\ control = "Idle")
  \/ /\ effects = Hold(A) /\ state = "Paused"
     /\ (~owed /\ control = "Streaming") \/ (owed /\ Unstarted)
  \/ /\ effects = <<Effect("CycleStart", A)>> /\ state = "Streaming"
     /\ (~owed /\ control = "Paused") \/ (owed /\ Unstarted)
  \/ effects = AbortThenRelease(A) /\ state \in {"Aborted", "Failed"} /\ ~owed
  \/ /\ effects = <<Effect("ReleaseRunLock", A)>> /\ ~owed
     /\ \/ state \in {"Aborted", "Failed"} /\ Unstarted
        \/ state = "Completed" /\ control \in {"Streaming", "Paused"} /\ ~Moving

EffectsInv == RunInv /\ owed \in BOOLEAN /\ Hands /\ Recorded /\ ToDo

LEMMA EffectsStart == EffectsInit => EffectsInv
<1> SUFFICES ASSUME EffectsInit PROVE EffectsInv OBVIOUS
<1>1. RunInv BY RunInit DEF EffectsInit
<1>2. Hands BY DEF EffectsInit, Hands, Moving
<1>3. Recorded
  BY DEF EffectsInit, Init, Recorded, OnRecord, NoRow
<1>4. ToDo BY DEF EffectsInit, Init, ToDo
<1> QED BY <1>1, <1>2, <1>3, <1>4 DEF EffectsInv, EffectsInit

LEMMA HasId == ASSUME RunInv, package # NoPackage PROVE package.id \in Identities
BY DEF RunInv, Control, Packages

\* Between turns the adapter is in one of three situations.
LEMMA Between ==
  ASSUME EffectsInv, effects = <<>>
  PROVE  \/ lockHeld /\ ~owed /\ control = state
         \/ lockHeld /\ owed /\ Unstarted
         \/ ~lockHeld /\ ~owed /\ control = "Idle"
BY DEF EffectsInv, ToDo, LockThenStream, Hold, AbortThenRelease

\* A turn leaves its effects to be done.
LEMMA TurnKeeps == ASSUME EffectsInv, Turn PROVE EffectsInv'
<1>1. PICK batch \in Batches :
        (\A i \in DOMAIN batch : Truthful(batch[i])) /\ DispatchBatch(batch)
  BY DEF Turn
<1>2. PICK c \in Commands : Truthful(c) /\ Handle(c)
  BY <1>1, SelectedIsGiven DEF DispatchBatch
<1>3. /\ RunInv /\ owed \in BOOLEAN /\ Hands /\ Recorded /\ ToDo
      /\ effects = <<>> /\ owed' = (owed /\ lockHeld') /\ UNCHANGED <<adapter, world>>
  BY <1>1 DEF EffectsInv, Turn, DispatchBatch
<1>4. UNCHANGED <<control, identity, streamAttempted, hasJob, lock, machine, job, reported>>
  BY <1>3 DEF adapter, world
<1>5. RunInv' BY <1>2, <1>3, HandleKeeps
<1>6. owed' \in BOOLEAN BY <1>3
<1>7. \/ lockHeld /\ ~owed /\ control = state
      \/ lockHeld /\ owed /\ Unstarted
      \/ ~lockHeld /\ ~owed /\ control = "Idle"
  BY <1>3, Between
<1>8. ASSUME package' = package \/ identity = NoLock, OnRecord' PROVE Hands' /\ Recorded'
  <2>1. Hands' BY <1>3, <1>4, <1>8 DEF Hands, Moving
  <2>2. Recorded' BY <1>3, <1>4, <1>8 DEF Recorded
  <2> QED BY <2>1, <2>2
<1>9. CASE ~Obeyed(c)
  <2>1. effects' = <<>> /\ UNCHANGED <<state, package, lockHeld>>
    BY <1>2, <1>9 DEF Handle, Ignore, snapshot
  <2>2. OnRecord' BY <1>3, <1>4, <2>1 DEF Recorded, OnRecord
  <2>3. ToDo'
    <3>1. owed' = owed BY <1>3, <1>7, <2>1
    <3> QED BY <1>4, <1>7, <2>1, <3>1 DEF ToDo, Unstarted
  <2> QED BY <1>5, <1>6, <1>8, <2>1, <2>2, <2>3 DEF EffectsInv
<1>10. CASE Obeyed(c) /\ c.kind = "Start"
  <2>1. Start(c)
    BY <1>2, <1>10 DEF Handle, Pause, Resume, Abort, Progress, Complete, Fail
  <2>2. /\ ~lockHeld /\ lockHeld' /\ state' = "Streaming"
        /\ package'.id = c.id /\ effects' = LockThenStream(c.id)
    BY <1>3, <1>10, <2>1, StartKeeps
  <2>3. ~owed /\ control = "Idle" /\ identity = NoLock BY <1>3, <1>7, <2>2 DEF Hands
  <2>4. OnRecord' BY <2>2 DEF OnRecord
  <2>5. ToDo' BY <1>3, <1>4, <2>2, <2>3 DEF ToDo
  <2> QED BY <1>5, <1>6, <1>8, <2>3, <2>4, <2>5 DEF EffectsInv
<1>11. CASE Obeyed(c) /\ c.kind # "Start"
  <2>1. Pause(c) \/ Resume(c) \/ Abort(c) \/ Progress(c) \/ Complete(c) \/ Fail(c)
    BY <1>2, <1>11 DEF Handle, Start
  <2>2. lockHeld /\ live /\ c.id = package.id /\ package' = package
    BY <1>3, <1>11, <2>1, OthersKeep
  <2>3. (~owed /\ control = state) \/ (owed /\ Unstarted) BY <1>7, <2>2
  <2>4. OnRecord'
    BY <1>3, <1>4, <2>1, <2>2
       DEF OnRecord, Pause, Resume, Abort, Progress, Complete, Fail, live
  <2>5. ToDo'
    <3> USE DEF Obeyed
    <3>1. CASE Pause(c)
      <4>1. /\ state = "Streaming" /\ state' = "Paused" /\ effects' = Hold(package'.id)
            /\ lockHeld' = lockHeld
        BY <1>11, <2>2, <3>1 DEF Pause
      <4>2. owed' = owed BY <1>3, <2>2, <4>1
      <4>3. (~owed' /\ control' = "Streaming") \/ (owed' /\ Unstarted')
        BY <1>4, <2>3, <4>1, <4>2 DEF Unstarted
      <4> QED BY <4>1, <4>3 DEF ToDo
    <3>2. CASE Resume(c)
      <4>1. /\ state = "Paused" /\ state' = "Streaming"
            /\ effects' = <<Effect("CycleStart", package'.id)>> /\ lockHeld' = lockHeld
        BY <1>11, <2>2, <3>2 DEF Resume
      <4>2. owed' = owed BY <1>3, <2>2, <4>1
      <4>3. (~owed' /\ control' = "Paused") \/ (owed' /\ Unstarted')
        BY <1>4, <2>3, <4>1, <4>2 DEF Unstarted
      <4> QED BY <4>1, <4>3 DEF ToDo
    <3>3. CASE Abort(c) \/ Fail(c)
      <4>1. /\ state' \in {"Aborted", "Failed"} /\ ~lockHeld'
            /\ effects' = AbortThenRelease(package'.id)
        BY <2>2, <3>3 DEF Abort, Fail
      <4> QED BY <1>3, <4>1 DEF ToDo
    <3>4. CASE Progress(c)
      <4>1. effects' = <<>> /\ state' = state /\ lockHeld' = lockHeld
        BY <3>4 DEF Progress
      <4>2. owed' = owed BY <1>3, <2>2, <4>1
      <4> QED BY <1>4, <2>2, <2>3, <4>1, <4>2 DEF ToDo, Unstarted
    <3>5. CASE Complete(c)
      <4>1. /\ state' = "Completed" /\ ~lockHeld'
            /\ effects' = <<Effect("ReleaseRunLock", package'.id)>>
        BY <2>2, <3>5 DEF Complete, DropLock
      <4>2. machine = "done" /\ ~owed
        BY <1>2, <2>2, <3>5 DEF Truthful, Complete
      <4>3. control \in {"Streaming", "Paused"} /\ ~Moving'
        BY <1>4, <2>2, <2>3, <4>2 DEF live, Moving
      <4> QED BY <1>3, <1>4, <4>1, <4>3 DEF ToDo
    <3> QED BY <2>1, <3>1, <3>2, <3>3, <3>4, <3>5
  <2> QED BY <1>5, <1>6, <1>8, <2>2, <2>4, <2>5 DEF EffectsInv
<1> QED BY <1>9, <1>10, <1>11
-----------------------------------------------------------------------------
(* Each effect, carried out or rejected, leaves the rest.                   *)

\* What an effect that changes nothing disturbs: only what is still to do.
LEMMA NothingDone ==
  ASSUME EffectsInv, Take, UNCHANGED <<adapter, world>>, owed' \in BOOLEAN, ToDo',
         effects' = <<>> => state # "Completed"
  PROVE  EffectsInv'
<1>1. UNCHANGED <<state, package, lockHeld, control, identity, streamAttempted, hasJob,
                  lock, machine, job, reported>>
  BY DEF Take, snapshot, adapter, world
<1>2. RunInv' /\ Hands'
  BY <1>1 DEF EffectsInv, RunInv, Control, LockIffLive, live, Hands, Moving
<1>3. OnRecord' BY <1>1 DEF OnRecord
<1>4. Recorded' BY <1>1, <1>3 DEF EffectsInv, Recorded
<1> QED BY <1>2, <1>4 DEF EffectsInv

\* The adapter takes the effects in the order they were issued, for the run
\* they were issued for.
LEMMA NextToDo ==
  ASSUME EffectsInv, effects # <<>>
  PROVE  LET A == package.id IN
    /\ First.id = A /\ A \in Identities /\ package # NoPackage
    /\ \/ /\ First.effect = "AcquireRunLock" /\ Tail(effects) = <<Effect("StartStream", A)>>
          /\ state = "Streaming" /\ ~owed /\ control = "Idle"
       \/ /\ First.effect = "StartStream" /\ Tail(effects) = <<>> /\ state = "Streaming"
          /\ (~owed /\ control = "Locked") \/ (owed /\ control = "Idle")
       \/ /\ First.effect = "FeedHold" /\ Tail(effects) = <<>> /\ state = "Paused"
          /\ (~owed /\ control = "Streaming") \/ (owed /\ Unstarted)
       \/ /\ First.effect = "CycleStart" /\ Tail(effects) = <<>> /\ state = "Streaming"
          /\ (~owed /\ control = "Paused") \/ (owed /\ Unstarted)
       \/ /\ First.effect = "AbortStream" /\ state \in {"Aborted", "Failed"} /\ ~owed
          /\ Tail(effects) = <<Effect("ReleaseRunLock", A)>>
       \/ /\ First.effect = "ReleaseRunLock" /\ Tail(effects) = <<>> /\ ~owed
          /\ \/ state \in {"Aborted", "Failed"} /\ Unstarted
             \/ state = "Completed" /\ control \in {"Streaming", "Paused"} /\ ~Moving
<1>1. package # NoPackage
  BY DEF EffectsInv, ToDo, RunInv, Control
<1>2. package.id \in Identities BY <1>1, HasId DEF EffectsInv
<1>3. ToDo BY DEF EffectsInv
<1> DEFINE A == package.id
<1> USE DEF First, Effect
<1>4. CASE effects = LockThenStream(A) /\ state = "Streaming" /\ ~owed /\ control = "Idle"
  BY <1>1, <1>2, <1>4 DEF LockThenStream
<1>5. CASE /\ effects = <<Effect("StartStream", A)>> /\ state = "Streaming"
           /\ (~owed /\ control = "Locked") \/ (owed /\ control = "Idle")
  BY <1>1, <1>2, <1>5
<1>6. CASE /\ effects = Hold(A) /\ state = "Paused"
           /\ (~owed /\ control = "Streaming") \/ (owed /\ Unstarted)
  BY <1>1, <1>2, <1>6 DEF Hold
<1>7. CASE /\ effects = <<Effect("CycleStart", A)>> /\ state = "Streaming"
           /\ (~owed /\ control = "Paused") \/ (owed /\ Unstarted)
  BY <1>1, <1>2, <1>7
<1>8. CASE effects = AbortThenRelease(A) /\ state \in {"Aborted", "Failed"} /\ ~owed
  BY <1>1, <1>2, <1>8 DEF AbortThenRelease
<1>9. CASE /\ effects = <<Effect("ReleaseRunLock", A)>> /\ ~owed
           /\ \/ state \in {"Aborted", "Failed"} /\ Unstarted
              \/ state = "Completed" /\ control \in {"Streaming", "Paused"} /\ ~Moving
  BY <1>1, <1>2, <1>9
<1> QED BY <1>3, <1>4, <1>5, <1>6, <1>7, <1>8, <1>9 DEF ToDo

LEMMA LiveHeld == ASSUME EffectsInv, state \in {"Streaming", "Paused"} PROVE lockHeld
BY DEF EffectsInv, RunInv, LockIffLive, live

LEMMA EndedUnheld ==
  ASSUME EffectsInv, state \in {"Completed", "Aborted", "Failed"} PROVE ~lockHeld
BY DEF EffectsInv, RunInv, LockIffLive, live

LEMMA AcquireKeeps == ASSUME EffectsInv, AcquireRunLock PROVE EffectsInv'
<1>1. /\ effects # <<>> /\ First.effect = "AcquireRunLock" /\ Hands /\ Recorded /\ RunInv
  BY DEF AcquireRunLock, EffectsInv
<1>2. /\ First.id = package.id /\ package.id \in Identities /\ package # NoPackage
      /\ Tail(effects) = <<Effect("StartStream", package.id)>>
      /\ state = "Streaming" /\ ~owed /\ control = "Idle"
  BY <1>1, NextToDo
<1>3. lockHeld BY <1>2, LiveHeld
<1>4. CASE /\ AcquireFree(First.id) /\ Done
           /\ lock' = First.id /\ identity' = First.id /\ control' = "Locked"
           /\ UNCHANGED <<streamAttempted, hasJob, lastReleasedRun, machine, job,
                          reported, owed>>
  <2>1. /\ effects' = <<Effect("StartStream", package'.id)>>
        /\ UNCHANGED <<state, package, lockHeld>>
    BY <1>2, <1>4 DEF Done, snapshot
  <2>2. RunInv' BY <1>1, <2>1 DEF RunInv, Control, LockIffLive, live
  <2>3. Hands'
    BY <1>1, <1>2, <1>4, <2>1, CoordinatorAssumption DEF Hands, Moving
  <2>4. Recorded' BY <1>1, <1>2, <1>4, <2>1 DEF Recorded, OnRecord
  <2>5. ToDo' BY <1>2, <1>4, <2>1 DEF ToDo
  <2> QED BY <1>2, <1>4, <2>2, <2>3, <2>4, <2>5 DEF EffectsInv
<1>5. CASE Stays(Exact(First.id))
  <2>1. /\ Take /\ owed' \in BOOLEAN /\ owed' /\ UNCHANGED <<adapter, world>>
    <3>1. ~Exact(First.id)
      BY <1>1, <1>2, CoordinatorAssumption DEF Exact, Hands
    <3> QED BY <1>1, <1>5, <3>1 DEF Stays
  <2>2. UNCHANGED <<state, package, lockHeld, control>>
    BY <2>1 DEF Take, snapshot, adapter
  <2>3. effects' = <<>> \/ effects' = <<Effect("StartStream", package'.id)>>
    BY <1>2, <2>1, <2>2 DEF Take
  <2>4. ToDo' BY <1>2, <1>3, <2>1, <2>2, <2>3 DEF ToDo, Unstarted
  <2> QED BY <1>2, <2>1, <2>4, NothingDone
<1> QED BY <1>4, <1>5 DEF AcquireRunLock

LEMMA StartStreamKeeps == ASSUME EffectsInv, StartStream PROVE EffectsInv'
<1>1. /\ effects # <<>> /\ First.effect = "StartStream" /\ Hands /\ Recorded /\ RunInv
  BY DEF StartStream, EffectsInv
<1>2. /\ First.id = package.id /\ package.id \in Identities /\ package # NoPackage
      /\ Tail(effects) = <<>> /\ state = "Streaming"
      /\ (~owed /\ control = "Locked") \/ (owed /\ control = "Idle")
  BY <1>1, NextToDo
<1>3. lockHeld BY <1>2, LiveHeld
<1>4. ASSUME Exact(First.id), control = "Locked",
             NEW started \in BOOLEAN, NEW inserted \in BOOLEAN,
             Attempt(First.id, started, inserted),
             IF started /\ inserted THEN Done /\ UNCHANGED owed ELSE Take /\ owed' = TRUE,
             UNCHANGED <<identity, lastReleasedRun, lock>>
      PROVE  EffectsInv'
  <2>1. /\ effects' = <<>> /\ UNCHANGED <<state, package, lockHeld>>
    BY <1>2, <1>4 DEF Done, Take, snapshot
  <2>2. RunInv' BY <1>1, <2>1 DEF RunInv, Control, LockIffLive, live
  <2>3. ~owed BY <1>2, <1>4
  <2>4. identity = package.id /\ identity' = package.id /\ identity' # NoLock
    BY <1>2, <1>4, CoordinatorAssumption DEF Exact
  <2>5. ~hasJob /\ job \in Rows \cup {NoRow} /\ (job.status = "running" => reported)
    BY <1>1, <1>4 DEF Recorded
  <2>8. OnRecord' BY <1>2, <2>1 DEF OnRecord
  <2>6. CASE started /\ inserted
    <3>1. /\ control' = "Streaming" /\ machine' = "streaming" /\ hasJob' /\ ~owed'
          /\ owed' = owed /\ job' = [of |-> package.id, status |-> "running"]
      BY <1>2, <1>4, <2>3, <2>6 DEF Attempt
    <3>2. Hands' BY <1>1, <1>4, <2>1, <2>4, <3>1 DEF Hands, Moving
    <3>3. job' \in Rows BY <1>2, <3>1 DEF Rows, Statuses
    <3>4. Recorded' BY <1>2, <2>1, <2>4, <3>1, <3>3 DEF Recorded, OnRecord
    <3>5. ToDo' BY <1>2, <1>3, <2>1, <3>1 DEF ToDo
    <3>6. owed' \in BOOLEAN BY <3>1 DEF EffectsInv
    <3> QED BY <2>2, <3>2, <3>4, <3>5, <3>6 DEF EffectsInv
  <2>7. CASE ~(started /\ inserted)
    <3>1. control' = "Aborting" /\ machine' = "none" /\ owed' /\ owed' \in BOOLEAN
      BY <1>4, <2>7 DEF Attempt, StopUnrecorded
    <3>6. control' = "Aborting" BY <3>1
    <3>2. Hands' BY <1>1, <1>4, <2>1, <2>4, <3>1 DEF Hands, Moving
    <3>3. ASSUME inserted PROVE Recorded'
      <4>1. job' = [of |-> package.id, status |-> "running"] /\ hasJob'
        BY <1>2, <1>4, <3>3 DEF Attempt
      <4>2. job' \in Rows BY <1>2, <4>1 DEF Rows, Statuses
      <4>3. job'.of = identity' BY <2>4, <4>1
      <4> QED BY <2>8, <3>6, <4>1, <4>2, <4>3 DEF Recorded
    <3>4. ASSUME ~inserted PROVE Recorded'
      <4>1. job' = job /\ ~hasJob' /\ (reported' <=> reported)
        BY <1>4, <3>4 DEF Attempt
      <4>2. job'.status = "running" => reported' BY <2>5, <4>1
      <4> QED BY <2>5, <2>8, <3>6, <4>1, <4>2 DEF Recorded
    <3>5. ToDo' BY <1>2, <1>3, <2>1, <3>1 DEF ToDo, Unstarted
    <3> QED BY <2>2, <3>1, <3>2, <3>3, <3>4, <3>5 DEF EffectsInv
  <2> QED BY <2>6, <2>7
<1>5. CASE Stays(Exact(First.id) /\ streamAttempted)
  <2>1. Take /\ owed' \in BOOLEAN /\ owed' /\ UNCHANGED <<adapter, world>>
    <3>1. ~(Exact(First.id) /\ streamAttempted)
      BY <1>1, <1>2, CoordinatorAssumption DEF Exact, Hands
    <3> QED BY <1>1, <1>5, <3>1 DEF Stays
  <2>2. UNCHANGED <<state, package, lockHeld, control>> /\ effects' = <<>>
    BY <1>2, <2>1 DEF Take, snapshot, adapter
  <2>3. ToDo' BY <1>2, <1>3, <2>1, <2>2 DEF ToDo, Unstarted
  <2> QED BY <1>2, <2>1, <2>3, NothingDone
<1> QED BY <1>4, <1>5 DEF StartStream

\* Hold and cycle start change nothing but the motion of a started run.
LEMMA MotionKeeps ==
  ASSUME EffectsInv, effects # <<>>, Done, Exact(First.id), ~owed, ~owed',
         control \in {"Streaming", "Paused"},
         control' = state, state \in {"Streaming", "Paused"}, Tail(effects) = <<>>,
         control' = "Paused" => machine' # "streaming",
         control' = "Streaming" => machine' # "held",
         UNCHANGED <<identity, streamAttempted, hasJob, lastReleasedRun, lock, job,
                     reported, owed>>
  PROVE  EffectsInv'
<1>1. effects' = <<>> /\ UNCHANGED <<state, package, lockHeld>> /\ lockHeld
  BY LiveHeld DEF Done, snapshot
<1>2. RunInv' BY <1>1 DEF EffectsInv, RunInv, Control, LockIffLive, live
<1>3. Hands'
  BY <1>1, CoordinatorAssumption DEF EffectsInv, Hands, Moving
<1>4. Recorded' BY <1>1 DEF EffectsInv, Recorded, OnRecord
<1>5. ToDo' BY <1>1 DEF ToDo
<1>6. owed' \in BOOLEAN BY DEF EffectsInv
<1> QED BY <1>2, <1>3, <1>4, <1>5, <1>6 DEF EffectsInv

LEMMA FeedHoldKeeps == ASSUME EffectsInv, FeedHold PROVE EffectsInv'
<1>1. /\ effects # <<>> /\ First.effect = "FeedHold" /\ Hands /\ owed \in BOOLEAN
  BY DEF FeedHold, EffectsInv
<1>2. /\ First.id = package.id /\ package.id \in Identities
      /\ Tail(effects) = <<>> /\ state = "Paused"
      /\ (~owed /\ control = "Streaming") \/ (owed /\ Unstarted)
  BY <1>1, NextToDo
<1>3. CASE /\ Exact(First.id) /\ control = "Streaming" /\ Done
           /\ control' = "Paused"
           /\ machine' = IF machine = "streaming" THEN "held" ELSE machine
           /\ UNCHANGED <<identity, streamAttempted, hasJob, lastReleasedRun, lock, job,
                          reported, owed>>
  <2>1. ~owed /\ ~owed' BY <1>2, <1>3 DEF Unstarted
  <2> QED BY <1>1, <1>2, <1>3, <2>1, MotionKeeps
<1>4. CASE /\ ~(Exact(First.id) /\ control = "Streaming")
           /\ Stays(Exact(First.id) /\ control = "Paused")
  <2>1. /\ Take /\ UNCHANGED <<adapter, world, state, package, lockHeld, control>>
        /\ effects' = <<>>
    BY <1>2, <1>4 DEF Stays, Take, snapshot, adapter
  <2>2. owed /\ Unstarted
    BY <1>1, <1>2, <1>4, CoordinatorAssumption DEF Hands, Exact
  <2>3. owed' /\ owed' \in BOOLEAN BY <1>1, <1>4, <2>2 DEF Stays
  <2>4. ToDo' BY <1>2, <2>1, <2>2, <2>3, LiveHeld DEF ToDo, Unstarted
  <2> QED BY <1>2, <2>1, <2>3, <2>4, NothingDone
<1> QED BY <1>3, <1>4 DEF FeedHold

LEMMA CycleStartKeeps == ASSUME EffectsInv, CycleStart PROVE EffectsInv'
<1>1. /\ effects # <<>> /\ First.effect = "CycleStart" /\ Hands /\ owed \in BOOLEAN
  BY DEF CycleStart, EffectsInv
<1>2. /\ First.id = package.id /\ package.id \in Identities
      /\ Tail(effects) = <<>> /\ state = "Streaming"
      /\ (~owed /\ control = "Paused") \/ (owed /\ Unstarted)
  BY <1>1, NextToDo
<1>3. CASE /\ Exact(First.id) /\ control = "Paused" /\ Done
           /\ control' = "Streaming"
           /\ machine' = IF machine = "held" THEN "streaming" ELSE machine
           /\ UNCHANGED <<identity, streamAttempted, hasJob, lastReleasedRun, lock, job,
                          reported, owed>>
  <2>1. ~owed /\ ~owed' BY <1>2, <1>3 DEF Unstarted
  <2> QED BY <1>1, <1>2, <1>3, <2>1, MotionKeeps
<1>4. CASE /\ ~(Exact(First.id) /\ control = "Paused")
           /\ Stays(Exact(First.id) /\ control = "Streaming")
  <2>1. /\ Take /\ UNCHANGED <<adapter, world, state, package, lockHeld, control>>
        /\ effects' = <<>>
    BY <1>2, <1>4 DEF Stays, Take, snapshot, adapter
  <2>2. owed /\ Unstarted
    BY <1>1, <1>2, <1>4, CoordinatorAssumption DEF Hands, Exact
  <2>3. owed' /\ owed' \in BOOLEAN BY <1>1, <1>4, <2>2 DEF Stays
  <2>4. ToDo' BY <1>2, <2>1, <2>2, <2>3, LiveHeld DEF ToDo, Unstarted
  <2> QED BY <1>2, <2>1, <2>3, <2>4, NothingDone
<1> QED BY <1>3, <1>4 DEF CycleStart

LEMMA AbortStreamKeeps == ASSUME EffectsInv, AbortStream PROVE EffectsInv'
<1>1. /\ effects # <<>> /\ First.effect = "AbortStream" /\ Hands /\ owed \in BOOLEAN
      /\ Recorded /\ RunInv
  BY DEF AbortStream, EffectsInv
<1>2. /\ First.id = package.id /\ package.id \in Identities
      /\ state \in {"Aborted", "Failed"} /\ ~owed
      /\ Tail(effects) = <<Effect("ReleaseRunLock", package.id)>>
  BY <1>1, NextToDo
<1>3. CASE /\ Exact(First.id) /\ control \in {"Streaming", "Paused"} /\ Done
           /\ control' = "Aborting" /\ machine' = "none"
           /\ UNCHANGED <<identity, streamAttempted, hasJob, lastReleasedRun, lock, job,
                          reported, owed>>
  <2>1. /\ effects' = <<Effect("ReleaseRunLock", package'.id)>>
        /\ UNCHANGED <<state, package, lockHeld>>
    BY <1>2, <1>3 DEF Done, snapshot
  <2>2. RunInv' BY <1>1, <2>1 DEF RunInv, Control, LockIffLive, live
  <2>3. Hands' BY <1>1, <1>3, <2>1 DEF Hands, Moving
  <2>4. Recorded' BY <1>1, <1>3, <2>1 DEF Recorded, OnRecord
  <2>5. ToDo' BY <1>2, <1>3, <2>1 DEF ToDo, Unstarted
  <2> QED BY <1>1, <1>3, <2>2, <2>3, <2>4, <2>5 DEF EffectsInv
<1>4. CASE /\ ~(Exact(First.id) /\ control \in {"Streaming", "Paused"})
           /\ Stays(Exact(First.id))
  <2>1. /\ Take /\ UNCHANGED <<adapter, world, state, package, lockHeld, control>>
        /\ effects' = <<>> \/ effects' = <<Effect("ReleaseRunLock", package'.id)>>
    BY <1>2, <1>4 DEF Stays, Take, snapshot, adapter
  <2>2. Unstarted
    BY <1>1, <1>2, <1>4, CoordinatorAssumption DEF Hands, Exact, Unstarted
  <2>3. effects' = <<>> => control = "Idle"
    BY <1>1, <1>2, <1>4, <2>2, CoordinatorAssumption
       DEF Hands, Exact, Stays, Unstarted, Effect
  <2>4. ~owed' /\ owed' \in BOOLEAN BY <1>1, <1>2, <1>4 DEF Stays
  <2>5. ToDo' BY <1>2, <2>1, <2>2, <2>3, <2>4, EndedUnheld DEF ToDo, Unstarted
  <2> QED BY <1>2, <2>1, <2>4, <2>5, NothingDone
<1> QED BY <1>3, <1>4 DEF AbortStream

LEMMA ReleaseKeeps == ASSUME EffectsInv, ReleaseRunLock PROVE EffectsInv'
<1>1. /\ effects # <<>> /\ First.effect = "ReleaseRunLock" /\ Hands /\ owed \in BOOLEAN
      /\ Recorded /\ RunInv
  BY DEF ReleaseRunLock, EffectsInv
<1>2. /\ First.id = package.id /\ package.id \in Identities
      /\ Tail(effects) = <<>> /\ ~owed
      /\ \/ state \in {"Aborted", "Failed"} /\ Unstarted
         \/ state = "Completed" /\ control \in {"Streaming", "Paused"} /\ ~Moving
  BY <1>1, NextToDo
<1>3. CASE /\ Exact(First.id) /\ MayRelease /\ Done
           /\ FinishJob
           /\ lock' = NoLock /\ lastReleasedRun' = First.id.run
           /\ control' = "Idle" /\ identity' = NoLock
           /\ streamAttempted' = FALSE /\ hasJob' = FALSE
           /\ UNCHANGED <<machine, owed>>
  <2>1. effects' = <<>> /\ UNCHANGED <<state, package, lockHeld>>
    BY <1>2, <1>3 DEF Done, snapshot
  <2>2. RunInv' BY <1>1, <2>1 DEF RunInv, Control, LockIffLive, live
  <2>3. ~Moving BY <1>1, <1>2 DEF Hands, Unstarted
  <2>4. Hands' BY <1>3, <2>3 DEF Hands, Moving
  <2>5. ~lockHeld BY <1>2, EndedUnheld
  <2>6. ToDo' BY <1>2, <1>3, <2>1, <2>5 DEF ToDo
  <2>7. ~hasJob' /\ control' = "Idle" BY <1>3
  <2>8. CASE ~hasJob
    <3>1. UNCHANGED <<job, reported>> BY <1>3, <2>8 DEF FinishJob
    <3>2. state # "Completed" BY <1>1, <1>2, <2>8 DEF Recorded
    <3>3. Recorded' BY <1>1, <2>1, <2>7, <2>8, <3>1, <3>2 DEF Recorded, OnRecord
    <3> QED BY <1>1, <1>3, <2>2, <2>4, <2>6, <3>3 DEF EffectsInv
  <2>9. CASE hasJob
    <3>1. job \in Rows /\ job.of = package.id
      BY <1>1, <1>2, <1>3, <2>9, CoordinatorAssumption DEF Recorded, Exact, NoRow, Hands
    <3>2. CASE reported' = TRUE /\ UNCHANGED job
      <4>1. Recorded' BY <1>1, <2>7, <3>2 DEF Recorded, OnRecord
      <4> QED BY <1>1, <1>3, <2>2, <2>4, <2>6, <4>1 DEF EffectsInv
    <3>3. CASE job' = [job EXCEPT !.status = JobStatus] /\ UNCHANGED reported
      <4>1. JobStatus \in Statuses /\ JobStatus # "running"
            /\ (state = "Completed" => JobStatus = "completed")
        BY DEF JobStatus, Statuses
      <4>2. job' = [of |-> package.id, status |-> JobStatus]
        BY <3>1, <3>3 DEF Rows
      <4>3. job' \in Rows /\ job'.status # "running" BY <1>2, <4>1, <4>2 DEF Rows
      <4>4. OnRecord' BY <2>1, <4>1, <4>2 DEF OnRecord
      <4>5. Recorded' BY <2>7, <4>3, <4>4 DEF Recorded
      <4> QED BY <1>1, <1>3, <2>2, <2>4, <2>6, <4>5 DEF EffectsInv
    <3> QED BY <1>3, <2>9, <3>2, <3>3 DEF FinishJob
  <2> QED BY <2>8, <2>9
<1>4. CASE /\ ~(Exact(First.id) /\ MayRelease)
           /\ Stays(identity = NoLock /\ lastReleasedRun = First.id.run)
  <2>1. /\ Take /\ UNCHANGED <<adapter, world, state, package, lockHeld, control>>
        /\ effects' = <<>>
    BY <1>2, <1>4 DEF Stays, Take, snapshot, adapter
  <2>2. control = "Idle" /\ state # "Completed"
    BY <1>1, <1>2, <1>4, CoordinatorAssumption DEF Hands, Exact, MayRelease, Unstarted
  <2>3. ~owed' /\ owed' \in BOOLEAN BY <1>1, <1>2, <1>4 DEF Stays
  <2>4. ~lockHeld BY <1>2, EndedUnheld
  <2>5. ToDo' BY <2>1, <2>2, <2>3, <2>4 DEF ToDo
  <2> QED BY <2>1, <2>2, <2>3, <2>5, NothingDone
<1> QED BY <1>3, <1>4 DEF ReleaseRunLock

\* The stream that ends by itself ends under its lock.
LEMMA EndKeeps ==
  ASSUME EffectsInv, StreamCompletes \/ StreamDies
  PROVE  EffectsInv'
<1>1. /\ machine' \in {"done", "none"}
      /\ UNCHANGED <<vars, adapter, lock, job, reported, owed>>
  BY DEF StreamCompletes, StreamDies
<1>2. UNCHANGED <<state, package, lockHeld, effects, control, identity, streamAttempted,
                  hasJob, lock, job, reported, owed>>
  BY <1>1 DEF vars, snapshot, adapter
<1>3. RunInv' BY <1>2 DEF EffectsInv, RunInv, Control, LockIffLive, live
<1>4. Hands' BY <1>1, <1>2 DEF EffectsInv, Hands, Moving
<1>5. Recorded' BY <1>2 DEF EffectsInv, Recorded, OnRecord
<1>6. ~Moving' BY <1>1 DEF Moving
<1>7. ToDo' BY <1>2, <1>6 DEF EffectsInv, ToDo, Unstarted
<1> QED BY <1>2, <1>3, <1>4, <1>5, <1>7 DEF EffectsInv

LEMMA EffectsStep == ASSUME EffectsInv, [EffectsNext]_allVars PROVE EffectsInv'
<1>1. CASE UNCHANGED allVars
  <2>1. UNCHANGED <<state, package, lockHeld, effects, control, identity, streamAttempted,
                    hasJob, lock, machine, job, reported, owed>>
    BY <1>1 DEF allVars, effectVars, vars, snapshot, adapter, world
  <2>2. RunInv' BY <2>1 DEF EffectsInv, RunInv, Control, LockIffLive, live
  <2>3. Hands' /\ Recorded'
    BY <2>1 DEF EffectsInv, Hands, Moving, Recorded, OnRecord
  <2>4. ToDo' BY <2>1 DEF EffectsInv, ToDo, Unstarted, Moving
  <2> QED BY <2>1, <2>2, <2>3, <2>4 DEF EffectsInv
<1> QED
  BY <1>1, TurnKeeps, AcquireKeeps, StartStreamKeeps, FeedHoldKeeps, CycleStartKeeps,
     AbortStreamKeeps, ReleaseKeeps, EndKeeps DEF EffectsNext, Execute

LEMMA EffectsInvariant == EffectsSpec => []EffectsInv
BY EffectsStart, EffectsStep, PTL DEF EffectsSpec

\* The machine is never moved, nor held, without the lock of its run, also
\* between two effects and after any rejection.
THEOREM MachineUnderLock == EffectsSpec => []MovesOnlyLocked
<1>1. EffectsInv => MovesOnlyLocked
  <2> SUFFICES ASSUME EffectsInv, Moving PROVE package # NoPackage /\ lock = package.id
    BY DEF MovesOnlyLocked
  <2>1. control \in {"Streaming", "Paused"} /\ identity # NoLock /\ lock = package.id
    BY DEF EffectsInv, Hands
  <2>2. state # "Idle" BY <2>1 DEF EffectsInv, ToDo, RunInv, LockIffLive, live, Unstarted
  <2> QED BY <2>1, <2>2 DEF EffectsInv, RunInv, Control
<1> QED BY <1>1, EffectsInvariant, PTL

\* Between turns the coordinator is right about lock, adapter and machine.
THEOREM BeliefHolds == EffectsSpec => []BeliefIsTrue
<1>1. EffectsInv => BeliefIsTrue
  <2> SUFFICES ASSUME EffectsInv, effects = <<>>
               PROVE  IF lockHeld
                      THEN ~owed => /\ lock = package.id /\ control = state
                                    /\ machine # IF state = "Paused" THEN "streaming"
                                                                    ELSE "held"
                      ELSE lock = NoLock /\ control = "Idle" /\ ~Moving
    BY DEF BeliefIsTrue
  <2>1. \/ lockHeld /\ ~owed /\ control = state
        \/ lockHeld /\ owed /\ Unstarted
        \/ ~lockHeld /\ ~owed /\ control = "Idle"
    BY Between
  <2>2. Hands /\ (lockHeld => state \in {"Streaming", "Paused"})
    BY DEF EffectsInv, RunInv, LockIffLive, live
  <2> QED BY <2>1, <2>2 DEF Hands
<1> QED BY <1>1, EffectsInvariant, PTL

\* The job history is true, or that it is not was reported.
THEOREM HistoryHolds == EffectsSpec => []HistoryIsTrue
<1>1. EffectsInv => HistoryIsTrue
  BY DEF EffectsInv, Recorded, OnRecord, HistoryIsTrue
<1> QED BY <1>1, EffectsInvariant, PTL
=============================================================================
