--------------------------- MODULE RunCoordinator ---------------------------
(***************************************************************************)
(* dw::run_coordination::RunCoordinator: commands come one at a time or in *)
(* a batch of one application turn, of which only one is obeyed; each is   *)
(* answered with the effects its caller must carry out, in order, before   *)
(* it dispatches the next (RunEffects has the adapter that does).  A       *)
(* package is an identity and a preflight revision; that it is well formed *)
(* and its preflight passed is one Boolean.                                *)
(***************************************************************************)
EXTENDS Naturals, Sequences, FiniteSets

CONSTANTS
  Runs, Setups,      \* RunId, RunSetupIdentity
  Preflights,        \* the PreflightRevisions of passed preflights
  Failed,            \* any preflight that makes issue() other than None
  NoPackage, NoLock,
  MaxSequence,       \* bound: RunEventSequence
  MaxFraction,       \* bound: steps of completedFraction
  MaxBatch           \* bound: commands of one turn

Identities == [run : Runs, setup : Setups]
Packages == [id : Identities, preflight : Preflights]

ASSUME CoordinatorAssumption ==
  /\ NoPackage \notin Packages /\ NoLock \notin Identities
  /\ Failed \notin Preflights
  /\ MaxSequence \in Nat /\ MaxFraction \in Nat /\ MaxBatch \in Nat

VARIABLES
  state, package, lastSequence, fraction, lockHeld, \* m_snapshot
  effects,           \* issued, not yet carried out
  asked              \* history: the demands of the last turn

snapshot == <<state, package, lastSequence, fraction, lockHeld>>
vars == <<snapshot, effects, asked>>

States == {"Idle", "Streaming", "Paused", "Completed", "Aborted", "Failed"}
EffectKinds == {"AcquireRunLock", "StartStream", "FeedHold", "CycleStart",
                "AbortStream", "ReleaseRunLock"}
-----------------------------------------------------------------------------
(* Commands.                                                                *)

Starts == [kind : {"Start"}, id : Identities, preflight : Preflights \cup {Failed}]
Controls == [kind : {"Pause", "Resume", "Abort"}, id : Identities]
Reports == [kind : {"Complete", "Fail"}, id : Identities, sequence : 0 .. MaxSequence]
Progresses == [kind : {"Progress"}, id : Identities, sequence : 0 .. MaxSequence,
               fraction : 0 .. MaxFraction + 1]  \* the last one is no fraction
Commands == Starts \cup Controls \cup Reports \cup Progresses

Priority(c) ==
  CASE c.kind = "Abort" -> 0 [] c.kind = "Fail" -> 1 [] c.kind = "Pause" -> 2
    [] c.kind = "Resume" -> 3 [] c.kind = "Complete" -> 4
    [] c.kind = "Progress" -> 5 [] c.kind = "Start" -> 6

live == state \in {"Streaming", "Paused"}

Init ==
  /\ state = "Idle" /\ package = NoPackage
  /\ lastSequence = 0 /\ fraction = 0 /\ lockHeld = FALSE
  /\ effects = <<>> /\ asked = {}
-----------------------------------------------------------------------------
(* The handlers.  Each is a condition under which the command is obeyed and *)
(* what it then does; a command that is not obeyed changes nothing.         *)

ActiveIdentity(id) == lockHeld /\ id = package.id
NotOlder(n) == n >= lastSequence
FreshSequence(n) == n > 0 /\ n > lastSequence

ValidFraction(c) == fraction <= c.fraction /\ c.fraction <= MaxFraction

Effect(kind, id) == [effect |-> kind, id |-> id]

StartObeyed(c) ==
  /\ c.preflight # Failed
  /\ ~live /\ ~lockHeld
  /\ package # NoPackage => package.id.run # c.id.run

Obeyed(c) ==
  \/ c.kind = "Start" /\ StartObeyed(c)
  \/ c.kind # "Start" /\ ActiveIdentity(c.id) /\
       \/ c.kind = "Pause" /\ state = "Streaming"
       \/ c.kind = "Resume" /\ state = "Paused"
       \/ c.kind = "Abort" /\ live
       \/ c.kind = "Progress" /\ state = "Streaming" /\ FreshSequence(c.sequence)
            /\ ValidFraction(c)
       \/ c.kind \in {"Complete", "Fail"} /\ live /\ FreshSequence(c.sequence)

LockThenStream(id) == <<Effect("AcquireRunLock", id), Effect("StartStream", id)>>

Start(c) ==
  /\ c.kind = "Start"
  /\ package' = [id |-> c.id, preflight |-> c.preflight]
  /\ state' = "Streaming" /\ lastSequence' = 0 /\ fraction' = 0 /\ lockHeld' = TRUE
  /\ effects' = LockThenStream(c.id)

Hold(id) == <<Effect("FeedHold", id)>>

Pause(c) ==
  /\ c.kind = "Pause"
  /\ state' = "Paused"
  /\ effects' = Hold(c.id)
  /\ UNCHANGED <<package, lastSequence, fraction, lockHeld>>

Resume(c) ==
  /\ c.kind = "Resume"
  /\ state' = "Streaming"
  /\ effects' = <<Effect("CycleStart", c.id)>>
  /\ UNCHANGED <<package, lastSequence, fraction, lockHeld>>

ReleaseThenAbort(id) == <<Effect("ReleaseRunLock", id), Effect("AbortStream", id)>>
AbortThenRelease(id) == <<Effect("AbortStream", id), Effect("ReleaseRunLock", id)>>

Abort(c) ==
  /\ c.kind = "Abort"
  /\ state' = "Aborted" /\ lockHeld' = FALSE
  /\ effects' = AbortThenRelease(c.id)
  /\ UNCHANGED <<package, lastSequence, fraction>>

Progress(c) ==
  /\ c.kind = "Progress"
  /\ lastSequence' = c.sequence /\ fraction' = c.fraction
  /\ effects' = <<>>
  /\ UNCHANGED <<state, package, lockHeld>>

DropLock == lockHeld' = FALSE

Complete(c) ==
  /\ c.kind = "Complete"
  /\ state' = "Completed" /\ lastSequence' = c.sequence /\ fraction' = MaxFraction
  /\ DropLock
  /\ effects' = <<Effect("ReleaseRunLock", c.id)>>
  /\ UNCHANGED package

Fail(c) ==
  /\ c.kind = "Fail"
  /\ state' = "Failed" /\ lastSequence' = c.sequence /\ lockHeld' = FALSE
  /\ effects' = AbortThenRelease(c.id)
  /\ UNCHANGED <<package, fraction>>

Ignore == effects' = <<>> /\ UNCHANGED snapshot

Handle(c) ==
  IF Obeyed(c)
  THEN Start(c) \/ Pause(c) \/ Resume(c) \/ Abort(c) \/ Progress(c) \/ Complete(c) \/ Fail(c)
  ELSE Ignore
-----------------------------------------------------------------------------
(* Arbitration between the commands of one turn.                            *)

EligibleIfFresh(c) ==
  IF live THEN c.kind \in {"Progress", "Complete", "Fail"} => FreshSequence(c.sequence)
  ELSE c.kind = "Start"

Eligible(c) ==
  IF live
  THEN /\ c.id = package.id
       /\ c.kind \in {"Progress", "Complete", "Fail"} => FreshSequence(c.sequence)
  ELSE c.kind = "Start"

Foremost(batch, among) ==
  CHOOSE i \in among : \A j \in among :
    \/ Priority(batch[i]) < Priority(batch[j])
    \/ Priority(batch[i]) = Priority(batch[j]) /\ i <= j

Selected(batch) ==
  LET eligible == {i \in DOMAIN batch : Eligible(batch[i])}
  IN  batch[Foremost(batch, IF eligible # {} THEN eligible ELSE DOMAIN batch)]

\* The kinds of the commands that would stop or hold the live run.
Demands(batch) ==
  {batch[i].kind : i \in {j \in DOMAIN batch : live /\ batch[j].id = package.id}}
    \cap {"Pause", "Abort"}

DispatchBatch(batch) ==
  /\ effects = <<>>
  /\ Handle(Selected(batch))
  /\ asked' = Demands(batch)

Batches == UNION {[1 .. n -> Commands] : n \in 1 .. MaxBatch}

\* The caller takes the first effect, and may drop the others if that fails.
Take ==
  /\ effects # <<>> /\ effects' \in {Tail(effects), <<>>}
  /\ asked' = {}
  /\ UNCHANGED snapshot

Next == (\E batch \in Batches : DispatchBatch(batch)) \/ Take

Spec == Init /\ [][Next]_vars
-----------------------------------------------------------------------------
TypeOK ==
  /\ state \in States /\ package \in Packages \cup {NoPackage}
  /\ state = "Idle" <=> package = NoPackage
  /\ lastSequence \in 0 .. MaxSequence /\ fraction \in 0 .. MaxFraction
  /\ lockHeld \in BOOLEAN
  /\ effects \in Seq([effect : EffectKinds, id : Identities])
  /\ asked \subseteq {"Pause", "Abort"}

\* The coordinator holds the run lock exactly while a run is live; otherwise
\* a run could be commanded without a lock, or no run ever started again.
LockIffLive == lockHeld <=> live

\* A live run keeps its package (RUNX-05: run coordination cannot silently
\* change setup identity).
PackageIsPinned == [][live /\ live' => package' = package]_vars

\* Within a run event sequence and progress only grow: a late or repeated
\* report never takes a run back, and none is applied twice.
NothingStale ==
  [][package' = package =>
       /\ lastSequence' >= lastSequence /\ fraction' >= fraction
       /\ (fraction' # fraction => lastSequence' > lastSequence \/ state' = "Completed")]_vars

\* A command to stop or hold the live run is obeyed whatever comes with it in
\* the same turn: stale and foreign commands cannot outrank it.
StopWins ==
  [][/\ "Abort" \in asked' => state' = "Aborted"
     /\ "Pause" \in asked' => state' # "Streaming"]_vars
=============================================================================
