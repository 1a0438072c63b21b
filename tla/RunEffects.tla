----------------------------- MODULE RunEffects -----------------------------
(***************************************************************************)
(* dw::DirectCarveRunEffectAdapter carries out the effects of the run      *)
(* coordinator against the project session (the run lock), the controller  *)
(* (the stream) and the job table, and may reject each of them: the        *)
(* project or the G-code may have changed, the controller may not start,   *)
(* the database may fail.  External: its caller, which answers a rejected  *)
(* start with a failure (RunFailure::StreamStartFailed) and reports as     *)
(* complete only a stream that has come to its end, and which may or may   *)
(* not go on with the other effects when one is rejected.                  *)
(***************************************************************************)
EXTENDS RunCoordinator

CONSTANT NoRun

ASSUME EffectsAssumption == NoRun \notin Runs

Statuses == {"running", "completed", "aborted", "interrupted"}
Rows == [of : Identities, status : Statuses]
NoRow == [of |-> NoLock, status |-> "none"]

VARIABLES
  lock,       \* the session's active run
  machine,    \* the controller's stream
  control, identity, streamAttempted, hasJob,  \* m_snapshot
  lastReleasedRun,
  job,        \* the last row of cnc_jobs
  reported,   \* history: it could not be finished, and that was reported
  owed        \* a rejected start that the caller has not yet answered

adapter == <<control, identity, streamAttempted, hasJob, lastReleasedRun>>
world == <<lock, machine, job, reported>>
effectVars == <<adapter, world, owed>>
allVars == <<vars, effectVars>>

EffectsInit ==
  /\ Init
  /\ lock = NoLock /\ machine = "none"
  /\ control = "Idle" /\ identity = NoLock
  /\ streamAttempted = FALSE /\ hasJob = FALSE
  /\ lastReleasedRun = NoRun
  /\ job = NoRow /\ reported = FALSE
  /\ owed = FALSE
-----------------------------------------------------------------------------
First == Head(effects)
Exact(id) == identity = id /\ lock = id

Done == effects # <<>> /\ effects' = Tail(effects) /\ asked' = {} /\ UNCHANGED snapshot

\* An effect that changes nothing: it was carried out before, or is rejected.
Stays(already) ==
  /\ Take
  /\ already => effects' = Tail(effects)
  /\ owed' = (owed \/ (~already /\ First.effect \in {"AcquireRunLock", "StartStream"}))
  /\ UNCHANGED <<adapter, world>>

AcquireFree(id) == identity = NoLock /\ lastReleasedRun # id.run /\ lock = NoLock

AcquireRunLock ==
  LET id == First.id IN
  /\ effects # <<>> /\ First.effect = "AcquireRunLock"
  /\ \/ /\ AcquireFree(id) /\ Done
        /\ lock' = id /\ identity' = id /\ control' = "Locked"
        /\ UNCHANGED <<streamAttempted, hasJob, lastReleasedRun, machine, job, reported, owed>>
     \/ Stays(Exact(id))

\* startStream and the insertion of the job row have happened, well or not; a
\* stream without a row is stopped at once.
LeaveUnrecorded(started) == IF started THEN "streaming" ELSE "none"
StopUnrecorded(started) == "none"

Attempt(id, started, inserted) ==
  /\ streamAttempted' = TRUE /\ hasJob' = inserted
  /\ job' = IF inserted THEN [of |-> id, status |-> "running"] ELSE job
  /\ reported' = (reported /\ ~inserted)
  /\ control' = IF started /\ inserted THEN "Streaming" ELSE "Aborting"
  /\ machine' = IF started /\ inserted THEN "streaming" ELSE StopUnrecorded(started)

StartStream ==
  LET id == First.id IN
  /\ effects # <<>> /\ First.effect = "StartStream"
  /\ \/ /\ Exact(id) /\ ~streamAttempted /\ control = "Locked"
        /\ \E started, inserted \in BOOLEAN :
             /\ Attempt(id, started, inserted)
             /\ IF started /\ inserted THEN Done /\ UNCHANGED owed
                                       ELSE Take /\ owed' = TRUE
        /\ UNCHANGED <<identity, lastReleasedRun, lock>>
     \/ Stays(Exact(id) /\ streamAttempted)
-----------------------------------------------------------------------------
FeedHold ==
  LET id == First.id IN
  /\ effects # <<>> /\ First.effect = "FeedHold"
  /\ \/ /\ Exact(id) /\ control = "Streaming" /\ Done
        /\ control' = "Paused"
        /\ machine' = IF machine = "streaming" THEN "held" ELSE machine
        /\ UNCHANGED <<identity, streamAttempted, hasJob, lastReleasedRun, lock, job,
                       reported, owed>>
     \/ /\ ~(Exact(id) /\ control = "Streaming")
        /\ Stays(Exact(id) /\ control = "Paused")

CycleStart ==
  LET id == First.id IN
  /\ effects # <<>> /\ First.effect = "CycleStart"
  /\ \/ /\ Exact(id) /\ control = "Paused" /\ Done
        /\ control' = "Streaming"
        /\ machine' = IF machine = "held" THEN "streaming" ELSE machine
        /\ UNCHANGED <<identity, streamAttempted, hasJob, lastReleasedRun, lock, job,
                       reported, owed>>
     \/ /\ ~(Exact(id) /\ control = "Paused")
        /\ Stays(Exact(id) /\ control = "Streaming")

AbortStream ==
  LET id == First.id IN
  /\ effects # <<>> /\ First.effect = "AbortStream"
  /\ \/ /\ Exact(id) /\ control \in {"Streaming", "Paused"} /\ Done
        /\ control' = "Aborting" /\ machine' = "none"
        /\ UNCHANGED <<identity, streamAttempted, hasJob, lastReleasedRun, lock, job,
                       reported, owed>>
     \/ /\ ~(Exact(id) /\ control \in {"Streaming", "Paused"})
        /\ Stays(Exact(id))

\* The outcome an effect carries is the state the coordinator has gone to.
MayRelease ==
  IF state = "Completed" THEN control \in {"Streaming", "Paused"}
                         ELSE control \in {"Aborting", "Locked"}

JobStatus ==
  CASE state = "Completed" -> "completed" [] state = "Aborted" -> "aborted"
    [] OTHER -> "interrupted"

\* finishJob; if it fails the lock is released all the same and the failure is
\* reported (JobFinalizeFailed).
LeaveRow == UNCHANGED <<job, reported>>
FinishJob ==
  IF ~hasJob THEN UNCHANGED <<job, reported>>
  ELSE \/ job' = [job EXCEPT !.status = JobStatus] /\ UNCHANGED reported
       \/ reported' = TRUE /\ UNCHANGED job

ReleaseRunLock ==
  LET id == First.id IN
  /\ effects # <<>> /\ First.effect = "ReleaseRunLock"
  /\ \/ /\ Exact(id) /\ MayRelease /\ Done
        /\ FinishJob
        /\ lock' = NoLock /\ lastReleasedRun' = id.run
        /\ control' = "Idle" /\ identity' = NoLock
        /\ streamAttempted' = FALSE /\ hasJob' = FALSE
        /\ UNCHANGED <<machine, owed>>
     \/ /\ ~(Exact(id) /\ MayRelease)
        /\ Stays(identity = NoLock /\ lastReleasedRun = id.run)

Execute ==
  \/ AcquireRunLock \/ StartStream \/ FeedHold
  \/ CycleStart \/ AbortStream \/ ReleaseRunLock
-----------------------------------------------------------------------------
(* The stream ends by itself, executed or broken off.                       *)

StreamCompletes ==
  /\ machine = "streaming" /\ machine' = "done"
  /\ UNCHANGED <<vars, adapter, lock, job, reported, owed>>

StreamDies ==
  /\ machine \in {"streaming", "held"} /\ machine' = "none"
  /\ UNCHANGED <<vars, adapter, lock, job, reported, owed>>

\* What is reported of the live run is true, and nothing is reported of one
\* that could not be started.
Truthful(c) ==
  lockHeld /\ c.kind = "Complete" /\ c.id = package.id => machine = "done" /\ ~owed

Turn ==
  /\ \E batch \in Batches :
       (\A i \in DOMAIN batch : Truthful(batch[i])) /\ DispatchBatch(batch)
  /\ owed' = (owed /\ lockHeld')
  /\ UNCHANGED <<adapter, world>>

EffectsNext == Turn \/ Execute \/ StreamCompletes \/ StreamDies

EffectsSpec == EffectsInit /\ [][EffectsNext]_allVars
-----------------------------------------------------------------------------
EffectsTypeOK ==
  /\ TypeOK
  /\ lock \in Identities \cup {NoLock} /\ identity \in Identities \cup {NoLock}
  /\ machine \in {"none", "streaming", "held", "done"}
  /\ control \in {"Idle", "Locked", "Streaming", "Paused", "Aborting"}
  /\ streamAttempted \in BOOLEAN /\ hasJob \in BOOLEAN /\ owed \in BOOLEAN
  /\ lastReleasedRun \in Runs \cup {NoRun}
  /\ job \in Rows \cup {NoRow} /\ reported \in BOOLEAN

Moving == machine \in {"streaming", "held"}

\* The machine moves, or is held, only under the lock of the run that moves it,
\* between two effects and whatever was rejected: a stream whose job row cannot
\* be written does not outlive its run.
MovesOnlyLocked == Moving => package # NoPackage /\ lock = package.id

\* Between turns the coordinator is right about the world it commands.  A run
\* it takes for live has the lock, and is held or not as it believes, unless the
\* caller has still to tell it that the start failed; without one, no lock is
\* stranded and nothing moves, whichever effects were rejected.
BeliefIsTrue ==
  effects = <<>> =>
    IF lockHeld
    THEN ~owed => /\ lock = package.id /\ control = state
                  /\ machine # IF state = "Paused" THEN "streaming" ELSE "held"
    ELSE lock = NoLock /\ control = "Idle" /\ ~Moving

\* The job history is true: a row is running only while its run is in the
\* adapter's hands, or its failure to be finished was reported, and a completed
\* run is on record as completed.
HistoryIsTrue ==
  /\ job.status = "running" => (identity = job.of /\ hasJob) \/ reported
  /\ effects = <<>> /\ state = "Completed" =>
       job = [of |-> package.id, status |-> "completed"] \/ reported
=============================================================================
