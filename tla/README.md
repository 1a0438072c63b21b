# Digital Workshop in TLA+

Digital Workshop is a C++17 desktop application for woodworkers: it keeps a
library of models and G-code, organises them into projects, prepares carving
jobs and streams them to a GRBL machine. This directory models the parts of it
whose correctness depends on *order*: threads, machines that answer late,
prompts that are answered late, effects that are rejected halfway, files and
rows that a crash leaves between two steps.

Paths below are relative to the sources (`src/core/...` and so on).

1. [The system](#1-the-system)
2. [Modules and code](#2-modules-and-code)
3. [What is checked](#3-what-is-checked)
4. [What is proved](#4-what-is-proved)
5. [What the checks found](#5-what-the-checks-found)
6. [Bounds, fairness, assumptions](#6-bounds-fairness-assumptions)
7. [Not modelled](#7-not-modelled)
8. [Plan](#8-plan)

## 1. The system

### Threads

The *main thread* draws frames (`Application::run`), handles the user's events
and empties the `MainThreadQueue` once per frame. The CNC controller has an *IO
thread* of its own; imports run on the workers of a `ThreadPool`; the tagger, the
CAM client and file dialogs have threads too. What they find out comes back to
the main thread as tasks in the queue, so nearly all application state has one
writer, and the hard places are the few pieces of state that have two.

### Components

**CNC controller, streaming** (`core/cnc/cnc_controller*.cpp`)
- *State*: `m_program`, `m_sendIndex`, `m_ackIndex`, `m_sentLengths`,
  `m_bufferUsed` under `m_streamMutex`; the atomics `m_streaming`, `m_held`,
  `m_errorState`, `m_toolChangePending`, `m_pendingRtCommands`; a queue of string
  commands under its own mutex.
- *Operations*: the UI calls `startStream`, `stopStream`, `feedHold`,
  `cycleStart`, `softReset`, `acknowledgeError`, `acknowledgeToolChange`,
  `sendCommand`, `unlock`. The IO thread repeats: dispatch requests, read a line,
  process the answer, poll the status, send lines as long as they fit into the
  machine's 128-byte receive buffer ("character counting").
- *Hard*: several atomics that are not changed together; answers carry no
  identity; a job may be stopped, reset, failed or restarted while its lines are
  still in the machine; the port may go down at any point.
- *Correct when*: the account of the machine's buffer is exact, lines go out in
  order and once, nothing follows an error or a reset, a tool change stops the
  job until it is acknowledged, "completed" means executed, a job ends.

**CNC controller, connection** (`core/cnc/cnc_controller*.cpp`,
`app/application_wiring_cnc.cpp`, `managers/ui_manager_menus.cpp`,
`ui/panels/gcode_panel.cpp`)
- *State*: `m_running`, `m_connected`, `m_simulating`, the watchdog's
  `m_statusPending` and `m_consecutiveTimeouts`, the pending requests, the port;
  in the application `m_wasRealConnection` and what menu and panels were told.
- *Operations*: connect to a port, to the simulator, disconnect (which every
  connect begins with and which joins the IO thread), from the menu bar and from
  the G-code panel; the IO thread probes, announces, turns, loses the port.
- *Interaction*: the IO thread posts a notice when a connection comes up or goes
  down; the main thread hears it later, shows it, asks the machine for its
  settings, and, after a connection of the menu's, starts the simulator.
- *Hard*: a notice may be heard when its connection is long gone and another is
  coming up; requests outlive the machine they were meant for unless somebody
  drops them after the last thread that can make one; the watchdog is set back
  by every line.
- *Correct when*: no request and no job passes from one machine to the next, the
  panels end up with the truth, a silent machine is noticed.

**Main thread queue** (`core/threading/main_thread_queue.*`) and **callbacks**
- *State*: a bounded deque with a mutex and a condition variable.
- *Operations*: `enqueue` (blocks while full), `processAll`, `shutdown`.
- *Interaction*: the IO thread posts while it holds `m_streamMutex`; the main
  thread, the only one to empty the queue, takes `m_streamMutex`, posts, and joins
  the IO thread. `Application::shutdown` destroys the panels, the controller and
  the queue in that order.
- *Correct when*: tasks are run in order, once, within the bound; no producer
  sleeps for ever; nobody uses the queue after it is gone; the main thread comes
  back to its frames.

**Thread pool** (`core/threading/thread_pool.*`)
- *State*: task queue, mutex, condition variable, `m_shutdown`, `m_activeCount`.
- *Operations*: `enqueue`, `shutdown`, `isIdle`, `workerLoop`.
- *Correct when*: an accepted task is executed exactly once; `shutdown` returns,
  and then nothing is left undone.

**Run coordination** (`modules/run_coordination/*`) and **run effects**
(`app/direct_carve_run_effect_adapter.*`)
- *State*: run state, the pinned package, the last event sequence, progress and
  whether the run lock is held; in the adapter, a control state of its own, the
  identity it acquired, its row in the job table, the run it released last.
- *Operations*: start, pause, resume, abort, progress, complete, fail; a batch of
  commands for one turn is arbitrated by priority. Each obeyed command yields a
  list of effects (acquire/release the lock, start/hold/resume/abort the stream),
  which the adapter carries out one by one against the project session, the
  controller and the job table, or rejects.
- *Hard*: the two keep two accounts of the same run, and an effect may be
  rejected (the project changed, the G-code is gone, the stream does not start,
  the database fails) after the coordinator has moved on.
- *Correct when*: the lock is held exactly while a run is live, the machine never
  moves without it, whatever is rejected; late and foreign events change nothing;
  an abort wins; the job history is true.

**Project session** (`modules/project_session/*`, `modules/workshop/workshop_contract.h`)
- *State*: the workshop context (project, item, library preview, run, route, two
  ways back, origin, dirty and preparation flags), its generation, and at most one
  pending command with a confirmation token.
- *Operations*: twelve commands. Each is applied (generation + 1), refused, or,
  when it would leave unsaved work, answered by a question that is resolved later.
- *Correct when*: the parts of the context fit together; a run has the workshop
  to itself; unsaved work is never left without a question that named it; a
  question is still the right one when it is answered; the generation tells
  whoever holds it whether the context has moved.

**Project switching** (`app/project_session_integration.*`,
`app/application_project_session.cpp`, `managers/file_io_projects.cpp`)
- *State*: the manager's current `Project` with its modified flag, the pending
  commit, the save prompt with its token, fetches under way.
- *Operations*: activate, close, resolve; edits, saving, the frame's refresh.
- *Interaction*: session and manager are changed by separate calls, with a save, a
  prompt or a refusal in between; runs begin while a prompt is open.
- *Correct when*: both name the same project, a modified project makes way only
  after the user said so, no prompt or pending commit is left behind, a slow
  fetch does not replace a project the user has opened since.

**Import pipeline** (`core/import/import_queue.*`,
`managers/file_io_manager.cpp`, `app/application_wiring_import.cpp`)
- *State*: the pool and its size, the counter of open tasks, the batch summary and
  its active flag, the cancel and shutdown flags, a bounded list of completed
  imports between workers and main thread.
- *Operations*: a batch is enqueued, extended, cancelled, imported again in spite
  of its duplicates; a worker takes a file through seven stages; the main thread
  polls what is complete and shows one import in a frame; the destructor.
- *Hard*: a batch is extended while its last file finishes; workers wait for
  room only the main thread makes; the pool is replaced, and joined, under a mutex
  its workers need; two workers import the same file.
- *Correct when*: the counter and the summary are one batch's and add up, every
  batch and every wait ends, a content has one row.

**Background tagging** (`core/import/background_tagger.*`, `smart_tagger.cpp`,
`app/application_callbacks.cpp`, `application_wiring_ai.cpp`)
- *State*: `tag_status`, descriptor, tags and categories of each model; the
  thumbnail file; the tagger's loop with its counts of views and attempts.
- *Operations*: recover, find the next model, mark it, ask, look at another view
  (rendered by the main thread, waited for at most 30 s), save in four statements;
  stop; a retag by hand in a thread of its own; the end of the application.
- *Hard*: crash between two statements; a render that is given up and runs later;
  the main thread waits for the tagger that waits for the main thread.
- *Correct when*: nothing stays marked as in hand, what counts as tagged is
  complete, the AI is told the view the picture shows, the tagger ends.

**Library files** (`core/storage/storage_manager.cpp`,
`core/workspace/workspace_relocator.cpp`, `core/library/*`)
- *State*: the blobs and temporary files below each workspace root, the rows that
  name them, the configured root and the one the storage manager was built with,
  the relocation under way.
- *Operations*: an import copies, verifies, renames and removes the source; a
  model is removed; a detached thread copies every file of the workspace to
  another root and removes the original; the main thread switches the root.
- *Hard*: all of it at the same time, with I/O errors, cancellation and a crash
  between any two steps.
- *Correct when*: no bytes are lost, no part of a file passes for the blob, a row
  leads to its file.

The components that are not modelled yet, or are not worth modelling, are in
section 7 and, with their reasons, in `PROJECT.json`.

## 2. Modules and code

| Module | Models | State and actions |
| --- | --- | --- |
| `CncStream` | the stream between UI thread, IO thread and machine | the controller's members under their own names without `m_`; `Io*` actions are the parts of one turn of `ioThreadFunc` between two accesses to shared state, `Ui*` actions the parts of an operation; `Machine*` and `PortDown` are the environment |
| `CncConnection` | the controller's connection and the application's view of it | members under their own names; `io` and `main` are where the two threads are; `link` numbers the connections, and a request or a job carries the number of its own (which the code has not); the port and the machine are external |
| `TaskExecution` | what a thread pool promises | waiting, running and finished tasks |
| `ThreadPool` | `ThreadPool` | `m_taskQueue` and `m_shutdown` are `taskQueue` and `poolShutdown`; one worker action per step between two looks at shared state: take, doze (the predicate was false), sleep, start, finish, exit |
| `MainThreadQueue` | `MainThreadQueue` | a call of `enqueue` per producer (called, asleep, awake), the batch `processAll` has taken out |
| `CncCallbacks` | the controller's use of the queue | EXTENDS `MainThreadQueue`; a turn or an operation is a script of `post`, `lock`, `unlock`, `stop`, `join`, `return`, `destroyUi`, `close` |
| `RunCoordinator` | `RunCoordinator` | the snapshot; `DispatchBatch` is one whole call; `Take` is the caller that takes an effect, or drops the rest |
| `RunEffects` | `DirectCarveRunEffectAdapter` | EXTENDS `RunCoordinator`; the adapter's snapshot (`control`, `identity`, `hasJob`, ...), the session's lock, the machine's stream, the last job row; one action per `handle`, with its checks in their order; `Stays` is an effect that is rejected or found carried out |
| `ProjectSession` | `ProjectSession` | the context and the pending question; one action per command; `Move`/`Ask` are the two outcomes of the four commands that may need a question |
| `ProjectSessionIntegration` | the integration and its callers | EXTENDS `ProjectSession`; `turn` is a call between two of its dispatches, `held` is `m_pending`, `dialog` the token the open prompt carries |
| `ImportQueue` | `ImportQueue` and the main thread around it | members under their own names; `stage` is where the worker of each file is; `Import`, `Reimport`, `Cancel`, `Quit` are the user; `RunTasks`, `Poll`, `ShowOne` are a frame |
| `BackgroundTagger` | the tagger's thread, the retag threads, the renders | `pc` and the locals of `runSmartTagAttempt`; one action per statement that reaches the database, the AI or the other thread; `mailbox` is the main thread's queue |
| `LibraryFiles` | the file operations of storing, relocating, removing | `disk` has every root's blobs and temporary files, each absent, part or whole; `pc` is an import's next file operation, `relPc` the relocator's |
| `MC*` | small instances for TLC | values of the constants only |
| `*Proofs` | theorems | section 4 |

How they compose: `CncCallbacks` adds the controller's locks and operations to
`MainThreadQueue` and its behaviours are behaviours of the queue (proved).
`ProjectSessionIntegration` adds the project manager and the prompt to
`ProjectSession`, and its behaviours are behaviours of the session (proved).
`ThreadPool` implements `TaskExecution` (checked and proved). `RunEffects` adds the
adapter to `RunCoordinator`, whose behaviours its own are (proved).

Granularity. An action is what a thread does between two accesses to state that
another thread writes. A section under a mutex is one action, unless it calls
something that may block or other threads read what it writes without the mutex:
then it is split at that point, and the program counter says who holds the mutex
(`StreamMutexFree`). The project session runs on the main thread alone, so a
dispatch is one action, and only the dispatches of one call are told apart;
within a call (`turn # None`) nothing else happens.

Data. A G-code line is a kind (a cut, one the machine rejects, an M6) and a
size; a line in flight carries the number of its stream and its index, which
neither the controller nor the machine ever reads: they are there for the
properties. A callback is its number in the order of acceptance. A run package is
an identity and a preflight that passed or failed. History variables
(`executed`, `skipped`, `failedRun`, `resetRun`, `submitted`, `finished`,
`asked`, `seen` in a fetch) are read by properties only.

## 3. What is checked

| Run | Question | Properties |
| --- | --- | --- |
| `CncStreamAny` | What does the controller keep right under an operator who does anything at any time, with alarms and lost ports? | `AccountExact`, `ToolChangeHeldBack`, `NoLineAfterError` |
| `CncConnectionTurns` | Do requests stay with their machine, do the panels end up with the truth, and is silence noticed, whatever the user connects and disconnects while ports fail and notices are late? | `RequestsStayHome`, `ViewFollows`, `SilenceIsShown` |
| `CncStreamQuiet` | What more holds if jobs are started only when nothing is under way and no command is sent into a job? | `RxWithinBuffer`, `CompletionIsTruthful`, `StreamEnds` |
| `ThreadPoolTasks` | Is every accepted task executed, once, before shutdown returns? | `AbstractSpec`, `EveryTaskRuns` |
| `CncCallbacksTurns` | Do callbacks arrive in order, are sleepers woken, and is a full queue the only way for the main thread to hang? | `InOrder`, `MainReturnsWithRoom`, `PosterWakes` |
| `RunCoordinatorTurns` | Do lock, machine, adapter, job table and coordinator agree through any sequence of batches, effects and rejections? | `MovesOnlyLocked`, `BeliefIsTrue`, `HistoryIsTrue`, `NothingStale`, `StopWins` |
| `ProjectSwitch` | Do session, manager and prompt agree, and is unsaved work safe, while projects are opened, fetched, switched and closed and runs come in between? | `ContextIsOneScreen`, `QuestionStands`, `NoSilentLoss`, `SessionAndManagerAgree`, `QuestionIsOnScreen`, `SwitchAsksFirst`, `FetchIsForWhatWasSeen` |
| `ImportTurns` | Are batches counted truly and do they end, with cancels, extensions, re-imports, full hand-over, the replaced pool and the end of the application? | `RemainingIsTrue`, `SummaryAddsUp`, `RowIsOwn`, `BatchEnds`, `ImportsShown`, `QuitReturns` |
| `TaggerTurns` | Is what counts as tagged complete, nothing left in hand, and every question about the view it names, through stops, retags, late renders and a crash? | `NeverCutOff`, `TaggedIsWhole`, `NothingLeftMarked`, `ToldViewIsShown`, `TaggerEnds` |
| `LibraryFiles` | Are bytes ever lost, and do rows lead to files, while files are imported and removed, the workspace relocated up to four times, cancelled, cut off, and the program restarted? | `NothingLost`, `BlobIsWhole`, `RowHasFile` |

Two more runs each show one property violated: `CncStreamToolTwice` and
`ProjectReopen` (section 5). The type invariants were checked with
every instance while it was built, and are proved where section 4 says so.

Each property of a passing run comes with a *mutant*: an operator such as
`MaySendUnlessHeld` beside `MaySend`, which changes the model the way a plausible
mistake in the code would (a dropped check, a swapped order, a missing reset) and
makes that very property fail. They stand before the operator they mutate and no
specification uses them.

The two operators of the stream. Without the discipline of `CncStreamQuiet`
its safety properties fail, for reasons in the code, not in the model:
`RxWithinBuffer` because `startStream` zeroes the account although the machine may
still hold lines of the job before; `CompletionIsTruthful` because the `ok` of a string command is counted as a
line's. `CncStreamAny` therefore states what the controller guarantees alone.

## 4. What is proved

All proofs are checked by TLAPS for every value of the constants that meets the
named assumptions (`StreamAssumption`, `PoolAssumption`, `QueueAssumption`,
`CoordinatorAssumption`, `EffectsAssumption`, `SessionAssumption`,
`IntegrationAssumption`, `ImportAssumption`, `LibraryAssumption`,
`TaggerAssumption`, `ConnectionAssumption`). The
assumptions say that bounds are natural numbers, that the "nothing" values are
not values, for the stream that programs are sequences of lines, and for the
tagger that front and back are side views and at least one retry is allowed.

**`CncStreamProofs`** – any programs, buffer size, operator. The inductive
invariant `StreamInv` joins type correctness with `AccountExact`, whose
existential (the running remainders of the account) is kept by three lemmas about
clearing, popping and pushing: that is what makes "the sum of `m_sentLengths`"
provable without recursion. On top of it:
`TypeCorrect`, `AccountIsExact`, `ToolChangeSafe`, `ErrorIsFinal` (with the
strengthening `FailedIsOver`: the stream that failed is no longer the one
streaming), and `StreamInOrder` (the lines in the receive buffer are behind
`m_sendIndex`); this last one is proved and not run.

The second half of the module assumes `QuietOperator`: no job is started while
anything of an earlier one is in flight, and no string command goes into a job.
`QuietInv` is what that brings about. Three parts say that nothing old comes
between: `StartIsQuiet` (what `startStream` checked still holds when it commits),
`SendingEnds` (the IO thread goes on sending after the end of a stream only where
a reset is due), `ResetEnds` (a reset on its way while `m_streaming` is set is that
of a `softReset` about to clear it). `OwnLines`: the machine holds lines of this
stream only. `LinesBooked` is the heart: the last of `m_sentLengths` are the lines
in the machine, in order, and the ones before them are matched, in order and one
to one, with the answers not read yet; each kind of step has its lemma (`BooksSend`,
`BooksAnswer`, `BooksPop`, `BooksReset`, ...). The matching is suspended in alarm and
between the two halves of `softReset`, when lines are gone and their lengths are not; that
the buffer does not overflow survives both. `BytesComputed` shows what the
recursive function `Bytes` yields, by the least index where a function meeting its
equation would differ (`LeastNatural`), which needs no induction theorem. So
`BufferRespected`; and, with `AcksCounted` (the lines counted in `m_ackIndex` and the
`ok`s still to be read are no more than the lines executed), `CompletionTold`.

**`CncConnectionProofs`** – any patience of the watchdog, any number of connections
and operations. `ConnInv` says what each place of the two threads implies:
what `m_connected` is (`ConnectedInBetween`), that a living thread is told to end
only by a disconnect that waits for it (`EndsWhenTold`), what a disconnect under way
has cleared already (`Disconnecting`), that the watchdog has not overrun
(`NotGivenUp`), which of port and simulator a thread runs on (`Equipped`), and that
the last notice posted, whether heard or still queued, is true (`Told`): `ViewFollows`
speaks only of moments when the queue is empty and would not be inductive.
`ConnectionTypes`,
`RequestsAreHome`, `ViewIsTrue`, and two that are proved only: `PortIsThere` and
`DisconnectIsSilent` (section 5).

**`ThreadingProofs`**, first half – any workers and tasks. `PoolInv` adds to `TaskInOnePlace`
what each program counter implies about the task held, and that a worker leaves
only when the queue is empty and shut down: `TasksStayInOnePlace`,
`ShutdownDrains`, and `PoolExecutesTasks`: every step is a step of `TaskExecution` or a
stutter.

**`ThreadingProofs`**, second half – any producers and size. `QueueInv` = `TypeOK`,
`WithinBound` and `InOrder` together: `CallbacksInOrder`, `QueueBounded`,
`ShutdownIsFinal`; and `ControllerUsesQueue`: the controller's two threads use
the queue only through its operations, so what holds of the queue holds there
(callbacks in order, none lost). `NothingAfterShutdown` is proved and not run.

**`RunCoordinatorProofs`** – any runs, setups and batches, any rejections. Of the
coordinator alone, by `RunInv`: `LockHeldWhileLive`, `LivePackagePinned`, and
`StopsOutrank`: if a batch demands an abort or a hold of the live run, the command
chosen ranks at least as high (`DemandRanks`, which needs that `Foremost` chooses
an eligible one, `ForemostIsOne`), and every command that does leaves the run
aborted or not streaming. The counts need their types as well
(`CoordinatorTypes`): `ReportsCountOn`.
`EffectsImplementCoordinator` shows that the coordinator with its adapter still
behaves like that. Of the two together `EffectsInv` is inductive: `Hands` (who has
the lock, and what the adapter's control state says of the machine), `Recorded`
(the job's row) and `ToDo` (which effects are still to be carried out, and in
which control states that can happen). The properties speak of moments between
turns and would not be inductive without it. `MachineUnderLock`,
`BeliefHolds`, `HistoryHolds`.

**`ProjectSessionProofs`** – any projects, items, library items and runs.
`SessionInv` is the context's four invariants and `QuestionStands`; its core is the
lemma that an answered question's move is answerable
(`StandingMoveIsAnswerable`), so that resolving never asks again and never fails
halfway. `ContextIsSound`, `QuestionsStand`, `NothingIsLostUnasked`,
`GenerationsTell`. Then `IntegrationUsesSession`: every behaviour of the
integration is one of the session, and with `FullInv` (what `held`, `dialog`,
`turn` and `opens` imply, and that a modified project is known to the session as
dirty by the time a switch is dispatched): `ManagerFollowsSession`, `PromptIsHonest`,
`SwitchesAskFirst`, `FetchesAreNotLate`.

**`ImportQueueProofs`** – any contents, threads, room and tasks. The inductive
invariant relates `stage`, the counter, the summary and the rows: each outcome the
summary has counted belongs to a task past its count, and the sums are cardinalities
of sets of tasks, one lemma for each way a task leaves one. `ImportTypes`,
`CounterIsTrue`, `SummariesAddUp`, `ImportedOnce`.

**`LibraryFilesProofs`** – any contents and roots, any number of relocations and
restarts. `FilesInv` says where the whole copy of each content is while an
import or the relocator is between two of its steps: `FileTypes`, `NothingIsLost`,
`BlobsAreWhole`. `PathInv` says where the path in a row leads: an import that
nothing crossed has its blob where it was stored; the directory an absolute path
names is not one a relocation is emptying; the blob of a relative path is at the
root in use, or ahead of it, or the relocation has still to visit it or has it in
hand: `RowsHaveFiles`. The proof changed the property. An earlier form was true
for two relocations and could not be proved; at three relocations TLC showed why
(section 5).

**`BackgroundTaggerProofs`** – any models, views, retries and events. `TaggerTypes`.
`AttemptsSuffice` from `LoopInv`: a question about a side view is paid for by the
retries, one about the isometric view is asked once, and the one rotation may add
one of either, so `kMaxPerpendicularRetries + 2` attempts are enough. `NoMarkLeft`
from `MarkInv`: once marks of earlier processes are recovered only the model in
hand may carry one. The other two hold unless the user retags the model in hand:
`TaggedModelsWhole` from `RowsInv` (what the four statements so far have saved is
there, and the model is marked until the last), and `ViewTold` from `ViewInv` (the
render the tagger waits for is the last one of its model in the main thread's
queue, so no late one follows it). Both rest on `RetagAccount`: each retag thread
has at most one task in that queue.

*Only model-checked*: liveness, as the prover handles neither fairness nor ENABLED
(`StreamEnds`, `EveryTaskRuns`, `PosterWakes`, `MainReturnsWithRoom`, `BatchEnds`,
`ImportsShown`, `QuitReturns`, `TaggerEnds`, `SilenceIsShown`), and the two violations.
Every other property of a passing run is a theorem.
*Only proved*: `RxInOrder` of the stream, `PortOutlivesIo` and
`DisconnectTellsNobody` of the connection, `WithinBound` and `NothingAfterShutdown` of the queue,
`TaskInOnePlace` and `ClosedMeansDone` of the pool, `LockIffLive` and
`PackageIsPinned` of the coordinator, `GenerationTells` of the session.

## 5. What the checks found

Shown by a run:

- **A cutting line skipped** (`CncStreamToolTwice`). `acknowledgeToolChange` clears
  `m_toolChangePending` before it takes the mutex and advances `m_sendIndex`. If
  the IO thread meets the same M6 in between it raises the flag again; the
  operator's second acknowledgement then steps over the line after the M6.
- **An edit lost by re-opening** (`ProjectReopen`). Edit a project, go Home, choose
  the same project among the recent ones. The session sees no change of project
  and asks nothing; the commit replaces the modified object by the one just read
  from the database.

Proved:

- **A disconnect that tells nobody** (`DisconnectIsSilent`). `disconnect` takes
  `m_connected` with an exchange and posts a notice if it was set; but it has joined
  the IO thread first, which clears `m_connected` on its way out. The notice is
  never posted. After the G-code panel's Disconnect, which does nothing else, menu
  and panels go on showing a connection.

Stated in the modules without a run of their own, and violated when TLC is asked:

- `TaggingFollows` (`ImportQueue`). "Tag with AI after import"
  (`import_options_dialog.cpp:145`) becomes a flag when the batch's summary reaches
  the main thread, and the flag is looked at only when the *last pending* import
  has just been shown. If all of them were shown before the summary came, nobody
  looks, until another import.
- `ErrorStopsJob` (`CncStream`) under the impatient operator. `startStream` checks
  `m_streaming` and `m_errorState` without the mutex, between the error branch's
  stores to the two: the new job streams in the error state.
- `NothingAfterReset` (`CncStream`). `softReset` publishes the reset
  before it clears `m_streaming`. The IO thread may send the reset byte and, still
  seeing `m_streaming`, further lines of the aborted program to a machine that
  has just been reset.
- `ShutdownReturns` (`ThreadPool`). `ThreadPool::shutdown` stores the flag and
  notifies without the mutex. A worker between its look at the flag and its sleep
  misses both, and `join` waits for ever. A spurious wake-up, which nothing
  guarantees, would save it.
- `MainReturns` (`CncCallbacks`). The IO thread waits for room in the
  full queue while it holds `m_streamMutex`; the main thread, the only one that
  makes room, waits for that mutex. `MainReturnsWithRoom` is what remains true.
- `NeverOverlap` (`BackgroundTagger`): nothing keeps the user from retagging the
  model the tagger has in hand; two of its properties are conditioned on that.
- `NothingLost` and `BlobIsWhole` (`LibraryFiles`) without their condition, that is
  with `MayReturn = TRUE`: relocate from A to B while an import is at its
  rename, then back from B to A in the same session.
- `RowHasFile` (`LibraryFiles`) without the last kind of its `strays`: between a
  relocation from A to B and the next start, imports are still stored below A,
  under an absolute path. After the start relocate to A and away again: their
  files go along, their rows do not, and nothing ever rewrites them.
- `BatchEnds` and `ImportsShown` (`ImportQueue`) without theirs: `isIdle` of the pool
  overlooks a task just taken, the pool is joined under `m_batchStateMutex`, and
  its last worker waits for that mutex in `checkBatchComplete`.

Seen while modelling, without a property: `acknowledgeToolChange` does not
advance `m_ackIndex` over the M6, which is never answered, so a job with a tool
change is never complete (which is why `StreamEnds` excludes such programs); `RunIdReused`
compares with the last run only; `completeProjectItemActivation`
ignores a question its command may raise; the G-code rows an import stores
relative to Support (`import_queue.cpp:428`) are read relative to the G-code
category; `PathRecovery::findMissing` resolves models likewise
(`path_recovery.cpp:21`); a relocation skips a file that exists at the destination,
also one an earlier attempt left half copied (`workspace_relocator.cpp:117`), and
then switches the root to it; the tagger's first question may be told "front"
while the thumbnail is left over from another view (`background_tagger.cpp:290`); a
crash between descriptor and status is recovered as "tagged" without tags
(`model_repository.cpp:653`); a complete stream that is reported after
`JobRecordInsertFailed` would be refused by the lock's release, so the caller must
answer a rejected start with a failure; real-time requests are bits, whose order
within a turn is lost (`cnc_controller.cpp:441`).

Of the connection: the watchdog counts silent reads of 20 ms while a query is
open, not unanswered queries, so it gives up after 200 ms where the header says
"~2 seconds" (`cnc_controller.h:151`). The probe does not look at `m_running`, so a
disconnect may hold the main thread for seven seconds. A menu connect whose port
does not open leaves nothing connected, neither port nor simulator, while
`application.cpp:441` speaks of an "always-connected mode". The late "down" of a
failed probe tears down the connection that was made since, if that one came
from the menu (`application_wiring_cnc.cpp:171`); the simulator then takes over,
and the panels do end up with the truth. `onGrblConnected` clears the version
before it asks whether a connection was lost, so "Finalize active job as aborted
on disconnect" is never reached and the row stays running (`gcode_panel.cpp:821`).
A `startStream` whose commit comes after `handleDisconnect` leaves `m_streaming` set
with no thread behind it, until the next disconnect.

## 6. Bounds, fairness, assumptions

| Instance | Bounds | Why they are enough |
| --- | --- | --- |
| stream | programs of three lines, `RxBufferSize` 5 (a short line takes 2 bytes with its newline, a long one 3), commands of 2 bytes, 2 or 3 operator actions | two lines fill the buffer exactly and the third needs an answer first, so full, refill and empty all occur; one job has an M6 in the middle, one a line the machine rejects; two actions suffice for a restart, a hold with its release, a command into a job |
| connection | the watchdog gives up at 3, 4 operations of the user | at 3 the count passes through a value that neither begins nor ends it; four operations make three connections with work in between, so that a notice can be two connections late |
| pool | 2 workers, 3 tasks | a task can wait while both workers are busy, and both can race for one |
| queue | 2 producers, room for 2, 6 posts | both producers can be blocked at once, wake together and fill it again |
| callbacks | room for 2, 9 posts, 2 operations | the longest turn posts four tasks, so it blocks in the middle, with and without the mutex |
| coordinator and effects | 2 runs, 2 setups, batches of at most 2, sequence at most 2 | foreign, mismatched, stale and repeated commands, alone and against a matching one; a run that comes back after another one; every effect rejected at every check. Runs and setups are symmetric |
| session | 2 projects with 2 items each, 1 library item, 1 run, 8 transitions, 2 questions, 1 fetch under way | enough for a switch, an edit, a question, a run that drops it, the end of the run, and a second question while the first prompt is still open |
| import | 3 files of 1 content, batches of at most 2, 2 workers, room for 1 | a duplicate beside a success, a batch extended while it ends, one worker waiting while the other fails; more contents only repeat this |
| tagging | 2 models, one stored from the back and shown only later, 3 views, 1 event (retag, late import or crash), 1 render given up | every path through `decideNextStep`, with each kind of event at every point |
| library | 1 content, 3 roots, 4 relocations, 2 restarts | a relocation that fails and is retried, one that goes back after a restart and away again, a third root in between, an import across each. No step looks at two contents but the choice of the next file, and a content has two files. Roots are symmetric |

Counters that are bounded only for TLC are in the guards (`MaxOps`, `MaxPosts`,
`MaxGeneration`, `MaxToken`, `MaxSequence`); the theorems hold for every value of
them. `CHECK_DEADLOCK FALSE` stands where the system stops (a closed pool, a
closed queue) or a bound is used up (generations).

Fairness. The IO thread's loop, the machine's work on its buffer, an
operation once begun, the workers and the frames are weakly fair: they are loops
without exit conditions besides the modelled ones. The stream also needs the
poll interval to elapse again and again (strong fairness of a status poll), and an
operator who, seeing a hold, resumes, and who acknowledges tool changes. The
watchdog needs a query to be due again and again, and nothing of machine or user. The main
thread's lock of `m_streamMutex` is strongly fair, because the IO thread leaves
the mutex alone while it reads the port. Spurious wake-ups are possible and
never assumed. The operator is not assumed to start, stop or reset anything. The
project session has safety properties only.

Assumed of the environment: the machine answers lines in order and obeys
real-time bytes at once; bytes are not lost while the port is up; the caller of
the run coordinator (which the application does not have yet: it constructs the
adapter, and tests connect the two) hands effects to the adapter in order before
it dispatches again, answers a rejected start with a failure and reports as
complete only a stream that came to its end; the save prompt is modal,
so that what a user starts in the main window does not happen while it is open,
while everything posted by other threads, the frame's refresh and saving may
happen at any time; a project read from the database is unmodified; commands
carry valid references and the current generation (others are refused before
anything is read). Imports: a wait for the row's lock in a re-import is left out;
the hash column is UNIQUE. Tagging: the application uses the mode SmartRetag only;
AI calls and waits have time limits, so they end. Library: the Support directory
has no override of its own, the database lies outside the workspace, one
relocation runs at a time (its dialog is modal), a rename and the removal of a
file are atomic, and a content is imported once at a time. A failed save brings the prompt back with the same token: no
change of state.

## 7. Not modelled

- *Within modelled components*: overrides and jogging bytes, the text of raw-line
  callbacks; what the simulator answers and how it moves; the jobs' rows in the
  database beside a connection that is lost; what makes a run package valid; the disabled run module; which of
  the adapter's checks of project and G-code rejects an effect; temporary
  projects and their prompt; the resume bookmark; how panels are refreshed after a
  switch; the gate that refuses a switch while the machine streams (it only
  refuses more); what loaders and parsers read; prompts and answers of the AI, the
  manual loop's choice of views; G-code blobs and thumbnails, which take the same
  steps as a model's; category overrides and `clearDirOverrides`, which also drops
  those of categories it skipped (`application_wiring.cpp:282`).
- *Planned* (section 8): deletion of library sources,
  library picker, carve preparation, resume, project plan.
- *Left out for good*: OpenGL rendering, mesh and file formats, floating-point
  geometry (fitting, packing, CAM), HTTP clients, SQL repositories and
  migrations, settings and drawing of panels. They are sequential, numeric or
  pure I/O, and tests reach them better than a model checker.

## 8. Plan

Done: (1) the stream, (2) the thread pool, (3) the main thread queue and the
callbacks, (4) the run coordinator, (5) the project session and project
switching, (6) the coordinator's effects with rejections, (7) the import pipeline,
(8) background tagging, (9) the library's files, (10) the connection; all with
proofs.

Next, in this order:

1. `LibrarySourceDeletion` in `LibraryFiles`: one more multi-step deletion with a
   transaction in the middle.
2. `LibraryPicker`, `PrepareCarve`, `ProjectResume` with temporary projects: late
   results against newer contexts, on top of `ProjectSession`.
3. `CncJob`: what a job promises (sent in order, done or failed once), with
   `CncStream` shown to implement it for a quiet operator; `m_ackIndex` and the
   order of real-time requests belong here.
4. Proofs: what a stop or an alarm leaves of the account, that is `LinesBooked`
   through both without suspension, and the safety parts of the callbacks' locks
   (who holds `m_streamMutex`).
5. Pure algorithms against reference definitions: the modal scanner, the packers'
   bookkeeping, the override byte sequences.
