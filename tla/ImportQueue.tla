----------------------------- MODULE ImportQueue -----------------------------
(***************************************************************************)
(* dw::ImportQueue with the two threads' worth of code around it: the      *)
(* workers of its ThreadPool take a file each through the stages of        *)
(* processTask; the main thread enqueues, cancels and quits, and in every  *)
(* frame runs what the workers have posted, polls what they have completed *)
(* and finishes one import (FileIOManager::processCompletedImports).       *)
(*                                                                         *)
(* A task is known by its number in the order of posting, a file by its    *)
(* content (its hash).  The pool's queue is first in first out; its own    *)
(* sleeping and waking is module ThreadPool.  Waking without a reason,     *)
(* after which the wait looks at its predicate again, is left out.         *)
(***************************************************************************)
EXTENDS Naturals, Sequences, FiniteSets, Functions

CONSTANTS
  Contents,          \* contents of the files there are
  NoContent,
  MaxThreads,        \* calculateImportThreadCountForBatch is at most this
  Room,              \* kMaxCompletedTasksWaiting
  TagChoices,        \* what the user may tick for tagging
  MaxTasks,          \* bound: tasks of a behaviour
  MaxBatch           \* bound: files of one call

ASSUME ImportAssumption ==
  /\ NoContent \notin Contents
  /\ MaxThreads \in Nat \ {0} /\ Room \in Nat \ {0}
  /\ TagChoices \subseteq BOOLEAN
  /\ MaxTasks \in Nat /\ MaxBatch \in Nat

Tasks == 1 .. MaxTasks

VARIABLES
  posted, content, skip, \* the tasks handed to m_threadPool
  stage,             \* how far each has come
  captured,          \* the local summary of checkBatchComplete
  threads,           \* workers of m_threadPool, 0 before the first
  remaining, active, summary, \* m_remainingTasks, m_progress.active, m_batchSummary
  cancelled, shutdown, tagging, \* m_cancelRequested, m_shutdown, m_queueForTagging
  completed,         \* m_completed
  row,               \* external: which task's row the database has for a content
  mainPc, call,      \* where the main thread is, and the files of its call
  mailbox,           \* MainThreadQueue: the summaries posted to it
  offered,           \* duplicates shown in the import summary dialog
  pending,           \* m_pendingCompletions
  wantTags           \* m_startAiTaggingAfterImportPostProcessing

tasks == <<posted, content, skip, stage, captured>>
batch == <<remaining, active, summary>>
flags == <<cancelled, shutdown, tagging>>
ui == <<mailbox, offered, pending, wantTags>>
vars == <<tasks, threads, batch, flags, completed, row, mainPc, call, ui>>

\* What a worker does next with its task:
\*   taken     counts itself active          ready     looks at m_cancelRequested
\*   reading   reads, looks for the hash     unique    parses and inserts the row
\*   inserted  stores the file               stored    takes m_mutex for m_completed
\*   noRoom    goes to sleep, having m_mutex handed    counts the success
\*   counted   checkBatchComplete            last      reports the batch complete
\*   leaving   counts itself inactive
Working == {"taken", "ready", "reading", "unique", "inserted", "stored", "noRoom",
            "asleep", "handed", "counted", "last", "leaving"}
Stages == {"none", "queued", "done"} \cup Working

\* The tasks whose outcome the batch summary has not yet counted, and those
\* whose checkBatchComplete is still to come.
Uncounted == {"queued", "taken", "ready", "reading", "unique", "inserted", "stored",
              "noRoom", "asleep", "handed"}
Open == Uncounted \cup {"counted"}

At(stages) == {t \in Tasks : stage[t] \in stages}

NoSummary == [total |-> 0, success |-> 0, failed |-> 0, duplicates |-> <<>>]

Init ==
  /\ posted = 0 /\ content = [t \in Tasks |-> NoContent] /\ skip = [t \in Tasks |-> FALSE]
  /\ stage = [t \in Tasks |-> "none"] /\ captured = [t \in Tasks |-> NoSummary]
  /\ threads = 0
  /\ remaining = 0 /\ active = FALSE /\ summary = NoSummary
  /\ cancelled = FALSE /\ shutdown = FALSE /\ tagging = FALSE
  /\ completed = <<>>
  /\ row = [c \in Contents |-> 0]
  /\ mainPc = "events" /\ call = <<>>
  /\ mailbox = <<>> /\ offered = <<>> /\ pending = <<>> /\ wantTags = FALSE
-----------------------------------------------------------------------------
(* enqueueBatch and enqueueForReimport, which hold m_batchStateMutex.       *)

HoldsBatchState == mainPc = "joining"
AnyTime == TRUE
BatchStateFree == ~HoldsBatchState

\* isIdle of the pool: a task that is taken and not yet counted escapes it.
LooksIdle == At({"queued"} \cup (Working \ {"taken"})) = {}

Batches == UNION {[1 .. n -> Contents] : n \in 1 .. MaxBatch}

CountedAnew(n) == n
CountWith(n) == IF active THEN remaining + n ELSE n

PostTasks(files, again) ==
  LET new == (posted + 1) .. (posted + Len(files)) IN
  /\ posted' = posted + Len(files)
  /\ content' = [t \in Tasks |-> IF t \in new THEN files[t - posted] ELSE content[t]]
  /\ skip' = [t \in Tasks |-> IF t \in new THEN again ELSE skip[t]]
  /\ stage' = [t \in Tasks |-> IF t \in new THEN "queued" ELSE stage[t]]
  /\ remaining' = CountWith(Len(files))
  /\ active' = TRUE
  /\ cancelled' = (active /\ cancelled)
  /\ UNCHANGED captured

\* An idle-looking pool is replaced, and the replaced one joined, first.
Enqueue(files, again) ==
  /\ posted + Len(files) <= MaxTasks
  /\ summary' = IF active THEN [summary EXCEPT !.total = @ + Len(files)]
                          ELSE [NoSummary EXCEPT !.total = Len(files)]
  /\ IF LooksIdle
     THEN /\ mainPc' = "joining" /\ call' = [files |-> files, again |-> again]
          /\ UNCHANGED <<tasks, remaining, active, cancelled>>
     ELSE PostTasks(files, again) /\ UNCHANGED <<mainPc, call>>
  /\ UNCHANGED <<threads, shutdown, completed, row, mailbox, pending, wantTags>>

\* The import options dialog.
Import ==
  /\ mainPc = "events"
  /\ \E files \in Batches : Enqueue(files, FALSE)
  /\ tagging' \in TagChoices
  /\ UNCHANGED offered

\* The import summary dialog: some of the duplicates it shows.
Reimport ==
  /\ mainPc = "events"
  /\ \E n \in 1 .. Len(offered) : \E pick \in [1 .. n -> DOMAIN offered] :
       /\ \A i, j \in 1 .. n : i < j => pick[i] < pick[j]
       /\ Enqueue([i \in 1 .. n |-> offered[pick[i]]], TRUE)
  /\ offered' = <<>>
  /\ UNCHANGED tagging

\* The workers of the replaced pool have returned; the new one has its own.
PoolReplaced ==
  /\ mainPc = "joining" /\ At({"queued"} \cup Working) = {}
  /\ \E n \in 1 .. MaxThreads : threads' = n
  /\ PostTasks(call.files, call.again)
  /\ mainPc' = "events" /\ call' = <<>>
  /\ UNCHANGED <<summary, shutdown, tagging, completed, row, ui>>

Cancel ==
  /\ mainPc = "events"
  /\ cancelled' = TRUE
  /\ UNCHANGED <<tasks, threads, batch, shutdown, tagging, completed, row, mainPc, call, ui>>
-----------------------------------------------------------------------------
(* The stages of a task, in the worker that has taken it.                   *)

GoTo(t, next) == stage' = [stage EXCEPT ![t] = next]

Take(t) ==
  /\ stage[t] = "queued" /\ \A u \in At({"queued"}) : t <= u
  /\ Cardinality(At(Working)) < threads
  /\ GoTo(t, "taken")
  /\ UNCHANGED <<posted, content, skip, captured, threads, batch, flags, completed, row,
                 mainPc, call, ui>>

CountActive(t) ==
  /\ stage[t] = "taken"
  /\ GoTo(t, "ready")
  /\ UNCHANGED <<posted, content, skip, captured, threads, batch, flags, completed, row,
                 mainPc, call, ui>>

\* failTask, up to checkBatchComplete.
FailUnseen(t) ==
  /\ summary' = [summary EXCEPT !.failed = @ + 1]
  /\ GoTo(t, "leaving")
  /\ UNCHANGED <<posted, content, skip, captured, threads, remaining, active, flags,
                 completed, mainPc, call, ui>>

Fail(t) ==
  /\ summary' = [summary EXCEPT !.failed = @ + 1]
  /\ GoTo(t, "counted")
  /\ UNCHANGED <<posted, content, skip, captured, threads, remaining, active, flags,
                 completed, mainPc, call, ui>>

Begin(t) ==
  /\ stage[t] = "ready" /\ ~cancelled
  /\ GoTo(t, "reading")
  /\ UNCHANGED <<posted, content, skip, captured, threads, batch, flags, completed, row,
                 mainPc, call, ui>>

FailCancelled(t) == stage[t] = "ready" /\ cancelled /\ Fail(t) /\ UNCHANGED row
FailUnreadable(t) == stage[t] = "reading" /\ Fail(t) /\ UNCHANGED row

IsKnown(c) == row[c] # 0

FindDuplicate(t) ==
  /\ stage[t] = "reading" /\ ~skip[t] /\ IsKnown(content[t])
  /\ summary' = [summary EXCEPT !.duplicates = Append(@, content[t])]
  /\ GoTo(t, "counted")
  /\ UNCHANGED <<posted, content, skip, captured, threads, remaining, active, flags,
                 completed, row, mainPc, call, ui>>

FindNoDuplicate(t) ==
  /\ stage[t] = "reading" /\ (skip[t] \/ ~IsKnown(content[t]))
  /\ GoTo(t, "unique")
  /\ UNCHANGED <<posted, content, skip, captured, threads, batch, flags, completed, row,
                 mainPc, call, ui>>

\* The hash column is UNIQUE, so the insert of a known content is refused.
MayInsertAgain(c) == TRUE
MayInsert(c) == ~IsKnown(c)

Insert(t) ==
  /\ stage[t] = "unique" /\ MayInsert(content[t])
  /\ row' = [row EXCEPT ![content[t]] = t]
  /\ GoTo(t, "inserted")
  /\ UNCHANGED <<posted, content, skip, captured, threads, batch, flags, completed,
                 mainPc, call, ui>>

FailParseOrInsert(t) == stage[t] = "unique" /\ Fail(t) /\ UNCHANGED row

Store(t) ==
  /\ stage[t] = "inserted"
  /\ GoTo(t, "stored")
  /\ UNCHANGED <<posted, content, skip, captured, threads, batch, flags, completed, row,
                 mainPc, call, ui>>

RemoveRow(t) == row' = [c \in Contents |-> IF row[c] = t THEN 0 ELSE row[c]]
FailStore(t) == stage[t] = "inserted" /\ Fail(t) /\ RemoveRow(t)
-----------------------------------------------------------------------------
(* stageFinalize waits on m_completedCv until there is room in m_completed. *)

MutexFree == At({"noRoom"}) = {}
HasRoom == Len(completed) < Room

Woken(st) == [t \in Tasks |-> IF st[t] = "asleep" THEN "stored" ELSE st[t]]

HandOver(t) ==
  /\ stage[t] = "stored" /\ MutexFree /\ ~shutdown /\ HasRoom
  /\ completed' = Append(completed, t)
  /\ stage' = Woken([stage EXCEPT ![t] = "handed"])
  /\ UNCHANGED <<posted, content, skip, captured, threads, batch, flags, row, mainPc, call, ui>>

FindNoRoom(t) ==
  /\ stage[t] = "stored" /\ MutexFree /\ ~shutdown /\ ~HasRoom
  /\ GoTo(t, "noRoom")
  /\ UNCHANGED <<posted, content, skip, captured, threads, batch, flags, completed, row,
                 mainPc, call, ui>>

Sleep(t) ==
  /\ stage[t] = "noRoom"
  /\ GoTo(t, "asleep")
  /\ UNCHANGED <<posted, content, skip, captured, threads, batch, flags, completed, row,
                 mainPc, call, ui>>

\* Nobody polls any more: the task leaves without being counted.
GiveUp(t) ==
  /\ stage[t] = "stored" /\ MutexFree /\ shutdown
  /\ GoTo(t, "leaving")
  /\ UNCHANGED <<posted, content, skip, captured, threads, batch, flags, completed, row,
                 mainPc, call, ui>>

CountSuccess(t) ==
  /\ stage[t] = "handed"
  /\ summary' = [summary EXCEPT !.success = @ + 1]
  /\ GoTo(t, "counted")
  /\ UNCHANGED <<posted, content, skip, captured, threads, remaining, active, flags,
                 completed, row, mainPc, call, ui>>

CheckBatchComplete(t) ==
  /\ stage[t] = "counted" /\ BatchStateFree
  /\ remaining' = remaining - 1
  /\ IF remaining = 1
     THEN /\ active' = FALSE
          /\ captured' = [captured EXCEPT ![t] = summary]
          /\ GoTo(t, "last")
     ELSE GoTo(t, "leaving") /\ UNCHANGED <<active, captured>>
  /\ UNCHANGED <<posted, content, skip, threads, summary, flags, completed, row,
                 mainPc, call, ui>>

\* m_onBatchComplete posts the summary to the main thread.
Report(t) ==
  /\ stage[t] = "last"
  /\ mailbox' = Append(mailbox, captured[t])
  /\ captured' = [captured EXCEPT ![t] = NoSummary]
  /\ GoTo(t, "leaving")
  /\ UNCHANGED <<posted, content, skip, threads, batch, flags, completed, row, mainPc, call,
                 offered, pending, wantTags>>

Finish(t) ==
  /\ stage[t] = "leaving"
  /\ GoTo(t, "done")
  /\ UNCHANGED <<posted, content, skip, captured, threads, batch, flags, completed, row,
                 mainPc, call, ui>>

Stage(t) ==
  \/ Take(t) \/ CountActive(t) \/ Begin(t) \/ FailCancelled(t) \/ FailUnreadable(t)
  \/ FindDuplicate(t) \/ FindNoDuplicate(t) \/ Insert(t) \/ FailParseOrInsert(t)
  \/ Store(t) \/ FailStore(t) \/ HandOver(t) \/ FindNoRoom(t) \/ Sleep(t) \/ GiveUp(t)
  \/ CountSuccess(t) \/ CheckBatchComplete(t) \/ Report(t) \/ Finish(t)
-----------------------------------------------------------------------------
(* Frames of the main thread: events, processAll, pollCompleted, one import *)
(* finished.                                                                *)

RunTasks ==
  /\ mainPc = "events"
  /\ mainPc' = "polling"
  /\ mailbox' = <<>>
  /\ wantTags' = IF mailbox = <<>> THEN wantTags ELSE tagging
  /\ LET dialogs == {i \in DOMAIN mailbox : mailbox[i].duplicates # <<>>} IN
     \/ dialogs = {} /\ UNCHANGED offered
     \/ \E i \in dialogs : /\ \A j \in dialogs : j <= i
                           /\ offered' = mailbox[i].duplicates
  /\ UNCHANGED <<tasks, threads, batch, flags, completed, row, call, pending>>

PollOnly ==
  /\ mainPc = "polling" /\ MutexFree
  /\ mainPc' = "showing"
  /\ pending' = pending \o completed
  /\ completed' = <<>>
  /\ UNCHANGED <<tasks, threads, batch, flags, row, call, mailbox, offered, wantTags>>

Poll ==
  /\ mainPc = "polling" /\ MutexFree
  /\ mainPc' = "showing"
  /\ pending' = pending \o completed
  /\ completed' = <<>>
  /\ stage' = Woken(stage)
  /\ UNCHANGED <<posted, content, skip, captured, threads, batch, flags, row, call,
                 mailbox, offered, wantTags>>

\* One import a frame gets its thumbnail; after the last of them the tagger
\* is started if the batch asked for it.
ShowOne ==
  /\ mainPc = "showing"
  /\ mainPc' = "events"
  /\ pending' = IF pending = <<>> THEN pending ELSE Tail(pending)
  /\ wantTags' = (wantTags /\ ~(pending # <<>> /\ pending' = <<>> /\ ~active))
  /\ UNCHANGED <<tasks, threads, batch, flags, completed, row, call, mailbox, offered>>

\* The user removes a file from the library: one that is no longer imported.
Delete(c) ==
  /\ mainPc = "events" /\ IsKnown(c)
  /\ stage[row[c]] \in {"counted", "last", "leaving", "done"}
  /\ row' = [row EXCEPT ![c] = 0]
  /\ UNCHANGED <<tasks, threads, batch, flags, completed, mainPc, call, ui>>
-----------------------------------------------------------------------------
(* Application::shutdown and ~ImportQueue.                                  *)

Quit ==
  /\ mainPc = "events"
  /\ mainPc' = "quitting"
  /\ UNCHANGED <<tasks, threads, batch, flags, completed, row, call, ui>>

SetShutdown ==
  /\ mainPc = "quitting" /\ ~shutdown
  /\ shutdown' = TRUE
  /\ UNCHANGED <<tasks, threads, batch, cancelled, tagging, completed, row, mainPc, call, ui>>

LeaveAsleep ==
  /\ mainPc = "quitting" /\ shutdown
  /\ mainPc' = "draining"
  /\ UNCHANGED <<tasks, threads, batch, flags, completed, row, call, ui>>

NotifyCompleted ==
  /\ mainPc = "quitting" /\ shutdown
  /\ mainPc' = "draining"
  /\ stage' = Woken(stage)
  /\ UNCHANGED <<posted, content, skip, captured, threads, batch, flags, completed, row,
                 call, ui>>

PoolGone ==
  /\ mainPc = "draining" /\ At({"queued"} \cup Working) = {}
  /\ mainPc' = "off"
  /\ UNCHANGED <<tasks, threads, batch, flags, completed, row, call, ui>>

Frame == RunTasks \/ Poll \/ ShowOne
Destructor == SetShutdown \/ NotifyCompleted \/ PoolGone
User == Import \/ Reimport \/ Cancel \/ (\E c \in Contents : Delete(c)) \/ Quit

Next ==
  \/ \E t \in Tasks : Stage(t)
  \/ User \/ PoolReplaced \/ Frame \/ Destructor

Spec == Init /\ [][Next]_vars

\* The workers and the main loop run; nobody owes the queue a file, a cancel
\* or the end of the application.
FairSpec ==
  /\ Spec
  /\ \A t \in Tasks : WF_vars(Stage(t))
  /\ WF_vars(Frame) /\ WF_vars(PoolReplaced) /\ WF_vars(Destructor)
-----------------------------------------------------------------------------
Summaries == [total : Nat, success : Nat, failed : Nat, duplicates : Seq(Contents)]
Calls == [files : Seq(Contents), again : BOOLEAN]

TypeOK ==
  /\ posted \in 0 .. MaxTasks
  /\ content \in [Tasks -> Contents \cup {NoContent}] /\ skip \in [Tasks -> BOOLEAN]
  /\ stage \in [Tasks -> Stages] /\ captured \in [Tasks -> Summaries]
  /\ \A t \in Tasks : (stage[t] = "none") <=> (t > posted)
  /\ \A t \in Tasks : (t <= posted) => content[t] \in Contents
  /\ threads \in 0 .. MaxThreads
  /\ remaining \in Nat /\ summary \in Summaries
  /\ active \in BOOLEAN /\ cancelled \in BOOLEAN /\ shutdown \in BOOLEAN
  /\ tagging \in BOOLEAN /\ wantTags \in BOOLEAN
  /\ completed \in Seq(Tasks) /\ pending \in Seq(Tasks)
  /\ row \in [Contents -> Tasks \cup {0}]
  /\ mainPc \in {"events", "joining", "polling", "showing", "quitting", "draining", "off"}
  /\ mainPc = "joining" => /\ call \in Calls /\ Len(call.files) > 0
                           /\ posted + Len(call.files) <= MaxTasks
  /\ offered \in Seq(Contents) /\ mailbox \in Seq(Summaries)

\* Until the application ends the counter of open tasks is the number of files
\* whose outcome is still to be reported, through batches that are extended
\* while their last files finish, and a batch is active exactly while there are.
RemainingIsTrue ==
  ~shutdown => remaining = Cardinality(At(Open)) /\ (active <=> remaining > 0)

AddsUp(s) == s.success + s.failed + Len(s.duplicates) = s.total

\* A summary that is reported accounts for every file of its batch, those that
\* were added while it ran included: each is a success, a failure or a duplicate.
SummaryAddsUp ==
  /\ \A t \in At({"last"}) : AddsUp(captured[t])
  /\ \A i \in DOMAIN mailbox : AddsUp(mailbox[i])

\* A task past its insert has the one row of its content, whatever the other
\* workers do with the same file: two workers never import it twice, and one
\* that fails takes nobody else's row away.
RowIsOwn ==
  \A t \in At({"inserted", "stored", "noRoom", "asleep", "handed"}) : row[content[t]] = t

Ending == mainPc \in {"quitting", "draining", "off"}

\* Enqueueing never replaces a pool that has a task in hand (isIdle cannot see
\* a task that is taken and not yet counted active).
NoJoinInTheGap == [](HoldsBatchState => At(Working) = {})

\* Unless the pool is replaced in that gap, every batch is over in the end,
\* cancelled or not, or the application is.
BatchEnds == NoJoinInTheGap => (active ~> (~active \/ Ending))

IsWaiting(t) == stage[t] \in {"inserted", "stored", "noRoom", "asleep"} \/ t \in Range(completed)

\* On the same condition an import that has its row is shown, although workers
\* wait for room and the main thread finishes one import in a frame; or it
\* failed, or the application ends.
ImportsShown ==
  NoJoinInTheGap =>
    \A t \in Tasks :
      IsWaiting(t) ~> ((~IsWaiting(t) /\ t \notin Range(pending)) \/ Ending)

\* The application ends although workers wait for room nobody makes any more.
\* The flag is set and notified without m_mutex, so only if no worker was then
\* between its look at the flag and its sleep.
QuitReturns ==
  [](mainPc = "draining" => At({"noRoom"}) = {}) => (mainPc = "quitting" ~> mainPc = "off")

\* import_options_dialog.cpp: "Tag with AI after import".  Files imported with
\* that box ticked are followed by the tagger's start.
TaggingFollows ==
  (wantTags /\ summary.success > 0) ~> (~wantTags \/ Ending)
=============================================================================
