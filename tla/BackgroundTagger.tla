--------------------------- MODULE BackgroundTagger ---------------------------
(***************************************************************************)
(* dw::BackgroundTagger and what works on the same rows: its thread takes  *)
(* one model after the other, marks it, asks the AI about its thumbnail,   *)
(* has the main thread render another view if the answer wants one, and    *)
(* saves the outcome in several statements.  The user may stop it, retag a *)
(* model in a thread of its own, and end the application, whose shutdown   *)
(* joins the tagger from the one thread that renders.  The process may die *)
(* between any two steps; the rows and the thumbnails stay.                *)
(*                                                                         *)
(* A model is its id.  Of an answer only what decideNextStep looks at is   *)
(* kept.  The application starts the tagger in mode SmartRetag only.       *)
(***************************************************************************)
EXTENDS Naturals, Sequences, FiniteSets

CONSTANTS
  Models,            \* ids, in the order in which the tagger takes them
  BackFacing,        \* models whose stored orientation shows the back
  Unshown,           \* models whose import is still to be shown: without a thumbnail
  SideViews,         \* the perpendicular views
  RetagViews,        \* bound: views that a retag by hand asks for
  MaxRetries,        \* kMaxPerpendicularRetries
  MaxLate,           \* bound: renders the tagger no longer waits for, queued at once
  MaxEvents          \* bound: retags by hand, imports shown and crashes together

ASSUME TaggerAssumption ==
  /\ Models \subseteq Nat \ {0} /\ BackFacing \subseteq Models /\ Unshown \subseteq Models
  /\ {"front", "back"} \subseteq SideViews
  /\ "isometric" \notin SideViews /\ "unknown" \notin SideViews /\ "none" \notin SideViews
  /\ RetagViews \subseteq SideViews \cup {"isometric"}
  /\ MaxRetries \in Nat \ {0}
  /\ MaxLate \in Nat /\ MaxEvents \in Nat

VARIABLES
  status, parts,     \* rows of models: tag_status, and what of an answer is saved
  picture,           \* the view the thumbnail file shows
  active, stop,      \* m_progress.active, m_stopRequested
  pc, last,          \* where workerLoop is; lastAttemptedId
  hand, original,    \* the model in hand, its status before
  view, tried, perps, attempt, rotated, outcome, \* locals of runSmartTagAttempt
  rendered,          \* the promise of the render the tagger waits for
  mailbox,           \* MainThreadQueue
  retag,             \* the threads of handleTagImage
  mainPc,            \* "events", "joining" the tagger, "off"
  events, crashes,   \* counted: for the bound, and the crashes
  torn               \* auxiliary: models whose saving was cut off by a crash

rows == <<status, parts, picture>>
loop == <<view, tried, perps, attempt, rotated>>
worker == <<active, pc, last, hand, original, loop, outcome, rendered>>
bounds == <<events, crashes, torn>>
vars == <<rows, stop, worker, mailbox, retag, mainPc, bounds>>

Views == SideViews \cup {"isometric"}
AllParts == {"descriptor", "tags", "categories"}

\* tag_status: 0 untagged, 1 in hand, 2 tagged, 3 failed, 4 for manual review.
Candidate == {0, 3, 4}

Idle ==
  /\ active = FALSE /\ stop = FALSE /\ pc = "off" /\ last = 0 /\ hand = 0 /\ original = 0
  /\ view = "front" /\ tried = {} /\ perps = 0 /\ attempt = 0 /\ rotated = FALSE
  /\ outcome = "failed" /\ rendered = "none"
  /\ mailbox = <<>> /\ retag = [m \in Models |-> "none"] /\ mainPc = "events"

Init ==
  /\ status = [m \in Models |-> 0] /\ parts = [m \in Models |-> {}]
  /\ picture = [m \in Models |-> IF m \in Unshown THEN "none" ELSE "front"]
  /\ Idle
  /\ events = 0 /\ crashes = 0 /\ torn = {}
-----------------------------------------------------------------------------
(* smart_tagging::decideNextStep.  Confidence in classes: 3 high, 2 enough  *)
(* for a fallback, 1 useful, 0 less.                                        *)

Answers == [kind : {"final", "retry", "fallback", "unclassifiable"}, needsRetag : BOOLEAN,
            recommended : Views \cup {"unknown"}, confidence : 0 .. 3, text : BOOLEAN]

Settled(action) == [action |-> action, next |-> "unknown"]
LookAt(action, v) == [action |-> action, next |-> v]

IsometricAgain(seen) == LookAt("isometric", "isometric")
IsometricOrGiveUp(seen) ==
  IF "isometric" \in seen THEN Settled("unclassifiable") ELSE LookAt("isometric", "isometric")

RetriesLeft(n) == n < MaxRetries

DecideNextStep(a, seen, sides) ==
  LET wantsView == a.kind = "retry" \/ a.needsRetag IN
  CASE a.kind = "unclassifiable" -> Settled("unclassifiable")
    [] a.kind = "fallback" -> IsometricOrGiveUp(seen)
    [] a.kind \in {"final", "retry"} /\ wantsView ->
         IF a.recommended \in SideViews \ seen /\ RetriesLeft(sides)
         THEN LookAt("retry", a.recommended)
         ELSE IsometricOrGiveUp(seen)
    [] a.kind = "final" /\ ~wantsView ->
         CASE a.confidence = 3 /\ a.text -> Settled("accept")
           [] "isometric" \in seen ->
                Settled(IF a.confidence >= 2 /\ a.text THEN "accept" ELSE "unclassifiable")
           [] OTHER ->
                IF a.confidence < 1 THEN Settled("unclassifiable")
                                    ELSE LookAt("isometric", "isometric")
-----------------------------------------------------------------------------
(* workerLoop.                                                              *)

Goto(next) == pc' = next

\* The three updates of recoverInterruptedTagStatuses.
RecoveredUnread(m) == IF status[m] = 1 THEN 2 ELSE status[m]

Recovered(m) ==
  IF "descriptor" \in parts[m] THEN IF status[m] = 1 THEN 2 ELSE status[m]
                               ELSE IF status[m] \in {1, 2} THEN 0 ELSE status[m]

Recover ==
  /\ pc = "recovering"
  /\ status' = [m \in Models |-> Recovered(m)]
  /\ last' = 0
  /\ Goto("next")
  /\ UNCHANGED <<parts, picture, active, stop, hand, original, loop, outcome, rendered,
                 mailbox, retag, mainPc, bounds>>

\* findNextAiTagCandidate.
FromTheStart(m) == TRUE
AfterLast(m) == m > last
Candidates == {m \in Models : status[m] \in Candidate /\ AfterLast(m) /\ picture[m] # "none"}

FindNext ==
  /\ pc = "next" /\ ~stop
  /\ \E m \in Candidates :
       /\ \A n \in Candidates : m <= n
       /\ hand' = m /\ last' = m /\ original' = status[m]
  /\ Goto("found")
  /\ UNCHANGED <<rows, active, stop, loop, outcome, rendered, mailbox, retag, mainPc, bounds>>

NothingLeft ==
  /\ pc = "next" /\ (stop \/ Candidates = {})
  /\ Goto("off") /\ active' = FALSE /\ last' = 0
  /\ UNCHANGED <<rows, stop, hand, original, loop, outcome, rendered, mailbox, retag, mainPc,
                 bounds>>

SetStatus(s) == status' = [status EXCEPT ![hand] = s]
PutDown == hand' = 0 /\ original' = 0 /\ outcome' = "failed" /\ rendered' = "none"

Mark ==
  /\ pc = "found"
  /\ SetStatus(1)
  /\ Goto("marked")
  /\ UNCHANGED <<parts, picture, active, stop, last, hand, original, loop, outcome, rendered,
                 mailbox, retag, mainPc, bounds>>

\* The stop request is looked at before and after the attempt.
LeaveMarked(s) == UNCHANGED status
Restore(s) == SetStatus(s)

GiveBack ==
  /\ pc \in {"marked", "result"} /\ stop
  /\ Restore(original)
  /\ PutDown /\ last' = 0 /\ Goto("off") /\ active' = FALSE
  /\ UNCHANGED <<parts, picture, stop, loop, mailbox, retag, mainPc, bounds>>

\* initialViewForModel.
Begin ==
  /\ pc = "marked" /\ ~stop
  /\ view' = (IF hand \in BackFacing THEN "back" ELSE "front")
  /\ tried' = {} /\ perps' = 0 /\ attempt' = 0 /\ rotated' = FALSE /\ rendered' = "none"
  /\ Goto("attempt")
  /\ UNCHANGED <<rows, active, stop, last, hand, original, outcome, mailbox, retag, mainPc,
                 bounds>>
-----------------------------------------------------------------------------
(* runSmartTagAttempt.                                                      *)

Settle(result) ==
  /\ outcome' = result /\ Goto("result")
  /\ view' = "front" /\ tried' = {} /\ perps' = 0 /\ attempt' = 0 /\ rotated' = FALSE
  /\ rendered' = "none"

StopAttempt ==
  /\ pc = "attempt" /\ stop /\ attempt < MaxRetries + 2
  /\ Settle("failed")
  /\ UNCHANGED <<rows, active, stop, last, hand, original, mailbox, retag, mainPc, bounds>>

\* describe is called with the thumbnail file and the view it is said to show.
Ask ==
  /\ pc = "attempt" /\ ~stop /\ attempt < MaxRetries + 2
  /\ tried' = tried \cup {view} /\ attempt' = attempt + 1
  /\ perps' = IF view \in SideViews THEN perps + 1 ELSE perps
  /\ Goto("asking")
  /\ UNCHANGED <<rows, active, stop, last, hand, original, view, rotated, rendered, outcome,
                 mailbox, retag, mainPc, bounds>>

RenderTask(m, v, who) == [kind |-> "render", model |-> m, view |-> v, who |-> who]
ResultTask(m, result) == [kind |-> "result", model |-> m, outcome |-> result]

GoOnUnseen(v) ==
  /\ view' = v
  /\ mailbox' = Append(mailbox, RenderTask(hand, v, "nobody")) /\ rendered' = "none"
  /\ Goto("attempt")

\* regenerateSmartTagThumbnail posts the render and waits.
AskForView(v) ==
  /\ view' = v
  /\ mailbox' = Append(mailbox, RenderTask(hand, v, "tagger")) /\ rendered' = "none"
  /\ Goto("waiting")

AnswerFails ==
  /\ pc = "asking"
  /\ Settle("failed")
  /\ UNCHANGED <<rows, active, stop, last, hand, original, mailbox, retag, mainPc, bounds>>

\* The answer says the model lies on its side, and applyOrientationCorrection
\* succeeds: once in an attempt.
Rotate ==
  /\ pc = "asking" /\ ~rotated
  /\ \E upright \in Views \cup {"unknown"} :
       AskForView(IF upright = "unknown" THEN view ELSE upright)
  /\ rotated' = TRUE
  /\ UNCHANGED <<rows, active, stop, last, hand, original, tried, perps, attempt, outcome,
                 retag, mainPc, bounds>>

Decide ==
  /\ pc = "asking"
  /\ \E a \in Answers :
       LET d == DecideNextStep(a, tried, perps) IN
       IF d.action \in {"accept", "unclassifiable"}
       THEN Settle(d.action) /\ UNCHANGED mailbox
       ELSE AskForView(d.next) /\ UNCHANGED <<tried, perps, attempt, rotated, outcome>>
  /\ UNCHANGED <<rows, active, stop, last, hand, original, retag, mainPc, bounds>>

ViewThere ==
  /\ pc = "waiting" /\ rendered = "yes"
  /\ rendered' = "none"
  /\ Goto("attempt")
  /\ UNCHANGED <<rows, active, stop, last, hand, original, loop, outcome, mailbox, retag,
                 mainPc, bounds>>

ViewFails ==
  /\ pc = "waiting" /\ rendered = "no"
  /\ Settle("failed")
  /\ UNCHANGED <<rows, active, stop, last, hand, original, mailbox, retag, mainPc, bounds>>

Late == {i \in DOMAIN mailbox : mailbox[i].kind = "render" /\ mailbox[i].who = "nobody"}

\* future.wait_for gives up after 30 s; the task stays in the queue.

TimeOut ==
  /\ pc = "waiting" /\ rendered = "none"
  /\ Cardinality(Late) < MaxLate \/ mainPc = "joining"
  /\ mailbox' = [i \in DOMAIN mailbox |->
                   IF mailbox[i].kind = "render" /\ mailbox[i].who = "tagger"
                   THEN RenderTask(mailbox[i].model, mailbox[i].view, "nobody")
                   ELSE mailbox[i]]
  /\ Settle("failed")
  /\ UNCHANGED <<rows, active, stop, last, hand, original, retag, mainPc, bounds>>
-----------------------------------------------------------------------------
(* The outcome, in workerLoop and persistSuccessfulResult.                  *)

Reject ==
  /\ pc = "result" /\ ~stop /\ outcome # "accept"
  /\ SetStatus(IF outcome = "failed" THEN 3 ELSE 4)
  /\ PutDown /\ Goto("next")
  /\ UNCHANGED <<parts, picture, active, stop, last, loop, mailbox, retag, mainPc, bounds>>

Keep(part) == parts' = [parts EXCEPT ![hand] = @ \cup {part}]

Save(step, part, nextStep) ==
  /\ pc = step /\ Keep(part) /\ Goto(nextStep)
  /\ UNCHANGED <<status, picture, active, stop, last, hand, original, loop, outcome,
                 rendered, mailbox, retag, mainPc, bounds>>

SaveDescriptor == ~stop /\ outcome = "accept" /\ Save("result", "descriptor", "saveTags")
SaveTags == Save("saveTags", "tags", "saveCategories")
SaveCategories == Save("saveCategories", "categories", "saveStatus")

SaveStatus ==
  /\ pc = "saveStatus"
  /\ SetStatus(2)
  /\ PutDown /\ Goto("next")
  /\ UNCHANGED <<parts, picture, active, stop, last, loop, mailbox, retag, mainPc, bounds>>

Tagger ==
  \/ Recover \/ FindNext \/ NothingLeft \/ Mark \/ GiveBack \/ Begin
  \/ StopAttempt \/ Ask \/ AnswerFails \/ Rotate \/ Decide
  \/ ViewThere \/ ViewFails \/ TimeOut
  \/ Reject \/ SaveDescriptor \/ SaveTags \/ SaveCategories \/ SaveStatus
-----------------------------------------------------------------------------
(* A model retagged from the library panel, in a thread of its own that     *)
(* goes through the same loop of views (runSmartTagLoop); which views it    *)
(* asks for is left open.                                                   *)

Retag(m) ==
  /\ mainPc = "events" /\ retag[m] = "none" /\ picture[m] # "none" /\ events < MaxEvents
  /\ status' = [status EXCEPT ![m] = 0] /\ parts' = [parts EXCEPT ![m] = {}]
  /\ retag' = [retag EXCEPT ![m] = "asking"]
  /\ events' = events + 1 /\ torn' = torn \ {m}
  /\ UNCHANGED <<picture, stop, worker, mailbox, mainPc, crashes>>

RetagAsks(m) ==
  /\ retag[m] = "asking"
  /\ \E v \in RetagViews : mailbox' = Append(mailbox, RenderTask(m, v, "retag"))
  /\ retag' = [retag EXCEPT ![m] = "waiting"]
  /\ UNCHANGED <<rows, stop, worker, mainPc, bounds>>

RetagAnswers(m) ==
  /\ retag[m] = "asking"
  /\ \E result \in {"accept", "unclassifiable", "failed"} :
       mailbox' = Append(mailbox, ResultTask(m, result))
  /\ retag' = [retag EXCEPT ![m] = "answered"]
  /\ UNCHANGED <<rows, stop, worker, mainPc, bounds>>

\* The render it waited for stays in the queue.
RetagTimesOut(m) ==
  /\ retag[m] = "waiting"
  /\ mailbox' = Append([i \in DOMAIN mailbox |->
                          IF mailbox[i].kind = "render" /\ mailbox[i].who = "retag"
                             /\ mailbox[i].model = m
                          THEN RenderTask(m, mailbox[i].view, "nobody") ELSE mailbox[i]],
                       ResultTask(m, "failed"))
  /\ retag' = [retag EXCEPT ![m] = "answered"]
  /\ UNCHANGED <<rows, stop, worker, mainPc, bounds>>

Thread == \E m \in Models : RetagAsks(m) \/ RetagAnswers(m) \/ RetagTimesOut(m)
-----------------------------------------------------------------------------
(* The main thread.                                                         *)

NextTask == Head(mailbox)
Others == Tail(mailbox)

\* The render replaces the thumbnail file and tells whoever waits for it.
RunRender ==
  /\ mainPc = "events" /\ mailbox # <<>> /\ NextTask.kind = "render"
  /\ mailbox' = Others
  /\ \E done \in BOOLEAN :
       /\ picture' = IF done THEN [picture EXCEPT ![NextTask.model] = NextTask.view]
                            ELSE picture
       /\ rendered' = IF NextTask.who = "tagger" THEN IF done THEN "yes" ELSE "no"
                                                  ELSE rendered
  /\ retag' = IF NextTask.who = "retag" THEN [retag EXCEPT ![NextTask.model] = "asking"]
                                         ELSE retag
  /\ UNCHANGED <<status, parts, stop, active, pc, last, hand, original, loop, outcome,
                 mainPc, bounds>>

\* persistTagResults.
RunResult ==
  /\ mainPc = "events" /\ mailbox # <<>> /\ NextTask.kind = "result"
  /\ mailbox' = Others
  /\ LET m == NextTask.model IN
     /\ retag' = [retag EXCEPT ![m] = "none"]
     /\ status' = [status EXCEPT ![m] = CASE NextTask.outcome = "accept" -> 2
                                          [] NextTask.outcome = "failed" -> 3
                                          [] OTHER -> 4]
     /\ parts' = IF NextTask.outcome = "accept" THEN [parts EXCEPT ![m] = AllParts] ELSE parts
  /\ UNCHANGED <<picture, stop, worker, mainPc, bounds>>

\* An imported model gets its thumbnail when its import is shown.
ShowImported(m) ==
  /\ mainPc = "events" /\ picture[m] = "none" /\ events < MaxEvents
  /\ picture' = [picture EXCEPT ![m] = "front"] /\ events' = events + 1
  /\ UNCHANGED <<status, parts, stop, worker, mailbox, retag, mainPc, crashes, torn>>

Start ==
  /\ mainPc = "events" /\ ~active
  /\ active' = TRUE /\ stop' = FALSE /\ Goto("recovering")
  /\ UNCHANGED <<rows, last, hand, original, loop, outcome, rendered, mailbox, retag,
                 mainPc, bounds>>

\* The menu, the status bar, or quit while the tagger is active.
Stop ==
  /\ mainPc = "events" /\ active /\ ~stop
  /\ stop' = TRUE
  /\ UNCHANGED <<rows, worker, mailbox, retag, mainPc, bounds>>

\* The main loop is left, perhaps with the tagger active: by a reset to
\* defaults, or when the tagger was started during the prompt to save.
Shutdown ==
  /\ mainPc = "events"
  /\ mainPc' = "joining" /\ stop' = TRUE
  /\ UNCHANGED <<rows, worker, mailbox, retag, bounds>>

Joined ==
  /\ mainPc = "joining" /\ ~active
  /\ mainPc' = "off"
  /\ UNCHANGED <<rows, stop, worker, mailbox, retag, bounds>>

\* A new process on the old database.
Boot ==
  /\ active' = FALSE /\ stop' = FALSE /\ pc' = "off" /\ last' = 0 /\ hand' = 0
  /\ original' = 0 /\ view' = "front" /\ tried' = {} /\ perps' = 0 /\ attempt' = 0
  /\ rotated' = FALSE /\ outcome' = "failed" /\ rendered' = "none"
  /\ mailbox' = <<>> /\ retag' = [m \in Models |-> "none"] /\ mainPc' = "events"
  /\ UNCHANGED rows

Restart == mainPc = "off" /\ Boot /\ UNCHANGED bounds

Saving == {"saveTags", "saveCategories"}

Crash ==
  /\ events < MaxEvents /\ events' = events + 1 /\ crashes' = crashes + 1
  /\ torn' = IF pc \in Saving THEN torn \cup {hand} ELSE torn
  /\ Boot

Render == RunRender \/ RunResult
User == Start \/ Stop \/ Shutdown \/ (\E m \in Models : Retag(m) \/ ShowImported(m))

Next == Tagger \/ Thread \/ Render \/ User \/ Joined \/ Restart \/ Crash

Spec == Init /\ [][Next]_vars

\* The AI's answers and the waits end (curl and wait_for have time limits), and
\* the main loop runs its tasks and joins; nobody owes a start or an answer.
FairSpec == Spec /\ WF_vars(Tagger) /\ WF_vars(Render) /\ WF_vars(Joined)
-----------------------------------------------------------------------------
Tasks ==
  [kind : {"render"}, model : Models, view : Views, who : {"tagger", "retag", "nobody"}]
    \cup [kind : {"result"}, model : Models, outcome : {"accept", "unclassifiable", "failed"}]

TypeOK ==
  /\ status \in [Models -> 0 .. 4] /\ parts \in [Models -> SUBSET AllParts]
  /\ picture \in [Models -> Views \cup {"none"}]
  /\ active \in BOOLEAN /\ stop \in BOOLEAN /\ rotated \in BOOLEAN
  /\ pc \in {"off", "recovering", "next", "found", "marked", "attempt", "asking",
             "waiting", "result", "saveTags", "saveCategories", "saveStatus"}
  /\ last \in Models \cup {0} /\ hand \in Models \cup {0} /\ original \in 0 .. 4
  /\ view \in Views /\ tried \subseteq Views /\ perps \in Nat /\ attempt \in Nat
  /\ outcome \in {"accept", "unclassifiable", "failed"}
  /\ rendered \in {"none", "yes", "no"}
  /\ mailbox \in Seq(Tasks)
  /\ retag \in [Models -> {"none", "asking", "waiting", "answered"}]
  /\ mainPc \in {"events", "joining", "off"}
  /\ events \in Nat /\ crashes \in Nat /\ torn \subseteq Models
  /\ active <=> pc # "off"
  /\ hand # 0 <=> pc \notin {"off", "recovering", "next"}

\* The tagger has a model in hand that a thread of the library panel retags.
Overlap == hand # 0 /\ retag[hand] # "none"
NeverOverlap == []~Overlap

RowsWhole ==
  \A m \in Models : status[m] = 2 => /\ "descriptor" \in parts[m]
                                     /\ m \in torn \/ parts[m] = AllParts

\* Unless the user retags the very model the tagger has in hand, a model shown
\* as tagged has its descriptor, whatever stops or crashes came between; and its
\* tags and categories too, unless a crash hit the statements that save them.
TaggedIsWhole == NeverOverlap => []RowsWhole

\* When the tagger ends of itself it leaves no model marked as in hand, neither
\* its own nor one that an earlier process left behind.
NothingLeftMarked ==
  [][(active /\ ~active' /\ crashes' = crashes) => \A m \in Models : status'[m] # 1]_vars

\* The loop over views never runs out of attempts before it has decided,
\* although a rotation may cost one: the count of kMaxPerpendicularRetries + 2
\* is enough and no picture is rendered that nobody looks at.  (The exit behind
\* the loop is therefore no action.)
NeverCutOff == pc = "attempt" => attempt < MaxRetries + 2

ShowsView == (pc = "attempt" /\ attempt > 0) => picture[hand] = view

\* From its second question on the AI is told the view the thumbnail shows,
\* although renders that timed out are carried out late; unless the user retags
\* the same model.
ToldViewIsShown == NeverOverlap => []ShowsView

\* The tagger ends, although models that fail stay candidates, the user retags
\* others meanwhile, and the main thread may no longer render but wait for it.
TaggerEnds == active ~> ~active
=============================================================================
