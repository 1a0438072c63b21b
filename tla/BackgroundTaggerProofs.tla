------------------------ MODULE BackgroundTaggerProofs -----------------------
(***************************************************************************)
(* BackgroundTagger for any models, views and number of retries.           *)
(***************************************************************************)
EXTENDS BackgroundTagger, SequenceTheorems, TLAPS

-----------------------------------------------------------------------------
(* The views, and what happens to the queue of the main thread.            *)

LEMMA ViewFacts ==
  /\ "front" \in SideViews /\ "back" \in SideViews /\ "isometric" \notin SideViews
  /\ {"front", "back", "isometric"} \subseteq Views /\ SideViews \subseteq Views
  /\ RetagViews \subseteq Views /\ "none" \notin Views
  /\ \A v \in Views : v \in SideViews \/ v = "isometric"
BY TaggerAssumption DEF TaggerAssumption, Views

LEMMA ModelFacts == Models \subseteq Nat /\ 0 \notin Models
BY TaggerAssumption DEF TaggerAssumption

LEMMA TaskTypes ==
  ASSUME NEW m \in Models
  PROVE  /\ \A v \in Views, who \in {"tagger", "retag", "nobody"} :
              RenderTask(m, v, who) \in Tasks
         /\ \A o \in {"accept", "unclassifiable", "failed"} : ResultTask(m, o) \in Tasks
BY DEF RenderTask, ResultTask, Tasks

LEMMA PostedTask ==
  ASSUME NEW s \in Seq(Tasks), NEW t \in Tasks
  PROVE  /\ Append(s, t) \in Seq(Tasks)
         /\ DOMAIN Append(s, t) = DOMAIN s \cup {Len(s) + 1}
         /\ \A i \in DOMAIN s : Append(s, t)[i] = s[i]
         /\ Append(s, t)[Len(s) + 1] = t
         /\ Len(s) \in Nat /\ DOMAIN s = 1 .. Len(s)
BY AppendProperties

LEMMA TakenTask ==
  ASSUME NEW s \in Seq(Tasks), s # <<>>
  PROVE  /\ Tail(s) \in Seq(Tasks) /\ Head(s) \in Tasks
         /\ 1 \in DOMAIN s /\ Head(s) = s[1]
         /\ \A i \in DOMAIN Tail(s) :
               i \in Nat /\ i + 1 \in DOMAIN s /\ i + 1 > 1 /\ Tail(s)[i] = s[i + 1]
BY HeadTailProperties

LEMMA RewrittenTasks ==
  ASSUME NEW s \in Seq(Tasks), NEW r, r = [i \in DOMAIN s |-> r[i]],
         \A i \in DOMAIN s : r[i] \in Tasks
  PROVE  r \in Seq(Tasks) /\ DOMAIN r = DOMAIN s
<1>1. Len(s) \in Nat /\ DOMAIN s = 1 .. Len(s) OBVIOUS
<1>2. DOMAIN r = DOMAIN s /\ r \in [1 .. Len(s) -> Tasks]
  BY <1>1
<1> QED BY <1>1, <1>2, SeqDef

LEMMA NextView ==
  ASSUME NEW a \in Answers, NEW seen, NEW n \in Nat,
         DecideNextStep(a, seen, n).action \notin {"accept", "unclassifiable"}
  PROVE  \/ /\ DecideNextStep(a, seen, n).next \in SideViews
            /\ n < MaxRetries
         \/ /\ DecideNextStep(a, seen, n).next = "isometric"
            /\ "isometric" \notin seen
BY DEF DecideNextStep, Answers, Settled, LookAt, IsometricOrGiveUp, RetriesLeft
-----------------------------------------------------------------------------
(* Type correctness.                                                        *)

LEMMA TypeInit == Init => TypeOK
<1> SUFFICES ASSUME Init PROVE TypeOK OBVIOUS
<1> USE ViewFacts DEF Init, Idle
<1>1. mailbox \in Seq(Tasks) /\ retag \in [Models -> {"none", "asking", "waiting", "answered"}]
  OBVIOUS
<1>2. /\ status \in [Models -> 0 .. 4] /\ parts \in [Models -> SUBSET AllParts]
      /\ picture \in [Models -> Views \cup {"none"}]
  OBVIOUS
<1>3. /\ active \in BOOLEAN /\ stop \in BOOLEAN /\ rotated \in BOOLEAN
      /\ active <=> pc # "off"
  BY Zenon
<1>4. /\ pc = "off" /\ last = 0 /\ hand = 0 /\ original \in 0 .. 4 /\ view \in Views
      /\ tried \subseteq Views /\ perps \in Nat /\ attempt \in Nat
      /\ outcome = "failed" /\ rendered = "none" /\ mainPc = "events"
      /\ events \in Nat /\ crashes \in Nat /\ torn \subseteq Models
  OBVIOUS
<1> HIDE DEF Init, Idle
<1> QED BY <1>1, <1>2, <1>3, <1>4 DEF TypeOK

\* The steps of the thread that leave the queue alone.
LEMMA LoopTypes ==
  ASSUME TypeOK,
         \/ Recover \/ FindNext \/ NothingLeft \/ Mark \/ GiveBack \/ Begin
         \/ StopAttempt \/ Ask \/ AnswerFails \/ ViewThere \/ ViewFails
         \/ Reject \/ SaveDescriptor \/ SaveTags \/ SaveCategories \/ SaveStatus
  PROVE  TypeOK'
<1> USE ViewFacts, ModelFacts DEF TypeOK, Goto, loop, rows, bounds
<1>1. CASE Recover BY <1>1 DEF Recover, Recovered
<1>2. CASE FindNext BY <1>2 DEF FindNext, Candidates
<1>3. CASE NothingLeft BY <1>3 DEF NothingLeft
<1>4. CASE Mark BY <1>4 DEF Mark, SetStatus
<1>5. CASE GiveBack
  <2>1. /\ hand \in Models /\ original \in 0 .. 4
        /\ status' = [status EXCEPT ![hand] = original]
        /\ active' = FALSE /\ pc' = "off" /\ last' = 0
        /\ hand' = 0 /\ original' = 0 /\ outcome' = "failed" /\ rendered' = "none"
        /\ UNCHANGED <<parts, picture, stop, loop, mailbox, retag, mainPc, bounds>>
    BY <1>5 DEF GiveBack, Restore, SetStatus, PutDown
  <2>2. status' \in [Models -> 0 .. 4] BY <2>1
  <2>3. active' \in BOOLEAN /\ (active' <=> pc' # "off") BY <2>1, Zenon
  <2> QED BY <2>1, <2>2, <2>3
<1>6. CASE Begin BY <1>6 DEF Begin
<1>7. CASE StopAttempt BY <1>7 DEF StopAttempt, Settle
<1>8. CASE Ask BY <1>8 DEF Ask
<1>9. CASE AnswerFails BY <1>9 DEF AnswerFails, Settle
<1>10. CASE ViewThere BY <1>10 DEF ViewThere
<1>11. CASE ViewFails BY <1>11 DEF ViewFails, Settle
<1>12. CASE Reject BY <1>12 DEF Reject, SetStatus, PutDown
<1>13. CASE SaveDescriptor BY <1>13 DEF SaveDescriptor, Save, Keep, AllParts
<1>14. CASE SaveTags BY <1>14 DEF SaveTags, Save, Keep, AllParts
<1>15. CASE SaveCategories BY <1>15 DEF SaveCategories, Save, Keep, AllParts
<1>16. CASE SaveStatus BY <1>16 DEF SaveStatus, SetStatus, PutDown
<1> QED
  BY <1>1, <1>2, <1>3, <1>4, <1>5, <1>6, <1>7, <1>8, <1>9, <1>10, <1>11, <1>12, <1>13,
     <1>14, <1>15, <1>16

\* The render the thread posts is one task more at the end of the queue.
LEMMA ViewPosted ==
  ASSUME TypeOK, pc = "asking", NEW v \in Views, AskForView(v)
  PROVE  /\ mailbox' = Append(mailbox, RenderTask(hand, v, "tagger"))
         /\ mailbox' \in Seq(Tasks) /\ RenderTask(hand, v, "tagger") \in Tasks
         /\ view' = v /\ rendered' = "none" /\ pc' = "waiting" /\ hand \in Models
<1>1. hand \in Models /\ mailbox \in Seq(Tasks) BY DEF TypeOK
<1> QED BY <1>1, TaskTypes, PostedTask DEF AskForView, Goto

\* What a render that timed out is rewritten to.
LEMMA Unawaited ==
  ASSUME TypeOK, TimeOut
  PROVE  /\ mailbox' \in Seq(Tasks) /\ DOMAIN mailbox' = DOMAIN mailbox
         /\ \A i \in DOMAIN mailbox :
              mailbox'[i] = IF mailbox[i].kind = "render" /\ mailbox[i].who = "tagger"
                            THEN RenderTask(mailbox[i].model, mailbox[i].view, "nobody")
                            ELSE mailbox[i]
<1>1. mailbox \in Seq(Tasks) BY DEF TypeOK
<1>2. mailbox' = [i \in DOMAIN mailbox |->
                    IF mailbox[i].kind = "render" /\ mailbox[i].who = "tagger"
                    THEN RenderTask(mailbox[i].model, mailbox[i].view, "nobody")
                    ELSE mailbox[i]]
  BY DEF TimeOut
<1>3. ASSUME NEW i \in DOMAIN mailbox PROVE mailbox'[i] \in Tasks
  <2>1. mailbox[i] \in Tasks BY <1>1
  <2>2. CASE mailbox[i].kind = "render"
    <3>1. mailbox[i].model \in Models /\ mailbox[i].view \in Views
      BY <2>1, <2>2 DEF Tasks
    <3> QED BY <1>2, <2>1, <3>1, TaskTypes
  <2> QED BY <1>2, <2>1, <2>2
<1> QED BY <1>1, <1>2, <1>3, RewrittenTasks

LEMMA PostTypes ==
  ASSUME TypeOK, Rotate \/ Decide \/ TimeOut PROVE TypeOK'
<1> USE ViewFacts, ModelFacts DEF TypeOK, Goto, loop, rows, bounds
<1>1. CASE Rotate
  <2>1. PICK v \in Views : AskForView(v) BY <1>1 DEF Rotate
  <2> QED BY <1>1, <2>1, ViewPosted DEF Rotate
<1>2. CASE Decide
  <2>1. PICK a \in Answers :
          LET d == DecideNextStep(a, tried, perps) IN
          IF d.action \in {"accept", "unclassifiable"}
          THEN Settle(d.action) /\ UNCHANGED mailbox
          ELSE AskForView(d.next) /\ UNCHANGED <<tried, perps, attempt, rotated, outcome>>
    BY <1>2 DEF Decide
  <2>2. CASE DecideNextStep(a, tried, perps).action \in {"accept", "unclassifiable"}
    <3>1. /\ Settle(DecideNextStep(a, tried, perps).action) /\ UNCHANGED mailbox
          /\ pc = "asking"
          /\ UNCHANGED <<rows, active, stop, last, hand, original, retag, mainPc, bounds>>
      BY <1>2, <2>1, <2>2 DEF Decide
    <3> HIDE DEF DecideNextStep
    <3> QED BY <2>2, <3>1 DEF Settle
  <2>3. CASE DecideNextStep(a, tried, perps).action \notin {"accept", "unclassifiable"}
    <3>1. DecideNextStep(a, tried, perps).next \in Views BY <2>3, NextView
    <3> QED BY <1>2, <2>1, <2>3, <3>1, ViewPosted DEF Decide
  <2> QED BY <2>2, <2>3
<1>3. CASE TimeOut BY <1>3, Unawaited DEF TimeOut, Settle
<1> QED BY <1>1, <1>2, <1>3

\* A retag that stops waiting leaves its render to nobody.
LEMMA RetagUnawaited ==
  ASSUME TypeOK, NEW m \in Models, RetagTimesOut(m)
  PROVE  /\ mailbox' \in Seq(Tasks)
         /\ DOMAIN mailbox' = DOMAIN mailbox \cup {Len(mailbox) + 1}
         /\ Len(mailbox) \in Nat /\ DOMAIN mailbox = 1 .. Len(mailbox)
         /\ mailbox'[Len(mailbox) + 1] = ResultTask(m, "failed")
         /\ \A i \in DOMAIN mailbox :
              mailbox'[i] = IF mailbox[i].kind = "render" /\ mailbox[i].who = "retag"
                               /\ mailbox[i].model = m
                            THEN RenderTask(m, mailbox[i].view, "nobody") ELSE mailbox[i]
<1> DEFINE r == [i \in DOMAIN mailbox |->
                   IF mailbox[i].kind = "render" /\ mailbox[i].who = "retag"
                      /\ mailbox[i].model = m
                   THEN RenderTask(m, mailbox[i].view, "nobody") ELSE mailbox[i]]
<1>1. mailbox \in Seq(Tasks) BY DEF TypeOK
<1>2. ASSUME NEW i \in DOMAIN mailbox PROVE r[i] \in Tasks
  <2>1. mailbox[i] \in Tasks BY <1>1
  <2>2. CASE mailbox[i].kind = "render"
    <3>1. mailbox[i].view \in Views BY <2>1, <2>2 DEF Tasks
    <3> QED BY <2>1, <3>1, TaskTypes
  <2> QED BY <2>1, <2>2
<1>3. r = [i \in DOMAIN mailbox |-> r[i]] OBVIOUS
<1>4. \A i \in DOMAIN mailbox :
        r[i] = IF mailbox[i].kind = "render" /\ mailbox[i].who = "retag"
                  /\ mailbox[i].model = m
               THEN RenderTask(m, mailbox[i].view, "nobody") ELSE mailbox[i]
  OBVIOUS
<1>5. mailbox' = Append(r, ResultTask(m, "failed")) BY DEF RetagTimesOut
<1> HIDE DEF r
<1>6. r \in Seq(Tasks) /\ DOMAIN r = DOMAIN mailbox BY <1>1, <1>2, <1>3, RewrittenTasks
<1>7. Len(r) = Len(mailbox) /\ DOMAIN mailbox = 1 .. Len(mailbox) /\ Len(mailbox) \in Nat
  BY <1>1, <1>6
<1>8. ResultTask(m, "failed") \in Tasks BY TaskTypes
<1> QED BY <1>4, <1>5, <1>6, <1>7, <1>8, PostedTask

\* The task the main thread takes.
LEMMA TakenTypes ==
  ASSUME TypeOK, mailbox # <<>>
  PROVE  /\ Others \in Seq(Tasks) /\ NextTask \in Tasks /\ NextTask.model \in Models
         /\ NextTask.kind = "render" => NextTask.view \in Views
         /\ 1 \in DOMAIN mailbox /\ NextTask = mailbox[1]
         /\ \A i \in DOMAIN Others :
               i \in Nat /\ i + 1 \in DOMAIN mailbox /\ i + 1 > 1 /\ Others[i] = mailbox[i + 1]
<1>1. mailbox \in Seq(Tasks) BY DEF TypeOK
<1>2. NextTask \in Tasks BY <1>1, TakenTask DEF NextTask
<1>3. NextTask.model \in Models /\ (NextTask.kind = "render" => NextTask.view \in Views)
  BY <1>2 DEF Tasks
<1> QED BY <1>1, <1>2, <1>3, TakenTask DEF NextTask, Others

LEMMA OtherTypes ==
  ASSUME TypeOK, Thread \/ Render \/ User \/ Joined \/ Restart \/ Crash PROVE TypeOK'
<1> USE ViewFacts, ModelFacts DEF TypeOK, Goto, loop, rows, bounds, worker
<1>1. ASSUME NEW m \in Models, RetagAsks(m) PROVE TypeOK'
  <2>1. PICK v \in Views : mailbox' = Append(mailbox, RenderTask(m, v, "retag"))
    BY <1>1 DEF RetagAsks
  <2>2. mailbox' \in Seq(Tasks) BY <2>1, TaskTypes, PostedTask
  <2> QED BY <1>1, <2>2 DEF RetagAsks
<1>2. ASSUME NEW m \in Models, RetagAnswers(m) PROVE TypeOK'
  <2>1. mailbox' \in Seq(Tasks) BY <1>2, TaskTypes, PostedTask DEF RetagAnswers
  <2> QED BY <1>2, <2>1 DEF RetagAnswers
<1>3. ASSUME NEW m \in Models, RetagTimesOut(m) PROVE TypeOK'
  <2>1. mailbox' \in Seq(Tasks) BY <1>3, RetagUnawaited
  <2>2. /\ retag' = [retag EXCEPT ![m] = "answered"]
        /\ UNCHANGED <<rows, stop, worker, mainPc, bounds>>
    BY <1>3 DEF RetagTimesOut
  <2> QED BY <2>1, <2>2
<1>4. CASE RunRender
  <2> USE TakenTypes
  <2>1. picture' \in [Models -> Views \cup {"none"}] /\ rendered' \in {"none", "yes", "no"}
    BY <1>4 DEF RunRender
  <2>2. retag' \in [Models -> {"none", "asking", "waiting", "answered"}]
    BY <1>4 DEF RunRender
  <2>3. mailbox' \in Seq(Tasks) BY <1>4 DEF RunRender
  <2> QED BY <1>4, <2>1, <2>2, <2>3 DEF RunRender
<1>5. CASE RunResult
  <2> USE TakenTypes
  <2>1. status' \in [Models -> 0 .. 4] BY <1>5 DEF RunResult
  <2>2. parts' \in [Models -> SUBSET AllParts] BY <1>5 DEF RunResult
  <2>3. retag' \in [Models -> {"none", "asking", "waiting", "answered"}]
    BY <1>5 DEF RunResult
  <2> QED BY <1>5, <2>1, <2>2, <2>3 DEF RunResult
<1>6. ASSUME NEW m \in Models, Retag(m) PROVE TypeOK' BY <1>6 DEF Retag
<1>7. ASSUME NEW m \in Models, ShowImported(m) PROVE TypeOK' BY <1>7 DEF ShowImported
<1>8. CASE Start BY <1>8 DEF Start
<1>9. CASE Stop BY <1>9 DEF Stop
<1>10. CASE Shutdown BY <1>10 DEF Shutdown
<1>11. CASE Joined BY <1>11 DEF Joined
<1>12. ASSUME Boot, events' \in Nat, crashes' \in Nat, torn' \subseteq Models PROVE TypeOK'
  <2>1. mailbox' \in Seq(Tasks) BY <1>12 DEF Boot
  <2>2. retag' \in [Models -> {"none", "asking", "waiting", "answered"}] BY <1>12 DEF Boot
  <2>3. active' \in BOOLEAN /\ stop' \in BOOLEAN /\ rotated' \in BOOLEAN
        /\ (active' <=> pc' # "off")
    BY <1>12, Zenon DEF Boot
  <2>4. original' \in 0 .. 4 /\ perps' \in Nat /\ attempt' \in Nat BY <1>12 DEF Boot
  <2> QED BY <1>12, <2>1, <2>2, <2>3, <2>4 DEF Boot
<1>13. CASE Restart BY <1>12, <1>13 DEF Restart
<1>14. CASE Crash BY <1>12, <1>14 DEF Crash, Saving
<1> QED
  BY <1>1, <1>2, <1>3, <1>4, <1>5, <1>6, <1>7, <1>8, <1>9, <1>10, <1>11, <1>13, <1>14
     DEF Thread, Render, User

LEMMA TypeNext == ASSUME TypeOK, [Next]_vars PROVE TypeOK'
<1>1. CASE Tagger BY <1>1, LoopTypes, PostTypes DEF Tagger
<1>2. CASE UNCHANGED vars
  BY <1>2 DEF TypeOK, vars, rows, worker, loop, bounds
<1> QED BY <1>1, <1>2, OtherTypes DEF Next

\* The variables keep their types, and the thread has a model in hand exactly
\* between taking it and putting it down.
THEOREM TaggerTypes == Spec => []TypeOK
BY TypeInit, TypeNext, PTL DEF Spec
-----------------------------------------------------------------------------
(* The count of attempts.  A question about a side view is paid for by      *)
(* MaxRetries, one about the isometric view is asked once, and a rotation   *)
(* may add one of either.                                                   *)

Rotations == IF rotated THEN 1 ELSE 0
Isometrics == attempt - perps

LoopInv ==
  /\ pc \in {"attempt", "asking", "waiting"} =>
       perps <= attempt /\ ("isometric" \notin tried => attempt = perps)
  /\ pc = "asking" => Isometrics <= 1 + Rotations /\ perps <= MaxRetries + Rotations
  /\ pc \in {"attempt", "waiting"} =>
       /\ attempt < MaxRetries + 2
       /\ view \in SideViews =>
            perps + 1 <= MaxRetries + Rotations /\ Isometrics <= 1 + Rotations
       /\ view = "isometric" =>
            perps <= MaxRetries + Rotations /\ Isometrics + 1 <= 1 + Rotations

\* A step that leaves the loop, or does not touch it.
LEMMA LoopKept ==
  ASSUME LoopInv, \/ pc' \notin {"attempt", "asking", "waiting"}
                  \/ UNCHANGED <<pc, loop>>
  PROVE  LoopInv'
BY DEF LoopInv, loop, Rotations, Isometrics

LEMMA LoopNext == ASSUME TypeOK, LoopInv, [Next]_vars PROVE LoopInv'
<1> USE ViewFacts, TaggerAssumption DEF TaggerAssumption, Goto
<1>1. /\ perps \in Nat /\ attempt \in Nat /\ rotated \in BOOLEAN /\ view \in Views
      /\ tried \subseteq Views /\ Rotations \in 0 .. 1
  BY DEF TypeOK, Rotations
<1>2. CASE Recover \/ FindNext \/ NothingLeft \/ Mark \/ GiveBack \/ Reject
             \/ SaveDescriptor \/ SaveTags \/ SaveCategories \/ SaveStatus
  BY <1>2, LoopKept DEF Recover, FindNext, NothingLeft, Mark, GiveBack, Reject,
     SaveDescriptor, SaveTags, SaveCategories, SaveStatus, Save
<1>3. CASE StopAttempt \/ AnswerFails \/ ViewFails \/ TimeOut
  BY <1>3, LoopKept DEF StopAttempt, AnswerFails, ViewFails, TimeOut, Settle
<1>4. CASE Begin
  <2>1. /\ pc' = "attempt" /\ view' \in SideViews /\ perps' = 0 /\ attempt' = 0
        /\ rotated' = FALSE
    BY <1>4 DEF Begin
  <2>2. Rotations' = 0 BY <2>1 DEF Rotations
  <2> QED BY <2>1, <2>2 DEF LoopInv, Isometrics
<1>5. CASE Ask
  <2>1. /\ pc = "attempt" /\ pc' = "asking" /\ tried' = tried \cup {view}
        /\ attempt' = attempt + 1 /\ rotated' = rotated
        /\ perps' = IF view \in SideViews THEN perps + 1 ELSE perps
    BY <1>5 DEF Ask
  <2>2. Rotations' = Rotations BY <2>1 DEF Rotations
  <2>3. CASE view \in SideViews BY <1>1, <2>1, <2>2, <2>3 DEF LoopInv, Isometrics
  <2>4. CASE view = "isometric" BY <1>1, <2>1, <2>2, <2>4 DEF LoopInv, Isometrics
  <2> QED BY <1>1, <2>3, <2>4
<1>6. CASE Rotate
  <2>1. PICK v \in Views : AskForView(v) BY <1>1, <1>6 DEF Rotate
  <2>2. /\ pc = "asking" /\ pc' = "waiting" /\ ~rotated /\ rotated' = TRUE
        /\ view' = v /\ UNCHANGED <<tried, perps, attempt>>
    BY <1>6, <2>1 DEF Rotate, AskForView
  <2>3. Rotations = 0 /\ Rotations' = 1 BY <2>2 DEF Rotations
  <2> QED BY <1>1, <2>2, <2>3 DEF LoopInv, Isometrics
<1>7. CASE Decide
  <2>1. PICK a \in Answers :
          LET d == DecideNextStep(a, tried, perps) IN
          IF d.action \in {"accept", "unclassifiable"}
          THEN Settle(d.action) /\ UNCHANGED mailbox
          ELSE AskForView(d.next) /\ UNCHANGED <<tried, perps, attempt, rotated, outcome>>
    BY <1>7 DEF Decide
  <2>2. CASE DecideNextStep(a, tried, perps).action \in {"accept", "unclassifiable"}
    BY <2>1, <2>2, LoopKept DEF Settle
  <2>3. CASE DecideNextStep(a, tried, perps).action \notin {"accept", "unclassifiable"}
    <3>1. /\ pc = "asking" /\ pc' = "waiting" /\ UNCHANGED <<tried, perps, attempt, rotated>>
          /\ view' = DecideNextStep(a, tried, perps).next
      BY <1>7, <2>1, <2>3 DEF Decide, AskForView
    <3>2. \/ view' \in SideViews /\ perps < MaxRetries
          \/ view' = "isometric" /\ "isometric" \notin tried
      BY <1>1, <2>3, <3>1, NextView
    <3>3. Rotations' = Rotations BY <3>1 DEF Rotations
    <3> QED BY <1>1, <3>1, <3>2, <3>3 DEF LoopInv, Isometrics
  <2> QED BY <2>2, <2>3
<1>8. CASE ViewThere
  BY <1>8 DEF ViewThere, LoopInv, loop, Rotations, Isometrics
<1>9. CASE Thread \/ Render \/ Joined
  BY <1>9, LoopKept DEF Thread, Render, Joined, RetagAsks, RetagAnswers, RetagTimesOut,
     RunRender, RunResult, worker
<1>10. CASE User \/ Restart \/ Crash
  BY <1>10, LoopKept DEF User, Start, Stop, Shutdown, Retag, ShowImported, Restart, Crash,
     Boot, worker
<1>11. CASE UNCHANGED vars BY <1>11, LoopKept DEF vars, worker
<1> QED
  BY <1>2, <1>3, <1>4, <1>5, <1>6, <1>7, <1>8, <1>9, <1>10, <1>11 DEF Next, Tagger

\* An attempt always decides before it runs out of questions, for any number
\* of retries: kMaxPerpendicularRetries + 2 is enough also with a rotation.
THEOREM AttemptsSuffice == Spec => []NeverCutOff
<1>1. Init => LoopInv BY DEF Init, Idle, LoopInv
<1>2. LoopInv => NeverCutOff BY DEF LoopInv, NeverCutOff
<1> QED BY <1>1, <1>2, LoopNext, TaggerTypes, PTL DEF Spec
-----------------------------------------------------------------------------
(* Marks.  Once the thread has recovered the marks of earlier processes, the *)
(* model in hand is the only one that may carry one, and its earlier status *)
(* was no mark.                                                             *)

MarkInv ==
  /\ pc \notin {"off", "recovering"} => \A m \in Models : status[m] = 1 => m = hand
  /\ pc \notin {"off", "recovering", "next"} => original \in Candidate
  /\ mainPc = "off" => ~active

\* The steps that write no status but the one in hand and keep it there.
LEMMA MarkKept ==
  ASSUME TypeOK, MarkInv, UNCHANGED <<hand, original>>, mainPc' = mainPc,
         pc \notin {"off", "recovering", "next"}, pc' # "off", active' = active,
         \A m \in Models : m # hand => status'[m] = status[m]
  PROVE  MarkInv'
BY DEF MarkInv

\* The steps of others, which mark nothing.
LEMMA MarksOfOthers ==
  ASSUME TypeOK, MarkInv, UNCHANGED <<pc, hand, original, active>>,
         mainPc' = "off" => ~active,
         \A m \in Models : status'[m] = status[m] \/ status'[m] # 1
  PROVE  MarkInv'
BY DEF MarkInv

LEMMA MarkNext == ASSUME TypeOK, MarkInv, [Next]_vars PROVE MarkInv'
<1> USE ModelFacts DEF Goto
<1>1. /\ status \in [Models -> 0 .. 4] /\ parts \in [Models -> SUBSET AllParts]
      /\ hand \in Models \cup {0} /\ (hand # 0 <=> pc \notin {"off", "recovering", "next"})
  BY DEF TypeOK
<1>2. CASE Recover
  BY <1>1, <1>2 DEF MarkInv, Recover, Recovered
<1>3. CASE FindNext BY <1>1, <1>3 DEF MarkInv, FindNext, Candidates, rows, Candidate
<1>4. CASE NothingLeft
  <2>1. pc' = "off" /\ UNCHANGED <<status, hand>> /\ active' = FALSE
    BY <1>4 DEF NothingLeft, rows
  <2> QED BY <2>1, Zenon DEF MarkInv
<1>5. CASE GiveBack
  <2>1. pc' = "off" /\ active' = FALSE BY <1>5 DEF GiveBack
  <2> QED BY <2>1, Zenon DEF MarkInv
<1>6. CASE Mark BY <1>1, <1>6, MarkKept DEF Mark, SetStatus
<1>7. CASE Begin BY <1>7, MarkKept DEF Begin, rows
<1>8. CASE StopAttempt \/ Ask \/ AnswerFails \/ ViewThere \/ ViewFails \/ TimeOut \/ Rotate
  BY <1>8, MarkKept DEF StopAttempt, Ask, AnswerFails, ViewThere, ViewFails, TimeOut,
     Rotate, AskForView, Settle, rows
<1>9. CASE Decide
  <2>1. /\ UNCHANGED <<rows, active, hand, original, mainPc>> /\ pc = "asking"
        /\ pc' \in {"result", "waiting"}
    BY <1>9 DEF Decide, AskForView, Settle
  <2> QED BY <2>1, MarkKept DEF rows
<1>10. CASE SaveDescriptor \/ SaveTags \/ SaveCategories
  BY <1>10, MarkKept DEF SaveDescriptor, SaveTags, SaveCategories, Save
<1>11. CASE Reject \/ SaveStatus
  <2>1. PICK s \in 2 .. 4 : status' = [status EXCEPT ![hand] = s]
    BY <1>11 DEF Reject, SaveStatus, SetStatus
  <2>2. pc' = "next" /\ pc \in {"result", "saveStatus"} /\ UNCHANGED <<active, mainPc>>
    BY <1>11 DEF Reject, SaveStatus
  <2> QED BY <1>1, <2>1, <2>2 DEF MarkInv
<1>12. CASE Thread
  BY <1>12, MarksOfOthers DEF Thread, RetagAsks, RetagAnswers, RetagTimesOut, rows, worker,
     MarkInv
<1>13. CASE RunRender
  BY <1>13, MarksOfOthers DEF RunRender, MarkInv
<1>14. CASE RunResult
  <2>1. \A m \in Models : status'[m] = status[m] \/ status'[m] # 1
    BY <1>1, <1>14 DEF RunResult
  <2> QED BY <1>14, <2>1, MarksOfOthers DEF RunResult, worker, MarkInv
<1>15. ASSUME NEW m \in Models, Retag(m) PROVE MarkInv'
  <2>1. \A n \in Models : status'[n] = status[n] \/ status'[n] # 1
    BY <1>1, <1>15 DEF Retag
  <2> QED BY <1>15, <2>1, MarksOfOthers DEF Retag, worker, MarkInv
<1>16. ASSUME NEW m \in Models, ShowImported(m) PROVE MarkInv'
  BY <1>16, MarksOfOthers DEF ShowImported, worker, MarkInv
<1>17. CASE Stop \/ Shutdown \/ Joined
  BY <1>17, MarksOfOthers DEF Stop, Shutdown, Joined, worker, rows, MarkInv
<1>18. CASE Start
  BY <1>18 DEF Start, MarkInv
<1>19. CASE Restart \/ Crash
  <2>1. pc' = "off" /\ mainPc' = "events" BY <1>19 DEF Restart, Crash, Boot
  <2> QED BY <2>1 DEF MarkInv
<1>20. CASE UNCHANGED vars
  BY <1>20, MarksOfOthers DEF vars, worker, rows, MarkInv
<1> QED
  BY <1>2, <1>3, <1>4, <1>5, <1>6, <1>7, <1>8, <1>9, <1>10, <1>11, <1>12, <1>13, <1>14,
     <1>15, <1>16, <1>17, <1>18, <1>19, <1>20 DEF Next, Tagger, Render, User

LEMMA MarksInvariant == Spec => []MarkInv
<1>1. Init => MarkInv BY Zenon DEF Init, Idle, MarkInv
<1> QED BY <1>1, MarkNext, TaggerTypes, PTL DEF Spec

\* A tagger that ends of itself, because nothing is left or because it was
\* stopped, has marked no model for good, and has undone the marks it found.
LEMMA EndsUnmarked ==
  ASSUME TypeOK, MarkInv, [Next]_vars, active, ~active', crashes' = crashes
  PROVE  \A m \in Models : status'[m] # 1
<1>1. /\ status \in [Models -> 0 .. 4] /\ hand \in Models \cup {0} /\ crashes \in Nat
      /\ (hand # 0 <=> pc \notin {"off", "recovering", "next"})
  BY DEF TypeOK
<1>2. NothingLeft \/ GiveBack
  <2>1. ~Crash BY <1>1 DEF Crash
  <2>2. ~Restart BY DEF Restart, MarkInv
  <2>3. ~(Thread \/ Joined)
    BY DEF Thread, Joined, RetagAsks, RetagAnswers, RetagTimesOut, worker
  <2>4. ~Render BY DEF Render, RunRender, RunResult, worker
  <2>5. ~User BY DEF User, Retag, ShowImported, Start, Stop, Shutdown, worker
  <2>6. ~UNCHANGED vars BY DEF vars, worker
  <2>7. CASE Tagger
    <3>1. ~(Recover \/ FindNext \/ Mark \/ Begin \/ StopAttempt \/ Ask \/ AnswerFails)
      BY DEF Recover, FindNext, Mark, Begin, StopAttempt, Ask, AnswerFails
    <3>2. ~(Rotate \/ Decide \/ ViewThere \/ ViewFails \/ TimeOut)
      BY DEF Rotate, Decide, ViewThere, ViewFails, TimeOut
    <3>3. ~(Reject \/ SaveDescriptor \/ SaveTags \/ SaveCategories \/ SaveStatus)
      BY DEF Reject, SaveDescriptor, SaveTags, SaveCategories, SaveStatus, Save
    <3> QED BY <2>7, <3>1, <3>2, <3>3 DEF Tagger
  <2> QED BY <2>1, <2>2, <2>3, <2>4, <2>5, <2>6, <2>7 DEF Next
<1>3. CASE NothingLeft
  <2>1. UNCHANGED status /\ pc = "next" BY <1>3 DEF NothingLeft, rows
  <2> QED BY <1>1, <2>1, ModelFacts DEF MarkInv
<1>4. CASE GiveBack
  <2>1. status' = [status EXCEPT ![hand] = original] /\ pc \in {"marked", "result"}
    BY <1>4 DEF GiveBack, Restore, SetStatus
  <2>2. original \in Candidate /\ \A m \in Models : status[m] = 1 => m = hand
    BY <2>1 DEF MarkInv
  <2> QED BY <1>1, <2>1, <2>2 DEF Candidate
<1> QED BY <1>2, <1>3, <1>4

THEOREM NoMarkLeft == Spec => NothingLeftMarked
<1>1. TypeOK /\ MarkInv /\ [Next]_vars
        => [(active /\ ~active' /\ crashes' = crashes)
              => \A m \in Models : status'[m] # 1]_vars
  BY EndsUnmarked
<1> QED BY <1>1, TaggerTypes, MarksInvariant, PTL DEF Spec, NothingLeftMarked
-----------------------------------------------------------------------------
(* The tasks of the retag threads.  Each thread has at most one task in the *)
(* queue that it still has to do with: the render it waits for, or its      *)
(* result.                                                                  *)

OfRetag(t) == t.kind = "result" \/ (t.kind = "render" /\ t.who = "retag")

RetagAccount ==
  \A i \in DOMAIN mailbox : OfRetag(mailbox[i]) =>
    /\ retag[mailbox[i].model] =
         IF mailbox[i].kind = "result" THEN "answered" ELSE "waiting"
    /\ \A j \in DOMAIN mailbox :
         OfRetag(mailbox[j]) /\ mailbox[j].model = mailbox[i].model => i = j

\* What a task is, and what is left of it once nobody waits for it.
LEMMA TaskFacts ==
  /\ \A m, v, who : /\ RenderTask(m, v, who).kind = "render" /\ RenderTask(m, v, who).model = m
                    /\ RenderTask(m, v, who).view = v /\ RenderTask(m, v, who).who = who
  /\ \A m, o : /\ ResultTask(m, o).kind = "result" /\ ResultTask(m, o).model = m
               /\ ResultTask(m, o).outcome = o
  /\ \A m, v, who : OfRetag(RenderTask(m, v, who)) <=> who = "retag"
  /\ \A m, o : OfRetag(ResultTask(m, o))
BY DEF RenderTask, ResultTask, OfRetag

\* Whoever posts a task that is no thread's leaves the account as it is.
LEMMA AccountOfRender ==
  ASSUME TypeOK, RetagAccount, NEW m \in Models, NEW v \in Views,
         mailbox' = Append(mailbox, RenderTask(m, v, "tagger")), retag' = retag
  PROVE  RetagAccount'
<1>1. mailbox \in Seq(Tasks) /\ RenderTask(m, v, "tagger") \in Tasks
  BY TaskTypes DEF TypeOK
<1>2. ~OfRetag(RenderTask(m, v, "tagger")) BY TaskFacts
<1> HIDE DEF OfRetag
<1> QED BY <1>1, <1>2, PostedTask DEF RetagAccount

\* A thread that asks or answers had no task before.
LEMMA AccountOfThread ==
  ASSUME TypeOK, RetagAccount, NEW m \in Models, retag[m] = "asking",
         NEW t \in Tasks, OfRetag(t), t.model = m,
         mailbox' = Append(mailbox, t),
         retag' = [retag EXCEPT ![m] = IF t.kind = "result" THEN "answered" ELSE "waiting"]
  PROVE  RetagAccount'
<1>1. mailbox \in Seq(Tasks) /\ \A i \in DOMAIN mailbox : mailbox[i].model \in Models
  BY DEF TypeOK, Tasks
<1>2. retag \in [Models -> {"none", "asking", "waiting", "answered"}] BY DEF TypeOK
<1>3. \A i \in DOMAIN mailbox : OfRetag(mailbox[i]) => mailbox[i].model # m
  BY DEF RetagAccount
<1>4. /\ DOMAIN mailbox' = DOMAIN mailbox \cup {Len(mailbox) + 1}
      /\ \A i \in DOMAIN mailbox : mailbox'[i] = mailbox[i]
      /\ mailbox'[Len(mailbox) + 1] = t
  BY <1>1, PostedTask
<1> HIDE DEF OfRetag
<1>5. ASSUME NEW i \in DOMAIN mailbox', OfRetag(mailbox'[i])
      PROVE  /\ retag'[mailbox'[i].model] =
                  IF mailbox'[i].kind = "result" THEN "answered" ELSE "waiting"
             /\ \A j \in DOMAIN mailbox' :
                  OfRetag(mailbox'[j]) /\ mailbox'[j].model = mailbox'[i].model => i = j
  <2>1. CASE i \in DOMAIN mailbox
    <3>1. /\ mailbox'[i] = mailbox[i] /\ mailbox[i].model # m /\ mailbox[i].model \in Models
          /\ retag[mailbox[i].model] =
               IF mailbox[i].kind = "result" THEN "answered" ELSE "waiting"
      BY <1>1, <1>3, <1>4, <1>5, <2>1 DEF RetagAccount
    <3> QED BY <1>2, <1>4, <1>5, <2>1, <3>1 DEF RetagAccount
  <2>2. CASE i = Len(mailbox) + 1
    <3>1. mailbox'[i] = t BY <1>4, <2>2
    <3> QED BY <1>2, <1>3, <1>4, <2>2, <3>1
  <2> QED BY <1>4, <1>5, <2>1, <2>2
<1> QED BY <1>5 DEF RetagAccount

LEMMA AccountTimesOut ==
  ASSUME TypeOK, RetagAccount, NEW m \in Models, RetagTimesOut(m) PROVE RetagAccount'
<1>1. /\ mailbox \in Seq(Tasks) /\ \A i \in DOMAIN mailbox : mailbox[i].model \in Models
      /\ retag \in [Models -> {"none", "asking", "waiting", "answered"}]
  BY DEF TypeOK, Tasks
<1>2. retag[m] = "waiting" /\ retag' = [retag EXCEPT ![m] = "answered"]
  BY DEF RetagTimesOut
<1>3. ASSUME NEW i \in DOMAIN mailbox
      PROVE  /\ OfRetag(mailbox'[i]) => OfRetag(mailbox[i]) /\ mailbox'[i] = mailbox[i]
             /\ OfRetag(mailbox'[i]) => mailbox[i].model # m
  <2>1. OfRetag(mailbox[i]) /\ mailbox[i].model = m => mailbox[i].kind = "render"
    BY <1>2 DEF RetagAccount, OfRetag
  <2>2. OfRetag(mailbox[i]) /\ mailbox[i].kind = "render" => mailbox[i].who = "retag"
    BY DEF OfRetag
  <2>3. ~OfRetag(RenderTask(m, mailbox[i].view, "nobody")) BY TaskFacts
  <2> HIDE DEF OfRetag
  <2> QED BY <2>1, <2>2, <2>3, RetagUnawaited
<1>4. /\ DOMAIN mailbox' = DOMAIN mailbox \cup {Len(mailbox) + 1}
      /\ mailbox'[Len(mailbox) + 1] = ResultTask(m, "failed")
  BY RetagUnawaited
<1>5. ResultTask(m, "failed").kind = "result" /\ ResultTask(m, "failed").model = m
  BY TaskFacts
<1> HIDE DEF OfRetag
<1>6. ASSUME NEW i \in DOMAIN mailbox', OfRetag(mailbox'[i])
      PROVE  /\ retag'[mailbox'[i].model] =
                  IF mailbox'[i].kind = "result" THEN "answered" ELSE "waiting"
             /\ \A j \in DOMAIN mailbox' :
                  OfRetag(mailbox'[j]) /\ mailbox'[j].model = mailbox'[i].model => i = j
  <2>1. CASE i \in DOMAIN mailbox
    <3>1. /\ mailbox'[i] = mailbox[i] /\ mailbox[i].model # m /\ mailbox[i].model \in Models
          /\ retag[mailbox[i].model] =
               IF mailbox[i].kind = "result" THEN "answered" ELSE "waiting"
      BY <1>1, <1>3, <1>6, <2>1 DEF RetagAccount
    <3>2. ASSUME NEW j \in DOMAIN mailbox',
                 OfRetag(mailbox'[j]), mailbox'[j].model = mailbox'[i].model
          PROVE  i = j
      BY <1>3, <1>4, <1>5, <1>6, <2>1, <3>1, <3>2 DEF RetagAccount
    <3> QED BY <1>1, <1>2, <3>1, <3>2
  <2>2. CASE i = Len(mailbox) + 1
    <3>1. mailbox'[i] = ResultTask(m, "failed") BY <1>4, <2>2
    <3> QED BY <1>1, <1>2, <1>3, <1>4, <1>5, <2>2, <3>1
  <2> QED BY <1>4, <1>6, <2>1, <2>2
<1> QED BY <1>6 DEF RetagAccount

\* The task the main thread takes was its thread's only one.
LEMMA AccountTaken ==
  ASSUME TypeOK, RetagAccount, mailbox # <<>>, mailbox' = Others,
         NEW s \in {"none", "asking"},
         retag' = IF OfRetag(NextTask) THEN [retag EXCEPT ![NextTask.model] = s] ELSE retag
  PROVE  RetagAccount'
<1>1. /\ mailbox \in Seq(Tasks) /\ \A i \in DOMAIN mailbox : mailbox[i].model \in Models
      /\ retag \in [Models -> {"none", "asking", "waiting", "answered"}]
  BY DEF TypeOK, Tasks
<1>2. /\ 1 \in DOMAIN mailbox /\ NextTask = mailbox[1] /\ NextTask.model \in Models
      /\ \A i \in DOMAIN mailbox' :
            i \in Nat /\ i + 1 \in DOMAIN mailbox /\ i + 1 > 1 /\ mailbox'[i] = mailbox[i + 1]
  BY TakenTypes
<1> HIDE DEF OfRetag
<1>3. ASSUME NEW i \in DOMAIN mailbox', OfRetag(mailbox'[i])
      PROVE  /\ retag'[mailbox'[i].model] =
                  IF mailbox'[i].kind = "result" THEN "answered" ELSE "waiting"
             /\ \A j \in DOMAIN mailbox' :
                  OfRetag(mailbox'[j]) /\ mailbox'[j].model = mailbox'[i].model => i = j
  <2>1. /\ i \in Nat /\ i + 1 \in DOMAIN mailbox /\ i + 1 # 1 /\ mailbox'[i] = mailbox[i + 1]
        /\ mailbox[i + 1].model \in Models
    BY <1>1, <1>2
  <2>2. OfRetag(NextTask) => NextTask.model # mailbox[i + 1].model
    BY <1>2, <1>3, <2>1 DEF RetagAccount
  <2>3. retag[mailbox[i + 1].model] =
          IF mailbox[i + 1].kind = "result" THEN "answered" ELSE "waiting"
    BY <1>3, <2>1 DEF RetagAccount
  <2>4. ASSUME NEW j \in DOMAIN mailbox',
               OfRetag(mailbox'[j]), mailbox'[j].model = mailbox'[i].model
        PROVE  i = j
    <3>1. j \in Nat /\ j + 1 \in DOMAIN mailbox /\ mailbox'[j] = mailbox[j + 1] BY <1>2
    <3>2. i + 1 = j + 1 BY <1>3, <2>1, <2>4, <3>1 DEF RetagAccount
    <3> QED BY <2>1, <3>1, <3>2
  <2> QED BY <1>1, <2>1, <2>2, <2>3, <2>4
<1> QED BY <1>3 DEF RetagAccount

LEMMA AccountNext == ASSUME TypeOK, RetagAccount, [Next]_vars PROVE RetagAccount'
<1>0. mailbox \in Seq(Tasks) BY DEF TypeOK
<1>1. CASE UNCHANGED <<mailbox, retag>> BY <1>1 DEF RetagAccount
<1>2. CASE Recover \/ FindNext \/ NothingLeft \/ Mark \/ GiveBack \/ Begin \/ StopAttempt \/ Ask
             \/ AnswerFails \/ ViewThere \/ ViewFails \/ Reject \/ SaveDescriptor \/ SaveTags
             \/ SaveCategories \/ SaveStatus
  BY <1>1, <1>2 DEF Recover, FindNext, NothingLeft, Mark, GiveBack, Begin, StopAttempt, Ask,
     AnswerFails, ViewThere, ViewFails, Reject, SaveDescriptor, SaveTags, SaveCategories,
     SaveStatus, Save
<1>3. CASE Rotate
  <2>1. PICK v \in Views : AskForView(v) BY <1>3, ViewFacts DEF Rotate, TypeOK
  <2> QED BY <1>3, <2>1, ViewPosted, AccountOfRender DEF Rotate
<1>4. CASE Decide
  <2>1. PICK a \in Answers :
          LET d == DecideNextStep(a, tried, perps) IN
          IF d.action \in {"accept", "unclassifiable"}
          THEN Settle(d.action) /\ UNCHANGED mailbox
          ELSE AskForView(d.next) /\ UNCHANGED <<tried, perps, attempt, rotated, outcome>>
    BY <1>4 DEF Decide
  <2>2. CASE DecideNextStep(a, tried, perps).action \in {"accept", "unclassifiable"}
    BY <1>1, <1>4, <2>1, <2>2 DEF Decide
  <2>3. CASE DecideNextStep(a, tried, perps).action \notin {"accept", "unclassifiable"}
    <3>1. DecideNextStep(a, tried, perps).next \in Views
      BY <2>3, NextView, ViewFacts DEF TypeOK
    <3> QED BY <1>4, <2>1, <2>3, <3>1, ViewPosted, AccountOfRender DEF Decide
  <2> QED BY <2>2, <2>3
<1>5. CASE TimeOut
  <2>1. \A i \in DOMAIN mailbox :
           OfRetag(mailbox'[i]) => OfRetag(mailbox[i]) /\ mailbox'[i] = mailbox[i]
    BY <1>5, Unawaited, TaskFacts
  <2>2. DOMAIN mailbox' = DOMAIN mailbox /\ retag' = retag BY <1>5, Unawaited DEF TimeOut
  <2> HIDE DEF OfRetag
  <2> QED BY <2>1, <2>2 DEF RetagAccount
<1>6. ASSUME NEW m \in Models, RetagAsks(m) PROVE RetagAccount'
  <2>1. PICK v \in Views : mailbox' = Append(mailbox, RenderTask(m, v, "retag"))
    BY <1>6, ViewFacts DEF RetagAsks
  <2>2. retag[m] = "asking" /\ retag' = [retag EXCEPT ![m] = "waiting"]
    BY <1>6 DEF RetagAsks
  <2> DEFINE t == RenderTask(m, v, "retag")
  <2>3. t \in Tasks /\ OfRetag(t) /\ t.model = m /\ t.kind = "render"
    BY TaskFacts, TaskTypes
  <2> HIDE DEF t, OfRetag
  <2> QED BY <2>1, <2>2, <2>3, AccountOfThread DEF t
<1>7. ASSUME NEW m \in Models, RetagAnswers(m) PROVE RetagAccount'
  <2>1. PICK o \in {"accept", "unclassifiable", "failed"} :
          mailbox' = Append(mailbox, ResultTask(m, o))
    BY <1>7 DEF RetagAnswers
  <2>2. retag[m] = "asking" /\ retag' = [retag EXCEPT ![m] = "answered"]
    BY <1>7 DEF RetagAnswers
  <2> DEFINE t == ResultTask(m, o)
  <2>3. t \in Tasks /\ OfRetag(t) /\ t.model = m /\ t.kind = "result"
    BY TaskFacts, TaskTypes
  <2> HIDE DEF t, OfRetag
  <2> QED BY <2>1, <2>2, <2>3, AccountOfThread DEF t
<1>8. ASSUME NEW m \in Models, RetagTimesOut(m) PROVE RetagAccount'
  BY <1>8, AccountTimesOut
<1>9. CASE RunRender
  <2>1. OfRetag(NextTask) <=> NextTask.who = "retag" BY <1>9 DEF RunRender, OfRetag
  <2> HIDE DEF OfRetag
  <2> QED BY <1>9, <2>1, AccountTaken DEF RunRender
<1>10. CASE RunResult
  <2>1. OfRetag(NextTask) BY <1>10 DEF RunResult, OfRetag
  <2> HIDE DEF OfRetag
  <2> QED BY <1>10, <2>1, AccountTaken DEF RunResult
<1>11. ASSUME NEW m \in Models, Retag(m) PROVE RetagAccount'
  <2>1. /\ retag \in [Models -> {"none", "asking", "waiting", "answered"}]
        /\ \A i \in DOMAIN mailbox : mailbox[i].model \in Models
    BY DEF TypeOK, Tasks
  <2>2. retag[m] = "none" /\ retag' = [retag EXCEPT ![m] = "asking"] /\ mailbox' = mailbox
    BY <1>11 DEF Retag
  <2> HIDE DEF OfRetag
  <2> QED BY <2>1, <2>2 DEF RetagAccount
<1>12. ASSUME NEW m \in Models, ShowImported(m) PROVE RetagAccount'
  BY <1>1, <1>12 DEF ShowImported
<1>13. CASE Start \/ Stop \/ Shutdown \/ Joined
  BY <1>1, <1>13 DEF Start, Stop, Shutdown, Joined
<1>14. CASE Restart \/ Crash
  <2>1. mailbox' = <<>> BY <1>14 DEF Restart, Crash, Boot
  <2> QED BY <2>1 DEF RetagAccount
<1>15. CASE UNCHANGED vars BY <1>1, <1>15 DEF vars
<1> QED
  BY <1>2, <1>3, <1>4, <1>5, <1>6, <1>7, <1>8, <1>9, <1>10, <1>11, <1>12, <1>13, <1>14,
     <1>15 DEF Next, Tagger, Thread, Render, User

LEMMA AccountInvariant == Spec => []RetagAccount
<1>1. Init => RetagAccount BY DEF Init, Idle, RetagAccount
<1> QED BY <1>1, AccountNext, TaggerTypes, PTL DEF Spec
-----------------------------------------------------------------------------
(* Rows.  What is saved of a model is nothing or everything, unless a crash *)
(* tore the saving or the thread is at it; while it is, the model is marked *)
(* and what the statements so far have saved is there.                      *)

Working == pc \notin {"off", "recovering", "next", "found"}

SavedSoFar ==
  /\ Working => status[hand] = 1
  /\ pc = "saveTags" => "descriptor" \in parts[hand]
  /\ pc = "saveCategories" => {"descriptor", "tags"} \subseteq parts[hand]
  /\ pc = "saveStatus" => parts[hand] = AllParts

Whole(m) ==
  /\ status[m] = 2 => "descriptor" \in parts[m]
  /\ \/ parts[m] \in {{}, AllParts} \/ m \in torn
     \/ m = hand /\ pc \in Saving

RowsInv == SavedSoFar /\ \A m \in Models : Whole(m)

\* The steps of the thread that write no row.
LEMMA RowsKept ==
  ASSUME RowsInv, UNCHANGED <<status, parts, torn>>, pc \notin Saving,
         \/ hand' = hand /\ Working /\ pc' \notin {"saveTags", "saveCategories", "saveStatus"}
         \/ ~Working'
  PROVE  RowsInv'
BY DEF RowsInv, SavedSoFar, Whole, Working, Saving

\* The steps of others: those that write a row write that of another model.
LEMMA RowsOfOthers ==
  ASSUME TypeOK, RowsInv, UNCHANGED <<pc, hand>>, NEW m \in Models, ~Working \/ m # hand,
         \A n \in Models \ {m} : status'[n] = status[n] /\ parts'[n] = parts[n],
         \A n \in Models \ {m} : n \in torn => n \in torn',
         Whole(m)'
  PROVE  RowsInv'
<1>1. Working => hand \in Models \ {m} BY DEF TypeOK, Working
<1>2. SavedSoFar' BY <1>1 DEF RowsInv, SavedSoFar, Working
<1>3. ASSUME NEW n \in Models \ {m} PROVE Whole(n)'
  <2>1. Whole(n) BY DEF RowsInv
  <2>2. /\ status'[n] = status[n] /\ parts'[n] = parts[n] /\ (n \in torn => n \in torn')
        /\ pc' = pc /\ hand' = hand
    OBVIOUS
  <2> QED BY <2>1, <2>2 DEF Whole
<1> HIDE DEF Whole
<1> QED BY <1>2, <1>3 DEF RowsInv

LEMMA RowsNext ==
  ASSUME TypeOK, MarkInv, RetagAccount, RowsInv, ~Overlap, ~Overlap', [Next]_vars
  PROVE  RowsInv'
<1> USE ModelFacts DEF Goto
<1>1. /\ status \in [Models -> 0 .. 4] /\ parts \in [Models -> SUBSET AllParts]
      /\ torn \subseteq Models /\ hand \in Models \cup {0}
      /\ retag \in [Models -> {"none", "asking", "waiting", "answered"}]
      /\ (hand # 0 <=> pc \notin {"off", "recovering", "next"})
  BY DEF TypeOK
<1>2. CASE Recover
  <2>1. /\ pc = "recovering" /\ pc' = "next" /\ UNCHANGED <<parts, torn>>
        /\ status' = [m \in Models |-> Recovered(m)]
    BY <1>2 DEF Recover, bounds
  <2>2. ASSUME NEW m \in Models PROVE Whole(m)'
    <3>1. status'[m] = 2 => "descriptor" \in parts[m] BY <1>1, <2>1 DEF Recovered
    <3>2. parts[m] \in {{}, AllParts} \/ m \in torn BY <2>1 DEF RowsInv, Whole, Saving
    <3> QED BY <2>1, <3>1, <3>2 DEF Whole
  <2> QED BY <2>1, <2>2 DEF RowsInv, SavedSoFar, Working
<1>3. CASE FindNext \/ NothingLeft
  BY <1>3, RowsKept DEF FindNext, NothingLeft, rows, bounds, Working, Saving
<1>4. CASE Mark
  <2>1. /\ pc = "found" /\ pc' = "marked" /\ UNCHANGED <<parts, torn, hand>>
        /\ status' = [status EXCEPT ![hand] = 1]
    BY <1>4 DEF Mark, SetStatus, bounds
  <2> QED BY <1>1, <2>1 DEF RowsInv, SavedSoFar, Working, Whole, Saving
<1>5. CASE GiveBack
  <2>1. /\ pc \in {"marked", "result"} /\ pc' = "off" /\ UNCHANGED <<parts, torn>>
        /\ status' = [status EXCEPT ![hand] = original]
    BY <1>5 DEF GiveBack, Restore, SetStatus, bounds
  <2>2. original # 2 BY <2>1 DEF MarkInv, Candidate
  <2> QED BY <1>1, <2>1, <2>2 DEF RowsInv, SavedSoFar, Working, Whole, Saving
<1>6. CASE Begin \/ StopAttempt \/ Ask \/ AnswerFails \/ ViewThere \/ ViewFails \/ TimeOut
             \/ Rotate
  BY <1>6, RowsKept DEF Begin, StopAttempt, Ask, AnswerFails, ViewThere, ViewFails, TimeOut,
     Rotate, AskForView, Settle, rows, bounds, Working, Saving
<1>7. CASE Decide
  <2>1. /\ UNCHANGED <<rows, hand, torn>> /\ pc = "asking" /\ pc' \in {"result", "waiting"}
    BY <1>7 DEF Decide, AskForView, Settle, bounds
  <2> QED BY <2>1, RowsKept DEF rows, Working, Saving
<1>8. CASE Reject
  <2>1. /\ pc = "result" /\ pc' = "next" /\ UNCHANGED <<parts, torn>>
        /\ status' = [status EXCEPT ![hand] = IF outcome = "failed" THEN 3 ELSE 4]
    BY <1>8 DEF Reject, SetStatus, bounds
  <2> QED BY <1>1, <2>1 DEF RowsInv, SavedSoFar, Working, Whole, Saving
<1>9. CASE SaveDescriptor
  <2>1. /\ pc = "result" /\ pc' = "saveTags" /\ UNCHANGED <<status, torn, hand>>
        /\ parts' = [parts EXCEPT ![hand] = @ \cup {"descriptor"}]
    BY <1>9 DEF SaveDescriptor, Save, Keep, bounds
  <2> QED BY <1>1, <2>1 DEF RowsInv, SavedSoFar, Working, Whole, Saving
<1>10. CASE SaveTags
  <2>1. /\ pc = "saveTags" /\ pc' = "saveCategories" /\ UNCHANGED <<status, torn, hand>>
        /\ parts' = [parts EXCEPT ![hand] = @ \cup {"tags"}]
    BY <1>10 DEF SaveTags, Save, Keep, bounds
  <2> QED BY <1>1, <2>1 DEF RowsInv, SavedSoFar, Working, Whole, Saving
<1>11. CASE SaveCategories
  <2>1. /\ pc = "saveCategories" /\ pc' = "saveStatus" /\ UNCHANGED <<status, torn, hand>>
        /\ parts' = [parts EXCEPT ![hand] = @ \cup {"categories"}]
    BY <1>11 DEF SaveCategories, Save, Keep, bounds
  <2>2. parts'[hand] = AllParts
    BY <1>1, <2>1 DEF RowsInv, SavedSoFar, AllParts
  <2> QED BY <1>1, <2>1, <2>2 DEF RowsInv, SavedSoFar, Working, Whole, Saving
<1>12. CASE SaveStatus
  <2>1. /\ pc = "saveStatus" /\ pc' = "next" /\ UNCHANGED <<parts, torn>>
        /\ status' = [status EXCEPT ![hand] = 2]
    BY <1>12 DEF SaveStatus, SetStatus, bounds
  <2>2. parts[hand] = AllParts BY <2>1 DEF RowsInv, SavedSoFar
  <2> QED BY <1>1, <2>1, <2>2 DEF RowsInv, SavedSoFar, Working, Whole, Saving, AllParts
<1>13. CASE UNCHANGED <<rows, pc, hand, torn>>
  BY <1>13 DEF rows, RowsInv, SavedSoFar, Working, Whole
<1>14. CASE Thread \/ Joined \/ Stop \/ Shutdown \/ UNCHANGED vars
  BY <1>13, <1>14 DEF Thread, RetagAsks, RetagAnswers, RetagTimesOut, Joined, Stop, Shutdown,
     vars, worker, bounds
<1>15. CASE RunRender
  BY <1>15 DEF RunRender, bounds, RowsInv, SavedSoFar, Working, Whole
<1>16. ASSUME NEW m \in Models, ShowImported(m) PROVE RowsInv'
  BY <1>16 DEF ShowImported, worker, RowsInv, SavedSoFar, Working, Whole
<1>17. CASE RunResult
  <2>1. PICK m \in Models : m = NextTask.model /\ retag[m] = "answered"
    BY <1>17, TakenTypes DEF RunResult, RetagAccount, OfRetag
  <2>2. m # hand BY <1>1, <2>1 DEF Overlap
  <2>3. /\ UNCHANGED <<pc, hand, torn>>
        /\ \A n \in Models \ {m} : status'[n] = status[n] /\ parts'[n] = parts[n]
        /\ \/ status'[m] = 2 /\ parts'[m] = AllParts
           \/ status'[m] \in {3, 4} /\ parts'[m] = parts[m]
    BY <1>1, <1>17, <2>1 DEF RunResult, worker, bounds
  <2>4. Whole(m) BY DEF RowsInv
  <2>5. Whole(m)'
    <3>1. CASE status'[m] = 2 /\ parts'[m] = AllParts BY <3>1 DEF Whole, AllParts
    <3>2. CASE status'[m] \in {3, 4} /\ parts'[m] = parts[m]
      BY <2>2, <2>3, <2>4, <3>2 DEF Whole
    <3> QED BY <2>3, <3>1, <3>2
  <2> HIDE DEF Whole
  <2> QED BY <2>1, <2>2, <2>3, <2>5, RowsOfOthers
<1>18. ASSUME NEW m \in Models, Retag(m) PROVE RowsInv'
  <2>1. /\ UNCHANGED <<pc, hand>> /\ torn' = torn \ {m}
        /\ status' = [status EXCEPT ![m] = 0] /\ parts' = [parts EXCEPT ![m] = {}]
        /\ retag' = [retag EXCEPT ![m] = "asking"]
    BY <1>18 DEF Retag, worker
  <2>2. m # hand BY <1>1, <2>1 DEF Overlap
  <2>3. Whole(m)' BY <1>1, <2>1 DEF Whole
  <2> QED BY <1>1, <2>1, <2>2, <2>3, RowsOfOthers
<1>19. CASE Start
  BY <1>19, RowsKept DEF Start, rows, bounds, Working, TypeOK, Saving
<1>20. CASE Restart
  <2>1. UNCHANGED <<status, parts, torn>> /\ pc' = "off" BY <1>20 DEF Restart, Boot, rows, bounds
  <2>2. pc \notin Saving BY <1>20 DEF Restart, MarkInv, TypeOK, Saving
  <2> QED BY <2>1, <2>2, RowsKept DEF Working
<1>21. CASE Crash
  <2>1. /\ UNCHANGED <<status, parts>> /\ pc' = "off"
        /\ torn' = IF pc \in Saving THEN torn \cup {hand} ELSE torn
    BY <1>21 DEF Crash, Boot, rows
  <2> QED BY <2>1 DEF RowsInv, SavedSoFar, Working, Whole, Saving
<1> QED
  BY <1>2, <1>3, <1>4, <1>5, <1>6, <1>7, <1>8, <1>9, <1>10, <1>11, <1>12, <1>14, <1>15,
     <1>16, <1>17, <1>18, <1>19, <1>20, <1>21 DEF Next, Tagger, Render, User

\* A model shown as tagged has what belongs to it, unless the user retags the
\* very model the thread has in hand.
THEOREM TaggedModelsWhole == Spec => TaggedIsWhole
<1>1. Init => RowsInv
  BY DEF Init, Idle, RowsInv, SavedSoFar, Working, Whole
<1>2. TypeOK /\ MarkInv /\ RetagAccount /\ RowsInv /\ ~Overlap /\ (~Overlap)' /\ [Next]_vars
        => RowsInv'
  BY RowsNext
<1>3. TypeOK /\ RowsInv => RowsWhole
  BY ModelFacts DEF RowsWhole, TypeOK, RowsInv, SavedSoFar, Whole, Working, Saving
<1>4. Spec /\ []~Overlap => []RowsInv
  BY <1>1, <1>2, TaggerTypes, MarksInvariant, AccountInvariant, PTL DEF Spec
<1> QED BY <1>3, <1>4, TaggerTypes, PTL DEF TaggedIsWhole, NeverOverlap
-----------------------------------------------------------------------------
(* Pictures.  The render the thread waits for is the last one of its model  *)
(* in the queue, whatever late ones are still before it; once it is done    *)
(* none is left, until the thread posts another.                            *)

IsRender(t, m) == t.kind = "render" /\ t.model = m
IsAwaited(t) == t.kind = "render" /\ t.who = "tagger"

Awaited ==
  \A i \in DOMAIN mailbox : IsAwaited(mailbox[i]) =>
    /\ pc = "waiting" /\ rendered = "none"
    /\ mailbox[i].model = hand /\ mailbox[i].view = view
    /\ \A j \in DOMAIN mailbox : IsRender(mailbox[j], hand) => j <= i

ViewDone == (pc = "waiting" /\ rendered = "yes") \/ (pc = "attempt" /\ attempt > 0)

Shown ==
  ViewDone => /\ picture[hand] = view
              /\ \A i \in DOMAIN mailbox : ~IsRender(mailbox[i], hand)

ViewInv == Awaited /\ Shown

\* Steps of the thread at which it neither waits nor has a view.
LEMMA ViewIdle ==
  ASSUME ViewInv, mailbox' = mailbox, pc # "waiting" \/ rendered # "none", ~ViewDone'
  PROVE  ViewInv'
BY DEF ViewInv, Awaited, Shown

\* Steps of others that post nothing about the model in hand and show nothing.
LEMMA ViewOthers ==
  ASSUME ViewInv, UNCHANGED <<pc, rendered, hand, view, attempt>>,
         ViewDone => picture'[hand] = picture[hand],
         DOMAIN mailbox \subseteq DOMAIN mailbox',
         \A i \in DOMAIN mailbox' :
           /\ IsAwaited(mailbox'[i]) => i \in DOMAIN mailbox /\ mailbox'[i] = mailbox[i]
           /\ IsRender(mailbox'[i], hand) =>
                i \in DOMAIN mailbox /\ IsRender(mailbox[i], hand)
  PROVE  ViewInv'
<1> HIDE DEF IsRender, IsAwaited
<1>1. ViewDone' <=> ViewDone BY DEF ViewDone
<1>2. Shown' BY <1>1 DEF ViewInv, Shown
<1>3. Awaited' BY DEF ViewInv, Awaited
<1> QED BY <1>2, <1>3 DEF ViewInv

\* The thread posts the render it will wait for.
LEMMA ViewAsked ==
  ASSUME TypeOK, ViewInv, pc = "asking", NEW v \in Views, AskForView(v), hand' = hand
  PROVE  ViewInv'
<1>1. /\ mailbox' = Append(mailbox, RenderTask(hand, v, "tagger"))
      /\ RenderTask(hand, v, "tagger") \in Tasks /\ mailbox \in Seq(Tasks)
      /\ view' = v /\ rendered' = "none" /\ pc' = "waiting"
  BY ViewPosted DEF TypeOK
<1>2. /\ DOMAIN mailbox' = DOMAIN mailbox \cup {Len(mailbox) + 1}
      /\ \A i \in DOMAIN mailbox : mailbox'[i] = mailbox[i]
      /\ mailbox'[Len(mailbox) + 1] = RenderTask(hand, v, "tagger")
      /\ Len(mailbox) \in Nat /\ DOMAIN mailbox = 1 .. Len(mailbox)
  BY <1>1, PostedTask
<1>3. \A i \in DOMAIN mailbox : ~IsAwaited(mailbox'[i]) BY <1>2 DEF ViewInv, Awaited
<1>4. \A j \in DOMAIN mailbox' : j <= Len(mailbox) + 1 BY <1>2
<1>5. Awaited' BY <1>1, <1>2, <1>3, <1>4, TaskFacts DEF Awaited
<1>6. Shown' BY <1>1 DEF Shown, ViewDone
<1> QED BY <1>5, <1>6 DEF ViewInv

\* The main thread carries out a render.
LEMMA ViewRendered == ASSUME TypeOK, ViewInv, RunRender PROVE ViewInv'
<1>1. /\ mailbox # <<>> /\ NextTask.kind = "render" /\ mailbox' = Others
      /\ UNCHANGED <<pc, hand, view, attempt>>
  BY DEF RunRender, loop
<1>2. /\ 1 \in DOMAIN mailbox /\ NextTask = mailbox[1] /\ NextTask.model \in Models
      /\ \A i \in DOMAIN mailbox' :
           i \in Nat /\ i + 1 \in DOMAIN mailbox /\ i + 1 > 1 /\ mailbox'[i] = mailbox[i + 1]
  BY <1>1, TakenTypes
<1>3. picture \in [Models -> Views \cup {"none"}] BY DEF TypeOK
<1>4. PICK done \in BOOLEAN :
        /\ picture' = IF done THEN [picture EXCEPT ![NextTask.model] = NextTask.view]
                              ELSE picture
        /\ rendered' = IF NextTask.who = "tagger" THEN IF done THEN "yes" ELSE "no"
                                                   ELSE rendered
  BY DEF RunRender
<1>5. CASE NextTask.who = "tagger"
  <2>1. /\ IsAwaited(mailbox[1]) /\ pc = "waiting" /\ NextTask.model = hand
        /\ NextTask.view = view /\ \A j \in DOMAIN mailbox : IsRender(mailbox[j], hand) => j <= 1
    BY <1>1, <1>2, <1>5 DEF ViewInv, Awaited, IsAwaited
  <2>2. ASSUME NEW i \in DOMAIN mailbox'
        PROVE  ~IsRender(mailbox'[i], hand) /\ ~IsAwaited(mailbox'[i])
    <3>1. i \in Nat /\ i + 1 \in DOMAIN mailbox /\ i + 1 > 1 /\ mailbox'[i] = mailbox[i + 1]
      BY <1>2
    <3>2. ~IsRender(mailbox[i + 1], hand) BY <2>1, <3>1
    <3>3. IsAwaited(mailbox[i + 1]) => IsRender(mailbox[i + 1], hand)
      BY <3>1 DEF ViewInv, Awaited, IsAwaited, IsRender
    <3> QED BY <3>1, <3>2, <3>3
  <2>3. rendered' = "yes" => picture'[hand] = view BY <1>2, <1>3, <1>4, <1>5, <2>1
  <2>4. Awaited' BY <2>2 DEF Awaited
  <2>5. Shown' BY <1>1, <2>1, <2>2, <2>3 DEF Shown, ViewDone
  <2> QED BY <2>4, <2>5 DEF ViewInv
<1>6. CASE NextTask.who # "tagger"
  <2>1. rendered' = rendered BY <1>4, <1>6
  <2>2. ViewDone' <=> ViewDone BY <1>1, <2>1 DEF ViewDone
  <2>3. ViewDone => NextTask.model # hand BY <1>1, <1>2 DEF ViewInv, Shown, IsRender
  <2>4. ViewDone => picture'[hand] = picture[hand]
    BY <1>2, <1>3, <1>4, <2>3
  <2> HIDE DEF IsRender, IsAwaited
  <2>5. Shown' BY <1>1, <1>2, <2>2, <2>4 DEF ViewInv, Shown
  <2>6. Awaited'
    <3>1. ASSUME NEW i \in DOMAIN mailbox', IsAwaited(mailbox'[i])
          PROVE  /\ pc' = "waiting" /\ rendered' = "none"
                 /\ mailbox'[i].model = hand' /\ mailbox'[i].view = view'
                 /\ \A j \in DOMAIN mailbox' : IsRender(mailbox'[j], hand') => j <= i
      <4>1. i \in Nat /\ i + 1 \in DOMAIN mailbox /\ mailbox'[i] = mailbox[i + 1] BY <1>2
      <4>2. /\ pc = "waiting" /\ rendered = "none"
            /\ mailbox[i + 1].model = hand /\ mailbox[i + 1].view = view
            /\ \A j \in DOMAIN mailbox : IsRender(mailbox[j], hand) => j <= i + 1
        BY <3>1, <4>1 DEF ViewInv, Awaited
      <4>3. ASSUME NEW j \in DOMAIN mailbox', IsRender(mailbox'[j], hand) PROVE j <= i
        <5>1. j \in Nat /\ j + 1 \in DOMAIN mailbox /\ mailbox'[j] = mailbox[j + 1] BY <1>2
        <5>2. j + 1 <= i + 1 BY <4>2, <4>3, <5>1
        <5> QED BY <4>1, <5>1, <5>2
      <4> QED BY <1>1, <2>1, <4>1, <4>2, <4>3
    <3> QED BY <3>1 DEF Awaited
  <2> QED BY <2>5, <2>6 DEF ViewInv
<1> QED BY <1>5, <1>6

LEMMA ViewNext ==
  ASSUME TypeOK, ViewInv, ~Overlap, ~Overlap', [Next]_vars
  PROVE  ViewInv'
<1> USE ModelFacts DEF Goto
<1>1. /\ mailbox \in Seq(Tasks) /\ picture \in [Models -> Views \cup {"none"}]
      /\ hand \in Models \cup {0} /\ view \in Views /\ attempt \in Nat
      /\ (hand # 0 <=> pc \notin {"off", "recovering", "next"})
      /\ \A i \in DOMAIN mailbox : mailbox[i].model \in Models
  BY DEF TypeOK, Tasks
<1>2. CASE Recover \/ FindNext \/ NothingLeft \/ Mark \/ GiveBack \/ Reject
             \/ SaveDescriptor \/ SaveTags \/ SaveCategories \/ SaveStatus
  BY <1>2, ViewIdle DEF ViewDone, Recover, FindNext, NothingLeft, Mark, GiveBack, Reject,
     SaveDescriptor, SaveTags, SaveCategories, SaveStatus, Save
<1>3. CASE Begin \/ StopAttempt \/ Ask \/ AnswerFails \/ ViewFails
  BY <1>3, ViewIdle DEF ViewDone, Begin, StopAttempt, Ask, AnswerFails, ViewFails, Settle
<1>4. CASE Rotate
  <2>1. PICK v \in Views : AskForView(v) BY <1>1, <1>4 DEF Rotate
  <2> QED BY <1>4, <2>1, ViewAsked DEF Rotate
<1>5. CASE Decide
  <2>1. PICK a \in Answers :
          LET d == DecideNextStep(a, tried, perps) IN
          IF d.action \in {"accept", "unclassifiable"}
          THEN Settle(d.action) /\ UNCHANGED mailbox
          ELSE AskForView(d.next) /\ UNCHANGED <<tried, perps, attempt, rotated, outcome>>
    BY <1>5 DEF Decide
  <2>2. CASE DecideNextStep(a, tried, perps).action \in {"accept", "unclassifiable"}
    BY <1>5, <2>1, <2>2, ViewIdle DEF Decide, Settle, ViewDone
  <2>3. CASE DecideNextStep(a, tried, perps).action \notin {"accept", "unclassifiable"}
    <3>1. DecideNextStep(a, tried, perps).next \in Views
      BY <2>3, NextView, ViewFacts DEF TypeOK
    <3> QED BY <1>5, <2>1, <2>3, <3>1, ViewAsked DEF Decide
  <2> QED BY <2>2, <2>3
<1>6. CASE ViewThere
  <2>1. /\ ViewDone /\ mailbox' = mailbox /\ pc = "waiting" /\ rendered # "none"
        /\ UNCHANGED <<picture, hand, view>>
    BY <1>6 DEF ViewThere, ViewDone, rows, loop
  <2> QED BY <2>1 DEF ViewInv, Awaited, Shown
<1>7. CASE TimeOut
  <2>1. \A i \in DOMAIN mailbox' : ~IsAwaited(mailbox'[i])
    BY <1>7, Unawaited, TaskFacts DEF IsAwaited
  <2>2. ~ViewDone' BY <1>7 DEF TimeOut, Settle, ViewDone
  <2> QED BY <2>1, <2>2 DEF ViewInv, Awaited, Shown
<1>8. ASSUME NEW m \in Models, RetagAsks(m) PROVE ViewInv'
  <2>1. PICK v \in Views : mailbox' = Append(mailbox, RenderTask(m, v, "retag"))
    BY <1>8, ViewFacts DEF RetagAsks
  <2>2. m # hand BY <1>1, <1>8 DEF Overlap, RetagAsks
  <2>3. RenderTask(m, v, "retag") \in Tasks BY TaskTypes
  <2>4. ~IsAwaited(RenderTask(m, v, "retag")) /\ ~IsRender(RenderTask(m, v, "retag"), hand)
    BY <2>2, TaskFacts DEF IsAwaited, IsRender
  <2>5. UNCHANGED <<pc, rendered, hand, view, attempt, picture>>
    BY <1>8 DEF RetagAsks, rows, worker, loop
  <2> HIDE DEF IsAwaited, IsRender
  <2> QED BY <1>1, <2>1, <2>3, <2>4, <2>5, PostedTask, ViewOthers
<1>9. ASSUME NEW m \in Models, RetagAnswers(m) PROVE ViewInv'
  <2>1. PICK o \in {"accept", "unclassifiable", "failed"} :
          mailbox' = Append(mailbox, ResultTask(m, o))
    BY <1>9 DEF RetagAnswers
  <2>2. ResultTask(m, o) \in Tasks BY TaskTypes
  <2>3. ~IsAwaited(ResultTask(m, o)) /\ ~IsRender(ResultTask(m, o), hand)
    BY TaskFacts DEF IsAwaited, IsRender
  <2>4. UNCHANGED <<pc, rendered, hand, view, attempt, picture>>
    BY <1>9 DEF RetagAnswers, rows, worker, loop
  <2> HIDE DEF IsAwaited, IsRender
  <2> QED BY <1>1, <2>1, <2>2, <2>3, <2>4, PostedTask, ViewOthers
<1>10. ASSUME NEW m \in Models, RetagTimesOut(m) PROVE ViewInv'
  <2>1. ASSUME NEW i \in DOMAIN mailbox'
        PROVE  /\ IsAwaited(mailbox'[i]) => i \in DOMAIN mailbox /\ mailbox'[i] = mailbox[i]
               /\ IsRender(mailbox'[i], hand) =>
                    i \in DOMAIN mailbox /\ IsRender(mailbox[i], hand)
    <3>1. CASE i \in DOMAIN mailbox
      BY <1>10, <3>1, RetagUnawaited, TaskFacts DEF IsAwaited, IsRender
    <3>2. CASE i = Len(mailbox) + 1
      BY <1>10, <3>2, RetagUnawaited, TaskFacts DEF IsAwaited, IsRender
    <3> QED BY <1>10, <3>1, <3>2, RetagUnawaited
  <2>2. DOMAIN mailbox \subseteq DOMAIN mailbox' BY <1>10, RetagUnawaited
  <2>3. UNCHANGED <<pc, rendered, hand, view, attempt, picture>>
    BY <1>10 DEF RetagTimesOut, rows, worker, loop
  <2> HIDE DEF IsAwaited, IsRender
  <2> QED BY <2>1, <2>2, <2>3, ViewOthers
<1>11. CASE RunRender BY <1>11, ViewRendered
<1>12. CASE RunResult
  <2>1. /\ mailbox # <<>> /\ mailbox' = Others /\ NextTask.kind = "result"
        /\ UNCHANGED <<pc, rendered, hand, view, attempt, picture>>
    BY <1>12 DEF RunResult, worker, loop
  <2>2. \A i \in DOMAIN mailbox' :
           i \in Nat /\ i + 1 \in DOMAIN mailbox /\ mailbox'[i] = mailbox[i + 1]
    BY <2>1, TakenTypes
  <2>3. Shown' BY <2>1, <2>2 DEF ViewInv, Shown, ViewDone
  <2>4. Awaited'
    <3>1. ASSUME NEW i \in DOMAIN mailbox', IsAwaited(mailbox'[i])
          PROVE  /\ pc' = "waiting" /\ rendered' = "none"
                 /\ mailbox'[i].model = hand' /\ mailbox'[i].view = view'
                 /\ \A j \in DOMAIN mailbox' : IsRender(mailbox'[j], hand') => j <= i
      BY <2>1, <2>2, <3>1 DEF ViewInv, Awaited
    <3> QED BY <3>1 DEF Awaited
  <2> QED BY <2>3, <2>4 DEF ViewInv
<1>13. CASE UNCHANGED <<pc, rendered, hand, view, attempt, picture, mailbox>>
  BY <1>13 DEF ViewInv, Awaited, Shown, ViewDone
<1>14. ASSUME NEW m \in Models, Retag(m) PROVE ViewInv'
  BY <1>13, <1>14 DEF Retag, worker, loop
<1>15. CASE Stop \/ Shutdown \/ Joined \/ UNCHANGED vars
  BY <1>13, <1>15 DEF Stop, Shutdown, Joined, vars, rows, worker, loop
<1>16. ASSUME NEW m \in Models, ShowImported(m) PROVE ViewInv'
  <2>1. /\ UNCHANGED <<pc, rendered, hand, view, attempt, mailbox>>
        /\ picture[m] = "none" /\ picture' = [picture EXCEPT ![m] = "front"]
    BY <1>16 DEF ShowImported, worker, loop
  <2>2. ViewDone => hand # m BY <1>1, <2>1, ViewFacts DEF ViewInv, Shown
  <2>3. ViewDone => picture'[hand] = picture[hand] BY <1>1, <2>1, <2>2
  <2> QED BY <2>1, <2>3, ViewOthers
<1>17. CASE Start
  <2>1. pc = "off" BY <1>17 DEF Start, TypeOK
  <2> QED BY <1>17, <2>1, ViewIdle DEF Start, ViewDone
<1>18. CASE Restart \/ Crash
  <2>1. mailbox' = <<>> /\ pc' = "off" BY <1>18 DEF Restart, Crash, Boot
  <2> QED BY <2>1 DEF ViewInv, Awaited, Shown, ViewDone
<1> QED
  BY <1>2, <1>3, <1>4, <1>5, <1>6, <1>7, <1>8, <1>9, <1>10, <1>11, <1>12, <1>14, <1>15,
     <1>16, <1>17, <1>18 DEF Next, Tagger, Thread, Render, User

\* The view the AI is told is the one the thumbnail shows, although renders
\* nobody waits for any more are carried out late; unless the user retags the
\* model in hand.
THEOREM ViewTold == Spec => ToldViewIsShown
<1>1. Init => ViewInv
  BY DEF Init, Idle, ViewInv, Awaited, Shown, ViewDone
<1>2. TypeOK /\ ViewInv /\ ~Overlap /\ (~Overlap)' /\ [Next]_vars => ViewInv'
  BY ViewNext
<1>3. ViewInv => ShowsView BY DEF ViewInv, Shown, ViewDone, ShowsView
<1>4. Spec /\ []~Overlap => []ViewInv
  BY <1>1, <1>2, TaggerTypes, PTL DEF Spec
<1> QED BY <1>3, <1>4, PTL DEF ToldViewIsShown, NeverOverlap
=============================================================================
