---------------------- MODULE ProjectSessionIntegration ----------------------
(***************************************************************************)
(* dw::ProjectSessionIntegration and its callers in Application: a project *)
(* is opened, switched or closed by asking the session first and then      *)
(* replacing the current Project of the ProjectManager; a question of the  *)
(* session is put to the user in the save prompt.  All of it runs on the   *)
(* main thread: between two dispatches of one call nothing else happens.   *)
(*                                                                         *)
(* The prompt is modal, so what the user starts himself does not happen    *)
(* while it is open; what other threads have posted does.  A project is    *)
(* opened fresh from the database; temporary projects are not modelled.    *)
(***************************************************************************)
EXTENDS ProjectSession

VARIABLES
  current, modified,  \* ProjectManager::m_currentProject, Project::m_modified
  opens,              \* projects being fetched, with expectedGeneration
  held,               \* m_pending: the move to commit once it is confirmed
  dialog,             \* the token the open save prompt carries
  turn                \* the call in progress, between two of its dispatches

manager == <<current, modified>>
integration == <<manager, opens, held, dialog, turn>>
all == <<session, integration>>

Opening == [kind : {"Activate"}, to : Projects]
Closing == [kind |-> "Close", to |-> None]
Fetches == [move : Opening, expected : 0 .. MaxGeneration, seen : Projects \cup {None}]
Turns == [step : {"Dispatch", "Commit"}, move : Opening \cup {Closing}, discard : BOOLEAN]
Held == [token : 1 .. MaxToken, move : Opening \cup {Closing}]

ASSUME IntegrationAssumption == None \notin Turns /\ None \notin Nat

IntegrationInit ==
  /\ Init
  /\ current = None /\ modified = FALSE
  /\ opens = {} /\ held = None /\ dialog = None /\ turn = None

Idle == turn = None
Free == turn = None /\ dialog = None   \* the user is in the main window
-----------------------------------------------------------------------------
(* activateProject and closeProject.                                        *)

NeedsSync == project # None /\ current = project /\ dirty # modified

BeginUnsynchronized(m) ==
  /\ generation + 1 < MaxGeneration
  /\ turn' = [step |-> "Dispatch", move |-> m, discard |-> FALSE]
  /\ UNCHANGED session

\* synchronizeOutgoingDirty: the session learns what the project knows, or
\* refuses, which ends the call.
Begin(m) ==
  /\ generation + 1 < MaxGeneration
  /\ turn' = [step |-> "Dispatch", move |-> m, discard |-> FALSE]
  /\ IF NeedsSync THEN SetProjectDirty(modified) ELSE UNCHANGED session

StartFetch(m) ==
  /\ Free /\ opens = {}
  /\ opens' = {[move |-> m, expected |-> generation, seen |-> project]}
  /\ UNCHANGED <<session, manager, held, dialog, turn>>

AnyGeneration(f) == TRUE
Expected(f) == f.expected = generation

FinishFetch(f) ==
  /\ Idle /\ f \in opens
  /\ opens' = opens \ {f}
  /\ \/ Expected(f) /\ Begin(f.move)
     \/ UNCHANGED <<session, turn>>    \* stale, blocked, or the fetch failed
  /\ UNCHANGED <<manager, held, dialog>>

Open(m) ==
  /\ Free /\ Begin(m)
  /\ UNCHANGED <<manager, opens, held, dialog>>

RequestClose ==
  /\ Free /\ held = None
  /\ Begin(Closing)
  /\ UNCHANGED <<manager, opens, held, dialog>>

ObeyedOnly ==
  /\ Move(turn.move)
  /\ turn' = None
  /\ UNCHANGED <<manager, opens, held, dialog>>

Obeyed ==
  /\ Move(turn.move)
  /\ turn' = [turn EXCEPT !.step = "Commit"]
  /\ UNCHANGED <<manager, opens, held, dialog>>

RememberNothing(m) == UNCHANGED held
RememberPending(m) == held' = [token |-> nextToken, move |-> m]

Asked ==
  /\ Ask(turn.move)
  /\ RememberPending(turn.move)
  /\ dialog' = nextToken
  /\ turn' = None
  /\ UNCHANGED <<manager, opens>>

Refused ==
  /\ pending # None \/ ~Proceeds(turn.move) \/ nextToken > MaxToken
  /\ turn' = None
  /\ UNCHANGED <<session, manager, opens, held, dialog>>

Dispatch ==
  /\ turn # None /\ turn.step = "Dispatch"
  /\ Obeyed \/ Asked \/ Refused

Fresh == modified' = FALSE

Commit ==
  /\ turn # None /\ turn.step = "Commit"
  /\ current' = turn.move.to /\ Fresh
  /\ turn' = None
  /\ UNCHANGED <<session, opens, held, dialog>>
-----------------------------------------------------------------------------
(* The user answers the save prompt: resolvePending.                        *)

\* Its question is still the session's, and not dropped by a run.
Stands == held # None /\ held.token = dialog /\ pending # None

AnswerCancel ==
  /\ Idle /\ dialog # None /\ Stands
  /\ Cancel(dialog)
  /\ held' = None /\ dialog' = None
  /\ UNCHANGED <<manager, opens, turn>>

\* Save writes the outgoing project if the question was about it.  A failed
\* save changes nothing: the prompt comes back with the same token.  So does
\* the prompt for a preparation, which the application has no way to save.
Saves(discard) == ~discard /\ pending.changes.project

Answer(discard) ==
  /\ Idle /\ dialog # None /\ Stands
  /\ discard \/ ~pending.changes.preparation
  /\ Resolve(dialog)
  /\ modified' = (modified /\ ~Saves(discard))
  /\ IF generation' # generation
     THEN turn' = [step |-> "Commit", move |-> held.move, discard |-> discard]
     ELSE UNCHANGED turn
  /\ held' = IF pending' = None THEN None ELSE held
  /\ dialog' = None
  /\ UNCHANGED <<current, opens>>

AnswerStale ==
  /\ Idle /\ dialog # None /\ ~Stands
  /\ held' = IF pending = None THEN None ELSE held
  /\ dialog' = None
  /\ UNCHANGED <<session, manager, opens, turn>>
-----------------------------------------------------------------------------
(* The other clients of the session and of the project.                     *)

\* Notes are edited in the Project window.
Edit ==
  /\ Free /\ current # None /\ ~modified
  /\ modified' = TRUE
  /\ UNCHANGED <<session, current, opens, held, dialog, turn>>

\* FileIOManager::saveProject and the project-saved callback.
Save ==
  /\ Idle /\ current # None
  /\ modified' = FALSE
  /\ IF pending = None /\ dirty THEN SetProjectDirty(FALSE) ELSE UNCHANGED session
  /\ UNCHANGED <<current, opens, held, dialog, turn>>

\* refreshProjectShell, once per frame.
RefreshShell ==
  /\ Idle
  /\ SetProjectDirty(current # None /\ modified)
  /\ UNCHANGED integration

\* What the user does with the session outside project switches.
UserCommand ==
  /\ \/ \E i \in Items : Move([kind |-> "Select", to |-> i]) \/ Ask([kind |-> "Select", to |-> i])
     \/ \E r \in Routes : Navigate(r)
     \/ \E i \in LibraryItems : Preview(i)
     \/ ReturnFromLibrary
     \/ \E l \in BOOLEAN : SetPreparationLock(l)
  /\ Free
  /\ UNCHANGED integration

\* What comes when it comes, the prompt open or not: a run begins and ends,
\* an item turns out not to load (completeProjectItemActivation).
Callback ==
  /\ \/ \E r \in RunLocks : BeginRun(r)
     \/ \E id \in Runs : EndRun(id)
     \/ \E c \in {[kind |-> "Clear", to |-> None]} : Move(c) \/ Ask(c)
  /\ Idle
  /\ UNCHANGED integration

\* activateProjectOpenItem cancels the question it caused; another client of
\* the session may answer it.
ItemAnswer ==
  /\ Free
  /\ pending # None /\ pending.move.kind \in {"Select", "Clear"}
  /\ Cancel(pending.token) \/ Resolve(pending.token)
  /\ UNCHANGED integration

IntegrationNext ==
  \/ \E m \in Opening : Open(m) \/ StartFetch(m)
  \/ \E f \in opens : FinishFetch(f)
  \/ RequestClose
  \/ Dispatch \/ Commit
  \/ AnswerCancel \/ AnswerStale
  \/ \E discard \in BOOLEAN : Answer(discard)
  \/ Edit \/ Save \/ RefreshShell
  \/ UserCommand \/ Callback \/ ItemAnswer

IntegrationSpec == IntegrationInit /\ [][IntegrationNext]_all
-----------------------------------------------------------------------------
IntegrationTypeOK ==
  /\ TypeOK
  /\ current \in Projects \cup {None} /\ modified \in BOOLEAN
  /\ modified => current # None
  /\ opens \subseteq Fetches
  /\ held \in Held \cup {None} /\ dialog \in 1 .. MaxToken \cup {None}
  /\ turn \in Turns \cup {None}

\* The project the session has made current is the one the manager holds,
\* whatever was asked, fetched, answered or preempted on the way.
SessionAndManagerAgree == turn = None => current = project

\* A question about a project is on the screen under its token, and what will
\* be committed is what the session was asked under that token.  Nothing is
\* held without a prompt that will release it: that would block closing and
\* quitting for good.
QuestionIsOnScreen ==
  /\ pending # None /\ pending.move.kind \in {"Activate", "Close"} =>
       held = [token |-> pending.token, move |-> pending.move]
  /\ held # None => dialog = held.token /\ held.token < nextToken
  /\ held # None /\ pending # None /\ pending.token = held.token =>
       pending.move = held.move

\* A project with unsaved changes makes way for another one, or for none, only
\* when the user has said to discard them.
SwitchAsksFirst ==
  [][modified /\ current' # current => turn.discard]_all

\* A project that took long to fetch replaces only the project that was open
\* when the user asked for it.
FetchIsForWhatWasSeen ==
  [][\A f \in opens : f \notin opens' /\ turn' # None => project = f.seen]_all

\* Unsaved changes go when they are saved or discarded, never otherwise.
ChangesAreKept ==
  [][turn # None /\ turn.step = "Commit" /\ modified => turn.discard]_all
=============================================================================
