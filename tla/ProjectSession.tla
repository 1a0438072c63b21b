--------------------------- MODULE ProjectSession ---------------------------
(***************************************************************************)
(* dw::workshop::ProjectSession: the one place that says which project,    *)
(* item, preview, run and route are current.  Every command is answered by *)
(* applying it, by refusing it, or, when it would leave unsaved work, by a *)
(* question; while one is open only a run, which drops it, gets through.   *)
(*                                                                         *)
(* References are taken to be valid, and commands to carry the current     *)
(* generation: one that does not is refused before anything is looked at.  *)
(***************************************************************************)
EXTENDS Naturals

CONSTANTS
  Projects, ItemIds,   \* ProjectId, ProjectItemId
  LibraryItems, Runs,  \* LibraryItemRef, RunId
  None,                \* std::nullopt
  MaxGeneration,       \* bound: transitions applied
  MaxToken             \* bound: questions asked

Items == [project : Projects, item : ItemIds]
RunLocks == [run : Runs, operation : Items \cup {None}]

VARIABLES
  project, item, preview, run,    \* activeProject ... activeRun
  route, libraryReturn, runReturn,
  origin, dirty, prep,            \* projectDirty, preparationLocked
  generation,
  pending, nextToken              \* m_pending*, m_nextConfirmationValue

focus == <<project, item, preview, run, route, libraryReturn, runReturn, origin>>
context == <<focus, dirty, prep>>
question == <<pending, nextToken>>
session == <<context, generation, question>>

Routes == {"Home", "Project", "DesignLibrary", "RunCnc"}
Origins == {"None", "ProjectItem", "LibraryPreview", "ExternalRun"}

\* The commands that may have to ask first.
Moves == [kind : {"Activate"}, to : Projects] \cup [kind : {"Select"}, to : Items]
           \cup [kind : {"Close", "Clear"}, to : {None}]
Changes == [project : BOOLEAN, preparation : BOOLEAN]
Questions == [move : Moves, token : Nat \ {0}, changes : Changes]

ASSUME SessionAssumption ==
  /\ None \notin Projects /\ None \notin Items /\ None \notin LibraryItems
  /\ None \notin RunLocks /\ None \notin Routes /\ None \notin Questions
  /\ MaxGeneration \in Nat /\ MaxToken \in Nat

Init ==
  /\ project = None /\ item = None /\ preview = None /\ run = None
  /\ route = "Home" /\ libraryReturn = None /\ runReturn = None
  /\ origin = "None" /\ dirty = FALSE /\ prep = FALSE
  /\ generation = 0 /\ pending = None /\ nextToken = 1
-----------------------------------------------------------------------------
(* What a move needs, what it would leave unresolved, and what it does.     *)
(* The flags d and l stand for dirty and prep: an answered question has     *)
(* cleared those it was asked about.                                        *)

Applied == generation < MaxGeneration /\ generation' = generation + 1

Focused == route = "Project" /\ preview = None
ProjectOrHome == IF project # None THEN "Project" ELSE "Home"
ItemOrigin(i) == IF i # None THEN "ProjectItem" ELSE "None"

Proceeds(m) ==
  /\ run = None
  /\ \/ m.kind = "Activate" /\ ~(m.to = project /\ Focused)
     \/ m.kind = "Close" /\ project # None
     \/ m.kind = "Select" /\ project # None /\ m.to.project = project
          /\ ~(m.to = item /\ Focused)
     \/ m.kind = "Clear" /\ (item # None \/ preview # None)

LeavesProject(m) ==
  \/ m.kind = "Close"
  \/ m.kind = "Activate" /\ m.to # project
LeavesItem(m) ==
  \/ LeavesProject(m)
  \/ m.kind = "Clear"
  \/ m.kind = "Select" /\ m.to # item

UnresolvedItemOnly(m, d, l) ==
  [project |-> FALSE, preparation |-> LeavesItem(m) /\ l]
Unresolved(m, d, l) ==
  [project |-> LeavesProject(m) /\ d, preparation |-> LeavesItem(m) /\ l]
Any(changes) == changes.project \/ changes.preparation

LeaveLibrary == preview' = None /\ libraryReturn' = None

ItemOf(p) == IF p = project THEN item ELSE None

Activate(p, d, l) ==
  /\ project' = p /\ route' = "Project"
  /\ item' = ItemOf(p)
  /\ dirty' = (p = project /\ d) /\ prep' = (p = project /\ l)
  /\ origin' = ItemOrigin(item')
  /\ LeaveLibrary
  /\ UNCHANGED <<run, runReturn>>

Close ==
  /\ project' = None /\ item' = None /\ route' = "Home" /\ origin' = "None"
  /\ dirty' = FALSE /\ prep' = FALSE
  /\ run' = None /\ runReturn' = None
  /\ LeaveLibrary

Select(i, d, l) ==
  /\ item' = i /\ route' = "Project" /\ origin' = "ProjectItem"
  /\ dirty' = d /\ prep' = l
  /\ LeaveLibrary
  /\ UNCHANGED <<project, run, runReturn>>

ClearInLibrary(d, l) ==
  /\ item' = None /\ origin' = "None"
  /\ dirty' = d /\ prep' = l
  /\ LeaveLibrary
  /\ UNCHANGED <<project, run, route, runReturn>>

Clear(d, l) ==
  /\ item' = None /\ origin' = "None"
  /\ route' = IF route = "DesignLibrary" THEN ProjectOrHome ELSE route
  /\ dirty' = d /\ prep' = l
  /\ LeaveLibrary
  /\ UNCHANGED <<project, run, runReturn>>

Perform(m, d, l) ==
  /\ \/ m.kind = "Activate" /\ Activate(m.to, d, l)
     \/ m.kind = "Close" /\ Close
     \/ m.kind = "Select" /\ Select(m.to, d, l)
     \/ m.kind = "Clear" /\ Clear(d, l)
  /\ Applied

Answerable(m, d, l) == Proceeds(m) /\ ~Any(Unresolved(m, d, l))

Move(m) ==
  /\ pending = None
  /\ Answerable(m, dirty, prep)
  /\ Perform(m, dirty, prep)
  /\ UNCHANGED question

Question(m, d, l) == [move |-> m, token |-> nextToken, changes |-> Unresolved(m, d, l)]

Ask(m) ==
  /\ pending = None
  /\ Proceeds(m) /\ Any(Unresolved(m, dirty, prep))
  /\ nextToken <= MaxToken
  /\ pending' = Question(m, dirty, prep) /\ nextToken' = nextToken + 1
  /\ UNCHANGED <<context, generation>>
-----------------------------------------------------------------------------
(* The other commands.                                                      *)

Navigate(r) ==
  /\ pending = None /\ run = None
  /\ r # route /\ r # "RunCnc"
  /\ r = "Project" => project # None
  /\ libraryReturn' = IF r = "DesignLibrary" THEN route ELSE None
  /\ preview' = None
  /\ route' = r /\ origin' = ItemOrigin(item)
  /\ Applied
  /\ UNCHANGED <<project, item, run, runReturn, dirty, prep, question>>

Preview(i) ==
  /\ pending = None /\ run = None
  /\ route = "DesignLibrary" /\ i # preview
  /\ preview' = i /\ origin' = "LibraryPreview"
  /\ Applied
  /\ UNCHANGED <<project, item, run, route, libraryReturn, runReturn, dirty, prep, question>>

ReturnFromLibrary ==
  /\ pending = None /\ run = None
  /\ route = "DesignLibrary" \/ preview # None \/ libraryReturn # None
  /\ LET destination == IF libraryReturn # None THEN libraryReturn ELSE ProjectOrHome
     IN  route' = IF destination = "Project" THEN ProjectOrHome ELSE destination
  /\ origin' = ItemOrigin(item)
  /\ LeaveLibrary
  /\ Applied
  /\ UNCHANGED <<project, item, run, runReturn, dirty, prep, question>>

EvenWhilePending == TRUE
NoQuestion == pending = None

SetProjectDirty(d) ==
  /\ NoQuestion
  /\ d # dirty /\ (d => project # None)
  /\ dirty' = d
  /\ Applied
  /\ UNCHANGED <<focus, prep, question>>

SetPreparationLock(l) ==
  /\ pending = None /\ run = None
  /\ l # prep /\ (l => project # None /\ item # None)
  /\ prep' = l
  /\ Applied
  /\ UNCHANGED <<focus, dirty, question>>

MayRun(r) ==
  IF r.operation # None
  THEN project # None /\ r.operation.project = project /\ r.operation = item
  ELSE ~prep

DropQuestion == pending' = None

BeginRun(r) ==
  /\ run = None /\ MayRun(r)
  /\ run' = r
  /\ runReturn' = IF route = "RunCnc" THEN None ELSE route
  /\ route' = "RunCnc"
  /\ prep' = FALSE
  /\ origin' = IF r.operation # None THEN "ProjectItem" ELSE "ExternalRun"
  /\ LeaveLibrary
  /\ Applied
  /\ DropQuestion
  /\ UNCHANGED <<project, item, dirty, nextToken>>

EndRun(id) ==
  /\ pending = None
  /\ run # None /\ run.run = id
  /\ run' = None /\ runReturn' = None
  /\ route' = IF runReturn \in {None, "DesignLibrary"} THEN ProjectOrHome ELSE runReturn
  /\ origin' = ItemOrigin(item)
  /\ Applied
  /\ UNCHANGED <<project, item, preview, libraryReturn, dirty, prep, question>>

Cancel(token) ==
  /\ pending # None /\ token = pending.token
  /\ pending' = None
  /\ UNCHANGED <<context, generation, nextToken>>

Resolve(token) ==
  /\ pending # None /\ token = pending.token
  /\ LET d == dirty /\ ~pending.changes.project
         l == prep /\ ~pending.changes.preparation
         m == pending.move
     IN  IF Answerable(m, d, l)
         THEN /\ Perform(m, d, l)
              /\ pending' = None /\ UNCHANGED nextToken
         ELSE /\ dirty' = d /\ prep' = l
              /\ UNCHANGED <<focus, generation>>
              /\ IF Proceeds(m)
                 THEN pending' = Question(m, d, l) /\ nextToken' = nextToken + 1
                 ELSE pending' = None /\ UNCHANGED nextToken

Next ==
  \/ \E m \in Moves : Move(m) \/ Ask(m)
  \/ \E r \in Routes : Navigate(r)
  \/ \E i \in LibraryItems : Preview(i)
  \/ ReturnFromLibrary
  \/ \E flag \in BOOLEAN : SetProjectDirty(flag) \/ SetPreparationLock(flag)
  \/ \E r \in RunLocks : BeginRun(r)
  \/ \E id \in Runs : EndRun(id)
  \/ \E token \in 1 .. MaxToken : Cancel(token) \/ Resolve(token)

Spec == Init /\ [][Next]_session
-----------------------------------------------------------------------------
TypeOK ==
  /\ project \in Projects \cup {None} /\ item \in Items \cup {None}
  /\ preview \in LibraryItems \cup {None} /\ run \in RunLocks \cup {None}
  /\ route \in Routes
  /\ libraryReturn \in Routes \cup {None} /\ runReturn \in Routes \cup {None}
  /\ origin \in Origins
  /\ dirty \in BOOLEAN /\ prep \in BOOLEAN
  /\ generation \in 0 .. MaxGeneration
  /\ pending \in Questions \cup {None} /\ nextToken \in 1 .. MaxToken + 1

\* A run has the workshop to itself: it is shown exactly while it lives, no
\* question is open, no preparation is locked, the way back leads somewhere,
\* and a pinned run keeps its operation selected.
RunHoldsWorkshop ==
  /\ run # None <=> route = "RunCnc"
  /\ run # None <=> runReturn # None
  /\ runReturn # "RunCnc" /\ (runReturn = "Project" => project # None)
  /\ run # None => /\ pending = None /\ ~prep
                   /\ run.operation # None => run.operation = item

\* The library is an overlay: it knows its way back exactly while it is shown,
\* the way back is neither itself nor a run, nothing is previewed elsewhere.
LibraryIsOverlay ==
  /\ libraryReturn # None <=> route = "DesignLibrary"
  /\ libraryReturn \notin {"DesignLibrary", "RunCnc"}
  /\ libraryReturn = "Project" => project # None
  /\ preview # None => route = "DesignLibrary"

\* The parts of the context belong together: the item is one of the project,
\* only an item is being prepared, only a project has unsaved changes, and the
\* origin, kept by hand in nine places, names what is shown.
ContextFits ==
  /\ item # None => item.project = project
  /\ prep => item # None
  /\ dirty => project # None
  /\ route = "Project" => project # None
  /\ origin = IF preview # None THEN "LibraryPreview"
              ELSE IF run # None /\ run.operation = None THEN "ExternalRun"
              ELSE ItemOrigin(item)

\* Whatever sequence of commands led here, the snapshot the panels draw from
\* is one screen: run, library, route, item and ways back agree.
ContextIsOneScreen == RunHoldsWorkshop /\ LibraryIsOverlay /\ ContextFits

\* While a question is open it stays the right question: the move could still
\* be made, and what is unsaved is exactly what was asked about.
QuestionStands ==
  pending # None =>
    /\ Proceeds(pending.move)
    /\ pending.changes = Unresolved(pending.move, dirty, prep)
    /\ Any(pending.changes)
    /\ pending.token < nextToken

\* Unsaved work is left only by an answer to a question that named it.
NoSilentLoss ==
  [][/\ dirty /\ project' # project => pending # None /\ pending.changes.project
     /\ prep /\ item' # item => pending # None /\ pending.changes.preparation]_session

\* Whoever holds the current generation has seen the current context: none of
\* it changes without the generation growing, and it never goes back.
GenerationTells ==
  [][IF context' = context THEN generation' \in {generation, generation + 1}
     ELSE generation' = generation + 1]_session
=============================================================================
