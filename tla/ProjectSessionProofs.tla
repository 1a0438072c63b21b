------------------------ MODULE ProjectSessionProofs ------------------------
(***************************************************************************)
(* Theorems about ProjectSession and about ProjectSessionIntegration: each *)
(* step of the integration is a step of the session or leaves it alone.    *)
(***************************************************************************)
EXTENDS ProjectSessionIntegration, TLAPS

ContextInv == TypeOK /\ RunHoldsWorkshop /\ LibraryIsOverlay /\ ContextFits
SessionInv == ContextInv /\ QuestionStands

-----------------------------------------------------------------------------
(* The operators the moves are built from.                                  *)

\* A move keeps the context in order, whatever flags an answer has cleared.
LEMMA PerformKeepsContext ==
  ASSUME ContextInv, NEW m \in Moves, NEW d \in BOOLEAN, NEW l \in BOOLEAN,
         d => dirty, l => prep, Answerable(m, d, l), Perform(m, d, l),
         pending' = None, nextToken' \in 1 .. MaxToken + 1
  PROVE  ContextInv'
<1> USE SessionAssumption DEF ContextInv, Answerable, Proceeds, Applied, Perform, LeaveLibrary, ItemOrigin, Routes
<1>0. generation' \in 0 .. MaxGeneration /\ pending' \in Questions \cup {None}
  BY DEF TypeOK
<1>1. CASE m.kind = "Activate"
  <2>1. Activate(m.to, d, l) /\ m.to \in Projects
    BY <1>1 DEF Moves
  <2>2. TypeOK'
    BY <1>0, <2>1 DEF TypeOK, Activate, ItemOf, Origins
  <2>3. run = None /\ run' = None /\ runReturn' = None
    BY <2>1 DEF Activate, RunHoldsWorkshop
  <2>4. RunHoldsWorkshop' /\ LibraryIsOverlay'
    BY <2>1, <2>3 DEF Activate, RunHoldsWorkshop, LibraryIsOverlay
  <2>5. ContextFits'
    BY <2>1, <2>3 DEF Activate, ContextFits, ItemOf, TypeOK
  <2> QED BY <2>2, <2>4, <2>5
<1>2. CASE m.kind = "Close"
  <2>1. Close
    BY <1>2
  <2>2. TypeOK'
    BY <1>0, <2>1 DEF TypeOK, Close, Origins
  <2>3. RunHoldsWorkshop' /\ LibraryIsOverlay' /\ ContextFits'
    BY <2>1 DEF Close, RunHoldsWorkshop, LibraryIsOverlay, ContextFits
  <2> QED BY <2>2, <2>3
<1>3. CASE m.kind = "Select"
  <2>1. Select(m.to, d, l) /\ m.to \in Items /\ m.to.project = project /\ project # None
    BY <1>3 DEF Moves
  <2>2. TypeOK'
    BY <1>0, <2>1 DEF TypeOK, Select, Origins
  <2>3. run = None /\ run' = None /\ runReturn' = None
    BY <2>1 DEF Select, RunHoldsWorkshop
  <2>4. RunHoldsWorkshop' /\ LibraryIsOverlay'
    BY <2>1, <2>3 DEF Select, RunHoldsWorkshop, LibraryIsOverlay
  <2>5. ContextFits'
    BY <2>1, <2>3 DEF Select, ContextFits, TypeOK
  <2> QED BY <2>2, <2>4, <2>5
<1>4. CASE m.kind = "Clear"
  <2>1. Clear(d, l) /\ ~l
    BY <1>4 DEF Unresolved, Any, LeavesItem
  <2>2. TypeOK'
    BY <1>0, <2>1 DEF TypeOK, Clear, Origins, ProjectOrHome
  <2>3. run = None /\ run' = None /\ runReturn' = None
    BY <2>1 DEF Clear, RunHoldsWorkshop
  <2>4. RunHoldsWorkshop' /\ LibraryIsOverlay'
    BY <2>1, <2>3 DEF Clear, RunHoldsWorkshop, LibraryIsOverlay, ProjectOrHome
  <2>5. ContextFits'
    BY <2>1, <2>3 DEF Clear, ContextFits, ProjectOrHome
  <2> QED BY <2>2, <2>4, <2>5
<1> QED BY <1>1, <1>2, <1>3, <1>4

\* The answer that clears exactly what a standing question asked about lets
\* the move it was about through.
LEMMA StandingMoveIsAnswerable ==
  ASSUME TypeOK, QuestionStands, pending # None
  PROVE  Answerable(pending.move, dirty /\ ~pending.changes.project,
                    prep /\ ~pending.changes.preparation)
<1>1. pending.changes = Unresolved(pending.move, dirty, prep) /\ Proceeds(pending.move)
  BY DEF QuestionStands
<1>2. /\ pending.changes.project <=> LeavesProject(pending.move) /\ dirty
      /\ pending.changes.preparation <=> LeavesItem(pending.move) /\ prep
  <2> DEFINE P == LeavesProject(pending.move) /\ dirty
             L == LeavesItem(pending.move) /\ prep
  <2>1. pending.changes = [project |-> P, preparation |-> L]
    BY <1>1 DEF Unresolved
  <2> HIDE DEF P, L
  <2>2. pending.changes.project = P /\ pending.changes.preparation = L
    BY <2>1
  <2> QED BY <2>2 DEF P, L
<1>3. ~Any(Unresolved(pending.move, dirty /\ ~pending.changes.project,
                      prep /\ ~pending.changes.preparation))
  BY <1>2 DEF Unresolved, Any
<1> QED BY <1>1, <1>3 DEF Answerable
-----------------------------------------------------------------------------
(* Every command keeps the context in order, and an open question right.    *)

\* A command that changes neither the context nor the generation.
LEMMA SameContext ==
  ASSUME ContextInv, UNCHANGED <<context, generation>>,
         pending' \in Questions \cup {None}, nextToken' \in 1 .. MaxToken + 1,
         run # None => pending' = None
  PROVE  ContextInv'
BY DEF ContextInv, TypeOK, RunHoldsWorkshop, LibraryIsOverlay, ContextFits,
       context, focus, ItemOrigin

LEMMA QuestionIsTyped ==
  ASSUME TypeOK, NEW m \in Moves, NEW d \in BOOLEAN, NEW l \in BOOLEAN
  PROVE  Question(m, d, l) \in Questions
<1>1. Unresolved(m, d, l) \in Changes
  BY DEF Unresolved, Changes, LeavesProject, LeavesItem
<1> QED BY <1>1 DEF Question, Questions, TypeOK

LEMMA NextKeepsContext ==
  ASSUME SessionInv, Next
  PROVE  ContextInv'
<1> USE SessionAssumption DEF SessionInv
<1>t. TypeOK /\ ContextInv
  BY DEF ContextInv
<1>1. ASSUME NEW m \in Moves, Move(m)
      PROVE  ContextInv'
  <2>1. pending' = None /\ nextToken' \in 1 .. MaxToken + 1
    BY <1>1, <1>t DEF Move, question, TypeOK
  <2>2. Answerable(m, dirty, prep) /\ Perform(m, dirty, prep)
    BY <1>1 DEF Move
  <2>3. dirty \in BOOLEAN /\ prep \in BOOLEAN
    BY <1>t DEF TypeOK
  <2> QED BY <1>t, <2>1, <2>2, <2>3, PerformKeepsContext
<1>2. ASSUME NEW m \in Moves, Ask(m)
      PROVE  ContextInv'
  <2>1. pending' \in Questions /\ nextToken' \in 1 .. MaxToken + 1
    BY <1>2, <1>t, QuestionIsTyped DEF Ask, TypeOK
  <2>2. run = None
    BY <1>2 DEF Ask, Proceeds
  <2> QED BY <1>2, <1>t, <2>1, <2>2, SameContext DEF Ask
<1>3. ASSUME NEW r \in Routes, Navigate(r)
      PROVE  ContextInv'
  BY <1>3, <1>t DEF Navigate, ContextInv, TypeOK, RunHoldsWorkshop, LibraryIsOverlay,
     ContextFits, Applied, question, ItemOrigin, Routes, Origins
<1>4. ASSUME NEW i \in LibraryItems, Preview(i)
      PROVE  ContextInv'
  BY <1>4, <1>t DEF Preview, ContextInv, TypeOK, RunHoldsWorkshop, LibraryIsOverlay,
     ContextFits, Applied, question, ItemOrigin, Routes, Origins
<1>5. ASSUME ReturnFromLibrary
      PROVE  ContextInv'
  BY <1>5, <1>t DEF ReturnFromLibrary, ContextInv, TypeOK, RunHoldsWorkshop, LibraryIsOverlay,
     ContextFits, Applied, question, ItemOrigin, Routes, Origins, ProjectOrHome, LeaveLibrary
<1>6. ASSUME NEW flag \in BOOLEAN, SetProjectDirty(flag)
      PROVE  ContextInv'
  BY <1>6, <1>t DEF SetProjectDirty, ContextInv, TypeOK, RunHoldsWorkshop, LibraryIsOverlay,
     ContextFits, Applied, question, focus, ItemOrigin
<1>7. ASSUME NEW flag \in BOOLEAN, SetPreparationLock(flag)
      PROVE  ContextInv'
  BY <1>7, <1>t DEF SetPreparationLock, ContextInv, TypeOK, RunHoldsWorkshop, LibraryIsOverlay,
     ContextFits, Applied, question, focus, ItemOrigin
<1>8. ASSUME NEW r \in RunLocks, BeginRun(r)
      PROVE  ContextInv'
  <2>1. r # None /\ route # "RunCnc" /\ route # None
    BY <1>8, <1>t DEF BeginRun, ContextInv, RunHoldsWorkshop, TypeOK
  <2>2. r.operation # None => r.operation = item /\ project # None
    BY <1>8 DEF BeginRun, MayRun
  <2>3. TypeOK'
    <3>1. runReturn' \in Routes \cup {None} /\ route' \in Routes /\ origin' \in Origins
      BY <1>8, <1>t DEF BeginRun, TypeOK, Routes, Origins
    <3>2. generation' \in 0 .. MaxGeneration /\ run' \in RunLocks \cup {None}
      BY <1>8, <1>t DEF BeginRun, TypeOK, Applied
    <3> QED BY <1>8, <1>t, <3>1, <3>2 DEF BeginRun, TypeOK, DropQuestion, LeaveLibrary
  <2>4. RunHoldsWorkshop' /\ LibraryIsOverlay'
    BY <1>8, <1>t, <2>1, <2>2 DEF BeginRun, ContextInv, RunHoldsWorkshop, LibraryIsOverlay,
       ContextFits, DropQuestion, LeaveLibrary, Routes
  <2>5. ContextFits'
    BY <1>8, <1>t, <2>1, <2>2 DEF BeginRun, ContextInv, ContextFits, LeaveLibrary, ItemOrigin
  <2> QED BY <2>3, <2>4, <2>5 DEF ContextInv
<1>9. ASSUME NEW id \in Runs, EndRun(id)
      PROVE  ContextInv'
  BY <1>9, <1>t DEF EndRun, ContextInv, TypeOK, RunHoldsWorkshop, LibraryIsOverlay,
     ContextFits, Applied, question, ItemOrigin, Routes, Origins, ProjectOrHome
<1>10. ASSUME NEW token, Cancel(token)
       PROVE  ContextInv'
  BY <1>10, <1>t, SameContext DEF Cancel, TypeOK
<1>11. ASSUME NEW token, Resolve(token)
       PROVE  ContextInv'
  <2> DEFINE d == dirty /\ ~pending.changes.project
             l == prep /\ ~pending.changes.preparation
  <2>1. pending # None /\ pending.move \in Moves
    BY <1>11, <1>t DEF Resolve, TypeOK, Questions
  <2>2. Answerable(pending.move, d, l)
    BY <2>1, <1>t, StandingMoveIsAnswerable
  <2>3. Perform(pending.move, d, l) /\ pending' = None /\ nextToken' \in 1 .. MaxToken + 1
    BY <1>11, <2>2, <1>t DEF Resolve, TypeOK
  <2>4. d \in BOOLEAN /\ l \in BOOLEAN /\ (d => dirty) /\ (l => prep)
    OBVIOUS
  <2> HIDE DEF d, l
  <2> QED BY <1>t, <2>1, <2>2, <2>3, <2>4, PerformKeepsContext
<1> QED BY <1>1, <1>2, <1>3, <1>4, <1>5, <1>6, <1>7, <1>8, <1>9, <1>10, <1>11 DEF Next

\* While a question stays open nothing it depends on moves.
LEMMA NextKeepsQuestion ==
  ASSUME SessionInv, Next
  PROVE  QuestionStands'
<1> USE DEF SessionInv, ContextInv
<1>1. CASE \E m \in Moves : Ask(m)
  <2>1. PICK m \in Moves : Ask(m)
    BY <1>1
  <2>2. pending' = Question(m, dirty, prep) /\ nextToken' = nextToken + 1
    BY <2>1 DEF Ask
  <2>3. Unresolved(m, dirty, prep)' = Unresolved(m, dirty, prep) /\ (Proceeds(m)' <=> Proceeds(m))
    BY <2>1 DEF Ask, context, focus, Unresolved, LeavesProject, LeavesItem, Proceeds, Focused
  <2>4. Proceeds(m) /\ Any(Unresolved(m, dirty, prep))
    BY <2>1 DEF Ask
  <2>5. nextToken < nextToken'
    BY <2>2 DEF TypeOK
  <2>6. /\ pending'.move = m /\ pending'.token = nextToken
        /\ pending'.changes = Unresolved(m, dirty, prep)
    BY <2>2 DEF Question
  <2> QED BY <2>3, <2>4, <2>5, <2>6 DEF QuestionStands
<1>2. CASE ~\E m \in Moves : Ask(m)
  <2>1. pending' = None
    <3>1. ASSUME NEW token, Resolve(token)
          PROVE  pending' = None
      BY <3>1, StandingMoveIsAnswerable DEF Resolve
    <3>2. ASSUME pending # None, ~\E token : Resolve(token)
          PROVE  pending' = None
      BY <1>2, <3>2 DEF Next, Move, Navigate, Preview, ReturnFromLibrary, SetProjectDirty,
         NoQuestion, SetPreparationLock, BeginRun, RunHoldsWorkshop, DropQuestion, EndRun, Cancel
    <3>3. ASSUME pending = None
          PROVE  pending' = None
      BY <1>2, <3>3 DEF Next, Move, Navigate, Preview, ReturnFromLibrary, SetProjectDirty,
         SetPreparationLock, BeginRun, DropQuestion, EndRun, Cancel, Resolve, question
    <3> QED BY <3>1, <3>2, <3>3
  <2> QED BY <2>1 DEF QuestionStands
<1> QED BY <1>1, <1>2
-----------------------------------------------------------------------------
LEMMA InitHolds == Init => SessionInv
<1> SUFFICES ASSUME Init
             PROVE  SessionInv
  OBVIOUS
<1>1. TypeOK
  <2>1. generation \in 0 .. MaxGeneration /\ nextToken \in 1 .. MaxToken + 1
    BY SessionAssumption DEF Init
  <2>4. dirty \in BOOLEAN /\ prep \in BOOLEAN
    BY DEF Init
  <2>2. route \in Routes /\ origin \in Origins
    BY DEF Init, Routes, Origins
  <2>3. /\ project \in Projects \cup {None} /\ item \in Items \cup {None}
        /\ preview \in LibraryItems \cup {None} /\ run \in RunLocks \cup {None}
        /\ libraryReturn \in Routes \cup {None} /\ runReturn \in Routes \cup {None}
        /\ pending \in Questions \cup {None}
    BY DEF Init
  <2> QED BY <2>1, <2>2, <2>3, <2>4 DEF TypeOK
<1>2. RunHoldsWorkshop /\ LibraryIsOverlay
  BY SessionAssumption DEF Init, RunHoldsWorkshop, LibraryIsOverlay, Routes
<1>3. ContextFits /\ QuestionStands
  BY DEF Init, ContextFits, QuestionStands, ItemOrigin
<1> QED BY <1>1, <1>2, <1>3 DEF SessionInv, ContextInv

LEMMA InvIsKept == SessionInv /\ [Next]_session => SessionInv'
<1> SUFFICES ASSUME SessionInv, [Next]_session
             PROVE  SessionInv'
  OBVIOUS
<1>1. CASE Next
  BY <1>1, NextKeepsContext, NextKeepsQuestion DEF SessionInv
<1>2. CASE UNCHANGED session
  BY <1>2 DEF session, context, focus, question, SessionInv, ContextInv, TypeOK,
     RunHoldsWorkshop, LibraryIsOverlay, ContextFits, QuestionStands, ItemOrigin,
     Proceeds, Focused, Unresolved, LeavesProject, LeavesItem, Any
<1> QED BY <1>1, <1>2

\* The session's context has its types, a run the workshop to itself, the
\* library its way back, and the parts of the context belong together, for
\* any projects, items and runs and any sequence of commands.
THEOREM ContextIsSound ==
  Spec => [](TypeOK /\ ContextIsOneScreen)
<1>1. SessionInv => TypeOK /\ ContextIsOneScreen
  BY DEF SessionInv, ContextInv, ContextIsOneScreen
<1> QED BY <1>1, InitHolds, InvIsKept, PTL DEF Spec

\* An open question stays the right question until it is answered or dropped.
THEOREM QuestionsStand == Spec => []QuestionStands
<1>1. SessionInv => QuestionStands
  BY DEF SessionInv
<1> QED BY <1>1, InitHolds, InvIsKept, PTL DEF Spec

\* Which moves may leave a project or an item behind.
LEMMA MovesLeave ==
  ASSUME NEW m \in Moves, NEW d, NEW l, Perform(m, d, l)
  PROVE  /\ project' # project => LeavesProject(m)
         /\ item' # item => LeavesItem(m)
BY DEF Perform, Activate, ItemOf, Close, Select, Clear, LeavesProject, LeavesItem, Moves

\* Unsaved changes and a locked preparation are left behind only by an answer
\* to a question that named them.
THEOREM NothingIsLostUnasked == Spec => NoSilentLoss
<1>1. ASSUME SessionInv, Next
      PROVE  /\ dirty /\ project' # project => pending # None /\ pending.changes.project
             /\ prep /\ item' # item => pending # None /\ pending.changes.preparation
  <2> USE <1>1
  <2>1. ASSUME NEW m \in Moves, Move(m)
        PROVE  /\ dirty => project' = project
               /\ prep => item' = item
    BY <2>1, MovesLeave DEF Move, Answerable, Unresolved, Any
  <2>2. ASSUME NEW token, Resolve(token)
        PROVE  /\ dirty /\ project' # project => pending # None /\ pending.changes.project
               /\ prep /\ item' # item => pending # None /\ pending.changes.preparation
    <3> DEFINE d == dirty /\ ~pending.changes.project
               l == prep /\ ~pending.changes.preparation
    <3>1. pending # None /\ pending.move \in Moves
      BY <2>2 DEF Resolve, SessionInv, ContextInv, TypeOK, Questions
    <3>2. Answerable(pending.move, d, l) /\ Perform(pending.move, d, l)
      BY <2>2, StandingMoveIsAnswerable DEF Resolve, SessionInv, ContextInv
    <3>3. /\ project' # project => ~d
          /\ item' # item => ~l
      <4> HIDE DEF d, l
      <4> QED BY <3>1, <3>2, MovesLeave DEF Answerable, Unresolved, Any
    <3> QED BY <3>1, <3>3
  <2>3. ASSUME ~\E m \in Moves : Move(m), ~\E token : Resolve(token)
        PROVE  project' = project /\ item' = item
    BY <2>3 DEF Next, Ask, Navigate, Preview, ReturnFromLibrary, SetProjectDirty,
       SetPreparationLock, BeginRun, EndRun, Cancel, context, focus
  <2> QED BY <2>1, <2>2, <2>3
<1>2. ASSUME SessionInv, UNCHANGED session
      PROVE  project' = project /\ item' = item
  BY <1>2 DEF session, context, focus
<1> QED BY <1>1, <1>2, InitHolds, InvIsKept, PTL DEF Spec, NoSilentLoss

\* The generation tells whether the context is still the one that was seen.
THEOREM GenerationsTell == Spec => GenerationTells
<1>1. ASSUME SessionInv, Next
      PROVE  IF context' = context THEN generation' \in {generation, generation + 1}
             ELSE generation' = generation + 1
  <2> USE <1>1
  <2>1. ASSUME NEW token, Resolve(token)
        PROVE  generation' = generation + 1
    BY <2>1, StandingMoveIsAnswerable DEF Resolve, SessionInv, ContextInv, Perform, Applied
  <2>2. ASSUME ~\E token : Resolve(token)
        PROVE  generation' = generation + 1 \/ UNCHANGED <<context, generation>>
    BY <2>2 DEF Next, Move, Perform, Ask, Navigate, Preview, ReturnFromLibrary,
       SetProjectDirty, SetPreparationLock, BeginRun, EndRun, Cancel, Applied
  <2> QED BY <2>1, <2>2
<1>2. ASSUME SessionInv, UNCHANGED session
      PROVE  UNCHANGED <<context, generation>>
  BY <1>2 DEF session
<1> QED BY <1>1, <1>2, InitHolds, InvIsKept, PTL DEF Spec, GenerationTells
-----------------------------------------------------------------------------
(* The integration: every step of it is a step of the session or leaves the *)
(* session alone, so what is proved of the session holds of the two.        *)


IntegrationInv ==
  /\ SessionInv /\ IntegrationTypeOK
  /\ QuestionIsOnScreen
  /\ IF turn # None /\ turn.step = "Commit" THEN project = turn.move.to
     ELSE current = project

LEMMA TokensAreKnown ==
  ASSUME TypeOK, QuestionStands, pending # None
  PROVE  pending.token \in 1 .. MaxToken
BY SessionAssumption DEF TypeOK, QuestionStands, Questions

LEMMA BeginIsSessionStep ==
  ASSUME modified \in BOOLEAN, NEW m, Begin(m)
  PROVE  [Next]_session /\ project' = project
BY DEF Begin, Next, SetProjectDirty, focus, session, context

LEMMA StepIsSessionStep ==
  ASSUME IntegrationInv, [IntegrationNext]_all
  PROVE  [Next]_session
<1> USE DEF IntegrationInv
<1>m. Opening \cup {Closing} \subseteq Moves
  BY DEF Opening, Closing, Moves
<1>1. CASE UNCHANGED all
  BY <1>1 DEF all
<1>2. CASE (\E m \in Opening : Open(m) \/ StartFetch(m)) \/ (\E f \in opens : FinishFetch(f)) \/ RequestClose
  <2>1. modified \in BOOLEAN
    BY DEF IntegrationTypeOK
  <2> QED BY <1>2, <2>1, BeginIsSessionStep DEF Open, StartFetch, FinishFetch, RequestClose
<1>3. CASE Dispatch
  <2>1. turn.move \in Moves
    BY <1>3, <1>m DEF Dispatch, IntegrationTypeOK, Turns
  <2> QED BY <1>3, <2>1 DEF Dispatch, Obeyed, Asked, Refused, Next
<1>4. CASE AnswerCancel \/ \E discard \in BOOLEAN : Answer(discard)
  <2>1. dialog = pending.token /\ pending # None
    BY <1>4 DEF AnswerCancel, Answer, Cancel, Resolve
  <2>2. dialog \in 1 .. MaxToken
    BY <2>1, TokensAreKnown DEF SessionInv, ContextInv
  <2> QED BY <1>4, <2>2 DEF AnswerCancel, Answer, Next
<1>5. CASE Commit \/ AnswerStale \/ Edit
  BY <1>5 DEF Commit, AnswerStale, Edit
<1>6. CASE Save \/ RefreshShell
  BY <1>6 DEF Save, RefreshShell, Next
<1>7. CASE UserCommand \/ Callback
  <2>1. \A i \in Items : [kind |-> "Select", to |-> i] \in Moves
    BY DEF Moves
  <2>2. [kind |-> "Clear", to |-> None] \in Moves
    BY DEF Moves
  <2> QED BY <1>7, <2>1, <2>2 DEF UserCommand, Callback, Next
<1>8. CASE ItemAnswer
  BY <1>8, TokensAreKnown DEF ItemAnswer, Next, SessionInv, ContextInv
<1> QED BY <1>1, <1>2, <1>3, <1>4, <1>5, <1>6, <1>7, <1>8 DEF IntegrationNext
-----------------------------------------------------------------------------
LEMMA MoveGoesTo ==
  ASSUME NEW m \in Moves, NEW d, NEW l, Perform(m, d, l)
  PROVE  project' = IF m.kind \in {"Activate", "Close"} THEN m.to ELSE project
BY DEF Perform, Activate, Close, Select, Clear, Moves

\* The answered move has been performed, and nothing stays pending.
LEMMA ResolveGoesTo ==
  ASSUME SessionInv, NEW token, Resolve(token)
  PROVE  /\ pending # None /\ pending.move \in Moves /\ pending' = None
         /\ generation' # generation /\ nextToken' = nextToken
         /\ project' = IF pending.move.kind \in {"Activate", "Close"}
                       THEN pending.move.to ELSE project
<1> DEFINE d == dirty /\ ~pending.changes.project
           l == prep /\ ~pending.changes.preparation
<1> USE DEF SessionInv, ContextInv
<1>1. pending # None /\ pending.move \in Moves
  BY DEF Resolve, TypeOK, Questions
<1>2. Perform(pending.move, d, l) /\ pending' = None /\ nextToken' = nextToken
  BY <1>1, StandingMoveIsAnswerable DEF Resolve
<1>3. generation' # generation
  BY <1>2 DEF Perform, Applied, TypeOK
<1> HIDE DEF d, l
<1> QED BY <1>1, <1>2, <1>3, MoveGoesTo

LEMMA OthersStay ==
  ASSUME NEW b \in BOOLEAN,
         \/ \E r \in Routes : Navigate(r)
         \/ \E i \in LibraryItems : Preview(i)
         \/ ReturnFromLibrary \/ SetProjectDirty(b) \/ SetPreparationLock(b)
         \/ \E r \in RunLocks : BeginRun(r)
         \/ \E id \in Runs : EndRun(id)
  PROVE  project' = project /\ (pending' = pending \/ pending' = None) /\ nextToken' = nextToken
BY DEF Navigate, Preview, ReturnFromLibrary, SetProjectDirty, SetPreparationLock,
   BeginRun, EndRun, DropQuestion, focus, question

LEMMA IntegrationInvIsKept ==
  ASSUME IntegrationInv, [IntegrationNext]_all
  PROVE  IntegrationInv'
<1> USE DEF IntegrationInv
<1>s. SessionInv'
  BY StepIsSessionStep, InvIsKept
<1>t. TypeOK /\ TypeOK'
  BY <1>s DEF SessionInv, ContextInv
<1>p. TypeOK => pending \in Questions \cup {None}
  BY DEF TypeOK
<1>m. Opening \cup {Closing} \subseteq Moves
  BY DEF Opening, Closing, Moves
<1>k. \A m \in Opening \cup {Closing} : m.kind \in {"Activate", "Close"} /\ m.to \in Projects \cup {None}
  BY DEF Opening, Closing
<1> DEFINE Committing == turn # None /\ turn.step = "Commit"
<1>1. CASE UNCHANGED all
  BY <1>1, <1>s, <1>t DEF all, session, context, focus, question, integration, manager,
     IntegrationTypeOK, QuestionIsOnScreen
<1>2. ASSUME NEW m \in Opening \cup {Closing}, Begin(m), ~Committing,
             UNCHANGED <<manager, held, dialog>>, opens' \subseteq opens
      PROVE  IntegrationInv'
  <2>1. turn' \in Turns /\ turn'.step = "Dispatch"
    BY <1>2 DEF Begin, Turns
  <2>2. project' = project /\ pending' = pending /\ nextToken' = nextToken
    BY <1>2 DEF Begin, SetProjectDirty, focus, session, context, question
  <2> QED BY <1>2, <1>s, <1>t, <2>1, <2>2 DEF manager, IntegrationTypeOK, QuestionIsOnScreen
<1>3. ASSUME NEW m \in Opening, Open(m)
      PROVE  IntegrationInv'
  BY <1>2, <1>3 DEF Open, Free
<1>4. ASSUME NEW m \in Opening, StartFetch(m)
      PROVE  IntegrationInv'
  <2>1. opens' \subseteq Fetches
    BY <1>4, <1>t DEF StartFetch, Fetches, TypeOK
  <2> QED BY <1>4, <1>s, <1>t, <2>1 DEF StartFetch, session, context, focus, question, manager,
     IntegrationTypeOK, QuestionIsOnScreen
<1>5. ASSUME NEW f \in opens, FinishFetch(f)
      PROVE  IntegrationInv'
  <2>1. CASE Expected(f) /\ Begin(f.move)
    <3>1. f.move \in Opening
      BY DEF IntegrationTypeOK, Fetches
    <3> QED BY <1>2, <1>5, <2>1, <3>1 DEF FinishFetch, Idle
  <2>2. CASE UNCHANGED <<session, turn>>
    BY <1>5, <1>s, <1>t, <2>2 DEF FinishFetch, session, context, focus, question, manager,
       IntegrationTypeOK, QuestionIsOnScreen
  <2> QED BY <1>5, <2>1, <2>2 DEF FinishFetch
<1>6. ASSUME RequestClose
      PROVE  IntegrationInv'
  BY <1>2, <1>6 DEF RequestClose, Free
<1>7. ASSUME Dispatch
      PROVE  IntegrationInv'
  <2>0. turn \in Turns /\ turn.move \in Opening \cup {Closing} /\ turn.move \in Moves /\ current = project
    BY <1>7, <1>m DEF Dispatch, IntegrationTypeOK, Turns
  <2>1. CASE Obeyed
    <3>1. project' = turn.move.to /\ pending' = None /\ nextToken' = nextToken
      BY <2>0, <2>1, <1>k, MoveGoesTo DEF Obeyed, Move, question
    <3>2. turn' \in Turns /\ turn'.step = "Commit" /\ turn'.move = turn.move /\ turn' # None
      BY <2>0, <2>1, IntegrationAssumption DEF Obeyed, Turns
    <3> QED BY <2>1, <3>1, <3>2, <1>s, <1>t DEF Obeyed, manager, IntegrationTypeOK, QuestionIsOnScreen
  <2>2. CASE Asked
    <3>1. /\ pending'.move = turn.move /\ pending'.token = nextToken
          /\ project' = project /\ nextToken \in 1 .. MaxToken
          /\ nextToken' = nextToken + 1 /\ nextToken < nextToken + 1
      BY <2>2, <1>t, SessionAssumption DEF Asked, Ask, Question, context, focus, TypeOK
    <3>2. held' = [token |-> nextToken, move |-> turn.move] /\ dialog' = nextToken /\ turn' = None
      BY <2>2 DEF Asked, RememberPending
    <3>3. held' \in Held
      BY <3>1, <3>2, <2>0 DEF Held
    <3> QED BY <2>0, <2>2, <3>1, <3>2, <3>3, <1>s, <1>t DEF Asked, manager, IntegrationTypeOK, QuestionIsOnScreen
  <2>3. CASE Refused
    BY <2>0, <2>3, <1>s, <1>t DEF Refused, session, context, focus, question, manager,
       IntegrationTypeOK, QuestionIsOnScreen
  <2> QED BY <1>7, <2>1, <2>2, <2>3 DEF Dispatch
<1>8. ASSUME Commit
      PROVE  IntegrationInv'
  <2>1. turn.move.to \in Projects \cup {None} /\ current' = project
    BY <1>8, <1>k DEF Commit, IntegrationTypeOK, Turns
  <2> QED BY <1>8, <2>1, <1>s, <1>t DEF Commit, Fresh, session, context, focus, question,
     IntegrationTypeOK, QuestionIsOnScreen
<1>9. ASSUME AnswerCancel
      PROVE  IntegrationInv'
  BY <1>9, <1>s, <1>t DEF AnswerCancel, Idle, Cancel, context, focus, manager,
     IntegrationTypeOK, QuestionIsOnScreen
<1>10. ASSUME NEW discard \in BOOLEAN, Answer(discard)
       PROVE  IntegrationInv'
  <2>1. /\ pending # None /\ pending.move \in Moves /\ pending' = None
        /\ generation' # generation
        /\ project' = IF pending.move.kind \in {"Activate", "Close"}
                      THEN pending.move.to ELSE project
    BY <1>10, ResolveGoesTo DEF Answer
  <2>2. held \in Held /\ held.move \in Opening \cup {Closing} /\ held # None /\ held.token = pending.token
    BY <1>10 DEF Answer, Stands, Resolve, IntegrationTypeOK, Held
  <2>3. turn' = [step |-> "Commit", move |-> held.move, discard |-> discard] /\ held' = None
    BY <1>10, <2>1 DEF Answer
  <2>4. turn' \in Turns /\ turn' # None /\ turn'.step = "Commit" /\ turn'.move = held.move
    BY <2>2, <2>3, IntegrationAssumption DEF Turns
  <2>5. project' = held.move.to
    BY <2>1, <2>2, <1>k DEF QuestionIsOnScreen
  <2>6. modified' \in BOOLEAN /\ (modified' => modified) /\ current' = current /\ opens' = opens /\ dialog' = None
    BY <1>10 DEF Answer
  <2> QED BY <2>1, <2>3, <2>4, <2>5, <2>6, <1>s, <1>t DEF IntegrationTypeOK, QuestionIsOnScreen
<1>11. ASSUME AnswerStale
       PROVE  IntegrationInv'
  BY <1>11, <1>s, <1>t DEF AnswerStale, Stands, session, context, focus, question, manager,
     IntegrationTypeOK, QuestionIsOnScreen
<1>12. ASSUME Edit
       PROVE  IntegrationInv'
  BY <1>12, <1>s, <1>t DEF Edit, session, context, focus, question,
     IntegrationTypeOK, QuestionIsOnScreen
<1>13. ASSUME turn = None, project' = project,
              pending' = pending \/ pending' = None, nextToken' = nextToken,
              modified' \in BOOLEAN, modified' => modified, UNCHANGED <<current, opens, held, dialog, turn>>
       PROVE  IntegrationInv'
  BY <1>13, <1>s, <1>t DEF IntegrationTypeOK, QuestionIsOnScreen
<1>14. ASSUME Save
       PROVE  IntegrationInv'
  <2>1. project' = project /\ pending' = pending /\ nextToken' = nextToken
    BY <1>14 DEF Save, SetProjectDirty, focus, session, context, question
  <2> QED BY <1>13, <1>14, <2>1 DEF Save, Idle
<1>15. ASSUME RefreshShell
       PROVE  IntegrationInv'
  <2>1. project' = project /\ pending' = pending /\ nextToken' = nextToken
    BY <1>15 DEF RefreshShell, SetProjectDirty, focus, question
  <2>2. modified \in BOOLEAN
    BY DEF IntegrationTypeOK
  <2> QED BY <1>13, <1>15, <2>1, <2>2 DEF RefreshShell, Idle, integration, manager
<1>16. ASSUME NEW m \in Moves, m.kind \in {"Select", "Clear"}, Move(m) \/ Ask(m),
              turn = None, UNCHANGED integration
       PROVE  IntegrationInv'
  <2>1. project' = project
    BY <1>16, MoveGoesTo DEF Move, Ask, context, focus
  <2>2. \/ pending' = None /\ nextToken' = nextToken
        \/ /\ pending'.move.kind \in {"Select", "Clear"}
           /\ pending'.token = nextToken /\ nextToken' = nextToken + 1
    BY <1>16 DEF Move, Ask, Question, question
  <2>3. /\ nextToken \in Nat /\ UNCHANGED <<current, modified, opens, held, dialog, turn>>
        /\ held # None => held.token \in Nat /\ held.token < nextToken
    BY <1>16, <1>t, SessionAssumption DEF integration, manager, IntegrationTypeOK, Held,
       QuestionIsOnScreen, TypeOK
  <2>4. QuestionIsOnScreen'
    BY <2>2, <2>3 DEF QuestionIsOnScreen
  <2> QED BY <1>16, <2>1, <2>3, <2>4, <1>s, <1>t DEF integration, manager, IntegrationTypeOK, QuestionIsOnScreen
<1>17. ASSUME UserCommand \/ Callback
       PROVE  IntegrationInv'
  <2>1. turn = None /\ UNCHANGED integration
    BY <1>17 DEF UserCommand, Callback, Free, Idle
  <2>2. CASE \E m \in Moves : m.kind \in {"Select", "Clear"} /\ (Move(m) \/ Ask(m))
    BY <2>1, <2>2, <1>16
  <2>3. CASE ~\E m \in Moves : m.kind \in {"Select", "Clear"} /\ (Move(m) \/ Ask(m))
    <3>1. \A i \in Items : [kind |-> "Select", to |-> i] \in Moves
      BY DEF Moves
    <3>2. [kind |-> "Clear", to |-> None] \in Moves
      BY DEF Moves
    <3>3. project' = project /\ (pending' = pending \/ pending' = None) /\ nextToken' = nextToken
      BY <1>17, <2>3, <3>1, <3>2, OthersStay DEF UserCommand, Callback
    <3>4. modified \in BOOLEAN
      BY DEF IntegrationTypeOK
    <3> QED BY <2>1, <3>3, <3>4, <1>13 DEF integration, manager
  <2> QED BY <2>2, <2>3
<1>18. ASSUME ItemAnswer
       PROVE  IntegrationInv'
  <2>1. project' = project /\ pending' = None /\ nextToken' = nextToken
    BY <1>18, ResolveGoesTo DEF ItemAnswer, Cancel, context, focus
  <2>2. modified \in BOOLEAN
    BY DEF IntegrationTypeOK
  <2> QED BY <1>18, <2>1, <2>2, <1>13 DEF ItemAnswer, Free, integration, manager
<1> QED BY <1>1, <1>3, <1>4, <1>5, <1>6, <1>7, <1>8, <1>9, <1>10, <1>11, <1>12, <1>14, <1>15,
           <1>17, <1>18 DEF IntegrationNext
-----------------------------------------------------------------------------
\* Before a move is dispatched, and while it is asked about, the session knows
\* that the project is modified; a commit that drops changes was told to.
ChangesAreKnown ==
  /\ turn # None /\ turn.step = "Dispatch" /\ modified => dirty
  /\ held # None /\ pending # None /\ pending.token = held.token /\ modified => dirty
  /\ turn # None /\ turn.step = "Commit" /\ modified /\ ~turn.discard =>
       current = turn.move.to

\* A fetch that would still be accepted was started in the project of now.
FetchesAreKnown ==
  \A f \in opens : f.expected <= generation /\ (f.expected = generation => f.seen = project)

FullInv == IntegrationInv /\ ChangesAreKnown /\ FetchesAreKnown

LEMMA GenerationGrows ==
  ASSUME SessionInv, [Next]_session
  PROVE  \/ generation' = generation + 1
         \/ UNCHANGED <<context, generation>>
<1>1. ASSUME NEW token, Resolve(token)
      PROVE  generation' = generation + 1
  BY <1>1, StandingMoveIsAnswerable DEF Resolve, SessionInv, ContextInv, Perform, Applied
<1>2. ASSUME ~\E token : Resolve(token)
      PROVE  generation' = generation + 1 \/ UNCHANGED <<context, generation>>
  BY <1>2 DEF Next, Move, Perform, Ask, Navigate, Preview, ReturnFromLibrary,
     SetProjectDirty, SetPreparationLock, BeginRun, EndRun, Cancel, Applied, session
<1> QED BY <1>1, <1>2

LEMMA FetchesStayKnown ==
  ASSUME IntegrationInv, FetchesAreKnown, [IntegrationNext]_all
  PROVE  FetchesAreKnown'
<1>1. generation \in Nat /\ \A f \in opens : f.expected \in Nat
  BY SessionAssumption DEF IntegrationInv, SessionInv, ContextInv, TypeOK, IntegrationTypeOK, Fetches
<1>2. generation' = generation + 1 \/ UNCHANGED <<context, generation>>
  BY StepIsSessionStep, GenerationGrows DEF IntegrationInv
<1>3. CASE opens' \subseteq opens
  BY <1>1, <1>2, <1>3 DEF FetchesAreKnown, context, focus
<1>4. CASE ~(opens' \subseteq opens)
  <2>1. PICK m \in Opening : StartFetch(m)
    BY <1>4 DEF IntegrationNext, Open, FinishFetch, RequestClose, Dispatch, Obeyed, Asked,
       Refused, Commit, AnswerCancel, Answer, AnswerStale, Edit, Save, RefreshShell,
       UserCommand, Callback, ItemAnswer, integration, manager, all
  <2> QED BY <1>1, <2>1 DEF StartFetch, FetchesAreKnown, session, context, focus
<1> QED BY <1>3, <1>4

\* Steps that keep the project's changes, and what the session knows of them.
LEMMA ChangesStayKnown ==
  ASSUME IntegrationInv, ChangesAreKnown, [IntegrationNext]_all
  PROVE  ChangesAreKnown'
<1> USE DEF IntegrationInv
<1>b. modified \in BOOLEAN /\ dirty \in BOOLEAN /\ (modified => current # None)
  BY DEF IntegrationTypeOK, SessionInv, ContextInv, TypeOK
<1>1. CASE UNCHANGED all
  BY <1>1 DEF all, session, context, focus, question, integration, manager, ChangesAreKnown
<1>2. ASSUME NEW m, Begin(m), turn = None, UNCHANGED <<manager, held, dialog>>
      PROVE  ChangesAreKnown'
  <2>1. turn'.step = "Dispatch"
    BY <1>2 DEF Begin
  <2>2. CASE NeedsSync
    <3>1. dirty' = modified /\ pending = None /\ pending' = None
      BY <1>2, <2>2 DEF Begin, SetProjectDirty, NoQuestion, question
    <3> QED BY <1>2, <2>1, <3>1 DEF manager, ChangesAreKnown
  <2>3. CASE ~NeedsSync
    <3>1. modified => dirty
      BY <1>2, <1>b, <2>3 DEF NeedsSync
    <3> QED BY <1>2, <2>1, <2>3, <3>1 DEF Begin, manager, session, context, question, ChangesAreKnown
  <2> QED BY <2>2, <2>3
<1>3. CASE (\E m \in Opening : Open(m)) \/ RequestClose
  BY <1>2, <1>3 DEF Open, RequestClose, Free
<1>4. CASE \E m \in Opening : StartFetch(m)
  BY <1>4 DEF StartFetch, session, context, question, manager, ChangesAreKnown
<1>5. ASSUME NEW f \in opens, FinishFetch(f)
      PROVE  ChangesAreKnown'
  <2>1. CASE Begin(f.move)
    BY <1>2, <1>5, <2>1 DEF FinishFetch, Idle
  <2>2. CASE UNCHANGED <<session, turn>>
    BY <1>5, <2>2 DEF FinishFetch, session, context, question, manager, ChangesAreKnown
  <2> QED BY <1>5, <2>1, <2>2 DEF FinishFetch
<1>6. CASE Dispatch
  <2>0. turn # None /\ turn.step = "Dispatch" /\ turn \in Turns /\ (modified => dirty) /\ current = project
    BY <1>6 DEF Dispatch, IntegrationTypeOK, ChangesAreKnown
  <2>1. CASE Obeyed
    <3>1. pending' = None /\ UNCHANGED <<current, modified>> /\ turn'.step = "Commit"
          /\ turn'.move = turn.move
      BY <2>0, <2>1 DEF Obeyed, Move, question, manager, Turns
    <3>2. modified => ~LeavesProject(turn.move)
      BY <2>0, <2>1 DEF Obeyed, Move, Answerable, Unresolved, Any
    <3>3. ~LeavesProject(turn.move) => turn.move.to = project
      BY <2>0 DEF LeavesProject, Turns, Opening, Closing
    <3> QED BY <2>0, <3>1, <3>2, <3>3 DEF ChangesAreKnown
  <2>2. CASE Asked
    BY <2>0, <2>2 DEF Asked, Ask, context, manager, ChangesAreKnown
  <2>3. CASE Refused
    BY <2>0, <2>3 DEF Refused, session, context, question, manager, ChangesAreKnown
  <2> QED BY <1>6, <2>1, <2>2, <2>3 DEF Dispatch
<1>7. CASE Commit
  BY <1>7 DEF Commit, Fresh, ChangesAreKnown
<1>8. CASE AnswerCancel
  BY <1>8 DEF AnswerCancel, Idle, ChangesAreKnown
<1>9. ASSUME NEW discard \in BOOLEAN, Answer(discard)
      PROVE  ChangesAreKnown'
  <2>1. /\ held # None /\ held \in Held /\ pending # None /\ held.token = pending.token
        /\ held.move \in Opening \cup {Closing}
    BY <1>9 DEF Answer, Stands, Resolve, IntegrationTypeOK, Held
  <2>2. pending.move = held.move /\ (modified => dirty) /\ current = project
    BY <1>9, <2>1 DEF QuestionIsOnScreen, ChangesAreKnown, Answer, Idle
  <2>3. pending' = None /\ generation' # generation
    BY <1>9, ResolveGoesTo DEF Answer
  <2>4. turn' = [step |-> "Commit", move |-> held.move, discard |-> discard]
    BY <1>9, <2>3 DEF Answer
  <2>5. CASE pending.changes.project
    BY <1>9, <2>3, <2>4, <2>5 DEF Answer, Saves, ChangesAreKnown
  <2>6. CASE ~pending.changes.project
    <3>1. ~(LeavesProject(held.move) /\ dirty)
      <4> DEFINE P == LeavesProject(pending.move) /\ dirty
                 L == LeavesItem(pending.move) /\ prep
      <4>1. pending.changes = [project |-> P, preparation |-> L]
        BY <2>1 DEF SessionInv, QuestionStands, Unresolved
      <4> HIDE DEF P, L
      <4>2. pending.changes.project = P
        BY <4>1
      <4>3. ~P
        BY <4>2, <2>6
      <4> QED BY <4>3, <2>2 DEF P
    <3>2. ~LeavesProject(held.move) => held.move.to = project
      BY <2>1 DEF LeavesProject, Opening, Closing
    <3> QED BY <1>9, <2>2, <2>3, <2>4, <3>1, <3>2 DEF Answer, ChangesAreKnown
  <2> QED BY <2>5, <2>6
<1>10. CASE AnswerStale
  BY <1>10 DEF AnswerStale, Idle, session, context, question, manager, ChangesAreKnown
<1>11. CASE Edit
  <2>1. held = None
    BY <1>11, IntegrationAssumption DEF Edit, Free, QuestionIsOnScreen, IntegrationTypeOK, Held
  <2> QED BY <1>11, <2>1 DEF Edit, Free, ChangesAreKnown
<1>12. CASE Save
  BY <1>12 DEF Save, Idle, ChangesAreKnown
<1>13. CASE RefreshShell
  BY <1>13 DEF RefreshShell, Idle, SetProjectDirty, NoQuestion, question, integration, manager, ChangesAreKnown
<1>14. ASSUME NEW m \in Moves, Move(m) \/ Ask(m), turn = None, UNCHANGED integration
       PROVE  ChangesAreKnown'
  <2>1. CASE Move(m)
    BY <1>14, <2>1 DEF Move, question, integration, ChangesAreKnown
  <2>2. CASE Ask(m)
    <3>1. pending'.token = nextToken /\ nextToken \in Nat
      BY <2>2, SessionAssumption DEF Ask, Question, SessionInv, ContextInv, TypeOK
    <3>2. held # None => held.token \in Nat /\ held.token < nextToken
      BY SessionAssumption DEF QuestionIsOnScreen, IntegrationTypeOK, Held
    <3> QED BY <1>14, <3>1, <3>2 DEF integration, ChangesAreKnown
  <2> QED BY <1>14, <2>1, <2>2
<1>15. CASE UserCommand \/ Callback
  <2>1. turn = None /\ UNCHANGED integration
    BY <1>15 DEF UserCommand, Callback, Free, Idle
  <2>2. CASE \E m \in Moves : Move(m) \/ Ask(m)
    BY <2>1, <2>2, <1>14
  <2>3. CASE ~\E m \in Moves : Move(m) \/ Ask(m)
    <3>1. \A i \in Items : [kind |-> "Select", to |-> i] \in Moves
      BY DEF Moves
    <3>2. [kind |-> "Clear", to |-> None] \in Moves
      BY DEF Moves
    <3>3. pending' = None \/ (pending = None /\ pending' = pending)
      BY <1>15, <2>3, <3>1, <3>2 DEF UserCommand, Callback, Navigate, Preview,
         ReturnFromLibrary, SetPreparationLock, BeginRun, DropQuestion, EndRun, question
    <3> QED BY <2>1, <3>3 DEF integration, ChangesAreKnown
  <2> QED BY <2>2, <2>3
<1>16. CASE ItemAnswer
  <2>1. pending' = None
    BY <1>16, ResolveGoesTo DEF ItemAnswer, Cancel
  <2> QED BY <1>16, <2>1 DEF ItemAnswer, Free, integration, ChangesAreKnown
<1> QED BY <1>1, <1>3, <1>4, <1>5, <1>6, <1>7, <1>8, <1>9, <1>10, <1>11, <1>12, <1>13,
           <1>15, <1>16 DEF IntegrationNext
-----------------------------------------------------------------------------
LEMMA FullInitHolds == IntegrationInit => FullInv
<1> SUFFICES ASSUME IntegrationInit
             PROVE  FullInv
  OBVIOUS
<1>1. SessionInv
  BY InitHolds DEF IntegrationInit
<1>2. modified \in BOOLEAN
  BY DEF IntegrationInit
<1>3. current = None /\ project = None /\ opens = {} /\ held = None /\ dialog = None
      /\ turn = None /\ pending = None /\ ~modified
  BY DEF IntegrationInit, Init
<1> QED BY <1>1, <1>2, <1>3 DEF FullInv, IntegrationInv, SessionInv, ContextInv, IntegrationTypeOK,
       QuestionIsOnScreen, ChangesAreKnown, FetchesAreKnown

LEMMA FullInvIsKept == FullInv /\ [IntegrationNext]_all => FullInv'
BY IntegrationInvIsKept, ChangesStayKnown, FetchesStayKnown DEF FullInv

\* What the integration does to the session are the session's own commands:
\* what holds of every session holds of this one.
THEOREM IntegrationUsesSession == IntegrationSpec => Spec
<1>1. IntegrationInit => Init
  BY DEF IntegrationInit
<1>2. FullInv /\ [IntegrationNext]_all => [Next]_session
  BY StepIsSessionStep DEF FullInv
<1> QED BY <1>1, <1>2, FullInitHolds, FullInvIsKept, PTL DEF IntegrationSpec, Spec

\* Between two calls the manager holds the project that is the session's.
THEOREM ManagerFollowsSession == IntegrationSpec => []SessionAndManagerAgree
<1>1. FullInv => SessionAndManagerAgree
  BY DEF FullInv, IntegrationInv, SessionAndManagerAgree
<1> QED BY <1>1, FullInitHolds, FullInvIsKept, PTL DEF IntegrationSpec

\* What is confirmed in the prompt is what the session asked about.
THEOREM PromptIsHonest == IntegrationSpec => []QuestionIsOnScreen
<1>1. FullInv => QuestionIsOnScreen
  BY DEF FullInv, IntegrationInv
<1> QED BY <1>1, FullInitHolds, FullInvIsKept, PTL DEF IntegrationSpec

LEMMA OnlyCommitReplaces ==
  ASSUME [IntegrationNext]_all, current' # current
  PROVE  Commit
BY DEF IntegrationNext, Open, StartFetch, FinishFetch, RequestClose, Dispatch, Obeyed, Asked,
   Refused, AnswerCancel, Answer, AnswerStale, Edit, Save, RefreshShell,
   UserCommand, Callback, ItemAnswer, integration, manager, all

\* A modified project makes way only when the user has said to discard it.
THEOREM SwitchesAskFirst == IntegrationSpec => SwitchAsksFirst
<1>1. FullInv /\ [IntegrationNext]_all => (modified /\ current' # current => turn.discard)
  <2> SUFFICES ASSUME FullInv, [IntegrationNext]_all, modified, current' # current
               PROVE  turn.discard
    OBVIOUS
  <2>1. Commit
    BY OnlyCommitReplaces
  <2> QED BY <2>1 DEF Commit, FullInv, ChangesAreKnown
<1> QED BY <1>1, FullInitHolds, FullInvIsKept, PTL DEF IntegrationSpec, SwitchAsksFirst

\* A project is fetched for the project that was open when it was asked for.
THEOREM FetchesAreNotLate == IntegrationSpec => FetchIsForWhatWasSeen
<1>1. FullInv /\ [IntegrationNext]_all =>
        (\A f \in opens : f \notin opens' /\ turn' # None => project = f.seen)
  <2> SUFFICES ASSUME FullInv, [IntegrationNext]_all, NEW f \in opens, f \notin opens', turn' # None
               PROVE  project = f.seen
    OBVIOUS
  <2>1. opens' # opens
    OBVIOUS
  <2>2. CASE \E m \in Opening : StartFetch(m)
    BY <2>2 DEF StartFetch
  <2>3. CASE ~\E m \in Opening : StartFetch(m)
    <3>1. PICK g \in opens : FinishFetch(g)
      BY <2>1, <2>3 DEF IntegrationNext, Open, RequestClose, Dispatch, Obeyed, Asked,
         Refused, Commit, AnswerCancel, Answer, AnswerStale, Edit, Save, RefreshShell,
         UserCommand, Callback, ItemAnswer, integration, manager, all
    <3>2. Expected(g)
      BY <3>1 DEF FinishFetch, Idle
    <3>3. f = g
      BY <3>1 DEF FinishFetch
    <3> QED BY <3>2, <3>3 DEF Expected, FullInv, FetchesAreKnown
  <2> QED BY <2>2, <2>3
<1> QED BY <1>1, FullInitHolds, FullInvIsKept, PTL DEF IntegrationSpec, FetchIsForWhatWasSeen
=============================================================================
