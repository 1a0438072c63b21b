-------------------------- MODULE ImportQueueProofs --------------------------
(***************************************************************************)
(* For any files, workers and batches: the counter of open tasks and the   *)
(* batch summary agree with the tasks there are, through extended batches, *)
(* replaced pools, cancels and the end of the application; and a task past *)
(* its insert has the row of its content to itself.                        *)
(***************************************************************************)
EXTENDS ImportQueue, FiniteSetTheorems, TLAPS

ToBePosted == IF mainPc = "joining" THEN Len(call.files) ELSE 0
Outcomes == summary.success + summary.failed + Len(summary.duplicates)
GivenUp == remaining - Cardinality(At(Open))

\* A task that gave up at the end of the application stays counted as open.
Ledger ==
  /\ Cardinality(At(Open)) <= remaining
  /\ ~shutdown => GivenUp = 0
  /\ active <=> remaining > 0
  /\ summary.total = Outcomes + Cardinality(At(Uncounted)) + ToBePosted + GivenUp

Inv == TypeOK /\ Ledger /\ SummaryAddsUp /\ RowIsOwn
-----------------------------------------------------------------------------
(* Counting the tasks at a stage.                                           *)

LEMMA CountIsNat ==
  ASSUME NEW S
  PROVE  IsFiniteSet(At(S)) /\ Cardinality(At(S)) \in Nat
<1>1. IsFiniteSet(Tasks) BY FS_Interval, ImportAssumption DEF Tasks
<1>2. At(S) \in SUBSET Tasks BY DEF At
<1> QED BY <1>1, <1>2, FS_Subset, FS_CardinalityType

LEMMA CountStays ==
  ASSUME NEW CONSTANT S, \A t \in Tasks : stage'[t] \in S <=> stage[t] \in S
  PROVE  At(S)' = At(S)
BY DEF At

LEMMA CountDrops ==
  ASSUME NEW CONSTANT S, NEW CONSTANT t \in Tasks, stage[t] \in S, stage'[t] \notin S,
         \A u \in Tasks \ {t} : stage'[u] \in S <=> stage[u] \in S
  PROVE  /\ Cardinality(At(S)') = Cardinality(At(S)) - 1
         /\ Cardinality(At(S)) >= 1
<1>1. At(S)' = At(S) \ {t} BY DEF At
<1>2. t \in At(S) BY DEF At
<1>3. IsFiniteSet(At(S)) /\ Cardinality(At(S)) \in Nat BY CountIsNat
<1>4. Cardinality(At(S) \ {t}) = Cardinality(At(S)) - 1 BY <1>2, <1>3, FS_RemoveElement
<1>5. Cardinality(At(S)) # 0 BY <1>2, <1>3, FS_EmptySet
<1> QED BY <1>1, <1>3, <1>4, <1>5

LEMMA CountGrows ==
  ASSUME NEW CONSTANT S, NEW new, NEW n \in Nat, IsFiniteSet(new), Cardinality(new) = n,
         At(S)' = At(S) \cup new, At(S) \cap new = {}
  PROVE  Cardinality(At(S)') = Cardinality(At(S)) + n
<1>1. IsFiniteSet(At(S)) /\ Cardinality(At(S)) \in Nat BY CountIsNat
<1>2. Cardinality(At(S) \cup new)
        = Cardinality(At(S)) + Cardinality(new) - Cardinality(At(S) \cap new)
  BY <1>1, FS_Union
<1>3. Cardinality(At(S) \cap new) = 0 BY FS_EmptySet
<1> QED BY <1>1, <1>2, <1>3
-----------------------------------------------------------------------------
(* Types.                                                                   *)

\* A task in hand goes on to a stage in which it is in hand or done.
LEMMA GoToKeepsStages ==
  ASSUME TypeOK, NEW t \in Tasks, NEW next \in Stages \ {"none"}, stage[t] # "none",
         GoTo(t, next)
  PROVE  /\ stage' \in [Tasks -> Stages]
         /\ stage'[t] = next /\ \A u \in Tasks \ {t} : stage'[u] = stage[u]
         /\ \A u \in Tasks : stage'[u] = "none" <=> stage[u] = "none"
BY DEF TypeOK, GoTo

LEMMA WokenKeepsStages ==
  ASSUME NEW st \in [Tasks -> Stages]
  PROVE  /\ Woken(st) \in [Tasks -> Stages]
         /\ \A u \in Tasks : Woken(st)[u] = IF st[u] = "asleep" THEN "stored" ELSE st[u]
BY DEF Woken, Stages, Working

LEMMA SummaryTypes ==
  ASSUME NEW s \in Summaries, NEW c \in Contents
  PROVE  /\ [s EXCEPT !.failed = s.failed + 1] \in Summaries
         /\ [s EXCEPT !.success = s.success + 1] \in Summaries
         /\ [s EXCEPT !.duplicates = Append(s.duplicates, c)] \in Summaries
<1>1. s.failed + 1 \in Nat /\ s.success + 1 \in Nat BY DEF Summaries
<1>2. Append(s.duplicates, c) \in Seq(Contents)
  <2>1. s.duplicates \in Seq(Contents) BY DEF Summaries
  <2> QED BY <2>1
<1> QED BY <1>1, <1>2 DEF Summaries

LEMMA NoSummaryType == NoSummary \in Summaries
<1>1. <<>> \in Seq(Contents) OBVIOUS
<1> QED BY <1>1 DEF NoSummary, Summaries

USE DEF GoTo

LEMMA HasContent ==
  ASSUME TypeOK, NEW t \in Tasks, stage[t] # "none"
  PROVE  content[t] \in Contents
<1>1. t \in Nat /\ posted \in Nat BY DEF Tasks, TypeOK
<1> QED BY <1>1 DEF TypeOK

LEMMA FailKeepsType ==
  ASSUME TypeOK, NEW t \in Tasks, stage[t] # "none", Fail(t), row' \in [Contents -> Tasks \cup {0}]
  PROVE  TypeOK'
<1>1. summary' \in Summaries
  <2>1. PICK c : content[t] = c /\ c \in Contents BY HasContent
  <2>2. summary' = [summary EXCEPT !.failed = summary.failed + 1] BY DEF Fail
  <2>3. summary \in Summaries BY DEF TypeOK
  <2> QED BY <2>1, <2>2, <2>3, SummaryTypes
<1>2. /\ stage' \in [Tasks -> Stages]
      /\ \A u \in Tasks : stage'[u] = "none" <=> stage[u] = "none"
  BY DEF Fail, TypeOK, Stages, Working
<1> QED BY <1>1, <1>2 DEF Fail, TypeOK, ui, flags

LEMMA MoveKeepsType ==
  ASSUME TypeOK, NEW t \in Tasks, stage[t] # "none", NEW next \in Stages \ {"none"},
         GoTo(t, next),
         UNCHANGED <<posted, content, skip, threads, flags, mainPc, call, offered, pending,
                     wantTags>>,
         captured' \in [Tasks -> Summaries], remaining' \in Nat, active' \in BOOLEAN,
         summary' \in Summaries, completed' = completed, row' \in [Contents -> Tasks \cup {0}],
         mailbox' \in Seq(Summaries)
  PROVE  TypeOK'
BY DEF TypeOK, flags

LEMMA StageKeepsType ==
  ASSUME TypeOK, NEW t \in Tasks, stage[t] = "counted" => remaining > 0, Stage(t)
  PROVE  TypeOK'
<1> USE DEF ui, flags, batch
<1>0. /\ captured \in [Tasks -> Summaries] /\ summary \in Summaries /\ remaining \in Nat
      /\ active \in BOOLEAN /\ row \in [Contents -> Tasks \cup {0}] /\ mailbox \in Seq(Summaries)
      /\ NoSummary \in Summaries
  BY NoSummaryType DEF TypeOK
<1> DEFINE others == Stages \ {"none"}
<1>n. {"queued", "done"} \cup Working \subseteq others BY DEF Stages, Working
<1>1. CASE Take(t) BY <1>1, <1>0, <1>n, MoveKeepsType DEF Take, Working
<1>2. CASE CountActive(t) BY <1>2, <1>0, <1>n, MoveKeepsType DEF CountActive, Working
<1>3. CASE Begin(t) BY <1>3, <1>0, <1>n, MoveKeepsType DEF Begin, Working
<1>4. CASE FailCancelled(t) BY <1>4, <1>0, FailKeepsType DEF FailCancelled
<1>5. CASE FailUnreadable(t) BY <1>5, <1>0, FailKeepsType DEF FailUnreadable
<1>6. CASE FindDuplicate(t)
  <2>1. content[t] \in Contents BY <1>6, HasContent DEF FindDuplicate
  <2>2. summary' \in Summaries BY <1>6, <1>0, <2>1, SummaryTypes DEF FindDuplicate
  <2> QED BY <1>6, <1>0, <1>n, <2>2, MoveKeepsType DEF FindDuplicate, Working
<1>7. CASE FindNoDuplicate(t) BY <1>7, <1>0, <1>n, MoveKeepsType DEF FindNoDuplicate, Working
<1>8. CASE Insert(t)
  <2>1. row' \in [Contents -> Tasks \cup {0}] BY <1>8, <1>0 DEF Insert
  <2> QED BY <1>8, <1>0, <1>n, <2>1, MoveKeepsType DEF Insert, Working
<1>9. CASE FailParseOrInsert(t) BY <1>9, <1>0, FailKeepsType DEF FailParseOrInsert
<1>10. CASE Store(t) BY <1>10, <1>0, <1>n, MoveKeepsType DEF Store, Working
<1>11. CASE FailStore(t)
  <2>1. row' \in [Contents -> Tasks \cup {0}] BY <1>11, <1>0 DEF FailStore, RemoveRow
  <2> QED BY <1>11, <2>1, FailKeepsType DEF FailStore
<1>12. CASE HandOver(t)
  <2> DEFINE st == [stage EXCEPT ![t] = "handed"]
  <2>1. st \in [Tasks -> Stages] /\ \A u \in Tasks : st[u] = "none" <=> stage[u] = "none"
    BY <1>12 DEF HandOver, TypeOK, Stages, Working
  <2>2. /\ stage' \in [Tasks -> Stages]
        /\ \A u \in Tasks : stage'[u] = "none" <=> stage[u] = "none"
    <3>1. stage' = Woken(st) BY <1>12 DEF HandOver
    <3> HIDE DEF st
    <3> QED BY <2>1, <3>1, WokenKeepsStages
  <2>3. completed' \in Seq(Tasks)
    <3>1. completed \in Seq(Tasks) BY DEF TypeOK
    <3> QED BY <1>12, <3>1 DEF HandOver
  <2> QED BY <1>12, <2>2, <2>3 DEF HandOver, TypeOK
<1>13. CASE FindNoRoom(t) BY <1>13, <1>0, <1>n, MoveKeepsType DEF FindNoRoom, Working
<1>14. CASE Sleep(t) BY <1>14, <1>0, <1>n, MoveKeepsType DEF Sleep, Working
<1>15. CASE GiveUp(t) BY <1>15, <1>0, <1>n, MoveKeepsType DEF GiveUp, Working
<1>16. CASE CountSuccess(t)
  <2>1. content[t] \in Contents BY <1>16, HasContent DEF CountSuccess
  <2>2. summary' \in Summaries BY <1>16, <1>0, <2>1, SummaryTypes DEF CountSuccess
  <2> QED BY <1>16, <1>0, <1>n, <2>2, MoveKeepsType DEF CountSuccess, Working
<1>17. CASE CheckBatchComplete(t)
  <2>1. remaining' \in Nat BY <1>17, <1>0 DEF CheckBatchComplete
  <2>2. captured' \in [Tasks -> Summaries] /\ active' \in BOOLEAN
    BY <1>17, <1>0 DEF CheckBatchComplete
  <2>3. PICK next \in {"last", "leaving"} : GoTo(t, next) BY <1>17 DEF CheckBatchComplete
  <2> QED BY <1>17, <1>0, <1>n, <2>1, <2>2, <2>3, MoveKeepsType DEF CheckBatchComplete, Working
<1>18. CASE Report(t)
  <2>1. mailbox' \in Seq(Summaries) BY <1>18, <1>0 DEF Report
  <2> QED BY <1>18, <1>0, <1>n, <2>1, MoveKeepsType DEF Report, Working
<1>19. CASE Finish(t) BY <1>19, <1>0, <1>n, MoveKeepsType DEF Finish, Working
<1> QED BY <1>1, <1>2, <1>3, <1>4, <1>5, <1>6, <1>7, <1>8, <1>9, <1>10, <1>11, <1>12,
           <1>13, <1>14, <1>15, <1>16, <1>17, <1>18, <1>19 DEF Stage

\* The tasks a call hands to the pool.
NewTasks(files) == (posted + 1) .. (posted + Len(files))

LEMMA PostingAddsTasks ==
  ASSUME TypeOK, NEW files \in Seq(Contents), NEW again \in BOOLEAN,
         posted + Len(files) <= MaxTasks, PostTasks(files, again)
  PROVE  /\ NewTasks(files) \subseteq Tasks
         /\ IsFiniteSet(NewTasks(files)) /\ Cardinality(NewTasks(files)) = Len(files)
         /\ \A t \in NewTasks(files) : stage[t] = "none" /\ stage'[t] = "queued"
         /\ \A t \in Tasks \ NewTasks(files) : stage'[t] = stage[t] /\ content'[t] = content[t]
<1>1. posted \in Nat /\ Len(files) \in Nat /\ MaxTasks \in Nat
  BY ImportAssumption DEF TypeOK
<1>2. NewTasks(files) \subseteq Tasks BY <1>1 DEF NewTasks, Tasks
<1>3. IsFiniteSet(NewTasks(files)) /\ Cardinality(NewTasks(files)) = Len(files)
  <2>1. posted + 1 \in Int /\ posted + Len(files) \in Int BY <1>1
  <2>2. /\ IsFiniteSet(NewTasks(files))
        /\ Cardinality(NewTasks(files)) = IF posted + 1 > posted + Len(files) THEN 0
                                          ELSE (posted + Len(files)) - (posted + 1) + 1
    BY <2>1, FS_Interval DEF NewTasks
  <2> QED BY <1>1, <2>2
<1>4. ASSUME NEW t \in NewTasks(files) PROVE stage[t] = "none"
  <2>1. t \in Tasks BY <1>2
  <2>2. t > posted BY <1>1 DEF NewTasks
  <2> QED BY <2>1, <2>2 DEF TypeOK
<1>5. \A t \in Tasks : /\ stage'[t] = IF t \in NewTasks(files) THEN "queued" ELSE stage[t]
                       /\ t \notin NewTasks(files) => content'[t] = content[t]
  BY DEF PostTasks, NewTasks, TypeOK
<1> QED BY <1>2, <1>3, <1>4, <1>5

LEMMA PostingKeepsType ==
  ASSUME TypeOK, NEW files \in Seq(Contents), NEW again \in BOOLEAN,
         posted + Len(files) <= MaxTasks, PostTasks(files, again),
         threads' \in 0 .. MaxThreads, summary' \in Summaries, tagging' \in BOOLEAN,
         mainPc' = "events", offered' \in Seq(Contents),
         UNCHANGED <<shutdown, completed, row, mailbox, pending, wantTags>>
  PROVE  TypeOK'
<1>0. /\ \A t \in NewTasks(files) : stage[t] = "none" /\ stage'[t] = "queued"
      /\ \A t \in Tasks \ NewTasks(files) : stage'[t] = stage[t] /\ content'[t] = content[t]
  BY PostingAddsTasks
<1>1. posted \in Nat /\ Len(files) \in Nat /\ MaxTasks \in Nat
  BY ImportAssumption DEF TypeOK
<1>2. posted' \in 0 .. MaxTasks BY <1>1 DEF PostTasks
<1>3. content' \in [Tasks -> Contents \cup {NoContent}] /\ skip' \in [Tasks -> BOOLEAN]
  <2>1. \A t \in NewTasks(files) : files[t - posted] \in Contents
    BY <1>1 DEF NewTasks
  <2> QED BY <2>1 DEF PostTasks, NewTasks, TypeOK
<1>4. stage' \in [Tasks -> Stages] /\ captured' \in [Tasks -> Summaries]
  BY DEF PostTasks, TypeOK, Stages
<1>5. ASSUME NEW t \in Tasks
      PROVE  /\ (stage'[t] = "none") <=> (t > posted')
             /\ (t <= posted') => content'[t] \in Contents
  <2>1. t \in Nat BY DEF Tasks
  <2>2. CASE t \in NewTasks(files)
    <3>1. t <= posted' BY <1>1, <2>1, <2>2 DEF NewTasks, PostTasks
    <3>2. files[t - posted] \in Contents BY <1>1, <2>1, <2>2 DEF NewTasks
    <3>3. content'[t] = files[t - posted] BY <2>2 DEF PostTasks, NewTasks, TypeOK
    <3>4. stage'[t] = "queued" BY <1>0, <2>2
    <3>5. ~ (t > posted') BY <1>2, <2>1, <3>1
    <3> QED BY <3>1, <3>2, <3>3, <3>4, <3>5
  <2>3. CASE t \notin NewTasks(files)
    <3>1. t <= posted \/ t > posted' BY <1>1, <2>1, <2>3 DEF NewTasks, PostTasks
    <3>2. stage'[t] = stage[t] /\ content'[t] = content[t] BY <1>0, <2>3
    <3>3. posted <= posted' BY <1>1 DEF PostTasks
    <3>4. t <= posted \/ t > posted BY <1>1, <2>1
    <3> QED BY <1>1, <1>2, <2>1, <3>1, <3>2, <3>3, <3>4 DEF TypeOK
  <2> QED BY <2>2, <2>3
<1>6. remaining' \in Nat BY <1>1 DEF PostTasks, CountWith, TypeOK
<1>7. active' \in BOOLEAN /\ cancelled' \in BOOLEAN
  BY DEF PostTasks, TypeOK
<1>8. /\ shutdown' \in BOOLEAN /\ wantTags' \in BOOLEAN
      /\ completed' \in Seq(Tasks) /\ pending' \in Seq(Tasks)
      /\ row' \in [Contents -> Tasks \cup {0}] /\ mailbox' \in Seq(Summaries)
  BY DEF TypeOK
<1> QED BY <1>2, <1>3, <1>4, <1>5, <1>6, <1>7, <1>8 DEF TypeOK

LEMMA EnqueueKeepsType ==
  ASSUME TypeOK, NEW files \in Seq(Contents), Len(files) > 0, NEW again \in BOOLEAN,
         Enqueue(files, again), mainPc = "events",
         tagging' \in BOOLEAN, offered' \in Seq(Contents)
  PROVE  TypeOK'
<1>0. posted \in Nat /\ Len(files) \in Nat /\ posted + Len(files) <= MaxTasks
  BY DEF TypeOK, Enqueue
<1>1. summary' \in Summaries
  <2>1. <<>> \in Seq(Contents) OBVIOUS
  <2>2. summary \in Summaries BY DEF TypeOK
  <2>3. summary.total + Len(files) \in Nat BY <1>0, <2>2 DEF Summaries
  <2> QED BY <1>0, <2>1, <2>2, <2>3 DEF Enqueue, Summaries, NoSummary
<1>2. CASE LooksIdle
  <2>1. mainPc' = "joining" /\ call' = [files |-> files, again |-> again]
    BY <1>2 DEF Enqueue
  <2>2. call' \in Calls /\ call'.files = files BY <2>1 DEF Calls
  <2> QED BY <1>0, <1>1, <1>2, <2>1, <2>2 DEF Enqueue, TypeOK, tasks
<1>3. CASE ~LooksIdle
  BY <1>0, <1>1, <1>3, PostingKeepsType DEF Enqueue, TypeOK
<1> QED BY <1>2, <1>3

\* The dialogs call enqueue with some files.
LEMMA CallHasFiles ==
  ASSUME TypeOK, Import \/ Reimport
  PROVE  /\ mainPc = "events" /\ tagging' \in BOOLEAN /\ offered' \in Seq(Contents)
         /\ \E files \in Seq(Contents), again \in BOOLEAN :
              Len(files) > 0 /\ Enqueue(files, again)
<1>1. CASE Import
  <2>1. PICK files \in Batches : Enqueue(files, FALSE) BY <1>1 DEF Import
  <2>2. files \in Seq(Contents) /\ Len(files) > 0
    BY <2>1, ImportAssumption DEF Batches
  <2> QED BY <1>1, <2>1, <2>2, ImportAssumption DEF Import, TypeOK
<1>2. CASE Reimport
  <2>1. offered \in Seq(Contents) /\ Len(offered) \in Nat BY DEF TypeOK
  <2>2. PICK n \in 1 .. Len(offered) : \E pick \in [1 .. n -> DOMAIN offered] :
          Enqueue([i \in 1 .. n |-> offered[pick[i]]], TRUE)
    BY <1>2 DEF Reimport
  <2>3. PICK pick \in [1 .. n -> DOMAIN offered] :
          Enqueue([i \in 1 .. n |-> offered[pick[i]]], TRUE)
    BY <2>2
  <2> DEFINE files == [i \in 1 .. n |-> offered[pick[i]]]
  <2>4. n \in Nat /\ n > 0 BY <2>1, <2>2
  <2>5. files \in [1 .. n -> Contents] BY <2>1, <2>3
  <2>6. files \in Seq(Contents) /\ Len(files) = n BY <2>4, <2>5
  <2>7. Enqueue(files, TRUE) BY <2>3
  <2>8. \E f \in Seq(Contents), again \in BOOLEAN : Len(f) > 0 /\ Enqueue(f, again)
    <3> HIDE DEF files
    <3> QED BY <2>4, <2>6, <2>7
  <2>9. <<>> \in Seq(Contents) OBVIOUS
  <2> QED BY <1>2, <2>8, <2>9 DEF Reimport, TypeOK
<1> QED BY <1>1, <1>2

LEMMA MainKeepsType ==
  ASSUME TypeOK, User \/ PoolReplaced \/ Frame \/ Destructor
  PROVE  TypeOK'
<1> USE DEF tasks, batch, flags, ui
<1>1. CASE Import \/ Reimport
  <2>1. PICK files \in Seq(Contents), again \in BOOLEAN :
          Len(files) > 0 /\ Enqueue(files, again)
    BY <1>1, CallHasFiles
  <2> QED BY <1>1, <2>1, CallHasFiles, EnqueueKeepsType
<1>3. CASE PoolReplaced
  <2>1. /\ call.files \in Seq(Contents) /\ call.again \in BOOLEAN
        /\ posted + Len(call.files) <= MaxTasks /\ PostTasks(call.files, call.again)
    BY <1>3 DEF PoolReplaced, TypeOK, Calls
  <2>2. PICK files \in Seq(Contents), again \in BOOLEAN :
          posted + Len(files) <= MaxTasks /\ PostTasks(files, again)
    BY <2>1
  <2>3. threads' \in 0 .. MaxThreads BY <1>3, ImportAssumption DEF PoolReplaced
  <2> QED BY <1>3, <2>2, <2>3, PostingKeepsType DEF PoolReplaced, TypeOK
<1>4. CASE Cancel BY <1>4 DEF Cancel, TypeOK
<1>5. CASE \E c \in Contents : Delete(c) BY <1>5 DEF Delete, TypeOK
<1>6. CASE Quit BY <1>6 DEF Quit, TypeOK
<1>7. CASE RunTasks
  <2>1. mailbox' \in Seq(Summaries) BY <1>7 DEF RunTasks
  <2>2. offered' \in Seq(Contents)
    <3>1. offered \in Seq(Contents) /\ mailbox \in Seq(Summaries) BY DEF TypeOK
    <3>2. \A i \in DOMAIN mailbox : mailbox[i].duplicates \in Seq(Contents)
      <4>1. \A i \in DOMAIN mailbox : mailbox[i] \in Summaries BY <3>1
      <4> QED BY <4>1 DEF Summaries
    <3> QED BY <1>7, <3>1, <3>2 DEF RunTasks
  <2>3. wantTags' \in BOOLEAN BY <1>7 DEF RunTasks, TypeOK
  <2> QED BY <1>7, <2>1, <2>2, <2>3 DEF RunTasks, TypeOK
<1>8. CASE Poll
  <2>1. pending' \in Seq(Tasks) /\ completed' \in Seq(Tasks)
    <3>1. pending \in Seq(Tasks) /\ completed \in Seq(Tasks) BY DEF TypeOK
    <3> QED BY <1>8, <3>1 DEF Poll
  <2>2. /\ stage' \in [Tasks -> Stages]
        /\ \A u \in Tasks : stage'[u] = "none" <=> stage[u] = "none"
    BY <1>8, WokenKeepsStages DEF Poll, TypeOK
  <2> QED BY <1>8, <2>1, <2>2 DEF Poll, TypeOK
<1>9. CASE ShowOne
  <2>1. pending' \in Seq(Tasks)
    <3>1. pending \in Seq(Tasks) BY DEF TypeOK
    <3> QED BY <1>9, <3>1 DEF ShowOne
  <2> QED BY <1>9, <2>1 DEF ShowOne, TypeOK
<1>10. CASE SetShutdown BY <1>10 DEF SetShutdown, TypeOK
<1>11. CASE NotifyCompleted
  <2>1. /\ stage' \in [Tasks -> Stages]
        /\ \A u \in Tasks : stage'[u] = "none" <=> stage[u] = "none"
    BY <1>11, WokenKeepsStages DEF NotifyCompleted, TypeOK
  <2> QED BY <1>11, <2>1 DEF NotifyCompleted, TypeOK
<1>12. CASE PoolGone BY <1>12 DEF PoolGone, TypeOK
<1> QED BY <1>1, <1>3, <1>4, <1>5, <1>6, <1>7, <1>8, <1>9, <1>10, <1>11, <1>12
        DEF User, Frame, Destructor
-----------------------------------------------------------------------------
(* The ledger.                                                              *)

LEMMA LedgerNumbers ==
  ASSUME TypeOK
  PROVE  /\ Cardinality(At(Open)) \in Nat /\ Cardinality(At(Uncounted)) \in Nat
         /\ remaining \in Nat /\ summary.total \in Nat /\ Outcomes \in Nat
         /\ ToBePosted \in Nat
<1>1. summary.duplicates \in Seq(Contents) /\ Len(summary.duplicates) \in Nat
  BY DEF TypeOK, Summaries
<1>2. summary.total \in Nat /\ summary.success \in Nat /\ summary.failed \in Nat
  BY DEF TypeOK, Summaries
<1>3. mainPc = "joining" => Len(call.files) \in Nat BY DEF TypeOK, Calls
<1> QED BY <1>1, <1>2, <1>3, CountIsNat DEF TypeOK, Outcomes, ToBePosted

\* A step that keeps each task on its side of the two lines.
LEMMA LedgerStays ==
  ASSUME Ledger, UNCHANGED <<remaining, active, shutdown, summary, mainPc, call>>,
         \A u \in Tasks : stage'[u] \in Open <=> stage[u] \in Open,
         \A u \in Tasks : stage'[u] \in Uncounted <=> stage[u] \in Uncounted
  PROVE  Ledger'
<1>1. At(Open)' = At(Open) /\ At(Uncounted)' = At(Uncounted)
  <2>1. At(Open)' = At(Open) BY CountStays
  <2>2. At(Uncounted)' = At(Uncounted) BY CountStays
  <2> QED BY <2>1, <2>2
<1> QED BY <1>1 DEF Ledger, GivenUp, Outcomes, ToBePosted

\* A task's outcome is counted.
LEMMA LedgerCounts ==
  ASSUME TypeOK, Ledger, NEW CONSTANT t \in Tasks, stage[t] \in Uncounted, GoTo(t, "counted"),
         UNCHANGED <<remaining, active, shutdown, mainPc, call>>,
         summary'.total = summary.total, Outcomes' = Outcomes + 1
  PROVE  Ledger'
<1>1. \A u \in Tasks : (stage'[u] \in Open) <=> (stage[u] \in Open)
  BY DEF TypeOK, Open
<1>2. At(Open)' = At(Open) BY <1>1, CountStays
<1>3. stage'[t] \notin Uncounted /\ \A u \in Tasks \ {t} : stage'[u] = stage[u]
  BY DEF TypeOK, Uncounted
<1>4. /\ Cardinality(At(Uncounted)') = Cardinality(At(Uncounted)) - 1
  BY <1>3, CountDrops
<1>5. ToBePosted' = ToBePosted BY DEF ToBePosted
<1> QED BY <1>2, <1>4, <1>5, LedgerNumbers DEF Ledger, GivenUp

\* A task leaves the open ones.
LEMMA OpenDrops ==
  ASSUME TypeOK, NEW CONSTANT t \in Tasks, stage[t] \in Open,
         NEW next \in {"last", "leaving"}, GoTo(t, next)
  PROVE  /\ Cardinality(At(Open)') = Cardinality(At(Open)) - 1
         /\ Cardinality(At(Open)) >= 1
<1>1. stage'[t] \notin Open /\ \A u \in Tasks \ {t} : stage'[u] = stage[u]
  BY DEF TypeOK, Open, Uncounted
<1> QED BY <1>1, CountDrops

LEMMA FailKeepsLedger ==
  ASSUME TypeOK, Ledger, NEW CONSTANT t \in Tasks, stage[t] \in Uncounted, Fail(t)
  PROVE  Ledger'
<1>1. summary \in Summaries BY DEF TypeOK
<1>2. /\ summary'.total = summary.total /\ summary'.failed = summary.failed + 1
      /\ summary'.success = summary.success /\ summary'.duplicates = summary.duplicates
  BY <1>1 DEF Fail, Summaries
<1>3. Len(summary.duplicates) \in Nat /\ summary.success \in Nat /\ summary.failed \in Nat
  BY <1>1 DEF Summaries
<1>4. Outcomes' = Outcomes + 1 BY <1>2, <1>3 DEF Outcomes
<1> QED BY <1>2, <1>4, LedgerCounts DEF Fail, flags, ui

LEMMA StageKeepsLedger ==
  ASSUME TypeOK, Ledger, NEW CONSTANT t \in Tasks, Stage(t)
  PROVE  Ledger'
<1> USE DEF batch, flags, ui
<1> DEFINE SameSides ==
      /\ \A u \in Tasks : stage'[u] \in Open <=> stage[u] \in Open
      /\ \A u \in Tasks : stage'[u] \in Uncounted <=> stage[u] \in Uncounted
    Same == UNCHANGED <<remaining, active, shutdown, summary, mainPc, call>>
<1>a. SameSides /\ Same => Ledger' BY LedgerStays
<1>s. stage \in [Tasks -> Stages] BY DEF TypeOK
<1>1. CASE \/ Take(t) \/ CountActive(t) \/ Begin(t) \/ FindNoDuplicate(t) \/ Insert(t)
           \/ Store(t) \/ FindNoRoom(t) \/ Sleep(t)
  <2>1. Same
    BY <1>1 DEF Take, CountActive, Begin, FindNoDuplicate, Insert, Store, FindNoRoom, Sleep
  <2>2. SameSides
    BY <1>1, <1>s DEF Take, CountActive, Begin, FindNoDuplicate, Insert, Store, FindNoRoom,
                     Sleep, Open, Uncounted
  <2> QED BY <1>a, <2>1, <2>2
<1>2. CASE FailCancelled(t) \/ FailUnreadable(t) \/ FailParseOrInsert(t) \/ FailStore(t)
  <2>1. stage[t] \in Uncounted /\ Fail(t)
    BY <1>2 DEF FailCancelled, FailUnreadable, FailParseOrInsert, FailStore, Uncounted
  <2> QED BY <2>1, FailKeepsLedger
<1>3. CASE FindDuplicate(t)
  <2>1. summary \in Summaries BY DEF TypeOK
  <2>2. /\ summary'.total = summary.total /\ summary'.failed = summary.failed
        /\ summary'.success = summary.success
        /\ summary'.duplicates = Append(summary.duplicates, content[t])
    BY <1>3, <2>1 DEF FindDuplicate, Summaries
  <2>3. /\ summary.success \in Nat /\ summary.failed \in Nat
        /\ Len(summary.duplicates) \in Nat
        /\ Len(summary'.duplicates) = Len(summary.duplicates) + 1
    <3>1. summary.duplicates \in Seq(Contents) BY <2>1 DEF Summaries
    <3>2. summary.success \in Nat /\ summary.failed \in Nat BY <2>1 DEF Summaries
    <3>3. Len(summary'.duplicates) = Len(summary.duplicates) + 1
      BY <1>3, <2>2, <3>1, HasContent DEF FindDuplicate
    <3> QED BY <3>1, <3>2, <3>3
  <2>n. summary'.success = summary.success /\ summary'.failed = summary.failed BY <2>2
  <2>4. Outcomes' = Outcomes + 1 BY <2>n, <2>3 DEF Outcomes
  <2>5. stage[t] \in Uncounted BY <1>3 DEF FindDuplicate, Uncounted
  <2> QED BY <1>3, <2>2, <2>4, <2>5, LedgerCounts DEF FindDuplicate
<1>4. CASE HandOver(t)
  <2> DEFINE st == [stage EXCEPT ![t] = "handed"]
  <2>1. st \in [Tasks -> Stages] BY <1>s DEF Stages, Working
  <2>2. stage' = Woken(st) BY <1>4 DEF HandOver
  <2>3. \A u \in Tasks : stage'[u] = IF st[u] = "asleep" THEN "stored" ELSE st[u]
    <3> HIDE DEF st
    <3> QED BY <2>1, <2>2, WokenKeepsStages
  <2>4. SameSides BY <1>4, <1>s, <2>3 DEF HandOver, Open, Uncounted
  <2> QED BY <1>4, <1>a, <2>4 DEF HandOver
<1>5. CASE GiveUp(t)
  <2>1. /\ Cardinality(At(Open)') = Cardinality(At(Open)) - 1
        /\ Cardinality(At(Open)) >= 1
    BY <1>5, OpenDrops DEF GiveUp, Open, Uncounted
  <2>2. stage'[t] \notin Uncounted /\ \A u \in Tasks \ {t} : stage'[u] = stage[u]
    BY <1>5, <1>s DEF GiveUp, Uncounted
  <2>3. stage[t] \in Uncounted BY <1>5 DEF GiveUp, Uncounted
  <2>4. Cardinality(At(Uncounted)') = Cardinality(At(Uncounted)) - 1
    BY <2>2, <2>3, CountDrops
  <2>5. /\ UNCHANGED <<remaining, active, shutdown, summary>> /\ shutdown
        /\ ToBePosted' = ToBePosted /\ Outcomes' = Outcomes
    BY <1>5 DEF GiveUp, ToBePosted, Outcomes
  <2> QED BY <2>1, <2>4, <2>5, LedgerNumbers DEF Ledger, GivenUp
<1>6. CASE CountSuccess(t)
  <2>1. summary \in Summaries BY DEF TypeOK
  <2>2. /\ summary'.total = summary.total /\ summary'.failed = summary.failed
        /\ summary'.success = summary.success + 1
        /\ summary'.duplicates = summary.duplicates
    BY <1>6, <2>1 DEF CountSuccess, Summaries
  <2>3. /\ summary.success \in Nat /\ summary.failed \in Nat
        /\ Len(summary.duplicates) \in Nat
    BY <2>1 DEF Summaries
  <2>4. Outcomes' = Outcomes + 1 BY <2>2, <2>3 DEF Outcomes
  <2>5. stage[t] \in Uncounted BY <1>6 DEF CountSuccess, Uncounted
  <2> QED BY <1>6, <2>2, <2>4, <2>5, LedgerCounts DEF CountSuccess
<1>7. CASE CheckBatchComplete(t)
  <2>1. PICK next \in {"last", "leaving"} : GoTo(t, next) BY <1>7 DEF CheckBatchComplete
  <2>2. /\ Cardinality(At(Open)') = Cardinality(At(Open)) - 1
        /\ Cardinality(At(Open)) >= 1
    BY <1>7, <2>1, OpenDrops DEF CheckBatchComplete, Open
  <2>3. \A u \in Tasks : stage'[u] \in Uncounted <=> stage[u] \in Uncounted
    BY <1>7, <1>s, <2>1 DEF CheckBatchComplete, Uncounted
  <2>4. At(Uncounted)' = At(Uncounted) BY <2>3, CountStays
  <2>5. /\ remaining' = remaining - 1 /\ UNCHANGED <<shutdown, summary>>
        /\ ToBePosted' = ToBePosted /\ Outcomes' = Outcomes
    BY <1>7 DEF CheckBatchComplete, ToBePosted, Outcomes
  <2>6. remaining \in Nat /\ remaining >= 1 /\ active
    BY <2>2, LedgerNumbers DEF Ledger
  <2>7. active' <=> remaining' > 0
    <3>1. CASE remaining = 1 BY <1>7, <3>1 DEF CheckBatchComplete
    <3>2. CASE remaining # 1
      <4>1. active' = active BY <1>7, <3>2 DEF CheckBatchComplete
      <4>2. remaining' > 0 BY <2>5, <2>6, <3>2
      <4> QED BY <2>6, <4>1, <4>2
    <3> QED BY <3>1, <3>2
  <2>8. /\ Cardinality(At(Open)') <= remaining' /\ (~shutdown' => GivenUp' = 0)
        /\ GivenUp' = GivenUp
    BY <2>2, <2>5, LedgerNumbers DEF Ledger, GivenUp
  <2> QED BY <2>4, <2>5, <2>7, <2>8 DEF Ledger
<1>8. CASE Report(t) \/ Finish(t)
  <2>1. Same BY <1>8 DEF Report, Finish
  <2>2. SameSides BY <1>8, <1>s DEF Report, Finish, Open, Uncounted
  <2> QED BY <1>a, <2>1, <2>2
<1> QED BY <1>1, <1>2, <1>3, <1>4, <1>5, <1>6, <1>7, <1>8 DEF Stage

\* Posting adds its files to both sides.
LEMMA PostingKeepsLedger ==
  ASSUME TypeOK, Ledger, NEW CONSTANT files \in Seq(Contents), Len(files) > 0,
         NEW again \in BOOLEAN,
         posted + Len(files) <= MaxTasks, PostTasks(files, again),
         mainPc' = "events", shutdown' = shutdown,
         \/ summary'.total - Outcomes' = summary.total - Outcomes - ToBePosted + Len(files)
         \/ (~active /\ summary'.total - Outcomes' = Len(files)),
         summary'.total \in Nat, Outcomes' \in Nat
  PROVE  Ledger'
<1> DEFINE o == Cardinality(At(Open))
           u == Cardinality(At(Uncounted))
           n == Len(files)
<1>0. n \in Nat BY DEF TypeOK
<1>1. /\ NewTasks(files) \subseteq Tasks
      /\ IsFiniteSet(NewTasks(files)) /\ Cardinality(NewTasks(files)) = n
      /\ \A t \in NewTasks(files) : stage[t] = "none" /\ stage'[t] = "queued"
      /\ \A t \in Tasks \ NewTasks(files) : stage'[t] = stage[t]
  BY PostingAddsTasks
<1>2. At(Open)' = At(Open) \cup NewTasks(files) /\ At(Open) \cap NewTasks(files) = {}
  BY <1>1 DEF At, Open, Uncounted
<1>3. At(Uncounted)' = At(Uncounted) \cup NewTasks(files)
      /\ At(Uncounted) \cap NewTasks(files) = {}
  BY <1>1 DEF At, Uncounted
<1>4. o' = o + n BY <1>0, <1>1, <1>2, CountGrows
<1>5. u' = u + n BY <1>0, <1>1, <1>3, CountGrows
<1>6. /\ o \in Nat /\ u \in Nat /\ remaining \in Nat
      /\ summary.total \in Nat /\ Outcomes \in Nat /\ ToBePosted \in Nat
  BY LedgerNumbers
<1>7. remaining' = remaining + n
  <2>1. CASE active BY <2>1 DEF PostTasks, CountWith
  <2>2. CASE ~active
    <3>1. remaining = 0 BY <2>2, <1>6 DEF Ledger
    <3> QED BY <2>2, <3>1, <1>0 DEF PostTasks, CountWith
  <2> QED BY <2>1, <2>2
<1>8. active' /\ remaining' > 0 BY <1>0, <1>6, <1>7 DEF PostTasks
<1>9. o <= remaining /\ (~shutdown => remaining - o = 0)
      /\ summary.total = Outcomes + u + ToBePosted + (remaining - o)
  BY DEF Ledger, GivenUp
<1>10. ~active => o = 0 /\ u = 0 /\ remaining = 0
  <2>1. At(Uncounted) \subseteq At(Open) BY DEF At, Open
  <2>2. u <= o BY <2>1, CountIsNat, FS_Subset
  <2>3. ~active => remaining = 0 BY <1>6 DEF Ledger
  <2> QED BY <1>6, <1>9, <2>2, <2>3
<1>11. ToBePosted' = 0 BY DEF ToBePosted
<1>12. summary'.total = Outcomes' + u' + ToBePosted' + (remaining' - o')
  <2> HIDE DEF o, u, n
  <2>1. CASE summary'.total - Outcomes' = summary.total - Outcomes - ToBePosted + n
    BY <2>1, <1>0, <1>4, <1>5, <1>6, <1>7, <1>9, <1>11
  <2>2. CASE ~active /\ summary'.total - Outcomes' = n
    BY <2>2, <1>0, <1>4, <1>5, <1>6, <1>7, <1>10, <1>11
  <2> QED BY <2>1, <2>2 DEF n
<1>13. o' <= remaining' /\ (~shutdown' => remaining' - o' = 0)
  BY <1>0, <1>4, <1>6, <1>7, <1>9
<1> QED BY <1>8, <1>12, <1>13 DEF Ledger, GivenUp

LEMMA EnqueueKeepsLedger ==
  ASSUME TypeOK, Ledger, NEW CONSTANT files \in Seq(Contents), Len(files) > 0,
         NEW again \in BOOLEAN, Enqueue(files, again), mainPc = "events"
  PROVE  Ledger'
<1>1. /\ Cardinality(At(Open)) \in Nat /\ Cardinality(At(Uncounted)) \in Nat
      /\ remaining \in Nat /\ summary.total \in Nat /\ Outcomes \in Nat
      /\ ToBePosted = 0 /\ Len(files) \in Nat
  BY LedgerNumbers DEF ToBePosted
<1>2. /\ active => summary'.total = summary.total + Len(files) /\ Outcomes' = Outcomes
      /\ ~active => summary'.total = Len(files) /\ Outcomes' = 0
  <2>1. summary \in Summaries BY DEF TypeOK
  <2>2. CASE active
    <3>1. summary' = [summary EXCEPT !.total = summary.total + Len(files)]
      BY <2>2 DEF Enqueue
    <3>2. /\ summary'.total = summary.total + Len(files)
          /\ summary'.success = summary.success /\ summary'.failed = summary.failed
          /\ summary'.duplicates = summary.duplicates
      BY <2>1, <3>1 DEF Summaries
    <3> QED BY <2>2, <3>2 DEF Outcomes
  <2>3. CASE ~active
    <3>1. summary' = [NoSummary EXCEPT !.total = Len(files)] BY <2>3 DEF Enqueue
    <3>2. /\ summary'.total = Len(files) /\ summary'.success = 0 /\ summary'.failed = 0
          /\ summary'.duplicates = <<>>
      BY <3>1 DEF NoSummary
    <3>3. Outcomes' = 0 BY <3>2 DEF Outcomes
    <3> QED BY <2>3, <3>2, <3>3
  <2> QED BY <2>2, <2>3
<1>3. CASE LooksIdle
  <2>1. At(Open)' = At(Open) /\ At(Uncounted)' = At(Uncounted)
    BY <1>3 DEF Enqueue, tasks, At
  <2>2. /\ UNCHANGED <<remaining, active, shutdown>> /\ mainPc' = "joining"
        /\ call'.files = files
    BY <1>3 DEF Enqueue
  <2>3. ToBePosted' = Len(files) BY <2>2 DEF ToBePosted
  <2>4. ~active => /\ remaining = 0 /\ Cardinality(At(Open)) = 0
                   /\ Cardinality(At(Uncounted)) = 0
    <3>1. At(Uncounted) \subseteq At(Open) BY DEF At, Open
    <3>2. Cardinality(At(Uncounted)) <= Cardinality(At(Open))
      BY <3>1, CountIsNat, FS_Subset
    <3> QED BY <1>1, <3>2 DEF Ledger
  <2>5. summary'.total = Outcomes' + Cardinality(At(Uncounted)) + Len(files) + GivenUp
    <3>1. CASE active
      BY <1>1, <1>2, <3>1 DEF Ledger, GivenUp
    <3>2. CASE ~active
      BY <1>1, <1>2, <2>4, <3>2 DEF GivenUp
    <3> QED BY <3>1, <3>2
  <2> QED BY <2>1, <2>2, <2>3, <2>5 DEF Ledger, GivenUp
<1>4. CASE ~LooksIdle
  <2>1. PostTasks(files, again) /\ mainPc' = "events" /\ shutdown' = shutdown
        /\ posted + Len(files) <= MaxTasks
    BY <1>4 DEF Enqueue
  <2>2. CASE active
    <3>1. summary'.total - Outcomes' = summary.total - Outcomes - ToBePosted + Len(files)
      BY <1>1, <1>2, <2>2
    <3>2. summary'.total \in Nat /\ Outcomes' \in Nat BY <1>1, <1>2, <2>2
    <3> QED BY <2>1, <3>1, <3>2, PostingKeepsLedger
  <2>3. CASE ~active
    <3>1. summary'.total - Outcomes' = Len(files) BY <1>1, <1>2, <2>3
    <3>2. summary'.total \in Nat /\ Outcomes' \in Nat BY <1>1, <1>2, <2>3
    <3> QED BY <2>1, <2>3, <3>1, <3>2, PostingKeepsLedger
  <2> QED BY <2>2, <2>3
<1> QED BY <1>3, <1>4

LEMMA MainKeepsLedger ==
  ASSUME TypeOK, Ledger, User \/ PoolReplaced \/ Frame \/ Destructor
  PROVE  Ledger'
<1> USE DEF tasks, batch, flags, ui
<1> DEFINE Same == UNCHANGED <<remaining, active, shutdown, summary>> /\ ToBePosted' = ToBePosted
<1>a. ASSUME UNCHANGED <<stage, remaining, active, shutdown, summary>>, ToBePosted' = ToBePosted
      PROVE  Ledger'
  <2>1. At(Open)' = At(Open) /\ At(Uncounted)' = At(Uncounted) BY <1>a DEF At
  <2> QED BY <1>a, <2>1 DEF Ledger, GivenUp, Outcomes
<1>b. ASSUME UNCHANGED <<remaining, active, shutdown, summary>>, ToBePosted' = ToBePosted,
             stage' = Woken(stage)
      PROVE  Ledger'
  <2>1. \A u \in Tasks : stage'[u] = IF stage[u] = "asleep" THEN "stored" ELSE stage[u]
    BY <1>b, WokenKeepsStages DEF TypeOK
  <2>2. \A u \in Tasks : stage'[u] \in Open <=> stage[u] \in Open
    BY <2>1 DEF Open, Uncounted
  <2>3. \A u \in Tasks : stage'[u] \in Uncounted <=> stage[u] \in Uncounted
    BY <2>1 DEF Uncounted
  <2>4. At(Open)' = At(Open) BY <2>2, CountStays
  <2>5. At(Uncounted)' = At(Uncounted) BY <2>3, CountStays
  <2> QED BY <1>b, <2>4, <2>5 DEF Ledger, GivenUp, Outcomes
<1>1. CASE Import \/ Reimport
  <2>1. PICK files \in Seq(Contents), again \in BOOLEAN :
          Len(files) > 0 /\ Enqueue(files, again)
    BY <1>1, CallHasFiles
  <2> QED BY <1>1, <2>1, CallHasFiles, EnqueueKeepsLedger
<1>2. CASE PoolReplaced
  <2>1. /\ call.files \in Seq(Contents) /\ call.again \in BOOLEAN
        /\ posted + Len(call.files) <= MaxTasks /\ ToBePosted = Len(call.files)
    BY <1>2 DEF PoolReplaced, TypeOK, Calls, ToBePosted
  <2>2. PICK files \in Seq(Contents), again \in BOOLEAN :
          files = call.files /\ again = call.again
    BY <2>1
  <2>3. /\ Len(files) > 0 /\ posted + Len(files) <= MaxTasks
        /\ PostTasks(files, again) /\ mainPc' = "events" /\ shutdown' = shutdown
        /\ ToBePosted = Len(files) /\ summary' = summary
    BY <1>2, <2>1, <2>2 DEF PoolReplaced, TypeOK
  <2>4. Outcomes' = Outcomes BY <2>3 DEF Outcomes
  <2>5. summary'.total - Outcomes' = summary.total - Outcomes - ToBePosted + Len(files)
    BY <2>3, <2>4, LedgerNumbers
  <2>6. summary'.total \in Nat /\ Outcomes' \in Nat BY <2>3, <2>4, LedgerNumbers
  <2> QED BY <2>3, <2>5, <2>6, PostingKeepsLedger
<1>3. CASE Cancel BY <1>3, <1>a DEF Cancel, ToBePosted
<1>4. CASE \E c \in Contents : Delete(c) BY <1>4, <1>a DEF Delete, ToBePosted
<1>5. CASE Quit BY <1>5, <1>a DEF Quit, ToBePosted
<1>6. CASE RunTasks BY <1>6, <1>a DEF RunTasks, ToBePosted
<1>7. CASE Poll BY <1>7, <1>b DEF Poll, ToBePosted
<1>8. CASE ShowOne BY <1>8, <1>a DEF ShowOne, ToBePosted
<1>9. CASE SetShutdown
  <2>1. At(Open)' = At(Open) /\ At(Uncounted)' = At(Uncounted) BY <1>9 DEF SetShutdown, At
  <2>2. UNCHANGED <<remaining, active, summary>> /\ shutdown' /\ ToBePosted' = ToBePosted
    BY <1>9 DEF SetShutdown, ToBePosted
  <2> QED BY <2>1, <2>2 DEF Ledger, GivenUp, Outcomes
<1>10. CASE NotifyCompleted BY <1>10, <1>b DEF NotifyCompleted, ToBePosted
<1>11. CASE PoolGone BY <1>11, <1>a DEF PoolGone, ToBePosted
<1> QED BY <1>1, <1>2, <1>3, <1>4, <1>5, <1>6, <1>7, <1>8, <1>9, <1>10, <1>11
        DEF User, Frame, Destructor
-----------------------------------------------------------------------------
(* Reported summaries.                                                      *)

LEMMA LastSummaryAddsUp ==
  ASSUME TypeOK, Ledger, NEW CONSTANT t \in Tasks, stage[t] = "counted", BatchStateFree,
         remaining = 1
  PROVE  AddsUp(summary)
<1>1. t \in At(Open) /\ t \notin At(Uncounted) BY DEF At, Open, Uncounted
<1>2. At(Uncounted) \subseteq At(Open) \ {t} BY <1>1 DEF At, Open
<1>3. IsFiniteSet(At(Open)) /\ Cardinality(At(Open)) \in Nat BY CountIsNat
<1>4. /\ IsFiniteSet(At(Open) \ {t})
      /\ Cardinality(At(Open) \ {t}) = Cardinality(At(Open)) - 1
  BY <1>1, <1>3, FS_RemoveElement
<1>5. Cardinality(At(Uncounted)) <= Cardinality(At(Open) \ {t}) BY <1>2, <1>4, FS_Subset
<1>6. ToBePosted = 0 BY DEF BatchStateFree, HoldsBatchState, ToBePosted
<1>7. Cardinality(At(Open)) <= 1 BY DEF Ledger
<1>8. Cardinality(At(Uncounted)) = 0 /\ Cardinality(At(Open)) = 1
  BY <1>3, <1>4, <1>5, <1>7, LedgerNumbers
<1>9. summary.total = Outcomes BY <1>6, <1>8, LedgerNumbers DEF Ledger, GivenUp
<1> QED BY <1>9 DEF AddsUp, Outcomes

LEMMA StageKeepsSummaries ==
  ASSUME TypeOK, Ledger, SummaryAddsUp, NEW CONSTANT t \in Tasks, Stage(t)
  PROVE  SummaryAddsUp'
<1> USE DEF batch, flags, ui
<1>s. stage \in [Tasks -> Stages] BY DEF TypeOK
<1>1. CASE CheckBatchComplete(t)
  <2>1. remaining = 1 => AddsUp(summary) BY <1>1, LastSummaryAddsUp DEF CheckBatchComplete
  <2>2. /\ mailbox' = mailbox
        /\ \A u \in Tasks \ {t} : captured'[u] = captured[u] /\ stage'[u] = stage[u]
        /\ stage'[t] = "last" => remaining = 1 /\ captured'[t] = summary
    BY <1>1, <1>s DEF CheckBatchComplete, TypeOK
  <2>3. ASSUME NEW u \in At({"last"})' PROVE AddsUp(captured'[u])
    <3>1. u \in Tasks /\ stage'[u] = "last" BY <2>3 DEF At
    <3>2. CASE u = t BY <2>1, <2>2, <3>1, <3>2
    <3>3. CASE u # t
      <4>1. u \in At({"last"}) BY <2>2, <3>1, <3>3 DEF At
      <4> QED BY <2>2, <3>1, <3>3, <4>1 DEF SummaryAddsUp
    <3> QED BY <3>2, <3>3
  <2> QED BY <2>2, <2>3 DEF SummaryAddsUp, AddsUp
<1>2. CASE Report(t)
  <2>1. t \in At({"last"}) /\ captured[t] \in Summaries BY <1>2 DEF Report, At, TypeOK
  <2>2. mailbox \in Seq(Summaries) BY DEF TypeOK
  <2>3. \A i \in DOMAIN mailbox' : mailbox'[i] = captured[t]
                                   \/ (i \in DOMAIN mailbox /\ mailbox'[i] = mailbox[i])
    BY <1>2, <2>1, <2>2 DEF Report
  <2>4. \A i \in DOMAIN mailbox' : AddsUp(mailbox'[i]) BY <2>1, <2>3 DEF SummaryAddsUp
  <2>5. \A u \in At({"last"})' : u \in At({"last"}) /\ captured'[u] = captured[u]
    BY <1>2, <1>s DEF Report, At, TypeOK
  <2> QED BY <2>4, <2>5 DEF SummaryAddsUp, AddsUp
<1>3. CASE HandOver(t)
  <2> DEFINE st == [stage EXCEPT ![t] = "handed"]
  <2>1. st \in [Tasks -> Stages] BY <1>s DEF Stages, Working
  <2>2. stage' = Woken(st) BY <1>3 DEF HandOver
  <2>3. \A u \in Tasks : stage'[u] = IF st[u] = "asleep" THEN "stored" ELSE st[u]
    <3> HIDE DEF st
    <3> QED BY <2>1, <2>2, WokenKeepsStages
  <2>4. At({"last"})' \subseteq At({"last"}) BY <1>s, <2>3 DEF At
  <2>5. captured' = captured /\ mailbox' = mailbox BY <1>3 DEF HandOver
  <2> QED BY <2>4, <2>5 DEF SummaryAddsUp, AddsUp
<1>4. CASE ~ (CheckBatchComplete(t) \/ Report(t) \/ HandOver(t))
  <2>1. captured' = captured /\ mailbox' = mailbox
    BY <1>4 DEF Stage, Take, CountActive, Begin, FindNoDuplicate, Insert, Store, FindNoRoom,
                Sleep, FailCancelled, FailUnreadable, FailParseOrInsert, FailStore, Fail,
                FindDuplicate, GiveUp, CountSuccess, Finish
  <2>2. PICK next \in Stages \ {"last"} : stage' = [stage EXCEPT ![t] = next]
    BY <1>4 DEF Stage, Take, CountActive, Begin, FindNoDuplicate, Insert, Store, FindNoRoom,
                Sleep, FailCancelled, FailUnreadable, FailParseOrInsert, FailStore, Fail,
                FindDuplicate, GiveUp, CountSuccess, Finish, Stages, Working
  <2>3. At({"last"})' \subseteq At({"last"}) BY <1>s, <2>2 DEF At
  <2> QED BY <2>1, <2>3 DEF SummaryAddsUp, AddsUp
<1> QED BY <1>1, <1>2, <1>3, <1>4

\* What the main thread does to the stages: it posts tasks and wakes sleepers.
LEMMA MainTouchesStages ==
  ASSUME TypeOK, User \/ PoolReplaced \/ Frame \/ Destructor
  PROVE  /\ captured' = captured
         /\ \A t \in Tasks : \/ stage'[t] = stage[t] /\ content'[t] = content[t]
                            \/ stage'[t] = "queued"
                            \/ /\ stage[t] = "asleep" /\ stage'[t] = "stored"
                               /\ content'[t] = content[t]
<1> USE DEF tasks, batch, flags, ui
<1>1. ASSUME NEW files \in Seq(Contents), NEW again \in BOOLEAN,
             posted + Len(files) <= MaxTasks, PostTasks(files, again)
      PROVE  /\ captured' = captured
             /\ \A t \in Tasks : \/ stage'[t] = stage[t] /\ content'[t] = content[t]
                                \/ stage'[t] = "queued"
  <2>1. /\ \A t \in NewTasks(files) : stage'[t] = "queued"
        /\ \A t \in Tasks \ NewTasks(files) : stage'[t] = stage[t] /\ content'[t] = content[t]
    BY <1>1, PostingAddsTasks
  <2> QED BY <1>1, <2>1 DEF PostTasks
<1>2. CASE Import \/ Reimport
  <2>1. PICK files \in Seq(Contents), again \in BOOLEAN : Enqueue(files, again)
    BY <1>2, CallHasFiles
  <2>2. CASE LooksIdle BY <2>1, <2>2 DEF Enqueue
  <2>3. CASE ~LooksIdle
    <3>1. posted + Len(files) <= MaxTasks /\ PostTasks(files, again)
      BY <2>1, <2>3 DEF Enqueue
    <3> QED BY <1>1, <3>1
  <2> QED BY <2>2, <2>3
<1>3. CASE PoolReplaced
  <2>1. PICK files \in Seq(Contents), again \in BOOLEAN :
          posted + Len(files) <= MaxTasks /\ PostTasks(files, again)
    BY <1>3 DEF PoolReplaced, TypeOK, Calls
  <2> QED BY <1>1, <2>1
<1>4. CASE Poll \/ NotifyCompleted
  <2>1. \A t \in Tasks : Woken(stage)[t] = IF stage[t] = "asleep" THEN "stored" ELSE stage[t]
    BY WokenKeepsStages DEF TypeOK
  <2> QED BY <1>4, <2>1 DEF Poll, NotifyCompleted
<1>5. CASE \/ Cancel \/ (\E c \in Contents : Delete(c)) \/ Quit \/ RunTasks \/ ShowOne
           \/ SetShutdown \/ PoolGone
  BY <1>5 DEF Cancel, Delete, Quit, RunTasks, ShowOne, SetShutdown, PoolGone
<1> QED BY <1>2, <1>3, <1>4, <1>5 DEF User, Frame, Destructor

LEMMA MainKeepsSummaries ==
  ASSUME TypeOK, SummaryAddsUp, User \/ PoolReplaced \/ Frame \/ Destructor
  PROVE  SummaryAddsUp'
<1>1. captured' = captured /\ At({"last"})' \subseteq At({"last"})
  BY MainTouchesStages DEF At
<1>2. \A i \in DOMAIN mailbox' : i \in DOMAIN mailbox /\ mailbox'[i] = mailbox[i]
  <2>1. CASE RunTasks BY <2>1 DEF RunTasks
  <2>2. CASE ~RunTasks
    BY <2>2 DEF User, Frame, Destructor, Import, Reimport, Enqueue, PoolReplaced, Cancel,
                Delete, Quit, Poll, ShowOne, SetShutdown, NotifyCompleted, PoolGone, ui
  <2> QED BY <2>1, <2>2
<1> QED BY <1>1, <1>2 DEF SummaryAddsUp, AddsUp
-----------------------------------------------------------------------------
(* Rows.                                                                    *)

Imported == {"inserted", "stored", "noRoom", "asleep", "handed"}

LEMMA StageKeepsRows ==
  ASSUME TypeOK, RowIsOwn, NEW CONSTANT t \in Tasks, Stage(t)
  PROVE  RowIsOwn'
<1> USE DEF batch, flags, ui
<1>s. stage \in [Tasks -> Stages] /\ row \in [Contents -> Tasks \cup {0}] BY DEF TypeOK
<1>c. content' = content
  BY DEF Stage, Take, CountActive, Begin, FindNoDuplicate, Insert, Store, FindNoRoom,
         Sleep, FailCancelled, FailUnreadable, FailParseOrInsert, FailStore, Fail,
         FindDuplicate, GiveUp, CountSuccess, Finish, CheckBatchComplete, Report, HandOver
<1>o. \A u \in Tasks : stage[u] \in Imported => content[u] \in Contents /\ row[content[u]] = u
  BY HasContent DEF RowIsOwn, At, Imported
<1>q. (\A u \in Tasks : stage'[u] \in Imported => row'[content[u]] = u) => RowIsOwn'
  BY <1>c DEF RowIsOwn, At, Imported
<1>1. CASE Insert(t)
  <2>1. content[t] \in Contents /\ row[content[t]] = 0
    BY <1>1, HasContent DEF Insert, MayInsert, IsKnown
  <2>2. \A u \in Tasks : u # 0 BY ImportAssumption DEF Tasks
  <2>3. ASSUME NEW u \in Tasks, stage'[u] \in Imported PROVE row'[content[u]] = u
    <3>1. CASE u = t BY <1>1, <1>s, <2>1, <3>1 DEF Insert
    <3>2. CASE u # t
      <4>1. stage[u] \in Imported BY <1>1, <1>s, <2>3, <3>2 DEF Insert
      <4>2. content[u] # content[t] BY <1>o, <2>1, <2>2, <4>1
      <4> QED BY <1>1, <1>s, <1>o, <2>1, <4>1, <4>2 DEF Insert
    <3> QED BY <3>1, <3>2
  <2> QED BY <1>q, <2>3
<1>2. CASE FailStore(t)
  <2>1. \A u \in Tasks : stage'[u] \in Imported => u # t /\ stage[u] \in Imported
    BY <1>2, <1>s DEF FailStore, Fail, Imported
  <2>2. \A u \in Tasks : stage'[u] \in Imported => row'[content[u]] = u
    BY <1>2, <1>s, <1>o, <2>1 DEF FailStore, RemoveRow
  <2> QED BY <1>q, <2>2
<1>3. CASE HandOver(t)
  <2> DEFINE st == [stage EXCEPT ![t] = "handed"]
  <2>1. st \in [Tasks -> Stages] BY <1>s DEF Stages, Working
  <2>2. stage' = Woken(st) BY <1>3 DEF HandOver
  <2>3. \A u \in Tasks : stage'[u] = IF st[u] = "asleep" THEN "stored" ELSE st[u]
    <3> HIDE DEF st
    <3> QED BY <2>1, <2>2, WokenKeepsStages
  <2>4. \A u \in Tasks : stage'[u] \in Imported => stage[u] \in Imported
    BY <1>3, <1>s, <2>3 DEF HandOver, Imported
  <2>5. row' = row BY <1>3 DEF HandOver
  <2> QED BY <1>o, <1>q, <2>4, <2>5
<1>4. CASE ~ (Insert(t) \/ FailStore(t) \/ HandOver(t))
  <2>1. row' = row
    BY <1>4 DEF Stage, Take, CountActive, Begin, FindNoDuplicate, Store, FindNoRoom,
                Sleep, FailCancelled, FailUnreadable, FailParseOrInsert,
                FindDuplicate, GiveUp, CountSuccess, Finish, CheckBatchComplete, Report
  <2>2. \A u \in Tasks : stage'[u] \in Imported => stage[u] \in Imported
    BY <1>4, <1>s
       DEF Stage, Take, CountActive, Begin, FindNoDuplicate, Store, FindNoRoom,
           Sleep, FailCancelled, FailUnreadable, FailParseOrInsert, Fail,
           FindDuplicate, GiveUp, CountSuccess, Finish, CheckBatchComplete, Report, Imported
  <2> QED BY <1>o, <1>q, <2>1, <2>2
<1> QED BY <1>1, <1>2, <1>3, <1>4

LEMMA MainKeepsRows ==
  ASSUME TypeOK, RowIsOwn, User \/ PoolReplaced \/ Frame \/ Destructor
  PROVE  RowIsOwn'
<1>1. \A u \in Tasks : stage'[u] \in Imported =>
                        stage[u] \in Imported /\ content'[u] = content[u]
  BY MainTouchesStages DEF Imported
<1>o. \A u \in Tasks : stage[u] \in Imported => content[u] \in Contents /\ row[content[u]] = u
  BY HasContent DEF RowIsOwn, At, Imported
<1>2. CASE \E c \in Contents : Delete(c)
  <2>1. PICK c \in Contents : Delete(c) BY <1>2
  <2>2. stage[row[c]] \notin Imported BY <2>1 DEF Delete, Imported
  <2>3. \A u \in Tasks : stage[u] \in Imported => row'[content[u]] = u
    BY <1>o, <2>1, <2>2 DEF Delete, TypeOK
  <2> QED BY <1>1, <2>3 DEF RowIsOwn, At, Imported
<1>3. CASE ~ \E c \in Contents : Delete(c)
  <2>1. row' = row
    BY <1>3 DEF User, Frame, Destructor, Import, Reimport, Enqueue, PoolReplaced, Cancel,
                Quit, RunTasks, Poll, ShowOne, SetShutdown, NotifyCompleted, PoolGone
  <2> QED BY <1>1, <1>o, <2>1 DEF RowIsOwn, At, Imported
<1> QED BY <1>2, <1>3
-----------------------------------------------------------------------------
LEMMA ImportInit == Init => Inv
<1> SUFFICES ASSUME Init PROVE Inv OBVIOUS
<1>1. TypeOK
  <2>1. \A t \in Tasks : t > 0 /\ ~ (t <= 0) BY ImportAssumption DEF Tasks
  <2>2. NoSummary \in Summaries BY NoSummaryType
  <2>3. posted \in 0 .. MaxTasks /\ threads \in 0 .. MaxThreads /\ remaining \in Nat
    BY ImportAssumption DEF Init
  <2>4. content \in [Tasks -> Contents \cup {NoContent}] /\ skip \in [Tasks -> BOOLEAN]
    BY DEF Init
  <2>5. stage \in [Tasks -> Stages] BY DEF Init, Stages
  <2>6. captured \in [Tasks -> Summaries] /\ summary \in Summaries BY <2>2 DEF Init
  <2>7. \A t \in Tasks : (stage[t] = "none") <=> (t > posted) BY <2>1 DEF Init
  <2>8. \A t \in Tasks : (t <= posted) => content[t] \in Contents BY <2>1 DEF Init
  <2>9. completed \in Seq(Tasks) /\ pending \in Seq(Tasks)
        /\ offered \in Seq(Contents) /\ mailbox \in Seq(Summaries)
    BY DEF Init
  <2>10. row \in [Contents -> Tasks \cup {0}] BY DEF Init
  <2>11. /\ active \in BOOLEAN /\ cancelled \in BOOLEAN /\ shutdown \in BOOLEAN
         /\ tagging \in BOOLEAN /\ wantTags \in BOOLEAN /\ mainPc = "events"
    BY DEF Init
  <2> QED BY <2>3, <2>4, <2>5, <2>6, <2>7, <2>8, <2>9, <2>10, <2>11 DEF TypeOK
<1>2. At(Open) = {} /\ At(Uncounted) = {} /\ At(Imported) = {} /\ At({"last"}) = {}
  BY DEF Init, At, Open, Uncounted, Imported
<1>3. Cardinality(At(Open)) = 0 /\ Cardinality(At(Uncounted)) = 0 BY <1>2, FS_EmptySet
<1>4. Ledger
  <2>1. ToBePosted = 0 /\ Outcomes = 0 /\ summary.total = 0
    BY DEF Init, ToBePosted, Outcomes, NoSummary
  <2>2. remaining = 0 /\ active = FALSE BY DEF Init
  <2> QED BY <1>3, <2>1, <2>2 DEF Ledger, GivenUp
<1>5. SummaryAddsUp BY <1>2 DEF Init, SummaryAddsUp
<1>6. RowIsOwn BY <1>2 DEF RowIsOwn, Imported
<1> QED BY <1>1, <1>4, <1>5, <1>6 DEF Inv

LEMMA ImportStep == Inv /\ [Next]_vars => Inv'
<1> SUFFICES ASSUME Inv, [Next]_vars PROVE Inv' OBVIOUS
<1>0. TypeOK /\ Ledger /\ SummaryAddsUp /\ RowIsOwn BY DEF Inv
<1>1. ASSUME NEW t \in Tasks, Stage(t) PROVE Inv'
  <2>1. stage[t] = "counted" => remaining > 0
    <3>1. stage[t] = "counted" => t \in At(Open) BY DEF At, Open
    <3>2. t \in At(Open) => Cardinality(At(Open)) # 0 BY CountIsNat, FS_EmptySet
    <3> QED BY <1>0, <3>1, <3>2, LedgerNumbers DEF Ledger
  <2> QED BY <1>0, <1>1, <2>1, StageKeepsType, StageKeepsLedger, StageKeepsSummaries,
             StageKeepsRows DEF Inv
<1>2. ASSUME User \/ PoolReplaced \/ Frame \/ Destructor PROVE Inv'
  BY <1>0, <1>2, MainKeepsType, MainKeepsLedger, MainKeepsSummaries, MainKeepsRows DEF Inv
<1>3. CASE UNCHANGED vars
  <2> USE <1>3 DEF vars, tasks, batch, flags, ui
  <2>1. \A S : At(S)' = At(S) BY DEF At
  <2>2. TypeOK' BY <1>0 DEF TypeOK
  <2>3. At(Open)' = At(Open) /\ At(Uncounted)' = At(Uncounted) /\ At({"last"})' = At({"last"})
        /\ At(Imported)' = At(Imported)
    BY DEF At
  <2>4. ToBePosted' = ToBePosted /\ Outcomes' = Outcomes BY DEF ToBePosted, Outcomes
  <2>5. Ledger' BY <1>0, <2>3, <2>4 DEF Ledger, GivenUp
  <2>6. SummaryAddsUp' BY <1>0, <2>3 DEF SummaryAddsUp, AddsUp
  <2>7. RowIsOwn' BY <1>0, <2>3 DEF RowIsOwn, Imported
  <2> QED BY <2>2, <2>5, <2>6, <2>7 DEF Inv
<1> QED BY <1>1, <1>2, <1>3 DEF Next

LEMMA ImportInvariant == Spec => []Inv
BY ImportInit, ImportStep, PTL DEF Spec

\* The types of ImportQueue's state hold in every reachable state.
THEOREM ImportTypes == Spec => []TypeOK
<1>1. Inv => TypeOK BY DEF Inv
<1> QED BY <1>1, ImportInvariant, PTL

\* m_remainingTasks is the number of files still to be reported and a batch is
\* active exactly while there are some (until ~ImportQueue lets workers go).
THEOREM CounterIsTrue == Spec => []RemainingIsTrue
<1>1. Inv => RemainingIsTrue
  <2> SUFFICES ASSUME Inv, ~shutdown
               PROVE  remaining = Cardinality(At(Open)) /\ (active <=> remaining > 0)
    BY DEF RemainingIsTrue
  <2>1. TypeOK /\ Ledger BY DEF Inv
  <2>2. remaining - Cardinality(At(Open)) = 0 BY <2>1 DEF Ledger, GivenUp
  <2>3. remaining = Cardinality(At(Open)) BY <2>1, <2>2, LedgerNumbers
  <2> QED BY <2>1, <2>3 DEF Ledger
<1> QED BY <1>1, ImportInvariant, PTL

\* Every batch summary handed to m_onBatchComplete accounts for all its files,
\* also when the batch was extended while its last files finished.
THEOREM SummariesAddUp == Spec => []SummaryAddsUp
<1>1. Inv => SummaryAddsUp BY DEF Inv
<1> QED BY <1>1, ImportInvariant, PTL

\* A task that has inserted its file owns the one row of that content: two
\* workers never both import it, and no failure removes another's row.
THEOREM ImportedOnce == Spec => []RowIsOwn
<1>1. Inv => RowIsOwn BY DEF Inv
<1> QED BY <1>1, ImportInvariant, PTL
=============================================================================
