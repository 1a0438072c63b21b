--------------------------- MODULE TaskExecution ---------------------------
(***************************************************************************)
(* What ThreadPool promises its owner (thread_pool.h): a task handed over  *)
(* is executed once, by some worker, and shutdown returns only when every  *)
(* task that was accepted has been executed.                               *)
(***************************************************************************)
CONSTANT Tasks

VARIABLES waiting, running, finished, closed

Init == waiting = {} /\ running = {} /\ finished = {} /\ closed = FALSE

Accept(t) ==
  /\ ~closed /\ t \notin waiting \cup running \cup finished
  /\ waiting' = waiting \cup {t}
  /\ UNCHANGED <<running, finished, closed>>

Start(t) ==
  /\ t \in waiting
  /\ waiting' = waiting \ {t}
  /\ running' = running \cup {t}
  /\ UNCHANGED <<finished, closed>>

Finish(t) ==
  /\ t \in running
  /\ running' = running \ {t}
  /\ finished' = finished \cup {t}
  /\ UNCHANGED <<waiting, closed>>

Close ==
  /\ waiting = {} /\ running = {}
  /\ closed' = TRUE
  /\ UNCHANGED <<waiting, running, finished>>

Next == (\E t \in Tasks : Accept(t) \/ Start(t) \/ Finish(t)) \/ Close

Spec == Init /\ [][Next]_<<waiting, running, finished, closed>>
=============================================================================
