-------------------------- MODULE TaskingRefinement --------------------------
(***************************************************************************)
(* Tasking implements TaskQueue: the processes, the table and the locks    *)
(* together behave like one queue.                                         *)
(***************************************************************************)
EXTENDS TaskingInvariant

(* A task is submitted when its row is committed.                          *)
Status(t) ==
    IF state[t] \notin Visible THEN "none"
    ELSE IF state[t] \in Final THEN "ended"
    ELSE IF Executing(t) THEN "executing"
    ELSE IF state[t] = "waiting" THEN "queued"
    ELSE "ending"

Ahead(t) == IF state[t] \in Visible
            THEN {u \in prior[t] : Conflict(t, u)}
            ELSE {}

Exclusions == {pair \in Tasks \X Tasks : Conflict(pair[1], pair[2])}

Queue == INSTANCE TaskQueue
         WITH Excludes <- Exclusions,
              status <- [t \in Tasks |-> Status(t)],
              ahead <- [t \in Tasks |-> Ahead(t)]

(* dispatch() promises that tasks which exclude each other do not run      *)
(* concurrently, but in the order of their insertion: whatever processes   *)
(* start, stop or crash meanwhile, each step of the code is a step of the  *)
(* queue or invisible there.                                               *)
ImplementsQueue == Queue!Spec
=============================================================================
