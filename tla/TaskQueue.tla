------------------------------ MODULE TaskQueue ------------------------------
(***************************************************************************)
(* What the tasking system promises to those who dispatch tasks: a queue   *)
(* in which a task is begun at most once, and only when everything that    *)
(* excludes it and was submitted before it has ended.  The processes, the  *)
(* locks and the notifications that achieve this are not visible here.     *)
(***************************************************************************)
CONSTANTS
    Tasks,
    Excludes  \* the pairs of tasks that must not be executed concurrently

VARIABLES
    status,   \* task -> how far it has come
    ahead     \* task -> the tasks it has to wait for

vars == <<status, ahead>>

Statuses == {"none", "queued", "executing", "ending", "ended"}

TypeOK ==
    /\ status \in [Tasks -> Statuses]
    /\ ahead \in [Tasks -> SUBSET Tasks]

Init ==
    /\ status = [t \in Tasks |-> "none"]
    /\ ahead = [t \in Tasks |-> {}]

Become(t, s) == status' = [status EXCEPT ![t] = s]

Submit(t) ==
    /\ status[t] = "none"
    /\ Become(t, "queued")
    /\ ahead' = [ahead EXCEPT ![t] =
                    {u \in Tasks : <<t, u>> \in Excludes /\ status[u] # "none"}]

Begin(t) ==
    /\ status[t] = "queued"
    /\ \A u \in ahead[t] : status[u] = "ended"
    /\ Become(t, "executing")
    /\ UNCHANGED ahead

(* Canceled, or its process gone: it keeps its reservations for a while.   *)
Abort(t) ==
    /\ status[t] \in {"queued", "executing"}
    /\ Become(t, "ending")
    /\ UNCHANGED ahead

End(t) ==
    /\ status[t] \in {"executing", "ending"}
    /\ Become(t, "ended")
    /\ UNCHANGED ahead

Next == \E t \in Tasks : Submit(t) \/ Begin(t) \/ Abort(t) \/ End(t)

Spec == Init /\ [][Next]_vars
=============================================================================
