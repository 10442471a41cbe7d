--------------------------- MODULE TaskingInvariant ---------------------------
(***************************************************************************)
(* The inductive invariant behind the safety of Tasking.  It holds if no   *)
(* process is taken for missing while it still works (Timely), and if no   *)
(* user cancels a task that its dispatcher may defer: the save() of the    *)
(* deferral writes a stale state over the row.                             *)
(***************************************************************************)
EXTENDS Tasking

NoStaleSave == Cancelable \cap ExecuteNow \cap Deferred = {}

(* Nothing that excludes t and was inserted before it is incomplete.       *)
Clear(t) == \A u \in prior[t] : Conflict(t, u) => state[u] \in Final

(* The advisory locks of the trigger: among tasks that share a resource,   *)
(* a row becomes visible only after all rows with an earlier timestamp.    *)
InsertOrder ==
    /\ \A t \in Tasks : state[t] = "absent" => prior[t] = {}
    /\ \A t, u \in Tasks : u \in prior[t] => state[u] # "absent" /\ u # t
    /\ \A t, u \in Tasks : state[t] # "absent" /\ state[u] # "absent" /\ t # u
                           => t \in prior[u] \/ u \in prior[t]
    /\ \A t, u \in Tasks :
          u \in prior[t] /\ Overlap(t, u) => state[u] # "inserting"

ChildActive(w) == child[w] \in {"starting", "running"}

HoldPcs == {"insert", "refresh", "check", "unblock", "defer", "execute",
            "run", "wake", "release", "abandon", "finalize", "raise",
            "spawn", "supervise"}

Holds(p) == pc[p] \in HoldPcs \/ (p \in Workers /\ ChildActive(p))

(* What a process holds is locked by it; a row that its dispatcher did not *)
(* lock is not locked before it is visible.                                *)
HoldLocks ==
    /\ \A p \in Procs : Holds(p) =>
          /\ task[p] \in Tasks
          /\ appLock[task[p]] = p
          /\ p \in registered
    /\ \A t \in Tasks :
          state[t] = "absent" \/ (state[t] = "inserting" /\ t \notin ExecuteNow)
          => appLock[t] = NoProc

Control ==
    /\ \A a \in Apis : pc[a] \in ApiPcs
    /\ \A w \in Workers :
          /\ pc[w] \in WorkerPcs
          /\ ChildActive(w) => pc[w] \in {"supervise", "dead"}
          /\ pc[w] \in {"abandon", "finalize"} => cancelState[w] # "no"

(* What dispatch() relies on between its statements.                       *)
Dispatcher(a) ==
    /\ pc[a] \in HoldPcs => task[a] \in ExecuteNow
    /\ pc[a] = "insert" => state[task[a]] = "inserting"
    /\ pc[a] = "unblock" /\ state[task[a]] = "waiting" => Clear(task[a])
    /\ pc[a] = "defer" => task[a] \in Deferred
    /\ pc[a] \in {"refresh", "check", "defer"} /\ task[a] \in Deferred
       => state[task[a]] = "waiting"
    /\ pc[a] \in {"check", "defer"} /\ task[a] \in Deferred
       => /\ seen[a].state = "waiting"
          /\ seen[a].unblocked => Clear(task[a])

Dispatching ==
    /\ \A a \in Apis : Dispatcher(a)
    /\ \A t \in Tasks :
          state[t] = "inserting" /\ t \in ExecuteNow
          => \E a \in Apis : pc[a] = "insert" /\ task[a] = t
    /\ \A t \in Tasks : t \notin Cancelable => cancelReq[t] = "no"

(* What is unblocked, or about to be, runs in turn.                        *)
Unblocking ==
    \A t \in Tasks :
        /\ state[t] \in {"absent", "inserting"} => ~unblocked[t] /\ t \notin found
        /\ state[t] = "running" => unblocked[t]
        /\ state[t] \in {"waiting", "running"} /\ unblocked[t] => Clear(t)
        /\ state[t] = "waiting" /\ t \in found => Clear(t)

Running ==
    /\ \A p \in Procs : pc[p] = "execute" => unblocked[task[p]]
    /\ \A w \in Workers :
          pc[w] = "spawn" \/ child[w] = "starting" => unblocked[task[w]]
    /\ \A p \in Procs, t \in Tasks : ExecutedBy(p, t) =>
          state[t] \in {"running", "canceling"} /\ Clear(t)

Inv == /\ TypeOK
       /\ InsertOrder
       /\ HoldLocks
       /\ Control
       /\ Dispatching
       /\ Unblocking
       /\ Running
-----------------------------------------------------------------------------
(* No process both executes what it dispatches and defers it.              *)
NoDeferral == ExecuteNow \cap Deferred = {}

(* What holds also when a process is taken for missing while it works, and *)
(* loses the locks of the task that it holds: its part of the rows.        *)
Carrying == \A p \in Procs : Holds(p) => task[p] \in Tasks

Dispatches(a) ==
    /\ pc[a] \in HoldPcs => task[a] \in ExecuteNow
    /\ pc[a] # "defer"
    /\ pc[a] = "insert" => state[task[a]] = "inserting"
    /\ pc[a] \in {"refresh", "check", "unblock"} => state[task[a]] \in Visible
    /\ pc[a] = "unblock" /\ state[task[a]] = "waiting" => Clear(task[a])

Inserting ==
    \A a, b \in Apis :
        pc[a] = "insert" /\ pc[b] = "insert" /\ task[a] = task[b] => a = b

ToRun ==
    /\ \A p \in Procs : pc[p] = "execute" => unblocked[task[p]]
    /\ \A w \in Workers :
          pc[w] = "spawn" \/ child[w] = "starting" => unblocked[task[w]]

RowsInv ==
    /\ TypeOK /\ InsertOrder /\ Control /\ Carrying
    /\ \A a \in Apis : Dispatches(a)
    /\ Inserting /\ Unblocking /\ ToRun
=============================================================================
