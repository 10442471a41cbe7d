---------------------------- MODULE TaskingProofs ----------------------------
(***************************************************************************)
(* Proofs about Tasking: the inductive invariant Inv of TaskingInvariant   *)
(* holds for every number of tasks, resources, workers and API processes,  *)
(* and with it the type invariant, mutual exclusion on resources, the      *)
(* order of execution, and that a task is executed by one process only.    *)
(*                                                                         *)
(* The assumptions are those of TaskingInvariant: Timely (no process that  *)
(* still works is declared missing) and NoStaleSave (no user cancels a     *)
(* task that its dispatcher may defer).  Both are needed: see the README.  *)
(*                                                                         *)
(* TypesKept and ControlKept show types and control for all actions at     *)
(* once.  For the other conjuncts of Inv a frame lemma says which          *)
(* variables each of them reads, and one lemma per action proves those     *)
(* that the action disturbs; NextInv puts all of them together.            *)
(*                                                                         *)
(* The last part does without Timely: RowsInv, the part of Inv that is     *)
(* about rows, holds whatever process is taken for missing, and with it    *)
(* that running rows exclude each other, and that only owners advance rows.*)
(***************************************************************************)
EXTENDS TaskingInvariant, TLAPS

(* InsertOrder depends on the states and the timestamps of the rows only.  *)
LEMMA InsertOrderFrame ==
    ASSUME InsertOrder, UNCHANGED <<state, prior>>
    PROVE  InsertOrder'
BY DEF InsertOrder

(* HoldLocks depends on the app_lock columns and on who works on what.     *)
LEMMA HoldLocksFrame ==
    ASSUME HoldLocks, UNCHANGED <<state, appLock, registered, pc, task, child>>
    PROVE  HoldLocks'
BY DEF HoldLocks, Holds, ChildActive

(* Control depends on the program counters and the children only.          *)
LEMMA ControlFrame ==
    ASSUME Control, UNCHANGED <<pc, child, cancelState>>
    PROVE  Control'
BY DEF Control, ChildActive

(* Dispatching depends on what the dispatchers hold and have read.         *)
LEMMA DispatchingFrame ==
    ASSUME Dispatching, UNCHANGED <<state, prior, cancelReq, pc, task, seen>>
    PROVE  Dispatching'
BY DEF Dispatching, Dispatcher, Clear

(* Unblocking depends on the rows and on the unblocking scan only.         *)
LEMMA UnblockingFrame ==
    ASSUME Unblocking, UNCHANGED <<state, prior, unblocked, found>>
    PROVE  Unblocking'
BY DEF Unblocking, Clear

(* Running depends on the rows and on who executes them.                   *)
LEMMA RunningFrame ==
    ASSUME Running, UNCHANGED <<state, prior, unblocked, pc, task, child>>
    PROVE  Running'
BY DEF Running, Clear, ExecutedBy

(* Resource exclusion is symmetric and irreflexive, and implies that the   *)
(* two tasks reserve a common resource, whose advisory lock the trigger    *)
(* takes.                                                                  *)
LEMMA ConflictProps ==
    ASSUME NEW t \in Tasks, NEW u \in Tasks, Conflict(t, u)
    PROVE  Conflict(u, t) /\ Overlap(t, u) /\ t # u
BY DEF Conflict, Overlap, Reserved

(* The query of dispatch() and unblock_tasks() for earlier incomplete tasks*)
(* decides Clear exactly: no conflicting row is still invisible.           *)
LEMMA ClearIffNoBlockers ==
    ASSUME Inv, NEW t \in Tasks
    PROVE  Clear(t) <=> Blockers(t) = {}
<1>1. \A u \in prior[t] : /\ u \in Tasks
                          /\ Conflict(t, u) => state[u] \in Visible
  BY ConflictProps DEF Inv, TypeOK, InsertOrder
<1>2. \A s \in Visible : s \in Final <=> s \notin Incomplete
  BY DEF Visible, Incomplete, Final
<1>3. ASSUME NEW u \in prior[t], Conflict(t, u)
      PROVE  state[u] \in Final <=> u \notin Blockers(t)
  BY <1>1, <1>2, <1>3 DEF Blockers
<1>4. \A u \in Blockers(t) : u \in prior[t] /\ Conflict(t, u)
  BY DEF Blockers
<1> QED
  BY <1>3, <1>4 DEF Clear

(* A process works only on the row whose app_lock it holds, and no other   *)
(* process works on the same row.                                          *)
LEMMA HeldTask ==
    ASSUME Inv, NEW p \in Procs, Holds(p)
    PROVE  /\ task[p] \in Tasks
           /\ appLock[task[p]] = p
           /\ p \in registered
           /\ pc[p] # "insert" => state[task[p]] \in Visible
           /\ \A q \in Procs : Holds(q) /\ q # p => task[q] # task[p]
<1>1. /\ task[p] \in Tasks
      /\ appLock[task[p]] = p
      /\ p \in registered
  BY DEF Inv, HoldLocks
<1>2. ASSUME NEW q \in Procs, Holds(q), q # p
      PROVE  task[q] # task[p]
  BY <1>1, <1>2 DEF Inv, HoldLocks
<1>3. ASSUME pc[p] # "insert"
      PROVE  state[task[p]] \in Visible
  <2>1. p # NoProc
    BY ProcAssumption
  <2>2. state[task[p]] # "absent"
    BY <1>1, <2>1 DEF Inv, HoldLocks
  <2>3. state[task[p]] # "inserting"
    <3>1. SUFFICES ASSUME state[task[p]] = "inserting" PROVE FALSE
      OBVIOUS
    <3>2. task[p] \in ExecuteNow
      BY <1>1, <2>1, <3>1 DEF Inv, HoldLocks
    <3>3. PICK a \in Apis : pc[a] = "insert" /\ task[a] = task[p]
      BY <1>1, <3>1, <3>2 DEF Inv, Dispatching
    <3>4. Holds(a) /\ a # p
      BY <1>3, <3>3 DEF Holds, HoldPcs
    <3> QED
      BY <1>2, <3>3, <3>4 DEF Procs
  <2> QED
    BY <1>1, <2>2, <2>3 DEF Inv, TypeOK
<1> QED
  BY <1>1, <1>2, <1>3

(* What dispatch() is about to read is a row: Refresh never looks for one  *)
(* that nobody has inserted.                                               *)
RowsRead ==
    \A a \in Apis : pc[a] = "refresh"
                    => task[a] \in Tasks /\ state[task[a]] \in Visible

(* A process at a new statement of its code keeps the type of pc.          *)
LEMMA GotoTypes ==
    ASSUME TypeOK, NEW p \in Procs, NEW label \in ApiPcs \cup WorkerPcs,
           Goto(p, label)
    PROVE  pc' \in [Procs -> ApiPcs \cup WorkerPcs]
BY DEF TypeOK, Goto

(* So does an exception that it raises, which lets its task go at most.    *)
LEMMA RaiseTypes ==
    ASSUME TypeOK, NEW p \in Procs, Raise(p) \/ Free(p)
    PROVE  /\ pc' \in [Procs -> ApiPcs \cup WorkerPcs]
           /\ task' \in [Procs -> Tasks \cup {NoTask}]
<1>1. \E label \in {"raise", "idle"} : Goto(p, label)
  BY DEF Raise, Free
<1>2. pc' \in [Procs -> ApiPcs \cup WorkerPcs]
  BY <1>1, GotoTypes DEF ApiPcs, WorkerPcs
<1>3. task' = task \/ task' = [task EXCEPT ![p] = NoTask]
  BY DEF Raise, Free
<1>4. task' \in [Procs -> Tasks \cup {NoTask}]
  BY <1>3 DEF TypeOK
<1> QED
  BY <1>2, <1>4

(* A row that gets another visible state keeps the type of the column.     *)
LEMMA StateTypes ==
    ASSUME TypeOK, NEW t, NEW s \in Visible,
           state' = [state EXCEPT ![t] = s]
    PROVE  state' \in [Tasks -> Visible \cup {"absent", "inserting"}]
BY DEF TypeOK

(* Every step of dispatch(), the workers, their children and the users     *)
(* keeps the types of all columns, program counters and flags.             *)
LEMMA TypesKept ==
    ASSUME TypeOK, Control, RowsRead, Next
    PROVE  TypeOK'
<1> USE ProcAssumption DEF TypeOK, Procs
<1>1. ASSUME NEW t \in Tasks, Client(t)
      PROVE  TypeOK'
  <2>1. CASE Insert(t)
    BY <2>1
    DEF Incomplete, Final, Visible, Insert, InsertRow, procVars, supVars,
        wakeVars, scanVars
  <2>2. CASE Commit(t)
    BY <2>2
    DEF Commit, CommitRow, NotifyUnblock, Main, procVars, supVars, scanVars,
        Incomplete, Final, Visible
  <2>3. CASE Rollback(t)
    BY <2>3
    DEF Incomplete, Final, Visible, Rollback, RollbackRow, procVars, supVars,
        wakeVars, scanVars
  <2> QED
    BY <1>1, <2>1, <2>2, <2>3 DEF Client
<1>2. ASSUME NEW t \in Tasks, Cancel(t)
      PROVE  TypeOK'
  <2>1. CASE CancelRead(t)
    BY <2>1
    DEF Incomplete, CancelRead, rowVars, procVars, supVars, wakeVars, scanVars
  <2>2. CASE CancelSet(t)
    <3>1. state' \in [Tasks -> Visible \cup {"absent", "inserting"}]
      BY <2>2 DEF CancelSet, Visible, Incomplete
    <3>2. cancelReq' \in [Tasks -> {"no", "free", "locked",
                                  "tell_free", "tell_locked"}]
      BY <2>2 DEF CancelSet
    <3> QED
      BY <2>2, <3>1, <3>2 DEF CancelSet, procVars, supVars, wakeVars, scanVars
  <2>3. CASE CancelTell(t)
    <3>1. cancelReq' \in [Tasks -> {"no", "free", "locked",
                                  "tell_free", "tell_locked"}]
      BY <2>3 DEF CancelTell
    <3>2. cancelFlag' \in [Workers -> BOOLEAN]
      <4>1. CASE cancelReq[t] = "tell_free"
        BY <2>3, <4>1 DEF CancelTell
      <4>2. CASE cancelReq[t] # "tell_free"
        <5>1. cancelFlag' = [v \in Workers |->
                  cancelFlag[v] \/ (pc[v] = "supervise" /\ task[v] = t)]
          BY <2>3, <4>2 DEF CancelTell
        <5>2. \A v \in Workers :
                 (cancelFlag[v] \/ (pc[v] = "supervise" /\ task[v] = t))
                 \in BOOLEAN
          OBVIOUS
        <5> QED
          BY <5>1, <5>2, Zenon
      <4> QED
        BY <4>1, <4>2
    <3>3. wakeHandle' \subseteq Workers
      BY <2>3 DEF CancelTell, NotifyHandle, Main
    <3> QED
      BY <2>3, <3>1, <3>2, <3>3 DEF CancelTell, rowVars, procVars, scanVars
  <2>4. CASE CancelLost(t)
    BY <2>4 DEF CancelLost, rowVars, procVars, supVars, wakeVars, scanVars
  <2> QED
    BY <1>2, <2>1, <2>2, <2>3, <2>4 DEF Cancel
<1>3. ASSUME NEW p \in Procs, Execute(p)
      PROVE  TypeOK'
  <2>1. CASE SetRunning(p)
    <3>1. UNCHANGED <<prior, unblocked, appLock, cancelReq, registered, seen,
                     supVars, wakeVars, scanVars>>
      BY <2>1 DEF SetRunning
    <3>2. state' = state
          \/ \E s \in {"running"} : state' = [state EXCEPT ![task[p]] = s]
      BY <2>1 DEF SetRunning
    <3>3. state' \in [Tasks -> Visible \cup {"absent", "inserting"}]
      BY <3>2, StateTypes DEF Visible, Incomplete, Final
    <3>4. (Goto(p, "run") /\ UNCHANGED task) \/ Raise(p)
      BY <2>1 DEF SetRunning
    <3>5. /\ pc' \in [Procs -> ApiPcs \cup WorkerPcs]
          /\ task' \in [Procs -> Tasks \cup {NoTask}]
      BY <3>4, GotoTypes, RaiseTypes DEF ApiPcs, WorkerPcs
    <3> QED
      BY <3>1, <3>3, <3>5 DEF supVars, wakeVars, scanVars
  <2>2. CASE Finish(p)
    <3>1. UNCHANGED <<prior, unblocked, appLock, cancelReq, registered, seen,
                     supVars, wakeVars, scanVars>>
      BY <2>2 DEF Finish
    <3>2. state' = state
          \/ \E s \in {"completed", "failed"} : state' = [state EXCEPT ![task[p]] = s]
      BY <2>2 DEF Finish
    <3>3. state' \in [Tasks -> Visible \cup {"absent", "inserting"}]
      BY <3>2, StateTypes DEF Visible, Incomplete, Final
    <3>4. (Goto(p, "wake") /\ UNCHANGED task) \/ Raise(p)
      BY <2>2 DEF Finish
    <3>5. /\ pc' \in [Procs -> ApiPcs \cup WorkerPcs]
          /\ task' \in [Procs -> Tasks \cup {NoTask}]
      BY <3>4, GotoTypes, RaiseTypes DEF ApiPcs, WorkerPcs
    <3> QED
      BY <3>1, <3>3, <3>5 DEF supVars, wakeVars, scanVars
  <2>3. CASE Wake(p)
    <3>1. (Goto(p, "release") /\ UNCHANGED task) \/ Free(p)
      BY <2>3 DEF Wake
    <3>2. /\ pc' \in [Procs -> ApiPcs \cup WorkerPcs]
          /\ task' \in [Procs -> Tasks \cup {NoTask}]
      BY <3>1, GotoTypes, RaiseTypes DEF ApiPcs, WorkerPcs
    <3>3. wakeUnblock' \subseteq Workers
      BY <2>3 DEF Wake, NotifyUnblock, Main
    <3>4. UNCHANGED <<rowVars, cancelReq, registered, seen, supVars, wakeHandle,
                      scanVars>>
      BY <2>3 DEF Wake
    <3> QED
      BY <3>2, <3>3, <3>4 DEF rowVars, supVars, scanVars
  <2>4. CASE SetCanceling(p)
    <3>1. UNCHANGED <<prior, unblocked, appLock, cancelReq, registered, seen,
                     supVars, wakeVars, scanVars>>
      BY <2>4 DEF SetCanceling
    <3>2. state' = state
          \/ \E s \in {"canceling"} : state' = [state EXCEPT ![task[p]] = s]
      BY <2>4 DEF SetCanceling
    <3>3. state' \in [Tasks -> Visible \cup {"absent", "inserting"}]
      BY <3>2, StateTypes DEF Visible, Incomplete, Final
    <3>4. (Goto(p, "finalize") /\ UNCHANGED task) \/ Raise(p)
      BY <2>4 DEF SetCanceling
    <3>5. /\ pc' \in [Procs -> ApiPcs \cup WorkerPcs]
          /\ task' \in [Procs -> Tasks \cup {NoTask}]
      BY <3>4, GotoTypes, RaiseTypes DEF ApiPcs, WorkerPcs
    <3> QED
      BY <3>1, <3>3, <3>5 DEF supVars, wakeVars, scanVars
  <2>5. CASE SetCanceled(p)
    <3>1. UNCHANGED <<prior, unblocked, appLock, cancelReq, registered, seen,
                     supVars, wakeVars, scanVars>>
      BY <2>5 DEF SetCanceled
    <3>2. state' = state
          \/ \E s \in Final : state' = [state EXCEPT ![task[p]] = s]
      <4>1. pc[p] = "finalize" => FinalState(p) \in Final
        BY DEF FinalState, Final, Control
      <4> QED
        BY <2>5, <4>1 DEF SetCanceled
    <3>3. state' \in [Tasks -> Visible \cup {"absent", "inserting"}]
      BY <3>2, StateTypes DEF Visible, Incomplete, Final
    <3>4. (Goto(p, "wake") /\ UNCHANGED task) \/ Free(p) \/ Raise(p)
      BY <2>5 DEF SetCanceled
    <3>5. /\ pc' \in [Procs -> ApiPcs \cup WorkerPcs]
          /\ task' \in [Procs -> Tasks \cup {NoTask}]
      BY <3>4, GotoTypes, RaiseTypes DEF ApiPcs, WorkerPcs
    <3> QED
      BY <3>1, <3>3, <3>5 DEF supVars, wakeVars, scanVars
  <2> QED
    BY <1>3, <2>1, <2>2, <2>3, <2>4, <2>5 DEF Execute
<1>4. ASSUME NEW a \in Apis, Dispatch(a)
      PROVE  TypeOK'
  <2>1. CASE \E t \in Tasks : ApiInsert(a, t)
    BY <2>1
    DEF Incomplete, Final, Visible, ApiPcs, WorkerPcs, ApiInsert, InsertRow,
        Goto, supVars, wakeVars, scanVars
  <2>2. CASE ApiRollback(a)
    BY <2>2
    DEF Incomplete, Final, Visible, ApiPcs, WorkerPcs, ApiRollback, RollbackRow,
        Free, Goto, supVars, wakeVars, scanVars
  <2>3. CASE ApiCommit(a)
    BY <2>3
    DEF Incomplete, Final, Visible, ApiPcs, WorkerPcs, ApiCommit, CommitRow,
        Goto, supVars, wakeVars, scanVars
  <2>4. CASE Refresh(a)
    <3>1. state[task[a]] \in Visible /\ task[a] \in Tasks
      BY <2>4 DEF Refresh, RowsRead
    <3>2. unblocked[task[a]] \in BOOLEAN
      BY <3>1
    <3>3. seen' \in [Apis -> [state : Visible, unblocked : BOOLEAN]]
      BY <2>4, <3>1, <3>2 DEF Refresh
    <3>4. pc' \in [Procs -> ApiPcs \cup WorkerPcs]
      BY <2>4 DEF Refresh, Goto, ApiPcs
    <3> QED
      BY <2>4, <3>3, <3>4 DEF Refresh, rowVars, supVars, wakeVars, scanVars
  <2>5. CASE CheckResources(a)
    <3>1. \E label \in {"unblock", "defer", "abandon"} : Goto(a, label)
      BY <2>5 DEF CheckResources
    <3>2. pc' \in [Procs -> ApiPcs \cup WorkerPcs]
      BY <3>1 DEF Goto, ApiPcs
    <3> QED
      BY <2>5, <3>2 DEF CheckResources, rowVars, supVars, wakeVars, scanVars
  <2>6. CASE UnblockNow(a)
    BY <2>6 DEF ApiPcs, WorkerPcs, UnblockNow, Goto, supVars, wakeVars, scanVars
  <2>7. CASE Defer(a)
    BY <2>7
    DEF Incomplete, Final, Visible, ApiPcs, WorkerPcs, Defer, Free, Goto,
        supVars, wakeVars, scanVars
  <2> QED
    BY <1>4, <2>1, <2>2, <2>3, <2>4, <2>5, <2>6, <2>7 DEF Dispatch
<1>5. ASSUME NEW w \in Workers, Fetch(w)
      PROVE  TypeOK'
  <2>1. ASSUME NEW t \in Tasks,
               \/ ClaimAbandoned(w, t) \/ ClaimWaiting(w, t)
               \/ ClaimIgnored(w, t)
        PROVE  TypeOK'
    <3>1. Claim(w, t)
      BY <2>1 DEF ClaimAbandoned, ClaimWaiting, ClaimIgnored
    <3>2. UNCHANGED <<state, prior, unblocked, cancelReq, registered, seen,
                      child, stop, cancelFlag, wakeUnblock, scanVars>>
      BY <3>1 DEF Claim
    <3>3. appLock' \in [Tasks -> Procs \cup {NoProc}]
      BY <3>1 DEF Claim
    <3>4. /\ task' \in [Procs -> Tasks \cup {NoTask}]
          /\ wakeHandle' \subseteq Workers
      BY <3>1 DEF Claim
    <3>5. \E label \in {"abandon", "execute", "spawn", "release"} :
             Goto(w, label)
      BY <2>1 DEF ClaimAbandoned, ClaimWaiting, ClaimIgnored
    <3>6. pc' \in [Procs -> ApiPcs \cup WorkerPcs]
      BY <3>5, GotoTypes DEF ApiPcs, WorkerPcs
    <3>7. cancelState' = cancelState
          \/ \E s \in {"canceled", "failed"} :
                cancelState' = [cancelState EXCEPT ![w] = s]
      BY <2>1 DEF ClaimAbandoned, ClaimWaiting, ClaimIgnored
    <3>8. cancelState' \in [Workers -> {"no", "canceled", "failed"}]
      BY <3>7
    <3>9. ignored' = ignored
          \/ ignored' = [ignored EXCEPT ![w] = ignored[w] \cup {t}]
      BY <2>1 DEF ClaimAbandoned, ClaimWaiting, ClaimIgnored
    <3>10. ignored' \in [Workers -> SUBSET Tasks]
      BY <3>9
    <3> QED
      BY <3>2, <3>3, <3>4, <3>6, <3>8, <3>10 DEF scanVars
  <2>2. CASE FetchNone(w)
    BY <2>2 DEF ApiPcs, WorkerPcs, FetchNone, Goto, rowVars, supVars, scanVars
  <2>3. CASE FetchFails(w)
    BY <2>3 DEF ApiPcs, WorkerPcs, FetchFails, Die, Goto, rowVars
  <2> QED
    BY <1>5, <2>1, <2>2, <2>3 DEF Fetch
<1>6. ASSUME NEW w \in Workers, Supervise(w)
      PROVE  TypeOK'
  <2>1. CASE Spawn(w)
    BY <2>1 DEF ApiPcs, WorkerPcs, Spawn, Goto, rowVars, wakeVars, scanVars
  <2>2. CASE TakeCancel(w)
    BY <2>2 DEF TakeCancel, rowVars, procVars, wakeVars, scanVars
  <2>3. CASE TakeStop(w)
    BY <2>3 DEF TakeStop, rowVars, procVars, wakeVars, scanVars
  <2>4. CASE Kill(w)
    BY <2>4 DEF Kill, rowVars, procVars, wakeVars, scanVars
  <2>5. CASE Join(w)
    BY <2>5 DEF ApiPcs, WorkerPcs, Join, Goto, rowVars, wakeVars, scanVars
  <2> QED
    BY <1>6, <2>1, <2>2, <2>3, <2>4, <2>5 DEF Supervise
<1>7. ASSUME NEW w \in Workers, Child(w)
      PROVE  TypeOK'
  <2>1. CASE ChildSetRunning(w)
    BY <2>1
    DEF Incomplete, Final, Visible, ChildSetRunning, procVars, wakeVars,
        scanVars
  <2>2. CASE ChildFinish(w)
    <3>1. state' \in [Tasks -> Visible \cup {"absent", "inserting"}]
      <4>1. state' = state
            \/ \E s \in {"completed", "failed"} :
                  state' = [state EXCEPT ![task[w]] = s]
        BY <2>2 DEF ChildFinish
      <4> QED
        BY <4>1, StateTypes DEF Visible, Final
    <3>2. child' \in [Workers -> {"none", "starting", "running", "ok", "error"}]
      <4>1. \E s \in {"ok", "error"} : child' = [child EXCEPT ![w] = s]
        BY <2>2 DEF ChildFinish
      <4> QED
        BY <4>1
    <3> QED
      BY <2>2, <3>1, <3>2 DEF ChildFinish, procVars, wakeVars, scanVars
  <2> QED
    BY <1>7, <2>1, <2>2 DEF Child
<1>8. ASSUME NEW w \in Workers, Unblock(w)
      PROVE  TypeOK'
  <2>1. CASE UnblockTry(w)
    BY <2>1 DEF UnblockTry, Unblockable, rowVars, procVars, supVars
  <2>2. CASE UnblockCommit(w)
    BY <2>2 DEF UnblockCommit, procVars, supVars, wakeVars
  <2>3. CASE UnblockTell(w)
    BY <2>3 DEF UnblockTell, NotifyHandle, Main, rowVars, procVars, supVars
  <2> QED
    BY <1>8, <2>1, <2>2, <2>3 DEF Unblock
<1>9. ASSUME NEW w \in Workers,
             \/ Start(w) \/ Release(w) \/ WakeUp(w) \/ Maintain(w)
             \/ Shutdown(w)
      PROVE  TypeOK'
  <2>1. CASE Start(w)
    BY <2>1
    DEF ApiPcs, WorkerPcs, Start, Goto, rowVars, supVars, wakeVars, scanVars
  <2>2. CASE Release(w)
    <3>1. appLock' \in [Tasks -> Procs \cup {NoProc}]
      BY <2>2 DEF Release
    <3>2. pc' \in [Procs -> ApiPcs \cup WorkerPcs]
      <4>1. \E label \in {"handle", "dead"} : Goto(w, label)
        BY <2>2 DEF Release, Die
      <4> QED
        BY <4>1 DEF Goto, WorkerPcs
    <3>3. task' \in [Procs -> Tasks \cup {NoTask}]
      BY <2>2 DEF Release
    <3>4. /\ stop' \in [Workers -> {"no", "graceful", "fast"}]
          /\ cancelFlag' \in [Workers -> BOOLEAN]
          /\ ignored' \in [Workers -> SUBSET Tasks]
      <4>1. Die(w) \/ UNCHANGED <<stop, cancelFlag, ignored>>
        BY <2>2 DEF Release
      <4>2. CASE Die(w)
        <5>1. /\ stop' = [stop EXCEPT ![w] = "no"]
              /\ cancelFlag' = [cancelFlag EXCEPT ![w] = FALSE]
              /\ ignored' = [ignored EXCEPT ![w] = {}]
          BY <4>2 DEF Die
        <5>2. cancelFlag' \in [Workers -> BOOLEAN]
          BY <5>1
        <5> QED
          BY <5>1, <5>2
      <4> QED
        BY <4>1, <4>2
    <3>5. cancelState' \in [Workers -> {"no", "canceled", "failed"}]
      <4>1. cancelState' = [cancelState EXCEPT ![w] = "no"]
        <5>1. \/ cancelState' = [cancelState EXCEPT ![w] = "no"]
              \/ Die(w)
          BY <2>2 DEF Release
        <5> QED
          BY <5>1 DEF Die
      <4> QED
        BY <4>1
    <3>6. /\ wakeHandle' \subseteq Workers
          /\ wakeUnblock' \subseteq Workers
          /\ telling' \subseteq Workers
      BY <2>2 DEF Release, Die, wakeVars, scanVars
    <3>7. unblocker' \in Workers \cup {NoProc} /\ found' \subseteq Tasks
      BY <2>2 DEF Release, Die, scanVars
    <3> QED
      BY <2>2, <3>1, <3>2, <3>3, <3>4, <3>5, <3>6, <3>7 DEF Release
  <2>3. CASE WakeUp(w)
    BY <2>3
    DEF ApiPcs, WorkerPcs, WakeUp, Goto, rowVars, supVars, wakeVars, scanVars
  <2>4. CASE Maintain(w)
    BY <2>4
    DEF Final, Maintain, Cleanup, CleanupIgnored, DeleteApps, rowVars, procVars,
        supVars, wakeVars, scanVars
  <2>5. CASE Shutdown(w)
    BY <2>5 DEF ApiPcs, WorkerPcs, Shutdown, DeleteApps, Die, Goto
  <2> QED
    BY <1>9, <2>1, <2>2, <2>3, <2>4, <2>5
<1>10. CASE Fault
  <2>1. CASE \E w \in Workers : RequestStop(w)
    <3>1. stop' \in [Workers -> {"no", "graceful", "fast"}]
      BY <2>1 DEF RequestStop
    <3> QED
      BY <2>1, <3>1 DEF RequestStop, rowVars, procVars, wakeVars, scanVars
  <2>2. CASE \E w \in Workers : Crash(w)
    BY <2>2 DEF ApiPcs, WorkerPcs, Crash, Die, Goto, rowVars
  <2>3. CASE \E w \in Workers : ChildDies(w)
    BY <2>3 DEF ChildDies, rowVars, procVars, wakeVars, scanVars
  <2>4. CASE \E w \in Workers : HeartbeatFails(w)
    BY <2>4 DEF HeartbeatFails, rowVars, procVars, wakeVars, scanVars
  <2>5. CASE \E a \in Apis : ApiCrash(a)
    BY <2>5
    DEF ApiPcs, WorkerPcs, ApiCrash, Goto, rowVars, supVars, wakeVars, scanVars
  <2>6. CASE \E a \in Apis : ApiExit(a)
    BY <2>6
    DEF ApiPcs, WorkerPcs, ApiExit, DeleteApps, Goto, supVars, wakeVars,
        scanVars
  <2> QED
    BY <1>10, <2>1, <2>2, <2>3, <2>4, <2>5, <2>6 DEF Fault
<1> QED
  BY <1>1, <1>2, <1>3, <1>4, <1>5, <1>6, <1>7, <1>8, <1>9, <1>10
  DEF Next, Worker

(* Every step leads from a statement of a process to one of its own; a     *)
(* child works only under supervise_task(), or after its worker has died.  *)
LEMMA ControlKept ==
    ASSUME TypeOK, Control, RowsRead, Next
    PROVE  Control'
<1> USE ProcAssumption
  DEF TypeOK, Procs, ApiPcs, WorkerPcs, Control, ChildActive
<1>1. ASSUME NEW t \in Tasks, Client(t)
      PROVE  Control'
  BY <1>1
  DEF Client, Insert, InsertRow, Commit, CommitRow, NotifyUnblock, Rollback,
      RollbackRow, procVars, supVars, wakeVars, scanVars
<1>2. ASSUME NEW t \in Tasks, Cancel(t)
      PROVE  Control'
  BY <1>2
  DEF Cancel, CancelRead, CancelSet, CancelTell, NotifyHandle, CancelLost,
      rowVars, procVars, supVars, wakeVars, scanVars
<1>3. ASSUME NEW p \in Procs, Execute(p)
      PROVE  Control'
  <2>1. /\ \A q \in Procs : q # p => pc'[q] = pc[q]
        /\ UNCHANGED <<child, cancelState>>
    BY <1>3
    DEF Execute, SetRunning, Finish, Wake, SetCanceling, SetCanceled, Raise,
        Free, Goto, supVars
  <2>2. /\ p \in Workers
           => pc'[p] \in {"run", "wake", "finalize", "release", "raise"}
        /\ p \notin Workers => pc'[p] \in {"run", "wake", "finalize", "idle"}
        /\ pc'[p] = "finalize" => pc[p] = "abandon"
        /\ pc[p] \notin {"supervise", "dead"}
    BY <1>3
    DEF Execute, SetRunning, Finish, Wake, SetCanceling, SetCanceled, Raise,
        Free, Goto
  <2>3. ASSUME NEW b \in Apis
        PROVE  pc'[b] \in ApiPcs
    <3>1. CASE b = p
      BY <2>2, <3>1
    <3>2. CASE b # p
      BY <2>1, <3>2
    <3> QED
      BY <3>1, <3>2
  <2>4. ASSUME NEW w \in Workers
        PROVE  /\ pc'[w] \in WorkerPcs
               /\ pc'[w] \in {"abandon", "finalize"} => cancelState'[w] # "no"
    <3>1. CASE w = p
      BY <2>1, <2>2, <3>1
    <3>2. CASE w # p
      BY <2>1, <3>2
    <3> QED
      BY <3>1, <3>2
  <2>5. ASSUME NEW w \in Workers, ChildActive(w)'
        PROVE  pc'[w] \in {"supervise", "dead"}
    <3>1. w # p
      BY <2>1, <2>2, <2>5
    <3> QED
      BY <2>1, <2>5, <3>1
  <2> QED
    BY <2>3, <2>4, <2>5
<1>4. ASSUME NEW a \in Apis, Dispatch(a)
      PROVE  Control'
  <2>1. CASE \E t \in Tasks : ApiInsert(a, t)
    BY <2>1 DEF ApiInsert, InsertRow, Goto, supVars, wakeVars, scanVars
  <2>2. CASE ApiRollback(a)
    BY <2>2
    DEF ApiRollback, RollbackRow, Free, Goto, supVars, wakeVars, scanVars
  <2>3. CASE ApiCommit(a)
    BY <2>3 DEF ApiCommit, CommitRow, Goto, supVars, wakeVars, scanVars
  <2>4. CASE Refresh(a)
    BY <2>4 DEF Refresh, Goto, rowVars, supVars, wakeVars, scanVars
  <2>5. CASE CheckResources(a)
    <3>1. \E label \in {"unblock", "defer", "abandon"} : Goto(a, label)
      BY <2>5 DEF CheckResources
    <3> QED
      BY <2>5, <3>1 DEF Goto, CheckResources, supVars
  <2>6. CASE UnblockNow(a)
    BY <2>6 DEF UnblockNow, Goto, supVars, wakeVars, scanVars
  <2>7. CASE Defer(a)
    BY <2>7 DEF Defer, Free, Goto, supVars, wakeVars, scanVars
  <2> QED
    BY <1>4, <2>1, <2>2, <2>3, <2>4, <2>5, <2>6, <2>7 DEF Dispatch
<1>5. ASSUME NEW w \in Workers, Fetch(w)
      PROVE  Control'
  <2>1. ASSUME NEW t \in Tasks, ClaimAbandoned(w, t)
        PROVE  Control'
    <3>1. pc[w] = "handle" /\ UNCHANGED child /\ Goto(w, "abandon")
      BY <2>1 DEF ClaimAbandoned, Claim
    <3>2. \E s \in {"canceled", "failed"} :
             cancelState' = [cancelState EXCEPT ![w] = s]
      BY <2>1 DEF ClaimAbandoned
    <3> QED
      BY <3>1, <3>2 DEF Goto
  <2>2. ASSUME NEW t \in Tasks, ClaimWaiting(w, t) \/ ClaimIgnored(w, t)
        PROVE  Control'
    <3>1. pc[w] = "handle" /\ UNCHANGED <<child, cancelState>>
      BY <2>2 DEF ClaimWaiting, ClaimIgnored, Claim
    <3>2. \E label \in {"execute", "spawn", "release"} : Goto(w, label)
      BY <2>2 DEF ClaimWaiting, ClaimIgnored
    <3> QED
      BY <3>1, <3>2 DEF Goto
  <2>3. CASE FetchNone(w)
    BY <2>3 DEF FetchNone, Goto, rowVars, supVars, scanVars
  <2>4. CASE FetchFails(w)
    BY <2>4 DEF FetchFails, Die, Goto, rowVars
  <2> QED
    BY <1>5, <2>1, <2>2, <2>3, <2>4 DEF Fetch
<1>6. ASSUME NEW w \in Workers, Supervise(w)
      PROVE  Control'
  <2>1. CASE Spawn(w)
    BY <2>1 DEF Spawn, Goto, rowVars, wakeVars, scanVars
  <2>2. CASE TakeCancel(w)
    BY <2>2 DEF TakeCancel, rowVars, procVars, wakeVars, scanVars
  <2>3. CASE TakeStop(w)
    BY <2>3 DEF TakeStop, rowVars, procVars, wakeVars, scanVars
  <2>4. CASE Kill(w)
    BY <2>4 DEF Kill, rowVars, procVars, wakeVars, scanVars
  <2>5. CASE Join(w)
    <3>1. /\ \A q \in Procs : q # w => pc'[q] = pc[q]
          /\ \A v \in Workers : v # w => child'[v] = child[v]
                                        /\ cancelState'[v] = cancelState[v]
      BY <2>5 DEF Join, Goto
    <3>2. /\ child'[w] = "none"
          /\ pc'[w] \in {"wake", "abandon"}
          /\ pc'[w] = "abandon" => cancelState'[w] # "no"
      BY <2>5 DEF Join, Goto
    <3>3. \A a \in Apis : pc'[a] = pc[a]
      BY <3>1
    <3>4. ASSUME NEW v \in Workers
          PROVE  /\ pc'[v] \in WorkerPcs
                 /\ ChildActive(v)' => pc'[v] \in {"supervise", "dead"}
                 /\ pc'[v] \in {"abandon", "finalize"}
                    => cancelState'[v] # "no"
      <4>1. CASE v = w
        BY <3>2, <4>1
      <4>2. CASE v # w
        BY <3>1, <4>2
      <4> QED
        BY <4>1, <4>2
    <3> QED
      BY <3>3, <3>4
  <2> QED
    BY <1>6, <2>1, <2>2, <2>3, <2>4, <2>5 DEF Supervise
<1>7. ASSUME NEW w \in Workers, Child(w)
      PROVE  Control'
  BY <1>7 DEF Child, ChildSetRunning, ChildFinish, procVars, wakeVars, scanVars
<1>8. ASSUME NEW w \in Workers, Unblock(w)
      PROVE  Control'
  BY <1>8
  DEF Unblock, UnblockTry, Unblockable, UnblockCommit, UnblockTell,
      NotifyHandle, Main, rowVars, procVars, supVars, wakeVars
<1>9. ASSUME NEW w \in Workers,
             \/ Start(w) \/ Release(w) \/ WakeUp(w) \/ Maintain(w)
             \/ Shutdown(w)
      PROVE  Control'
  <2>1. CASE Start(w)
    BY <2>1 DEF Start, Goto, supVars
  <2>2. CASE Release(w)
    <3>1. /\ \E label \in {"handle", "dead"} : Goto(w, label)
          /\ cancelState' = [cancelState EXCEPT ![w] = "no"]
          /\ UNCHANGED child
          /\ pc[w] \in {"release", "raise"}
      BY <2>2 DEF Release, Die
    <3> QED
      BY <3>1 DEF Goto
  <2>3. CASE WakeUp(w)
    BY <2>3 DEF WakeUp, Goto, supVars
  <2>4. CASE Maintain(w)
    BY <2>4 DEF Maintain, Cleanup, CleanupIgnored, supVars, procVars
  <2>5. CASE Shutdown(w)
    BY <2>5 DEF Shutdown, Die, Goto
  <2> QED
    BY <1>9, <2>1, <2>2, <2>3, <2>4, <2>5
<1>10. CASE Fault
  <2>1. CASE \E w \in Workers : RequestStop(w)
    BY <2>1 DEF RequestStop, rowVars, procVars, wakeVars, scanVars
  <2>2. CASE \E w \in Workers : Crash(w)
    BY <2>2 DEF Crash, Die, Goto, rowVars
  <2>3. CASE \E w \in Workers : ChildDies(w)
    BY <2>3 DEF ChildDies, rowVars, procVars, wakeVars, scanVars
  <2>4. CASE \E w \in Workers : HeartbeatFails(w)
    BY <2>4 DEF HeartbeatFails, rowVars, procVars, wakeVars, scanVars
  <2>5. CASE \E a \in Apis : ApiCrash(a)
    BY <2>5 DEF ApiCrash, Goto, rowVars, supVars, wakeVars, scanVars
  <2>6. CASE \E a \in Apis : ApiExit(a)
    BY <2>6 DEF ApiExit, DeleteApps, Goto, supVars, wakeVars, scanVars
  <2> QED
    BY <1>10, <2>1, <2>2, <2>3, <2>4, <2>5, <2>6 DEF Fault
<1> QED
  BY <1>1, <1>2, <1>3, <1>4, <1>5, <1>6, <1>7, <1>8, <1>9, <1>10
  DEF Next, Worker

(* By Inv, Refresh of dispatch() reads a row that is there.                *)
LEMMA InvReads ==
    ASSUME Inv
    PROVE  RowsRead
<1> SUFFICES ASSUME NEW a \in Apis, pc[a] = "refresh"
             PROVE  task[a] \in Tasks /\ state[task[a]] \in Visible
  BY DEF RowsRead
<1> QED
  BY HeldTask DEF Holds, HoldPcs, Procs

(* The same of RowsInv: Refresh of dispatch() reads a row that is there.   *)
LEMMA RowsInvReads ==
    ASSUME RowsInv
    PROVE  RowsRead
BY DEF RowsInv, RowsRead, Dispatches, Carrying, Holds, HoldPcs, Procs

(* The order of insertion survives any change among visible states.        *)
LEMMA InsertOrderStep ==
    ASSUME InsertOrder, UNCHANGED prior,
           \A t \in Tasks : state'[t] = state[t]
           \/ {state[t], state'[t]} \subseteq Visible
    PROVE  InsertOrder'
BY DEF InsertOrder, Visible, Incomplete, Final

(* A task that nothing excludes stays so when final states stay final.     *)
LEMMA ClearStep ==
    ASSUME TypeOK, UNCHANGED prior,
           \A u \in Tasks : state[u] \in Final => state'[u] \in Final,
           NEW t \in Tasks, Clear(t)
    PROVE  Clear(t)'
BY DEF TypeOK, Clear

(* Unblocking survives any change of rows that are already visible, if only*)
(* unblocked ones are set running and none is set back to waiting.         *)
LEMMA UnblockingStep ==
    ASSUME TypeOK, Unblocking, UNCHANGED <<prior, unblocked, found>>,
           \A u \in Tasks : state[u] \in Final => state'[u] \in Final,
           \A u \in Tasks :
              state'[u] \in {"absent", "inserting", "waiting"}
              => state'[u] = state[u],
           \A u \in Tasks :
              state'[u] = "running"
              => state[u] = "running" \/ (state[u] = "waiting" /\ unblocked[u])
    PROVE  Unblocking'
<1>1. SUFFICES ASSUME NEW u \in Tasks
               PROVE  /\ state'[u] \in {"absent", "inserting"}
                            => ~unblocked[u] /\ u \notin found
                      /\ state'[u] = "running" => unblocked[u]
                      /\ state'[u] \in {"waiting", "running"} /\ unblocked[u]
                            => Clear(u)'
                      /\ state'[u] = "waiting" /\ u \in found => Clear(u)'
  BY DEF Unblocking
<1>2. Clear(u) => Clear(u)'
  BY ClearStep
<1> QED
  BY <1>2 DEF Unblocking

(* Running survives a step after which no process executes, or is about to *)
(* execute, what it did not before, unless nothing excludes it.            *)
LEMMA RunningStep ==
    ASSUME TypeOK, Running, UNCHANGED <<prior, unblocked>>,
           \A u \in Tasks : state[u] \in Final => state'[u] \in Final,
           \A p \in Procs :
              pc'[p] = "execute" => pc[p] = "execute" /\ task'[p] = task[p],
           \A w \in Workers : pc'[w] = "spawn" \/ child'[w] = "starting"
              => /\ pc[w] = "spawn" \/ child[w] = "starting"
                 /\ task'[w] = task[w],
           \A p \in Procs, t \in Tasks : ExecutedBy(p, t)'
              => /\ ExecutedBy(p, t) \/ Clear(t)
                 /\ state'[t] \in {"running", "canceling"}
    PROVE  Running'
<1>1. \A p \in Procs : pc'[p] = "execute" => unblocked'[task'[p]]
  BY DEF Running
<1>2. \A w \in Workers :
         pc'[w] = "spawn" \/ child'[w] = "starting" => unblocked'[task'[w]]
  BY DEF Running
<1>3. ASSUME NEW p \in Procs, NEW t \in Tasks, ExecutedBy(p, t)'
      PROVE  state'[t] \in {"running", "canceling"} /\ Clear(t)'
  <2>1. Clear(t)
    BY <1>3 DEF Running
  <2> QED
    BY <1>3, <2>1, ClearStep
<1> QED
  BY <1>1, <1>2, <1>3 DEF Running

(* Dispatching survives whatever the workers and their children do to rows *)
(* that no dispatcher holds.                                               *)
LEMMA DispatchingStep ==
    ASSUME TypeOK, Dispatching, UNCHANGED <<prior, cancelReq, seen>>,
           \A a \in Apis : pc'[a] = pc[a] /\ task'[a] = task[a],
           \A a \in Apis : pc[a] \in HoldPcs
              => task[a] \in Tasks /\ state'[task[a]] = state[task[a]],
           \A u \in Tasks : state[u] \in Final => state'[u] \in Final,
           \A u \in Tasks : state'[u] = "inserting" => state[u] = "inserting"
    PROVE  Dispatching'
<1>1. ASSUME NEW a \in Apis
      PROVE  Dispatcher(a)'
  <2>1. CASE pc[a] \in HoldPcs
    <3>1. Clear(task[a]) => Clear(task[a])'
      BY <2>1, ClearStep
    <3>2. /\ pc'[a] = pc[a] /\ task'[a] = task[a] /\ seen'[a] = seen[a]
          /\ state'[task[a]] = state[task[a]]
      BY <2>1
    <3> QED
      BY <3>1, <3>2 DEF Dispatching, Dispatcher
  <2>2. CASE pc[a] \notin HoldPcs
    BY <2>2 DEF Dispatcher, HoldPcs
  <2> QED
    BY <2>1, <2>2
<1>2. \A t \in Tasks : state'[t] = "inserting" /\ t \in ExecuteNow
         => \E a \in Apis : pc'[a] = "insert" /\ task'[a] = t
  BY DEF Dispatching
<1>3. \A t \in Tasks : t \notin Cancelable => cancelReq'[t] = "no"
  BY DEF Dispatching
<1> QED
  BY <1>1, <1>2, <1>3 DEF Dispatching

(* The same if the rows stay as they are and only workers move.            *)
LEMMA DispatchingMove ==
    ASSUME Dispatching, UNCHANGED <<state, prior, cancelReq, seen>>,
           \A a \in Apis : pc'[a] = pc[a] /\ task'[a] = task[a]
    PROVE  Dispatching'
BY DEF Dispatching, Dispatcher, Clear

(* Where a process works through execute_task() or                         *)
(* cancel_abandoned_task() with the task it locked.                        *)
ExecutePcs == {"execute", "run", "wake", "abandon", "finalize"}

(* What the steps of execute_task() and cancel_abandoned_task() have in    *)
(* common: p moves on with the task it holds, whose state only advances.   *)
ExecuteStep(p) ==
    /\ pc[p] \in ExecutePcs
    /\ \A u \in Tasks : u # task[p] => state'[u] = state[u]
    /\ \A q \in Procs : q # p => pc'[q] = pc[q] /\ task'[q] = task[q]
    /\ pc'[p] # "idle" => task'[p] = task[p]
    /\ IF p \in Workers
       THEN pc'[p] \in {"run", "wake", "release", "finalize", "raise"}
       ELSE pc'[p] \in {"run", "wake", "finalize", "idle"}
    /\ pc'[p] = "run" => pc[p] = "execute" /\ state'[task[p]] = "running"
    /\ pc'[p] = "finalize" => pc[p] = "abandon"
    /\ \/ state'[task[p]] = state[task[p]]
       \/ state'[task[p]] \in Final
       \/ state'[task[p]] = "canceling" /\ state[task[p]] \in Incomplete
       \/ /\ state'[task[p]] = "running" /\ pc'[p] = "run"
          /\ state[task[p]] = "waiting"
    /\ UNCHANGED <<prior, unblocked, appLock, cancelReq, registered, seen,
                   child, cancelState, scanVars>>

(* The inductive invariant survives each of these steps.                   *)
LEMMA ExecuteStepInv ==
    ASSUME Inv, TypeOK', Control', NEW p \in Procs, ExecuteStep(p)
    PROVE  Inv'
<1> USE DEF ExecuteStep, ExecutePcs
<1>1. Holds(p) /\ pc[p] # "insert"
  BY DEF Holds, HoldPcs
<1>2. task[p] \in Tasks /\ appLock[task[p]] = p /\ p \in registered
  BY <1>1, HeldTask
<1>3. state[task[p]] \in Visible
  BY <1>1, HeldTask
<1>4. \A q \in Procs : Holds(q) /\ q # p => task[q] # task[p]
  BY <1>1, HeldTask
<1>5. pc'[p] \in ApiPcs \cup WorkerPcs
      /\ pc'[p] \notin {"insert", "refresh", "check", "unblock", "defer"}
  BY DEF Procs, ApiPcs, WorkerPcs
<1>7. InsertOrder'
  BY <1>2, <1>3, InsertOrderStep DEF Inv, Visible, Incomplete
<1>8. \A u \in Tasks : /\ state[u] \in Final => state'[u] \in Final
                       /\ state'[u] \in {"absent", "inserting", "waiting"}
                             => state[u] = state'[u]
                       /\ state[u] = "inserting" => state'[u] = "inserting"
  BY <1>2, <1>3 DEF Visible, Incomplete, Final
<1>9. \A q \in Procs : q # p => pc'[q] = pc[q] /\ task'[q] = task[q]
  BY DEF Inv, TypeOK
<1>10. \A u \in Tasks : Clear(u) => Clear(u)'
  BY <1>8 DEF TypeOK, Clear
<1>11. \A q \in Procs : Holds(q)' => Holds(q) /\ task'[q] = task[q]
  BY <1>1, <1>9, ProcAssumption
     DEF Inv, TypeOK, Holds, HoldPcs, ChildActive, supVars, Procs
<1>12. HoldLocks'
  BY <1>8, <1>11 DEF Inv, HoldLocks
<1>13. \A q \in Procs : q # p /\ Holds(q) => state'[task'[q]] = state[task[q]]
  BY <1>2, <1>4, <1>9, HeldTask
<1>14. Dispatching'
  <2>1. Dispatcher(p)' \/ p \notin Apis
    BY <1>1, <1>5 DEF Inv, Dispatching, Dispatcher, HoldPcs
  <2>2. ASSUME NEW a \in Apis, a # p
        PROVE  Dispatcher(a)'
    <3>1. CASE pc[a] \in HoldPcs
      <4>1. /\ pc'[a] = pc[a] /\ task'[a] = task[a] /\ seen'[a] = seen[a]
            /\ task[a] \in Tasks
            /\ state'[task[a]] = state[task[a]]
        BY <1>9, <1>13, <2>2, <3>1, HeldTask DEF Holds, Procs
      <4>2. Clear(task[a]) => Clear(task[a])'
        BY <1>8, <4>1 DEF TypeOK, Clear
      <4> QED
        BY <2>2, <4>1, <4>2 DEF Inv, Dispatching, Dispatcher
    <3>2. CASE pc[a] \notin HoldPcs
      BY <1>9, <2>2, <3>2 DEF Dispatcher, HoldPcs, Procs
    <3> QED
      BY <3>1, <3>2
  <2>3. \A u \in Tasks : state'[u] = "inserting" /\ u \in ExecuteNow
            => \E a \in Apis : pc'[a] = "insert" /\ task'[a] = u
    BY <1>1, <1>8, <1>9 DEF Inv, Dispatching, Procs
  <2>4. \A u \in Tasks : u \notin Cancelable => cancelReq'[u] = "no"
    BY DEF Inv, Dispatching
  <2> QED
    BY <2>1, <2>2, <2>3, <2>4 DEF Dispatching
<1>15. Unblocking'
  <2>1. state'[task[p]] = "running" /\ state[task[p]] # "running"
           => unblocked[task[p]] /\ state[task[p]] = "waiting"
    BY <1>1, <1>3 DEF Inv, Running, Final
  <2>2. \A u \in Tasks : state'[u] = "running" =>
                          state[u] \in {"waiting", "running"} /\ unblocked[u]
    BY <1>2, <2>1 DEF Inv, Unblocking
  <2>3. SUFFICES ASSUME NEW u \in Tasks
                 PROVE  /\ state'[u] \in {"absent", "inserting"}
                              => ~unblocked[u] /\ u \notin found
                        /\ state'[u] = "running" => unblocked[u]
                        /\ state'[u] \in {"waiting", "running"}
                           /\ unblocked[u] => Clear(u)'
                        /\ state'[u] = "waiting" /\ u \in found => Clear(u)'
    BY DEF Unblocking, scanVars
  <2> QED
    BY <1>8, <1>10, <2>2 DEF Inv, Unblocking
<1>16. Running'
  <2>1. pc'[p] = "run"
           => /\ state'[task[p]] = "running"
              /\ unblocked[task[p]] /\ Clear(task[p])
    BY <1>2, <1>3 DEF Inv, Running, Unblocking, Visible, Incomplete, Final
  <2>2. \A q \in Procs : pc'[q] = "execute" => unblocked'[task'[q]]
    BY <1>9 DEF Inv, Running
  <2>3. \A w \in Workers : pc'[w] = "spawn" \/ child'[w] = "starting"
                            => unblocked'[task'[w]]
    BY <1>9 DEF Inv, Running, Procs
  <2>4. ASSUME NEW q \in Procs, NEW t \in Tasks, ExecutedBy(q, t)'
        PROVE  state'[t] \in {"running", "canceling"} /\ Clear(t)'
    <3>1. CASE q = p
      BY <1>1, <1>10, <2>1, <2>4, <3>1
         DEF Inv, Control, ExecutedBy, ChildActive
    <3>2. CASE q # p
      <4>1. ExecutedBy(q, t) /\ Holds(q)
        BY <1>9, <2>4, <3>2 DEF ExecutedBy, Holds, HoldPcs, ChildActive
      <4> QED
        BY <1>9, <1>10, <1>13, <3>2, <4>1 DEF Inv, Running, ExecutedBy
    <3> QED
      BY <3>1, <3>2
  <2> QED
    BY <2>2, <2>3, <2>4 DEF Running
<1> QED
  BY <1>7, <1>12, <1>14, <1>15, <1>16 DEF Inv

(* Insert, a step of dispatch(), preserves Inv.                            *)
LEMMA InsertInv ==
    ASSUME Inv, TypeOK', Control', Timely, NoStaleSave, NEW t \in Tasks,
           Insert(t)
    PROVE  Inv'
<1>1. InsertOrder'
  BY DEF Insert, InsertRow, procVars, supVars, Inv, TypeOK, Procs, Incomplete,
         Final, Visible, InsertOrder
<1>2. HoldLocks'
  BY ProcAssumption
     DEF Insert, InsertRow, procVars, supVars, Inv, TypeOK, Procs, Incomplete,
         Final, Visible, HoldLocks, Holds, HoldPcs, ChildActive
<1>3. Dispatching'
  BY DEF Insert, InsertRow, procVars, supVars, Inv, TypeOK, Procs, Incomplete,
         Final, Visible, Dispatching, Dispatcher, Clear
<1>4. Unblocking'
  BY ProcAssumption
     DEF Insert, InsertRow, procVars, supVars, scanVars, Inv, TypeOK, Procs,
         Incomplete, Final, Visible, Unblocking, Clear, InsertOrder, Conflict
<1>5. Running'
  BY DEF Insert, InsertRow, procVars, supVars, Inv, TypeOK, Procs, Incomplete,
         Final, Visible, Running, Clear, ExecutedBy, Unblocking
<1> QED
  BY <1>1, <1>2, <1>3, <1>4, <1>5 DEF Inv

(* Rollback, a step of dispatch(), preserves Inv.                          *)
LEMMA RollbackInv ==
    ASSUME Inv, TypeOK', Control', Timely, NoStaleSave, NEW t \in Tasks,
           Rollback(t)
    PROVE  Inv'
<1>1. InsertOrder'
  BY DEF Rollback, RollbackRow, procVars, supVars, Inv, TypeOK, Procs,
         Incomplete, Final, Visible, InsertOrder
<1>2. HoldLocks'
  BY ProcAssumption
     DEF Rollback, RollbackRow, procVars, supVars, Inv, TypeOK, Procs,
         Incomplete, Final, Visible, HoldLocks, Control, Holds, HoldPcs,
         ChildActive
<1>3. Dispatching'
  BY ProcAssumption
     DEF Rollback, RollbackRow, procVars, supVars, Inv, TypeOK, Procs,
         Incomplete, Final, Visible, Dispatching, Dispatcher, HoldPcs, Clear,
         Conflict, Control, ApiPcs, WorkerPcs, Holds, HoldLocks, ChildActive
<1>4. Unblocking'
  BY ProcAssumption
     DEF Rollback, RollbackRow, procVars, supVars, scanVars, Inv, TypeOK,
         Procs, Incomplete, Final, Visible, Unblocking, Clear, InsertOrder,
         Overlap, Reserved, Conflict
<1>5. Running'
  BY DEF Rollback, RollbackRow, procVars, supVars, Inv, TypeOK, Procs,
         Incomplete, Final, Visible, Running, Clear, ExecutedBy, Unblocking
<1> QED
  BY <1>1, <1>2, <1>3, <1>4, <1>5 DEF Inv

(* Commit, a step of dispatch(), preserves Inv.                            *)
LEMMA CommitInv ==
    ASSUME Inv, TypeOK', Control', Timely, NoStaleSave, NEW t \in Tasks,
           Commit(t)
    PROVE  Inv'
<1>1. InsertOrder'
  BY DEF Commit, CommitRow, NotifyUnblock, Main, procVars, supVars, Inv,
         TypeOK, Procs, Incomplete, Final, Visible, InsertOrder
<1>2. HoldLocks'
  BY ProcAssumption
     DEF Commit, CommitRow, NotifyUnblock, Main, procVars, supVars, Inv,
         TypeOK, Procs, Incomplete, Final, Visible, HoldLocks, Control, Holds,
         HoldPcs, ChildActive
<1>3. Dispatching'
  BY ProcAssumption
     DEF Commit, CommitRow, NotifyUnblock, Main, procVars, supVars, Inv,
         TypeOK, Procs, Incomplete, Final, Visible, Dispatching, Dispatcher,
         HoldPcs, Clear, ApiPcs, WorkerPcs, Holds, HoldLocks, ChildActive
<1>4. Unblocking'
  BY ProcAssumption
     DEF Commit, CommitRow, NotifyUnblock, Main, procVars, supVars, scanVars,
         Inv, TypeOK, Procs, Incomplete, Final, Visible, Unblocking, Clear,
         InsertOrder
<1>5. Running'
  BY DEF Commit, CommitRow, NotifyUnblock, Main, procVars, supVars, Inv,
         TypeOK, Procs, Incomplete, Final, Visible, Running, Clear,
         ExecutedBy, Unblocking
<1> QED
  BY <1>1, <1>2, <1>3, <1>4, <1>5 DEF Inv

(* CancelRead, a step of cancel_task(), preserves Inv.                     *)
LEMMA CancelReadInv ==
    ASSUME Inv, TypeOK', Control', Timely, NoStaleSave, NEW t \in Tasks,
           CancelRead(t)
    PROVE  Inv'
<1>1. Dispatching'
  BY DEF CancelRead, Incomplete, rowVars, procVars, supVars, Inv, TypeOK,
         Procs, Final, Visible, Dispatching, Dispatcher, Clear
<1>2. InsertOrder' /\ HoldLocks' /\ Control' /\ Unblocking' /\ Running'
  BY InsertOrderFrame, HoldLocksFrame, ControlFrame, UnblockingFrame,
     RunningFrame
     DEF Inv, CancelRead, rowVars, procVars, supVars, scanVars
<1> QED
  BY <1>1, <1>2 DEF Inv

(* CancelSet, a step of cancel_task(), preserves Inv.                      *)
LEMMA CancelSetInv ==
    ASSUME Inv, TypeOK', Control', Timely, NoStaleSave, NEW t \in Tasks,
           CancelSet(t)
    PROVE  Inv'
<1>1. InsertOrder'
  BY ProcAssumption, TaskAssumption
     DEF CancelSet, Incomplete, procVars, supVars, Inv, TypeOK, Procs, Final,
         Visible, InsertOrder
<1>2. HoldLocks'
  BY ProcAssumption
     DEF CancelSet, Incomplete, procVars, supVars, Inv, TypeOK, Procs, Final,
         Visible, HoldLocks, Control, Holds, HoldPcs, ChildActive
<1>3. Dispatching'
  <2>1. CASE state[t] \notin Incomplete
    BY <2>1
       DEF CancelSet, Inv, TypeOK, Dispatching, Dispatcher, Clear, procVars
  <2>2. CASE state[t] \in Incomplete
    <3>1. /\ state' = [state EXCEPT ![t] = "canceling"]
          /\ \A u \in Tasks : u # t => cancelReq'[u] = cancelReq[u]
      BY <2>2 DEF CancelSet, Inv, TypeOK
    <3>2. t \in Cancelable
      BY DEF CancelSet, Inv, Dispatching
    <3>3. \A u \in Tasks : Clear(u) => Clear(u)'
      BY <2>2, <3>1 DEF CancelSet, Clear, Incomplete, Final
    <3>4. \A a \in Apis : pc[a] \in HoldPcs /\ task[a] \in Deferred
             => task[a] # t
      BY <3>2 DEF NoStaleSave, Inv, Dispatching, Dispatcher
    <3>5. \A a \in Apis : pc[a] = "insert" => task[a] # t
      BY <2>2 DEF Inv, Dispatching, Dispatcher, Incomplete
    <3> QED
      BY <2>2, <3>1, <3>2, <3>3, <3>4, <3>5
         DEF CancelSet, Inv, TypeOK, Dispatching, Dispatcher, Clear, procVars,
             HoldPcs, Incomplete, Final
  <2> QED
    BY <2>1, <2>2
<1>4. /\ UNCHANGED <<prior, unblocked, found, pc, task, child>>
      /\ \A u \in Tasks : \/ state'[u] = state[u]
                          \/ /\ state[u] \in Incomplete
                             /\ state'[u] = "canceling"
  BY DEF CancelSet, procVars, supVars, scanVars, Inv, TypeOK
<1>5. Unblocking'
  BY <1>4, UnblockingStep DEF Inv, Incomplete, Final
<1>6. Running'
  <2>1. \A p \in Procs, u \in Tasks : ExecutedBy(p, u)' => ExecutedBy(p, u)
    BY <1>4 DEF ExecutedBy
  <2>2. \A p \in Procs, u \in Tasks : ExecutedBy(p, u)
           => state'[u] \in {"running", "canceling"}
    BY <1>4 DEF Inv, Running
  <2> QED
    BY <1>4, <2>1, <2>2, RunningStep DEF Inv, Incomplete, Final
<1> QED
  BY <1>1, <1>2, <1>3, <1>5, <1>6 DEF Inv

(* CancelTell, a step of cancel_task(), preserves Inv.                     *)
LEMMA CancelTellInv ==
    ASSUME Inv, TypeOK', Control', Timely, NoStaleSave, NEW t \in Tasks,
           CancelTell(t)
    PROVE  Inv'
<1>1. Dispatching'
  BY DEF CancelTell, NotifyHandle, Main, rowVars, procVars, Inv, TypeOK,
         Procs, Incomplete, Final, Visible, Dispatching, Dispatcher, Clear
<1>2. InsertOrder' /\ HoldLocks' /\ Control' /\ Unblocking' /\ Running'
  BY InsertOrderFrame, HoldLocksFrame, ControlFrame, UnblockingFrame,
     RunningFrame
     DEF Inv, CancelTell, rowVars, procVars, scanVars
<1> QED
  BY <1>1, <1>2 DEF Inv

(* CancelLost, a step of cancel_task(), preserves Inv.                     *)
LEMMA CancelLostInv ==
    ASSUME Inv, TypeOK', Control', Timely, NoStaleSave, NEW t \in Tasks,
           CancelLost(t)
    PROVE  Inv'
<1>1. Dispatching'
  BY DEF CancelLost, rowVars, procVars, supVars, Inv, TypeOK, Procs,
         Incomplete, Final, Visible, Dispatching, Dispatcher, Clear
<1>2. InsertOrder' /\ HoldLocks' /\ Control' /\ Unblocking' /\ Running'
  BY InsertOrderFrame, HoldLocksFrame, ControlFrame, UnblockingFrame,
     RunningFrame
     DEF Inv, CancelLost, rowVars, procVars, supVars, scanVars
<1> QED
  BY <1>1, <1>2 DEF Inv

(* ApiInsert, a step of dispatch(), preserves Inv.                         *)
LEMMA ApiInsertInv ==
    ASSUME Inv, TypeOK', Control', Timely, NoStaleSave, NEW a \in Apis, NEW t \in Tasks,
           ApiInsert(a, t)
    PROVE  Inv'
<1>1. InsertOrder'
  BY DEF ApiInsert, InsertRow, Goto, supVars, Inv, TypeOK, Procs, Incomplete,
         Final, Visible, InsertOrder
<1>2. HoldLocks'
  BY ProcAssumption
     DEF ApiInsert, InsertRow, Goto, supVars, Inv, TypeOK, Procs, Incomplete,
         Final, Visible, HoldLocks, Holds, HoldPcs, ChildActive
<1>3. Dispatching'
  BY DEF ApiInsert, InsertRow, Goto, supVars, Inv, TypeOK, Procs, Incomplete,
         Final, Visible, Dispatching, Dispatcher, Clear
<1>4. Unblocking'
  BY ProcAssumption
     DEF ApiInsert, InsertRow, Goto, supVars, scanVars, Inv, TypeOK, Procs,
         Incomplete, Final, Visible, Unblocking, Clear, InsertOrder, Conflict
<1>5. Running'
  BY ProcAssumption
     DEF ApiInsert, InsertRow, Goto, supVars, Inv, TypeOK, Procs, Incomplete,
         Final, Visible, Running, Clear, ExecutedBy, Holds, HoldLocks,
         HoldPcs, ChildActive, Unblocking
<1> QED
  BY <1>1, <1>2, <1>3, <1>4, <1>5 DEF Inv

(* ApiRollback, a step of dispatch(), preserves Inv.                       *)
LEMMA ApiRollbackInv ==
    ASSUME Inv, TypeOK', Control', Timely, NoStaleSave, NEW a \in Apis,
           ApiRollback(a)
    PROVE  Inv'
<1>1. InsertOrder'
  BY DEF ApiRollback, RollbackRow, Free, Goto, supVars, Inv, TypeOK, Procs,
         Incomplete, Final, Visible, InsertOrder
<1>2. HoldLocks'
  BY ProcAssumption
     DEF ApiRollback, RollbackRow, Free, Goto, supVars, Inv, TypeOK, Procs,
         Incomplete, Final, Visible, HoldLocks, Control, Holds, HoldPcs,
         ChildActive
<1>3. Dispatching'
  BY ProcAssumption
     DEF ApiRollback, RollbackRow, Free, Goto, supVars, Inv, TypeOK, Procs,
         Incomplete, Final, Visible, Dispatching, Dispatcher, HoldPcs, Clear,
         Conflict, Control, ApiPcs, WorkerPcs, Holds, HoldLocks, ChildActive
<1>4. Unblocking'
  BY ProcAssumption
     DEF ApiRollback, RollbackRow, Free, Goto, supVars, scanVars, Inv, TypeOK,
         Procs, Incomplete, Final, Visible, Unblocking, Clear, InsertOrder,
         Overlap, Reserved, Conflict
<1>5. Running'
  <2>1. task[a] \in Tasks /\ state[task[a]] = "inserting"
    BY HeldTask
       DEF ApiRollback, Inv, Dispatching, Dispatcher, Holds, HoldPcs, Procs
  <2>2. \A p \in Procs : p # a => pc'[p] = pc[p] /\ task'[p] = task[p]
    BY DEF ApiRollback, Free, Goto
  <2>3. /\ pc'[a] = "idle"
        /\ \A t \in Tasks : /\ t # task[a] => state'[t] = state[t]
                            /\ prior'[t] \subseteq prior[t] \ {task[a]}
    BY <2>1 DEF ApiRollback, RollbackRow, Free, Goto, Inv, TypeOK, Procs
  <2>4. /\ \A p \in Procs : pc'[p] = "execute" => unblocked'[task'[p]]
        /\ \A w \in Workers :
              pc'[w] = "spawn" \/ child'[w] = "starting"
                 => unblocked'[task'[w]]
    BY <2>2, <2>3, ProcAssumption
       DEF ApiRollback, RollbackRow, Inv, Running, Procs, supVars
  <2>5. ASSUME NEW p \in Procs, NEW t \in Tasks, ExecutedBy(p, t)'
        PROVE  state'[t] \in {"running", "canceling"} /\ Clear(t)'
    <3>1. ExecutedBy(p, t) /\ t # task[a]
      BY <2>1, <2>2, <2>3, <2>5
         DEF ApiRollback, Inv, Running, ExecutedBy, supVars
    <3> QED
      BY <2>1, <2>3, <3>1 DEF Inv, TypeOK, Running, Clear
  <2> QED
    BY <2>4, <2>5 DEF Running
<1> QED
  BY <1>1, <1>2, <1>3, <1>4, <1>5 DEF Inv

(* ApiCommit, a step of dispatch(), preserves Inv.                         *)
LEMMA ApiCommitInv ==
    ASSUME Inv, TypeOK', Control', Timely, NoStaleSave, NEW a \in Apis,
           ApiCommit(a)
    PROVE  Inv'
<1>1. InsertOrder'
  BY DEF ApiCommit, CommitRow, Goto, supVars, Inv, TypeOK, Procs, Incomplete,
         Final, Visible, InsertOrder
<1>2. HoldLocks'
  BY ProcAssumption
     DEF ApiCommit, CommitRow, Goto, supVars, Inv, TypeOK, Procs, Incomplete,
         Final, Visible, HoldLocks, Control, Holds, HoldPcs, ChildActive
<1>3. Dispatching'
  BY ProcAssumption
     DEF ApiCommit, CommitRow, Goto, supVars, Inv, TypeOK, Procs, Incomplete,
         Final, Visible, Dispatching, Dispatcher, HoldPcs, Clear, Conflict,
         Control, ApiPcs, WorkerPcs, Holds, HoldLocks, ChildActive
<1>4. Unblocking'
  BY ProcAssumption
     DEF ApiCommit, CommitRow, Goto, supVars, scanVars, Inv, TypeOK, Procs,
         Incomplete, Final, Visible, Unblocking, Clear, InsertOrder, Overlap,
         Reserved, Conflict
<1>5. Running'
  BY DEF ApiCommit, CommitRow, Goto, supVars, Inv, TypeOK, Procs, Incomplete,
         Final, Visible, Running, Clear, ExecutedBy, Unblocking
<1> QED
  BY <1>1, <1>2, <1>3, <1>4, <1>5 DEF Inv

(* Refresh, a step of dispatch(), preserves Inv.                           *)
LEMMA RefreshInv ==
    ASSUME Inv, TypeOK', Control', Timely, NoStaleSave, NEW a \in Apis,
           Refresh(a)
    PROVE  Inv'
<1>1. HoldLocks'
  BY ProcAssumption
     DEF Refresh, Goto, rowVars, supVars, Inv, TypeOK, Procs, Incomplete,
         Final, Visible, HoldLocks, Control, Holds, HoldPcs, ChildActive
<1>2. Dispatching'
  BY ProcAssumption
     DEF Refresh, Goto, rowVars, supVars, Inv, TypeOK, Procs, Incomplete,
         Final, Visible, Dispatching, Dispatcher, HoldPcs, Clear, Conflict,
         Control, ApiPcs, WorkerPcs, Holds, HoldLocks, ChildActive, Unblocking
<1>3. Running'
  BY DEF Refresh, Goto, rowVars, supVars, Inv, TypeOK, Procs, Incomplete,
         Final, Visible, Running, Clear, ExecutedBy, Unblocking
<1>4. InsertOrder' /\ Unblocking'
  BY InsertOrderFrame, UnblockingFrame
     DEF Inv, Refresh, Goto, rowVars, supVars, scanVars
<1> QED
  BY <1>1, <1>2, <1>3, <1>4 DEF Inv

(* CheckResources, a step of dispatch(), preserves Inv.                    *)
LEMMA CheckResourcesInv ==
    ASSUME Inv, TypeOK', Control', Timely, NoStaleSave, NEW a \in Apis,
           CheckResources(a)
    PROVE  Inv'
<1>0. /\ \E label \in {"unblock", "defer", "abandon"} : Goto(a, label)
      /\ a \in Procs
      /\ UNCHANGED <<rowVars, cancelReq, registered, task, seen, supVars,
                     wakeVars, scanVars>>
  BY DEF CheckResources, Procs
<1>1. HoldLocks'
  BY ProcAssumption
     DEF CheckResources, Blockers, Incomplete, Goto, rowVars, supVars, Inv,
         TypeOK, Procs, Final, Visible, HoldLocks, Holds, HoldPcs, ChildActive
<1>2. Dispatching'
  <2>1. task[a] \in Tasks
    BY HeldTask DEF CheckResources, Holds, HoldPcs, Procs
  <2>2. pc'[a] = "unblock" => Clear(task[a])
    <3>1. pc'[a] = "unblock" => Blockers(task[a]) = {}
      BY DEF CheckResources, Goto, Inv, TypeOK, Procs
    <3> QED
      BY <2>1, <3>1, ClearIffNoBlockers
  <2>3. /\ pc'[a] \in {"unblock", "defer", "abandon"}
        /\ pc'[a] = "defer" => task[a] \in Deferred
        /\ \A b \in Procs : b # a => pc'[b] = pc[b]
    BY DEF CheckResources, Goto, Inv, TypeOK, Procs
  <2>4. ASSUME NEW b \in Apis
        PROVE  Dispatcher(b)'
    <3>1. CASE b = a
      BY <2>2, <2>3, <3>1
         DEF CheckResources, Inv, Dispatching, Dispatcher, Clear, HoldPcs,
             rowVars
    <3>2. CASE b # a
      BY <2>3, <3>2
         DEF CheckResources, Inv, Dispatching, Dispatcher, Clear, rowVars,
             Procs
    <3> QED
      BY <3>1, <3>2
  <2>5. \A t \in Tasks : state[t] = "inserting" /\ t \in ExecuteNow
            => \E b \in Apis : pc'[b] = "insert" /\ task[b] = t
    BY <2>3 DEF CheckResources, Inv, Dispatching, Procs
  <2> QED
    BY <2>4, <2>5 DEF CheckResources, Inv, Dispatching, rowVars
<1>3. Running'
  BY DEF CheckResources, Blockers, Incomplete, Goto, rowVars, supVars, Inv,
         TypeOK, Procs, Final, Visible, Running, Clear, ExecutedBy, Unblocking
<1>4. InsertOrder' /\ Unblocking'
  BY InsertOrderFrame, UnblockingFrame
     DEF Inv, CheckResources, Goto, rowVars, supVars, scanVars
<1> QED
  BY <1>1, <1>2, <1>3, <1>4 DEF Inv

(* UnblockNow, a step of Task.unblock(), preserves Inv.                    *)
LEMMA UnblockNowInv ==
    ASSUME Inv, TypeOK', Control', Timely, NoStaleSave, NEW a \in Apis,
           UnblockNow(a)
    PROVE  Inv'
<1>1. HoldLocks'
  BY ProcAssumption
     DEF UnblockNow, Goto, supVars, Inv, TypeOK, Procs, Incomplete, Final,
         Visible, HoldLocks, Control, Holds, HoldPcs, ChildActive
<1>2. Dispatching'
  BY ProcAssumption
     DEF UnblockNow, Goto, supVars, Inv, TypeOK, Procs, Incomplete, Final,
         Visible, Dispatching, Dispatcher, HoldPcs, Clear, Conflict, Control,
         ApiPcs, WorkerPcs, Holds, HoldLocks, ChildActive
<1>3. Unblocking'
  <2>1. task[a] \in Tasks /\ state[task[a]] \in Visible
    BY HeldTask DEF UnblockNow, Holds, HoldPcs, Procs
  <2>2. state[task[a]] \in {"waiting", "running"} => Clear(task[a])
    BY <2>1 DEF UnblockNow, Inv, Dispatching, Dispatcher, Unblocking
  <2>3. \A t \in Tasks : t # task[a] => unblocked'[t] = unblocked[t]
    BY DEF UnblockNow, Inv, TypeOK
  <2> QED
    BY <2>1, <2>2, <2>3
       DEF UnblockNow, Inv, Unblocking, Clear, Visible, Incomplete, Final,
           scanVars
<1>4. Running'
  BY ProcAssumption
     DEF UnblockNow, Goto, supVars, Inv, TypeOK, Procs, Incomplete, Final,
         Visible, Running, Clear, ExecutedBy, Holds, HoldLocks, HoldPcs,
         ChildActive, Unblocking
<1>5. InsertOrder'
  BY InsertOrderFrame DEF Inv, UnblockNow
<1> QED
  BY <1>1, <1>2, <1>3, <1>4, <1>5 DEF Inv

(* Defer, a step of dispatch(), preserves Inv.                             *)
LEMMA DeferInv ==
    ASSUME Inv, TypeOK', Control', Timely, NoStaleSave, NEW a \in Apis,
           Defer(a)
    PROVE  Inv'
<1>1. InsertOrder'
  <2>1. /\ task[a] \in Tasks
        /\ state[task[a]] = "waiting"
        /\ seen[a].state = "waiting"
        /\ seen[a].unblocked => Clear(task[a])
    BY HeldTask DEF Defer, Inv, Dispatching, Dispatcher, Holds, HoldPcs, Procs
  <2>2. state' = state
    BY <2>1 DEF Defer, Inv, TypeOK
  <2> QED
    BY <2>2, InsertOrderFrame DEF Defer, Inv
<1>2. HoldLocks'
  BY ProcAssumption
     DEF Defer, Free, Goto, supVars, Inv, TypeOK, Procs, Incomplete, Final,
         Visible, HoldLocks, Control, Holds, HoldPcs, ChildActive
<1>3. Dispatching'
  BY ProcAssumption
     DEF Defer, Free, Goto, supVars, Inv, TypeOK, Procs, Incomplete, Final,
         Visible, Dispatching, Dispatcher, HoldPcs, Clear, Conflict, Control,
         ApiPcs, WorkerPcs, Holds, HoldLocks, ChildActive
<1>4. Unblocking'
  <2>1. /\ task[a] \in Tasks
        /\ state[task[a]] = "waiting"
        /\ seen[a].state = "waiting"
        /\ seen[a].unblocked => Clear(task[a])
    BY HeldTask DEF Defer, Inv, Dispatching, Dispatcher, Holds, HoldPcs, Procs
  <2>2. state' = state
    BY <2>1 DEF Defer, Inv, TypeOK
  <2>3. /\ \A t \in Tasks : t # task[a] => unblocked'[t] = unblocked[t]
        /\ unblocked'[task[a]] => Clear(task[a])
    BY <2>1 DEF Defer, Inv, TypeOK
  <2> QED
    BY <2>1, <2>2, <2>3 DEF Defer, Inv, Unblocking, Clear, scanVars
<1>5. Running'
  <2>1. /\ task[a] \in Tasks
        /\ state[task[a]] = "waiting"
        /\ seen[a].state = "waiting"
        /\ seen[a].unblocked => Clear(task[a])
    BY HeldTask DEF Defer, Inv, Dispatching, Dispatcher, Holds, HoldPcs, Procs
  <2>2. state' = state
    BY <2>1 DEF Defer, Inv, TypeOK
  <2>3. \A t \in Tasks : t # task[a] => unblocked'[t] = unblocked[t]
    BY DEF Defer, Inv, TypeOK
  <2>4. \A p \in Procs : p # a => pc'[p] = pc[p] /\ task'[p] = task[p]
    BY DEF Defer, Free, Goto
  <2>5. pc'[a] = "idle"
    BY DEF Defer, Free, Goto, Inv, TypeOK, Procs
  <2>6. \A p \in Procs : p # a /\ Holds(p)
           => task[p] \in Tasks /\ task[p] # task[a]
    BY HeldTask DEF Defer, Holds, HoldPcs, Procs
  <2>7. /\ \A p \in Procs : pc'[p] = "execute" => unblocked'[task'[p]]
        /\ \A w \in Workers :
              pc'[w] = "spawn" \/ child'[w] = "starting"
                 => unblocked'[task'[w]]
    BY <2>3, <2>4, <2>5, <2>6, ProcAssumption
       DEF Defer, Inv, Running, Holds, HoldPcs, ChildActive, Procs, supVars
  <2>8. \A p \in Procs, t \in Tasks : ExecutedBy(p, t)' => ExecutedBy(p, t)
    BY <2>4, <2>5, ProcAssumption DEF Defer, ExecutedBy, supVars
  <2> QED
    BY <2>2, <2>7, <2>8 DEF Defer, Inv, Running, Clear
<1> QED
  BY <1>1, <1>2, <1>3, <1>4, <1>5 DEF Inv

(* ApiCrash, the death of a process between any two statements, preserves  *)
(* Inv.                                                                    *)
LEMMA ApiCrashInv ==
    ASSUME Inv, TypeOK', Control', Timely, NoStaleSave, NEW a \in Apis,
           ApiCrash(a)
    PROVE  Inv'
<1>1. HoldLocks'
  BY ProcAssumption
     DEF ApiCrash, Goto, rowVars, supVars, Inv, TypeOK, Procs, Incomplete,
         Final, Visible, HoldLocks, Control, Holds, HoldPcs, ChildActive
<1>2. Dispatching'
  BY ProcAssumption
     DEF ApiCrash, Goto, rowVars, supVars, Inv, TypeOK, Procs, Incomplete,
         Final, Visible, Dispatching, Dispatcher, HoldPcs, Clear, Conflict,
         Control, ApiPcs, WorkerPcs, Holds, HoldLocks, ChildActive
<1>3. Running'
  BY DEF ApiCrash, Goto, rowVars, supVars, Inv, TypeOK, Procs, Incomplete,
         Final, Visible, Running, Clear, ExecutedBy, Unblocking
<1>4. InsertOrder' /\ Unblocking'
  BY InsertOrderFrame, UnblockingFrame
     DEF Inv, ApiCrash, Goto, rowVars, supVars, scanVars
<1> QED
  BY <1>1, <1>2, <1>3, <1>4 DEF Inv

(* ApiExit, a step of PulpApiWorker.run(), preserves Inv.                  *)
LEMMA ApiExitInv ==
    ASSUME Inv, TypeOK', Control', Timely, NoStaleSave, NEW a \in Apis,
           ApiExit(a)
    PROVE  Inv'
<1>1. HoldLocks'
  BY ProcAssumption
     DEF ApiExit, Goto, DeleteApps, supVars, Inv, TypeOK, Procs, Incomplete,
         Final, Visible, HoldLocks, Control, Holds, HoldPcs, ChildActive
<1>2. Dispatching'
  BY ProcAssumption
     DEF ApiExit, Goto, DeleteApps, supVars, Inv, TypeOK, Procs, Incomplete,
         Final, Visible, Dispatching, Dispatcher, HoldPcs, Clear, Conflict,
         Control, ApiPcs, WorkerPcs, Holds, HoldLocks, ChildActive
<1>3. Running'
  BY DEF ApiExit, Goto, DeleteApps, supVars, Inv, TypeOK, Procs, Incomplete,
         Final, Visible, Running, Clear, ExecutedBy, Unblocking
<1>4. InsertOrder' /\ Unblocking'
  BY InsertOrderFrame, UnblockingFrame
     DEF Inv, ApiExit, Goto, DeleteApps, supVars, scanVars
<1> QED
  BY <1>1, <1>2, <1>3, <1>4 DEF Inv

(* SetRunning, a step of Task.set_running(), preserves Inv.                *)
LEMMA SetRunningInv ==
    ASSUME Inv, TypeOK', Control', Timely, NoStaleSave, NEW p \in Procs,
           SetRunning(p)
    PROVE  Inv'
<1> USE DEF ExecutePcs
<1>1. state[task[p]] \in Visible /\ task[p] \in Tasks /\ pc[p] \in ExecutePcs
  BY HeldTask DEF SetRunning, Holds, HoldPcs
<1>2. CASE state[task[p]] = "waiting" /\ appLock[task[p]] = p
    <2>1. ExecuteStep(p)
      BY <1>1, <1>2
         DEF ExecuteStep, SetRunning, Goto, Inv, TypeOK, Procs, supVars
    <2> QED
      BY <2>1, ExecuteStepInv
<1>3. CASE ~(state[task[p]] = "waiting" /\ appLock[task[p]] = p)
  <2>1. CASE p \in Workers
      <3>1. ExecuteStep(p)
        BY <1>1, <1>3, <2>1
           DEF ExecuteStep, SetRunning, Raise, Goto, Inv, TypeOK, Procs,
               supVars
      <3> QED
        BY <3>1, ExecuteStepInv
  <2>2. CASE p \notin Workers
      <3>1. ExecuteStep(p)
        BY <1>1, <1>3, <2>2
           DEF ExecuteStep, SetRunning, Raise, Free, Goto, Inv, TypeOK, Procs,
               supVars
      <3> QED
        BY <3>1, ExecuteStepInv
  <2> QED
    BY <2>1, <2>2
<1> QED
  BY <1>2, <1>3

(* Finish, a step of Task.set_completed() and Task.set_failed(), preserves *)
(* Inv.                                                                    *)
LEMMA FinishInv ==
    ASSUME Inv, TypeOK', Control', Timely, NoStaleSave, NEW p \in Procs,
           Finish(p)
    PROVE  Inv'
<1> USE DEF ExecutePcs
<1>1. state[task[p]] \in Visible /\ task[p] \in Tasks /\ pc[p] \in ExecutePcs
  BY HeldTask DEF Finish, Holds, HoldPcs
<1>2. ASSUME NEW s \in {"completed", "failed"},
             state' = [state EXCEPT ![task[p]] = s], Goto(p, "wake"),
             UNCHANGED task
      PROVE  Inv'
    <2>1. ExecuteStep(p)
      BY <1>1, <1>2
         DEF ExecuteStep, Finish, Goto, Final, Inv, TypeOK, Procs, supVars
    <2> QED
      BY <2>1, ExecuteStepInv
<1>3. CASE state[task[p]] = "canceling" /\ Goto(p, "wake")
           /\ UNCHANGED <<state, task>>
    <2>1. ExecuteStep(p)
      BY <1>1, <1>3 DEF ExecuteStep, Finish, Goto, Inv, TypeOK, Procs, supVars
    <2> QED
      BY <2>1, ExecuteStepInv
<1>4. CASE Raise(p) /\ UNCHANGED state
  <2>1. CASE p \in Workers
      <3>1. ExecuteStep(p)
        BY <1>1, <1>4, <2>1
           DEF ExecuteStep, Finish, Raise, Goto, Inv, TypeOK, Procs, supVars
      <3> QED
        BY <3>1, ExecuteStepInv
  <2>2. CASE p \notin Workers
      <3>1. ExecuteStep(p)
        BY <1>1, <1>4, <2>2
           DEF ExecuteStep, Finish, Raise, Free, Goto, Inv, TypeOK, Procs,
               supVars
      <3> QED
        BY <3>1, ExecuteStepInv
  <2> QED
    BY <2>1, <2>2
<1> QED
  BY <1>2, <1>3, <1>4 DEF Finish

(* Wake, a step of PulpcoreWorker.supervise_immediate_task(), preserves    *)
(* Inv.                                                                    *)
LEMMA WakeInv ==
    ASSUME Inv, TypeOK', Control', Timely, NoStaleSave, NEW p \in Procs,
           Wake(p)
    PROVE  Inv'
<1> USE DEF ExecutePcs
<1>1. state[task[p]] \in Visible /\ task[p] \in Tasks /\ pc[p] \in ExecutePcs
  BY HeldTask DEF Wake, Holds, HoldPcs
<1>2. CASE p \in Workers
      <2>1. ExecuteStep(p)
        BY <1>1, <1>2
           DEF ExecuteStep, Wake, Goto, NotifyUnblock, Main, rowVars, Inv,
               TypeOK, Procs, supVars
      <2> QED
        BY <2>1, ExecuteStepInv
<1>3. CASE p \notin Workers
      <2>1. ExecuteStep(p)
        BY <1>1, <1>3
           DEF ExecuteStep, Wake, Free, Goto, NotifyUnblock, Main, rowVars,
               Inv, TypeOK, Procs, supVars
      <2> QED
        BY <2>1, ExecuteStepInv
<1> QED
    BY <1>2, <1>3

(* SetCanceling, a step of Task.set_canceling(), preserves Inv.            *)
LEMMA SetCancelingInv ==
    ASSUME Inv, TypeOK', Control', Timely, NoStaleSave, NEW p \in Procs,
           SetCanceling(p)
    PROVE  Inv'
<1> USE DEF ExecutePcs
<1>1. state[task[p]] \in Visible /\ task[p] \in Tasks /\ pc[p] \in ExecutePcs
  BY HeldTask DEF SetCanceling, Holds, HoldPcs
<1>2. CASE state[task[p]] \in Incomplete
    <2>1. ExecuteStep(p)
      BY <1>1, <1>2
         DEF ExecuteStep, SetCanceling, Goto, Inv, TypeOK, Procs, supVars
    <2> QED
      BY <2>1, ExecuteStepInv
<1>3. CASE state[task[p]] \notin Incomplete
  <2>1. CASE p \in Workers
      <3>1. ExecuteStep(p)
        BY <1>1, <1>3, <2>1
           DEF ExecuteStep, SetCanceling, Raise, Goto, Inv, TypeOK, Procs,
               supVars
      <3> QED
        BY <3>1, ExecuteStepInv
  <2>2. CASE p \notin Workers
      <3>1. ExecuteStep(p)
        BY <1>1, <1>3, <2>2
           DEF ExecuteStep, SetCanceling, Raise, Free, Goto, Inv, TypeOK,
               Procs, supVars
      <3> QED
        BY <3>1, ExecuteStepInv
  <2> QED
    BY <2>1, <2>2
<1> QED
  BY <1>2, <1>3

(* SetCanceled, a step of Task.set_canceled(), preserves Inv.              *)
LEMMA SetCanceledInv ==
    ASSUME Inv, TypeOK', Control', Timely, NoStaleSave, NEW p \in Procs,
           SetCanceled(p)
    PROVE  Inv'
<1> USE DEF ExecutePcs
<1>1. state[task[p]] \in Visible /\ task[p] \in Tasks /\ pc[p] \in ExecutePcs
  BY HeldTask DEF SetCanceled, Holds, HoldPcs
<1>2. CASE state[task[p]] = "canceling" /\ appLock[task[p]] = p
  <2>3. FinalState(p) \in Final
    BY <1>1 DEF FinalState, Inv, TypeOK, Control, SetCanceled, Final
  <2>4. state' = [state EXCEPT ![task[p]] = FinalState(p)]
    BY <1>2 DEF SetCanceled
  <2>5. state' \in [Tasks -> Visible \cup {"absent", "inserting"}]
    BY <1>1, <2>3, <2>4 DEF Inv, TypeOK, Visible
  <2>1. CASE p \in Workers
      <3>1. ExecuteStep(p)
        BY <1>1, <1>2, <2>3, <2>5, <2>1
           DEF ExecuteStep, SetCanceled, Goto, Inv, TypeOK, Procs, supVars
      <3> QED
        BY <3>1, ExecuteStepInv
  <2>2. CASE p \notin Workers
      <3>1. ExecuteStep(p)
        BY <1>1, <1>2, <2>3, <2>5, <2>2
           DEF ExecuteStep, SetCanceled, Free, Goto, Inv, TypeOK, Procs,
               supVars
      <3> QED
        BY <3>1, ExecuteStepInv
  <2> QED
    BY <2>1, <2>2
<1>3. CASE ~(state[task[p]] = "canceling" /\ appLock[task[p]] = p)
  <2>1. CASE p \in Workers
      <3>1. ExecuteStep(p)
        BY <1>1, <1>3, <2>1
           DEF ExecuteStep, SetCanceled, Raise, Goto, Inv, TypeOK, Procs,
               supVars
      <3> QED
        BY <3>1, ExecuteStepInv
  <2>2. CASE p \notin Workers
      <3>1. ExecuteStep(p)
        BY <1>1, <1>3, <2>2
           DEF ExecuteStep, SetCanceled, Raise, Free, Goto, Inv, TypeOK,
               Procs, supVars
      <3> QED
        BY <3>1, ExecuteStepInv
  <2> QED
    BY <2>1, <2>2
<1> QED
  BY <1>2, <1>3

(* Start, a step of PulpcoreWorker.__init__(), preserves Inv.              *)
LEMMA StartInv ==
    ASSUME Inv, TypeOK', Control', Timely, NoStaleSave, NEW w \in Workers,
           Start(w)
    PROVE  Inv'
<1>1. HoldLocks'
  BY ProcAssumption
     DEF Start, Goto, rowVars, supVars, Inv, TypeOK, Procs, Incomplete, Final,
         Visible, HoldLocks, Control, Holds, HoldPcs, ChildActive
<1>2. Dispatching'
  BY ProcAssumption
     DEF Start, Goto, rowVars, supVars, Inv, TypeOK, Procs, Incomplete, Final,
         Visible, Dispatching, Dispatcher, Clear
<1>3. Running'
  BY DEF Start, Goto, rowVars, supVars, Inv, TypeOK, Procs, Incomplete, Final,
         Visible, Running, Clear, ExecutedBy, Unblocking
<1>4. InsertOrder' /\ Unblocking'
  BY InsertOrderFrame, UnblockingFrame
     DEF Inv, Start, Goto, rowVars, supVars, scanVars
<1> QED
  BY <1>1, <1>2, <1>3, <1>4 DEF Inv

(* FetchNone, a step of PulpcoreWorker.handle_unblocked_tasks(), preserves *)
(* Inv.                                                                    *)
LEMMA FetchNoneInv ==
    ASSUME Inv, TypeOK', Control', Timely, NoStaleSave, NEW w \in Workers,
           FetchNone(w)
    PROVE  Inv'
<1>1. HoldLocks'
  BY ProcAssumption
     DEF FetchNone, Candidates, Claimable, Incomplete, Skippable, Goto,
         rowVars, supVars, Inv, TypeOK, Procs, Final, Visible, HoldLocks,
         Control, Holds, HoldPcs, ChildActive
<1>2. Dispatching'
  BY ProcAssumption
     DEF FetchNone, Candidates, Claimable, Incomplete, Skippable, Goto,
         rowVars, supVars, Inv, TypeOK, Procs, Final, Visible, Dispatching,
         Dispatcher, Clear
<1>3. Running'
  BY DEF FetchNone, Candidates, Claimable, Incomplete, Skippable, Goto,
         rowVars, supVars, Inv, TypeOK, Procs, Final, Visible, Running, Clear,
         ExecutedBy, Unblocking
<1>4. InsertOrder' /\ Unblocking'
  BY InsertOrderFrame, UnblockingFrame
     DEF Inv, FetchNone, rowVars, supVars, scanVars
<1> QED
  BY <1>1, <1>2, <1>3, <1>4 DEF Inv

(* FetchFails, a step of PulpcoreWorker.fetch_task(), preserves Inv.       *)
LEMMA FetchFailsInv ==
    ASSUME Inv, TypeOK', Control', Timely, NoStaleSave, NEW w \in Workers,
           FetchFails(w)
    PROVE  Inv'
<1>1. HoldLocks'
  BY ProcAssumption
     DEF FetchFails, Candidates, Claimable, Incomplete, Die, Goto, rowVars,
         Inv, TypeOK, Procs, Final, Visible, HoldLocks, Holds, HoldPcs,
         ChildActive
<1>2. Dispatching'
  <2>1. UNCHANGED <<state, prior, cancelReq, seen>>
    BY DEF FetchFails, Die, Goto, rowVars
  <2>2. \A a \in Apis : pc'[a] = pc[a] /\ task'[a] = task[a]
    BY ProcAssumption DEF FetchFails, Die, Goto, rowVars, Procs, Inv, TypeOK
  <2> QED
    BY <2>1, <2>2, DispatchingMove DEF Inv
<1>3. Unblocking'
  BY DEF FetchFails, Candidates, Claimable, Incomplete, Die, Goto, rowVars,
         Inv, TypeOK, Procs, Final, Visible, Unblocking, Clear, InsertOrder
<1>4. Running'
  <2>1. /\ UNCHANGED <<state, prior, unblocked, task, child>>
        /\ pc[w] \in {"handle", "sleep"} /\ pc'[w] = "dead"
        /\ \A p \in Procs : p # w => pc'[p] = pc[p]
    BY DEF FetchFails, rowVars, Die, Goto, Inv, TypeOK, Procs
  <2>2. \A p \in Procs, u \in Tasks : ExecutedBy(p, u)' => ExecutedBy(p, u)
    BY <2>1 DEF ExecutedBy
  <2>3. \A p \in Procs, u \in Tasks : ExecutedBy(p, u)
           => state'[u] \in {"running", "canceling"}
    BY <2>1 DEF Inv, Running
  <2>4. \A p \in Procs : pc'[p] \in {"execute", "spawn"} => pc'[p] = pc[p]
    BY <2>1
  <2> QED
    BY <2>1, <2>2, <2>3, <2>4, RunningStep DEF Inv, Procs
<1>5. InsertOrder'
  BY InsertOrderFrame DEF Inv, FetchFails, Goto, rowVars
<1> QED
  BY <1>1, <1>2, <1>3, <1>4, <1>5 DEF Inv

(* Release, a step of PulpcoreWorker.handle_unblocked_tasks(), preserves   *)
(* Inv.                                                                    *)
LEMMA ReleaseInv ==
    ASSUME Inv, TypeOK', Control', Timely, NoStaleSave, NEW w \in Workers,
           Release(w)
    PROVE  Inv'
<1>1. HoldLocks'
  BY ProcAssumption
     DEF Release, Goto, Die, Inv, TypeOK, Procs, Incomplete, Final, Visible,
         HoldLocks, Control, Holds, HoldPcs, ChildActive
<1>2. Dispatching'
  <2>1. UNCHANGED <<state, prior, cancelReq, seen>>
    BY DEF Release
  <2>2. \A p \in Procs : p # w => pc'[p] = pc[p] /\ task'[p] = task[p]
    BY DEF Release, Die, Goto, Inv, TypeOK
  <2>3. \A a \in Apis : pc'[a] = pc[a] /\ task'[a] = task[a]
    BY <2>2, ProcAssumption DEF Procs
  <2> QED
    BY <2>1, <2>3, DispatchingMove DEF Inv
<1>3. Unblocking'
  BY ProcAssumption
     DEF Release, Goto, scanVars, Die, Inv, TypeOK, Procs, Incomplete, Final,
         Visible, Unblocking, Clear, InsertOrder, Overlap, Reserved, Conflict
<1>4. Running'
  <2>1. ~ChildActive(w)
    BY DEF Release, Inv, Control
  <2>2. \A p \in Procs : p # w => pc'[p] = pc[p] /\ task'[p] = task[p]
    BY DEF Release, Die, Goto, Inv, TypeOK
  <2>3. pc'[w] \in {"handle", "dead"}
    BY DEF Release, Die, Goto, Inv, TypeOK, Procs
  <2>4. /\ \A p \in Procs : pc'[p] = "execute" => unblocked'[task'[p]]
        /\ \A v \in Workers :
              pc'[v] = "spawn" \/ child'[v] = "starting"
                 => unblocked'[task'[v]]
    BY <2>1, <2>2, <2>3 DEF Release, Inv, Running, Procs, ChildActive
  <2>5. \A p \in Procs, u \in Tasks : ExecutedBy(p, u)' => ExecutedBy(p, u)
    BY <2>1, <2>2, <2>3 DEF Release, ExecutedBy, ChildActive
  <2> QED
    BY <2>4, <2>5 DEF Release, Inv, Running, Clear
<1>5. InsertOrder'
  BY InsertOrderFrame DEF Inv, Release
<1> QED
  BY <1>1, <1>2, <1>3, <1>4, <1>5 DEF Inv

(* Spawn, a step of PulpcoreWorker.supervise_task(), preserves Inv.        *)
LEMMA SpawnInv ==
    ASSUME Inv, TypeOK', Control', Timely, NoStaleSave, NEW w \in Workers,
           Spawn(w)
    PROVE  Inv'
<1>1. HoldLocks'
  BY ProcAssumption
     DEF Spawn, Goto, rowVars, Inv, TypeOK, Procs, Incomplete, Final, Visible,
         HoldLocks, Control, Holds, HoldPcs, ChildActive
<1>2. Dispatching'
  BY ProcAssumption
     DEF Spawn, Goto, rowVars, Inv, TypeOK, Procs, Incomplete, Final, Visible,
         Dispatching, Dispatcher, Clear
<1>3. Running'
  BY DEF Spawn, Goto, rowVars, Inv, TypeOK, Procs, Incomplete, Final, Visible,
         Running, Clear, ExecutedBy, Unblocking
<1>4. InsertOrder' /\ Unblocking'
  BY InsertOrderFrame, UnblockingFrame DEF Inv, Spawn, Goto, rowVars, scanVars
<1> QED
  BY <1>1, <1>2, <1>3, <1>4 DEF Inv

(* TakeCancel, a step of PulpcoreWorker.supervise_task(), preserves Inv.   *)
LEMMA TakeCancelInv ==
    ASSUME Inv, TypeOK', Control', Timely, NoStaleSave, NEW w \in Workers,
           TakeCancel(w)
    PROVE  Inv'
<1>1. InsertOrder' /\ HoldLocks' /\ Dispatching' /\ Unblocking' /\ Running'
  BY InsertOrderFrame, HoldLocksFrame, DispatchingFrame, UnblockingFrame,
     RunningFrame
     DEF Inv, TakeCancel, rowVars, procVars, scanVars
<1> QED
  BY <1>1 DEF Inv

(* TakeStop, a step of PulpcoreWorker.supervise_task(), preserves Inv.     *)
LEMMA TakeStopInv ==
    ASSUME Inv, TypeOK', Control', Timely, NoStaleSave, NEW w \in Workers,
           TakeStop(w)
    PROVE  Inv'
<1>1. InsertOrder' /\ HoldLocks' /\ Dispatching' /\ Unblocking' /\ Running'
  BY InsertOrderFrame, HoldLocksFrame, DispatchingFrame, UnblockingFrame,
     RunningFrame
     DEF Inv, TakeStop, rowVars, procVars, scanVars
<1> QED
  BY <1>1 DEF Inv

(* Kill, a step of PulpcoreWorker.supervise_task(), preserves Inv.         *)
LEMMA KillInv ==
    ASSUME Inv, TypeOK', Control', Timely, NoStaleSave, NEW w \in Workers,
           Kill(w)
    PROVE  Inv'
<1>1. HoldLocks'
  BY ProcAssumption
     DEF Kill, Busy, rowVars, procVars, Inv, TypeOK, Procs, Incomplete, Final,
         Visible, HoldLocks, Control, Holds, HoldPcs, ChildActive
<1>2. Running'
  <2>1. /\ UNCHANGED <<state, prior, unblocked, pc, task>>
        /\ child'[w] \in {"ok", "error"}
        /\ \A v \in Workers : v # w => child'[v] = child[v]
    BY DEF Kill, rowVars, procVars, Inv, TypeOK
  <2>2. \A p \in Procs, u \in Tasks : ExecutedBy(p, u)' => ExecutedBy(p, u)
    BY <2>1 DEF ExecutedBy
  <2>3. \A p \in Procs, u \in Tasks : ExecutedBy(p, u)
           => state'[u] \in {"running", "canceling"}
    BY <2>1 DEF Inv, Running
  <2> QED
    BY <2>1, <2>2, <2>3, RunningStep DEF Inv
<1>3. InsertOrder' /\ Dispatching' /\ Unblocking'
  BY InsertOrderFrame, DispatchingFrame, UnblockingFrame
     DEF Inv, Kill, rowVars, procVars, scanVars
<1> QED
  BY <1>1, <1>2, <1>3 DEF Inv

(* Join, a step of PulpcoreWorker.supervise_task(), preserves Inv.         *)
LEMMA JoinInv ==
    ASSUME Inv, TypeOK', Control', Timely, NoStaleSave, NEW w \in Workers,
           Join(w)
    PROVE  Inv'
<1>0. /\ UNCHANGED <<state, prior, unblocked, appLock, cancelReq, registered,
                     task, seen>>
      /\ pc[w] = "supervise" /\ pc'[w] \in {"wake", "abandon"}
      /\ child'[w] = "none"
      /\ \A p \in Procs : p # w => pc'[p] = pc[p]
      /\ \A v \in Workers : v # w => child'[v] = child[v]
  BY DEF Join, Goto, rowVars, Inv, TypeOK, Procs
<1>1. HoldLocks'
  <2>1. \A p \in Procs : Holds(p)' => Holds(p)
    BY <1>0 DEF Holds, HoldPcs, ChildActive
  <2> QED
    BY <1>0, <2>1 DEF Inv, HoldLocks
<1>2. Dispatching'
  <2>1. \A a \in Apis : pc'[a] = pc[a] /\ task'[a] = task[a]
    BY <1>0, ProcAssumption DEF Procs
  <2> QED
    BY <1>0, <2>1, DispatchingMove DEF Inv
<1>3. Running'
  <2>1. \A p \in Procs, u \in Tasks : ExecutedBy(p, u)' => ExecutedBy(p, u)
    BY <1>0 DEF ExecutedBy
  <2>2. \A p \in Procs, u \in Tasks : ExecutedBy(p, u)
           => state'[u] \in {"running", "canceling"}
    BY <1>0 DEF Inv, Running
  <2>3. \A p \in Procs : pc'[p] = "execute" => pc[p] = "execute"
    BY <1>0
  <2>4. \A v \in Workers : pc'[v] = "spawn" \/ child'[v] = "starting"
           => pc[v] = "spawn" \/ child[v] = "starting"
    BY <1>0 DEF Procs
  <2> QED
    BY <1>0, <2>1, <2>2, <2>3, <2>4, RunningStep DEF Inv
<1>4. InsertOrder' /\ Unblocking'
  BY InsertOrderFrame, UnblockingFrame DEF Inv, Join, Goto, rowVars, scanVars
<1> QED
  BY <1>1, <1>2, <1>3, <1>4 DEF Inv

(* ChildSetRunning, a step of perform_task(), preserves Inv.               *)
LEMMA ChildSetRunningInv ==
    ASSUME Inv, TypeOK', Control', Timely, NoStaleSave, NEW w \in Workers,
           ChildSetRunning(w)
    PROVE  Inv'
<1>0. /\ UNCHANGED <<prior, unblocked, appLock, cancelReq, registered, pc,
                     task, seen, found>>
      /\ ChildActive(w)
      /\ \A v \in Workers : v # w => child'[v] = child[v]
      /\ \A u \in Tasks : u # task[w] => state'[u] = state[u]
  BY DEF ChildSetRunning, procVars, scanVars, Inv, TypeOK, ChildActive
<1>1. Holds(w) /\ pc[w] \in {"supervise", "dead"}
  BY <1>0 DEF Inv, Control, Holds
<1>2. /\ task[w] \in Tasks /\ appLock[task[w]] = w
      /\ \A p \in Procs : Holds(p) /\ p # w => task[p] # task[w]
  BY <1>1, HeldTask DEF Procs
<1>3. \/ state'[task[w]] = state[task[w]] /\ child'[w] = "error"
      \/ /\ child'[w] = "running"
         /\ state[task[w]] = "waiting" /\ state'[task[w]] = "running"
         /\ unblocked[task[w]]
  BY <1>2 DEF ChildSetRunning, Inv, TypeOK, Running
<1>4. \A u \in Tasks : /\ state[u] \in Final => state'[u] \in Final
                       /\ state'[u] \in {"absent", "inserting", "waiting"}
                          => state'[u] = state[u]
                       /\ state'[u] = state[u]
                          \/ {state[u], state'[u]} \subseteq Visible
  BY <1>0, <1>3 DEF Visible, Incomplete, Final
<1>5. InsertOrder'
  BY <1>0, <1>4, InsertOrderStep DEF Inv
<1>6. HoldLocks'
  <2>1. \A p \in Procs : Holds(p)' => Holds(p)
    BY <1>0, <1>1 DEF Holds, ChildActive
  <2> QED
    BY <1>0, <1>4, <2>1 DEF Inv, HoldLocks
<1>7. Dispatching'
  <2>1. \A a \in Apis : pc[a] \in HoldPcs
           => task[a] \in Tasks /\ state'[task[a]] = state[task[a]]
    <3>1. ASSUME NEW a \in Apis, pc[a] \in HoldPcs
          PROVE  task[a] \in Tasks /\ task[a] # task[w]
      <4>1. a \in Procs /\ a # w /\ Holds(a)
        BY <3>1, ProcAssumption DEF Procs, Holds
      <4> QED
        BY <1>2, <4>1, HeldTask
    <3> QED
      BY <1>0, <3>1
  <2> QED
    BY <1>0, <1>4, <2>1, DispatchingStep DEF Inv
<1>8. Unblocking'
  BY <1>0, <1>3, <1>4, UnblockingStep DEF Inv
<1>9. Running'
  <2>1. child'[w] = "running"
           => state'[task[w]] = "running" /\ Clear(task[w])
    BY <1>2, <1>3 DEF Inv, Unblocking
  <2>2. ASSUME NEW p \in Procs, NEW u \in Tasks, ExecutedBy(p, u)'
        PROVE  /\ ExecutedBy(p, u) \/ Clear(u)
               /\ state'[u] \in {"running", "canceling"}
    <3>1. CASE p = w
      BY <1>0, <1>1, <1>3, <2>1, <2>2, <3>1 DEF ExecutedBy
    <3>2. CASE p # w
      <4>1. ExecutedBy(p, u)
        BY <1>0, <2>2, <3>2 DEF ExecutedBy
      <4>2. Holds(p) /\ task[p] = u
        BY <4>1 DEF ExecutedBy, Holds, HoldPcs, ChildActive
      <4>3. state'[u] = state[u]
        BY <1>0, <1>2, <3>2, <4>2
      <4> QED
        BY <4>1, <4>3 DEF Inv, Running
    <3> QED
      BY <3>1, <3>2
  <2>3. \A v \in Workers : child'[v] = "starting" => child[v] = "starting"
    BY <1>0, <1>3
  <2> QED
    BY <1>0, <1>4, <2>2, <2>3, RunningStep DEF Inv
<1> QED
  BY <1>5, <1>6, <1>7, <1>8, <1>9 DEF Inv

(* ChildFinish, a step of execute_task() and _execute_task(), preserves    *)
(* Inv.                                                                    *)
LEMMA ChildFinishInv ==
    ASSUME Inv, TypeOK', Control', Timely, NoStaleSave, NEW w \in Workers,
           ChildFinish(w)
    PROVE  Inv'
<1>0. /\ UNCHANGED <<prior, unblocked, appLock, cancelReq, registered, pc,
                     task, seen, found>>
      /\ ChildActive(w)
      /\ \A v \in Workers : v # w => child'[v] = child[v]
      /\ \A u \in Tasks : u # task[w] => state'[u] = state[u]
  BY DEF ChildFinish, procVars, scanVars, Inv, TypeOK, ChildActive
<1>1. Holds(w) /\ pc[w] \in {"supervise", "dead"}
  BY <1>0 DEF Inv, Control, Holds
<1>2. /\ task[w] \in Tasks /\ appLock[task[w]] = w
      /\ \A p \in Procs : Holds(p) /\ p # w => task[p] # task[w]
  BY <1>1, HeldTask DEF Procs
<1>3. /\ child'[w] \in {"ok", "error"}
      /\ \/ state'[task[w]] = state[task[w]]
         \/ state[task[w]] = "running" /\ state'[task[w]] \in Final
  BY <1>2 DEF ChildFinish, Inv, TypeOK, Final
<1>4. \A u \in Tasks : /\ state[u] \in Final => state'[u] \in Final
                       /\ state'[u] \in {"absent", "inserting", "waiting"}
                          => state'[u] = state[u]
                       /\ state'[u] = state[u]
                          \/ {state[u], state'[u]} \subseteq Visible
  BY <1>0, <1>3 DEF Visible, Incomplete, Final
<1>5. InsertOrder'
  BY <1>0, <1>4, InsertOrderStep DEF Inv
<1>6. HoldLocks'
  <2>1. \A p \in Procs : Holds(p)' => Holds(p)
    BY <1>0, <1>1 DEF Holds, ChildActive
  <2> QED
    BY <1>0, <1>4, <2>1 DEF Inv, HoldLocks
<1>7. Dispatching'
  <2>1. \A a \in Apis : pc[a] \in HoldPcs
           => task[a] \in Tasks /\ state'[task[a]] = state[task[a]]
    <3>1. ASSUME NEW a \in Apis, pc[a] \in HoldPcs
          PROVE  task[a] \in Tasks /\ task[a] # task[w]
      <4>1. a \in Procs /\ a # w /\ Holds(a)
        BY <3>1, ProcAssumption DEF Procs, Holds
      <4> QED
        BY <1>2, <4>1, HeldTask
    <3> QED
      BY <1>0, <3>1
  <2> QED
    BY <1>0, <1>4, <2>1, DispatchingStep DEF Inv
<1>8. Unblocking'
  BY <1>0, <1>3, <1>4, UnblockingStep DEF Inv, Final
<1>9. Running'
  <2>1. ASSUME NEW p \in Procs, NEW u \in Tasks, ExecutedBy(p, u)'
        PROVE  /\ ExecutedBy(p, u)
               /\ state'[u] \in {"running", "canceling"}
    <3>1. p # w
      BY <1>0, <1>1, <1>3, <2>1 DEF ExecutedBy
    <3>2. ExecutedBy(p, u)
      BY <1>0, <2>1, <3>1 DEF ExecutedBy
    <3>3. Holds(p) /\ task[p] = u
      BY <3>2 DEF ExecutedBy, Holds, HoldPcs, ChildActive
    <3>4. state'[u] = state[u]
      BY <1>0, <1>2, <3>1, <3>3
    <3> QED
      BY <3>2, <3>4 DEF Inv, Running
  <2>2. \A v \in Workers : child'[v] = "starting" => child[v] = "starting"
    BY <1>0, <1>3
  <2> QED
    BY <1>0, <1>4, <2>1, <2>2, RunningStep DEF Inv
<1> QED
  BY <1>5, <1>6, <1>7, <1>8, <1>9 DEF Inv

(* UnblockTry, a step of PulpcoreWorker.unblock_tasks(), preserves Inv.    *)
LEMMA UnblockTryInv ==
    ASSUME Inv, TypeOK', Control', Timely, NoStaleSave, NEW w \in Workers,
           UnblockTry(w)
    PROVE  Inv'
<1>1. Unblocking'
  <2>1. /\ UNCHANGED <<state, prior, unblocked>>
        /\ found' = found \/ found' = Unblockable
    BY DEF UnblockTry, rowVars
  <2>2. \A t \in Unblockable : /\ state[t] \in Incomplete
                               /\ state[t] = "waiting" => Clear(t)
    BY ClearIffNoBlockers DEF Unblockable, Incomplete
  <2>3. \A t \in Tasks : Clear(t)' <=> Clear(t)
    BY <2>1 DEF Clear
  <2> QED
    BY <2>1, <2>2, <2>3 DEF Inv, Unblocking, Incomplete
<1>2. InsertOrder' /\ HoldLocks' /\ Control' /\ Dispatching' /\ Running'
  BY InsertOrderFrame, HoldLocksFrame, ControlFrame, DispatchingFrame,
     RunningFrame
     DEF Inv, UnblockTry, rowVars, procVars, supVars
<1> QED
  BY <1>1, <1>2 DEF Inv

(* UnblockCommit, a step of exclusive(), preserves Inv.                    *)
LEMMA UnblockCommitInv ==
    ASSUME Inv, TypeOK', Control', Timely, NoStaleSave, NEW w \in Workers,
           UnblockCommit(w)
    PROVE  Inv'
<1>1. Unblocking'
  BY DEF UnblockCommit, procVars, supVars, Inv, TypeOK, Procs, Incomplete,
         Final, Visible, Unblocking, Clear, InsertOrder
<1>2. Running'
  BY ProcAssumption
     DEF UnblockCommit, procVars, supVars, Inv, TypeOK, Procs, Incomplete,
         Final, Visible, Running, Clear, ExecutedBy, Holds, HoldLocks,
         HoldPcs, ChildActive, Unblocking
<1>3. InsertOrder' /\ HoldLocks' /\ Control' /\ Dispatching'
  BY InsertOrderFrame, HoldLocksFrame, ControlFrame, DispatchingFrame
     DEF Inv, UnblockCommit, procVars, supVars
<1> QED
  BY <1>1, <1>2, <1>3 DEF Inv

(* UnblockTell, a step of PulpcoreWorker.unblock_tasks(), preserves Inv.   *)
LEMMA UnblockTellInv ==
    ASSUME Inv, TypeOK', Control', Timely, NoStaleSave, NEW w \in Workers,
           UnblockTell(w)
    PROVE  Inv'
<1>1. InsertOrder' /\ HoldLocks' /\ Control' /\ Dispatching' /\ Unblocking'
      /\ Running'
  BY InsertOrderFrame, HoldLocksFrame, ControlFrame, DispatchingFrame,
     UnblockingFrame, RunningFrame
     DEF Inv, UnblockTell, rowVars, procVars, supVars
<1> QED
  BY <1>1 DEF Inv

(* CleanupIgnored, a step of PulpcoreWorker.cleanup_ignored_tasks(),       *)
(* preserves Inv.                                                          *)
LEMMA CleanupIgnoredInv ==
    ASSUME Inv, TypeOK', Control', Timely, NoStaleSave, NEW w \in Workers,
           CleanupIgnored(w)
    PROVE  Inv'
<1>1. InsertOrder' /\ HoldLocks' /\ Control' /\ Dispatching' /\ Unblocking'
      /\ Running'
  BY InsertOrderFrame, HoldLocksFrame, ControlFrame, DispatchingFrame,
     UnblockingFrame, RunningFrame
     DEF Inv, CleanupIgnored, rowVars, procVars, scanVars
<1> QED
  BY <1>1 DEF Inv

(* WakeUp, a step of PulpcoreWorker.sleep(), preserves Inv.                *)
LEMMA WakeUpInv ==
    ASSUME Inv, TypeOK', Control', Timely, NoStaleSave, NEW w \in Workers,
           WakeUp(w)
    PROVE  Inv'
<1>1. HoldLocks'
  BY ProcAssumption
     DEF WakeUp, Busy, Goto, rowVars, supVars, Inv, TypeOK, Procs, Incomplete,
         Final, Visible, HoldLocks, Control, Holds, HoldPcs, ChildActive
<1>2. Dispatching'
  BY ProcAssumption
     DEF WakeUp, Busy, Goto, rowVars, supVars, Inv, TypeOK, Procs, Incomplete,
         Final, Visible, Dispatching, Dispatcher, Clear
<1>3. Running'
  BY DEF WakeUp, Busy, Goto, rowVars, supVars, Inv, TypeOK, Procs, Incomplete,
         Final, Visible, Running, Clear, ExecutedBy, Unblocking
<1>4. InsertOrder' /\ Unblocking'
  BY InsertOrderFrame, UnblockingFrame
     DEF Inv, WakeUp, Goto, rowVars, supVars, scanVars
<1> QED
  BY <1>1, <1>2, <1>3, <1>4 DEF Inv

(* Shutdown, a step of PulpcoreWorker.run(), preserves Inv.                *)
LEMMA ShutdownInv ==
    ASSUME Inv, TypeOK', Control', Timely, NoStaleSave, NEW w \in Workers,
           Shutdown(w)
    PROVE  Inv'
<1>1. HoldLocks'
  BY ProcAssumption
     DEF Shutdown, Busy, DeleteApps, Die, Goto, Inv, TypeOK, Procs,
         Incomplete, Final, Visible, HoldLocks, Control, Holds, HoldPcs,
         ChildActive
<1>2. Dispatching'
  <2>1. UNCHANGED <<state, prior, cancelReq, seen>>
    BY DEF Shutdown, Die, Goto
  <2>2. \A a \in Apis : pc'[a] = pc[a] /\ task'[a] = task[a]
    BY ProcAssumption DEF Shutdown, Die, Goto, Procs, Inv, TypeOK
  <2> QED
    BY <2>1, <2>2, DispatchingMove DEF Inv
<1>3. Unblocking'
  BY DEF Shutdown, Busy, DeleteApps, Die, Goto, Inv, TypeOK, Procs,
         Incomplete, Final, Visible, Unblocking, Clear, InsertOrder
<1>4. Running'
  <2>1. /\ UNCHANGED <<state, prior, unblocked, task, child>>
        /\ pc[w] \in {"handle", "sleep"} /\ pc'[w] = "dead"
        /\ \A p \in Procs : p # w => pc'[p] = pc[p]
    BY DEF Shutdown, Die, Goto, Inv, TypeOK, Procs
  <2>2. \A p \in Procs, u \in Tasks : ExecutedBy(p, u)' => ExecutedBy(p, u)
    BY <2>1 DEF ExecutedBy
  <2>3. \A p \in Procs, u \in Tasks : ExecutedBy(p, u)
           => state'[u] \in {"running", "canceling"}
    BY <2>1 DEF Inv, Running
  <2>4. \A p \in Procs : pc'[p] \in {"execute", "spawn"} => pc'[p] = pc[p]
    BY <2>1
  <2> QED
    BY <2>1, <2>2, <2>3, <2>4, RunningStep DEF Inv, Procs
<1>5. InsertOrder'
  BY InsertOrderFrame DEF Inv, Shutdown
<1> QED
  BY <1>1, <1>2, <1>3, <1>4, <1>5 DEF Inv

(* RequestStop, a step of PulpcoreWorker._signal_handler(), preserves Inv. *)
LEMMA RequestStopInv ==
    ASSUME Inv, TypeOK', Control', Timely, NoStaleSave, NEW w \in Workers,
           RequestStop(w)
    PROVE  Inv'
<1>1. InsertOrder' /\ HoldLocks' /\ Control' /\ Dispatching' /\ Unblocking'
      /\ Running'
  BY InsertOrderFrame, HoldLocksFrame, ControlFrame, DispatchingFrame,
     UnblockingFrame, RunningFrame
     DEF Inv, RequestStop, rowVars, procVars, scanVars
<1> QED
  BY <1>1 DEF Inv

(* Crash, the death of a process between any two statements, preserves Inv.*)
LEMMA CrashInv ==
    ASSUME Inv, TypeOK', Control', Timely, NoStaleSave, NEW w \in Workers,
           Crash(w)
    PROVE  Inv'
<1>1. HoldLocks'
  BY ProcAssumption
     DEF Crash, Die, Goto, rowVars, Inv, TypeOK, Procs, Incomplete, Final,
         Visible, HoldLocks, Holds, HoldPcs, ChildActive
<1>2. Dispatching'
  <2>1. UNCHANGED <<state, prior, cancelReq, seen>>
    BY DEF Crash, Die, Goto, rowVars
  <2>2. \A a \in Apis : pc'[a] = pc[a] /\ task'[a] = task[a]
    BY ProcAssumption DEF Crash, Die, Goto, rowVars, Procs, Inv, TypeOK
  <2> QED
    BY <2>1, <2>2, DispatchingMove DEF Inv
<1>3. Unblocking'
  BY DEF Crash, Die, Goto, rowVars, Inv, TypeOK, Procs, Incomplete, Final,
         Visible, Unblocking, Clear, InsertOrder
<1>4. Running'
  <2>1. /\ UNCHANGED <<state, prior, unblocked, task, child>>
        /\ pc'[w] = "dead"
        /\ \A p \in Procs : p # w => pc'[p] = pc[p]
    BY DEF Crash, rowVars, Die, Goto, Inv, TypeOK, Procs
  <2>2. \A p \in Procs, u \in Tasks : ExecutedBy(p, u)' => ExecutedBy(p, u)
    BY <2>1 DEF ExecutedBy
  <2>3. \A p \in Procs, u \in Tasks : ExecutedBy(p, u)
           => state'[u] \in {"running", "canceling"}
    BY <2>1 DEF Inv, Running
  <2>4. \A p \in Procs : pc'[p] \in {"execute", "spawn"} => pc'[p] = pc[p]
    BY <2>1
  <2> QED
    BY <2>1, <2>2, <2>3, <2>4, RunningStep DEF Inv, Procs
<1>5. InsertOrder'
  BY InsertOrderFrame DEF Inv, Crash, Goto, rowVars
<1> QED
  BY <1>1, <1>2, <1>3, <1>4, <1>5 DEF Inv

(* ChildDies, a step of PulpcoreWorker.supervise_task(), preserves Inv.    *)
LEMMA ChildDiesInv ==
    ASSUME Inv, TypeOK', Control', Timely, NoStaleSave, NEW w \in Workers,
           ChildDies(w)
    PROVE  Inv'
<1>1. HoldLocks'
  BY ProcAssumption
     DEF ChildDies, rowVars, procVars, Inv, TypeOK, Procs, Incomplete, Final,
         Visible, HoldLocks, Control, Holds, HoldPcs, ChildActive
<1>2. Running'
  <2>1. /\ UNCHANGED <<state, prior, unblocked, pc, task>>
        /\ child'[w] \in {"ok", "error"}
        /\ \A v \in Workers : v # w => child'[v] = child[v]
    BY DEF ChildDies, rowVars, procVars, Inv, TypeOK
  <2>2. \A p \in Procs, u \in Tasks : ExecutedBy(p, u)' => ExecutedBy(p, u)
    BY <2>1 DEF ExecutedBy
  <2>3. \A p \in Procs, u \in Tasks : ExecutedBy(p, u)
           => state'[u] \in {"running", "canceling"}
    BY <2>1 DEF Inv, Running
  <2> QED
    BY <2>1, <2>2, <2>3, RunningStep DEF Inv
<1>3. InsertOrder' /\ Dispatching' /\ Unblocking'
  BY InsertOrderFrame, DispatchingFrame, UnblockingFrame
     DEF Inv, ChildDies, rowVars, procVars, scanVars
<1> QED
  BY <1>1, <1>2, <1>3 DEF Inv

(* HeartbeatFails, a step of PulpcoreWorker.handle_worker_heartbeat(),     *)
(* preserves Inv.                                                          *)
LEMMA HeartbeatFailsInv ==
    ASSUME Inv, TypeOK', Control', Timely, NoStaleSave, NEW w \in Workers,
           HeartbeatFails(w)
    PROVE  Inv'
<1>1. InsertOrder' /\ HoldLocks' /\ Control' /\ Dispatching' /\ Unblocking'
      /\ Running'
  BY InsertOrderFrame, HoldLocksFrame, ControlFrame, DispatchingFrame,
     UnblockingFrame, RunningFrame
     DEF Inv, HeartbeatFails, rowVars, procVars, scanVars
<1> QED
  BY <1>1 DEF Inv

(* ClaimAbandoned, a step of PulpcoreWorker.handle_unblocked_tasks(),      *)
(* preserves Inv.                                                          *)
LEMMA ClaimAbandonedInv ==
    ASSUME Inv, TypeOK', Control', Timely, NoStaleSave, NEW w \in Workers, NEW t \in Tasks,
           ClaimAbandoned(w, t)
    PROVE  Inv'
<1>1. HoldLocks'
  BY ProcAssumption
     DEF ClaimAbandoned, Claim, Candidates, Claimable, Incomplete, Skippable,
         Goto, Inv, TypeOK, Procs, Final, Visible, HoldLocks, Control, Holds,
         HoldPcs, ChildActive
<1>2. Dispatching'
  <2>1. UNCHANGED <<state, prior, cancelReq, seen>>
    BY DEF ClaimAbandoned, Claim, Goto
  <2>2. \A a \in Apis : pc'[a] = pc[a] /\ task'[a] = task[a]
    BY ProcAssumption DEF ClaimAbandoned, Claim, Goto, Procs, Inv, TypeOK
  <2> QED
    BY <2>1, <2>2, DispatchingMove DEF Inv
<1>3. Running'
  BY ProcAssumption
     DEF ClaimAbandoned, Claim, Candidates, Claimable, Incomplete, Skippable,
         Goto, Inv, TypeOK, Procs, Final, Visible, Running, Clear, ExecutedBy,
         Control, Holds, HoldLocks, HoldPcs, ChildActive, Unblocking
<1>4. InsertOrder' /\ Unblocking'
  BY InsertOrderFrame, UnblockingFrame
     DEF Inv, ClaimAbandoned, Claim, scanVars, Goto
<1> QED
  BY <1>1, <1>2, <1>3, <1>4 DEF Inv

(* ClaimWaiting, a step of PulpcoreWorker.handle_unblocked_tasks(),        *)
(* preserves Inv.                                                          *)
LEMMA ClaimWaitingInv ==
    ASSUME Inv, TypeOK', Control', Timely, NoStaleSave, NEW w \in Workers, NEW t \in Tasks,
           ClaimWaiting(w, t)
    PROVE  Inv'
<1>1. HoldLocks'
  BY ProcAssumption
     DEF ClaimWaiting, Claim, Candidates, Claimable, Incomplete, Skippable,
         Goto, Inv, TypeOK, Procs, Final, Visible, HoldLocks, Control, Holds,
         HoldPcs, ChildActive
<1>2. Dispatching'
  <2>1. UNCHANGED <<state, prior, cancelReq, seen>>
    BY DEF ClaimWaiting, Claim, Goto
  <2>2. \A a \in Apis : pc'[a] = pc[a] /\ task'[a] = task[a]
    BY ProcAssumption DEF ClaimWaiting, Claim, Goto, Procs, Inv, TypeOK
  <2> QED
    BY <2>1, <2>2, DispatchingMove DEF Inv
<1>3. Running'
  <2>1. ~ChildActive(w)
    BY DEF Claim, ClaimWaiting, Inv, Control
  <2>2. \A p \in Procs : p # w => pc'[p] = pc[p] /\ task'[p] = task[p]
    BY DEF Claim, ClaimWaiting, Goto, Inv, TypeOK
  <2>3. /\ pc'[w] \in {"abandon", "execute", "spawn", "release"}
        /\ task'[w] = t
        /\ unblocked'[t]
    BY DEF Claim, ClaimWaiting, Goto, Candidates, Claimable, Inv, TypeOK,
           Procs
  <2>4. /\ \A p \in Procs : pc'[p] = "execute" => unblocked'[task'[p]]
        /\ \A v \in Workers :
              pc'[v] = "spawn" \/ child'[v] = "starting"
                 => unblocked'[task'[v]]
    BY <2>2, <2>3 DEF Claim, ClaimWaiting, Inv, Running, Procs
  <2>5. \A p \in Procs, u \in Tasks : ExecutedBy(p, u)' => ExecutedBy(p, u)
    BY <2>1, <2>2, <2>3 DEF Claim, ClaimWaiting, ExecutedBy, ChildActive
  <2> QED
    BY <2>4, <2>5 DEF Claim, ClaimWaiting, Inv, Running, Clear
<1>4. InsertOrder' /\ Unblocking'
  BY InsertOrderFrame, UnblockingFrame
     DEF Inv, ClaimWaiting, Claim, scanVars, Goto
<1> QED
  BY <1>1, <1>2, <1>3, <1>4 DEF Inv

(* ClaimIgnored, a step of PulpcoreWorker.handle_unblocked_tasks(),        *)
(* preserves Inv.                                                          *)
LEMMA ClaimIgnoredInv ==
    ASSUME Inv, TypeOK', Control', Timely, NoStaleSave, NEW w \in Workers, NEW t \in Tasks,
           ClaimIgnored(w, t)
    PROVE  Inv'
<1>1. HoldLocks'
  BY ProcAssumption
     DEF ClaimIgnored, Claim, Candidates, Claimable, Incomplete, Skippable,
         Goto, Inv, TypeOK, Procs, Final, Visible, HoldLocks, Control, Holds,
         HoldPcs, ChildActive
<1>2. Dispatching'
  <2>1. UNCHANGED <<state, prior, cancelReq, seen>>
    BY DEF ClaimIgnored, Claim, Goto
  <2>2. \A a \in Apis : pc'[a] = pc[a] /\ task'[a] = task[a]
    BY ProcAssumption DEF ClaimIgnored, Claim, Goto, Procs, Inv, TypeOK
  <2> QED
    BY <2>1, <2>2, DispatchingMove DEF Inv
<1>3. Running'
  <2>1. ~ChildActive(w)
    BY DEF Claim, ClaimIgnored, Inv, Control
  <2>2. \A p \in Procs : p # w => pc'[p] = pc[p] /\ task'[p] = task[p]
    BY DEF Claim, ClaimIgnored, Goto
  <2>3. /\ pc'[w] \in {"abandon", "execute", "spawn", "release"}
        /\ task'[w] = t
        /\ unblocked'[t]
    BY DEF Claim, ClaimIgnored, Goto, Candidates, Claimable, Inv, TypeOK,
           Procs
  <2>4. /\ \A p \in Procs : pc'[p] = "execute" => unblocked'[task'[p]]
        /\ \A v \in Workers :
              pc'[v] = "spawn" \/ child'[v] = "starting"
                 => unblocked'[task'[v]]
    BY <2>2, <2>3 DEF Claim, ClaimIgnored, Inv, Running, Procs
  <2>5. \A p \in Procs, u \in Tasks : ExecutedBy(p, u)' => ExecutedBy(p, u)
    BY <2>1, <2>2, <2>3 DEF Claim, ClaimIgnored, ExecutedBy, ChildActive
  <2> QED
    BY <2>4, <2>5 DEF Claim, ClaimIgnored, Inv, Running, Clear
<1>4. InsertOrder' /\ Unblocking'
  BY InsertOrderFrame, UnblockingFrame
     DEF Inv, ClaimIgnored, Claim, scanVars, Goto
<1> QED
  BY <1>1, <1>2, <1>3, <1>4 DEF Inv

(* Cleanup, a step of PulpcoreWorker.app_worker_cleanup() and              *)
(* PulpcoreWorker.beat(), preserves Inv.                                   *)
LEMMA CleanupInv ==
    ASSUME Inv, TypeOK', Control', Timely, NoStaleSave, NEW w \in Workers,
           NEW S \in SUBSET Missable(w),
           Cleanup(w, S)
    PROVE  Inv'
<1>1. HoldLocks'
  <2>1. \A p \in Procs : Holds(p)' => Holds(p) /\ p \notin S
    BY DEF Cleanup, Missable, Gone, Inv, Holds, HoldPcs, ChildActive, supVars,
           Procs
  <2>2. NoProc \notin Procs
    BY ProcAssumption
  <2> QED
    BY <2>1, <2>2 DEF Cleanup, DeleteApps, Inv, TypeOK, HoldLocks
<1>2. InsertOrder' /\ Control' /\ Dispatching' /\ Unblocking' /\ Running'
  BY InsertOrderFrame, ControlFrame, DispatchingFrame, UnblockingFrame,
     RunningFrame
     DEF Inv, Cleanup, supVars, scanVars
<1> QED
  BY <1>1, <1>2 DEF Inv

(* The inductive invariant holds when the tables are empty.                *)
LEMMA InitInv ==
    ASSUME Init
    PROVE  Inv
<1>1. TypeOK
  BY DEF Init, TypeOK, Procs, Visible, Incomplete, Final, ApiPcs, WorkerPcs
<1>2. InsertOrder
  BY DEF Init, InsertOrder
<1>3. HoldLocks
  BY ProcAssumption DEF Init, HoldLocks, Holds, HoldPcs, ChildActive, Procs
<1>4. Control
  BY ProcAssumption DEF Init, Control, ChildActive, ApiPcs, WorkerPcs, Procs
<1>5. Dispatching
  BY DEF Init, Dispatching, Dispatcher, HoldPcs, Procs
<1>6. Unblocking
  BY DEF Init, Unblocking
<1>7. Running
  BY DEF Init, Running, ExecutedBy, Procs
<1> QED
  BY <1>1, <1>2, <1>3, <1>4, <1>5, <1>6, <1>7 DEF Inv

(* The inductive invariant survives a step that changes nothing.           *)
LEMMA StutterInv ==
    ASSUME Inv, UNCHANGED vars
    PROVE  Inv'
<1>1. TypeOK'
  BY DEF Inv, TypeOK, vars, rowVars, procVars, supVars, wakeVars, scanVars
<1>2. InsertOrder' /\ HoldLocks' /\ Control'
  BY InsertOrderFrame, HoldLocksFrame, ControlFrame
     DEF Inv, vars, rowVars, procVars, supVars
<1>3. Dispatching' /\ Unblocking' /\ Running'
  BY DispatchingFrame, UnblockingFrame, RunningFrame
     DEF Inv, vars, rowVars, procVars, supVars, scanVars
<1> QED
  BY <1>1, <1>2, <1>3 DEF Inv

(* The inductive invariant survives every step of every process.           *)
LEMMA NextInv ==
    ASSUME Inv, Timely, NoStaleSave, Next
    PROVE  Inv'
<1>0. TypeOK' /\ Control'
  BY InvReads, TypesKept, ControlKept DEF Inv
<1>1. CASE \E t \in Tasks : Client(t) \/ Cancel(t)
  BY <1>0, <1>1, InsertInv, CommitInv, RollbackInv, CancelReadInv, CancelSetInv,
     CancelTellInv, CancelLostInv
     DEF Client, Cancel
<1>2. CASE \E p \in Procs : Execute(p)
  BY <1>0, <1>2, SetRunningInv, FinishInv, WakeInv, SetCancelingInv, SetCanceledInv
     DEF Execute
<1>3. CASE \E a \in Apis : Dispatch(a)
  BY <1>0, <1>3, ApiInsertInv, ApiRollbackInv, ApiCommitInv, RefreshInv,
     CheckResourcesInv, UnblockNowInv, DeferInv
     DEF Dispatch
<1>4. ASSUME NEW w \in Workers, Worker(w)
      PROVE  Inv'
  <2>1. CASE Fetch(w)
    BY <1>0, <2>1, ClaimAbandonedInv, ClaimWaitingInv, ClaimIgnoredInv,
       FetchNoneInv, FetchFailsInv
       DEF Fetch
  <2>2. CASE Supervise(w) \/ Child(w)
    BY <1>0, <2>2, SpawnInv, TakeCancelInv, TakeStopInv, KillInv, JoinInv,
       ChildSetRunningInv, ChildFinishInv
       DEF Supervise, Child
  <2>3. CASE Unblock(w)
    BY <1>0, <2>3, UnblockTryInv, UnblockCommitInv, UnblockTellInv
       DEF Unblock
  <2>4. CASE Maintain(w)
    BY <1>0, <2>4, CleanupInv, CleanupIgnoredInv DEF Maintain
  <2>5. CASE Start(w) \/ Release(w) \/ WakeUp(w) \/ Shutdown(w)
    BY <1>0, <2>5, StartInv, ReleaseInv, WakeUpInv, ShutdownInv
  <2> QED
    BY <1>4, <2>1, <2>2, <2>3, <2>4, <2>5 DEF Worker
<1>5. CASE Fault
  BY <1>0, <1>5, RequestStopInv, CrashInv, ChildDiesInv, HeartbeatFailsInv,
     ApiCrashInv, ApiExitInv
     DEF Fault
<1> QED
  BY <1>1, <1>2, <1>3, <1>4, <1>5 DEF Next

-----------------------------------------------------------------------------
(* The inductive invariant holds for any number of tasks, resources,       *)
(* workers and API processes, whatever crashes, is stopped or is canceled: *)
(* under the two conditions, what is locked, unblocked or running is so    *)
(* for good reason in every step of dispatch(), the workers and their      *)
(* children.                                                               *)
THEOREM Invariance ==
    ASSUME Timely, NoStaleSave
    PROVE  Spec => []Inv
<1>1. Init => Inv
  BY InitInv
<1>2. Inv /\ [Next]_vars => Inv'
  BY NextInv, StutterInv
<1> QED
  BY <1>1, <1>2, PTL DEF Spec

(* Every column of a task row, program counter, flag and pending wakeup    *)
(* keeps its type: no step of dispatch(), the workers or their children    *)
(* writes a state outside TASK_STATES or leaves a lock with an unknown     *)
(* owner.                                                                  *)
THEOREM TypeCorrect ==
    ASSUME Timely, NoStaleSave
    PROVE  Spec => []TypeOK
<1>1. Inv => TypeOK
  BY DEF Inv
<1> QED
  BY <1>1, Invariance, PTL

(* Whoever executes a task holds it, and nothing earlier excludes it.      *)
LEMMA ExecutingTask ==
    ASSUME Inv, NEW t \in Tasks, NEW p \in Procs, ExecutedBy(p, t)
    PROVE  Holds(p) /\ Clear(t) /\ state[t] \in {"running", "canceling"}
BY DEF Inv, Running, ExecutedBy, Holds, HoldPcs, ChildActive

(* "No two tasks that claim the same resource can execute concurrently":   *)
(* whatever dispatch(), the workers and their children do, the code of two *)
(* tasks that exclude each other is never executed at the same time.       *)
THEOREM Exclusion ==
    ASSUME Timely, NoStaleSave
    PROVE  Spec => []MutualExclusion
<1>1. ASSUME Inv PROVE MutualExclusion
  <2>1. SUFFICES ASSUME NEW t \in Tasks, NEW u \in Tasks, Conflict(t, u),
                        Executing(t), Executing(u)
                 PROVE  FALSE
    BY DEF MutualExclusion
  <2>2. Clear(t) /\ state[t] \in {"running", "canceling"}
    BY <1>1, <2>1, ExecutingTask DEF Executing
  <2>3. Clear(u) /\ state[u] \in {"running", "canceling"}
    BY <1>1, <2>1, ExecutingTask DEF Executing
  <2>4. Conflict(u, t) /\ t # u
    BY <2>1, ConflictProps
  <2>5. t \in prior[u] \/ u \in prior[t]
    BY <1>1, <2>2, <2>3, <2>4 DEF Inv, InsertOrder
  <2> QED
    BY <2>1, <2>2, <2>3, <2>4, <2>5 DEF Clear, Final
<1> QED
  BY <1>1, Invariance, PTL

(* A task is executed only after every earlier task that excludes it has   *)
(* reached a final state: dispatch() and _unblock_tasks() never overtake.  *)
THEOREM Order ==
    ASSUME Timely, NoStaleSave
    PROVE  Spec => []DispatchOrder
<1>1. ASSUME Inv PROVE DispatchOrder
  BY <1>1, ExecutingTask, ClearIffNoBlockers DEF DispatchOrder, Executing
<1> QED
  BY <1>1, Invariance, PTL

(* A task is executed by one process only, under its app_lock, and its row *)
(* is not declared final by anybody as long as its code runs.              *)
THEOREM SingleExecution ==
    ASSUME Timely, NoStaleSave
    PROVE  Spec => []ExclusiveExecution
<1>1. ASSUME Inv PROVE ExclusiveExecution
  <2>1. SUFFICES ASSUME NEW t \in Tasks, NEW p \in Procs, ExecutedBy(p, t)
                 PROVE  /\ appLock[t] = p
                        /\ state[t] \in {"running", "canceling"}
                        /\ \A q \in Procs \ {p} : ~ExecutedBy(q, t)
    BY DEF ExclusiveExecution
  <2>2. Holds(p) /\ state[t] \in {"running", "canceling"} /\ task[p] = t
    BY <1>1, <2>1, ExecutingTask DEF ExecutedBy
  <2>3. ASSUME NEW q \in Procs \ {p}, ExecutedBy(q, t)
        PROVE  FALSE
    <3>1. Holds(q) /\ task[q] = t
      BY <1>1, <2>3, ExecutingTask DEF ExecutedBy
    <3> QED
      BY <1>1, <2>2, <3>1, HeldTask
  <2> QED
    BY <1>1, <2>2, <2>3, HeldTask
<1> QED
  BY <1>1, Invariance, PTL
-----------------------------------------------------------------------------
(***************************************************************************)
(* The rows, whoever is taken for missing.  Without Timely a process may   *)
(* lose its lock while it works, so that Inv fails; RowsInv keeps what is  *)
(* true of the rows all the same.  RowMove says what a step may do to a    *)
(* row; that every step is like that is shown action by action, and the    *)
(* conjuncts of RowsInv follow from it.                                    *)
(***************************************************************************)
(* What a step does to the row of a task.                                  *)
RowMove(u) ==
    /\ state[u] \in Visible
       => state'[u] \in Visible /\ prior'[u] \subseteq prior[u]
    /\ state[u] \in Final => state'[u] \in Final
    /\ state'[u] = "waiting" => state[u] \in {"waiting", "inserting"}
    /\ state'[u] = "running"
       => state[u] = "running" \/ (state[u] = "waiting" /\ unblocked[u])
    /\ state[u] \notin Visible /\ state'[u] \in Visible
       => state'[u] = "waiting" /\ ~unblocked'[u] /\ u \notin found'
    /\ unblocked'[u] => \/ unblocked[u]
                        \/ u \in found
                        \/ \E b \in Apis : pc[b] = "unblock" /\ task[b] = u
    /\ unblocked[u] => unblocked'[u]
    /\ u \in found' => u \in found \/ u \in Unblockable

(* What a step brings to execution is unblocked.                           *)
BeginsToRun ==
    /\ \A p \in Procs : pc'[p] = "execute"
          => \/ pc[p] = "execute" /\ task'[p] = task[p]
             \/ task'[p] \in Tasks /\ unblocked'[task'[p]]
    /\ \A w \in Workers : pc'[w] = "spawn" \/ child'[w] = "starting"
          => \/ (pc[w] = "spawn" \/ child[w] = "starting") /\ task'[w] = task[w]
             \/ task'[w] \in Tasks /\ unblocked'[task'[w]]

(* Every step of the code, deferral apart, moves rows like that: whoever   *)
(* sets a state has looked at the state before, and whoever sets           *)
(* unblocked_at has looked for what excludes the task.                     *)
LEMMA RowMoves ==
    ASSUME RowsInv, NoDeferral, Next, NEW u \in Tasks
    PROVE  RowMove(u)
<1> USE ProcAssumption
  DEF RowMove, RowsInv, TypeOK, Procs, Incomplete, Final, Visible, Dispatches,
      Unblocking, ToRun
<1>1. ASSUME NEW t \in Tasks, Client(t)
      PROVE  RowMove(u)
  BY <1>1
  DEF Client, Insert, InsertRow, Commit, CommitRow, NotifyUnblock, Rollback,
      RollbackRow, procVars, supVars, wakeVars, scanVars
<1>2. ASSUME NEW t \in Tasks, Cancel(t)
      PROVE  RowMove(u)
  BY <1>2
  DEF Cancel, CancelRead, CancelSet, CancelTell, NotifyHandle, CancelLost,
      rowVars, procVars, supVars, wakeVars, scanVars
<1>3. ASSUME NEW p \in Procs, Execute(p)
      PROVE  RowMove(u)
  <2>1. CASE SetRunning(p)
    BY <2>1 DEF SetRunning, Raise, Free, Goto, supVars, wakeVars, scanVars
  <2>2. CASE Finish(p)
    BY <2>2 DEF Finish, Raise, Free, Goto, supVars, wakeVars, scanVars
  <2>3. CASE Wake(p)
    BY <2>3 DEF Wake, NotifyUnblock, Free, Goto, rowVars, supVars, scanVars
  <2>4. CASE SetCanceling(p)
    BY <2>4 DEF SetCanceling, Raise, Free, Goto, supVars, wakeVars, scanVars
  <2>5. CASE SetCanceled(p)
    <3>1. state' \in [Tasks -> Visible \cup {"absent", "inserting"}]
      BY TypesKept, RowsInvReads
    <3>2. FinalState(p) \in Final
      BY <2>5 DEF SetCanceled, FinalState, Control
    <3>3. \/ state'[u] = state[u]
          \/ state[u] = "canceling" /\ state'[u] \in Final
      BY <2>5, <3>2 DEF SetCanceled
    <3> QED
      BY <2>5, <3>3 DEF SetCanceled, scanVars
  <2> QED
    BY <1>3, <2>1, <2>2, <2>3, <2>4, <2>5 DEF Execute
<1>4. ASSUME NEW a \in Apis, Dispatch(a)
      PROVE  RowMove(u)
  <2>1. CASE \E t \in Tasks : ApiInsert(a, t)
    BY <2>1 DEF ApiInsert, InsertRow, scanVars
  <2>2. CASE ApiRollback(a)
    BY <2>2 DEF ApiRollback, RollbackRow, scanVars
  <2>3. CASE ApiCommit(a)
    BY <2>3 DEF ApiCommit, CommitRow, scanVars
  <2>4. CASE Refresh(a)
    BY <2>4 DEF Refresh, rowVars, scanVars
  <2>5. CASE CheckResources(a)
    BY <2>5 DEF CheckResources, rowVars, scanVars
  <2>6. CASE UnblockNow(a)
    BY <2>6 DEF UnblockNow, scanVars
  <2>7. CASE Defer(a)
    BY <2>7 DEF Defer
  <2> QED
    BY <1>4, <2>1, <2>2, <2>3, <2>4, <2>5, <2>6, <2>7 DEF Dispatch
<1>5. ASSUME NEW w \in Workers, Fetch(w)
      PROVE  RowMove(u)
  BY <1>5
  DEF Fetch, ClaimAbandoned, Claim, Candidates, Claimable, Goto, ClaimWaiting,
      ClaimIgnored, FetchNone, FetchFails, Die, rowVars, supVars, scanVars
<1>6. ASSUME NEW w \in Workers, Supervise(w)
      PROVE  RowMove(u)
  BY <1>6
  DEF Supervise, Spawn, Goto, TakeCancel, TakeStop, Kill, Join, rowVars,
      procVars, wakeVars, scanVars
<1>7. ASSUME NEW w \in Workers, Child(w)
      PROVE  RowMove(u)
  BY <1>7 DEF Child, ChildSetRunning, ChildFinish, procVars, wakeVars, scanVars
<1>8. ASSUME NEW w \in Workers, Unblock(w)
      PROVE  RowMove(u)
  BY <1>8
  DEF Unblock, UnblockTry, Unblockable, UnblockCommit, UnblockTell,
      NotifyHandle, Main, rowVars, procVars, supVars, wakeVars
<1>9. ASSUME NEW w \in Workers,
             \/ Start(w) \/ Release(w) \/ WakeUp(w) \/ Maintain(w)
             \/ Shutdown(w)
      PROVE  RowMove(u)
  BY <1>9
  DEF Start, Goto, Release, Die, WakeUp, Maintain, Cleanup, CleanupIgnored,
      DeleteApps, Shutdown, rowVars, procVars, supVars, wakeVars, scanVars
<1>10. CASE Fault
  BY <1>10
  DEF Fault, RequestStop, Crash, Die, Goto, ChildDies, HeartbeatFails, ApiCrash,
      ApiExit, DeleteApps, rowVars, procVars, supVars, wakeVars, scanVars
<1> QED
  BY <1>1, <1>2, <1>3, <1>4, <1>5, <1>6, <1>7, <1>8, <1>9, <1>10
  DEF Next, Worker

(* Every process that handles a task goes on with that task: missing       *)
(* processes lose the lock in the row, not what they have in memory.       *)
LEMMA CarryingKept ==
    ASSUME RowsInv, Next
    PROVE  Carrying'
<1> USE ProcAssumption
  DEF RowsInv, TypeOK, Procs, Carrying, Holds, HoldPcs, Control, ChildActive
<1>1. ASSUME NEW t \in Tasks, Client(t)
      PROVE  Carrying'
  BY <1>1
  DEF Client, Insert, InsertRow, Commit, CommitRow, NotifyUnblock, Rollback,
      RollbackRow, procVars, supVars, wakeVars, scanVars
<1>2. ASSUME NEW t \in Tasks, Cancel(t)
      PROVE  Carrying'
  BY <1>2
  DEF Cancel, CancelRead, CancelSet, CancelTell, NotifyHandle, CancelLost,
      rowVars, procVars, supVars, wakeVars, scanVars
<1>3. ASSUME NEW p \in Procs, Execute(p)
      PROVE  Carrying'
  BY <1>3
  DEF Execute, SetRunning, Raise, Free, Goto, Finish, Wake, NotifyUnblock,
      SetCanceling, SetCanceled, FinalState, rowVars, supVars, wakeVars,
      scanVars
<1>4. ASSUME NEW a \in Apis, Dispatch(a)
      PROVE  Carrying'
  BY <1>4
  DEF Dispatch, ApiInsert, InsertRow, Goto, ApiRollback, RollbackRow, Free,
      ApiCommit, CommitRow, Refresh, CheckResources, UnblockNow, Defer, rowVars,
      supVars, wakeVars, scanVars
<1>5. ASSUME NEW w \in Workers, Fetch(w)
      PROVE  Carrying'
  <2>1. CASE \E t \in Tasks : ClaimAbandoned(w, t)
    BY <2>1 DEF ClaimAbandoned, Claim, Candidates, Claimable, Goto, scanVars
  <2>2. CASE \E t \in Tasks : ClaimWaiting(w, t)
    BY <2>2 DEF ClaimWaiting, Claim, Candidates, Claimable, Goto, scanVars
  <2>3. CASE \E t \in Tasks : ClaimIgnored(w, t)
    BY <2>3 DEF ClaimIgnored, Claim, Candidates, Claimable, Goto, scanVars
  <2>4. CASE FetchNone(w)
    BY <2>4 DEF FetchNone, Goto, rowVars, supVars, scanVars
  <2>5. CASE FetchFails(w)
    BY <2>5 DEF FetchFails, Die, Goto, rowVars
  <2> QED
    BY <1>5, <2>1, <2>2, <2>3, <2>4, <2>5 DEF Fetch
<1>6. ASSUME NEW w \in Workers, Supervise(w)
      PROVE  Carrying'
  BY <1>6
  DEF Supervise, Spawn, Goto, TakeCancel, TakeStop, Kill, Join, rowVars,
      procVars, wakeVars, scanVars
<1>7. ASSUME NEW w \in Workers, Child(w)
      PROVE  Carrying'
  BY <1>7 DEF Child, ChildSetRunning, ChildFinish, procVars, wakeVars, scanVars
<1>8. ASSUME NEW w \in Workers, Unblock(w)
      PROVE  Carrying'
  BY <1>8
  DEF Unblock, UnblockTry, Unblockable, UnblockCommit, UnblockTell,
      NotifyHandle, Main, rowVars, procVars, supVars, wakeVars
<1>9. ASSUME NEW w \in Workers,
             \/ Start(w) \/ Release(w) \/ WakeUp(w) \/ Maintain(w)
             \/ Shutdown(w)
      PROVE  Carrying'
  BY <1>9
  DEF Start, Goto, Release, Die, WakeUp, Maintain, Cleanup, CleanupIgnored,
      DeleteApps, Shutdown, rowVars, procVars, supVars, wakeVars, scanVars
<1>10. CASE Fault
  BY <1>10
  DEF Fault, RequestStop, Crash, Die, Goto, ChildDies, HeartbeatFails, ApiCrash,
      ApiExit, DeleteApps, rowVars, procVars, supVars, wakeVars, scanVars
<1> QED
  BY <1>1, <1>2, <1>3, <1>4, <1>5, <1>6, <1>7, <1>8, <1>9, <1>10
  DEF Next, Worker

(* Every task that is about to run was claimed or unblocked before.        *)
LEMMA RunKept ==
    ASSUME RowsInv, Next
    PROVE  BeginsToRun
<1> USE ProcAssumption
  DEF BeginsToRun, RowsInv, TypeOK, Procs, Carrying, Holds, HoldPcs, Control,
      ChildActive
<1>1. ASSUME NEW t \in Tasks, Client(t)
      PROVE  BeginsToRun
  BY <1>1
  DEF Client, Insert, InsertRow, Commit, CommitRow, NotifyUnblock, Rollback,
      RollbackRow, procVars, supVars, wakeVars, scanVars
<1>2. ASSUME NEW t \in Tasks, Cancel(t)
      PROVE  BeginsToRun
  BY <1>2
  DEF Cancel, CancelRead, CancelSet, CancelTell, NotifyHandle, CancelLost,
      rowVars, procVars, supVars, wakeVars, scanVars
<1>3. ASSUME NEW p \in Procs, Execute(p)
      PROVE  BeginsToRun
  BY <1>3
  DEF Execute, SetRunning, Raise, Free, Goto, Finish, Wake, NotifyUnblock,
      SetCanceling, SetCanceled, FinalState, rowVars, supVars, wakeVars,
      scanVars
<1>4. ASSUME NEW a \in Apis, Dispatch(a)
      PROVE  BeginsToRun
  BY <1>4
  DEF Dispatch, ApiInsert, InsertRow, Goto, ApiRollback, RollbackRow, Free,
      ApiCommit, CommitRow, Refresh, CheckResources, UnblockNow, Defer, rowVars,
      supVars, wakeVars, scanVars
<1>5. ASSUME NEW w \in Workers, Fetch(w)
      PROVE  BeginsToRun
  BY <1>5
  DEF Fetch, ClaimAbandoned, Claim, Candidates, Claimable, Goto, ClaimWaiting,
      ClaimIgnored, FetchNone, FetchFails, Die, rowVars, supVars, scanVars
<1>6. ASSUME NEW w \in Workers, Supervise(w)
      PROVE  BeginsToRun
  BY <1>6
  DEF Supervise, Spawn, Goto, TakeCancel, TakeStop, Kill, Join, rowVars,
      procVars, wakeVars, scanVars
<1>7. ASSUME NEW w \in Workers, Child(w)
      PROVE  BeginsToRun
  BY <1>7 DEF Child, ChildSetRunning, ChildFinish, procVars, wakeVars, scanVars
<1>8. ASSUME NEW w \in Workers, Unblock(w)
      PROVE  BeginsToRun
  BY <1>8
  DEF Unblock, UnblockTry, Unblockable, UnblockCommit, UnblockTell,
      NotifyHandle, Main, rowVars, procVars, supVars, wakeVars
<1>9. ASSUME NEW w \in Workers,
             \/ Start(w) \/ Release(w) \/ WakeUp(w) \/ Maintain(w)
             \/ Shutdown(w)
      PROVE  BeginsToRun
  BY <1>9
  DEF Start, Goto, Release, Die, WakeUp, Maintain, Cleanup, CleanupIgnored,
      DeleteApps, Shutdown, rowVars, procVars, supVars, wakeVars, scanVars
<1>10. CASE Fault
  BY <1>10
  DEF Fault, RequestStop, Crash, Die, Goto, ChildDies, HeartbeatFails, ApiCrash,
      ApiExit, DeleteApps, rowVars, procVars, supVars, wakeVars, scanVars
<1> QED
  BY <1>1, <1>2, <1>3, <1>4, <1>5, <1>6, <1>7, <1>8, <1>9, <1>10
  DEF Next, Worker

(* The insert trigger of dispatch() keeps the order of the rows that       *)
(* share a resource; all other steps leave the order alone.                *)
LEMMA OrderKept ==
    ASSUME RowsInv, NoDeferral, Next
    PROVE  InsertOrder'
<1> USE DEF RowsInv, TypeOK, Dispatches, Incomplete, Final, Visible
<1>1. ASSUME NEW t \in Tasks, Client(t)
      PROVE  InsertOrder'
  <2>1. CASE Insert(t)
    BY <2>1 DEF Insert, InsertRow, InsertOrder
  <2>2. CASE Commit(t)
    BY <2>2 DEF Commit, CommitRow, InsertOrder
  <2>3. CASE Rollback(t)
    BY <2>3 DEF Rollback, RollbackRow, InsertOrder
  <2> QED
    BY <1>1, <2>1, <2>2, <2>3 DEF Client
<1>2. ASSUME NEW t \in Tasks, Cancel(t)
      PROVE  InsertOrder'
  BY <1>2, InsertOrderStep
  DEF Cancel, CancelRead, CancelSet, CancelTell, NotifyHandle, CancelLost,
      rowVars, procVars, supVars, wakeVars, scanVars
<1>3. ASSUME NEW p \in Procs, Execute(p)
      PROVE  InsertOrder'
  <2>1. CASE SetRunning(p)
    BY <2>1, InsertOrderStep
    DEF SetRunning, Raise, Free, Goto, supVars, wakeVars, scanVars
  <2>2. CASE Finish(p)
    BY <2>2, InsertOrderStep
    DEF Finish, Raise, Free, Goto, supVars, wakeVars, scanVars
  <2>3. CASE Wake(p)
    BY <2>3 DEF Wake, rowVars, InsertOrder
  <2>4. CASE SetCanceling(p)
    <3>1. \A t \in Tasks : \/ state'[t] = state[t]
                           \/ {state[t], state'[t]} \subseteq Visible
      BY <2>4 DEF SetCanceling
    <3> QED
      BY <2>4, <3>1, InsertOrderStep DEF SetCanceling
  <2>5. CASE SetCanceled(p)
    <3>1. FinalState(p) \in Final
      BY <2>5 DEF SetCanceled, FinalState, Control
    <3>2. \A t \in Tasks : \/ state'[t] = state[t]
                           \/ state[t] = "canceling" /\ state'[t] \in Final
      BY <2>5, <3>1 DEF SetCanceled
    <3> QED
      BY <2>5, <3>2, InsertOrderStep DEF SetCanceled
  <2> QED
    BY <1>3, <2>1, <2>2, <2>3, <2>4, <2>5 DEF Execute
<1>4. ASSUME NEW a \in Apis, Dispatch(a)
      PROVE  InsertOrder'
  <2>1. CASE \E t \in Tasks : ApiInsert(a, t)
    BY <2>1 DEF ApiInsert, InsertRow, InsertOrder
  <2>2. CASE ApiRollback(a)
    BY <2>2 DEF ApiRollback, RollbackRow, InsertOrder
  <2>3. CASE ApiCommit(a)
    BY <2>3 DEF ApiCommit, CommitRow, InsertOrder
  <2>4. CASE Refresh(a)
    BY <2>4, InsertOrderStep
    DEF Refresh, Goto, rowVars, supVars, wakeVars, scanVars
  <2>5. CASE CheckResources(a)
    BY <2>5, InsertOrderStep
    DEF CheckResources, Goto, rowVars, supVars, wakeVars, scanVars
  <2>6. CASE UnblockNow(a)
    BY <2>6, InsertOrderStep DEF UnblockNow, Goto, supVars, wakeVars, scanVars
  <2>7. CASE Defer(a)
    BY <2>7, InsertOrderStep DEF Defer, Free, Goto, supVars, wakeVars, scanVars
  <2> QED
    BY <1>4, <2>1, <2>2, <2>3, <2>4, <2>5, <2>6, <2>7 DEF Dispatch
<1>5. ASSUME NEW w \in Workers, Fetch(w)
      PROVE  InsertOrder'
  BY <1>5, InsertOrderStep
  DEF Fetch, ClaimAbandoned, Claim, Candidates, Claimable, Goto, ClaimWaiting,
      ClaimIgnored, FetchNone, FetchFails, Die, rowVars, supVars, scanVars
<1>6. ASSUME NEW w \in Workers, Supervise(w)
      PROVE  InsertOrder'
  BY <1>6, InsertOrderStep
  DEF Supervise, Spawn, Goto, TakeCancel, TakeStop, Kill, Join, rowVars,
      procVars, wakeVars, scanVars
<1>7. ASSUME NEW w \in Workers, Child(w)
      PROVE  InsertOrder'
  BY <1>7, InsertOrderStep
  DEF Child, ChildSetRunning, ChildFinish, procVars, wakeVars, scanVars
<1>8. ASSUME NEW w \in Workers, Unblock(w)
      PROVE  InsertOrder'
  BY <1>8, InsertOrderStep
  DEF Unblock, UnblockTry, Unblockable, UnblockCommit, UnblockTell,
      NotifyHandle, Main, rowVars, procVars, supVars, wakeVars
<1>9. ASSUME NEW w \in Workers,
             \/ Start(w) \/ Release(w) \/ WakeUp(w) \/ Maintain(w)
             \/ Shutdown(w)
      PROVE  InsertOrder'
  BY <1>9, InsertOrderStep
  DEF Start, Goto, Release, Die, WakeUp, Maintain, Cleanup, CleanupIgnored,
      DeleteApps, Shutdown, rowVars, procVars, supVars, wakeVars, scanVars
<1>10. CASE Fault
  BY <1>10, InsertOrderStep
  DEF Fault, RequestStop, Crash, Die, Goto, ChildDies, HeartbeatFails, ApiCrash,
      ApiExit, DeleteApps, rowVars, procVars, supVars, wakeVars, scanVars
<1> QED
  BY <1>1, <1>2, <1>3, <1>4, <1>5, <1>6, <1>7, <1>8, <1>9, <1>10
  DEF Next, Worker

(* What excludes a task, once set_completed() or another setter has ended  *)
(* it, stays ended.                                                        *)
LEMMA ClearKept ==
    ASSUME RowsInv, \A u \in Tasks : RowMove(u), NEW t \in Tasks,
           state[t] \in Visible, Clear(t)
    PROVE  Clear(t)'
<1>1. prior'[t] \subseteq prior[t] /\ prior[t] \subseteq Tasks
  BY DEF RowMove, RowsInv, TypeOK
<1>2. ASSUME NEW u \in prior'[t], Conflict(t, u)
      PROVE  state'[u] \in Final
  <2>1. u \in prior[t] /\ u \in Tasks
    BY <1>1
  <2>2. state[u] \in Final
    BY <1>2, <2>1 DEF Clear
  <2> QED
    BY <2>1, <2>2 DEF RowMove
<1> QED
  BY <1>2 DEF Clear

(* What are_resources_available() and unblock_tasks() look for decides     *)
(* Clear: no row that excludes the task and was inserted before it is      *)
(* still invisible.                                                        *)
LEMMA ClearFromBlockers ==
    ASSUME RowsInv, NEW t \in Tasks, Blockers(t) = {}
    PROVE  Clear(t)
<1>1. ASSUME NEW u \in prior[t], Conflict(t, u)
      PROVE  state[u] \in Final
  <2>1. u \in Tasks /\ Overlap(t, u)
    BY <1>1, ConflictProps DEF RowsInv, TypeOK
  <2>2. state[u] \in Visible
    BY <2>1 DEF RowsInv, TypeOK, InsertOrder
  <2>3. state[u] \notin Incomplete
    BY <1>1 DEF Blockers
  <2> QED
    BY <2>2, <2>3 DEF Visible
<1> QED
  BY <1>1 DEF Clear

(* What unblock_tasks() or dispatch() has unblocked, or is about to, has   *)
(* nothing in its way, and only that runs: the rows stay so in a step.     *)
LEMMA UnblockingKept ==
    ASSUME RowsInv, TypeOK', \A u \in Tasks : RowMove(u)
    PROVE  Unblocking'
<1>1. SUFFICES ASSUME NEW t \in Tasks
               PROVE  /\ state'[t] \in {"absent", "inserting"}
                         => ~unblocked'[t] /\ t \notin found'
                      /\ state'[t] = "running" => unblocked'[t]
                      /\ state'[t] \in {"waiting", "running"} /\ unblocked'[t]
                         => Clear(t)'
                      /\ state'[t] = "waiting" /\ t \in found' => Clear(t)'
  BY DEF Unblocking
<1>2. RowMove(t)
  OBVIOUS
<1>3. /\ unblocked[t] => state[t] \in Visible
      /\ t \in found => state[t] \in Visible
      /\ t \in Unblockable => state[t] \in Visible
      /\ \A b \in Apis : pc[b] = "unblock" /\ task[b] = t
                         => state[t] \in Visible
  BY DEF RowsInv, TypeOK, Unblocking, Unblockable, Dispatches, Visible,
     Incomplete
<1>4. unblocked'[t] \/ t \in found' => state[t] \in Visible
                                       \/ state'[t] \notin Visible
  BY <1>2, <1>3 DEF RowMove
<1>5. state'[t] \in {"absent", "inserting"} => ~unblocked'[t] /\ t \notin found'
  BY <1>2, <1>3 DEF RowMove, Visible, Incomplete, Final
<1>6. state'[t] = "running"
      => unblocked'[t] /\ state[t] \in {"waiting", "running"}
  BY <1>2 DEF RowMove, RowsInv, Unblocking
<1>7. state[t] = "waiting" /\ (t \in Unblockable \/ t \in found) => Clear(t)
  BY ClearFromBlockers DEF Unblockable, RowsInv, Unblocking
<1>8. \A b \in Apis : pc[b] = "unblock" /\ task[b] = t /\ state[t] = "waiting"
                      => Clear(t)
  BY DEF RowsInv, Dispatches
<1>9. state[t] \in Visible /\ state'[t] \in {"waiting", "running"}
      => state[t] \in {"waiting", "running"}
  BY <1>2 DEF RowMove, Visible, Incomplete, Final
<1>10. state[t] \in {"waiting", "running"} /\ unblocked[t] => Clear(t)
  BY DEF RowsInv, Unblocking
<1>11. state[t] = "running" => unblocked[t]
  BY DEF RowsInv, Unblocking
<1>12. state[t] \in Visible /\ Clear(t) => Clear(t)'
  BY ClearKept
<1>13. state'[t] \in {"waiting", "running"} /\ unblocked'[t]
       => state[t] \in Visible /\ Clear(t)
  BY <1>2, <1>3, <1>7, <1>8, <1>9, <1>10, <1>11
     DEF RowMove, Visible, Incomplete
<1>14. state'[t] = "waiting" /\ t \in found' => state[t] \in Visible /\ Clear(t)
  <2>1. ASSUME state'[t] = "waiting", t \in found'
        PROVE  state[t] = "waiting" /\ (t \in found \/ t \in Unblockable)
    BY <1>2, <1>3, <2>1 DEF RowMove, Visible, Incomplete, Final
  <2> QED
    BY <1>7, <2>1 DEF Visible, Incomplete
<1> QED
  BY <1>5, <1>6, <1>12, <1>13, <1>14

(* What a worker or dispatch() is about to run stays unblocked.            *)
LEMMA ToRunKept ==
    ASSUME RowsInv, BeginsToRun, \A u \in Tasks : RowMove(u)
    PROVE  ToRun'
<1>1. ASSUME NEW p \in Procs, pc'[p] = "execute"
      PROVE  unblocked'[task'[p]]
  <2>1. pc[p] = "execute" => task[p] \in Tasks /\ unblocked[task[p]]
    BY DEF RowsInv, ToRun, Carrying, Holds, HoldPcs
  <2> QED
    BY <1>1, <2>1 DEF BeginsToRun, RowMove
<1>2. ASSUME NEW w \in Workers, pc'[w] = "spawn" \/ child'[w] = "starting"
      PROVE  unblocked'[task'[w]]
  <2>1. pc[w] = "spawn" \/ child[w] = "starting"
        => task[w] \in Tasks /\ unblocked[task[w]]
    BY DEF RowsInv, ToRun, Carrying, Holds, HoldPcs, ChildActive, Procs
  <2> QED
    BY <1>2, <2>1 DEF BeginsToRun, RowMove
<1> QED
  BY <1>1, <1>2 DEF ToRun

(* What a step may do to a dispatch() that is under way.                   *)
DispatchMove(b) ==
    LET t == task[b] IN
    /\ pc'[b] \in HoldPcs =>
          \/ pc[b] \in HoldPcs /\ task'[b] = t
          \/ /\ pc[b] \notin HoldPcs /\ pc'[b] = "insert"
             /\ task'[b] \in Tasks \cap ExecuteNow
             /\ state[task'[b]] = "absent" /\ state'[task'[b]] = "inserting"
    /\ pc'[b] # "defer"
    /\ pc'[b] = "insert" /\ pc[b] \in HoldPcs
       => pc[b] = "insert" /\ state'[t] = "inserting"
    /\ pc'[b] \in {"refresh", "check", "unblock"}
       => \/ pc[b] \in {"refresh", "check", "unblock"}
          \/ pc[b] = "insert" /\ state'[t] = "waiting"
    /\ pc'[b] = "unblock"
       => \/ pc[b] = "unblock"
          \/ pc[b] = "check" /\ Blockers(t) = {} /\ UNCHANGED <<state, prior>>

(* Every step of the code that touches a dispatch() under way, or the row  *)
(* that it inserts, is like that.                                          *)
LEMMA DispatchMoves ==
    ASSUME RowsInv, NoDeferral, Next, NEW b \in Apis
    PROVE  DispatchMove(b)
<1> USE ProcAssumption
  DEF DispatchMove, RowsInv, TypeOK, Procs, Carrying, Holds, HoldPcs, Control,
      Dispatches, NoDeferral, Inserting
<1>1. ASSUME NEW t \in Tasks, Client(t)
      PROVE  DispatchMove(b)
  <2>1. CASE Insert(t)
    BY <2>1 DEF Insert, InsertRow, procVars, supVars, wakeVars, scanVars
  <2>2. CASE Commit(t)
    BY <2>2 DEF Commit, CommitRow, NotifyUnblock, procVars, supVars, scanVars
  <2>3. CASE Rollback(t)
    BY <2>3 DEF Rollback, RollbackRow, procVars, supVars, wakeVars, scanVars
  <2> QED
    BY <1>1, <2>1, <2>2, <2>3 DEF Client
<1>2. ASSUME NEW t \in Tasks, Cancel(t)
      PROVE  DispatchMove(b)
  <2>1. CASE CancelRead(t)
    BY <2>1 DEF CancelRead, rowVars, procVars, supVars, wakeVars, scanVars
  <2>2. CASE CancelSet(t)
    <3>1. \A v \in Tasks : state'[v] # state[v] => state[v] \in Incomplete
      BY <2>2 DEF CancelSet
    <3> QED
      BY <2>2, <3>1 DEF CancelSet, procVars, Incomplete
  <2>3. CASE CancelTell(t)
    BY <2>3 DEF CancelTell, NotifyHandle, rowVars, procVars, scanVars
  <2>4. CASE CancelLost(t)
    BY <2>4 DEF CancelLost, rowVars, procVars, supVars, wakeVars, scanVars
  <2> QED
    BY <1>2, <2>1, <2>2, <2>3, <2>4 DEF Cancel
<1>3. ASSUME NEW p \in Procs, Execute(p)
      PROVE  DispatchMove(b)
  <2>1. CASE SetRunning(p)
    BY <2>1 DEF SetRunning, Raise, Free, Goto, supVars, wakeVars, scanVars
  <2>2. CASE Finish(p)
    BY <2>2 DEF Finish, Raise, Free, Goto, supVars, wakeVars, scanVars
  <2>3. CASE Wake(p)
    BY <2>3 DEF Wake, NotifyUnblock, Free, Goto, rowVars, supVars, scanVars
  <2>4. CASE SetCanceling(p)
    <3>1. \A t \in Tasks : state'[t] # state[t] => state[t] \in Incomplete
      BY <2>4 DEF SetCanceling
    <3>2. p # b => pc'[b] = pc[b] /\ task'[b] = task[b]
      BY <2>4 DEF SetCanceling, Raise, Free, Goto
    <3>3. p = b => /\ pc[b] = "abandon"
                   /\ pc'[b] \in {"finalize", "idle"}
                   /\ pc'[b] = "finalize" => task'[b] = task[b]
      BY <2>4 DEF SetCanceling, Raise, Free, Goto
    <3> QED
      BY <3>1, <3>2, <3>3 DEF Incomplete
  <2>5. CASE SetCanceled(p)
    BY <2>5
    DEF SetCanceled, FinalState, Raise, Free, Goto, supVars, wakeVars, scanVars
  <2> QED
    BY <1>3, <2>1, <2>2, <2>3, <2>4, <2>5 DEF Execute
<1>4. ASSUME NEW a \in Apis, Dispatch(a)
      PROVE  DispatchMove(b)
  <2>1. CASE \E t \in Tasks : ApiInsert(a, t)
    BY <2>1 DEF ApiInsert, InsertRow, Goto, supVars, wakeVars, scanVars
  <2>2. CASE ApiRollback(a)
    BY <2>2
    DEF ApiRollback, RollbackRow, Free, Goto, supVars, wakeVars, scanVars
  <2>3. CASE ApiCommit(a)
    BY <2>3 DEF ApiCommit, CommitRow, Goto, supVars, wakeVars, scanVars
  <2>4. CASE Refresh(a)
    BY <2>4 DEF Refresh, Goto, rowVars, supVars, wakeVars, scanVars
  <2>5. CASE CheckResources(a)
    BY <2>5 DEF CheckResources, Goto, rowVars, supVars, wakeVars, scanVars
  <2>6. CASE UnblockNow(a)
    BY <2>6 DEF UnblockNow, Goto, supVars, wakeVars, scanVars
  <2>7. CASE Defer(a)
    BY <2>7 DEF Defer, Free, Goto, supVars, wakeVars, scanVars
  <2> QED
    BY <1>4, <2>1, <2>2, <2>3, <2>4, <2>5, <2>6, <2>7 DEF Dispatch
<1>5. ASSUME NEW w \in Workers, Fetch(w)
      PROVE  DispatchMove(b)
  BY <1>5
  DEF Fetch, ClaimAbandoned, Claim, Candidates, Claimable, Goto, ClaimWaiting,
      ClaimIgnored, FetchNone, FetchFails, Die, rowVars, supVars, scanVars
<1>6. ASSUME NEW w \in Workers, Supervise(w)
      PROVE  DispatchMove(b)
  BY <1>6
  DEF Supervise, Spawn, Goto, TakeCancel, TakeStop, Kill, Join, rowVars,
      procVars, wakeVars, scanVars
<1>7. ASSUME NEW w \in Workers, Child(w)
      PROVE  DispatchMove(b)
  BY <1>7 DEF Child, ChildSetRunning, ChildFinish, procVars, wakeVars, scanVars
<1>8. ASSUME NEW w \in Workers, Unblock(w)
      PROVE  DispatchMove(b)
  BY <1>8
  DEF Unblock, UnblockTry, Unblockable, UnblockCommit, UnblockTell,
      NotifyHandle, Main, rowVars, procVars, supVars, wakeVars
<1>9. ASSUME NEW w \in Workers,
             \/ Start(w) \/ Release(w) \/ WakeUp(w) \/ Maintain(w)
             \/ Shutdown(w)
      PROVE  DispatchMove(b)
  BY <1>9
  DEF Start, Goto, Release, Die, WakeUp, Maintain, Cleanup, CleanupIgnored,
      DeleteApps, Shutdown, rowVars, procVars, supVars, wakeVars, scanVars
<1>10. CASE Fault
  BY <1>10
  DEF Fault, RequestStop, Crash, Die, Goto, ChildDies, HeartbeatFails, ApiCrash,
      ApiExit, DeleteApps, rowVars, procVars, supVars, wakeVars, scanVars
<1> QED
  BY <1>1, <1>2, <1>3, <1>4, <1>5, <1>6, <1>7, <1>8, <1>9, <1>10
  DEF Next, Worker

(* One API process at a time goes on with its dispatch().                  *)
LEMMA OneDispatches ==
    ASSUME RowsInv, Next, NEW b \in Apis, NEW c \in Apis, b # c
    PROVE  pc'[b] = pc[b] \/ pc'[c] = pc[c]
<1> USE ProcAssumption DEF RowsInv, TypeOK, Procs
<1>1. ASSUME NEW t \in Tasks, Client(t)
      PROVE  pc'[b] = pc[b] \/ pc'[c] = pc[c]
  BY <1>1
  DEF Client, Insert, InsertRow, Commit, CommitRow, NotifyUnblock, Rollback,
      RollbackRow, procVars, supVars, wakeVars, scanVars
<1>2. ASSUME NEW t \in Tasks, Cancel(t)
      PROVE  pc'[b] = pc[b] \/ pc'[c] = pc[c]
  BY <1>2
  DEF Cancel, CancelRead, CancelSet, CancelTell, NotifyHandle, CancelLost,
      rowVars, procVars, supVars, wakeVars, scanVars
<1>3. ASSUME NEW p \in Procs, Execute(p)
      PROVE  pc'[b] = pc[b] \/ pc'[c] = pc[c]
  BY <1>3
  DEF Execute, SetRunning, Raise, Free, Goto, Finish, Wake, NotifyUnblock,
      SetCanceling, SetCanceled, FinalState, rowVars, supVars, wakeVars,
      scanVars
<1>4. ASSUME NEW a \in Apis, Dispatch(a)
      PROVE  pc'[b] = pc[b] \/ pc'[c] = pc[c]
  BY <1>4
  DEF Dispatch, ApiInsert, InsertRow, Goto, ApiRollback, RollbackRow, Free,
      ApiCommit, CommitRow, Refresh, CheckResources, UnblockNow, Defer, rowVars,
      supVars, wakeVars, scanVars
<1>5. ASSUME NEW w \in Workers, Fetch(w)
      PROVE  pc'[b] = pc[b] \/ pc'[c] = pc[c]
  BY <1>5
  DEF Fetch, ClaimAbandoned, Claim, Candidates, Claimable, Goto, ClaimWaiting,
      ClaimIgnored, FetchNone, FetchFails, Die, rowVars, supVars, scanVars
<1>6. ASSUME NEW w \in Workers, Supervise(w)
      PROVE  pc'[b] = pc[b] \/ pc'[c] = pc[c]
  BY <1>6
  DEF Supervise, Spawn, Goto, TakeCancel, TakeStop, Kill, Join, rowVars,
      procVars, wakeVars, scanVars
<1>7. ASSUME NEW w \in Workers, Child(w)
      PROVE  pc'[b] = pc[b] \/ pc'[c] = pc[c]
  BY <1>7 DEF Child, ChildSetRunning, ChildFinish, procVars, wakeVars, scanVars
<1>8. ASSUME NEW w \in Workers, Unblock(w)
      PROVE  pc'[b] = pc[b] \/ pc'[c] = pc[c]
  BY <1>8
  DEF Unblock, UnblockTry, Unblockable, UnblockCommit, UnblockTell,
      NotifyHandle, Main, rowVars, procVars, supVars, wakeVars
<1>9. ASSUME NEW w \in Workers,
             \/ Start(w) \/ Release(w) \/ WakeUp(w) \/ Maintain(w)
             \/ Shutdown(w)
      PROVE  pc'[b] = pc[b] \/ pc'[c] = pc[c]
  BY <1>9
  DEF Start, Goto, Release, Die, WakeUp, Maintain, Cleanup, CleanupIgnored,
      DeleteApps, Shutdown, rowVars, procVars, supVars, wakeVars, scanVars
<1>10. CASE Fault
  BY <1>10
  DEF Fault, RequestStop, Crash, Die, Goto, ChildDies, HeartbeatFails, ApiCrash,
      ApiExit, DeleteApps, rowVars, procVars, supVars, wakeVars, scanVars
<1> QED
  BY <1>1, <1>2, <1>3, <1>4, <1>5, <1>6, <1>7, <1>8, <1>9, <1>10
  DEF Next, Worker


(* What dispatch() relies on between its statements holds on.              *)
LEMMA DispatchesKept ==
    ASSUME RowsInv, \A u \in Tasks : RowMove(u), NEW b \in Apis,
           DispatchMove(b)
    PROVE  Dispatches(b)'
<1> USE DEF Dispatches, DispatchMove
<1>1. pc[b] \in HoldPcs => task[b] \in Tasks
  BY DEF RowsInv, Carrying, Holds, Procs
<1>2. Dispatches(b)
  BY DEF RowsInv
<1>3. pc'[b] \in HoldPcs => task'[b] \in ExecuteNow
  BY <1>2
<1>4. pc'[b] = "insert" => state'[task'[b]] = "inserting"
  BY DEF HoldPcs
<1>5. ASSUME pc'[b] \in {"refresh", "check", "unblock"}
      PROVE  /\ task'[b] = task[b] /\ task[b] \in Tasks
             /\ state'[task[b]] \in Visible
  <2>1. task'[b] = task[b] /\ task[b] \in Tasks
    BY <1>1, <1>5 DEF HoldPcs
  <2> QED
    BY <1>2, <1>5, <2>1 DEF RowMove, Visible, Incomplete
<1>6. ASSUME NEW t \in Tasks, task'[b] = t, pc'[b] = "unblock",
             state'[t] = "waiting"
      PROVE  Clear(t)'
  <2>1. task[b] = t
    BY <1>5, <1>6
  <2>2. state[t] = "waiting"
    BY <1>2, <1>6, <2>1 DEF RowMove, Visible, Incomplete, Final
  <2>3. Clear(t)
    BY <1>2, <1>6, <2>1, <2>2, ClearFromBlockers
  <2> QED
    BY <2>2, <2>3, ClearKept DEF Visible, Incomplete
<1> QED
  BY <1>3, <1>4, <1>5, <1>6 DEF Clear

(* Two calls of dispatch() never insert the same task.                     *)
LEMMA InsertingKept ==
    ASSUME RowsInv, \A b \in Apis : DispatchMove(b),
           \A b, c \in Apis : b # c => pc'[b] = pc[b] \/ pc'[c] = pc[c]
    PROVE  Inserting'
<1>1. SUFFICES ASSUME NEW b \in Apis, NEW c \in Apis, b # c,
                      pc'[b] = "insert", pc'[c] = "insert",
                      task'[b] = task'[c], pc'[b] = pc[b]
               PROVE  FALSE
  BY DEF Inserting
<1>2. pc[b] = "insert" /\ task'[b] = task[b]
  BY <1>1 DEF DispatchMove, HoldPcs
<1>3. state[task[b]] = "inserting"
  BY <1>2 DEF RowsInv, Dispatches
<1>4. pc[c] = "insert" /\ task'[c] = task[c]
  <2>1. \/ pc[c] = "insert" /\ task'[c] = task[c]
        \/ state[task'[c]] = "absent"
    <3>1. DispatchMove(c)
      OBVIOUS
    <3> QED
      BY <1>1, <3>1 DEF DispatchMove, HoldPcs
  <2> QED
    BY <1>1, <1>2, <1>3, <2>1
<1> QED
  BY <1>1, <1>2, <1>4 DEF RowsInv, Inserting

(* Every step of the code, whoever is taken for missing meanwhile, keeps   *)
(* RowsInv: the lemmas about its conjuncts together.                       *)
LEMMA RowsNext ==
    ASSUME RowsInv, NoDeferral, Next
    PROVE  RowsInv'
<1>1. \A u \in Tasks : RowMove(u)
  BY RowMoves
<1>2. \A b \in Apis : DispatchMove(b)
  BY DispatchMoves
<1>3. \A b, c \in Apis : b # c => pc'[b] = pc[b] \/ pc'[c] = pc[c]
  BY OneDispatches
<1>4. TypeOK' /\ InsertOrder' /\ Control' /\ Carrying'
  BY TypesKept, RowsInvReads, OrderKept, ControlKept, CarryingKept DEF RowsInv
<1>5. \A b \in Apis : Dispatches(b)'
  BY <1>1, <1>2, DispatchesKept
<1>6. Inserting'
  BY <1>2, <1>3, InsertingKept
<1>7. Unblocking' /\ ToRun'
  BY <1>1, <1>4, UnblockingKept, ToRunKept, RunKept
<1> QED
  BY <1>4, <1>5, <1>6, <1>7 DEF RowsInv

(* A step of the environment that changes nothing keeps RowsInv.           *)
LEMMA RowsStutter ==
    ASSUME RowsInv, UNCHANGED vars
    PROVE  RowsInv'
<1> USE DEF vars, rowVars, procVars, supVars, wakeVars, scanVars, RowsInv
<1>1. TypeOK'
  BY DEF TypeOK
<1>2. InsertOrder' /\ Control' /\ Carrying'
  BY DEF InsertOrder, Control, ChildActive, Carrying, Holds
<1>3. (\A b \in Apis : Dispatches(b)') /\ Inserting'
  BY DEF Dispatches, Clear, Inserting
<1>4. Unblocking' /\ ToRun'
  BY DEF Unblocking, Clear, ToRun
<1> QED
  BY <1>1, <1>2, <1>3, <1>4

(* RowsInv holds in the empty database, before any worker has started.     *)
LEMMA RowsInit ==
    ASSUME Init
    PROVE  RowsInv
<1> USE ProcAssumption DEF Init, Procs, ApiPcs, WorkerPcs
<1>1. TypeOK
  BY DEF TypeOK, Visible, Incomplete, Final
<1>2. InsertOrder /\ Control /\ Carrying
  BY DEF InsertOrder, Control, ChildActive, Carrying, Holds, HoldPcs
<1>3. (\A b \in Apis : Dispatches(b)) /\ Inserting
  BY DEF Dispatches, Clear, Inserting, HoldPcs
<1>4. Unblocking /\ ToRun
  BY DEF Unblocking, ToRun
<1> QED
  BY <1>1, <1>2, <1>3, <1>4 DEF RowsInv

(* Every step of the code, unless a deferral writes back a stale state,    *)
(* lets a task run or end only by the hands of its owner.                  *)
LEMMA OwnerMoves ==
    ASSUME TypeOK, Next, NEW u \in Tasks,
           \A b \in Apis : pc[b] = "defer" => seen[b].state = "waiting"
    PROVE  OwnerAdvances(u)
<1> USE ProcAssumption DEF OwnerAdvances, TypeOK, Procs, Final, Incomplete
<1>1. ASSUME NEW t \in Tasks, Client(t)
      PROVE  OwnerAdvances(u)
  BY <1>1
  DEF Client, Insert, InsertRow, Commit, CommitRow, NotifyUnblock, Rollback,
      RollbackRow, procVars, supVars, wakeVars, scanVars
<1>2. ASSUME NEW t \in Tasks, Cancel(t)
      PROVE  OwnerAdvances(u)
  BY <1>2
  DEF Cancel, CancelRead, CancelSet, CancelTell, NotifyHandle, CancelLost,
      rowVars, procVars, supVars, wakeVars, scanVars
<1>3. ASSUME NEW p \in Procs, Execute(p)
      PROVE  OwnerAdvances(u)
  <2>1. CASE SetRunning(p)
    BY <2>1 DEF SetRunning, Raise, Free, Goto, supVars, wakeVars, scanVars
  <2>2. CASE Finish(p)
    BY <2>2 DEF Finish, Raise, Free, Goto, supVars, wakeVars, scanVars
  <2>3. CASE Wake(p)
    BY <2>3 DEF Wake, NotifyUnblock, Free, Goto, rowVars, supVars, scanVars
  <2>4. CASE SetCanceling(p)
    BY <2>4 DEF SetCanceling, Raise, Free, Goto, supVars, wakeVars, scanVars
  <2>5. CASE SetCanceled(p)
    BY <2>5
    DEF SetCanceled, FinalState, Raise, Free, Goto, supVars, wakeVars, scanVars
  <2> QED
    BY <1>3, <2>1, <2>2, <2>3, <2>4, <2>5 DEF Execute
<1>4. ASSUME NEW a \in Apis, Dispatch(a)
      PROVE  OwnerAdvances(u)
  BY <1>4
  DEF Dispatch, ApiInsert, InsertRow, Goto, ApiRollback, RollbackRow, Free,
      ApiCommit, CommitRow, Refresh, CheckResources, UnblockNow, Defer, rowVars,
      supVars, wakeVars, scanVars
<1>5. ASSUME NEW w \in Workers, Fetch(w)
      PROVE  OwnerAdvances(u)
  BY <1>5
  DEF Fetch, ClaimAbandoned, Claim, Candidates, Claimable, Goto, ClaimWaiting,
      ClaimIgnored, FetchNone, FetchFails, Die, rowVars, supVars, scanVars
<1>6. ASSUME NEW w \in Workers, Supervise(w)
      PROVE  OwnerAdvances(u)
  BY <1>6
  DEF Supervise, Spawn, Goto, TakeCancel, TakeStop, Kill, Join, rowVars,
      procVars, wakeVars, scanVars
<1>7. ASSUME NEW w \in Workers, Child(w)
      PROVE  OwnerAdvances(u)
  BY <1>7 DEF Child, ChildSetRunning, ChildFinish, procVars, wakeVars, scanVars
<1>8. ASSUME NEW w \in Workers, Unblock(w)
      PROVE  OwnerAdvances(u)
  BY <1>8
  DEF Unblock, UnblockTry, Unblockable, UnblockCommit, UnblockTell,
      NotifyHandle, Main, rowVars, procVars, supVars, wakeVars
<1>9. ASSUME NEW w \in Workers,
             \/ Start(w) \/ Release(w) \/ WakeUp(w) \/ Maintain(w)
             \/ Shutdown(w)
      PROVE  OwnerAdvances(u)
  BY <1>9
  DEF Start, Goto, Release, Die, WakeUp, Maintain, Cleanup, CleanupIgnored,
      DeleteApps, Shutdown, rowVars, procVars, supVars, wakeVars, scanVars
<1>10. CASE Fault
  BY <1>10
  DEF Fault, RequestStop, Crash, Die, Goto, ChildDies, HeartbeatFails, ApiCrash,
      ApiExit, DeleteApps, rowVars, procVars, supVars, wakeVars, scanVars
<1> QED
  BY <1>1, <1>2, <1>3, <1>4, <1>5, <1>6, <1>7, <1>8, <1>9, <1>10
  DEF Next, Worker

(* Two rows that exclude each other are never both running: set_running()  *)
(* finds the later of them unblocked, and hence the earlier one ended.     *)
LEMMA RunningClear ==
    ASSUME InsertOrder, Unblocking
    PROVE  RunningRowsExclude
<1>1. SUFFICES ASSUME NEW t \in Tasks, NEW u \in Tasks, Conflict(t, u),
                      state[t] = "running", state[u] = "running"
               PROVE  FALSE
  BY DEF RunningRowsExclude
<1>2. Clear(t) /\ Clear(u)
  BY <1>1 DEF Unblocking
<1>3. Conflict(u, t) /\ t # u
  BY <1>1, ConflictProps
<1>4. t \in prior[u] \/ u \in prior[t]
  BY <1>1, <1>3 DEF InsertOrder
<1> QED
  BY <1>1, <1>2, <1>3, <1>4 DEF Clear, Final

(* The part of the invariant that is about rows needs no process to be on  *)
(* time: app_cleanup() may clear the lock of a process that still works,   *)
(* and dispatch(), unblock_tasks() and the setters of Task still leave     *)
(* the rows in order.                                                      *)
THEOREM RowsInvariance ==
    ASSUME NoDeferral
    PROVE  Spec => []RowsInv
<1>1. Init => RowsInv
  BY RowsInit
<1>2. RowsInv /\ [Next]_vars => RowsInv'
  BY RowsNext, RowsStutter
<1> QED
  BY <1>1, <1>2, PTL DEF Spec

(* Whatever processes are taken for missing while they work, the table     *)
(* never shows two tasks as running that exclude each other: the WHERE     *)
(* clauses of set_running() and of the unblocking see to it, unless a      *)
(* dispatch() that was taken for missing may write a deferral over the     *)
(* row.  With Timely and NoStaleSave deferrals do no harm either.          *)
THEOREM RowsExclude ==
    ASSUME NoDeferral \/ (Timely /\ NoStaleSave)
    PROVE  Spec => []RunningRowsExclude
<1>1. CASE NoDeferral
  <2>1. RowsInv => RunningRowsExclude
    BY RunningClear DEF RowsInv
  <2> QED
    BY <1>1, <2>1, RowsInvariance, PTL
<1>2. CASE Timely /\ NoStaleSave
  <2>1. Inv => RunningRowsExclude
    BY RunningClear DEF Inv
  <2>2. Timely /\ NoStaleSave
    BY <1>2
  <2> QED
    BY <2>1, <2>2, Invariance, PTL
<1> QED
  BY <1>1, <1>2

(* Seen from the invariants: in a deferral only the state "waiting" is     *)
(* ever written back, which lets no task run and ends none.                *)
LEMMA OwnersMove ==
    ASSUME TypeOK, [Next]_vars,
           \A b \in Apis : pc[b] = "defer" => seen[b].state = "waiting"
    PROVE  [\A t \in Tasks : OwnerAdvances(t)]_vars
BY OwnerMoves

(* A task runs, completes, fails or ends canceled only by a step of the    *)
(* process in its app_lock: set_running(), set_completed(), set_failed()   *)
(* and set_canceled() ask for the lock, even when the process has been     *)
(* taken for missing in between.                                           *)
THEOREM OwnersAdvance ==
    ASSUME NoDeferral \/ (Timely /\ NoStaleSave)
    PROVE  Spec => OnlyOwnerAdvances
<1>1. CASE NoDeferral
  <2>1. RowsInv /\ [Next]_vars => [\A t \in Tasks : OwnerAdvances(t)]_vars
    BY OwnersMove DEF RowsInv, Dispatches
  <2> QED
    BY <1>1, <2>1, RowsInvariance, PTL DEF Spec, OnlyOwnerAdvances
<1>2. CASE Timely /\ NoStaleSave
  <2>1. Inv /\ [Next]_vars => [\A t \in Tasks : OwnerAdvances(t)]_vars
    BY OwnersMove DEF Inv, Dispatching, Dispatcher
  <2>2. Timely /\ NoStaleSave
    BY <1>2
  <2> QED
    BY <2>1, <2>2, Invariance, PTL DEF Spec, OnlyOwnerAdvances
<1> QED
  BY <1>1, <1>2
=============================================================================
