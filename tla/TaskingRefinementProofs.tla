----------------------- MODULE TaskingRefinementProofs -----------------------
(***************************************************************************)
(* Proof that Tasking implements TaskQueue for every number of tasks,      *)
(* resources, workers and API processes.  A step of the code changes the   *)
(* status of one task at most, or none: the lemmas about steps say what    *)
(* one has to show of a step for that, the others show it action by action.*)
(***************************************************************************)
EXTENDS TaskingRefinement, TaskingProofs

(* What the queue sees is made of the rows and of who executes what.       *)
LEMMA SameRows ==
    ASSUME UNCHANGED <<state, prior>>,
           \A t \in Tasks : Executing(t)' <=> Executing(t)
    PROVE  UNCHANGED Queue!vars
<1>1. \A t \in Tasks : Status(t)' = Status(t)
  BY DEF Status
<1>2. \A t \in Tasks : Ahead(t)' = Ahead(t)
  BY DEF Ahead
<1> QED
  BY <1>1, <1>2 DEF Queue!vars

(* Most steps of the code change neither rows nor executions.              *)
LEMMA Unseen ==
    ASSUME UNCHANGED <<state, prior, pc, task, child>>
    PROVE  UNCHANGED Queue!vars
<1>1. \A t \in Tasks : Executing(t)' <=> Executing(t)
  BY DEF Executing, ExecutedBy
<1> QED
  BY <1>1, SameRows

(* Only p moves.                                                           *)
Moves(p) ==
    \A q \in Procs : q # p => /\ pc'[q] = pc[q]
                              /\ task'[q] = task[q]
                              /\ q \in Workers => child'[q] = child[q]

(* If p executes afterwards what it executed before, so do all together.   *)
LEMMA SameExecutions ==
    ASSUME NEW p \in Procs, Moves(p), NEW t \in Tasks,
           ExecutedBy(p, t)' <=> ExecutedBy(p, t)
    PROVE  Executing(t)' <=> Executing(t)
<1>1. \A q \in Procs : ExecutedBy(q, t)' <=> ExecutedBy(q, t)
  BY DEF Moves, ExecutedBy
<1> QED
  BY <1>1 DEF Executing

(* A process that moves without executing anything is not seen.            *)
LEMMA IdleMove ==
    ASSUME NEW p \in Procs, Moves(p), UNCHANGED <<state, prior>>,
           \A t \in Tasks : ExecutedBy(p, t)' <=> ExecutedBy(p, t)
    PROVE  UNCHANGED Queue!vars
BY SameExecutions, SameRows

(* Where nothing is executed, before the step and after it.                *)
Idles(p) == pc[p] # "run" /\ (p \in Workers => child[p] # "running")

(* A process that executes nothing before and after it moves is not seen.  *)
LEMMA IdleStep ==
    ASSUME NEW p \in Procs, Moves(p), UNCHANGED <<state, prior>>,
           Idles(p), Idles(p)'
    PROVE  UNCHANGED Queue!vars
BY IdleMove DEF Idles, ExecutedBy

(* The steps of the queue that concern a visible row.                      *)
Advances(t) ==
    \/ Status(t)' = Status(t)
    \/ Status(t) = "queued" /\ Status(t)' = "executing" /\ Clear(t)
    \/ Status(t) \in {"queued", "executing"} /\ Status(t)' = "ending"
    \/ Status(t) \in {"executing", "ending"} /\ Status(t)' = "ended"

(* A step of the code that advances the row of one visible task is a step  *)
(* of the queue, if the task advances the way the queue allows.            *)
LEMMA OneAdvances ==
    ASSUME Inv, Inv', NEW t \in Tasks, UNCHANGED prior,
           state[t] \in Visible, state'[t] \in Visible,
           \A u \in Tasks : u # t => /\ state'[u] = state[u]
                                     /\ Executing(u)' <=> Executing(u),
           Advances(t)
    PROVE  [Queue!Next]_Queue!vars
<1>1. \A u \in Tasks : u # t => Status(u)' = Status(u)
  BY DEF Status
<1>2. \A u \in Tasks : Ahead(u)' = Ahead(u)
  BY DEF Ahead
<1>3. [u \in Tasks |-> Ahead(u)]' = [u \in Tasks |-> Ahead(u)]
  BY <1>2
<1>4. [u \in Tasks |-> Status(u)]'
        = [[u \in Tasks |-> Status(u)] EXCEPT ![t] = Status(t)']
  BY <1>1
<1>5. CASE Status(t)' = Status(t)
  <2>1. [u \in Tasks |-> Status(u)]' = [u \in Tasks |-> Status(u)]
    BY <1>1, <1>5
  <2> QED
    BY <1>3, <2>1 DEF Queue!vars
<1>6. CASE Status(t) = "queued" /\ Status(t)' = "executing" /\ Clear(t)
  <2>1. \A u \in Ahead(t) : u \in Tasks /\ Status(u) = "ended"
    BY <1>6 DEF Ahead, Clear, Status, Inv, TypeOK, Final, Visible
  <2>2. Queue!Begin(t)
    BY <1>3, <1>4, <1>6, <2>1 DEF Queue!Begin, Queue!Become
  <2> QED
    BY <2>2 DEF Queue!Next
<1>7. CASE Status(t) \in {"queued", "executing"} /\ Status(t)' = "ending"
  <2>1. Queue!Abort(t)
    BY <1>3, <1>4, <1>7 DEF Queue!Abort, Queue!Become
  <2> QED
    BY <2>1 DEF Queue!Next
<1>8. CASE Status(t) \in {"executing", "ending"} /\ Status(t)' = "ended"
  <2>1. Queue!End(t)
    BY <1>3, <1>4, <1>8 DEF Queue!End, Queue!Become
  <2> QED
    BY <2>1 DEF Queue!Next
<1> QED
  BY <1>5, <1>6, <1>7, <1>8 DEF Advances

(* A row that stays invisible is not seen, nor that it leaves the prior    *)
(* tasks of those it does not exclude.                                     *)
LEMMA HiddenRow ==
    ASSUME TypeOK, TypeOK', NEW t \in Tasks,
           state[t] \notin Visible, state'[t] \notin Visible,
           \A u \in Tasks : u # t =>
               /\ state'[u] = state[u]
               /\ \A v \in Tasks : Conflict(u, v) /\ state[u] \in Visible
                      => (v \in prior'[u] <=> v \in prior[u]),
           \A u \in Tasks : Executing(u)' <=> Executing(u)
    PROVE  UNCHANGED Queue!vars
<1>1. \A u \in Tasks : Status(u)' = Status(u)
  BY DEF Status
<1>2. ASSUME NEW u \in Tasks
      PROVE  Ahead(u)' = Ahead(u)
  <2>1. prior[u] \subseteq Tasks /\ prior'[u] \subseteq Tasks
    BY DEF TypeOK
  <2>2. CASE u = t
    BY <2>2 DEF Ahead
  <2>3. CASE u # t
    BY <2>1, <2>3 DEF Ahead
  <2> QED
    BY <2>2, <2>3
<1> QED
  BY <1>1, <1>2 DEF Queue!vars

(* A commit submits the task: what is ahead of it are the visible rows,    *)
(* for the trigger lets nobody who shares a resource come in between.      *)
LEMMA CommitSubmits ==
    ASSUME Inv, NEW t \in Tasks, CommitRow(t),
           \A u \in Tasks : Executing(u)' <=> Executing(u)
    PROVE  Queue!Next
<1> USE DEF CommitRow
<1>1. \A u \in Tasks : u # t => state'[u] = state[u]
  BY DEF Inv, TypeOK
<1>2. state[t] = "inserting" /\ state'[t] = "waiting"
  BY DEF Inv, TypeOK
<1>3. ~Executing(t)
  BY <1>2 DEF Inv, Running, Executing
<1>4. Status(t) = "none" /\ Status(t)' = "queued"
  BY <1>2, <1>3 DEF Status, Visible, Final, Incomplete
<1>5. \A u \in Tasks : u # t => Status(u)' = Status(u) /\ Ahead(u)' = Ahead(u)
  BY <1>1 DEF Status, Ahead
<1>6. [u \in Tasks |-> Status(u)]'
        = [[u \in Tasks |-> Status(u)] EXCEPT ![t] = "queued"]
  BY <1>4, <1>5
<1>7. Ahead(t)' = {u \in Tasks : /\ <<t, u>> \in Exclusions
                                 /\ Status(u) # "none"}
  <2>1. Ahead(t)' = {u \in prior[t] : Conflict(t, u)}
    BY <1>2 DEF Ahead, Visible, Incomplete
  <2>2. ASSUME NEW u \in Tasks, Conflict(t, u)
        PROVE  u \in prior[t] <=> Status(u) # "none"
    <3>1. u # t /\ Overlap(t, u) /\ Overlap(u, t)
      BY <2>2, ConflictProps DEF Overlap
    <3>2. u \in prior[t] => state[u] \in Visible
      BY <3>1 DEF Inv, InsertOrder, TypeOK
    <3>3. state[u] \in Visible => u \in prior[t]
      BY <1>2, <3>1 DEF Inv, InsertOrder, TypeOK, Visible, Incomplete, Final
    <3> QED
      BY <3>2, <3>3 DEF Status
  <2>3. \A u \in Tasks : <<t, u>> \in Exclusions <=> Conflict(t, u)
    BY DEF Exclusions
  <2>4. prior[t] \subseteq Tasks
    BY DEF Inv, TypeOK
  <2> QED
    BY <2>1, <2>2, <2>3, <2>4
<1>8. [u \in Tasks |-> Ahead(u)]'
        = [[u \in Tasks |-> Ahead(u)] EXCEPT
              ![t] = {u \in Tasks : <<t, u>> \in Exclusions
                                    /\ Status(u) # "none"}]
  BY <1>5, <1>7
<1>9. {u \in Tasks : <<t, u>> \in Exclusions
                     /\ [v \in Tasks |-> Status(v)][u] # "none"}
        = {u \in Tasks : <<t, u>> \in Exclusions /\ Status(u) # "none"}
  OBVIOUS
<1>10. Queue!Submit(t)
  BY <1>4, <1>6, <1>8, <1>9 DEF Queue!Submit, Queue!Become
<1> QED
  BY <1>10 DEF Queue!Next

(* Only its holder executes a task.                                        *)
LEMMA HolderExecutes ==
    ASSUME Inv, NEW p \in Procs, Holds(p)
    PROVE  /\ Executing(task[p]) <=> ExecutedBy(p, task[p])
           /\ \A q \in Procs : ExecutedBy(q, task[p]) => q = p
<1>1. ASSUME NEW q \in Procs, ExecutedBy(q, task[p]), q # p
      PROVE  FALSE
  BY <1>1, HeldTask DEF ExecutedBy, Holds, HoldPcs, ChildActive
<1> QED
  BY <1>1 DEF Executing

(* The steps by which a process advances the task it holds.                *)
LEMMA HolderAdvances ==
    ASSUME Inv, Inv', NEW p \in Procs, Moves(p), Holds(p), pc[p] # "insert",
           UNCHANGED prior, state'[task[p]] \in Visible,
           \A u \in Tasks : u # task[p] => state'[u] = state[u],
           \A u \in Tasks : ExecutedBy(p, u)' => u = task[p],
           ASSUME Executing(task[p]) <=> ExecutedBy(p, task[p]),
                  \A t \in Tasks : t = task[p]
                       => (Executing(t)' <=> ExecutedBy(p, t)')
           PROVE  \A t \in Tasks : t = task[p] => Advances(t)
    PROVE  [Queue!Next]_Queue!vars
<1>1. task[p] \in Tasks /\ state[task[p]] \in Visible
  BY HeldTask
<1>2. \A u \in Tasks : ExecutedBy(p, u) => u = task[p]
  BY DEF ExecutedBy
<1>3. \A u \in Tasks : u # task[p] => (Executing(u)' <=> Executing(u))
  BY <1>2, SameExecutions
<1>4. Executing(task[p]) <=> ExecutedBy(p, task[p])
  BY HolderExecutes
<1>5. ASSUME NEW t \in Tasks, t = task[p]
      PROVE  Executing(t)' <=> ExecutedBy(p, t)'
  BY <1>5, HolderExecutes DEF Moves, Executing, ExecutedBy
<1>6. \A t \in Tasks : t = task[p] => Advances(t)
  BY <1>4, <1>5
<1> QED
  BY <1>1, <1>3, <1>6, OneAdvances

-----------------------------------------------------------------------------
(* Insertions and their ends.                                              *)
LEMMA ClientStep ==
    ASSUME Inv, Inv', NEW t \in Tasks, Client(t)
    PROVE  [Queue!Next]_Queue!vars
<1>0. TypeOK /\ TypeOK'
  BY DEF Inv
<1>1. \A u \in Tasks : Executing(u)' <=> Executing(u)
  BY DEF Client, Insert, Commit, Rollback, procVars, supVars, Executing,
         ExecutedBy
<1>2. CASE Commit(t)
  BY <1>1, <1>2, CommitSubmits DEF Commit
<1>3. CASE Insert(t)
  <2>1. state[t] \notin Visible /\ state'[t] \notin Visible
    BY <1>3 DEF Insert, InsertRow, Inv, TypeOK, Visible, Incomplete, Final
  <2>2. \A u \in Tasks : u # t => state'[u] = state[u] /\ prior'[u] = prior[u]
    BY <1>3 DEF Insert, InsertRow, Inv, TypeOK
  <2> QED
    BY <1>0, <1>1, <2>1, <2>2, HiddenRow
<1>4. CASE Rollback(t)
  <2>1. state[t] \notin Visible /\ state'[t] \notin Visible
    BY <1>4 DEF Rollback, RollbackRow, Inv, TypeOK, Visible, Incomplete, Final
  <2>2. \A u \in Tasks : u # t => /\ state'[u] = state[u]
                                  /\ prior'[u] = prior[u] \ {t}
    BY <1>4 DEF Rollback, RollbackRow, Inv, TypeOK
  <2>3. \A u \in Tasks : Conflict(u, t) => t \notin prior[u]
    BY <1>4, ConflictProps DEF Rollback, RollbackRow, Inv, InsertOrder
  <2> QED
    BY <1>0, <1>1, <2>1, <2>2, <2>3, HiddenRow
<1> QED
  BY <1>2, <1>3, <1>4 DEF Client

(* dispatch() of an immediate task inserts a row that nobody sees before   *)
(* its transaction commits.                                                *)
LEMMA ApiInsertStep ==
    ASSUME Inv, Inv', NEW a \in Apis, NEW t \in Tasks, ApiInsert(a, t)
    PROVE  [Queue!Next]_Queue!vars
<1> USE DEF ApiInsert, InsertRow
<1>1. \A u \in Tasks : Executing(u)' <=> Executing(u)
  BY SameExecutions, ProcAssumption
     DEF supVars, Goto, Moves, ExecutedBy, Procs, Inv, TypeOK
<1>2. state[t] \notin Visible /\ state'[t] \notin Visible
  BY DEF Inv, TypeOK, Visible, Incomplete, Final
<1>3. \A u \in Tasks : u # t => state'[u] = state[u] /\ prior'[u] = prior[u]
  BY DEF Inv, TypeOK
<1> QED
  BY <1>1, <1>2, <1>3, HiddenRow DEF Inv

(* A rollback of dispatch() takes back a row that nobody has seen.         *)
LEMMA ApiRollbackStep ==
    ASSUME Inv, Inv', NEW a \in Apis, ApiRollback(a)
    PROVE  [Queue!Next]_Queue!vars
<1> DEFINE t == task[a]
<1> USE DEF ApiRollback, RollbackRow
<1>1. t \in Tasks
  BY HeldTask DEF Holds, HoldPcs, Procs
<1>2. \A u \in Tasks : Executing(u)' <=> Executing(u)
  BY SameExecutions, ProcAssumption
     DEF supVars, Free, Goto, Moves, ExecutedBy, Procs, Inv, TypeOK
<1>3. state[t] \notin Visible /\ state'[t] \notin Visible
  BY <1>1 DEF Inv, TypeOK, Visible, Incomplete, Final
<1>4. \A u \in Tasks : u # t => /\ state'[u] = state[u]
                                /\ prior'[u] = prior[u] \ {t}
  BY <1>1 DEF Inv, TypeOK
<1>5. \A u \in Tasks : Conflict(u, t) => t \notin prior[u]
  BY <1>1, ConflictProps DEF Inv, InsertOrder
<1> QED
  BY <1>1, <1>2, <1>3, <1>4, <1>5, HiddenRow DEF Inv

(* The commit of dispatch() submits the immediate task to the queue.       *)
LEMMA ApiCommitStep ==
    ASSUME Inv, Inv', NEW a \in Apis, ApiCommit(a)
    PROVE  [Queue!Next]_Queue!vars
<1>1. task[a] \in Tasks
  BY HeldTask DEF ApiCommit, Holds, HoldPcs, Procs
<1>2. \A u \in Tasks : Executing(u)' <=> Executing(u)
  BY SameExecutions, ProcAssumption
     DEF ApiCommit, supVars, Goto, Moves, ExecutedBy, Procs, Inv, TypeOK
<1> QED
  BY <1>1, <1>2, CommitSubmits DEF ApiCommit

-----------------------------------------------------------------------------
(* Steps that change neither rows nor executions.                          *)
LEMMA CancelUnseen ==
    ASSUME NEW t \in Tasks, CancelRead(t) \/ CancelTell(t) \/ CancelLost(t)
    PROVE  UNCHANGED Queue!vars
BY Unseen DEF CancelRead, CancelTell, CancelLost, rowVars, procVars, supVars

(* The queue does not see a worker's heart beats, unblocking and signals.  *)
LEMMA MaintainUnseen ==
    ASSUME NEW w \in Workers,
           \/ TakeCancel(w) \/ TakeStop(w) \/ Unblock(w)
           \/ Maintain(w) \/ RequestStop(w) \/ HeartbeatFails(w)
    PROVE  UNCHANGED Queue!vars
BY Unseen DEF TakeCancel, TakeStop, Unblock, UnblockTry, UnblockCommit,
   UnblockTell, Maintain, CleanupIgnored, Cleanup, RequestStop,
   HeartbeatFails, rowVars, procVars, supVars

(* Refreshing, checking the resources and unblocking within dispatch() are *)
(* not seen by the queue.                                                  *)
LEMMA DispatchUnseen ==
    ASSUME Inv, Inv', NEW a \in Apis,
           Refresh(a) \/ CheckResources(a) \/ UnblockNow(a) \/ ApiExit(a)
    PROVE  UNCHANGED Queue!vars
<1>1. \/ Refresh(a) \/ CheckResources(a) \/ UnblockNow(a)
      \/ ApiExit(a)
  OBVIOUS
<1>2. UNCHANGED <<state, prior, task, child>>
  BY <1>1 DEF Refresh, CheckResources, UnblockNow, ApiExit, rowVars, supVars
<1>3. \E label \in {"check", "unblock", "defer", "abandon", "execute", "dead"} :
         Goto(a, label)
  BY <1>1 DEF Refresh, CheckResources, UnblockNow, ApiExit
<1>4. a \in Procs /\ a \notin Workers /\ pc[a] # "run"
  BY <1>1, ProcAssumption
     DEF Procs, Refresh, CheckResources, UnblockNow, ApiExit
<1>5. Moves(a) /\ pc'[a] # "run"
  BY <1>2, <1>3, <1>4 DEF Goto, Moves, Inv, TypeOK
<1> QED
  BY <1>2, <1>4, <1>5, IdleStep DEF Idles

(* Defer writes the state that the row has.                                *)
LEMMA DeferStep ==
    ASSUME Inv, Inv', NEW a \in Apis, Defer(a)
    PROVE  UNCHANGED Queue!vars
<1> USE DEF Defer
<1>1. task[a] \in Tasks /\ task[a] \in Deferred
  BY HeldTask DEF Holds, HoldPcs, Procs, Inv, Dispatching, Dispatcher
<1>2. state[task[a]] = "waiting" /\ seen[a].state = "waiting"
  BY <1>1 DEF Inv, Dispatching, Dispatcher
<1>3. UNCHANGED <<state, prior>>
  BY <1>1, <1>2 DEF Inv, TypeOK
<1>4. a \in Procs /\ a \notin Workers
  BY ProcAssumption DEF Procs
<1>5. Moves(a) /\ pc[a] # "run" /\ pc'[a] # "run"
  BY <1>4 DEF Free, Goto, Moves, Inv, TypeOK, supVars
<1> QED
  BY <1>3, <1>4, <1>5, IdleStep DEF Idles

(* The queue does not see the steps of a worker around a task: starting,   *)
(* finding nothing to fetch, forking, joining the child, waking up, ending. *)
LEMMA WorkerUnseen ==
    ASSUME Inv, Inv', NEW w \in Workers,
           Start(w) \/ FetchNone(w) \/ FetchFails(w) \/ Spawn(w)
           \/ WakeUp(w) \/ Shutdown(w) \/ Join(w)
    PROVE  UNCHANGED Queue!vars
<1>1. UNCHANGED <<state, prior, task>>
  BY DEF Start, FetchNone, FetchFails, Spawn, WakeUp, Shutdown, Join, rowVars
<1>2. pc[w] \in {"off", "handle", "spawn", "sleep", "supervise"}
  BY DEF Start, FetchNone, FetchFails, Spawn, WakeUp, Shutdown, Join
<1>3. \E label \in {"handle", "sleep", "dead", "supervise", "wake", "abandon"} :
         Goto(w, label)
  BY DEF Start, FetchNone, FetchFails, Spawn, WakeUp, Shutdown, Join, Die
<1>4. child' = child \/ \E c \in {"starting", "none"} :
                           child' = [child EXCEPT ![w] = c]
  BY DEF Start, FetchNone, FetchFails, Spawn, WakeUp, Shutdown, Join, supVars
<1>5. w \in Procs
  BY DEF Procs
<1>6. Moves(w)
  BY <1>1, <1>3, <1>4 DEF Goto, Moves, Inv, TypeOK
<1>7. child[w] # "running"
  <2>1. pc[w] = "supervise" => child[w] \in {"ok", "error"}
    BY DEF Start, FetchNone, FetchFails, Spawn, WakeUp, Shutdown, Join
  <2> QED
    BY <1>2, <2>1 DEF Inv, Control, ChildActive
<1>8. pc'[w] # "run" /\ child'[w] # "running"
  BY <1>3, <1>4, <1>5, <1>7 DEF Goto, Inv, TypeOK
<1> QED
  BY <1>1, <1>2, <1>5, <1>6, <1>7, <1>8, IdleStep DEF Idles

(* The queue does not see fetch_task() claim a task: app_lock only changes. *)
LEMMA ClaimUnseen ==
    ASSUME Inv, Inv', NEW w \in Workers, NEW t \in Tasks,
           ClaimAbandoned(w, t) \/ ClaimWaiting(w, t) \/ ClaimIgnored(w, t)
    PROVE  UNCHANGED Queue!vars
<1>1. Claim(w, t)
  BY DEF ClaimAbandoned, ClaimWaiting, ClaimIgnored
<1>2. /\ UNCHANGED <<state, prior, child>>
      /\ task' = [task EXCEPT ![w] = t]
      /\ pc[w] = "handle"
  BY <1>1 DEF Claim
<1>3. \E label \in {"abandon", "execute", "spawn", "release"} : Goto(w, label)
  BY DEF ClaimAbandoned, ClaimWaiting, ClaimIgnored
<1>4. w \in Procs
  BY DEF Procs
<1>5. Moves(w) /\ pc'[w] # "run"
  BY <1>2, <1>3, <1>4 DEF Goto, Moves, Inv, TypeOK
<1>6. child[w] # "running"
  BY <1>2 DEF Inv, Control, ChildActive
<1> QED
  BY <1>2, <1>4, <1>5, <1>6, IdleStep DEF Idles

(* The queue does not see a worker give the lock back after its task.      *)
LEMMA ReleaseUnseen ==
    ASSUME Inv, Inv', NEW w \in Workers, Release(w)
    PROVE  UNCHANGED Queue!vars
<1>1. /\ UNCHANGED <<state, prior, child>>
      /\ task' = [task EXCEPT ![w] = NoTask]
      /\ pc[w] \in {"release", "raise"}
  BY DEF Release
<1>2. \E label \in {"handle", "dead"} : Goto(w, label)
  BY DEF Release, Die
<1>3. w \in Procs
  BY DEF Procs
<1>4. Moves(w) /\ pc'[w] # "run"
  BY <1>1, <1>2, <1>3 DEF Goto, Moves, Inv, TypeOK
<1>5. child[w] # "running"
  BY <1>1 DEF Inv, Control, ChildActive
<1> QED
  BY <1>1, <1>3, <1>4, <1>5, IdleStep DEF Idles

(* The queue does not see the announcement that resources are free again.  *)
LEMMA WakeUnseen ==
    ASSUME Inv, Inv', NEW p \in Procs, Wake(p)
    PROVE  UNCHANGED Queue!vars
<1>1. UNCHANGED <<state, prior, child>> /\ pc[p] = "wake"
  BY DEF Wake, rowVars, supVars
<1>2. /\ \E label \in {"release", "idle"} : Goto(p, label)
      /\ task' = task \/ task' = [task EXCEPT ![p] = NoTask]
  BY DEF Wake, Free
<1>3. Moves(p) /\ pc'[p] # "run"
  BY <1>1, <1>2 DEF Goto, Moves, Inv, TypeOK
<1>4. p \in Workers => child[p] # "running"
  BY <1>1 DEF Inv, Control, ChildActive
<1> QED
  BY <1>1, <1>3, <1>4, IdleStep DEF Idles

-----------------------------------------------------------------------------
(* Steps that advance a task.  A user cancels it: what waits is aborted,   *)
(* and what runs goes on for the time being.                               *)
LEMMA CancelSetStep ==
    ASSUME Inv, Inv', NEW t \in Tasks, CancelSet(t)
    PROVE  [Queue!Next]_Queue!vars
<1> USE DEF CancelSet
<1>1. \A u \in Tasks : Executing(u)' <=> Executing(u)
  BY DEF procVars, supVars, Executing, ExecutedBy
<1>2. \A u \in Tasks : u # t => state'[u] = state[u]
  BY DEF Inv, TypeOK
<1>3. CASE state'[t] = state[t]
  <2>1. UNCHANGED <<state, prior>>
    BY <1>2, <1>3 DEF Inv, TypeOK
  <2> QED
    BY <1>1, <2>1, SameRows
<1>4. CASE state'[t] # state[t]
  <2>1. /\ state[t] \in {"waiting", "running"} /\ state'[t] = "canceling"
        /\ state[t] \in Visible /\ state'[t] \in Visible
    BY <1>4 DEF Inv, TypeOK, Incomplete, Visible
  <2>2. Executing(t) => state[t] # "waiting"
    BY <2>1 DEF Inv, Running, Executing
  <2>3. Advances(t)
    BY <1>1, <2>1, <2>2 DEF Advances, Status, Visible, Final
  <2> QED
    BY <1>1, <1>2, <2>1, <2>3, OneAdvances
<1> QED
  BY <1>3, <1>4

(* set_running() begins the task, or finds it canceled or taken away.      *)
LEMMA SetRunningStep ==
    ASSUME Inv, Inv', NEW p \in Procs, SetRunning(p)
    PROVE  [Queue!Next]_Queue!vars
<1> USE DEF SetRunning
<1>1. Holds(p) /\ pc[p] = "execute" /\ task[p] \in Tasks /\ unblocked[task[p]]
  BY HeldTask DEF Holds, HoldPcs, Inv, Running
<1>2. Moves(p)
  BY DEF Moves, Raise, Free, Goto, supVars, Inv, TypeOK
<1>3. ~ChildActive(p) \/ p \notin Workers
  BY <1>1 DEF Inv, Control
<1>4. \A u \in Tasks : ~ExecutedBy(p, u)
  BY <1>1, <1>3 DEF ExecutedBy, ChildActive
<1>5. CASE state[task[p]] = "waiting" /\ appLock[task[p]] = p
  <2>1. /\ state'[task[p]] = "running"
        /\ \A u \in Tasks : u # task[p] => state'[u] = state[u]
        /\ ExecutedBy(p, task[p])'
        /\ task'[p] = task[p]
    BY <1>1, <1>5 DEF Goto, ExecutedBy, Inv, TypeOK
  <2>2. Clear(task[p])
    BY <1>1, <1>5 DEF Inv, Unblocking
  <2>3. \A u \in Tasks : ExecutedBy(p, u)' => u = task[p]
    BY <2>1 DEF ExecutedBy
  <2>4. ASSUME Executing(task[p]) <=> ExecutedBy(p, task[p]),
               \A t \in Tasks : t = task[p]
                    => (Executing(t)' <=> ExecutedBy(p, t)')
        PROVE  \A t \in Tasks : t = task[p] => Advances(t)
    BY <1>1, <1>4, <1>5, <2>1, <2>2, <2>4
       DEF Advances, Status, Visible, Incomplete, Final, ExecutedBy
  <2> QED
    BY <1>1, <1>2, <2>1, <2>3, <2>4, HolderAdvances DEF Visible, Incomplete
<1>6. CASE ~(state[task[p]] = "waiting" /\ appLock[task[p]] = p)
  <2>1. UNCHANGED <<state, prior>>
    BY <1>6
  <2>2. \A u \in Tasks : ~ExecutedBy(p, u)'
    BY <1>1, <1>3, <1>6 DEF Raise, Free, Goto, ExecutedBy, ChildActive, supVars,
       Inv, TypeOK
  <2> QED
    BY <1>2, <1>4, <2>1, <2>2, IdleMove
<1> QED
  BY <1>5, <1>6

(* A task that was canceled while its function ran is aborted when that    *)
(* returns; all others end.                                                *)
LEMMA FinishStep ==
    ASSUME Inv, Inv', NEW p \in Procs, Finish(p)
    PROVE  [Queue!Next]_Queue!vars
<1> USE DEF Finish
<1>1. Holds(p) /\ pc[p] = "run" /\ task[p] \in Tasks
  BY HeldTask DEF Holds, HoldPcs
<1>2. Moves(p)
  BY DEF Moves, Raise, Free, Goto, supVars, Inv, TypeOK
<1>3. \A u \in Tasks : ~ExecutedBy(p, u)'
  BY <1>1 DEF Inv, Control, ExecutedBy, ChildActive, Raise, Free, Goto,
     supVars, TypeOK
<1>4. ExecutedBy(p, task[p]) /\ state[task[p]] \in {"running", "canceling"}
  BY <1>1 DEF ExecutedBy, Inv, Running
<1>5. \A u \in Tasks : u # task[p] => state'[u] = state[u]
  BY DEF Inv, TypeOK
<1>6. state'[task[p]] \in Final \/ state'[task[p]] = state[task[p]]
  BY <1>1 DEF Inv, TypeOK, Final
<1>7. ASSUME Executing(task[p]) <=> ExecutedBy(p, task[p]),
             \A t \in Tasks : t = task[p]
                  => (Executing(t)' <=> ExecutedBy(p, t)')
      PROVE  \A t \in Tasks : t = task[p] => Advances(t)
  BY <1>3, <1>4, <1>6, <1>7 DEF Advances, Status, Visible, Incomplete, Final
<1> QED
  BY <1>1, <1>2, <1>3, <1>4, <1>5, <1>6, <1>7, HolderAdvances
     DEF Visible, Incomplete

(* The two halves of cancel_abandoned_task().                              *)
LEMMA AbandonStep ==
    ASSUME Inv, Inv', NEW p \in Procs, SetCanceling(p) \/ SetCanceled(p)
    PROVE  [Queue!Next]_Queue!vars
<1>1. Holds(p) /\ pc[p] \in {"abandon", "finalize"} /\ task[p] \in Tasks
  BY HeldTask DEF Holds, HoldPcs, SetCanceling, SetCanceled
<1>2. Moves(p)
  BY DEF SetCanceling, SetCanceled, Moves, Raise, Free, Goto, supVars, Inv,
     TypeOK
<1>3. \A u \in Tasks : ~ExecutedBy(p, u) /\ ~ExecutedBy(p, u)'
  BY <1>1 DEF SetCanceling, SetCanceled, Inv, Control, ExecutedBy,
     ChildActive, Raise, Free, Goto, supVars, TypeOK
<1>4. \A u \in Tasks : u # task[p] => state'[u] = state[u]
  BY DEF SetCanceling, SetCanceled, Inv, TypeOK
<1>5. state[task[p]] \in Visible
  BY <1>1, HeldTask
<1>6. FinalState(p) \in Final
  BY <1>1 DEF FinalState, Inv, TypeOK, Control, Final
<1>7. \/ state'[task[p]] = state[task[p]]
      \/ state[task[p]] \in Incomplete /\ state'[task[p]] = "canceling"
      \/ state[task[p]] = "canceling" /\ state'[task[p]] \in Final
  BY <1>1, <1>6 DEF SetCanceling, SetCanceled, Inv, TypeOK
<1>8. ASSUME Executing(task[p]) <=> ExecutedBy(p, task[p]),
             \A t \in Tasks : t = task[p]
                  => (Executing(t)' <=> ExecutedBy(p, t)')
      PROVE  \A t \in Tasks : t = task[p] => Advances(t)
  BY <1>3, <1>5, <1>7, <1>8 DEF Advances, Status, Visible, Incomplete, Final
<1>9. UNCHANGED prior /\ state'[task[p]] \in Visible
  BY <1>5, <1>7 DEF SetCanceling, SetCanceled, Visible, Incomplete
<1> QED
  BY <1>1, <1>2, <1>3, <1>4, <1>8, <1>9, HolderAdvances

(* The child of a worker takes the row from waiting to running and on.     *)
LEMMA ChildSetRunningStep ==
    ASSUME Inv, Inv', NEW w \in Workers, ChildSetRunning(w)
    PROVE  [Queue!Next]_Queue!vars
<1> USE DEF ChildSetRunning
<1>1. /\ w \in Procs /\ Holds(w) /\ pc[w] \in {"supervise", "dead"}
      /\ child[w] = "starting" /\ task[w] \in Tasks /\ unblocked[task[w]]
      /\ appLock[task[w]] = w
  BY HeldTask DEF Procs, Holds, ChildActive, Inv, Control, Running
<1>2. Moves(w)
  BY DEF Moves, procVars, Inv, TypeOK
<1>3. \A u \in Tasks : ~ExecutedBy(w, u)
  BY <1>1 DEF ExecutedBy
<1>4. CASE state[task[w]] = "waiting"
  <2>1. /\ state'[task[w]] = "running"
        /\ \A u \in Tasks : u # task[w] => state'[u] = state[u]
        /\ ExecutedBy(w, task[w])'
        /\ task'[w] = task[w]
    BY <1>1, <1>4 DEF ExecutedBy, procVars, Inv, TypeOK
  <2>2. Clear(task[w])
    BY <1>1, <1>4 DEF Inv, Unblocking
  <2>3. \A u \in Tasks : ExecutedBy(w, u)' => u = task[w]
    BY <2>1 DEF ExecutedBy
  <2>4. ASSUME Executing(task[w]) <=> ExecutedBy(w, task[w]),
               \A t \in Tasks : t = task[w]
                    => (Executing(t)' <=> ExecutedBy(w, t)')
        PROVE  \A t \in Tasks : t = task[w] => Advances(t)
    BY <1>1, <1>3, <1>4, <2>1, <2>2, <2>4
       DEF Advances, Status, Visible, Incomplete, Final, ExecutedBy
  <2> QED
    BY <1>1, <1>2, <2>1, <2>3, <2>4, HolderAdvances DEF Visible, Incomplete
<1>5. CASE state[task[w]] # "waiting"
  <2>1. UNCHANGED <<state, prior>>
    BY <1>5
  <2>2. \A u \in Tasks : ~ExecutedBy(w, u)'
    BY <1>1, <1>5 DEF ExecutedBy, procVars, Inv, TypeOK
  <2> QED
    BY <1>1, <1>2, <1>3, <2>1, <2>2, IdleMove
<1> QED
  BY <1>4, <1>5

(* The child of a worker ends the task as it returns, or aborts it.        *)
LEMMA ChildFinishStep ==
    ASSUME Inv, Inv', NEW w \in Workers, ChildFinish(w)
    PROVE  [Queue!Next]_Queue!vars
<1> USE DEF ChildFinish
<1>1. /\ w \in Procs /\ Holds(w) /\ pc[w] \in {"supervise", "dead"}
      /\ child[w] = "running" /\ task[w] \in Tasks
  BY HeldTask DEF Procs, Holds, ChildActive, Inv, Control
<1>2. Moves(w)
  BY DEF Moves, procVars, Inv, TypeOK
<1>3. \A u \in Tasks : ~ExecutedBy(w, u)'
  BY <1>1 DEF ExecutedBy, procVars, Inv, TypeOK
<1>4. ExecutedBy(w, task[w]) /\ state[task[w]] \in {"running", "canceling"}
  BY <1>1 DEF ExecutedBy, Inv, Running
<1>5. \A u \in Tasks : u # task[w] => state'[u] = state[u]
  BY DEF Inv, TypeOK
<1>6. state'[task[w]] \in Final \/ state'[task[w]] = state[task[w]]
  BY <1>1 DEF Inv, TypeOK, Final
<1>7. ASSUME Executing(task[w]) <=> ExecutedBy(w, task[w]),
             \A t \in Tasks : t = task[w]
                  => (Executing(t)' <=> ExecutedBy(w, t)')
      PROVE  \A t \in Tasks : t = task[w] => Advances(t)
  BY <1>3, <1>4, <1>6, <1>7 DEF Advances, Status, Visible, Incomplete, Final
<1> QED
  BY <1>1, <1>2, <1>3, <1>4, <1>5, <1>6, <1>7, HolderAdvances
     DEF Visible, Incomplete

(* A process or a child that dies, or is killed, aborts what it executes.  *)
LEMMA DeathStep ==
    ASSUME Inv, Inv', NEW p \in Procs,
           \/ p \in Workers /\ (Crash(p) \/ Kill(p) \/ ChildDies(p))
           \/ p \in Apis /\ ApiCrash(p)
    PROVE  [Queue!Next]_Queue!vars
<1>1. Moves(p) /\ UNCHANGED <<state, prior, task>>
  BY ProcAssumption
     DEF Crash, Kill, ChildDies, ApiCrash, Die, Goto, Moves, rowVars,
         procVars, supVars, Inv, TypeOK
<1>2. \A u \in Tasks : ExecutedBy(p, u)' => ExecutedBy(p, u)
  BY ProcAssumption
     DEF Crash, Kill, ChildDies, ApiCrash, Die, Goto, ExecutedBy, rowVars,
         procVars, supVars, Inv, TypeOK
<1>3. CASE \A u \in Tasks : ~ExecutedBy(p, u)
  BY <1>1, <1>2, <1>3, IdleMove
<1>4. ASSUME NEW t \in Tasks, ExecutedBy(p, t)
      PROVE  [Queue!Next]_Queue!vars
  <2>1. /\ Holds(p) /\ pc[p] # "insert" /\ task[p] = t
        /\ state[t] \in {"running", "canceling"}
    BY <1>4 DEF ExecutedBy, Holds, HoldPcs, ChildActive, Inv, Running, Control
  <2>2. ASSUME Executing(task[p]) <=> ExecutedBy(p, task[p]),
               \A u \in Tasks : u = task[p]
                    => (Executing(u)' <=> ExecutedBy(p, u)')
        PROVE  \A u \in Tasks : u = task[p] => Advances(u)
    BY <1>1, <1>4, <2>1, <2>2 DEF Advances, Status, Visible, Incomplete, Final
  <2>3. \A u \in Tasks : ExecutedBy(p, u)' => u = task[p]
    BY <1>2 DEF ExecutedBy
  <2> QED
    BY <1>1, <2>1, <2>2, <2>3, HolderAdvances DEF Visible, Incomplete
<1> QED
  BY <1>3, <1>4

-----------------------------------------------------------------------------
(* Every step of the code is a step of the queue, or not seen by it.       *)
LEMMA NextStep ==
    ASSUME Inv, Inv', Next
    PROVE  [Queue!Next]_Queue!vars
<1>1. ASSUME NEW t \in Tasks, Client(t) \/ Cancel(t)
      PROVE  [Queue!Next]_Queue!vars
  BY <1>1, ClientStep, CancelSetStep, CancelUnseen DEF Cancel
<1>2. ASSUME NEW p \in Procs, Execute(p)
      PROVE  [Queue!Next]_Queue!vars
  BY <1>2, SetRunningStep, FinishStep, WakeUnseen, AbandonStep DEF Execute
<1>3. ASSUME NEW a \in Apis, Dispatch(a)
      PROVE  [Queue!Next]_Queue!vars
  BY <1>3, ApiInsertStep, ApiRollbackStep, ApiCommitStep, DispatchUnseen,
     DeferStep
     DEF Dispatch
<1>4. ASSUME NEW w \in Workers, Worker(w)
      PROVE  [Queue!Next]_Queue!vars
  <2>1. CASE Fetch(w)
    BY <2>1, ClaimUnseen, WorkerUnseen DEF Fetch
  <2>2. CASE Supervise(w) \/ Child(w)
    BY <2>2, WorkerUnseen, MaintainUnseen, DeathStep, ChildSetRunningStep,
       ChildFinishStep
       DEF Supervise, Child, Procs
  <2>3. CASE Unblock(w) \/ Maintain(w)
    BY <2>3, MaintainUnseen
  <2>4. CASE Start(w) \/ Release(w) \/ WakeUp(w) \/ Shutdown(w)
    BY <2>4, WorkerUnseen, ReleaseUnseen
  <2> QED
    BY <1>4, <2>1, <2>2, <2>3, <2>4 DEF Worker
<1>5. CASE Fault
  BY <1>5, MaintainUnseen, DeathStep, DispatchUnseen DEF Fault, Procs
<1> QED
  BY <1>1, <1>2, <1>3, <1>4, <1>5, ProcAssumption DEF Next

(* dispatch() promises a queue, and the table, the advisory locks, the     *)
(* workers with their children and the API processes together are one: a   *)
(* task is begun once, when all that excludes it and was inserted before   *)
(* has ended, and what has ended stays so, whatever processes crash.       *)
THEOREM Implementation ==
    ASSUME Timely, NoStaleSave
    PROVE  Spec => ImplementsQueue
<1>1. Init => Queue!Init
  <2>1. ASSUME Init, NEW t \in Tasks
        PROVE  Status(t) = "none" /\ Ahead(t) = {}
    BY <2>1 DEF Init, Status, Ahead, Visible, Incomplete, Final
  <2> QED
    BY <2>1 DEF Queue!Init
<1>2. Inv /\ Inv' /\ [Next]_vars => [Queue!Next]_Queue!vars
  <2>1. ASSUME UNCHANGED vars
        PROVE  UNCHANGED Queue!vars
    BY <2>1, Unseen DEF vars, rowVars, procVars, supVars
  <2> QED
    BY <2>1, NextStep
<1> QED
  BY <1>1, <1>2, Invariance, PTL DEF Spec, Queue!Spec, ImplementsQueue

-----------------------------------------------------------------------------
(* What a step may do to the row of a task.                                *)
Advance(t) == state'[t] # state[t] => <<state[t], state'[t]>> \in Transitions

(* execute_task() and cancel_abandoned_task() advance the row of one task  *)
(* only along the transitions of the docstring.                            *)
LEMMA ExecuteAdvance ==
    ASSUME Inv, NEW p \in Procs, Execute(p), NEW t \in Tasks
    PROVE  Advance(t)
<1>1. CASE SetRunning(p) \/ Finish(p) \/ Wake(p)
  BY <1>1 DEF SetRunning, Finish, Wake, rowVars, Advance, Transitions, Inv,
     TypeOK
<1>2. CASE SetCanceling(p) \/ SetCanceled(p)
  <2>1. pc[p] = "finalize" => FinalState(p) \in {"canceled", "failed"}
    BY DEF FinalState, Inv, TypeOK, Control
  <2> QED
    BY <1>2, <2>1 DEF SetCanceling, SetCanceled, Advance, Transitions, Inv,
       TypeOK, Incomplete
<1> QED
  BY <1>1, <1>2 DEF Execute

(* dispatch() inserts rows and takes insertions back; its deferral leaves  *)
(* the state as it is.                                                     *)
LEMMA DispatchAdvance ==
    ASSUME Inv, NEW a \in Apis, Dispatch(a), NEW t \in Tasks
    PROVE  Advance(t)
<1>1. CASE Defer(a)
  <2>1. task[a] \in Deferred
    BY <1>1, HeldTask DEF Defer, Inv, Dispatching, Dispatcher
  <2>2. state[task[a]] = "waiting" /\ seen[a].state = "waiting"
    BY <1>1, <2>1 DEF Defer, Inv, Dispatching, Dispatcher
  <2> QED
    BY <1>1, <2>2 DEF Defer, Advance, Inv, TypeOK
<1>2. CASE \/ \E u \in Tasks : ApiInsert(a, u)
           \/ ApiRollback(a) \/ ApiCommit(a)
  BY <1>2 DEF ApiInsert, InsertRow, ApiRollback, RollbackRow, ApiCommit,
     CommitRow, Advance, Transitions, Inv, TypeOK
<1>3. CASE Refresh(a) \/ CheckResources(a) \/ UnblockNow(a)
  BY <1>3 DEF Refresh, CheckResources, UnblockNow, rowVars, Advance
<1> QED
  BY <1>1, <1>2, <1>3 DEF Dispatch

(* Of a worker's steps only those of its child touch the state of a row.   *)
LEMMA WorkerAdvance ==
    ASSUME Inv, NEW w \in Workers, Worker(w), NEW t \in Tasks
    PROVE  Advance(t)
<1>1. CASE Fetch(w)
  BY <1>1 DEF Fetch, ClaimAbandoned, ClaimWaiting, ClaimIgnored, Claim,
     FetchNone, FetchFails, rowVars, Advance
<1>2. CASE Supervise(w)
  BY <1>2 DEF Supervise, Spawn, TakeCancel, TakeStop, Kill, Join, rowVars,
     Advance
<1>3. CASE Child(w)
  BY <1>3 DEF Child, ChildSetRunning, ChildFinish, Advance, Transitions, Inv,
     TypeOK
<1>4. CASE Unblock(w) \/ Maintain(w) \/ Shutdown(w)
  BY <1>4 DEF Unblock, UnblockTry, UnblockCommit, UnblockTell, Maintain,
     Cleanup, CleanupIgnored, Shutdown, rowVars, Advance
<1>5. CASE Start(w) \/ Release(w) \/ WakeUp(w)
  BY <1>5 DEF Start, Release, WakeUp, rowVars, Advance
<1> QED
  BY <1>1, <1>2, <1>3, <1>4, <1>5 DEF Worker

(* Every step of the code moves all rows along those transitions only.     *)
LEMMA NextAdvance ==
    ASSUME Inv, Next
    PROVE  \A t \in Tasks : Advance(t)
<1>1. ASSUME NEW u \in Tasks, Client(u) \/ Cancel(u), NEW t \in Tasks
      PROVE  Advance(t)
  BY <1>1 DEF Client, Insert, InsertRow, Commit, CommitRow, Rollback,
     RollbackRow, Cancel, CancelRead, CancelSet, CancelTell, CancelLost,
     rowVars, Advance, Transitions, Incomplete, Inv, TypeOK
<1>2. CASE Fault
  BY <1>2 DEF Fault, RequestStop, Crash, ChildDies, HeartbeatFails, ApiCrash,
     ApiExit, rowVars, Advance
<1> QED
  BY <1>1, <1>2, ExecuteAdvance, DispatchAdvance, WorkerAdvance DEF Next

(* What has become of the row of a task is never taken back: the setters   *)
(* of Task, dispatch(), the workers and their children change a state only *)
(* along the transitions of the docstring of Task.                         *)
THEOREM RowsAdvance ==
    ASSUME Timely, NoStaleSave
    PROVE  Spec => Lifecycle
<1>1. Inv /\ [Next]_vars => [\A t \in Tasks : state'[t] # state[t] =>
                    <<state[t], state'[t]>> \in Transitions]_vars
  BY NextAdvance DEF Advance
<1> QED
  BY <1>1, Invariance, PTL DEF Spec, Lifecycle
=============================================================================
