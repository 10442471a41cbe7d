------------------------------- MODULE Tasking -------------------------------
(***************************************************************************)
(* The PostgreSQL tasking system of pulpcore: dispatch() and cancel_task() *)
(* in tasking/tasks.py, the setters of the Task row in app/models/task.py, *)
(* the insert trigger of core_task, the worker loop of tasking/worker.py   *)
(* and the child process that runs a task (tasking/_util.py).              *)
(*                                                                         *)
(* Every action is one statement or one transaction of the database, or a  *)
(* step of one process between two of them; what a process remembers       *)
(* across two statements is a variable, because it may be stale by then.   *)
(***************************************************************************)
EXTENDS FiniteSets

CONSTANTS
    Tasks,       \* the tasks that may be dispatched
    Workers,     \* worker processes; a restarted worker is another element
    Apis,        \* API processes, each serving one request at a time
    Resources,   \* what tasks reserve
    Exclusive,   \* task -> the resources it reserves exclusively
    Shared,      \* task -> the resources it reserves as "shared:"
    Immediate,   \* the tasks dispatched with immediate=True
    ExecuteNow,  \* the immediate ones not dispatched from the content app
    Deferred,    \* the tasks dispatched with deferred=True
    Cancelable,  \* the tasks a user may ask to cancel
    Compatible,  \* worker -> the tasks whose versions it provides
    Auxiliary,   \* the workers that never unblock nor clean up
    Mortal,      \* the processes that may be stopped, killed or cut off
    Timely,      \* a row is only found missing when its process is gone
    NoProc,      \* app_lock IS NULL
    NoTask

Procs == Workers \cup Apis

(* The two spaces of identifiers and the reservations are well formed.     *)
ASSUME ProcAssumption ==
    /\ Workers \cap Apis = {}
    /\ NoProc \notin Procs
    /\ NoTask \notin Tasks
    /\ Mortal \subseteq Procs
    /\ Auxiliary \subseteq Workers
    /\ Timely \in BOOLEAN

(* dispatch() asserts that a task is deferred or immediate, and only an    *)
(* immediate one is executed by its dispatcher.                            *)
ASSUME TaskAssumption ==
    /\ Exclusive \in [Tasks -> SUBSET Resources]
    /\ Shared \in [Tasks -> SUBSET Resources]
    /\ ExecuteNow \subseteq Immediate
    /\ Immediate \subseteq Tasks
    /\ Deferred \subseteq Tasks
    /\ Tasks = Deferred \cup Immediate
    /\ Cancelable \subseteq Tasks
    /\ Compatible \in [Workers -> SUBSET Tasks]

VARIABLES
    state,       \* task -> Task.state; "absent", "inserting": no visible row
    prior,       \* task -> the tasks with an earlier pulp_created
    unblocked,   \* task -> unblocked_at is set
    appLock,     \* task -> Task.app_lock
    cancelReq,   \* task -> how far a cancel_task() call for it has come
    registered,  \* the processes that have an AppStatus row
    pc,          \* process -> where its code is
    task,        \* process -> the task it holds
    seen,        \* API process -> the row as dispatch() refreshed it
    child,       \* worker -> the process that executes its task
    stop,        \* worker -> shutdown_requested and task_grace_timeout
    cancelFlag,  \* worker -> self.cancel_task
    cancelState, \* worker -> cancel_state of supervise_task
    wakeHandle,  \* the workers with wakeup_handle set
    wakeUnblock, \* the workers with wakeup_unblock set
    unblocker,   \* the worker that holds TASK_UNBLOCKING_LOCK
    found,       \* the tasks its transaction is about to mark unblocked
    telling,     \* the workers about to announce unblocked tasks
    ignored      \* worker -> ignored_task_ids

rowVars  == <<state, prior, unblocked, appLock>>
procVars == <<registered, pc, task, seen>>
supVars  == <<child, stop, cancelFlag, cancelState, ignored>>
wakeVars == <<wakeHandle, wakeUnblock>>
scanVars == <<unblocker, found, telling>>

vars == <<rowVars, cancelReq, procVars, supVars, wakeVars, scanVars>>

-----------------------------------------------------------------------------
Incomplete == {"waiting", "running", "canceling"}
Final      == {"completed", "failed", "canceled"}
Visible    == Incomplete \cup Final

ApiPcs    == {"idle", "insert", "refresh", "check", "unblock", "execute",
              "run", "wake", "defer", "abandon", "finalize", "dead"}
WorkerPcs == {"off", "handle", "spawn", "supervise", "execute", "run",
              "wake", "release", "abandon", "finalize", "raise", "sleep",
              "dead"}

(* Two reservations exclude each other when one of them is exclusive.      *)
Conflict(t, u) ==
    /\ t # u
    /\ \/ Exclusive[t] \cap (Exclusive[u] \cup Shared[u]) # {}
       \/ Shared[t] \cap Exclusive[u] # {}

Reserved(t) == Exclusive[t] \cup Shared[t]

(* Mutant: the trigger locks what is reserved exclusively only.            *)
OverlapExclusive(t, u) == Exclusive[t] \cap Exclusive[u] # {}

(* The insert trigger locks every resource by name, shared or not.         *)
Overlap(t, u) == Reserved(t) \cap Reserved(u) # {}

(* Mutant: a task that is being canceled blocks nobody.                    *)
BlockersActive(t) ==
    {u \in prior[t] : state[u] \in {"waiting", "running"} /\ Conflict(t, u)}

(* Mutant: only tasks that are still waiting block others.                 *)
BlockersWaiting(t) ==
    {u \in prior[t] : state[u] = "waiting" /\ Conflict(t, u)}

(* Earlier incomplete tasks whose reservation excludes that of t: what     *)
(* are_resources_available() looks for, and what the loop of               *)
(* _unblock_tasks() has in its taken sets when it comes to t.              *)
Blockers(t) == {u \in prior[t] : state[u] \in Incomplete /\ Conflict(t, u)}

(* Mutant: app_lock_id IS NULL is forgotten.                               *)
ClaimableLocked == {t \in Tasks : state[t] \in Incomplete /\ unblocked[t]}

(* Mutant: unblocked_at IS NOT NULL is forgotten.                          *)
ClaimableBlocked ==
    {t \in Tasks : state[t] \in Incomplete /\ appLock[t] = NoProc}

(* Rows a worker may claim, and those the unblocking query would mark.     *)
Claimable == {t \in Tasks : /\ state[t] \in Incomplete
                            /\ unblocked[t]
                            /\ appLock[t] = NoProc}

(* Mutant: reservations are ignored.                                       *)
UnblockableAll == {t \in Tasks : state[t] \in Incomplete /\ ~unblocked[t]}

(* Mutant: canceled tasks are not unblocked.                               *)
UnblockableUncanceled ==
    {t \in Tasks : /\ ~unblocked[t]
                   /\ \/ state[t] = "running"
                      \/ state[t] = "waiting" /\ Blockers(t) = {}}

Unblockable ==
    {t \in Tasks : /\ ~unblocked[t]
                   /\ \/ state[t] \in {"running", "canceling"}
                      \/ state[t] = "waiting" /\ Blockers(t) = {}}

Main == {w \in Workers : pc[w] \notin {"off", "dead"}}

(* Mutant: the notification sets no flag.                                  *)
NotifyNobody == UNCHANGED wakeHandle

(* NOTIFY pulp_worker_wakeup: the flags the notification handler sets.     *)
NotifyHandle == wakeHandle' = wakeHandle \cup Main
NotifyUnblock == wakeUnblock' = wakeUnblock \cup (Main \ Auxiliary)

TypeOK ==
    /\ state \in [Tasks -> Visible \cup {"absent", "inserting"}]
    /\ prior \in [Tasks -> SUBSET Tasks]
    /\ unblocked \in [Tasks -> BOOLEAN]
    /\ appLock \in [Tasks -> Procs \cup {NoProc}]
    /\ cancelReq \in [Tasks -> {"no", "free", "locked", "tell_free",
                                "tell_locked"}]
    /\ registered \subseteq Procs
    /\ pc \in [Procs -> ApiPcs \cup WorkerPcs]
    /\ task \in [Procs -> Tasks \cup {NoTask}]
    /\ seen \in [Apis -> [state : Visible, unblocked : BOOLEAN]]
    /\ child \in [Workers -> {"none", "starting", "running", "ok", "error"}]
    /\ stop \in [Workers -> {"no", "graceful", "fast"}]
    /\ cancelFlag \in [Workers -> BOOLEAN]
    /\ cancelState \in [Workers -> {"no", "canceled", "failed"}]
    /\ wakeHandle \subseteq Workers
    /\ wakeUnblock \subseteq Workers
    /\ unblocker \in Workers \cup {NoProc}
    /\ found \subseteq Tasks
    /\ telling \subseteq Workers
    /\ ignored \in [Workers -> SUBSET Tasks]

Init ==
    /\ state = [t \in Tasks |-> "absent"]
    /\ prior = [t \in Tasks |-> {}]
    /\ unblocked = [t \in Tasks |-> FALSE]
    /\ appLock = [t \in Tasks |-> NoProc]
    /\ cancelReq = [t \in Tasks |-> "no"]
    /\ registered = Apis
    /\ pc = [p \in Procs |-> IF p \in Workers THEN "off" ELSE "idle"]
    /\ task = [p \in Procs |-> NoTask]
    /\ seen = [a \in Apis |-> [state |-> "waiting", unblocked |-> FALSE]]
    /\ child = [w \in Workers |-> "none"]
    /\ stop = [w \in Workers |-> "no"]
    /\ cancelFlag = [w \in Workers |-> FALSE]
    /\ cancelState = [w \in Workers |-> "no"]
    /\ wakeHandle = {}
    /\ wakeUnblock = {}
    /\ unblocker = NoProc
    /\ found = {}
    /\ telling = {}
    /\ ignored = [w \in Workers |-> {}]

Goto(p, label) == pc' = [pc EXCEPT ![p] = label]

Free(a) == Goto(a, "idle") /\ task' = [task EXCEPT ![a] = NoTask]

(* An exception: an API process answers 500, a worker unwinds its stack.   *)
Raise(p) ==
    IF p \in Workers THEN Goto(p, "raise") /\ UNCHANGED task ELSE Free(p)

-----------------------------------------------------------------------------
(***************************************************************************)
(* Inserting the row.  The trigger takes the advisory locks of all         *)
(* resources, waits for transactions that hold one, and reads the clock;   *)
(* the locks are kept until the transaction of the caller commits.         *)
(***************************************************************************)
InsertRow(t, p) ==
    /\ state[t] = "absent"
    /\ \A u \in Tasks : state[u] = "inserting" => ~Overlap(t, u)
    /\ state' = [state EXCEPT ![t] = "inserting"]
    /\ prior' = [prior EXCEPT ![t] = {u \in Tasks : state[u] # "absent"}]
    /\ appLock' = [appLock EXCEPT ![t] = p]
    /\ UNCHANGED unblocked

CommitRow(t) ==
    /\ state[t] = "inserting"
    /\ state' = [state EXCEPT ![t] = "waiting"]
    /\ UNCHANGED <<prior, unblocked, appLock>>

RollbackRow(t) ==
    /\ state[t] = "inserting"
    /\ state' = [state EXCEPT ![t] = "absent"]
    /\ prior' = [u \in Tasks |-> IF u = t THEN {} ELSE prior[u] \ {t}]
    /\ appLock' = [appLock EXCEPT ![t] = NoProc]
    /\ UNCHANGED unblocked

(* dispatch() of a task that its caller does not execute.                  *)
Insert(t) ==
    /\ t \notin ExecuteNow
    /\ InsertRow(t, NoProc)
    /\ UNCHANGED <<cancelReq, procVars, supVars, wakeVars, scanVars>>

Rollback(t) ==
    /\ t \notin ExecuteNow
    /\ RollbackRow(t)
    /\ UNCHANGED <<cancelReq, procVars, supVars, wakeVars, scanVars>>

(* The caller may die before it sends the wakeup.                          *)
Commit(t) ==
    /\ t \notin ExecuteNow
    /\ CommitRow(t)
    /\ NotifyUnblock \/ UNCHANGED wakeUnblock
    /\ UNCHANGED <<cancelReq, procVars, supVars, wakeHandle, scanVars>>

-----------------------------------------------------------------------------
(***************************************************************************)
(* dispatch() of an immediate task by an API process: the row is born with *)
(* app_lock set to that process.  A process whose AppStatus row is gone    *)
(* violates the foreign key and creates nothing.                           *)
(***************************************************************************)
ApiInsert(a, t) ==
    /\ pc[a] = "idle"
    /\ a \in registered
    /\ t \in ExecuteNow
    /\ InsertRow(t, a)
    /\ task' = [task EXCEPT ![a] = t]
    /\ Goto(a, "insert")
    /\ UNCHANGED <<cancelReq, registered, seen, supVars, wakeVars, scanVars>>

ApiRollback(a) ==
    /\ pc[a] = "insert"
    /\ RollbackRow(task[a])
    /\ Free(a)
    /\ UNCHANGED <<cancelReq, registered, seen, supVars, wakeVars, scanVars>>

ApiCommit(a) ==
    /\ pc[a] = "insert"
    /\ CommitRow(task[a])
    /\ Goto(a, "refresh")
    /\ UNCHANGED <<cancelReq, registered, task, seen, supVars, wakeVars,
                   scanVars>>

(* task.refresh_from_db(): what a later task.save() will write back.       *)
Refresh(a) ==
    /\ pc[a] = "refresh"
    /\ seen' = [seen EXCEPT ![a] = [state |-> state[task[a]],
                                    unblocked |-> unblocked[task[a]]]]
    /\ Goto(a, "check")
    /\ UNCHANGED <<rowVars, cancelReq, registered, task, supVars, wakeVars,
                   scanVars>>

(* are_resources_available() and the branches behind it.                   *)
CheckResources(a) ==
    /\ pc[a] = "check"
    /\ \/ Blockers(task[a]) = {} /\ Goto(a, "unblock")
       \/ /\ Blockers(task[a]) # {}
          /\ IF task[a] \in Deferred THEN Goto(a, "defer")
                                     ELSE Goto(a, "abandon")
    /\ UNCHANGED <<rowVars, cancelReq, registered, task, seen, supVars,
                   wakeVars, scanVars>>

UnblockNow(a) ==
    /\ pc[a] = "unblock"
    /\ unblocked' = [unblocked EXCEPT ![task[a]] = TRUE]
    /\ Goto(a, "execute")
    /\ UNCHANGED <<state, prior, appLock, cancelReq, registered, task, seen,
                   supVars, wakeVars, scanVars>>

(* task.save() without update_fields writes every column of the row as it  *)
(* was refreshed, its state and unblocked_at included.  No wakeup is sent. *)
Defer(a) ==
    LET t == task[a] IN
    /\ pc[a] = "defer"
    /\ appLock' = [appLock EXCEPT ![t] = NoProc]
    /\ state' = [state EXCEPT ![t] = seen[a].state]
    /\ unblocked' = [unblocked EXCEPT ![t] = seen[a].unblocked]
    /\ Free(a)
    /\ UNCHANGED <<prior, cancelReq, registered, seen, supVars, wakeVars,
                   scanVars>>

-----------------------------------------------------------------------------
(***************************************************************************)
(* execute_task() inside an API process or, for an immediate task, inside  *)
(* a worker.                                                               *)
(***************************************************************************)
SetRunning(p) ==
    LET t == task[p] IN
    /\ pc[p] = "execute"
    /\ \/ /\ state[t] = "waiting" /\ appLock[t] = p
          /\ state' = [state EXCEPT ![t] = "running"]
          /\ Goto(p, "run")
          /\ UNCHANGED task
       \/ /\ ~(state[t] = "waiting" /\ appLock[t] = p)
          /\ Raise(p)
          /\ UNCHANGED state
    /\ UNCHANGED <<prior, unblocked, appLock, cancelReq, registered, seen,
                   supVars, wakeVars, scanVars>>

(* set_completed() accepts a task that was set to canceling meanwhile and  *)
(* leaves it so; set_failed() does not.                                    *)
Finish(p) ==
    LET t == task[p]
        mine == state[t] = "running" /\ appLock[t] = p
    IN
    /\ pc[p] = "run"
    /\ \/ /\ mine
          /\ \E s \in {"completed", "failed"} :
                 state' = [state EXCEPT ![t] = s]
          /\ Goto(p, "wake")
          /\ UNCHANGED task
       \/ /\ state[t] = "canceling"
          /\ Goto(p, "wake")
          /\ UNCHANGED <<state, task>>
       \/ /\ ~mine
          /\ Raise(p)
          /\ UNCHANGED state
    /\ UNCHANGED <<prior, unblocked, appLock, cancelReq, registered, seen,
                   supVars, wakeVars, scanVars>>

(* Announce that the reservations of the task are free again.              *)
Wake(p) ==
    /\ pc[p] = "wake"
    /\ IF Reserved(task[p]) # {} THEN NotifyUnblock ELSE UNCHANGED wakeUnblock
    /\ IF p \in Workers THEN Goto(p, "release") /\ UNCHANGED task ELSE Free(p)
    /\ UNCHANGED <<rowVars, cancelReq, registered, seen, supVars, wakeHandle,
                   scanVars>>

(* The two halves of cancel_abandoned_task(), which dispatch() also uses   *)
(* for a task it can neither execute nor defer.                            *)
SetCanceling(p) ==
    LET t == task[p] IN
    /\ pc[p] = "abandon"
    /\ \/ /\ state[t] \in Incomplete
          /\ state' = [state EXCEPT ![t] = "canceling"]
          /\ Goto(p, "finalize")
          /\ UNCHANGED task
       \/ /\ state[t] \notin Incomplete
          /\ Raise(p)
          /\ UNCHANGED state
    /\ UNCHANGED <<prior, unblocked, appLock, cancelReq, registered, seen,
                   supVars, wakeVars, scanVars>>

FinalState(p) == IF p \in Workers THEN cancelState[p] ELSE "canceled"

SetCanceled(p) ==
    LET t == task[p]
        mine == state[t] = "canceling" /\ appLock[t] = p
    IN
    /\ pc[p] = "finalize"
    /\ \/ /\ mine
          /\ state' = [state EXCEPT ![t] = FinalState(p)]
          /\ IF p \in Workers THEN Goto(p, "wake") /\ UNCHANGED task
                              ELSE Free(p)
       \/ ~mine /\ Raise(p) /\ UNCHANGED state
    /\ UNCHANGED <<prior, unblocked, appLock, cancelReq, registered, seen,
                   supVars, wakeVars, scanVars>>

-----------------------------------------------------------------------------
(***************************************************************************)
(* The worker.  Its AppStatus row is created with the process.             *)
(***************************************************************************)
Start(w) ==
    /\ pc[w] = "off"
    /\ registered' = registered \cup {w}
    /\ Goto(w, "handle")
    /\ UNCHANGED <<rowVars, cancelReq, task, seen, supVars, wakeVars, scanVars>>

(* The end of the process; a child it forked lives on, holding its task.   *)
Die(w) ==
    /\ Goto(w, "dead")
    /\ stop' = [stop EXCEPT ![w] = "no"]
    /\ cancelFlag' = [cancelFlag EXCEPT ![w] = FALSE]
    /\ cancelState' = [cancelState EXCEPT ![w] = "no"]
    /\ ignored' = [ignored EXCEPT ![w] = {}]
    /\ wakeHandle' = wakeHandle \ {w}
    /\ wakeUnblock' = wakeUnblock \ {w}
    /\ telling' = telling \ {w}
    /\ unblocker' = IF unblocker = w THEN NoProc ELSE unblocker
    /\ found' = IF unblocker = w THEN {} ELSE found

(* fetch_task(): FOR UPDATE SKIP LOCKED passes over rows that a            *)
(* cancel_task() in flight is updating.                                    *)
Candidates(w) == Claimable \ ignored[w]
Skippable == {t \in Tasks : cancelReq[t] \in {"free", "locked"}}

Claim(w, t) ==
    /\ pc[w] = "handle"
    /\ stop[w] = "no"
    /\ w \in registered
    /\ t \in Candidates(w)
    /\ t \in Immediate \/ Candidates(w) \cap Immediate \subseteq Skippable
    /\ appLock' = [appLock EXCEPT ![t] = w]
    /\ task' = [task EXCEPT ![w] = t]
    /\ wakeHandle' = wakeHandle \ {w}
    /\ UNCHANGED <<state, prior, unblocked, cancelReq, registered, seen, child,
                   stop, cancelFlag, wakeUnblock, scanVars>>

(* The branches of handle_unblocked_tasks() on the state that was fetched. *)
ClaimAbandoned(w, t) ==
    /\ Claim(w, t)
    /\ \/ /\ state[t] = "canceling"
          /\ cancelState' = [cancelState EXCEPT ![w] = "canceled"]
       \/ /\ state[t] = "running"
          /\ cancelState' = [cancelState EXCEPT ![w] = "failed"]
    /\ Goto(w, "abandon")
    /\ UNCHANGED ignored

ClaimWaiting(w, t) ==
    /\ Claim(w, t)
    /\ state[t] = "waiting"
    /\ t \in Compatible[w]
    /\ IF t \in Immediate THEN Goto(w, "execute") ELSE Goto(w, "spawn")
    /\ UNCHANGED <<cancelState, ignored>>

ClaimIgnored(w, t) ==
    /\ Claim(w, t)
    /\ state[t] = "waiting"
    /\ t \notin Compatible[w]
    /\ ignored' = [ignored EXCEPT ![w] = @ \cup {t}]
    /\ Goto(w, "release")
    /\ UNCHANGED cancelState

(* Nothing to claim: on to sleep().                                        *)
FetchNone(w) ==
    /\ pc[w] = "handle"
    /\ stop[w] = "no"
    /\ Candidates(w) \subseteq Skippable
    /\ wakeHandle' = wakeHandle \ {w}
    /\ Goto(w, "sleep")
    /\ UNCHANGED <<rowVars, cancelReq, registered, task, seen, supVars,
                   wakeUnblock, scanVars>>

(* Claiming violates the foreign key once the own AppStatus row is gone.   *)
FetchFails(w) ==
    /\ pc[w] = "handle"
    /\ stop[w] = "no"
    /\ w \notin registered
    /\ Candidates(w) # {}
    /\ Die(w)
    /\ UNCHANGED <<rowVars, cancelReq, registered, task, seen, child>>

(* The finally clause gives the lock back; losing it is fatal.             *)
Release(w) ==
    /\ pc[w] \in {"release", "raise"}
    /\ appLock' = IF appLock[task[w]] = w
                  THEN [appLock EXCEPT ![task[w]] = NoProc]
                  ELSE appLock
    /\ task' = [task EXCEPT ![w] = NoTask]
    /\ IF pc[w] = "release" /\ appLock[task[w]] = w
       THEN /\ Goto(w, "handle")
            /\ cancelState' = [cancelState EXCEPT ![w] = "no"]
            /\ UNCHANGED <<stop, cancelFlag, ignored, wakeVars, scanVars>>
       ELSE Die(w)
    /\ UNCHANGED <<state, prior, unblocked, cancelReq, registered, seen, child>>

-----------------------------------------------------------------------------
(***************************************************************************)
(* supervise_task() and the child process.                                 *)
(***************************************************************************)
Spawn(w) ==
    /\ pc[w] = "spawn"
    /\ Goto(w, "supervise")
    /\ child' = [child EXCEPT ![w] = "starting"]
    /\ cancelFlag' = [cancelFlag EXCEPT ![w] = FALSE]
    /\ cancelState' = [cancelState EXCEPT ![w] = "no"]
    /\ UNCHANGED <<rowVars, cancelReq, registered, task, seen, stop, ignored,
                   wakeVars, scanVars>>

(* Mutant: set_running() does not look at app_lock.                        *)
ChildSetRunningUnlocked(w) ==
    LET t == task[w] IN
    /\ child[w] = "starting"
    /\ state' = IF state[t] = "waiting"
                THEN [state EXCEPT ![t] = "running"] ELSE state
    /\ child' = [child EXCEPT ![w] = "running"]
    /\ UNCHANGED <<prior, unblocked, appLock, cancelReq, procVars, stop,
                   cancelFlag, cancelState, ignored, wakeVars, scanVars>>

(* The child has inherited the AppStatus of the worker, so the setters     *)
(* take it for the owner of the lock.                                      *)
ChildSetRunning(w) ==
    LET t == task[w]
        mine == state[t] = "waiting" /\ appLock[t] = w
    IN
    /\ child[w] = "starting"
    /\ state' = IF mine THEN [state EXCEPT ![t] = "running"] ELSE state
    /\ child' = [child EXCEPT ![w] = IF mine THEN "running" ELSE "error"]
    /\ UNCHANGED <<prior, unblocked, appLock, cancelReq, procVars, stop,
                   cancelFlag, cancelState, ignored, wakeVars, scanVars>>

ChildFinish(w) ==
    LET t == task[w]
        mine == state[t] = "running" /\ appLock[t] = w
    IN
    /\ child[w] = "running"
    /\ \/ /\ mine
          /\ \E s \in {"completed", "failed"} :
                 state' = [state EXCEPT ![t] = s]
          /\ child' = [child EXCEPT ![w] = "ok"]
       \/ /\ state[t] = "canceling"
          /\ child' = [child EXCEPT ![w] = "ok"]
          /\ UNCHANGED state
       \/ /\ ~mine
          /\ child' = [child EXCEPT ![w] = "error"]
          /\ UNCHANGED state
    /\ UNCHANGED <<prior, unblocked, appLock, cancelReq, procVars, stop,
                   cancelFlag, cancelState, ignored, wakeVars, scanVars>>

(* The child is killed from outside, by the kernel for instance.           *)
ChildDies(w) ==
    /\ w \in Mortal
    /\ child[w] \in {"starting", "running"}
    /\ child' = [child EXCEPT ![w] = "error"]
    /\ UNCHANGED <<rowVars, cancelReq, procVars, stop, cancelFlag, cancelState,
                   ignored, wakeVars, scanVars>>

Busy(w) == w = unblocker \/ w \in telling

(* One round of the loop sees the cancel flag or the request to shut down. *)
TakeCancel(w) ==
    /\ pc[w] = "supervise"
    /\ ~Busy(w)
    /\ cancelFlag[w]
    /\ cancelFlag' = [cancelFlag EXCEPT ![w] = FALSE]
    /\ cancelState' = [cancelState EXCEPT ![w] = "canceled"]
    /\ UNCHANGED <<rowVars, cancelReq, procVars, child, stop, ignored,
                   wakeVars, scanVars>>

TakeStop(w) ==
    /\ pc[w] = "supervise"
    /\ ~Busy(w)
    /\ stop[w] = "fast"
    /\ cancelState' = [cancelState EXCEPT ![w] = "failed"]
    /\ UNCHANGED <<rowVars, cancelReq, procVars, child, stop, cancelFlag,
                   ignored, wakeVars, scanVars>>

(* Mutant: a cancellation is put off by any shutdown.                      *)
KillUnlessStopped(w) ==
    /\ pc[w] = "supervise"
    /\ ~Busy(w)
    /\ cancelState[w] # "no"
    /\ stop[w] = "no"
    /\ child[w] \in {"starting", "running"}
    /\ child' = [child EXCEPT ![w] = "ok"]
    /\ UNCHANGED <<rowVars, cancelReq, procVars, stop, cancelFlag, cancelState,
                   ignored, wakeVars, scanVars>>

(* SIGUSR1, which a graceful shutdown puts off for ever.                   *)
Kill(w) ==
    /\ pc[w] = "supervise"
    /\ ~Busy(w)
    /\ cancelState[w] # "no"
    /\ stop[w] # "graceful"
    /\ child[w] \in {"starting", "running"}
    /\ child' = [child EXCEPT ![w] = "ok"]
    /\ UNCHANGED <<rowVars, cancelReq, procVars, stop, cancelFlag, cancelState,
                   ignored, wakeVars, scanVars>>

(* Mutant: the exit of the child is taken for a state of the task.         *)
JoinExit(w) ==
    /\ pc[w] = "supervise"
    /\ ~Busy(w)
    /\ child[w] \in {"ok", "error"}
    /\ child' = [child EXCEPT ![w] = "none"]
    /\ cancelState' = [cancelState EXCEPT ![w] =
                          IF @ = "no" /\ child[w] = "error" THEN "error" ELSE @]
    /\ Goto(w, IF cancelState'[w] = "no" THEN "wake" ELSE "abandon")
    /\ UNCHANGED <<rowVars, cancelReq, registered, task, seen, stop,
                   cancelFlag, ignored, wakeVars, scanVars>>

Join(w) ==
    LET final == IF cancelState[w] = "no" /\ child[w] = "error"
                 THEN "failed" ELSE cancelState[w]
    IN
    /\ pc[w] = "supervise"
    /\ ~Busy(w)
    /\ child[w] \in {"ok", "error"}
    /\ child' = [child EXCEPT ![w] = "none"]
    /\ cancelState' = [cancelState EXCEPT ![w] = final]
    /\ IF final = "no" THEN Goto(w, "wake") ELSE Goto(w, "abandon")
    /\ UNCHANGED <<rowVars, cancelReq, registered, task, seen, stop,
                   cancelFlag, ignored, wakeVars, scanVars>>

-----------------------------------------------------------------------------
(***************************************************************************)
(* What a worker does beside: unblock_tasks() under TASK_UNBLOCKING_LOCK,  *)
(* heart beats, and the cleanup of missing processes, whose tasks lose     *)
(* their app_lock by ON DELETE SET NULL.                                   *)
(***************************************************************************)
Attentive(w) ==
    /\ ~Busy(w)
    /\ pc[w] = "supervise" \/ (pc[w] = "sleep" /\ stop[w] = "no")

UnblockTry(w) ==
    /\ Attentive(w)
    /\ w \in wakeUnblock
    /\ wakeUnblock' = wakeUnblock \ {w}
    /\ IF unblocker = NoProc
       THEN unblocker' = w /\ found' = Unblockable
       ELSE UNCHANGED <<unblocker, found>>
    /\ UNCHANGED <<rowVars, cancelReq, procVars, supVars, wakeHandle, telling>>

UnblockCommit(w) ==
    /\ unblocker = w
    /\ unblocked' = [t \in Tasks |-> unblocked[t] \/ t \in found]
    /\ unblocker' = NoProc
    /\ found' = {}
    /\ telling' = telling \cup {w}
    /\ UNCHANGED <<state, prior, appLock, cancelReq, procVars, supVars,
                   wakeVars>>

(* An abandoned running task is none of those the announcement counts.     *)
UnblockTell(w) ==
    /\ w \in telling
    /\ telling' = telling \ {w}
    /\ IF \E t \in Claimable : state[t] \in {"waiting", "canceling"}
       THEN NotifyHandle
       ELSE UNCHANGED wakeHandle
    /\ UNCHANGED <<rowVars, cancelReq, procVars, supVars, wakeUnblock,
                   unblocker, found>>

WakeUp(w) ==
    /\ pc[w] = "sleep"
    /\ ~Busy(w)
    /\ w \in wakeHandle
    /\ stop[w] = "no"
    /\ Goto(w, "handle")
    /\ UNCHANGED <<rowVars, cancelReq, registered, task, seen, supVars,
                   wakeVars, scanVars>>

CleanupIgnored(w) ==
    /\ Attentive(w)
    /\ \E t \in ignored[w] : state[t] \in Final
    /\ ignored' = [ignored EXCEPT ![w] = {t \in @ : state[t] \notin Final}]
    /\ UNCHANGED <<rowVars, cancelReq, procVars, child, stop, cancelFlag,
                   cancelState, wakeVars, scanVars>>

(* The processes whose heart beat may have become older than their ttl.    *)
Gone(p) ==
    pc[p] = "dead" /\ (p \in Workers => child[p] \notin {"starting", "running"})

Missable(w) ==
    {p \in registered \ {w} :
        Gone(p) \/ (~Timely /\ (pc[p] = "dead" \/ p \in Mortal))}

DeleteApps(S) ==
    /\ registered' = registered \ S
    /\ appLock' = [t \in Tasks |->
                      IF appLock[t] \in S THEN NoProc ELSE appLock[t]]

Cleanup(w, S) ==
    /\ Attentive(w)
    /\ w \notin Auxiliary
    /\ DeleteApps(S)
    /\ wakeUnblock' = wakeUnblock \cup {w}
    /\ UNCHANGED <<state, prior, unblocked, cancelReq, pc, task, seen, supVars,
                   wakeHandle, scanVars>>

(* The heart beat fails if the row is gone, or the database unreachable.   *)
HeartbeatFails(w) ==
    /\ Attentive(w)
    /\ w \notin registered \/ w \in Mortal
    /\ stop' = [stop EXCEPT ![w] = IF @ = "no" THEN "fast" ELSE @]
    /\ cancelFlag' = [cancelFlag EXCEPT ![w] = TRUE]
    /\ UNCHANGED <<rowVars, cancelReq, procVars, child, cancelState, ignored,
                   wakeVars, scanVars>>

(* run() ends with shutdown(), which deletes the AppStatus row.            *)
Shutdown(w) ==
    /\ pc[w] \in {"handle", "sleep"}
    /\ ~Busy(w)
    /\ stop[w] # "no"
    /\ DeleteApps({w})
    /\ Die(w)
    /\ UNCHANGED <<state, prior, unblocked, cancelReq, task, seen, child>>

-----------------------------------------------------------------------------
(***************************************************************************)
(* cancel_task(), called by a user.  The app_lock that selects the         *)
(* notification was read before the row is set to canceling.               *)
(***************************************************************************)
CancelRead(t) ==
    /\ t \in Cancelable
    /\ cancelReq[t] = "no"
    /\ state[t] \in Incomplete
    /\ cancelReq' = [cancelReq EXCEPT ![t] =
                        IF appLock[t] = NoProc THEN "free" ELSE "locked"]
    /\ UNCHANGED <<rowVars, procVars, supVars, wakeVars, scanVars>>

(* Mutant: set_canceling() does not look at the state.                     *)
CancelSetAnyway(t) ==
    /\ cancelReq[t] \in {"free", "locked"}
    /\ state' = [state EXCEPT ![t] = "canceling"]
    /\ cancelReq' = [cancelReq EXCEPT ![t] =
                        IF @ = "free" THEN "tell_free" ELSE "tell_locked"]
    /\ UNCHANGED <<prior, unblocked, appLock, procVars, supVars, wakeVars,
                   scanVars>>

CancelSet(t) ==
    /\ cancelReq[t] \in {"free", "locked"}
    /\ \/ /\ state[t] \in Incomplete
          /\ state' = [state EXCEPT ![t] = "canceling"]
          /\ cancelReq' = [cancelReq EXCEPT ![t] =
                              IF @ = "free" THEN "tell_free" ELSE "tell_locked"]
       \/ /\ state[t] \notin Incomplete
          /\ cancelReq' = [cancelReq EXCEPT ![t] = "no"]
          /\ UNCHANGED state
    /\ UNCHANGED <<prior, unblocked, appLock, procVars, supVars, wakeVars,
                   scanVars>>

(* A worker that has not yet assigned self.task drops pulp_worker_cancel.  *)
CancelTell(t) ==
    /\ cancelReq[t] \in {"tell_free", "tell_locked"}
    /\ cancelReq' = [cancelReq EXCEPT ![t] = "no"]
    /\ IF cancelReq[t] = "tell_free"
       THEN NotifyHandle /\ UNCHANGED cancelFlag
       ELSE /\ cancelFlag' = [w \in Workers |->
                   cancelFlag[w] \/ (pc[w] = "supervise" /\ task[w] = t)]
            /\ UNCHANGED wakeHandle
    /\ UNCHANGED <<rowVars, procVars, child, stop, cancelState, ignored,
                   wakeUnblock, scanVars>>

(* The API process dies before it has notified anybody.                    *)
CancelLost(t) ==
    /\ cancelReq[t] \in {"tell_free", "tell_locked"}
    /\ Mortal # {}
    /\ cancelReq' = [cancelReq EXCEPT ![t] = "no"]
    /\ UNCHANGED <<rowVars, procVars, supVars, wakeVars, scanVars>>

-----------------------------------------------------------------------------
(***************************************************************************)
(* Signals and crashes.  SIGTERM asks a worker to finish its task however  *)
(* long that takes, SIGINT to abort it; a killed process leaves its row.   *)
(***************************************************************************)
RequestStop(w) ==
    /\ w \in Mortal
    /\ pc[w] \notin {"off", "dead"}
    /\ \/ stop[w] = "no" /\ stop' = [stop EXCEPT ![w] = "graceful"]
       \/ stop[w] # "fast" /\ stop' = [stop EXCEPT ![w] = "fast"]
    /\ UNCHANGED <<rowVars, cancelReq, procVars, child, cancelFlag,
                   cancelState, ignored, wakeVars, scanVars>>

Crash(w) ==
    /\ w \in Mortal
    /\ pc[w] \notin {"off", "dead"}
    /\ Die(w)
    /\ UNCHANGED <<rowVars, cancelReq, registered, task, seen, child>>

ApiCrash(a) ==
    /\ a \in Mortal
    /\ pc[a] \notin {"insert", "dead"}
    /\ Goto(a, "dead")
    /\ UNCHANGED <<rowVars, cancelReq, registered, task, seen, supVars,
                   wakeVars, scanVars>>

(* An API process that ends between two requests deletes its row.          *)
ApiExit(a) ==
    /\ a \in Mortal
    /\ pc[a] = "idle"
    /\ Goto(a, "dead")
    /\ DeleteApps({a})
    /\ UNCHANGED <<state, prior, unblocked, cancelReq, task, seen, supVars,
                   wakeVars, scanVars>>

-----------------------------------------------------------------------------
Client(t) == Insert(t) \/ Commit(t) \/ Rollback(t)

Cancel(t) == CancelRead(t) \/ CancelSet(t) \/ CancelTell(t) \/ CancelLost(t)

Execute(p) == \/ SetRunning(p) \/ Finish(p) \/ Wake(p)
              \/ SetCanceling(p) \/ SetCanceled(p)

Dispatch(a) == \/ \E t \in Tasks : ApiInsert(a, t)
               \/ ApiRollback(a) \/ ApiCommit(a) \/ Refresh(a)
               \/ CheckResources(a) \/ UnblockNow(a) \/ Defer(a)

Fetch(w) == \/ \E t \in Tasks : \/ ClaimAbandoned(w, t)
                                \/ ClaimWaiting(w, t)
                                \/ ClaimIgnored(w, t)
            \/ FetchNone(w) \/ FetchFails(w)

Supervise(w) == \/ Spawn(w) \/ TakeCancel(w) \/ TakeStop(w) \/ Kill(w)
                \/ Join(w)

Child(w) == ChildSetRunning(w) \/ ChildFinish(w)

Unblock(w) == UnblockTry(w) \/ UnblockCommit(w) \/ UnblockTell(w)

Maintain(w) == \/ \E S \in SUBSET Missable(w) : Cleanup(w, S)
               \/ CleanupIgnored(w)

Worker(w) == \/ Start(w) \/ Fetch(w) \/ Release(w) \/ Supervise(w)
             \/ Child(w) \/ Unblock(w) \/ WakeUp(w) \/ Maintain(w)
             \/ Shutdown(w)

Fault == \/ \E w \in Workers : \/ RequestStop(w) \/ Crash(w)
                               \/ ChildDies(w) \/ HeartbeatFails(w)
         \/ \E a \in Apis : ApiCrash(a) \/ ApiExit(a)

Next == \/ \E t \in Tasks : Client(t) \/ Cancel(t)
        \/ \E p \in Procs : Execute(p)
        \/ \E a \in Apis : Dispatch(a)
        \/ \E w \in Workers : Worker(w)
        \/ Fault

Spec == Init /\ [][Next]_vars

(* Every process goes on with what it has begun; each round of a worker's  *)
(* loops looks at all flags and signals, which is the strong fairness.     *)
WorkerFairness(w) ==
    /\ WF_vars(Execute(w))
    /\ WF_vars(Fetch(w))
    /\ WF_vars(Release(w) \/ Spawn(w) \/ Shutdown(w))
    /\ WF_vars(ChildSetRunning(w))
    /\ SF_vars(TakeCancel(w))
    /\ SF_vars(Kill(w))
    /\ SF_vars(Join(w))
    /\ SF_vars(WakeUp(w))

(* A worker that stays up goes on with its heart beats, and the cleanup.   *)
UnblockerFairness(w) ==
    /\ SF_vars(UnblockTry(w))
    /\ WF_vars(UnblockCommit(w))
    /\ WF_vars(UnblockTell(w))
    /\ WF_vars(Cleanup(w, Missable(w)))

(* Nothing is assumed of signals and crashes, and of users only that they  *)
(* do not repeat cancel requests for ever; the immortal workers are        *)
(* started some day, and never told to stop.                               *)
Fairness ==
    /\ \A t \in Tasks : /\ WF_vars(Commit(t) \/ Rollback(t))
                        /\ WF_vars(CancelSet(t))
                        /\ WF_vars(CancelTell(t) \/ CancelLost(t))
    /\ \A a \in Apis :
          /\ WF_vars(Execute(a))
          /\ WF_vars(\/ ApiRollback(a) \/ ApiCommit(a) \/ Refresh(a)
                     \/ CheckResources(a) \/ UnblockNow(a) \/ Defer(a))
    /\ \A w \in Workers : WorkerFairness(w)
    /\ \A w \in Workers \ Auxiliary : UnblockerFairness(w)
    /\ \A w \in Workers \cap Mortal : SF_vars(TakeStop(w))
    /\ \A w \in Workers \ Mortal : WF_vars(Start(w))
    /\ \A t \in Tasks : <>[](cancelReq[t] = "no")

(* An immediate task is bounded by IMMEDIATE_TIMEOUT; the code of another  *)
(* one may take for ever unless it is assumed to end.                      *)
TasksTerminate == \A w \in Workers : WF_vars(ChildFinish(w))

(* Workers that may be stopped, whatever all others do.                    *)
StoppingSpec ==
    /\ Spec
    /\ \A w \in Workers \cap Mortal : WorkerFairness(w) /\ SF_vars(TakeStop(w))
    /\ \A w \in (Workers \cap Mortal) \ Auxiliary : UnblockerFairness(w)

FairSpec == Spec /\ Fairness /\ TasksTerminate

-----------------------------------------------------------------------------
(***************************************************************************)
(* Safety.                                                                 *)
(***************************************************************************)
ExecutedBy(p, t) ==
    /\ task[p] = t
    /\ pc[p] = "run" \/ (p \in Workers /\ child[p] = "running")

Executing(t) == \E p \in Procs : ExecutedBy(p, t)

(* "No two tasks that claim the same resource can execute concurrently"    *)
(* (dispatch()), unless both claim it as shared: at no time is the code of *)
(* two such tasks running, in whatever processes.                          *)
MutualExclusion ==
    \A t, u \in Tasks : Conflict(t, u) => ~(Executing(t) /\ Executing(u))

(* Tasks that exclude each other run in the order in which dispatch()      *)
(* inserted them: while one runs, no earlier one is still to be run.       *)
DispatchOrder == \A t \in Tasks : Executing(t) => Blockers(t) = {}

(* A task is executed by one process only, which holds its app_lock, and   *)
(* nobody declares it finished while its code is still running.            *)
ExclusiveExecution ==
    \A t \in Tasks, p \in Procs :
        ExecutedBy(p, t) => /\ appLock[t] = p
                            /\ state[t] \in {"running", "canceling"}
                            /\ \A q \in Procs \ {p} : ~ExecutedBy(q, t)

(* Even if a process is taken for missing while it still works, the table  *)
(* never shows two tasks as running that exclude each other.               *)
RunningRowsExclude ==
    \A t, u \in Tasks :
        Conflict(t, u) => ~(state[t] = "running" /\ state[u] = "running")

(* The transitions of the Task docstring; cancel_abandoned_task() moreover *)
(* fails a task that it has set to canceling.                              *)
Transitions ==
    {<<"absent", "inserting">>, <<"inserting", "absent">>,
     <<"inserting", "waiting">>,
     <<"waiting", "running">>, <<"waiting", "canceling">>,
     <<"running", "completed">>, <<"running", "failed">>,
     <<"running", "canceling">>,
     <<"canceling", "canceled">>, <<"canceling", "failed">>}

(* The state of a task is a finite automaton without loops, so whatever is *)
(* canceled, failed or completed stays so and nothing is executed twice.   *)
Lifecycle ==
    [][\A t \in Tasks : state'[t] # state[t] =>
          <<state[t], state'[t]>> \in Transitions]_vars

(* Setting a task to canceling is the only transition made without holding *)
(* its lock: every other one is a step of the process in app_lock.         *)
OwnerAdvances(t) ==
    /\ state'[t] # state[t]
    /\ state'[t] \in {"running"} \cup Final
    => \E p \in Procs :
          /\ appLock[t] = p /\ task[p] = t
          /\ pc'[p] # pc[p] \/ (p \in Workers /\ child'[p] # child[p])

OnlyOwnerAdvances == [][\A t \in Tasks : OwnerAdvances(t)]_vars

-----------------------------------------------------------------------------
(***************************************************************************)
(* Liveness.                                                               *)
(***************************************************************************)
(* Every dispatched task reaches a final state, however its resources are  *)
(* contended for, if some worker stays up.                                 *)
EveryTaskEnds ==
    \A t \in Tasks : (state[t] = "waiting") ~> (state[t] \in Final)

(* Whatever was canceled ends: "CANCELING -> CANCELED".                    *)
CancelCompletes ==
    \A t \in Tasks : (state[t] = "canceling") ~> (state[t] \in Final)

(* A worker told to stop at once ends, even if the task that it supervises *)
(* would never end by itself.                                              *)
FastStopEnds == \A w \in Workers : (stop[w] = "fast") ~> (pc[w] = "dead")

=============================================================================
