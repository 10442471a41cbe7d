----------------------------- MODULE RedisTasking -----------------------------
(***************************************************************************)
(* Tasking with WORKER_TYPE "redis": dispatch() and cancel_task() of       *)
(* tasking/redis_tasks.py, the Lua scripts of tasking/redis_locks.py and   *)
(* the worker of tasking/redis_worker.py.  Nobody unblocks tasks here:     *)
(* workers compete for locks in Redis, and then for the row.               *)
(*                                                                         *)
(* The state of a task lives in two stores that no transaction spans.  An  *)
(* action is one statement, one transaction or one Lua script.  The Redis  *)
(* server itself does not fail, and rows become visible in the order of    *)
(* pulp_created, which is the business of the trigger that Tasking models. *)
(***************************************************************************)
EXTENDS Integers, FiniteSets

CONSTANTS
    Tasks,       \* the tasks that may be dispatched
    Workers,     \* worker processes; a restarted worker is another element
    Apis,        \* API processes that dispatch, one request at a time
    Console,     \* the API process that serves requests to cancel
    Names,       \* AppStatus.name, by which Redis knows lock owners
    Name,        \* process -> its name; a restart may use a name again
    Resources,   \* what tasks reserve
    Exclusive,   \* task -> the resources it reserves exclusively
    Shared,      \* task -> the resources it reserves as "shared:"
    Immediate,   \* the tasks dispatched with immediate=True, by an API process
    Deferred,    \* the tasks dispatched with deferred=True
    Cancelable,  \* the tasks a user may ask to cancel
    Compatible,  \* worker -> the tasks whose versions it provides
    Mortal,      \* the processes that may be stopped or killed
    Limit,       \* FETCH_TASK_LIMIT
    Nobody,      \* app_lock IS NULL, or a key that does not exist
    NoTask

Procs == Workers \cup Apis \cup {Console}
Keys == Tasks \cup Resources

ASSUME RedisProcAssumption ==
    /\ Workers \cap Apis = {}
    /\ Console \notin Workers \cup Apis \cup Mortal
    /\ Nobody \notin Procs \cup Names
    /\ NoTask \notin Tasks
    /\ Name \in [Procs -> Names]
    /\ Mortal \subseteq Procs
    /\ Compatible \in [Workers -> SUBSET Tasks]
    /\ Limit \in Nat \ {0}

(* An API process that finds its name taken exits (entrypoint.py).         *)
ASSUME RedisNameAssumption ==
    \A p, q \in Apis \cup {Console} : Name[p] = Name[q] => p = q

(* A resource that is named both ways makes acquire_locks() fail for ever. *)
ASSUME RedisTaskAssumption ==
    /\ Tasks \cap Resources = {}
    /\ Exclusive \in [Tasks -> SUBSET Resources]
    /\ Shared \in [Tasks -> SUBSET Resources]
    /\ \A t \in Tasks : Exclusive[t] \cap Shared[t] = {}
    /\ Tasks = Deferred \cup Immediate
    /\ Cancelable \subseteq Tasks

VARIABLES
    state,       \* task -> Task.state; "absent": no row
    prior,       \* task -> the tasks with an earlier pulp_created
    appLock,     \* task -> Task.app_lock
    registered,  \* the processes that have an AppStatus row
    owner,       \* string keys: task and exclusive resource locks -> owner
    members,     \* set keys: shared resource locks -> owners
    registry,    \* pulp:owner_locks: name -> the lock keys it holds
    activeOwners,\* pulp:active_owners
    signals,     \* pulp:task:cancel: the tasks with a cancel signal
    cancelReq,   \* task -> how far a cancel_task() call for it has come
    pc,          \* process -> where its code is
    task,        \* process -> the task it holds
    scan,        \* worker -> the page of fetch_task() and what it has taken
    child,       \* worker -> the process that executes its task
    stop,        \* worker -> shutdown_requested and task_grace_timeout
    cancelState, \* worker -> cancel_state of supervise_task()
    ignored,     \* worker -> ignored_task_ids
    sweep,       \* worker -> how far its app_worker_cleanup() has come
    robbed,      \* history: tasks whose locks another process released
    leaky        \* history: workers whose name was left with locks

rowVars   == <<state, prior, appLock>>
redisVars == <<owner, members, registry, activeOwners>>
procVars  == <<registered, pc, task>>
supVars   == <<child, stop, cancelState>>
history   == <<robbed, leaky>>

vars == <<rowVars, registered, redisVars, signals, cancelReq, pc, task, scan,
          supVars, ignored, sweep, history>>

-----------------------------------------------------------------------------
Incomplete == {"waiting", "running", "canceling"}
Final      == {"completed", "failed", "canceled"}

ApiPcs    == {"idle", "check", "acquire", "execute", "run", "release",
              "unwind", "defer", "abandon", "finalize", "dead"}
WorkerPcs == {"off", "start", "fetch", "scan", "claim", "giveup", "claimed",
              "execute", "run", "release", "unwind", "supervise", "reload",
              "abandon", "finalize", "sleep", "dead"}

NotCanceled == [at |-> "no", owner |-> Nobody]
NoScan      == [page |-> {}, taken |-> {}, full |-> FALSE]
NoSweep     == [at |-> "no", proc |-> Nobody, waiting |-> {}, names |-> {},
                successor |-> FALSE]

Reserved(t) == Exclusive[t] \cup Shared[t]

(* Two reservations exclude each other when one of them is exclusive.      *)
Conflict(t, u) ==
    /\ t # u
    /\ \/ Exclusive[t] \cap Reserved(u) # {}
       \/ Shared[t] \cap Exclusive[u] # {}

TypeOK ==
    /\ state \in [Tasks -> Incomplete \cup Final \cup {"absent"}]
    /\ prior \in [Tasks -> SUBSET Tasks]
    /\ appLock \in [Tasks -> Procs \cup {Nobody}]
    /\ registered \subseteq Procs
    /\ owner \in [Keys -> Names \cup {Nobody}]
    /\ members \in [Resources -> SUBSET Names]
    /\ \A r \in Resources : owner[r] = Nobody \/ members[r] = {}
    /\ registry \in [Names -> SUBSET Keys]
    /\ activeOwners \subseteq Names
    /\ signals \subseteq Tasks
    /\ cancelReq \in [Tasks ->
          [at : {"no", "free", "locked", "take", "publish", "finalize", "get",
                 "release"},
           owner : Names \cup {Nobody}]]
    /\ pc \in [Procs -> ApiPcs \cup WorkerPcs]
    /\ task \in [Procs -> Tasks \cup {NoTask}]
    /\ scan \in [Workers -> [page : SUBSET Tasks, taken : SUBSET Tasks,
                             full : BOOLEAN]]
    /\ child \in [Workers -> {"none", "starting", "running", "ending",
                              "raising", "exiting", "ok", "error", "killed"}]
    /\ stop \in [Workers -> {"no", "graceful", "fast"}]
    /\ cancelState \in [Workers -> {"no", "canceled", "failed"}]
    /\ ignored \in [Workers -> SUBSET Tasks]
    /\ sweep \in [Workers ->
          [at : {"no", "release", "commit", "reconcile"},
           proc : Procs \cup {Nobody}, waiting : SUBSET Tasks,
           names : SUBSET Names, successor : BOOLEAN]]
    /\ robbed \subseteq Tasks
    /\ leaky \subseteq Workers

Init ==
    /\ state = [t \in Tasks |-> "absent"]
    /\ prior = [t \in Tasks |-> {}]
    /\ appLock = [t \in Tasks |-> Nobody]
    /\ registered = Procs \ Workers
    /\ owner = [k \in Keys |-> Nobody]
    /\ members = [r \in Resources |-> {}]
    /\ registry = [n \in Names |-> {}]
    /\ activeOwners = {}
    /\ signals = {}
    /\ cancelReq = [t \in Tasks |-> NotCanceled]
    /\ pc = [p \in Procs |-> IF p \in Workers THEN "off" ELSE "idle"]
    /\ task = [p \in Procs |-> NoTask]
    /\ scan = [w \in Workers |-> NoScan]
    /\ child = [w \in Workers |-> "none"]
    /\ stop = [w \in Workers |-> "no"]
    /\ cancelState = [w \in Workers |-> "no"]
    /\ ignored = [w \in Workers |-> {}]
    /\ sweep = [w \in Workers |-> NoSweep]
    /\ robbed = {}
    /\ leaky = {}

Goto(p, label) == pc' = [pc EXCEPT ![p] = label]

-----------------------------------------------------------------------------
(***************************************************************************)
(* The Lua scripts.  Each is atomic and goes by the name of the owner.     *)
(***************************************************************************)
(* Mutant: a shared lock does not keep writers out.                        *)
BlockedByStrings(t) ==
    \/ owner[t] # Nobody
    \/ \E r \in Reserved(t) : owner[r] # Nobody

(* REDIS_ACQUIRE_LOCKS_SCRIPT: what keeps it from taking all locks of t.   *)
Blocked(t) ==
    \/ owner[t] # Nobody
    \/ \E r \in Exclusive[t] : owner[r] # Nobody \/ members[r] # {}
    \/ \E r \in Shared[t] : owner[r] # Nobody

(* Mutant: shared locks are not registered.                                *)
AcquireUnregistered(n, t) ==
    /\ ~Blocked(t)
    /\ owner' = [k \in Keys |-> IF k \in {t} \cup Exclusive[t]
                                THEN n ELSE owner[k]]
    /\ members' = [r \in Resources |-> IF r \in Shared[t]
                                       THEN members[r] \cup {n} ELSE members[r]]
    /\ registry' = [registry EXCEPT ![n] = @ \cup {t} \cup Exclusive[t]]
    /\ activeOwners' = activeOwners \cup {n}

Acquire(n, t) ==
    /\ ~Blocked(t)
    /\ owner' = [k \in Keys |-> IF k \in {t} \cup Exclusive[t]
                                THEN n ELSE owner[k]]
    /\ members' = [r \in Resources |-> IF r \in Shared[t]
                                       THEN members[r] \cup {n} ELSE members[r]]
    /\ registry' = [registry EXCEPT ![n] = @ \cup {t} \cup Reserved(t)]
    /\ activeOwners' = activeOwners \cup {n}

(* The keys of S that n holds disappear.                                   *)
Drop(n, S) ==
    /\ owner' = [k \in Keys |-> IF k \in S /\ owner[k] = n
                                THEN Nobody ELSE owner[k]]
    /\ members' = [r \in Resources |-> IF r \in S
                                       THEN members[r] \ {n} ELSE members[r]]

(* REDIS_RELEASE_LOCKS_SCRIPT never takes n out of pulp:active_owners.     *)
LocksOf(n, t) ==
    {k \in {t} \cup Exclusive[t] : owner[k] = n} \cup Shared[t]

Release(n, t) ==
    /\ Drop(n, LocksOf(n, t))
    /\ registry' = [registry EXCEPT ![n] = @ \ LocksOf(n, t)]
    /\ UNCHANGED activeOwners

(* cleanup_locks_for_owner(): all that is registered for these names.      *)
CleanupOwners(S) ==
    /\ owner' = [k \in Keys |-> IF owner[k] \in S /\ k \in registry[owner[k]]
                                THEN Nobody ELSE owner[k]]
    /\ members' = [r \in Resources |->
                      {n \in members[r] : ~(n \in S /\ r \in registry[n])}]
    /\ registry' = [n \in Names |-> IF n \in S THEN {} ELSE registry[n]]
    /\ activeOwners' = activeOwners \ S

(* Who works on a task, from the locks to their release.                   *)
ChildLives(w) ==
    child[w] \in {"starting", "running", "ending", "raising", "exiting"}

Working(p) ==
    \/ pc[p] \in {"claim", "claimed", "execute", "run", "release", "unwind"}
    \/ p \in Workers /\ ChildLives(p)

Held(n) == {k \in Keys : \/ owner[k] = n
                         \/ k \in Resources /\ n \in members[k]}

(* The tasks of processes that lose a lock in this step, by another one.   *)
Rob(thieves) ==
    robbed' = robbed \cup
        {task[p] : p \in {q \in Procs \ thieves :
            /\ Working(q)
            /\ \E k \in {task[q]} \cup Reserved(task[q]) :
                  k \in Held(Name[q]) /\ k \notin Held(Name[q])'}}

-----------------------------------------------------------------------------
(***************************************************************************)
(* dispatch().  An API process creates the row of an immediate task with   *)
(* app_lock set to itself.                                                 *)
(***************************************************************************)
InsertRow(t, p) ==
    /\ state[t] = "absent"
    /\ state' = [state EXCEPT ![t] = "waiting"]
    /\ prior' = [prior EXCEPT ![t] = {u \in Tasks : state[u] # "absent"}]
    /\ appLock' = [appLock EXCEPT ![t] = p]

Insert(t) ==
    /\ t \notin Immediate
    /\ InsertRow(t, Nobody)
    /\ UNCHANGED <<procVars, redisVars, signals, cancelReq, scan, supVars,
                   ignored, sweep, history>>

ApiInsert(a, t) ==
    /\ pc[a] = "idle"
    /\ t \in Immediate
    /\ InsertRow(t, a)
    /\ task' = [task EXCEPT ![a] = t]
    /\ Goto(a, "check")
    /\ UNCHANGED <<registered, redisVars, signals, cancelReq, scan, supVars,
                   ignored, sweep, history>>

Blockers(t) == {u \in prior[t] : state[u] \in Incomplete /\ Conflict(t, u)}

Decline(a) == Goto(a, IF task[a] \in Deferred THEN "defer" ELSE "abandon")

(* are_resources_available(): the query for earlier tasks, then the locks. *)
CheckResources(a) ==
    /\ pc[a] = "check"
    /\ IF Blockers(task[a]) = {} THEN Goto(a, "acquire") ELSE Decline(a)
    /\ UNCHANGED <<rowVars, registered, task, redisVars, signals, cancelReq,
                   scan, supVars, ignored, sweep, history>>

ApiAcquire(a) ==
    /\ pc[a] = "acquire"
    /\ IF Blocked(task[a])
       THEN Decline(a) /\ UNCHANGED redisVars
       ELSE Goto(a, "execute") /\ Acquire(Name[a], task[a])
    /\ UNCHANGED <<rowVars, registered, task, signals, cancelReq, scan, supVars,
                   ignored, sweep, history>>

(* Mutant: app_lock is cleared in memory only.                             *)
DeferLocked(a) ==
    /\ pc[a] = "defer"
    /\ Goto(a, "idle")
    /\ task' = [task EXCEPT ![a] = NoTask]
    /\ UNCHANGED <<rowVars, registered, redisVars, signals, cancelReq, scan,
                   supVars, ignored, sweep, history>>

(* UPDATE app_lock = NULL, in whatever state the row is by now.            *)
Defer(a) ==
    /\ pc[a] = "defer"
    /\ appLock' = [appLock EXCEPT ![task[a]] = Nobody]
    /\ Goto(a, "idle")
    /\ task' = [task EXCEPT ![a] = NoTask]
    /\ UNCHANGED <<state, prior, registered, redisVars, signals, cancelReq,
                   scan, supVars, ignored, sweep, history>>

-----------------------------------------------------------------------------
(***************************************************************************)
(* execute_task() in an API process or, for an immediate task that was     *)
(* deferred, in a worker.  The locks are released in its finally clause; an*)
(* exception then fails the request, or ends the worker.                   *)
(***************************************************************************)
SetRunning(p) ==
    LET t == task[p]
        mine == state[t] = "waiting" /\ appLock[t] = p
    IN
    /\ pc[p] = "execute"
    /\ state' = IF mine THEN [state EXCEPT ![t] = "running"] ELSE state
    /\ Goto(p, IF mine THEN "run" ELSE "unwind")
    /\ UNCHANGED <<prior, appLock, registered, task, redisVars, signals,
                   cancelReq, scan, supVars, ignored, sweep, history>>

(* set_completed() accepts a task that is canceling, set_failed() does not.*)
Finish(p) ==
    LET t == task[p]
        mine == state[t] = "running" /\ appLock[t] = p
    IN
    /\ pc[p] = "run"
    /\ \/ /\ mine
          /\ \E s \in {"completed", "failed"} :
                 state' = [state EXCEPT ![t] = s]
          /\ Goto(p, "release")
       \/ state[t] = "canceling" /\ Goto(p, "release") /\ UNCHANGED state
       \/ ~mine /\ Goto(p, "unwind") /\ UNCHANGED state
    /\ UNCHANGED <<prior, appLock, registered, task, redisVars, signals,
                   cancelReq, scan, supVars, ignored, sweep, history>>

(* The end of the process; a child it forked lives on, holding its task.   *)
Die(p) ==
    /\ Goto(p, "dead")
    /\ IF p \in Workers
       THEN /\ scan' = [scan EXCEPT ![p] = NoScan]
            /\ stop' = [stop EXCEPT ![p] = "no"]
            /\ cancelState' = [cancelState EXCEPT ![p] = "no"]
            /\ ignored' = [ignored EXCEPT ![p] = {}]
            /\ sweep' = [sweep EXCEPT ![p] = NoSweep]
       ELSE UNCHANGED <<scan, stop, cancelState, ignored, sweep>>

ReleaseAfter(p) ==
    /\ pc[p] \in {"release", "unwind"}
    /\ Release(Name[p], task[p])
    /\ task' = [task EXCEPT ![p] = NoTask]
    /\ IF p \in Workers /\ pc[p] = "unwind"
       THEN Die(p)
       ELSE /\ Goto(p, IF p \in Workers THEN "fetch" ELSE "idle")
            /\ UNCHANGED <<scan, stop, cancelState, ignored, sweep>>
    /\ Rob({p})
    /\ UNCHANGED <<rowVars, registered, signals, cancelReq, child, leaky>>

(* set_canceling() and set_canceled(): of dispatch(), for a task that can  *)
(* neither run nor wait, and of supervise_task().                          *)
SetCanceling(p) ==
    LET t == task[p] IN
    /\ pc[p] = "abandon"
    /\ state' = IF state[t] \in Incomplete
                THEN [state EXCEPT ![t] = "canceling"] ELSE state
    /\ Goto(p, "finalize")
    /\ UNCHANGED <<prior, appLock, registered, task, redisVars, signals,
                   cancelReq, scan, supVars, ignored, sweep, history>>

FinalState(p) == IF p \in Workers THEN cancelState[p] ELSE "canceled"

SetCanceled(p) ==
    LET t == task[p]
        mine == state[t] = "canceling" /\ appLock[t] = p
    IN
    /\ pc[p] = "finalize"
    /\ state' = IF mine THEN [state EXCEPT ![t] = FinalState(p)] ELSE state
    /\ Goto(p, IF p \in Workers THEN "fetch" ELSE "idle")
    /\ task' = [task EXCEPT ![p] = NoTask]
    /\ IF p \in Workers
       THEN cancelState' = [cancelState EXCEPT ![p] = "no"]
       ELSE UNCHANGED cancelState
    /\ UNCHANGED <<prior, appLock, registered, redisVars, signals, cancelReq,
                   scan, child, stop, ignored, sweep, history>>

-----------------------------------------------------------------------------
(***************************************************************************)
(* The worker.  At startup it frees what an earlier process of its name    *)
(* left, unless the row of that process still looks alive.                 *)
(***************************************************************************)
(* A row expires when its process, and the child of it, are gone.          *)
Gone(p) ==
    /\ pc[p] = "dead"
    /\ p \in Workers => ~ChildLives(p)

(* Two processes that live at the same time never share a name.            *)
Start(w) ==
    /\ pc[w] = "off"
    /\ \A p \in Procs \ {w} : Name[p] = Name[w] => pc[p] \in {"off", "dead"}
    /\ registered' = registered \cup {w}
    /\ Goto(w, "start")
    /\ UNCHANGED <<rowVars, task, redisVars, signals, cancelReq, scan, supVars,
                   ignored, sweep, history>>

(* release_stale_locks_for_self(): the heart beat of a process that has    *)
(* just been killed is young enough to make it look alive.                 *)
ReleaseStale(w) ==
    LET others == {p \in registered \ {w} : Name[p] = Name[w]} IN
    /\ pc[w] = "start"
    /\ Goto(w, "fetch")
    /\ \/ /\ others # {}
          /\ leaky' = IF registry[Name[w]] = {} THEN leaky ELSE leaky \cup {w}
          /\ UNCHANGED <<redisVars, robbed>>
       \/ /\ \A p \in others : Gone(p)
          /\ IF others = {} /\ registry[Name[w]] = {}
             THEN UNCHANGED <<redisVars, robbed>>
             ELSE CleanupOwners({Name[w]}) /\ Rob({})
          /\ UNCHANGED leaky
    /\ UNCHANGED <<rowVars, registered, task, signals, cancelReq, scan, supVars,
                   ignored, sweep>>

(* The query of fetch_task(): what may be claimed and is not ruled out by  *)
(* the reservations of tasks that were looked at before.                   *)
Ruled(t, S) ==
    LET takenExclusive == UNION {Exclusive[u] : u \in S}
        takenShared == UNION {Shared[u] : u \in S}
    IN  \/ Exclusive[t] \cap (takenExclusive \cup takenShared) # {}
        \/ Shared[t] \cap takenExclusive # {}

Candidates(w) ==
    {t \in Tasks : /\ state[t] = "waiting"
                   /\ appLock[t] = Nobody
                   /\ t \notin ignored[w]
                   /\ ~Ruled(t, scan[w].taken)}

Query(w) ==
    LET page == {t \in Candidates(w) :
                    Cardinality(Candidates(w) \cap prior[t]) < Limit}
    IN
    /\ pc[w] = "fetch"
    /\ stop[w] = "no" \/ scan[w].taken # {}
    /\ IF page = {}
       THEN Goto(w, "sleep") /\ scan' = [scan EXCEPT ![w] = NoScan]
       ELSE /\ Goto(w, "scan")
            /\ scan' = [scan EXCEPT ![w].page = page,
                                    ![w].full = Cardinality(page) = Limit]
    /\ UNCHANGED <<rowVars, registered, task, redisVars, signals, cancelReq,
                   supVars, ignored, sweep, history>>

(* The oldest task of the page: whatever comes of it, its reservations     *)
(* count as taken for those behind it.                                     *)
Consider(w, t) ==
    /\ pc[w] = "scan"
    /\ t \in scan[w].page
    /\ scan[w].page \cap prior[t] = {}
    /\ scan' = [scan EXCEPT ![w].page = @ \ {t}, ![w].taken = @ \cup {t}]
    /\ UNCHANGED <<rowVars, registered, signals, cancelReq, supVars, ignored,
                   sweep, history>>

ConsiderLocked(w, t) ==
    /\ Consider(w, t)
    /\ Ruled(t, scan[w].taken) \/ Blocked(t)
    /\ UNCHANGED <<redisVars, pc, task>>

ConsiderFree(w, t) ==
    /\ Consider(w, t)
    /\ ~Ruled(t, scan[w].taken)
    /\ Acquire(Name[w], t)
    /\ task' = [task EXCEPT ![w] = t]
    /\ Goto(w, "claim")

(* The page is through.  A full one is followed by another query.          *)
ScanDone(w) ==
    /\ pc[w] = "scan"
    /\ scan[w].page = {}
    /\ IF scan[w].full
       THEN Goto(w, "fetch") /\ UNCHANGED scan
       ELSE Goto(w, "sleep") /\ scan' = [scan EXCEPT ![w] = NoScan]
    /\ UNCHANGED <<rowVars, registered, task, redisVars, signals, cancelReq,
                   supVars, ignored, sweep, history>>

(* The conditional UPDATE of app_lock decides.                             *)
Claim(w) ==
    LET t == task[w] IN
    /\ pc[w] = "claim"
    /\ IF state[t] = "waiting" /\ appLock[t] = Nobody
       THEN /\ appLock' = [appLock EXCEPT ![t] = w]
            /\ Goto(w, "claimed")
            /\ scan' = [scan EXCEPT ![w] = NoScan]
       ELSE Goto(w, "giveup") /\ UNCHANGED <<appLock, scan>>
    /\ UNCHANGED <<state, prior, registered, task, redisVars, signals,
                   cancelReq, supVars, ignored, sweep, history>>

GiveUp(w) ==
    /\ pc[w] = "giveup"
    /\ Release(Name[w], task[w])
    /\ Rob({w})
    /\ task' = [task EXCEPT ![w] = NoTask]
    /\ Goto(w, "scan")
    /\ UNCHANGED <<rowVars, registered, signals, cancelReq, scan, supVars,
                   ignored, sweep, leaky>>

(* An incompatible worker releases the locks, but not the row.             *)
Ignore(w) ==
    /\ pc[w] = "claimed"
    /\ task[w] \notin Compatible[w]
    /\ ignored' = [ignored EXCEPT ![w] = @ \cup {task[w]}]
    /\ Release(Name[w], task[w])
    /\ Rob({w})
    /\ task' = [task EXCEPT ![w] = NoTask]
    /\ Goto(w, "sleep")
    /\ UNCHANGED <<rowVars, registered, signals, cancelReq, scan, supVars,
                   sweep, leaky>>

ExecuteHere(w) ==
    /\ pc[w] = "claimed"
    /\ task[w] \in Compatible[w] \cap Immediate
    /\ Goto(w, "execute")
    /\ UNCHANGED <<rowVars, registered, task, redisVars, signals, cancelReq,
                   scan, supVars, ignored, sweep, history>>

Spawn(w) ==
    /\ pc[w] = "claimed"
    /\ task[w] \in Compatible[w] \ Immediate
    /\ Goto(w, "supervise")
    /\ child' = [child EXCEPT ![w] = "starting"]
    /\ UNCHANGED <<rowVars, registered, task, redisVars, signals, cancelReq,
                   scan, stop, cancelState, ignored, sweep, history>>

(* sleep() ends by itself: nobody wakes a worker up.                       *)
WakeUp(w) ==
    /\ pc[w] = "sleep"
    /\ sweep[w].at = "no"
    /\ stop[w] = "no"
    /\ Goto(w, "fetch")
    /\ UNCHANGED <<rowVars, registered, task, redisVars, signals, cancelReq,
                   scan, supVars, ignored, sweep, history>>

-----------------------------------------------------------------------------
(***************************************************************************)
(* supervise_task() and the child, which has the AppStatus of its worker.  *)
(* The child releases the locks in a finally clause, also when it has been *)
(* told to exit, unless it is killed first.                                *)
(***************************************************************************)
ChildSetRunning(w) ==
    LET t == task[w]
        mine == state[t] = "waiting" /\ appLock[t] = w
    IN
    /\ child[w] = "starting"
    /\ state' = IF mine THEN [state EXCEPT ![t] = "running"] ELSE state
    /\ child' = [child EXCEPT ![w] = IF mine THEN "running" ELSE "raising"]
    /\ UNCHANGED <<prior, appLock, procVars, redisVars, signals, cancelReq,
                   scan, stop, cancelState, ignored, sweep, history>>

ChildFinish(w) ==
    LET t == task[w]
        mine == state[t] = "running" /\ appLock[t] = w
    IN
    /\ child[w] = "running"
    /\ \/ /\ mine
          /\ \E s \in {"completed", "failed"} :
                 state' = [state EXCEPT ![t] = s]
          /\ child' = [child EXCEPT ![w] = "ending"]
       \/ /\ state[t] = "canceling"
          /\ child' = [child EXCEPT ![w] = "ending"]
          /\ UNCHANGED state
       \/ ~mine /\ child' = [child EXCEPT ![w] = "raising"] /\ UNCHANGED state
    /\ UNCHANGED <<prior, appLock, procVars, redisVars, signals, cancelReq,
                   scan, stop, cancelState, ignored, sweep, history>>

ChildRelease(w) ==
    /\ child[w] \in {"ending", "raising", "exiting"}
    /\ Release(Name[w], task[w])
    /\ Rob({w})
    /\ child' = [child EXCEPT ![w] = IF @ = "raising" THEN "error" ELSE "ok"]
    /\ UNCHANGED <<rowVars, procVars, signals, cancelReq, scan, stop,
                   cancelState, ignored, sweep, leaky>>

(* The child is killed from outside, by the kernel for instance.           *)
ChildDies(w) ==
    /\ w \in Mortal
    /\ ChildLives(w)
    /\ child' = [child EXCEPT ![w] = "killed"]
    /\ UNCHANGED <<rowVars, procVars, redisVars, signals, cancelReq, scan, stop,
                   cancelState, ignored, sweep, history>>

Idle(w) == sweep[w].at = "no"

TakeCancel(w) ==
    /\ pc[w] = "supervise"
    /\ Idle(w)
    /\ task[w] \in signals
    /\ signals' = signals \ {task[w]}
    /\ cancelState' = [cancelState EXCEPT ![w] = "canceled"]
    /\ UNCHANGED <<rowVars, procVars, redisVars, cancelReq, scan, child, stop,
                   ignored, sweep, history>>

TakeStop(w) ==
    /\ pc[w] = "supervise"
    /\ Idle(w)
    /\ stop[w] = "fast"
    /\ cancelState' = [cancelState EXCEPT ![w] = "failed"]
    /\ UNCHANGED <<rowVars, procVars, redisVars, signals, cancelReq, scan, child,
                   stop, ignored, sweep, history>>

(* SIGUSR1: the first one makes the child exit, unless it comes before the *)
(* handler is installed; another one, or one at the wrong time, kills.     *)
Kill(w) ==
    /\ pc[w] = "supervise"
    /\ Idle(w)
    /\ cancelState[w] # "no"
    /\ stop[w] # "graceful"
    /\ ChildLives(w)
    /\ \/ /\ child[w] \in {"starting", "running"}
          /\ child' = [child EXCEPT ![w] = "exiting"]
       \/ /\ child[w] # "running"
          /\ child' = [child EXCEPT ![w] = "killed"]
    /\ UNCHANGED <<rowVars, procVars, redisVars, signals, cancelReq, scan, stop,
                   cancelState, ignored, sweep, history>>

Join(w) ==
    LET final == IF cancelState[w] = "no" /\ child[w] \in {"error", "killed"}
                 THEN "failed" ELSE cancelState[w]
    IN
    /\ pc[w] = "supervise"
    /\ Idle(w)
    /\ child[w] \in {"ok", "error", "killed"}
    /\ cancelState' = [cancelState EXCEPT ![w] = final]
    /\ IF final = "no"
       THEN /\ Goto(w, "fetch")
            /\ task' = [task EXCEPT ![w] = NoTask]
            /\ child' = [child EXCEPT ![w] = "none"]
       ELSE Goto(w, "reload") /\ UNCHANGED <<task, child>>
    /\ UNCHANGED <<rowVars, registered, redisVars, signals, cancelReq, scan,
                   stop, ignored, sweep, history>>

(* Mutant: the locks are left to the child.                                *)
ReloadHolding(w) ==
    /\ pc[w] = "reload"
    /\ child' = [child EXCEPT ![w] = "none"]
    /\ IF state[task[w]] \notin Final
       THEN Goto(w, "abandon") /\ UNCHANGED <<task, cancelState>>
       ELSE /\ Goto(w, "fetch")
            /\ task' = [task EXCEPT ![w] = NoTask]
            /\ cancelState' = [cancelState EXCEPT ![w] = "no"]
    /\ UNCHANGED <<rowVars, registered, redisVars, signals, cancelReq, scan,
                   stop, ignored, sweep, history>>

(* The worker releases for a child that could not, if the task is not in a *)
(* final state, and does so before it cleans up and cancels the task.      *)
Reload(w) ==
    /\ pc[w] = "reload"
    /\ child' = [child EXCEPT ![w] = "none"]
    /\ IF state[task[w]] \notin Final
       THEN /\ Release(Name[w], task[w])
            /\ Rob({w})
            /\ Goto(w, "abandon")
            /\ UNCHANGED <<task, cancelState, leaky>>
       ELSE /\ Goto(w, "fetch")
            /\ task' = [task EXCEPT ![w] = NoTask]
            /\ cancelState' = [cancelState EXCEPT ![w] = "no"]
            /\ leaky' = IF child[w] = "killed" /\ registry[Name[w]] # {}
                        THEN leaky \cup {w} ELSE leaky
            /\ UNCHANGED <<redisVars, robbed>>
    /\ UNCHANGED <<rowVars, registered, signals, cancelReq, scan, stop, ignored,
                   sweep>>

-----------------------------------------------------------------------------
(***************************************************************************)
(* app_worker_cleanup(), under WORKER_CLEANUP_LOCK.  What it does in Redis *)
(* is seen at once, what it does in the database when it commits.          *)
(***************************************************************************)
Attentive(w) ==
    /\ pc[w] = "supervise" \/ (pc[w] = "sleep" /\ stop[w] = "no")
    /\ \A v \in Workers : Idle(v)

DeleteApp(m, locks) ==
    /\ registered' = registered \ {m}
    /\ appLock' = [t \in Tasks |-> IF locks[t] = m THEN Nobody ELSE locks[t]]

(* A process of the same name looks alive until its own row expires.       *)
SweepRead(w, m) ==
    LET others == {p \in registered \ {m} : Name[p] = Name[m]} IN
    /\ Attentive(w)
    /\ m \in registered
    /\ Gone(m)
    /\ \E b \in BOOLEAN :
          /\ IF b THEN others # {} ELSE \A p \in others : Gone(p)
          /\ sweep' = [sweep EXCEPT ![w] =
                [at |-> "release", proc |-> m, names |-> {}, successor |-> b,
                 waiting |-> {t \in Tasks : /\ appLock[t] = m
                                            /\ state[t] = "waiting"}]]
    /\ UNCHANGED <<rowVars, procVars, redisVars, signals, cancelReq, scan,
                   supVars, ignored, history>>

SweepRelease(w) ==
    /\ sweep[w].at = "release"
    /\ sweep' = [sweep EXCEPT ![w].at = "commit"]
    /\ IF sweep[w].successor
       THEN UNCHANGED <<redisVars, robbed>>
       ELSE CleanupOwners({Name[sweep[w].proc]}) /\ Rob({})
    /\ UNCHANGED <<rowVars, procVars, signals, cancelReq, scan, supVars, ignored,
                   leaky>>

(* Tasks that wait lose their app_lock, those that run are failed.         *)
SweepCommit(w) ==
    LET m == sweep[w].proc
        failing == {t \in Tasks \ sweep[w].waiting :
                       appLock[t] = m /\ state[t] \in {"running", "canceling"}}
    IN
    /\ sweep[w].at = "commit"
    /\ state' = [t \in Tasks |-> IF t \in failing THEN "failed" ELSE state[t]]
    /\ DeleteApp(m, [t \in Tasks |->
                        CASE t \in failing -> w
                          [] t \in sweep[w].waiting -> Nobody
                          [] OTHER -> appLock[t]])
    /\ sweep' = [sweep EXCEPT ![w] = NoSweep]
    /\ UNCHANGED <<prior, redisVars, signals, cancelReq, pc, task, scan, supVars,
                   ignored, history>>

(* reconcile_orphan_redis_locks(): owners without any row.                 *)
ReconcileRead(w) ==
    LET orphans == activeOwners \ {Name[p] : p \in registered} IN
    /\ Attentive(w)
    /\ orphans # {}
    /\ sweep' = [sweep EXCEPT ![w].at = "reconcile", ![w].names = orphans]
    /\ UNCHANGED <<rowVars, procVars, redisVars, signals, cancelReq, scan,
                   supVars, ignored, history>>

ReconcileClean(w) ==
    /\ sweep[w].at = "reconcile"
    /\ CleanupOwners(sweep[w].names)
    /\ Rob({})
    /\ sweep' = [sweep EXCEPT ![w] = NoSweep]
    /\ UNCHANGED <<rowVars, procVars, signals, cancelReq, scan, supVars, ignored,
                   leaky>>

CleanupIgnored(w) ==
    /\ Attentive(w)
    /\ \E t \in ignored[w] : state[t] \in Final
    /\ ignored' = [ignored EXCEPT ![w] = {t \in @ : state[t] \notin Final}]
    /\ UNCHANGED <<rowVars, procVars, redisVars, signals, cancelReq, scan,
                   supVars, sweep, history>>

(* run() ends with shutdown(), which deletes the AppStatus row.            *)
Shutdown(w) ==
    /\ pc[w] = "sleep" \/ (pc[w] = "fetch" /\ scan[w].taken = {})
    /\ Idle(w)
    /\ stop[w] # "no"
    /\ DeleteApp(w, appLock)
    /\ Die(w)
    /\ UNCHANGED <<state, prior, redisVars, signals, cancelReq, task, child,
                   history>>

-----------------------------------------------------------------------------
(***************************************************************************)
(* cancel_task(), called by a user.  app_lock was read before the row is   *)
(* set to canceling, and whoever holds the task lock is found out later    *)
(* still.                                                                  *)
(***************************************************************************)
CancelAt(t, step) == cancelReq' = [cancelReq EXCEPT ![t].at = step]

CancelRead(t) ==
    /\ t \in Cancelable
    /\ cancelReq[t].at = "no"
    /\ state[t] \in Incomplete
    /\ CancelAt(t, IF appLock[t] = Nobody THEN "free" ELSE "locked")
    /\ UNCHANGED <<rowVars, procVars, redisVars, signals, scan, supVars, ignored,
                   sweep, history>>

CancelSet(t) ==
    /\ cancelReq[t].at \in {"free", "locked"}
    /\ IF state[t] \in Incomplete
       THEN /\ state' = [state EXCEPT ![t] = "canceling"]
            /\ CancelAt(t, IF cancelReq[t].at = "free" THEN "take"
                                                       ELSE "publish")
       ELSE CancelAt(t, "no") /\ UNCHANGED state
    /\ UNCHANGED <<prior, appLock, procVars, redisVars, signals, scan, supVars,
                   ignored, sweep, history>>

CancelPublish(t) ==
    /\ cancelReq[t].at = "publish"
    /\ signals' = signals \cup {t}
    /\ CancelAt(t, "no")
    /\ UNCHANGED <<rowVars, procVars, redisVars, scan, supVars, ignored, sweep,
                   history>>

(* UPDATE app_lock, without asking who has it by now.                      *)
CancelTake(t) ==
    /\ cancelReq[t].at = "take"
    /\ appLock' = [appLock EXCEPT ![t] = Console]
    /\ CancelAt(t, "finalize")
    /\ UNCHANGED <<state, prior, procVars, redisVars, signals, scan, supVars,
                   ignored, sweep, history>>

CancelFinalize(t) ==
    /\ cancelReq[t].at = "finalize"
    /\ IF state[t] = "canceling" /\ appLock[t] = Console
       THEN state' = [state EXCEPT ![t] = "canceled"] /\ CancelAt(t, "get")
       ELSE CancelAt(t, "no") /\ UNCHANGED state
    /\ UNCHANGED <<prior, appLock, procVars, redisVars, signals, scan, supVars,
                   ignored, sweep, history>>

(* _release_task_locks_any_owner(): ask Redis who holds the task lock, ... *)
CancelGet(t) ==
    /\ cancelReq[t].at = "get"
    /\ cancelReq' = [cancelReq EXCEPT ![t] =
                        IF owner[t] = Nobody
                        THEN NotCanceled
                        ELSE [at |-> "release", owner |-> owner[t]]]
    /\ UNCHANGED <<rowVars, procVars, redisVars, signals, scan, supVars, ignored,
                   sweep, history>>

(* ... then release in the name of that owner.                             *)
CancelRelease(t) ==
    /\ cancelReq[t].at = "release"
    /\ Release(cancelReq[t].owner, t)
    /\ Rob({})
    /\ cancelReq' = [cancelReq EXCEPT ![t] = NotCanceled]
    /\ UNCHANGED <<rowVars, procVars, signals, scan, supVars, ignored, sweep,
                   leaky>>

-----------------------------------------------------------------------------
(***************************************************************************)
(* Signals and crashes.  A failed heart beat stops a worker like SIGINT.   *)
(***************************************************************************)
RequestStop(w) ==
    /\ w \in Mortal
    /\ pc[w] \notin {"off", "dead"}
    /\ \/ stop[w] = "no" /\ stop' = [stop EXCEPT ![w] = "graceful"]
       \/ stop[w] # "fast" /\ stop' = [stop EXCEPT ![w] = "fast"]
    /\ UNCHANGED <<rowVars, procVars, redisVars, signals, cancelReq, scan, child,
                   cancelState, ignored, sweep, history>>

Crash(p) ==
    /\ p \in Mortal
    /\ pc[p] \notin {"off", "dead"}
    /\ Die(p)
    /\ UNCHANGED <<rowVars, registered, redisVars, signals, cancelReq, task,
                   child, history>>

-----------------------------------------------------------------------------
Cancel(t) == \/ CancelSet(t) \/ CancelPublish(t) \/ CancelTake(t)
             \/ CancelFinalize(t) \/ CancelGet(t) \/ CancelRelease(t)

Execute(p) == \/ SetRunning(p) \/ Finish(p) \/ ReleaseAfter(p)
              \/ SetCanceling(p) \/ SetCanceled(p)

Dispatch(a) == CheckResources(a) \/ ApiAcquire(a) \/ Defer(a)

Fetch(w) == \/ Query(w) \/ ScanDone(w) \/ Claim(w) \/ GiveUp(w)
            \/ \E t \in Tasks : ConsiderLocked(w, t) \/ ConsiderFree(w, t)
            \/ Ignore(w) \/ ExecuteHere(w) \/ Spawn(w)

Child(w) == ChildSetRunning(w) \/ ChildFinish(w) \/ ChildRelease(w)

Supervise(w) == \/ TakeCancel(w) \/ TakeStop(w) \/ Kill(w) \/ Join(w)
                \/ Reload(w)

Sweep(w) == SweepRelease(w) \/ SweepCommit(w) \/ ReconcileClean(w)

Maintain(w) == \/ \E m \in Procs : SweepRead(w, m)
               \/ ReconcileRead(w) \/ CleanupIgnored(w)

Worker(w) == \/ Start(w) \/ ReleaseStale(w) \/ Fetch(w) \/ Child(w)
             \/ Supervise(w) \/ Sweep(w) \/ Maintain(w) \/ WakeUp(w)
             \/ Shutdown(w) \/ RequestStop(w) \/ ChildDies(w)

Next == \/ \E t \in Tasks : Insert(t) \/ CancelRead(t) \/ Cancel(t)
        \/ \E a \in Apis : Dispatch(a) \/ \E t \in Tasks : ApiInsert(a, t)
        \/ \E p \in Procs : Execute(p) \/ Crash(p)
        \/ \E w \in Workers : Worker(w)

Spec == Init /\ [][Next]_vars

-----------------------------------------------------------------------------
Executing(t) ==
    \E p \in Procs : /\ task[p] = t
                     /\ pc[p] = "run" \/ (p \in Workers /\ child[p] = "running")

(* "exclusive access while running" (dispatch()), by locks that every      *)
(* process releases in its own name: two tasks that exclude each other are *)
(* never executed together, except after another process has released the  *)
(* locks of one of them, as the cancelation of a waiting task may do.      *)
MutualExclusion ==
    \A t, u \in Tasks :
        Conflict(t, u) /\ Executing(t) /\ Executing(u)
            => {t, u} \cap robbed # {}

(* What the cleanup rests on: the registry of an owner names every lock it *)
(* holds, and pulp:active_owners every owner whose registry is not empty,  *)
(* so that nothing is left behind which only a SCAN would find.            *)
NothingUnregistered ==
    \A n \in Names : /\ Held(n) \subseteq registry[n]
                     /\ registry[n] # {} => n \in activeOwners

(* Whatever the outcome of its last task, a worker that looks for the next *)
(* one holds no lock; else it would find itself locked out.  Excepted are  *)
(* locks left by a child that was killed after it had finished the row, and*)
(* those a restarted worker finds under its name and must not touch.       *)
IdleHoldsNothing ==
    \A w \in Workers :
        pc[w] \in {"fetch", "scan", "sleep"} /\ w \notin leaky
            => Held(Name[w]) = {}

(* A row that no query of any worker finds again as long as the process in *)
(* app_lock lives: given back by an incompatible worker, or left canceling *)
(* by whoever executed it, or had it, when the cancelation came too late.  *)
Forgotten(t) ==
    /\ appLock[t] # Nobody => pc[appLock[t]] # "dead"
    /\ \/ /\ state[t] = "waiting"
          /\ appLock[t] \in Workers
          /\ t \in ignored[appLock[t]]
       \/ state[t] = "canceling"

(* Nothing is going on, and nothing is left for the cleanup.               *)
AtRest ==
    /\ \A a \in Apis : pc[a] \in {"idle", "dead"}
    /\ \A w \in Workers : /\ pc[w] \in {"off", "sleep", "dead"}
                          /\ ~ChildLives(w)
                          /\ Idle(w)
    /\ \A t \in Tasks : cancelReq[t].at = "no"
    /\ \A p \in registered : ~Gone(p)
    /\ activeOwners \subseteq {Name[p] : p \in registered}

(* When all is at rest, every task that is not over can be taken by the    *)
(* next worker that looks: its row is there to be claimed and nobody holds *)
(* a lock that it needs, whatever processes died on the way.  Excepted are *)
(* forgotten tasks, and those whose resources a leak holds.                *)
NothingStuck ==
    AtRest => \A t \in Tasks :
        state[t] \in Incomplete =>
            \/ Forgotten(t)
            \/ \E w \in leaky : pc[w] # "dead"
            \/ state[t] = "waiting" /\ appLock[t] = Nobody /\ ~Blocked(t)

=============================================================================
