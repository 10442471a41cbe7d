------------------------- MODULE RedisTaskingProofs -------------------------
(***************************************************************************)
(* What TLAPS proves of tasking with locks in Redis, for any processes,    *)
(* names, tasks, resources and any number of crashes, restarts, cleanups   *)
(* and cancelations: mutual exclusion, no lock that the registry misses,   *)
(* no lock of an idle worker, and no task that is stuck when all is at     *)
(* rest.                                                                   *)
(***************************************************************************)
EXTENDS RedisTasking, TLAPS

-----------------------------------------------------------------------------
(***************************************************************************)
(* The invariant: where processes may be, and what they then have.         *)
(***************************************************************************)
(* Where a process has a task.                                             *)
Handling == {"check", "acquire", "execute", "run", "release", "unwind", "defer",
             "abandon", "finalize", "claim", "giveup", "claimed", "supervise",
             "reload"}

Alive(p) == pc[p] \notin {"off", "dead"}

(* Where the code of a process may be, with its child.                     *)
Places ==
    /\ \A w \in Workers : pc[w] \in WorkerPcs
    /\ \A a \in Apis : pc[a] \in ApiPcs
    /\ pc[Console] = "idle"

Children ==
    /\ \A p \in Procs : pc[p] \in Handling => task[p] \in Tasks
    /\ \A w \in Workers : child[w] # "none" =>
          pc[w] \in {"supervise", "reload", "dead"} /\ task[w] \in Tasks
    /\ \A w \in Workers : pc[w] = "reload" => child[w] \in {"ok", "error", "killed"}
    /\ \A w \in Workers : pc[w] \in {"reload", "abandon", "finalize"}
                          => cancelState[w] # "no"

Control == Places /\ Children

(* Who has an AppStatus row.                                               *)
Registration ==
    /\ \A p \in Procs : Alive(p) => p \in registered
    /\ \A p \in Procs : pc[p] = "off" => p \notin registered
    /\ \A t \in Tasks : appLock[t] # Nobody => appLock[t] \in registered

Past(t) == state[t] \in {"canceling"} \cup Final

(* One cleanup at a time, of a process that is gone.                       *)
OneSweeps ==
    /\ \A v, w \in Workers : ~Idle(v) /\ ~Idle(w) => v = w
    /\ \A w \in Workers : ~Idle(w) => pc[w] \in {"supervise", "sleep"}

SweptAreGone ==
    \A w \in Workers : sweep[w].at \in {"release", "commit"} =>
        /\ sweep[w].proc \in Procs
        /\ \A m \in Procs : sweep[w].proc = m => Gone(m)
        /\ \A t \in sweep[w].waiting :
              Past(t) \/ (state[t] = "waiting" /\ appLock[t] = sweep[w].proc)

Sweeping == OneSweeps /\ SweptAreGone

(* Cancelations, and what they have seen.                                  *)
Cancelations ==
    \A t \in Tasks :
        /\ cancelReq[t].at \in {"take", "publish", "finalize", "get", "release"}
              => Past(t)
        /\ cancelReq[t].at = "release" => cancelReq[t].owner \in Names

(* Whoever is in app_lock of a task that waits or runs has it in hand, or  *)
(* has put it aside; an API process keeps what it inserts until it is      *)
(* past.                                                                   *)
TendsWaiting(p) ==
    \/ pc[p] \in {"check", "acquire", "execute", "defer", "abandon", "claimed",
                  "reload"}
    \/ /\ pc[p] = "supervise" /\ p \in Workers
       /\ child[p] \in {"starting", "killed"} \/ cancelState[p] # "no"

TendsRunning(p) ==
    \/ pc[p] \in {"run", "reload", "abandon"}
    \/ /\ pc[p] = "supervise" /\ p \in Workers
       /\ child[p] \in {"running", "killed"} \/ cancelState[p] # "no"

RowTended(t) ==
    /\ state[t] = "running" => appLock[t] # Nobody
    /\ \A p \in Procs : appLock[t] = p /\ pc[p] # "dead" =>
          /\ state[t] = "waiting" => \/ p \in Workers /\ t \in ignored[p]
                                     \/ task[p] = t /\ TendsWaiting(p)
          /\ state[t] = "running" => task[p] = t /\ TendsRunning(p)

OwnersTend == \A t \in Tasks : RowTended(t)

ApisTend ==
    \A a \in Apis, t \in Tasks : pc[a] \in Handling /\ task[a] = t =>
        state[t] # "absent" /\ (appLock[t] = a \/ Past(t))

RowsTended == OwnersTend /\ ApisTend

(* Two processes that live at the same time have different names.          *)
Namesakes ==
    \A p, q \in Procs : p # q /\ Name[p] = Name[q] => ~(Alive(p) /\ Alive(q))

(* A task has its locks while somebody works on it, unless it was robbed.  *)
HasLocks(n, t) ==
    /\ \A k \in {t} \cup Exclusive[t] : owner[k] = n
    /\ \A r \in Shared[t] : n \in members[r]

Locks ==
    /\ \A p \in Procs, t \in Tasks :
          Working(p) /\ task[p] = t /\ t \notin robbed => HasLocks(Name[p], t)
    /\ \A p, q \in Procs : \A t, u \in Tasks :
          p # q /\ Working(p) /\ Working(q) /\ task[p] = t /\ task[q] = u
              => t \in robbed \/ u \in robbed \/ (t # u /\ ~Conflict(t, u))

(* What a process holds under its name belongs to its task.                *)
Holding(p) ==
    \/ pc[p] \in {"claim", "claimed", "giveup", "execute", "run", "release",
                  "unwind"}
    \/ /\ p \in Workers /\ pc[p] \in {"supervise", "reload"}
       /\ child[p] \notin {"ok", "error"}

HoldsOnly(n, t) ==
    /\ \A k \in Keys : owner[k] = n => k \in {t} \cup Exclusive[t]
    /\ \A r \in Resources : n \in members[r] => r \in Shared[t]

HoldsNothing(n) ==
    /\ \A k \in Keys : owner[k] # n
    /\ \A r \in Resources : n \notin members[r]

HoldingOf(p) ==
    Alive(p) /\ pc[p] # "start" /\ p \notin leaky =>
        \/ HoldsNothing(Name[p])
        \/ Holding(p) /\ \A t \in Tasks : task[p] = t => HoldsOnly(Name[p], t)

Holdings == \A p \in Procs : HoldingOf(p)

(* The values that TypeOK mentions.                                        *)
States == Incomplete \cup Final \cup {"absent"}
Pcs == ApiPcs \cup WorkerPcs
ChildPcs == {"none", "starting", "running", "ending", "raising", "exiting", "ok",
             "error", "killed"}
Stops == {"no", "graceful", "fast"}
Outcomes == {"no", "canceled", "failed"}
Requests == [at : {"no", "free", "locked", "take", "publish", "finalize", "get",
                   "release"},
             owner : Names \cup {Nobody}]
Scans == [page : SUBSET Tasks, taken : SUBSET Tasks, full : BOOLEAN]
Sweeps == [at : {"no", "release", "commit", "reconcile"},
           proc : Procs \cup {Nobody}, waiting : SUBSET Tasks,
           names : SUBSET Names, successor : BOOLEAN]

(* TypeOK, without what is in Redis.                                       *)
RowTypes ==
    /\ state \in [Tasks -> States]
    /\ prior \in [Tasks -> SUBSET Tasks]
    /\ appLock \in [Tasks -> Procs \cup {Nobody}]
    /\ registered \subseteq Procs
    /\ signals \subseteq Tasks
    /\ cancelReq \in [Tasks -> Requests]
    /\ pc \in [Procs -> Pcs]
    /\ task \in [Procs -> Tasks \cup {NoTask}]
    /\ scan \in [Workers -> Scans]
    /\ child \in [Workers -> ChildPcs]
    /\ stop \in [Workers -> Stops]
    /\ cancelState \in [Workers -> Outcomes]
    /\ ignored \in [Workers -> SUBSET Tasks]
    /\ sweep \in [Workers -> Sweeps]

RedisTypes ==
    /\ owner \in [Keys -> Names \cup {Nobody}]
    /\ members \in [Resources -> SUBSET Names]
    /\ \A r \in Resources : owner[r] = Nobody \/ members[r] = {}
    /\ registry \in [Names -> SUBSET Keys]
    /\ activeOwners \subseteq Names

HistoryTypes == robbed \subseteq Tasks /\ leaky \subseteq Workers

Base ==
    /\ RowTypes /\ Control /\ Registration /\ Sweeping /\ Cancelations
    /\ RowsTended

RedisInv ==
    /\ Base /\ RedisTypes /\ HistoryTypes /\ Namesakes
    /\ NothingUnregistered /\ Locks /\ Holdings

-----------------------------------------------------------------------------
(***************************************************************************)
(* Rows and processes.                                                     *)
(***************************************************************************)
(* What the assumptions on the constants say, in one place: workers, API   *)
(* processes and the console are different, and a process has a name.      *)
LEMMA Facts ==
    /\ Workers \subseteq Procs /\ Apis \subseteq Procs /\ Console \in Procs
    /\ \A p \in Procs : p \in Workers \/ p \in Apis \/ p = Console
    /\ Workers \cap Apis = {} /\ Console \notin Workers /\ Console \notin Apis
    /\ Console \notin Mortal
    /\ Nobody \notin Procs /\ Nobody \notin Names /\ NoTask \notin Tasks
    /\ Name \in [Procs -> Names] /\ \A p \in Procs : Name[p] \in Names
    /\ Tasks \subseteq Keys /\ Resources \subseteq Keys
    /\ \A t \in Tasks : /\ t \notin Resources
                        /\ Exclusive[t] \subseteq Resources
                        /\ Shared[t] \subseteq Resources
                        /\ Exclusive[t] \cap Shared[t] = {}
  BY RedisProcAssumption, RedisTaskAssumption DEF Procs, Keys

(* The records of cancel_task(), of the scan and of the cleanup in their   *)
(* first states.                                                           *)
LEMMA Records ==
    /\ NoScan \in Scans
    /\ NoSweep \in Sweeps /\ NoSweep.at = "no"
    /\ NotCanceled \in Requests /\ NotCanceled.at = "no"
  BY DEF NoScan, Scans, NoSweep, Sweeps, NotCanceled, Requests

(* A step of cancel_task() moves the record of its request from one        *)
(* statement to the next.                                                  *)
LEMMA RequestMoves ==
    ASSUME cancelReq \in [Tasks -> Requests], NEW t \in Tasks,
           NEW x \in {"no", "free", "locked", "take", "publish", "finalize", "get"},
           cancelReq' = [cancelReq EXCEPT ![t].at = x]
    PROVE  /\ cancelReq' \in [Tasks -> Requests]
           /\ cancelReq'[t].at = x
           /\ \A u \in Tasks \ {t} : cancelReq'[u] = cancelReq[u]
<1> DEFINE r == [cancelReq[t] EXCEPT !.at = x]
<1>1. r \in Requests /\ r.at = x
  BY DEF Requests
<1>2. cancelReq' = [cancelReq EXCEPT ![t] = r]
  OBVIOUS
<1> HIDE DEF r
<1> QED BY <1>1, <1>2

(* A step of app_worker_cleanup() moves the record of the cleanup to its   *)
(* next statement.                                                         *)
LEMMA SweepMoves ==
    ASSUME NEW f \in [Workers -> Sweeps], NEW w \in Workers
    PROVE  LET g == [f EXCEPT ![w].at = "commit"]
           IN  /\ g \in [Workers -> Sweeps]
               /\ g[w].at = "commit" /\ g[w].proc = f[w].proc
               /\ g[w].waiting = f[w].waiting
               /\ \A v \in Workers \ {w} : g[v] = f[v]
<1> DEFINE r == [f[w] EXCEPT !.at = "commit"]
<1>1. /\ r \in Sweeps /\ r.at = "commit" /\ r.proc = f[w].proc
      /\ r.waiting = f[w].waiting
  BY DEF Sweeps
<1>2. [f EXCEPT ![w].at = "commit"] = [f EXCEPT ![w] = r]
  OBVIOUS
<1> HIDE DEF r
<1> QED BY <1>1, <1>2

(* fetch_task() that reads a page of tasks changes two fields of the       *)
(* record of its scan at once.                                             *)
LEMMA PageScanned ==
    ASSUME scan \in [Workers -> Scans], NEW w \in Workers,
           NEW page \in SUBSET Tasks, NEW b \in BOOLEAN
    PROVE  [scan EXCEPT ![w].page = page, ![w].full = b] \in [Workers -> Scans]
<1> DEFINE r == [[scan[w] EXCEPT !.page = page] EXCEPT !.full = b]
<1>1. [scan EXCEPT ![w].page = page, ![w].full = b] = [scan EXCEPT ![w] = r]
  OBVIOUS
<1>2. r \in Scans
  BY DEF Scans
<1> HIDE DEF r
<1> QED BY <1>1, <1>2

(* fetch_task() that considers the next task of its page changes the       *)
(* record of its scan at once.                                             *)
LEMMA Considered ==
    ASSUME scan \in [Workers -> Scans], NEW w \in Workers, NEW t \in Tasks,
           scan' = [scan EXCEPT ![w].page = @ \ {t}, ![w].taken = @ \cup {t}]
    PROVE  scan' \in [Workers -> Scans]
<1> DEFINE r == [[scan[w] EXCEPT !.page = @ \ {t}] EXCEPT !.taken = @ \cup {t}]
<1>1. scan' = [scan EXCEPT ![w] = r]
  OBVIOUS
<1>2. r \in Scans
  BY DEF Scans
<1> HIDE DEF r
<1> QED BY <1>1, <1>2

(* The cleanup that reads the owners in pulp:active_owners without an      *)
(* AppStatus row notes them in its record.                                 *)
LEMMA OrphansSwept ==
    ASSUME sweep \in [Workers -> Sweeps], NEW w \in Workers,
           NEW S \in SUBSET Names,
           sweep' = [sweep EXCEPT ![w].at = "reconcile", ![w].names = S]
    PROVE  /\ sweep' \in [Workers -> Sweeps]
           /\ sweep'[w].at = "reconcile"
           /\ \A v \in Workers \ {w} : sweep'[v] = sweep[v]
<1> DEFINE r == [[sweep[w] EXCEPT !.at = "reconcile"] EXCEPT !.names = S]
<1>1. sweep' = [sweep EXCEPT ![w] = r]
  OBVIOUS
<1>2. r \in Sweeps /\ r.at = "reconcile"
  BY DEF Sweeps
<1> HIDE DEF r
<1> QED BY <1>1, <1>2

(* A process that goes on to the next statement of its code stays in that  *)
(* code.                                                                   *)
LEMMA Placed ==
    ASSUME Base, NEW p \in Procs, NEW x, pc' = [pc EXCEPT ![p] = x],
           \/ p \in Workers /\ x \in WorkerPcs
           \/ p \in Apis /\ x \in ApiPcs
    PROVE  /\ Places' /\ pc' \in [Procs -> Pcs]
           /\ pc'[p] = x /\ \A q \in Procs : q # p => pc'[q] = pc[q]
<1>1. pc \in [Procs -> Pcs] /\ Places
  BY DEF Base, RowTypes, Control
<1>2. pc'[p] = x /\ \A q \in Procs : q # p => pc'[q] = pc[q]
  BY <1>1
<1>3. x \in Pcs
  BY DEF Pcs
<1>4. pc' \in [Procs -> Pcs]
  BY <1>1, <1>3
<1>5. \A w \in Workers : pc'[w] \in WorkerPcs
  BY <1>1, <1>2, Facts DEF Places
<1>6. \A a \in Apis : pc'[a] \in ApiPcs
  BY <1>1, <1>2, Facts DEF Places
<1>7. pc'[Console] = "idle"
  BY <1>1, <1>2, Facts DEF Places
<1> QED BY <1>2, <1>4, <1>5, <1>6, <1>7 DEF Places

(* What the step of one process leaves alone of a row: the row itself, and *)
(* what the others have in hand.                                           *)
Others(p) ==
    \A q \in Procs : q # p =>
        /\ pc'[q] = pc[q] /\ task'[q] = task[q]
        /\ q \in Workers => /\ child'[q] = child[q] /\ ignored'[q] = ignored[q]
                            /\ cancelState'[q] = cancelState[q]

SameRow(u) == state'[u] = state[u] /\ appLock'[u] = appLock[u]

(* A row that a step does not write is tended as before, if the process    *)
(* that makes the step still tends it when the row is its own.             *)
LEMMA RowKept ==
    ASSUME NEW p \in Procs, NEW u \in Tasks, RowTended(u), SameRow(u),
           Others(p),
           appLock[u] = p /\ pc'[p] # "dead" =>
              /\ state[u] = "waiting" => \/ p \in Workers /\ u \in ignored'[p]
                                         \/ task'[p] = u /\ TendsWaiting(p)'
              /\ state[u] = "running" => task'[p] = u /\ TendsRunning(p)'
    PROVE  RowTended(u)'
<1>1. state'[u] = "running" => appLock'[u] # Nobody
  BY DEF RowTended, SameRow
<1>2. ASSUME NEW q \in Procs, appLock'[u] = q, pc'[q] # "dead"
      PROVE  /\ state'[u] = "waiting" => \/ q \in Workers /\ u \in ignored'[q]
                                         \/ task'[q] = u /\ TendsWaiting(q)'
             /\ state'[u] = "running" => task'[q] = u /\ TendsRunning(q)'
  <2>1. CASE q = p
    BY <1>2, <2>1 DEF SameRow
  <2>2. CASE q # p
    <3>1. /\ TendsWaiting(q)' <=> TendsWaiting(q)
          /\ TendsRunning(q)' <=> TendsRunning(q)
      BY <2>2 DEF Others, TendsWaiting, TendsRunning
    <3> QED BY <1>2, <2>2, <3>1 DEF Others, SameRow, RowTended
  <2> QED BY <2>1, <2>2
<1> QED BY <1>1, <1>2 DEF RowTended

(* The same for all rows of which a step writes none.                      *)
LEMMA RowsKept ==
    ASSUME RowsTended, NEW p \in Procs, \A u \in Tasks : SameRow(u), Others(p),
           \A u \in Tasks : appLock[u] = p /\ pc'[p] # "dead" =>
              /\ state[u] = "waiting" => \/ p \in Workers /\ u \in ignored'[p]
                                         \/ task'[p] = u /\ TendsWaiting(p)'
              /\ state[u] = "running" => task'[p] = u /\ TendsRunning(p)',
           p \in Apis => pc'[p] \notin Handling
    PROVE  RowsTended'
<1>1. OwnersTend'
  <2> SUFFICES ASSUME NEW u \in Tasks PROVE RowTended(u)'
    BY DEF OwnersTend
  <2> QED BY RowKept DEF RowsTended, OwnersTend
<1>2. ApisTend'
  BY Facts DEF RowsTended, ApisTend, Others, SameRow, Past
<1> QED BY <1>1, <1>2 DEF RowsTended

(* Processes have their tasks and their children as before, if the one     *)
(* that makes the step has.                                                *)
LEMMA ChildrenKept ==
    ASSUME Children, NEW p \in Procs, Others(p),
           pc'[p] \in Handling => task'[p] \in Tasks,
           p \in Workers =>
              /\ child'[p] # "none" => /\ pc'[p] \in {"supervise", "reload", "dead"}
                                       /\ task'[p] \in Tasks
              /\ pc'[p] = "reload" => child'[p] \in {"ok", "error", "killed"}
              /\ pc'[p] \in {"reload", "abandon", "finalize"} => cancelState'[p] # "no"
    PROVE  Children'
<1>1. \A q \in Procs : pc'[q] \in Handling => task'[q] \in Tasks
  BY DEF Children, Others
<1>2. \A w \in Workers : child'[w] # "none" =>
         pc'[w] \in {"supervise", "reload", "dead"} /\ task'[w] \in Tasks
  BY Facts DEF Children, Others
<1>3. \A w \in Workers : pc'[w] = "reload" => child'[w] \in {"ok", "error", "killed"}
  BY Facts DEF Children, Others
<1>4. \A w \in Workers : pc'[w] \in {"reload", "abandon", "finalize"}
                         => cancelState'[w] # "no"
  BY Facts DEF Children, Others
<1> QED BY <1>1, <1>2, <1>3, <1>4 DEF Children

(* A row whose owner a step takes away, or that is past now, is tended.    *)
LEMMA RowFree ==
    ASSUME NEW u \in Tasks,
           \/ appLock'[u] = Nobody /\ state'[u] # "running"
           \/ state'[u] \notin {"waiting", "running"}
    PROVE  RowTended(u)'
  BY Facts DEF RowTended

(* dispatch() keeps the rows, and what their owners have in hand, in       *)
(* order.                                                                  *)
LEMMA BaseDispatch ==
    ASSUME Base, RedisTypes
    PROVE  /\ \A t \in Tasks : Insert(t) => Base'
           /\ \A a \in Apis : \A t \in Tasks : ApiInsert(a, t) => Base'
           /\ \A a \in Apis : CheckResources(a) => Base'
           /\ \A a \in Apis : ApiAcquire(a) => Base'
           /\ \A a \in Apis : Defer(a) => Base'
<1>1. ASSUME NEW t \in Tasks, Insert(t)
      PROVE  Base'
  <2>1. RowTypes'
    BY <1>1, Facts, Records
    DEF Insert, InsertRow, rowVars, procVars, supVars, Base, RowTypes, Control,
        Children, Handling, Incomplete, Final, States, Pcs, ApiPcs, WorkerPcs,
        ChildPcs, Stops, Outcomes
  <2>2. Control'
    BY <1>1, Facts, Records
    DEF Insert, InsertRow, rowVars, procVars, supVars, Base, RowTypes, Control,
        Places, Children, Handling, WorkerPcs, ApiPcs, ChildLives, Final
  <2>3. Registration'
    BY <1>1, Facts, Records
    DEF Insert, InsertRow, rowVars, procVars, supVars, Base, RowTypes, Control,
        Children, Handling, Registration, Alive, Gone, Idle
  <2>4. Sweeping'
    BY <1>1, Facts, Records
    DEF Insert, InsertRow, rowVars, procVars, supVars, Base, RowTypes, Control,
        Children, Sweeping, OneSweeps, SweptAreGone, Past, Idle, Gone,
        ChildLives, Final, Incomplete, RowsTended, ApisTend, Handling,
        Cancelations
  <2>5. Cancelations'
    BY <1>1, Facts, Records
    DEF Insert, InsertRow, rowVars, procVars, supVars, Base, RowTypes, Control,
        Children, Cancelations, Past, Final, Incomplete, Handling
  <2>6. RowsTended'
    <3>1. OwnersTend'
      <4> SUFFICES ASSUME NEW u \in Tasks PROVE RowTended(u)'
        BY DEF OwnersTend
      <4>1. RowTended(u)
        BY DEF Base, RowsTended, OwnersTend
      <4>2. CASE u = t
        BY <4>1, <4>2, <1>1, Facts
        DEF Insert, InsertRow, procVars, supVars, Base, RowTypes, RowTended,
            TendsWaiting, TendsRunning
      <4>3. CASE u # t
        BY <4>1, <4>3, <1>1, Facts
        DEF Insert, InsertRow, procVars, supVars, Base, RowTypes, RowTended,
            TendsWaiting, TendsRunning
      <4> QED BY <4>2, <4>3
    <3>2. ApisTend'
      BY <1>1, Facts
      DEF Insert, InsertRow, procVars, Final, Base, RowTypes, Control, Children,
          RowsTended, ApisTend, Past, Handling
    <3> QED BY <3>1, <3>2 DEF RowsTended
  <2> QED BY <2>1, <2>2, <2>3, <2>4, <2>5, <2>6 DEF Base
<1>2. ASSUME NEW a \in Apis, NEW t \in Tasks, ApiInsert(a, t)
      PROVE  Base'
  <2>1. RowTypes'
    BY <1>2, Facts, Records
    DEF ApiInsert, InsertRow, Goto, rowVars, procVars, supVars, Base, RowTypes,
        Control, Children, Handling, Incomplete, Final, States, Pcs, ApiPcs,
        WorkerPcs, ChildPcs, Stops, Outcomes
  <2>2. Control'
    BY <1>2, Facts, Records
    DEF ApiInsert, InsertRow, Goto, rowVars, procVars, supVars, Base, RowTypes,
        Control, Places, Children, Handling, WorkerPcs, ApiPcs, ChildLives,
        Final
  <2>3. Registration'
    BY <1>2, Facts, Records
    DEF ApiInsert, InsertRow, Goto, rowVars, procVars, supVars, Base, RowTypes,
        Control, Children, Handling, Registration, Alive, Gone, Idle
  <2>4. Sweeping'
    BY <1>2, Facts, Records
    DEF ApiInsert, InsertRow, Goto, rowVars, procVars, supVars, Base, RowTypes,
        Control, Children, Sweeping, OneSweeps, SweptAreGone, Past, Idle, Gone,
        ChildLives, Final, Incomplete, RowsTended, ApisTend, Handling,
        Cancelations
  <2>5. Cancelations'
    BY <1>2, Facts, Records
    DEF ApiInsert, InsertRow, Goto, rowVars, procVars, supVars, Base, RowTypes,
        Control, Children, Cancelations, Past, Final, Incomplete, Handling
  <2>a. /\ pc[a] = "idle" /\ pc' = [pc EXCEPT ![a] = "check"]
        /\ task' = [task EXCEPT ![a] = t]
        /\ state' = [state EXCEPT ![t] = "waiting"] /\ state[t] = "absent"
        /\ appLock' = [appLock EXCEPT ![t] = a] /\ ignored' = ignored
        /\ child' = child /\ cancelState' = cancelState
    BY <1>2 DEF ApiInsert, InsertRow, Goto, supVars
  <2>6. RowsTended'
    <3>1. OwnersTend'
      <4> SUFFICES ASSUME NEW u \in Tasks PROVE RowTended(u)'
        BY DEF OwnersTend
      <4>1. RowTended(u)
        BY DEF Base, RowsTended, OwnersTend
      <4>2. CASE u = t
        BY <4>1, <4>2, <2>a, Facts
        DEF Base, RowTypes, RowTended, TendsWaiting, TendsRunning
      <4>3. CASE u # t
        BY <4>1, <4>3, <2>a, Facts
        DEF Base, RowTypes, RowTended, TendsWaiting, TendsRunning
      <4> QED BY <4>2, <4>3
    <3>2. ApisTend'
      BY <2>a, Facts
      DEF Final, Base, RowTypes, Control, Children, RowsTended, ApisTend, Past,
          Handling
    <3> QED BY <3>1, <3>2 DEF RowsTended
  <2> QED BY <2>1, <2>2, <2>3, <2>4, <2>5, <2>6 DEF Base
<1>3. ASSUME NEW a \in Apis, CheckResources(a)
      PROVE  Base'
  <2>a. PICK x \in {"acquire", "execute", "defer", "abandon"} :
              /\ pc[a] = "check" /\ pc' = [pc EXCEPT ![a] = x]
              /\ UNCHANGED <<rowVars, registered, task, signals, cancelReq,
                             scan, supVars, ignored, sweep>>
    BY <1>3 DEF CheckResources, Decline, Goto
  <2>1. RowTypes'
    BY <2>a, <1>3, Facts
    DEF rowVars, procVars, supVars, Base, RowTypes, Control, Children, Handling,
        Incomplete, Final, States, Pcs, ApiPcs, WorkerPcs, ChildPcs, Stops,
        Outcomes
  <2>2. Control'
    BY <2>a, <1>3, Facts
    DEF rowVars, procVars, supVars, Base, RowTypes, Control, Places, Children,
        Handling, WorkerPcs, ApiPcs, ChildLives, Final
  <2>3. Registration'
    BY <2>a, <1>3, Facts
    DEF rowVars, procVars, supVars, Base, RowTypes, Control, Children, Handling,
        Registration, Alive, Gone, Idle
  <2>4. Sweeping'
    BY <2>a, <1>3, Facts
    DEF rowVars, procVars, supVars, Base, RowTypes, Control, Children, Sweeping,
        OneSweeps, SweptAreGone, Past, Idle, Gone, ChildLives, Final,
        Incomplete, RowsTended, ApisTend, Handling, Cancelations
  <2>5. Cancelations'
    BY <2>a, <1>3, Facts
    DEF rowVars, procVars, supVars, Base, RowTypes, Control, Children,
        Cancelations, Past, Final, Incomplete, Handling
  <2>6. RowsTended'
    BY <2>a, <1>3, Facts
    DEF rowVars, procVars, supVars, Base, RowTypes, Control, Children,
        Registration, RowsTended, OwnersTend, RowTended, ApisTend, TendsWaiting,
        TendsRunning, Past, Handling, ChildLives, Final, Incomplete, Sweeping,
        OneSweeps, SweptAreGone, Cancelations, Gone, Idle
  <2> QED BY <2>1, <2>2, <2>3, <2>4, <2>5, <2>6 DEF Base
<1>4. ASSUME NEW a \in Apis, ApiAcquire(a)
      PROVE  Base'
  <2>a. PICK x \in {"acquire", "execute", "defer", "abandon"} :
              /\ pc[a] = "acquire" /\ pc' = [pc EXCEPT ![a] = x]
              /\ UNCHANGED <<rowVars, registered, task, signals, cancelReq,
                             scan, supVars, ignored, sweep>>
    BY <1>4 DEF ApiAcquire, Decline, Goto
  <2>1. RowTypes'
    BY <2>a, <1>4, Facts
    DEF rowVars, procVars, supVars, Base, RowTypes, Control, Children, Handling,
        Incomplete, Final, States, Pcs, ApiPcs, WorkerPcs, ChildPcs, Stops,
        Outcomes
  <2>2. Control'
    BY <2>a, <1>4, Facts
    DEF rowVars, procVars, supVars, Base, RowTypes, Control, Places, Children,
        Handling, WorkerPcs, ApiPcs, ChildLives, Final
  <2>3. Registration'
    BY <2>a, <1>4, Facts
    DEF rowVars, procVars, supVars, Base, RowTypes, Control, Children, Handling,
        Registration, Alive, Gone, Idle
  <2>4. Sweeping'
    BY <2>a, <1>4, Facts
    DEF rowVars, procVars, supVars, Base, RowTypes, Control, Children, Sweeping,
        OneSweeps, SweptAreGone, Past, Idle, Gone, ChildLives, Final,
        Incomplete, RowsTended, ApisTend, Handling, Cancelations
  <2>5. Cancelations'
    BY <2>a, <1>4, Facts
    DEF rowVars, procVars, supVars, Base, RowTypes, Control, Children,
        Cancelations, Past, Final, Incomplete, Handling
  <2>6. RowsTended'
    BY <2>a, <1>4, Facts
    DEF rowVars, procVars, supVars, Base, RowTypes, Control, Children,
        Registration, RowsTended, OwnersTend, RowTended, ApisTend, TendsWaiting,
        TendsRunning, Past, Handling, ChildLives, Final, Incomplete, Sweeping,
        OneSweeps, SweptAreGone, Cancelations, Gone, Idle
  <2> QED BY <2>1, <2>2, <2>3, <2>4, <2>5, <2>6 DEF Base
<1>5. ASSUME NEW a \in Apis, Defer(a)
      PROVE  Base'
  <2>1. RowTypes'
    BY <1>5, Facts, Records
    DEF Defer, Goto, rowVars, procVars, supVars, Base, RowTypes, Control,
        Children, Handling, Incomplete, Final, States, Pcs, ApiPcs, WorkerPcs,
        ChildPcs, Stops, Outcomes
  <2>2. Control'
    BY <1>5, Facts, Records
    DEF Defer, Goto, rowVars, procVars, supVars, Base, RowTypes, Control,
        Places, Children, Handling, WorkerPcs, ApiPcs, ChildLives, Final
  <2>3. Registration'
    BY <1>5, Facts, Records
    DEF Defer, Goto, rowVars, procVars, supVars, Base, RowTypes, Control,
        Children, Handling, Registration, Alive, Gone, Idle
  <2>4. Sweeping'
    BY <1>5, Facts, Records
    DEF Defer, Goto, rowVars, procVars, supVars, Base, RowTypes, Control,
        Children, Sweeping, OneSweeps, SweptAreGone, Past, Idle, Gone,
        ChildLives, Final, Incomplete, RowsTended, ApisTend, Handling,
        Cancelations
  <2>5. Cancelations'
    BY <1>5, Facts, Records
    DEF Defer, Goto, rowVars, procVars, supVars, Base, RowTypes, Control,
        Children, Cancelations, Past, Final, Incomplete, Handling
  <2>6. RowsTended'
    <3>1. OwnersTend'
      <4> SUFFICES ASSUME NEW u \in Tasks PROVE RowTended(u)'
        BY DEF OwnersTend
      <4>1. RowTended(u)
        BY DEF Base, RowsTended, OwnersTend
      <4>2. /\ pc[a] = "defer" /\ pc' = [pc EXCEPT ![a] = "idle"]
            /\ task' = [task EXCEPT ![a] = NoTask]
            /\ appLock' = [appLock EXCEPT ![task[a]] = Nobody]
            /\ UNCHANGED <<state, child, cancelState, ignored>>
        BY <1>5 DEF Defer, Goto, supVars
      <4>3. a \in Procs /\ a \notin Workers
        BY Facts
      <4>4. CASE u = task[a]
        <5>1. state[u] # "running"
          BY <4>1, <4>2, <4>3, <4>4
          DEF Base, RowsTended, ApisTend, RowTended, TendsRunning, Past, Final,
              Handling
        <5>2. state'[u] # "running" /\ appLock'[u] = Nobody
          BY <4>2, <4>4, <5>1 DEF Base, RowTypes
        <5> QED BY <5>2, RowFree
      <4>5. CASE u # task[a]
        <5>1. SameRow(u) /\ Others(a)
          BY <4>2, <4>3, <4>5 DEF SameRow, Others, Base, RowTypes
        <5>2. appLock[u] # a \/ state[u] \notin {"waiting", "running"}
          BY <4>1, <4>2, <4>3, <4>5 DEF RowTended
        <5> QED BY <4>1, <4>3, <5>1, <5>2, RowKept
      <4> QED BY <4>4, <4>5
    <3>2. ApisTend'
      BY <1>5, Facts, Records
      DEF Defer, Goto, rowVars, procVars, supVars, Base, RowTypes, Control,
          Children, Registration, RowsTended, OwnersTend, RowTended, ApisTend,
          TendsWaiting, TendsRunning, Past, Handling, ChildLives, Final,
          Incomplete, Sweeping, OneSweeps, SweptAreGone, Cancelations, Gone,
          Idle
    <3> QED BY <3>1, <3>2 DEF RowsTended
  <2> QED BY <2>1, <2>2, <2>3, <2>4, <2>5, <2>6 DEF Base
<1> QED BY <1>1, <1>2, <1>3, <1>4, <1>5

(* execute_task(), and cancel_task() of what can neither run nor wait,     *)
(* keep the rows and what their owners have in hand in order.              *)
LEMMA BaseExecute ==
    ASSUME Base, RedisTypes
    PROVE  /\ \A p \in Procs : SetRunning(p) => Base'
           /\ \A p \in Procs : Finish(p) => Base'
           /\ \A p \in Procs : ReleaseAfter(p) => Base'
           /\ \A p \in Procs : SetCanceling(p) => Base'
           /\ \A p \in Procs : SetCanceled(p) => Base'
<1>1. ASSUME NEW p \in Procs, SetRunning(p)
      PROVE  Base'
  <2>a. PICK t \in Tasks :
           /\ t = task[p] /\ pc[p] = "execute"
           /\ UNCHANGED <<prior, appLock, registered, task, signals, cancelReq,
                          scan, supVars, ignored, sweep>>
    BY <1>1, Facts DEF SetRunning, Base, Control, Children, Handling
  <2>b. PICK s \in {state[t], "running"}, x \in {"run", "unwind"} :
           /\ state' = [state EXCEPT ![t] = s]
           /\ pc' = [pc EXCEPT ![p] = x]
           /\ s # state[t] => state[t] = "waiting" /\ appLock[t] = p /\ x = "run"
           /\ x = "run" => s = "running"
           /\ s = state[t] => state[t] # "waiting" \/ appLock[t] # p
    BY <1>1, <2>a DEF SetRunning, Goto, Base, RowTypes
  <2>1. RowTypes'
    BY <2>a, <2>b, Facts
    DEF rowVars, procVars, supVars, Base, RowTypes, Control, Children, Handling,
        Incomplete, Final, States, Pcs, ApiPcs, WorkerPcs, ChildPcs, Stops,
        Outcomes
  <2>2. Control'
    BY <2>a, <2>b, Facts
    DEF rowVars, procVars, supVars, Base, RowTypes, Control, Places, Children,
        Handling, WorkerPcs, ApiPcs, ChildLives, Final
  <2>3. Registration'
    BY <2>a, <2>b, Facts
    DEF rowVars, procVars, supVars, Base, RowTypes, Control, Children, Handling,
        Registration, Alive, Gone, Idle
  <2>4. Sweeping'
    <3>1. OneSweeps'
      BY <2>a, <2>b, Facts
      DEF rowVars, procVars, supVars, Base, RowTypes, Control, Children,
          Sweeping, OneSweeps, SweptAreGone, Past, Idle, Gone, ChildLives,
          Final, Incomplete, RowsTended, ApisTend, Handling, Cancelations
    <3>2. SweptAreGone'
      BY <2>a, <2>b, Facts
      DEF rowVars, procVars, supVars, Base, RowTypes, Control, Children,
          Sweeping, OneSweeps, SweptAreGone, Past, Idle, Gone, ChildLives,
          Final, Incomplete, RowsTended, ApisTend, Handling, Cancelations
    <3> QED BY <3>1, <3>2 DEF Sweeping
  <2>5. Cancelations'
    BY <2>a, <2>b, Facts
    DEF rowVars, procVars, supVars, Base, RowTypes, Control, Children,
        Cancelations, Past, Final, Incomplete, Handling
  <2>6. RowsTended'
    <3>1. OwnersTend'
      <4> SUFFICES ASSUME NEW u \in Tasks PROVE RowTended(u)'
        BY DEF OwnersTend
      <4>1. RowTended(u)
        BY DEF Base, RowsTended, OwnersTend
      <4>2. CASE u = t
        <5>1. /\ pc'[p] = x /\ task'[p] = u /\ state'[u] = s
              /\ appLock' = appLock /\ UNCHANGED <<task, child, cancelState, ignored>>
              /\ \A q \in Procs : q # p => pc'[q] = pc[q]
          BY <4>2, <2>a, <2>b DEF Base, RowTypes, supVars
        <5>2. CASE s # state[u]
          <6>1. appLock'[u] = p /\ s = "running" /\ x = "run"
            BY <4>2, <5>1, <5>2, <2>b
          <6> QED BY <5>1, <6>1, Facts DEF RowTended, TendsRunning
        <5>3. CASE s = state[u]
          <6>1. SameRow(u) /\ Others(p)
            BY <5>1, <5>3 DEF SameRow, Others
          <6>2. appLock[u] = p => state[u] # "waiting" /\ state[u] # "running"
            BY <4>1, <4>2, <5>3, <2>a, <2>b DEF RowTended, TendsRunning
          <6> QED BY <4>1, <6>1, <6>2, RowKept
        <5> QED BY <5>2, <5>3
      <4>3. CASE u # t
        <5>1. state'[u] = state[u] /\ appLock'[u] = appLock[u]
          BY <4>3, <2>a, <2>b DEF Base, RowTypes
        <5>2. \A q \in Procs : q # p => pc'[q] = pc[q]
          BY <2>a, <2>b DEF Base, RowTypes
        <5>3. UNCHANGED <<task, child, cancelState, ignored>>
          BY <2>a, <2>b DEF supVars
        <5>4. appLock[u] = p /\ pc'[p] # "dead" /\ state[u] \in {"waiting", "running"}
              => state[u] = "waiting" /\ p \in Workers /\ u \in ignored[p]
          BY <4>1, <4>3, <2>a, <2>b DEF RowTended
        <5> QED BY <4>1, <5>1, <5>2, <5>3, <5>4
          DEF RowTended, TendsWaiting, TendsRunning
      <4> QED BY <4>2, <4>3
    <3>2. ApisTend'
      BY <2>a, <2>b, Facts
      DEF supVars, Base, RowTypes, RowsTended, ApisTend, Past, Final, Handling
    <3> QED BY <3>1, <3>2 DEF RowsTended
  <2> QED BY <2>1, <2>2, <2>3, <2>4, <2>5, <2>6 DEF Base
<1>2. ASSUME NEW p \in Procs, Finish(p)
      PROVE  Base'
  <2>a. PICK t \in Tasks :
           /\ t = task[p] /\ pc[p] = "run"
           /\ UNCHANGED <<prior, appLock, registered, task, signals, cancelReq,
                          scan, supVars, ignored, sweep>>
    BY <1>2, Facts DEF Finish, Base, Control, Children, Handling
  <2>b. PICK s \in {state[t], "completed", "failed"}, x \in {"release", "unwind"} :
           /\ state' = [state EXCEPT ![t] = s]
           /\ pc' = [pc EXCEPT ![p] = x]
           /\ \/ s # state[t] /\ state[t] = "running"
              \/ s = state[t] /\ (state[t] # "running" \/ appLock[t] # p)
    BY <1>2, <2>a DEF Finish, Goto, Base, RowTypes
  <2>1. RowTypes'
    BY <2>a, <2>b, Facts
    DEF rowVars, procVars, supVars, Base, RowTypes, Control, Children, Handling,
        Incomplete, Final, States, Pcs, ApiPcs, WorkerPcs, ChildPcs, Stops,
        Outcomes
  <2>2. Control'
    BY <2>a, <2>b, Facts
    DEF rowVars, procVars, supVars, Base, RowTypes, Control, Places, Children,
        Handling, WorkerPcs, ApiPcs, ChildLives, Final
  <2>3. Registration'
    BY <2>a, <2>b, Facts
    DEF rowVars, procVars, supVars, Base, RowTypes, Control, Children, Handling,
        Registration, Alive, Gone, Idle
  <2>4. Sweeping'
    <3>1. OneSweeps'
      BY <2>a, <2>b, Facts
      DEF rowVars, procVars, supVars, Base, RowTypes, Control, Children,
          Sweeping, OneSweeps, SweptAreGone, Past, Idle, Gone, ChildLives,
          Final, Incomplete, RowsTended, ApisTend, Handling, Cancelations
    <3>2. SweptAreGone'
      BY <2>a, <2>b, Facts
      DEF rowVars, procVars, supVars, Base, RowTypes, Control, Children,
          Sweeping, OneSweeps, SweptAreGone, Past, Idle, Gone, ChildLives,
          Final, Incomplete, RowsTended, ApisTend, Handling, Cancelations
    <3> QED BY <3>1, <3>2 DEF Sweeping
  <2>5. Cancelations'
    BY <2>a, <2>b, Facts
    DEF rowVars, procVars, supVars, Base, RowTypes, Control, Children,
        Cancelations, Past, Final, Incomplete, Handling
  <2>6. RowsTended'
    <3>1. OwnersTend'
      <4> SUFFICES ASSUME NEW u \in Tasks PROVE RowTended(u)'
        BY DEF OwnersTend
      <4>1. RowTended(u)
        BY DEF Base, RowsTended, OwnersTend
      <4>2. CASE u = t /\ s = state[t]
        BY <4>1, <4>2, <2>a, <2>b, Facts
        DEF supVars, Base, RowTypes, RowTended, TendsWaiting, TendsRunning,
            Final
      <4>4. CASE u = t /\ s # state[t]
        <5>1. state'[u] # "waiting" /\ state'[u] # "running"
          BY <4>4, <2>b DEF Base, RowTypes, Final
        <5> QED BY <5>1 DEF RowTended, TendsWaiting, TendsRunning
      <4>3. CASE u # t
        <5>1. SameRow(u) /\ Others(p)
          BY <4>3, <2>a, <2>b DEF SameRow, Others, supVars, Base, RowTypes
        <5>2. /\ appLock[u] = p => state[u] # "running"
              /\ appLock[u] = p /\ state[u] = "waiting"
                    => p \in Workers /\ u \in ignored'[p]
          BY <4>1, <4>3, <2>a DEF RowTended
        <5> QED BY <4>1, <5>1, <5>2, RowKept
      <4> QED BY <4>2, <4>3, <4>4
    <3>2. ApisTend'
      BY <2>a, <2>b, Facts
      DEF supVars, Base, RowTypes, RowsTended, ApisTend, Past, Final, Handling
    <3> QED BY <3>1, <3>2 DEF RowsTended
  <2> QED BY <2>1, <2>2, <2>3, <2>4, <2>5, <2>6 DEF Base
<1>3. ASSUME NEW p \in Procs, ReleaseAfter(p)
      PROVE  Base'
  <2>a. PICK x \in {"dead", "fetch", "idle"} :
           /\ pc[p] \in {"release", "unwind"} /\ pc' = [pc EXCEPT ![p] = x]
           /\ x = "idle" <=> p \notin Workers
           /\ task' = [task EXCEPT ![p] = NoTask]
           /\ x # "dead" => UNCHANGED <<scan, stop, cancelState, ignored, sweep>>
           /\ UNCHANGED <<rowVars, registered, signals, cancelReq, child>>
    BY <1>3 DEF ReleaseAfter, Die, Goto
  <2>b. /\ p \in Workers \/ p \in Apis
        /\ \A v \in Workers : v # p => /\ cancelState'[v] = cancelState[v]
                                       /\ ignored'[v] = ignored[v]
    <3>1. p # Console
      BY <2>a DEF Base, Control, Places
    <3>2. \A v \in Workers : v # p => /\ cancelState'[v] = cancelState[v]
                                     /\ ignored'[v] = ignored[v]
      BY <1>3 DEF ReleaseAfter, Die, Base, RowTypes
    <3> QED BY <3>1, <3>2, Facts
  <2>c. Places' /\ pc' \in [Procs -> Pcs] /\ pc'[p] = x
    <3>1. \/ p \in Workers /\ x \in WorkerPcs
          \/ p \in Apis /\ x \in ApiPcs
      BY <2>a, <2>b DEF WorkerPcs, ApiPcs
    <3> QED BY <2>a, <3>1, Placed
  <2>d. Others(p)
    BY <2>a, <2>b, Facts DEF Others, Base, RowTypes
  <2>1. RowTypes'
    <3>1. CASE p \in Workers /\ pc[p] = "unwind"
      <4>1. /\ pc' = [pc EXCEPT ![p] = "dead"]
            /\ scan' = [scan EXCEPT ![p] = NoScan]
            /\ stop' = [stop EXCEPT ![p] = "no"]
            /\ cancelState' = [cancelState EXCEPT ![p] = "no"]
            /\ ignored' = [ignored EXCEPT ![p] = {}]
            /\ sweep' = [sweep EXCEPT ![p] = NoSweep]
            /\ task' = [task EXCEPT ![p] = NoTask]
            /\ UNCHANGED <<rowVars, registered, signals, cancelReq, child>>
        BY <3>1, <1>3 DEF ReleaseAfter, Die, Goto
      <4>2. /\ pc' \in [Procs -> Pcs]
            /\ task' \in [Procs -> Tasks \cup {NoTask}]
            /\ scan' \in [Workers -> Scans] /\ sweep' \in [Workers -> Sweeps]
        BY <4>1, Records DEF Base, RowTypes, Pcs, WorkerPcs
      <4>3. /\ stop' \in [Workers -> Stops]
            /\ cancelState' \in [Workers -> Outcomes]
            /\ ignored' \in [Workers -> SUBSET Tasks]
        BY <4>1 DEF Base, RowTypes, Stops, Outcomes
      <4> QED BY <4>1, <4>2, <4>3 DEF Base, RowTypes, rowVars
    <3>2. CASE ~(p \in Workers /\ pc[p] = "unwind")
      <4>1. UNCHANGED <<scan, stop, cancelState, ignored, sweep>>
        BY <3>2, <1>3 DEF ReleaseAfter
      <4>2. task' \in [Procs -> Tasks \cup {NoTask}]
        BY <2>a DEF Base, RowTypes
      <4> QED BY <2>a, <2>c, <4>1, <4>2 DEF Base, RowTypes, rowVars
    <3> QED BY <3>1, <3>2
  <2>2. Control'
    <3>1. x \notin Handling /\ x # "reload"
      BY DEF Handling
    <3>2. p \in Workers => child'[p] = "none"
      BY <2>a DEF Base, Control, Children
    <3>3. Children'
      <4>1. Children
        BY DEF Base, Control
      <4> QED BY <2>c, <2>d, <3>1, <3>2, <4>1, ChildrenKept
    <3> QED BY <2>c, <3>3 DEF Control
  <2>3. Registration'
    <3>1. /\ UNCHANGED <<rowVars,
                         registered>> /\ pc[p] \in {"release", "unwind"}
          /\ \E y \in {"dead", "fetch", "idle"} : pc' = [pc EXCEPT ![p] = y]
      BY <1>3 DEF ReleaseAfter, Die, Goto
    <3> QED BY <3>1 DEF rowVars, Base, RowTypes, Registration, Alive
  <2>4. Sweeping'
    <3>a. PICK y \in {"dead", "fetch", "idle"} : pc' = [pc EXCEPT ![p] = y]
      BY <1>3 DEF ReleaseAfter, Die, Goto
    <3>b. /\ pc[p] \in {"release", "unwind"}
          /\ UNCHANGED <<state, appLock, child>>
          /\ \A v \in Workers : v # p => sweep'[v] = sweep[v]
          /\ p \in Workers => sweep'[p] \in {sweep[p], NoSweep}
      BY <1>3 DEF ReleaseAfter, Die, rowVars, Base, RowTypes
    <3>c. /\ \A v \in Workers : pc[v] # pc'[v] => v = p
          /\ \A v \in Workers : v = p => Idle(v)
      BY <3>a, <3>b, Facts DEF Base, RowTypes, Sweeping, OneSweeps
    <3>d. \A v \in Workers : sweep'[v] = sweep[v] \/ Idle(v)'
      BY <3>b, Records DEF Idle
    <3>e. \A v \in Workers : v = p => Idle(v)'
      BY <3>b, <3>c, Records DEF Idle
    <3>f. \A q \in Procs : Gone(q) => Gone(q)'
      BY <3>a, <3>b DEF Gone, ChildLives, Base, RowTypes
    <3>1. OneSweeps'
      BY <3>c, <3>d, <3>e DEF Base, Sweeping, OneSweeps, Idle
    <3>2. SweptAreGone'
      BY <3>b, <3>d, <3>f DEF Base, Sweeping, SweptAreGone, Idle, Past
    <3> QED BY <3>1, <3>2 DEF Sweeping
  <2>5. Cancelations'
    BY <1>3, Facts, Records
    DEF ReleaseAfter, Die, Goto, rowVars, procVars, supVars, Base, RowTypes,
        Control, Children, Cancelations, Past, Final, Incomplete, Handling
  <2>6. RowsTended'
    <3>1. \A u \in Tasks : SameRow(u)
      BY <2>a DEF SameRow, rowVars
    <3>2. ASSUME NEW u \in Tasks, appLock[u] = p, pc'[p] # "dead"
          PROVE  /\ state[u] = "waiting" => p \in Workers /\ u \in ignored'[p]
                 /\ state[u] # "running"
      <4>1. RowTended(u)
        BY DEF Base, RowsTended, OwnersTend
      <4> QED BY <2>a, <2>c, <3>2, <4>1
        DEF RowTended, TendsWaiting, TendsRunning
    <3>3. p \in Apis => pc'[p] \notin Handling
      BY <2>c DEF Handling
    <3>4. RowsTended
      BY DEF Base
    <3> QED BY <2>d, <3>1, <3>2, <3>3, <3>4, RowsKept
  <2> QED BY <2>1, <2>2, <2>3, <2>4, <2>5, <2>6 DEF Base
<1>4. ASSUME NEW p \in Procs, SetCanceling(p)
      PROVE  Base'
  <2>a. PICK t \in Tasks : t = task[p] /\ pc[p] = "abandon"
    BY <1>4, Facts DEF SetCanceling, Base, Control, Children, Handling
  <2>b. /\ pc' = [pc EXCEPT ![p] = "finalize"]
        /\ UNCHANGED <<prior, appLock, registered, task, signals, cancelReq,
                       scan, supVars, ignored, sweep>>
    BY <1>4 DEF SetCanceling, Goto
  <2>c. PICK s \in {state[t], "canceling"} :
           /\ state' = [state EXCEPT ![t] = s]
           /\ s \in {"canceling", "absent"} \cup Final
           /\ state[t] \in Final => s = state[t]
    BY <1>4, <2>a DEF SetCanceling, Base, RowTypes, States, Incomplete, Final
  <2>1. RowTypes'
    BY <2>a, <2>b, <2>c, Facts
    DEF rowVars, procVars, supVars, Base, RowTypes, Control, Children, Handling,
        Incomplete, Final, States, Pcs, ApiPcs, WorkerPcs, ChildPcs, Stops,
        Outcomes
  <2>2. Control'
    BY <2>a, <2>b, <2>c, Facts
    DEF rowVars, procVars, supVars, Base, RowTypes, Control, Places, Children,
        Handling, WorkerPcs, ApiPcs, ChildLives, Final
  <2>3. Registration'
    BY <2>a, <2>b, <2>c, Facts
    DEF rowVars, procVars, supVars, Base, RowTypes, Control, Children, Handling,
        Registration, Alive, Gone, Idle
  <2>4. Sweeping'
    BY <2>a, <2>b, <2>c, Facts
    DEF rowVars, procVars, supVars, Base, RowTypes, Control, Children, Sweeping,
        OneSweeps, SweptAreGone, Past, Idle, Gone, ChildLives, Final,
        Incomplete, RowsTended, ApisTend, Handling, Cancelations
  <2>5. Cancelations'
    BY <2>a, <2>b, <2>c, Facts
    DEF rowVars, procVars, supVars, Base, RowTypes, Control, Children,
        Cancelations, Past, Final, Incomplete, Handling
  <2>6. RowsTended'
    <3>1. OwnersTend'
      <4> SUFFICES ASSUME NEW u \in Tasks PROVE RowTended(u)'
        BY DEF OwnersTend
      <4>1. RowTended(u)
        BY DEF Base, RowsTended, OwnersTend
      <4>2. CASE u = t /\ s = state[t]
        BY <4>1, <4>2, <2>a, <2>b, <2>c, Facts
        DEF supVars, Base, RowTypes, RowTended, TendsWaiting, TendsRunning,
            Final
      <4>4. CASE u = t /\ s # state[t]
        <5>1. state'[u] # "waiting" /\ state'[u] # "running"
          BY <4>4, <2>c DEF Base, RowTypes, Final
        <5> QED BY <5>1 DEF RowTended, TendsWaiting, TendsRunning
      <4>3. CASE u # t
        <5>1. state'[u] = state[u] /\ appLock'[u] = appLock[u]
          BY <4>3, <2>a, <2>b, <2>c DEF Base, RowTypes
        <5>2. \A q \in Procs : q # p => pc'[q] = pc[q]
          BY <2>a, <2>b, <2>c DEF Base, RowTypes
        <5>3. UNCHANGED <<task, child, cancelState, ignored>>
          BY <2>a, <2>b, <2>c DEF supVars
        <5>4. appLock[u] = p /\ pc'[p] # "dead" /\ state[u] \in {"waiting", "running"}
              => state[u] = "waiting" /\ p \in Workers /\ u \in ignored[p]
          BY <4>1, <4>3, <2>a, <2>b, <2>c DEF RowTended
        <5> QED BY <4>1, <5>1, <5>2, <5>3, <5>4
          DEF RowTended, TendsWaiting, TendsRunning
      <4> QED BY <4>2, <4>3, <4>4
    <3>2. ApisTend'
      BY <2>a, <2>b, <2>c, Facts
      DEF supVars, Base, RowTypes, RowsTended, ApisTend, Past, Final, Handling
    <3> QED BY <3>1, <3>2 DEF RowsTended
  <2> QED BY <2>1, <2>2, <2>3, <2>4, <2>5, <2>6 DEF Base
<1>5. ASSUME NEW p \in Procs, SetCanceled(p)
      PROVE  Base'
  <2>a. PICK t \in Tasks : t = task[p] /\ pc[p] = "finalize"
    BY <1>5, Facts DEF SetCanceled, Base, Control, Children, Handling
  <2>b. /\ task' = [task EXCEPT ![p] = NoTask]
        /\ p \in Workers => /\ pc' = [pc EXCEPT ![p] = "fetch"]
                            /\ cancelState' = [cancelState EXCEPT ![p] = "no"]
        /\ p \notin Workers => /\ pc' = [pc EXCEPT ![p] = "idle"]
                               /\ cancelState' = cancelState
        /\ UNCHANGED <<prior, appLock, registered, signals, cancelReq, scan,
                       child, stop, ignored, sweep>>
    BY <1>5 DEF SetCanceled, Goto
  <2>c. FinalState(p) \in {"canceled", "failed"}
    BY <2>a, Facts DEF FinalState, Base, RowTypes, Outcomes, Control, Children
  <2>d. PICK s \in {state[t], "canceled", "failed"} :
           /\ state' = [state EXCEPT ![t] = s]
           /\ s # state[t] => state[t] = "canceling"
    <3> HIDE DEF FinalState
    <3> QED BY <1>5, <2>a, <2>c DEF SetCanceled, Base, RowTypes
  <2>1. RowTypes'
    <3>1. CASE p \in Workers
      BY <3>1, <2>a, <2>b, <2>d, Facts
      DEF Base, RowTypes, Incomplete, Final, States, Pcs, WorkerPcs, Outcomes
    <3>2. CASE p \notin Workers
      BY <3>2, <2>a, <2>b, <2>d, Facts
      DEF Base, RowTypes, Incomplete, Final, States, Pcs, ApiPcs
    <3> QED BY <3>1, <3>2
  <2>2. Control'
    <3>1. Others(p) /\ pc'[p] \in {"fetch", "idle"} /\ UNCHANGED child
      BY <2>b, Facts DEF Others, Base, RowTypes
    <3>2. Places'
      <4>1. CASE p \in Workers
        BY <2>b, <4>1, Placed DEF WorkerPcs
      <4>2. CASE p \notin Workers
        <5>1. p \in Apis
          BY <2>a, <4>2, Facts DEF Base, Control, Places
        <5> QED BY <2>b, <4>2, <5>1, Placed DEF ApiPcs
      <4> QED BY <4>1, <4>2
    <3>3. pc'[p] \notin Handling /\ pc'[p] # "reload"
      BY <3>1 DEF Handling
    <3>4. p \in Workers => child'[p] = "none"
      BY <2>a, <3>1 DEF Base, Control, Children
    <3>5. Children'
      <4>1. Children
        BY DEF Base, Control
      <4> QED BY <3>1, <3>3, <3>4, <4>1, ChildrenKept
    <3> QED BY <3>2, <3>5 DEF Control
  <2>3. Registration'
    BY <2>a, <2>b, <2>d, Facts
    DEF rowVars, procVars, supVars, Base, RowTypes, Control, Children, Handling,
        Registration, Alive, Gone, Idle
  <2>4. Sweeping'
    BY <2>a, <2>b, <2>d, Facts
    DEF rowVars, procVars, supVars, Base, RowTypes, Control, Children, Sweeping,
        OneSweeps, SweptAreGone, Past, Idle, Gone, ChildLives, Final,
        Incomplete, RowsTended, ApisTend, Handling, Cancelations
  <2>5. Cancelations'
    BY <2>a, <2>b, <2>d, Facts
    DEF rowVars, procVars, supVars, Base, RowTypes, Control, Children,
        Cancelations, Past, Final, Incomplete, Handling
  <2>6. RowsTended'
    BY <2>a, <2>b, <2>d, Facts
    DEF rowVars, procVars, supVars, Base, RowTypes, Control, Children,
        Registration, RowsTended, OwnersTend, RowTended, ApisTend, TendsWaiting,
        TendsRunning, Past, Handling, ChildLives, Final, Incomplete, Sweeping,
        OneSweeps, SweptAreGone, Cancelations, Gone, Idle
  <2> QED BY <2>1, <2>2, <2>3, <2>4, <2>5, <2>6 DEF Base
<1> QED BY <1>1, <1>2, <1>3, <1>4, <1>5

(* The start of a worker, fetch_task() and what the worker does with the   *)
(* task it has fetched keep the rows and what their owners have in hand in *)
(* order.                                                                  *)
LEMMA BaseFetch ==
    ASSUME Base, RedisTypes
    PROVE  /\ \A w \in Workers : Start(w) => Base'
           /\ \A w \in Workers : ReleaseStale(w) => Base'
           /\ \A w \in Workers : Query(w) => Base'
           /\ \A w \in Workers : \A t \in Tasks : ConsiderLocked(w, t) => Base'
           /\ \A w \in Workers : \A t \in Tasks : ConsiderFree(w, t) => Base'
           /\ \A w \in Workers : ScanDone(w) => Base'
           /\ \A w \in Workers : Claim(w) => Base'
           /\ \A w \in Workers : GiveUp(w) => Base'
           /\ \A w \in Workers : Ignore(w) => Base'
           /\ \A w \in Workers : ExecuteHere(w) => Base'
           /\ \A w \in Workers : Spawn(w) => Base'
           /\ \A w \in Workers : WakeUp(w) => Base'
<1>1. ASSUME NEW w \in Workers, Start(w)
      PROVE  Base'
  <2>1. RowTypes'
    BY <1>1, Facts, Records
    DEF Start, Goto, rowVars, procVars, supVars, Base, RowTypes, Control,
        Children, Handling, Incomplete, Final, States, Pcs, ApiPcs, WorkerPcs,
        ChildPcs, Stops, Outcomes
  <2>2. Control'
    BY <1>1, Facts, Records
    DEF Start, Goto, rowVars, procVars, supVars, Base, RowTypes, Control,
        Places, Children, Handling, WorkerPcs, ApiPcs, ChildLives, Final
  <2>3. Registration'
    BY <1>1, Facts, Records
    DEF Start, Goto, rowVars, procVars, supVars, Base, RowTypes, Control,
        Children, Handling, Registration, Alive, Gone, Idle
  <2>4. Sweeping'
    BY <1>1, Facts, Records
    DEF Start, Goto, rowVars, procVars, supVars, Base, RowTypes, Control,
        Children, Sweeping, OneSweeps, SweptAreGone, Past, Idle, Gone,
        ChildLives, Final, Incomplete, RowsTended, ApisTend, Handling,
        Cancelations
  <2>5. Cancelations'
    BY <1>1, Facts, Records
    DEF Start, Goto, rowVars, procVars, supVars, Base, RowTypes, Control,
        Children, Cancelations, Past, Final, Incomplete, Handling
  <2>6. RowsTended'
    BY <1>1, Facts, Records
    DEF Start, Goto, rowVars, procVars, supVars, Base, RowTypes, Control,
        Children, Registration, RowsTended, OwnersTend, RowTended, ApisTend,
        TendsWaiting, TendsRunning, Past, Handling, ChildLives, Final,
        Incomplete, Sweeping, OneSweeps, SweptAreGone, Cancelations, Gone, Idle
  <2> QED BY <2>1, <2>2, <2>3, <2>4, <2>5, <2>6 DEF Base
<1>2. ASSUME NEW w \in Workers, ReleaseStale(w)
      PROVE  Base'
  <2>1. RowTypes'
    BY <1>2, Facts, Records
    DEF ReleaseStale, Goto, rowVars, procVars, supVars, Base, RowTypes, Control,
        Children, Handling, Incomplete, Final, States, Pcs, ApiPcs, WorkerPcs,
        ChildPcs, Stops, Outcomes
  <2>2. Control'
    BY <1>2, Facts, Records
    DEF ReleaseStale, Goto, rowVars, procVars, supVars, Base, RowTypes, Control,
        Places, Children, Handling, WorkerPcs, ApiPcs, ChildLives, Final
  <2>3. Registration'
    BY <1>2, Facts, Records
    DEF ReleaseStale, Goto, rowVars, procVars, supVars, Base, RowTypes, Control,
        Children, Handling, Registration, Alive, Gone, Idle
  <2>4. Sweeping'
    BY <1>2, Facts, Records
    DEF ReleaseStale, Goto, rowVars, procVars, supVars, Base, RowTypes, Control,
        Children, Sweeping, OneSweeps, SweptAreGone, Past, Idle, Gone,
        ChildLives, Final, Incomplete, RowsTended, ApisTend, Handling,
        Cancelations
  <2>5. Cancelations'
    BY <1>2, Facts, Records
    DEF ReleaseStale, Goto, rowVars, procVars, supVars, Base, RowTypes, Control,
        Children, Cancelations, Past, Final, Incomplete, Handling
  <2>6. RowsTended'
    BY <1>2, Facts, Records
    DEF ReleaseStale, Goto, rowVars, procVars, supVars, Base, RowTypes, Control,
        Children, Registration, RowsTended, OwnersTend, RowTended, ApisTend,
        TendsWaiting, TendsRunning, Past, Handling, ChildLives, Final,
        Incomplete, Sweeping, OneSweeps, SweptAreGone, Cancelations, Gone, Idle
  <2> QED BY <2>1, <2>2, <2>3, <2>4, <2>5, <2>6 DEF Base
<1>3. ASSUME NEW w \in Workers, Query(w)
      PROVE  Base'
  <2>a. PICK x \in {"sleep", "scan"} :
           /\ pc[w] = "fetch" /\ pc' = [pc EXCEPT ![w] = x]
           /\ UNCHANGED <<rowVars, registered, task, signals, cancelReq,
                          supVars, ignored, sweep>>
    BY <1>3 DEF Query, Goto
  <2>b. scan' \in [Workers -> Scans]
    <3> DEFINE page == {t \in Candidates(w) :
                          Cardinality(Candidates(w) \cap prior[t]) < Limit}
               b == Cardinality(page) = Limit
    <3>1. page \in SUBSET Tasks /\ b \in BOOLEAN
      BY DEF Candidates
    <3>2. \/ scan' = [scan EXCEPT ![w] = NoScan]
          \/ scan' = [scan EXCEPT ![w].page = page, ![w].full = b]
      BY <1>3 DEF Query
    <3>3. scan \in [Workers -> Scans] /\ NoScan \in Scans
      BY DEF Base, RowTypes, Scans, NoScan
    <3> HIDE DEF page, b
    <3>4. ASSUME scan' = [scan EXCEPT ![w].page = page, ![w].full = b]
          PROVE  scan' \in [Workers -> Scans]
      BY <3>1, <3>3, <3>4, PageScanned
    <3> QED BY <3>2, <3>3, <3>4
  <2>1. RowTypes'
    BY <2>a, <2>b, <1>3, Facts
    DEF rowVars, supVars, Base, RowTypes, Pcs, WorkerPcs
  <2>2. Control'
    BY <2>a, <1>3, Facts
    DEF rowVars, procVars, supVars, Base, RowTypes, Control, Places, Children,
        Handling, WorkerPcs, ApiPcs, ChildLives, Final
  <2>3. Registration'
    BY <2>a, <1>3, Facts
    DEF rowVars, procVars, supVars, Base, RowTypes, Control, Children, Handling,
        Registration, Alive, Gone, Idle
  <2>4. Sweeping'
    BY <2>a, <1>3, Facts
    DEF rowVars, procVars, supVars, Base, RowTypes, Control, Children, Sweeping,
        OneSweeps, SweptAreGone, Past, Idle, Gone, ChildLives, Final,
        Incomplete, RowsTended, ApisTend, Handling, Cancelations
  <2>5. Cancelations'
    BY <2>a, <1>3, Facts
    DEF rowVars, procVars, supVars, Base, RowTypes, Control, Children,
        Cancelations, Past, Final, Incomplete, Handling
  <2>6. RowsTended'
    BY <2>a, <1>3, Facts
    DEF rowVars, procVars, supVars, Base, RowTypes, Control, Children,
        Registration, RowsTended, OwnersTend, RowTended, ApisTend, TendsWaiting,
        TendsRunning, Past, Handling, ChildLives, Final, Incomplete, Sweeping,
        OneSweeps, SweptAreGone, Cancelations, Gone, Idle
  <2> QED BY <2>1, <2>2, <2>3, <2>4, <2>5, <2>6 DEF Base
<1>4. ASSUME NEW w \in Workers, NEW t \in Tasks, ConsiderLocked(w, t)
      PROVE  Base'
  <2>1. RowTypes'
    <3>1. scan' \in [Workers -> Scans]
      BY <1>4, Considered DEF ConsiderLocked, Consider, Base, RowTypes
    <3> QED BY <3>1, <1>4
      DEF ConsiderLocked, Consider, rowVars, supVars, Base, RowTypes
  <2>2. Control'
    BY <1>4, Facts, Records
    DEF ConsiderLocked, Consider, rowVars, procVars, supVars, Base, RowTypes,
        Control, Places, Children, Handling, WorkerPcs, ApiPcs, ChildLives,
        Final
  <2>3. Registration'
    BY <1>4, Facts, Records
    DEF ConsiderLocked, Consider, rowVars, procVars, supVars, Base, RowTypes,
        Control, Children, Handling, Registration, Alive, Gone, Idle
  <2>4. Sweeping'
    BY <1>4, Facts, Records
    DEF ConsiderLocked, Consider, rowVars, procVars, supVars, Base, RowTypes,
        Control, Children, Sweeping, OneSweeps, SweptAreGone, Past, Idle, Gone,
        ChildLives, Final, Incomplete, RowsTended, ApisTend, Handling,
        Cancelations
  <2>5. Cancelations'
    BY <1>4, Facts, Records
    DEF ConsiderLocked, Consider, rowVars, procVars, supVars, Base, RowTypes,
        Control, Children, Cancelations, Past, Final, Incomplete, Handling
  <2>6. RowsTended'
    BY <1>4, Facts, Records
    DEF ConsiderLocked, Consider, rowVars, procVars, supVars, Base, RowTypes,
        Control, Children, Registration, RowsTended, OwnersTend, RowTended,
        ApisTend, TendsWaiting, TendsRunning, Past, Handling, ChildLives, Final,
        Incomplete, Sweeping, OneSweeps, SweptAreGone, Cancelations, Gone, Idle
  <2> QED BY <2>1, <2>2, <2>3, <2>4, <2>5, <2>6 DEF Base
<1>5. ASSUME NEW w \in Workers, NEW t \in Tasks, ConsiderFree(w, t)
      PROVE  Base'
  <2>1. RowTypes'
    <3>1. scan' \in [Workers -> Scans]
      BY <1>5, Considered DEF ConsiderFree, Consider, Base, RowTypes
    <3> QED BY <3>1, <1>5, Facts
      DEF ConsiderFree, Consider, Goto, rowVars, supVars, Base, RowTypes, Pcs,
          WorkerPcs
  <2>2. Control'
    BY <1>5, Facts, Records
    DEF ConsiderFree, Consider, Goto, rowVars, procVars, supVars, Base,
        RowTypes, Control, Places, Children, Handling, WorkerPcs, ApiPcs,
        ChildLives, Final
  <2>3. Registration'
    BY <1>5, Facts, Records
    DEF ConsiderFree, Consider, Goto, rowVars, procVars, supVars, Base,
        RowTypes, Control, Children, Handling, Registration, Alive, Gone, Idle
  <2>4. Sweeping'
    BY <1>5, Facts, Records
    DEF ConsiderFree, Consider, Goto, rowVars, procVars, supVars, Base,
        RowTypes, Control, Children, Sweeping, OneSweeps, SweptAreGone, Past,
        Idle, Gone, ChildLives, Final, Incomplete, RowsTended, ApisTend,
        Handling, Cancelations
  <2>5. Cancelations'
    BY <1>5, Facts, Records
    DEF ConsiderFree, Consider, Goto, rowVars, procVars, supVars, Base,
        RowTypes, Control, Children, Cancelations, Past, Final, Incomplete,
        Handling
  <2>6. RowsTended'
    <3>1. /\ pc[w] = "scan" /\ pc' = [pc EXCEPT ![w] = "claim"]
          /\ task' = [task EXCEPT ![w] = t]
          /\ UNCHANGED <<state, appLock, child, cancelState, ignored>>
      BY <1>5 DEF ConsiderFree, Consider, Goto, rowVars, supVars
    <3>2. Others(w) /\ w \in Procs /\ w \notin Apis /\ \A u \in Tasks : SameRow(u)
      BY <3>1, Facts DEF Others, SameRow, Base, RowTypes
    <3>3. ASSUME NEW u \in Tasks, appLock[u] = w
          PROVE  /\ state[u] = "waiting" => w \in Workers /\ u \in ignored'[w]
                 /\ state[u] # "running"
      <4>1. RowTended(u)
        BY DEF Base, RowsTended, OwnersTend
      <4> QED BY <3>1, <3>2, <3>3, <4>1
        DEF RowTended, TendsWaiting, TendsRunning
    <3>4. RowsTended
      BY DEF Base
    <3> QED BY <3>2, <3>3, <3>4, RowsKept
  <2> QED BY <2>1, <2>2, <2>3, <2>4, <2>5, <2>6 DEF Base
<1>6. ASSUME NEW w \in Workers, ScanDone(w)
      PROVE  Base'
  <2>a. PICK x \in {"fetch", "sleep"} :
           /\ pc[w] = "scan" /\ pc' = [pc EXCEPT ![w] = x]
           /\ scan' = scan \/ scan' = [scan EXCEPT ![w] = NoScan]
           /\ UNCHANGED <<rowVars, registered, task, signals, cancelReq,
                          supVars, ignored, sweep>>
    BY <1>6 DEF ScanDone, Goto
  <2>1. RowTypes'
    <3>1. pc' \in [Procs -> Pcs]
      BY <2>a DEF Base, RowTypes, Pcs, WorkerPcs
    <3>2. scan' \in [Workers -> Scans]
      BY <2>a, Records DEF Base, RowTypes
    <3> QED BY <2>a, <3>1, <3>2 DEF Base, RowTypes, rowVars, supVars
  <2>2. Control'
    BY <2>a, <1>6, Facts, Records
    DEF rowVars, procVars, supVars, Base, RowTypes, Control, Places, Children,
        Handling, WorkerPcs, ApiPcs, ChildLives, Final
  <2>3. Registration'
    BY <2>a, <1>6, Facts, Records
    DEF rowVars, procVars, supVars, Base, RowTypes, Control, Children, Handling,
        Registration, Alive, Gone, Idle
  <2>4. Sweeping'
    BY <2>a, <1>6, Facts, Records
    DEF rowVars, procVars, supVars, Base, RowTypes, Control, Children, Sweeping,
        OneSweeps, SweptAreGone, Past, Idle, Gone, ChildLives, Final,
        Incomplete, RowsTended, ApisTend, Handling, Cancelations
  <2>5. Cancelations'
    BY <2>a, <1>6, Facts, Records
    DEF rowVars, procVars, supVars, Base, RowTypes, Control, Children,
        Cancelations, Past, Final, Incomplete, Handling
  <2>6. RowsTended'
    BY <2>a, <1>6, Facts, Records
    DEF rowVars, procVars, supVars, Base, RowTypes, Control, Children,
        Registration, RowsTended, OwnersTend, RowTended, ApisTend, TendsWaiting,
        TendsRunning, Past, Handling, ChildLives, Final, Incomplete, Sweeping,
        OneSweeps, SweptAreGone, Cancelations, Gone, Idle
  <2> QED BY <2>1, <2>2, <2>3, <2>4, <2>5, <2>6 DEF Base
<1>7. ASSUME NEW w \in Workers, Claim(w)
      PROVE  Base'
  <2> DEFINE t == task[w]
  <2>a. /\ pc[w] = "claim" /\ t \in Tasks
        /\ UNCHANGED <<state, prior, registered, task, signals, cancelReq,
                       supVars, ignored, sweep>>
    BY <1>7, Facts DEF Claim, Base, Control, Children, Handling
  <2>b. \/ /\ state[t] = "waiting" /\ appLock[t] = Nobody
           /\ appLock' = [appLock EXCEPT ![t] = w]
           /\ pc' = [pc EXCEPT ![w] = "claimed"]
           /\ scan' = [scan EXCEPT ![w] = NoScan]
        \/ pc' = [pc EXCEPT ![w] = "giveup"] /\ appLock' = appLock /\ scan' = scan
    BY <1>7 DEF Claim, Goto
  <2>c. PICK x \in {"claimed", "giveup"} : pc' = [pc EXCEPT ![w] = x]
    BY <2>b
  <2>d. Places' /\ pc' \in [Procs -> Pcs] /\ pc'[w] = x
    BY <2>c, Placed, Facts DEF WorkerPcs
  <2>e. Others(w) /\ w \in Procs
    BY <2>a, <2>c, Facts DEF Others, supVars, Base, RowTypes
  <2>1. RowTypes'
    <3>1. appLock' \in [Tasks -> Procs \cup {Nobody}]
      BY <2>a, <2>b, <2>e DEF Base, RowTypes
    <3>2. scan' \in [Workers -> Scans]
      BY <2>b, Records DEF Base, RowTypes
    <3> QED BY <2>a, <2>d, <3>1, <3>2 DEF Base, RowTypes, supVars
  <2>2. Control'
    <3>1. child'[w] = "none" /\ task'[w] \in Tasks /\ Children
      BY <2>a DEF supVars, Base, Control, Children
    <3>2. Children'
      BY <2>d, <2>e, <3>1, ChildrenKept
    <3> QED BY <2>d, <3>2 DEF Control
  <2>3. Registration'
    BY <2>a, <2>b, <1>7, Facts, Records
    DEF rowVars, procVars, supVars, Base, RowTypes, Control, Children, Handling,
        Registration, Alive, Gone, Idle
  <2>4. Sweeping'
    <3>1. OneSweeps'
      BY <2>a, <2>d, <2>e, Facts DEF Base, Sweeping, OneSweeps, Idle, Others
    <3>2. SweptAreGone'
      <4>1. /\ \A u \in Tasks : appLock'[u] = appLock[u] \/ appLock[u] = Nobody
            /\ \A q \in Procs : Gone(q) => Gone(q)'
            /\ state' = state /\ sweep' = sweep
        BY <2>a, <2>b, Facts DEF supVars, Base, RowTypes, Gone, ChildLives
      <4>2. ASSUME NEW v \in Workers, sweep[v].at \in {"release", "commit"},
                   NEW u \in sweep[v].waiting
            PROVE  (Past(u) \/ (state[u] = "waiting" /\ appLock[u] = sweep[v].proc))'
        <5>1. u \in Tasks
          BY DEF Base, RowTypes, Sweeps
        <5> QED BY <5>1, <4>1, <4>2, Facts
          DEF Base, Sweeping, SweptAreGone, Past
      <4> QED BY <4>1, <4>2 DEF Base, Sweeping, SweptAreGone
    <3> QED BY <3>1, <3>2 DEF Sweeping
  <2>5. Cancelations'
    BY <2>a, <2>b, <1>7, Facts, Records
    DEF rowVars, procVars, supVars, Base, RowTypes, Control, Children,
        Cancelations, Past, Final, Incomplete, Handling
  <2>6. RowsTended'
    <3>1. OwnersTend'
      <4> SUFFICES ASSUME NEW u \in Tasks PROVE RowTended(u)'
        BY DEF OwnersTend
      <4>1. RowTended(u)
        BY DEF Base, RowsTended, OwnersTend
      <4>2. CASE appLock' = [appLock EXCEPT ![t] = w] /\ x = "claimed"
                 /\ state[t] = "waiting" /\ u = t
        <5>1. appLock'[u] = w /\ state'[u] = "waiting" /\ task'[w] = u
          BY <4>2, <2>a DEF Base, RowTypes
        <5> QED BY <4>2, <5>1, <2>d, <2>e, Facts DEF RowTended, TendsWaiting
      <4>3. CASE SameRow(u)
        <5>1. appLock[u] = w =>
                 /\ state[u] = "waiting" => w \in Workers /\ u \in ignored'[w]
                 /\ state[u] # "running"
          BY <2>a, <2>e, <4>1 DEF RowTended, TendsWaiting, TendsRunning
        <5> QED BY <2>e, <4>1, <4>3, <5>1, RowKept
      <4>4. \/ SameRow(u)
            \/ appLock' = [appLock EXCEPT ![t] = w] /\ x = "claimed"
               /\ state[t] = "waiting" /\ u = t
        BY <2>a, <2>b, <2>c, <2>d DEF SameRow, Base, RowTypes
      <4> QED BY <4>2, <4>3, <4>4
    <3>2. ApisTend'
      <4>1. \A u \in Tasks : state[u] # "absent" /\ (appLock[u] \in Apis \/ Past(u))
               => SameRow(u)
        BY <2>a, <2>b, Facts DEF SameRow, Base, RowTypes, Past, Final
      <4> QED BY <2>e, <4>1, Facts
        DEF Base, RowsTended, ApisTend, Others, SameRow, Past
    <3> QED BY <3>1, <3>2 DEF RowsTended
  <2> QED BY <2>1, <2>2, <2>3, <2>4, <2>5, <2>6 DEF Base
<1>8. ASSUME NEW w \in Workers, GiveUp(w)
      PROVE  Base'
  <2>1. RowTypes'
    BY <1>8, Facts, Records
    DEF GiveUp, Goto, rowVars, procVars, supVars, Base, RowTypes, Control,
        Children, Handling, Incomplete, Final, States, Pcs, ApiPcs, WorkerPcs,
        ChildPcs, Stops, Outcomes
  <2>2. Control'
    BY <1>8, Facts, Records
    DEF GiveUp, Goto, rowVars, procVars, supVars, Base, RowTypes, Control,
        Places, Children, Handling, WorkerPcs, ApiPcs, ChildLives, Final
  <2>3. Registration'
    BY <1>8, Facts, Records
    DEF GiveUp, Goto, rowVars, procVars, supVars, Base, RowTypes, Control,
        Children, Handling, Registration, Alive, Gone, Idle
  <2>4. Sweeping'
    BY <1>8, Facts, Records
    DEF GiveUp, Goto, rowVars, procVars, supVars, Base, RowTypes, Control,
        Children, Sweeping, OneSweeps, SweptAreGone, Past, Idle, Gone,
        ChildLives, Final, Incomplete, RowsTended, ApisTend, Handling,
        Cancelations
  <2>5. Cancelations'
    BY <1>8, Facts, Records
    DEF GiveUp, Goto, rowVars, procVars, supVars, Base, RowTypes, Control,
        Children, Cancelations, Past, Final, Incomplete, Handling
  <2>6. RowsTended'
    <3>1. /\ pc[w] = "giveup" /\ pc' = [pc EXCEPT ![w] = "scan"]
          /\ task' = [task EXCEPT ![w] = NoTask]
          /\ UNCHANGED <<state, appLock, child, cancelState, ignored>>
      BY <1>8 DEF GiveUp, Goto, rowVars, supVars
    <3>2. Others(w) /\ w \in Procs /\ w \notin Apis /\ \A u \in Tasks : SameRow(u)
      BY <3>1, Facts DEF Others, SameRow, Base, RowTypes
    <3>3. ASSUME NEW u \in Tasks, appLock[u] = w
          PROVE  /\ state[u] = "waiting" => w \in Workers /\ u \in ignored'[w]
                 /\ state[u] # "running"
      <4>1. RowTended(u)
        BY DEF Base, RowsTended, OwnersTend
      <4> QED BY <3>1, <3>2, <3>3, <4>1
        DEF RowTended, TendsWaiting, TendsRunning
    <3>4. RowsTended
      BY DEF Base
    <3> QED BY <3>2, <3>3, <3>4, RowsKept
  <2> QED BY <2>1, <2>2, <2>3, <2>4, <2>5, <2>6 DEF Base
<1>9. ASSUME NEW w \in Workers, Ignore(w)
      PROVE  Base'
  <2>1. RowTypes'
    <3>1. task[w] \in Tasks
      BY <1>9, Facts DEF Ignore, Base, Control, Children, Handling
    <3>2. ignored' \in [Workers -> SUBSET Tasks]
      BY <3>1, <1>9 DEF Ignore, Base, RowTypes
    <3> QED BY <3>2, <1>9, Facts
      DEF Ignore, Goto, rowVars, supVars, Base, RowTypes, Pcs, WorkerPcs
  <2>2. Control'
    BY <1>9, Facts, Records
    DEF Ignore, Goto, rowVars, procVars, supVars, Base, RowTypes, Control,
        Places, Children, Handling, WorkerPcs, ApiPcs, ChildLives, Final
  <2>3. Registration'
    BY <1>9, Facts, Records
    DEF Ignore, Goto, rowVars, procVars, supVars, Base, RowTypes, Control,
        Children, Handling, Registration, Alive, Gone, Idle
  <2>4. Sweeping'
    BY <1>9, Facts, Records
    DEF Ignore, Goto, rowVars, procVars, supVars, Base, RowTypes, Control,
        Children, Sweeping, OneSweeps, SweptAreGone, Past, Idle, Gone,
        ChildLives, Final, Incomplete, RowsTended, ApisTend, Handling,
        Cancelations
  <2>5. Cancelations'
    BY <1>9, Facts, Records
    DEF Ignore, Goto, rowVars, procVars, supVars, Base, RowTypes, Control,
        Children, Cancelations, Past, Final, Incomplete, Handling
  <2>a. PICK t \in Tasks :
           /\ t = task[w]
           /\ pc[w] = "claimed"
           /\ pc' = [pc EXCEPT ![w] = "sleep"]
           /\ task' = [task EXCEPT ![w] = NoTask]
           /\ ignored' = [ignored EXCEPT ![w] = @ \cup {t}]
           /\ UNCHANGED <<state, appLock, child, cancelState>>
    BY <1>9, Facts
    DEF Ignore, Goto, rowVars, supVars, Base, Control, Children, Handling
  <2>6. RowsTended'
    <3>1. OwnersTend'
      <4> SUFFICES ASSUME NEW u \in Tasks PROVE RowTended(u)'
        BY DEF OwnersTend
      <4>1. RowTended(u)
        BY DEF Base, RowsTended, OwnersTend
      <4>2. CASE u = t
        <5>1. u \in ignored'[w] /\ \A q \in Procs \ {w} : pc'[q] = pc[q] /\ task'[q] = task[q]
          BY <4>2, <2>a, Facts DEF Base, RowTypes
        <5>2. ~(appLock[u] = w /\ state[u] = "running")
          BY <4>1, <4>2, <2>a, Facts DEF RowTended, TendsRunning
        <5> QED BY <4>1, <5>1, <5>2, <2>a, Facts
            DEF RowTended, TendsWaiting, TendsRunning
      <4>3. CASE u # t
        BY <4>1, <4>3, <2>a, Facts
        DEF Base, RowTypes, RowTended, TendsWaiting, TendsRunning
      <4> QED BY <4>2, <4>3
    <3>2. ApisTend'
      BY <2>a, Facts
      DEF Final, Base, RowTypes, Control, Children, RowsTended, ApisTend, Past,
          Handling
    <3> QED BY <3>1, <3>2 DEF RowsTended
  <2> QED BY <2>1, <2>2, <2>3, <2>4, <2>5, <2>6 DEF Base
<1>10. ASSUME NEW w \in Workers, ExecuteHere(w)
      PROVE  Base'
  <2>1. RowTypes'
    BY <1>10, Facts, Records
    DEF ExecuteHere, Goto, rowVars, procVars, supVars, Base, RowTypes, Control,
        Children, Handling, Incomplete, Final, States, Pcs, ApiPcs, WorkerPcs,
        ChildPcs, Stops, Outcomes
  <2>2. Control'
    BY <1>10, Facts, Records
    DEF ExecuteHere, Goto, rowVars, procVars, supVars, Base, RowTypes, Control,
        Places, Children, Handling, WorkerPcs, ApiPcs, ChildLives, Final
  <2>3. Registration'
    BY <1>10, Facts, Records
    DEF ExecuteHere, Goto, rowVars, procVars, supVars, Base, RowTypes, Control,
        Children, Handling, Registration, Alive, Gone, Idle
  <2>4. Sweeping'
    BY <1>10, Facts, Records
    DEF ExecuteHere, Goto, rowVars, procVars, supVars, Base, RowTypes, Control,
        Children, Sweeping, OneSweeps, SweptAreGone, Past, Idle, Gone,
        ChildLives, Final, Incomplete, RowsTended, ApisTend, Handling,
        Cancelations
  <2>5. Cancelations'
    BY <1>10, Facts, Records
    DEF ExecuteHere, Goto, rowVars, procVars, supVars, Base, RowTypes, Control,
        Children, Cancelations, Past, Final, Incomplete, Handling
  <2>6. RowsTended'
    BY <1>10, Facts, Records
    DEF ExecuteHere, Goto, rowVars, procVars, supVars, Base, RowTypes, Control,
        Children, Registration, RowsTended, OwnersTend, RowTended, ApisTend,
        TendsWaiting, TendsRunning, Past, Handling, ChildLives, Final,
        Incomplete, Sweeping, OneSweeps, SweptAreGone, Cancelations, Gone, Idle
  <2> QED BY <2>1, <2>2, <2>3, <2>4, <2>5, <2>6 DEF Base
<1>11. ASSUME NEW w \in Workers, Spawn(w)
      PROVE  Base'
  <2>1. RowTypes'
    BY <1>11, Facts, Records
    DEF Spawn, Goto, rowVars, procVars, supVars, Base, RowTypes, Control,
        Children, Handling, Incomplete, Final, States, Pcs, ApiPcs, WorkerPcs,
        ChildPcs, Stops, Outcomes
  <2>2. Control'
    BY <1>11, Facts, Records
    DEF Spawn, Goto, rowVars, procVars, supVars, Base, RowTypes, Control,
        Places, Children, Handling, WorkerPcs, ApiPcs, ChildLives, Final
  <2>3. Registration'
    BY <1>11, Facts, Records
    DEF Spawn, Goto, rowVars, procVars, supVars, Base, RowTypes, Control,
        Children, Handling, Registration, Alive, Gone, Idle
  <2>4. Sweeping'
    BY <1>11, Facts, Records
    DEF Spawn, Goto, rowVars, procVars, supVars, Base, RowTypes, Control,
        Children, Sweeping, OneSweeps, SweptAreGone, Past, Idle, Gone,
        ChildLives, Final, Incomplete, RowsTended, ApisTend, Handling,
        Cancelations
  <2>5. Cancelations'
    BY <1>11, Facts, Records
    DEF Spawn, Goto, rowVars, procVars, supVars, Base, RowTypes, Control,
        Children, Cancelations, Past, Final, Incomplete, Handling
  <2>6. RowsTended'
    BY <1>11, Facts, Records
    DEF Spawn, Goto, rowVars, procVars, supVars, Base, RowTypes, Control,
        Children, Registration, RowsTended, OwnersTend, RowTended, ApisTend,
        TendsWaiting, TendsRunning, Past, Handling, ChildLives, Final,
        Incomplete, Sweeping, OneSweeps, SweptAreGone, Cancelations, Gone, Idle
  <2> QED BY <2>1, <2>2, <2>3, <2>4, <2>5, <2>6 DEF Base
<1>12. ASSUME NEW w \in Workers, WakeUp(w)
      PROVE  Base'
  <2>1. RowTypes'
    BY <1>12, Facts, Records
    DEF WakeUp, Goto, rowVars, procVars, supVars, Base, RowTypes, Control,
        Children, Handling, Incomplete, Final, States, Pcs, ApiPcs, WorkerPcs,
        ChildPcs, Stops, Outcomes
  <2>2. Control'
    BY <1>12, Facts, Records
    DEF WakeUp, Goto, rowVars, procVars, supVars, Base, RowTypes, Control,
        Places, Children, Handling, WorkerPcs, ApiPcs, ChildLives, Final
  <2>3. Registration'
    BY <1>12, Facts, Records
    DEF WakeUp, Goto, rowVars, procVars, supVars, Base, RowTypes, Control,
        Children, Handling, Registration, Alive, Gone, Idle
  <2>4. Sweeping'
    BY <1>12, Facts, Records
    DEF WakeUp, Goto, rowVars, procVars, supVars, Base, RowTypes, Control,
        Children, Sweeping, OneSweeps, SweptAreGone, Past, Idle, Gone,
        ChildLives, Final, Incomplete, RowsTended, ApisTend, Handling,
        Cancelations
  <2>5. Cancelations'
    BY <1>12, Facts, Records
    DEF WakeUp, Goto, rowVars, procVars, supVars, Base, RowTypes, Control,
        Children, Cancelations, Past, Final, Incomplete, Handling
  <2>6. RowsTended'
    BY <1>12, Facts, Records
    DEF WakeUp, Goto, rowVars, procVars, supVars, Base, RowTypes, Control,
        Children, Registration, RowsTended, OwnersTend, RowTended, ApisTend,
        TendsWaiting, TendsRunning, Past, Handling, ChildLives, Final,
        Incomplete, Sweeping, OneSweeps, SweptAreGone, Cancelations, Gone, Idle
  <2> QED BY <2>1, <2>2, <2>3, <2>4, <2>5, <2>6 DEF Base
<1> QED BY <1>1, <1>2, <1>3, <1>4, <1>5, <1>6, <1>7, <1>8, <1>9, <1>10, <1>11,
     <1>12

(* The child that executes a task and the worker that supervises it, kills *)
(* it or finds it dead keep the rows and their owners in order.            *)
LEMMA BaseSupervise ==
    ASSUME Base, RedisTypes
    PROVE  /\ \A w \in Workers : ChildSetRunning(w) => Base'
           /\ \A w \in Workers : ChildFinish(w) => Base'
           /\ \A w \in Workers : ChildRelease(w) => Base'
           /\ \A w \in Workers : ChildDies(w) => Base'
           /\ \A w \in Workers : TakeCancel(w) => Base'
           /\ \A w \in Workers : TakeStop(w) => Base'
           /\ \A w \in Workers : Kill(w) => Base'
           /\ \A w \in Workers : Join(w) => Base'
           /\ \A w \in Workers : Reload(w) => Base'
<1>1. ASSUME NEW w \in Workers, ChildSetRunning(w)
      PROVE  Base'
  <2>1. RowTypes'
    BY <1>1, Facts, Records
    DEF ChildSetRunning, rowVars, procVars, supVars, Base, RowTypes, Control,
        Children, Handling, Incomplete, Final, States, Pcs, ApiPcs, WorkerPcs,
        ChildPcs, Stops, Outcomes
  <2>2. Control'
    BY <1>1, Facts, Records
    DEF ChildSetRunning, rowVars, procVars, supVars, Base, RowTypes, Control,
        Places, Children, Handling, WorkerPcs, ApiPcs, ChildLives, Final
  <2>3. Registration'
    BY <1>1, Facts, Records
    DEF ChildSetRunning, rowVars, procVars, supVars, Base, RowTypes, Control,
        Children, Handling, Registration, Alive, Gone, Idle
  <2>4. Sweeping'
    BY <1>1, Facts, Records
    DEF ChildSetRunning, rowVars, procVars, supVars, Base, RowTypes, Control,
        Children, Sweeping, OneSweeps, SweptAreGone, Past, Idle, Gone,
        ChildLives, Final, Incomplete, RowsTended, ApisTend, Handling,
        Cancelations
  <2>5. Cancelations'
    BY <1>1, Facts, Records
    DEF ChildSetRunning, rowVars, procVars, supVars, Base, RowTypes, Control,
        Children, Cancelations, Past, Final, Incomplete, Handling
  <2>a. PICK t \in Tasks : t = task[w] /\ child[w] = "starting"
    BY <1>1, Facts DEF ChildSetRunning, Base, Control, Children
  <2>b. UNCHANGED <<appLock, pc, task, cancelState, ignored>>
    BY <1>1 DEF ChildSetRunning, procVars
  <2>c. \/ /\ state[t] = "waiting" /\ appLock[t] = w
           /\ state' = [state EXCEPT ![t] = "running"]
           /\ child' = [child EXCEPT ![w] = "running"]
        \/ /\ state[t] # "waiting" \/ appLock[t] # w
           /\ state' = state /\ child' = [child EXCEPT ![w] = "raising"]
    BY <1>1, <2>a DEF ChildSetRunning
  <2>d. pc[w] \in {"supervise", "reload", "dead"}
    BY <2>a DEF Base, Control, Children
  <2>6. RowsTended'
    <3>1. OwnersTend'
      <4> SUFFICES ASSUME NEW u \in Tasks PROVE RowTended(u)'
        BY DEF OwnersTend
      <4>1. RowTended(u)
        BY DEF Base, RowsTended, OwnersTend
      <4>2. CASE u = t /\ state'[u] = state[u]
        BY <4>1, <4>2, <2>a, <2>b, <2>c, <2>d, Facts
        DEF Base, RowTypes, RowTended, TendsWaiting, TendsRunning
      <4>3. CASE u = t /\ state'[u] # state[u]
        BY <4>1, <4>3, <2>a, <2>b, <2>c, <2>d, Facts
        DEF Base, RowTypes, RowTended, TendsWaiting, TendsRunning
      <4>4. CASE u # t
        BY <4>1, <4>4, <2>a, <2>b, <2>c, <2>d, Facts
        DEF Base, RowTypes, RowTended, TendsWaiting, TendsRunning
      <4> QED BY <4>2, <4>3, <4>4
    <3>2. ApisTend'
      BY <2>a, <2>b, <2>c, Facts
      DEF Final, Base, RowTypes, Control, Children, RowsTended, ApisTend, Past,
          Handling
    <3> QED BY <3>1, <3>2 DEF RowsTended
  <2> QED BY <2>1, <2>2, <2>3, <2>4, <2>5, <2>6 DEF Base
<1>2. ASSUME NEW w \in Workers, ChildFinish(w)
      PROVE  Base'
  <2>a. PICK t \in Tasks :
           /\ t = task[w] /\ child[w] = "running"
           /\ UNCHANGED <<prior, appLock, procVars, signals, cancelReq, scan,
                          stop, cancelState, ignored, sweep>>
    BY <1>2, Facts DEF ChildFinish, Base, Control, Children
  <2>b. PICK s \in {state[t], "completed", "failed"}, x \in {"ending", "raising"} :
           /\ state' = [state EXCEPT ![t] = s]
           /\ child' = [child EXCEPT ![w] = x]
           /\ \/ s # state[t] /\ state[t] = "running"
              \/ s = state[t] /\ (state[t] # "running" \/ appLock[t] # w)
    BY <1>2, <2>a DEF ChildFinish, Base, RowTypes
  <2>1. RowTypes'
    BY <2>a, <2>b, Facts
    DEF rowVars, procVars, supVars, Base, RowTypes, Control, Children, Handling,
        Incomplete, Final, States, Pcs, ApiPcs, WorkerPcs, ChildPcs, Stops,
        Outcomes
  <2>2. Control'
    BY <2>a, <2>b, Facts
    DEF rowVars, procVars, supVars, Base, RowTypes, Control, Places, Children,
        Handling, WorkerPcs, ApiPcs, ChildLives, Final
  <2>3. Registration'
    BY <2>a, <2>b, Facts
    DEF rowVars, procVars, supVars, Base, RowTypes, Control, Children, Handling,
        Registration, Alive, Gone, Idle
  <2>4. Sweeping'
    <3>1. OneSweeps'
      BY <2>a, <2>b, Facts
      DEF rowVars, procVars, supVars, Base, RowTypes, Control, Children,
          Sweeping, OneSweeps, SweptAreGone, Past, Idle, Gone, ChildLives,
          Final, Incomplete, RowsTended, ApisTend, Handling, Cancelations
    <3>2. SweptAreGone'
      BY <2>a, <2>b, Facts
      DEF rowVars, procVars, supVars, Base, RowTypes, Control, Children,
          Sweeping, OneSweeps, SweptAreGone, Past, Idle, Gone, ChildLives,
          Final, Incomplete, RowsTended, ApisTend, Handling, Cancelations
    <3> QED BY <3>1, <3>2 DEF Sweeping
  <2>5. Cancelations'
    BY <2>a, <2>b, Facts
    DEF rowVars, procVars, supVars, Base, RowTypes, Control, Children,
        Cancelations, Past, Final, Incomplete, Handling
  <2>6. RowsTended'
    <3>1. OwnersTend'
      <4> SUFFICES ASSUME NEW u \in Tasks PROVE RowTended(u)'
        BY DEF OwnersTend
      <4>1. RowTended(u)
        BY DEF Base, RowsTended, OwnersTend
      <4>2. CASE u = t /\ s = state[t]
        BY <4>1, <4>2, <2>a, <2>b, Facts
        DEF procVars, Base, RowTypes, RowTended, TendsWaiting, TendsRunning
      <4>4. CASE u = t /\ s # state[t]
        <5>1. state'[u] # "waiting" /\ state'[u] # "running"
          BY <4>4, <2>b DEF Base, RowTypes
        <5> QED BY <5>1 DEF RowTended, TendsWaiting, TendsRunning
      <4>3. CASE u # t
        BY <4>1, <4>3, <2>a, <2>b, Facts
        DEF rowVars, procVars, supVars, Base, RowTypes, RowTended, TendsWaiting,
            TendsRunning, Control, Children, Handling, Registration, Final,
            Incomplete
      <4> QED BY <4>2, <4>3, <4>4
    <3>2. ApisTend'
      BY <2>a, <2>b, Facts
      DEF rowVars, procVars, supVars, Base, RowTypes, RowsTended, ApisTend, Past,
          Final, Incomplete, Handling
    <3> QED BY <3>1, <3>2 DEF RowsTended
  <2> QED BY <2>1, <2>2, <2>3, <2>4, <2>5, <2>6 DEF Base
<1>3. ASSUME NEW w \in Workers, ChildRelease(w)
      PROVE  Base'
  <2>1. RowTypes'
    BY <1>3, Facts, Records
    DEF ChildRelease, rowVars, procVars, supVars, Base, RowTypes, Control,
        Children, Handling, Incomplete, Final, States, Pcs, ApiPcs, WorkerPcs,
        ChildPcs, Stops, Outcomes
  <2>2. Control'
    BY <1>3, Facts, Records
    DEF ChildRelease, rowVars, procVars, supVars, Base, RowTypes, Control,
        Places, Children, Handling, WorkerPcs, ApiPcs, ChildLives, Final
  <2>3. Registration'
    BY <1>3, Facts, Records
    DEF ChildRelease, rowVars, procVars, supVars, Base, RowTypes, Control,
        Children, Handling, Registration, Alive, Gone, Idle
  <2>4. Sweeping'
    BY <1>3, Facts, Records
    DEF ChildRelease, rowVars, procVars, supVars, Base, RowTypes, Control,
        Children, Sweeping, OneSweeps, SweptAreGone, Past, Idle, Gone,
        ChildLives, Final, Incomplete, RowsTended, ApisTend, Handling,
        Cancelations
  <2>5. Cancelations'
    BY <1>3, Facts, Records
    DEF ChildRelease, rowVars, procVars, supVars, Base, RowTypes, Control,
        Children, Cancelations, Past, Final, Incomplete, Handling
  <2>6. RowsTended'
    BY <1>3, Facts, Records
    DEF ChildRelease, rowVars, procVars, supVars, Base, RowTypes, Control,
        Children, Registration, RowsTended, OwnersTend, RowTended, ApisTend,
        TendsWaiting, TendsRunning, Past, Handling, ChildLives, Final,
        Incomplete, Sweeping, OneSweeps, SweptAreGone, Cancelations, Gone, Idle
  <2> QED BY <2>1, <2>2, <2>3, <2>4, <2>5, <2>6 DEF Base
<1>4. ASSUME NEW w \in Workers, ChildDies(w)
      PROVE  Base'
  <2>1. RowTypes'
    BY <1>4, Facts, Records
    DEF ChildDies, rowVars, procVars, supVars, Base, RowTypes, Control,
        Children, Handling, Incomplete, Final, States, Pcs, ApiPcs, WorkerPcs,
        ChildPcs, Stops, Outcomes
  <2>2. Control'
    BY <1>4, Facts, Records
    DEF ChildDies, rowVars, procVars, supVars, Base, RowTypes, Control, Places,
        Children, Handling, WorkerPcs, ApiPcs, ChildLives, Final
  <2>3. Registration'
    BY <1>4, Facts, Records
    DEF ChildDies, rowVars, procVars, supVars, Base, RowTypes, Control,
        Children, Handling, Registration, Alive, Gone, Idle
  <2>4. Sweeping'
    BY <1>4, Facts, Records
    DEF ChildDies, rowVars, procVars, supVars, Base, RowTypes, Control,
        Children, Sweeping, OneSweeps, SweptAreGone, Past, Idle, Gone,
        ChildLives, Final, Incomplete, RowsTended, ApisTend, Handling,
        Cancelations
  <2>5. Cancelations'
    BY <1>4, Facts, Records
    DEF ChildDies, rowVars, procVars, supVars, Base, RowTypes, Control,
        Children, Cancelations, Past, Final, Incomplete, Handling
  <2>6. RowsTended'
    BY <1>4, Facts, Records
    DEF ChildDies, rowVars, procVars, supVars, Base, RowTypes, Control,
        Children, Registration, RowsTended, OwnersTend, RowTended, ApisTend,
        TendsWaiting, TendsRunning, Past, Handling, ChildLives, Final,
        Incomplete, Sweeping, OneSweeps, SweptAreGone, Cancelations, Gone, Idle
  <2> QED BY <2>1, <2>2, <2>3, <2>4, <2>5, <2>6 DEF Base
<1>5. ASSUME NEW w \in Workers, TakeCancel(w)
      PROVE  Base'
  <2>1. RowTypes'
    BY <1>5, Facts, Records
    DEF TakeCancel, rowVars, procVars, supVars, Base, RowTypes, Control,
        Children, Handling, Incomplete, Final, States, Pcs, ApiPcs, WorkerPcs,
        ChildPcs, Stops, Outcomes
  <2>2. Control'
    BY <1>5, Facts, Records
    DEF TakeCancel, rowVars, procVars, supVars, Base, RowTypes, Control, Places,
        Children, Handling, WorkerPcs, ApiPcs, ChildLives, Final
  <2>3. Registration'
    BY <1>5, Facts, Records
    DEF TakeCancel, rowVars, procVars, supVars, Base, RowTypes, Control,
        Children, Handling, Registration, Alive, Gone, Idle
  <2>4. Sweeping'
    BY <1>5, Facts, Records
    DEF TakeCancel, rowVars, procVars, supVars, Base, RowTypes, Control,
        Children, Sweeping, OneSweeps, SweptAreGone, Past, Idle, Gone,
        ChildLives, Final, Incomplete, RowsTended, ApisTend, Handling,
        Cancelations
  <2>5. Cancelations'
    BY <1>5, Facts, Records
    DEF TakeCancel, rowVars, procVars, supVars, Base, RowTypes, Control,
        Children, Cancelations, Past, Final, Incomplete, Handling
  <2>6. RowsTended'
    BY <1>5, Facts, Records
    DEF TakeCancel, rowVars, procVars, supVars, Base, RowTypes, Control,
        Children, Registration, RowsTended, OwnersTend, RowTended, ApisTend,
        TendsWaiting, TendsRunning, Past, Handling, ChildLives, Final,
        Incomplete, Sweeping, OneSweeps, SweptAreGone, Cancelations, Gone, Idle
  <2> QED BY <2>1, <2>2, <2>3, <2>4, <2>5, <2>6 DEF Base
<1>6. ASSUME NEW w \in Workers, TakeStop(w)
      PROVE  Base'
  <2>1. RowTypes'
    BY <1>6, Facts, Records
    DEF TakeStop, rowVars, procVars, supVars, Base, RowTypes, Control, Children,
        Handling, Incomplete, Final, States, Pcs, ApiPcs, WorkerPcs, ChildPcs,
        Stops, Outcomes
  <2>2. Control'
    BY <1>6, Facts, Records
    DEF TakeStop, rowVars, procVars, supVars, Base, RowTypes, Control, Places,
        Children, Handling, WorkerPcs, ApiPcs, ChildLives, Final
  <2>3. Registration'
    BY <1>6, Facts, Records
    DEF TakeStop, rowVars, procVars, supVars, Base, RowTypes, Control, Children,
        Handling, Registration, Alive, Gone, Idle
  <2>4. Sweeping'
    BY <1>6, Facts, Records
    DEF TakeStop, rowVars, procVars, supVars, Base, RowTypes, Control, Children,
        Sweeping, OneSweeps, SweptAreGone, Past, Idle, Gone, ChildLives, Final,
        Incomplete, RowsTended, ApisTend, Handling, Cancelations
  <2>5. Cancelations'
    BY <1>6, Facts, Records
    DEF TakeStop, rowVars, procVars, supVars, Base, RowTypes, Control, Children,
        Cancelations, Past, Final, Incomplete, Handling
  <2>6. RowsTended'
    BY <1>6, Facts, Records
    DEF TakeStop, rowVars, procVars, supVars, Base, RowTypes, Control, Children,
        Registration, RowsTended, OwnersTend, RowTended, ApisTend, TendsWaiting,
        TendsRunning, Past, Handling, ChildLives, Final, Incomplete, Sweeping,
        OneSweeps, SweptAreGone, Cancelations, Gone, Idle
  <2> QED BY <2>1, <2>2, <2>3, <2>4, <2>5, <2>6 DEF Base
<1>7. ASSUME NEW w \in Workers, Kill(w)
      PROVE  Base'
  <2>1. RowTypes'
    BY <1>7, Facts, Records
    DEF Kill, rowVars, procVars, supVars, Base, RowTypes, Control, Children,
        Handling, Incomplete, Final, States, Pcs, ApiPcs, WorkerPcs, ChildPcs,
        Stops, Outcomes
  <2>2. Control'
    <3>1. /\ pc[w] = "supervise" /\ child[w] # "none"
          /\ UNCHANGED <<pc, task, cancelState, ignored>>
          /\ \E c \in ChildPcs : child' = [child EXCEPT ![w] = c]
      BY <1>7 DEF Kill, procVars, ChildLives, ChildPcs
    <3>2. Others(w) /\ w \in Procs /\ task[w] \in Tasks /\ Children
      BY <3>1, Facts DEF Others, Base, RowTypes, Control, Children
    <3>3. Children'
      BY <3>1, <3>2, ChildrenKept
    <3> QED BY <3>1, <3>3 DEF Base, Control, Places
  <2>3. Registration'
    BY <1>7, Facts, Records
    DEF Kill, rowVars, procVars, supVars, Base, RowTypes, Control, Children,
        Handling, Registration, Alive, Gone, Idle
  <2>4. Sweeping'
    BY <1>7, Facts, Records
    DEF Kill, rowVars, procVars, supVars, Base, RowTypes, Control, Children,
        Sweeping, OneSweeps, SweptAreGone, Past, Idle, Gone, ChildLives, Final,
        Incomplete, RowsTended, ApisTend, Handling, Cancelations
  <2>5. Cancelations'
    BY <1>7, Facts, Records
    DEF Kill, rowVars, procVars, supVars, Base, RowTypes, Control, Children,
        Cancelations, Past, Final, Incomplete, Handling
  <2>6. RowsTended'
    BY <1>7, Facts, Records
    DEF Kill, rowVars, procVars, supVars, Base, RowTypes, Control, Children,
        Registration, RowsTended, OwnersTend, RowTended, ApisTend, TendsWaiting,
        TendsRunning, Past, Handling, ChildLives, Final, Incomplete, Sweeping,
        OneSweeps, SweptAreGone, Cancelations, Gone, Idle
  <2> QED BY <2>1, <2>2, <2>3, <2>4, <2>5, <2>6 DEF Base
<1>8. ASSUME NEW w \in Workers, Join(w)
      PROVE  Base'
  <2>a. /\ pc[w] = "supervise" /\ child[w] \in {"ok", "error", "killed"}
        /\ UNCHANGED <<rowVars, registered, signals, cancelReq, scan, stop,
                       ignored, sweep>>
    BY <1>8 DEF Join
  <2>b. PICK f \in {"no", "canceled", "failed"} :
           /\ cancelState' = [cancelState EXCEPT ![w] = f]
           /\ f = "no" => child[w] = "ok" /\ cancelState[w] = "no"
           /\ f = "no" => /\ pc' = [pc EXCEPT ![w] = "fetch"]
                          /\ task' = [task EXCEPT ![w] = NoTask]
                          /\ child' = [child EXCEPT ![w] = "none"]
           /\ f # "no" => /\ pc' = [pc EXCEPT ![w] = "reload"]
                          /\ task' = task /\ child' = child
    BY <1>8 DEF Join, Goto, Base, RowTypes, Outcomes
  <2>c. PICK x \in {"fetch", "reload"} :
           pc' = [pc EXCEPT ![w] = x] /\ (x = "reload" <=> f # "no")
    BY <2>b
  <2>d. Places' /\ pc' \in [Procs -> Pcs] /\ pc'[w] = x
    BY <2>c, Placed, Facts DEF WorkerPcs
  <2>e. /\ task' \in [Procs -> Tasks \cup {NoTask}]
        /\ child' \in [Workers -> ChildPcs]
        /\ cancelState' \in [Workers -> Outcomes] /\ cancelState'[w] = f
        /\ x = "fetch" => child'[w] = "none"
        /\ x = "reload" => child' = child /\ task' = task
    BY <2>b, <2>c DEF Base, RowTypes, ChildPcs, Outcomes
  <2>f. Others(w) /\ w \in Procs
    BY <2>a, <2>b, Facts DEF Others, Base, RowTypes
  <2>1. RowTypes'
    BY <2>a, <2>d, <2>e DEF Base, RowTypes, rowVars
  <2>2. Control'
    <3>1. task[w] \in Tasks /\ Children
      BY <2>a DEF Base, Control, Children
    <3>2. CASE x = "fetch"
      BY <2>d, <2>e, <2>f, <3>1, <3>2, ChildrenKept DEF Control, Handling
    <3>3. CASE x = "reload"
      BY <2>a, <2>c, <2>d, <2>e, <2>f, <3>1, <3>3, ChildrenKept DEF Control
    <3> QED BY <3>2, <3>3
  <2>3. Registration'
    <3>1. \E y \in {"fetch", "reload"} : pc' = [pc EXCEPT ![w] = y]
      BY <2>b
    <3> QED BY <3>1, <2>a, Facts
      DEF rowVars, Base, RowTypes, Registration, Alive
  <2>4. Sweeping'
    <3>1. Idle(w)
      BY <1>8 DEF Join
    <3>2. \A v \in Workers \ {w} : pc'[v] = pc[v] /\ child'[v] = child[v]
      BY <2>b, Facts DEF Base, RowTypes
    <3>3. \A q \in Procs : Gone(q) => Gone(q)'
      BY <2>a, <2>b, <3>2, Facts DEF Base, RowTypes, Gone, ChildLives
    <3>4. OneSweeps'
      BY <2>a, <3>1, <3>2 DEF Base, Sweeping, OneSweeps, Idle
    <3>5. SweptAreGone'
      BY <2>a, <3>3 DEF rowVars, Base, Sweeping, SweptAreGone, Past
    <3> QED BY <3>4, <3>5 DEF Sweeping
  <2>5. Cancelations'
    BY <2>a, <2>b, <1>8, Facts
    DEF rowVars, procVars, supVars, Base, RowTypes, Control, Children,
        Cancelations, Past, Final, Incomplete, Handling
  <2>6. RowsTended'
    <3>1. OwnersTend'
      <4> SUFFICES ASSUME NEW u \in Tasks PROVE RowTended(u)'
        BY DEF OwnersTend
      <4>1. RowTended(u)
        BY DEF Base, RowsTended, OwnersTend
      <4>2. CASE f = "no"
        BY <4>1, <4>2, <2>a, <2>b, Facts
        DEF rowVars, Base, RowTypes, RowTended, TendsWaiting, TendsRunning
      <4>3. CASE f # "no"
        BY <4>1, <4>3, <2>a, <2>b, Facts
        DEF rowVars, Base, RowTypes, RowTended, TendsWaiting, TendsRunning
      <4> QED BY <4>2, <4>3
    <3>2. ApisTend'
      BY <2>a, <2>b, Facts
      DEF rowVars, Base, RowTypes, RowsTended, ApisTend, Past, Handling
    <3> QED BY <3>1, <3>2 DEF RowsTended
  <2> QED BY <2>1, <2>2, <2>3, <2>4, <2>5, <2>6 DEF Base
<1>9. ASSUME NEW w \in Workers, Reload(w)
      PROVE  Base'
  <2>a. /\ pc[w] = "reload" /\ child' = [child EXCEPT ![w] = "none"]
        /\ UNCHANGED <<rowVars, registered, signals, cancelReq, scan, stop,
                       ignored, sweep>>
    BY <1>9 DEF Reload
  <2>b. \/ /\ pc' = [pc EXCEPT ![w] = "abandon"]
           /\ task' = task /\ cancelState' = cancelState
        \/ /\ state[task[w]] \in Final
           /\ pc' = [pc EXCEPT ![w] = "fetch"]
           /\ task' = [task EXCEPT ![w] = NoTask]
           /\ cancelState' = [cancelState EXCEPT ![w] = "no"]
    BY <1>9 DEF Reload, Goto
  <2>c. PICK x \in {"abandon", "fetch"} :
           pc' = [pc EXCEPT ![w] = x] /\ (x = "abandon" =>
              task' = task /\ cancelState' = cancelState)
    BY <2>b
  <2>d. Places' /\ pc' \in [Procs -> Pcs] /\ pc'[w] = x
    BY <2>c, Placed, Facts DEF WorkerPcs
  <2>e. /\ task' \in [Procs -> Tasks \cup {NoTask}]
        /\ child' \in [Workers -> ChildPcs] /\ child'[w] = "none"
        /\ cancelState' \in [Workers -> Outcomes]
    BY <2>a, <2>b DEF Base, RowTypes, ChildPcs, Outcomes
  <2>f. Others(w) /\ w \in Procs
    BY <2>a, <2>b, Facts DEF Others, Base, RowTypes
  <2>1. RowTypes'
    BY <2>a, <2>d, <2>e DEF Base, RowTypes, rowVars
  <2>2. Control'
    <3>1. task[w] \in Tasks /\ cancelState[w] # "no" /\ Children
      BY <2>a DEF Base, Control, Children, Handling
    <3>2. CASE x = "fetch"
      BY <2>d, <2>e, <2>f, <3>1, <3>2, ChildrenKept DEF Control, Handling
    <3>3. CASE x = "abandon"
      BY <2>c, <2>d, <2>e, <2>f, <3>1, <3>3, ChildrenKept DEF Control
    <3> QED BY <3>2, <3>3
  <2>3. Registration'
    BY <2>a, <2>b, <1>9, Facts
    DEF rowVars, procVars, supVars, Base, RowTypes, Control, Children, Handling,
        Registration, Alive, Gone, Idle
  <2>4. Sweeping'
    <3>1. OneSweeps'
      BY <2>a, <2>b, <1>9, Facts
      DEF rowVars, procVars, supVars, Base, RowTypes, Control, Children,
          Sweeping, OneSweeps, SweptAreGone, Past, Idle, Gone, ChildLives,
          Final, Incomplete, RowsTended, ApisTend, Handling, Cancelations
    <3>2. SweptAreGone'
      BY <2>a, <2>b, <1>9, Facts
      DEF rowVars, procVars, supVars, Base, RowTypes, Control, Children,
          Sweeping, OneSweeps, SweptAreGone, Past, Idle, Gone, ChildLives,
          Final, Incomplete, RowsTended, ApisTend, Handling, Cancelations
    <3> QED BY <3>1, <3>2 DEF Sweeping
  <2>5. Cancelations'
    BY <2>a, <2>b, <1>9, Facts
    DEF rowVars, procVars, supVars, Base, RowTypes, Control, Children,
        Cancelations, Past, Final, Incomplete, Handling
  <2>6. RowsTended'
    <3>1. OwnersTend'
      <4> SUFFICES ASSUME NEW u \in Tasks PROVE RowTended(u)'
        BY DEF OwnersTend
      <4>1. RowTended(u)
        BY DEF Base, RowsTended, OwnersTend
      <4>2. CASE /\ pc' = [pc EXCEPT ![w] = "abandon"]
                 /\ task' = task /\ cancelState' = cancelState
        BY <4>1, <4>2, <2>a, Facts
        DEF rowVars, Base, RowTypes, RowTended, TendsWaiting, TendsRunning
      <4>3. CASE /\ state[task[w]] \in Final
                 /\ pc' = [pc EXCEPT ![w] = "fetch"]
                 /\ task' = [task EXCEPT ![w] = NoTask]
                 /\ cancelState' = [cancelState EXCEPT ![w] = "no"]
        BY <4>1, <4>3, <2>a, Facts
        DEF rowVars, Base, RowTypes, Final, RowTended, TendsWaiting,
            TendsRunning
      <4> QED BY <2>b, <4>2, <4>3
    <3>2. ApisTend'
      <4>1. w \notin Apis /\ \A a \in Apis : pc'[a] = pc[a] /\ task'[a] = task[a]
        BY <2>b, Facts DEF Base, RowTypes
      <4> QED BY <4>1, <2>a DEF rowVars, Base, RowsTended, ApisTend, Past
    <3> QED BY <3>1, <3>2 DEF RowsTended
  <2> QED BY <2>1, <2>2, <2>3, <2>4, <2>5, <2>6 DEF Base
<1> QED BY <1>1, <1>2, <1>3, <1>4, <1>5, <1>6, <1>7, <1>8, <1>9

(* app_worker_cleanup() of the processes that are missing, and the         *)
(* shutdown of a worker, keep the rows and their owners in order.          *)
LEMMA BaseSweep ==
    ASSUME Base, RedisTypes
    PROVE  /\ \A w \in Workers : \A m \in Procs : SweepRead(w, m) => Base'
           /\ \A w \in Workers : SweepRelease(w) => Base'
           /\ \A w \in Workers : SweepCommit(w) => Base'
           /\ \A w \in Workers : ReconcileRead(w) => Base'
           /\ \A w \in Workers : ReconcileClean(w) => Base'
           /\ \A w \in Workers : CleanupIgnored(w) => Base'
           /\ \A w \in Workers : Shutdown(w) => Base'
           /\ \A w \in Workers : RequestStop(w) => Base'
           /\ \A p \in Procs : Crash(p) => Base'
<1>1. ASSUME NEW w \in Workers, NEW m \in Procs, SweepRead(w, m)
      PROVE  Base'
  <2>1. RowTypes'
    <3> DEFINE waits == {t \in Tasks : appLock[t] = m /\ state[t] = "waiting"}
               r(b) == [at |-> "release", proc |-> m, names |-> {}, successor |-> b,
                        waiting |-> waits]
    <3>1. PICK b \in BOOLEAN : sweep' = [sweep EXCEPT ![w] = r(b)]
      BY <1>1 DEF SweepRead
    <3>2. waits \in SUBSET Tasks
      OBVIOUS
    <3> HIDE DEF waits
    <3>3. r(b) \in Sweeps
      BY <3>2 DEF Sweeps
    <3> HIDE DEF r
    <3>4. sweep' \in [Workers -> Sweeps]
      BY <3>1, <3>3 DEF Base, RowTypes
    <3> QED BY <3>4, <1>1
      DEF SweepRead, rowVars, procVars, supVars, Base, RowTypes
  <2>2. Control'
    BY <1>1, Facts, Records
    DEF SweepRead, Attentive, rowVars, procVars, supVars, Base, RowTypes,
        Control, Places, Children, Handling, WorkerPcs, ApiPcs, ChildLives,
        Final
  <2>3. Registration'
    BY <1>1, Facts, Records
    DEF SweepRead, Attentive, rowVars, procVars, supVars, Base, RowTypes,
        Control, Children, Handling, Registration, Alive, Gone, Idle
  <2>4. Sweeping'
    BY <1>1, Facts, Records
    DEF SweepRead, Attentive, rowVars, procVars, supVars, Base, RowTypes,
        Control, Children, Sweeping, OneSweeps, SweptAreGone, Past, Idle, Gone,
        ChildLives, Final, Incomplete, RowsTended, ApisTend, Handling,
        Cancelations
  <2>5. Cancelations'
    BY <1>1, Facts, Records
    DEF SweepRead, Attentive, rowVars, procVars, supVars, Base, RowTypes,
        Control, Children, Cancelations, Past, Final, Incomplete, Handling
  <2>6. RowsTended'
    BY <1>1, Facts, Records
    DEF SweepRead, Attentive, rowVars, procVars, supVars, Base, RowTypes,
        Control, Children, Registration, RowsTended, OwnersTend, RowTended,
        ApisTend, TendsWaiting, TendsRunning, Past, Handling, ChildLives, Final,
        Incomplete, Sweeping, OneSweeps, SweptAreGone, Cancelations, Gone, Idle
  <2> QED BY <2>1, <2>2, <2>3, <2>4, <2>5, <2>6 DEF Base
<1>2. ASSUME NEW w \in Workers, SweepRelease(w)
      PROVE  Base'
  <2>a. /\ sweep[w].at = "release" /\ sweep' = [sweep EXCEPT ![w].at = "commit"]
        /\ UNCHANGED <<rowVars, procVars, signals, cancelReq, scan, supVars,
                       ignored, leaky>>
    BY <1>2 DEF SweepRelease
  <2>b. /\ sweep' \in [Workers -> Sweeps]
        /\ sweep'[w].at = "commit" /\ sweep'[w].proc = sweep[w].proc
        /\ sweep'[w].waiting = sweep[w].waiting
        /\ \A v \in Workers \ {w} : sweep'[v] = sweep[v]
    BY <2>a, SweepMoves DEF Base, RowTypes
  <2>1. RowTypes'
    BY <2>a, <2>b, Facts
    DEF rowVars, procVars, supVars, Base, RowTypes, Control, Children, Handling,
        Incomplete, Final, States, Pcs, ApiPcs, WorkerPcs, ChildPcs, Stops,
        Outcomes
  <2>2. Control'
    BY <2>a, <2>b, Facts
    DEF rowVars, procVars, supVars, Base, RowTypes, Control, Places, Children,
        Handling, WorkerPcs, ApiPcs, ChildLives, Final
  <2>3. Registration'
    BY <2>a, <2>b, Facts
    DEF rowVars, procVars, supVars, Base, RowTypes, Control, Children, Handling,
        Registration, Alive, Gone, Idle
  <2>4. Sweeping'
    BY <2>a, <2>b, Facts
    DEF rowVars, procVars, supVars, Base, RowTypes, Control, Children, Sweeping,
        OneSweeps, SweptAreGone, Past, Idle, Gone, ChildLives, Final,
        Incomplete, RowsTended, ApisTend, Handling, Cancelations
  <2>5. Cancelations'
    BY <2>a, <2>b, Facts
    DEF rowVars, procVars, supVars, Base, RowTypes, Control, Children,
        Cancelations, Past, Final, Incomplete, Handling
  <2>6. RowsTended'
    BY <2>a, <2>b, Facts
    DEF rowVars, procVars, supVars, Base, RowTypes, Control, Children,
        Registration, RowsTended, OwnersTend, RowTended, ApisTend, TendsWaiting,
        TendsRunning, Past, Handling, ChildLives, Final, Incomplete, Sweeping,
        OneSweeps, SweptAreGone, Cancelations, Gone, Idle
  <2> QED BY <2>1, <2>2, <2>3, <2>4, <2>5, <2>6 DEF Base
<1>3. ASSUME NEW w \in Workers, SweepCommit(w)
      PROVE  Base'
  <2> DEFINE m == sweep[w].proc
             waiting == sweep[w].waiting
             failing == {t \in Tasks \ waiting :
                            appLock[t] = m /\ state[t] \in {"running", "canceling"}}
  <2>a. /\ sweep[w].at = "commit" /\ ~Idle(w)
        /\ m \in Procs /\ Gone(m) /\ m # w /\ pc[w] \in {"supervise", "sleep"}
        /\ \A t \in waiting : Past(t) \/ (state[t] = "waiting" /\ appLock[t] = m)
    BY <1>3 DEF SweepCommit, Base, Sweeping, OneSweeps, SweptAreGone, Idle, Gone
  <2>b. /\ registered' = registered \ {m}
        /\ sweep' = [sweep EXCEPT ![w] = NoSweep]
        /\ UNCHANGED <<prior, signals, cancelReq, pc, task, scan, supVars,
                       ignored>>
    BY <1>3 DEF SweepCommit, DeleteApp, history
  <2>c. /\ state' = [t \in Tasks |-> IF t \in failing THEN "failed" ELSE state[t]]
        /\ \A t \in Tasks : appLock'[t] =
              LET u == CASE t \in failing -> w
                         [] t \in waiting -> Nobody
                         [] OTHER -> appLock[t]
              IN IF u = m THEN Nobody ELSE u
        /\ DOMAIN appLock' = Tasks /\ appLock' = [t \in Tasks |-> appLock'[t]]
    BY <1>3 DEF SweepCommit, DeleteApp
  <2>d. \A t \in Tasks :
           \/ t \in failing /\ state'[t] = "failed" /\ appLock'[t] = w
           \/ t \notin failing /\ state'[t] = state[t] /\ appLock'[t] = Nobody
              /\ (t \in waiting \/ appLock[t] = Nobody \/ appLock[t] = m)
           \/ t \notin failing /\ state'[t] = state[t] /\ appLock'[t] = appLock[t]
              /\ t \notin waiting /\ appLock[t] # m
    BY <2>a, <2>c, Facts
  <2> HIDE DEF failing
  <2>e. \A t \in Tasks \ failing :
           t \in waiting \/ appLock[t] # m \/ state[t] \notin {"running", "canceling"}
    BY DEF failing
  <2>f. failing \subseteq Tasks
    BY DEF failing
  <2> HIDE DEF m, waiting
  <2>1. RowTypes'
    <3>1. state' \in [Tasks -> States]
      BY <2>c DEF Base, RowTypes, States, Final
    <3>2. \A t \in Tasks : appLock'[t] \in Procs \cup {Nobody}
      BY <2>d, Facts DEF Base, RowTypes
    <3>3. appLock' \in [Tasks -> Procs \cup {Nobody}]
      BY <2>c, <3>2
    <3>4. registered' \subseteq Procs /\ sweep' \in [Workers -> Sweeps]
      BY <2>b, Records DEF Base, RowTypes
    <3> QED BY <2>b, <3>1, <3>3, <3>4 DEF Base, RowTypes, supVars
  <2>2. Control'
    BY <2>a, <2>b, <2>c, <2>d, <2>e, <2>f, Facts, Records
    DEF rowVars, procVars, supVars, Base, RowTypes, Control, Places, Children,
        Handling, WorkerPcs, ApiPcs, ChildLives, Final
  <2>3. Registration'
    <3>1. \A q \in Procs : Alive(q) \/ pc[q] = "off" => q # m
      BY <2>a DEF Gone, Alive
    <3>2. w \in registered
      BY <2>a, Facts DEF Base, Registration, Alive
    <3>3. \A t \in Tasks : appLock'[t] # Nobody => appLock'[t] \in registered'
      BY <2>a, <2>b, <2>d, <3>2 DEF Base, Registration
    <3> QED BY <2>b, <3>1, <3>3 DEF Base, Registration, Alive
  <2>4. Sweeping'
    <3>1. OneSweeps'
      BY <2>a, <2>b, <2>c, <2>d, <2>e, <2>f, Facts, Records
      DEF rowVars, procVars, supVars, Base, RowTypes, Control, Children,
          Sweeping, OneSweeps, SweptAreGone, Past, Idle, Gone, ChildLives,
          Final, Incomplete, RowsTended, ApisTend, Handling, Cancelations
    <3>2. SweptAreGone'
      BY <2>a, <2>b, <2>c, <2>d, <2>e, <2>f, Facts, Records
      DEF rowVars, procVars, supVars, Base, RowTypes, Control, Children,
          Sweeping, OneSweeps, SweptAreGone, Past, Idle, Gone, ChildLives,
          Final, Incomplete, RowsTended, ApisTend, Handling, Cancelations
    <3> QED BY <3>1, <3>2 DEF Sweeping
  <2>5. Cancelations'
    BY <2>a, <2>b, <2>c, <2>d, <2>e, <2>f, Facts, Records
    DEF rowVars, procVars, supVars, Base, RowTypes, Control, Children,
        Cancelations, Past, Final, Incomplete, Handling
  <2>6. RowsTended'
    <3>1. OwnersTend'
      <4> SUFFICES ASSUME NEW u \in Tasks PROVE RowTended(u)'
        BY DEF OwnersTend
      <4>1. RowTended(u)
        BY DEF Base, RowsTended, OwnersTend
      <4>2. ASSUME NEW q \in Procs, appLock'[u] = q, pc'[q] # "dead"
            PROVE  (/\ state[u] = "waiting" => \/ q \in Workers /\ u \in ignored[q]
                                               \/ task[q] = u /\ TendsWaiting(q)
                    /\ state[u] = "running" => task[q] = u /\ TendsRunning(q))'
        BY <4>1, <4>2, <2>b, <2>d, Facts
        DEF supVars, RowTended, TendsWaiting, TendsRunning
      <4>3. state'[u] = "running" => appLock'[u] # Nobody
        BY <4>1, <2>a, <2>d, <2>e, Facts DEF RowTended, Past, Final
      <4> QED BY <4>2, <4>3 DEF RowTended
    <3>2. ApisTend'
      <4>1. \A a \in Apis : pc[a] \in Handling => a # m
        BY <2>a DEF Gone, Handling
      <4>2. ASSUME NEW a \in Apis, NEW t \in Tasks, pc[a] \in Handling, task[a] = t
            PROVE  (state[t] # "absent" /\ (appLock[t] = a \/ Past(t)))'
        <5>1. state[t] # "absent" /\ (appLock[t] = a \/ Past(t))
          BY <4>2 DEF Base, RowsTended, ApisTend
        <5>2. CASE t \in failing
          BY <5>2, <2>d DEF Past, Final
        <5>3. CASE t \notin failing /\ Past(t)
          BY <5>1, <5>3, <2>d DEF Past
        <5>4. CASE t \notin failing /\ ~Past(t)
          <6>1. appLock[t] = a /\ a # m /\ a # Nobody
            BY <5>1, <5>4, <4>1, <4>2, Facts
          <6> QED BY <5>1, <5>4, <6>1, <2>a, <2>d
        <5> QED BY <5>2, <5>3, <5>4
      <4> QED BY <4>2, <2>b DEF ApisTend
    <3> QED BY <3>1, <3>2 DEF RowsTended
  <2> QED BY <2>1, <2>2, <2>3, <2>4, <2>5, <2>6 DEF Base
<1>4. ASSUME NEW w \in Workers, ReconcileRead(w)
      PROVE  Base'
  <2>1. RowTypes'
    <3>1. sweep' \in [Workers -> Sweeps]
      <4> DEFINE orphans == activeOwners \ {Name[p] : p \in registered}
      <4>1. orphans \in SUBSET Names
        BY DEF RedisTypes
      <4>2. sweep' = [sweep EXCEPT ![w].at = "reconcile", ![w].names = orphans]
        BY <1>4 DEF ReconcileRead
      <4> HIDE DEF orphans
      <4> QED BY <4>1, <4>2, OrphansSwept DEF Base, RowTypes
    <3> QED BY <3>1, <1>4
      DEF ReconcileRead, rowVars, procVars, supVars, Base, RowTypes
  <2>2. Control'
    BY <1>4, Facts, Records
    DEF ReconcileRead, Attentive, rowVars, procVars, supVars, Base, RowTypes,
        Control, Places, Children, Handling, WorkerPcs, ApiPcs, ChildLives,
        Final
  <2>3. Registration'
    BY <1>4, Facts, Records
    DEF ReconcileRead, Attentive, rowVars, procVars, supVars, Base, RowTypes,
        Control, Children, Handling, Registration, Alive, Gone, Idle
  <2>4. Sweeping'
    BY <1>4, Facts, Records
    DEF ReconcileRead, Attentive, rowVars, procVars, supVars, Base, RowTypes,
        Control, Children, Sweeping, OneSweeps, SweptAreGone, Past, Idle, Gone,
        ChildLives, Final, Incomplete, RowsTended, ApisTend, Handling,
        Cancelations
  <2>5. Cancelations'
    BY <1>4, Facts, Records
    DEF ReconcileRead, Attentive, rowVars, procVars, supVars, Base, RowTypes,
        Control, Children, Cancelations, Past, Final, Incomplete, Handling
  <2>6. RowsTended'
    BY <1>4, Facts, Records
    DEF ReconcileRead, Attentive, rowVars, procVars, supVars, Base, RowTypes,
        Control, Children, Registration, RowsTended, OwnersTend, RowTended,
        ApisTend, TendsWaiting, TendsRunning, Past, Handling, ChildLives, Final,
        Incomplete, Sweeping, OneSweeps, SweptAreGone, Cancelations, Gone, Idle
  <2> QED BY <2>1, <2>2, <2>3, <2>4, <2>5, <2>6 DEF Base
<1>5. ASSUME NEW w \in Workers, ReconcileClean(w)
      PROVE  Base'
  <2>1. RowTypes'
    BY <1>5, Facts, Records
    DEF ReconcileClean, NoSweep, rowVars, procVars, supVars, Base, RowTypes,
        Control, Children, Handling, Incomplete, Final, States, Pcs, ApiPcs,
        WorkerPcs, ChildPcs, Stops, Outcomes
  <2>2. Control'
    BY <1>5, Facts, Records
    DEF ReconcileClean, NoSweep, rowVars, procVars, supVars, Base, RowTypes,
        Control, Places, Children, Handling, WorkerPcs, ApiPcs, ChildLives,
        Final
  <2>3. Registration'
    BY <1>5, Facts, Records
    DEF ReconcileClean, NoSweep, rowVars, procVars, supVars, Base, RowTypes,
        Control, Children, Handling, Registration, Alive, Gone, Idle
  <2>4. Sweeping'
    BY <1>5, Facts, Records
    DEF ReconcileClean, NoSweep, rowVars, procVars, supVars, Base, RowTypes,
        Control, Children, Sweeping, OneSweeps, SweptAreGone, Past, Idle, Gone,
        ChildLives, Final, Incomplete, RowsTended, ApisTend, Handling,
        Cancelations
  <2>5. Cancelations'
    BY <1>5, Facts, Records
    DEF ReconcileClean, NoSweep, rowVars, procVars, supVars, Base, RowTypes,
        Control, Children, Cancelations, Past, Final, Incomplete, Handling
  <2>6. RowsTended'
    BY <1>5, Facts, Records
    DEF ReconcileClean, NoSweep, rowVars, procVars, supVars, Base, RowTypes,
        Control, Children, Registration, RowsTended, OwnersTend, RowTended,
        ApisTend, TendsWaiting, TendsRunning, Past, Handling, ChildLives, Final,
        Incomplete, Sweeping, OneSweeps, SweptAreGone, Cancelations, Gone, Idle
  <2> QED BY <2>1, <2>2, <2>3, <2>4, <2>5, <2>6 DEF Base
<1>6. ASSUME NEW w \in Workers, CleanupIgnored(w)
      PROVE  Base'
  <2>1. RowTypes'
    BY <1>6, Facts, Records
    DEF CleanupIgnored, Attentive, rowVars, procVars, supVars, Base, RowTypes,
        Control, Children, Handling, Incomplete, Final, States, Pcs, ApiPcs,
        WorkerPcs, ChildPcs, Stops, Outcomes
  <2>2. Control'
    BY <1>6, Facts, Records
    DEF CleanupIgnored, Attentive, rowVars, procVars, supVars, Base, RowTypes,
        Control, Places, Children, Handling, WorkerPcs, ApiPcs, ChildLives,
        Final
  <2>3. Registration'
    BY <1>6, Facts, Records
    DEF CleanupIgnored, Attentive, rowVars, procVars, supVars, Base, RowTypes,
        Control, Children, Handling, Registration, Alive, Gone, Idle
  <2>4. Sweeping'
    BY <1>6, Facts, Records
    DEF CleanupIgnored, Attentive, rowVars, procVars, supVars, Base, RowTypes,
        Control, Children, Sweeping, OneSweeps, SweptAreGone, Past, Idle, Gone,
        ChildLives, Final, Incomplete, RowsTended, ApisTend, Handling,
        Cancelations
  <2>5. Cancelations'
    BY <1>6, Facts, Records
    DEF CleanupIgnored, Attentive, rowVars, procVars, supVars, Base, RowTypes,
        Control, Children, Cancelations, Past, Final, Incomplete, Handling
  <2>6. RowsTended'
    BY <1>6, Facts, Records
    DEF CleanupIgnored, Attentive, rowVars, procVars, supVars, Base, RowTypes,
        Control, Children, Registration, RowsTended, OwnersTend, RowTended,
        ApisTend, TendsWaiting, TendsRunning, Past, Handling, ChildLives, Final,
        Incomplete, Sweeping, OneSweeps, SweptAreGone, Cancelations, Gone, Idle
  <2> QED BY <2>1, <2>2, <2>3, <2>4, <2>5, <2>6 DEF Base
<1>7. ASSUME NEW w \in Workers, Shutdown(w)
      PROVE  Base'
  <2>a. /\ pc[w] \in {"sleep", "fetch"} /\ Idle(w)
        /\ registered' = registered \ {w}
        /\ appLock' = [t \in Tasks |-> IF appLock[t] = w THEN Nobody ELSE appLock[t]]
        /\ UNCHANGED <<state, prior, signals, cancelReq, task, child>>
    BY <1>7 DEF Shutdown, DeleteApp
  <2>b. /\ pc' = [pc EXCEPT ![w] = "dead"]
        /\ scan' = [scan EXCEPT ![w] = NoScan]
        /\ stop' = [stop EXCEPT ![w] = "no"]
        /\ cancelState' = [cancelState EXCEPT ![w] = "no"]
        /\ ignored' = [ignored EXCEPT ![w] = {}]
        /\ sweep' = [sweep EXCEPT ![w] = NoSweep]
    BY <1>7 DEF Shutdown, Die, Goto

  <2>1. RowTypes'
    <3>1. /\ pc' \in [Procs -> Pcs]
          /\ appLock' \in [Tasks -> Procs \cup {Nobody}]
          /\ scan' \in [Workers -> Scans] /\ sweep' \in [Workers -> Sweeps]
      BY <2>a, <2>b, Facts, Records DEF Base, RowTypes, Pcs, WorkerPcs
    <3>2. /\ stop' \in [Workers -> Stops]
          /\ cancelState' \in [Workers -> Outcomes]
          /\ ignored' \in [Workers -> SUBSET Tasks]
      BY <2>b DEF Base, RowTypes, Stops, Outcomes
    <3> QED BY <2>a, <3>1, <3>2 DEF Base, RowTypes
  <2>2. Control'
    BY <1>7, Facts, Records
    DEF Shutdown, DeleteApp, Die, Goto, NoSweep, NoScan, rowVars, procVars,
        supVars, Base, RowTypes, Control, Places, Children, Handling, WorkerPcs,
        ApiPcs, ChildLives, Final
  <2>3. Registration'
    BY <1>7, Facts, Records
    DEF Shutdown, DeleteApp, Die, Goto, NoSweep, NoScan, rowVars, procVars,
        supVars, Base, RowTypes, Control, Children, Handling, Registration,
        Alive, Gone, Idle
  <2>4. Sweeping'
    <3>1. /\ \A v \in Workers \ {w} : pc'[v] = pc[v] /\ sweep'[v] = sweep[v]
          /\ sweep'[w].at = "no"
      BY <2>b, Facts, Records DEF Base, RowTypes
    <3>2. \A q \in Procs : Gone(q) => Gone(q)'
      BY <2>a, <2>b DEF Base, RowTypes, Gone, ChildLives
    <3>3. OneSweeps'
      BY <3>1 DEF Base, Sweeping, OneSweeps, Idle
    <3>4. ASSUME NEW v \in Workers \ {w}, sweep[v].at \in {"release", "commit"},
                 NEW t \in sweep[v].waiting
          PROVE  (Past(t) \/ (state[t] = "waiting" /\ appLock[t] = sweep[v].proc))'
      <4>1. t \in Tasks /\ sweep[v].proc # w
        BY <2>a, <3>4 DEF Base, RowTypes, Sweeps, Sweeping, SweptAreGone, Gone
      <4> QED BY <4>1, <3>4, <2>a, <3>1 DEF Base, Sweeping, SweptAreGone, Past
    <3>5. SweptAreGone'
      BY <3>1, <3>2, <3>4 DEF Base, Sweeping, SweptAreGone
    <3> QED BY <3>3, <3>5 DEF Sweeping
  <2>5. Cancelations'
    BY <1>7, Facts, Records
    DEF Shutdown, DeleteApp, Die, Goto, NoSweep, NoScan, rowVars, procVars,
        supVars, Base, RowTypes, Control, Children, Cancelations, Past, Final,
        Incomplete, Handling
  <2>6. RowsTended'
    <3>1. OwnersTend'
      <4> SUFFICES ASSUME NEW u \in Tasks PROVE RowTended(u)'
        BY DEF OwnersTend
      <4>1. RowTended(u)
        BY DEF Base, RowsTended, OwnersTend
      <4>2. CASE appLock[u] = w
        <5>1. state[u] # "running"
          BY <2>a, <4>1, <4>2, Facts DEF RowTended, TendsRunning
        <5>2. appLock'[u] = Nobody /\ state'[u] # "running"
          BY <2>a, <4>2, <5>1
        <5> QED BY <5>2, RowFree
      <4>3. CASE appLock[u] # w
        <5>1. SameRow(u)
          BY <2>a, <4>3 DEF SameRow
        <5>2. Others(w) /\ w \in Procs
          BY <2>a, <2>b, Facts DEF Others, Base, RowTypes
        <5> QED BY <4>1, <4>3, <5>1, <5>2, RowKept
      <4> QED BY <4>2, <4>3
    <3>2. ApisTend'
      <4>1. w \notin Apis /\ \A a \in Apis : pc'[a] = pc[a] /\ task'[a] = task[a]
        BY <2>a, <2>b, Facts DEF Base, RowTypes
      <4>2. \A a \in Apis, t \in Tasks : appLock[t] = a => appLock'[t] = a
        BY <2>a, <4>1
      <4> QED BY <2>a, <4>1, <4>2 DEF Base, RowsTended, ApisTend, Past
    <3> QED BY <3>1, <3>2 DEF RowsTended
  <2> QED BY <2>1, <2>2, <2>3, <2>4, <2>5, <2>6 DEF Base
<1>8. ASSUME NEW w \in Workers, RequestStop(w)
      PROVE  Base'
  <2>1. RowTypes'
    BY <1>8, Facts, Records
    DEF RequestStop, rowVars, procVars, supVars, Base, RowTypes, Control,
        Children, Handling, Incomplete, Final, States, Pcs, ApiPcs, WorkerPcs,
        ChildPcs, Stops, Outcomes
  <2>2. Control'
    BY <1>8, Facts, Records
    DEF RequestStop, rowVars, procVars, supVars, Base, RowTypes, Control,
        Places, Children, Handling, WorkerPcs, ApiPcs, ChildLives, Final
  <2>3. Registration'
    BY <1>8, Facts, Records
    DEF RequestStop, rowVars, procVars, supVars, Base, RowTypes, Control,
        Children, Handling, Registration, Alive, Gone, Idle
  <2>4. Sweeping'
    BY <1>8, Facts, Records
    DEF RequestStop, rowVars, procVars, supVars, Base, RowTypes, Control,
        Children, Sweeping, OneSweeps, SweptAreGone, Past, Idle, Gone,
        ChildLives, Final, Incomplete, RowsTended, ApisTend, Handling,
        Cancelations
  <2>5. Cancelations'
    BY <1>8, Facts, Records
    DEF RequestStop, rowVars, procVars, supVars, Base, RowTypes, Control,
        Children, Cancelations, Past, Final, Incomplete, Handling
  <2>6. RowsTended'
    BY <1>8, Facts, Records
    DEF RequestStop, rowVars, procVars, supVars, Base, RowTypes, Control,
        Children, Registration, RowsTended, OwnersTend, RowTended, ApisTend,
        TendsWaiting, TendsRunning, Past, Handling, ChildLives, Final,
        Incomplete, Sweeping, OneSweeps, SweptAreGone, Cancelations, Gone, Idle
  <2> QED BY <2>1, <2>2, <2>3, <2>4, <2>5, <2>6 DEF Base
<1>9. ASSUME NEW p \in Procs, Crash(p)
      PROVE  Base'
  <2>a. /\ pc' = [pc EXCEPT ![p] = "dead"]
        /\ UNCHANGED <<rowVars, registered, signals, cancelReq, task, child>>
    BY <1>9 DEF Crash, Die, Goto
  <2>b. ASSUME p \in Workers
        PROVE  /\ scan' \in [Workers -> Scans] /\ sweep' \in [Workers -> Sweeps]
               /\ stop' \in [Workers -> Stops]
               /\ cancelState' \in [Workers -> Outcomes]
               /\ ignored' \in [Workers -> SUBSET Tasks]
    <3>1. /\ scan' = [scan EXCEPT ![p] = NoScan]
          /\ stop' = [stop EXCEPT ![p] = "no"]
          /\ cancelState' = [cancelState EXCEPT ![p] = "no"]
          /\ ignored' = [ignored EXCEPT ![p] = {}]
          /\ sweep' = [sweep EXCEPT ![p] = NoSweep]
      BY <2>b, <1>9 DEF Crash, Die
    <3> QED BY <3>1, Records DEF Base, RowTypes, Stops, Outcomes
  <2>c. p \notin Workers => UNCHANGED <<scan, sweep, stop, cancelState,
                                        ignored>>
    BY <1>9 DEF Crash, Die
  <2>d. /\ scan' \in [Workers -> Scans] /\ sweep' \in [Workers -> Sweeps]
        /\ stop' \in [Workers -> Stops]
        /\ cancelState' \in [Workers -> Outcomes]
        /\ ignored' \in [Workers -> SUBSET Tasks]
    BY <2>b, <2>c DEF Base, RowTypes
  <2>1. RowTypes'
    BY <2>a, <2>d DEF rowVars, Base, RowTypes, Pcs, WorkerPcs
  <2>2. Control'
    BY <1>9, Facts, Records
    DEF Crash, Die, Goto, NoSweep, NoScan, rowVars, procVars, supVars, Base,
        RowTypes, Control, Places, Children, Handling, WorkerPcs, ApiPcs,
        ChildLives, Final
  <2>3. Registration'
    BY <1>9, Facts, Records
    DEF Crash, Die, Goto, NoSweep, NoScan, rowVars, procVars, supVars, Base,
        RowTypes, Control, Children, Handling, Registration, Alive, Gone, Idle
  <2>4. Sweeping'
    <3>1. \A q \in Procs : Gone(q) => Gone(q)'
      BY <2>a DEF Base, RowTypes, Gone, ChildLives
    <3>2. \A v \in Workers : IF v = p THEN Idle(v)' ELSE sweep'[v] = sweep[v]
      <4>1. p \in Workers => sweep' = [sweep EXCEPT ![p] = NoSweep]
        BY <1>9 DEF Crash, Die
      <4> QED BY <4>1, <2>c, Records DEF Base, RowTypes, Idle
    <3>3. \A v \in Workers \ {p} : pc'[v] = pc[v]
      BY <2>a, Facts DEF Base, RowTypes
    <3>4. OneSweeps'
      BY <3>2, <3>3 DEF Base, RowTypes, Sweeping, OneSweeps, Idle
    <3>5. SweptAreGone'
      BY <2>a, <3>1, <3>2 DEF rowVars, Base, Sweeping, SweptAreGone, Idle, Past
    <3> QED BY <3>4, <3>5 DEF Sweeping
  <2>5. Cancelations'
    BY <1>9, Facts, Records
    DEF Crash, Die, Goto, NoSweep, NoScan, rowVars, procVars, supVars, Base,
        RowTypes, Control, Children, Cancelations, Past, Final, Incomplete,
        Handling
  <2>6. RowsTended'
    BY <1>9, Facts, Records
    DEF Crash, Die, Goto, NoSweep, NoScan, rowVars, procVars, supVars, Base,
        RowTypes, Control, Children, Registration, RowsTended, OwnersTend,
        RowTended, ApisTend, TendsWaiting, TendsRunning, Past, Handling,
        ChildLives, Final, Incomplete, Sweeping, OneSweeps, SweptAreGone,
        Cancelations, Gone, Idle
  <2> QED BY <2>1, <2>2, <2>3, <2>4, <2>5, <2>6 DEF Base
<1> QED BY <1>1, <1>2, <1>3, <1>4, <1>5, <1>6, <1>7, <1>8, <1>9

(* cancel_task() keeps the rows and their owners in order, in each of its  *)
(* steps.                                                                  *)
LEMMA BaseCancel ==
    ASSUME Base, RedisTypes
    PROVE  /\ \A t \in Tasks : CancelRead(t) => Base'
           /\ \A t \in Tasks : CancelSet(t) => Base'
           /\ \A t \in Tasks : CancelPublish(t) => Base'
           /\ \A t \in Tasks : CancelTake(t) => Base'
           /\ \A t \in Tasks : CancelFinalize(t) => Base'
           /\ \A t \in Tasks : CancelGet(t) => Base'
           /\ \A t \in Tasks : CancelRelease(t) => Base'
<1>1. ASSUME NEW t \in Tasks, CancelRead(t)
      PROVE  Base'
  <2>1. RowTypes'
    <3>1. PICK x \in {"free", "locked"} : cancelReq' = [cancelReq EXCEPT ![t].at = x]
      BY <1>1 DEF CancelRead, CancelAt
    <3>2. cancelReq \in [Tasks -> Requests]
      BY DEF Base, RowTypes
    <3>3. cancelReq' \in [Tasks -> Requests]
      BY <3>1, <3>2, RequestMoves
    <3> QED BY <3>3, <1>1, Facts
      DEF CancelRead, rowVars, procVars, supVars, Base, RowTypes, States,
          Incomplete, Final
  <2>2. Control'
    BY <1>1, Facts, Records
    DEF CancelRead, CancelAt, rowVars, procVars, supVars, Base, RowTypes,
        Control, Places, Children, Handling, WorkerPcs, ApiPcs, ChildLives,
        Final
  <2>3. Registration'
    BY <1>1, Facts, Records
    DEF CancelRead, CancelAt, rowVars, procVars, supVars, Base, RowTypes,
        Control, Children, Handling, Registration, Alive, Gone, Idle
  <2>4. Sweeping'
    BY <1>1, Facts, Records
    DEF CancelRead, CancelAt, rowVars, procVars, supVars, Base, RowTypes,
        Control, Children, Sweeping, OneSweeps, SweptAreGone, Past, Idle, Gone,
        ChildLives, Final, Incomplete, RowsTended, ApisTend, Handling,
        Cancelations
  <2>5. Cancelations'
    BY <1>1, Facts, Records
    DEF CancelRead, CancelAt, rowVars, procVars, supVars, Base, RowTypes,
        Control, Children, Cancelations, Past, Final, Incomplete, Handling
  <2>6. RowsTended'
    BY <1>1, Facts, Records
    DEF CancelRead, CancelAt, rowVars, procVars, supVars, Base, RowTypes,
        Control, Children, Registration, RowsTended, OwnersTend, RowTended,
        ApisTend, TendsWaiting, TendsRunning, Past, Handling, ChildLives, Final,
        Incomplete, Sweeping, OneSweeps, SweptAreGone, Cancelations, Gone, Idle
  <2> QED BY <2>1, <2>2, <2>3, <2>4, <2>5, <2>6 DEF Base
<1>2. ASSUME NEW t \in Tasks, CancelSet(t)
      PROVE  Base'
  <2>a. PICK x \in {"no", "take", "publish"} :
           /\ cancelReq[t].at \in {"free", "locked", "finalize"}
           /\ cancelReq' = [cancelReq EXCEPT ![t].at = x]
           /\ \/ state[t] \in Incomplete /\ state' = [state EXCEPT ![t] = "canceling"]
              \/ state' = state /\ x = "no"
           /\ UNCHANGED <<prior, appLock, procVars, signals, scan, supVars,
                          ignored, sweep>>
    BY <1>2 DEF CancelSet, CancelAt
  <2>c. cancelReq \in [Tasks -> Requests]
    BY DEF Base, RowTypes

  <2>e. /\ cancelReq' \in [Tasks -> Requests] /\ cancelReq'[t].at = x
        /\ \A u \in Tasks \ {t} : cancelReq'[u] = cancelReq[u]
    BY <2>a, <2>c, RequestMoves
  <2>1. RowTypes'
    BY <2>a, <2>c, <2>e, Facts
    DEF rowVars, procVars, supVars, Base, RowTypes, Control, Children, Handling,
        Incomplete, Final, States, Pcs, ApiPcs, WorkerPcs, ChildPcs, Stops,
        Outcomes
  <2>2. Control'
    BY <2>a, <2>c, <2>e, Facts
    DEF rowVars, procVars, supVars, Base, RowTypes, Control, Places, Children,
        Handling, WorkerPcs, ApiPcs, ChildLives, Final
  <2>3. Registration'
    BY <2>a, <2>c, <2>e, Facts
    DEF rowVars, procVars, supVars, Base, RowTypes, Control, Children, Handling,
        Registration, Alive, Gone, Idle
  <2>4. Sweeping'
    <3>1. OneSweeps'
      BY <2>a, <2>c, <2>e, Facts
      DEF rowVars, procVars, supVars, Base, RowTypes, Control, Children,
          Sweeping, OneSweeps, SweptAreGone, Past, Idle, Gone, ChildLives,
          Final, Incomplete, RowsTended, ApisTend, Handling, Cancelations
    <3>2. SweptAreGone'
      <4>1. \A u \in Tasks : (Past(u) => Past(u)') /\ (Past(u)' \/ state'[u] = state[u])
        BY <2>a DEF Base, RowTypes, Past, Final, Incomplete
      <4> QED BY <2>a, <4>1
        DEF procVars, supVars, Base, RowTypes, Sweeps, Sweeping, SweptAreGone,
            Gone, ChildLives
    <3> QED BY <3>1, <3>2 DEF Sweeping
  <2>5. Cancelations'
    BY <2>a, <2>c, <2>e, Facts
    DEF rowVars, procVars, supVars, Base, RowTypes, Control, Children,
        Cancelations, Past, Final, Incomplete, Handling
  <2>6. RowsTended'
    <3>1. OwnersTend'
      <4> SUFFICES ASSUME NEW u \in Tasks PROVE RowTended(u)'
        BY DEF OwnersTend
      <4>1. RowTended(u)
        BY DEF Base, RowsTended, OwnersTend
      <4>2. CASE u = t
        BY <4>1, <4>2, <2>a, <2>c, <2>e, Facts
        DEF rowVars, procVars, supVars, Base, RowTypes, RowTended, TendsWaiting,
            TendsRunning, Control, Children, Handling, Registration, Final,
            Incomplete
      <4>3. CASE u # t
        BY <4>1, <4>3, <2>a, <2>c, <2>e, Facts
        DEF rowVars, procVars, supVars, Base, RowTypes, RowTended, TendsWaiting,
            TendsRunning, Control, Children, Handling, Registration, Final,
            Incomplete
      <4> QED BY <4>2, <4>3
    <3>2. ApisTend'
      BY <2>a, <2>c, <2>e, Facts
      DEF rowVars, procVars, supVars, Base, RowTypes, RowsTended, ApisTend, Past,
          Final, Incomplete, Handling
    <3> QED BY <3>1, <3>2 DEF RowsTended
  <2> QED BY <2>1, <2>2, <2>3, <2>4, <2>5, <2>6 DEF Base
<1>3. ASSUME NEW t \in Tasks, CancelPublish(t)
      PROVE  Base'
  <2>1. RowTypes'
    <3>1. PICK x \in {"no"} : cancelReq' = [cancelReq EXCEPT ![t].at = x]
      BY <1>3 DEF CancelPublish, CancelAt
    <3>2. cancelReq \in [Tasks -> Requests]
      BY DEF Base, RowTypes
    <3>3. cancelReq' \in [Tasks -> Requests]
      BY <3>1, <3>2, RequestMoves
    <3> QED BY <3>3, <1>3, Facts
      DEF CancelPublish, rowVars, procVars, supVars, Base, RowTypes, States,
          Incomplete, Final
  <2>2. Control'
    BY <1>3, Facts, Records
    DEF CancelPublish, CancelAt, rowVars, procVars, supVars, Base, RowTypes,
        Control, Places, Children, Handling, WorkerPcs, ApiPcs, ChildLives,
        Final
  <2>3. Registration'
    BY <1>3, Facts, Records
    DEF CancelPublish, CancelAt, rowVars, procVars, supVars, Base, RowTypes,
        Control, Children, Handling, Registration, Alive, Gone, Idle
  <2>4. Sweeping'
    BY <1>3, Facts, Records
    DEF CancelPublish, CancelAt, rowVars, procVars, supVars, Base, RowTypes,
        Control, Children, Sweeping, OneSweeps, SweptAreGone, Past, Idle, Gone,
        ChildLives, Final, Incomplete, RowsTended, ApisTend, Handling,
        Cancelations
  <2>5. Cancelations'
    BY <1>3, Facts, Records
    DEF CancelPublish, CancelAt, rowVars, procVars, supVars, Base, RowTypes,
        Control, Children, Cancelations, Past, Final, Incomplete, Handling
  <2>6. RowsTended'
    BY <1>3, Facts, Records
    DEF CancelPublish, CancelAt, rowVars, procVars, supVars, Base, RowTypes,
        Control, Children, Registration, RowsTended, OwnersTend, RowTended,
        ApisTend, TendsWaiting, TendsRunning, Past, Handling, ChildLives, Final,
        Incomplete, Sweeping, OneSweeps, SweptAreGone, Cancelations, Gone, Idle
  <2> QED BY <2>1, <2>2, <2>3, <2>4, <2>5, <2>6 DEF Base
<1>4. ASSUME NEW t \in Tasks, CancelTake(t)
      PROVE  Base'
  <2>1. RowTypes'
    <3>1. PICK x \in {"finalize"} : cancelReq' = [cancelReq EXCEPT ![t].at = x]
      BY <1>4 DEF CancelTake, CancelAt
    <3>2. cancelReq \in [Tasks -> Requests]
      BY DEF Base, RowTypes
    <3>3. cancelReq' \in [Tasks -> Requests]
      BY <3>1, <3>2, RequestMoves
    <3> QED BY <3>3, <1>4, Facts
      DEF CancelTake, rowVars, procVars, supVars, Base, RowTypes, States,
          Incomplete, Final
  <2>2. Control'
    BY <1>4, Facts, Records
    DEF CancelTake, CancelAt, rowVars, procVars, supVars, Base, RowTypes,
        Control, Places, Children, Handling, WorkerPcs, ApiPcs, ChildLives,
        Final
  <2>3. Registration'
    <3>1. Console \in registered
      BY Facts DEF Base, Control, Places, Registration, Alive
    <3>2. appLock' = [appLock EXCEPT ![t] = Console] /\ UNCHANGED <<registered,
                                                                    pc>>
      BY <1>4 DEF CancelTake, procVars
    <3> QED BY <3>1, <3>2 DEF Base, RowTypes, Registration, Alive
  <2>4. Sweeping'
    BY <1>4, Facts, Records
    DEF CancelTake, CancelAt, rowVars, procVars, supVars, Base, RowTypes,
        Control, Children, Sweeping, OneSweeps, SweptAreGone, Past, Idle, Gone,
        ChildLives, Final, Incomplete, RowsTended, ApisTend, Handling,
        Cancelations
  <2>5. Cancelations'
    BY <1>4, Facts, Records
    DEF CancelTake, CancelAt, rowVars, procVars, supVars, Base, RowTypes,
        Control, Children, Cancelations, Past, Final, Incomplete, Handling
  <2>6. RowsTended'
    <3>1. /\ appLock' = [appLock EXCEPT ![t] = Console] /\ Past(t)
          /\ UNCHANGED <<state, pc, task, child, cancelState, ignored>>
      BY <1>4 DEF CancelTake, procVars, supVars, Base, Cancelations
    <3>2. OwnersTend'
      <4> SUFFICES ASSUME NEW u \in Tasks PROVE RowTended(u)'
        BY DEF OwnersTend
      <4>1. CASE u = t
        BY <3>1, <4>1, RowFree DEF Past, Final
      <4>2. CASE u # t
        <5>1. SameRow(u) /\ Others(Console) /\ RowTended(u)
          BY <3>1, <4>2
          DEF SameRow, Others, Base, RowTypes, RowsTended, OwnersTend
        <5>2. appLock[u] = Console =>
                 state[u] # "waiting" /\ state[u] # "running"
          BY <5>1, Facts
          DEF RowTended, TendsWaiting, TendsRunning, Base, Control, Places
        <5> QED BY <5>1, <5>2, RowKept, Facts
      <4> QED BY <4>1, <4>2
    <3>3. ApisTend'
      BY <3>1 DEF Base, RowTypes, RowsTended, ApisTend, Past
    <3> QED BY <3>2, <3>3 DEF RowsTended
  <2> QED BY <2>1, <2>2, <2>3, <2>4, <2>5, <2>6 DEF Base
<1>5. ASSUME NEW t \in Tasks, CancelFinalize(t)
      PROVE  Base'
  <2>a. PICK x \in {"no", "get"} :
           /\ cancelReq[t].at \in {"free", "locked", "finalize"}
           /\ cancelReq' = [cancelReq EXCEPT ![t].at = x]
           /\ \/ state[t] = "canceling" /\ state' = [state EXCEPT ![t] = "canceled"]
              \/ state' = state /\ x = "no"
           /\ UNCHANGED <<prior, appLock, procVars, signals, scan, supVars,
                          ignored, sweep>>
    BY <1>5 DEF CancelFinalize, CancelAt
  <2>c. cancelReq \in [Tasks -> Requests]
    BY DEF Base, RowTypes

  <2>e. /\ cancelReq' \in [Tasks -> Requests] /\ cancelReq'[t].at = x
        /\ \A u \in Tasks \ {t} : cancelReq'[u] = cancelReq[u]
    BY <2>a, <2>c, RequestMoves
  <2>1. RowTypes'
    BY <2>a, <2>c, <2>e, Facts
    DEF rowVars, procVars, supVars, Base, RowTypes, Control, Children, Handling,
        Incomplete, Final, States, Pcs, ApiPcs, WorkerPcs, ChildPcs, Stops,
        Outcomes
  <2>2. Control'
    BY <2>a, <2>c, <2>e, Facts
    DEF rowVars, procVars, supVars, Base, RowTypes, Control, Places, Children,
        Handling, WorkerPcs, ApiPcs, ChildLives, Final
  <2>3. Registration'
    BY <2>a, <2>c, <2>e, Facts
    DEF rowVars, procVars, supVars, Base, RowTypes, Control, Children, Handling,
        Registration, Alive, Gone, Idle
  <2>4. Sweeping'
    <3>1. OneSweeps'
      BY <2>a, <2>c, <2>e, Facts
      DEF rowVars, procVars, supVars, Base, RowTypes, Control, Children,
          Sweeping, OneSweeps, SweptAreGone, Past, Idle, Gone, ChildLives,
          Final, Incomplete, RowsTended, ApisTend, Handling, Cancelations
    <3>2. SweptAreGone'
      <4>1. \A u \in Tasks : (Past(u) => Past(u)') /\ (Past(u)' \/ state'[u] = state[u])
        BY <2>a DEF Base, RowTypes, Past, Final, Incomplete
      <4> QED BY <2>a, <4>1
        DEF procVars, supVars, Base, RowTypes, Sweeps, Sweeping, SweptAreGone,
            Gone, ChildLives
    <3> QED BY <3>1, <3>2 DEF Sweeping
  <2>5. Cancelations'
    BY <2>a, <2>c, <2>e, Facts
    DEF rowVars, procVars, supVars, Base, RowTypes, Control, Children,
        Cancelations, Past, Final, Incomplete, Handling
  <2>6. RowsTended'
    <3>1. OwnersTend'
      <4> SUFFICES ASSUME NEW u \in Tasks PROVE RowTended(u)'
        BY DEF OwnersTend
      <4>1. RowTended(u)
        BY DEF Base, RowsTended, OwnersTend
      <4>2. CASE u = t
        BY <4>1, <4>2, <2>a, <2>c, <2>e, Facts
        DEF rowVars, procVars, supVars, Base, RowTypes, RowTended, TendsWaiting,
            TendsRunning, Control, Children, Handling, Registration, Final,
            Incomplete
      <4>3. CASE u # t
        BY <4>1, <4>3, <2>a, <2>c, <2>e, Facts
        DEF rowVars, procVars, supVars, Base, RowTypes, RowTended, TendsWaiting,
            TendsRunning, Control, Children, Handling, Registration, Final,
            Incomplete
      <4> QED BY <4>2, <4>3
    <3>2. ApisTend'
      BY <2>a, <2>c, <2>e, Facts
      DEF rowVars, procVars, supVars, Base, RowTypes, RowsTended, ApisTend, Past,
          Final, Incomplete, Handling
    <3> QED BY <3>1, <3>2 DEF RowsTended
  <2> QED BY <2>1, <2>2, <2>3, <2>4, <2>5, <2>6 DEF Base
<1>6. ASSUME NEW t \in Tasks, CancelGet(t)
      PROVE  Base'
  <2>a. PICK r \in Requests :
           /\ cancelReq' = [cancelReq EXCEPT ![t] = r]
           /\ (r.at = "no") \/ (r.at = "release" /\ r.owner \in Names)
           /\ cancelReq[t].at = "get"
           /\ UNCHANGED <<rowVars, procVars, signals, scan, supVars, ignored,
                          sweep>>
    <3> DEFINE held == [at |-> "release", owner |-> owner[t]]
    <3>1. CASE owner[t] = Nobody
      BY <3>1, <1>6, Records DEF CancelGet
    <3>2. CASE owner[t] # Nobody
      <4>1. owner[t] \in Names
        BY <3>2, Facts DEF RedisTypes
      <4>2. held \in Requests /\ held.at = "release" /\ held.owner \in Names
        BY <4>1 DEF Requests
      <4>3. cancelReq' = [cancelReq EXCEPT ![t] = held]
        BY <3>2, <1>6 DEF CancelGet
      <4>4. /\ cancelReq[t].at = "get"
            /\ UNCHANGED <<rowVars, procVars, signals, scan, supVars, ignored,
                           sweep>>
        BY <1>6 DEF CancelGet
      <4> HIDE DEF held
      <4> QED BY <4>2, <4>3, <4>4
    <3> QED BY <3>1, <3>2
  <2>1. RowTypes'
    BY <2>a, <1>6, Facts
    DEF rowVars, procVars, supVars, Base, RowTypes, Control, Children, Handling,
        Incomplete, Final, States, Pcs, ApiPcs, WorkerPcs, ChildPcs, Stops,
        Outcomes
  <2>2. Control'
    BY <2>a, <1>6, Facts
    DEF rowVars, procVars, supVars, Base, RowTypes, Control, Places, Children,
        Handling, WorkerPcs, ApiPcs, ChildLives, Final
  <2>3. Registration'
    BY <2>a, <1>6, Facts
    DEF rowVars, procVars, supVars, Base, RowTypes, Control, Children, Handling,
        Registration, Alive, Gone, Idle
  <2>4. Sweeping'
    BY <2>a, <1>6, Facts
    DEF rowVars, procVars, supVars, Base, RowTypes, Control, Children, Sweeping,
        OneSweeps, SweptAreGone, Past, Idle, Gone, ChildLives, Final,
        Incomplete, RowsTended, ApisTend, Handling, Cancelations
  <2>5. Cancelations'
    <3>1. cancelReq \in [Tasks -> Requests]
      BY DEF Base, RowTypes
    <3> QED BY <3>1, <2>a DEF Base, Cancelations, Past, rowVars
  <2>6. RowsTended'
    BY <2>a, <1>6, Facts
    DEF rowVars, procVars, supVars, Base, RowTypes, Control, Children,
        Registration, RowsTended, OwnersTend, RowTended, ApisTend, TendsWaiting,
        TendsRunning, Past, Handling, ChildLives, Final, Incomplete, Sweeping,
        OneSweeps, SweptAreGone, Cancelations, Gone, Idle
  <2> QED BY <2>1, <2>2, <2>3, <2>4, <2>5, <2>6 DEF Base
<1>7. ASSUME NEW t \in Tasks, CancelRelease(t)
      PROVE  Base'
  <2>1. RowTypes'
    BY <1>7, Facts, Records
    DEF CancelRelease, NotCanceled, rowVars, procVars, supVars, Base, RowTypes,
        Control, Children, Handling, Incomplete, Final, States, Pcs, ApiPcs,
        WorkerPcs, ChildPcs, Stops, Outcomes
  <2>2. Control'
    BY <1>7, Facts, Records
    DEF CancelRelease, NotCanceled, rowVars, procVars, supVars, Base, RowTypes,
        Control, Places, Children, Handling, WorkerPcs, ApiPcs, ChildLives,
        Final
  <2>3. Registration'
    BY <1>7, Facts, Records
    DEF CancelRelease, NotCanceled, rowVars, procVars, supVars, Base, RowTypes,
        Control, Children, Handling, Registration, Alive, Gone, Idle
  <2>4. Sweeping'
    BY <1>7, Facts, Records
    DEF CancelRelease, NotCanceled, rowVars, procVars, supVars, Base, RowTypes,
        Control, Children, Sweeping, OneSweeps, SweptAreGone, Past, Idle, Gone,
        ChildLives, Final, Incomplete, RowsTended, ApisTend, Handling,
        Cancelations
  <2>5. Cancelations'
    BY <1>7, Facts, Records
    DEF CancelRelease, NotCanceled, rowVars, procVars, supVars, Base, RowTypes,
        Control, Children, Cancelations, Past, Final, Incomplete, Handling
  <2>6. RowsTended'
    BY <1>7, Facts, Records
    DEF CancelRelease, NotCanceled, rowVars, procVars, supVars, Base, RowTypes,
        Control, Children, Registration, RowsTended, OwnersTend, RowTended,
        ApisTend, TendsWaiting, TendsRunning, Past, Handling, ChildLives, Final,
        Incomplete, Sweeping, OneSweeps, SweptAreGone, Cancelations, Gone, Idle
  <2> QED BY <2>1, <2>2, <2>3, <2>4, <2>5, <2>6 DEF Base
<1> QED BY <1>1, <1>2, <1>3, <1>4, <1>5, <1>6, <1>7

-----------------------------------------------------------------------------
(***************************************************************************)
(* The Lua scripts.                                                        *)
(***************************************************************************)
(* A step that takes locks away, and gives none.                           *)
Shrinks ==
    /\ \A k \in Keys : owner'[k] \in {owner[k], Nobody}
    /\ \A r \in Resources : members'[r] \subseteq members[r]

(* What a name holds in Redis is found under its keys: Held, without the   *)
(* set of all keys.                                                        *)
LEMMA HeldKeys ==
    ASSUME NEW n \in Names
    PROVE  /\ Held(n) = {} <=> HoldsNothing(n)
           /\ \A S : Held(n) \subseteq S <=>
                 /\ \A k \in Keys : owner[k] = n => k \in S
                 /\ \A r \in Resources : n \in members[r] => r \in S
  BY Facts DEF Held, HoldsNothing

(* acquire_locks() keeps the registry in step with the locks, and takes    *)
(* only what nobody had.                                                   *)
LEMMA AcquireKeeps ==
    ASSUME RedisTypes, NothingUnregistered, NEW n \in Names, NEW t \in Tasks,
           Acquire(n, t)
    PROVE  /\ RedisTypes' /\ NothingUnregistered'
           /\ \A k \in {t} \cup Exclusive[t] : owner[k] = Nobody /\ owner'[k] = n
           /\ \A k \in Keys \ ({t} \cup Exclusive[t]) : owner'[k] = owner[k]
           /\ \A r \in Shared[t] : owner[r] = Nobody /\ n \in members'[r]
           /\ \A r \in Resources, m \in Names :
                 m # n => (m \in members'[r] <=> m \in members[r])
           /\ \A r \in Resources \ Shared[t] : members'[r] = members[r]
           /\ \A r \in Resources : members[r] \subseteq members'[r]
           /\ \A r \in Exclusive[t] : members[r] = {}
<1>1. /\ \A k \in {t} \cup Exclusive[t] : owner[k] = Nobody /\ owner'[k] = n
      /\ \A k \in Keys \ ({t} \cup Exclusive[t]) : owner'[k] = owner[k]
      /\ owner' \in [Keys -> Names \cup {Nobody}]
  BY Facts DEF Acquire, Blocked, RedisTypes
<1>2. /\ \A r \in Shared[t] : owner[r] = Nobody /\ members'[r] = members[r] \cup {n}
      /\ \A r \in Resources \ Shared[t] : members'[r] = members[r]
      /\ members' \in [Resources -> SUBSET Names]
      /\ \A r \in Exclusive[t] : members[r] = {}
  BY Facts DEF Acquire, Blocked, RedisTypes
<1>3. \A r \in Resources : owner'[r] = Nobody \/ members'[r] = {}
  <2> SUFFICES ASSUME NEW r \in Resources, owner'[r] # Nobody
               PROVE  members'[r] = {}
    OBVIOUS
  <2>1. CASE r \in Exclusive[t]
    BY <2>1, <1>2, Facts
  <2>2. CASE r \notin Exclusive[t]
    BY <2>2, <1>1, <1>2, Facts DEF RedisTypes
  <2> QED BY <2>1, <2>2
<1>4. /\ registry' \in [Names -> SUBSET Keys] /\ activeOwners' \subseteq Names
      /\ registry'[n] = registry[n] \cup {t} \cup Exclusive[t] \cup Shared[t]
      /\ \A m \in Names : m # n => registry'[m] = registry[m]
      /\ activeOwners' = activeOwners \cup {n}
  BY Facts DEF Acquire, RedisTypes, Reserved
<1>5. NothingUnregistered'
  <2> SUFFICES ASSUME NEW m \in Names
               PROVE  Held(m)' \subseteq registry'[m]
                      /\ (registry'[m] # {} => m \in activeOwners')
    BY DEF NothingUnregistered
  <2>1. Held(m) \subseteq registry[m] /\ (registry[m] # {} => m \in activeOwners)
    BY DEF NothingUnregistered
  <2>2. ASSUME NEW k \in Held(m)'
        PROVE  k \in registry'[m]
    <3>1. k \in Keys /\ (owner'[k] = m \/ (k \in Resources /\ m \in members'[k]))
      BY <2>2 DEF Held
    <3>2. \/ k \in Held(m)
          \/ m = n /\ k \in {t} \cup Exclusive[t] \cup Shared[t]
      BY <3>1, <1>1, <1>2, Facts DEF Held
    <3> QED BY <3>2, <2>1, <1>4
  <2>3. registry'[m] # {} => m \in activeOwners'
    BY <2>1, <1>4
  <2> QED BY <2>2, <2>3
<1> QED BY <1>1, <1>2, <1>3, <1>4, <1>5 DEF RedisTypes

(* release_locks() takes a task's locks from one owner, and from no other. *)
LEMMA ReleaseKeeps ==
    ASSUME RedisTypes, NothingUnregistered, NEW n \in Names, NEW t \in Tasks,
           Release(n, t)
    PROVE  /\ RedisTypes' /\ NothingUnregistered' /\ Shrinks
           /\ HoldsOnly(n, t) => HoldsNothing(n)'
<1> DEFINE S == LocksOf(n, t)
<1>1. /\ \A k \in Keys : owner'[k] = IF k \in S /\ owner[k] = n THEN Nobody ELSE owner[k]
      /\ \A r \in Resources :
            members'[r] = IF r \in S THEN members[r] \ {n} ELSE members[r]
      /\ registry' = [registry EXCEPT ![n] = @ \ S]
      /\ activeOwners' = activeOwners
      /\ owner' \in [Keys -> Names \cup {Nobody}]
      /\ members' \in [Resources -> SUBSET Names]
  BY DEF Release, Drop, RedisTypes
<1>2. /\ \A k \in {t} \cup Exclusive[t] : owner[k] = n => k \in S
      /\ \A r \in Shared[t] : r \in S
      /\ \A k \in S : k \in {t} \cup Exclusive[t] => owner[k] = n
      /\ S \subseteq Keys /\ S \subseteq {t} \cup Exclusive[t] \cup Shared[t]
  BY Facts DEF LocksOf
<1>3. Shrinks
  BY <1>1 DEF Shrinks
<1>4. RedisTypes'
  <2>1. \A r \in Resources : owner'[r] = Nobody \/ members'[r] = {}
    BY <1>3, Facts DEF Shrinks, RedisTypes
  <2>2. registry' \in [Names -> SUBSET Keys]
    BY <1>1 DEF RedisTypes
  <2> QED BY <2>1, <2>2, <1>1 DEF RedisTypes
<1>5. NothingUnregistered'
  <2> SUFFICES ASSUME NEW m \in Names
               PROVE  Held(m)' \subseteq registry'[m]
                      /\ (registry'[m] # {} => m \in activeOwners')
    BY DEF NothingUnregistered
  <2>1. Held(m) \subseteq registry[m] /\ (registry[m] # {} => m \in activeOwners)
    BY DEF NothingUnregistered
  <2>2. registry'[m] = IF m = n THEN registry[m] \ S ELSE registry[m]
    BY <1>1 DEF RedisTypes
  <2>3. ASSUME NEW k \in Held(m)'
        PROVE  k \in registry'[m]
    <3>1. k \in Keys /\ (owner'[k] = m \/ (k \in Resources /\ m \in members'[k]))
      BY <2>3 DEF Held
    <3>2. k \in Held(m)
      BY <3>1, <1>3, Facts DEF Held, Shrinks
    <3>3. m = n => k \notin S
      <4> SUFFICES ASSUME m = n, k \in S PROVE FALSE
        OBVIOUS
      <4>1. owner'[k] # n
        BY <1>1, <1>2, Facts
      <4>2. k \in Resources => n \notin members'[k]
        BY <1>1
      <4> QED BY <4>1, <4>2, <3>1
    <3> QED BY <3>2, <3>3, <2>1, <2>2
  <2>4. registry'[m] # {} => m \in activeOwners'
    BY <2>1, <2>2, <1>1
  <2> QED BY <2>3, <2>4
<1>6. ASSUME HoldsOnly(n, t)
      PROVE  HoldsNothing(n)'
  <2>1. \A k \in Keys : owner'[k] # n
    BY <1>6, <1>1, <1>2, Facts DEF HoldsOnly
  <2>2. \A r \in Resources : n \notin members'[r]
    BY <1>6, <1>1, <1>2, Facts DEF HoldsOnly
  <2> QED BY <2>1, <2>2 DEF HoldsNothing
<1> QED BY <1>3, <1>4, <1>5, <1>6

(* cleanup_locks_for_owner() leaves its owners nothing, as the registry    *)
(* names all that they have.                                               *)
LEMMA CleanupKeeps ==
    ASSUME RedisTypes, NothingUnregistered, NEW S \in SUBSET Names,
           CleanupOwners(S)
    PROVE  /\ RedisTypes' /\ NothingUnregistered' /\ Shrinks
           /\ \A n \in S : HoldsNothing(n)'
<1>1. /\ \A k \in Keys :
            owner'[k] = IF owner[k] \in S /\ k \in registry[owner[k]]
                        THEN Nobody ELSE owner[k]
      /\ \A r \in Resources :
            members'[r] = {n \in members[r] : ~(n \in S /\ r \in registry[n])}
      /\ \A n \in Names : registry'[n] = IF n \in S THEN {} ELSE registry[n]
      /\ activeOwners' = activeOwners \ S
      /\ owner' \in [Keys -> Names \cup {Nobody}]
      /\ members' \in [Resources -> SUBSET Names]
      /\ registry' \in [Names -> SUBSET Keys]
  BY DEF CleanupOwners, RedisTypes
<1>2. Shrinks
  BY <1>1 DEF Shrinks
<1>3. RedisTypes'
  <2>1. \A r \in Resources : owner'[r] = Nobody \/ members'[r] = {}
    BY <1>2, Facts DEF Shrinks, RedisTypes
  <2> QED BY <2>1, <1>1 DEF RedisTypes
<1>4. \A n \in Names : /\ \A k \in Keys : owner[k] = n => k \in registry[n]
                       /\ \A r \in Resources : n \in members[r] => r \in registry[n]
                       /\ registry[n] # {} => n \in activeOwners
  BY HeldKeys DEF NothingUnregistered
<1>5. \A n \in S : HoldsNothing(n)'
  BY <1>1, <1>4, Facts DEF HoldsNothing
<1>6. NothingUnregistered'
  <2> SUFFICES ASSUME NEW m \in Names
               PROVE  Held(m)' \subseteq registry'[m]
                      /\ (registry'[m] # {} => m \in activeOwners')
    BY DEF NothingUnregistered
  <2>1. CASE m \in S
    <3>1. Held(m)' = {}
      BY <2>1, <1>5, Facts DEF Held, HoldsNothing
    <3> QED BY <3>1, <2>1, <1>1
  <2>2. CASE m \notin S
    <3>1. registry'[m] = registry[m] /\ (m \in activeOwners => m \in activeOwners')
      BY <2>2, <1>1
    <3>2. Held(m)' \subseteq Held(m)
      BY <1>2, Facts DEF Held, Shrinks
    <3>3. Held(m) \subseteq registry[m]
      BY DEF NothingUnregistered
    <3> QED BY <3>1, <3>2, <3>3, <1>4
  <2> QED BY <2>1, <2>2
<1> QED BY <1>2, <1>3, <1>5, <1>6

-----------------------------------------------------------------------------
(***************************************************************************)
(* Locks of those who work, and of those who do not.                       *)
(***************************************************************************)
(* What the invariant says of names and of locks.                          *)
LockInv ==
    /\ RedisTypes /\ HistoryTypes /\ Namesakes /\ NothingUnregistered
    /\ Locks /\ Holdings

(* A process that ends up with no more work, and no fewer rights, than it  *)
(* had.                                                                    *)
Steady(p) ==
    /\ Alive(p)' => Alive(p)
    /\ Working(p)' => Working(p) /\ task'[p] = task[p]
    /\ Alive(p)' /\ pc'[p] # "start" =>
          /\ pc[p] # "start"
          /\ Holding(p) => Holding(p)' /\ task'[p] = task[p]

Quiet ==
    /\ UNCHANGED <<redisVars, history>>
    /\ \A p \in Procs : Steady(p)

(* Locks are taken away in the name of others, by the cleanup or by a      *)
(* user.                                                                   *)
Drops ==
    /\ RedisTypes' /\ NothingUnregistered' /\ Shrinks
    /\ Rob({}) /\ UNCHANGED leaky
    /\ \A p \in Procs : Steady(p)

(* A process takes the locks of a task.                                    *)
Takes(p, t) ==
    /\ Acquire(Name[p], t)
    /\ UNCHANGED history
    /\ pc[p] \in {"scan", "acquire"} /\ ~Working(p)
    /\ Alive(p)' /\ Working(p)' /\ Holding(p)' /\ task'[p] = t
    /\ \A q \in Procs : q # p => Steady(q)

(* A process, or its child, gives the locks of its task back.              *)
Gives(p) ==
    /\ Release(Name[p], task[p])
    /\ Rob({p}) /\ UNCHANGED leaky
    /\ task[p] \in Tasks
    /\ ~Working(p)'
    /\ Alive(p)' => Alive(p) /\ pc[p] # "start" /\ Holding(p)
    /\ \A q \in Procs : q # p => Steady(q)

(* Whoever works, as dispatch(), as a worker or as its child, has a task.  *)
LEMMA WorkersHaveTasks ==
    ASSUME Base
    PROVE  \A p \in Procs : Working(p) => task[p] \in Tasks
  BY Facts DEF Base, Control, Children, Working, ChildLives, Handling

(* Locks stay with who works when locks disappear only of tasks that are   *)
(* then counted as robbed, or of tasks whose processes have stopped        *)
(* working.                                                                *)
LEMMA LocksDropped ==
    ASSUME Base, RedisTypes, Locks, Shrinks, NEW T \in SUBSET Procs, Rob(T),
           \A p \in Procs : Working(p)' =>
               Working(p) /\ task'[p] = task[p] /\ p \notin T
    PROVE  Locks'
<1>1. /\ robbed \subseteq robbed'
      /\ \A p \in Procs \ T : Working(p) =>
            \A k \in {task[p]} \cup Reserved(task[p]) :
                k \in Held(Name[p]) /\ k \notin Held(Name[p])' => task[p] \in robbed'
  BY DEF Rob
<1>2. ASSUME NEW p \in Procs, NEW t \in Tasks, Working(p)', task'[p] = t,
             t \notin robbed'
      PROVE  HasLocks(Name[p], t)'
  <2>1. Working(p) /\ task[p] = t /\ p \notin T /\ t \notin robbed
    BY <1>1, <1>2
  <2>2. HasLocks(Name[p], t)
    BY <2>1 DEF Locks
  <2>3. \A k \in {t} \cup Exclusive[t] \cup Shared[t] :
            k \in Held(Name[p]) => k \in Held(Name[p])'
    BY <1>1, <2>1, <1>2 DEF Reserved
  <2>4. ASSUME NEW k \in {t} \cup Exclusive[t]
        PROVE  owner'[k] = Name[p]
    <3>1. k \in Keys /\ owner[k] = Name[p] /\ Name[p] \in Names
      BY <2>2, Facts DEF HasLocks
    <3>2. k \in Held(Name[p])'
      BY <3>1, <2>3 DEF Held
    <3>3. k \in Resources => members'[k] = {}
      BY <3>1, Facts DEF RedisTypes, Shrinks
    <3> QED BY <3>2, <3>3 DEF Held
  <2>5. ASSUME NEW r \in Shared[t]
        PROVE  Name[p] \in members'[r]
    <3>1. r \in Resources /\ r \in Keys /\ Name[p] \in members[r] /\ Name[p] \in Names
      BY <2>2, Facts DEF HasLocks
    <3>2. r \in Held(Name[p])'
      BY <3>1, <2>3 DEF Held
    <3>3. owner[r] = Nobody /\ owner'[r] = Nobody
      BY <3>1 DEF RedisTypes, Shrinks
    <3> QED BY <3>1, <3>2, <3>3, Facts DEF Held
  <2> QED BY <2>4, <2>5 DEF HasLocks
<1>3. ASSUME NEW p \in Procs, NEW q \in Procs, NEW t \in Tasks, NEW u \in Tasks,
             p # q, Working(p)', Working(q)', task'[p] = t, task'[q] = u
      PROVE  t \in robbed' \/ u \in robbed' \/ (t # u /\ ~Conflict(t, u))
  <2>1. Working(p) /\ Working(q) /\ task[p] = t /\ task[q] = u
    BY <1>3
  <2> QED BY <2>1, <1>1, <1>3 DEF Locks
<1>4. /\ \A p \in Procs, t \in Tasks :
            (Working(p) /\ task[p] = t /\ t \notin robbed => HasLocks(Name[p], t))'
      /\ \A p, q \in Procs : \A t, u \in Tasks :
            (p # q /\ Working(p) /\ Working(q) /\ task[p] = t /\ task[q] = u
              => t \in robbed \/ u \in robbed \/ (t # u /\ ~Conflict(t, u)))'
  BY <1>2, <1>3 DEF Conflict
<1> QED BY <1>4 DEF Locks

(* Tasks keep their locks while they are in work when a step touches no    *)
(* lock and nobody begins to work.                                         *)
LEMMA LocksKept ==
    ASSUME Locks, UNCHANGED <<owner, members, robbed>>,
           \A p \in Procs : Working(p)' => Working(p) /\ task'[p] = task[p]
    PROVE  Locks'
<1>1. ASSUME NEW p \in Procs, NEW t \in Tasks, Working(p)', task'[p] = t,
             t \notin robbed'
      PROVE  HasLocks(Name[p], t)'
  <2>1. HasLocks(Name[p], t)
    BY <1>1 DEF Locks
  <2> QED BY <2>1 DEF HasLocks
<1>2. ASSUME NEW p \in Procs, NEW q \in Procs, NEW t \in Tasks, NEW u \in Tasks,
             p # q, Working(p)', Working(q)', task'[p] = t, task'[q] = u
      PROVE  t \in robbed' \/ u \in robbed' \/ (t # u /\ ~Conflict(t, u))
  BY <1>2 DEF Locks
<1>3. /\ \A p \in Procs, t \in Tasks :
            (Working(p) /\ task[p] = t /\ t \notin robbed => HasLocks(Name[p], t))'
      /\ \A p, q \in Procs : \A t, u \in Tasks :
            (p # q /\ Working(p) /\ Working(q) /\ task[p] = t /\ task[q] = u
              => t \in robbed \/ u \in robbed \/ (t # u /\ ~Conflict(t, u)))'
  BY <1>1, <1>2 DEF Conflict
<1> QED BY <1>3 DEF Locks

(* The locks that acquire_locks() gives to a process exclude those of      *)
(* every task in work: it finds them all free.                             *)
LEMMA LocksTaken ==
    ASSUME RedisTypes, NothingUnregistered, Locks, NEW p \in Procs, NEW t \in Tasks,
           Takes(p, t)
    PROVE  Locks'
<1>1. /\ \A k \in {t} \cup Exclusive[t] : owner[k] = Nobody /\ owner'[k] = Name[p]
      /\ \A k \in Keys \ ({t} \cup Exclusive[t]) : owner'[k] = owner[k]
      /\ \A r \in Shared[t] : owner[r] = Nobody /\ Name[p] \in members'[r]
      /\ \A r \in Resources : members[r] \subseteq members'[r]
      /\ \A r \in Exclusive[t] : members[r] = {}
  BY AcquireKeeps, Facts DEF Takes
<1>2. /\ robbed' = robbed /\ task'[p] = t
      /\ \A q \in Procs : q # p /\ Working(q)' => Working(q) /\ task'[q] = task[q]
  BY DEF Takes, history, Steady
<1>3. ASSUME NEW q \in Procs, NEW u \in Tasks, q # p, Working(q), task[q] = u,
             u \notin robbed
      PROVE  /\ HasLocks(Name[q], u) /\ HasLocks(Name[q], u)'
             /\ u # t /\ ~Conflict(t, u) /\ ~Conflict(u, t)
  <2>1. HasLocks(Name[q], u)
    BY <1>3 DEF Locks
  <2>2. \A k \in {u} \cup Exclusive[u] : k \in Keys /\ owner[k] # Nobody
    BY <2>1, Facts DEF HasLocks
  <2>3. \A r \in Shared[u] : r \in Resources /\ members[r] # {}
    BY <2>1, Facts DEF HasLocks
  <2>4. HasLocks(Name[q], u)'
    <3>1. \A k \in {u} \cup Exclusive[u] : owner'[k] = Name[q]
      BY <2>1, <2>2, <1>1 DEF HasLocks
    <3>2. \A r \in Shared[u] : Name[q] \in members'[r]
      BY <2>1, <2>3, <1>1 DEF HasLocks
    <3> QED BY <3>1, <3>2 DEF HasLocks
  <2>5. u # t
    BY <2>2, <1>1
  <2>6. ~Conflict(t, u) /\ ~Conflict(u, t)
    BY <2>2, <2>3, <1>1 DEF Conflict, Reserved
  <2> QED BY <2>1, <2>4, <2>5, <2>6
<1>4. HasLocks(Name[p], t)'
  BY <1>1 DEF HasLocks
<1>5. ASSUME NEW q \in Procs, NEW u \in Tasks, Working(q)', task'[q] = u,
             u \notin robbed'
      PROVE  HasLocks(Name[q], u)'
  BY <1>2, <1>3, <1>4, <1>5
<1>6. ASSUME NEW q \in Procs, NEW v \in Procs, NEW u \in Tasks, NEW s \in Tasks,
             q # v, Working(q)', Working(v)', task'[q] = u, task'[v] = s
      PROVE  u \in robbed' \/ s \in robbed' \/ (u # s /\ ~Conflict(u, s))
  <2>1. CASE q # p /\ v # p
    BY <2>1, <1>2, <1>6 DEF Locks
  <2>2. CASE q = p
    BY <2>2, <1>2, <1>3, <1>6
  <2>3. CASE v = p
    BY <2>3, <1>2, <1>3, <1>6
  <2> QED BY <2>1, <2>2, <2>3
<1>7. /\ \A q \in Procs, u \in Tasks :
            (Working(q) /\ task[q] = u /\ u \notin robbed => HasLocks(Name[q], u))'
      /\ \A q, v \in Procs : \A u, s \in Tasks :
            (q # v /\ Working(q) /\ Working(v) /\ task[q] = u /\ task[v] = s
              => u \in robbed \/ s \in robbed \/ (u # s /\ ~Conflict(u, s)))'
  BY <1>5, <1>6 DEF Conflict
<1> QED BY <1>7 DEF Locks

(* Processes of one name, a worker and its predecessor, keep out of each   *)
(* other's way unless one starts.                                          *)
LEMMA NamesakesKept ==
    ASSUME Namesakes, \A p \in Procs : Alive(p)' => Alive(p)
    PROVE  Namesakes'
  BY DEF Namesakes

(* What is counted as robbed is always a task that a process had in work.  *)
LEMMA HistoryKept ==
    ASSUME Base, HistoryTypes, UNCHANGED leaky,
           UNCHANGED robbed \/ \E T \in SUBSET Procs : Rob(T)
    PROVE  HistoryTypes'
<1>1. \A p \in Procs : Working(p) => task[p] \in Tasks
  BY WorkersHaveTasks
<1>2. CASE UNCHANGED robbed
  BY <1>2 DEF HistoryTypes
<1>3. CASE \E T \in SUBSET Procs : Rob(T)
  BY <1>1, <1>3 DEF HistoryTypes, Rob
<1> QED BY <1>2, <1>3

(* Who had nothing, or nothing but the locks of one task, has no more than *)
(* that after a step that only takes locks away.                           *)
LEMMA ShrinkHoldings ==
    ASSUME RedisTypes, Shrinks, NEW n \in Names
    PROVE  /\ HoldsNothing(n) => HoldsNothing(n)'
           /\ \A t \in Tasks : HoldsOnly(n, t) => HoldsOnly(n, t)'
<1>1. \A k \in Keys : owner'[k] = n => owner[k] = n
  BY Facts DEF Shrinks
<1>2. \A r \in Resources : n \in members'[r] => n \in members[r]
  BY DEF Shrinks
<1>3. HoldsNothing(n) => HoldsNothing(n)'
  BY <1>1, <1>2 DEF HoldsNothing
<1>4. ASSUME NEW t \in Tasks, HoldsOnly(n, t)
      PROVE  HoldsOnly(n, t)'
  BY <1>1, <1>2, <1>4 DEF HoldsOnly
<1> QED BY <1>3, <1>4

(* A process that neither takes nor gives back locks in a step keeps what  *)
(* it has, as far as it is not taken away.                                 *)
LEMMA SteadyHoldings ==
    ASSUME RedisTypes, Shrinks, NEW p \in Procs, HoldingOf(p), Steady(p),
           p \in leaky => p \in leaky'
    PROVE  HoldingOf(p)'
<1> SUFFICES ASSUME Alive(p)', pc'[p] # "start", p \notin leaky'
             PROVE  \/ HoldsNothing(Name[p])'
                    \/ /\ Holding(p)'
                       /\ \A t \in Tasks : task'[p] = t => HoldsOnly(Name[p], t)'
  BY DEF HoldingOf
<1>1. /\ Alive(p) /\ pc[p] # "start" /\ p \notin leaky
      /\ Holding(p) => Holding(p)' /\ task'[p] = task[p]
  BY DEF Steady
<1>2. CASE HoldsNothing(Name[p])
  BY <1>2, ShrinkHoldings, Facts
<1>3. CASE Holding(p) /\ \A t \in Tasks : task[p] = t => HoldsOnly(Name[p], t)
  <2>1. ASSUME NEW t \in Tasks, task'[p] = t
        PROVE  HoldsOnly(Name[p], t)'
    <3>1. HoldsOnly(Name[p], t)
      BY <1>1, <1>3, <2>1
    <3> QED BY <3>1, ShrinkHoldings, Facts
  <2> QED BY <2>1, <1>1, <1>3
<1> QED BY <1>1, <1>2, <1>3 DEF HoldingOf

(* A step of the code that leaves Redis alone, and lets nobody begin or    *)
(* stop to work on a task, keeps names and locks in order.                 *)
LEMMA QuietKeeps ==
    ASSUME Base, LockInv, Quiet
    PROVE  LockInv'
<1>1. /\ UNCHANGED <<owner, members, registry, activeOwners, robbed, leaky>>
      /\ \A p \in Procs : Steady(p)
      /\ \A p \in Procs : Alive(p)' => Alive(p)
      /\ \A p \in Procs : Working(p)' => Working(p) /\ task'[p] = task[p]
  BY DEF Quiet, redisVars, history, Steady
<1>2. RedisTypes' /\ HistoryTypes' /\ NothingUnregistered' /\ Shrinks
  BY <1>1
  DEF LockInv, RedisTypes, HistoryTypes, NothingUnregistered, Held, Shrinks
<1>3. Namesakes'
  BY <1>1, NamesakesKept DEF LockInv
<1>4. Locks'
  BY <1>1, LocksKept DEF LockInv
<1>5. Holdings'
  BY <1>1, <1>2, SteadyHoldings DEF LockInv, Holdings
<1> QED BY <1>2, <1>3, <1>4, <1>5 DEF LockInv

(* A step of the cleanup or of cancel_task() that takes locks away from    *)
(* their owners, in one of the scripts, keeps names and locks in order.    *)
LEMMA DropsKeep ==
    ASSUME Base, LockInv, Drops
    PROVE  LockInv'
<1>1. /\ RedisTypes'
      /\ NothingUnregistered'
      /\ Shrinks
      /\ Rob({})
      /\ leaky' = leaky
      /\ \A p \in Procs : Steady(p)
      /\ \A p \in Procs : Alive(p)' => Alive(p)
      /\ \A p \in Procs : Working(p)' =>
            Working(p) /\ task'[p] = task[p] /\ p \notin {}
  BY DEF Drops, Steady
<1>2. Namesakes'
  BY <1>1, NamesakesKept DEF LockInv
<1>3. HistoryTypes'
  BY <1>1, HistoryKept DEF LockInv
<1>4. Locks'
  <2>1. {} \in SUBSET Procs
    OBVIOUS
  <2> QED BY <2>1, <1>1, LocksDropped DEF LockInv
<1>5. Holdings'
  BY <1>1, SteadyHoldings DEF LockInv, Holdings
<1> QED BY <1>1, <1>2, <1>3, <1>4, <1>5 DEF LockInv

(* A process that takes the locks of a task with acquire_locks() keeps     *)
(* names and locks in order.                                               *)
LEMMA TakesKeeps ==
    ASSUME Base, LockInv, NEW p \in Procs, NEW t \in Tasks, Takes(p, t)
    PROVE  LockInv'
<1>1. /\ Acquire(Name[p], t) /\ Name[p] \in Names
      /\ UNCHANGED <<robbed, leaky>>
      /\ Alive(p) /\ pc[p] # "start" /\ ~Holding(p)
      /\ Alive(p)' /\ Holding(p)' /\ task'[p] = t
      /\ \A q \in Procs : q # p => Steady(q)
      /\ \A q \in Procs : Alive(q)' => Alive(q)
  BY Facts DEF Takes, history, Alive, Holding, Steady
<1>2. /\ RedisTypes' /\ NothingUnregistered'
      /\ \A k \in {t} \cup Exclusive[t] : owner'[k] = Name[p]
      /\ \A k \in Keys \ ({t} \cup Exclusive[t]) : owner'[k] = owner[k]
      /\ \A r \in Resources, m \in Names :
            m # Name[p] => (m \in members'[r] <=> m \in members[r])
      /\ \A r \in Resources \ Shared[t] : members'[r] = members[r]
  BY <1>1, AcquireKeeps DEF LockInv
<1>3. HistoryTypes' /\ Namesakes'
  BY <1>1, NamesakesKept DEF LockInv, HistoryTypes
<1>4. Locks'
  BY LocksTaken DEF LockInv
<1>5. HoldingOf(p)'
  <2>1. CASE p \in leaky
    BY <2>1, <1>1 DEF HoldingOf
  <2>2. CASE p \notin leaky
    <3>1. HoldsNothing(Name[p])
      BY <2>2, <1>1 DEF LockInv, Holdings, HoldingOf
    <3>2. HoldsOnly(Name[p], t)'
      BY <3>1, <1>2 DEF HoldsNothing, HoldsOnly
    <3>3. \A u \in Tasks : task'[p] = u => HoldsOnly(Name[p], u)'
      BY <3>2, <1>1
    <3> QED BY <3>3, <1>1 DEF HoldingOf
  <2> QED BY <2>1, <2>2
<1>6. ASSUME NEW q \in Procs, q # p
      PROVE  HoldingOf(q)'
  <2> SUFFICES ASSUME Alive(q)', pc'[q] # "start", q \notin leaky'
               PROVE  \/ HoldsNothing(Name[q])'
                      \/ /\ Holding(q)'
                         /\ \A u \in Tasks : task'[q] = u => HoldsOnly(Name[q], u)'
    BY DEF HoldingOf
  <2>1. /\ Alive(q) /\ pc[q] # "start" /\ q \notin leaky
        /\ Holding(q) => Holding(q)' /\ task'[q] = task[q]
    BY <1>1, <1>6 DEF Steady
  <2>2. Name[q] # Name[p] /\ Name[q] \in Names
    BY <2>1, <1>1, <1>6, Facts DEF LockInv, Namesakes
  <2>3. /\ \A k \in Keys : owner'[k] = Name[q] => owner[k] = Name[q]
        /\ \A r \in Resources : Name[q] \in members'[r] => Name[q] \in members[r]
    BY <2>2, <1>2
  <2>4. CASE HoldsNothing(Name[q])
    BY <2>3, <2>4 DEF HoldsNothing
  <2>5. CASE Holding(q) /\ \A u \in Tasks : task[q] = u => HoldsOnly(Name[q], u)
    <3>1. ASSUME NEW u \in Tasks, task'[q] = u
          PROVE  HoldsOnly(Name[q], u)'
      <4>1. HoldsOnly(Name[q], u)
        BY <2>1, <2>5, <3>1
      <4> QED BY <4>1, <2>3 DEF HoldsOnly
    <3> QED BY <3>1, <2>1, <2>5
  <2> QED BY <2>1, <2>4, <2>5 DEF LockInv, Holdings, HoldingOf
<1>7. Holdings'
  BY <1>5, <1>6 DEF Holdings
<1> QED BY <1>2, <1>3, <1>4, <1>7 DEF LockInv

(* So does a process, or a child, that gives the locks of its task back:   *)
(* it had no others, and so it keeps none.                                 *)
LEMMA GivesKeeps ==
    ASSUME Base, LockInv, NEW p \in Procs, Gives(p)
    PROVE  LockInv'
<1>1. PICK t \in Tasks : t = task[p]
  BY DEF Gives
<1>2. /\ Release(Name[p], t) /\ Name[p] \in Names
      /\ Rob({p}) /\ leaky' = leaky
      /\ ~Working(p)'
      /\ Alive(p)' => Alive(p) /\ pc[p] # "start"
      /\ \A q \in Procs : q # p => Steady(q)
      /\ \A q \in Procs : Alive(q)' => Alive(q)
      /\ {p} \in SUBSET Procs
      /\ \A q \in Procs : Working(q)' =>
            Working(q) /\ task'[q] = task[q] /\ q \notin {p}
  BY <1>1, Facts DEF Gives, Steady
<1>3. /\ RedisTypes' /\ NothingUnregistered' /\ Shrinks
      /\ HoldsOnly(Name[p], t) => HoldsNothing(Name[p])'
  BY <1>2, ReleaseKeeps DEF LockInv
<1>4. HistoryTypes' /\ Namesakes'
  BY <1>2, HistoryKept, NamesakesKept DEF LockInv
<1>5. Locks'
  BY <1>2, <1>3, LocksDropped DEF LockInv
<1>6. HoldingOf(p)'
  <2> SUFFICES ASSUME Alive(p)', p \notin leaky'
               PROVE  HoldsNothing(Name[p])'
    BY DEF HoldingOf
  <2>1. \/ HoldsNothing(Name[p])
        \/ HoldsOnly(Name[p], t)
    BY <1>1, <1>2 DEF LockInv, Holdings, HoldingOf
  <2> QED BY <2>1, <1>2, <1>3, ShrinkHoldings DEF LockInv
<1>7. ASSUME NEW q \in Procs, q # p
      PROVE  HoldingOf(q)'
  BY <1>2, <1>3, <1>7, SteadyHoldings DEF LockInv, Holdings
<1>8. Holdings'
  BY <1>6, <1>7 DEF Holdings
<1> QED BY <1>3, <1>4, <1>5, <1>8 DEF LockInv

-----------------------------------------------------------------------------
(***************************************************************************)
(* What every step is, in these terms.                                     *)
(***************************************************************************)
(* Steps of dispatch() and of execute_task() leave the locks alone, but    *)
(* for those that take them and those that give them back.                 *)
LEMMA ApiShapes ==
    ASSUME Base
    PROVE  /\ \A t \in Tasks : Insert(t) => Quiet
           /\ \A a \in Apis : \A t \in Tasks : ApiInsert(a, t) => Quiet
           /\ \A a \in Apis : CheckResources(a) => Quiet
           /\ \A a \in Apis : ApiAcquire(a) =>
                 Quiet \/ \E t \in Tasks : Takes(a, t)
           /\ \A a \in Apis : Defer(a) => Quiet
           /\ \A p \in Procs : SetRunning(p) => Quiet
           /\ \A p \in Procs : Finish(p) => Quiet
           /\ \A p \in Procs : ReleaseAfter(p) => Gives(p)
           /\ \A p \in Procs : SetCanceling(p) => Quiet
           /\ \A p \in Procs : SetCanceled(p) => Quiet
<1> USE Facts
  DEF Goto, Quiet, Steady, Alive, Working, Holding, ChildLives, procVars,
      redisVars, supVars, Base, RowTypes
<1>1. ASSUME NEW t \in Tasks, Insert(t) PROVE Quiet
  BY <1>1 DEF Insert
<1>2. ASSUME NEW a \in Apis, NEW t \in Tasks, ApiInsert(a, t) PROVE Quiet
  BY <1>2 DEF ApiInsert
<1>3. ASSUME NEW a \in Apis, CheckResources(a) PROVE Quiet
  BY <1>3 DEF CheckResources, Decline
<1>4. ASSUME NEW a \in Apis, ApiAcquire(a)
      PROVE  Quiet \/ \E t \in Tasks : Takes(a, t)
  <2>1. CASE Blocked(task[a])
    BY <1>4, <2>1 DEF ApiAcquire, Decline
  <2>2. CASE ~Blocked(task[a])
    BY <1>4, <2>2 DEF ApiAcquire, Takes, Control, Children, Handling, history
  <2> QED BY <2>1, <2>2
<1>5. ASSUME NEW a \in Apis, Defer(a) PROVE Quiet
  BY <1>5 DEF Defer
<1>6. ASSUME NEW p \in Procs, SetRunning(p) PROVE Quiet
  BY <1>6 DEF SetRunning
<1>7. ASSUME NEW p \in Procs, Finish(p) PROVE Quiet
  BY <1>7 DEF Finish
<1>8. ASSUME NEW p \in Procs, ReleaseAfter(p) PROVE Gives(p)
  BY <1>8 DEF ReleaseAfter, Die, Gives, Control, Children, Handling
<1>9. ASSUME NEW p \in Procs, SetCanceling(p) PROVE Quiet
  BY <1>9 DEF SetCanceling
<1>10. ASSUME NEW p \in Procs, SetCanceled(p) PROVE Quiet
  BY <1>10 DEF SetCanceled, Control, Children
<1> QED BY <1>1, <1>2, <1>3, <1>4, <1>5, <1>6, <1>7, <1>8, <1>9, <1>10

(* Of a worker that looks for a task, only taking one and giving one back  *)
(* touch the locks.                                                        *)
LEMMA FetchShapes ==
    ASSUME Base, LockInv
    PROVE  \A w \in Workers :
              /\ Query(w) \/ ScanDone(w) \/ Claim(w) \/ ExecuteHere(w) \/ Spawn(w)
                 \/ WakeUp(w) => Quiet
              /\ \A t \in Tasks : ConsiderLocked(w, t) => Quiet
              /\ \A t \in Tasks : ConsiderFree(w, t) => Takes(w, t)
              /\ GiveUp(w) \/ Ignore(w) => Gives(w)
<1> USE Facts
  DEF Goto, Quiet, Steady, Alive, Working, Holding, ChildLives, procVars,
      redisVars, supVars, Base, RowTypes
<1> TAKE w \in Workers
<1>1. ASSUME Query(w) PROVE Quiet
  BY <1>1 DEF Query
<1>2. ASSUME ScanDone(w) PROVE Quiet
  BY <1>2 DEF ScanDone
<1>3. ASSUME Claim(w) PROVE Quiet
  BY <1>3 DEF Claim
<1>4. ASSUME ExecuteHere(w) PROVE Quiet
  BY <1>4 DEF ExecuteHere
<1>5. ASSUME Spawn(w) PROVE Quiet
  BY <1>5 DEF Spawn
<1>6. ASSUME WakeUp(w) PROVE Quiet
  BY <1>6 DEF WakeUp
<1>7. ASSUME NEW t \in Tasks, ConsiderLocked(w, t) PROVE Quiet
  BY <1>7 DEF ConsiderLocked, Consider
<1>8. ASSUME NEW t \in Tasks, ConsiderFree(w, t) PROVE Takes(w, t)
  BY <1>8 DEF ConsiderFree, Consider, Takes, history, Control, Children
<1>9. ASSUME GiveUp(w) PROVE Gives(w)
  BY <1>9 DEF GiveUp, Gives, Control, Children, Handling
<1>10. ASSUME Ignore(w) PROVE Gives(w)
  BY <1>10 DEF Ignore, Gives, Control, Children, Handling
<1> QED BY <1>1, <1>2, <1>3, <1>4, <1>5, <1>6, <1>7, <1>8, <1>9, <1>10

(* A child gives the locks back in its finally clause; what else happens   *)
(* to it leaves them alone, also when it is killed.                        *)
LEMMA ChildShapes ==
    ASSUME Base, LockInv
    PROVE  \A w \in Workers :
              /\ ChildSetRunning(w) \/ ChildFinish(w) \/ ChildDies(w) => Quiet
              /\ TakeCancel(w) \/ TakeStop(w) \/ Kill(w) \/ RequestStop(w) => Quiet
              /\ Join(w) => Quiet
              /\ ChildRelease(w) => Gives(w)
<1> USE Facts
  DEF Goto, Quiet, Steady, Alive, Working, Holding, ChildLives, procVars,
      redisVars, supVars, Base, RowTypes
<1> TAKE w \in Workers
<1>1. ASSUME ChildSetRunning(w) PROVE Quiet
  BY <1>1 DEF ChildSetRunning
<1>2. ASSUME ChildFinish(w) PROVE Quiet
  BY <1>2 DEF ChildFinish
<1>3. ASSUME ChildDies(w) PROVE Quiet
  BY <1>3 DEF ChildDies
<1>4. ASSUME TakeCancel(w) PROVE Quiet
  BY <1>4 DEF TakeCancel
<1>5. ASSUME TakeStop(w) PROVE Quiet
  BY <1>5 DEF TakeStop
<1>6. ASSUME Kill(w) PROVE Quiet
  BY <1>6 DEF Kill
<1>7. ASSUME RequestStop(w) PROVE Quiet
  BY <1>7 DEF RequestStop
<1>8. ASSUME Join(w) PROVE Quiet
  BY <1>8 DEF Join, ChildPcs, Outcomes
<1>9. ASSUME ChildRelease(w) PROVE Gives(w)
  BY <1>9 DEF ChildRelease, Gives, Control, Children, Handling
<1> QED BY <1>1, <1>2, <1>3, <1>4, <1>5, <1>6, <1>7, <1>8, <1>9

(* A step that moves no process, and leaves every task with who has it, is *)
(* steady for all processes: most of the cleanup and of cancel_task().     *)
LEMMA Motionless ==
    ASSUME UNCHANGED <<pc, task, child>>
    PROVE  \A p \in Procs : Steady(p)
  BY DEF Steady, Alive, Working, Holding, ChildLives

(* The cleanup and cancel_task() at most take locks away, in one of the    *)
(* scripts of redis_locks.py.                                              *)
LEMMA SweepShapes ==
    ASSUME Base, LockInv
    PROVE  /\ \A w \in Workers, m \in Procs : SweepRead(w, m) => Quiet
           /\ \A w \in Workers : ReconcileRead(w) \/ CleanupIgnored(w) => Quiet
           /\ \A w \in Workers : SweepRelease(w) => Quiet \/ Drops
           /\ \A w \in Workers : SweepCommit(w) => Quiet
           /\ \A w \in Workers : ReconcileClean(w) => Drops
           /\ \A t \in Tasks : CancelRead(t) => Quiet
           /\ \A t \in Tasks : CancelSet(t) \/ CancelPublish(t) \/ CancelTake(t)
                               \/ CancelFinalize(t) \/ CancelGet(t) => Quiet
           /\ \A t \in Tasks : CancelRelease(t) => Drops
<1>1. ASSUME NEW w \in Workers, NEW m \in Procs, SweepRead(w, m) PROVE Quiet
  BY <1>1, Motionless DEF SweepRead, Quiet, procVars, supVars
<1>2. ASSUME NEW w \in Workers, ReconcileRead(w) PROVE Quiet
  BY <1>2, Motionless DEF ReconcileRead, Quiet, procVars, supVars
<1>3. ASSUME NEW w \in Workers, CleanupIgnored(w) PROVE Quiet
  BY <1>3, Motionless DEF CleanupIgnored, Quiet, procVars, supVars
<1>4. ASSUME NEW w \in Workers, SweepRelease(w) PROVE Quiet \/ Drops
  <2>1. UNCHANGED <<pc, task, child, leaky>>
    BY <1>4 DEF SweepRelease, procVars, supVars
  <2>2. CASE sweep[w].successor
    BY <1>4, <2>1, <2>2, Motionless DEF SweepRelease, Quiet, history
  <2>3. CASE ~sweep[w].successor
    <3>1. sweep[w].proc \in Procs
      BY <1>4 DEF SweepRelease, Base, Sweeping, SweptAreGone
    <3>2. /\ {Name[sweep[w].proc]} \in SUBSET Names
          /\ CleanupOwners({Name[sweep[w].proc]}) /\ Rob({})
      BY <1>4, <2>3, <3>1, Facts DEF SweepRelease
    <3> QED BY <2>1, <3>2, CleanupKeeps, Motionless DEF Drops, LockInv
  <2> QED BY <2>2, <2>3
<1>5. ASSUME NEW w \in Workers, SweepCommit(w) PROVE Quiet
  BY <1>5, Motionless DEF SweepCommit, Quiet, supVars
<1>6. ASSUME NEW w \in Workers, ReconcileClean(w) PROVE Drops
  <2>1. UNCHANGED <<pc, task, child, leaky>> /\ Rob({})
    BY <1>6 DEF ReconcileClean, procVars, supVars
  <2>2. sweep[w].names \in SUBSET Names /\ CleanupOwners(sweep[w].names)
    BY <1>6 DEF ReconcileClean, Base, RowTypes, Sweeps
  <2> QED BY <2>1, <2>2, CleanupKeeps, Motionless DEF Drops, LockInv
<1>7. ASSUME NEW t \in Tasks, CancelRead(t) PROVE Quiet
  BY <1>7, Motionless DEF CancelRead, Quiet, procVars, supVars
<1>8. ASSUME NEW t \in Tasks,
             CancelSet(t) \/ CancelPublish(t) \/ CancelTake(t) \/ CancelFinalize(t)
             \/ CancelGet(t)
      PROVE  Quiet
  BY <1>8, Motionless
  DEF CancelSet, CancelPublish, CancelTake, CancelFinalize, CancelGet, Quiet,
      procVars, supVars
<1>9. ASSUME NEW t \in Tasks, CancelRelease(t) PROVE Drops
  <2>1. UNCHANGED <<pc, task, child, leaky>> /\ Rob({})
    BY <1>9 DEF CancelRelease, procVars, supVars
  <2>2. cancelReq[t].owner \in Names /\ Release(cancelReq[t].owner, t)
    BY <1>9 DEF CancelRelease, Base, Cancelations
  <2> QED BY <2>1, <2>2, ReleaseKeeps, Motionless DEF Drops, LockInv
<1> QED BY <1>1, <1>2, <1>3, <1>4, <1>5, <1>6, <1>7, <1>8, <1>9

(* A process that ends, by itself or not, leaves its locks as they are.    *)
LEMMA EndShapes ==
    ASSUME Base, LockInv
    PROVE  /\ \A w \in Workers : Shutdown(w) => Quiet
           /\ \A p \in Procs : Crash(p) => Quiet
<1> USE Facts
  DEF Goto, Quiet, Steady, Alive, Working, Holding, ChildLives, procVars,
      redisVars, supVars, Base, RowTypes
<1>1. ASSUME NEW w \in Workers, Shutdown(w) PROVE Quiet
  BY <1>1 DEF Shutdown, Die
<1>2. ASSUME NEW p \in Procs, Crash(p) PROVE Quiet
  BY <1>2 DEF Crash, Die
<1> QED BY <1>1, <1>2

(* A worker that starts under the name of one that died is the only one of *)
(* its name that lives, and finds the locks as they were left.             *)
LEMMA StartKeeps ==
    ASSUME Base, LockInv, NEW w \in Workers, Start(w)
    PROVE  LockInv'
<1>1. /\ pc[w] = "off" /\ pc' = [pc EXCEPT ![w] = "start"]
      /\ \A p \in Procs \ {w} : Name[p] = Name[w] => pc[p] \in {"off", "dead"}
      /\ UNCHANGED <<owner, members, registry, activeOwners, task, child,
                     robbed, leaky>>
  BY DEF Start, Goto, redisVars, supVars, history
<1>2. RedisTypes' /\ HistoryTypes' /\ NothingUnregistered'
  BY <1>1 DEF LockInv, RedisTypes, HistoryTypes, NothingUnregistered, Held
<1>3. Namesakes'
  <2>1. /\ \A p \in Procs : p # w => (Alive(p)' <=> Alive(p))
        /\ \A p \in Procs : p # w /\ Name[p] = Name[w] => ~Alive(p)
    BY <1>1 DEF Alive, Base, RowTypes
  <2> QED BY <2>1 DEF LockInv, Namesakes
<1>4. Locks'
  <2>1. \A p \in Procs : Working(p)' => Working(p) /\ task'[p] = task[p]
    BY <1>1 DEF Working, ChildLives, Base, RowTypes
  <2> QED BY <1>1, <2>1, LocksKept DEF LockInv
<1>5. ASSUME NEW p \in Procs
      PROVE  HoldingOf(p)'
  <2>1. CASE p = w
    BY <2>1, <1>1, Facts DEF HoldingOf, Base, RowTypes
  <2>2. CASE p # w
    BY <2>2, <1>1, Facts
    DEF LockInv, Holdings, HoldingOf, Alive, Holding, HoldsNothing, HoldsOnly,
        Base, RowTypes
  <2> QED BY <2>1, <2>2
<1> QED BY <1>2, <1>3, <1>4, <1>5 DEF LockInv, Holdings

(* release_stale_locks_for_self() ends with nothing under the name of the  *)
(* worker, unless it leaves what it found.                                 *)
LEMMA StaleKeeps ==
    ASSUME Base, LockInv, NEW w \in Workers, ReleaseStale(w)
    PROVE  LockInv'
<1>1. /\ pc[w] = "start" /\ pc' = [pc EXCEPT ![w] = "fetch"]
      /\ UNCHANGED <<task, child>> /\ Name[w] \in Names
      /\ child[w] = "none"
  BY Facts DEF ReleaseStale, Goto, supVars, Base, Control, Children
<1>2. /\ \A p \in Procs : p # w => Steady(p)
      /\ \A p \in Procs : Alive(p)' => Alive(p)
      /\ \A p \in Procs : Working(p)' =>
            Working(p) /\ task'[p] = task[p] /\ p \notin {}
  BY <1>1, Facts DEF Steady, Alive, Working, Holding, ChildLives, Base, RowTypes
<1>3. Namesakes'
  BY <1>2, NamesakesKept DEF LockInv
<1>4. CASE /\ UNCHANGED <<owner, members, registry, activeOwners, robbed>>
           /\ leaky \subseteq leaky' /\ leaky' \subseteq leaky \cup {w}
           /\ registry[Name[w]] # {} => w \in leaky'
  <2>1. RedisTypes' /\ HistoryTypes' /\ NothingUnregistered' /\ Shrinks
    BY <1>4
    DEF LockInv, RedisTypes, HistoryTypes, NothingUnregistered, Held, Shrinks
  <2>2. Locks'
    BY <1>2, <1>4, LocksKept DEF LockInv
  <2>3. \A p \in Procs : p # w => HoldingOf(p)'
    BY <1>2, <1>4, <2>1, SteadyHoldings DEF LockInv, Holdings
  <2>4. w \notin leaky' => HoldsNothing(Name[w])'
    <3>1. SUFFICES ASSUME registry[Name[w]] = {} PROVE HoldsNothing(Name[w])'
      BY <1>4
    <3>2. Held(Name[w]) = {}
      BY <3>1, <1>1 DEF LockInv, NothingUnregistered
    <3>3. HoldsNothing(Name[w])
      BY <3>2, <1>1, HeldKeys
    <3> QED BY <3>3, <2>1, <1>1, ShrinkHoldings DEF LockInv
  <2>5. HoldingOf(w)'
    BY <2>4 DEF HoldingOf
  <2> QED BY <2>1, <2>2, <2>3, <2>5, <1>3 DEF LockInv, Holdings
<1>5. CASE CleanupOwners({Name[w]}) /\ Rob({}) /\ UNCHANGED leaky
  <2>1. /\ RedisTypes' /\ NothingUnregistered' /\ Shrinks
        /\ HoldsNothing(Name[w])'
    BY <1>1, <1>5, CleanupKeeps DEF LockInv
  <2>2. HistoryTypes'
    BY <1>5, HistoryKept DEF LockInv
  <2>3. Locks'
    <3>1. {} \in SUBSET Procs
      OBVIOUS
    <3> QED BY <3>1, <2>1, <1>2, <1>5, LocksDropped DEF LockInv
  <2>4. \A p \in Procs : p # w => HoldingOf(p)'
    BY <1>2, <1>5, <2>1, SteadyHoldings DEF LockInv, Holdings
  <2>5. HoldingOf(w)'
    BY <2>1 DEF HoldingOf
  <2> QED BY <2>1, <2>2, <2>3, <2>4, <2>5, <1>3 DEF LockInv, Holdings
<1> QED BY <1>4, <1>5 DEF ReleaseStale, redisVars

(* A worker that finds its task in a final state after its child was       *)
(* killed has nothing, unless it leaves what the child had; else it        *)
(* releases.                                                               *)
LEMMA ReloadKeeps ==
    ASSUME Base, LockInv, NEW w \in Workers, Reload(w)
    PROVE  LockInv'
<1>1. /\ pc[w] = "reload" /\ task[w] \in Tasks /\ Name[w] \in Names
      /\ child' = [child EXCEPT ![w] = "none"]
      /\ child[w] \in {"ok", "error", "killed"}
      /\ \A p \in Procs : p # w => pc'[p] = pc[p] /\ task'[p] = task[p]
      /\ pc'[w] \in {"fetch", "abandon"}
  BY Facts DEF Reload, Goto, Base, RowTypes, Control, Children, Handling
<1>2. /\ \A p \in Procs : p # w => Steady(p)
      /\ \A p \in Procs : Alive(p)' => Alive(p)
      /\ ~Working(w)' /\ ~Working(w) /\ ~Holding(w)'
  BY <1>1, Facts DEF Steady, Alive, Working, Holding, ChildLives, Base, RowTypes
<1>3. CASE state[task[w]] \notin Final
  <2>1. /\ Release(Name[w], task[w]) /\ Rob({w}) /\ UNCHANGED leaky
    BY <1>3 DEF Reload
  <2>2. CASE child[w] \notin {"ok", "error"}
    <3>1. Gives(w)
      BY <1>1, <1>2, <2>1, <2>2 DEF Gives, Alive, Holding
    <3> QED BY <3>1, GivesKeeps, Facts
  <2>3. CASE child[w] \in {"ok", "error"}
    <3>1. /\ RedisTypes' /\ NothingUnregistered' /\ Shrinks
      BY <1>1, <2>1, ReleaseKeeps DEF LockInv
    <3>2. HistoryTypes' /\ Namesakes'
      <4>1. {w} \in SUBSET Procs
        BY Facts
      <4> QED BY <4>1, <1>2, <2>1, HistoryKept, NamesakesKept DEF LockInv
    <3>3. Locks'
      <4>1. \A p \in Procs : Working(p)' =>
                Working(p) /\ task'[p] = task[p] /\ p \notin {w}
        BY <1>2 DEF Steady
      <4>2. {w} \in SUBSET Procs
        BY Facts
      <4> QED BY <4>1, <4>2, <3>1, <2>1, LocksDropped DEF LockInv
    <3>4. HoldingOf(w)'
      <4>1. ~Holding(w) /\ Alive(w) /\ pc[w] # "start"
        BY <1>1, <2>3 DEF Holding, Alive
      <4>2. w \notin leaky => HoldsNothing(Name[w])
        BY <4>1, Facts DEF LockInv, Holdings, HoldingOf
      <4> QED BY <4>2, <2>1, <1>1, <3>1, ShrinkHoldings DEF LockInv, HoldingOf
    <3>5. \A p \in Procs : p # w => HoldingOf(p)'
      BY <1>2, <2>1, <3>1, SteadyHoldings DEF LockInv, Holdings
    <3> QED BY <3>1, <3>2, <3>3, <3>4, <3>5 DEF LockInv, Holdings
  <2> QED BY <2>2, <2>3
<1>4. CASE state[task[w]] \in Final
  <2>1. /\ UNCHANGED <<owner, members, registry, activeOwners, robbed>>
        /\ leaky' = IF child[w] = "killed" /\ registry[Name[w]] # {}
                    THEN leaky \cup {w} ELSE leaky
    BY <1>4 DEF Reload, redisVars
  <2>2. RedisTypes' /\ HistoryTypes' /\ NothingUnregistered' /\ Shrinks
    BY <2>1
    DEF LockInv, RedisTypes, HistoryTypes, NothingUnregistered, Held, Shrinks
  <2>3. Locks'
    <3>1. \A p \in Procs : Working(p)' => Working(p) /\ task'[p] = task[p]
      BY <1>2 DEF Steady
    <3> QED BY <3>1, <2>1, LocksKept DEF LockInv
  <2>4. \A p \in Procs : p # w => HoldingOf(p)'
    BY <1>2, <2>1, <2>2, SteadyHoldings DEF LockInv, Holdings
  <2>5. w \notin leaky' => HoldsNothing(Name[w])
    <3> SUFFICES ASSUME w \notin leaky' PROVE HoldsNothing(Name[w])
      OBVIOUS
    <3>1. CASE child[w] = "killed"
      <4>1. Held(Name[w]) = {}
        BY <3>1, <2>1, <1>1 DEF LockInv, NothingUnregistered
      <4> QED BY <4>1, <1>1, HeldKeys
    <3>2. CASE child[w] # "killed"
      <4>1. ~Holding(w) /\ Alive(w) /\ pc[w] # "start" /\ w \notin leaky
        BY <1>1, <2>1, <3>2 DEF Holding, Alive
      <4> QED BY <4>1, Facts DEF LockInv, Holdings, HoldingOf
    <3> QED BY <3>1, <3>2
  <2>6. HoldingOf(w)'
    BY <2>5, <2>2, <1>1, ShrinkHoldings DEF LockInv, HoldingOf
  <2>7. Namesakes'
    BY <1>2, NamesakesKept DEF LockInv
  <2> QED BY <2>2, <2>3, <2>4, <2>6, <2>7 DEF LockInv, Holdings
<1> QED BY <1>3, <1>4

-----------------------------------------------------------------------------
(***************************************************************************)
(* The invariant, and what follows from it.                                *)
(***************************************************************************)
(* Every step of dispatch(), the workers, the cleanup and the users keeps  *)
(* the rows and the processes in order: the lemmas above together.         *)
LEMMA BaseNext ==
    ASSUME Base, RedisTypes, Next
    PROVE  Base'
<1>1. CASE \E t \in Tasks : Insert(t) \/ CancelRead(t) \/ Cancel(t)
  BY <1>1, BaseDispatch, BaseCancel DEF Cancel
<1>2. CASE \E a \in Apis : Dispatch(a) \/ \E t \in Tasks : ApiInsert(a, t)
  BY <1>2, BaseDispatch DEF Dispatch
<1>3. CASE \E p \in Procs : Execute(p) \/ Crash(p)
  BY <1>3, BaseExecute, BaseSweep DEF Execute
<1>4. CASE \E w \in Workers : Worker(w)
  <2> PICK w \in Workers : Worker(w)
    BY <1>4
  <2>1. CASE Start(w) \/ ReleaseStale(w) \/ Fetch(w) \/ WakeUp(w)
    BY <2>1, BaseFetch DEF Fetch
  <2>2. CASE Child(w) \/ ChildDies(w) \/ Supervise(w)
    BY <2>2, BaseSupervise DEF Child, Supervise
  <2>3. CASE Sweep(w) \/ Maintain(w) \/ Shutdown(w) \/ RequestStop(w)
    BY <2>3, BaseSweep DEF Sweep, Maintain
  <2> QED BY <2>1, <2>2, <2>3 DEF Worker
<1> QED BY <1>1, <1>2, <1>3, <1>4 DEF Next

(* Every step of dispatch(), the workers, the cleanup and the users keeps  *)
(* names and locks in order: by its shape, or by a lemma of its own.       *)
LEMMA LockNext ==
    ASSUME Base, LockInv, Next
    PROVE  LockInv'
<1>1. CASE \E t \in Tasks : Insert(t) \/ CancelRead(t) \/ Cancel(t)
  BY <1>1, ApiShapes, SweepShapes, QuietKeeps, DropsKeep DEF Cancel
<1>2. CASE \E a \in Apis : Dispatch(a) \/ \E t \in Tasks : ApiInsert(a, t)
  <2>1. Quiet \/ \E a \in Apis, t \in Tasks : Takes(a, t)
    BY <1>2, ApiShapes DEF Dispatch
  <2> QED BY <2>1, QuietKeeps, TakesKeeps, Facts
<1>3. CASE \E p \in Procs : Execute(p) \/ Crash(p)
  BY <1>3, ApiShapes, EndShapes, QuietKeeps, GivesKeeps DEF Execute
<1>4. CASE \E w \in Workers : Worker(w)
  <2> PICK w \in Workers : Worker(w)
    BY <1>4
  <2>1. CASE Start(w) \/ ReleaseStale(w) \/ Reload(w)
    BY <2>1, StartKeeps, StaleKeeps, ReloadKeeps
  <2>2. CASE Fetch(w) \/ WakeUp(w)
    <3>1. Quiet \/ Gives(w) \/ \E t \in Tasks : Takes(w, t)
      BY <2>2, FetchShapes DEF Fetch
    <3> QED BY <3>1, QuietKeeps, GivesKeeps, TakesKeeps, Facts
  <2>3. CASE Child(w) \/ ChildDies(w) \/ (Supervise(w) /\ ~Reload(w)) \/ RequestStop(w)
    <3>1. Quiet \/ Gives(w)
      BY <2>3, ChildShapes DEF Child, Supervise
    <3> QED BY <3>1, QuietKeeps, GivesKeeps, Facts
  <2>4. CASE Sweep(w) \/ Maintain(w) \/ Shutdown(w)
    BY <2>4, SweepShapes, EndShapes, QuietKeeps, DropsKeep DEF Sweep, Maintain
  <2> QED BY <2>1, <2>2, <2>3, <2>4 DEF Worker, Supervise
<1> QED BY <1>1, <1>2, <1>3, <1>4 DEF Next

(* The invariant holds before any process works, and no step of the Redis  *)
(* tasking code breaks it, whatever dies and starts again on the way.      *)
THEOREM RedisInvariance == Spec => []RedisInv
<1>1. Init => RedisInv
  <2> SUFFICES ASSUME Init PROVE RedisInv
    OBVIOUS
  <2>1. RowTypes
    BY Facts, Records
    DEF Init, RowTypes, States, Pcs, ApiPcs, WorkerPcs, ChildPcs, Stops,
        Outcomes
  <2>2. Control
    BY Facts DEF Init, Control, Places, Children, ApiPcs, WorkerPcs, Handling
  <2>3. Registration
    BY Facts DEF Init, Registration, Alive
  <2>4. Sweeping /\ Cancelations
    BY Records DEF Init, Sweeping, OneSweeps, SweptAreGone, Idle, Cancelations
  <2>5. RowsTended
    BY Facts DEF Init, RowsTended, OwnersTend, RowTended, ApisTend, Handling
  <2>6. RedisTypes /\ HistoryTypes /\ NothingUnregistered
    BY Facts DEF Init, RedisTypes, HistoryTypes, NothingUnregistered, Held
  <2>7. Namesakes
    <3>1. \A p \in Procs : Alive(p) => p \in Apis \cup {Console}
      BY Facts DEF Init, Alive
    <3> QED BY <3>1, RedisNameAssumption DEF Namesakes
  <2>8. Locks
    <3>1. \A p \in Procs : ~Working(p)
      BY Facts DEF Init, Working, ChildLives
    <3> QED BY <3>1 DEF Locks
  <2>9. Holdings
    BY Facts DEF Init, Holdings, HoldingOf, HoldsNothing
  <2> QED BY <2>1, <2>2, <2>3, <2>4, <2>5, <2>6, <2>7, <2>8, <2>9
    DEF RedisInv, Base
<1>2. RedisInv /\ [Next]_vars => RedisInv'
  <2> SUFFICES ASSUME RedisInv, [Next]_vars PROVE RedisInv'
    OBVIOUS
  <2>1. Base /\ RedisTypes /\ LockInv
    BY DEF RedisInv, LockInv
  <2>2. CASE Next
    BY <2>1, <2>2, BaseNext, LockNext DEF RedisInv, LockInv
  <2>3. CASE UNCHANGED vars
    <3>1. Base'
      BY <2>1, <2>3
      DEF vars, rowVars, supVars, Base, RowTypes, Control, Places, Children,
          Registration, Alive, Sweeping, OneSweeps, SweptAreGone, Gone, Idle,
          ChildLives, Past, Cancelations, RowsTended, OwnersTend, RowTended,
          TendsWaiting, TendsRunning, ApisTend
    <3>2. Quiet
      BY <2>3, Motionless DEF vars, supVars, Quiet
    <3> QED BY <2>1, <3>1, <3>2, QuietKeeps DEF RedisInv, LockInv
  <2> QED BY <2>2, <2>3
<1> QED BY <1>1, <1>2, PTL DEF Spec

(* Rows, locks, registry and processes have only the values that the code  *)
(* gives them.                                                             *)
THEOREM RedisTyped == Spec => []TypeOK
<1>1. RedisInv => TypeOK
  BY DEF RedisInv, Base, RowTypes, RedisTypes, HistoryTypes, TypeOK, States,
         Pcs, ChildPcs, Stops, Outcomes, Requests, Scans, Sweeps
<1> QED BY <1>1, RedisInvariance, PTL

(* The registry names every lock of an owner, and pulp:active_owners every *)
(* owner: the cleanup, which goes by them, misses nothing.                 *)
THEOREM RegistryComplete == Spec => []NothingUnregistered
<1>1. RedisInv => NothingUnregistered
  BY DEF RedisInv
<1> QED BY <1>1, RedisInvariance, PTL

(* Tasks that exclude each other are not executed together, by any         *)
(* processes, unless another process (the cleanup, or cancel_task()) has   *)
(* released the locks of one of them: that is what acquire_locks() and     *)
(* release_locks() promise.                                                *)
THEOREM ExclusiveInRedis == Spec => []MutualExclusion
<1>1. RedisInv => MutualExclusion
  <2> SUFFICES ASSUME RedisInv, NEW t \in Tasks, NEW u \in Tasks, Conflict(t, u),
                      Executing(t), Executing(u)
               PROVE  {t, u} \cap robbed # {}
    BY DEF MutualExclusion
  <2>1. PICK p \in Procs : Working(p) /\ task[p] = t
    BY DEF Executing, Working, ChildLives
  <2>2. PICK q \in Procs : Working(q) /\ task[q] = u
    BY DEF Executing, Working, ChildLives
  <2>3. p # q
    BY <2>1, <2>2 DEF Conflict
  <2> QED BY <2>1, <2>2, <2>3 DEF RedisInv, Locks
<1> QED BY <1>1, RedisInvariance, PTL

(* A worker that looks for a task in fetch_task() is never locked out by   *)
(* what it forgot: nothing is locked under its name, unless it is one of   *)
(* the two leaks of supervise_task() and release_stale_locks_for_self().   *)
THEOREM IdleWorkersHoldNothing == Spec => []IdleHoldsNothing
<1>1. RedisInv => IdleHoldsNothing
  <2> SUFFICES ASSUME RedisInv, NEW w \in Workers,
                      pc[w] \in {"fetch", "scan", "sleep"}, w \notin leaky
               PROVE  Held(Name[w]) = {}
    BY DEF IdleHoldsNothing
  <2>1. Alive(w) /\ pc[w] # "start" /\ ~Holding(w)
    BY DEF Alive, Holding
  <2>2. HoldsNothing(Name[w])
    BY <2>1, Facts DEF RedisInv, Holdings, HoldingOf
  <2> QED BY <2>2, HeldKeys, Facts
<1> QED BY <1>1, RedisInvariance, PTL

(* When nothing goes on any more, every task that is not over can be       *)
(* claimed by the next fetch_task(), whatever processes died, were killed  *)
(* or started again on the way; excepted are tasks that the code forgets,  *)
(* or a leak locks.                                                        *)
THEOREM NoTaskStuck == Spec => []NothingStuck
<1>1. RedisInv => NothingStuck
  <2> SUFFICES ASSUME RedisInv, AtRest, NEW t \in Tasks, state[t] \in Incomplete,
                      ~Forgotten(t), \A w \in leaky : pc[w] = "dead"
               PROVE  state[t] = "waiting" /\ appLock[t] = Nobody /\ ~Blocked(t)
    BY DEF NothingStuck
  <2>1. \A p \in registered : Alive(p) /\ p \in Procs
    BY Facts
    DEF AtRest, Gone, Alive, RedisInv, Base, RowTypes, Registration
  <2>2. \A p \in Procs : Alive(p) => pc[p] \in {"idle", "sleep"}
    BY Facts DEF AtRest, Alive, RedisInv, Base, Control, Places
  <2>3. \A p \in Procs : Alive(p) => HoldsNothing(Name[p])
    BY <2>2, Facts DEF RedisInv, Holdings, HoldingOf, Holding, Alive
  <2>4. \A n \in Names : HoldsNothing(n)
    <3> SUFFICES ASSUME NEW n \in Names, ~HoldsNothing(n) PROVE FALSE
      OBVIOUS
    <3>1. n \in activeOwners
      BY HeldKeys DEF RedisInv, NothingUnregistered
    <3>2. PICK p \in registered : Name[p] = n
      BY <3>1 DEF AtRest
    <3> QED BY <3>2, <2>1, <2>3
  <2>5. ~Blocked(t)
    <3>1. \A k \in Keys : owner[k] = Nobody
      BY <2>4 DEF HoldsNothing, RedisInv, RedisTypes
    <3>2. \A r \in Resources : members[r] = {}
      BY <2>4 DEF HoldsNothing, RedisInv, RedisTypes
    <3> QED BY <3>1, <3>2, Facts DEF Blocked
  <2>6. appLock[t] # Nobody => appLock[t] \in Procs /\ Alive(appLock[t])
    BY <2>1 DEF RedisInv, Base, Registration
  <2>7. state[t] # "canceling"
    BY <2>6 DEF Forgotten, Alive
  <2>8. ASSUME NEW p \in Procs, appLock[t] = p
        PROVE  FALSE
    <3>1. pc[p] \in {"idle", "sleep"} /\ pc[p] # "dead"
      BY <2>2, <2>6, <2>8, Facts
    <3>2. ~TendsWaiting(p) /\ ~TendsRunning(p)
      BY <3>1 DEF TendsWaiting, TendsRunning
    <3>3. state[t] = "waiting" \/ state[t] = "running"
      BY <2>7 DEF Incomplete
    <3>4. RowTended(t)
      BY DEF RedisInv, Base, RowsTended, OwnersTend
    <3>5. state[t] = "waiting" /\ p \in Workers /\ t \in ignored[p]
      BY <3>1, <3>2, <3>3, <3>4, <2>8 DEF RowTended
    <3> QED BY <3>1, <3>5, <2>8 DEF Forgotten
  <2>9. appLock[t] = Nobody
    BY <2>6, <2>8
  <2>10. state[t] = "waiting"
    <3>1. RowTended(t)
      BY DEF RedisInv, Base, RowsTended, OwnersTend
    <3> QED BY <3>1, <2>7, <2>9 DEF RowTended, Incomplete
  <2> QED BY <2>5, <2>9, <2>10
<1> QED BY <1>1, RedisInvariance, PTL
=============================================================================
