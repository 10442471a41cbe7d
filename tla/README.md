# pulpcore in TLA+

Formal models of the parts of pulpcore whose correctness depends on the order in
which several processes act: the two tasking backends, the versions of a
repository, the stages pipeline of a sync, the storage of artifacts and what
cleans it up, and the cache of the content app.  TLC checks small instances;
TLAPS proves the safety of both tasking systems, of the reservation algorithms, of
the versions, of the store and of the cache for any number of tasks, processes,
resources, versions, content units and requests, and two refinements.

Contents: [inventory](#1-inventory) - [modules](#2-modules) -
[the tasking model](#3-the-tasking-model) -
[the model of repository versions](#4-the-model-of-repository-versions) -
[Redis tasking, stages, content and cache](#5-redis-tasking-stages-content-and-cache) -
[runs](#6-runs) - [fairness](#7-fairness) - [proofs](#8-proofs) -
[where code and documentation disagree](#9-where-code-and-documentation-disagree) -
[limits](#10-limits) - [plan](#11-plan) - [how to run](#12-how-to-run)

## 1. Inventory

Paths are relative to `src/`.  A pulpcore installation is a set of processes (API
workers, content apps, task workers) that share one PostgreSQL database; nothing
else is shared, save for Redis if it is configured.

| component | state | operations | hard behaviour | what makes it correct |
|---|---|---|---|---|
| PostgreSQL tasking (`pulpcore/tasking/{tasks,worker,_util}.py`, `app/models/task.py`, `app/migrations/0134_task_insert_trigger.py`) | rows of `core_task`: `state`, `pulp_created`, `unblocked_at`, `app_lock`, `reserved_resources_record`; the advisory lock `TASK_UNBLOCKING_LOCK`; in each worker the task in hand, `cancel_task`, `shutdown_requested`, `wakeup_handle`, `wakeup_unblock`, `ignored_task_ids`, a child process | `dispatch`, `cancel_task`, `unblock_tasks`, `fetch_task`, `handle_unblocked_tasks`, `supervise_task`, `execute_task`, the setters of `Task` | statements of many processes interleave; rows are read and written later; notifications are lost; processes die, children outlive them | tasks that exclude each other never run together, and run in order of insertion; a task runs once, in one process; every task ends; a cancelation takes effect |
| process registry (`app/models/status.py`, `app/entrypoint.py`) | rows of `core_appstatus`, heart beats | registration, heart beat, deletion of missing processes (sets `app_lock` to NULL), exit | a heart beat that is late | who is deleted has stopped |
| reservation algorithms (`_unblock_tasks`, `get_resources`, `are_resources_available`) | two sets of taken resources; arrays of strings | one pass, one query | two algorithms over two representations | both decide what the pairwise definition decides |
| repository versions (`app/models/repository.py`, `app/tasks/repository.py`) | `RepositoryVersion`, `RepositoryContent` (content, version added, version removed), `content_ids`, `next_version` | `new_version`, `add_content`, `remove_content`, `__exit__`, `delete`/`_squash`, `delete_version`, `cleanup_old_versions` | content is stored as differences that deletions rewrite; exceptions and crashes between transactions; distributions change meanwhile | a version never changes; numbers are never reused; the memo equals the rows |
| Redis tasking (`tasking/redis_{worker,tasks,locks}.py`) | locks of tasks and resources, a registry of locks by owner and a set of owners in Redis, beside the rows | acquire, release and cleanup by Lua scripts; `dispatch`, `cancel_task`, `fetch_task`, `supervise_task`, the sweep and `reconcile_orphan_redis_locks` | two stores without a common transaction; names of processes are used again | as PostgreSQL tasking; no lock without an owner who can be found; nothing stuck when all is at rest |
| scheduled dispatch (`tasking/_util.py`) | `TaskSchedule` rows | `dispatch_scheduled_tasks` under an advisory lock | races with edits of a schedule | one task per interval |
| task groups, purge | `TaskGroup`, old tasks | collect, delete | - | only finished tasks go |
| stages pipeline (`plugin/stages/*`) | bounded queues between coroutines, pending batches, futures of content, a budget of bytes and items | `put`, `batches`, `resolution`, `resolve`, `acquire`, `release`, the end and the failure of a stage | blocking on full and empty queues, batches that wait for items that wait for them, failure of one stage | everything that enters is saved, the version is what was declared, the pipeline ends |
| artifacts and content (`app/models/{content,fields,storage}.py`), saving in the content app (`content/handler.py`) | rows of `Artifact`, `Content`, `ContentArtifact`, `RemoteArtifact`; files named by digest | `pre_save` and `_save`, `bulk_get_or_create`, `_save_artifact`, `delete` with `on_commit` | rows are transactional, files are not; the same digest saved and deleted at once | a row has its file, a file its row |
| orphan cleanup, space reclaim, repair (`app/tasks/{orphan,reclaim_space,repository}.py`) | selections made before the deletion | select, delete, forget artifacts, refetch | content becomes used while it is deleted, is fetched while it is reclaimed | nothing in use is deleted, nothing dangles, only what can be had again is forgotten |
| cache (`cache/cache.py`), serving (`content/handler.py`), publications and distributions (`app/models/publication.py`) | a Redis hash per base path: responses, a flag; expiries; what a distribution serves | `find_base_path_cached`, `auth_cached`, `make_response`, `make_entry`, `invalidate_cache` wherever something changes | a response cached after its invalidation; expiries of a hash and of its fields | stale responses have a bounded age; an invalidation leaves none behind |
| uploads; progress reports; import, export; replication; downloaders; access control, domains; REST API | rows and files | create, read, update, delete | mostly none of their own: they run inside one task or one request | - |

How they interact.  The REST API turns a request that writes into `dispatch()`.  The
row of the task names the resources it reserves, typically the repository and, as
shared, whatever it reads.  A worker that sees that no earlier incomplete task
excludes the task marks the row unblocked; any worker then claims it by setting
`app_lock`, and executes it in a child process, or itself if the task is immediate.
API processes execute immediate tasks themselves if nothing is in the way.  The
processes tell each other by `NOTIFY` what may have changed, and every worker looks
again at each heart beat.  Code that writes a repository version runs inside such a
task and relies on the exclusive reservation of the repository; its distributions
are changed by tasks that do not hold it.  A sync is such a task: its pipeline
downloads artifacts, saves them and content units, and associates these with the new
version.  Content apps save artifacts too, outside of any task, when they stream what
is not there yet; orphan cleanup, space reclaim and repair run beside both.  With
`WORKER_TYPE = "redis"` the reservations are locks in Redis, and nobody unblocks tasks.

The hazards of this code, each at its line and with the properties that would show
it going wrong, are the list `hazards` of `PROJECT.json`.

## 2. Modules

| module | models | extends or instantiates |
|---|---|---|
| `Tasking` | dispatch, cancel, workers, supervision, child processes, registry | - |
| `TaskingInvariant` | the inductive invariants `Inv` and `RowsInv` | `Tasking` |
| `TaskingProofs` | TLAPS proofs about `Tasking` | `TaskingInvariant` |
| `TaskQueue` | what `dispatch()` promises: a queue | - |
| `TaskingRefinement` | the refinement mapping | `TaskingInvariant`, instantiates `TaskQueue` |
| `TaskingRefinementProofs` | TLAPS proofs that `Tasking` implements `TaskQueue` and that rows only advance | `TaskingProofs`, `TaskingRefinement` |
| `UnblockLoop` | the pass of `_unblock_tasks()` and the query of `are_resources_available()` | - |
| `UnblockLoopProofs` | TLAPS proofs about both | `UnblockLoop` |
| `RepositoryVersions` | the versions of one repository | instantiates `VersionHistory` |
| `RepositoryVersionsProofs` | TLAPS proofs about the versions and that they implement `VersionHistory` | `RepositoryVersions` |
| `VersionHistory` | what a repository promises: a history of immutable sets | - |
| `RedisTasking` | the Redis backend: scripts, dispatch, workers, cancelation, cleanup | - |
| `RedisTaskingProofs` | TLAPS proofs about `RedisTasking` | `RedisTasking` |
| `Stages` | the stages pipeline of one sync | - |
| `StagesProofs` | TLAPS proofs about `Stages` | `Stages` |
| `ContentStore` | artifacts, files and content; those who save and those who delete them | - |
| `ContentStoreProofs` | TLAPS proofs about `ContentStore` | `ContentStore` |
| `ContentCache` | the cache of the content app and its invalidation | - |
| `ContentCacheProofs` | TLAPS proofs about `ContentCache` | `ContentCache` |
| `MCTasking`, `MCUnblockLoop`, `MCRepositoryVersions`, `MCRedisTasking`, `MCStages`, `MCContentStore`, `MCContentCache` | constants for TLC | the above |

`UnblockLoop` and `Tasking` meet in one definition: `Tasking` takes the unblocking pass
and the query of `dispatch()` for the pairwise `Blockers(t) = {}`, and `UnblockLoop`
shows that this is what both compute.

`Stages` stops where `ContentAssociation` adds to a version, which `RepositoryVersions` takes up
from there, and takes the saving of artifacts and content for one step, which `ContentStore`
takes apart.

Definitions marked `Mutant:` or "A mutation" are variations of the definition that follows them, each
with an error that could plausibly be made in that place.  No specification uses
them; put in the place of the definition they break the property that `PROJECT.json`
names with them, and so show that the property depends on that code.

## 3. The tasking model

One action is one SQL statement or transaction, or one step of a process between two
of them.  What a process read in one statement and uses in a later one is a variable
(`seen`, `found`, `cancelReq`, `cancelState`, `ignored`), since it may be stale by then.

State:

| variable | code |
|---|---|
| `state[t]` | `Task.state`; `"inserting"` is a row whose transaction is open and `"absent"` no row |
| `prior[t]` | the tasks whose `pulp_created` is earlier (only the order matters) |
| `unblocked[t]`, `appLock[t]` | `unblocked_at IS NOT NULL`, `app_lock` |
| `cancelReq[t]` | a `cancel_task()` in flight: not begun, `app_lock` read as NULL or not, row set to canceling and notification due |
| `registered` | who has an `AppStatus` row |
| `pc[p]`, `task[p]` | where the code of a process is, and the task it works on |
| `seen[a]` | the row as `dispatch()` has refreshed it and `task.save()` will write it |
| `child[w]` | the child process of `supervise_task()` |
| `stop[w]` | `shutdown_requested`, with the grace time: SIGTERM waits, SIGINT aborts |
| `cancelFlag[w]`, `cancelState[w]` | `self.cancel_task`, `cancel_state` |
| `wakeHandle`, `wakeUnblock` | the two wakeup flags of the workers |
| `unblocker`, `found`, `telling` | who holds `TASK_UNBLOCKING_LOCK`, what it is about to mark, who has marked and is about to notify |
| `ignored[w]` | `ignored_task_ids` |

Program counters.  An API process goes `idle`, `insert`, `refresh`, `check`, and then `unblock`,
`execute`, `run`, `wake`, or `defer`, or `abandon`, `finalize`, which is `dispatch()` from top
to bottom.  A worker goes `off`, `handle` (`handle_unblocked_tasks`), `spawn` and
`supervise` or `execute`, `run` or `abandon`, `finalize`, then `wake`, `release`, and
`sleep`; `raise` is the stack unwinding through the `finally` clause that releases the
lock; `dead` is the end of the process.

Some correspondences that matter:

- *The insert trigger.*  `InsertRow` needs that no open transaction has inserted a task
  that names a common resource, shared or not: these are the advisory locks, which are
  held until the commit.  Their effect is that among tasks which share a resource the
  order of `pulp_created` is the order in which rows become visible; tasks without a
  common resource may become visible in any order.
- *The unblocking pass* reads (`UnblockTry`) and writes (`UnblockCommit`) in two steps of one
  transaction; in between everyone else goes on.
- *Claiming* is one statement, `UPDATE ... FOR UPDATE SKIP LOCKED`.  Immediate tasks come
  first; a row that is being canceled at the moment may be skipped.
- *The setters* of `Task` compare `state` and `app_lock` in the `WHERE` clause and raise if no
  row matches.  `set_completed()` accepts `canceling` and leaves it.
- *The child process* has inherited the identity of its worker, so the row cannot tell
  the two apart; it survives the death of its worker.
- *The worker's loop* looks at its flags and signals once per round: `TakeCancel`,
  `TakeStop`, `Kill`, `Join` are the parts of a round of `supervise_task()`, `WakeUp` of
  `sleep()`.  While it unblocks (`Busy`) it does nothing else.
- *Process death* (`Crash`, `ApiCrash`, `CancelLost`) may come between any two statements.  A killed process
  leaves its `AppStatus` row; `Cleanup` deletes the rows of missing processes, and the
  foreign key sets `app_lock` to NULL.
- *A heart beat in time.*  If `Timely`, only a process that is gone, its child included, is found
  missing.  If not, any mortal process may be, as the code cannot tell.
- *A restarted worker* is another element of `Workers`: it has a new `AppStatus` row and
  no memory.

`TaskQueue` is the promise: tasks are submitted, begin when everything submitted before
that excludes them has ended, and end; a canceled or orphaned one keeps its
reservations until somebody finalizes it.  `TaskingRefinement` maps a row to
`none`, `queued`, `executing`, `ending` or `ended`, where `executing` is about the processes and not
about the column `state`: a task executes if somebody runs its code.

## 4. The model of repository versions

One repository, one writer at a time (its tasks hold the repository exclusively; that
they do is what `Tasking` is about), and distributions that change all the while.
`rows` are the `RepositoryContent` rows; `SetRemoved`, `Add`, `Remove`, `Squash` and `Forget` are
the statements of `add_content()`, `remove_content()`, `_squash()` and `delete()` as functions of
the set of rows.  The writer goes `idle`, `writing` (inside `with repository.new_version()`),
`plan` and `prune` (`cleanup_old_versions()`: the choice of versions, and one transaction
per deletion), `notify` (`on_new_version()`).

- `NewVersion` deletes what a dead task left behind, and starts from a base version or the
  latest one; the number of the leftover is used again, since `next_version` only grows
  on publication.
- `Publish` is the transaction in `__exit__` that completes the version.  `PublishFails`,
  `Abandon` and `GiveUp` are the ways out when something raises; what was published may be
  deleted again by `GiveUp`.
- `DeleteComplete` squashes into the next version, or undoes the rows if there is none.
- `Crash` drops the writer between any two transactions; `DeleteIncomplete` is
  `delete_incomplete_resources()`, which may or may not happen.

`VersionHistory` is the promise: each version is a set that never changes, a number is
never given twice, a version differs from the one it succeeds, and one always remains.
The mapping computes the set of a version from the rows, so any error in squashing shows
as a version whose set changes.

## 5. Redis tasking, stages, content and cache

**`RedisTasking`.**  The rows are as in `Tasking`, without `unblocked_at`.  `owner` and `members` are the
lock keys (a string for a task or an exclusive resource, a set for a shared one), `registry` is
`pulp:owner_locks`, `activeOwners` is `pulp:active_owners`, `signals` are the cancel signals.  Lua scripts are
atomic: `Acquire`, `Release`, `CleanupOwners`.  Redis knows processes by `Name`, the registry by row, and a
restarted worker has the name of the one before, which is why they are two sets.  A worker goes
`start`, `fetch` and `scan` (a page of `FETCH_TASK_LIMIT` tasks, taken one by one), `claim`, `claimed`, then `giveup`, or
`execute`, `run` and `release`, or `supervise`, `reload`, `abandon` and `finalize`.  `sweep` is how far a
worker has come in `app_worker_cleanup()`, whose effects on Redis are seen before those on the rows.
Two history variables name exceptions that the code makes (section 9): `robbed` (tasks that lost
their locks to another process) and `leaky` (names left with locks nobody will release).

**`Stages`.**  A step is what a coroutine does between two awaits that suspend it.  `queue[s]` is `in_q`; `held`
is what `get_listener` has taken; `batch`, `noBlock`, `shutdown`, `thaw`, `listener` are the locals of `batches()`; `out` is what
a stage has still to `put`; `handler` is the task of the downloader for an item, `used` and `bytes` the budget.
`Collect` is one round of `batches()`: which of its listeners reports does not matter, since it takes all
there is.  The first stage is a plugin's and follows a `Script` of items it puts, each once, and futures it
awaits.  `PipelineAssumption` says of `Kinds` what `pipeline_stages()` and `create()` build: the stages with a state of
their own come once and in this order, and any number of others may stand between them; `AssemblyAssumption` adds which may not
(section 8, `NeverStops`).
A first stage with an empty script ends at once.
`StageFails`, `DownloadFails`, `Cancel` are the ways a pipeline ends early.

**`ContentStore`.**  `row[d]` is the primary key of the artifact of digest `d` (a row that is deleted and made
again has another one), `file[d]` its file, which is moved into place before the row is inserted and
removed after the deletion is committed.  A saver goes `place`, `insert`, `get` if there is a row
already, `attach`, and for a sync `remote`, `add`.  In the content app everything from `place` to `attach` is one
transaction, and whoever inserts the same digest waits for it; a sync commits in between.  A deleter
selects (`CleanupStarts`, `SelectArtifacts`, `ReclaimStarts`), lets Django's collector look (`ProtectContent`,
`DeleteArtifact`), and commits (`CommitContent`, `CommitDelete`): foreign keys are deferred, so the commit fails
if a reference has come in between.  `RemoveFile` is the `on_commit` hook.  History variables: `raced`, `givenUp`,
`leaked`, `excused` name the losses the code accepts, and the properties admit those and no others.

**`ContentCache`.**  `entry[b][p]` is the response cached for path `p` in the hash of base path `b`, with the state
of the distribution it shows, `flag[b]` the field of the guard, `expiry[b]` the expiry of the hash.  A request goes
`auth`, `lookup`, `handle`, `fill`, `expire`, and may die between any two.  A change is committed and then
invalidated (`UpdateDistribution`, `RenameDistribution`, `Publish`), invalidated and then made
(`DeleteDistribution`, `DeletePublication`, `NewVersion`, `ReclaimSpace`), or not invalidated (`CreateDistribution`).
`Tick` is time: the expiries, and the age of a request that has read and not written yet.

## 6. Runs

| run | instance | checks | shows |
|---|---|---|---|
| `crash` | 2 tasks on one resource, 2 workers, one mortal, a cancel whose request may die | `MutualExclusion`, `ExclusiveExecution`, `Inv`, `Lifecycle` | whenever a process is stopped or killed, its child living on: nothing runs twice, or together, or comes back from a final state; the invariant of the proofs is one |
| `api` | one writer and two readers of a resource, 2 API processes (one mortal), 1 worker | `DispatchOrder`, `ImplementsQueue` | immediate execution by API processes, deferral, and the workers together are a queue |
| `untimely` | a main worker and an auxiliary one that is mortal and lacks the version one task asks for, `Timely = FALSE` | `TypeOK`, `RunningRowsExclude`, `OnlyOwnerAdvances`, `FastStopEnds` | what is left if a process that works is taken for missing: the table stays consistent, and only the owner advances a task; a worker told to stop at once ends even if its task does not |
| `live` | a worker, an API process that executes or defers one task, a cancel of the other | `EveryTaskEnds`, `CancelCompletes` | the wakeup for a commit may be lost, a deferral sends none, a cancelation may come at any time: every task ends |
| `pass` | all queues of 3 incomplete tasks over 2 resources, named exclusive, shared, both or not | `PassIsExact`, `QueryAgrees` | both reservation algorithms decide as the pairwise definition does |
| `retain` | versions 0 to 3 over 2 content units, one is retained; distributions come and go | `TypeOK`, `MemoMatchesRows`, `RowsAreNormal`, `ChangesAreDifferences`, `NewestSurvives`, `NeverRollsBack`, `ImplementsHistory` | versions keep their content while others are squashed, pruned, abandoned or lost in a crash, and a distribution that serves the latest version never goes back |
| `redis` | a writer and an immediate reader, a worker that crashes and its restart under the same name, another worker, which lacks the version that the writer asks for, a cancel of the writer | `TypeOK`, `MutualExclusion`, `NothingUnregistered`, `IdleHoldsNothing`, `NothingStuck` | the locks exclude, whoever dies is cleaned up after, and all that remains is one of the exceptions of section 9 |
| `pipeline` | 4 items through 9 stages, queues of one place, two items with one content, a budget of 2 items and one byte, a download and a save that may fail | `TypeOK`, `NothingLost`, `VersionIsRight`, `BudgetHolds`, `PipelineEnds` | nothing is lost on the way or handed on twice, the version is the one declared or none, and the pipeline ends |
| `store` | 2 content units with the same artifact, a content app, a sync, cleanup, reclaim, repair, one file that rots; up to 4 of these begin, any may die | `TypeOK`, `NothingDangles`, `FilesBehindRows`, `NothingLost`, `SpaceComesBack`, `OnlyRepositoriesRemove` | rows refer to rows, rows have files and files rows, versions keep their content, and content can be had |
| `serving` | 2 nested base paths, 2 requests, 2 changes of any kind, a TTL of one tick | `TypeOK`, `StalenessIsBounded`, `InvalidationWorks` | how stale a cached response can be, and when an invalidation misses one |

The runs `stalesave` and `lostfile` end in a counterexample each; see section 9.

*Bounds.*  The sets of tasks, workers and API processes are the bounds of `Tasking`; nothing
else is bounded.  Two tasks are what a conflict needs; the third one in `api` makes a chain
(a reader behind a writer behind a reader), and two API processes make two deferrals
possible at once.  Two workers are what a race for a claim, for the unblocking lock or for
the remains of a dead worker needs.  `MaxNumber = 3` gives a version whose neighbours on
both sides can be squashed away (`retain` also passes with 4, in a few minutes);
two content units suffice because rows of different content never meet in a statement, and
two let one be added while the other is removed.  Three tasks in `pass` let a
task be blocked by one that is blocked itself.  In `redis` two tasks conflict over one key that is a
string for one and a set for the other; the third worker is the restart of the first.  In `pipeline`
a queue of one place makes every `put` a place to block, `BatchSize = 3` with four items leaves a batch
that only the end, a future or the budget can complete, and nine stages are the real ones.
In `store` one digest suffices, since what is at risk is two users of the same one; `MaxStarts = 4` lets
a reclaim, a cleanup, a request and a sync meet, and `MaxRows = 2` a row be deleted and made again.
`live` has one worker, for a cancelation and several workers are beyond TLC's liveness checking in a few minutes; without the
cancelation `EveryTaskEnds` was checked with a second worker, auxiliary and without the version of one task, too.
In `serving` one tick of TTL and one of handling time distinguish fresh, stale and expired.
The theorems of section 8 have no bounds.

`CHECK_DEADLOCK FALSE` is set where the system may stop for good: `pass`, which is a loop that ends,
`pipeline`, a sync that ends, and `store`, whose bounds stop it.

Symmetry is not used: most runs tell their tasks and workers apart, and TLC does not
combine it with liveness.

## 7. Fairness

`FairSpec` assumes, and nothing more:

- every process goes on with what it has begun (weak fairness of the statements of
  `dispatch()`, of `execute_task()` and of the main loop of a worker);
- one round of `supervise_task()` and of `sleep()` looks at all flags, the signals and the
  child (strong fairness of `TakeCancel`, `TakeStop`, `Kill`, `Join`, `WakeUp`, `UnblockTry`: heart
  beats may disable them for a moment again and again, and the loop comes round again);
- a main worker that is up cleans up at its heart beats (`Cleanup` of all that is missing),
  which also sets its own `wakeup_unblock`; that is why a lost notification costs time only;
- workers that are not mortal are started some day, and nobody tells them to stop;
- no user asks to cancel the same task again and again for ever
  (`<>[](cancelReq[t] = "no")`): each request locks the row, and one that is locked is
  skipped by `fetch_task()`;
- `TasksTerminate`: the functions of tasks end; the immediate tasks are cut off by `IMMEDIATE_TIMEOUT` in
  any case.

`FastStopEnds` does without all this: `StoppingSpec` assumes only that the worker that is told to stop goes on
with its own loop; its task may hang, and all others may stand still.

`Stages` assumes weak fairness of its steps together (`Flow \/ Downloads \/ Closing`): the event loop runs something
as long as something can run, but nothing is said of which coroutine.  Downloads end, by success or by failure,
which is what the timeouts of the downloaders are for.

Nothing is assumed of signals, crashes, or of users.  `EveryTaskEnds` begins with a row that is
visible, since an insertion may be rolled back.

## 8. Proofs

Every theorem holds for all values of the constants that satisfy the named assumptions of
its module, which only say what kind of thing each constant is (those of `Stages` also in which order
`pipeline_stages()` puts the stages); extra hypotheses are in the statement of the theorem and in the tables.  The induction is always the same: `Init => IInv`,
`IInv /\ [Next]_vars => IInv'`, `IInv => Property`, with one lemma per action or per conjunct;
the inductive invariant `IInv` is where the argument is.  None of the properties is inductive as it
stands.

### Tasking

`TaskingProofs` and `TaskingRefinementProofs`:

| theorem | statement | hypotheses |
|---|---|---|
| `Invariance` | `Spec => []Inv` | `Timely`, `NoStaleSave` |
| `TypeCorrect` | `Spec => []TypeOK` | `Timely`, `NoStaleSave` |
| `Exclusion` | `Spec => []MutualExclusion` | `Timely`, `NoStaleSave` |
| `Order` | `Spec => []DispatchOrder` | `Timely`, `NoStaleSave` |
| `SingleExecution` | `Spec => []ExclusiveExecution` | `Timely`, `NoStaleSave` |
| `Implementation` | `Spec => ImplementsQueue` | `Timely`, `NoStaleSave` |
| `RowsAdvance` | `Spec => Lifecycle` | `Timely`, `NoStaleSave` |
| `RowsInvariance` | `Spec => []RowsInv` | `NoDeferral` |
| `RowsExclude` | `Spec => []RunningRowsExclude` | `NoDeferral`, or `Timely` and `NoStaleSave` |
| `OwnersAdvance` | `Spec => OnlyOwnerAdvances` | `NoDeferral`, or `Timely` and `NoStaleSave` |

The hypotheses are necessary:

- `Timely`: no process is deleted from the registry while it, or its child, still works.
  Without it `MutualExclusion` fails (section 9);
- `NoStaleSave`: no user cancels a task that its dispatcher may have to defer.  Without it
  `MutualExclusion` and `Lifecycle` fail (run `stalesave`);
- `NoDeferral`: no task is both executed and deferred by its dispatcher.  A dispatcher that is taken
  for missing could save the row it has read over what has happened since, like the
  stale save above.  The run `untimely` satisfies it.

That two tasks do not run together says nothing of a
worker that is about to start one.  `Inv` adds what the code relies on:

- `InsertOrder`: timestamps are a total order, and whatever is earlier than t and has a
  resource in common with it is visible (the trigger);
- `HoldLocks`: a process works only on a task whose `app_lock` names it, and is registered;
  rows that are not visible yet are not locked, except by their dispatcher;
- `Control`: which process is where, and that children live only while their worker
  supervises or is dead;
- `Dispatching`: what `dispatch()` knows between its statements, of the refreshed row above all;
- `Unblocking`: a waiting or running task that is marked unblocked, or about to be, is `Clear`: every
  earlier task that excludes it is in a final state;
- `Running`: what is executed is running or canceling, and clear.

`Clear` is stable because timestamps are never handed out in the past and final states are
final.  Two tasks that exclude each other cannot both be clear and incomplete, as one of them
is prior to the other: that is mutual exclusion.  Types and control are shown once for all actions
(`TypesKept`, `ControlKept`); the other conjuncts have a lemma per action, with a frame lemma
per conjunct (which variables it reads), and `NextInv` puts them together.
`ClearIffNoBlockers` is where the query meets the invariant: it only sees visible rows, and
`InsertOrder` says that nothing relevant is invisible.

`RowsInv` is `Inv` without what a process that was taken for missing breaks: `HoldLocks`, and with it that what
a process executes is in a running row.  The rows themselves stay in order (`InsertOrder`,
`Unblocking`), as every statement that advances one compares the state and the lock in its `WHERE` clause.
`RowMove`, `DispatchMove` and `BeginsToRun` are the few ways in which any action changes a row or
a dispatcher; each conjunct is preserved by them.

`Implementation` goes by the executions: a step of the code either changes no row and nobody
executes something else afterwards (`IdleMove`), or it moves one visible task on (`Advances`), or a row
becomes visible.  A task begins when its process enters `run`, and `Inv` has it clear
there, which is the guard of the abstract `Begin`; it leaves `executing` before its row is final, since the
refinement looks at processes as well as at rows.

### Reservation algorithms

`UnblockLoopProofs` shows, for queues of any length over any resources,

| theorem | statement |
|---|---|
| `Pass` | `Spec => []PassIsExact`: the pass, which keeps two sets, marks exactly the unopposed tasks; by the loop invariant `Taken` |
| `Agreement` | `Spec => []QueryAgrees`: comparing the string arrays decides the same |

### Redis tasking

`RedisTaskingProofs`, with no hypotheses beyond the assumptions on the constants:

| theorem | statement |
|---|---|
| `RedisInvariance` | `Spec => []RedisInv` |
| `RedisTyped` | `Spec => []TypeOK` |
| `RegistryComplete` | `Spec => []NothingUnregistered` |
| `ExclusiveInRedis` | `Spec => []MutualExclusion` |
| `IdleWorkersHoldNothing` | `Spec => []IdleHoldsNothing` |
| `NoTaskStuck` | `Spec => []NothingStuck` |

`RedisInv` has two halves.  `Base` is about rows and processes: who lives is registered and has a name of
its own (`Namesakes`); a lock in a row names somebody who is registered, and who has the task in hand, or has
put it aside (`RowsTended`); a cleanup works on processes that are gone, one at a time (`Sweeping`); a
cancelation has passed the row before it touches Redis (`Cancelations`).  The other half is about Redis:
a process that works on a task has all of its locks unless the task was robbed, and of two that work on
conflicting tasks one was (`Locks`); what a name holds belongs to the task of the process that has the
name (`Holdings`).  `MutualExclusion` needs the second part of `Locks` because the locks alone do not
tell two processes of one name apart; `NothingStuck` needs nearly everything.
`RedisNameAssumption` (API processes and the console have different names) is what `entrypoint.py` enforces: an
API process that finds its name taken exits.  Workers may share a name with a predecessor.

### Repository versions

`RepositoryVersionsProofs`, with no further hypotheses:

| theorem | statement |
|---|---|
| `VersionInvariance` | `Spec => []VersionInv` |
| `VersionsTyped` | `Spec => []TypeOK` |
| `Memoization` | `Spec => []MemoMatchesRows` |
| `NormalRows` | `Spec => []RowsAreNormal` |
| `TrueDifferences` | `Spec => []ChangesAreDifferences` |
| `PublishedSurvives` | `Spec => []NewestSurvives` |
| `NoRollBack` | `Spec => NeverRollsBack` |
| `HistoryImplemented` | `Spec => ImplementsHistory` |

The rows of a content unit are intervals of versions.  `RowsNormal` says that they neither overlap nor
*touch*: that a unit which is removed and added again has a version in between is what makes squashing
exact, since `_squash()` merges by end points.  For each of `Add`, `Remove`, `SetRemoved`, `Squash` and `Forget` there
are two kinds of lemma: it keeps normal rows normal, and what it does to the content of each
version.  Rows that a dead task has left behind are told apart by their version (`Old`), until
`NewVersion` deletes them.

### Content store

`ContentStoreProofs`, with no further hypotheses:

| theorem | statement |
|---|---|
| `StoreInvariance` | `Spec => []StoreInv` |
| `StoreTyped` | `Spec => []TypeOK` |
| `ReferencesHold` | `Spec => []NothingDangles` |
| `FilesStay` | `Spec => []FilesBehindRows` |
| `ContentStays` | `Spec => []NothingLost` |
| `SpaceAccounted` | `Spec => []SpaceComesBack` |
| `VersionsKeepContent` | `Spec => OnlyRepositoriesRemove` |

`StoreInv` adds who owns a row that is not committed (`Rows`: one transaction per digest), that a file is
there whenever somebody relies on it and not only when there is a row (`Files`), and what a sync may
count on when it adds to a version and a reclaim when it forgets (`Recoverable`).  The foreign keys do the rest:
a deletion commits only if nothing refers to what it deletes.

### Content cache

`ContentCacheProofs`, with no further hypotheses:

| theorem | statement |
|---|---|
| `CacheInvariance` | `Spec => []CacheInv` |
| `CacheTypes` | `Spec => []TypeOK` |
| `BoundedStaleness` | `Spec => []StalenessIsBounded` |
| `Invalidation` | `Spec => []InvalidationWorks` |

`CacheInv` carries an age along: what a request has read is no older than the time it has taken, what is
cached no older than that and the part of the TTL that is over (`ReadsAged`, `EntriesAged`); and while no
invalidation is due, whatever is cached for the present base path is current or excused (`EntriesExcused`), also if a
request is only about to cache it (`ReadsExcused`).

### Stages

`StagesProofs`, for every pipeline and script that satisfy the assumptions, any number of items, any budget
and any size of the queues:

| theorem | statement |
|---|---|
| `StagesInvariance` | `Spec => []StagesInv` |
| `StagesTyped` | `Spec => []TypeOK` |
| `ItemsKept` | `Spec => []NothingLost` |
| `RightVersion` | `Spec => []VersionIsRight` |
| `BudgetKept` | `Spec => []BudgetHolds` |
| `NeverStops` | `Spec => []NeverStuck`, with `AssemblyAssumption` |

An item is carried by a queue, a listener, a batch, what is to be put, or a task (`In`), and `At(d, n)` says
that this is the work of stage n or the way to it.  `Passage` and `Departure` say of every step, once for
all, that an item stays, or goes one stage further by what that stage does, or leaves at the end; the rest
uses these two and not the actions.  `StagesInv` says that an item has one carrier (`Alone`, `Singles`),
that the end marker is the last that comes, from a stage that is over and has nothing left (`Ending`,
`Empties`), which `batches()` relies on when it stops reading, that content is saved before it is
associated (`SavedFirst`), and that what was sent is on its way or in the version (`Kept`, `Contained`).  For the
budget, `Loading` ties tasks, artifacts and shares together.  `ArtifactSaver` gives back a share for items
that never took one, so `Budget` counts the shares with the items that have passed the saver and were not
paid for (`Overpaid`): that sum is what no step disturbs.  The bytes are compared as long as nobody has
given back more than was taken.

`NeverStops` is what the docstring of `resolution()` claims, that a flush "prevents deadlock", and the same for
the budget, the queues and the end markers: until the pipeline has ended, some stage, some task of the
downloader or the pipeline itself can move.  The prover cannot expand `ENABLED`, so `MayStep` spells out the guards
of `Flow`, `Downloads` and `Closing`; TLC found `MayStep` equal to `ENABLED` of the three in every state of the run
`pipeline`.  The invariant that it needs is `Vigil`: a stage whose predecessor is done has been told and
remembers it (`Told`); none waits for a batch to fill with an item somebody awaits, with the end marker
read, or with a flush asked for (`Awake`); a task waits for the budget only while shares are
taken, and then the saver's listener is not asleep (`Asking`); the items that hold those shares are not
past the saver, and those whose future is awaited not past the resolver (`Ahead`).  A pipeline that is `Stuck` would
have all queues empty, since the last stage with something in its queue could take it; so what is left is
in batches, none of which may wait; so the first stage is done, and then every next one has been told.

`AssemblyAssumption` is used by this theorem alone.  It says that the first stage awaits only items that it has put, and
that `ArtifactSaver` comes right behind `ArtifactDownloader`, as `pipeline_stages()` has it.  The latter matters to plugins that override
`pipeline_stages()`: only the saver flushes its batch when the budget is used up.  With a stage that reads batches between the
two, that stage may hold the items whose shares the downloader waits for, and wait for more from the downloader: TLC finds
`NeverStuck` violated for such a pipeline.

### Only model-checked

- All liveness: `EveryTaskEnds`, `CancelCompletes`, `FastStopEnds`, `PipelineEnds`; fairness and `ENABLED` are out
  of reach of the prover.  Of `PipelineEnds` the part without fairness is a theorem, `NeverStops`.
- Every other property of a passing run is stated by a theorem.  The two runs that end in a counterexample show
  where none can be: `SavedHasFile` in `ContentStore`, `MutualExclusion` in `Tasking` without `NoStaleSave`.

## 9. Where code and documentation disagree

Two runs end in a counterexample to something the sources say, which the `findings` of
`PROJECT.json` quote:

| run | what the code does |
|---|---|
| `stalesave` | `dispatch()` defers a task with `task.save()`, which writes the whole row as it was before the resources were checked.  A cancelation in between is undone; if a worker has already finalized the task and let its successor through, the task is waiting and unblocked again, and runs together with the successor.  `Lifecycle` fails in the same instance |
| `lostfile` | `FileSystem._save()` is content with a file that is in place already.  It may belong to a row whose deletion is committed and whose `on_commit` hook is about to remove it: the new artifact is left without a file, and the repair has to fetch it again |

Others were met with variations of the runs:

- `live` with a mortal API process or worker violates `EveryTaskEnds`: `unblock_tasks()` (`worker.py:349`) announces
  waiting and canceling tasks.  A running task whose process died may be claimed, and failed, but the workers that
  sleep are not told.  `test_tasking.py:93` expects that "when a worker dies unexpectedly while executing a task, the
  worker cleanup process marks the task as failed and releases its locks".
- `live` with `Cancelable = {t2}` violates `CancelCompletes`: an immediate task that is canceled while its dispatcher
  executes it stays canceling (`set_completed()` leaves it so, `models/task.py:261`), locked by the API process, as long as
  that process is registered.  The docstring of `Task` says "CANCELING -> CANCELED" (`models/task.py:72`).
- In `redis` the exceptions of the properties are reached.  `cancel_task()` with an `app_lock` read as NULL takes the task from
  a worker that has claimed it since, and releases its locks: it is `robbed` and runs unprotected.  A child killed after it
  finished its row and before it released leaves its locks behind, and so does a worker that restarts under its name while
  the row of the one before still looks online (`leaky`).  A task given back by an incompatible worker keeps its
  `app_lock`, and one that is canceled while an API process defers or executes it, or while its child finishes, stays
  canceling (`Forgotten`): no query finds either.
- `fetch_task()` of the Redis worker reads pages of `FETCH_TASK_LIMIT`; with as many tasks waiting for one resource that is taken, the loop goes on
  without a heart beat until something else changes.  (Read in the code, not checked.)
- `ArtifactSaver` gives back a share of the budget for every item, also for one that took none, so that
  `SYNC_MAX_IN_FLIGHT_ITEMS` and `SYNC_MAX_IN_FLIGHT_MB` are exceeded; `BudgetHolds` states by how much.  The tasks of a downloader that
  failed are not cancelled.
- `reclaim_space()` excludes `pk__in=c_keep_qs, pulp_type=PublishedMetadata` in one call, which excludes what is both: content that
  other repositories share is reclaimed too, though the docstring says "exclusive to the list of provided repos".
- In the repair, an artifact that two content units share is removed by the one that has no remote after the other has fetched
  it again (`givenUp`).
- `_save_artifact()` unlinks a temporary file that `pre_save()` may have moved already, which fails the request.
- A response that was computed before an update and set after the invalidation stays for the TTL (`late` in `ContentCache`), though
  `docs/admin/reference/settings.md` says "Content app responses are always invalidated when the backing distribution is
  updated."  A distribution that is renamed invalidates its new base path and not its old one; a new repository version, a
  deleted publication and a reclaim invalidate before they change anything (`silent`).  With hashes for two nested base paths
  `find_base_path_cached()` uses a count beyond the list as its index and fails.

Other variations show what nothing in the sources plainly excludes:

- `crash` with `Timely = FALSE` violates `MutualExclusion`: a process whose heart beat is late is deleted
  though it works, its task is failed and the next one starts beside it; also if only the
  child of a dead worker lives.  This is the price of recovering from crashes by timeouts,
  and the reason for the assumption `Timely`.
- `live` without `TasksTerminate` violates `CancelCompletes`: `cancel_task()` decides by an `app_lock` it read
  before whom to notify; a worker that claims the task in between is not told, and executes
  the task however long that takes.
- `live` with workers that all lack a version of the canceled task violates `CancelCompletes`: who
  ignores a task does not finalize it either.
- `delete_version()` deletes a version that has no successor, though its docstring asks for one.
  The danger named there, a number that is used again, does not exist: `retain` shows it.

## 10. Limits

Abstractions of the tasking model:

- A notification sets the flags of its receivers at once, or is lost with its sender.  A late one makes no
  difference to safety, since a worker may look at its flags as late as it likes; liveness
  does not depend on when it arrives, only on that it does or that a heart beat comes.
- Timestamps are ordered as they are taken.  A clock that runs backwards makes the trigger
  raise an exception, which is `Rollback`.
- A transaction of a caller inserts one task.
- One cancelation of a task is in flight at a time; further ones may follow.
- `HeartbeatFails` covers a registry row that is gone and a database that is out of reach for
  a heart beat; apart from it the database is up.
- Tasks do not dispatch tasks, and do not cancel them.  A client task is dispatched by
  someone who may be anything but one of the processes modelled.
- `TASK_PREFER_DEFER` is the case in which no task is immediate.
- Not modelled: burst mode, metrics, memory profiling, `pulpcore-manager` commands, task
  groups, schedules.
- `get_resources()` adds the domain of the caller to what every task reserves, shared unless it
  is named exclusive.  The model does not require that: reservations are arbitrary sets, the
  domain is one more resource in them, and the tasks of the instances all meet on `r1` anyway.

Abstractions of the repository model:

- The check for protected versions and the deletion are one step.
- The task that changes the repository's own settings (and prunes at once) is left out, as
  are checkpoints, remotes, the counts by content type, caches, and publications other than
  as what is `served`.
- `content_ids` of a deleted version remains in the model, where nothing reads it.

Abstractions of the others:

- `RedisTasking`: rows become visible in the order of `pulp_created` (the trigger that `Tasking` models); the Redis server does not
  fail, restart or evict; a resource is not named both exclusive and shared in one task, which would make the scripts fail for ever;
  an API process executes one request at a time, as its entry point configures it; a heart beat is never late; one cancelation
  of a task is in flight at a time.
- `Stages`: the natural key order of `ContentSaver` is any order; `RemoteArtifactSaver` and the handler of alternate content sources
  hand on what they get; an item has one artifact.  The first stage puts each item once.  In the run sizes are 0 or 1.
- `ContentStore`: a content unit has one artifact, `ORPHAN_PROTECTION_TIME` is 0, domains and storage classes other than the file system
  are left out, and what a repository contains is one set.  A reclaim that is not forced while the remote is deleted loses content:
  the two are asked for by users, and the model counts it as agreed (`excused`).
- `ContentCache`: one distribution, one change at a time, no content guard (the flag is that there is none); what a
  response says is the number of the state it was made from.

Components that have no model, and why, are in `components` of `PROJECT.json`.

## 11. Plan

Modules were written in the order of what the rest depends on: tasking first, since all
writers rely on its exclusion; then the algorithms it takes for granted; then the component
that relies on it most; then the second backend, the pipeline, the store and the cache.  Next:

1. A refinement that shows in which sense `RedisTasking` implements `TaskQueue`: not in order of insertion.
2. `RowsExclude` with deferrals and late heart beats: which of them are harmful.
3. `ScheduledDispatch`; the pruning when `retain_repo_versions` is changed, and checkpoints, in `RepositoryVersions`.

## 12. How to run

    tlasany Tasking.tla
    tlc -workers 2 -config MCTasking_crash.cfg MCTasking
    tlapm TaskingProofs.tla

The configurations are named after module and run.  The proofs of one module take a few minutes; they need
the SMT backend (Z3), Zenon and, for temporal steps, LS4.  Each leaf is small enough to be proved within a second or two.
