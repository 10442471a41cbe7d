------------------------------- MODULE Stages -------------------------------
(***************************************************************************)
(* The stages pipeline of a sync (pulpcore/plugin/stages): DeclarativeVer- *)
(* sion.create() connects the stages by queues of one place and runs them  *)
(* as tasks of one event loop.  A step of the model is what a task does    *)
(* between two awaits that suspend it.                                     *)
(*                                                                         *)
(* A stage that reads batches() waits until enough items have come, until  *)
(* the previous stage is finished, or until somebody asks for an item it   *)
(* holds: a first stage that awaits resolution() of an item it has sent    *)
(* (content futures) or a downloader whose budget is used up.              *)
(***************************************************************************)
EXTENDS Integers, Sequences, FiniteSets, SequencesExt

CONSTANTS
    Items,         \* the declarative contents of the sync
    Keys,          \* natural keys of content units
    Key,           \* [Items -> Keys]
    Script,        \* the first stage: <<"put", d>> and <<"await", d>> in turn
    Kinds,         \* the kinds of the stages, in order
    Needs,         \* the items with an artifact to download
    Stored,        \* those of them whose artifact was saved by somebody before
    Advertised,    \* [Items -> Nat]: the bytes the remote announces
    Size,          \* [Items -> Nat]: the bytes there are
    BatchSize,     \* minsize of batches()
    MaxItems,      \* SYNC_MAX_IN_FLIGHT_ITEMS
    MaxBytes,      \* SYNC_MAX_IN_FLIGHT_MB
    MaxConcurrent, \* max_concurrent_content of the downloader
    QueueSize,     \* maxsize of create_pipeline()
    Old,           \* the content of the version before the sync
    Saved,         \* the content in the database before the sync
    Others,        \* the content a concurrent sync may save
    Mirror,        \* mirror=True of the declarative version
    MayFail,       \* the items whose download may fail
    MayBreak,      \* the kinds of stages that may raise
    Nothing,       \* no item
    End            \* the None that ends a queue

ASSUME StagesAssumption ==
    /\ IsFiniteSet(Items)
    /\ Key \in [Items -> Keys]
    /\ Advertised \in [Items -> Nat] /\ Size \in [Items -> Nat]
    /\ {BatchSize, MaxItems, MaxConcurrent, QueueSize} \subseteq Nat \ {0}
    /\ MaxBytes \in Nat
    /\ Old \subseteq Saved /\ Saved \subseteq Keys /\ Others \subseteq Keys
    /\ Stored \subseteq Needs /\ Needs \subseteq Items
    /\ {Nothing, End} \cap Items = {} /\ Nothing # End

\* The first stage puts each item once.
ASSUME ScriptAssumption ==
    /\ Script \in Seq({"put", "await"} \X Items)
    /\ \A d \in Items : \E i \in DOMAIN Script :
          /\ Script[i] = <<"put", d>>
          /\ \A j \in DOMAIN Script : Script[j] = Script[i] => j = i

Stages == 1 .. Len(Kinds)
First == 1
Of(kind) == {s \in Stages : Kinds[s] = kind}

\* The stages of pipeline_stages() and create(): those named here come once and
\* in this order, others ("query", "plain") may stand between them.
ASSUME PipelineAssumption ==
    /\ Len(Kinds) \in Nat /\ DOMAIN Kinds = Stages
    /\ Of("first") = {First} /\ Of("end") = {Len(Kinds)}
    /\ \E a, b, c, d, e, f \in Stages :
          /\ Of("artifacts") = {a} /\ Of("download") = {b} /\ Of("save") = {c}
          /\ Of("content") = {d} /\ Of("resolve") = {e} /\ Of("associate") = {f}
          /\ a < b /\ b < c /\ c < d /\ d < e /\ e < f

Downloader == CHOOSE s \in Stages : Kinds[s] = "download"
Batching == {s \in Stages : Kinds[s] \in {"artifacts", "save", "query",
                                          "content", "plain", "associate"}}

\* No stage is of another kind, ArtifactSaver comes right behind ArtifactDownloader,
\* and the first stage waits only for items that it has put.
ASSUME AssemblyAssumption ==
    /\ Stages = Batching \cup {First, Downloader, Len(Kinds)} \cup Of("resolve")
    /\ Of("save") = {Downloader + 1}
    /\ \A i \in DOMAIN Script : Script[i][1] = "await" =>
           \E j \in 1 .. i - 1 : Script[j] = <<"put", Script[i][2]>>

VARIABLES
    pos,       \* the step of the first stage's script
    queue,     \* in_q of each stage
    held,      \* what get_listener has taken from in_q
    batch,     \* the pending batch of batches()
    noBlock,   \* no_block of batches()
    shutdown,  \* the end marker was read
    thaw,      \* the thaw listener has something to report
    listener,  \* the flush listener of the saver: new, armed, fired, off
    mode,      \* where a stage's coroutine is
    out,       \* the items a stage has handled and not put yet
    getting,   \* the downloader waits for its next item
    handler,   \* the downloader's task of an item
    flush,     \* flush_event of the budget
    used,      \* _current_items of the budget
    bytes,     \* _current_bytes of the budget
    acquired,  \* the items that took a share of the budget and still have it
    artifact,  \* what an item has for an artifact
    future,    \* the content future of an item
    rows,      \* the content units in the database
    toAdd,     \* to_add of the association
    toDelete,  \* to_delete of the association
    version,   \* the content of the new version
    outcome    \* of the whole pipeline

batchVars == <<held, batch, noBlock, shutdown, thaw, listener>>
budgetVars == <<flush, used, bytes, acquired>>
dbVars == <<rows, toAdd, toDelete, version>>
itemVars == <<artifact, future>>
downloadVars == <<getting, handler>>
flowVars == <<pos, queue, mode, out>>
vars == <<flowVars, batchVars, budgetVars, dbVars, itemVars, downloadVars,
          outcome>>

Ended == {"done", "failed", "cancelled"}
Pending == {d \in Items : handler[d] \in {"try", "blocked", "load", "put"}}

TypeOK ==
    /\ pos \in 1 .. Len(Script) + 1
    /\ \A s \in Stages : Len(queue[s]) <= QueueSize
                         /\ ToSet(queue[s]) \subseteq Items \cup {End}
    /\ held \in [Stages -> Items \cup {End, Nothing}]
    /\ \A s \in Stages : /\ ToSet(batch[s]) \cup ToSet(out[s]) \subseteq Items
                         /\ IsInjective(batch[s]) /\ IsInjective(out[s])
    /\ {noBlock, shutdown, thaw} \subseteq [Stages -> BOOLEAN]
    /\ listener \in {"new", "armed", "fired", "off"}
    /\ mode \in [Stages -> Ended \cup {"wait", "handle", "put", "add", "tail",
                                       "finish"}]
    /\ getting \in BOOLEAN /\ flush \in BOOLEAN
    /\ handler \in [Items -> {"none", "try", "blocked", "load", "put", "done",
                              "stopped"}]
    /\ used \in Nat /\ bytes \in Nat /\ acquired \subseteq Items
    /\ artifact \in [Items -> {"none", "wanted", "file", "saved"}]
    /\ future \in [Items -> {"none", "awaited", "resolved"}]
    /\ Old \subseteq rows /\ version \subseteq rows /\ toAdd \subseteq rows
    /\ toDelete \subseteq Old
    /\ outcome \in {"running", "failing", "ok", "error"}

Init ==
    /\ pos = 1
    /\ queue = [s \in Stages |-> <<>>]
    /\ held = [s \in Stages |-> Nothing]
    /\ batch = [s \in Stages |-> <<>>]
    /\ noBlock = [s \in Stages |-> FALSE]
    /\ shutdown = [s \in Stages |-> FALSE]
    /\ thaw = [s \in Stages |-> FALSE]
    /\ listener = "new"
    /\ mode = [s \in Stages |-> IF s = First /\ Script = <<>> THEN "finish"
                               ELSE "wait"]
    /\ out = [s \in Stages |-> <<>>]
    /\ getting = TRUE
    /\ handler = [d \in Items |-> "none"]
    /\ flush = FALSE /\ used = 0 /\ bytes = 0 /\ acquired = {}
    /\ artifact = [d \in Items |-> IF d \in Needs THEN "wanted" ELSE "none"]
    /\ future = [d \in Items |-> "none"]
    /\ rows = Saved
    /\ toAdd = {} /\ toDelete = Old /\ version = Old
    /\ outcome = "running"

-----------------------------------------------------------------------------
(* Queues and the ends of stages.                                          *)

Alive(s) == outcome \in {"running", "failing"} /\ mode[s] \notin Ended
HasRoom(s) == Len(queue[s]) < QueueSize

\* A mutation: the end marker is looked at before the last batch is added.
AfterPutAtOnce(s) ==
    IF shutdown[s] THEN IF Kinds[s] = "associate" THEN "tail" ELSE "finish"
    ELSE IF Kinds[s] = "associate" /\ toAdd # {} THEN "add" ELSE "wait"

\* What a stage does once the last item of a batch is put.
AfterPut(s) ==
    IF Kinds[s] = "associate" /\ toAdd # {} THEN "add"
    ELSE IF ~shutdown[s] THEN "wait"
    ELSE IF Kinds[s] = "associate" THEN "tail" ELSE "finish"

\* batches() is resumed after the yield: the flush listener is armed again.
Rearm(s) == listener' = IF Kinds[s] = "save" /\ listener = "off"
                        THEN "new" ELSE listener

Put(s) ==
    /\ Alive(s) /\ mode[s] = "put" /\ out[s] # <<>> /\ HasRoom(s + 1)
    /\ queue' = [queue EXCEPT ![s + 1] = Append(@, Head(out[s]))]
    /\ out' = [out EXCEPT ![s] = Tail(@)]
    /\ IF Len(out[s]) = 1
       THEN mode' = [mode EXCEPT ![s] = AfterPut(s)] /\ Rearm(s)
       ELSE UNCHANGED <<mode, listener>>
    /\ UNCHANGED <<pos, held, batch, noBlock, shutdown, thaw, budgetVars, dbVars,
                   itemVars, downloadVars, outcome>>

\* Stage.__call__: the run is over, the next stage is told.
Finish(s) ==
    /\ Alive(s) /\ mode[s] = "finish" /\ HasRoom(s + 1)
    /\ queue' = [queue EXCEPT ![s + 1] = Append(@, End)]
    /\ mode' = [mode EXCEPT ![s] = "done"]
    /\ UNCHANGED <<pos, out, batchVars, budgetVars, dbVars, itemVars,
                   downloadVars, outcome>>

-----------------------------------------------------------------------------
(* The first stage, written by a plugin.                                   *)

FirstPut ==
    /\ Alive(First) /\ pos <= Len(Script) /\ Script[pos][1] = "put" /\ HasRoom(2)
    /\ queue' = [queue EXCEPT ![2] = Append(@, Script[pos][2])]
    /\ pos' = pos + 1
    /\ mode' = [mode EXCEPT ![First] = IF pos = Len(Script) THEN "finish" ELSE @]
    /\ UNCHANGED <<out, batchVars, budgetVars, dbVars, itemVars, downloadVars,
                   outcome>>

\* A mutation: nobody is told that an item of a batch is waited for.
NoHolders(d) == {}

\* resolution(): the item gets a future; the batch it sits in must not wait.
HoldersOf(d) == {s \in Batching : mode[s] = "wait" /\ d \in ToSet(batch[s])}
Resolution ==
    /\ Alive(First) /\ pos <= Len(Script) /\ Script[pos][1] = "await"
    /\ LET d == Script[pos][2] IN
       /\ future[d] = "none"
       /\ future' = [future EXCEPT ![d] = "awaited"]
       /\ thaw' = [s \in Stages |-> thaw[s] \/ s \in HoldersOf(d)]
    /\ UNCHANGED <<flowVars, held, batch, noBlock, shutdown, listener,
                   budgetVars, dbVars, artifact, downloadVars, outcome>>

\* The future has its result.
FirstResumes ==
    /\ Alive(First) /\ pos <= Len(Script) /\ Script[pos][1] = "await"
    /\ future[Script[pos][2]] = "resolved"
    /\ pos' = pos + 1
    /\ mode' = [mode EXCEPT ![First] = IF pos = Len(Script) THEN "finish" ELSE @]
    /\ UNCHANGED <<queue, out, batchVars, budgetVars, dbVars, itemVars,
                   downloadVars, outcome>>

-----------------------------------------------------------------------------
(* batches().                                                              *)

\* get_listener takes the next item, also while the stage is busy.
Listen(s) ==
    /\ Alive(s) /\ held[s] = Nothing /\ queue[s] # <<>> /\ ~shutdown[s]
    /\ held' = [held EXCEPT ![s] = Head(queue[s])]
    /\ queue' = [queue EXCEPT ![s] = Tail(@)]
    /\ UNCHANGED <<pos, mode, out, batch, noBlock, shutdown, thaw, listener,
                   budgetVars, dbVars, itemVars, downloadVars, outcome>>

\* The flush listener starts to wait, or finds the event set.
ArmFlush(s) ==
    /\ Alive(s) /\ Kinds[s] = "save" /\ listener = "new"
    /\ listener' = IF flush THEN "fired" ELSE "armed"
    /\ UNCHANGED <<flowVars, held, batch, noBlock, shutdown, thaw, budgetVars,
                   dbVars, itemVars, downloadVars, outcome>>

Flushed(s) == Kinds[s] = "save" /\ listener = "fired"
MinSize(s) == IF Kinds[s] = "save" THEN MaxItems ELSE BatchSize

\* What there is to take: the listener's item, then those of the queue.
\* A mutation: at the end the listener is cancelled with the item it has.
TakenAtEnd(s) == (IF held[s] = Nothing \/ queue[s] = <<End>> THEN <<>>
                  ELSE <<held[s]>>) \o queue[s]
Taken(s) == (IF held[s] = Nothing THEN <<>> ELSE <<held[s]>>) \o queue[s]

\* The end marker is the last that comes.
WithoutEnd(items) == IF items # <<>> /\ Last(items) = End
                     THEN Front(items) ELSE items

\* One of the listeners reports: take all there is, and yield or wait again.
Collect(s) ==
    /\ Alive(s) /\ mode[s] = "wait"
    /\ held[s] # Nothing \/ thaw[s] \/ Flushed(s)
    /\ LET items == batch[s] \o WithoutEnd(Taken(s))
           ends == End \in ToSet(Taken(s))
           hurry == \/ noBlock[s] \/ thaw[s] \/ Flushed(s)
                    \/ \E d \in ToSet(items) : future[d] = "awaited"
           yields == /\ items # <<>>
                     /\ Len(items) >= MinSize(s) \/ ends \/ hurry
       IN /\ batch' = [batch EXCEPT ![s] = items]
          /\ shutdown' = [shutdown EXCEPT ![s] = ends]
          /\ noBlock' = [noBlock EXCEPT ![s] = hurry /\ ~yields]
          /\ mode' = [mode EXCEPT ![s] =
                 IF yields THEN "handle"
                 ELSE IF ~ends THEN "wait"
                 ELSE IF Kinds[s] = "associate" THEN "tail" ELSE "finish"]
    /\ held' = [held EXCEPT ![s] = Nothing]
    /\ queue' = [queue EXCEPT ![s] = <<>>]
    /\ thaw' = [thaw EXCEPT ![s] = FALSE]
    /\ listener' = IF Flushed(s) THEN "off" ELSE listener
    /\ UNCHANGED <<pos, out, budgetVars, dbVars, itemVars, downloadVars, outcome>>

-----------------------------------------------------------------------------
(* What a stage does with the batch it was yielded.                        *)

Hands(s, items) ==
    /\ Alive(s) /\ mode[s] = "handle"
    /\ batch' = [batch EXCEPT ![s] = <<>>]
    /\ out' = [out EXCEPT ![s] = items]
    /\ mode' = [mode EXCEPT ![s] = IF items = <<>> THEN AfterPut(s) ELSE "put"]
    /\ UNCHANGED <<pos, queue, held, noBlock, shutdown, thaw, getting, outcome>>

\* QueryExistingArtifacts: artifacts that are saved replace the unsaved.
QueryArtifacts(s) ==
    /\ Kinds[s] = "artifacts" /\ Hands(s, batch[s])
    /\ artifact' = [d \in Items |-> IF d \in ToSet(batch[s]) \cap Stored
                                    THEN "saved" ELSE artifact[d]]
    /\ UNCHANGED <<listener, budgetVars, dbVars, future, handler>>

\* max(0, ...).  A mutation: none.
AnyNumber(n) == n
NonNegative(n) == IF n < 0 THEN 0 ELSE n

\* The sum of the sizes f of some items: their bytes, counted.
SumOf(f, ds) == Cardinality(UNION {{d} \X (1 .. f[d]) : d \in ds})

\* ArtifactResourceBudget.release(): whoever waits for the budget tries again.
Release(n, size, freed, tasks) ==
    /\ used' = NonNegative(used - n)
    /\ bytes' = NonNegative(bytes - size)
    /\ acquired' = acquired \ freed
    /\ flush' = FALSE
    /\ handler' = [d \in Items |-> IF tasks[d] = "blocked" THEN "try" ELSE tasks[d]]

\* ArtifactSaver: one release for each item, whether it was downloaded or not.
SaveArtifacts(s) ==
    /\ Kinds[s] = "save" /\ Hands(s, batch[s])
    /\ LET ds == ToSet(batch[s]) IN
       /\ artifact' = [d \in Items |-> IF d \in ds /\ artifact[d] = "file"
                                       THEN "saved" ELSE artifact[d]]
       /\ Release(Cardinality(ds), SumOf(Size, ds), ds, handler)
    /\ UNCHANGED <<listener, dbVars, future>>

\* QueryExistingContents, RemoteArtifactSaver, ACSArtifactHandler: nothing the
\* later stages depend on is changed.
HandOver(s) ==
    /\ Kinds[s] \in {"query", "plain"} /\ Hands(s, batch[s])
    /\ UNCHANGED <<listener, budgetVars, dbVars, itemVars, handler>>

\* ContentSaver: the batch is saved in the order of the natural keys; content
\* that somebody else has saved since is taken instead.
SaveContent(s) ==
    /\ Kinds[s] = "content"
    /\ \E order \in SetToSeqs(ToSet(batch[s])) : Hands(s, order)
    /\ rows' = rows \cup {Key[d] : d \in ToSet(batch[s])}
    /\ UNCHANGED <<listener, budgetVars, toAdd, toDelete, version, itemVars,
                   handler>>

\* ContentAssociation: what the version has already is not put any further.
\* Of two items with the same content the second is always new.
Present(items, i) ==
    /\ Key[items[i]] \in toDelete
    /\ \A j \in 1 .. i - 1 : Key[items[j]] # Key[items[i]]
Associate(s) ==
    /\ Kinds[s] = "associate"
    /\ Alive(s) /\ mode[s] = "handle"
    /\ LET items == batch[s]
           new == {i \in DOMAIN items : ~Present(items, i)}
       IN /\ toAdd' = {Key[items[i]] : i \in new}
          /\ toDelete' = toDelete \ {Key[d] : d \in ToSet(items)}
          /\ \E order \in SetToSeqs(new) :
                /\ \A i, j \in DOMAIN order : i < j => order[i] < order[j]
                /\ out' = [out EXCEPT ![s] = [i \in DOMAIN order |-> items[order[i]]]]
          /\ mode' = [mode EXCEPT ![s] = IF new # {} THEN "put" ELSE AfterPut(s)]
    /\ batch' = [batch EXCEPT ![s] = <<>>]
    /\ UNCHANGED <<pos, queue, held, noBlock, shutdown, thaw, listener, rows,
                   version, budgetVars, itemVars, downloadVars, outcome>>

AddContent(s) ==
    /\ Alive(s) /\ mode[s] = "add"
    /\ version' = version \cup toAdd
    /\ toAdd' = {}
    /\ mode' = [mode EXCEPT ![s] = IF shutdown[s] THEN "tail" ELSE "wait"]
    /\ UNCHANGED <<pos, queue, out, batchVars, budgetVars, rows, toDelete,
                   itemVars, downloadVars, outcome>>

RemoveContent(s) ==
    /\ Alive(s) /\ mode[s] = "tail"
    /\ version' = IF Mirror THEN version \ toDelete ELSE version
    /\ mode' = [mode EXCEPT ![s] = "finish"]
    /\ UNCHANGED <<pos, queue, out, batchVars, budgetVars, rows, toAdd, toDelete,
                   itemVars, downloadVars, outcome>>

-----------------------------------------------------------------------------
(* The stages that read items() one by one.                                *)

ResolveFuture(s) ==
    /\ Alive(s) /\ Kinds[s] = "resolve" /\ mode[s] = "wait" /\ queue[s] # <<>>
    /\ LET d == Head(queue[s]) IN
       IF d = End
       THEN mode' = [mode EXCEPT ![s] = "finish"] /\ UNCHANGED <<out, future>>
       ELSE /\ future' = [future EXCEPT ![d] = "resolved"]
            /\ out' = [out EXCEPT ![s] = <<d>>]
            /\ mode' = [mode EXCEPT ![s] = "put"]
    /\ queue' = [queue EXCEPT ![s] = Tail(@)]
    /\ UNCHANGED <<pos, batchVars, budgetVars, dbVars, artifact, downloadVars,
                   outcome>>

\* EndStage drops what comes and puts no end marker.
Drain(s) ==
    /\ Alive(s) /\ Kinds[s] = "end" /\ queue[s] # <<>>
    /\ queue' = [queue EXCEPT ![s] = Tail(@)]
    /\ mode' = [mode EXCEPT ![s] = IF Head(queue[s]) = End THEN "done" ELSE @]
    /\ UNCHANGED <<pos, out, batchVars, budgetVars, dbVars, itemVars,
                   downloadVars, outcome>>

-----------------------------------------------------------------------------
(* ArtifactDownloader: a task for each item.  The tasks of a downloader    *)
(* that failed are not cancelled.                                          *)

Working(s) == /\ Kinds[s] = "download" /\ outcome \in {"running", "failing"}
              /\ mode[s] \in {"wait", "failed"}

GetNext(s) ==
    /\ Alive(s) /\ Kinds[s] = "download" /\ getting /\ queue[s] # <<>>
    /\ LET d == Head(queue[s]) IN
       IF d = End
       THEN /\ getting' = FALSE /\ UNCHANGED handler
            /\ shutdown' = [shutdown EXCEPT ![s] = TRUE]
       ELSE /\ handler' = [handler EXCEPT ![d] = "try"]
            /\ getting' = (Cardinality(Pending) + 1 < MaxConcurrent)
            /\ UNCHANGED shutdown
    /\ queue' = [queue EXCEPT ![s] = Tail(@)]
    /\ UNCHANGED <<pos, mode, out, held, batch, noBlock, thaw, listener,
                   budgetVars, dbVars, itemVars, outcome>>

\* Nothing to download: the item is handed on, and takes no budget.
SkipDownload(s, d) ==
    /\ Working(s) /\ handler[d] = "try" /\ artifact[d] # "wanted"
    /\ handler' = [handler EXCEPT ![d] = "put"]
    /\ UNCHANGED <<flowVars, batchVars, budgetVars, dbVars, itemVars, getting,
                   outcome>>

\* ArtifactResourceBudget.acquire(): one item is always allowed.
\* A mutation: only the items are counted.
AffordableByCount(d) == used = 0 \/ used < MaxItems
Affordable(d) ==
    \/ used = 0
    \/ bytes + Advertised[d] <= MaxBytes /\ used < MaxItems

Acquire(s, d) ==
    /\ Working(s) /\ handler[d] = "try" /\ artifact[d] = "wanted"
    /\ Affordable(d)
    /\ used' = used + 1
    /\ bytes' = bytes + Advertised[d]
    /\ acquired' = acquired \cup {d}
    /\ handler' = [handler EXCEPT ![d] = "load"]
    /\ UNCHANGED <<flowVars, batchVars, flush, dbVars, itemVars, getting, outcome>>

\* The budget is used up: the saver is asked to flush its batch.
AwaitBudget(s, d) ==
    /\ Working(s) /\ handler[d] = "try" /\ artifact[d] = "wanted"
    /\ ~Affordable(d)
    /\ handler' = [handler EXCEPT ![d] = "blocked"]
    /\ flush' = TRUE
    /\ listener' = IF listener = "armed" THEN "fired" ELSE listener
    /\ UNCHANGED <<flowVars, held, batch, noBlock, shutdown, thaw, used, bytes,
                   acquired, dbVars, itemVars, getting, outcome>>

Downloaded(s, d) ==
    /\ Working(s) /\ handler[d] = "load"
    /\ handler' = [handler EXCEPT ![d] = "put"]
    /\ artifact' = [artifact EXCEPT ![d] = "file"]
    /\ UNCHANGED <<flowVars, batchVars, budgetVars, dbVars, future, getting,
                   outcome>>

\* The task of an item ends; the next item is asked for unless too many are left.
PutDownloaded(s, d) ==
    /\ Working(s) /\ handler[d] = "put" /\ HasRoom(s + 1)
    /\ queue' = [queue EXCEPT ![s + 1] = Append(@, d)]
    /\ handler' = [handler EXCEPT ![d] = "done"]
    /\ getting' = \/ getting
                  \/ ~shutdown[s] /\ Cardinality(Pending) - 1 < MaxConcurrent
    /\ UNCHANGED <<pos, mode, out, batchVars, budgetVars, dbVars, itemVars, outcome>>

\* `while pending`
NothingPending(s) == shutdown[s] /\ ~getting /\ Pending = {}

DownloaderEnds(s) ==
    /\ Alive(s) /\ Kinds[s] = "download" /\ mode[s] = "wait"
    /\ NothingPending(s)
    /\ mode' = [mode EXCEPT ![s] = "finish"]
    /\ UNCHANGED <<pos, queue, out, batchVars, budgetVars, dbVars, itemVars,
                   downloadVars, outcome>>

-----------------------------------------------------------------------------
(* Failures, and the end of create_pipeline().                             *)

\* The budget an item gives back when its task is ended by an exception.
GiveBack(ds, tasks) ==
    LET back == {d \in ds \cap acquired : Advertised[d] # 0} IN
    IF back = {} THEN handler' = tasks /\ UNCHANGED budgetVars
    ELSE Release(Cardinality(back), SumOf(Advertised, back), back, tasks)

\* All mirrors of an artifact failed: so does the stage.
DownloadFails(s, d) ==
    /\ Working(s) /\ handler[d] = "load" /\ d \in MayFail
    /\ GiveBack({d}, [handler EXCEPT ![d] = "stopped"])
    /\ mode' = [mode EXCEPT ![s] = "failed"]
    /\ outcome' = "failing"
    /\ UNCHANGED <<pos, queue, out, batchVars, dbVars, itemVars, getting>>

\* The database refuses a batch.
StageFails(s) ==
    /\ Alive(s) /\ mode[s] = "handle" /\ Kinds[s] \in MayBreak
    /\ mode' = [mode EXCEPT ![s] = "failed"]
    /\ outcome' = "failing"
    /\ UNCHANGED <<pos, queue, out, batchVars, budgetVars, dbVars, itemVars,
                   downloadVars>>

\* create_pipeline() cancels a stage; the downloader cancels its tasks.
Cancel(s) ==
    /\ outcome = "failing" /\ mode[s] \notin Ended
    /\ mode' = [mode EXCEPT ![s] = "cancelled"]
    /\ IF Kinds[s] = "download"
       THEN GiveBack(Pending, [d \in Items |-> IF d \in Pending THEN "stopped"
                                               ELSE handler[d]])
       ELSE UNCHANGED <<handler, budgetVars>>
    /\ UNCHANGED <<pos, queue, out, batchVars, dbVars, itemVars, getting, outcome>>

\* The exception leaves new_version(): the version is deleted.
PipelineFails ==
    /\ outcome = "failing" /\ \A s \in Stages : mode[s] \in Ended
    /\ outcome' = "error"
    /\ version' = {} /\ toAdd' = {}
    /\ UNCHANGED <<flowVars, batchVars, budgetVars, rows, toDelete, itemVars,
                   downloadVars>>

PipelineSucceeds ==
    /\ outcome = "running" /\ \A s \in Stages : mode[s] = "done"
    /\ outcome' = "ok"
    /\ UNCHANGED <<flowVars, batchVars, budgetVars, dbVars, itemVars,
                   downloadVars>>

\* A sync of another repository saves a content unit.
OtherSaves ==
    /\ outcome = "running"
    /\ \E k \in Others \ rows : rows' = rows \cup {k}
    /\ UNCHANGED <<flowVars, batchVars, budgetVars, toAdd, toDelete, version,
                   itemVars, downloadVars, outcome>>

-----------------------------------------------------------------------------
Flow ==
    \/ FirstPut \/ Resolution \/ FirstResumes
    \/ \E s \in Stages \ {Len(Kinds)} : Put(s) \/ Finish(s)
    \/ \E s \in Batching : \/ Listen(s) \/ ArmFlush(s) \/ Collect(s)
                           \/ QueryArtifacts(s) \/ SaveArtifacts(s)
                           \/ HandOver(s) \/ SaveContent(s)
                           \/ Associate(s) \/ AddContent(s) \/ RemoveContent(s)
    \/ \E s \in Stages : ResolveFuture(s) \/ Drain(s)

Downloads ==
    LET s == Downloader IN
    \/ GetNext(s) \/ DownloaderEnds(s)
    \/ \E d \in Items : \/ SkipDownload(s, d) \/ Acquire(s, d) \/ AwaitBudget(s, d)
                        \/ Downloaded(s, d) \/ PutDownloaded(s, d)

Failures ==
    \/ \E d \in Items : DownloadFails(Downloader, d)
    \/ \E s \in Stages : StageFails(s)

Closing == (\E s \in Stages : Cancel(s)) \/ PipelineFails \/ PipelineSucceeds

Next == Flow \/ Downloads \/ Closing \/ Failures \/ OtherSaves

Spec == Init /\ [][Next]_vars /\ WF_vars(Flow \/ Downloads \/ Closing)

-----------------------------------------------------------------------------
Sent == {d \in Items : \E i \in 1 .. pos - 1 : Script[i] = <<"put", d>>}

\* The places of the pipeline where an item is.
Within(name, f, d) ==
    UNION {{<<name, s, i>> : i \in {j \in DOMAIN f[s] : f[s][j] = d}} : s \in Stages}
Places(d) ==
    Within("queue", queue, d) \cup Within("batch", batch, d) \cup Within("out", out, d)
    \cup {<<"held", s, 1>> : s \in {r \in Stages : held[r] = d}}
    \cup {<<"task", Downloader, 1>> : t \in {d} \cap Pending}
Copies(d) == Cardinality(Places(d))

(* Neither the listeners of batches(), nor the end of a stage, nor the      *)
(* downloader's tasks lose an item or hand it on twice: an item that the    *)
(* first stage has sent is in one place of the pipeline, and it leaves it   *)
(* only when its content is saved and in the new version.                   *)
NothingLost ==
    outcome = "running" =>
        \A d \in Sent : \/ Copies(d) = 1 /\ (future[d] = "resolved" => Key[d] \in rows)
                        \/ Copies(d) = 0 /\ Key[d] \in version \cup toAdd

(* A sync that succeeds leaves the version with the content of the items,   *)
(* of those that share their content too, and with what was there before    *)
(* unless it mirrors the remote; one that fails leaves no version.          *)
VersionIsRight ==
    /\ outcome = "ok" =>
           version = {Key[d] : d \in Items} \cup (IF Mirror THEN {} ELSE Old)
    /\ outcome = "error" => version = {}

(* Of the artifacts downloaded and not saved there are at most as many as   *)
(* the budget allows, and one more for each item that went to the saver     *)
(* without having taken a share: the saver gives back a share for those     *)
(* too.  Their bytes stay within the budget, but for a single artifact that *)
(* exceeds it, until an item gives back more bytes than it took.            *)
Unpaid == {d \in Sent : (d \in Stored \/ d \notin Needs) /\ artifact[d] # "wanted"}
Underpaid == {d \in Sent : artifact[d] = "saved" /\ Size[d] > Advertised[d]}
BudgetHolds ==
    /\ Cardinality(acquired) <= MaxItems + Cardinality(Unpaid)
    /\ Unpaid \cup Underpaid = {} =>
           Cardinality(acquired) <= 1 \/ SumOf(Advertised, acquired) <= MaxBytes

(* The pipeline ends, whatever fails and however the first stage waits for  *)
(* the items it has sent: no stage waits for a batch to fill while what     *)
(* would fill it waits for that stage.                                      *)
PipelineEnds == <>(outcome \in {"ok", "error"})
=============================================================================
