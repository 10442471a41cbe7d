----------------------------- MODULE ContentCache -----------------------------
(***************************************************************************)
(* The cache of the content app (cache/cache.py, content/handler.py) and   *)
(* its invalidation by the API and the tasks.                              *)
(*                                                                         *)
(* Redis has a hash for every base path of a distribution: the responses   *)
(* by request path, and a flag that says whether there is a content guard  *)
(* (here there is none).  The hash has an expiry, which every response     *)
(* that is added extends; a response has its own.  A request reads Redis   *)
(* and the database in several steps; whoever changes what a distribution  *)
(* serves deletes the hash before or after he does.                        *)
(*                                                                         *)
(* What a distribution serves is a number: 0 at the start, one more with   *)
(* every change.  Time passes in ticks.                                    *)
(***************************************************************************)
EXTENDS Integers, Sequences, FiniteSets, FiniteSetsExt

CONSTANTS
    BasePaths,    \* base paths a distribution may have
    Paths,        \* request paths
    Tree,         \* [Paths -> Seq(BasePaths)]: _base_paths(), the longest first
    Requests,     \* handlers of the content app
    Kinds,        \* the kinds of changes
    TTL,          \* EXPIRES_TTL, 0 for None
    MaxHandling,  \* bound: ticks from the handler's read to the set() of it
    MaxChanges,   \* bound: the changes there are
    NoPath        \* no base path

ASSUME CacheAssumption ==
    /\ Tree \in [Paths -> Seq(BasePaths)]
    /\ NoPath \notin BasePaths
    /\ {TTL, MaxHandling, MaxChanges} \subseteq Nat

VARIABLES
    base,     \* base_path of the distribution, NoPath when it is deleted
    current,  \* what it serves
    since,    \* [0 .. MaxChanges -> Nat]: ticks since that is not current
    entry,    \* [BasePaths -> [Paths -> cached response]]
    flag,     \* DISTRO#GUARD#PRESENT in the hash of a base path
    expiry,   \* ticks until the hash of a base path expires, -1 for never
    req,      \* the requests
    change,   \* the change under way
    silent    \* history: what is current by changes nobody invalidates after

vars == <<base, current, since, entry, flag, expiry, req, change, silent>>

None == [v |-> -1, left |-> 0, late |-> FALSE]
Idle == [pc |-> "idle", stale |-> 0]
Quiet == "none"
Horizon == TTL + MaxHandling + 1

Init ==
    /\ base \in BasePaths
    /\ current = 0
    /\ since = [v \in 0 .. MaxChanges |-> 0]
    /\ entry = [b \in BasePaths |-> [p \in Paths |-> None]]
    /\ flag = [b \in BasePaths |-> FALSE]
    /\ expiry = [b \in BasePaths |-> -1]
    /\ req = [q \in Requests |-> Idle]
    /\ change = Quiet
    /\ silent = {}

(***************************************************************************)
(* Redis                                                                   *)
(***************************************************************************)
Cached(b) == {p \in Paths : entry[b][p] # None}
HashExists(b) == flag[b] \/ Cached(b) # {}

\* A mutation: only the flag of the guard is deleted.
ForgetFlag(b) ==
    /\ flag' = [x \in BasePaths |-> x # b /\ flag[x]]
    /\ UNCHANGED <<entry, expiry, req>>

\* Cache().delete(base_key=...): the whole hash.  What a request has read
\* before and sets afterwards is late.
Forget(b) ==
    /\ entry' = [x \in BasePaths |-> IF x = b THEN [p \in Paths |-> None]
                                     ELSE entry[x]]
    /\ flag' = [x \in BasePaths |-> x # b /\ flag[x]]
    /\ expiry' = [x \in BasePaths |-> IF x = b THEN -1 ELSE expiry[x]]
    /\ req' = [q \in Requests |->
         IF req[q].pc = "fill" /\ req[q].bk = b
         THEN [req[q] EXCEPT !.late = TRUE] ELSE req[q]]

(***************************************************************************)
(* A request: AsyncContentCache.__call__()                                 *)
(***************************************************************************)
Ends(q) == req' = [req EXCEPT ![q] = Idle]

\* _match_distribution(): the distribution has a base path of the URL.
Matches(p) == \E i \in 1 .. Len(Tree[p]) : Tree[p][i] = base

\* exists() of a list in which the i-th base path is i times counts it i times.
Count(p) == SumSet({i \in 1 .. Len(Tree[p]) : HashExists(Tree[p][i])})

\* find_base_path_cached(): the count is used as an index.  When the hashes of
\* several base paths of the URL are there it is beyond the list: the request
\* fails with an IndexError and changes nothing.
FindBasePath(q, p) ==
    /\ req[q].pc = "idle"
    /\ \E bk \in BasePaths :
          /\ \/ Count(p) = 0 /\ Matches(p) /\ bk = base
             \/ \E i \in 1 .. Len(Tree[p]) : i = Count(p) /\ bk = Tree[p][i]
          /\ req' = [req EXCEPT ![q] =
               [pc |-> "auth", path |-> p, bk |-> bk, v |-> 0, late |-> FALSE,
                age |-> 0, stale |-> 0]]
    /\ UNCHANGED <<base, current, since, entry, flag, expiry, change, silent>>

\* auth_cached(): without the flag the distribution is looked up, and the flag
\* set, with no expiry of its own.
Authorize(q) ==
    /\ req[q].pc = "auth"
    /\ IF flag[req[q].bk] \/ Matches(req[q].path)
       THEN /\ flag' = [flag EXCEPT ![req[q].bk] = TRUE]
            /\ req' = [req EXCEPT ![q].pc = "lookup"]
       ELSE Ends(q) /\ UNCHANGED flag
    /\ UNCHANGED <<base, current, since, entry, expiry, change, silent>>

\* A mutation: a response is good as long as the hash is there.
ValidByHash(e) == e # None

\* The expires of a response; Redis extends the expiry of the hash.
Valid(e) == e # None /\ (TTL = 0 \/ e.left > 0)

\* make_response(): a hit, or what is expired is deleted
Lookup(q) ==
    LET b == req[q].bk
        p == req[q].path
        e == entry[b][p] IN
    /\ req[q].pc = "lookup"
    /\ IF Valid(e)
       THEN /\ req' = [req EXCEPT ![q] = [Idle EXCEPT !.stale = since[e.v]]]
            /\ UNCHANGED <<entry, expiry>>
       ELSE /\ req' = [req EXCEPT ![q].pc = "handle"]
            /\ entry' = [entry EXCEPT ![b][p] = None]
            /\ expiry' = IF Cached(b) \subseteq {p} /\ ~flag[b]
                         THEN [expiry EXCEPT ![b] = -1] ELSE expiry
    /\ UNCHANGED <<base, current, since, flag, change, silent>>

\* A mutation: what the handler raises is cached as well.
HandleErrors(q) ==
    /\ req[q].pc = "handle"
    /\ req' = [req EXCEPT ![q].pc = "fill",
                         ![q].v = IF Matches(req[q].path) THEN current ELSE -1]
    /\ UNCHANGED <<base, current, since, entry, flag, expiry, change, silent>>

\* make_entry(): the handler, _match_and_stream().  A 404 is raised and not
\* cached.
Handle(q) ==
    /\ req[q].pc = "handle"
    /\ IF Matches(req[q].path)
       THEN req' = [req EXCEPT ![q].pc = "fill", ![q].v = current]
       ELSE Ends(q)
    /\ UNCHANGED <<base, current, since, entry, flag, expiry, change, silent>>

\* AsyncCache.set(): hset(), then expire()
Fill(q) ==
    LET b == req[q].bk IN
    /\ req[q].pc = "fill"
    /\ entry' = [entry EXCEPT ![b][req[q].path] =
         [v |-> req[q].v, left |-> TTL, late |-> req[q].late]]
    /\ req' = [req EXCEPT ![q].pc = "expire", ![q].late = FALSE, ![q].age = 0]
    /\ UNCHANGED <<base, current, since, flag, expiry, change, silent>>

\* Redis is told to drop the whole hash at the end of the TTL of this response.
Expire(q) ==
    LET b == req[q].bk IN
    /\ req[q].pc = "expire"
    /\ expiry' = IF TTL # 0 /\ HashExists(b) THEN [expiry EXCEPT ![b] = TTL]
                 ELSE expiry
    /\ Ends(q)
    /\ UNCHANGED <<base, current, since, entry, flag, change, silent>>

\* The connection to the client, or to Redis, breaks.
RequestDies(q) ==
    /\ req[q].pc \in {"auth", "lookup", "handle", "fill"}
    /\ Ends(q)
    /\ UNCHANGED <<base, current, since, entry, flag, expiry, change, silent>>

(***************************************************************************)
(* Changes of what is served                                               *)
(***************************************************************************)
MayChange(kind) == kind \in Kinds /\ change = Quiet /\ current < MaxChanges

\* It is committed: the responses there are do not show it.
Serve(new) ==
    /\ base' = new
    /\ current' = current + 1

\* The hook of a distribution that was updated, or the end of a publication:
\* the change is committed, then the cache of the distribution invalidated.
Invalidates(kind) ==
    /\ change = kind
    /\ change' = Quiet
    /\ Forget(base)
    /\ UNCHANGED <<base, current, since, silent>>

\* The distribution gets another publication, repository or version.
UpdateDistribution ==
    /\ MayChange("update") /\ base # NoPath
    /\ Serve(base)
    /\ change' = "update"
    /\ UNCHANGED <<since, entry, flag, expiry, req, silent>>

\* It gets another base path: the hook deletes the hash of the new one.
RenameDistribution(new) ==
    /\ MayChange("rename") /\ base # NoPath /\ new # base
    /\ Serve(new)
    /\ change' = "rename"
    /\ UNCHANGED <<since, entry, flag, expiry, req, silent>>

\* A new one where none is: nothing is invalidated when it is created.
CreateDistribution(new) ==
    /\ MayChange("create") /\ base = NoPath
    /\ Serve(new)
    /\ silent' = silent \cup {<<b, current>> : b \in BasePaths}
    /\ UNCHANGED <<since, entry, flag, expiry, req, change>>

\* Publication.__exit__(): complete is saved, and the cache invalidated.
Publish ==
    /\ MayChange("publish") /\ base # NoPath
    /\ Serve(base)
    /\ change' = "publish"
    /\ UNCHANGED <<since, entry, flag, expiry, req, silent>>

\* The other order: the cache is invalidated, and what is served changes later.
Announces(kind) ==
    /\ MayChange(kind) /\ base # NoPath
    /\ Forget(base)
    /\ change' = kind
    /\ UNCHANGED <<base, current, since, silent>>

Changes(kind, new) ==
    /\ change = kind
    /\ Serve(new)
    /\ change' = Quiet
    /\ silent' = silent \cup {<<b, current>> : b \in BasePaths}
    /\ UNCHANGED <<since, entry, flag, expiry, req>>

\* Distribution.invalidate_cache() before the row is deleted
DeleteDistribution == Announces("delete") \/ Changes("delete", NoPath)

\* Publication.delete()
DeletePublication == Announces("unpublish") \/ Changes("unpublish", base)

\* Repository.new_version(), and RepositoryVersion.__exit__() that completes
\* it: a distribution that serves the repository itself has the new version.
NewVersion == Announces("version") \/ Changes("version", base)

\* reclaim_space(): afterwards the files that responses name are gone.
ReclaimSpace == Announces("reclaim") \/ Changes("reclaim", base)

(***************************************************************************)
(* Time                                                                    *)
(***************************************************************************)
Less(e) == IF e = None \/ e.left = 0 THEN e ELSE [e EXCEPT !.left = @ - 1]

\* No request takes longer than MaxHandling from its read to its set().
Tick ==
    /\ \A q \in Requests : req[q].pc = "fill" => req[q].age < MaxHandling
    /\ since' = [v \in 0 .. MaxChanges |->
         IF v < current /\ since[v] < Horizon THEN since[v] + 1 ELSE since[v]]
    /\ expiry' = [b \in BasePaths |-> IF expiry[b] > 1 THEN expiry[b] - 1 ELSE -1]
    /\ flag' = [b \in BasePaths |-> flag[b] /\ expiry[b] # 1]
    /\ entry' = [b \in BasePaths |-> [p \in Paths |->
         IF expiry[b] = 1 THEN None ELSE Less(entry[b][p])]]
    /\ req' = [q \in Requests |-> IF req[q].pc = "fill"
                                  THEN [req[q] EXCEPT !.age = @ + 1] ELSE req[q]]
    /\ UNCHANGED <<base, current, change, silent>>

Request(q) ==
    \/ \E p \in Paths : FindBasePath(q, p)
    \/ Authorize(q) \/ Lookup(q) \/ Handle(q) \/ Fill(q) \/ Expire(q)
    \/ RequestDies(q)

Change ==
    \/ UpdateDistribution \/ Publish
    \/ \E new \in BasePaths : RenameDistribution(new) \/ CreateDistribution(new)
    \/ \E kind \in {"update", "rename", "publish"} : Invalidates(kind)
    \/ DeleteDistribution \/ DeletePublication \/ NewVersion \/ ReclaimSpace

Next == (\E q \in Requests : Request(q)) \/ Change \/ Tick

Spec == Init /\ [][Next]_vars
-----------------------------------------------------------------------------
(***************************************************************************)
(* Correctness                                                             *)
(***************************************************************************)
\* TypeOK: every variable stays in its type; a response is of a state there
\* was, and a hash that is not there has no expiry.
TypeOK ==
    /\ base \in BasePaths \cup {NoPath}
    /\ current \in 0 .. MaxChanges
    /\ since \in [0 .. MaxChanges -> 0 .. Horizon]
    /\ flag \in [BasePaths -> BOOLEAN]
    /\ expiry \in [BasePaths -> -1 .. TTL]
    /\ change \in Kinds \cup {Quiet}
    /\ \A b \in BasePaths :
          /\ HashExists(b) \/ expiry[b] = -1
          /\ \A p \in Cached(b) : /\ entry[b][p].v \in 0 .. current
                                 /\ entry[b][p].left \in 0 .. TTL
    /\ \A q \in Requests : req[q].pc \in
          {"idle", "auth", "lookup", "handle", "fill", "expire"}

\* StalenessIsBounded: whatever happens between the steps of requests and
\* changes, a cached response shows what was served no longer ago than the
\* EXPIRES_TTL and the time its request took.  The expiry of the Redis hash
\* alone does not give this: every other response extends it (cache.py).
StalenessIsBounded ==
    TTL # 0 => \A q \in Requests : req[q].stale <= TTL + MaxHandling

\* InvalidationWorks: with no change under way, a cached response of the base
\* path of the distribution is up to date, unless its request was overtaken by
\* the invalidation, or it is from before a change that is invalidated before
\* it is made or not at all (the hooks of models/publication.py).
InvalidationWorks ==
    change = Quiet /\ base # NoPath =>
        \A p \in Cached(base) :
            LET e == entry[base][p] IN
            \/ e.v = current \/ e.late
            \/ \E v \in e.v .. current - 1 : <<base, v>> \in silent
=============================================================================
