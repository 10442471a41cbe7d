-------------------------- MODULE RepositoryVersions --------------------------
(***************************************************************************)
(* The versions of one repository (app/models/repository.py).  A version   *)
(* is not stored as a set: rows of RepositoryContent say which versions    *)
(* added and removed a content unit, deleting a version squashes its rows  *)
(* into the next one, and content_ids memoizes the set beside.             *)
(*                                                                         *)
(* All tasks that write lock the repository exclusively (see Tasking), so  *)
(* there is one writer; it may fail at any statement or be killed between  *)
(* two transactions, and distributions change all the while.               *)
(***************************************************************************)
EXTENDS Integers, FiniteSets

CONSTANTS
    Contents,     \* the content units
    MaxNumber,    \* bound: the greatest version number
    Retain        \* retain_repo_versions; 0: keep all

ASSUME VersionAssumption ==
    /\ MaxNumber \in Nat
    /\ Retain \in Nat

Numbers == 0..MaxNumber
Never   == MaxNumber + 1  \* version_removed IS NULL
NoVersion == -1

VARIABLES
    complete,     \* the numbers of the complete versions
    open,         \* the number of the incomplete version
    rows,         \* the RepositoryContent rows
    contentIds,   \* number -> RepositoryVersion.content_ids
    nextVersion,  \* Repository.next_version
    served,       \* versions set on a distribution, or their publication
    following,    \* a distribution is set on the repository, and so serves
                  \* whatever version is the latest
    pc,           \* where the writer is
    written,      \* the version that the writer holds
    expired       \* the versions that cleanup_old_versions() has yet to delete

dbVars == <<complete, open, rows, contentIds, nextVersion>>
distVars == <<served, following>>
vars == <<dbVars, distVars, pc, written, expired>>

Row == [content : Contents, added : Numbers, removed : Numbers \cup {Never}]

TypeOK ==
    /\ complete \subseteq Numbers
    /\ open \in Numbers \cup {NoVersion}
    /\ rows \subseteq Row
    /\ contentIds \in [Numbers -> SUBSET Contents]
    /\ nextVersion \in 1..(MaxNumber + 1)
    /\ served \subseteq Numbers
    /\ following \in BOOLEAN
    /\ pc \in {"idle", "writing", "plan", "prune", "notify"}
    /\ written \in Numbers \cup {NoVersion}
    /\ pc = "idle" <=> written = NoVersion
    /\ expired \subseteq Numbers
    /\ expired # {} => pc = "prune"

(* Repository.save() creates version 0.                                    *)
Init ==
    /\ complete = {0}
    /\ open = NoVersion
    /\ rows = {}
    /\ contentIds = [v \in Numbers |-> {}]
    /\ nextVersion = 1
    /\ served = {}
    /\ following = FALSE
    /\ pc = "idle"
    /\ written = NoVersion
    /\ expired = {}

-----------------------------------------------------------------------------
Greatest(S) == CHOOSE v \in S : \A u \in S : u <= v
Least(S) == CHOOSE v \in S : \A u \in S : v <= u

Latest == Greatest(complete)
Earlier(v) == {u \in complete : u < v}
Later(v) == {u \in complete : u > v}

(* _content_relationships()                                                *)
Relations(R, v) == {r \in R : r.added <= v /\ v < r.removed}
Content(v) == {r.content : r \in Relations(rows, v)}

Added(v) == {r.content : r \in {r \in rows : r.added = v}}
Removed(v) == {r.content : r \in {r \in rows : r.removed = v}}

(* Mutant: only the versions named by a distribution are protected.        *)
ProtectedServed == served

(* protected_versions()                                                    *)
Protected == served \cup (IF following THEN {Latest} ELSE {})

-----------------------------------------------------------------------------
(***************************************************************************)
(* The statements, as functions from rows to rows.                         *)
(***************************************************************************)
SetRemoved(R, S, v) ==
    {[r EXCEPT !.removed = v] : r \in R \cap S} \cup (R \ S)

(* Mutant: what was removed in this version is added by another row.       *)
AddTwice(R, v, S) ==
    R \cup {[content |-> c, added |-> v, removed |-> Never] : c \in S}

(* add_content(): adding again what this version has removed undoes that.  *)
Add(R, v, S) ==
    LET readded == {r \in R : r.removed = v /\ r.content \in S}
    IN  SetRemoved(R, readded, Never)
        \cup {[content |-> c, added |-> v, removed |-> Never] :
                 c \in S \ {r.content : r \in readded}}

(* Mutant: what was added in this version is removed by its row.           *)
RemoveAlways(R, v, S) ==
    SetRemoved(R, {r \in R : r.removed = Never /\ r.content \in S}, v)

(* remove_content(): removing what this version has added undoes that.     *)
Remove(R, v, S) ==
    LET present == {r \in R : r.removed = Never /\ r.content \in S}
        kept == R \ {r \in present : r.added = v}
    IN  SetRemoved(kept, present, v)

(* Mutant: rows are moved without looking at those of the next version.    *)
MoveOnly(R, v, n) ==
    LET moved == [r \in R |-> [r EXCEPT !.added = IF @ = v THEN n ELSE @,
                                        !.removed = IF @ = v THEN n ELSE @]]
    IN  {moved[r] : r \in R}

(* _squash(): what v added and n removed never was, what v removed and n   *)
(* added again always was; all else moves on to n.                         *)
Squash(R, v, n) ==
    LET kept == {r \in R : ~(r.added = v /\ r.removed = n)}
        readding(r) == {s \in kept : s.added = n /\ s.content = r.content}
        dropped == {s \in kept : /\ s.added = n
                                 /\ \E r \in kept : /\ r.removed = v
                                                    /\ r.content = s.content}
        joined(r) ==
            IF r.removed = v /\ readding(r) # {}
            THEN [r EXCEPT !.removed = (CHOOSE s \in readding(r) : TRUE).removed]
            ELSE r
    IN  MoveOnly({joined(r) : r \in kept \ dropped}, v, n)

(* What delete() does to the rows if there is no version to squash into.   *)
Forget(R, v) ==
    LET kept == {r \in R : r.added # v}
    IN  SetRemoved(kept, {r \in kept : r.removed = v}, Never)

-----------------------------------------------------------------------------
(***************************************************************************)
(* Deleting versions.                                                      *)
(***************************************************************************)
DeleteComplete(v) ==
    /\ rows' = IF Later(v) # {} THEN Squash(rows, v, Least(Later(v)))
                                ELSE Forget(rows, v)
    /\ complete' = complete \ {v}
    /\ UNCHANGED <<open, contentIds, nextVersion, distVars>>

(* Mutant: the last version may be deleted as well.                        *)
DeletableAlways(v) == v \in complete /\ v \notin Protected

(* Otherwise delete() raises, and the transaction is rolled back.          *)
Deletable(v) ==
    /\ v \in complete
    /\ Cardinality(complete) > 1
    /\ v \notin Protected

DeleteOpen ==
    /\ rows' = Forget(rows, open)
    /\ open' = NoVersion
    /\ UNCHANGED <<complete, contentIds, nextVersion>>

(* Mutant: the writer still holds its version.                             *)
DoneHolding == pc' = "idle" /\ expired' = {} /\ UNCHANGED written

Done == pc' = "idle" /\ written' = NoVersion /\ expired' = {}

(* The task that a user dispatches to delete a version.                    *)
DeleteVersion(v) ==
    /\ pc = "idle"
    /\ Deletable(v)
    /\ DeleteComplete(v)
    /\ UNCHANGED <<pc, written, expired>>

(* delete_incomplete_resources() of the worker that finds a dead task; it  *)
(* is not certain to come, nor to find the version.                        *)
DeleteIncomplete ==
    /\ pc = "idle"
    /\ open # NoVersion
    /\ DeleteOpen
    /\ UNCHANGED <<distVars, pc, written, expired>>

-----------------------------------------------------------------------------
(***************************************************************************)
(* Writing a version: new_version() and the context manager.               *)
(***************************************************************************)
(* Mutant: the leftover of a failed task is not deleted.                   *)
NewVersionOver(base) ==
    LET v == nextVersion IN
    /\ pc = "idle"
    /\ v \in Numbers
    /\ rows' = rows
    /\ contentIds' = [contentIds EXCEPT ![v] = contentIds[Latest]]
    /\ open' = v
    /\ written' = v
    /\ pc' = "writing"
    /\ UNCHANGED <<complete, nextVersion, distVars, expired>>

(* What a former task left behind is deleted, and its number used again.   *)
NewVersion(base) ==
    LET v == nextVersion
        clean == IF open = NoVersion THEN rows ELSE Forget(rows, open)
        wanted == IF base = NoVersion THEN contentIds[Latest]
                                      ELSE contentIds[base]
        removed == Remove(clean, v, contentIds[Latest] \ wanted)
    IN
    /\ pc = "idle"
    /\ v \in Numbers
    /\ base \in complete \cup {NoVersion}
    /\ rows' = Add(removed, v, wanted \ contentIds[Latest])
    /\ contentIds' = [contentIds EXCEPT ![v] = wanted]
    /\ open' = v
    /\ written' = v
    /\ pc' = "writing"
    /\ UNCHANGED <<complete, nextVersion, distVars, expired>>

AddContent(S) ==
    LET new == S \ contentIds[written] IN
    /\ pc = "writing"
    /\ rows' = Add(rows, written, new)
    /\ contentIds' = [contentIds EXCEPT ![written] = @ \cup new]
    /\ UNCHANGED <<complete, open, nextVersion, distVars, pc, written, expired>>

RemoveContent(S) ==
    /\ pc = "writing"
    /\ rows' = Remove(rows, written, S)
    /\ contentIds' = [contentIds EXCEPT ![written] = @ \ S]
    /\ UNCHANGED <<complete, open, nextVersion, distVars, pc, written, expired>>

(* The body raised an exception, or nothing has changed.                   *)
Abandon ==
    /\ pc = "writing"
    /\ DeleteOpen
    /\ Done
    /\ UNCHANGED distVars

Publish ==
    /\ pc = "writing"
    /\ Added(written) # {} \/ Removed(written) # {}
    /\ complete' = complete \cup {written}
    /\ open' = NoVersion
    /\ nextVersion' = written + 1
    /\ pc' = "plan"
    /\ UNCHANGED <<rows, contentIds, distVars, written, expired>>

(* The transaction that publishes fails.  The version in memory says that  *)
(* it is complete, so delete() minds the number of complete versions.      *)
PublishFails ==
    /\ pc = "writing"
    /\ Added(written) # {} \/ Removed(written) # {}
    /\ IF Cardinality(complete) > 1 THEN DeleteOpen ELSE UNCHANGED dbVars
    /\ Done
    /\ UNCHANGED distVars

-----------------------------------------------------------------------------
(***************************************************************************)
(* What __exit__() does behind the publication: the retention policy, then *)
(* on_new_version().  Any exception deletes the new version, if it may be. *)
(***************************************************************************)
GiveUp ==
    /\ IF Deletable(written) THEN DeleteComplete(written)
                             ELSE UNCHANGED <<dbVars, distVars>>
    /\ Done

(* Mutant: one version less is kept.                                       *)
PlanOneMore ==
    LET free == complete \ Protected IN
    /\ pc = "plan"
    /\ pc' = "prune"
    /\ expired' = IF Retain = 0 THEN {}
                  ELSE {v \in free : Cardinality({u \in free : u > v}) >= Retain - 1}
    /\ UNCHANGED <<dbVars, distVars, written>>

(* All but the greatest Retain of those that are not protected.            *)
Plan ==
    LET free == complete \ Protected IN
    /\ pc = "plan"
    /\ pc' = "prune"
    /\ expired' = IF Retain = 0 THEN {}
                  ELSE {v \in free : Cardinality({u \in free : u > v}) >= Retain}
    /\ UNCHANGED <<dbVars, distVars, written>>

Prune ==
    LET v == Greatest(expired) IN
    /\ pc = "prune"
    /\ expired # {}
    /\ IF Deletable(v)
       THEN /\ DeleteComplete(v)
            /\ expired' = expired \ {v}
            /\ UNCHANGED <<pc, written>>
       ELSE GiveUp

Pruned ==
    /\ pc = "prune"
    /\ expired = {}
    /\ pc' = "notify"
    /\ UNCHANGED <<dbVars, distVars, written, expired>>

OnNewVersion ==
    /\ pc = "notify"
    /\ \/ UNCHANGED <<dbVars, distVars>> /\ Done
       \/ GiveUp

(* The process of the task is killed.                                      *)
Crash ==
    /\ pc # "idle"
    /\ Done
    /\ UNCHANGED <<dbVars, distVars>>

(* Distributions are updated without the lock of the repository.           *)
Serve(v) ==
    /\ served' = served \cup {v}
    /\ UNCHANGED <<dbVars, following, pc, written, expired>>

Unserve(v) ==
    /\ served' = served \ {v}
    /\ UNCHANGED <<dbVars, following, pc, written, expired>>

(* A distribution is set on the repository, or the last of them taken off. *)
Follow ==
    /\ following' = ~following
    /\ UNCHANGED <<dbVars, served, pc, written, expired>>

-----------------------------------------------------------------------------
Write == \/ \E base \in complete \cup {NoVersion} : NewVersion(base)
         \/ \E S \in SUBSET Contents : AddContent(S) \/ RemoveContent(S)
         \/ Abandon \/ Publish \/ PublishFails

Finish == Plan \/ Prune \/ Pruned \/ OnNewVersion

Delete == DeleteIncomplete \/ \E v \in complete : DeleteVersion(v)

Distribute == Follow \/ \E v \in complete : Serve(v) \/ Unserve(v)

Next == Write \/ Finish \/ Delete \/ Crash \/ Distribute

Spec == Init /\ [][Next]_vars

-----------------------------------------------------------------------------
(***************************************************************************)
(* Safety.                                                                 *)
(***************************************************************************)
(* What the next new_version() finds: what a dead task left is no version. *)
Orphaned == open # NoVersion /\ pc # "writing"
Settled == IF Orphaned THEN Forget(rows, open) ELSE rows

Versions == complete \cup (IF pc = "writing" THEN {written} ELSE {})

(* The assertion of _compute_counts(): the memoized content_ids of each    *)
(* version are what the rows say, whatever versions were deleted around it.*)
MemoMatchesRows == \A v \in Versions : contentIds[v] = Content(v)

(* The unique constraints and the foreign keys of RepositoryContent; and   *)
(* no content unit is in a version twice.                                  *)
RowsAreNormal ==
    /\ \A r \in Settled :
           r.added \in Versions /\ r.removed \in Versions \cup {Never}
    /\ \A r \in Settled : r.added < r.removed
    /\ \A r, s \in Settled : r # s /\ r.content = s.content
                             => r.removed < s.added \/ s.removed < r.added

(* What added() and removed() report is the difference to the version      *)
(* before, however many versions between the two have been deleted.        *)
ChangesAreDifferences ==
    \A v \in complete :
        LET before == IF Earlier(v) = {} THEN {}
                      ELSE Content(Greatest(Earlier(v)))
        IN  /\ Added(v) = Content(v) \ before
            /\ Removed(v) = before \ Content(v)

(* The retention policy never takes the version just published: it is the  *)
(* newest one until on_new_version() has returned.                         *)
NewestSurvives == pc \in {"plan", "prune", "notify"} => written = Latest

(* While a distribution serves the latest version, nothing takes its       *)
(* clients back to an older one: neither a user who deletes versions, nor  *)
(* the retention policy, nor a task that fails after it has published.     *)
NeverRollsBack == [][following => Latest' >= Latest]_vars

-----------------------------------------------------------------------------
(* "This ensures that the content set for each version stays the same"     *)
(* (delete_version()): every operation, failure and crash is a step of a   *)
(* history of immutable sets, or invisible there.                          *)
History == INSTANCE VersionHistory
           WITH history <- [v \in complete |-> Content(v)],
                last <- nextVersion - 1

ImplementsHistory == History!Spec
=============================================================================
