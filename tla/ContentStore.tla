----------------------------- MODULE ContentStore -----------------------------
(***************************************************************************)
(* Artifacts, their files, and the content units that refer to them: the   *)
(* content app that saves what it streams, syncs that save what they down- *)
(* load, the orphan cleanup, the reclaim of disk space and the repair.     *)
(*                                                                         *)
(* A transaction of the database is an action at the point where it com-   *)
(* mits, preceded by actions for what it reads before.  Foreign keys are   *)
(* deferred: they are checked by the commit.  An inserted row that is not  *)
(* committed makes others who insert the same key wait.  Files are not     *)
(* transactional: a file is moved into place before its row is inserted    *)
(* and removed after the deletion of its row is committed.                 *)
(*                                                                         *)
(* A content unit has one artifact and a type that reclaim_space() may     *)
(* touch.  Timestamps do not protect anything (ORPHAN_PROTECTION_TIME = 0).*)
(***************************************************************************)
EXTENDS Naturals, FiniteSets

CONSTANTS
    Digests,     \* sha256 of artifacts
    Contents,    \* natural keys of content units
    DigestOf,    \* [Contents -> Digests]
    Repos,
    Uploaded,    \* content there was from the start, with no remote
    Requests,    \* handlers of the content app
    Syncs,       \* sync tasks
    Cleanup,     \* the orphan_cleanup task (its resource is exclusive)
    Reclaim,     \* a reclaim_space task
    NoDigest,    \* no artifact
    MaxRows,     \* bound: the rows an artifact may have, one after the other
    MaxStarts,   \* bound: the tasks and requests there are
    MaxRot       \* bound: how many files rot

ASSUME StoreAssumption ==
    /\ DigestOf \in [Contents -> Digests]
    /\ Uploaded \subseteq Contents
    /\ Requests \cap Syncs = {} /\ Cleanup # Reclaim
    /\ NoDigest \notin Digests
    /\ MaxRows \in Nat \ {0} /\ {MaxRot, MaxStarts} \subseteq Nat

Savers == Requests \cup Syncs
Deleters == {Cleanup, Reclaim}

VARIABLES
    row,      \* the primary key of the Artifact row of a digest, 0 for none
    born,     \* the rows a digest has had, rolled back ones included
    file,     \* the file of a digest in the artifact storage
    content,  \* the Content rows
    held,     \* ContentArtifact.artifact, 0 for null
    remote,   \* content that has a RemoteArtifact
    member,   \* [Repos -> SUBSET Contents]: RepositoryContent
    saver,    \* requests and syncs: where they are
    deleter,  \* cleanup and reclaim: where they are
    repair,   \* the repair task: what it does about each ContentArtifact
    rot,      \* how many files have rotten
    started,  \* how many tasks and requests there were
    raced,    \* history: digests whose file an earlier row's deletion removed
    givenUp,  \* history: digests whose file the repair removed
    leaked,   \* history: files that something that failed has left behind
    excused   \* history: content somebody agreed to lose

store == <<row, born, file, content, held, remote, member>>
history == <<raced, givenUp, leaked, excused>>
vars == <<store, saver, deleter, repair, rot, started, history>>

Idle == [pc |-> "idle"]
Resting == [pc |-> "idle", todo |-> {}, victim |-> <<NoDigest, 0>>]

Init ==
    /\ row = [d \in Digests |-> IF \E c \in Uploaded : DigestOf[c] = d
                                THEN 1 ELSE 0]
    /\ born = row
    /\ file = [d \in Digests |-> IF row[d] = 1 THEN "good" ELSE "none"]
    /\ content = Uploaded
    /\ held = [c \in Contents |-> IF c \in Uploaded THEN 1 ELSE 0]
    /\ remote = {}
    /\ member \in [Repos -> {Uploaded}]
    /\ saver = [s \in Savers |-> Idle]
    /\ deleter = [t \in Deleters |-> Resting]
    /\ repair = [c \in Contents |-> "none"]
    /\ rot = 0 /\ started = 0
    /\ raced = {} /\ givenUp = {} /\ leaked = {} /\ excused = {}

Start == started < MaxStarts /\ started' = started + 1

(***************************************************************************)
(* What is in the database                                                 *)
(***************************************************************************)
RowOf(c) == row[DigestOf[c]]

\* A mutation: the foreign key has no constraint in the database.
ExistsUnchecked(c, pk) == TRUE

\* The foreign key of a ContentArtifact that gets the artifact pk.
Exists(c, pk) == pk = 0 \/ RowOf(c) = pk

References(d, pk) == {c \in content : DigestOf[c] = d /\ held[c] = pk}

InVersion == UNION {member[r] : r \in Repos}

\* Content.objects.orphaned()
Orphans == content \ InVersion

(***************************************************************************)
(* Saving an artifact: Artifact.save() in the content app, bulk_get_or_    *)
(* create() in a sync.  "again" is the second attempt: of save() in the    *)
(* content app, of save() one by one in a sync.                            *)
(***************************************************************************)
Goto(s, pc) == saver' = [saver EXCEPT ![s].pc = pc]

\* s goes on as if the file of its digest were there.
CountsOnFile(s) ==
    \/ saver[s].pc = "insert"
    \/ saver[s].pc = "place" /\ s \in Syncs /\ saver[s].again
    \/ saver[s].pc = "attach" /\ saver[s].own

MayHavePlaced(s) ==
    \/ CountsOnFile(s)
    \/ saver[s].pc = "get"
    \/ saver[s].pc = "place" /\ saver[s].again

\* The transaction is rolled back, the file stays.
Abort(s) ==
    LET d == DigestOf[saver[s].c] IN
    /\ saver' = [saver EXCEPT ![s] = Idle]
    /\ leaked' = IF MayHavePlaced(s) /\ file[d] # "none" /\ row[d] = 0
                 THEN leaked \cup {d} ELSE leaked

Download(s, c, repo) ==
    saver' = [saver EXCEPT ![s] = [pc |-> "place", c |-> c, repo |-> repo,
                                   pk |-> 0, temp |-> TRUE, again |-> FALSE]]

\* ArtifactFileField.pre_save() and FileSystem._save(): the temporary file is
\* moved, unless there is a file.  The second save() of a sync finds the name
\* of the file in place already and looks no further.
PlaceFile(s) ==
    LET d == DigestOf[saver[s].c]
        placed == s \in Syncs /\ saver[s].again IN
    /\ saver[s].pc = "place"
    /\ IF ~placed /\ ~saver[s].temp
       THEN /\ Abort(s)    \* the temporary file is gone: FileNotFoundError
            /\ UNCHANGED <<file, raced, givenUp>>
       ELSE IF ~placed /\ file[d] = "none"
       THEN /\ file' = [file EXCEPT ![d] = "good"]
            /\ saver' = [saver EXCEPT ![s].pc = "insert", ![s].temp = FALSE]
            /\ raced' = raced \ {d} /\ givenUp' = givenUp \ {d}
            /\ UNCHANGED leaked
       ELSE /\ Goto(s, "insert")
            /\ UNCHANGED <<file, raced, givenUp, leaked>>
    /\ UNCHANGED <<row, born, content, held, remote, member, deleter, repair,
                   rot, started, excused>>

\* Somebody's INSERT of the same sha256 is not committed yet.
Uncommitted(d) == \E s \in Requests :
    saver[s].pc = "attach" /\ saver[s].own /\ DigestOf[saver[s].c] = d

\* The INSERT.  A sync commits it, the content app goes on in its transaction.
Insert(s) ==
    LET d == DigestOf[saver[s].c]
        pk == born[d] + 1 IN
    /\ saver[s].pc = "insert" /\ row[d] = 0 /\ ~Uncommitted(d)
    /\ pk <= MaxRows
    /\ born' = [born EXCEPT ![d] = pk]
    /\ row' = IF s \in Syncs THEN [row EXCEPT ![d] = pk] ELSE row
    /\ saver' = [saver EXCEPT ![s] = [pc |-> "attach", c |-> saver[s].c,
                                      repo |-> saver[s].repo, pk |-> pk,
                                      own |-> s \in Requests]]
    /\ leaked' = leaked \ {d}
    /\ UNCHANGED <<file, content, held, remote, member, deleter, repair, rot,
                   started, raced, givenUp, excused>>

\* IntegrityError: a sync tries once more, the content app looks it up.  The
\* IntegrityError of its own second attempt is nobody's to catch.
InsertFails(s) ==
    /\ saver[s].pc = "insert" /\ RowOf(saver[s].c) # 0
    /\ ~Uncommitted(DigestOf[saver[s].c])
    /\ CASE s \in Syncs /\ ~saver[s].again ->
              /\ saver' = [saver EXCEPT ![s].pc = "place", ![s].again = TRUE]
              /\ UNCHANGED leaked
         [] s \in Requests /\ saver[s].again -> Abort(s)
         [] OTHER -> Goto(s, "get") /\ UNCHANGED leaked
    /\ UNCHANGED <<store, deleter, repair, rot, started, raced, givenUp, excused>>

\* Artifact.objects.get(): the content app then unlinks the temporary file,
\* which fails when pre_save() has moved it.
GetArtifact(s) ==
    LET pk == RowOf(saver[s].c) IN
    /\ saver[s].pc = "get" /\ pk # 0
    /\ IF s \in Requests /\ ~saver[s].temp
       THEN Abort(s)
       ELSE /\ saver' = [saver EXCEPT ![s] =
                           [pc |-> "attach", c |-> saver[s].c,
                            repo |-> saver[s].repo, pk |-> pk, own |-> FALSE]]
            /\ UNCHANGED leaked
    /\ UNCHANGED <<store, deleter, repair, rot, started, raced, givenUp, excused>>

\* It was deleted in between: the content app saves the artifact once more.
ArtifactIsGone(s) ==
    /\ saver[s].pc = "get" /\ RowOf(saver[s].c) = 0
    /\ IF s \in Syncs THEN Abort(s)
       ELSE /\ saver' = [saver EXCEPT ![s].pc = "place", ![s].again = TRUE]
            /\ UNCHANGED leaked
    /\ UNCHANGED <<store, deleter, repair, rot, started, raced, givenUp, excused>>

(***************************************************************************)
(* The content app: a request for content whose artifact is not saved      *)
(***************************************************************************)
\* _stream_content_artifact() for on-demand content, _match_and_stream() for
\* pull-through content nobody has requested before.
Request(s, c) ==
    /\ saver[s] = Idle
    /\ \/ c \in content /\ held[c] = 0 /\ c \in remote
       \/ c \notin content
    /\ saver' = [saver EXCEPT ![s] =
         [pc |-> "place", c |-> c, pk |-> 0, temp |-> TRUE, again |-> FALSE,
          repo |-> IF c \in content THEN "known" ELSE "adding"]]
    /\ Start
    /\ UNCHANGED <<store, deleter, repair, rot, history>>

\* The rest of _save_artifact() and its commit: the row of the artifact, and
\* the ContentArtifact that points to it.  On-demand content that is gone
\* makes save() insert a ContentArtifact without its content.
Attach(s) ==
    LET c == saver[s].c
        pk == saver[s].pk
        adding == saver[s].repo = "adding"
        fills == ~adding \/ held[c] = 0
        committed == IF saver[s].own THEN [row EXCEPT ![DigestOf[c]] = pk]
                     ELSE row IN
    /\ s \in Requests /\ saver[s].pc = "attach"
    /\ IF /\ fills => committed[DigestOf[c]] = pk
          /\ saver[s].repo # "gone"
       THEN /\ row' = committed
            /\ content' = content \cup {c}
            /\ held' = IF fills THEN [held EXCEPT ![c] = pk] ELSE held
            /\ remote' = IF adding THEN remote \cup {c} ELSE remote
            /\ excused' = IF c \in content THEN excused ELSE excused \ {c}
            /\ saver' = [saver EXCEPT ![s] = Idle]
            /\ UNCHANGED leaked
       ELSE Abort(s) /\ UNCHANGED <<row, content, held, remote, excused>>
    /\ UNCHANGED <<born, file, member, deleter, repair, rot, started, raced, givenUp>>

(***************************************************************************)
(* A sync of one content unit into a repository                            *)
(***************************************************************************)
\* policy immediate: QueryExistingArtifacts, else ArtifactDownloader
SyncImmediate(s, c, r) ==
    /\ s \in Syncs /\ saver[s] = Idle
    /\ IF RowOf(c) # 0
       THEN saver' = [saver EXCEPT ![s] =
              [pc |-> "attach", c |-> c, repo |-> r, pk |-> RowOf(c),
               own |-> FALSE]]
       ELSE Download(s, c, r)
    /\ Start
    /\ UNCHANGED <<store, deleter, repair, rot, history>>

\* policy on_demand: nothing to download, ContentSaver comes first
SyncOnDemand(s, c, r) ==
    /\ s \in Syncs /\ saver[s] = Idle
    /\ saver' = [saver EXCEPT ![s] =
         [pc |-> "attach", c |-> c, repo |-> r, pk |-> 0, own |-> FALSE]]
    /\ Start
    /\ UNCHANGED <<store, deleter, repair, rot, history>>

\* ContentSaver: the content and its ContentArtifact, or only the artifact
\* that a ContentArtifact lacks.
SaveContent(s) ==
    LET c == saver[s].c
        pk == saver[s].pk
        fills == c \notin content \/ (pk # 0 /\ held[c] = 0) IN
    /\ s \in Syncs /\ saver[s].pc = "attach"
    /\ IF fills => Exists(c, pk)
       THEN /\ content' = content \cup {c}
            /\ held' = IF fills THEN [held EXCEPT ![c] = pk] ELSE held
            /\ excused' = IF c \in content THEN excused ELSE excused \ {c}
            /\ Goto(s, "remote")
            /\ UNCHANGED leaked
       ELSE Abort(s) /\ UNCHANGED <<content, held, excused>>
    /\ UNCHANGED <<row, born, file, remote, member, deleter, repair, rot, started,
                   raced, givenUp>>

\* A mutation: a RemoteArtifact for content that may be gone.
SaveRemoteBlindly(s) ==
    /\ saver[s].pc = "remote"
    /\ remote' = remote \cup {saver[s].c} /\ Goto(s, "add")
    /\ UNCHANGED <<row, born, file, content, held, member, deleter, repair,
                   rot, started, history>>

\* RemoteArtifactSaver finds no ContentArtifact of content that is gone.
SaveRemote(s) ==
    /\ saver[s].pc = "remote"
    /\ IF saver[s].repo # "gone"
       THEN remote' = remote \cup {saver[s].c} /\ Goto(s, "add")
       ELSE saver' = [saver EXCEPT ![s] = Idle] /\ UNCHANGED remote
    /\ UNCHANGED <<row, born, file, content, held, member, deleter, repair,
                   rot, started, history>>

\* ContentAssociation and RepositoryVersion.add_content(): content that is
\* gone is not among what it looks up, or fails its foreign key.
AddContent(s) ==
    LET repo == saver[s].repo IN
    /\ saver[s].pc = "add"
    /\ member' = IF repo = "gone" THEN member
                 ELSE [member EXCEPT ![repo] = @ \cup {saver[s].c}]
    /\ saver' = [saver EXCEPT ![s] = Idle]
    /\ UNCHANGED <<row, born, file, content, held, remote, deleter, repair,
                   rot, started, history>>

\* A repository is deleted: its RepositoryContent goes with it.
DropRepository(r) ==
    /\ member[r] # {}
    /\ \A s \in Syncs : saver[s] # Idle => saver[s].repo # r
    /\ member' = [member EXCEPT ![r] = {}]
    /\ UNCHANGED <<row, born, file, content, held, remote, saver, deleter,
                   repair, rot, started, history>>

\* The remote of some content is deleted.  What has no artifact then, or
\* what a reclaim has already looked at, cannot be had again.
DropRemote(c) ==
    /\ c \in remote
    /\ remote' = remote \ {c}
    /\ excused' = IF held[c] = 0 \/ (/\ deleter[Reclaim].pc = "forget"
                                     /\ c \in deleter[Reclaim].todo)
                  THEN excused \cup {c} ELSE excused
    /\ UNCHANGED <<row, born, file, content, held, member, saver, deleter,
                   repair, rot, started, raced, givenUp, leaked>>

(***************************************************************************)
(* Deleting an artifact: Artifact.delete() of an instance read earlier     *)
(***************************************************************************)
Step(t, pc) == deleter' = [deleter EXCEPT ![t].pc = pc]

\* A mutation: the file goes with the delete(), not with its commit.
DeleteArtifactAtOnce(t, a) ==
    /\ deleter[t].pc = "artifacts" /\ a \in deleter[t].todo
    /\ References(a[1], a[2]) = {}
    /\ deleter' = [deleter EXCEPT ![t].todo = @ \ {a}, ![t].pc = "commit",
                                  ![t].victim = a]
    /\ file' = [file EXCEPT ![a[1]] = "none"]
    /\ UNCHANGED <<row, born, content, held, remote, member, saver, repair,
                   rot, started, history>>

\* The collector looks for ContentArtifacts: ProtectedError skips the artifact.
DeleteArtifact(t, a) ==
    /\ deleter[t].pc = "artifacts" /\ a \in deleter[t].todo
    /\ deleter' = [deleter EXCEPT
         ![t].todo = @ \ {a},
         ![t].pc = IF References(a[1], a[2]) = {} THEN "commit" ELSE "artifacts",
         ![t].victim = IF References(a[1], a[2]) = {} THEN a ELSE @]
    /\ UNCHANGED <<store, saver, repair, rot, started, history>>

\* The DELETE and its commit.  A ContentArtifact that came meanwhile makes it
\* fail with an IntegrityError, which ends the task; a row that is gone does
\* not.
CommitDelete(t) ==
    LET d == deleter[t].victim[1]
        pk == deleter[t].victim[2] IN
    /\ deleter[t].pc = "commit"
    /\ IF References(d, pk) # {}
       THEN /\ deleter' = [deleter EXCEPT ![t] = Resting]
            /\ UNCHANGED row
       ELSE /\ row' = IF row[d] = pk THEN [row EXCEPT ![d] = 0] ELSE row
            /\ Step(t, "unlink")
    /\ UNCHANGED <<born, file, content, held, remote, member, saver, repair,
                   rot, started, history>>

\* The digest has a row, or somebody who is about to insert one.
ReliedOn(d) ==
    \/ row[d] # 0
    \/ \E s \in Savers : saver[s] # Idle /\ CountsOnFile(s)
                         /\ DigestOf[saver[s].c] = d

\* A mutation: there is no on_commit hook.
RemoveNothing(t) ==
    /\ deleter[t].pc = "unlink"
    /\ deleter' = [deleter EXCEPT ![t].pc = "artifacts",
                                  ![t].victim = <<NoDigest, 0>>]
    /\ UNCHANGED <<store, saver, repair, rot, started, history>>

\* on_commit: the file goes, whatever there is about its digest by now.
RemoveFile(t) ==
    LET d == deleter[t].victim[1] IN
    /\ deleter[t].pc = "unlink"
    /\ file' = [file EXCEPT ![d] = "none"]
    /\ raced' = IF ReliedOn(d) THEN raced \cup {d} ELSE raced
    /\ leaked' = leaked \ {d}
    /\ deleter' = [deleter EXCEPT ![t].pc = "artifacts",
                                  ![t].victim = <<NoDigest, 0>>]
    /\ UNCHANGED <<row, born, content, held, remote, member, saver, repair,
                   rot, started, givenUp, excused>>

DeletionEnds(t) ==
    /\ deleter[t].pc = "artifacts" /\ deleter[t].todo = {}
    /\ deleter' = [deleter EXCEPT ![t] = Resting]
    /\ UNCHANGED <<store, saver, repair, rot, started, history>>

(***************************************************************************)
(* orphan_cleanup()                                                        *)
(***************************************************************************)
\* Content.objects.orphaned() and the query of the first batch
CleanupStarts ==
    /\ deleter[Cleanup] = Resting
    /\ deleter' = [deleter EXCEPT ![Cleanup] =
         [pc |-> "protect", todo |-> Orphans, victim |-> <<NoDigest, 0>>,
          remotes |-> {}]]
    /\ Start
    /\ UNCHANGED <<store, saver, repair, rot, history>>

\* The collector: content that is in a version by now is protected, so that
\* the whole batch is deleted unit by unit.  Here the unit is what is left of
\* the batch without the protected ones.
ProtectContent ==
    /\ deleter[Cleanup].pc = "protect"
    /\ LET free == deleter[Cleanup].todo \cap Orphans IN
       deleter' = [deleter EXCEPT ![Cleanup].pc = "content",
                                  ![Cleanup].todo = free,
                                  ![Cleanup].remotes = remote \cap free]
    /\ UNCHANGED <<store, saver, repair, rot, started, history>>

\* A mutation: on_delete=CASCADE for the content of a version.
CommitContentCascading ==
    LET gone == deleter[Cleanup].todo IN
    /\ deleter[Cleanup].pc = "content"
    /\ content' = content \ gone
    /\ held' = [c \in Contents |-> IF c \in gone THEN 0 ELSE held[c]]
    /\ remote' = remote \ gone /\ excused' = excused \ gone
    /\ member' = [r \in Repos |-> member[r] \ gone]
    /\ deleter' = [deleter EXCEPT ![Cleanup] =
         [pc |-> "select", todo |-> {}, victim |-> <<NoDigest, 0>>]]
    /\ UNCHANGED <<row, born, file, saver, repair, rot, started, raced, givenUp,
                   leaked>>

\* Who knows the primary key of the row of some content.
Knows(s) ==
    \/ s \in Requests /\ saver[s] # Idle /\ saver[s].repo = "known"
    \/ s \in Syncs /\ saver[s].pc \in {"remote", "add"}

\* The same content may be saved again, but with another primary key.
Forgotten(gone) ==
    saver' = [s \in Savers |-> IF Knows(s) /\ saver[s].c \in gone
                               THEN [saver[s] EXCEPT !.repo = "gone"]
                               ELSE saver[s]]

\* The DELETE of the content, its ContentArtifacts and their RemoteArtifacts,
\* and the commit: it fails for content that has been added to a version or
\* got a RemoteArtifact since the collector looked.  Then the artifacts
\* without a ContentArtifact are selected.
CommitContent ==
    LET gone == deleter[Cleanup].todo IN
    /\ deleter[Cleanup].pc = "content"
    /\ IF gone \cap InVersion # {} \/ (remote \cap gone) \ deleter[Cleanup].remotes # {}
       THEN /\ deleter' = [deleter EXCEPT ![Cleanup] = Resting]
            /\ UNCHANGED <<content, held, remote, excused, member, saver>>
       ELSE /\ content' = content \ gone
            /\ held' = [c \in Contents |-> IF c \in gone THEN 0 ELSE held[c]]
            /\ remote' = remote \ gone
            /\ excused' = excused \ gone
            /\ deleter' = [deleter EXCEPT
                 ![Cleanup] = [pc |-> "select", todo |-> {},
                               victim |-> <<NoDigest, 0>>],
                 ![Reclaim].todo = IF deleter[Reclaim].pc = "forget"
                                   THEN @ \ gone ELSE @]
            /\ Forgotten(gone)
            /\ UNCHANGED member
    /\ UNCHANGED <<row, born, file, repair, rot, started, raced, givenUp, leaked>>

\* Artifact.objects.orphaned()
SelectArtifacts ==
    /\ deleter[Cleanup].pc = "select"
    /\ deleter' = [deleter EXCEPT ![Cleanup].pc = "artifacts",
         ![Cleanup].todo = {<<d, row[d]>> : d \in
             {e \in Digests : row[e] # 0 /\ References(e, row[e]) = {}}}]
    /\ UNCHANGED <<store, saver, repair, rot, started, history>>

(***************************************************************************)
(* reclaim_space()                                                         *)
(***************************************************************************)
\* A mutation: uploaded content is taken into account without force.
ReclaimableUploads(repos, keep, force) ==
    {c \in UNION {member[r] : r \in repos} \ keep : held[c] # 0}

\* What c_reclaim_qs and ca_qs select.  The content of other repositories is
\* excluded only if it is a PublishedMetadata too.
Reclaimable(repos, keep, force) ==
    {c \in UNION {member[r] : r \in repos} \ keep :
        held[c] # 0 /\ (force \/ c \in remote)}

ReclaimStarts(repos, keep, force) ==
    LET cas == Reclaimable(repos, keep, force) IN
    /\ deleter[Reclaim] = Resting
    /\ cas # {}
    /\ deleter' = [deleter EXCEPT ![Reclaim] =
         [pc |-> "forget", todo |-> cas, victim |-> <<NoDigest, 0>>,
          arts |-> {<<DigestOf[c], held[c]>> : c \in cas}, force |-> force]]
    /\ Start
    /\ UNCHANGED <<store, saver, repair, rot, history>>

\* bulk_update(artifact=None), then the artifacts that are still there
ForgetArtifacts ==
    LET cas == deleter[Reclaim].todo IN
    /\ deleter[Reclaim].pc = "forget"
    /\ held' = [c \in Contents |-> IF c \in cas THEN 0 ELSE held[c]]
    /\ excused' = IF deleter[Reclaim].force
                  THEN excused \cup (cas \cap content) ELSE excused
    /\ deleter' = [deleter EXCEPT ![Reclaim] =
         [pc |-> "artifacts", victim |-> <<NoDigest, 0>>,
          todo |-> {a \in deleter[Reclaim].arts : row[a[1]] = a[2]}]]
    /\ UNCHANGED <<row, born, file, content, remote, member, saver, repair,
                   rot, started, raced, givenUp, leaked>>

(***************************************************************************)
(* repair_version() and repair_all_artifacts()                             *)
(***************************************************************************)
Repairing == \E c \in Contents : repair[c] # "none"

\* Something outside Pulp damages a file.
Rot(d) ==
    /\ rot < MaxRot /\ file[d] = "good"
    /\ rot' = rot + 1
    /\ file' = [file EXCEPT ![d] = "bad"]
    /\ UNCHANGED <<row, born, content, held, remote, member, saver, deleter,
                   repair, started, history>>

RepairStarts ==
    /\ ~Repairing
    /\ \E d \in Digests : row[d] # 0 /\ file[d] # "good"
    /\ repair' = [c \in Contents |-> IF held[c] # 0 THEN "check" ELSE "none"]
    /\ Start
    /\ UNCHANGED <<store, saver, deleter, rot, history>>

\* storage.exists() and _verify_artifact(): what is not valid gets a task
VerifyArtifact(c) ==
    /\ repair[c] = "check"
    /\ repair' = [repair EXCEPT ![c] = IF file[DigestOf[c]] = "good" THEN "none"
                                       ELSE "repair"]
    /\ UNCHANGED <<store, saver, deleter, rot, started, history>>

\* _repair_ca() with a remote whose download has the right digest: the file is
\* removed, to be written anew.
Refetch(c) ==
    /\ repair[c] = "repair" /\ c \in remote
    /\ file' = [file EXCEPT ![DigestOf[c]] = "none"]
    /\ repair' = [repair EXCEPT ![c] = "write"]
    /\ UNCHANGED <<row, born, content, held, remote, member, saver, deleter,
                   rot, started, history>>

Rewrite(c) ==
    LET d == DigestOf[c] IN
    /\ repair[c] = "write"
    /\ file' = [file EXCEPT ![d] = IF @ = "none" THEN "good" ELSE @]
    /\ repair' = [repair EXCEPT ![c] = "none"]
    /\ leaked' = IF row[d] = 0 THEN leaked \cup {d} ELSE leaked
    /\ givenUp' = givenUp \ {d} /\ raced' = raced \ {d}
    /\ UNCHANGED <<row, born, content, held, remote, member, saver, deleter,
                   rot, started, excused>>

\* No remote, or none that has the right data: the file is removed.
GiveUp(c) ==
    LET d == DigestOf[c] IN
    /\ repair[c] = "repair"
    /\ file' = [file EXCEPT ![d] = "none"]
    /\ repair' = [repair EXCEPT ![c] = "none"]
    /\ givenUp' = givenUp \cup {d}
    /\ UNCHANGED <<row, born, content, held, remote, member, saver, deleter,
                   rot, started, raced, leaked, excused>>

(***************************************************************************)
(* A process dies: its transaction is rolled back, its files stay.         *)
(***************************************************************************)
SaverDies(s) ==
    /\ saver[s] # Idle
    /\ Abort(s)
    /\ UNCHANGED <<store, deleter, repair, rot, started, raced, givenUp, excused>>

DeleterDies(t) ==
    LET d == deleter[t].victim[1] IN
    /\ deleter[t] # Resting
    /\ leaked' = IF deleter[t].pc = "unlink" THEN leaked \cup {d} ELSE leaked
    /\ deleter' = [deleter EXCEPT ![t] = Resting]
    /\ UNCHANGED <<store, saver, repair, rot, started, raced, givenUp, excused>>

RepairDies ==
    /\ Repairing
    /\ repair' = [c \in Contents |-> "none"]
    /\ givenUp' = givenUp \cup {DigestOf[c] : c \in
                      {x \in Contents : repair[x] = "write"}}
    /\ UNCHANGED <<store, saver, deleter, rot, started, raced, leaked, excused>>

Saving(s) ==
    \/ PlaceFile(s) \/ Insert(s) \/ InsertFails(s)
    \/ GetArtifact(s) \/ ArtifactIsGone(s)
    \/ Attach(s) \/ SaveContent(s) \/ SaveRemote(s) \/ AddContent(s)
    \/ SaverDies(s)

Starting ==
    \/ \E s \in Requests, c \in Contents : Request(s, c)
    \/ \E s \in Syncs, c \in Contents, r \in Repos :
          SyncImmediate(s, c, r) \/ SyncOnDemand(s, c, r)
    \/ \E repos \in (SUBSET Repos) \ {{}}, keep \in SUBSET content,
          force \in BOOLEAN : ReclaimStarts(repos, keep, force)

Deleting(t) ==
    \/ \E a \in Digests \X (1 .. MaxRows) : DeleteArtifact(t, a)
    \/ CommitDelete(t) \/ RemoveFile(t) \/ DeletionEnds(t) \/ DeleterDies(t)

CleaningUp == CleanupStarts \/ ProtectContent \/ CommitContent \/ SelectArtifacts

Repair == \/ RepairStarts \/ RepairDies
          \/ \E c \in Contents : VerifyArtifact(c) \/ Refetch(c) \/ Rewrite(c)
                                \/ GiveUp(c)

Dropping == \E r \in Repos : DropRepository(r)

Next ==
    \/ Starting
    \/ \E s \in Savers : Saving(s)
    \/ \E t \in Deleters : Deleting(t)
    \/ CleaningUp \/ ForgetArtifacts \/ Repair \/ Dropping
    \/ \E c \in Contents : DropRemote(c)
    \/ \E d \in Digests : Rot(d)

Spec == Init /\ [][Next]_vars

-----------------------------------------------------------------------------
(***************************************************************************)
(* Correctness                                                             *)
(***************************************************************************)
\* TypeOK: every variable stays in its type; a row is one that was born.
TypeOK ==
    /\ born \in [Digests -> 0 .. MaxRows]
    /\ \A d \in Digests : row[d] \in 0 .. born[d]
    /\ file \in [Digests -> {"none", "good", "bad"}]
    /\ content \subseteq Contents /\ remote \subseteq content
    /\ held \in [Contents -> 0 .. MaxRows]
    /\ \A r \in Repos : member[r] \subseteq Contents
    /\ repair \in [Contents -> {"none", "check", "repair", "write"}]
    /\ \A s \in Savers : saver[s].pc \in {"idle", "place", "insert", "get",
                                          "attach", "remote", "add"}
    /\ \A t \in Deleters : deleter[t].pc \in
          {"idle", "protect", "content", "select", "artifacts", "commit",
           "unlink", "forget"}
    /\ rot \in 0 .. MaxRot /\ started \in 0 .. MaxStarts
    /\ raced \cup givenUp \cup leaked \subseteq Digests
    /\ excused \subseteq Contents

\* NothingDangles: what the content app and the publishers follow leads
\* somewhere, whatever cleanup and reclaim delete while content is saved: the
\* content of a version has a row, and the artifact it names is the one there
\* is now, not one that has been deleted and made anew (tasks/orphan.py,
\* tasks/reclaim_space.py, the on_delete=PROTECT of models/content.py).
NothingDangles ==
    /\ InVersion \subseteq content
    /\ \A c \in content : held[c] \in {0, RowOf(c)}

\* OnlyRepositoriesRemove: a version loses content with its repository only.
\* An orphan cleanup that selected the content before a sync added it does not
\* take it out again (on_delete=PROTECT of RepositoryContent.content).
OnlyRepositoriesRemove ==
    [][Dropping \/ \A r \in Repos : member[r] \subseteq member'[r]]_vars

\* FilesBehindRows: an artifact has its file, unless the deletion of an
\* earlier artifact of the same digest removed it from under its successor,
\* or the repair found no way to get it back (Artifact.delete() removes the
\* file on_commit, so that a deletion that fails leaves it).
FilesBehindRows ==
    \A d \in Digests : row[d] # 0 /\ file[d] = "none" =>
        \/ d \in raced \cup givenUp
        \/ \E c \in Contents : repair[c] = "write" /\ DigestOf[c] = d

\* SavedHasFile: the same without the exception for a pending deletion.  "It's
\* a content addressable store so if the file is already in place we can do
\* nothing" (models/storage.py): the file that is in place may be the one that
\* the on_commit hook of a committed deletion is about to remove.
SavedHasFile ==
    \A d \in Digests : row[d] # 0 /\ file[d] = "none" =>
        \/ d \in givenUp
        \/ \E c \in Contents : repair[c] = "write" /\ DigestOf[c] = d

\* NothingLost: content of a version has an artifact or a remote to get it
\* from, unless a reclaim was forced or its remote was deleted; a reclaim that
\* is not forced never takes what was uploaded (tasks/reclaim_space.py).
NothingLost == \A c \in InVersion \ excused : held[c] # 0 \/ c \in remote

\* SpaceComesBack: a file in the artifact storage has a row, or somebody at
\* work on it, unless a transaction that placed it failed, or a process died
\* between a commit and its on_commit hook: nothing else ever removes it.
SpaceComesBack ==
    \A d \in Digests : file[d] # "none" /\ row[d] = 0 =>
        \/ d \in leaked
        \/ \E s \in Savers : saver[s] # Idle /\ MayHavePlaced(s)
                           /\ DigestOf[saver[s].c] = d
        \/ \E t \in Deleters : deleter[t].pc = "unlink" /\ deleter[t].victim[1] = d
=============================================================================
