------------------------- MODULE ContentStoreProofs -------------------------
(***************************************************************************)
(* What TLAPS proves of artifacts, their files and the content that refers *)
(* to them, for any digests, content units and repositories, any number of *)
(* requests and syncs, and any number of tasks, failures and deaths.       *)
(***************************************************************************)
EXTENDS ContentStore, TLAPS

\* The states of those who save, and of those who delete.
Places == Repos \cup {"known", "adding", "gone"}

Placing == [pc : {"place", "insert", "get"}, c : Contents, repo : Places,
            pk : {0}, temp : BOOLEAN, again : BOOLEAN]

Attaching == [pc : {"attach", "remote", "add"}, c : Contents, repo : Places,
              pk : 0 .. MaxRows, own : BOOLEAN]

NoVictim == <<NoDigest, 0>>

Protecting == [pc : {"protect", "content"}, todo : SUBSET Contents,
               victim : {NoVictim}, remotes : SUBSET Contents]

Forgetting == [pc : {"forget"}, todo : SUBSET Contents, victim : {NoVictim},
               arts : SUBSET (Digests \X Nat), force : BOOLEAN]

Choosing == [pc : {"idle", "select", "artifacts"},
             todo : SUBSET (Digests \X Nat), victim : {NoVictim}]

Removing == [pc : {"commit", "unlink"}, todo : SUBSET (Digests \X Nat),
             victim : Digests \X Nat]

StoreTypes ==
    /\ born \in [Digests -> 0 .. MaxRows]
    /\ row \in [Digests -> 0 .. MaxRows]
    /\ \A d \in Digests : row[d] <= born[d]
    /\ file \in [Digests -> {"none", "good", "bad"}]
    /\ content \subseteq Contents /\ remote \subseteq content
    /\ held \in [Contents -> 0 .. MaxRows]
    /\ member \in [Repos -> SUBSET Contents]

OtherTypes ==
    /\ repair \in [Contents -> {"none", "check", "repair", "write"}]
    /\ rot \in 0 .. MaxRot /\ started \in 0 .. MaxStarts
    /\ raced \cup givenUp \cup leaked \subseteq Digests
    /\ excused \subseteq Contents

SaverTypes ==
    /\ saver \in [Savers -> {Idle} \cup Placing \cup Attaching]
    /\ \A s \in Savers : saver[s].pc \in {"remote", "add"} => s \in Syncs
    /\ \A s \in Savers : saver[s].pc = "attach" =>
          /\ saver[s].pk <= born[DigestOf[saver[s].c]]
          /\ saver[s].own => s \in Requests
          /\ s \in Requests => saver[s].pk # 0

DeleterTypes ==
    /\ deleter \in [Deleters -> Protecting \cup Forgetting \cup Choosing \cup Removing]
    /\ deleter[Cleanup] \notin Forgetting
    /\ deleter[Reclaim] \notin Protecting

\* Whoever has inserted a row and not committed it is alone, and what is known
\* to have a row has it.
Owning(s) == saver[s].pc = "attach" /\ saver[s].own

Rows ==
    /\ \A s \in Savers : Owning(s) =>
          /\ row[DigestOf[saver[s].c]] = 0
          /\ \A z \in Savers : Owning(z) /\ DigestOf[saver[z].c] = DigestOf[saver[s].c]
                               => z = s
    /\ \A s \in Savers : Knows(s) /\ saver[s].repo # "gone" => saver[s].c \in content
    /\ \A c \in Contents \ content : held[c] = 0

\* A digest that has a row, or is about to, has a file, or an excuse.
Excused(d) ==
    \/ d \in raced \cup givenUp
    \/ \E c \in Contents : repair[c] = "write" /\ DigestOf[c] = d

Files == \A d \in Digests : ReliedOn(d) /\ file[d] = "none" => Excused(d)

\* What an adding sync will add, and a reclaim will take the artifact from, can
\* be had again.
Recoverable ==
    /\ \A s \in Syncs : saver[s].pc = "add" /\ saver[s].repo # "gone" =>
          saver[s].c \in excused \/ held[saver[s].c] # 0 \/ saver[s].c \in remote
    /\ deleter[Reclaim].pc = "forget" =>
          /\ deleter[Reclaim].todo \subseteq content
          /\ ~deleter[Reclaim].force => deleter[Reclaim].todo \subseteq remote \cup excused

StoreInv ==
    /\ StoreTypes /\ OtherTypes /\ SaverTypes /\ DeleterTypes
    /\ Rows /\ NothingDangles /\ Files /\ SpaceComesBack
    /\ Recoverable /\ NothingLost

-----------------------------------------------------------------------------
(***************************************************************************)
(* The records.                                                            *)
(***************************************************************************)
\* Placing the file of an artifact, one statement after the other.
LEMMA PlacingGoes ==
    ASSUME NEW r \in Placing, NEW x \in {"place", "insert", "get"}
    PROVE  LET n == [r EXCEPT !.pc = x] IN
             /\ n \in Placing /\ n.pc = x /\ n.c = r.c /\ n.repo = r.repo
             /\ n.pk = r.pk /\ n.temp = r.temp /\ n.again = r.again
BY DEF Placing

\* The temporary file is gone by then.
LEMMA PlacingMoved ==
    ASSUME NEW r \in Placing, NEW x \in {"place", "insert", "get"}
    PROVE  LET n == [[r EXCEPT !.pc = x] EXCEPT !.temp = FALSE] IN
             /\ n \in Placing /\ n.pc = x /\ n.c = r.c /\ n.repo = r.repo
             /\ n.pk = r.pk /\ n.temp = FALSE /\ n.again = r.again
<1> DEFINE m == [r EXCEPT !.pc = x]
<1>1. /\ m \in Placing /\ m.pc = x /\ m.c = r.c /\ m.repo = r.repo
      /\ m.pk = r.pk /\ m.temp = r.temp /\ m.again = r.again
  BY DEF Placing
<1> HIDE DEF m
<1> DEFINE n == [m EXCEPT !.temp = FALSE]
<1>2. /\ n \in Placing /\ n.pc = m.pc /\ n.c = m.c /\ n.repo = m.repo
      /\ n.pk = m.pk /\ n.temp = FALSE /\ n.again = m.again
  BY <1>1 DEF Placing
<1> HIDE DEF n
<1> QED
  BY <1>1, <1>2 DEF m, n

\* It is the second attempt by then.
LEMMA PlacingAgain ==
    ASSUME NEW r \in Placing, NEW x \in {"place", "insert", "get"}
    PROVE  LET n == [[r EXCEPT !.pc = x] EXCEPT !.again = TRUE] IN
             /\ n \in Placing /\ n.pc = x /\ n.c = r.c /\ n.repo = r.repo
             /\ n.pk = r.pk /\ n.temp = r.temp /\ n.again = TRUE
<1> DEFINE m == [r EXCEPT !.pc = x]
<1>1. /\ m \in Placing /\ m.pc = x /\ m.c = r.c /\ m.repo = r.repo
      /\ m.pk = r.pk /\ m.temp = r.temp /\ m.again = r.again
  BY DEF Placing
<1> HIDE DEF m
<1> DEFINE n == [m EXCEPT !.again = TRUE]
<1>2. /\ n \in Placing /\ n.pc = m.pc /\ n.c = m.c /\ n.repo = m.repo
      /\ n.pk = m.pk /\ n.temp = m.temp /\ n.again = TRUE
  BY <1>1 DEF Placing
<1> HIDE DEF n
<1> QED
  BY <1>1, <1>2 DEF m, n

\* Saving content and adding it, one statement after the other.
LEMMA AttachingMoves ==
    ASSUME NEW r \in Attaching, NEW x \in {"attach", "remote", "add"}
    PROVE  LET n == [r EXCEPT !.pc = x] IN
             /\ n \in Attaching /\ n.pc = x /\ n.c = r.c /\ n.repo = r.repo
             /\ n.pk = r.pk /\ n.own = r.own
BY DEF Attaching

\* The row of the content is gone, and that is all.
LEMMA GoneMoves ==
    ASSUME NEW r \in Placing \cup Attaching
    PROVE  LET n == [r EXCEPT !.repo = "gone"] IN
             /\ n.pc = r.pc /\ n.c = r.c /\ n.repo = "gone" /\ n.pk = r.pk
             /\ r \in Placing => /\ n \in Placing /\ n.temp = r.temp
                                 /\ n.again = r.again
             /\ r \in Attaching => n \in Attaching /\ n.own = r.own
<1>1. "gone" \in Places
  BY DEF Places
<1>2. CASE r \in Placing
  BY <1>1, <1>2 DEF Placing, Attaching
<1>3. CASE r \in Attaching
  BY <1>1, <1>3 DEF Placing, Attaching
<1> QED
  BY <1>2, <1>3

\* What is assigned to one of them leaves the others alone.
LEMMA TwoFields ==
    ASSUME NEW S, NEW T, NEW f \in [S -> T], NEW s \in S, NEW x, NEW b
    PROVE  /\ [f EXCEPT ![s].pc = x] = [f EXCEPT ![s] = [f[s] EXCEPT !.pc = x]]
           /\ [f EXCEPT ![s].pc = x, ![s].temp = b]
                = [f EXCEPT ![s] = [[f[s] EXCEPT !.pc = x] EXCEPT !.temp = b]]
           /\ [f EXCEPT ![s].pc = x, ![s].again = b]
                = [f EXCEPT ![s] = [[f[s] EXCEPT !.pc = x] EXCEPT !.again = b]]
OBVIOUS

-----------------------------------------------------------------------------
(***************************************************************************)
(* The invariant.                                                          *)
(***************************************************************************)
\* Everything is there from the start, and nobody is at work.
LEMMA StoreBegins == Init => StoreInv
<1> SUFFICES ASSUME Init PROVE StoreInv
  OBVIOUS
<1> USE StoreAssumption
<1>1. StoreTypes
  BY DEF Init, StoreTypes
<1>2. OtherTypes
  BY DEF Init, OtherTypes
<1>3. \A s \in Savers : saver[s] = Idle /\ saver[s].pc = "idle"
  BY DEF Init, Idle
<1>4. SaverTypes
  BY <1>3 DEF Init, SaverTypes
<1>5. Resting \in Choosing /\ Resting.pc = "idle" /\ Resting \notin Forgetting \cup Protecting
  BY DEF Resting, Choosing, Forgetting, Protecting, NoVictim
<1>6. Cleanup \in Deleters /\ Reclaim \in Deleters
  BY DEF Deleters
<1>7. DeleterTypes
  BY <1>5, <1>6 DEF Init, DeleterTypes
<1>8. Rows
  <2>1. \A s \in Savers : ~Knows(s)
    BY <1>3 DEF Knows
  <2> QED
    BY <1>3, <2>1 DEF Init, Rows, Owning
<1>9. NothingDangles
  <2>1. InVersion \subseteq content
    BY DEF Init, InVersion
  <2>2. \A c \in content : held[c] = 1 /\ RowOf(c) = 1
    BY DEF Init, RowOf
  <2> QED
    BY <2>1, <2>2 DEF NothingDangles
<1>10. Files
  BY <1>3 DEF Init, Files, ReliedOn
<1>11. SpaceComesBack
  BY DEF Init, SpaceComesBack
<1>12. Recoverable
  <2>1. \A s \in Syncs : saver[s].pc = "idle"
    BY <1>3 DEF Savers
  <2> QED
    BY <1>5, <1>6, <2>1 DEF Init, Recoverable
<1>13. NothingLost
  BY DEF Init, NothingLost, InVersion
<1> QED
  BY <1>1, <1>2, <1>4, <1>7, <1>8, <1>9, <1>10, <1>11, <1>12, <1>13 DEF StoreInv

\* A request or a sync goes on without a change of anything else: it must know
\* what it says it knows, and not leave a file behind unseen.
LEMMA SaverOnly ==
    ASSUME StoreInv, NEW s \in Savers, NEW r \in {Idle} \cup Placing \cup Attaching,
           saver' = [saver EXCEPT ![s] = r],
           UNCHANGED <<store, deleter, repair, rot, raced, givenUp, excused>>,
           leaked \subseteq leaked', leaked' \subseteq Digests,
           started' \in 0 .. MaxStarts,
           r.pc \in {"remote", "add"} => s \in Syncs,
           r.pc = "attach" =>
              /\ r.pk <= born[DigestOf[r.c]]
              /\ r.own => s \in Requests /\ Owning(s) /\ DigestOf[saver[s].c] = DigestOf[r.c]
              /\ s \in Requests => r.pk # 0,
           Knows(s)' /\ r.repo # "gone" => r.c \in content,
           r # Idle /\ CountsOnFile(s)' =>
              ReliedOn(DigestOf[r.c]) \/ file[DigestOf[r.c]] # "none",
           saver[s] # Idle /\ MayHavePlaced(s) =>
              LET d == DigestOf[saver[s].c] IN
              \/ r # Idle /\ MayHavePlaced(s)' /\ DigestOf[r.c] = d
              \/ file[d] = "none" \/ row[d] # 0 \/ d \in leaked',
           s \in Syncs /\ r.pc = "add" /\ r.repo # "gone" =>
              r.c \in excused \/ held[r.c] # 0 \/ r.c \in remote
    PROVE  StoreInv'
<1> USE StoreAssumption
<1>1. /\ StoreTypes /\ OtherTypes /\ SaverTypes /\ DeleterTypes
      /\ Rows /\ NothingDangles /\ Files /\ SpaceComesBack
      /\ Recoverable /\ NothingLost
  BY DEF StoreInv
<1>2. /\ saver' \in [Savers -> {Idle} \cup Placing \cup Attaching]
      /\ saver'[s] = r /\ \A z \in Savers : z # s => saver'[z] = saver[z]
  BY <1>1 DEF SaverTypes
<1>3. /\ UNCHANGED <<row, born, file, content, held, remote, member>>
      /\ UNCHANGED <<deleter, repair, rot, raced, givenUp, excused>>
  BY DEF store
<1>4. StoreTypes' /\ OtherTypes' /\ DeleterTypes'
  BY <1>1, <1>3 DEF StoreTypes, OtherTypes, DeleterTypes
<1>5. SaverTypes'
  BY <1>1, <1>2, <1>3 DEF SaverTypes
<1>6. \A z \in Savers : Owning(z)' => Owning(z) /\ DigestOf[saver'[z].c] = DigestOf[saver[z].c]
  BY <1>2 DEF Owning
<1>7. \A z \in Savers : z # s => (Knows(z)' <=> Knows(z))
  BY <1>2 DEF Knows
<1>8. Rows'
  <2>1. \A z \in Savers : Owning(z)' =>
          /\ row'[DigestOf[saver'[z].c]] = 0
          /\ \A y \in Savers : Owning(y)' /\ DigestOf[saver'[y].c] = DigestOf[saver'[z].c]
                               => y = z
    BY <1>1, <1>3, <1>6 DEF Rows
  <2>2. \A z \in Savers : Knows(z)' /\ saver'[z].repo # "gone" => saver'[z].c \in content'
    BY <1>1, <1>2, <1>3, <1>7 DEF Rows
  <2> QED
    BY <1>1, <1>3, <2>1, <2>2 DEF Rows
<1>9. NothingDangles'
  BY <1>1, <1>3 DEF NothingDangles, InVersion, RowOf
<1>10. Files'
  <2>1. \A d \in Digests : ReliedOn(d)' /\ file[d] = "none" => ReliedOn(d)
    <3> SUFFICES ASSUME NEW d \in Digests, row[d] = 0, file[d] = "none",
                        NEW z \in Savers, saver'[z] # Idle, CountsOnFile(z)',
                        DigestOf[saver'[z].c] = d
                 PROVE  ReliedOn(d)
      BY <1>3 DEF ReliedOn
    <3>1. CASE z = s
      BY <1>2, <3>1
    <3>2. CASE z # s
      BY <1>2, <3>2 DEF ReliedOn, CountsOnFile
    <3> QED
      BY <3>1, <3>2
  <2> QED
    BY <1>1, <1>3, <2>1 DEF Files, Excused
<1>11. SpaceComesBack'
  <2> SUFFICES ASSUME NEW d \in Digests, file[d] # "none", row[d] = 0,
                      d \notin leaked',
                      ~\E t \in Deleters : deleter[t].pc = "unlink"
                                          /\ deleter[t].victim[1] = d
               PROVE  \E z \in Savers : saver'[z] # Idle /\ MayHavePlaced(z)'
                                       /\ DigestOf[saver'[z].c] = d
    BY <1>3 DEF SpaceComesBack
  <2>1. PICK z \in Savers : saver[z] # Idle /\ MayHavePlaced(z)
                           /\ DigestOf[saver[z].c] = d
    BY <1>1 DEF SpaceComesBack
  <2>2. CASE z = s
    BY <1>2, <2>1, <2>2
  <2>3. CASE z # s
    BY <1>2, <2>1, <2>3 DEF MayHavePlaced, CountsOnFile
  <2> QED
    BY <2>2, <2>3
<1>12. Recoverable'
  <2>1. \A z \in Syncs : saver'[z].pc = "add" /\ saver'[z].repo # "gone" =>
          saver'[z].c \in excused \/ held[saver'[z].c] # 0 \/ saver'[z].c \in remote
    BY <1>1, <1>2 DEF Recoverable, Savers
  <2> QED
    BY <1>1, <1>3, <2>1 DEF Recoverable
<1>13. NothingLost'
  BY <1>1, <1>3 DEF NothingLost, InVersion
<1> QED
  BY <1>4, <1>5, <1>8, <1>9, <1>10, <1>11, <1>12, <1>13 DEF StoreInv

\* Where somebody is tells what the record holds.
LEMMA SaverState ==
    ASSUME SaverTypes, NEW s \in Savers
    PROVE  /\ saver[s].pc \in {"place", "insert", "get"} => saver[s] \in Placing
           /\ saver[s].pc \in {"attach", "remote", "add"} => saver[s] \in Attaching
           /\ saver[s].pc # "idle" => saver[s] # Idle
           /\ saver[s] # Idle => /\ saver[s] \in Placing \cup Attaching
                                 /\ saver[s].c \in Contents
                                 /\ DigestOf[saver[s].c] \in Digests
<1>1. saver[s] \in {Idle} \cup Placing \cup Attaching
  BY DEF SaverTypes
<1>2. Idle.pc = "idle"
  BY DEF Idle
<1>3. \A r \in Placing : r.pc \in {"place", "insert", "get"} /\ r.c \in Contents
  BY DEF Placing
<1>4. \A r \in Attaching : r.pc \in {"attach", "remote", "add"} /\ r.c \in Contents
  BY DEF Attaching
<1> QED
  BY <1>1, <1>2, <1>3, <1>4, StoreAssumption

\* Who places a file knows which content it is of.
LEMMA PlacerState ==
    ASSUME SaverTypes, NEW s \in Savers, NEW r, r = saver[s],
           r.pc \in {"place", "insert", "get"}
    PROVE  r \in Placing /\ r # Idle /\ r.c \in Contents /\ DigestOf[r.c] \in Digests
BY SaverState DEF Placing

\* Whoever fails or dies leaves at most a file behind.
LEMMA AbortStep ==
    ASSUME StoreInv, NEW s \in Savers, saver[s] # Idle, Abort(s),
           UNCHANGED <<store, deleter, repair, rot, started, raced, givenUp, excused>>
    PROVE  StoreInv'
<1> DEFINE d == DigestOf[saver[s].c]
<1>1. SaverTypes /\ OtherTypes
  BY DEF StoreInv
<1>2. d \in Digests
  BY <1>1, SaverState
<1>3. /\ saver' = [saver EXCEPT ![s] = Idle]
      /\ leaked' = IF MayHavePlaced(s) /\ file[d] # "none" /\ row[d] = 0
                   THEN leaked \cup {d} ELSE leaked
  BY DEF Abort
<1>4. Idle.pc = "idle"
  BY DEF Idle
<1>5. /\ leaked \subseteq leaked' /\ leaked' \subseteq Digests
      /\ started' \in 0 .. MaxStarts
  BY <1>1, <1>2, <1>3 DEF OtherTypes
<1>6. ~Knows(s)'
  <2>1. saver'[s] = Idle
    BY <1>1, <1>3 DEF SaverTypes
  <2> QED
    BY <1>4, <2>1 DEF Knows
<1>7. MayHavePlaced(s) => file[d] = "none" \/ row[d] # 0 \/ d \in leaked'
  BY <1>3
<1> QED
  BY <1>3, <1>4, <1>5, <1>6, <1>7, SaverOnly

\* A request begins, for content that it has looked up or for new content.
LEMMA RequestStep ==
    ASSUME StoreInv, NEW s \in Requests, NEW c \in Contents, Request(s, c)
    PROVE  StoreInv'
<1> DEFINE r == [pc |-> "place", c |-> c, pk |-> 0, temp |-> TRUE, again |-> FALSE,
                 repo |-> IF c \in content THEN "known" ELSE "adding"]
<1>1. SaverTypes /\ OtherTypes /\ s \in Savers /\ s \notin Syncs
  BY StoreAssumption DEF StoreInv, Savers
<1>2. /\ saver[s] = Idle /\ saver' = [saver EXCEPT ![s] = r]
      /\ UNCHANGED <<store, deleter, repair, rot, history>>
      /\ started' \in 0 .. MaxStarts
  BY <1>1, StoreAssumption DEF Request, Start, OtherTypes
<1>3. /\ r \in Placing /\ r.pc = "place" /\ r.c = c /\ ~r.again
      /\ r.repo = "known" => c \in content
  BY DEF Placing, Places
<1> HIDE DEF r
<1>4. saver'[s] = r
  BY <1>1, <1>2 DEF SaverTypes
<1>5. ~CountsOnFile(s)' /\ (Knows(s)' => c \in content)
  BY <1>1, <1>3, <1>4 DEF CountsOnFile, Knows
<1>6. leaked \subseteq Digests /\ leaked' = leaked
  BY <1>1, <1>2 DEF OtherTypes, history
<1>7. UNCHANGED <<raced, givenUp, excused>>
  BY <1>2 DEF history
<1> QED
  BY <1>1, <1>2, <1>3, <1>5, <1>6, <1>7, SaverOnly

\* A sync begins, with the row of an artifact, with none, or with a download.
LEMMA SyncStep ==
    ASSUME StoreInv, NEW s \in Syncs, NEW c \in Contents, NEW repo \in Repos,
           SyncImmediate(s, c, repo) \/ SyncOnDemand(s, c, repo)
    PROVE  StoreInv'
<1> DEFINE a(pk) == [pc |-> "attach", c |-> c, repo |-> repo, pk |-> pk, own |-> FALSE]
           p == [pc |-> "place", c |-> c, repo |-> repo,
                 pk |-> 0, temp |-> TRUE, again |-> FALSE]
<1>1. /\ StoreTypes /\ SaverTypes /\ OtherTypes /\ s \in Savers /\ s \notin Requests
      /\ DigestOf[c] \in Digests
  BY StoreAssumption DEF StoreInv, Savers
<1>2. /\ saver[s] = Idle /\ UNCHANGED <<store, deleter, repair, rot, history>>
      /\ started' \in 0 .. MaxStarts
  BY <1>1, StoreAssumption DEF SyncImmediate, SyncOnDemand, Start, OtherTypes
<1>3. leaked \subseteq Digests /\ leaked' = leaked /\ UNCHANGED <<raced, givenUp, excused>>
  BY <1>1, <1>2 DEF OtherTypes, history
<1>4. p \in Placing /\ p.pc = "place" /\ ~p.again
  BY DEF Placing, Places
<1>5. \A pk \in 0 .. MaxRows :
        a(pk) \in Attaching /\ a(pk).pc = "attach" /\ a(pk).c = c /\ a(pk).pk = pk /\ ~a(pk).own
  BY DEF Attaching, Places
<1>6. RowOf(c) \in 0 .. MaxRows /\ RowOf(c) <= born[DigestOf[c]] /\ 0 <= born[DigestOf[c]]
      /\ 0 \in 0 .. MaxRows
  BY <1>1, StoreAssumption DEF StoreTypes, RowOf
<1> HIDE DEF a, p
<1>7. CASE saver' = [saver EXCEPT ![s] = p]
  <2>1. saver'[s] = p
    BY <1>1, <1>7 DEF SaverTypes
  <2>2. ~CountsOnFile(s)' /\ ~Knows(s)'
    BY <1>1, <1>4, <2>1 DEF CountsOnFile, Knows
  <2> QED
    BY <1>1, <1>2, <1>3, <1>4, <1>7, <2>2, SaverOnly
<1>8. ASSUME NEW pk \in {0, RowOf(c)}, saver' = [saver EXCEPT ![s] = a(pk)]
      PROVE  StoreInv'
  <2>1. saver'[s] = a(pk)
    BY <1>1, <1>8 DEF SaverTypes
  <2>2. /\ a(pk) \in Attaching /\ a(pk).pc = "attach" /\ a(pk).c = c /\ a(pk).pk = pk
        /\ ~a(pk).own
    BY <1>5, <1>6
  <2>3. ~CountsOnFile(s)' /\ ~Knows(s)'
    BY <1>1, <2>1, <2>2 DEF CountsOnFile, Knows
  <2>4. a(pk).pk <= born[DigestOf[a(pk).c]]
    BY <1>6, <2>2
  <2> QED
    BY <1>1, <1>2, <1>3, <1>8, <2>2, <2>3, <2>4, SaverOnly
<1>9. \/ saver' = [saver EXCEPT ![s] = p]
      \/ \E pk \in {0, RowOf(c)} : saver' = [saver EXCEPT ![s] = a(pk)]
  BY DEF SyncImmediate, SyncOnDemand, Download, a, p
<1> QED
  BY <1>7, <1>8, <1>9

\* The INSERT fails: a second attempt, a look at what is there, or the end.
LEMMA InsertFailsStep ==
    ASSUME StoreInv, NEW s \in Savers, InsertFails(s)
    PROVE  StoreInv'
<1> DEFINE r == saver[s]
           x == [[r EXCEPT !.pc = "place"] EXCEPT !.again = TRUE]
           g == [r EXCEPT !.pc = "get"]
<1>1. StoreTypes /\ SaverTypes /\ OtherTypes /\ Rows
  BY DEF StoreInv
<1>2. /\ r.pc = "insert"
      /\ UNCHANGED <<store, deleter, repair, rot, started, raced, givenUp, excused>>
  BY DEF InsertFails
<1>3. r \in Placing /\ r # Idle /\ r.c \in Contents /\ DigestOf[r.c] \in Digests
  <2>1. r = saver[s] /\ r.pc \in {"place", "insert", "get"}
    BY <1>2
  <2> HIDE DEF r
  <2> QED
    BY <1>1, <2>1, PlacerState
<1>4. /\ x \in Placing /\ x.pc = "place" /\ x.c = r.c /\ x.repo = r.repo /\ x.again = TRUE
      /\ g \in Placing /\ g.pc = "get" /\ g.c = r.c /\ g.repo = r.repo
  <2> HIDE DEF r
  <2>1. x \in Placing /\ x.pc = "place" /\ x.c = r.c /\ x.repo = r.repo /\ x.again = TRUE
    BY <1>3, PlacingAgain, Zenon
  <2>2. g \in Placing /\ g.pc = "get" /\ g.c = r.c /\ g.repo = r.repo
    BY <1>3, PlacingGoes
  <2> HIDE DEF x, g
  <2> QED
    BY <2>1, <2>2, Zenon
<1>5. \/ s \in Syncs /\ saver' = [saver EXCEPT ![s] = x] /\ UNCHANGED leaked
      \/ saver' = [saver EXCEPT ![s] = g] /\ UNCHANGED leaked
      \/ Abort(s)
  <2>1. saver \in [Savers -> {Idle} \cup Placing \cup Attaching]
    BY <1>1 DEF SaverTypes
  <2>2. /\ [saver EXCEPT ![s].pc = "get"] = [saver EXCEPT ![s] = g]
        /\ [saver EXCEPT ![s].pc = "place", ![s].again = TRUE] = [saver EXCEPT ![s] = x]
    BY <2>1, TwoFields, Zenon
  <2> QED
    BY <2>2 DEF InsertFails, Goto
<1>6. ReliedOn(DigestOf[r.c])
  BY <1>2, <1>3 DEF ReliedOn, CountsOnFile
<1>7. leaked \subseteq Digests /\ started \in 0 .. MaxStarts
  BY <1>1 DEF OtherTypes
<1>8. Knows(s) /\ r.repo # "gone" => r.c \in content
  BY <1>1 DEF Rows
<1> HIDE DEF r, x, g
<1>9. CASE s \in Syncs /\ saver' = [saver EXCEPT ![s] = x] /\ UNCHANGED leaked
  <2>1. saver'[s] = x
    BY <1>1, <1>9 DEF SaverTypes
  <2>2. MayHavePlaced(s)' /\ ~Knows(s)'
    <3>1. s \notin Requests
      BY <1>9, StoreAssumption
    <3> QED
      BY <1>4, <2>1, <3>1 DEF MayHavePlaced, Knows
  <2>3. x # Idle
    BY <1>4 DEF Idle
  <2> QED
    BY <1>2, <1>4, <1>6, <1>7, <1>9, <2>2, <2>3, SaverOnly DEF r
<1>10. CASE saver' = [saver EXCEPT ![s] = g] /\ UNCHANGED leaked
  <2>1. saver'[s] = g
    BY <1>1, <1>10 DEF SaverTypes
  <2>2. MayHavePlaced(s)' /\ ~CountsOnFile(s)'
    BY <1>4, <2>1 DEF MayHavePlaced, CountsOnFile
  <2>3. g # Idle
    BY <1>4 DEF Idle
  <2>4. Knows(s)' /\ g.repo # "gone" => g.c \in content
    BY <1>3, <1>4, <1>8, <2>1 DEF Knows, r
  <2> QED
    BY <1>2, <1>4, <1>7, <1>10, <2>2, <2>3, <2>4, SaverOnly DEF r
<1>11. CASE Abort(s)
  BY <1>2, <1>3, <1>11, AbortStep DEF r
<1> QED
  BY <1>5, <1>9, <1>10, <1>11

\* The artifact that is there is looked up, and used if it can be.
LEMMA GetArtifactStep ==
    ASSUME StoreInv, NEW s \in Savers, GetArtifact(s)
    PROVE  StoreInv'
<1> DEFINE r == saver[s]
           pk == RowOf(r.c)
           a == [pc |-> "attach", c |-> r.c, repo |-> r.repo, pk |-> pk, own |-> FALSE]
<1>1. StoreTypes /\ SaverTypes /\ OtherTypes /\ Rows
  BY DEF StoreInv
<1>2. /\ r.pc = "get" /\ pk # 0
      /\ UNCHANGED <<store, deleter, repair, rot, started, raced, givenUp, excused>>
      /\ Abort(s) \/ (saver' = [saver EXCEPT ![s] = a] /\ UNCHANGED leaked)
  BY DEF GetArtifact
<1>3. /\ r \in Placing /\ r # Idle /\ r.c \in Contents /\ DigestOf[r.c] \in Digests
      /\ r.repo \in Places
  BY <1>1, <1>2, SaverState DEF Placing
<1>4. pk \in 0 .. MaxRows /\ pk <= born[DigestOf[r.c]] /\ row[DigestOf[r.c]] # 0
  BY <1>1, <1>2, <1>3 DEF StoreTypes, RowOf
<1>5. /\ a \in Attaching /\ a.pc = "attach" /\ a.c = r.c /\ a.repo = r.repo
      /\ a.pk = pk /\ ~a.own
  BY <1>3, <1>4 DEF Attaching
<1>6. leaked \subseteq Digests /\ started \in 0 .. MaxStarts
  BY <1>1 DEF OtherTypes
<1>7. Knows(s) /\ r.repo # "gone" => r.c \in content
  BY <1>1 DEF Rows
<1> HIDE DEF r, a, pk
<1>8. CASE saver' = [saver EXCEPT ![s] = a] /\ UNCHANGED leaked
  <2>1. saver'[s] = a
    BY <1>1, <1>8 DEF SaverTypes
  <2>2. ~CountsOnFile(s)'
    BY <1>5, <2>1 DEF CountsOnFile
  <2>3. Knows(s)' /\ a.repo # "gone" => a.c \in content
    BY <1>3, <1>5, <1>7, <2>1 DEF Knows, r
  <2>4. a.pk <= born[DigestOf[a.c]] /\ a.pk # 0
    BY <1>2, <1>4, <1>5
  <2> QED
    BY <1>2, <1>4, <1>5, <1>6, <1>8, <2>2, <2>3, <2>4, SaverOnly, Zenon DEF r
<1> QED
  BY <1>2, <1>3, <1>8, AbortStep DEF r

\* It is gone again: the content app saves the artifact once more.
LEMMA ArtifactIsGoneStep ==
    ASSUME StoreInv, NEW s \in Savers, ArtifactIsGone(s)
    PROVE  StoreInv'
<1> DEFINE r == saver[s]
           x == [[r EXCEPT !.pc = "place"] EXCEPT !.again = TRUE]
<1>1. StoreTypes /\ SaverTypes /\ OtherTypes /\ Rows
  BY DEF StoreInv
<1>2. /\ r.pc = "get"
      /\ UNCHANGED <<store, deleter, repair, rot, started, raced, givenUp, excused>>
  BY DEF ArtifactIsGone
<1>3. r \in Placing /\ r # Idle /\ r.c \in Contents /\ DigestOf[r.c] \in Digests
  <2>1. r = saver[s] /\ r.pc \in {"place", "insert", "get"}
    BY <1>2
  <2> HIDE DEF r
  <2> QED
    BY <1>1, <2>1, PlacerState
<1>4. x \in Placing /\ x.pc = "place" /\ x.c = r.c /\ x.repo = r.repo /\ x.again = TRUE
  <2> HIDE DEF r
  <2> QED
    BY <1>3, PlacingAgain, Zenon
<1>5. \/ s \notin Syncs /\ saver' = [saver EXCEPT ![s] = x] /\ UNCHANGED leaked
      \/ Abort(s)
  <2>1. saver \in [Savers -> {Idle} \cup Placing \cup Attaching]
    BY <1>1 DEF SaverTypes
  <2>2. [saver EXCEPT ![s].pc = "place", ![s].again = TRUE] = [saver EXCEPT ![s] = x]
    BY <2>1, TwoFields, Zenon
  <2>3. \/ /\ s \notin Syncs /\ UNCHANGED leaked
           /\ saver' = [saver EXCEPT ![s].pc = "place", ![s].again = TRUE]
        \/ Abort(s)
    BY DEF ArtifactIsGone
  <2> HIDE DEF x
  <2> QED
    BY <2>2, <2>3, Zenon
<1>7. leaked \subseteq Digests /\ started \in 0 .. MaxStarts
  BY <1>1 DEF OtherTypes
<1>8. Knows(s) /\ r.repo # "gone" => r.c \in content
  BY <1>1 DEF Rows
<1> HIDE DEF r, x
<1>9. CASE s \notin Syncs /\ saver' = [saver EXCEPT ![s] = x] /\ UNCHANGED leaked
  <2>1. saver'[s] = x
    BY <1>1, <1>9 DEF SaverTypes
  <2>2. MayHavePlaced(s)' /\ ~CountsOnFile(s)'
    BY <1>4, <1>9, <2>1 DEF MayHavePlaced, CountsOnFile
  <2>3. x # Idle
    BY <1>4 DEF Idle
  <2>4. Knows(s)' /\ x.repo # "gone" => x.c \in content
    BY <1>3, <1>4, <1>8, <2>1 DEF Knows, r
  <2> QED
    BY <1>2, <1>4, <1>7, <1>9, <2>2, <2>3, <2>4, SaverOnly DEF r
<1> QED
  BY <1>2, <1>3, <1>5, <1>9, AbortStep DEF r

\* The file is moved into place, or found there, or the temporary file is lost.
LEMMA PlaceFileStep ==
    ASSUME StoreInv, NEW s \in Savers, PlaceFile(s)
    PROVE  StoreInv'
<1> USE StoreAssumption
<1> DEFINE r == saver[s]
           d == DigestOf[r.c]
           placed == s \in Syncs /\ r.again
           x == [[r EXCEPT !.pc = "insert"] EXCEPT !.temp = FALSE]
           g == [r EXCEPT !.pc = "insert"]
<1>1. /\ StoreTypes /\ OtherTypes /\ SaverTypes /\ DeleterTypes
      /\ Rows /\ NothingDangles /\ Files /\ SpaceComesBack
      /\ Recoverable /\ NothingLost
  BY DEF StoreInv
<1>2. /\ r.pc = "place"
      /\ UNCHANGED <<row, born, content, held, remote, member, deleter, repair,
                     rot, started, excused>>
  BY DEF PlaceFile
<1>3. r \in Placing /\ r # Idle /\ r.c \in Contents /\ d \in Digests
  <2>1. r = saver[s] /\ r.pc \in {"place", "insert", "get"}
    BY <1>2
  <2> HIDE DEF r
  <2> QED
    BY <1>1, <2>1, PlacerState
<1>4. /\ x \in Placing /\ x.pc = "insert" /\ x.c = r.c /\ x.repo = r.repo
      /\ g \in Placing /\ g.pc = "insert" /\ g.c = r.c /\ g.repo = r.repo
  <2> HIDE DEF r
 <2>1. x \in Placing /\ x.pc = "insert" /\ x.c = r.c /\ x.repo = r.repo
    BY <1>3, PlacingMoved, Zenon
  <2>2. g \in Placing /\ g.pc = "insert" /\ g.c = r.c /\ g.repo = r.repo
    BY <1>3, PlacingGoes
  <2> HIDE DEF x, g
  <2> QED
    BY <2>1, <2>2, Zenon
<1>5. \/ Abort(s) /\ UNCHANGED <<file, raced, givenUp>>
      \/ /\ file[d] = "none" /\ file' = [file EXCEPT ![d] = "good"]
         /\ saver' = [saver EXCEPT ![s] = x]
         /\ raced' = raced \ {d} /\ givenUp' = givenUp \ {d} /\ UNCHANGED leaked
      \/ /\ placed \/ file[d] # "none"
         /\ saver' = [saver EXCEPT ![s] = g]
         /\ UNCHANGED <<file, raced, givenUp, leaked>>
  <2>1. saver \in [Savers -> {Idle} \cup Placing \cup Attaching]
    BY <1>1 DEF SaverTypes
  <2>2. /\ [saver EXCEPT ![s].pc = "insert"] = [saver EXCEPT ![s] = g]
        /\ [saver EXCEPT ![s].pc = "insert", ![s].temp = FALSE] = [saver EXCEPT ![s] = x]
    BY <2>1, TwoFields, Zenon
  <2> QED
    BY <2>2 DEF PlaceFile, Goto
<1>6. CASE Abort(s) /\ UNCHANGED <<file, raced, givenUp>>
  BY <1>2, <1>3, <1>6, AbortStep DEF store
<1>7. leaked \subseteq Digests /\ started \in 0 .. MaxStarts
  BY <1>1 DEF OtherTypes
<1>8. Knows(s) /\ r.repo # "gone" => r.c \in content
  BY <1>1 DEF Rows
<1>9. placed => ReliedOn(d)
  BY <1>2, <1>3 DEF ReliedOn, CountsOnFile
<1> HIDE DEF x, g, placed
<1>10. ASSUME saver' = [saver EXCEPT ![s] = x] \/ saver' = [saver EXCEPT ![s] = g]
       PROVE  /\ saver' \in [Savers -> {Idle} \cup Placing \cup Attaching]
              /\ saver'[s] \in {x, g} /\ saver'[s] # Idle
              /\ saver'[s].pc = "insert" /\ saver'[s].c = r.c
              /\ saver'[s].repo = r.repo
              /\ \A z \in Savers : z # s => saver'[z] = saver[z]
              /\ MayHavePlaced(s)' /\ CountsOnFile(s)'
              /\ Knows(s)' /\ r.repo # "gone" => r.c \in content
  <2>1. /\ saver' \in [Savers -> {Idle} \cup Placing \cup Attaching]
        /\ saver'[s] \in {x, g}
        /\ \A z \in Savers : z # s => saver'[z] = saver[z]
    BY <1>1, <1>4, <1>10 DEF SaverTypes
  <2>2. saver'[s].pc = "insert" /\ saver'[s].c = r.c /\ saver'[s].repo = r.repo
    BY <1>4, <2>1
  <2>3. saver'[s] # Idle
    BY <2>2 DEF Idle
  <2>4. MayHavePlaced(s)' /\ CountsOnFile(s)'
    BY <2>2 DEF MayHavePlaced, CountsOnFile
  <2>5. Knows(s)' /\ r.repo # "gone" => r.c \in content
    BY <1>3, <1>8, <2>2 DEF Knows
  <2> QED
    BY <2>1, <2>2, <2>3, <2>4, <2>5
<1>11. CASE /\ file[d] = "none" /\ file' = [file EXCEPT ![d] = "good"]
            /\ saver' = [saver EXCEPT ![s] = x]
            /\ raced' = raced \ {d} /\ givenUp' = givenUp \ {d} /\ UNCHANGED leaked
  <2>1. /\ file' \in [Digests -> {"none", "good", "bad"}] /\ file'[d] = "good"
        /\ \A e \in Digests : e # d => file'[e] = file[e]
    BY <1>1, <1>3, <1>11 DEF StoreTypes
  <2>2. StoreTypes' /\ OtherTypes' /\ DeleterTypes'
    BY <1>1, <1>2, <1>11, <2>1 DEF StoreTypes, OtherTypes, DeleterTypes
  <2>3. /\ saver' \in [Savers -> {Idle} \cup Placing \cup Attaching]
        /\ saver'[s] # Idle /\ saver'[s].pc = "insert" /\ saver'[s].c = r.c
        /\ saver'[s].repo = r.repo
        /\ \A z \in Savers : z # s => saver'[z] = saver[z]
        /\ MayHavePlaced(s)' /\ CountsOnFile(s)'
        /\ Knows(s)' /\ r.repo # "gone" => r.c \in content
    BY <1>10, <1>11
  <2> HIDE DEF r, d
  <2>4. SaverTypes'
    BY <1>1, <1>2, <2>3 DEF SaverTypes
  <2>5. Rows'
    <3>1. \A z \in Savers : Owning(z)' => Owning(z) /\ saver'[z] = saver[z]
      BY <2>3 DEF Owning
    <3>2. \A z \in Savers : Knows(z)' /\ saver'[z].repo # "gone" => saver'[z].c \in content
      BY <1>1, <2>3 DEF Rows, Knows
    <3> QED
      BY <1>1, <1>2, <3>1, <3>2 DEF Rows
  <2>6. NothingDangles' /\ NothingLost'
    BY <1>1, <1>2 DEF NothingDangles, NothingLost, InVersion, RowOf
  <2>7. Files'
    <3> SUFFICES ASSUME NEW e \in Digests, ReliedOn(e)', file'[e] = "none"
                 PROVE  Excused(e)'
      BY DEF Files
    <3>1. e # d /\ file[e] = "none"
      BY <2>1
    <3>2. ReliedOn(e)
      BY <1>2, <2>3, <3>1 DEF ReliedOn, CountsOnFile, d, r
    <3>3. Excused(e)
      BY <1>1, <3>1, <3>2 DEF Files
    <3> QED
      BY <1>2, <1>11, <3>1, <3>3 DEF Excused
  <2>8. SpaceComesBack'
    <3> SUFFICES ASSUME NEW e \in Digests, file'[e] # "none", row[e] = 0, e \notin leaked,
                        ~\E t \in Deleters : deleter[t].pc = "unlink"
                                            /\ deleter[t].victim[1] = e
                 PROVE  \E z \in Savers : saver'[z] # Idle /\ MayHavePlaced(z)'
                                         /\ DigestOf[saver'[z].c] = e
      BY <1>2, <1>11 DEF SpaceComesBack
    <3>1. CASE e = d
      BY <2>3, <3>1 DEF d
    <3>2. CASE e # d
      <4>1. PICK z \in Savers : saver[z] # Idle /\ MayHavePlaced(z)
                               /\ DigestOf[saver[z].c] = e
        BY <1>1, <2>1, <3>2 DEF SpaceComesBack
      <4>2. z # s
        BY <3>2, <4>1 DEF d, r
      <4> QED
        BY <2>3, <4>1, <4>2 DEF MayHavePlaced, CountsOnFile
    <3> QED
      BY <3>1, <3>2
  <2>9. Recoverable'
    <3>1. \A z \in Syncs : saver'[z].pc = "add" => saver'[z] = saver[z]
      BY <2>3 DEF Savers
    <3> QED
      BY <1>1, <1>2, <3>1 DEF Recoverable
  <2> QED
    BY <2>2, <2>4, <2>5, <2>6, <2>7, <2>8, <2>9 DEF StoreInv
<1>12. CASE /\ placed \/ file[d] # "none"
            /\ saver' = [saver EXCEPT ![s] = g]
            /\ UNCHANGED <<file, raced, givenUp, leaked>>
  <2>1. /\ saver'[s] = g /\ MayHavePlaced(s)'
        /\ Knows(s)' /\ r.repo # "gone" => r.c \in content
    <3>1. /\ MayHavePlaced(s)'
          /\ Knows(s)' /\ r.repo # "gone" => r.c \in content
      BY <1>10, <1>12
    <3>2. saver'[s] = g
      BY <1>1, <1>12 DEF SaverTypes
    <3> QED
      BY <3>1, <3>2
  <2>2. g # Idle
    BY <1>4 DEF Idle
  <2>3. ReliedOn(d) \/ file[d] # "none"
    BY <1>9, <1>12
  <2>4. UNCHANGED <<store, deleter, repair, rot, raced, givenUp, excused>>
    BY <1>2, <1>12 DEF store
  <2> HIDE DEF r
  <2> QED
    BY <1>2, <1>4, <1>7, <1>12, <2>1, <2>2, <2>3, <2>4, SaverOnly DEF r
<1> QED
  BY <1>5, <1>6, <1>11, <1>12

\* One of them goes on, the others are where they were.
LEMMA OneSaver ==
    ASSUME SaverTypes, NEW s \in Savers, NEW r \in {Idle} \cup Placing \cup Attaching,
           saver' = [saver EXCEPT ![s] = r]
    PROVE  /\ saver' \in [Savers -> {Idle} \cup Placing \cup Attaching]
           /\ saver'[s] = r
           /\ \A z \in Savers : z # s =>
                 /\ saver'[z] = saver[z]
                 /\ Owning(z)' <=> Owning(z)
                 /\ Knows(z)' <=> Knows(z)
                 /\ CountsOnFile(z)' <=> CountsOnFile(z)
                 /\ MayHavePlaced(z)' <=> MayHavePlaced(z)
<1>1. /\ saver' \in [Savers -> {Idle} \cup Placing \cup Attaching]
      /\ saver'[s] = r
      /\ \A z \in Savers : z # s => saver'[z] = saver[z]
  BY DEF SaverTypes
<1>2. ASSUME NEW z \in Savers, z # s
      PROVE  /\ saver'[z] = saver[z]
             /\ Owning(z)' <=> Owning(z)
             /\ Knows(z)' <=> Knows(z)
             /\ CountsOnFile(z)' <=> CountsOnFile(z)
             /\ MayHavePlaced(z)' <=> MayHavePlaced(z)
  <2>1. saver'[z] = saver[z]
    BY <1>1, <1>2
  <2> QED
    BY <2>1 DEF Owning, Knows, CountsOnFile, MayHavePlaced
<1> QED
  BY <1>1, <1>2

\* The INSERT succeeds: the content app is alone with its uncommitted row.
LEMMA InsertStep ==
    ASSUME StoreInv, NEW s \in Savers, Insert(s)
    PROVE  StoreInv'
<1> USE StoreAssumption
<1> DEFINE o == saver[s]
           d == DigestOf[o.c]
           pk == born[d] + 1
           r == [pc |-> "attach", c |-> o.c, repo |-> o.repo, pk |-> pk,
                 own |-> s \in Requests]
<1>1. /\ StoreTypes /\ OtherTypes /\ SaverTypes /\ DeleterTypes
      /\ Rows /\ NothingDangles /\ Files /\ SpaceComesBack
      /\ Recoverable /\ NothingLost
  BY DEF StoreInv
<1>2. /\ o.pc = "insert" /\ row[d] = 0 /\ ~Uncommitted(d) /\ pk <= MaxRows
      /\ born' = [born EXCEPT ![d] = pk]
      /\ row' = IF s \in Syncs THEN [row EXCEPT ![d] = pk] ELSE row
      /\ saver' = [saver EXCEPT ![s] = r] /\ leaked' = leaked \ {d}
      /\ UNCHANGED <<file, content, held, remote, member, deleter, repair, rot,
                     started, raced, givenUp, excused>>
  BY DEF Insert
<1>3. o \in Placing /\ o # Idle /\ o.c \in Contents /\ d \in Digests /\ o.repo \in Places
  BY <1>1, <1>2, SaverState DEF Placing
<1>4. born[d] \in Nat /\ pk \in 1 .. MaxRows /\ born[d] <= pk
  BY <1>1, <1>2, <1>3 DEF StoreTypes
<1>5. /\ r \in Attaching /\ r.pc = "attach" /\ r.c = o.c /\ r.repo = o.repo
      /\ r.pk = pk /\ r.own = (s \in Requests)
  BY <1>3, <1>4 DEF Attaching
<1> HIDE DEF r, pk
<1>6. /\ saver' \in [Savers -> {Idle} \cup Placing \cup Attaching]
      /\ saver'[s] = r
      /\ \A z \in Savers : z # s =>
            /\ saver'[z] = saver[z]
            /\ Owning(z)' <=> Owning(z)
            /\ Knows(z)' <=> Knows(z)
            /\ CountsOnFile(z)' <=> CountsOnFile(z)
            /\ MayHavePlaced(z)' <=> MayHavePlaced(z)
  BY <1>1, <1>2, <1>5, OneSaver
<1> HIDE DEF o, d
<1>7. /\ born' \in [Digests -> 0 .. MaxRows] /\ row' \in [Digests -> 0 .. MaxRows]
      /\ born'[d] = pk /\ \A e \in Digests : e # d => born'[e] = born[e] /\ row'[e] = row[e]
      /\ row'[d] \in {0, pk} /\ (s \in Syncs => row'[d] = pk)
      /\ (s \notin Syncs => row' = row)
  BY <1>1, <1>2, <1>3, <1>4 DEF StoreTypes
<1>8. StoreTypes'
  <2>1. \A e \in Digests : row'[e] <= born'[e]
    BY <1>1, <1>3, <1>4, <1>7 DEF StoreTypes
  <2> QED
    BY <1>1, <1>2, <1>7, <2>1 DEF StoreTypes
<1>9. OtherTypes' /\ DeleterTypes'
  BY <1>1, <1>2 DEF OtherTypes, DeleterTypes
<1>10. SaverTypes'
  <2>1. \A e \in Digests : born[e] <= born'[e] /\ born[e] \in Nat /\ born'[e] \in Nat
    BY <1>1, <1>3, <1>4, <1>7 DEF StoreTypes
  <2>2. \A z \in Savers : saver'[z].pc \in {"remote", "add"} => z \in Syncs
    BY <1>1, <1>5, <1>6 DEF SaverTypes
  <2>3. ASSUME NEW z \in Savers, saver'[z].pc = "attach"
        PROVE  /\ saver'[z].pk <= born'[DigestOf[saver'[z].c]]
               /\ saver'[z].own => z \in Requests
               /\ z \in Requests => saver'[z].pk # 0
    <3>1. CASE z = s
      <4>1. saver'[z].pk = pk /\ DigestOf[saver'[z].c] = d
        BY <1>5, <1>6, <3>1 DEF d
      <4>2. saver'[z].pk <= born'[DigestOf[saver'[z].c]] /\ saver'[z].pk # 0
        BY <1>4, <1>7, <4>1
      <4>3. saver'[z].own => z \in Requests
        BY <1>5, <1>6, <3>1
      <4> QED
        BY <4>2, <4>3
    <3>2. CASE z # s
      <4>1. saver'[z] = saver[z] /\ saver[z].pc = "attach"
        BY <1>6, <2>3, <3>2
      <4>2. saver[z] \in Attaching /\ DigestOf[saver[z].c] \in Digests
        BY <1>1, <4>1, SaverState
      <4>3. saver[z].pk \in Nat
        BY <4>2 DEF Attaching
      <4>4. saver[z].pk <= born[DigestOf[saver[z].c]]
        BY <1>1, <4>1 DEF SaverTypes
      <4>5. saver[z].pk <= born'[DigestOf[saver[z].c]]
        BY <2>1, <4>2, <4>3, <4>4
      <4> QED
        BY <1>1, <4>1, <4>5 DEF SaverTypes
    <3> QED
      BY <3>1, <3>2
  <2> QED
    BY <1>6, <2>2, <2>3 DEF SaverTypes
<1>11. ASSUME NEW z \in Savers, z # s, Owning(z)
       PROVE  DigestOf[saver[z].c] # d /\ DigestOf[saver[z].c] \in Digests
  <2>1. z \in Requests /\ saver[z].pc = "attach" /\ saver[z].own
    BY <1>1, <1>11 DEF SaverTypes, Owning
  <2> QED
    BY <1>1, <1>2, <2>1, SaverState DEF Uncommitted
<1>12. Rows'
  <2>1. ASSUME NEW z \in Savers, Owning(z)'
        PROVE  /\ row'[DigestOf[saver'[z].c]] = 0
               /\ \A y \in Savers : Owning(y)' /\ DigestOf[saver'[y].c] = DigestOf[saver'[z].c]
                                    => y = z
    <3>1. CASE z = s
      <4>1. s \notin Syncs /\ DigestOf[saver'[z].c] = d
        BY <1>5, <1>6, <2>1, <3>1 DEF Owning, d
      <4> QED
        BY <1>2, <1>6, <1>7, <1>11, <3>1, <4>1
    <3>2. CASE z # s
      <4>1. Owning(z) /\ saver'[z] = saver[z]
        BY <1>6, <2>1, <3>2
      <4>2. DigestOf[saver[z].c] # d /\ DigestOf[saver[z].c] \in Digests
        BY <1>11, <3>2, <4>1
      <4>3. row'[DigestOf[saver'[z].c]] = 0
        BY <1>1, <1>7, <4>1, <4>2 DEF Rows
      <4>4. DigestOf[saver'[s].c] = d
        BY <1>5, <1>6 DEF d
      <4>5. \A y \in Savers : Owning(y)' /\ DigestOf[saver'[y].c] = DigestOf[saver'[z].c]
                               => y = z
        BY <1>1, <1>6, <4>1, <4>2, <4>4 DEF Rows
      <4> QED
        BY <4>3, <4>5
    <3> QED
      BY <3>1, <3>2
  <2>2. \A z \in Savers : Knows(z)' /\ saver'[z].repo # "gone" => saver'[z].c \in content'
    <3>1. Knows(s)' => Knows(s)
      BY <1>2, <1>3, <1>5, <1>6 DEF Knows, o
    <3>2. saver'[s].c = saver[s].c /\ saver'[s].repo = saver[s].repo
      BY <1>5, <1>6 DEF o
    <3> QED
      BY <1>1, <1>2, <1>6, <3>1, <3>2 DEF Rows
  <2> QED
    BY <1>1, <1>2, <2>1, <2>2 DEF Rows
<1>13. NothingDangles'
  <2>1. \A c \in content : held[c] \in {0, row[DigestOf[c]]} /\ DigestOf[c] \in Digests
    BY <1>1 DEF NothingDangles, RowOf, StoreTypes
  <2>2. \A c \in content : held[c] \in {0, row'[DigestOf[c]]}
    BY <1>2, <1>7, <2>1
  <2> QED
    BY <1>1, <1>2, <2>2 DEF NothingDangles, RowOf, InVersion
<1>14. NothingLost'
  BY <1>1, <1>2 DEF NothingLost, InVersion
<1>15. Files'
  <2>1. ReliedOn(d)
    BY <1>2, <1>3 DEF ReliedOn, CountsOnFile, o, d
  <2>2. \A e \in Digests : e # d /\ ReliedOn(e)' => ReliedOn(e)
    <3> SUFFICES ASSUME NEW e \in Digests, e # d, row[e] = 0,
                        NEW z \in Savers, saver'[z] # Idle, CountsOnFile(z)',
                        DigestOf[saver'[z].c] = e
                 PROVE  ReliedOn(e)
      BY <1>7 DEF ReliedOn
    <3>1. z # s
      BY <1>5, <1>6 DEF d
    <3> QED
      BY <1>6, <3>1 DEF ReliedOn
  <2> QED
    BY <1>1, <1>2, <2>1, <2>2 DEF Files, Excused
<1>16. SpaceComesBack'
  <2> SUFFICES ASSUME NEW e \in Digests, file[e] # "none", row'[e] = 0,
                      e \notin leaked',
                      ~\E t \in Deleters : deleter[t].pc = "unlink"
                                          /\ deleter[t].victim[1] = e
               PROVE  \E z \in Savers : saver'[z] # Idle /\ MayHavePlaced(z)'
                                       /\ DigestOf[saver'[z].c] = e
    BY <1>2 DEF SpaceComesBack
  <2>1. CASE e = d
    <3>1. s \in Requests
      BY <1>4, <1>7, <2>1 DEF Savers
    <3>2. saver'[s] # Idle
      BY <1>5, <1>6 DEF Idle
    <3> QED
      BY <1>5, <1>6, <2>1, <3>1, <3>2 DEF MayHavePlaced, CountsOnFile, d
  <2>2. CASE e # d
    <3>1. PICK z \in Savers : saver[z] # Idle /\ MayHavePlaced(z)
                             /\ DigestOf[saver[z].c] = e
      BY <1>1, <1>2, <1>7, <2>2 DEF SpaceComesBack
    <3>2. z # s
      BY <2>2, <3>1 DEF d, o
    <3> QED
      BY <1>6, <3>1, <3>2
  <2> QED
    BY <2>1, <2>2
<1>17. Recoverable'
  <2>1. \A z \in Syncs : saver'[z].pc = "add" => saver'[z] = saver[z]
    BY <1>5, <1>6 DEF Savers
  <2> QED
    BY <1>1, <1>2, <2>1 DEF Recoverable
<1> QED
  BY <1>8, <1>9, <1>10, <1>12, <1>13, <1>14, <1>15, <1>16, <1>17 DEF StoreInv

\* Content is saved or its artifact set, with the row of an artifact committed.
LEMMA ContentGrows ==
    ASSUME StoreInv, NEW s \in Savers, saver[s].pc = "attach",
           NEW r \in {Idle} \cup Attaching, saver' = [saver EXCEPT ![s] = r],
           r = Idle \/ (s \in Syncs /\ r.pc = "remote" /\ r.c = saver[s].c),
           NEW h \in 0 .. MaxRows, held' = [held EXCEPT ![saver[s].c] = h],
           h \in {0, row'[DigestOf[saver[s].c]]},
           held[saver[s].c] # 0 => h # 0,
           content' = content \cup {saver[s].c},
           remote \subseteq remote', remote' \subseteq content',
           excused' = IF saver[s].c \in content THEN excused
                      ELSE excused \ {saver[s].c},
           \/ row' = row
           \/ /\ Owning(s)
              /\ \E pk \in 1 .. MaxRows :
                    /\ row' = [row EXCEPT ![DigestOf[saver[s].c]] = pk]
                    /\ pk <= born[DigestOf[saver[s].c]],
           Owning(s) => row'[DigestOf[saver[s].c]] # 0,
           UNCHANGED <<born, file, member, deleter, repair, rot, started, raced,
                       givenUp, leaked>>
    PROVE  StoreInv'
<1> USE StoreAssumption
<1> DEFINE c == saver[s].c
           d == DigestOf[c]
<1>1. /\ StoreTypes /\ OtherTypes /\ SaverTypes /\ DeleterTypes
      /\ Rows /\ NothingDangles /\ Files /\ SpaceComesBack
      /\ Recoverable /\ NothingLost
  BY DEF StoreInv
<1>2. /\ saver[s] \in Attaching /\ saver[s] # Idle /\ c \in Contents /\ d \in Digests
  BY <1>1, SaverState
<1>3. /\ saver' \in [Savers -> {Idle} \cup Placing \cup Attaching]
      /\ saver'[s] = r
      /\ \A z \in Savers : z # s =>
            /\ saver'[z] = saver[z]
            /\ Owning(z)' <=> Owning(z)
            /\ Knows(z)' <=> Knows(z)
            /\ CountsOnFile(z)' <=> CountsOnFile(z)
            /\ MayHavePlaced(z)' <=> MayHavePlaced(z)
  BY <1>1, OneSaver
<1>4. r.pc \in {"idle", "remote"} /\ Idle.pc = "idle"
  BY DEF Idle
<1>5. Owning(s) => row[d] = 0
  BY <1>1 DEF Rows
<1>6. /\ row' \in [Digests -> 0 .. MaxRows]
      /\ \A e \in Digests : row'[e] <= born[e]
      /\ \A e \in Digests : e # d => row'[e] = row[e]
      /\ row'[d] # row[d] => Owning(s)
  BY <1>1, <1>2 DEF StoreTypes
<1>7. /\ held' \in [Contents -> 0 .. MaxRows] /\ held'[c] = h
      /\ \A x \in Contents : x # c => held'[x] = held[x]
      /\ \A x \in Contents : held[x] # 0 => held'[x] # 0
  BY <1>1, <1>2 DEF StoreTypes
<1>8. /\ content \subseteq content' /\ content' \subseteq Contents /\ c \in content'
      /\ \A x \in content' : x # c => x \in content
      /\ remote \subseteq remote' /\ remote' \subseteq content'
  BY <1>1, <1>2 DEF StoreTypes
<1>9. excused \cap content \subseteq excused' /\ excused' \subseteq excused
  OBVIOUS
<1>10. h \in {0, row'[d]} /\ (Owning(s) => row'[d] # 0)
  OBVIOUS
<1> HIDE DEF c, d
<1>11. StoreTypes'
  BY <1>1, <1>6, <1>7, <1>8 DEF StoreTypes
<1>12. OtherTypes' /\ DeleterTypes'
  BY <1>1, <1>9 DEF OtherTypes, DeleterTypes
<1>13. SaverTypes'
  BY <1>1, <1>3, <1>4 DEF SaverTypes
<1>14. ASSUME NEW z \in Savers, Owning(z)'
       PROVE  /\ z # s /\ Owning(z) /\ saver'[z] = saver[z]
              /\ DigestOf[saver[z].c] \in Digests
              /\ row'[DigestOf[saver[z].c]] = 0
  <2>1. z # s /\ Owning(z) /\ saver'[z] = saver[z]
    BY <1>3, <1>4, <1>14 DEF Owning
  <2>2. saver[z].pc = "attach" /\ DigestOf[saver[z].c] \in Digests
    BY <1>1, <2>1, SaverState DEF Owning
  <2>3. row[DigestOf[saver[z].c]] = 0
    BY <1>1, <2>1 DEF Rows
  <2>4. Owning(s) => DigestOf[saver[z].c] # d
    BY <1>1, <2>1 DEF Rows, d, c
  <2> QED
    BY <1>6, <2>1, <2>2, <2>3, <2>4
<1>15. Rows'
  <2>1. \A z \in Savers : Owning(z)' =>
          /\ row'[DigestOf[saver'[z].c]] = 0
          /\ \A y \in Savers : Owning(y)' /\ DigestOf[saver'[y].c] = DigestOf[saver'[z].c]
                               => y = z
    <3> SUFFICES ASSUME NEW z \in Savers, Owning(z)'
                 PROVE  /\ row'[DigestOf[saver'[z].c]] = 0
                        /\ \A y \in Savers : Owning(y)' /\ DigestOf[saver'[y].c] = DigestOf[saver'[z].c]
                                             => y = z
      OBVIOUS
    <3>1. Owning(z) /\ saver'[z] = saver[z] /\ row'[DigestOf[saver[z].c]] = 0
      BY <1>14
    <3>2. \A y \in Savers : Owning(y)' => Owning(y) /\ saver'[y] = saver[y]
      BY <1>14
    <3> QED
      BY <1>1, <3>1, <3>2 DEF Rows
  <2>2. \A z \in Savers : Knows(z)' /\ saver'[z].repo # "gone" => saver'[z].c \in content'
    <3>1. Knows(s)' => r # Idle
      <4>1. Knows(s)' => saver'[s] # Idle
        BY <1>4 DEF Knows
      <4> QED
        BY <1>3, <4>1
    <3>2. Knows(s)' => saver'[s].c \in content'
      BY <1>3, <1>8, <3>1 DEF c
    <3> QED
      BY <1>1, <1>3, <1>8, <3>2 DEF Rows
  <2>3. \A x \in Contents \ content' : held'[x] = 0
    BY <1>1, <1>7, <1>8 DEF Rows
  <2> QED
    BY <2>1, <2>2, <2>3 DEF Rows
<1>16. NothingDangles'
  <2>1. InVersion' \subseteq content'
    BY <1>1, <1>8 DEF NothingDangles, InVersion
  <2>2. ASSUME NEW x \in content'
        PROVE  held'[x] \in {0, row'[DigestOf[x]]}
    <3>1. CASE x = c
      BY <1>7, <1>10, <3>1 DEF d
    <3>2. CASE x # c
      <4>1. x \in content /\ x \in Contents /\ held'[x] = held[x] /\ DigestOf[x] \in Digests
        BY <1>7, <1>8, <2>2, <3>2
      <4>2. held[x] \in {0, row[DigestOf[x]]}
        BY <1>1, <4>1 DEF NothingDangles, RowOf
      <4> QED
        BY <1>5, <1>6, <4>1, <4>2
    <3> QED
      BY <3>1, <3>2
  <2> QED
    BY <2>1, <2>2 DEF NothingDangles, RowOf
<1>17. Files'
  <2>1. \A e \in Digests : ReliedOn(e)' => ReliedOn(e)
    <3> SUFFICES ASSUME NEW e \in Digests, ReliedOn(e)' PROVE ReliedOn(e)
      OBVIOUS
    <3>1. CASE row'[e] # 0
      <4>1. row[e] # 0 \/ (e = d /\ Owning(s))
        BY <1>6, <3>1
      <4>2. e = d /\ Owning(s) => ReliedOn(e)
        BY <1>2 DEF ReliedOn, CountsOnFile, Owning, c, d
      <4> QED
        BY <4>1, <4>2 DEF ReliedOn
    <3>2. CASE row'[e] = 0
      <4>1. PICK z \in Savers : saver'[z] # Idle /\ CountsOnFile(z)'
                               /\ DigestOf[saver'[z].c] = e
        BY <3>2 DEF ReliedOn
      <4>2. ~CountsOnFile(s)'
        BY <1>3, <1>4 DEF CountsOnFile
      <4> QED
        BY <1>3, <4>1, <4>2 DEF ReliedOn
    <3> QED
      BY <3>1, <3>2
  <2> QED
    BY <1>1, <2>1 DEF Files, Excused
<1>18. SpaceComesBack'
  <2> SUFFICES ASSUME NEW e \in Digests, file[e] # "none", row'[e] = 0,
                      e \notin leaked,
                      ~\E t \in Deleters : deleter[t].pc = "unlink"
                                          /\ deleter[t].victim[1] = e
               PROVE  \E z \in Savers : saver'[z] # Idle /\ MayHavePlaced(z)'
                                       /\ DigestOf[saver'[z].c] = e
    BY DEF SpaceComesBack
  <2>1. row[e] = 0
    BY <1>5, <1>6
  <2>2. PICK z \in Savers : saver[z] # Idle /\ MayHavePlaced(z)
                           /\ DigestOf[saver[z].c] = e
    BY <1>1, <2>1 DEF SpaceComesBack
  <2>3. z # s
    <3>1. MayHavePlaced(s) => Owning(s)
      BY DEF MayHavePlaced, CountsOnFile, Owning
    <3> QED
      BY <1>10, <2>2, <3>1 DEF c, d
  <2> QED
    BY <1>3, <2>2, <2>3
<1>19. Recoverable'
  <2>1. \A z \in Syncs : saver'[z].pc = "add" /\ saver'[z].repo # "gone" =>
          saver'[z].c \in excused' \/ held'[saver'[z].c] # 0 \/ saver'[z].c \in remote'
    <3> SUFFICES ASSUME NEW z \in Syncs, saver'[z].pc = "add", saver'[z].repo # "gone"
                 PROVE  saver'[z].c \in excused' \/ held'[saver'[z].c] # 0 \/ saver'[z].c \in remote'
      OBVIOUS
    <3>1. z # s /\ z \in Savers /\ saver'[z] = saver[z]
      BY <1>3, <1>4 DEF Savers
    <3>2. saver[z].c \in content /\ saver[z].c \in Contents
      BY <1>1, <3>1, SaverState DEF Rows, Knows
    <3>3. saver[z].c \in excused \/ held[saver[z].c] # 0 \/ saver[z].c \in remote
      BY <1>1, <3>1 DEF Recoverable
    <3> QED
      BY <1>7, <1>8, <1>9, <3>1, <3>2, <3>3
  <2> QED
    BY <1>1, <1>8, <1>9, <2>1 DEF Recoverable
<1>20. NothingLost'
  <2> SUFFICES ASSUME NEW x \in InVersion, x \notin excused'
               PROVE  held'[x] # 0 \/ x \in remote'
    BY DEF NothingLost, InVersion
  <2>1. x \in content /\ x \notin excused
    BY <1>1, <1>9 DEF NothingDangles
  <2>2. held[x] # 0 \/ x \in remote
    BY <1>1, <2>1 DEF NothingLost
  <2> QED
    BY <1>7, <1>8, <2>1, <2>2
<1> QED
  BY <1>11, <1>12, <1>13, <1>15, <1>16, <1>17, <1>18, <1>19, <1>20 DEF StoreInv

\* The content app commits the artifact and the ContentArtifact.
LEMMA AttachStep ==
    ASSUME StoreInv, NEW s \in Savers, Attach(s)
    PROVE  StoreInv'
<1> USE StoreAssumption
<1> DEFINE c == saver[s].c
           d == DigestOf[c]
           pk == saver[s].pk
           adding == saver[s].repo = "adding"
           fills == ~adding \/ held[c] = 0
           committed == IF saver[s].own THEN [row EXCEPT ![d] = pk] ELSE row
           h == IF fills THEN pk ELSE held[c]
<1>1. /\ StoreTypes /\ OtherTypes /\ SaverTypes /\ Rows /\ NothingDangles
  BY DEF StoreInv
<1>2. /\ s \in Requests /\ saver[s].pc = "attach"
      /\ UNCHANGED <<born, file, member, deleter, repair, rot, started, raced, givenUp>>
      /\ \/ /\ fills => committed[d] = pk
            /\ row' = committed
            /\ content' = content \cup {c}
            /\ held' = IF fills THEN [held EXCEPT ![c] = pk] ELSE held
            /\ remote' = IF adding THEN remote \cup {c} ELSE remote
            /\ excused' = IF c \in content THEN excused ELSE excused \ {c}
            /\ saver' = [saver EXCEPT ![s] = Idle]
            /\ UNCHANGED leaked
         \/ Abort(s) /\ UNCHANGED <<row, content, held, remote, excused>>
  BY DEF Attach
<1>3. saver[s] \in Attaching /\ saver[s] # Idle /\ c \in Contents /\ d \in Digests
  BY <1>1, <1>2, SaverState
<1>4. pk \in 1 .. MaxRows /\ pk <= born[d]
  BY <1>1, <1>2, <1>3 DEF SaverTypes, Attaching
<1>5. CASE Abort(s) /\ UNCHANGED <<row, content, held, remote, excused>>
  <2>1. UNCHANGED <<born, file, member, deleter, repair, rot, started, raced, givenUp>>
    BY <1>2
  <2>2. UNCHANGED store
    BY <1>5, <2>1 DEF store
  <2> QED
    BY <1>3, <1>5, <2>1, <2>2, AbortStep
<1>6. CASE /\ fills => committed[d] = pk
           /\ row' = committed
           /\ content' = content \cup {c}
           /\ held' = IF fills THEN [held EXCEPT ![c] = pk] ELSE held
           /\ remote' = IF adding THEN remote \cup {c} ELSE remote
           /\ excused' = IF c \in content THEN excused ELSE excused \ {c}
           /\ saver' = [saver EXCEPT ![s] = Idle]
           /\ UNCHANGED leaked
  <2>1. h \in 0 .. MaxRows /\ held' = [held EXCEPT ![c] = h]
    <3>1. held \in [Contents -> 0 .. MaxRows] /\ held[c] \in 0 .. MaxRows
      BY <1>1, <1>3 DEF StoreTypes
    <3>2. CASE fills
      <4>1. h = pk /\ held' = [held EXCEPT ![c] = pk]
        BY <1>6, <3>2
      <4>2. pk \in 0 .. MaxRows
        BY <1>4
      <4> HIDE DEF h, pk
      <4> QED
        BY <4>1, <4>2
    <3>3. CASE ~fills
      <4>1. h = held[c] /\ held' = held
        BY <1>6, <3>3
      <4> HIDE DEF h
      <4> QED
        BY <3>1, <4>1
    <3> QED
      BY <3>2, <3>3
  <2>2. Owning(s) => row[d] = 0 /\ row' = [row EXCEPT ![d] = pk] /\ row'[d] # 0
    BY <1>1, <1>3, <1>4, <1>6 DEF Rows, Owning, StoreTypes
  <2>3. ~Owning(s) => row' = row
    BY <1>2, <1>6 DEF Owning
  <2>4. Owning(s) => fills
    <3>1. c \in content => held[c] \in {0, row[d]}
      BY <1>1 DEF NothingDangles, RowOf
    <3>2. c \notin content => held[c] = 0
      BY <1>1, <1>3 DEF Rows
    <3> QED
      BY <2>2, <3>1, <3>2
  <2>5. h \in {0, row'[d]}
    <3>1. CASE fills
      BY <1>6, <3>1
    <3>2. CASE ~fills
      <4>1. c \in content
        BY <1>1, <1>3, <3>2 DEF Rows
      <4> QED
        BY <1>1, <2>3, <2>4, <3>2, <4>1 DEF NothingDangles, RowOf
    <3> QED
      BY <3>1, <3>2
  <2>6. held[c] # 0 => h # 0
    BY <1>4
  <2>7. remote \subseteq remote' /\ remote' \subseteq content'
    BY <1>1, <1>6 DEF StoreTypes
  <2>8. \/ row' = row
        \/ Owning(s) /\ \E p \in 1 .. MaxRows : row' = [row EXCEPT ![d] = p] /\ p <= born[d]
    BY <1>4, <2>2, <2>3
  <2> HIDE DEF h, pk, adding, fills, committed
  <2> QED
    BY <1>2, <1>6, <2>1, <2>2, <2>5, <2>6, <2>7, <2>8, ContentGrows
<1> QED
  BY <1>2, <1>5, <1>6

\* A sync saves the content, or gives a ContentArtifact the artifact it lacks.
LEMMA SaveContentStep ==
    ASSUME StoreInv, NEW s \in Savers, SaveContent(s)
    PROVE  StoreInv'
<1> USE StoreAssumption
<1> DEFINE c == saver[s].c
           d == DigestOf[c]
           pk == saver[s].pk
           fills == c \notin content \/ (pk # 0 /\ held[c] = 0)
           h == IF fills THEN pk ELSE held[c]
           g == [saver[s] EXCEPT !.pc = "remote"]
<1>1. /\ StoreTypes /\ OtherTypes /\ SaverTypes /\ Rows /\ NothingDangles
  BY DEF StoreInv
<1>2. /\ s \in Syncs /\ saver[s].pc = "attach"
      /\ UNCHANGED <<row, born, file, remote, member, deleter, repair, rot, started,
                     raced, givenUp>>
      /\ \/ /\ fills => Exists(c, pk)
            /\ content' = content \cup {c}
            /\ held' = IF fills THEN [held EXCEPT ![c] = pk] ELSE held
            /\ excused' = IF c \in content THEN excused ELSE excused \ {c}
            /\ Goto(s, "remote")
            /\ UNCHANGED leaked
         \/ Abort(s) /\ UNCHANGED <<content, held, excused>>
  BY DEF SaveContent
<1>3. saver[s] \in Attaching /\ saver[s] # Idle /\ c \in Contents /\ d \in Digests
  BY <1>1, <1>2, SaverState
<1>4. pk \in 0 .. MaxRows /\ ~Owning(s)
  BY <1>1, <1>2, <1>3 DEF SaverTypes, Attaching, Owning
<1>5. g \in Attaching /\ g.pc = "remote" /\ g.c = c
  BY <1>3, AttachingMoves
<1>6. CASE Abort(s) /\ UNCHANGED <<content, held, excused>>
  BY <1>2, <1>3, <1>6, AbortStep DEF store
<1>7. CASE /\ fills => Exists(c, pk)
           /\ content' = content \cup {c}
           /\ held' = IF fills THEN [held EXCEPT ![c] = pk] ELSE held
           /\ excused' = IF c \in content THEN excused ELSE excused \ {c}
           /\ Goto(s, "remote")
           /\ UNCHANGED leaked
  <2>1. h \in 0 .. MaxRows /\ held' = [held EXCEPT ![c] = h]
    <3>1. held \in [Contents -> 0 .. MaxRows]
      BY <1>1 DEF StoreTypes
    <3>2. held[c] \in 0 .. MaxRows
      BY <1>3, <3>1
    <3>3. h \in 0 .. MaxRows
      BY <1>4, <3>2
    <3>4. ~fills => held' = [held EXCEPT ![c] = held[c]]
      BY <1>7, <3>1
    <3> QED
      BY <1>7, <3>3, <3>4
  <2>2. saver' = [saver EXCEPT ![s] = g]
    BY <1>1, <1>7, TwoFields, Zenon DEF Goto, SaverTypes
  <2>3. h \in {0, row'[d]}
    <3>1. CASE fills
      BY <1>2, <1>7, <3>1 DEF Exists, RowOf
    <3>2. CASE ~fills
      BY <1>1, <1>2, <3>2 DEF NothingDangles, RowOf
    <3> QED
      BY <3>1, <3>2
  <2>4. held[c] # 0 => h # 0
    BY <1>1, <1>3 DEF Rows
  <2>5. remote \subseteq remote' /\ remote' \subseteq content'
    BY <1>1, <1>2, <1>7 DEF StoreTypes
  <2> HIDE DEF h, pk, fills, g
  <2> QED
    BY <1>2, <1>4, <1>5, <1>7, <2>1, <2>2, <2>3, <2>4, <2>5, ContentGrows
<1> QED
  BY <1>2, <1>6, <1>7

\* A sync links its content to a remote or to the new version.
LEMMA ContentLinked ==
    ASSUME StoreInv, NEW s \in Savers, saver[s].pc \in {"remote", "add"},
           saver[s].repo # "gone",
           NEW r \in {Idle} \cup Attaching, saver' = [saver EXCEPT ![s] = r],
           r = Idle \/ (r.pc = "add" /\ r.c = saver[s].c /\ r.c \in remote'),
           remote' \in {remote, remote \cup {saver[s].c}},
           member' \in [Repos -> SUBSET Contents],
           \A p \in Repos : member'[p] \subseteq member[p] \cup {saver[s].c},
           \/ member' = member
           \/ saver[s].c \in excused \/ held[saver[s].c] # 0 \/ saver[s].c \in remote,
           UNCHANGED <<row, born, file, content, held, deleter, repair, rot,
                       started, history>>
    PROVE  StoreInv'
<1> USE StoreAssumption
<1> DEFINE c == saver[s].c
<1>1. /\ StoreTypes /\ OtherTypes /\ SaverTypes /\ DeleterTypes
      /\ Rows /\ NothingDangles /\ Files /\ SpaceComesBack
      /\ Recoverable /\ NothingLost
  BY DEF StoreInv
<1>2. /\ saver[s] \in Attaching /\ saver[s] # Idle /\ c \in Contents /\ s \in Syncs
  BY <1>1, SaverState DEF SaverTypes
<1>3. /\ saver' \in [Savers -> {Idle} \cup Placing \cup Attaching]
      /\ saver'[s] = r
      /\ \A z \in Savers : z # s =>
            /\ saver'[z] = saver[z]
            /\ Owning(z)' <=> Owning(z)
            /\ Knows(z)' <=> Knows(z)
            /\ CountsOnFile(z)' <=> CountsOnFile(z)
            /\ MayHavePlaced(z)' <=> MayHavePlaced(z)
  BY <1>1, OneSaver
<1>4. r.pc \in {"idle", "add"} /\ Idle.pc = "idle" /\ s \notin Requests
  BY <1>2 DEF Idle
<1>5. c \in content
  BY <1>1, <1>2 DEF Rows, Knows
<1>6. remote \subseteq remote' /\ remote' \subseteq content
  BY <1>1, <1>5 DEF StoreTypes
<1>7. r # Idle => r.c = c /\ c \in remote'
  OBVIOUS
<1>8. UNCHANGED <<raced, givenUp, leaked, excused>>
  BY DEF history
<1>9. ~Owning(s)' /\ ~CountsOnFile(s)' /\ ~MayHavePlaced(s)
  BY <1>1, <1>3, <1>4 DEF Owning, CountsOnFile, MayHavePlaced
<1>10. \A p \in Repos : member'[p] \subseteq member[p] \cup {c}
  OBVIOUS
<1>11. member' = member \/ c \in excused \/ held[c] # 0 \/ c \in remote
  OBVIOUS
<1> HIDE DEF c
<1>12. StoreTypes'
  BY <1>1, <1>6 DEF StoreTypes
<1>13. OtherTypes' /\ DeleterTypes'
  BY <1>1, <1>8 DEF OtherTypes, DeleterTypes
<1>14. SaverTypes'
  BY <1>1, <1>2, <1>3, <1>4 DEF SaverTypes
<1>15. Rows'
  <2>1. \A z \in Savers : Owning(z)' => Owning(z) /\ saver'[z] = saver[z]
    BY <1>3, <1>9
  <2>2. \A z \in Savers : Knows(z)' /\ saver'[z].repo # "gone" => saver'[z].c \in content'
    <3>1. Knows(s)' => r # Idle
      BY <1>3, <1>4 DEF Knows
    <3> QED
      BY <1>1, <1>3, <1>5, <1>7, <3>1 DEF Rows
  <2> QED
    BY <1>1, <2>1, <2>2 DEF Rows
<1>16. InVersion' \subseteq InVersion \cup {c}
  BY <1>10 DEF InVersion
<1>17. NothingDangles'
  BY <1>1, <1>5, <1>16 DEF NothingDangles, RowOf
<1>18. Files'
  <2>1. \A d \in Digests : ReliedOn(d)' => ReliedOn(d)
    BY <1>3, <1>9 DEF ReliedOn
  <2> QED
    BY <1>1, <1>8, <2>1 DEF Files, Excused
<1>19. SpaceComesBack'
  <2>1. \A z \in Savers : MayHavePlaced(z) => MayHavePlaced(z)' /\ saver'[z] = saver[z]
    BY <1>3, <1>9
  <2> QED
    BY <1>1, <1>8, <2>1 DEF SpaceComesBack
<1>20. Recoverable'
  <2>1. \A z \in Syncs : saver'[z].pc = "add" /\ saver'[z].repo # "gone" =>
          saver'[z].c \in excused' \/ held'[saver'[z].c] # 0 \/ saver'[z].c \in remote'
    <3> SUFFICES ASSUME NEW z \in Syncs, saver'[z].pc = "add", saver'[z].repo # "gone"
                 PROVE  saver'[z].c \in excused' \/ held'[saver'[z].c] # 0 \/ saver'[z].c \in remote'
      OBVIOUS
    <3>1. CASE z = s
      <4>1. r # Idle
        BY <1>3, <1>4, <3>1
      <4> QED
        BY <1>3, <1>7, <3>1, <4>1
    <3>2. CASE z # s
      BY <1>1, <1>3, <1>6, <1>8, <3>2 DEF Recoverable, Savers
    <3> QED
      BY <3>1, <3>2
  <2> QED
    BY <1>1, <1>6, <1>8, <2>1 DEF Recoverable
<1>21. NothingLost'
  <2> SUFFICES ASSUME NEW x \in InVersion', x \notin excused
               PROVE  held[x] # 0 \/ x \in remote'
    BY <1>8 DEF NothingLost
  <2>1. CASE x \in InVersion
    BY <1>1, <1>6, <2>1 DEF NothingLost
  <2>2. CASE x \notin InVersion
    <3>1. x = c /\ member' # member
      BY <1>16, <2>2 DEF InVersion
    <3> QED
      BY <1>6, <1>11, <3>1
  <2> QED
    BY <2>1, <2>2
<1> QED
  BY <1>12, <1>13, <1>14, <1>15, <1>17, <1>18, <1>19, <1>20, <1>21 DEF StoreInv

\* Content that is gone is not linked to anything: the sync is done with it.
LEMMA GoneStep ==
    ASSUME StoreInv, NEW s \in Savers, saver[s].pc \in {"remote", "add"},
           saver' = [saver EXCEPT ![s] = Idle],
           UNCHANGED <<store, deleter, repair, rot, started, history>>
    PROVE  StoreInv'
<1>1. SaverTypes /\ OtherTypes
  BY DEF StoreInv
<1>2. saver'[s] = Idle /\ Idle.pc = "idle"
  BY <1>1 DEF SaverTypes, Idle
<1>3. ~Knows(s)' /\ ~MayHavePlaced(s)
  BY <1>1, <1>2 DEF Knows, MayHavePlaced, CountsOnFile
<1>4. UNCHANGED <<raced, givenUp, leaked, excused>> /\ leaked \subseteq Digests
      /\ started' \in 0 .. MaxStarts
  BY <1>1 DEF history, OtherTypes
<1> QED
  BY <1>2, <1>3, <1>4, SaverOnly

\* A RemoteArtifact for content that is there.
LEMMA SaveRemoteStep ==
    ASSUME StoreInv, NEW s \in Savers, SaveRemote(s)
    PROVE  StoreInv'
<1> DEFINE g == [saver[s] EXCEPT !.pc = "add"]
<1>1. StoreTypes /\ SaverTypes
  BY DEF StoreInv
<1>2. saver[s].pc = "remote"
  BY DEF SaveRemote
<1>3. saver[s] \in Attaching
  BY <1>1, <1>2, SaverState
<1>4. g \in Attaching /\ g.pc = "add" /\ g.c = saver[s].c
  BY <1>3, AttachingMoves
<1>5. CASE saver[s].repo = "gone"
  BY <1>2, <1>5, GoneStep DEF SaveRemote, store
<1>6. CASE saver[s].repo # "gone"
  <2>1. remote' = remote \cup {saver[s].c}
    BY <1>6 DEF SaveRemote
  <2>2. saver' = [saver EXCEPT ![s] = g]
    BY <1>1, <1>6, TwoFields, Zenon DEF SaveRemote, Goto, SaverTypes
  <2>3. /\ member' \in [Repos -> SUBSET Contents] /\ member' = member
        /\ \A p \in Repos : member'[p] \subseteq member[p] \cup {saver[s].c}
    BY <1>1 DEF StoreTypes, SaveRemote
  <2>4. UNCHANGED <<row, born, file, content, held, deleter, repair, rot,
                    started, history>>
    BY DEF SaveRemote
  <2>5. g.c \in remote'
    BY <1>4, <2>1
  <2> HIDE DEF g
  <2> QED
    BY <1>2, <1>4, <1>6, <2>1, <2>2, <2>3, <2>4, <2>5, ContentLinked
<1> QED
  BY <1>5, <1>6

\* The content is added to the new version of the repository.
LEMMA AddContentStep ==
    ASSUME StoreInv, NEW s \in Savers, AddContent(s)
    PROVE  StoreInv'
<1> DEFINE c == saver[s].c
           repo == saver[s].repo
<1>1. StoreTypes /\ SaverTypes /\ Recoverable
  BY DEF StoreInv
<1>2. /\ saver[s].pc = "add" /\ saver' = [saver EXCEPT ![s] = Idle]
      /\ UNCHANGED <<row, born, file, content, held, remote, deleter, repair,
                     rot, started, history>>
      /\ member' = IF repo = "gone" THEN member
                   ELSE [member EXCEPT ![repo] = @ \cup {c}]
  BY DEF AddContent
<1>3. saver[s] \in Attaching /\ c \in Contents /\ s \in Syncs
  BY <1>1, <1>2, SaverState DEF SaverTypes
<1>4. CASE repo = "gone"
  BY <1>2, <1>4, GoneStep DEF store
<1>5. CASE repo # "gone"
  <2>1. /\ member' \in [Repos -> SUBSET Contents]
        /\ \A p \in Repos : member'[p] \subseteq member[p] \cup {c}
    BY <1>1, <1>2, <1>3, <1>5 DEF StoreTypes
  <2>2. c \in excused \/ held[c] # 0 \/ c \in remote
    BY <1>1, <1>2, <1>3, <1>5 DEF Recoverable
  <2> QED
    BY <1>2, <1>5, <2>1, <2>2, ContentLinked
<1> QED
  BY <1>4, <1>5

\* A repository is dropped with its versions, or the remote of some content.
LEMMA DropStep ==
    ASSUME StoreInv,
           \/ \E r \in Repos : DropRepository(r)
           \/ \E c \in Contents : DropRemote(c)
    PROVE  StoreInv'
<1>1. /\ StoreTypes /\ OtherTypes /\ SaverTypes /\ DeleterTypes
      /\ Rows /\ NothingDangles /\ Files /\ SpaceComesBack
      /\ Recoverable /\ NothingLost
  BY DEF StoreInv
<1>2. ASSUME NEW r \in Repos, DropRepository(r)
      PROVE  StoreInv'
  <2>1. /\ member' = [member EXCEPT ![r] = {}]
        /\ UNCHANGED <<row, born, file, content, held, remote, saver, deleter,
                       repair, rot, started, raced, givenUp, leaked, excused>>
    BY <1>2 DEF DropRepository, history
  <2>2. StoreTypes' /\ InVersion' \subseteq InVersion
    BY <1>1, <2>1 DEF StoreTypes, InVersion
  <2>3. OtherTypes' /\ SaverTypes' /\ DeleterTypes'
    BY <1>1, <2>1 DEF OtherTypes, SaverTypes, DeleterTypes
  <2>4. Rows'
    BY <1>1, <2>1 DEF Rows, Owning, Knows
  <2>5. Files' /\ SpaceComesBack'
    BY <1>1, <2>1 DEF Files, SpaceComesBack, ReliedOn, Excused, MayHavePlaced, CountsOnFile
  <2>6. NothingDangles' /\ NothingLost'
    BY <1>1, <2>1, <2>2 DEF NothingDangles, NothingLost, RowOf
  <2>7. Recoverable'
    BY <1>1, <2>1 DEF Recoverable
  <2> QED
    BY <2>2, <2>3, <2>4, <2>5, <2>6, <2>7 DEF StoreInv
<1>3. ASSUME NEW c \in Contents, DropRemote(c)
      PROVE  StoreInv'
  <2>1. /\ c \in remote /\ remote' = remote \ {c}
        /\ excused' = IF held[c] = 0 \/ (/\ deleter[Reclaim].pc = "forget"
                                         /\ c \in deleter[Reclaim].todo)
                      THEN excused \cup {c} ELSE excused
        /\ UNCHANGED <<row, born, file, content, held, member, saver, deleter,
                       repair, rot, started, raced, givenUp, leaked>>
    BY <1>3 DEF DropRemote
  <2>2. StoreTypes' /\ OtherTypes' /\ SaverTypes' /\ DeleterTypes'
    BY <1>1, <2>1 DEF StoreTypes, OtherTypes, SaverTypes, DeleterTypes
  <2>3. Rows'
    BY <1>1, <2>1 DEF Rows, Owning, Knows
  <2>4. Files' /\ SpaceComesBack'
    BY <1>1, <2>1 DEF Files, SpaceComesBack, ReliedOn, Excused, MayHavePlaced, CountsOnFile
  <2>5. NothingDangles' /\ NothingLost'
    BY <1>1, <2>1 DEF NothingDangles, NothingLost, RowOf, InVersion
  <2>6. Recoverable'
    BY <1>1, <2>1 DEF Recoverable
  <2> QED
    BY <2>2, <2>3, <2>4, <2>5, <2>6 DEF StoreInv
<1> QED
  BY <1>2, <1>3

-----------------------------------------------------------------------------
(***************************************************************************)
(* Those who delete.                                                       *)
(***************************************************************************)
\* Deleting one artifact after the other, one statement after the other.
LEMMA DeletingMoves ==
    ASSUME NEW r \in Choosing \cup Removing, NEW x \in SUBSET (Digests \X Nat)
    PROVE  /\ \A p \in {"idle", "select", "artifacts"} :
                LET n == [[r EXCEPT !.pc = p] EXCEPT !.victim = NoVictim] IN
                   /\ n \in Choosing /\ n.pc = p /\ n.victim = NoVictim
           /\ \A p \in {"select", "artifacts"} : r \in Choosing =>
                LET n == [[r EXCEPT !.pc = p] EXCEPT !.todo = x] IN
                   /\ n \in Choosing /\ n.pc = p
           /\ r \in Choosing =>
                LET n == [[[r EXCEPT !.todo = x] EXCEPT !.pc = "artifacts"]
                              EXCEPT !.victim = r.victim] IN
                   /\ n \in Choosing /\ n.pc = "artifacts"
           /\ \A a \in Digests \X Nat :
                LET n == [[[r EXCEPT !.todo = x] EXCEPT !.pc = "commit"]
                              EXCEPT !.victim = a] IN
                   /\ n \in Removing /\ n.pc = "commit" /\ n.victim = a
           /\ r \in Removing =>
                LET n == [r EXCEPT !.pc = "unlink"] IN
                   /\ n \in Removing /\ n.pc = "unlink" /\ n.victim = r.victim
<1>1. /\ DOMAIN r = {"pc", "todo", "victim"}
      /\ r = [pc |-> r.pc, todo |-> r.todo, victim |-> r.victim]
      /\ r.todo \in SUBSET (Digests \X Nat)
  BY DEF Choosing, Removing
<1>2. r \in Choosing => r.victim = NoVictim
  BY DEF Choosing
<1>3. r \in Removing => r.victim \in Digests \X Nat
  BY DEF Removing
<1> DEFINE rec(p, u, v) == [pc |-> p, todo |-> u, victim |-> v]
<1>2a. /\ \A p, u, v, q : [rec(p, u, v) EXCEPT !.pc = q] = rec(q, u, v)
       /\ \A p, u, v, q : [rec(p, u, v) EXCEPT !.todo = q] = rec(p, q, v)
       /\ \A p, u, v, q : [rec(p, u, v) EXCEPT !.victim = q] = rec(p, u, q)
  OBVIOUS
<1>2b. r = rec(r.pc, r.todo, r.victim)
  BY <1>1
<1> HIDE DEF rec
<1>2c. /\ \A p : [r EXCEPT !.pc = p] = rec(p, r.todo, r.victim)
       /\ [r EXCEPT !.todo = x] = rec(r.pc, x, r.victim)
  BY <1>2a, <1>2b
<1>4. \A p, v : [[r EXCEPT !.pc = p] EXCEPT !.victim = v] = [pc |-> p, todo |-> r.todo, victim |-> v]
  <2>1. \A p, v : [[r EXCEPT !.pc = p] EXCEPT !.victim = v] = rec(p, r.todo, v)
    <3> SUFFICES ASSUME NEW p, NEW v
                 PROVE  [[r EXCEPT !.pc = p] EXCEPT !.victim = v] = rec(p, r.todo, v)
      BY Zenon
    <3>1. [r EXCEPT !.pc = p] = rec(p, r.todo, r.victim)
      BY <1>2c
    <3>2. [rec(p, r.todo, r.victim) EXCEPT !.victim = v] = rec(p, r.todo, v)
      BY <1>2a
    <3> QED
      BY <3>1, <3>2
  <2> QED
    BY <2>1, Zenon DEF rec
<1>5. \A p : [[r EXCEPT !.pc = p] EXCEPT !.todo = x] = [pc |-> p, todo |-> x, victim |-> r.victim]
  <2>1. \A p : [[r EXCEPT !.pc = p] EXCEPT !.todo = x] = rec(p, x, r.victim)
    <3> SUFFICES ASSUME NEW p
                 PROVE  [[r EXCEPT !.pc = p] EXCEPT !.todo = x] = rec(p, x, r.victim)
      BY Zenon
    <3>1. [r EXCEPT !.pc = p] = rec(p, r.todo, r.victim)
      BY <1>2c
    <3>2. [rec(p, r.todo, r.victim) EXCEPT !.todo = x] = rec(p, x, r.victim)
      BY <1>2a
    <3> QED
      BY <3>1, <3>2
  <2> QED
    BY <2>1, Zenon DEF rec
<1>6. \A p, v : [[[r EXCEPT !.todo = x] EXCEPT !.pc = p] EXCEPT !.victim = v]
                  = [pc |-> p, todo |-> x, victim |-> v]
  <2>1. \A p, v : [[[r EXCEPT !.todo = x] EXCEPT !.pc = p] EXCEPT !.victim = v]
                     = rec(p, x, v)
    <3> SUFFICES ASSUME NEW p, NEW v
                 PROVE  [[[r EXCEPT !.todo = x] EXCEPT !.pc = p] EXCEPT !.victim = v]
                          = rec(p, x, v)
      BY Zenon
    <3>1. [r EXCEPT !.todo = x] = rec(r.pc, x, r.victim)
      BY <1>2c
    <3>2. [rec(r.pc, x, r.victim) EXCEPT !.pc = p] = rec(p, x, r.victim)
      BY <1>2a
    <3>3. [rec(p, x, r.victim) EXCEPT !.victim = v] = rec(p, x, v)
      BY <1>2a
    <3> QED
      BY <3>1, <3>2, <3>3
  <2> QED
    BY <2>1, Zenon DEF rec
<1>7. [r EXCEPT !.pc = "unlink"] = [pc |-> "unlink", todo |-> r.todo, victim |-> r.victim]
  BY <1>1
<1>8. \A p \in {"idle", "select", "artifacts"} :
         LET n == [[r EXCEPT !.pc = p] EXCEPT !.victim = NoVictim] IN
            /\ n \in Choosing /\ n.pc = p /\ n.victim = NoVictim
  BY <1>1, <1>4, Zenon DEF Choosing
<1>9. \A p \in {"select", "artifacts"} : r \in Choosing =>
         LET n == [[r EXCEPT !.pc = p] EXCEPT !.todo = x] IN
            /\ n \in Choosing /\ n.pc = p
  BY <1>2, <1>5, Zenon DEF Choosing
<1>10. r \in Choosing =>
         LET n == [[[r EXCEPT !.todo = x] EXCEPT !.pc = "artifacts"]
                       EXCEPT !.victim = r.victim] IN
            /\ n \in Choosing /\ n.pc = "artifacts"
  BY <1>2, <1>6, Zenon DEF Choosing
<1>11. \A a \in Digests \X Nat :
         LET n == [[[r EXCEPT !.todo = x] EXCEPT !.pc = "commit"]
                       EXCEPT !.victim = a] IN
            /\ n \in Removing /\ n.pc = "commit" /\ n.victim = a
  BY <1>6, Zenon DEF Removing
<1>12. r \in Removing =>
         LET n == [r EXCEPT !.pc = "unlink"] IN
            /\ n \in Removing /\ n.pc = "unlink" /\ n.victim = r.victim
  BY <1>1, <1>3, <1>7 DEF Removing
<1> QED
  BY <1>8, <1>9, <1>10, <1>11, <1>12, Zenon

\* What is assigned to the record of one task is assigned field by field.
LEMMA ThreeFields ==
    ASSUME NEW S, NEW T, NEW f \in [S -> T], NEW s \in S, NEW x, NEW y, NEW z
    PROVE  /\ [f EXCEPT ![s].pc = x, ![s].victim = y]
                = [f EXCEPT ![s] = [[f[s] EXCEPT !.pc = x] EXCEPT !.victim = y]]
           /\ [f EXCEPT ![s].pc = x, ![s].todo = y]
                = [f EXCEPT ![s] = [[f[s] EXCEPT !.pc = x] EXCEPT !.todo = y]]
           /\ [f EXCEPT ![s].todo = x, ![s].pc = y, ![s].victim = z]
                = [f EXCEPT ![s] = [[[f[s] EXCEPT !.todo = x] EXCEPT !.pc = y]
                                       EXCEPT !.victim = z]]
           /\ [f EXCEPT ![s].pc = x, ![s].todo = y, ![s].remotes = z]
                = [f EXCEPT ![s] = [[[f[s] EXCEPT !.pc = x] EXCEPT !.todo = y]
                                       EXCEPT !.remotes = z]]
OBVIOUS

\* Where a task is tells what its record holds.
LEMMA DeleterState ==
    ASSUME DeleterTypes, NEW t \in Deleters
    PROVE  /\ deleter[t].pc \in {"protect", "content"} =>
                 deleter[t] \in Protecting /\ t = Cleanup
           /\ deleter[t].pc = "forget" => deleter[t] \in Forgetting /\ t = Reclaim
           /\ deleter[t].pc \in {"idle", "select", "artifacts"} => deleter[t] \in Choosing
           /\ deleter[t].pc \in {"commit", "unlink"} =>
                 /\ deleter[t] \in Removing /\ deleter[t].victim[1] \in Digests
                 /\ deleter[t] # Resting
           /\ deleter[t].pc \in {"idle", "select", "artifacts", "protect", "content",
                                 "forget", "commit", "unlink"}
<1>1. deleter[t] \in Protecting \cup Forgetting \cup Choosing \cup Removing
  BY DEF DeleterTypes
<1>2. /\ \A r \in Protecting : r.pc \in {"protect", "content"}
      /\ \A r \in Forgetting : r.pc = "forget"
      /\ \A r \in Choosing : r.pc \in {"idle", "select", "artifacts"}
      /\ \A r \in Removing : /\ r.pc \in {"commit", "unlink"}
                             /\ r.victim \in Digests \X Nat /\ r.victim[1] \in Digests
  BY DEF Protecting, Forgetting, Choosing, Removing
<1>3. Resting.pc = "idle"
  BY DEF Resting
<1>4. t \in {Cleanup, Reclaim}
  BY DEF Deleters
<1> QED
  BY <1>1, <1>2, <1>3, <1>4 DEF DeleterTypes

\* A task goes on without a change of anything else: what it will take from
\* content can be had again, and what it was about to remove is not forgotten.
LEMMA DeleterOnly ==
    ASSUME StoreInv, NEW t \in Deleters,
           NEW r \in Protecting \cup Forgetting \cup Choosing \cup Removing,
           deleter' = [deleter EXCEPT ![t] = r],
           r \in Forgetting => t = Reclaim /\ r.todo \subseteq content
                               /\ (~r.force => r.todo \subseteq remote \cup excused),
           r \in Protecting => t = Cleanup,
           UNCHANGED <<store, saver, repair, rot, raced, givenUp, excused>>,
           leaked \subseteq leaked', leaked' \subseteq Digests,
           started' \in 0 .. MaxStarts,
           deleter[t].pc = "unlink" => deleter[t].victim[1] \in leaked'
    PROVE  StoreInv'
<1> USE StoreAssumption
<1>1. /\ StoreTypes /\ OtherTypes /\ SaverTypes /\ DeleterTypes
      /\ Rows /\ NothingDangles /\ Files /\ SpaceComesBack
      /\ Recoverable /\ NothingLost
  BY DEF StoreInv
<1>2. /\ UNCHANGED <<row, born, file, content, held, remote, member>>
      /\ UNCHANGED <<saver, repair, rot, raced, givenUp, excused>>
  BY DEF store
<1>3. /\ deleter' \in [Deleters -> Protecting \cup Forgetting \cup Choosing \cup Removing]
      /\ deleter'[t] = r /\ \A u \in Deleters : u # t => deleter'[u] = deleter[u]
  BY <1>1 DEF DeleterTypes
<1>4. Cleanup \in Deleters /\ Reclaim \in Deleters
  BY DEF Deleters
<1>5. DeleterTypes'
  <2>1. deleter'[Cleanup] \notin Forgetting
    BY <1>1, <1>3, <1>4 DEF DeleterTypes
  <2>2. deleter'[Reclaim] \notin Protecting
    BY <1>1, <1>3, <1>4 DEF DeleterTypes
  <2> QED
    BY <1>3, <2>1, <2>2 DEF DeleterTypes
<1>6. StoreTypes' /\ OtherTypes' /\ SaverTypes'
  BY <1>1, <1>2 DEF StoreTypes, OtherTypes, SaverTypes
<1>7. Rows' /\ NothingDangles' /\ NothingLost'
  BY <1>1, <1>2 DEF Rows, Owning, Knows, NothingDangles, NothingLost, InVersion, RowOf
<1>8. Files'
  BY <1>1, <1>2 DEF Files, ReliedOn, CountsOnFile, Excused
<1>9. SpaceComesBack'
  BY <1>1, <1>2, <1>3 DEF SpaceComesBack, MayHavePlaced, CountsOnFile
<1>10. Recoverable'
  <2>1. deleter'[Reclaim].pc = "forget" =>
          /\ deleter'[Reclaim].todo \subseteq content
          /\ ~deleter'[Reclaim].force => deleter'[Reclaim].todo \subseteq remote \cup excused
    <3>1. CASE t = Reclaim
      <4>1. r.pc = "forget" => r \in Forgetting
        BY DEF Protecting, Choosing, Removing
      <4> QED
        BY <1>3, <3>1, <4>1
    <3>2. CASE t # Reclaim
      BY <1>1, <1>3, <1>4, <3>2 DEF Recoverable
    <3> QED
      BY <3>1, <3>2
  <2> QED
    BY <1>1, <1>2, <2>1 DEF Recoverable
<1> QED
  BY <1>5, <1>6, <1>7, <1>8, <1>9, <1>10 DEF StoreInv

\* The record of a task that has nothing to do.
LEMMA RestingType ==
    /\ Resting \in Choosing /\ Resting.pc = "idle"
    /\ Resting \notin Forgetting \cup Protecting
BY DEF Resting, Choosing, Forgetting, Protecting, NoVictim

\* A record is of one kind.
LEMMA DeleterKinds ==
    /\ Choosing \cap Forgetting = {} /\ Choosing \cap Protecting = {}
    /\ Removing \cap Forgetting = {} /\ Removing \cap Protecting = {}
    /\ Protecting \cap Forgetting = {}
BY DEF Protecting, Forgetting, Choosing, Removing

\* The collector goes on to delete one artifact.
LEMMA DeletingCommits ==
    ASSUME NEW r \in Choosing \cup Removing, NEW x \in SUBSET (Digests \X Nat),
           NEW a \in Digests \X Nat
    PROVE  [[[r EXCEPT !.todo = x] EXCEPT !.pc = "commit"] EXCEPT !.victim = a] \in Removing
<1> DEFINE rec(p, u, v) == [pc |-> p, todo |-> u, victim |-> v]
<1>1. PICK p, u, v : r = rec(p, u, v)
  BY DEF Choosing, Removing
<1>2. /\ [rec(p, u, v) EXCEPT !.todo = x] = rec(p, x, v)
      /\ [rec(p, x, v) EXCEPT !.pc = "commit"] = rec("commit", x, v)
      /\ [rec("commit", x, v) EXCEPT !.victim = a] = rec("commit", x, a)
  OBVIOUS
<1>3. rec("commit", x, a) \in Removing
  BY DEF Removing
<1> HIDE DEF rec
<1> QED
  BY <1>1, <1>2, <1>3

\* What is assigned to a record is assigned field by field.
LEMMA TodoFields ==
    ASSUME NEW S, NEW T, NEW f \in [S -> T], NEW s \in S, NEW x, NEW y, NEW z
    PROVE  [f EXCEPT ![s].todo = x, ![s].pc = y, ![s].victim = z]
             = [f EXCEPT ![s] = [[[f[s] EXCEPT !.todo = x] EXCEPT !.pc = y] EXCEPT !.victim = z]]
OBVIOUS

\* The collector looks for what refers to an artifact.
LEMMA DeleteArtifactStep ==
    ASSUME StoreInv, NEW t \in Deleters, NEW a \in Digests \X (1 .. MaxRows),
           DeleteArtifact(t, a)
    PROVE  StoreInv'
<1> DEFINE r == deleter[t]
           x == r.todo \ {a}
           n == [[[r EXCEPT !.todo = x] EXCEPT !.pc = "commit"] EXCEPT !.victim = a]
           m == [[[r EXCEPT !.todo = x] EXCEPT !.pc = "artifacts"]
                     EXCEPT !.victim = r.victim]
<1>1. DeleterTypes /\ OtherTypes /\ a \in Digests \X Nat
  BY StoreAssumption DEF StoreInv
<1>2. /\ r.pc = "artifacts" /\ UNCHANGED <<store, saver, repair, rot, started, history>>
  BY Zenon DEF DeleteArtifact
<1>3. r \in Choosing /\ x \in SUBSET (Digests \X Nat)
  BY <1>1, <1>2, DeleterState DEF Choosing
<1>4. n \in Removing /\ m \in Choosing
  <2> HIDE DEF r, x
  <2>1. n \in Removing
    <3>1. r \in Choosing \cup Removing
      BY <1>3
    <3> QED
      BY <1>1, <1>3, <3>1, DeletingCommits, Zenon
  <2>2. m \in Choosing
    BY <1>3, DeletingMoves, Zenon
  <2> QED
    BY <2>1, <2>2
<1>5. deleter' = [deleter EXCEPT ![t] = n] \/ deleter' = [deleter EXCEPT ![t] = m]
  <2>1. deleter \in [Deleters -> Protecting \cup Forgetting \cup Choosing \cup Removing]
    BY <1>1 DEF DeleterTypes
  <2>2. /\ [deleter EXCEPT ![t].todo = x, ![t].pc = "commit", ![t].victim = a]
             = [deleter EXCEPT ![t] = n]
        /\ [deleter EXCEPT ![t].todo = x, ![t].pc = "artifacts", ![t].victim = r.victim]
             = [deleter EXCEPT ![t] = m]
    <3>1. [deleter EXCEPT ![t].todo = x, ![t].pc = "commit", ![t].victim = a]
             = [deleter EXCEPT ![t] = n]
      BY <2>1, TodoFields, Zenon
    <3>2. [deleter EXCEPT ![t].todo = x, ![t].pc = "artifacts", ![t].victim = r.victim]
             = [deleter EXCEPT ![t] = m]
      BY <2>1, TodoFields, Zenon
    <3> QED
      BY <3>1, <3>2
  <2>3. CASE References(a[1], a[2]) = {}
    <3>1. deleter' = [deleter EXCEPT ![t].todo = x, ![t].pc = "commit", ![t].victim = a]
      BY <2>3 DEF DeleteArtifact
    <3> QED
      BY <2>2, <3>1
  <2>4. CASE References(a[1], a[2]) # {}
    <3>1. deleter' = [deleter EXCEPT ![t].todo = x, ![t].pc = "artifacts",
                                     ![t].victim = r.victim]
      BY <2>1, <2>4, Zenon DEF DeleteArtifact
    <3> QED
      BY <2>2, <3>1
  <2> QED
    BY <2>3, <2>4
<1>6. /\ leaked' = leaked /\ leaked \subseteq Digests /\ started' \in 0 .. MaxStarts
      /\ UNCHANGED <<store, saver, repair, rot, raced, givenUp, excused>>
      /\ deleter[t].pc # "unlink"
  BY <1>1, <1>2 DEF OtherTypes, history
<1> HIDE DEF n, m, x, r
<1>7. CASE deleter' = [deleter EXCEPT ![t] = n]
  BY <1>4, <1>6, <1>7, DeleterKinds, DeleterOnly
<1>8. CASE deleter' = [deleter EXCEPT ![t] = m]
  BY <1>4, <1>6, <1>8, DeleterKinds, DeleterOnly
<1> QED
  BY <1>5, <1>7, <1>8

\* A task ends, or dies: a file it was about to remove is left behind.
LEMMA DeleterEndsStep ==
    ASSUME StoreInv, NEW t \in Deleters, DeletionEnds(t) \/ DeleterDies(t)
    PROVE  StoreInv'
<1>1. DeleterTypes /\ OtherTypes
  BY DEF StoreInv
<1>2. /\ deleter' = [deleter EXCEPT ![t] = Resting]
      /\ UNCHANGED <<store, saver, repair, rot, started, raced, givenUp, excused>>
      /\ \/ deleter[t].pc = "artifacts" /\ leaked' = leaked
         \/ leaked' = IF deleter[t].pc = "unlink" THEN leaked \cup {deleter[t].victim[1]}
                      ELSE leaked
  BY DEF DeletionEnds, DeleterDies, history
<1>3. leaked \subseteq Digests /\ started' \in 0 .. MaxStarts
  BY <1>1, <1>2 DEF OtherTypes
<1>4. deleter[t].pc = "unlink" => deleter[t].victim[1] \in Digests
  BY <1>1, DeleterState
<1>5. /\ leaked \subseteq leaked' /\ leaked' \subseteq Digests
      /\ deleter[t].pc = "unlink" => deleter[t].victim[1] \in leaked'
  BY <1>2, <1>3, <1>4
<1> QED
  BY <1>2, <1>3, <1>5, RestingType, DeleterOnly

\* The cleanup and the reclaim choose what to delete.
LEMMA ChoosingStep ==
    ASSUME StoreInv,
           \/ CleanupStarts \/ ProtectContent \/ SelectArtifacts
           \/ \E repos \in SUBSET Repos, keep \in SUBSET content, force \in BOOLEAN :
                 ReclaimStarts(repos, keep, force)
    PROVE  StoreInv'
<1> USE StoreAssumption
<1>1. StoreTypes /\ DeleterTypes /\ OtherTypes /\ NothingDangles
  BY DEF StoreInv
<1>2. Cleanup \in Deleters /\ Reclaim \in Deleters
  BY DEF Deleters
<1>3. /\ UNCHANGED <<store, saver, repair, rot, raced, givenUp, excused>>
      /\ leaked' = leaked /\ leaked \subseteq Digests /\ started' \in 0 .. MaxStarts
  BY <1>1 DEF CleanupStarts, ProtectContent, SelectArtifacts, ReclaimStarts, Start,
              OtherTypes, history
<1>4. deleter \in [Deleters -> Protecting \cup Forgetting \cup Choosing \cup Removing]
  BY <1>1 DEF DeleterTypes
<1>5. content \subseteq Contents /\ remote \subseteq Contents
  BY <1>1 DEF StoreTypes
<1>6. CASE CleanupStarts
  <2> DEFINE r == [pc |-> "protect", todo |-> Orphans, victim |-> <<NoDigest, 0>>,
                   remotes |-> {}]
  <2>1. r \in Protecting
    <3>1. Orphans \in SUBSET Contents /\ {} \in SUBSET Contents
      BY <1>5 DEF Orphans
    <3> QED
      BY <3>1 DEF Protecting, NoVictim
  <2>2. deleter' = [deleter EXCEPT ![Cleanup] = r] /\ deleter[Cleanup].pc # "unlink"
    BY <1>2, <1>6, RestingType DEF CleanupStarts
  <2> HIDE DEF r
  <2> QED
    BY <1>2, <1>3, <2>1, <2>2, DeleterKinds, DeleterOnly
<1>7. CASE ProtectContent
  <2> DEFINE o == deleter[Cleanup]
             free == o.todo \cap Orphans
             r == [[[o EXCEPT !.pc = "content"] EXCEPT !.todo = free]
                       EXCEPT !.remotes = remote \cap free]
  <2>1. o.pc = "protect"
    BY <1>7 DEF ProtectContent
  <2>2. o \in Protecting
    BY <1>1, <1>2, <2>1, DeleterState
  <2>3. free \subseteq Contents /\ remote \cap free \subseteq Contents
    BY <1>5 DEF Orphans
  <2>4. r \in Protecting
    <3>1. \A f, g \in SUBSET Contents : \A q \in Protecting :
             [[[q EXCEPT !.pc = "content"] EXCEPT !.todo = f] EXCEPT !.remotes = g]
                \in Protecting
      BY DEF Protecting
    <3> HIDE DEF o, free
    <3> QED
      BY <2>2, <2>3, <3>1, Zenon
  <2>5. deleter' = [deleter EXCEPT ![Cleanup] = r]
    <3>1. deleter' = [deleter EXCEPT ![Cleanup].pc = "content", ![Cleanup].todo = free,
                                     ![Cleanup].remotes = remote \cap free]
      BY <1>7 DEF ProtectContent
    <3> HIDE DEF free
    <3>2. [deleter EXCEPT ![Cleanup].pc = "content", ![Cleanup].todo = free,
                          ![Cleanup].remotes = remote \cap free]
            = [deleter EXCEPT ![Cleanup] = r]
      BY <1>2, <1>4
    <3> QED
      BY <3>1, <3>2
  <2> HIDE DEF r
  <2> QED
    BY <1>2, <1>3, <2>1, <2>4, <2>5, DeleterKinds, DeleterOnly
<1>8. CASE SelectArtifacts
  <2> DEFINE o == deleter[Cleanup]
             x == {<<d, row[d]>> : d \in
                      {e \in Digests : row[e] # 0 /\ References(e, row[e]) = {}}}
             r == [[o EXCEPT !.pc = "artifacts"] EXCEPT !.todo = x]
  <2>1. o.pc = "select"
    BY <1>8 DEF SelectArtifacts
  <2>2. o \in Choosing
    BY <1>1, <1>2, <2>1, DeleterState
  <2>3. x \in SUBSET (Digests \X Nat)
    BY <1>1 DEF StoreTypes
  <2>4. deleter' = [deleter EXCEPT ![Cleanup].pc = "artifacts", ![Cleanup].todo = x]
    BY <1>8 DEF SelectArtifacts
  <2> HIDE DEF x
  <2>5. r \in Choosing
    BY <2>2, <2>3, DeletingMoves, Zenon
  <2>6. deleter' = [deleter EXCEPT ![Cleanup] = r]
    <3>1. [deleter EXCEPT ![Cleanup].pc = "artifacts", ![Cleanup].todo = x]
            = [deleter EXCEPT ![Cleanup] = r]
      BY <1>2, <1>4
    <3> QED
      BY <2>4, <3>1
  <2> HIDE DEF r
  <2> QED
    BY <1>2, <1>3, <2>1, <2>5, <2>6, DeleterKinds, DeleterOnly
<1>9. ASSUME NEW repos \in SUBSET Repos, NEW keep \in SUBSET content,
             NEW force \in BOOLEAN, ReclaimStarts(repos, keep, force)
      PROVE  StoreInv'
  <2> DEFINE cas == Reclaimable(repos, keep, force)
             x == {<<DigestOf[c], held[c]>> : c \in cas}
             r == [pc |-> "forget", todo |-> cas, victim |-> <<NoDigest, 0>>,
                   arts |-> x, force |-> force]
  <2>1. cas \subseteq InVersion /\ (~force => cas \subseteq remote)
    BY DEF Reclaimable, InVersion
  <2>2. cas \subseteq content /\ cas \subseteq Contents
    BY <1>1, <1>5, <2>1 DEF NothingDangles
  <2>3. x \in SUBSET (Digests \X Nat)
    BY <1>1, <2>2 DEF StoreTypes
  <2>4. deleter' = [deleter EXCEPT ![Reclaim] = r] /\ deleter[Reclaim].pc # "unlink"
    BY <1>2, <1>9, RestingType DEF ReclaimStarts
  <2> HIDE DEF x, cas
  <2>5. r \in Forgetting /\ r.todo = cas /\ r.force = force
    BY <2>2, <2>3 DEF Forgetting, NoVictim
  <2> HIDE DEF r
  <2> QED
    BY <1>2, <1>3, <2>1, <2>2, <2>4, <2>5, DeleterKinds, DeleterOnly
<1> QED
  BY <1>6, <1>7, <1>8, <1>9

\* One task goes on, the other is where it was.
LEMMA OneDeleter ==
    ASSUME DeleterTypes, NEW t \in Deleters,
           NEW r \in Protecting \cup Forgetting \cup Choosing \cup Removing,
           r \in Forgetting => t = Reclaim, r \in Protecting => t = Cleanup,
           deleter' = [deleter EXCEPT ![t] = r]
    PROVE  /\ DeleterTypes' /\ deleter'[t] = r
           /\ \A u \in Deleters : u # t => deleter'[u] = deleter[u]
<1> USE StoreAssumption
<1>1. Cleanup \in Deleters /\ Reclaim \in Deleters
  BY DEF Deleters
<1>2. /\ deleter' \in [Deleters -> Protecting \cup Forgetting \cup Choosing \cup Removing]
      /\ deleter'[t] = r /\ \A u \in Deleters : u # t => deleter'[u] = deleter[u]
  BY DEF DeleterTypes
<1>3. deleter'[Cleanup] \notin Forgetting
  BY <1>1, <1>2 DEF DeleterTypes
<1>4. deleter'[Reclaim] \notin Protecting
  BY <1>1, <1>2 DEF DeleterTypes
<1> QED
  BY <1>2, <1>3, <1>4 DEF DeleterTypes

\* A row is deleted: its file is still to be removed.
LEMMA CommitDeleteStep ==
    ASSUME StoreInv, NEW t \in Deleters, CommitDelete(t)
    PROVE  StoreInv'
<1> USE StoreAssumption
<1> DEFINE d == deleter[t].victim[1]
           pk == deleter[t].victim[2]
           r == [deleter[t] EXCEPT !.pc = "unlink"]
<1>1. /\ StoreTypes /\ OtherTypes /\ SaverTypes /\ DeleterTypes
      /\ Rows /\ NothingDangles /\ Files /\ SpaceComesBack
      /\ Recoverable /\ NothingLost
  BY DEF StoreInv
<1>2. /\ deleter[t].pc = "commit"
      /\ UNCHANGED <<born, file, content, held, remote, member, saver, repair, rot,
                     started, raced, givenUp, leaked, excused>>
      /\ \/ deleter' = [deleter EXCEPT ![t] = Resting] /\ row' = row
         \/ /\ References(d, pk) = {}
            /\ row' = IF row[d] = pk THEN [row EXCEPT ![d] = 0] ELSE row
            /\ Step(t, "unlink")
  BY DEF CommitDelete, history
<1>3. deleter[t] \in Removing /\ d \in Digests
  BY <1>1, <1>2, DeleterState
<1>4. r \in Removing /\ r.pc = "unlink" /\ r.victim = deleter[t].victim
  BY <1>3, DeletingMoves, Zenon
<1>5. CASE deleter' = [deleter EXCEPT ![t] = Resting] /\ row' = row
  <2>1. leaked \subseteq Digests /\ started \in 0 .. MaxStarts
    BY <1>1 DEF OtherTypes
  <2>2. UNCHANGED <<store, saver, repair, rot, raced, givenUp, excused>>
    BY <1>2, <1>5 DEF store
  <2> QED
    BY <1>2, <1>5, <2>1, <2>2, RestingType, DeleterOnly, Zenon
<1>6. CASE /\ References(d, pk) = {}
           /\ row' = IF row[d] = pk THEN [row EXCEPT ![d] = 0] ELSE row
           /\ Step(t, "unlink")
  <2>1. deleter' = [deleter EXCEPT ![t] = r]
    BY <1>1, <1>6, TwoFields, Zenon DEF Step, DeleterTypes
  <2> HIDE DEF r
  <2>2. /\ DeleterTypes' /\ deleter'[t] = r
        /\ \A u \in Deleters : u # t => deleter'[u] = deleter[u]
    BY <1>1, <1>4, <2>1, DeleterKinds, OneDeleter
  <2>3. /\ row' \in [Digests -> 0 .. MaxRows]
        /\ \A e \in Digests : row'[e] = row[e] \/ (e = d /\ row'[e] = 0 /\ row[e] = pk)
    BY <1>1, <1>3, <1>6 DEF StoreTypes
  <2>4. deleter'[t].pc = "unlink" /\ deleter'[t].victim[1] = d
    BY <1>4, <2>2
  <2>5. References(d, pk) = {}
    BY <1>6
  <2> HIDE DEF d, pk
  <2>6. StoreTypes'
    BY <1>1, <1>2, <2>3 DEF StoreTypes
  <2>7. OtherTypes' /\ SaverTypes'
    BY <1>1, <1>2 DEF OtherTypes, SaverTypes
  <2>8. Rows'
    <3>1. \A z \in Savers : Owning(z)' => Owning(z) /\ DigestOf[saver[z].c] \in Digests
      BY <1>1, <1>2, SaverState DEF Owning
    <3>2. \A z \in Savers : Owning(z)' => row'[DigestOf[saver[z].c]] = 0
      BY <1>1, <2>3, <3>1 DEF Rows
    <3> QED
      BY <1>1, <1>2, <3>2 DEF Rows, Owning, Knows
  <2>9. NothingDangles'
    <3>1. ASSUME NEW c \in content
          PROVE  held[c] \in {0, row'[DigestOf[c]]}
      <4>1. c \in Contents /\ DigestOf[c] \in Digests
        BY <1>1 DEF StoreTypes
      <4>2. held[c] \in {0, row[DigestOf[c]]}
        BY <1>1 DEF NothingDangles, RowOf
      <4>3. DigestOf[c] = d => held[c] # pk
        BY <2>5 DEF References
      <4> QED
        BY <2>3, <4>1, <4>2, <4>3
    <3> QED
      BY <1>1, <1>2, <3>1 DEF NothingDangles, InVersion, RowOf
  <2>10. NothingLost'
    BY <1>1, <1>2 DEF NothingLost, InVersion
  <2>11. Files'
    <3>1. \A e \in Digests : ReliedOn(e)' => ReliedOn(e)
      BY <1>2, <2>3 DEF ReliedOn, CountsOnFile
    <3> QED
      BY <1>1, <1>2, <3>1 DEF Files, Excused
  <2>12. SpaceComesBack'
    <3> SUFFICES ASSUME NEW e \in Digests, e # d, file[e] # "none", row[e] = 0,
                        e \notin leaked,
                        ~\E s \in Savers : saver[s] # Idle /\ MayHavePlaced(s)
                                          /\ DigestOf[saver[s].c] = e
                 PROVE  \E u \in Deleters : deleter'[u].pc = "unlink"
                                           /\ deleter'[u].victim[1] = e
      BY <1>2, <2>3, <2>4 DEF SpaceComesBack, MayHavePlaced, CountsOnFile
    <3>1. PICK u \in Deleters : deleter[u].pc = "unlink" /\ deleter[u].victim[1] = e
      BY <1>1 DEF SpaceComesBack
    <3> QED
      BY <1>2, <2>2, <3>1
  <2>13. Recoverable'
    <3>1. deleter'[Reclaim].pc = "forget" => deleter'[Reclaim] = deleter[Reclaim]
      <4>1. Reclaim \in Deleters
        BY DEF Deleters
      <4> QED
        BY <2>2, <2>4, <4>1
    <3> QED
      BY <1>1, <1>2, <3>1 DEF Recoverable
  <2> QED
    BY <2>2, <2>6, <2>7, <2>8, <2>9, <2>10, <2>11, <2>12, <2>13 DEF StoreInv
<1> QED
  BY <1>2, <1>5, <1>6

-----------------------------------------------------------------------------
(***************************************************************************)
(* Files that come and go.                                                 *)
(***************************************************************************)
\* A file is removed with an excuse, or written where something accounts for it.
LEMMA FileStep ==
    ASSUME StoreInv, NEW d \in Digests, NEW x \in {"none", "good", "bad"},
           file' = [file EXCEPT ![d] = x], OtherTypes', DeleterTypes',
           UNCHANGED <<row, born, content, held, remote, member, saver, excused>>,
           deleter'[Reclaim].pc = "forget" => deleter'[Reclaim] = deleter[Reclaim],
           \A e \in Digests : e # d =>
              /\ e \in leaked => e \in leaked'
              /\ Excused(e) => Excused(e)',
           \A t \in Deleters :
              deleter[t].pc = "unlink" /\ deleter[t].victim[1] # d
                 => deleter'[t] = deleter[t],
           x = "none" => (ReliedOn(d) => Excused(d)'),
           x # "none" => \/ row[d] # 0 \/ d \in leaked'
                         \/ /\ file[d] # "none" /\ (d \in leaked => d \in leaked')
                            /\ deleter' = deleter
    PROVE  StoreInv'
<1> USE StoreAssumption
<1>1. /\ StoreTypes /\ OtherTypes /\ SaverTypes /\ DeleterTypes
      /\ Rows /\ NothingDangles /\ Files /\ SpaceComesBack
      /\ Recoverable /\ NothingLost
  BY DEF StoreInv
<1>2. /\ file' \in [Digests -> {"none", "good", "bad"}] /\ file'[d] = x
      /\ \A e \in Digests : e # d => file'[e] = file[e]
  BY <1>1 DEF StoreTypes
<1>3. StoreTypes' /\ SaverTypes'
  BY <1>1, <1>2 DEF StoreTypes, SaverTypes
<1>4. Rows' /\ NothingDangles' /\ NothingLost'
  BY <1>1 DEF Rows, Owning, Knows, NothingDangles, NothingLost, InVersion, RowOf
<1>5. \A e \in Digests : ReliedOn(e)' <=> ReliedOn(e)
  BY DEF ReliedOn, CountsOnFile
<1>6. Files'
  <2> SUFFICES ASSUME NEW e \in Digests, ReliedOn(e), file'[e] = "none"
               PROVE  Excused(e)'
    BY <1>5 DEF Files
  <2>1. CASE e = d
    BY <1>2, <2>1
  <2>2. CASE e # d
    <3>1. Excused(e)
      BY <1>1, <1>2, <2>2 DEF Files
    <3> QED
      BY <2>2, <3>1
  <2> QED
    BY <2>1, <2>2
<1>7. SpaceComesBack'
  <2> SUFFICES ASSUME NEW e \in Digests, file'[e] # "none", row[e] = 0, e \notin leaked',
                      ~\E s \in Savers : saver[s] # Idle /\ MayHavePlaced(s)
                                        /\ DigestOf[saver[s].c] = e
               PROVE  \E u \in Deleters : deleter'[u].pc = "unlink"
                                         /\ deleter'[u].victim[1] = e
    BY DEF SpaceComesBack, MayHavePlaced, CountsOnFile
  <2>1. file[e] # "none" /\ e \notin leaked
    BY <1>2
  <2>2. PICK u \in Deleters : deleter[u].pc = "unlink" /\ deleter[u].victim[1] = e
    BY <1>1, <2>1 DEF SpaceComesBack
  <2>3. deleter'[u] = deleter[u]
    BY <1>2, <2>2
  <2> QED
    BY <2>2, <2>3
<1>8. Recoverable'
  BY <1>1 DEF Recoverable
<1> QED
  BY <1>1, <1>3, <1>4, <1>6, <1>7, <1>8 DEF StoreInv

\* The on_commit hook of a deletion removes the file.
LEMMA RemoveFileStep ==
    ASSUME StoreInv, NEW t \in Deleters, RemoveFile(t)
    PROVE  StoreInv'
<1> USE StoreAssumption
<1>0. StoreTypes /\ OtherTypes /\ DeleterTypes /\ deleter[t].pc = "unlink"
  BY DEF StoreInv, RemoveFile
<1> SUFFICES ASSUME NEW d \in Digests, d = deleter[t].victim[1]
             PROVE  StoreInv'
  <2>1. deleter[t].victim[1] \in Digests
    BY <1>0, DeleterState
  <2> QED
    BY <2>1
<1> DEFINE r == [[deleter[t] EXCEPT !.pc = "artifacts"] EXCEPT !.victim = NoVictim]
<1>1. StoreTypes /\ OtherTypes /\ DeleterTypes
  BY DEF StoreInv
<1>2. /\ deleter[t].pc = "unlink" /\ file' = [file EXCEPT ![d] = "none"]
      /\ raced' = IF ReliedOn(d) THEN raced \cup {d} ELSE raced
      /\ leaked' = leaked \ {d}
      /\ deleter' = [deleter EXCEPT ![t].pc = "artifacts",
                                    ![t].victim = <<NoDigest, 0>>]
      /\ UNCHANGED <<row, born, content, held, remote, member, saver, repair,
                     rot, started, givenUp, excused>>
  BY DEF RemoveFile
<1>3. deleter[t] \in Removing /\ d \in Digests
  BY <1>1, <1>2, DeleterState
<1>4. r \in Choosing /\ r.pc = "artifacts"
  BY <1>3, DeletingMoves, Zenon
<1>5. deleter' = [deleter EXCEPT ![t] = r]
  <2>1. deleter \in [Deleters -> Protecting \cup Forgetting \cup Choosing \cup Removing]
    BY <1>1 DEF DeleterTypes
  <2> QED
    BY <1>2, <2>1 DEF NoVictim
<1> HIDE DEF r
<1>6. /\ DeleterTypes' /\ deleter'[t] = r
      /\ \A u \in Deleters : u # t => deleter'[u] = deleter[u]
  BY <1>1, <1>4, <1>5, DeleterKinds, OneDeleter
<1>7. OtherTypes'
  BY <1>1, <1>2, <1>3 DEF OtherTypes
<1>8. deleter'[Reclaim].pc = "forget" => deleter'[Reclaim] = deleter[Reclaim]
  <2>1. Reclaim \in Deleters
    BY DEF Deleters
  <2> QED
    BY <1>4, <1>6, <2>1
<1>9. \A e \in Digests : e # d =>
         /\ e \in leaked => e \in leaked'
         /\ Excused(e) => Excused(e)'
  <2>1. raced \subseteq raced'
    BY <1>2
  <2> QED
    BY <1>2, <2>1 DEF Excused
<1>10. \A u \in Deleters : deleter[u].pc = "unlink" /\ deleter[u].victim[1] # d
                           => deleter'[u] = deleter[u]
  BY <1>6
<1>11. ReliedOn(d) => Excused(d)'
  <2>1. ReliedOn(d) => d \in raced'
    BY <1>2
  <2> QED
    BY <2>1 DEF Excused
<1>12. UNCHANGED <<row, born, content, held, remote, member, saver, excused>>
       /\ file' = [file EXCEPT ![d] = "none"]
  BY <1>2
<1> QED
  BY <1>1, <1>3, <1>6, <1>7, <1>8, <1>9, <1>10, <1>11, <1>12, FileStep

\* The repair looks, and writes nothing.
LEMMA RepairOnly ==
    ASSUME StoreInv, repair' \in [Contents -> {"none", "check", "repair", "write"}],
           UNCHANGED <<store, saver, deleter, rot, raced, leaked, excused>>,
           started' \in 0 .. MaxStarts,
           givenUp \subseteq givenUp', givenUp' \subseteq Digests,
           \A c \in Contents : repair[c] = "write" =>
              repair'[c] = "write" \/ DigestOf[c] \in givenUp'
    PROVE  StoreInv'
<1>1. /\ StoreTypes /\ OtherTypes /\ SaverTypes /\ DeleterTypes
      /\ Rows /\ NothingDangles /\ Files /\ SpaceComesBack
      /\ Recoverable /\ NothingLost
  BY DEF StoreInv
<1>2. UNCHANGED <<row, born, file, content, held, remote, member>>
  BY DEF store
<1>3. StoreTypes' /\ OtherTypes' /\ SaverTypes' /\ DeleterTypes'
  BY <1>1, <1>2 DEF StoreTypes, OtherTypes, SaverTypes, DeleterTypes
<1>4. Rows' /\ NothingDangles' /\ NothingLost'
  BY <1>1, <1>2 DEF Rows, Owning, Knows, NothingDangles, NothingLost, InVersion, RowOf
<1>5. Files'
  <2>1. \A d \in Digests : Excused(d) => Excused(d)'
    BY DEF Excused
  <2> QED
    BY <1>1, <1>2, <2>1 DEF Files, ReliedOn, CountsOnFile
<1>6. SpaceComesBack' /\ Recoverable'
  BY <1>1, <1>2 DEF SpaceComesBack, MayHavePlaced, CountsOnFile, Recoverable
<1> QED
  BY <1>3, <1>4, <1>5, <1>6 DEF StoreInv

\* The repair of all artifacts, and what damages their files.
LEMMA RepairStep ==
    ASSUME StoreInv, Repair \/ \E d \in Digests : Rot(d)
    PROVE  StoreInv'
<1> USE StoreAssumption
<1>1. StoreTypes /\ OtherTypes /\ DeleterTypes
  BY DEF StoreInv
<1>2. CASE RepairStarts
  <2>1. /\ ~Repairing /\ Start
        /\ repair' = [c \in Contents |-> IF held[c] # 0 THEN "check" ELSE "none"]
        /\ UNCHANGED <<store, saver, deleter, rot, raced, givenUp, leaked, excused>>
    BY <1>2 DEF RepairStarts, history
  <2>2. /\ repair' \in [Contents -> {"none", "check", "repair", "write"}]
        /\ started' \in 0 .. MaxStarts /\ givenUp \subseteq Digests
    BY <1>1, <2>1 DEF OtherTypes, Start
  <2>3. \A c \in Contents : repair[c] # "write"
    BY <2>1 DEF Repairing
  <2> QED
    BY <2>1, <2>2, <2>3, RepairOnly
<1>3. CASE RepairDies
  <2>1. /\ repair' = [c \in Contents |-> "none"]
        /\ givenUp' = givenUp \cup {DigestOf[c] : c \in {x \in Contents : repair[x] = "write"}}
        /\ UNCHANGED <<store, saver, deleter, rot, started, raced, leaked, excused>>
    BY <1>3 DEF RepairDies
  <2>2. /\ repair' \in [Contents -> {"none", "check", "repair", "write"}]
        /\ started' \in 0 .. MaxStarts
        /\ givenUp \subseteq givenUp' /\ givenUp' \subseteq Digests
    BY <1>1, <2>1 DEF OtherTypes
  <2>3. \A c \in Contents : repair[c] = "write" => DigestOf[c] \in givenUp'
    BY <2>1
  <2> QED
    BY <2>1, <2>2, <2>3, RepairOnly
<1>4. ASSUME NEW c \in Contents, VerifyArtifact(c)
      PROVE  StoreInv'
  <2>1. /\ repair[c] = "check"
        /\ repair' = [repair EXCEPT ![c] = IF file[DigestOf[c]] = "good" THEN "none"
                                           ELSE "repair"]
        /\ UNCHANGED <<store, saver, deleter, rot, started, raced, givenUp, leaked, excused>>
    BY <1>4 DEF VerifyArtifact, history
  <2>2. /\ repair' \in [Contents -> {"none", "check", "repair", "write"}]
        /\ started' \in 0 .. MaxStarts /\ givenUp \subseteq Digests
        /\ \A x \in Contents : repair[x] = "write" => repair'[x] = "write"
    BY <1>1, <2>1 DEF OtherTypes
  <2> QED
    BY <2>1, <2>2, RepairOnly
<1>5. \A e \in Digests : ReliedOn(e) \in BOOLEAN
  BY DEF ReliedOn
<1>6. ASSUME NEW c \in Contents, Refetch(c)
      PROVE  StoreInv'
  <2> DEFINE d == DigestOf[c]
  <2>1. /\ file' = [file EXCEPT ![d] = "none"] /\ repair' = [repair EXCEPT ![c] = "write"]
        /\ UNCHANGED <<row, born, content, held, remote, member, saver, deleter,
                       rot, started, raced, givenUp, leaked, excused>>
    BY <1>6 DEF Refetch, history
  <2>2. OtherTypes' /\ DeleterTypes' /\ d \in Digests
    BY <1>1, <2>1 DEF OtherTypes, DeleterTypes
  <2>3. \A x \in Contents : repair[x] = "write" => repair'[x] = "write"
    BY <1>1, <2>1 DEF OtherTypes
  <2>4. repair'[c] = "write"
    BY <1>1, <2>1 DEF OtherTypes
  <2>5. Excused(d)' /\ \A e \in Digests : Excused(e) => Excused(e)'
    BY <2>1, <2>3, <2>4 DEF Excused
  <2> HIDE DEF d
  <2> QED
    BY <2>1, <2>2, <2>5, FileStep
<1>7. ASSUME NEW c \in Contents, Rewrite(c)
      PROVE  StoreInv'
  <2> DEFINE d == DigestOf[c]
             x == IF file[d] = "none" THEN "good" ELSE file[d]
  <2>1. /\ file' = [file EXCEPT ![d] = x] /\ repair' = [repair EXCEPT ![c] = "none"]
        /\ leaked' = IF row[d] = 0 THEN leaked \cup {d} ELSE leaked
        /\ givenUp' = givenUp \ {d} /\ raced' = raced \ {d}
        /\ UNCHANGED <<row, born, content, held, remote, member, saver, deleter,
                       rot, started, excused>>
    BY <1>7 DEF Rewrite
  <2>2. OtherTypes' /\ DeleterTypes' /\ d \in Digests
    BY <1>1, <2>1 DEF OtherTypes, DeleterTypes
  <2>3. x \in {"none", "good", "bad"} /\ x # "none"
    BY <1>1, <2>2 DEF StoreTypes
  <2>4. \A y \in Contents : y # c => repair'[y] = repair[y]
    BY <1>1, <2>1 DEF OtherTypes
  <2>5. \A e \in Digests : e # d => /\ e \in leaked => e \in leaked'
                                    /\ Excused(e) => Excused(e)'
    BY <2>1, <2>4 DEF Excused
  <2>6. row[d] # 0 \/ d \in leaked'
    BY <2>1
  <2> HIDE DEF d, x
  <2> QED
    BY <2>1, <2>2, <2>3, <2>5, <2>6, FileStep
<1>8. ASSUME NEW c \in Contents, GiveUp(c)
      PROVE  StoreInv'
  <2> DEFINE d == DigestOf[c]
  <2>1. /\ repair[c] = "repair" /\ file' = [file EXCEPT ![d] = "none"]
        /\ repair' = [repair EXCEPT ![c] = "none"] /\ givenUp' = givenUp \cup {d}
        /\ UNCHANGED <<row, born, content, held, remote, member, saver, deleter,
                       rot, started, raced, leaked, excused>>
    BY <1>8 DEF GiveUp
  <2>2. OtherTypes' /\ DeleterTypes' /\ d \in Digests
    BY <1>1, <2>1 DEF OtherTypes, DeleterTypes
  <2>3. \A x \in Contents : repair[x] = "write" => repair'[x] = "write"
    BY <1>1, <2>1 DEF OtherTypes
  <2>4. Excused(d)' /\ \A e \in Digests : Excused(e) => Excused(e)'
    BY <2>1, <2>3 DEF Excused
  <2> HIDE DEF d
  <2> QED
    BY <2>1, <2>2, <2>4, FileStep
<1>9. ASSUME NEW d \in Digests, Rot(d)
      PROVE  StoreInv'
  <2>1. /\ rot < MaxRot /\ file[d] = "good" /\ rot' = rot + 1
        /\ file' = [file EXCEPT ![d] = "bad"]
        /\ UNCHANGED <<row, born, content, held, remote, member, saver, deleter,
                       repair, started, raced, givenUp, leaked, excused>>
    BY <1>9 DEF Rot, history
  <2>2. OtherTypes' /\ DeleterTypes'
    BY <1>1, <2>1 DEF OtherTypes, DeleterTypes
  <2>3. \A e \in Digests : Excused(e) => Excused(e)'
    BY <2>1 DEF Excused
  <2> QED
    BY <2>1, <2>2, <2>3, FileStep
<1> QED
  BY <1>2, <1>3, <1>4, <1>6, <1>7, <1>8, <1>9 DEF Repair

-----------------------------------------------------------------------------
(***************************************************************************)
(* Content that is deleted, or loses its artifact.                         *)
(***************************************************************************)
\* Whoever knew the row of content that is deleted knows a row that is gone,
\* and is where it was.
LEMMA ForgottenState ==
    ASSUME SaverTypes, NEW gone \in SUBSET Contents, Forgotten(gone), born' = born
    PROVE  /\ SaverTypes'
           /\ \A s \in Savers :
                 /\ saver'[s].pc = saver[s].pc
                 /\ saver'[s] # Idle <=> saver[s] # Idle
                 /\ saver[s] # Idle => saver'[s].c = saver[s].c
                 /\ Owning(s)' <=> Owning(s)
                 /\ CountsOnFile(s)' <=> CountsOnFile(s)
                 /\ MayHavePlaced(s)' <=> MayHavePlaced(s)
                 /\ Knows(s)' /\ saver'[s].repo # "gone" =>
                       Knows(s) /\ saver'[s] = saver[s] /\ saver[s].c \notin gone
<1> USE StoreAssumption
<1> DEFINE g(s) == [saver[s] EXCEPT !.repo = "gone"]
<1>1. /\ DOMAIN saver' = Savers
      /\ \A s \in Savers : saver'[s] = IF Knows(s) /\ saver[s].c \in gone
                                       THEN g(s) ELSE saver[s]
  BY DEF Forgotten
<1>2. ASSUME NEW s \in Savers
      PROVE  \/ saver'[s] = saver[s] /\ ~(Knows(s) /\ saver[s].c \in gone)
             \/ /\ Knows(s) /\ saver[s].c \in gone /\ saver[s] \in Placing \cup Attaching
                /\ saver'[s] = g(s) /\ g(s) \in Placing \cup Attaching
                /\ g(s).pc = saver[s].pc /\ g(s).c = saver[s].c
                /\ g(s).repo = "gone" /\ g(s).pk = saver[s].pk
                /\ saver[s] \in Placing => /\ g(s).temp = saver[s].temp
                                           /\ g(s).again = saver[s].again
                /\ saver[s] \in Attaching => g(s).own = saver[s].own
  <2>1. CASE ~(Knows(s) /\ saver[s].c \in gone)
    BY <1>1, <2>1
  <2>2. CASE Knows(s) /\ saver[s].c \in gone
    <3>1. saver[s] \in Placing \cup Attaching
      <4>1. saver[s] # Idle
        BY <2>2, SaverState DEF Knows
      <4> QED
        BY <4>1, SaverState
    <3>2. saver'[s] = g(s)
      BY <1>1, <2>2
    <3> QED
      BY <2>2, <3>1, <3>2, GoneMoves
  <2> QED
    BY <2>1, <2>2
<1> HIDE DEF g
<1>3. ASSUME NEW s \in Savers
      PROVE  /\ saver'[s] \in {Idle} \cup Placing \cup Attaching
             /\ saver'[s].pc = saver[s].pc
             /\ saver'[s] # Idle <=> saver[s] # Idle
             /\ saver[s] # Idle => saver'[s].c = saver[s].c
             /\ saver[s].pc = "attach" => /\ saver'[s].pk = saver[s].pk
                                          /\ saver'[s].own = saver[s].own
             /\ saver[s].pc = "place" => saver'[s].again = saver[s].again
             /\ Knows(s)' /\ saver'[s].repo # "gone" =>
                   Knows(s) /\ saver'[s] = saver[s] /\ saver[s].c \notin gone
  <2>1. /\ saver[s] \in {Idle} \cup Placing \cup Attaching
        /\ saver[s].pc = "attach" => saver[s] \in Attaching
        /\ saver[s].pc = "place" => saver[s] \in Placing
    BY SaverState DEF SaverTypes
  <2>2. CASE saver'[s] = saver[s] /\ ~(Knows(s) /\ saver[s].c \in gone)
    BY <2>1, <2>2 DEF Knows
  <2>3. CASE /\ Knows(s) /\ saver[s].c \in gone /\ saver[s] \in Placing \cup Attaching
             /\ saver'[s] = g(s) /\ g(s) \in Placing \cup Attaching
             /\ g(s).pc = saver[s].pc /\ g(s).c = saver[s].c
             /\ g(s).repo = "gone" /\ g(s).pk = saver[s].pk
             /\ saver[s] \in Placing => /\ g(s).temp = saver[s].temp
                                        /\ g(s).again = saver[s].again
             /\ saver[s] \in Attaching => g(s).own = saver[s].own
    <3>1. \A r \in Placing \cup Attaching : r # Idle
      BY DEF Placing, Attaching, Idle
    <3> QED
      BY <2>1, <2>3, <3>1
  <2> QED
    BY <1>2, <2>2, <2>3
<1>4. saver' \in [Savers -> {Idle} \cup Placing \cup Attaching]
  <2>1. saver' = [s \in Savers |-> saver'[s]]
    BY DEF Forgotten
  <2> QED
    BY <1>3, <2>1
<1>5. ASSUME NEW s \in Savers
      PROVE  /\ Owning(s)' <=> Owning(s)
             /\ CountsOnFile(s)' <=> CountsOnFile(s)
             /\ MayHavePlaced(s)' <=> MayHavePlaced(s)
  <2>1. /\ saver'[s].pc = saver[s].pc
        /\ saver[s].pc = "attach" => saver'[s].own = saver[s].own
        /\ saver[s].pc = "place" => saver'[s].again = saver[s].again
    BY <1>3
  <2> QED
    BY <2>1 DEF Owning, CountsOnFile, MayHavePlaced
<1>6. SaverTypes'
  <2>1. \A s \in Savers : saver'[s].pc \in {"remote", "add"} => s \in Syncs
    BY <1>3 DEF SaverTypes
  <2>2. ASSUME NEW s \in Savers, saver'[s].pc = "attach"
        PROVE  /\ saver'[s].own => s \in Requests
               /\ s \in Requests => saver'[s].pk # 0
               /\ saver'[s].pk = saver[s].pk /\ saver'[s].c = saver[s].c
               /\ saver[s].pk <= born[DigestOf[saver[s].c]]
    <3>1. saver[s].pc = "attach" /\ saver[s] # Idle
      BY <1>3, <2>2, SaverState
    <3>2. /\ saver'[s].pk = saver[s].pk /\ saver'[s].c = saver[s].c
          /\ saver'[s].own = saver[s].own
      BY <1>3, <3>1
    <3> QED
      BY <3>1, <3>2 DEF SaverTypes
  <2> QED
    BY <1>4, <2>1, <2>2 DEF SaverTypes
<1> QED
  BY <1>3, <1>5, <1>6

\* The cleanup deletes content: none of it is in a version.
LEMMA CommitContentStep ==
    ASSUME StoreInv, CommitContent
    PROVE  StoreInv'
<1> USE StoreAssumption
<1>1. /\ StoreTypes /\ OtherTypes /\ SaverTypes /\ DeleterTypes
      /\ Rows /\ NothingDangles /\ Files /\ SpaceComesBack
      /\ Recoverable /\ NothingLost
  BY DEF StoreInv
<1>2. /\ Cleanup \in Deleters /\ Reclaim \in Deleters /\ Cleanup # Reclaim
      /\ \A t \in Deleters : t \in {Cleanup, Reclaim}
  BY DEF Deleters
<1>3. /\ deleter[Cleanup].pc = "content"
      /\ UNCHANGED <<row, born, file, repair, rot, started, raced, givenUp, leaked>>
  BY DEF CommitContent
<1>4. deleter[Cleanup] \in Protecting /\ deleter[Cleanup].todo \in SUBSET Contents
  BY <1>1, <1>2, <1>3, DeleterState DEF Protecting
<1> SUFFICES ASSUME NEW gone \in SUBSET Contents, gone = deleter[Cleanup].todo
             PROVE  StoreInv'
  BY <1>4
<1>5. CASE /\ deleter' = [deleter EXCEPT ![Cleanup] = Resting]
           /\ UNCHANGED <<content, held, remote, excused, member, saver>>
  <2>1. leaked \subseteq Digests /\ started \in 0 .. MaxStarts
    BY <1>1 DEF OtherTypes
  <2> QED
    BY <1>2, <1>3, <1>5, <2>1, RestingType, DeleterOnly DEF store
<1> DEFINE n == [pc |-> "select", todo |-> {}, victim |-> <<NoDigest, 0>>]
           x == IF deleter[Reclaim].pc = "forget" THEN deleter[Reclaim].todo \ gone
                ELSE deleter[Reclaim].todo
           m == [deleter[Reclaim] EXCEPT !.todo = x]
<1>6. CASE /\ gone \cap InVersion = {}
           /\ content' = content \ gone
           /\ held' = [c \in Contents |-> IF c \in gone THEN 0 ELSE held[c]]
           /\ remote' = remote \ gone
           /\ excused' = excused \ gone
           /\ deleter' = [deleter EXCEPT ![Cleanup] = n, ![Reclaim].todo = x]
           /\ Forgotten(gone)
           /\ UNCHANGED member
  <2>1. n \in Choosing /\ n.pc = "select"
    BY DEF Choosing, NoVictim
  <2>2. /\ m \in Protecting \cup Forgetting \cup Choosing \cup Removing
        /\ m \notin Protecting /\ m.pc = deleter[Reclaim].pc
        /\ m.victim = deleter[Reclaim].victim
        /\ m.pc = "forget" => m.todo = x /\ m.force = deleter[Reclaim].force
    <3>1. CASE deleter[Reclaim].pc = "forget"
      <4>1. deleter[Reclaim] \in Forgetting
        BY <1>1, <1>2, <3>1, DeleterState
      <4>2. deleter[Reclaim].todo \in SUBSET Contents
        BY <4>1 DEF Forgetting
      <4>3. x \in SUBSET Contents
        BY <4>2
      <4>4. \A r \in Forgetting : \A u \in SUBSET Contents :
               LET q == [r EXCEPT !.todo = u] IN
               /\ q \in Forgetting /\ q.pc = "forget" /\ q.victim = r.victim
               /\ q.todo = u /\ q.force = r.force
        BY DEF Forgetting
      <4> HIDE DEF x
      <4>5. /\ m \in Forgetting /\ m.pc = "forget" /\ m.victim = deleter[Reclaim].victim
            /\ m.todo = x /\ m.force = deleter[Reclaim].force
        BY <4>1, <4>3, <4>4
      <4> QED
        BY <3>1, <4>5, DeleterKinds
    <3>2. CASE deleter[Reclaim].pc # "forget"
      <4>1. /\ deleter[Reclaim] \in Protecting \cup Forgetting \cup Choosing \cup Removing
            /\ deleter[Reclaim] \notin Protecting
        BY <1>1, <1>2 DEF DeleterTypes
      <4>2. \A r \in Forgetting \cup Choosing \cup Removing : [r EXCEPT !.todo = r.todo] = r
        BY DEF Forgetting, Choosing, Removing
      <4>3. m = deleter[Reclaim]
        BY <3>2, <4>1, <4>2
      <4> QED
        BY <3>2, <4>1, <4>3
    <3> QED
      BY <3>1, <3>2
  <2>3. /\ deleter' \in [Deleters -> Protecting \cup Forgetting \cup Choosing \cup Removing]
        /\ deleter'[Cleanup] = n /\ deleter'[Reclaim] = m
    <3>1. deleter \in [Deleters -> Protecting \cup Forgetting \cup Choosing \cup Removing]
      BY <1>1 DEF DeleterTypes
    <3>2. deleter' = [deleter EXCEPT ![Cleanup] = n, ![Reclaim] = m]
      <4>1. \A r : [deleter EXCEPT ![Cleanup] = r, ![Reclaim].todo = x]
                     = [deleter EXCEPT ![Cleanup] = r, ![Reclaim] = m]
        <5> HIDE DEF x
        <5> QED
          BY <1>2, <3>1
      <4> HIDE DEF n, x, m
      <4> QED
        BY <1>6, <4>1
    <3> HIDE DEF n, x, m
    <3> QED
      BY <1>2, <2>1, <2>2, <3>1, <3>2
  <2>4. x \subseteq deleter[Reclaim].todo /\ (m.pc = "forget" => x \cap gone = {})
    BY <2>2
  <2> HIDE DEF n, x, m
  <2>5. DeleterTypes'
    BY <2>1, <2>2, <2>3, DeleterKinds DEF DeleterTypes
  <2>6. /\ SaverTypes'
        /\ \A s \in Savers :
              /\ saver'[s].pc = saver[s].pc
              /\ saver'[s] # Idle <=> saver[s] # Idle
              /\ saver[s] # Idle => saver'[s].c = saver[s].c
              /\ Owning(s)' <=> Owning(s)
              /\ CountsOnFile(s)' <=> CountsOnFile(s)
              /\ MayHavePlaced(s)' <=> MayHavePlaced(s)
              /\ Knows(s)' /\ saver'[s].repo # "gone" =>
                    Knows(s) /\ saver'[s] = saver[s] /\ saver[s].c \notin gone
    BY <1>1, <1>3, <1>6, ForgottenState
  <2>7. /\ held' \in [Contents -> 0 .. MaxRows]
        /\ \A c \in Contents : held'[c] = IF c \in gone THEN 0 ELSE held[c]
        /\ content' = content \ gone /\ remote' = remote \ gone
        /\ excused' = excused \ gone /\ member' = member
    BY <1>1, <1>6 DEF StoreTypes
  <2>8. StoreTypes'
    BY <1>1, <1>3, <2>7 DEF StoreTypes
  <2>9. OtherTypes'
    BY <1>1, <1>3, <2>7 DEF OtherTypes
  <2>10. Rows'
    <3>1. \A z \in Savers : Owning(z)' => /\ Owning(z) /\ saver'[z].c = saver[z].c
      <4>1. \A z \in Savers : Owning(z) => saver[z] # Idle
        BY <1>1, SaverState DEF Owning
      <4> QED
        BY <2>6, <4>1
    <3>2. \A z \in Savers : Owning(z)' =>
            /\ row'[DigestOf[saver'[z].c]] = 0
            /\ \A y \in Savers : Owning(y)' /\ DigestOf[saver'[y].c] = DigestOf[saver'[z].c]
                                 => y = z
      BY <1>1, <1>3, <3>1 DEF Rows
    <3>3. \A z \in Savers : Knows(z)' /\ saver'[z].repo # "gone" => saver'[z].c \in content'
      BY <1>1, <2>6, <2>7 DEF Rows
    <3>4. \A c \in Contents \ content' : held'[c] = 0
      BY <1>1, <2>7 DEF Rows
    <3> QED
      BY <3>2, <3>3, <3>4 DEF Rows
  <2>11. InVersion' = InVersion /\ InVersion \cap gone = {} /\ InVersion \subseteq content
    BY <1>1, <1>6 DEF InVersion, NothingDangles
  <2>12. NothingDangles'
    <3>1. \A c \in content' : held'[c] \in {0, RowOf(c)} /\ RowOf(c)' = RowOf(c)
      BY <1>1, <1>3, <2>7 DEF NothingDangles, RowOf, StoreTypes
    <3> QED
      BY <2>7, <2>11, <3>1 DEF NothingDangles
  <2>13. NothingLost'
    <3>1. \A c \in InVersion : c \in Contents /\ c \notin gone
      BY <1>1, <2>11 DEF StoreTypes
    <3> QED
      BY <1>1, <2>7, <2>11, <3>1 DEF NothingLost
  <2>14. Files'
    <3>1. \A d \in Digests : ReliedOn(d)' => ReliedOn(d)
      BY <1>3, <2>6 DEF ReliedOn
    <3> QED
      BY <1>1, <1>3, <3>1 DEF Files, Excused
  <2>15. SpaceComesBack'
    <3> SUFFICES ASSUME NEW e \in Digests, file[e] # "none", row[e] = 0, e \notin leaked
                 PROVE  \/ \E s \in Savers : /\ saver'[s] # Idle /\ MayHavePlaced(s)'
                                             /\ DigestOf[saver'[s].c] = e
                        \/ \E t \in Deleters : deleter'[t].pc = "unlink"
                                              /\ deleter'[t].victim[1] = e
      BY <1>3 DEF SpaceComesBack
    <3>1. CASE \E s \in Savers : /\ saver[s] # Idle /\ MayHavePlaced(s)
                                 /\ DigestOf[saver[s].c] = e
      BY <2>6, <3>1
    <3>2. CASE \E t \in Deleters : deleter[t].pc = "unlink" /\ deleter[t].victim[1] = e
      <4>1. deleter[Reclaim].pc = "unlink" /\ deleter[Reclaim].victim[1] = e
        BY <1>2, <1>3, <3>2
      <4> QED
        BY <1>2, <2>2, <2>3, <4>1
    <3> QED
      BY <1>1, <3>1, <3>2 DEF SpaceComesBack
  <2>16. Recoverable'
    <3>1. ASSUME NEW z \in Syncs, saver'[z].pc = "add", saver'[z].repo # "gone"
          PROVE  saver'[z].c \in excused' \/ held'[saver'[z].c] # 0 \/ saver'[z].c \in remote'
      <4>1. z \in Savers /\ Knows(z)'
        BY <3>1 DEF Savers, Knows
      <4>2. saver'[z] = saver[z] /\ saver[z].c \notin gone
        BY <2>6, <3>1, <4>1
      <4>3. saver[z].c \in Contents
        BY <1>1, <3>1, <4>1, <4>2, SaverState
      <4>4. saver[z].c \in excused \/ held[saver[z].c] # 0 \/ saver[z].c \in remote
        BY <1>1, <3>1, <4>2 DEF Recoverable
      <4> QED
        BY <2>7, <4>2, <4>3, <4>4
    <3>2. deleter'[Reclaim].pc = "forget" =>
            /\ deleter'[Reclaim].todo \subseteq content'
            /\ ~deleter'[Reclaim].force => deleter'[Reclaim].todo \subseteq remote' \cup excused'
      <4> SUFFICES ASSUME m.pc = "forget"
                   PROVE  x \subseteq content' /\ (~m.force => x \subseteq remote' \cup excused')
        BY <2>2, <2>3
      <4>1. /\ deleter[Reclaim].todo \subseteq content
            /\ ~m.force => deleter[Reclaim].todo \subseteq remote \cup excused
        BY <1>1, <2>2 DEF Recoverable
      <4> QED
        BY <2>4, <2>7, <4>1
    <3> QED
      BY <3>1, <3>2 DEF Recoverable
  <2> QED
    BY <2>5, <2>6, <2>8, <2>9, <2>10, <2>12, <2>13, <2>14, <2>15, <2>16 DEF StoreInv
<1>7. \/ /\ deleter' = [deleter EXCEPT ![Cleanup] = Resting]
         /\ UNCHANGED <<content, held, remote, excused, member, saver>>
      \/ /\ gone \cap InVersion = {}
         /\ content' = content \ gone
         /\ held' = [c \in Contents |-> IF c \in gone THEN 0 ELSE held[c]]
         /\ remote' = remote \ gone
         /\ excused' = excused \ gone
         /\ deleter' = [deleter EXCEPT ![Cleanup] = n, ![Reclaim].todo = x]
         /\ Forgotten(gone)
         /\ UNCHANGED member
  <2>1. [deleter EXCEPT ![Cleanup] = n,
                        ![Reclaim].todo = IF deleter[Reclaim].pc = "forget"
                                          THEN @ \ gone ELSE @]
          = [deleter EXCEPT ![Cleanup] = n, ![Reclaim].todo = x]
    BY <1>1, <1>2 DEF DeleterTypes
  <2> QED
    BY <2>1 DEF CommitContent
<1> QED
  BY <1>5, <1>6, <1>7

\* The reclaim forgets artifacts: only a forced one takes what has no remote.
LEMMA ForgetArtifactsStep ==
    ASSUME StoreInv, ForgetArtifacts
    PROVE  StoreInv'
<1> USE StoreAssumption
<1>1. /\ StoreTypes /\ OtherTypes /\ SaverTypes /\ DeleterTypes
      /\ Rows /\ NothingDangles /\ Files /\ SpaceComesBack
      /\ Recoverable /\ NothingLost
  BY DEF StoreInv
<1> DEFINE cas == deleter[Reclaim].todo
           x == {a \in deleter[Reclaim].arts : row[a[1]] = a[2]}
           r == [pc |-> "artifacts", victim |-> <<NoDigest, 0>>, todo |-> x]
<1>2. /\ deleter[Reclaim].pc = "forget"
      /\ held' = [c \in Contents |-> IF c \in cas THEN 0 ELSE held[c]]
      /\ excused' = IF deleter[Reclaim].force
                    THEN excused \cup (cas \cap content) ELSE excused
      /\ deleter' = [deleter EXCEPT ![Reclaim] = r]
      /\ UNCHANGED <<row, born, file, content, remote, member, saver, repair,
                     rot, started, raced, givenUp, leaked>>
  BY DEF ForgetArtifacts
<1>3. Reclaim \in Deleters
  BY DEF Deleters
<1>4. deleter[Reclaim] \in Forgetting
  BY <1>1, <1>2, <1>3, DeleterState
<1>5. cas \subseteq Contents /\ x \in SUBSET (Digests \X Nat)
  BY <1>4 DEF Forgetting
<1>6. r \in Choosing /\ r.pc = "artifacts"
  BY <1>5 DEF Choosing, NoVictim
<1> HIDE DEF x, r
<1>7. /\ DeleterTypes' /\ deleter'[Reclaim] = r
      /\ \A u \in Deleters : u # Reclaim => deleter'[u] = deleter[u]
  BY <1>1, <1>2, <1>3, <1>6, DeleterKinds, OneDeleter
<1>8. /\ held' \in [Contents -> 0 .. MaxRows]
      /\ \A c \in Contents : held'[c] = IF c \in cas THEN 0 ELSE held[c]
  BY <1>1, <1>2 DEF StoreTypes
<1>9. excused \subseteq excused' /\ excused' \subseteq Contents
  BY <1>1, <1>2 DEF OtherTypes, StoreTypes
<1>10. \A c \in content : held[c] # 0 /\ held'[c] = 0 => c \in remote \cup excused'
  <2>1. cas \subseteq content /\ (~deleter[Reclaim].force => cas \subseteq remote \cup excused)
    BY <1>1, <1>2 DEF Recoverable
  <2> SUFFICES ASSUME NEW c \in content, c \in cas
               PROVE  c \in remote \cup excused'
    BY <1>1, <1>8 DEF StoreTypes
  <2>2. CASE deleter[Reclaim].force
    BY <1>2, <2>2
  <2>3. CASE ~deleter[Reclaim].force
    BY <1>9, <2>1, <2>3
  <2> QED
    BY <2>2, <2>3
<1> HIDE DEF cas
<1>11. StoreTypes' /\ OtherTypes' /\ SaverTypes'
  <2>1. StoreTypes'
    BY <1>1, <1>2, <1>8 DEF StoreTypes
  <2>2. OtherTypes'
    BY <1>1, <1>2, <1>9 DEF OtherTypes
  <2>3. SaverTypes'
    BY <1>1, <1>2 DEF SaverTypes
  <2> QED
    BY <2>1, <2>2, <2>3
<1>12. Rows'
  <2>1. \A c \in Contents \ content : held'[c] = 0
    BY <1>1, <1>8 DEF Rows
  <2> QED
    BY <1>1, <1>2, <2>1 DEF Rows, Owning, Knows
<1>13. NothingDangles'
  <2>1. \A c \in content : held'[c] \in {0, RowOf(c)}
    BY <1>1, <1>8 DEF NothingDangles, StoreTypes
  <2> QED
    BY <1>1, <1>2, <2>1 DEF NothingDangles, RowOf, InVersion
<1>14. Files'
  BY <1>1, <1>2 DEF Files, ReliedOn, CountsOnFile, Excused
<1>15. SpaceComesBack'
  <2>1. \A u \in Deleters : deleter[u].pc = "unlink" => deleter'[u] = deleter[u]
    BY <1>2, <1>7
  <2> QED
    BY <1>1, <1>2, <2>1 DEF SpaceComesBack, MayHavePlaced, CountsOnFile
<1>16. Recoverable'
  <2>1. ASSUME NEW z \in Syncs, saver[z].pc = "add", saver[z].repo # "gone"
        PROVE  saver[z].c \in excused' \/ held'[saver[z].c] # 0 \/ saver[z].c \in remote
    <3>1. z \in Savers /\ Knows(z)
      BY <2>1 DEF Savers, Knows
    <3>2. saver[z].c \in content
      BY <1>1, <2>1, <3>1 DEF Rows
    <3>3. saver[z].c \in excused \/ held[saver[z].c] # 0 \/ saver[z].c \in remote
      BY <1>1, <2>1 DEF Recoverable
    <3> QED
      BY <1>9, <1>10, <3>2, <3>3
  <2>2. deleter'[Reclaim].pc # "forget"
    BY <1>6, <1>7
  <2> QED
    BY <1>2, <2>1, <2>2 DEF Recoverable
<1>17. NothingLost'
  <2> SUFFICES ASSUME NEW c \in InVersion, c \notin excused'
               PROVE  held'[c] # 0 \/ c \in remote
    BY <1>2 DEF NothingLost, InVersion
  <2>1. c \in content /\ c \notin excused
    BY <1>1, <1>9 DEF NothingDangles
  <2>2. held[c] # 0 \/ c \in remote
    BY <1>1, <2>1 DEF NothingLost
  <2> QED
    BY <1>10, <2>1, <2>2
<1> QED
  BY <1>7, <1>11, <1>12, <1>13, <1>14, <1>15, <1>16, <1>17 DEF StoreInv

-----------------------------------------------------------------------------
(***************************************************************************)
(* The theorems.                                                           *)
(***************************************************************************)
\* Every operation of the content app, of the syncs and of the tasks that
\* delete and repair keeps the invariant.
LEMMA StoreNext ==
    ASSUME StoreInv, [Next]_vars
    PROVE  StoreInv'
<1>1. CASE Starting
  <2>1. Syncs \subseteq Savers /\ Requests \subseteq Savers
    BY DEF Savers
  <2>2. ASSUME NEW s \in Requests, NEW c \in Contents, Request(s, c)
        PROVE  StoreInv'
    BY <2>2, RequestStep
  <2>3. ASSUME NEW s \in Syncs, NEW c \in Contents, NEW r \in Repos,
               SyncImmediate(s, c, r) \/ SyncOnDemand(s, c, r)
        PROVE  StoreInv'
    BY <2>3, SyncStep
  <2>4. ASSUME NEW repos \in SUBSET Repos, NEW keep \in SUBSET content,
               NEW force \in BOOLEAN, ReclaimStarts(repos, keep, force)
        PROVE  StoreInv'
    BY <2>4, ChoosingStep
  <2> QED
    BY <1>1, <2>2, <2>3, <2>4 DEF Starting
<1>2. ASSUME NEW s \in Savers, Saving(s)
      PROVE  StoreInv'
  <2>1. CASE SaverDies(s)
    BY <2>1, AbortStep DEF SaverDies
  <2> QED
    BY <1>2, <2>1, PlaceFileStep, InsertStep, InsertFailsStep, GetArtifactStep,
       ArtifactIsGoneStep, AttachStep, SaveContentStep, SaveRemoteStep,
       AddContentStep DEF Saving
<1>3. ASSUME NEW t \in Deleters, Deleting(t)
      PROVE  StoreInv'
  BY <1>3, DeleteArtifactStep, CommitDeleteStep, RemoveFileStep, DeleterEndsStep
  DEF Deleting
<1>4. CASE CleaningUp
  BY <1>4, ChoosingStep, CommitContentStep DEF CleaningUp
<1>5. CASE ForgetArtifacts
  BY <1>5, ForgetArtifactsStep
<1>6. CASE Repair \/ \E d \in Digests : Rot(d)
  BY <1>6, RepairStep
<1>7. CASE Dropping \/ \E c \in Contents : DropRemote(c)
  BY <1>7, DropStep DEF Dropping
<1>8. CASE UNCHANGED vars
  BY <1>8 DEF vars, store, history, StoreInv, StoreTypes, OtherTypes, SaverTypes,
              DeleterTypes, Rows, Owning, Knows, NothingDangles, InVersion, RowOf,
              Files, ReliedOn, Excused, CountsOnFile, SpaceComesBack, MayHavePlaced,
              Recoverable, NothingLost
<1> QED
  BY <1>1, <1>2, <1>3, <1>4, <1>5, <1>6, <1>7, <1>8 DEF Next

\* The invariant of artifacts, files and content holds throughout, whatever
\* requests, syncs, cleanups, reclaims and repairs run at the same time, fail
\* or die.
THEOREM StoreInvariance == Spec => []StoreInv
<1>1. Init => StoreInv
  BY StoreBegins
<1>2. StoreInv /\ [Next]_vars => StoreInv'
  BY StoreNext
<1> QED
  BY <1>1, <1>2, PTL DEF Spec

\* Every variable stays in its type, and a row is one that was born.
THEOREM StoreTyped == Spec => []TypeOK
<1>1. StoreInv => TypeOK
  <2> SUFFICES ASSUME StoreInv PROVE TypeOK
    OBVIOUS
  <2>1. StoreTypes /\ OtherTypes /\ SaverTypes /\ DeleterTypes
    BY DEF StoreInv
  <2>2. \A d \in Digests : row[d] \in 0 .. born[d]
    BY <2>1, StoreAssumption DEF StoreTypes
  <2>3. \A s \in Savers : saver[s].pc \in {"idle", "place", "insert", "get",
                                           "attach", "remote", "add"}
    <3>1. /\ Idle.pc = "idle"
          /\ \A r \in Placing : r.pc \in {"place", "insert", "get"}
          /\ \A r \in Attaching : r.pc \in {"attach", "remote", "add"}
      BY DEF Idle, Placing, Attaching
    <3>2. \A s \in Savers : saver[s] \in {Idle} \cup Placing \cup Attaching
      BY <2>1 DEF SaverTypes
    <3> QED
      BY <3>1, <3>2
  <2>4. \A t \in Deleters : deleter[t].pc \in
           {"idle", "protect", "content", "select", "artifacts", "commit",
            "unlink", "forget"}
    BY <2>1, DeleterState
  <2>5. \A r \in Repos : member[r] \subseteq Contents
    BY <2>1 DEF StoreTypes
  <2> QED
    BY <2>1, <2>2, <2>3, <2>4, <2>5 DEF TypeOK, StoreTypes, OtherTypes
<1> QED
  BY <1>1, StoreInvariance, PTL

\* What the content app and the publishers follow leads somewhere: the deferred
\* foreign keys and on_delete=PROTECT are enough, whatever a cleanup or a
\* reclaim read before they deleted (tasks/orphan.py, tasks/reclaim_space.py).
THEOREM ReferencesHold == Spec => []NothingDangles
<1>1. StoreInv => NothingDangles
  BY DEF StoreInv
<1> QED
  BY <1>1, StoreInvariance, PTL

\* A row without a file is one whose file the deletion of an earlier artifact,
\* or the repair, has removed (the on_commit hook of Artifact.delete()).
THEOREM FilesStay == Spec => []FilesBehindRows
<1>1. StoreInv => FilesBehindRows
  BY DEF StoreInv, Files, ReliedOn, Excused, FilesBehindRows
<1> QED
  BY <1>1, StoreInvariance, PTL

\* Content of a version can always be served, from an artifact or a remote,
\* unless a reclaim was forced or its remote was deleted.
THEOREM ContentStays == Spec => []NothingLost
<1>1. StoreInv => NothingLost
  BY DEF StoreInv
<1> QED
  BY <1>1, StoreInvariance, PTL

\* A file without a row has somebody at work on it, or was left by a
\* transaction that failed or a process that died.
THEOREM SpaceAccounted == Spec => []SpaceComesBack
<1>1. StoreInv => SpaceComesBack
  BY DEF StoreInv
<1> QED
  BY <1>1, StoreInvariance, PTL

\* A version loses content with its repository only: no cleanup takes out what
\* a sync added after the cleanup had selected it.
THEOREM VersionsKeepContent == Spec => OnlyRepositoriesRemove
<1>1. StoreInv /\ [Next]_vars =>
        [Dropping \/ \A r \in Repos : member[r] \subseteq member'[r]]_vars
  <2> SUFFICES ASSUME StoreInv, Next, ~Dropping
               PROVE  \A r \in Repos : member[r] \subseteq member'[r]
    OBVIOUS
  <2>1. StoreTypes
    BY DEF StoreInv
  <2>2. ASSUME NEW s \in Savers, AddContent(s)
        PROVE  \A r \in Repos : member[r] \subseteq member'[r]
    <3>1. \/ member' = member
          \/ \E repo, c : member' = [member EXCEPT ![repo] = @ \cup {c}]
      BY <2>2 DEF AddContent
    <3>2. member \in [Repos -> SUBSET Contents]
      BY <2>1 DEF StoreTypes
    <3> QED
      BY <3>1, <3>2
  <2>3. ASSUME NEW s \in Savers, Saving(s), ~AddContent(s)
        PROVE  member' = member
    BY <2>3 DEF Saving, PlaceFile, Insert, InsertFails, GetArtifact, ArtifactIsGone,
                Attach, SaveContent, SaveRemote, SaverDies, store
  <2>4. Starting => member' = member
    <3>1. ASSUME NEW s \in Savers, NEW c \in Contents, NEW r \in Repos,
                 Request(s, c) \/ SyncImmediate(s, c, r) \/ SyncOnDemand(s, c, r)
          PROVE  member' = member
      BY <3>1 DEF Request, SyncImmediate, SyncOnDemand, store
    <3>2. ASSUME NEW s \in Savers, NEW c \in Contents, Request(s, c)
          PROVE  member' = member
      BY <3>2 DEF Request, store
    <3>3. ASSUME NEW repos, NEW keep, NEW force, ReclaimStarts(repos, keep, force)
          PROVE  member' = member
      <4>1. UNCHANGED store
        BY <3>3 DEF ReclaimStarts
      <4> QED
        BY <4>1 DEF store
    <3> QED
      BY <3>1, <3>2, <3>3, StoreAssumption DEF Starting, Savers
  <2>5. ASSUME NEW t \in Deleters, Deleting(t)
        PROVE  member' = member
    BY <2>5, Zenon DEF Deleting, DeleteArtifact, CommitDelete, RemoveFile, DeletionEnds,
                DeleterDies, store
  <2>6. CleaningUp => member' = member
    <3>1. CommitContent => member' = member
      BY DEF CommitContent
    <3> QED
      BY <3>1 DEF CleaningUp, CleanupStarts, ProtectContent, SelectArtifacts, store
  <2>7. ForgetArtifacts \/ Repair => member' = member
    BY DEF ForgetArtifacts, Repair, RepairStarts, RepairDies, VerifyArtifact, Refetch,
           Rewrite, GiveUp, store
  <2>8. (\E c \in Contents : DropRemote(c)) \/ (\E d \in Digests : Rot(d))
           => member' = member
    BY DEF DropRemote, Rot
  <2> QED
    BY <2>2, <2>3, <2>4, <2>5, <2>6, <2>7, <2>8 DEF Next
<1> QED
  BY <1>1, StoreInvariance, PTL DEF Spec, OnlyRepositoriesRemove
=============================================================================
