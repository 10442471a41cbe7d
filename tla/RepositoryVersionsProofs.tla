---------------------- MODULE RepositoryVersionsProofs ----------------------
(***************************************************************************)
(* What TLAPS proves of the versions of a repository, for any content,     *)
(* any number of versions and any retention policy: the rows say what each *)
(* version holds, deleting versions changes no other, and the whole        *)
(* implements a history of immutable sets (VersionHistory).                *)
(***************************************************************************)
EXTENDS RepositoryVersions, FiniteSetTheorems, WellFoundedInduction, TLAPS

\* The content of a version, by the rows R.
ContentOf(R, v) == {r.content : r \in Relations(R, v)}

\* Rows between versions of V, of which no two of a content unit overlap or
\* touch: the unique constraints, the foreign keys, and more.
Normal(R, V) ==
    /\ R \subseteq Row
    /\ \A r \in R : /\ r.added \in V /\ r.removed \in V \cup {Never}
                    /\ r.added < r.removed
    /\ \A r, s \in R : r # s /\ r.content = s.content
                         => r.removed < s.added \/ s.removed < r.added

Opened == IF open = NoVersion THEN {} ELSE {open}

\* The rows without those that a dead task has added.
Old == {r \in rows : r.added # open}

VersionTypes ==
    /\ complete \subseteq Numbers /\ complete # {}
    /\ open \in Numbers \cup {NoVersion}
    /\ rows \subseteq Row
    /\ contentIds \in [Numbers -> SUBSET Contents]
    /\ nextVersion \in 1 .. (MaxNumber + 1)
    /\ served \subseteq Numbers
    /\ following \in BOOLEAN
    /\ pc \in {"idle", "writing", "plan", "prune", "notify"}
    /\ written \in Numbers \cup {NoVersion}
    /\ expired \subseteq Numbers

\* Numbers are given once; only the writer holds one, and while it publishes
\* that is the greatest and not about to be deleted.
Numbering ==
    /\ \A v \in complete : v < nextVersion
    /\ open # NoVersion => open = nextVersion
    /\ pc = "idle" <=> written = NoVersion
    /\ pc = "writing" => open = written
    /\ pc \in {"plan", "prune", "notify"} =>
          /\ written \in complete /\ open = NoVersion /\ written \notin expired
          /\ \A v \in complete : v <= written
    /\ expired # {} => pc = "prune"

\* What is committed is normal; what a dead task has added is not removed.
RowsNormal ==
    /\ Normal(Old, complete \cup Opened)
    /\ \A r \in rows : r.added = open => r.removed = Never
    /\ pc = "writing" => Normal(rows, complete \cup Opened)

Memoized ==
    /\ \A v \in complete : contentIds[v] = ContentOf(Old, v)
    /\ pc = "writing" => contentIds[written] = ContentOf(rows, written)

VersionInv == VersionTypes /\ Numbering /\ RowsNormal /\ Memoized
-----------------------------------------------------------------------------
(***************************************************************************)
(* Greatest and least numbers.                                             *)
(***************************************************************************)
\* A set of natural numbers that is not empty has a least one.
LEMMA LeastExists ==
    ASSUME NEW S \in SUBSET Nat, S # {}
    PROVE  Least(S) \in S /\ \A u \in S : Least(S) <= u
<1>1. \E v \in S : \A u \in S : ~(<<u, v>> \in OpToRel(<, Nat))
  BY NatLessThanWellFounded, WFMin, Zenon
<1>2. PICK v \in S : \A u \in S : ~(<<u, v>> \in OpToRel(<, Nat))
  BY <1>1, Zenon
<1>3. \A u \in S : v <= u
  <2> SUFFICES ASSUME NEW u \in S, u < v PROVE FALSE
    OBVIOUS
  <2>1. <<u, v>> \in OpToRel(<, Nat)
    BY DEF OpToRel
  <2> QED
    BY <1>2, <2>1, Zenon
<1> QED
  BY <1>3 DEF Least

\* A set of version numbers that is not empty has a greatest one.
LEMMA GreatestExists ==
    ASSUME NEW S \in SUBSET Numbers, S # {}
    PROVE  Greatest(S) \in S /\ \A u \in S : u <= Greatest(S)
<1> USE VersionAssumption DEF Numbers
<1> DEFINE T == {MaxNumber - v : v \in S}
<1>1. T \in SUBSET Nat /\ T # {}
  <2>1. \A v \in S : MaxNumber - v \in Nat
    OBVIOUS
  <2> QED
    BY <2>1
<1>2. Least(T) \in T /\ \A t \in T : Least(T) <= t
  BY <1>1, LeastExists
<1>3. PICK v \in S : Least(T) = MaxNumber - v
  BY <1>2
<1>4. \A u \in S : u <= v
  <2> SUFFICES ASSUME NEW u \in S PROVE u <= v
    OBVIOUS
  <2>1. Least(T) <= MaxNumber - u
    BY <1>2
  <2> QED
    BY <1>3, <2>1
<1> QED
  BY <1>4 DEF Greatest

-----------------------------------------------------------------------------
(***************************************************************************)
(* The statements keep the rows normal, and the content of other versions. *)
(***************************************************************************)
\* What add_content(), remove_content() and delete() set in a row.
LEMMA RemovedField ==
    ASSUME NEW r \in Row, NEW v \in Numbers \cup {Never}
    PROVE  /\ [r EXCEPT !.removed = v] \in Row
           /\ [r EXCEPT !.removed = v].content = r.content
           /\ [r EXCEPT !.removed = v].added = r.added
           /\ [r EXCEPT !.removed = v].removed = v
BY DEF Row

\* The row that add_content() inserts.
LEMMA NewRow ==
    ASSUME NEW c \in Contents, NEW v \in Numbers
    PROVE  [content |-> c, added |-> v, removed |-> Never] \in Row
BY DEF Row

\* The numbers of a row can be compared.
LEMMA RowNumbers ==
    ASSUME NEW r \in Row
    PROVE  /\ r.content \in Contents
           /\ r.added \in Nat /\ r.added <= MaxNumber
           /\ r.removed \in Nat /\ r.removed <= Never
BY VersionAssumption DEF Row, Numbers, Never

\* More versions do no harm.
LEMMA NormalMono ==
    ASSUME NEW R, NEW V, NEW W, Normal(R, V), V \subseteq W
    PROVE  Normal(R, W)
BY DEF Normal

\* What is in the content of a version.
LEMMA InContent ==
    ASSUME NEW R, NEW v, NEW c
    PROVE  c \in ContentOf(R, v) <=>
             \E r \in R : r.content = c /\ r.added <= v /\ v < r.removed
BY DEF ContentOf, Relations

\* Deleting a version that nothing was added after: the rows stay normal, and
\* the versions before it keep their content (delete(), of the last version).
LEMMA ForgetNormal ==
    ASSUME NEW R, NEW V \in SUBSET Numbers, NEW v \in Numbers, Normal(R, V),
           \A r \in R : r.added <= v
    PROVE  /\ Normal(Forget(R, v), V \ {v})
           /\ \A u \in Numbers : u < v => ContentOf(Forget(R, v), u) = ContentOf(R, u)
<1> USE VersionAssumption
<1> DEFINE F == Forget(R, v)
           img(r) == IF r.removed = v THEN [r EXCEPT !.removed = Never] ELSE r
<1>1. \A r \in R : r \in Row /\ r.added \in V /\ r.removed \in V \cup {Never}
                  /\ r.added < r.removed
  BY DEF Normal
<1>2. \A r \in R :
        /\ img(r) \in Row /\ img(r).content = r.content /\ img(r).added = r.added
        /\ img(r).removed = IF r.removed = v THEN Never ELSE r.removed
  BY <1>1, RemovedField
<1>3. F = {img(r) : r \in {x \in R : x.added # v}}
  BY DEF Forget, SetRemoved
<1> HIDE DEF img, F
<1>4. ASSUME NEW x \in F
      PROVE  /\ x \in Row /\ x.added \in V \ {v}
             /\ x.removed \in (V \ {v}) \cup {Never} /\ x.added < x.removed
  <2>1. PICK r \in R : r.added # v /\ x = img(r)
    BY <1>3
  <2> QED
    BY <1>1, <1>2, <2>1, RowNumbers DEF Never, Numbers
<1>5. ASSUME NEW x \in F, NEW y \in F, x # y, x.content = y.content
      PROVE  x.removed < y.added \/ y.removed < x.added
  <2>1. PICK r \in R : r.added # v /\ x = img(r)
    BY <1>3
  <2>2. PICK s \in R : s.added # v /\ y = img(s)
    BY <1>3
  <2>3. r.removed < s.added \/ s.removed < r.added
    BY <1>2, <1>5, <2>1, <2>2 DEF Normal
  <2>4. /\ r.added < v /\ s.added < v
        /\ r.added \in Nat /\ s.added \in Nat /\ r.removed \in Nat /\ s.removed \in Nat
    BY <1>1, <2>1, <2>2, RowNumbers DEF Numbers
  <2> QED
    BY <1>2, <2>1, <2>2, <2>3, <2>4 DEF Numbers
<1>6. ASSUME NEW u \in Numbers, u < v, NEW c
      PROVE  c \in ContentOf(F, u) <=> c \in ContentOf(R, u)
  <2>1. ASSUME NEW x \in F, x.content = c, x.added <= u, u < x.removed
        PROVE  \E r \in R : r.content = c /\ r.added <= u /\ u < r.removed
    <3>1. PICK r \in R : r.added # v /\ x = img(r)
      BY <1>3
    <3> QED
      BY <1>2, <1>6, <2>1, <3>1
  <2>2. ASSUME NEW r \in R, r.content = c, r.added <= u, u < r.removed
        PROVE  \E x \in F : x.content = c /\ x.added <= u /\ u < x.removed
    <3>1. r.added # v /\ img(r) \in F
      BY <1>1, <1>3, <1>6, <2>2, RowNumbers DEF Numbers
    <3>2. u < img(r).removed
      BY <1>2, <2>2, <1>6 DEF Never, Numbers
    <3> QED
      BY <1>2, <2>2, <3>1, <3>2
  <2> QED
    BY <2>1, <2>2, InContent
<1> QED
  BY <1>4, <1>5, <1>6 DEF Normal, F, ContentOf, Relations

\* Removing content units from the last version: the others keep their
\* content, and it loses just these (remove_content()).
LEMMA RemoveNormal ==
    ASSUME NEW R, NEW V \in SUBSET Numbers, NEW v \in V, Normal(R, V),
           \A u \in V : u <= v, NEW S
    PROVE  /\ Normal(Remove(R, v, S), V)
           /\ \A u \in Numbers : u < v => ContentOf(Remove(R, v, S), u) = ContentOf(R, u)
           /\ ContentOf(Remove(R, v, S), v) = ContentOf(R, v) \ S
<1> USE VersionAssumption
<1> DEFINE F == Remove(R, v, S)
           hit(r) == r.removed = Never /\ r.content \in S
           img(r) == IF hit(r) THEN [r EXCEPT !.removed = v] ELSE r
<1>1. \A r \in R : /\ r \in Row /\ r.added \in V /\ r.removed \in V \cup {Never}
                   /\ r.added < r.removed
  BY DEF Normal
<1>14. \A r \in R : r.added <= v /\ (r.removed <= v \/ r.removed = Never)
  BY <1>1
<1>2. \A r \in R :
        /\ img(r) \in Row /\ img(r).content = r.content /\ img(r).added = r.added
        /\ img(r).removed = IF hit(r) THEN v ELSE r.removed
  <2> SUFFICES ASSUME NEW r \in R
               PROVE  /\ img(r) \in Row /\ img(r).content = r.content
                      /\ img(r).added = r.added
                      /\ img(r).removed = IF hit(r) THEN v ELSE r.removed
    OBVIOUS
  <2>1. r \in Row /\ v \in Numbers \cup {Never}
    BY <1>1
  <2> HIDE DEF hit
  <2>2. CASE hit(r)
    BY <2>1, <2>2, RemovedField
  <2>3. CASE ~hit(r)
    BY <2>1, <2>3
  <2> QED
    BY <2>2, <2>3
<1>3. F = {img(r) : r \in {x \in R : ~(hit(x) /\ x.added = v)}}
  BY DEF Remove, SetRemoved
<1> HIDE DEF img, F
<1>8. /\ v \in Nat /\ Never \in Nat /\ v < Never
      /\ \A r \in R : r.added \in Nat /\ r.removed \in Nat
  <2>1. v \in Nat /\ Never \in Nat /\ v < Never
    BY DEF Numbers, Never
  <2>2. \A r \in R : r.added \in Nat /\ r.removed \in Nat
    BY <1>1, RowNumbers
  <2> QED
    BY <2>1, <2>2
<1>4. ASSUME NEW x \in F
      PROVE  /\ x \in Row /\ x.added \in V
             /\ x.removed \in V \cup {Never} /\ x.added < x.removed
  <2>1. PICK r \in R : ~(hit(r) /\ r.added = v) /\ x = img(r)
    BY <1>3
  <2> QED
    BY <1>1, <1>2, <1>8, <2>1
<1>5. ASSUME NEW x \in F, NEW y \in F, x # y, x.content = y.content
      PROVE  x.removed < y.added \/ y.removed < x.added
  <2>1. PICK r \in R : ~(hit(r) /\ r.added = v) /\ x = img(r)
    BY <1>3
  <2>2. PICK s \in R : ~(hit(s) /\ s.added = v) /\ y = img(s)
    BY <1>3
  <2>3. r.removed < s.added \/ s.removed < r.added
    BY <1>2, <1>5, <2>1, <2>2 DEF Normal
  <2> QED
    BY <1>1, <1>2, <1>8, <2>1, <2>2, <2>3
<1>6. ASSUME NEW u \in Numbers, u < v, NEW c
      PROVE  c \in ContentOf(F, u) <=> c \in ContentOf(R, u)
  <2>1. ASSUME NEW x \in F, x.content = c, x.added <= u, u < x.removed
        PROVE  \E r \in R : r.content = c /\ r.added <= u /\ u < r.removed
    <3>1. PICK r \in R : ~(hit(r) /\ r.added = v) /\ x = img(r)
      BY <1>3
    <3>2. u < r.removed
      BY <1>2, <1>6, <1>8, <2>1, <3>1 DEF Numbers
    <3> QED
      BY <1>2, <2>1, <3>1, <3>2
  <2>2. ASSUME NEW r \in R, r.content = c, r.added <= u, u < r.removed
        PROVE  \E x \in F : x.content = c /\ x.added <= u /\ u < x.removed
    <3>1. r.added # v /\ img(r) \in F
      BY <1>8, <1>3, <1>6, <2>2 DEF Numbers
    <3>2. u < img(r).removed
      BY <1>2, <2>2, <1>6
    <3> QED
      BY <1>2, <2>2, <3>1, <3>2
  <2> QED
    BY <2>1, <2>2, InContent
<1>7. ASSUME NEW c
      PROVE  c \in ContentOf(F, v) <=> c \in ContentOf(R, v) /\ c \notin S
  <2>1. ASSUME NEW x \in F, x.content = c, x.added <= v, v < x.removed
        PROVE  c \notin S /\ \E r \in R : r.content = c /\ r.added <= v /\ v < r.removed
    <3>1. PICK r \in R : ~(hit(r) /\ r.added = v) /\ x = img(r)
      BY <1>3
    <3>2. ~hit(r) /\ v < r.removed
      BY <1>2, <1>8, <2>1, <3>1
    <3>3. r.removed = Never
      BY <1>1, <1>8, <3>2
    <3> QED
      BY <1>2, <2>1, <3>1, <3>2, <3>3
  <2>2. ASSUME NEW r \in R, r.content = c, r.added <= v, v < r.removed, c \notin S
        PROVE  \E x \in F : x.content = c /\ x.added <= v /\ v < x.removed
    <3>1. ~hit(r) /\ img(r) \in F
      BY <1>3, <2>2
    <3> QED
      BY <1>2, <2>2, <3>1
  <2> QED
    BY <2>1, <2>2, InContent
<1> QED
  BY <1>4, <1>5, <1>6, <1>7 DEF Normal, F, ContentOf, Relations

\* Adding content units to the last version that it does not have: the others
\* keep their content, and it gains just these (add_content()).
LEMMA AddNormal ==
    ASSUME NEW R, NEW V \in SUBSET Numbers, NEW v \in V, Normal(R, V),
           \A u \in V : u <= v, NEW S \in SUBSET Contents,
           S \cap ContentOf(R, v) = {}
    PROVE  /\ Normal(Add(R, v, S), V)
           /\ \A u \in Numbers : u < v => ContentOf(Add(R, v, S), u) = ContentOf(R, u)
           /\ ContentOf(Add(R, v, S), v) = ContentOf(R, v) \cup S
<1> USE VersionAssumption
<1> DEFINE F == Add(R, v, S)
           hit(r) == r.removed = v /\ r.content \in S
           img(r) == IF hit(r) THEN [r EXCEPT !.removed = Never] ELSE r
           new(c) == [content |-> c, added |-> v, removed |-> Never]
           fresh == {c \in S : \A r \in R : r.content = c => ~hit(r)}
<1>1. \A r \in R : /\ r \in Row /\ r.added \in V /\ r.removed \in V \cup {Never}
                   /\ r.added < r.removed
  BY DEF Normal
<1>14. \A r \in R : r.added <= v /\ (r.removed <= v \/ r.removed = Never)
  BY <1>1
<1>2. \A r \in R :
        /\ img(r) \in Row /\ img(r).content = r.content /\ img(r).added = r.added
        /\ img(r).removed = IF hit(r) THEN Never ELSE r.removed
  <2> SUFFICES ASSUME NEW r \in R
               PROVE  /\ img(r) \in Row /\ img(r).content = r.content
                      /\ img(r).added = r.added
                      /\ img(r).removed = IF hit(r) THEN Never ELSE r.removed
    OBVIOUS
  <2>1. r \in Row /\ Never \in Numbers \cup {Never}
    BY <1>1
  <2> HIDE DEF hit
  <2>2. CASE hit(r)
    BY <2>1, <2>2, RemovedField
  <2>3. CASE ~hit(r)
    BY <2>1, <2>3
  <2> QED
    BY <2>2, <2>3
<1>9. \A c \in S : /\ new(c) \in Row /\ new(c).content = c /\ new(c).added = v
                   /\ new(c).removed = Never
  BY NewRow
<1>3. F = {img(r) : r \in R} \cup {new(c) : c \in fresh}
  <2>1. S \ {r.content : r \in {r \in R : r.removed = v /\ r.content \in S}} = fresh
    OBVIOUS
  <2>2. SetRemoved(R, {r \in R : r.removed = v /\ r.content \in S}, Never)
          = {img(r) : r \in R}
    BY DEF SetRemoved
  <2> HIDE DEF fresh, img
  <2> QED
    BY <2>1, <2>2 DEF Add
<1>8. /\ v \in Nat /\ Never \in Nat /\ v < Never
      /\ \A r \in R : r.added \in Nat /\ r.removed \in Nat
  <2>1. v \in Nat /\ Never \in Nat /\ v < Never
    BY DEF Numbers, Never
  <2>2. \A r \in R : r.added \in Nat /\ r.removed \in Nat
    BY <1>1, RowNumbers
  <2> QED
    BY <2>1, <2>2
<1>10. \A r \in R : r.content \in S => r.removed <= v
  <2> SUFFICES ASSUME NEW r \in R, r.content \in S, r.removed = Never
               PROVE  FALSE
    BY <1>1
  <2>1. r.content \in ContentOf(R, v)
    BY <1>1, <1>8, InContent
  <2> QED
    BY <2>1
<1>11. \A r \in R : r.content \in fresh => r.removed < v
  BY <1>10, <1>8
<1>12. fresh \subseteq S
  OBVIOUS
<1>13. \A c \in S : c \notin fresh => \E r \in R : r.content = c /\ hit(r)
  OBVIOUS
<1> HIDE DEF img, F, new, fresh
<1>4. ASSUME NEW x \in F
      PROVE  /\ x \in Row /\ x.added \in V
             /\ x.removed \in V \cup {Never} /\ x.added < x.removed
  <2>1. CASE \E r \in R : x = img(r)
    <3>1. PICK r \in R : x = img(r)
      BY <2>1
    <3>2. CASE hit(r)
      <4>1. x.added = r.added /\ x.removed = Never /\ x \in Row
        BY <1>2, <3>1, <3>2
      <4>2. r.added \in V /\ r.added \in Nat /\ r.added <= v
        BY <1>1, <1>8, <1>14
      <4> QED
        BY <1>8, <4>1, <4>2
    <3>3. CASE ~hit(r)
      BY <1>1, <1>2, <3>1, <3>3
    <3> QED
      BY <3>2, <3>3
  <2>2. CASE \E c \in fresh : x = new(c)
    BY <1>9, <1>12, <1>8, <2>2
  <2> QED
    BY <1>3, <2>1, <2>2
<1>5. ASSUME NEW x \in F, NEW y \in F, x # y, x.content = y.content
      PROVE  x.removed < y.added \/ y.removed < x.added
  <2>1. ASSUME NEW r \in R, NEW s \in R, x = img(r), y = img(s)
        PROVE  x.removed < y.added \/ y.removed < x.added
    <3>1. r.removed < s.added \/ s.removed < r.added
      BY <1>2, <1>5, <2>1 DEF Normal
    <3> QED
      BY <1>1, <1>2, <1>8, <2>1, <3>1
  <2>2. ASSUME NEW r \in R, NEW c \in fresh, r.content = c
        PROVE  img(r).removed < new(c).added
    <3>1. ~hit(r)
      BY <1>11, <1>8, <2>2
    <3> QED
      BY <1>2, <1>9, <1>11, <1>12, <2>2, <3>1
  <2>3. CASE \E r \in R : x = img(r)
    <3>1. PICK r \in R : x = img(r)
      BY <2>3
    <3>2. CASE \E s \in R : y = img(s)
      BY <2>1, <3>1, <3>2
    <3>3. CASE \E c \in fresh : y = new(c)
      BY <1>2, <1>5, <1>9, <1>12, <2>2, <3>1, <3>3
    <3> QED
      BY <1>3, <3>2, <3>3
  <2>4. CASE \E c \in fresh : x = new(c)
    <3>1. PICK c \in fresh : x = new(c)
      BY <2>4
    <3>2. CASE \E s \in R : y = img(s)
      BY <1>2, <1>5, <1>9, <1>12, <2>2, <3>1, <3>2
    <3>3. CASE \E d \in fresh : y = new(d)
      BY <1>5, <1>9, <1>12, <3>1, <3>3
    <3> QED
      BY <1>3, <3>2, <3>3
  <2> QED
    BY <1>3, <2>3, <2>4
<1>6. ASSUME NEW u \in Numbers, u < v, NEW c
      PROVE  c \in ContentOf(F, u) <=> c \in ContentOf(R, u)
  <2>1. ASSUME NEW x \in F, x.content = c, x.added <= u, u < x.removed
        PROVE  \E r \in R : r.content = c /\ r.added <= u /\ u < r.removed
    <3>1. CASE \E r \in R : x = img(r)
      <4>1. PICK r \in R : x = img(r)
        BY <3>1
      <4>2. u < r.removed
        BY <1>2, <1>6, <2>1, <4>1
      <4> QED
        BY <1>2, <2>1, <4>1, <4>2
    <3>2. CASE \E d \in fresh : x = new(d)
      BY <1>6, <1>9, <1>12, <1>8, <2>1, <3>2 DEF Numbers
    <3> QED
      BY <1>3, <3>1, <3>2
  <2>2. ASSUME NEW r \in R, r.content = c, r.added <= u, u < r.removed
        PROVE  \E x \in F : x.content = c /\ x.added <= u /\ u < x.removed
    <3>1. img(r) \in F
      BY <1>3
    <3>2. u < img(r).removed
      <4>1. u < Never
        BY <1>6, <1>8 DEF Numbers
      <4>2. img(r).removed = Never \/ img(r).removed = r.removed
        BY <1>2
      <4> QED
        BY <1>6, <1>8, <2>2, <4>1, <4>2
    <3> QED
      BY <1>2, <2>2, <3>1, <3>2
  <2> QED
    BY <2>1, <2>2, InContent
<1>7. ASSUME NEW c
      PROVE  c \in ContentOf(F, v) <=> c \in ContentOf(R, v) \/ c \in S
  <2>1. ASSUME NEW x \in F, x.content = c, x.added <= v, v < x.removed, c \notin S
        PROVE  \E r \in R : r.content = c /\ r.added <= v /\ v < r.removed
    <3>1. CASE \E r \in R : x = img(r)
      BY <1>2, <2>1, <3>1
    <3>2. CASE \E d \in fresh : x = new(d)
      BY <1>9, <1>12, <2>1, <3>2
    <3> QED
      BY <1>3, <3>1, <3>2
  <2>2. ASSUME NEW r \in R, r.content = c, r.added <= v, v < r.removed
        PROVE  \E x \in F : x.content = c /\ x.added <= v /\ v < x.removed
    <3>1. ~hit(r) /\ img(r) \in F
      BY <1>3, <1>8, <2>2
    <3> QED
      BY <1>2, <2>2, <3>1
  <2>3. ASSUME c \in S
        PROVE  \E x \in F : x.content = c /\ x.added <= v /\ v < x.removed
    <3>1. CASE c \in fresh
      <4>1. new(c) \in F
        BY <1>3, <3>1
      <4> QED
        BY <1>9, <1>8, <2>3, <4>1
    <3>2. CASE c \notin fresh
      <4>1. PICK r \in R : r.content = c /\ hit(r)
        BY <1>13, <2>3, <3>2
      <4>2. img(r) \in F
        BY <1>3
      <4> QED
        BY <1>1, <1>2, <1>8, <4>1, <4>2
    <3> QED
      BY <3>1, <3>2
  <2> QED
    BY <2>1, <2>2, <2>3, InContent
<1> QED
  BY <1>4, <1>5, <1>6, <1>7 DEF Normal, F, ContentOf, Relations

\* What _squash() moves on to the next version.
Moved(r, v, n) == [r EXCEPT !.added = IF @ = v THEN n ELSE @,
                            !.removed = IF @ = v THEN n ELSE @]

\* Only the numbers of a row that moves on are changed, from v to n.
LEMMA MovedFields ==
    ASSUME NEW r \in Row, NEW v \in Numbers, NEW n \in Numbers
    PROVE  /\ Moved(r, v, n) \in Row /\ Moved(r, v, n).content = r.content
           /\ Moved(r, v, n).added = IF r.added = v THEN n ELSE r.added
           /\ Moved(r, v, n).removed = IF r.removed = v THEN n ELSE r.removed
<1> DEFINE a == IF r.added = v THEN n ELSE r.added
           b == IF r.removed = v THEN n ELSE r.removed
           x == Moved(r, v, n)
<1>1. x = [r EXCEPT !.added = a, !.removed = b]
  BY DEF Moved
<1>2. a \in Numbers /\ b \in Numbers \cup {Never}
  BY DEF Row
<1> HIDE DEF a, b, x
<1>3. x \in Row
  BY <1>1, <1>2 DEF Row
<1>4. x.content = r.content /\ x.added = a /\ x.removed = b
  BY <1>1 DEF Row
<1> QED
  BY <1>3, <1>4 DEF a, b, x

\* Two rows of a content unit are added in different versions.
LEMMA AddedOnce ==
    ASSUME NEW R, NEW V, Normal(R, V), NEW r \in R, NEW s \in R,
           r.content = s.content, r.added = s.added
    PROVE  r = s
<1> SUFFICES ASSUME r # s PROVE FALSE
  OBVIOUS
<1>1. /\ r.added \in Nat /\ r.removed \in Nat /\ s.removed \in Nat
      /\ r.added < r.removed /\ s.added < s.removed
  BY RowNumbers DEF Normal
<1>2. r.removed < s.added \/ s.removed < r.added
  BY DEF Normal
<1> QED
  BY <1>1, <1>2

\* The rows that _squash() leaves: those that were removed in v are removed
\* when the content is removed again, if the next version n adds it again.
Squashed(R, v, n, r, x) ==
    /\ x \in Row /\ x.content = r.content
    /\ x.added = IF r.added = v THEN n ELSE r.added
    /\ r.removed # v => x.removed = r.removed
    /\ r.removed = v =>
         \/ \E s \in R : /\ s.added = n /\ s.content = r.content
                         /\ x.removed = s.removed
         \/ /\ x.removed = n
            /\ ~\E s \in R : s.added = n /\ s.content = r.content

\* What _squash() drops: what n removes that v added, and what it adds again.
Dropped(R, v, n, r) ==
    \/ r.added = v /\ r.removed = n
    \/ r.added = n /\ \E s \in R : s.removed = v /\ s.content = r.content

\* Every row that _squash() leaves is one of the rows that it does not drop.
LEMMA SquashImage ==
    ASSUME NEW R, NEW V \in SUBSET Numbers, Normal(R, V),
           NEW v \in V, NEW n \in V, v < n
    PROVE  /\ \A x \in Squash(R, v, n) :
                \E r \in R : ~Dropped(R, v, n, r) /\ Squashed(R, v, n, r, x)
           /\ \A r \in R : ~Dropped(R, v, n, r) =>
                \E x \in Squash(R, v, n) : Squashed(R, v, n, r, x)
<1> USE VersionAssumption
<1> DEFINE kept == {r \in R : ~(r.added = v /\ r.removed = n)}
           readding(r) == {s \in kept : s.added = n /\ s.content = r.content}
           dropped == {s \in kept : /\ s.added = n
                                    /\ \E r \in kept : /\ r.removed = v
                                                       /\ r.content = s.content}
           joined(r) ==
               IF r.removed = v /\ readding(r) # {}
               THEN [r EXCEPT !.removed = (CHOOSE s \in readding(r) : TRUE).removed]
               ELSE r
           img(r) == Moved(joined(r), v, n)
           left == kept \ dropped
<1>1. \A r \in R : /\ r \in Row /\ r.added \in V /\ r.removed \in V \cup {Never}
                   /\ r.added < r.removed
  BY DEF Normal
<1>2. /\ v \in Nat /\ n \in Nat
      /\ \A r \in R : r.added \in Nat /\ r.removed \in Nat
  <2>1. v \in Nat /\ n \in Nat
    BY DEF Numbers
  <2>2. \A r \in R : r.added \in Nat /\ r.removed \in Nat
    BY <1>1, RowNumbers
  <2> QED
    BY <2>1, <2>2
<1>3. Squash(R, v, n) = {img(r) : r \in left}
  <2>1. Squash(R, v, n) = MoveOnly({joined(r) : r \in left}, v, n)
    BY DEF Squash
  <2>2. \A Q : MoveOnly(Q, v, n) = {Moved(y, v, n) : y \in Q}
    BY DEF MoveOnly, Moved
  <2> HIDE DEF joined, left
  <2> QED
    BY <2>1, <2>2
<1>4. ASSUME NEW r \in R, r.removed = v
      PROVE  readding(r) = {s \in R : s.added = n /\ s.content = r.content}
  BY <1>1, <1>2
<1>5. \A r \in R : r \in left <=> ~Dropped(R, v, n, r)
  <2> SUFFICES ASSUME NEW r \in R
               PROVE  r \in left <=> ~Dropped(R, v, n, r)
    OBVIOUS
  <2>1. \A s \in R : s.removed = v => s \in kept
    BY <1>1, <1>2
  <2> QED
    BY <2>1 DEF Dropped
<1>6. ASSUME NEW r \in left
      PROVE  Squashed(R, v, n, r, img(r))
  <2>1. r \in R /\ r \in Row
    BY <1>1
  <2>2. CASE r.removed = v /\ readding(r) # {}
    <3> DEFINE s == CHOOSE s \in readding(r) : TRUE
    <3>1. s \in readding(r)
      BY <2>2
    <3>2. s \in R /\ s.added = n /\ s.content = r.content
      BY <3>1
    <3>3. joined(r) = [r EXCEPT !.removed = s.removed]
      BY <2>2
    <3> HIDE DEF s, joined, readding
    <3>4. s.removed \in Numbers \cup {Never} /\ s.removed # v
      BY <1>1, <1>2, <3>2
    <3>5. /\ joined(r) \in Row /\ joined(r).content = r.content
          /\ joined(r).added = r.added /\ joined(r).removed = s.removed
      BY <2>1, <3>3, <3>4, RemovedField
    <3>6. /\ img(r) \in Row /\ img(r).content = r.content
          /\ img(r).added = IF r.added = v THEN n ELSE r.added
          /\ img(r).removed = s.removed
      <4> DEFINE y == joined(r)
      <4>1. /\ y \in Row /\ y.content = r.content /\ y.added = r.added
            /\ y.removed = s.removed /\ y.removed # v
        BY <3>4, <3>5
      <4> HIDE DEF y
      <4>2. /\ Moved(y, v, n) \in Row /\ Moved(y, v, n).content = r.content
            /\ Moved(y, v, n).added = IF r.added = v THEN n ELSE r.added
            /\ Moved(y, v, n).removed = s.removed
        BY <4>1, MovedFields
      <4> QED
        BY <4>2 DEF y
    <3> HIDE DEF img
    <3> QED
      BY <2>2, <3>2, <3>6 DEF Squashed
  <2>3. CASE ~(r.removed = v /\ readding(r) # {})
    <3>1. joined(r) = r
      BY <2>3
    <3> HIDE DEF joined
    <3>2. /\ img(r) \in Row /\ img(r).content = r.content
          /\ img(r).added = IF r.added = v THEN n ELSE r.added
          /\ img(r).removed = IF r.removed = v THEN n ELSE r.removed
      BY <2>1, <3>1, MovedFields
    <3>3. r.removed = v => ~\E s \in R : s.added = n /\ s.content = r.content
      BY <1>4, <2>1, <2>3
    <3> HIDE DEF img
    <3> QED
      BY <3>2, <3>3 DEF Squashed
  <2> QED
    BY <2>2, <2>3
<1> HIDE DEF img, left
<1>7. left \subseteq R
  BY DEF left
<1> QED
  BY <1>3, <1>5, <1>6, <1>7

\* Deleting a version that another one succeeds: the rows stay normal, and
\* every other version keeps its content (_squash()).
LEMMA SquashNormal ==
    ASSUME NEW R, NEW V \in SUBSET Numbers, Normal(R, V),
           NEW v \in V, NEW n \in V, v < n,
           \A u \in V : u <= v \/ n <= u
    PROVE  /\ Normal(Squash(R, v, n), V \ {v})
           /\ \A u \in V \ {v} :
                ContentOf(Squash(R, v, n), u) = ContentOf(R, u)
<1> USE VersionAssumption
<1> DEFINE F == Squash(R, v, n)
<1>1. \A r \in R : /\ r \in Row /\ r.added \in V /\ r.removed \in V \cup {Never}
                   /\ r.added < r.removed
  BY DEF Normal
<1>2. /\ v \in Nat /\ n \in Nat /\ Never \in Nat /\ n < Never
      /\ \A r \in R : r.added \in Nat /\ r.removed \in Nat
  <2>1. v \in Nat /\ n \in Nat /\ Never \in Nat /\ n < Never
    BY DEF Numbers, Never
  <2>2. \A r \in R : r.added \in Nat /\ r.removed \in Nat
    BY <1>1, RowNumbers
  <2> QED
    BY <2>1, <2>2
<1>3. /\ \A x \in F :
           \E r \in R : ~Dropped(R, v, n, r) /\ Squashed(R, v, n, r, x)
      /\ \A r \in R : ~Dropped(R, v, n, r) =>
           \E x \in F : Squashed(R, v, n, r, x)
  BY SquashImage
<1> HIDE DEF F
<1>4. \A r \in R : r.removed <= v \/ n <= r.removed
  <2> SUFFICES ASSUME NEW r \in R PROVE r.removed <= v \/ n <= r.removed
    OBVIOUS
  <2>1. CASE r.removed \in V
    BY <2>1
  <2>2. CASE r.removed = Never
    BY <1>2, <2>2
  <2> QED
    BY <1>1, <2>1, <2>2
<1>5. \A r \in R : r.added <= v \/ n <= r.added
  BY <1>1
<1>6. ASSUME NEW x \in F
      PROVE  /\ x \in Row /\ x.added \in V \ {v}
             /\ x.removed \in (V \ {v}) \cup {Never} /\ x.added < x.removed
  <2>1. PICK r \in R : ~Dropped(R, v, n, r) /\ Squashed(R, v, n, r, x)
    BY <1>3
  <2>2. /\ x \in Row /\ x.added \in V \ {v}
    BY <1>1, <1>2, <2>1 DEF Squashed
  <2>3. CASE r.removed # v
    <3>1. x.removed = r.removed
      BY <2>1, <2>3 DEF Squashed
    <3>2. r.added = v => n < r.removed
      BY <1>1, <1>2, <1>4, <2>1, <2>3 DEF Dropped
    <3>3. x.added < x.removed
      BY <1>1, <1>2, <2>1, <3>1, <3>2 DEF Squashed
    <3> QED
      BY <1>1, <2>2, <2>3, <3>1, <3>3
  <2>4. CASE r.removed = v
    <3>1. r.added < v /\ x.added = r.added
      BY <1>1, <1>2, <2>1, <2>4 DEF Squashed
    <3>2. \/ x.removed = n
          \/ \E s \in R : s.added = n /\ x.removed = s.removed
      BY <2>1, <2>4 DEF Squashed
    <3>3. CASE x.removed = n
      BY <1>1, <1>2, <2>2, <3>1, <3>3
    <3>4. ASSUME NEW s \in R, s.added = n, x.removed = s.removed
          PROVE  x.removed \in (V \ {v}) \cup {Never} /\ x.added < x.removed
      BY <1>1, <1>2, <3>1, <3>4
    <3> QED
      BY <2>2, <3>2, <3>3, <3>4
  <2> QED
    BY <2>3, <2>4
<1>7. ASSUME NEW x \in F, NEW y \in F, NEW r \in R, NEW t \in R,
             ~Dropped(R, v, n, r), Squashed(R, v, n, r, x),
             ~Dropped(R, v, n, t), Squashed(R, v, n, t, y),
             r.content = t.content, r.removed < t.added
      PROVE  x.removed < y.added
  <2>1. t.added <= y.added /\ y.added \in Nat
    BY <1>2, <1>7 DEF Squashed
  <2>2. CASE r.removed # v
    BY <1>2, <1>7, <2>1, <2>2 DEF Squashed
  <2>3. CASE r.removed = v
    <3>1. n < t.added
      <4>1. n <= t.added
        BY <1>2, <1>5, <1>7, <2>3
      <4>2. t.added # n
        BY <1>7, <2>3 DEF Dropped
      <4> QED
        BY <1>2, <4>1, <4>2
    <3>2. \/ x.removed = n
          \/ \E s \in R : /\ s.added = n /\ s.content = r.content
                          /\ x.removed = s.removed
      BY <1>7, <2>3 DEF Squashed
    <3>3. CASE x.removed = n
      BY <1>2, <2>1, <3>1, <3>3
    <3>4. ASSUME NEW s \in R, s.added = n, s.content = r.content,
                 x.removed = s.removed
          PROVE  x.removed < y.added
      <4>1. s # t /\ s.content = t.content
        BY <1>2, <1>7, <3>1, <3>4
      <4>2. s.removed < t.added \/ t.removed < s.added
        BY <4>1 DEF Normal
      <4> QED
        BY <1>1, <1>2, <2>1, <3>1, <3>4, <4>2
    <3> QED
      BY <3>2, <3>3, <3>4
  <2> QED
    BY <2>2, <2>3
<1>8. ASSUME NEW x \in F, NEW y \in F, x # y, x.content = y.content
      PROVE  x.removed < y.added \/ y.removed < x.added
  <2>1. PICK r \in R : ~Dropped(R, v, n, r) /\ Squashed(R, v, n, r, x)
    BY <1>3
  <2>2. PICK t \in R : ~Dropped(R, v, n, t) /\ Squashed(R, v, n, t, y)
    BY <1>3
  <2>3. r.content = t.content
    BY <1>8, <2>1, <2>2 DEF Squashed
  <2>4. r # t
    <3> SUFFICES ASSUME r = t PROVE FALSE
      OBVIOUS
    <3>1. x.added = y.added
      BY <2>1, <2>2 DEF Squashed
    <3>2. x.removed = y.removed
      <4>1. CASE r.removed # v
        BY <2>1, <2>2, <4>1 DEF Squashed
      <4>2. CASE r.removed = v
        <5>1. \A s1, s2 \in R : /\ s1.added = n /\ s1.content = r.content
                                /\ s2.added = n /\ s2.content = r.content
                                => s1 = s2
          BY AddedOnce
        <5> QED
          BY <2>1, <2>2, <4>2, <5>1 DEF Squashed
      <4> QED
        BY <4>1, <4>2
    <3>3. x \in Row /\ y \in Row
      BY <1>6
    <3> QED
      BY <1>8, <3>1, <3>2, <3>3 DEF Row
  <2>5. r.removed < t.added \/ t.removed < r.added
    BY <2>3, <2>4 DEF Normal
  <2> QED
    BY <1>7, <2>1, <2>2, <2>3, <2>5
<1>9. ASSUME NEW u \in V \ {v}, NEW c
      PROVE  c \in ContentOf(F, u) <=> c \in ContentOf(R, u)
  <2>1. u \in Nat /\ (u < v \/ n <= u)
    BY <1>2 DEF Numbers
  <2>2. ASSUME NEW x \in F, x.content = c, x.added <= u, u < x.removed
        PROVE  \E r \in R : r.content = c /\ r.added <= u /\ u < r.removed
    <3>1. PICK r \in R : ~Dropped(R, v, n, r) /\ Squashed(R, v, n, r, x)
      BY <1>3
    <3>2. r.content = c /\ r.added <= u
      BY <1>2, <2>1, <2>2, <3>1 DEF Squashed
    <3>3. CASE r.removed # v
      BY <2>2, <3>1, <3>2, <3>3 DEF Squashed
    <3>4. CASE r.removed = v
      <4>1. CASE u < v
        BY <3>2, <3>4, <4>1
      <4>2. CASE n <= u
        <5>1. x.removed # n
          BY <1>2, <2>1, <2>2, <4>2
        <5>2. PICK s \in R : /\ s.added = n /\ s.content = r.content
                             /\ x.removed = s.removed
          BY <3>1, <3>4, <5>1 DEF Squashed
        <5> QED
          BY <2>2, <3>2, <4>2, <5>2
      <4> QED
        BY <2>1, <4>1, <4>2
    <3> QED
      BY <3>3, <3>4
  <2>3. ASSUME NEW r \in R, r.content = c, r.added <= u, u < r.removed
        PROVE  \E x \in F : x.content = c /\ x.added <= u /\ u < x.removed
    <3>1. CASE ~Dropped(R, v, n, r)
      <4>1. PICK x \in F : Squashed(R, v, n, r, x)
        BY <1>3, <3>1
      <4>2. x.content = c /\ x.added <= u
        BY <1>2, <2>1, <2>3, <4>1 DEF Squashed
      <4>3. u < x.removed
        <5>1. CASE r.removed # v
          BY <2>3, <4>1, <5>1 DEF Squashed
        <5>2. CASE r.removed = v
          <6>1. u < n
            BY <1>2, <2>1, <2>3, <5>2
          <6>2. \A s \in R : s.added = n => u < s.removed
            BY <1>1, <1>2, <2>1, <6>1
          <6> QED
            BY <4>1, <5>2, <6>1, <6>2 DEF Squashed
        <5> QED
          BY <5>1, <5>2
      <4> QED
        BY <4>2, <4>3
    <3>2. CASE Dropped(R, v, n, r)
      <4>1. n <= u /\ r.added = n
        BY <1>2, <2>1, <2>3, <3>2 DEF Dropped
      <4>2. PICK s \in R : s.removed = v /\ s.content = r.content
        BY <1>2, <3>2, <4>1 DEF Dropped
      <4>3. s.added < v
        BY <1>1, <4>2
      <4>4. ~Dropped(R, v, n, s)
        BY <1>2, <4>3 DEF Dropped
      <4>5. PICK x \in F : Squashed(R, v, n, s, x)
        BY <1>3, <4>4
      <4>6. x.content = c /\ x.added <= u
        BY <1>2, <2>1, <2>3, <4>1, <4>2, <4>3, <4>5 DEF Squashed
      <4>7. PICK w \in R : /\ w.added = n /\ w.content = s.content
                           /\ x.removed = w.removed
        BY <4>1, <4>2, <4>5 DEF Squashed
      <4>8. w = r
        BY <4>1, <4>2, <4>7, AddedOnce
      <4> QED
        BY <2>3, <4>6, <4>7, <4>8
    <3> QED
      BY <3>1, <3>2
  <2> QED
    BY <2>2, <2>3, InContent
<1> QED
  BY <1>6, <1>8, <1>9 DEF Normal, F, ContentOf, Relations

\* What is added, and what is removed, in version v by the rows R.
AddedIn(R, v) == {r.content : r \in {r \in R : r.added = v}}
RemovedIn(R, v) == {r.content : r \in {r \in R : r.removed = v}}

\* What is added and removed in a version is the difference to the one before,
\* u, if there is one (added() and removed()).
LEMMA Differences ==
    ASSUME NEW R, NEW V \in SUBSET Numbers, Normal(R, V), NEW v \in V
    PROVE  /\ (\A w \in V : v <= w) =>
                /\ AddedIn(R, v) = ContentOf(R, v)
                /\ RemovedIn(R, v) = {}
           /\ \A u \in V : u < v /\ (\A w \in V : w <= u \/ v <= w) =>
                /\ AddedIn(R, v) = ContentOf(R, v) \ ContentOf(R, u)
                /\ RemovedIn(R, v) = ContentOf(R, u) \ ContentOf(R, v)
<1> USE VersionAssumption
<1>1. \A r \in R : /\ r \in Row /\ r.added \in V /\ r.removed \in V \cup {Never}
                   /\ r.added < r.removed
  BY DEF Normal
<1>2. /\ v \in Nat /\ Never \in Nat /\ v < Never
      /\ \A r \in R : r.added \in Nat /\ r.removed \in Nat
  <2>1. v \in Nat /\ Never \in Nat /\ v < Never
    BY DEF Numbers, Never
  <2>2. \A r \in R : r.added \in Nat /\ r.removed \in Nat
    BY <1>1, RowNumbers
  <2> QED
    BY <2>1, <2>2
<1>3. ASSUME \A w \in V : v <= w
      PROVE  /\ AddedIn(R, v) = ContentOf(R, v)
             /\ RemovedIn(R, v) = {}
  <2>1. \A r \in R : r.added = v <=> r.added <= v /\ v < r.removed
    BY <1>1, <1>2, <1>3
  <2>2. \A r \in R : r.removed # v
    BY <1>1, <1>2, <1>3
  <2> QED
    BY <2>1, <2>2 DEF ContentOf, Relations, AddedIn, RemovedIn
<1>4. ASSUME NEW u \in V, u < v, \A w \in V : w <= u \/ v <= w
      PROVE  /\ AddedIn(R, v) = ContentOf(R, v) \ ContentOf(R, u)
             /\ RemovedIn(R, v) = ContentOf(R, u) \ ContentOf(R, v)
  <2>1. u \in Nat
    BY DEF Numbers
  <2>2. \A r \in R : r.removed <= u \/ v <= r.removed
    BY <1>1, <1>2, <1>4, <2>1
  <2>3. ASSUME NEW r \in R, NEW s \in R, r.content = s.content, r.added = v,
               s.added <= u, u < s.removed
        PROVE  FALSE
    <3>1. r # s
      BY <1>2, <1>4, <2>1, <2>3
    <3>2. r.removed < s.added \/ s.removed < r.added
      BY <2>3, <3>1 DEF Normal
    <3> QED
      BY <1>1, <1>2, <1>4, <2>1, <2>2, <2>3, <3>2
  <2>4. ASSUME NEW r \in R, NEW s \in R, r.content = s.content, r.removed = v,
               s.added <= v, v < s.removed
        PROVE  FALSE
    <3>1. r # s
      BY <1>2, <2>4
    <3>2. r.removed < s.added \/ s.removed < r.added
      BY <2>4, <3>1 DEF Normal
    <3> QED
      BY <1>1, <1>2, <2>4, <3>2
  <2>5. ASSUME NEW c
        PROVE  c \in AddedIn(R, v)
                 <=> c \in ContentOf(R, v) /\ c \notin ContentOf(R, u)
    <3>1. ASSUME NEW r \in R, r.added = v, r.content = c
          PROVE  c \in ContentOf(R, v) /\ c \notin ContentOf(R, u)
      BY <1>1, <1>2, <2>3, <3>1, InContent
    <3>2. ASSUME c \in ContentOf(R, v), c \notin ContentOf(R, u)
          PROVE  \E r \in R : r.added = v /\ r.content = c
      <4>1. PICK r \in R : r.content = c /\ r.added <= v /\ v < r.removed
        BY <3>2, InContent
      <4>2. ~(r.added <= u /\ u < r.removed)
        BY <3>2, <4>1, InContent
      <4> QED
        BY <1>1, <1>2, <1>4, <2>1, <4>1, <4>2
    <3> QED
      BY <3>1, <3>2 DEF AddedIn
  <2>6. ASSUME NEW c
        PROVE  c \in RemovedIn(R, v)
                 <=> c \in ContentOf(R, u) /\ c \notin ContentOf(R, v)
    <3>1. ASSUME NEW r \in R, r.removed = v, r.content = c
          PROVE  c \in ContentOf(R, u) /\ c \notin ContentOf(R, v)
      <4>1. r.added <= u /\ u < r.removed
        BY <1>1, <1>2, <1>4, <2>1, <3>1
      <4> QED
        BY <2>4, <3>1, <4>1, InContent
    <3>2. ASSUME c \in ContentOf(R, u), c \notin ContentOf(R, v)
          PROVE  \E r \in R : r.removed = v /\ r.content = c
      <4>1. PICK r \in R : r.content = c /\ r.added <= u /\ u < r.removed
        BY <3>2, InContent
      <4>2. ~(r.added <= v /\ v < r.removed)
        BY <3>2, <4>1, InContent
      <4> QED
        BY <1>2, <1>4, <2>1, <2>2, <4>1, <4>2
    <3> QED
      BY <3>1, <3>2 DEF RemovedIn
  <2> QED
    BY <2>5, <2>6
<1> QED
  BY <1>3, <1>4

-----------------------------------------------------------------------------
(***************************************************************************)
(* The versions there are.                                                 *)
(***************************************************************************)
\* Numbers are natural numbers, and the incomplete version is the greatest.
LEMMA VersionNumbers ==
    ASSUME VersionInv
    PROVE  /\ complete \in SUBSET Numbers /\ complete \cup Opened \in SUBSET Numbers
           /\ Numbers \subseteq Nat /\ Never \in Nat /\ nextVersion \in Nat
           /\ \A v \in Numbers : v < Never
           /\ \A v \in complete : v < nextVersion
           /\ \A v \in Opened : v = open /\ v = nextVersion
           /\ open \notin complete /\ NoVersion \notin Numbers
BY VersionAssumption DEF VersionInv, VersionTypes, Numbering, Opened, Numbers, Never,
   NoVersion

\* There is a latest version.
LEMMA LatestComplete ==
    ASSUME VersionInv
    PROVE  Latest \in complete /\ \A u \in complete : u <= Latest
BY GreatestExists, VersionNumbers DEF Latest, VersionInv, VersionTypes

\* The rows that a dead task has added are in no complete version.
LEMMA OldContent ==
    ASSUME VersionInv, NEW v \in complete
    PROVE  ContentOf(Old, v) = Content(v)
<1>1. \A r \in rows : r.added <= v => r.added # open
  <2> SUFFICES ASSUME NEW r \in rows, r.added <= v, r.added = open PROVE FALSE
    OBVIOUS
  <2>1. r.added \in Numbers
    BY DEF VersionInv, VersionTypes, Row
  <2>2. open # NoVersion
    BY <2>1, VersionNumbers
  <2>3. v < open /\ v \in Nat /\ open \in Nat
    BY <2>2, VersionNumbers DEF VersionInv, Numbering
  <2> QED
    BY <2>3
<1> QED
  BY <1>1 DEF Old, Content, ContentOf, Relations

\* The rows that version w has not added.
Without(R, w) == {r \in R : r.added # w}

\* What is normal about a version that is written: the rows that it has added
\* are not removed, and the others do not depend on them.
LEMMA WritingHolds ==
    ASSUME NEW R, NEW V \in SUBSET Numbers, NEW w \in Numbers,
           \A u \in V : u < w, Normal(R, V \cup {w})
    PROVE  /\ Normal(Without(R, w), V \cup {w})
           /\ \A r \in R : r.added = w => r.removed = Never
           /\ \A u \in V : ContentOf(Without(R, w), u) = ContentOf(R, u)
<1> USE VersionAssumption
<1>1. Normal(Without(R, w), V \cup {w})
  BY DEF Normal, Without
<1>2. \A r \in R : r.added = w => r.removed = Never
  <2> SUFFICES ASSUME NEW r \in R, r.added = w, r.removed \in V \cup {w}
               PROVE  FALSE
    BY DEF Normal
  <2>1. r.added < r.removed
    BY DEF Normal
  <2>2. r.removed < w \/ r.removed = w
    OBVIOUS
  <2>4. r.removed \in Numbers
    OBVIOUS
  <2>3. r.removed \in Nat /\ w \in Nat
    BY <2>4 DEF Numbers
  <2> QED
    BY <2>1, <2>2, <2>3
<1>3. \A u \in V, r \in R : r.added <= u => r.added # w
  BY DEF Numbers
<1> QED
  BY <1>1, <1>2, <1>3 DEF ContentOf, Relations, Without

\* delete() of the last version: Forget, of the rows without those of a dead
\* task, is what happens to them.
LEMMA ForgetOld ==
    ASSUME NEW R \in SUBSET Row, NEW v \in Numbers, NEW o
    PROVE  /\ Forget(R, v) \subseteq Row
           /\ {r \in Forget(R, v) : r.added # o} = Forget({r \in R : r.added # o}, v)
           /\ \A x \in Forget(R, v) : x.added = o =>
                \E r \in R : /\ r.added = o
                             /\ x.removed = IF r.removed = v THEN Never ELSE r.removed
<1> DEFINE img(r) == IF r.removed = v THEN [r EXCEPT !.removed = Never] ELSE r
<1>1. \A r \in R :
        /\ img(r) \in Row /\ img(r).added = r.added
        /\ img(r).removed = IF r.removed = v THEN Never ELSE r.removed
  BY RemovedField
<1>2. \A Q \in SUBSET R : Forget(Q, v) = {img(r) : r \in {x \in Q : x.added # v}}
  BY DEF Forget, SetRemoved
<1> HIDE DEF img
<1>3. Forget(R, v) = {img(r) : r \in {x \in R : x.added # v}}
  BY <1>2
<1>4. Forget({r \in R : r.added # o}, v)
        = {img(r) : r \in {x \in {r \in R : r.added # o} : x.added # v}}
  BY <1>2
<1> QED
  BY <1>1, <1>3, <1>4

\* _squash() of complete versions leaves the rows alone that a dead task has
\* added.
LEMMA SquashOld ==
    ASSUME NEW O, NEW P \in SUBSET Row, NEW v, NEW n, v # n,
           \A r \in P : r.added \notin {v, n} /\ r.removed \notin {v, n}
    PROVE  Squash(O \cup P, v, n) = Squash(O, v, n) \cup P
<1> DEFINE kept(R) == {r \in R : ~(r.added = v /\ r.removed = n)}
           readding(R, r) == {s \in kept(R) : s.added = n /\ s.content = r.content}
           dropped(R) == {s \in kept(R) : /\ s.added = n
                                    /\ \E r \in kept(R) : /\ r.removed = v
                                                       /\ r.content = s.content}
           joined(R, r) ==
               IF r.removed = v /\ readding(R, r) # {}
               THEN [r EXCEPT !.removed = (CHOOSE s \in readding(R, r) : TRUE).removed]
               ELSE r
           R == O \cup P
<1>1. \A Q : Squash(Q, v, n)
               = {Moved(y, v, n) : y \in {joined(Q, r) : r \in kept(Q) \ dropped(Q)}}
  BY Zenon DEF Squash, MoveOnly, Moved
<1>2. kept(R) = kept(O) \cup P
  OBVIOUS
<1>3. \A r : readding(R, r) = readding(O, r)
  OBVIOUS
<1>4. dropped(R) = dropped(O)
  BY <1>2
<1>5. \A r : joined(R, r) = joined(O, r)
  BY <1>3
<1>6. \A r \in P : joined(R, r) = r
  OBVIOUS
<1>7. \A r \in P : r \notin dropped(O)
  OBVIOUS
<1>8. \A r \in P : Moved(r, v, n) = r
  BY DEF Moved, Row
<1> HIDE DEF kept, readding, dropped, joined
<1>9. Squash(R, v, n) = {Moved(y, v, n) : y \in {joined(R, r) : r \in kept(R) \ dropped(R)}}
  BY <1>1
<1>10. kept(R) \ dropped(R) = (kept(O) \ dropped(O)) \cup P
  BY <1>2, <1>4, <1>7
<1>11. {joined(R, r) : r \in kept(R) \ dropped(R)}
         = {joined(O, r) : r \in kept(O) \ dropped(O)} \cup P
  BY <1>5, <1>6, <1>10
<1>12. Squash(O, v, n) = {Moved(y, v, n) : y \in {joined(O, r) : r \in kept(O) \ dropped(O)}}
  BY <1>1
<1> QED
  BY <1>8, <1>9, <1>11, <1>12, Zenon

\* Deleting a complete version keeps the others as they are, and what a dead
\* task left behind (delete(), outside of the task that writes).
LEMMA DeleteHolds ==
    ASSUME VersionInv, NEW v \in complete, Cardinality(complete) > 1,
           DeleteComplete(v)
    PROVE  /\ complete' = complete \ {v} /\ complete' # {}
           /\ rows' \subseteq Row
           /\ Normal(Old', complete' \cup Opened')
           /\ \A r \in rows' : r.added = open' => r.removed = Never
           /\ \A u \in complete' : ContentOf(Old', u) = ContentOf(Old, u)
<1> USE VersionAssumption
<1> DEFINE A == complete \cup Opened
           P == {r \in rows : r.added = open}
<1>1. /\ complete' = complete \ {v}
      /\ UNCHANGED <<open, contentIds, nextVersion, served, following>>
      /\ rows' = IF Later(v) # {} THEN Squash(rows, v, Least(Later(v)))
                                 ELSE Forget(rows, v)
  BY DEF DeleteComplete, distVars
<1>2. complete' # {}
  <2> SUFFICES ASSUME complete = {v} PROVE FALSE
    BY <1>1
  <2>1. Cardinality({v}) = 1
    BY FS_Singleton
  <2> QED
    BY <2>1
<1>3. /\ Normal(Old, A) /\ rows \subseteq Row /\ A \in SUBSET Numbers
      /\ \A r \in P : r.removed = Never
      /\ v \in A /\ v \in Numbers /\ v \in Nat
  BY VersionNumbers DEF VersionInv, VersionTypes, RowsNormal
<1>4. Old' = {r \in rows' : r.added # open}
  BY <1>1 DEF Old
<1>5. A \ {v} = complete' \cup Opened'
  BY <1>1, VersionNumbers DEF Opened
<1>6. CASE Later(v) = {}
  <2>1. rows' = Forget(rows, v)
    BY <1>1, <1>6
  <2>2. /\ rows' \subseteq Row
        /\ {r \in rows' : r.added # open} = Forget(Old, v)
        /\ \A x \in rows' : x.added = open =>
              \E r \in rows : /\ r.added = open
                            /\ x.removed = IF r.removed = v THEN Never ELSE r.removed
    <3>1. rows \in SUBSET Row /\ v \in Numbers
      BY <1>3
    <3>2. rows' \subseteq Row
      BY <2>1, <3>1, ForgetOld
    <3>3. {r \in Forget(rows, v) : r.added # open}
            = Forget({r \in rows : r.added # open}, v)
      BY <3>1, ForgetOld
    <3>4. \A x \in Forget(rows, v) : x.added = open =>
            \E r \in rows : /\ r.added = open
                          /\ x.removed = IF r.removed = v THEN Never ELSE r.removed
      BY <3>1, ForgetOld
    <3> QED
      BY <2>1, <3>2, <3>3, <3>4 DEF Old
  <2>3. \A u \in complete : u <= v
    BY <1>6, VersionNumbers DEF Later
  <2>4. \A r \in Old : r.added <= v
    BY <1>3, <2>3 DEF Normal, Old, Opened
  <2>5. /\ Normal(Forget(Old, v), A \ {v})
        /\ \A u \in Numbers : u < v => ContentOf(Forget(Old, v), u) = ContentOf(Old, u)
    BY <1>3, <2>4, ForgetNormal
  <2>6. \A u \in complete' : u \in Numbers /\ u < v
    BY <1>1, <1>3, <2>3, VersionNumbers
  <2>7. \A x \in rows' : x.added = open => x.removed = Never
    BY <1>3, <2>2
  <2>8. Old' = Forget(Old, v)
    BY <1>4, <2>2
  <2> QED
    BY <1>1, <1>2, <1>5, <2>2, <2>5, <2>6, <2>7, <2>8
<1>7. CASE Later(v) # {}
  <2> DEFINE n == Least(Later(v))
  <2>1. n \in Later(v) /\ \A u \in Later(v) : n <= u
    BY <1>7, LeastExists, VersionNumbers DEF Later
  <2>2. n \in complete /\ v < n /\ n \in Nat /\ n \in A
    BY <2>1, VersionNumbers DEF Later
  <2>3. rows' = Squash(rows, v, n)
    BY <1>1, <1>7
  <2> HIDE DEF n
  <2>4. \A u \in A : u <= v \/ n <= u
    <3>1. \A u \in complete : u <= v \/ n <= u
      BY <2>1, VersionNumbers DEF Later
    <3>2. \A u \in Opened : n <= u
      BY <2>2, VersionNumbers
    <3> QED
      BY <3>1, <3>2
  <2>5. /\ Normal(Squash(Old, v, n), A \ {v})
        /\ \A u \in A \ {v} : ContentOf(Squash(Old, v, n), u) = ContentOf(Old, u)
    BY <1>3, <2>2, <2>4, SquashNormal
  <2>6. rows = Old \cup P
    BY DEF Old
  <2>7. rows' = Squash(Old, v, n) \cup P
    <3>1. \A r \in P : r.added \notin {v, n} /\ r.removed \notin {v, n}
      BY <1>3, <2>2, VersionNumbers
    <3>2. v # n /\ P \in SUBSET Row
      BY <1>3, <2>2
    <3> HIDE DEF P
    <3>3. Squash(Old \cup P, v, n) = Squash(Old, v, n) \cup P
      BY <3>1, <3>2, SquashOld
    <3> QED
      BY <2>3, <2>6, <3>3
  <2>8. \A x \in Squash(Old, v, n) : x \in Row /\ x.added # open
    <3>1. \A r \in Old : r.added # open
      BY DEF Old
    <3>2. \A x \in Squash(Old, v, n) :
            \E r \in Old : Squashed(Old, v, n, r, x)
      BY <1>3, <2>2, SquashImage
    <3>3. n # open
      BY <2>2, VersionNumbers
    <3> QED
      BY <3>1, <3>2, <3>3 DEF Squashed
  <2>9. Old' = Squash(Old, v, n)
    BY <1>4, <2>7, <2>8
  <2>10. rows' \subseteq Row
    BY <1>3, <2>7, <2>8
  <2>11. \A x \in rows' : x.added = open => x.removed = Never
    BY <1>3, <2>7, <2>8
  <2> QED
    BY <1>1, <1>2, <1>5, <2>5, <2>9, <2>10, <2>11
<1> QED
  BY <1>6, <1>7

\* What new_version() starts from: the rows without what a dead task left.
Clean == IF open = NoVersion THEN rows ELSE Forget(rows, open)

\* Deleting the incomplete version leaves normal rows, and every complete
\* version as it is.
LEMMA CleanHolds ==
    ASSUME VersionInv
    PROVE  /\ Clean \subseteq Row /\ Normal(Clean, complete)
           /\ \A u \in complete : ContentOf(Clean, u) = ContentOf(Old, u)
<1> USE VersionAssumption
<1>1. /\ Normal(Old, complete \cup Opened) /\ rows \subseteq Row
      /\ complete \cup Opened \in SUBSET Numbers
  BY VersionNumbers DEF VersionInv, VersionTypes, RowsNormal
<1>2. CASE open = NoVersion
  <2>1. Old = rows
    BY <1>1, <1>2, VersionNumbers DEF Old, Row
  <2>2. complete \cup Opened = complete
    BY <1>2 DEF Opened
  <2> QED
    BY <1>1, <1>2, <2>1, <2>2 DEF Clean
<1>3. CASE open # NoVersion
  <2>1. open \in Numbers /\ open \in Nat /\ Opened = {open}
    BY <1>3, VersionNumbers DEF VersionInv, VersionTypes, Opened
  <2>7. \A u \in complete : u \in Numbers /\ u < open
    <3>1. open = nextVersion
      BY <1>3 DEF VersionInv, Numbering
    <3> QED
      BY <3>1, VersionNumbers
  <2>2. \A u \in complete \cup Opened : u <= open
    <3>1. \A u \in complete : u <= open
      BY <2>1, <2>7 DEF Numbers
    <3>2. \A u \in Opened : u = open /\ u <= open
      BY <2>1
    <3> QED
      BY <3>1, <3>2
  <2>3. \A r \in Old : r.added <= open
    BY <1>1, <2>2 DEF Normal
  <2>4. /\ Normal(Forget(Old, open), (complete \cup Opened) \ {open})
        /\ \A u \in Numbers : u < open =>
              ContentOf(Forget(Old, open), u) = ContentOf(Old, u)
    BY <1>1, <2>1, <2>3, ForgetNormal
  <2>5. (complete \cup Opened) \ {open} = complete
    BY <2>1, VersionNumbers
  <2>6. Clean = Forget(Old, open)
    BY <1>3 DEF Clean, Forget, Old, SetRemoved
  <2>8. Clean \subseteq Row
    BY <2>4, <2>6 DEF Normal
  <2> QED
    BY <2>4, <2>5, <2>6, <2>7, <2>8
<1> QED
  BY <1>2, <1>3

-----------------------------------------------------------------------------
(***************************************************************************)
(* The invariant.                                                          *)
(***************************************************************************)
\* What VersionInv says of the committed rows, whatever the writer does.
Data ==
    /\ complete \subseteq Numbers /\ complete # {}
    /\ rows \subseteq Row
    /\ contentIds \in [Numbers -> SUBSET Contents]
    /\ Normal(Old, complete \cup Opened)
    /\ \A r \in rows : r.added = open => r.removed = Never
    /\ \A v \in complete : contentIds[v] = ContentOf(Old, v)

\* The database holds version 0 only, which is empty (Repository.save()).
LEMMA InitInv == Init => VersionInv
<1> SUFFICES ASSUME Init PROVE VersionInv
  OBVIOUS
<1> USE VersionAssumption
<1>1. VersionTypes
  <2>1. 0 \in Numbers /\ 1 \in 1 .. (MaxNumber + 1)
    BY DEF Numbers
  <2>2. contentIds \in [Numbers -> SUBSET Contents]
    BY DEF Init
  <2> QED
    BY <2>1, <2>2 DEF Init, VersionTypes, NoVersion
<1>2. Numbering
  BY DEF Init, Numbering, NoVersion
<1>3. RowsNormal
  BY DEF Init, RowsNormal, Normal, Old
<1>4. Memoized
  <2>1. 0 \in Numbers
    BY DEF Numbers
  <2> QED
    BY <2>1 DEF Init, Memoized, ContentOf, Relations, Old
<1> QED
  BY <1>1, <1>2, <1>3, <1>4 DEF VersionInv

\* A statement that writes nothing to the versions leaves them as they are.
LEMMA SameData ==
    ASSUME VersionInv, UNCHANGED dbVars
    PROVE  Data'
BY DEF VersionInv, VersionTypes, RowsNormal, Memoized, Data, dbVars, Normal, Old,
       Opened, ContentOf, Relations

\* So does the deletion of a version, of those that remain (delete()).
LEMMA DeleteData ==
    ASSUME VersionInv, NEW v \in complete, Cardinality(complete) > 1,
           DeleteComplete(v)
    PROVE  Data'
<1>1. /\ complete' = complete \ {v} /\ complete' # {}
      /\ rows' \subseteq Row
      /\ Normal(Old', complete' \cup Opened')
      /\ \A r \in rows' : r.added = open' => r.removed = Never
      /\ \A u \in complete' : ContentOf(Old', u) = ContentOf(Old, u)
  BY DeleteHolds
<1>2. contentIds' = contentIds
  BY DEF DeleteComplete
<1>3. /\ complete \subseteq Numbers
      /\ contentIds \in [Numbers -> SUBSET Contents]
      /\ \A u \in complete : contentIds[u] = ContentOf(Old, u)
  BY DEF VersionInv, VersionTypes, Memoized
<1>4. Normal(Old, complete \cup Opened)'
  BY <1>1 DEF Normal
<1>5. \A u \in complete' : contentIds'[u] = ContentOf(Old, u)'
  BY <1>1, <1>2, <1>3 DEF ContentOf, Relations
<1>6. (\A r \in rows : r.added = open => r.removed = Never)'
  BY <1>1
<1> QED
  BY <1>1, <1>2, <1>3, <1>4, <1>5, <1>6 DEF Data

\* And the deletion of the incomplete version.
LEMMA OpenData ==
    ASSUME VersionInv, open # NoVersion, DeleteOpen
    PROVE  Data'
<1>1. /\ rows' = Clean /\ open' = NoVersion
      /\ complete' = complete /\ contentIds' = contentIds
  BY DEF DeleteOpen, Clean
<1>2. /\ Clean \subseteq Row /\ Normal(Clean, complete)
      /\ \A u \in complete : ContentOf(Clean, u) = ContentOf(Old, u)
  BY CleanHolds
<1>3. Old' = rows'
  BY <1>1, <1>2, VersionNumbers DEF Old, Row
<1>4. Opened' = {}
  BY <1>1 DEF Opened
<1>5. \A r \in rows' : r.added # open'
  BY <1>1, <1>2, VersionNumbers DEF Row
<1>6. /\ complete \subseteq Numbers /\ complete # {}
      /\ contentIds \in [Numbers -> SUBSET Contents]
      /\ \A u \in complete : contentIds[u] = ContentOf(Old, u)
  BY DEF VersionInv, VersionTypes, Memoized
<1>7. Normal(Old, complete \cup Opened)'
  BY <1>1, <1>2, <1>3, <1>4 DEF Normal
<1>8. (\A u \in complete : contentIds[u] = ContentOf(Old, u))'
  BY <1>1, <1>2, <1>3, <1>6 DEF ContentOf, Relations
<1> QED
  BY <1>1, <1>2, <1>5, <1>6, <1>7, <1>8 DEF Data

\* While no task writes, these are what the invariant says of the rows.
LEMMA Settles ==
    ASSUME Data', Numbering', pc' # "writing",
           open' \in Numbers \cup {NoVersion}, nextVersion' \in 1 .. (MaxNumber + 1),
           served' \subseteq Numbers, following' \in BOOLEAN,
           pc' \in {"idle", "writing", "plan", "prune", "notify"},
           written' \in Numbers \cup {NoVersion}, expired' \subseteq Numbers
    PROVE  VersionInv'
BY DEF Data, VersionInv, VersionTypes, RowsNormal, Memoized

\* The rows of a version that is written: whatever new_version(),
\* add_content() or remove_content() has just done to them.
LEMMA Writes ==
    ASSUME VersionInv, NEW w \in Numbers, w = nextVersion,
           NEW X \in SUBSET Contents,
           Normal(rows', complete \cup {w}),
           \A u \in complete : ContentOf(rows', u) = ContentOf(Old, u),
           X = ContentOf(rows', w),
           contentIds' = [contentIds EXCEPT ![w] = X],
           pc' = "writing", open' = w, written' = w, expired = {},
           UNCHANGED <<complete, nextVersion, distVars, expired>>
    PROVE  VersionInv'
<1>1. \A u \in complete : u < w /\ u # w
  BY VersionNumbers DEF Numbers
<1>2. complete \in SUBSET Numbers /\ complete # {} /\ nextVersion \in 1 .. (MaxNumber + 1)
      /\ served \subseteq Numbers /\ following \in BOOLEAN
      /\ contentIds \in [Numbers -> SUBSET Contents]
      /\ \A u \in complete : contentIds[u] = ContentOf(Old, u)
  BY DEF VersionInv, VersionTypes, Memoized
<1>3. Old' = {r \in rows' : r.added # w}
  BY DEF Old
<1>4. /\ Normal(Old', complete \cup {w})
      /\ \A r \in rows' : r.added = w => r.removed = Never
      /\ \A u \in complete : ContentOf(Old', u) = ContentOf(rows', u)
  <2>1. \A u \in complete : u < w
    BY <1>1
  <2> DEFINE R == rows'
  <2>2. Normal(R, complete \cup {w}) /\ complete \in SUBSET Numbers
    BY <1>2
  <2>3. Old' = Without(R, w)
    BY <1>3 DEF Without
  <2> HIDE DEF R
  <2>4. /\ Normal(Without(R, w), complete \cup {w})
        /\ \A r \in R : r.added = w => r.removed = Never
        /\ \A u \in complete : ContentOf(Without(R, w), u) = ContentOf(R, u)
    BY <2>1, <2>2, WritingHolds
  <2> QED
    BY <2>3, <2>4 DEF R
<1>5. Opened' = {w}
  BY VersionNumbers DEF Opened
<1>6. VersionTypes'
  <2>1. rows' \subseteq Row
    BY DEF Normal
  <2>2. contentIds' \in [Numbers -> SUBSET Contents]
    BY <1>2
  <2> QED
    BY <1>2, <2>1, <2>2 DEF VersionTypes, distVars
<1>7. Numbering'
  BY <1>1, VersionNumbers DEF Numbering
<1>8. RowsNormal'
  <2>1. Normal(Old, complete \cup Opened)'
    BY <1>4, <1>5 DEF Normal
  <2>2. Normal(rows, complete \cup Opened)'
    BY <1>5 DEF Normal
  <2> QED
    BY <1>4, <2>1, <2>2 DEF RowsNormal
<1>9. Memoized'
  <2>1. \A u \in complete : contentIds'[u] = ContentOf(Old, u)'
    <3> SUFFICES ASSUME NEW u \in complete
                 PROVE  contentIds'[u] = ContentOf(Old, u)'
      OBVIOUS
    <3>1. contentIds'[u] = contentIds[u]
      BY <1>1, <1>2
    <3>2. ContentOf(Old', u) = ContentOf(Old, u)'
      BY DEF ContentOf, Relations
    <3> QED
      BY <1>2, <1>4, <3>1, <3>2
  <2>2. contentIds'[w] = X
    BY <1>2
  <2>3. contentIds'[written'] = ContentOf(rows, written)'
    BY <2>2 DEF ContentOf, Relations
  <2> QED
    BY <2>1, <2>3 DEF Memoized
<1> QED
  BY <1>6, <1>7, <1>8, <1>9 DEF VersionInv

\* A new version begins with the content of the one that it is based on, or of
\* the latest (new_version()).
LEMMA NewVersionStep ==
    ASSUME VersionInv, NEW base \in complete \cup {NoVersion}, NewVersion(base)
    PROVE  VersionInv'
<1> USE VersionAssumption
<1> DEFINE v == nextVersion
           W == complete \cup {v}
           latest == contentIds[Latest]
           wanted == IF base = NoVersion THEN contentIds[Latest]
                                         ELSE contentIds[base]
           cut == Remove(Clean, v, latest \ wanted)
           all == Add(cut, v, wanted \ latest)
<1>1. /\ v \in Numbers /\ rows' = all /\ contentIds' = [contentIds EXCEPT ![v] = wanted]
      /\ pc = "idle" /\ pc' = "writing" /\ open' = v /\ written' = v
      /\ UNCHANGED <<complete, nextVersion, distVars, expired>>
  BY DEF NewVersion, Clean
<1>2. Latest \in complete /\ \A u \in complete : u <= Latest
  BY LatestComplete
<1>3. latest \in SUBSET Contents /\ wanted \in SUBSET Contents
  <2>1. contentIds \in [Numbers -> SUBSET Contents] /\ complete \subseteq Numbers
    BY DEF VersionInv, VersionTypes
  <2> QED
    BY <1>2, <2>1
<1>4. /\ Clean \subseteq Row /\ Normal(Clean, complete)
      /\ \A u \in complete : ContentOf(Clean, u) = ContentOf(Old, u)
  BY CleanHolds
<1>5. /\ W \in SUBSET Numbers /\ v \in W /\ v \in Nat
      /\ \A u \in complete : u \in Numbers /\ u \in Nat /\ u < v
  BY <1>1, VersionNumbers
<1>6. \A u \in W : u <= v
  BY <1>5
<1>7. ContentOf(Clean, v) = latest
  <2>1. ContentOf(Clean, Latest) = latest
    BY <1>2, <1>4 DEF VersionInv, Memoized
  <2>2. ASSUME NEW r \in Clean
        PROVE  (r.added <= v /\ v < r.removed) <=> (r.added <= Latest /\ Latest < r.removed)
    <3>1. r.added \in complete /\ r.removed \in complete \cup {Never}
      BY <1>4 DEF Normal
    <3>2. /\ r.added <= Latest /\ r.added < v
          /\ r.removed \in complete => r.removed <= Latest /\ r.removed < v /\ r.removed \in Nat
          /\ Latest \in Nat /\ Latest < Never /\ v < Never /\ Never \in Nat /\ r.added \in Nat
      BY <1>1, <1>2, <1>5, <3>1, VersionNumbers
    <3> QED
      BY <1>5, <3>1, <3>2
  <2>3. ContentOf(Clean, v) = ContentOf(Clean, Latest)
    BY <2>2 DEF ContentOf, Relations
  <2> QED
    BY <2>1, <2>3
<1>8. Normal(Clean, W)
  BY <1>4, NormalMono
<1> HIDE DEF v, W, latest, wanted, cut, all
<1>9. /\ Normal(cut, W)
      /\ \A u \in Numbers : u < v => ContentOf(cut, u) = ContentOf(Clean, u)
      /\ ContentOf(cut, v) = latest \ (latest \ wanted)
  <2>1. /\ Normal(Remove(Clean, v, latest \ wanted), W)
        /\ \A u \in Numbers : u < v =>
             ContentOf(Remove(Clean, v, latest \ wanted), u) = ContentOf(Clean, u)
        /\ ContentOf(Remove(Clean, v, latest \ wanted), v)
             = ContentOf(Clean, v) \ (latest \ wanted)
    BY <1>5, <1>6, <1>8, RemoveNormal
  <2> QED
    BY <1>7, <2>1 DEF cut
<1>10. /\ Normal(all, W)
       /\ \A u \in Numbers : u < v => ContentOf(all, u) = ContentOf(cut, u)
       /\ ContentOf(all, v) = ContentOf(cut, v) \cup (wanted \ latest)
  <2> DEFINE S == wanted \ latest
  <2>1. S \in SUBSET Contents /\ S \cap ContentOf(cut, v) = {}
    BY <1>3, <1>9
  <2> HIDE DEF S
  <2>2. /\ Normal(Add(cut, v, S), W)
        /\ \A u \in Numbers : u < v => ContentOf(Add(cut, v, S), u) = ContentOf(cut, u)
        /\ ContentOf(Add(cut, v, S), v) = ContentOf(cut, v) \cup S
    BY <1>5, <1>6, <1>9, <2>1, AddNormal
  <2> QED
    BY <2>2 DEF S, all
<1>11. ContentOf(all, v) = wanted
  BY <1>9, <1>10
<1>12. \A u \in complete : ContentOf(all, u) = ContentOf(Old, u)
  BY <1>4, <1>5, <1>9, <1>10
<1>13. expired = {}
  BY <1>1 DEF VersionInv, Numbering
<1>14. rows' = all /\ v = nextVersion
  BY <1>1 DEF v
<1>15. /\ Normal(rows', complete \cup {v})
       /\ \A u \in complete : ContentOf(rows', u) = ContentOf(Old, u)
       /\ wanted = ContentOf(rows', v)
  BY <1>10, <1>11, <1>12, <1>14 DEF W
<1> QED
  BY <1>1, <1>3, <1>13, <1>14, <1>15, Writes

\* What the writer knows of the version that it writes.
LEMMA Writing ==
    ASSUME VersionInv, pc = "writing"
    PROVE  /\ written = open /\ written = nextVersion /\ written \in Numbers
           /\ written \in Nat /\ expired = {} /\ Opened = {written}
           /\ Normal(rows, complete \cup {written})
           /\ complete \cup {written} \in SUBSET Numbers
           /\ \A u \in complete \cup {written} : u <= written
           /\ \A u \in complete : u \in Numbers /\ u < written
           /\ contentIds[written] \in SUBSET Contents
           /\ contentIds[written] = ContentOf(rows, written)
           /\ \A u \in complete : ContentOf(rows, u) = ContentOf(Old, u)
<1>1. /\ written = open /\ expired = {} /\ written # NoVersion
  BY DEF VersionInv, Numbering
<1>2. written = nextVersion /\ written \in Numbers /\ Opened = {written}
  BY <1>1 DEF VersionInv, VersionTypes, Numbering, Opened
<1>3. written \in Nat /\ \A u \in complete : u \in Numbers /\ u \in Nat /\ u < written
  BY <1>2, VersionNumbers
<1>4. /\ Normal(rows, complete \cup {written})
      /\ contentIds[written] = ContentOf(rows, written)
  BY <1>2 DEF VersionInv, RowsNormal, Memoized
<1>5. \A u \in complete : ContentOf(rows, u) = ContentOf(Old, u)
  <2> SUFFICES ASSUME NEW u \in complete PROVE ContentOf(rows, u) = ContentOf(Old, u)
    OBVIOUS
  <2>1. \A r \in rows : r.added <= u => r.added # open
    BY <1>1, <1>3
  <2> QED
    BY <2>1 DEF Old, ContentOf, Relations
<1>6. contentIds[written] \in SUBSET Contents
  BY <1>2 DEF VersionInv, VersionTypes
<1>7. complete \cup {written} \in SUBSET Numbers
  BY <1>2, <1>3
<1>8. \A u \in complete \cup {written} : u <= written
  BY <1>3
<1> QED
  BY <1>1, <1>2, <1>3, <1>4, <1>5, <1>6, <1>7, <1>8

\* add_content() adds to the version that is written, and to no other.
LEMMA AddContentStep ==
    ASSUME VersionInv, NEW S \in SUBSET Contents, AddContent(S)
    PROVE  VersionInv'
<1> DEFINE w == written
           new == S \ contentIds[w]
           X == contentIds[w] \cup new
<1>1. /\ pc = "writing" /\ rows' = Add(rows, w, new)
      /\ contentIds' = [contentIds EXCEPT ![w] = X]
      /\ pc' = "writing" /\ open' = open /\ written' = written
      /\ UNCHANGED <<complete, nextVersion, distVars, expired>>
  BY DEF AddContent
<1>2. /\ w = open /\ w = nextVersion /\ w \in Numbers /\ expired = {}
      /\ Normal(rows, complete \cup {w})
      /\ complete \cup {w} \in SUBSET Numbers
      /\ \A u \in complete \cup {w} : u <= w
      /\ \A u \in complete : u \in Numbers /\ u < w
      /\ contentIds[w] \in SUBSET Contents
      /\ contentIds[w] = ContentOf(rows, w)
      /\ \A u \in complete : ContentOf(rows, u) = ContentOf(Old, u)
  BY <1>1, Writing
<1>3. new \in SUBSET Contents /\ new \cap ContentOf(rows, w) = {} /\ X \in SUBSET Contents
  BY <1>2
<1> DEFINE W == complete \cup {w}
<1>4. w \in W /\ W \in SUBSET Numbers /\ Normal(rows, W) /\ \A u \in W : u <= w
  BY <1>2
<1> HIDE DEF W, w, new
<1>5. /\ Normal(Add(rows, w, new), W)
      /\ \A u \in Numbers : u < w =>
            ContentOf(Add(rows, w, new), u) = ContentOf(rows, u)
      /\ ContentOf(Add(rows, w, new), w) = ContentOf(rows, w) \cup new
  BY <1>3, <1>4, AddNormal
<1>6. /\ Normal(rows', complete \cup {w})
      /\ \A u \in complete : ContentOf(rows', u) = ContentOf(Old, u)
      /\ X = ContentOf(rows', w)
  BY <1>1, <1>2, <1>5 DEF W
<1>7. open' = w /\ written' = w
  BY <1>1, <1>2 DEF w
<1> HIDE DEF X
<1> QED
  BY <1>1, <1>2, <1>3, <1>6, <1>7, Writes

\* remove_content() removes from the version that is written, and no other.
LEMMA RemoveContentStep ==
    ASSUME VersionInv, NEW S \in SUBSET Contents, RemoveContent(S)
    PROVE  VersionInv'
<1> DEFINE w == written
           X == contentIds[w] \ S
<1>1. /\ pc = "writing" /\ rows' = Remove(rows, w, S)
      /\ contentIds' = [contentIds EXCEPT ![w] = X]
      /\ pc' = "writing" /\ open' = open /\ written' = written
      /\ UNCHANGED <<complete, nextVersion, distVars, expired>>
  BY DEF RemoveContent
<1>2. /\ w = open /\ w = nextVersion /\ w \in Numbers /\ expired = {}
      /\ Normal(rows, complete \cup {w})
      /\ complete \cup {w} \in SUBSET Numbers
      /\ \A u \in complete \cup {w} : u <= w
      /\ \A u \in complete : u \in Numbers /\ u < w
      /\ contentIds[w] \in SUBSET Contents
      /\ contentIds[w] = ContentOf(rows, w)
      /\ \A u \in complete : ContentOf(rows, u) = ContentOf(Old, u)
  BY <1>1, Writing
<1>3. X \in SUBSET Contents
  BY <1>2
<1> DEFINE W == complete \cup {w}
<1>4. w \in W /\ W \in SUBSET Numbers /\ Normal(rows, W) /\ \A u \in W : u <= w
  BY <1>2
<1> HIDE DEF W, w
<1>5. /\ Normal(Remove(rows, w, S), W)
      /\ \A u \in Numbers : u < w =>
            ContentOf(Remove(rows, w, S), u) = ContentOf(rows, u)
      /\ ContentOf(Remove(rows, w, S), w) = ContentOf(rows, w) \ S
  BY <1>4, RemoveNormal
<1>6. /\ Normal(rows', complete \cup {w})
      /\ \A u \in complete : ContentOf(rows', u) = ContentOf(Old, u)
      /\ X = ContentOf(rows', w)
  BY <1>1, <1>2, <1>5 DEF W
<1>7. open' = w /\ written' = w
  BY <1>1, <1>2 DEF w
<1> HIDE DEF X
<1> QED
  BY <1>1, <1>2, <1>3, <1>6, <1>7, Writes

\* When the writer holds nothing any more, or no task ran, no version has
\* come, and the incomplete one is gone or as it was.
LEMMA Ends ==
    ASSUME VersionInv, Data', complete' \subseteq complete,
           open' \in {open, NoVersion}, UNCHANGED <<nextVersion, distVars>>,
           pc' = "idle", written' = NoVersion, expired' = {}
    PROVE  VersionInv'
<1>1. /\ open' \in Numbers \cup {NoVersion} /\ nextVersion' \in 1 .. (MaxNumber + 1)
      /\ served' \subseteq Numbers /\ following' \in BOOLEAN
  BY DEF VersionInv, VersionTypes, distVars
<1>2. Numbering'
  BY DEF VersionInv, Numbering
<1> QED
  BY <1>1, <1>2, Settles

\* Nor is there anything else to see when the context manager is left by an
\* exception, or the number of the version is not to be published.
LEMMA AbandonStep == ASSUME VersionInv, Abandon PROVE VersionInv'
<1>1. pc = "writing" /\ DeleteOpen /\ Done /\ UNCHANGED distVars
  BY DEF Abandon
<1>2. open # NoVersion
  BY <1>1, Writing, VersionNumbers
<1>3. Data'
  BY <1>1, <1>2, OpenData
<1>4. complete' = complete /\ open' = NoVersion /\ UNCHANGED nextVersion
  BY <1>1 DEF DeleteOpen
<1> QED
  BY <1>1, <1>3, <1>4, Ends DEF Done

\* The published version is what was written (__exit__()).
LEMMA PublishStep == ASSUME VersionInv, Publish PROVE VersionInv'
<1> USE VersionAssumption
<1>1. /\ pc = "writing" /\ complete' = complete \cup {written} /\ open' = NoVersion
      /\ nextVersion' = written + 1 /\ pc' = "plan"
      /\ UNCHANGED <<rows, contentIds, distVars, written, expired>>
  BY DEF Publish
<1>2. /\ written = open /\ written \in Numbers /\ written \in Nat /\ expired = {}
      /\ Normal(rows, complete \cup {written})
      /\ \A u \in complete \cup {written} : u <= written
      /\ \A u \in complete : u \in Numbers /\ u < written
      /\ contentIds[written] = ContentOf(rows, written)
      /\ \A u \in complete : ContentOf(rows, u) = ContentOf(Old, u)
  BY <1>1, Writing
<1>3. /\ complete # {} /\ rows \subseteq Row
      /\ contentIds \in [Numbers -> SUBSET Contents]
      /\ \A u \in complete : contentIds[u] = ContentOf(Old, u)
  BY DEF VersionInv, VersionTypes, Memoized
<1>4. Old' = rows /\ Opened' = {} /\ \A r \in rows : r.added # open'
  BY <1>1, <1>3, VersionNumbers DEF Old, Opened, Row
<1>5. Normal(Old, complete \cup Opened)'
  BY <1>1, <1>2, <1>4 DEF Normal
<1>6. (\A u \in complete : contentIds[u] = ContentOf(Old, u))'
  BY <1>1, <1>2, <1>3, <1>4 DEF ContentOf, Relations
<1>7. complete' \subseteq Numbers /\ complete' # {}
  BY <1>1, <1>2
<1>8. Data'
  <2>1. rows' \subseteq Row /\ contentIds' \in [Numbers -> SUBSET Contents]
    BY <1>1, <1>3
  <2>2. (\A r \in rows : r.added = open => r.removed = Never)'
    BY <1>1, <1>4
  <2> QED
    BY <1>5, <1>6, <1>7, <2>1, <2>2 DEF Data
<1>9. Numbering'
  <2>1. \A u \in complete' : u < nextVersion' /\ u <= written'
    BY <1>1, <1>2 DEF Numbers
  <2>2. written # NoVersion
    BY <1>2, VersionNumbers
  <2> QED
    BY <1>1, <1>2, <2>1, <2>2 DEF Numbering
<1>10. /\ nextVersion' \in 1 .. (MaxNumber + 1) /\ open' \in Numbers \cup {NoVersion}
       /\ written' \in Numbers \cup {NoVersion} /\ expired' \subseteq Numbers
  BY <1>1, <1>2 DEF Numbers
<1>11. served' \subseteq Numbers /\ following' \in BOOLEAN
  BY <1>1 DEF VersionInv, VersionTypes, distVars
<1> QED
  BY <1>1, <1>8, <1>9, <1>10, <1>11, Settles

\* If the transaction that publishes fails, the version is deleted, or left to
\* the next task.
LEMMA PublishFailsStep == ASSUME VersionInv, PublishFails PROVE VersionInv'
<1>1. /\ pc = "writing" /\ Done /\ UNCHANGED distVars
      /\ DeleteOpen \/ UNCHANGED dbVars
  BY DEF PublishFails
<1>2. open # NoVersion
  BY <1>1, Writing, VersionNumbers
<1>3. Data'
  BY <1>1, <1>2, OpenData, SameData
<1>4. complete' = complete /\ open' \in {open, NoVersion} /\ UNCHANGED nextVersion
  BY <1>1 DEF DeleteOpen, dbVars
<1> QED
  BY <1>1, <1>3, <1>4, Ends DEF Done

\* An exception behind the publication deletes the new version, if it may.
LEMMA GiveUpStep == ASSUME VersionInv, GiveUp PROVE VersionInv'
<1>1. CASE Deletable(written)
  <2>1. /\ written \in complete /\ Cardinality(complete) > 1
        /\ DeleteComplete(written) /\ Done
    BY <1>1 DEF GiveUp, Deletable
  <2>2. Data'
    BY <2>1, DeleteData
  <2>3. complete' \subseteq complete /\ UNCHANGED <<open, nextVersion, distVars>>
    BY <2>1 DEF DeleteComplete
  <2> QED
    BY <2>1, <2>2, <2>3, Ends DEF Done
<1>2. CASE ~Deletable(written)
  <2>1. UNCHANGED <<dbVars, distVars>> /\ Done
    BY <1>2 DEF GiveUp
  <2>2. Data'
    BY <2>1, SameData
  <2> QED
    BY <2>1, <2>2, Ends DEF Done, dbVars
<1> QED
  BY <1>1, <1>2

\* The retention policy spares the version just published, which is the
\* greatest (cleanup_old_versions()).
LEMMA PlanSpares ==
    ASSUME VersionInv, Plan
    PROVE  expired' \subseteq complete /\ written \notin expired'
<1> USE VersionAssumption
<1> DEFINE free == complete \ Protected
           newer(v) == {u \in free : u > v}
<1>1. expired' = IF Retain = 0 THEN {}
                 ELSE {v \in free : Cardinality(newer(v)) >= Retain}
  BY DEF Plan
<1>2. \A u \in complete : u <= written /\ u \in Nat
  BY VersionNumbers DEF Plan, VersionInv, Numbering
<1>3. written \in Nat
  BY VersionNumbers DEF Plan, VersionInv, Numbering
<1>4. newer(written) = {}
  BY <1>2, <1>3
<1>5. Cardinality(newer(written)) = 0
  BY <1>4, FS_EmptySet
<1> HIDE DEF newer
<1> QED
  BY <1>1, <1>5

\* Planning what to delete, and finding nothing more to delete.
LEMMA PlanStep == ASSUME VersionInv, Plan \/ Pruned PROVE VersionInv'
<1>1. /\ UNCHANGED <<dbVars, distVars, written>>
      /\ pc \in {"plan", "prune"} /\ pc' \in {"prune", "notify"}
      /\ expired' # {} => pc' = "prune"
  BY DEF Plan, Pruned
<1>2. expired' \subseteq complete /\ written \notin expired'
  BY PlanSpares DEF Plan, Pruned
<1>3. Data'
  BY <1>1, SameData
<1>4. Numbering'
  BY <1>1, <1>2 DEF VersionInv, Numbering, dbVars
<1>5. /\ nextVersion' \in 1 .. (MaxNumber + 1) /\ open' \in Numbers \cup {NoVersion}
      /\ written' \in Numbers \cup {NoVersion}
      /\ served' \subseteq Numbers /\ following' \in BOOLEAN
  BY <1>1 DEF VersionInv, VersionTypes, distVars, dbVars
<1>6. expired' \subseteq Numbers
  BY <1>2 DEF VersionInv, VersionTypes
<1> QED
  BY <1>1, <1>3, <1>4, <1>5, <1>6, Settles

\* The retention policy deletes a version, never the one just published.
LEMMA PruneStep == ASSUME VersionInv, Prune PROVE VersionInv'
<1> DEFINE v == Greatest(expired)
<1>1. pc = "prune" /\ expired # {} /\ expired \in SUBSET Numbers
  BY DEF Prune, VersionInv, VersionTypes
<1>2. v \in expired
  BY <1>1, GreatestExists
<1>3. v # written /\ written \in complete /\ open = NoVersion
  BY <1>1, <1>2 DEF VersionInv, Numbering
<1>4. CASE Deletable(v)
  <2>1. /\ v \in complete /\ Cardinality(complete) > 1 /\ DeleteComplete(v)
        /\ expired' = expired \ {v} /\ UNCHANGED <<pc, written>>
    BY <1>4 DEF Prune, Deletable
  <2>2. /\ complete' = complete \ {v}
        /\ UNCHANGED <<open, contentIds, nextVersion, distVars>>
    BY <2>1 DEF DeleteComplete
  <2> HIDE DEF v
  <2>3. Data'
    BY <2>1, DeleteData
  <2>4. Numbering'
    BY <1>1, <1>3, <2>1, <2>2 DEF VersionInv, Numbering
  <2>5. /\ nextVersion' \in 1 .. (MaxNumber + 1) /\ open' \in Numbers \cup {NoVersion}
        /\ written' \in Numbers \cup {NoVersion} /\ expired' \subseteq Numbers
        /\ served' \subseteq Numbers /\ following' \in BOOLEAN
    BY <2>1, <2>2 DEF VersionInv, VersionTypes, distVars
  <2> QED
    BY <1>1, <2>1, <2>3, <2>4, <2>5, Settles
<1>5. CASE ~Deletable(v)
  <2>1. GiveUp
    BY <1>5 DEF Prune
  <2> QED
    BY <2>1, GiveUpStep
<1> QED
  BY <1>4, <1>5

\* on_new_version() returns, or the version is given up; or the process of the
\* task is killed.
LEMMA LastSteps == ASSUME VersionInv, OnNewVersion \/ Crash PROVE VersionInv'
<1>1. ASSUME UNCHANGED <<dbVars, distVars>>, Done PROVE VersionInv'
  <2>1. Data'
    BY <1>1, SameData
  <2> QED
    BY <1>1, <2>1, Ends DEF Done, dbVars
<1> QED
  BY <1>1, GiveUpStep DEF OnNewVersion, Crash

\* Versions are deleted by their own tasks, between those that write.
LEMMA DeleteSteps ==
    ASSUME VersionInv, DeleteIncomplete \/ \E v \in complete : DeleteVersion(v)
    PROVE  VersionInv'
<1>1. pc = "idle" /\ written = NoVersion /\ expired = {}
  BY DEF DeleteIncomplete, DeleteVersion, VersionInv, Numbering
<1>2. CASE DeleteIncomplete
  <2>1. /\ open # NoVersion /\ DeleteOpen
        /\ UNCHANGED <<distVars, pc, written, expired>>
    BY <1>2 DEF DeleteIncomplete
  <2>2. Data'
    BY <2>1, OpenData
  <2>3. complete' = complete /\ open' = NoVersion /\ UNCHANGED nextVersion
    BY <2>1 DEF DeleteOpen
  <2> QED
    BY <1>1, <2>1, <2>2, <2>3, Ends
<1>3. ASSUME NEW v \in complete, DeleteVersion(v) PROVE VersionInv'
  <2>1. /\ Cardinality(complete) > 1 /\ DeleteComplete(v)
        /\ UNCHANGED <<pc, written, expired>>
    BY <1>3 DEF DeleteVersion, Deletable
  <2>2. Data'
    BY <2>1, DeleteData
  <2>3. complete' \subseteq complete /\ UNCHANGED <<open, nextVersion, distVars>>
    BY <2>1 DEF DeleteComplete
  <2> QED
    BY <1>1, <2>1, <2>2, <2>3, Ends
<1> QED
  BY <1>2, <1>3

\* Distributions do not concern the rows.
LEMMA DistributeStep ==
    ASSUME VersionInv, Distribute \/ UNCHANGED vars
    PROVE  VersionInv'
<1>1. /\ UNCHANGED <<complete, open, rows, contentIds, nextVersion, pc, written, expired>>
      /\ served' \subseteq Numbers /\ following' \in BOOLEAN
  BY DEF Distribute, Serve, Unserve, Follow, vars, dbVars, distVars, VersionInv,
         VersionTypes
<1>2. VersionTypes'
  BY <1>1 DEF VersionInv, VersionTypes
<1>3. Numbering'
  BY <1>1 DEF VersionInv, Numbering
<1>4. RowsNormal'
  BY <1>1 DEF VersionInv, RowsNormal, Normal, Old, Opened
<1>5. Memoized'
  BY <1>1 DEF VersionInv, Memoized, ContentOf, Relations, Old
<1> QED
  BY <1>2, <1>3, <1>4, <1>5 DEF VersionInv

\* Every step keeps the invariant.
LEMMA NextStep == VersionInv /\ [Next]_vars => VersionInv'
<1> SUFFICES ASSUME VersionInv, [Next]_vars PROVE VersionInv'
  OBVIOUS
<1>1. CASE Write
  BY <1>1, NewVersionStep, AddContentStep, RemoveContentStep, AbandonStep,
     PublishStep, PublishFailsStep DEF Write
<1>2. CASE Finish
  BY <1>2, PlanStep, PruneStep, LastSteps DEF Finish
<1>3. CASE Delete
  BY <1>3, DeleteSteps DEF Delete
<1>4. CASE Crash
  BY <1>4, LastSteps
<1>5. CASE Distribute \/ UNCHANGED vars
  BY <1>5, DistributeStep
<1> QED
  BY <1>1, <1>2, <1>3, <1>4, <1>5 DEF Next

\* The invariant holds in every reachable state.
THEOREM VersionInvariance == Spec => []VersionInv
BY InitInv, NextStep, PTL DEF Spec

-----------------------------------------------------------------------------
(***************************************************************************)
(* What follows from it.                                                   *)
(***************************************************************************)
\* The variables always have their types, and the writer holds a version just
\* while it is not idle.
THEOREM VersionsTyped == Spec => []TypeOK
<1>1. VersionInv => TypeOK
  BY DEF VersionInv, VersionTypes, Numbering, TypeOK
<1> QED
  BY <1>1, VersionInvariance, PTL

\* The memoized content_ids of each version are what the rows say of it.
LEMMA MemoHolds == VersionInv => MemoMatchesRows
<1> SUFFICES ASSUME VersionInv, NEW v \in Versions
             PROVE  contentIds[v] = Content(v)
  BY DEF MemoMatchesRows
<1>1. CASE v \in complete
  BY <1>1, OldContent DEF VersionInv, Memoized
<1>2. CASE pc = "writing" /\ v = written
  BY <1>2 DEF VersionInv, Memoized, Content, ContentOf
<1> QED
  BY <1>1, <1>2 DEF Versions

\* Reading the memoized set is reading the rows, for every version, whatever
\* was deleted, abandoned or killed around it (_compute_counts()).
THEOREM Memoization == Spec => []MemoMatchesRows
BY MemoHolds, VersionInvariance, PTL

\* What the next new_version() finds is within the unique constraints and the
\* foreign keys of RepositoryContent, and has no content unit twice in a
\* version.
THEOREM NormalRows == Spec => []RowsAreNormal
<1>1. VersionInv => RowsAreNormal
  <2> SUFFICES ASSUME VersionInv PROVE RowsAreNormal
    OBVIOUS
  <2>1. Normal(Settled, Versions)
    <3>1. CASE pc = "writing"
      <4>1. Settled = rows /\ Versions = complete \cup {written}
        BY <3>1 DEF Settled, Orphaned, Versions
      <4> QED
        BY <3>1, <4>1, Writing
    <3>2. CASE pc # "writing"
      <4>1. Settled = Clean /\ Versions = complete
        BY <3>2 DEF Settled, Orphaned, Versions, Clean
      <4> QED
        BY <4>1, CleanHolds
    <3> QED
      BY <3>1, <3>2
  <2> QED
    BY <2>1 DEF Normal, RowsAreNormal
<1> QED
  BY <1>1, VersionInvariance, PTL

\* What added() and removed() report of a version is its difference to the
\* version before, however many between the two have been deleted.
THEOREM TrueDifferences == Spec => []ChangesAreDifferences
<1>1. VersionInv => ChangesAreDifferences
  <2> SUFFICES ASSUME VersionInv, NEW v \in complete
               PROVE  LET before == IF Earlier(v) = {} THEN {}
                                    ELSE Content(Greatest(Earlier(v)))
                      IN  /\ Added(v) = Content(v) \ before
                          /\ Removed(v) = before \ Content(v)
    BY DEF ChangesAreDifferences
  <2> DEFINE W == complete \cup Opened
             u == Greatest(Earlier(v))
             added == AddedIn(Old, v)
             removed == RemovedIn(Old, v)
  <2>1. /\ Normal(Old, W) /\ W \in SUBSET Numbers /\ v \in W /\ v \in Numbers
        /\ \A r \in rows : r.added = open => r.removed = Never
    BY VersionNumbers DEF VersionInv, RowsNormal
  <2>2. v # open /\ v # Never /\ v \in Nat /\ \A w \in Opened : v < w
    BY <2>1, VersionNumbers
  <2>3. Added(v) = added
    BY <2>2 DEF Added, AddedIn, Old
  <2>4. Removed(v) = removed
    <3>1. \A r \in rows : r.removed = v => r.added # open
      BY <2>1, <2>2
    <3> QED
      BY <3>1 DEF Removed, RemovedIn, Old
  <2>5. Content(v) = ContentOf(Old, v)
    BY OldContent
  <2>6. CASE Earlier(v) = {}
    <3>1. \A w \in W : v <= w
      BY <2>2, <2>6, VersionNumbers DEF Earlier
    <3> HIDE DEF W
    <3>2. added = ContentOf(Old, v) /\ removed = {}
      BY <2>1, <3>1, Differences
    <3> QED
      BY <2>3, <2>4, <2>5, <2>6, <3>2
  <2>7. CASE Earlier(v) # {}
    <3>1. Earlier(v) \in SUBSET Numbers
      BY VersionNumbers DEF Earlier
    <3>2. u \in Earlier(v) /\ \A w \in Earlier(v) : w <= u
      BY <2>7, <3>1, GreatestExists
    <3>3. u \in complete /\ u < v /\ u \in W
      BY <3>2 DEF Earlier
    <3>4. \A w \in W : w <= u \/ v <= w
      <4>1. \A w \in complete : w <= u \/ v <= w
        BY <2>2, <3>2, VersionNumbers DEF Earlier
      <4>2. \A w \in Opened : v <= w
        BY <2>2, VersionNumbers
      <4> QED
        BY <4>1, <4>2
    <3>5. Content(u) = ContentOf(Old, u)
      BY <3>3, OldContent
    <3> HIDE DEF u, W
    <3>6. /\ added = ContentOf(Old, v) \ ContentOf(Old, u)
          /\ removed = ContentOf(Old, u) \ ContentOf(Old, v)
      BY <2>1, <3>3, <3>4, Differences
    <3> QED
      BY <2>3, <2>4, <2>5, <2>7, <3>5, <3>6 DEF u
  <2> QED
    BY <2>6, <2>7
<1> QED
  BY <1>1, VersionInvariance, PTL

\* The version just published stays the newest until the writer is done: the
\* retention policy never takes it.
THEOREM PublishedSurvives == Spec => []NewestSurvives
<1>1. VersionInv => NewestSurvives
  <2> SUFFICES ASSUME VersionInv, pc \in {"plan", "prune", "notify"}
               PROVE  written = Latest
    BY DEF NewestSurvives
  <2>1. written \in complete /\ \A u \in complete : u <= written
    BY DEF VersionInv, Numbering
  <2>2. Latest \in complete /\ \A u \in complete : u <= Latest
    BY LatestComplete
  <2>3. written \in Nat /\ Latest \in Nat
    BY <2>1, <2>2, VersionNumbers
  <2> QED
    BY <2>1, <2>2, <2>3
<1> QED
  BY <1>1, VersionInvariance, PTL

\* What a step may do to the complete versions: a version is published, or one
\* is deleted that may be, or they remain as they are; and what is memoized of
\* those that remain is not touched.
LEMMA StepKinds ==
    ASSUME VersionInv, [Next]_vars
    PROVE  /\ \A v \in complete : contentIds'[v] = contentIds[v]
           /\ \/ UNCHANGED <<complete, nextVersion>>
              \/ Publish
              \/ \E v \in complete : Deletable(v) /\ DeleteComplete(v)
<1>1. contentIds \in [Numbers -> SUBSET Contents] /\ complete \subseteq Numbers
  BY DEF VersionInv, VersionTypes
<1>2. GiveUp => UNCHANGED contentIds
  BY DEF GiveUp, DeleteComplete, dbVars
<1>3. GiveUp => \/ UNCHANGED <<complete, nextVersion>>
                \/ \E v \in complete : Deletable(v) /\ DeleteComplete(v)
  BY DEF GiveUp, Deletable, dbVars
<1>4. ASSUME Write
      PROVE  /\ \A v \in complete : contentIds'[v] = contentIds[v]
             /\ UNCHANGED <<complete, nextVersion>> \/ Publish
  <2>1. ASSUME NEW base \in complete \cup {NoVersion}, NewVersion(base)
        PROVE  /\ \A v \in complete : contentIds'[v] = contentIds[v]
               /\ UNCHANGED <<complete, nextVersion>>
    <3>1. nextVersion \notin complete
      BY VersionNumbers
    <3> QED
      BY <1>1, <2>1, <3>1 DEF NewVersion
  <2>2. ASSUME NEW S \in SUBSET Contents, AddContent(S) \/ RemoveContent(S)
        PROVE  /\ \A v \in complete : contentIds'[v] = contentIds[v]
               /\ UNCHANGED <<complete, nextVersion>>
    <3>1. pc = "writing"
      BY <2>2 DEF AddContent, RemoveContent
    <3>2. written \notin complete
      BY <3>1, Writing, VersionNumbers
    <3> QED
      BY <1>1, <2>2, <3>2 DEF AddContent, RemoveContent
  <2>3. ASSUME Abandon \/ Publish \/ PublishFails
        PROVE  /\ UNCHANGED contentIds
               /\ UNCHANGED <<complete, nextVersion>> \/ Publish
    BY <2>3 DEF Abandon, Publish, PublishFails, DeleteOpen, dbVars
  <2> QED
    BY <1>4, <2>1, <2>2, <2>3 DEF Write
<1>5. ASSUME Finish
      PROVE  /\ UNCHANGED contentIds
             /\ \/ UNCHANGED <<complete, nextVersion>>
                \/ \E v \in complete : Deletable(v) /\ DeleteComplete(v)
  <2>1. CASE Plan \/ Pruned
    BY <2>1 DEF Plan, Pruned, dbVars
  <2>2. CASE Prune
    <3> DEFINE v == Greatest(expired)
    <3>1. CASE Deletable(v)
      <4>1. v \in complete /\ DeleteComplete(v)
        BY <2>2, <3>1 DEF Prune, Deletable
      <4> QED
        BY <3>1, <4>1 DEF DeleteComplete
    <3>2. CASE ~Deletable(v)
      BY <1>2, <1>3, <2>2, <3>2 DEF Prune
    <3> QED
      BY <3>1, <3>2
  <2>3. CASE OnNewVersion
    BY <1>2, <1>3, <2>3 DEF OnNewVersion, dbVars
  <2> QED
    BY <1>5, <2>1, <2>2, <2>3 DEF Finish
<1>6. ASSUME Delete
      PROVE  /\ UNCHANGED contentIds
             /\ \/ UNCHANGED <<complete, nextVersion>>
                \/ \E v \in complete : Deletable(v) /\ DeleteComplete(v)
  BY <1>6 DEF Delete, DeleteIncomplete, DeleteVersion, DeleteOpen, DeleteComplete
<1>7. ASSUME Crash \/ Distribute \/ UNCHANGED vars
      PROVE  UNCHANGED <<contentIds, complete, nextVersion>>
  BY <1>7 DEF Crash, Distribute, Serve, Unserve, Follow, vars, dbVars
<1> QED
  BY <1>4, <1>5, <1>6, <1>7 DEF Next

\* While a distribution serves whatever version is the latest, no step, of a
\* user, of the retention policy or of a task that fails, takes its clients
\* back to an older one.
THEOREM NoRollBack == Spec => NeverRollsBack
<1>1. ASSUME VersionInv, VersionInv', [Next]_vars, following
      PROVE  Latest' >= Latest
  <2>1. Latest \in complete /\ \A u \in complete : u <= Latest
    BY <1>1, LatestComplete
  <2>2. Latest \in complete'
    <3>1. CASE UNCHANGED complete \/ Publish
      BY <2>1, <3>1 DEF Publish
    <3>2. ASSUME NEW v \in complete, Deletable(v), DeleteComplete(v)
          PROVE  Latest \in complete'
      <4>1. v # Latest
        BY <1>1, <3>2 DEF Deletable, Protected
      <4>2. complete' = complete \ {v}
        BY <3>2 DEF DeleteComplete
      <4> QED
        BY <2>1, <4>1, <4>2
    <3> QED
      BY <1>1, <3>1, <3>2, StepKinds
  <2>3. complete' \in SUBSET Numbers /\ complete' # {}
    BY <1>1 DEF VersionInv, VersionTypes
  <2>4. /\ Greatest(complete') \in complete'
        /\ \A u \in complete' : u <= Greatest(complete')
    BY <2>3, GreatestExists
  <2>5. Latest' = Greatest(complete')
    BY DEF Latest, Greatest
  <2>6. Latest \in Nat /\ Latest' \in Nat
    BY <1>1, <2>1, <2>3, <2>4, <2>5, VersionNumbers
  <2> QED
    BY <2>2, <2>4, <2>5, <2>6
<1>2. VersionInv /\ VersionInv' /\ [Next]_vars
        => [following => Latest' >= Latest]_vars
  BY <1>1
<1> QED
  BY <1>2, VersionInvariance, PTL DEF Spec, NeverRollsBack

\* In the beginning there is version 0, which is empty.
LEMMA HistoryBegins == Init => History!Init
<1> SUFFICES ASSUME Init PROVE History!Init
  OBVIOUS
<1>1. complete = {0} /\ nextVersion - 1 = 0
  BY DEF Init
<1>2. Content(0) = {}
  BY DEF Init, Content, Relations
<1> QED
  BY <1>1, <1>2 DEF History!Init

\* Every step publishes a new set, or discards a version that is not the last,
\* or is not visible in the history.
LEMMA HistoryStep ==
    ASSUME VersionInv, VersionInv', MemoMatchesRows, MemoMatchesRows',
           [Next]_vars
    PROVE  [History!Next]_History!vars
<1> DEFINE h == [v \in complete |-> Content(v)]
<1>1. h' = [v \in complete' |-> contentIds'[v]]
  <2>1. \A v \in complete' : Content(v)' = contentIds'[v]
    BY DEF MemoMatchesRows, Versions
  <2> QED
    BY <2>1
<1>2. h = [v \in complete |-> contentIds[v]]
  BY DEF MemoMatchesRows, Versions
<1>3. \A v \in complete : contentIds'[v] = contentIds[v]
  BY StepKinds
<1>4. CASE UNCHANGED <<complete, nextVersion>>
  <2>1. h' = h
    BY <1>1, <1>2, <1>3, <1>4
  <2> QED
    BY <1>4, <2>1 DEF History!vars
<1>5. ASSUME NEW v \in complete, Deletable(v), DeleteComplete(v)
      PROVE  History!Next
  <2>1. complete' = complete \ {v} /\ nextVersion' = nextVersion
    BY <1>5 DEF DeleteComplete
  <2>2. complete # {v}
    <3> SUFFICES ASSUME complete = {v} PROVE FALSE
      OBVIOUS
    <3>1. Cardinality({v}) = 1
      BY FS_Singleton
    <3> QED
      BY <1>5, <3>1 DEF Deletable
  <2>3. h' = [u \in complete \ {v} |-> h[u]]
    BY <1>1, <1>2, <1>3, <2>1
  <2>4. DOMAIN h = complete
    OBVIOUS
  <2> HIDE DEF h
  <2>5. DOMAIN h # {v} /\ h' = [u \in DOMAIN h \ {v} |-> h[u]]
    BY <2>2, <2>3, <2>4
  <2>6. History!Discard(v)
    BY <2>1, <2>5 DEF History!Discard, History!Numbers, h
  <2> QED
    BY <2>4, <2>6 DEF History!Next, History!Numbers, h
<1>6. ASSUME Publish
      PROVE  History!Next
  <2> DEFINE S == contentIds[written]
             n == nextVersion - 1
  <2>1. /\ pc = "writing" /\ complete' = complete \cup {written}
        /\ nextVersion' = written + 1 /\ contentIds' = contentIds
        /\ Added(written) # {} \/ Removed(written) # {}
    BY <1>6 DEF Publish
  <2>2. /\ written = nextVersion /\ written \in Nat
        /\ Normal(rows, complete \cup {written})
        /\ complete \cup {written} \in SUBSET Numbers
        /\ \A u \in complete : u \in Numbers /\ u < written
        /\ S \in SUBSET Contents
        /\ S = ContentOf(rows, written)
    BY <2>1, Writing
  <2>3. Latest \in complete /\ \A u \in complete : u <= Latest
    BY LatestComplete
  <2>4. S # Content(Latest)
    <3> DEFINE W == complete \cup {written}
    <3>1. Latest \in W /\ Latest < written /\ \A w \in W : w <= Latest \/ written <= w
      BY <2>2, <2>3 DEF Numbers
    <3>2. written \in W /\ Normal(rows, W) /\ W \in SUBSET Numbers
      BY <2>2
    <3> HIDE DEF W
    <3>3. /\ AddedIn(rows, written)
               = ContentOf(rows, written) \ ContentOf(rows, Latest)
          /\ RemovedIn(rows, written)
               = ContentOf(rows, Latest) \ ContentOf(rows, written)
      BY <3>1, <3>2, Differences
    <3>4. Content(Latest) = ContentOf(rows, Latest)
      BY DEF Content, ContentOf
    <3> QED
      BY <2>1, <2>2, <3>3, <3>4 DEF Added, Removed, AddedIn, RemovedIn
  <2>5. DOMAIN h = complete /\ h[Latest] = Content(Latest)
    BY <2>3
  <2>6. n + 1 = written /\ n' = n + 1
    BY <2>1, <2>2
  <2>7. h' = [v \in complete \cup {written} |->
                 IF v = written THEN S ELSE h[v]]
    BY <1>1, <1>2, <2>1, <2>2
  <2> HIDE DEF h, S, n
  <2>8. History!Newest = Latest
    BY <2>5 DEF History!Newest, History!Numbers, Latest, Greatest, h
  <2>9. History!Publish(S)
    BY <2>4, <2>5, <2>6, <2>7, <2>8 DEF History!Publish, History!Numbers, h, n
  <2> QED
    BY <2>2, <2>9 DEF History!Next
<1> QED
  BY <1>4, <1>5, <1>6, StepKinds

\* "The content set for each version stays the same": every operation, failure
\* and crash is a step of a history of immutable sets, or invisible there.
THEOREM HistoryImplemented == Spec => ImplementsHistory
<1>1. VersionInv /\ VersionInv' /\ MemoMatchesRows /\ MemoMatchesRows' /\ [Next]_vars
        => [History!Next]_History!vars
  BY HistoryStep
<1>2. Spec => History!Init
  BY HistoryBegins DEF Spec
<1> QED
  BY <1>1, <1>2, VersionInvariance, Memoization, PTL
     DEF Spec, ImplementsHistory, History!Spec
=============================================================================
