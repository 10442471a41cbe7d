---------------------------- MODULE StagesProofs ----------------------------
EXTENDS Stages, FiniteSetTheorems, SequenceTheorems, WellFoundedInduction, TLAPS

(***************************************************************************)
(* Where the named stages are: pipeline_stages() has one of each.          *)
(***************************************************************************)
Querier == CHOOSE s \in Stages : Kinds[s] = "artifacts"
Saver == CHOOSE s \in Stages : Kinds[s] = "save"
ContentSaver == CHOOSE s \in Stages : Kinds[s] = "content"
Resolver == CHOOSE s \in Stages : Kinds[s] = "resolve"
Associator == CHOOSE s \in Stages : Kinds[s] = "associate"
EndStage == Len(Kinds)

-----------------------------------------------------------------------------
(***************************************************************************)
(* Where an item is, and how far it has come: the stages below its depth   *)
(* have handled it.                                                        *)
(***************************************************************************)
Carriers == {"queue", "held", "batch", "out", "task"}

In(d, c, s) ==
    \/ c = "queue" /\ d \in ToSet(queue[s])
    \/ c = "held" /\ held[s] = d
    \/ c = "batch" /\ d \in ToSet(batch[s])
    \/ c = "out" /\ d \in ToSet(out[s])
    \/ c = "task" /\ s = Downloader /\ d \in Pending

Reach(c, s) == IF c = "out" THEN s + 1 ELSE s
Depths == 1 .. EndStage + 1
At(d, n) == \E c \in Carriers, s \in Stages : In(d, c, s) /\ Reach(c, s) = n
Somewhere(d) == \E n \in Depths : At(d, n)

-----------------------------------------------------------------------------
(***************************************************************************)
(* The invariant.                                                          *)
(***************************************************************************)
Modes == Ended \cup {"wait", "handle", "put", "add", "tail", "finish"}
Handlers == {"none", "try", "blocked", "load", "put", "done", "stopped"}
KeysOf(ds) == {Key[d] : d \in ds}

CarrierTypes ==
    /\ queue \in [Stages -> Seq(Items \cup {End})]
    /\ \A s \in Stages : Len(queue[s]) <= QueueSize
    /\ held \in [Stages -> Items \cup {End, Nothing}]
    /\ batch \in [Stages -> Seq(Items)]
    /\ out \in [Stages -> Seq(Items)]
    /\ handler \in [Items -> Handlers]

ControlTypes ==
    /\ pos \in 1 .. Len(Script) + 1
    /\ noBlock \in [Stages -> BOOLEAN] /\ shutdown \in [Stages -> BOOLEAN]
    /\ thaw \in [Stages -> BOOLEAN]
    /\ listener \in {"new", "armed", "fired", "off"}
    /\ mode \in [Stages -> Modes]
    /\ getting \in BOOLEAN
    /\ outcome \in {"running", "failing", "ok", "error"}

DataTypes ==
    /\ flush \in BOOLEAN /\ used \in Nat /\ bytes \in Nat /\ acquired \subseteq Items
    /\ artifact \in [Items -> {"none", "wanted", "file", "saved"}]
    /\ future \in [Items -> {"none", "awaited", "resolved"}]
    /\ Old \subseteq rows /\ version \subseteq rows /\ toAdd \subseteq rows
    /\ toDelete \subseteq Old

\* An item is in one place, and nowhere before it is put.
Single(q) == \A i, j \in DOMAIN q : q[i] = q[j] => i = j
Singles == \A s \in Stages : Single(queue[s]) /\ Single(batch[s]) /\ Single(out[s])

Alone ==
    \A d \in Items, b, c \in Carriers, r, s \in Stages :
        In(d, b, r) /\ In(d, c, s) => b = c /\ r = s

Unsent == \A d \in Items : Somewhere(d) => d \in Sent

\* What stages have in hand, by where they are.
Idling == {"wait", "handle", "add", "tail", "finish", "done"}
Closed == {"tail", "finish", "done"}
Empties ==
    /\ \A s \in Stages : mode[s] \in Idling => out[s] = <<>>
    /\ \A s \in Stages : mode[s] \in Closed \cup {"put", "add"} => batch[s] = <<>>
    /\ \A s \in Stages \ Batching : batch[s] = <<>> /\ held[s] = Nothing
    /\ \A s \in Stages \ Batching : s # Resolver => out[s] = <<>>
    /\ queue[First] = <<>>
    /\ mode[Associator] \in Closed \cup {"wait", "handle"} => toAdd = {}

Postures ==
    /\ \A s \in Stages : mode[s] = "handle" => s \in Batching
    /\ \A s \in Stages : mode[s] \in {"add", "tail"} => s = Associator
    /\ \A s \in Stages : mode[s] = "put" => s \in Batching \/ s = Resolver
    /\ mode[EndStage] # "finish"
    /\ outcome \in {"running", "ok"} =>
          \A s \in Stages : mode[s] \notin {"failed", "cancelled"}

\* The end marker is the last that comes, and a stage that is over has nothing.
EndSeen(s) ==
    \/ End \in ToSet(queue[s]) \/ held[s] = End \/ shutdown[s] \/ mode[s] \in Closed

Ending ==
    /\ \A s \in Stages : s # First /\ EndSeen(s) => mode[s - 1] = "done"
    /\ \A s \in Stages : \A i \in DOMAIN queue[s] :
          queue[s][i] = End => i = Len(queue[s])
    /\ \A s \in Stages : held[s] = End => queue[s] = <<>>
    /\ \A s \in Stages :
          shutdown[s] \/ mode[s] \in Closed => queue[s] = <<>> /\ held[s] = Nothing
    /\ mode[First] \in Closed => pos = Len(Script) + 1
    /\ mode[Downloader] \in Closed => Pending = {}

\* Content is saved before it is associated, and before its future is resolved.
SavedFirst ==
    /\ \A d \in Items, n \in Depths : At(d, n) /\ n > ContentSaver => Key[d] \in rows
    /\ \A d \in Items : future[d] = "resolved" => Key[d] \in rows

\* What the new version is made of.
Settled(d) == Key[d] \in version \cup toAdd /\ Key[d] \notin toDelete

Kept ==
    /\ \A d \in Sent : Somewhere(d) \/ Settled(d)
    /\ \A d \in Items, n \in Depths : At(d, n) /\ n > Associator => Settled(d)

Contained ==
    /\ toAdd \subseteq KeysOf(Items)
    /\ version \subseteq Old \cup KeysOf(Items)
    /\ Old \ toDelete \subseteq KeysOf(Items)
    /\ IF Mirror /\ mode[Associator] \in {"finish", "done"}
       THEN version \cap toDelete = {} ELSE Old \subseteq version

\* What the downloader knows of an item, and of one that has come so far.
Borne(d, n) ==
    /\ artifact[d] = "file" => d \in acquired
    /\ IF n > Downloader THEN handler[d] = "done" ELSE handler[d] \notin {"done", "stopped"}
    /\ artifact[d] = "saved" /\ n <= Saver => d \in Stored

Loads(d) ==
    /\ artifact[d] = "none" <=> d \notin Needs
    /\ handler[d] \in {"none", "try", "blocked"} => d \notin acquired /\ artifact[d] # "file"
    /\ handler[d] = "load" => d \in acquired /\ artifact[d] = "wanted"
    /\ handler[d] \in {"put", "done"} => artifact[d] # "wanted"
    /\ d \notin Sent => handler[d] = "none" /\ artifact[d] \in {"none", "wanted"}
    /\ \A n \in Depths : At(d, n) => Borne(d, n)

Loading == (\A d \in Items : Loads(d)) /\ acquired \subseteq Sent

\* The items for which the saver has given back a share that they never took.
Through(d) == \A n \in Depths : At(d, n) => n > Saver
Overpaid == {d \in Unpaid : Through(d)}

Budget ==
    /\ used <= MaxItems
    /\ Cardinality(acquired) <= used + Cardinality(Overpaid)
    /\ Unpaid \cup Underpaid = {} => SumOf(Advertised, acquired) <= bytes

StagesInv ==
    /\ CarrierTypes /\ ControlTypes /\ DataTypes
    /\ Singles /\ Alone /\ Unsent
    /\ Empties /\ Postures /\ Ending /\ SavedFirst
    /\ outcome = "running" => Kept /\ Contained
    /\ Loading /\ Budget /\ BudgetHolds /\ VersionIsRight

-----------------------------------------------------------------------------
(***************************************************************************)
(* The order of the stages.                                                *)
(***************************************************************************)

\* pipeline_stages() has one stage of each kind that is named, in this order.
LEMMA Order ==
    /\ EndStage \in Nat /\ Stages = 1 .. EndStage /\ First = 1
    /\ {First, Querier, Downloader, Saver, ContentSaver, Resolver, Associator,
        EndStage} \subseteq Stages
    /\ First < Querier /\ Querier < Downloader /\ Downloader < Saver
    /\ Saver < ContentSaver /\ ContentSaver < Resolver /\ Resolver < Associator
    /\ Associator < EndStage
  <1>1. /\ EndStage \in Nat /\ Stages = 1 .. EndStage /\ First = 1
    BY PipelineAssumption DEF EndStage, Stages, First
  <1>2. PICK a \in Stages, b \in Stages, c \in Stages, d \in Stages, e \in Stages,
             f \in Stages :
          /\ Of("artifacts") = {a} /\ Of("download") = {b} /\ Of("save") = {c}
          /\ Of("content") = {d} /\ Of("resolve") = {e} /\ Of("associate") = {f}
          /\ a < b /\ b < c /\ c < d /\ d < e /\ e < f
    BY PipelineAssumption, Zenon
  <1>3. /\ \A s \in Stages : Kinds[s] = "artifacts" <=> s = a
        /\ \A s \in Stages : Kinds[s] = "download" <=> s = b
        /\ \A s \in Stages : Kinds[s] = "save" <=> s = c
        /\ \A s \in Stages : Kinds[s] = "content" <=> s = d
        /\ \A s \in Stages : Kinds[s] = "resolve" <=> s = e
        /\ \A s \in Stages : Kinds[s] = "associate" <=> s = f
    BY <1>2, Zenon DEF Of
  <1>4. /\ Querier = a /\ Downloader = b /\ Saver = c /\ ContentSaver = d
        /\ Resolver = e /\ Associator = f
    BY <1>3 DEF Querier, Downloader, Saver, ContentSaver, Resolver, Associator
  <1>5. /\ \A s \in Stages : Kinds[s] = "first" <=> s = First
        /\ \A s \in Stages : Kinds[s] = "end" <=> s = EndStage
        /\ First \in Stages /\ EndStage \in Stages
    <2>1. Of("first") = {First} /\ Of("end") = {EndStage}
      BY PipelineAssumption DEF EndStage
    <2> QED
      BY <2>1, Zenon DEF Of
  <1>6. a # First /\ f # EndStage
    BY <1>3, <1>5
  <1> QED
    BY <1>1, <1>2, <1>4, <1>5, <1>6

\* The class of a stage says where it stands.
LEMMA Kinded ==
    ASSUME NEW s \in Stages
    PROVE  /\ Kinds[s] = "first" <=> s = First
           /\ Kinds[s] = "artifacts" <=> s = Querier
           /\ Kinds[s] = "download" <=> s = Downloader
           /\ Kinds[s] = "save" <=> s = Saver
           /\ Kinds[s] = "content" <=> s = ContentSaver
           /\ Kinds[s] = "resolve" <=> s = Resolver
           /\ Kinds[s] = "associate" <=> s = Associator
           /\ Kinds[s] = "end" <=> s = EndStage
  <1>2. PICK a \in Stages, b \in Stages, c \in Stages, d \in Stages, e \in Stages,
             f \in Stages :
          /\ Of("artifacts") = {a} /\ Of("download") = {b} /\ Of("save") = {c}
          /\ Of("content") = {d} /\ Of("resolve") = {e} /\ Of("associate") = {f}
          /\ a < b /\ b < c /\ c < d /\ d < e /\ e < f
    BY PipelineAssumption, Zenon
  <1>3. /\ \A r \in Stages : Kinds[r] = "artifacts" <=> r = a
        /\ \A r \in Stages : Kinds[r] = "download" <=> r = b
        /\ \A r \in Stages : Kinds[r] = "save" <=> r = c
        /\ \A r \in Stages : Kinds[r] = "content" <=> r = d
        /\ \A r \in Stages : Kinds[r] = "resolve" <=> r = e
        /\ \A r \in Stages : Kinds[r] = "associate" <=> r = f
    BY <1>2, Zenon DEF Of
  <1>4. /\ Querier = a /\ Downloader = b /\ Saver = c /\ ContentSaver = d
        /\ Resolver = e /\ Associator = f
    BY <1>3 DEF Querier, Downloader, Saver, ContentSaver, Resolver, Associator
  <1>5. /\ \A r \in Stages : Kinds[r] = "first" <=> r = First
        /\ \A r \in Stages : Kinds[r] = "end" <=> r = EndStage
    <2>1. Of("first") = {First} /\ Of("end") = {EndStage}
      BY PipelineAssumption DEF EndStage
    <2> QED
      BY <2>1, Zenon DEF Of
  <1> QED
    BY <1>3, <1>4, <1>5

\* The stages that read batches() are none of those that read items(), nor the
\* first and the last.
LEMMA Batchers ==
    /\ Batching \subseteq Stages
    /\ {Querier, Saver, ContentSaver, Associator} \subseteq Batching
    /\ Batching \cap {First, Downloader, Resolver, EndStage} = {}
  <1>1. Batching \subseteq Stages
    BY DEF Batching
  <1>2. {First, Querier, Downloader, Saver, ContentSaver, Resolver, Associator,
         EndStage} \subseteq Stages
    BY Order
  <1>3. /\ Kinds[First] = "first" /\ Kinds[Querier] = "artifacts"
        /\ Kinds[Downloader] = "download" /\ Kinds[Saver] = "save"
        /\ Kinds[ContentSaver] = "content" /\ Kinds[Resolver] = "resolve"
        /\ Kinds[Associator] = "associate" /\ Kinds[EndStage] = "end"
    BY <1>2, Kinded
  <1> QED
    BY <1>1, <1>2, <1>3 DEF Batching

-----------------------------------------------------------------------------
(***************************************************************************)
(* Sequences.                                                              *)
(***************************************************************************)

\* Queue.put(): the item is the last, and nothing else changes.
LEMMA Appended ==
    ASSUME NEW S, NEW q \in Seq(S), NEW e \in S
    PROVE  /\ Append(q, e) \in Seq(S)
           /\ Len(Append(q, e)) = Len(q) + 1
           /\ ToSet(Append(q, e)) = ToSet(q) \cup {e}
           /\ Single(q) /\ e \notin ToSet(q) => Single(Append(q, e))
           /\ \A i \in DOMAIN q : Append(q, e)[i] = q[i]
           /\ Append(q, e)[Len(q) + 1] = e
           /\ DOMAIN Append(q, e) = 1 .. Len(q) + 1 /\ DOMAIN q = 1 .. Len(q)
           /\ Len(q) \in Nat
  <1> DEFINE a == Append(q, e)
  <1>1. /\ a \in Seq(S) /\ Len(a) = Len(q) + 1
        /\ \A i \in 1 .. Len(q) : a[i] = q[i]
        /\ a[Len(q) + 1] = e
    BY AppendProperties
  <1>2. DOMAIN a = 1 .. Len(a) /\ DOMAIN q = 1 .. Len(q) /\ Len(q) \in Nat
    BY <1>1, LenProperties
  <1> HIDE DEF a
  <1>3. ToSet(a) = ToSet(q) \cup {e}
    <2>1. \A x \in ToSet(a) : x \in ToSet(q) \cup {e}
      <3>1. \A i \in DOMAIN a : i \in DOMAIN q \/ i = Len(q) + 1
        BY <1>1, <1>2
      <3> QED
        BY <1>1, <1>2, <3>1 DEF ToSet
    <2>2. \A x \in ToSet(q) \cup {e} : x \in ToSet(a)
      <3>1. Len(q) + 1 \in DOMAIN a /\ \A i \in DOMAIN q : i \in DOMAIN a
        BY <1>1, <1>2
      <3> QED
        BY <1>1, <1>2, <3>1 DEF ToSet
    <2> QED
      BY <2>1, <2>2
  <1>4. Single(q) /\ e \notin ToSet(q) => Single(a)
    BY <1>1, <1>2 DEF ToSet, Single
  <1> QED
    BY <1>1, <1>2, <1>3, <1>4 DEF a

\* Queue.get(): the first item goes, and nothing else changes.
LEMMA Taken1 ==
    ASSUME NEW S, NEW q \in Seq(S), q # <<>>
    PROVE  /\ Head(q) \in S /\ Head(q) = q[1] /\ Tail(q) \in Seq(S)
           /\ Len(q) \in Nat \ {0} /\ Len(Tail(q)) = Len(q) - 1
           /\ ToSet(q) = ToSet(Tail(q)) \cup {Head(q)}
           /\ Single(q) => Single(Tail(q)) /\ Head(q) \notin ToSet(Tail(q))
           /\ \A i \in DOMAIN Tail(q) : i + 1 \in DOMAIN q /\ Tail(q)[i] = q[i + 1]
           /\ Len(q) = 1 => Tail(q) = <<>>
           /\ DOMAIN q = 1 .. Len(q) /\ DOMAIN Tail(q) = 1 .. Len(q) - 1
  <1> DEFINE t == Tail(q)
  <1>1. /\ Head(q) \in S /\ t \in Seq(S) /\ Len(t) = Len(q) - 1
        /\ \A i \in 1 .. Len(t) : t[i] = q[i + 1]
    BY HeadTailProperties
  <1>2. /\ DOMAIN t = 1 .. Len(t) /\ DOMAIN q = 1 .. Len(q) /\ Len(q) \in Nat \ {0}
        /\ Len(t) = 0 => t = <<>>
    BY <1>1, LenProperties, EmptySeq
  <1>3. Head(q) = q[1]
    BY SMT
  <1> HIDE DEF t
  <1>4. ToSet(q) = ToSet(t) \cup {q[1]}
    <2>1. \A i \in 2 .. Len(q) : i - 1 \in DOMAIN t /\ q[i] = t[i - 1]
      BY <1>1, <1>2
    <2>2. \A x \in ToSet(q) : x \in ToSet(t) \cup {q[1]}
      <3>1. \A i \in DOMAIN q : i = 1 \/ i \in 2 .. Len(q)
        BY <1>2
      <3> QED
        BY <2>1, <3>1 DEF ToSet
    <2>3. \A x \in ToSet(t) \cup {q[1]} : x \in ToSet(q)
      <3>1. 1 \in DOMAIN q /\ \A i \in DOMAIN t : i + 1 \in DOMAIN q /\ t[i] = q[i + 1]
        BY <1>1, <1>2
      <3> QED
        BY <3>1 DEF ToSet
    <2> QED
      BY <2>2, <2>3
  <1>5. ASSUME Single(q)
        PROVE  Single(t) /\ q[1] \notin ToSet(t)
    <2>1. \A i \in DOMAIN t : i + 1 \in DOMAIN q /\ i + 1 # 1 /\ t[i] = q[i + 1]
      BY <1>1, <1>2
    <2>2. 1 \in DOMAIN q /\ \A i \in DOMAIN t : i \in Int
      BY <1>2
    <2>3. q[1] \notin ToSet(t)
      BY <1>5, <2>1, <2>2 DEF ToSet, Single
    <2>4. ASSUME NEW i \in DOMAIN t, NEW j \in DOMAIN t, t[i] = t[j]
          PROVE  i = j
      <3>1. i + 1 = j + 1
        BY <1>5, <2>1, <2>4 DEF Single
      <3> QED
        BY <2>2, <3>1
    <2> QED
      BY <2>3, <2>4 DEF Single
  <1> QED
    BY <1>1, <1>2, <1>3, <1>4, <1>5 DEF t

\* The items of a batch are those it had and those that came.
LEMMA Joined ==
    ASSUME NEW S, NEW p \in Seq(S), NEW q \in Seq(S)
    PROVE  /\ p \o q \in Seq(S)
           /\ Len(p \o q) = Len(p) + Len(q)
           /\ ToSet(p \o q) = ToSet(p) \cup ToSet(q)
           /\ Single(p) /\ Single(q) /\ ToSet(p) \cap ToSet(q) = {} => Single(p \o q)
           /\ \A i \in DOMAIN q : Len(p) + i \in DOMAIN (p \o q) /\ (p \o q)[Len(p) + i] = q[i]
  <1> DEFINE a == p \o q
  <1>1. /\ a \in Seq(S) /\ Len(a) = Len(p) + Len(q)
        /\ \A i \in 1 .. Len(p) + Len(q) :
              a[i] = IF i <= Len(p) THEN p[i] ELSE q[i - Len(p)]
    BY ConcatProperties
  <1>2. /\ DOMAIN a = 1 .. Len(a) /\ DOMAIN p = 1 .. Len(p) /\ DOMAIN q = 1 .. Len(q)
        /\ Len(p) \in Nat /\ Len(q) \in Nat
    BY <1>1, LenProperties
  <1> HIDE DEF a
  <1>3. \A i \in DOMAIN p : i \in DOMAIN a /\ a[i] = p[i]
    BY <1>1, <1>2
  <1>4. \A i \in DOMAIN q : Len(p) + i \in DOMAIN a /\ a[Len(p) + i] = q[i]
    BY <1>1, <1>2
  <1>5. \A i \in DOMAIN a : \/ i \in DOMAIN p /\ a[i] = p[i]
                            \/ i - Len(p) \in DOMAIN q /\ a[i] = q[i - Len(p)]
    BY <1>1, <1>2
  <1>6. ToSet(a) = ToSet(p) \cup ToSet(q)
    <2>1. \A x \in ToSet(a) : x \in ToSet(p) \cup ToSet(q)
      BY <1>5 DEF ToSet
    <2>2. \A x \in ToSet(p) : x \in ToSet(a)
      BY <1>3 DEF ToSet
    <2>3. \A x \in ToSet(q) : x \in ToSet(a)
      BY <1>4 DEF ToSet
    <2> QED
      BY <2>1, <2>2, <2>3
  <1>7. ASSUME Single(p), Single(q), ToSet(p) \cap ToSet(q) = {}
        PROVE  Single(a)
    <2> SUFFICES ASSUME NEW i \in DOMAIN a, NEW j \in DOMAIN a, a[i] = a[j]
                 PROVE  i = j
      BY DEF Single
    <2>1. \A k \in DOMAIN p : p[k] \in ToSet(p)
      BY DEF ToSet
    <2>2. \A k \in DOMAIN q : q[k] \in ToSet(q)
      BY DEF ToSet
    <2>3. i \in Int /\ j \in Int
      BY <1>2
    <2> QED
      BY <1>2, <1>5, <1>7, <2>1, <2>2, <2>3 DEF Single
  <1> QED
    BY <1>1, <1>4, <1>6, <1>7 DEF a

\* Without the end marker, which is the last, there are items only.
LEMMA Stripped ==
    ASSUME NEW q \in Seq(Items \cup {End}),
           \A i \in DOMAIN q : q[i] = End => i = Len(q)
    PROVE  /\ WithoutEnd(q) \in Seq(Items)
           /\ ToSet(WithoutEnd(q)) = ToSet(q) \ {End}
           /\ Single(q) => Single(WithoutEnd(q))
           /\ Len(WithoutEnd(q)) <= Len(q)
  <1>1. /\ DOMAIN q = 1 .. Len(q) /\ Len(q) \in Nat
        /\ \A i \in 1 .. Len(q) : q[i] \in Items \cup {End}
    BY LenProperties, ElementOfSeq
  <1>2. CASE q # <<>> /\ q[Len(q)] = End
    <2> DEFINE n == Len(q) - 1
               f == SubSeq(q, 1, n)
    <2>1. Len(q) \in Nat \ {0}
      BY <1>2, EmptySeq
    <2>2. \A i \in 1 .. n : q[i] \in Items
      BY <1>1, <2>1
    <2>3. f \in Seq(Items) /\ Len(f) = n /\ \A i \in 1 .. n : f[i] = q[i]
      <3>1. 1 \in Int /\ n \in Int
        BY <2>1
      <3>2. /\ f \in Seq(Items) /\ Len(f) = IF 1 <= n THEN n - 1 + 1 ELSE 0
            /\ \A i \in 1 .. n - 1 + 1 : f[i] = q[1 + i - 1]
        BY <2>2, <3>1, SubSeqProperties
      <3>3. n \in Nat
        BY <2>1
      <3> HIDE DEF f, n
      <3>4. \A i \in 1 .. n : i \in 1 .. n - 1 + 1 /\ 1 + i - 1 = i
        BY <3>3
      <3>5. Len(f) = n
        BY <3>2, <3>3
      <3> QED
        BY <3>2, <3>4, <3>5
    <2>4. DOMAIN f = 1 .. n
      BY <2>3, LenProperties
    <2>5. WithoutEnd(q) = f
      BY <1>2 DEF WithoutEnd, Last, Front
    <2> HIDE DEF f
    <2>6. ToSet(f) = ToSet(q) \ {End}
      <3>1. \A x \in ToSet(f) : x \in ToSet(q) /\ x \in Items
        BY <1>1, <2>1, <2>2, <2>3, <2>4 DEF ToSet
      <3>2. End \notin Items
        BY StagesAssumption
      <3>3. \A x \in ToSet(q) \ {End} : x \in ToSet(f)
        BY <1>1, <1>2, <2>1, <2>3, <2>4 DEF ToSet
      <3> QED
        BY <3>1, <3>2, <3>3
    <2>7. Single(q) => Single(f)
      BY <1>1, <2>1, <2>3, <2>4 DEF Single
    <2> QED
      BY <2>1, <2>3, <2>5, <2>6, <2>7
  <1>3. CASE ~(q # <<>> /\ q[Len(q)] = End)
    <2>1. WithoutEnd(q) = q
      BY <1>3 DEF WithoutEnd, Last
    <2>2. \A i \in DOMAIN q : q[i] \in Items
      <3> SUFFICES ASSUME NEW i \in DOMAIN q, q[i] = End
                   PROVE  FALSE
        BY <1>1
      <3>1. i = Len(q)
        OBVIOUS
      <3>2. q = <<>>
        BY <1>3, <3>1
      <3>3. Len(q) = 0
        BY <3>2, EmptySeq
      <3> QED
        BY <1>1, <3>3
    <2>3. q \in Seq(Items)
      <3> DEFINE n == Len(q)
      <3>1. n \in Nat /\ q \in [1 .. n -> Items]
        BY <1>1, <2>2, LenProperties
      <3> HIDE DEF n
      <3> QED
        BY <3>1, SeqDef
    <2>4. End \notin ToSet(q)
      BY <2>2, StagesAssumption DEF ToSet
    <2> QED
      BY <1>1, <2>1, <2>3, <2>4
  <1> QED
    BY <1>2, <1>3

\* One item, and the batch with nothing in it.
LEMMA Units ==
    /\ \A S : <<>> \in Seq(S) /\ Len(<<>>) = 0 /\ ToSet(<<>>) = {} /\ Single(<<>>)
    /\ \A S : \A q \in Seq(S) : ToSet(q) = {} <=> q = <<>>
    /\ \A S : \A x \in S : /\ <<x>> \in Seq(S) /\ Len(<<x>>) = 1
                           /\ ToSet(<<x>>) = {x} /\ Single(<<x>>)
  <1>1. \A S : <<>> \in Seq(S) /\ Len(<<>>) = 0
    BY EmptySeq
  <1>2. DOMAIN <<>> = {}
    OBVIOUS
  <1>3. ToSet(<<>>) = {} /\ Single(<<>>)
    BY <1>2 DEF ToSet, Single
  <1>4. ASSUME NEW S, NEW q \in Seq(S), q # <<>>
        PROVE  ToSet(q) # {}
    <2>1. Len(q) \in Nat \ {0} /\ DOMAIN q = 1 .. Len(q)
      BY <1>4, EmptySeq, LenProperties
    <2>2. 1 \in DOMAIN q
      BY <2>1
    <2> QED
      BY <2>2 DEF ToSet
  <1>5. ASSUME NEW S, NEW x \in S
        PROVE  /\ <<x>> \in Seq(S) /\ Len(<<x>>) = 1
               /\ ToSet(<<x>>) = {x} /\ Single(<<x>>)
    <2>1. <<x>> \in Seq(S) /\ Len(<<x>>) = 1 /\ <<x>>[1] = x
      OBVIOUS
    <2>2. DOMAIN <<x>> = {1}
      BY <2>1, LenProperties
    <2> QED
      BY <2>1, <2>2 DEF ToSet, Single
  <1> QED
    BY <1>1, <1>3, <1>4, <1>5

\* A permutation of a set has each of its elements once.
LEMMA Ordered ==
    ASSUME NEW S, IsFiniteSet(S), NEW q \in SetToSeqs(S)
    PROVE  q \in Seq(S) /\ ToSet(q) = S /\ Single(q) /\ DOMAIN q = 1 .. Cardinality(S)
  <1> DEFINE n == Cardinality(S)
  <1>1. n \in Nat
    BY FS_CardinalityType
  <1>2. q \in [1 .. n -> S] /\ \A i, j \in 1 .. n : i # j => q[i] # q[j]
    BY DEF SetToSeqs
  <1>3. q \in Seq(S) /\ DOMAIN q = 1 .. n
    BY <1>1, <1>2, SeqDef
  <1>4. Single(q)
    BY <1>2 DEF Single
  <1>5. IsFiniteSet(1 .. n) /\ Cardinality(1 .. n) = n
    <2>1. /\ IsFiniteSet(1 .. n)
          /\ Cardinality(1 .. n) = IF 1 > n THEN 0 ELSE n - 1 + 1
      BY <1>1, FS_Interval
    <2> QED
      BY <1>1, <2>1
  <1>6. q \in Injection(1 .. n, S)
    BY <1>2 DEF Injection, IsInjective
  <1>7. q \in Surjection(1 .. n, S)
    BY <1>5, <1>6, FS_Injection
  <1>8. ToSet(q) = S
    BY <1>2, <1>7 DEF Surjection, ToSet
  <1> QED
    BY <1>3, <1>4, <1>8

-----------------------------------------------------------------------------
(***************************************************************************)
(* Motion: a step moves some items to one place, drops some, and leaves    *)
(* the others where they are.                                              *)
(***************************************************************************)
Moved(M, b, r, D) ==
    \A d \in Items, c \in Carriers, s \in Stages :
        In(d, c, s)' <=> d \notin D /\ IF d \in M THEN c = b /\ s = r ELSE In(d, c, s)

Flows(M, n, D) ==
    \A d \in Items, k \in Depths :
        At(d, k)' <=> d \notin D /\ IF d \in M THEN k = n ELSE At(d, k)

\* An item is in a queue, in a listener, in a batch, in what a stage has
\* handled, or in a task of the downloader: In says it of each.
LEMMA Forms ==
    /\ \A d \in Items, s \in Stages :
          /\ In(d, "queue", s) <=> d \in ToSet(queue[s])
          /\ In(d, "held", s) <=> held[s] = d
          /\ In(d, "batch", s) <=> d \in ToSet(batch[s])
          /\ In(d, "out", s) <=> d \in ToSet(out[s])
          /\ In(d, "task", s) <=> s = Downloader /\ d \in Pending
    /\ \A d \in Items, s \in Stages :
          /\ In(d, "queue", s)' <=> d \in ToSet(queue'[s])
          /\ In(d, "held", s)' <=> held'[s] = d
          /\ In(d, "batch", s)' <=> d \in ToSet(batch'[s])
          /\ In(d, "out", s)' <=> d \in ToSet(out'[s])
          /\ In(d, "task", s)' <=> s = Downloader /\ d \in Pending'
  BY DEF In

\* What Moved() says of an item and a stage, for each kind of place.
Described(M, b, r, D, d, s) ==
    /\ d \in ToSet(queue'[s]) <=>
          d \notin D /\ IF d \in M THEN b = "queue" /\ s = r
                        ELSE d \in ToSet(queue[s])
    /\ held'[s] = d <=>
          d \notin D /\ IF d \in M THEN b = "held" /\ s = r ELSE held[s] = d
    /\ d \in ToSet(batch'[s]) <=>
          d \notin D /\ IF d \in M THEN b = "batch" /\ s = r
                        ELSE d \in ToSet(batch[s])
    /\ d \in ToSet(out'[s]) <=>
          d \notin D /\ IF d \in M THEN b = "out" /\ s = r
                        ELSE d \in ToSet(out[s])
    /\ s = Downloader /\ d \in Pending' <=>
          d \notin D /\ IF d \in M THEN b = "task" /\ s = r
                        ELSE s = Downloader /\ d \in Pending

\* A step that is described for each kind of place is described.
LEMMA Piecewise ==
    ASSUME NEW M, NEW b \in Carriers, NEW r, NEW D,
           \A d \in Items, s \in Stages : Described(M, b, r, D, d, s)
    PROVE  Moved(M, b, r, D)
  <1> SUFFICES ASSUME NEW d \in Items, NEW c \in Carriers, NEW s \in Stages
               PROVE  In(d, c, s)' <=>
                        d \notin D /\ IF d \in M THEN c = b /\ s = r ELSE In(d, c, s)
    BY DEF Moved
  <1>1. c = "queue" \/ c = "held" \/ c = "batch" \/ c = "out" \/ c = "task"
    BY DEF Carriers
  <1>2. CASE c = "queue"
    BY <1>2, Forms DEF Described
  <1>3. CASE c = "held"
    BY <1>3, Forms DEF Described
  <1>4. CASE c = "batch"
    BY <1>4, Forms DEF Described
  <1>5. CASE c = "out"
    BY <1>5, Forms DEF Described
  <1>6. CASE c = "task"
    BY <1>6, Forms DEF Described
  <1> QED
    BY <1>1, <1>2, <1>3, <1>4, <1>5, <1>6

\* Where an item is decides its depth.
LEMMA Deep ==
    /\ \A d \in Items, c \in Carriers, s \in Stages :
          In(d, c, s) => Reach(c, s) \in Depths /\ At(d, Reach(c, s)) /\ Somewhere(d)
    /\ \A d \in Items, k \in Depths : At(d, k) => Somewhere(d)
    /\ \A c \in Carriers, s \in Stages : Reach(c, s) \in Depths
  <1>1. \A c \in Carriers, s \in Stages : Reach(c, s) \in Depths
    BY Order DEF Reach, Depths
  <1> QED
    BY <1>1 DEF At, Somewhere

\* An item is at one depth.
LEMMA OneDepth ==
    ASSUME Alone, NEW d \in Items, NEW c \in Carriers, NEW s \in Stages, In(d, c, s)
    PROVE  \A k \in Depths : At(d, k) <=> k = Reach(c, s)
  BY DEF At, Alone

\* After a motion items are in one place still, and their depths have changed
\* as the motion says.
LEMMA Motion ==
    ASSUME Alone, NEW M, NEW b \in Carriers, NEW r \in Stages, NEW D,
           Moved(M, b, r, D)
    PROVE  Alone' /\ Flows(M, Reach(b, r), D)
  <1>1. Alone'
    <2> SUFFICES ASSUME NEW d \in Items, NEW a \in Carriers, NEW c \in Carriers,
                        NEW q \in Stages, NEW s \in Stages,
                        In(d, a, q)', In(d, c, s)'
                 PROVE  a = c /\ q = s
      BY DEF Alone
    <2> QED
      BY DEF Moved, Alone
  <1>2. ASSUME NEW d \in Items, NEW k \in Depths
        PROVE  At(d, k)' <=> d \notin D /\ IF d \in M THEN k = Reach(b, r) ELSE At(d, k)
    <2>1. At(d, k)' <=> \E c \in Carriers, s \in Stages : In(d, c, s)' /\ Reach(c, s) = k
      BY DEF At, Reach
    <2>2. At(d, k) <=> \E c \in Carriers, s \in Stages : In(d, c, s) /\ Reach(c, s) = k
      BY DEF At
    <2> QED
      BY <2>1, <2>2 DEF Moved
  <1> QED
    BY <1>1, <1>2 DEF Flows

\* An item that is in one place is in no other.
LEMMA Only ==
    ASSUME Alone, NEW d \in Items, NEW c \in Carriers, NEW r \in Stages, In(d, c, r)
    PROVE  \A s \in Stages :
              /\ d \in ToSet(queue[s]) => c = "queue" /\ s = r
              /\ held[s] = d => c = "held" /\ s = r
              /\ d \in ToSet(batch[s]) => c = "batch" /\ s = r
              /\ d \in ToSet(out[s]) => c = "out" /\ s = r
              /\ d \in Pending => c = "task" /\ r = Downloader
  <1> SUFFICES ASSUME NEW s \in Stages
               PROVE  /\ d \in ToSet(queue[s]) => c = "queue" /\ s = r
                      /\ held[s] = d => c = "held" /\ s = r
                      /\ d \in ToSet(batch[s]) => c = "batch" /\ s = r
                      /\ d \in ToSet(out[s]) => c = "out" /\ s = r
                      /\ d \in Pending => c = "task" /\ r = Downloader
    OBVIOUS
  <1>1. {"queue", "held", "batch", "out", "task"} = Carriers /\ Downloader \in Stages
    BY Order DEF Carriers
  <1>2. \A b \in Carriers, t \in Stages : In(d, b, t) => b = c /\ t = r
    BY DEF Alone
  <1> QED
    BY <1>1, <1>2, Forms

\* An item that is nowhere is in none of the places.
LEMMA Nowhere ==
    ASSUME NEW d \in Items, ~Somewhere(d)
    PROVE  /\ \A s \in Stages : /\ d \notin ToSet(queue[s]) /\ held[s] # d
                                /\ d \notin ToSet(batch[s]) /\ d \notin ToSet(out[s])
           /\ d \notin Pending
  <1>1. {"queue", "held", "batch", "out", "task"} = Carriers /\ Downloader \in Stages
    BY Order DEF Carriers
  <1>2. \A b \in Carriers, t \in Stages : ~In(d, b, t)
    BY Deep
  <1> QED
    BY <1>1, <1>2, Forms

-----------------------------------------------------------------------------
(***************************************************************************)
(* How each step moves items.                                              *)
(***************************************************************************)
Placed == CarrierTypes /\ Singles /\ Alone

\* Nothing is put or taken: nothing moves.
LEMMA StillMoves ==
    ASSUME Placed, UNCHANGED <<queue, held, batch, out>>,
           handler' \in [Items -> Handlers], Pending' = Pending
    PROVE  CarrierTypes' /\ Singles' /\ Moved({}, "queue", First, {})
  <1>1. CarrierTypes'
    BY DEF Placed, CarrierTypes
  <1>2. Singles'
    BY DEF Placed, Singles
  <1>3. Moved({}, "queue", First, {})
    <2>1. "queue" \in Carriers
      BY DEF Carriers
    <2>d. \A d \in Items, r \in Stages : Described({}, "queue", First, {}, d, r)
      BY <2>1 DEF Described
    <2> QED
      BY <2>d, <2>1, Piecewise
  <1> QED
    BY <1>1, <1>2, <1>3

\* A stage hands an item on: it is in the next queue.
LEMMA PutMoves ==
    ASSUME Placed, NEW s \in Stages \ {EndStage}, Put(s)
    PROVE  /\ CarrierTypes' /\ Singles' /\ Moved({Head(out[s])}, "queue", s + 1, {})
           /\ Head(out[s]) \in Items /\ In(Head(out[s]), "out", s)
  <1> DEFINE d0 == Head(out[s])
             t == s + 1
  <1>0. t \in Stages /\ t # s
    BY Order
  <1>1. /\ out[s] \in Seq(Items) /\ out[s] # <<>> /\ queue[t] \in Seq(Items \cup {End})
        /\ queue' = [queue EXCEPT ![t] = Append(queue[t], d0)]
        /\ out' = [out EXCEPT ![s] = Tail(out[s])]
        /\ held' = held /\ batch' = batch /\ handler' = handler
        /\ Len(queue[t]) < QueueSize
        /\ queue \in [Stages -> Seq(Items \cup {End})] /\ out \in [Stages -> Seq(Items)]
    BY <1>0 DEF Put, Placed, CarrierTypes, HasRoom, budgetVars, dbVars, itemVars,
                downloadVars
  <1>2. /\ d0 \in Items /\ Tail(out[s]) \in Seq(Items)
        /\ ToSet(out[s]) = ToSet(Tail(out[s])) \cup {d0}
        /\ Single(out[s]) => Single(Tail(out[s])) /\ d0 \notin ToSet(Tail(out[s]))
    BY <1>1, Taken1
  <1>3. In(d0, "out", s) /\ "out" \in Carriers /\ "queue" \in Carriers
    BY <1>2, Forms DEF Carriers
  <1>4. \A r \in Stages : /\ d0 \notin ToSet(queue[r]) /\ held[r] # d0
                          /\ d0 \notin ToSet(batch[r]) /\ d0 \notin Pending
                          /\ d0 \in ToSet(out[r]) => r = s
    <2>1. Alone
      BY DEF Placed
    <2> QED
      BY <1>2, <1>3, <2>1, Only
  <1>5. /\ Append(queue[t], d0) \in Seq(Items \cup {End})
        /\ Len(Append(queue[t], d0)) = Len(queue[t]) + 1
        /\ ToSet(Append(queue[t], d0)) = ToSet(queue[t]) \cup {d0}
        /\ Single(queue[t]) => Single(Append(queue[t], d0))
        /\ Len(queue[t]) \in Nat
    BY <1>0, <1>1, <1>2, <1>4, Appended
  <1> HIDE DEF d0, t
  <1>6. /\ \A r \in Stages : queue'[r] = IF r = t THEN Append(queue[t], d0) ELSE queue[r]
        /\ \A r \in Stages : out'[r] = IF r = s THEN Tail(out[s]) ELSE out[r]
    BY <1>1
  <1>7. CarrierTypes'
    <2>1. QueueSize \in Nat
      BY StagesAssumption
    <2>2. queue' \in [Stages -> Seq(Items \cup {End})] /\ out' \in [Stages -> Seq(Items)]
      BY <1>1, <1>2, <1>5
    <2>3. \A r \in Stages : Len(queue'[r]) <= QueueSize
      BY <1>1, <1>5, <1>6, <2>1 DEF Placed, CarrierTypes
    <2> QED
      BY <1>1, <2>2, <2>3 DEF Placed, CarrierTypes
  <1>8. Singles'
    BY <1>1, <1>2, <1>5, <1>6 DEF Placed, Singles
  <1>9. Moved({d0}, "queue", t, {})
    <2>1. Pending' = Pending
      BY <1>1 DEF Pending
    <2>2. ASSUME NEW d \in Items, NEW r \in Stages
          PROVE  /\ d \in ToSet(queue'[r]) <=>
                       IF d \in {d0} THEN r = t ELSE d \in ToSet(queue[r])
                 /\ held'[r] = d <=> d \notin {d0} /\ held[r] = d
                 /\ d \in ToSet(batch'[r]) <=> d \notin {d0} /\ d \in ToSet(batch[r])
                 /\ d \in ToSet(out'[r]) <=> d \notin {d0} /\ d \in ToSet(out[r])
                 /\ d \in Pending' <=> d \notin {d0} /\ d \in Pending
      BY <1>1, <1>2, <1>4, <1>5, <1>6, <2>1 DEF Placed, Singles
    <2>d. \A d \in Items, r \in Stages : Described({d0}, "queue", t, {}, d, r)
      BY <1>3, <2>2 DEF Described
    <2> QED
      BY <2>d, <1>3, <2>2, Piecewise
  <1> QED
    BY <1>2, <1>3, <1>7, <1>8, <1>9 DEF d0, t

\* The first stage sends an item: it is in the second queue.
LEMMA FirstPutMoves ==
    ASSUME Placed, Unsent, FirstPut, pos \in 1 .. Len(Script) + 1
    PROVE  /\ CarrierTypes' /\ Singles' /\ Moved({Script[pos][2]}, "queue", 2, {})
           /\ Script[pos][2] \in Items /\ ~Somewhere(Script[pos][2])
           /\ Sent' = Sent \cup {Script[pos][2]} /\ Script[pos][2] \notin Sent
  <1> DEFINE d0 == Script[pos][2]
             t == 2
  <1>0. t \in Stages
    BY Order
  <1>1. /\ queue[t] \in Seq(Items \cup {End})
        /\ queue' = [queue EXCEPT ![t] = Append(queue[t], d0)]
        /\ held' = held /\ batch' = batch /\ handler' = handler /\ out' = out
        /\ Len(queue[t]) < QueueSize
        /\ queue \in [Stages -> Seq(Items \cup {End})]
        /\ pos' = pos + 1 /\ pos <= Len(Script) /\ Script[pos][1] = "put"
    BY <1>0 DEF FirstPut, Placed, CarrierTypes, HasRoom, batchVars, downloadVars
  <1>2. Len(Script) \in Nat /\ pos \in DOMAIN Script /\ DOMAIN Script = 1 .. Len(Script)
        /\ \A i \in DOMAIN Script : Script[i] \in {"put", "await"} \X Items
    BY <1>1, ScriptAssumption, LenProperties, ElementOfSeq
  <1>3. d0 \in Items /\ Script[pos] = <<"put", d0>>
    BY <1>1, <1>2
  <1>4. \A j \in DOMAIN Script : Script[j] = <<"put", d0>> => j = pos
    <2>1. PICK i \in DOMAIN Script :
              /\ Script[i] = <<"put", d0>>
              /\ \A j \in DOMAIN Script : Script[j] = Script[i] => j = i
      BY <1>3, ScriptAssumption
    <2> QED
      BY <1>2, <1>3, <2>1
  <1>5. d0 \notin Sent
    BY <1>2, <1>3, <1>4 DEF Sent
  <1>6. Sent' = Sent \cup {d0}
    <2>1. \A d \in Items :
             (\E i \in 1 .. pos' - 1 : Script[i] = <<"put", d>>)
             <=> d = d0 \/ \E i \in 1 .. pos - 1 : Script[i] = <<"put", d>>
      <3>1. \A i \in Int : i \in 1 .. pos' - 1 <=> i \in 1 .. pos - 1 \/ i = pos
        BY <1>1, <1>2
      <3>2. \A d \in Items : Script[pos] = <<"put", d>> <=> d = d0
        BY <1>3
      <3> QED
        BY <1>2, <3>1, <3>2
    <2> QED
      BY <1>3, <2>1 DEF Sent
  <1>7. ~Somewhere(d0)
    BY <1>3, <1>5 DEF Unsent
  <1>8. /\ \A r \in Stages : /\ d0 \notin ToSet(queue[r]) /\ held[r] # d0
                             /\ d0 \notin ToSet(batch[r]) /\ d0 \notin ToSet(out[r])
        /\ d0 \notin Pending
    BY <1>3, <1>7, Nowhere
  <1>9. /\ Append(queue[t], d0) \in Seq(Items \cup {End})
        /\ Len(Append(queue[t], d0)) = Len(queue[t]) + 1
        /\ ToSet(Append(queue[t], d0)) = ToSet(queue[t]) \cup {d0}
        /\ Single(queue[t]) => Single(Append(queue[t], d0))
        /\ Len(queue[t]) \in Nat
    <2>1. /\ queue[t] \in Seq(Items \cup {End}) /\ d0 \in Items \cup {End}
          /\ d0 \notin ToSet(queue[t])
      BY <1>0, <1>1, <1>3, <1>8
    <2> HIDE DEF d0, t
    <2> QED
      BY <2>1, Appended
  <1> HIDE DEF d0, t
  <1>10. \A r \in Stages : queue'[r] = IF r = t THEN Append(queue[t], d0) ELSE queue[r]
    BY <1>1
  <1>11. CarrierTypes'
    <2>1. QueueSize \in Nat
      BY StagesAssumption
    <2>2. queue' \in [Stages -> Seq(Items \cup {End})]
      BY <1>1, <1>9
    <2>3. \A r \in Stages : Len(queue'[r]) <= QueueSize
      BY <1>1, <1>9, <1>10, <2>1 DEF Placed, CarrierTypes
    <2> QED
      BY <1>1, <2>2, <2>3 DEF Placed, CarrierTypes
  <1>12. Singles'
    BY <1>1, <1>9, <1>10 DEF Placed, Singles
  <1>13. Moved({d0}, "queue", t, {})
    <2>1. Pending' = Pending
      BY <1>1 DEF Pending
    <2>2. ASSUME NEW d \in Items, NEW r \in Stages
          PROVE  /\ d \in ToSet(queue'[r]) <=>
                       IF d \in {d0} THEN r = t ELSE d \in ToSet(queue[r])
                 /\ held'[r] = d <=> d \notin {d0} /\ held[r] = d
                 /\ d \in ToSet(batch'[r]) <=> d \notin {d0} /\ d \in ToSet(batch[r])
                 /\ d \in ToSet(out'[r]) <=> d \notin {d0} /\ d \in ToSet(out[r])
                 /\ d \in Pending' <=> d \notin {d0} /\ d \in Pending
      BY <1>1, <1>8, <1>9, <1>10, <2>1
    <2>3. "queue" \in Carriers
      BY DEF Carriers
    <2>d. \A d \in Items, r \in Stages : Described({d0}, "queue", t, {}, d, r)
      BY <2>2, <2>3 DEF Described
    <2> QED
      BY <2>d, <2>2, <2>3, Piecewise
  <1> QED
    BY <1>3, <1>5, <1>6, <1>7, <1>11, <1>12, <1>13 DEF d0, t

\* The end marker is no item: nothing moves.
LEMMA FinishMoves ==
    ASSUME Placed, NEW s \in Stages \ {EndStage}, Finish(s), End \notin ToSet(queue[s + 1])
    PROVE  CarrierTypes' /\ Singles' /\ Moved({}, "queue", First, {})
  <1> DEFINE t == s + 1
  <1>0. t \in Stages /\ t # s
    BY Order
  <1>1. /\ queue[t] \in Seq(Items \cup {End})
        /\ queue' = [queue EXCEPT ![t] = Append(queue[t], End)]
        /\ held' = held /\ batch' = batch /\ handler' = handler /\ out' = out
        /\ Len(queue[t]) < QueueSize
        /\ queue \in [Stages -> Seq(Items \cup {End})]
    BY <1>0 DEF Finish, Placed, CarrierTypes, HasRoom, batchVars, downloadVars
  <1>2. /\ Append(queue[t], End) \in Seq(Items \cup {End})
        /\ Len(Append(queue[t], End)) = Len(queue[t]) + 1
        /\ ToSet(Append(queue[t], End)) = ToSet(queue[t]) \cup {End}
        /\ Single(queue[t]) => Single(Append(queue[t], End))
        /\ Len(queue[t]) \in Nat
    BY <1>0, <1>1, Appended
  <1> HIDE DEF t
  <1>3. \A r \in Stages : queue'[r] = IF r = t THEN Append(queue[t], End) ELSE queue[r]
    BY <1>1
  <1>4. CarrierTypes'
    <2>1. QueueSize \in Nat
      BY StagesAssumption
    <2>2. queue' \in [Stages -> Seq(Items \cup {End})]
      BY <1>1, <1>2
    <2>3. \A r \in Stages : Len(queue'[r]) <= QueueSize
      BY <1>1, <1>2, <1>3, <2>1 DEF Placed, CarrierTypes
    <2> QED
      BY <1>1, <2>2, <2>3 DEF Placed, CarrierTypes
  <1>5. Singles'
    BY <1>1, <1>2, <1>3 DEF Placed, Singles
  <1>6. Moved({}, "queue", First, {})
    <2>1. Pending' = Pending /\ "queue" \in Carriers
      BY <1>1 DEF Pending, Carriers
    <2>2. End \notin Items
      BY StagesAssumption
    <2>3. \A d \in Items, r \in Stages : d \in ToSet(queue'[r]) <=> d \in ToSet(queue[r])
      BY <1>2, <1>3, <2>2
    <2>d. \A d \in Items, r \in Stages : Described({}, "queue", First, {}, d, r)
      BY <1>1, <2>1, <2>3 DEF Described
    <2> QED
      BY <2>d, <1>1, <2>1, <2>3, Piecewise
  <1> QED
    BY <1>4, <1>5, <1>6

\* The first of a queue, if it is an item, is in that queue.
LEMMA Heads ==
    ASSUME Placed, NEW s \in Stages, queue[s] # <<>>
    PROVE  /\ Head(queue[s]) \in Items \cup {End}
           /\ Tail(queue[s]) \in Seq(Items \cup {End})
           /\ Len(Tail(queue[s])) = Len(queue[s]) - 1 /\ Len(queue[s]) \in Nat
           /\ Len(queue[s]) <= QueueSize
           /\ ToSet(queue[s]) = ToSet(Tail(queue[s])) \cup {Head(queue[s])}
           /\ Single(Tail(queue[s])) /\ Head(queue[s]) \notin ToSet(Tail(queue[s]))
           /\ Head(queue[s]) \in Items => In(Head(queue[s]), "queue", s)
           /\ Head(queue[s]) \in Items => \A r \in Stages :
                 LET d0 == Head(queue[s]) IN
                 /\ d0 \in ToSet(queue[r]) => r = s
                 /\ held[r] # d0 /\ d0 \notin ToSet(batch[r])
                 /\ d0 \notin ToSet(out[r]) /\ d0 \notin Pending
  <1> DEFINE d0 == Head(queue[s])
  <1>1. queue[s] \in Seq(Items \cup {End}) /\ Len(queue[s]) <= QueueSize
        /\ Single(queue[s])
    BY DEF Placed, CarrierTypes, Singles
  <1>2. /\ d0 \in Items \cup {End}
        /\ Tail(queue[s]) \in Seq(Items \cup {End})
        /\ Len(Tail(queue[s])) = Len(queue[s]) - 1 /\ Len(queue[s]) \in Nat
        /\ ToSet(queue[s]) = ToSet(Tail(queue[s])) \cup {d0}
        /\ Single(Tail(queue[s])) /\ d0 \notin ToSet(Tail(queue[s]))
    BY <1>1, Taken1
  <1> HIDE DEF d0
  <1>3. d0 \in Items => In(d0, "queue", s) /\ "queue" \in Carriers
    BY <1>2, Forms DEF Carriers
  <1>4. ASSUME d0 \in Items
        PROVE  \A r \in Stages : /\ d0 \in ToSet(queue[r]) => r = s
                                 /\ held[r] # d0 /\ d0 \notin ToSet(batch[r])
                                 /\ d0 \notin ToSet(out[r]) /\ d0 \notin Pending
    <2>1. Alone
      BY DEF Placed
    <2> QED
      BY <1>3, <1>4, <2>1, Only
  <1> QED
    BY <1>1, <1>2, <1>3, <1>4 DEF d0

\* A listener takes the first of its queue.
LEMMA ListenMoves ==
    ASSUME Placed, NEW s \in Stages, Listen(s)
    PROVE  /\ CarrierTypes' /\ Singles'
           /\ Moved({Head(queue[s])} \cap Items, "held", s, {})
           /\ \A d \in {Head(queue[s])} \cap Items : In(d, "queue", s)
  <1> DEFINE d0 == Head(queue[s])
             q1 == Tail(queue[s])
  <1>1. /\ queue[s] # <<>> /\ held[s] = Nothing
        /\ queue' = [queue EXCEPT ![s] = q1] /\ held' = [held EXCEPT ![s] = d0]
        /\ batch' = batch /\ out' = out /\ handler' = handler
        /\ queue \in [Stages -> Seq(Items \cup {End})]
        /\ held \in [Stages -> Items \cup {End, Nothing}]
    BY DEF Listen, Placed, CarrierTypes, downloadVars
  <1>2. /\ d0 \in Items \cup {End} /\ q1 \in Seq(Items \cup {End})
        /\ Len(q1) = Len(queue[s]) - 1 /\ Len(queue[s]) \in Nat
        /\ Len(queue[s]) <= QueueSize
        /\ ToSet(queue[s]) = ToSet(q1) \cup {d0}
        /\ Single(q1) /\ d0 \notin ToSet(q1)
        /\ d0 \in Items => In(d0, "queue", s)
        /\ d0 \in Items => \A r \in Stages :
              /\ d0 \in ToSet(queue[r]) => r = s
              /\ held[r] # d0 /\ d0 \notin ToSet(batch[r])
              /\ d0 \notin ToSet(out[r]) /\ d0 \notin Pending
    BY <1>1, Heads
  <1> HIDE DEF d0, q1
  <1>3. \A r \in Stages : /\ queue'[r] = IF r = s THEN q1 ELSE queue[r]
                          /\ held'[r] = IF r = s THEN d0 ELSE held[r]
    BY <1>1
  <1>4. CarrierTypes'
    <2>1. QueueSize \in Nat
      BY StagesAssumption
    <2>2. queue' \in [Stages -> Seq(Items \cup {End})]
          /\ held' \in [Stages -> Items \cup {End, Nothing}]
      BY <1>1, <1>2
    <2>3. \A r \in Stages : Len(queue'[r]) <= QueueSize
      BY <1>1, <1>2, <1>3, <2>1 DEF Placed, CarrierTypes
    <2> QED
      BY <1>1, <2>2, <2>3 DEF Placed, CarrierTypes
  <1>5. Singles'
    BY <1>1, <1>2, <1>3 DEF Placed, Singles
  <1>6. Moved({d0} \cap Items, "held", s, {})
    <2>1. Pending' = Pending /\ "held" \in Carriers
      BY <1>1 DEF Pending, Carriers
    <2>2. End \notin Items /\ Nothing \notin Items
      BY StagesAssumption
    <2>3. ASSUME NEW d \in Items, NEW r \in Stages
          PROVE  /\ d \in ToSet(queue'[r]) <=> d # d0 /\ d \in ToSet(queue[r])
                 /\ held'[r] = d <=> IF d = d0 THEN r = s ELSE held[r] = d
                 /\ d \in ToSet(batch'[r]) <=> d # d0 /\ d \in ToSet(batch[r])
                 /\ d \in ToSet(out'[r]) <=> d # d0 /\ d \in ToSet(out[r])
                 /\ d \in Pending' <=> d # d0 /\ d \in Pending
      BY <1>1, <1>2, <1>3, <2>1, <2>2
    <2>d. \A d \in Items, r \in Stages : Described({d0} \cap Items, "held", s, {}, d, r)
      BY <2>1, <2>3 DEF Described
    <2> QED
      BY <2>d, <2>1, <2>3, Piecewise
  <1> QED
    BY <1>2, <1>4, <1>5, <1>6 DEF d0

\* EndStage drops the first of its queue.
LEMMA DrainMoves ==
    ASSUME Placed, NEW s \in Stages, Drain(s)
    PROVE  /\ CarrierTypes' /\ Singles'
           /\ Moved({}, "queue", First, {Head(queue[s])})
           /\ \A d \in {Head(queue[s])} \cap Items : In(d, "queue", s)
  <1> DEFINE d0 == Head(queue[s])
             q1 == Tail(queue[s])
  <1>1. /\ queue[s] # <<>> /\ queue' = [queue EXCEPT ![s] = q1]
        /\ batch' = batch /\ out' = out /\ handler' = handler /\ held' = held
        /\ queue \in [Stages -> Seq(Items \cup {End})]
    BY DEF Drain, Placed, CarrierTypes, batchVars, downloadVars
  <1>2. /\ d0 \in Items \cup {End} /\ q1 \in Seq(Items \cup {End})
        /\ Len(q1) = Len(queue[s]) - 1 /\ Len(queue[s]) \in Nat
        /\ Len(queue[s]) <= QueueSize
        /\ ToSet(queue[s]) = ToSet(q1) \cup {d0}
        /\ Single(q1) /\ d0 \notin ToSet(q1)
        /\ d0 \in Items => In(d0, "queue", s)
        /\ d0 \in Items => \A r \in Stages :
              /\ d0 \in ToSet(queue[r]) => r = s
              /\ held[r] # d0 /\ d0 \notin ToSet(batch[r])
              /\ d0 \notin ToSet(out[r]) /\ d0 \notin Pending
    BY <1>1, Heads
  <1> HIDE DEF d0, q1
  <1>3. \A r \in Stages : queue'[r] = IF r = s THEN q1 ELSE queue[r]
    BY <1>1
  <1>4. CarrierTypes'
    <2>1. QueueSize \in Nat
      BY StagesAssumption
    <2>2. queue' \in [Stages -> Seq(Items \cup {End})]
      BY <1>1, <1>2
    <2>3. \A r \in Stages : Len(queue'[r]) <= QueueSize
      BY <1>1, <1>2, <1>3, <2>1 DEF Placed, CarrierTypes
    <2> QED
      BY <1>1, <2>2, <2>3 DEF Placed, CarrierTypes
  <1>5. Singles'
    BY <1>1, <1>2, <1>3 DEF Placed, Singles
  <1>6. Moved({}, "queue", First, {d0})
    <2>1. Pending' = Pending /\ "queue" \in Carriers
      BY <1>1 DEF Pending, Carriers
    <2>3. ASSUME NEW d \in Items, NEW r \in Stages
          PROVE  /\ d \in ToSet(queue'[r]) <=> d # d0 /\ d \in ToSet(queue[r])
                 /\ held'[r] = d <=> d # d0 /\ held[r] = d
                 /\ d \in ToSet(batch'[r]) <=> d # d0 /\ d \in ToSet(batch[r])
                 /\ d \in ToSet(out'[r]) <=> d # d0 /\ d \in ToSet(out[r])
                 /\ d \in Pending' <=> d # d0 /\ d \in Pending
      BY <1>1, <1>2, <1>3, <2>1
    <2>d. \A d \in Items, r \in Stages : Described({}, "queue", First, {d0}, d, r)
      BY <2>1, <2>3 DEF Described
    <2> QED
      BY <2>d, <2>1, <2>3, Piecewise
  <1> QED
    BY <1>2, <1>4, <1>5, <1>6 DEF d0

\* The resolver takes the first of its queue.
LEMMA ResolveMoves ==
    ASSUME Placed, NEW s \in Stages, ResolveFuture(s), out[s] = <<>>
    PROVE  /\ CarrierTypes' /\ Singles'
           /\ Moved({Head(queue[s])} \cap Items, "out", s, {})
           /\ \A d \in {Head(queue[s])} \cap Items : In(d, "queue", s)
  <1> DEFINE d0 == Head(queue[s])
             q1 == Tail(queue[s])
  <1>0. End \notin Items
    BY StagesAssumption
  <1>1. /\ queue[s] # <<>>
        /\ queue' = [queue EXCEPT ![s] = q1]
        /\ IF d0 = End THEN out' = out ELSE out' = [out EXCEPT ![s] = <<d0>>]
        /\ batch' = batch /\ held' = held /\ handler' = handler
        /\ queue \in [Stages -> Seq(Items \cup {End})] /\ out \in [Stages -> Seq(Items)]
    BY DEF ResolveFuture, Placed, CarrierTypes, downloadVars, batchVars
  <1>2. /\ d0 \in Items \cup {End} /\ q1 \in Seq(Items \cup {End})
        /\ Len(q1) = Len(queue[s]) - 1 /\ Len(queue[s]) \in Nat
        /\ Len(queue[s]) <= QueueSize
        /\ ToSet(queue[s]) = ToSet(q1) \cup {d0}
        /\ Single(q1) /\ d0 \notin ToSet(q1)
        /\ d0 \in Items => In(d0, "queue", s)
        /\ d0 \in Items => \A r \in Stages :
              /\ d0 \in ToSet(queue[r]) => r = s
              /\ held[r] # d0 /\ d0 \notin ToSet(batch[r])
              /\ d0 \notin ToSet(out[r]) /\ d0 \notin Pending
    BY <1>1, Heads
  <1>3. /\ d0 \in Items => <<d0>> \in Seq(Items) /\ ToSet(<<d0>>) = {d0} /\ Single(<<d0>>)
        /\ ToSet(out[s]) = {}
    BY Units
  <1> HIDE DEF d0, q1
  <1>4. /\ \A r \in Stages : queue'[r] = IF r = s THEN q1 ELSE queue[r]
        /\ \A r \in Stages : out'[r] = IF d0 \in Items /\ r = s THEN <<d0>> ELSE out[r]
    BY <1>0, <1>1, <1>2
  <1>5. CarrierTypes'
    <2>1. QueueSize \in Nat
      BY StagesAssumption
    <2>2. queue' \in [Stages -> Seq(Items \cup {End})] /\ out' \in [Stages -> Seq(Items)]
      BY <1>0, <1>1, <1>2, <1>3
    <2>3. \A r \in Stages : Len(queue'[r]) <= QueueSize
      BY <1>1, <1>2, <1>4, <2>1 DEF Placed, CarrierTypes
    <2> QED
      BY <1>1, <2>2, <2>3 DEF Placed, CarrierTypes
  <1>6. Singles'
    BY <1>1, <1>2, <1>3, <1>4 DEF Placed, Singles
  <1>7. Moved({d0} \cap Items, "out", s, {})
    <2>1. Pending' = Pending /\ "out" \in Carriers
      BY <1>1 DEF Pending, Carriers
    <2>2. ASSUME NEW d \in Items, NEW r \in Stages
          PROVE  /\ d \in ToSet(queue'[r]) <=> d # d0 /\ d \in ToSet(queue[r])
                 /\ held'[r] = d <=> d # d0 /\ held[r] = d
                 /\ d \in ToSet(batch'[r]) <=> d # d0 /\ d \in ToSet(batch[r])
                 /\ d \in ToSet(out'[r]) <=> IF d = d0 THEN r = s ELSE d \in ToSet(out[r])
                 /\ d \in Pending' <=> d # d0 /\ d \in Pending
      BY <1>1, <1>2, <1>3, <1>4, <2>1
    <2>d. \A d \in Items, r \in Stages : Described({d0} \cap Items, "out", s, {}, d, r)
      BY <2>1, <2>2 DEF Described
    <2> QED
      BY <2>d, <2>1, <2>2, Piecewise
  <1> QED
    BY <1>2, <1>5, <1>6, <1>7 DEF d0

\* The downloader starts a task for the first of its queue.
LEMMA GetNextMoves ==
    ASSUME Placed, GetNext(Downloader)
    PROVE  /\ CarrierTypes' /\ Singles'
           /\ Moved({Head(queue[Downloader])} \cap Items, "task", Downloader, {})
           /\ \A d \in {Head(queue[Downloader])} \cap Items : In(d, "queue", Downloader)
  <1> DEFINE s == Downloader
             d0 == Head(queue[s])
             q1 == Tail(queue[s])
  <1>0. End \notin Items /\ s \in Stages
    BY StagesAssumption, Order
  <1>1. /\ queue[s] # <<>>
        /\ queue' = [queue EXCEPT ![s] = q1]
        /\ IF d0 = End THEN handler' = handler ELSE handler' = [handler EXCEPT ![d0] = "try"]
        /\ batch' = batch /\ held' = held /\ out' = out
        /\ queue \in [Stages -> Seq(Items \cup {End})] /\ handler \in [Items -> Handlers]
    BY DEF GetNext, Placed, CarrierTypes
  <1>2. /\ d0 \in Items \cup {End} /\ q1 \in Seq(Items \cup {End})
        /\ Len(q1) = Len(queue[s]) - 1 /\ Len(queue[s]) \in Nat
        /\ Len(queue[s]) <= QueueSize
        /\ ToSet(queue[s]) = ToSet(q1) \cup {d0}
        /\ Single(q1) /\ d0 \notin ToSet(q1)
        /\ d0 \in Items => In(d0, "queue", s)
        /\ d0 \in Items => \A r \in Stages :
              /\ d0 \in ToSet(queue[r]) => r = s
              /\ held[r] # d0 /\ d0 \notin ToSet(batch[r])
              /\ d0 \notin ToSet(out[r]) /\ d0 \notin Pending
    BY <1>0, <1>1, Heads
  <1> HIDE DEF d0, q1
  <1>3. \A r \in Stages : queue'[r] = IF r = s THEN q1 ELSE queue[r]
    BY <1>1
  <1>4. /\ handler' \in [Items -> Handlers]
        /\ \A d \in Items : handler'[d] = IF d = d0 THEN "try" ELSE handler[d]
    BY <1>0, <1>1, <1>2 DEF Handlers
  <1>5. CarrierTypes'
    <2>1. QueueSize \in Nat
      BY StagesAssumption
    <2>2. queue' \in [Stages -> Seq(Items \cup {End})]
      BY <1>1, <1>2
    <2>3. \A r \in Stages : Len(queue'[r]) <= QueueSize
      BY <1>1, <1>2, <1>3, <2>1 DEF Placed, CarrierTypes
    <2> QED
      BY <1>1, <1>4, <2>2, <2>3 DEF Placed, CarrierTypes
  <1>6. Singles'
    BY <1>1, <1>2, <1>3 DEF Placed, Singles
  <1>7. Moved({d0} \cap Items, "task", s, {})
    <2>1. "task" \in Carriers
      BY DEF Carriers
    <2>2. \A d \in Items : d \in Pending' <=> d = d0 \/ d \in Pending
      BY <1>4 DEF Pending
    <2>3. ASSUME NEW d \in Items, NEW r \in Stages
          PROVE  /\ d \in ToSet(queue'[r]) <=> d # d0 /\ d \in ToSet(queue[r])
                 /\ held'[r] = d <=> d # d0 /\ held[r] = d
                 /\ d \in ToSet(batch'[r]) <=> d # d0 /\ d \in ToSet(batch[r])
                 /\ d \in ToSet(out'[r]) <=> d # d0 /\ d \in ToSet(out[r])
      BY <1>1, <1>2, <1>3
    <2>d. \A d \in Items, r \in Stages : Described({d0} \cap Items, "task", s, {}, d, r)
      BY <2>1, <2>2, <2>3 DEF Described
    <2> QED
      BY <2>d, <2>1, <2>2, <2>3, Piecewise
  <1> QED
    BY <1>2, <1>5, <1>6, <1>7 DEF d0

\* A task of the downloader puts its item into the next queue.
LEMMA PutDownloadedMoves ==
    ASSUME Placed, NEW d0 \in Items, PutDownloaded(Downloader, d0)
    PROVE  /\ CarrierTypes' /\ Singles' /\ Moved({d0}, "queue", Downloader + 1, {})
           /\ In(d0, "task", Downloader)
  <1> DEFINE s == Downloader
             t == s + 1
  <1>0. t \in Stages /\ s \in Stages /\ t # s
    BY Order
  <1>1. /\ handler[d0] = "put"
        /\ queue[t] \in Seq(Items \cup {End})
        /\ queue' = [queue EXCEPT ![t] = Append(queue[t], d0)]
        /\ held' = held /\ batch' = batch /\ out' = out
        /\ handler' = [handler EXCEPT ![d0] = "done"]
        /\ Len(queue[t]) < QueueSize
        /\ queue \in [Stages -> Seq(Items \cup {End})] /\ handler \in [Items -> Handlers]
    BY <1>0 DEF PutDownloaded, Placed, CarrierTypes, HasRoom, batchVars
  <1>2. d0 \in Pending
    BY <1>1 DEF Pending
  <1>3. In(d0, "task", s) /\ "task" \in Carriers /\ "queue" \in Carriers
    BY <1>0, <1>2, Forms DEF Carriers
  <1>4. \A r \in Stages : /\ d0 \notin ToSet(queue[r]) /\ held[r] # d0
                          /\ d0 \notin ToSet(batch[r]) /\ d0 \notin ToSet(out[r])
    <2>1. Alone
      BY DEF Placed
    <2> QED
      BY <1>0, <1>3, <2>1, Only
  <1>5. /\ Append(queue[t], d0) \in Seq(Items \cup {End})
        /\ Len(Append(queue[t], d0)) = Len(queue[t]) + 1
        /\ ToSet(Append(queue[t], d0)) = ToSet(queue[t]) \cup {d0}
        /\ Single(queue[t]) => Single(Append(queue[t], d0))
        /\ Len(queue[t]) \in Nat
    BY <1>0, <1>1, <1>4, Appended
  <1> HIDE DEF t
  <1>6. /\ \A r \in Stages : queue'[r] = IF r = t THEN Append(queue[t], d0) ELSE queue[r]
        /\ \A d \in Items : handler'[d] = IF d = d0 THEN "done" ELSE handler[d]
    BY <1>1
  <1>7. CarrierTypes'
    <2>1. QueueSize \in Nat
      BY StagesAssumption
    <2>2. queue' \in [Stages -> Seq(Items \cup {End})] /\ handler' \in [Items -> Handlers]
      BY <1>1, <1>5 DEF Handlers
    <2>3. \A r \in Stages : Len(queue'[r]) <= QueueSize
      BY <1>1, <1>5, <1>6, <2>1 DEF Placed, CarrierTypes
    <2> QED
      BY <1>1, <2>2, <2>3 DEF Placed, CarrierTypes
  <1>8. Singles'
    BY <1>1, <1>4, <1>5, <1>6 DEF Placed, Singles
  <1>9. Moved({d0}, "queue", t, {})
    <2>1. \A d \in Items : d \in Pending' <=> d # d0 /\ d \in Pending
      BY <1>1, <1>6 DEF Pending
    <2>2. ASSUME NEW d \in Items, NEW r \in Stages
          PROVE  /\ d \in ToSet(queue'[r]) <=>
                       IF d \in {d0} THEN r = t ELSE d \in ToSet(queue[r])
                 /\ held'[r] = d <=> d \notin {d0} /\ held[r] = d
                 /\ d \in ToSet(batch'[r]) <=> d \notin {d0} /\ d \in ToSet(batch[r])
                 /\ d \in ToSet(out'[r]) <=> d \notin {d0} /\ d \in ToSet(out[r])
      BY <1>1, <1>4, <1>5, <1>6
    <2>d. \A d \in Items, r \in Stages : Described({d0}, "queue", t, {}, d, r)
      BY <1>3, <2>1, <2>2 DEF Described
    <2> QED
      BY <2>d, <1>3, <2>1, <2>2, Piecewise
  <1> QED
    BY <1>3, <1>7, <1>8, <1>9 DEF t

\* Tasks of the downloader that are stopped drop their items.
LEMMA StopMoves ==
    ASSUME Placed, UNCHANGED <<queue, held, batch, out>>,
           handler' \in [Items -> Handlers],
           NEW D \in SUBSET Pending, Pending' = Pending \ D
    PROVE  /\ CarrierTypes' /\ Singles' /\ Moved({}, "queue", First, D)
           /\ \A d \in D : In(d, "task", Downloader)
  <1>1. CarrierTypes'
    BY DEF Placed, CarrierTypes
  <1>2. Singles'
    BY DEF Placed, Singles
  <1>3. Downloader \in Stages /\ D \subseteq Items
    BY Order DEF Pending
  <1>4. \A d \in D : In(d, "task", Downloader) /\ "task" \in Carriers
    BY <1>3, Forms DEF Carriers
  <1>5. ASSUME NEW d \in D
        PROVE  \A r \in Stages : /\ d \notin ToSet(queue[r]) /\ held[r] # d
                                 /\ d \notin ToSet(batch[r]) /\ d \notin ToSet(out[r])
    <2>1. Alone /\ d \in Items /\ In(d, "task", Downloader) /\ "task" \in Carriers
      BY <1>3, <1>4 DEF Placed
    <2> QED
      BY <1>3, <2>1, Only
  <1>6. Moved({}, "queue", First, D)
    <2>1. "queue" \in Carriers
      BY DEF Carriers
    <2>d. \A d \in Items, r \in Stages : Described({}, "queue", First, D, d, r)
      BY <1>5, <2>1 DEF Described
    <2> QED
      BY <2>d, <1>5, <2>1, Piecewise
  <1> QED
    BY <1>1, <1>2, <1>4, <1>6

\* What batches() takes: the item of its listener and those of the queue, each
\* once, the end marker last.
LEMMA TakenAll ==
    ASSUME Placed, Ending, NEW s \in Stages
    PROVE  /\ Taken(s) \in Seq(Items \cup {End}) /\ Single(Taken(s))
           /\ \A i \in DOMAIN Taken(s) : Taken(s)[i] = End => i = Len(Taken(s))
           /\ \A x \in Items \cup {End} :
                 x \in ToSet(Taken(s)) <=> x \in ToSet(queue[s]) \/ held[s] = x
  <1> DEFINE S == Items \cup {End}
  <1>1. /\ queue[s] \in Seq(S) /\ Single(queue[s]) /\ held[s] \in S \cup {Nothing}
        /\ \A i \in DOMAIN queue[s] : queue[s][i] = End => i = Len(queue[s])
        /\ held[s] = End => queue[s] = <<>>
        /\ Nothing \notin S /\ End \notin Items
    BY StagesAssumption DEF Placed, CarrierTypes, Singles, Ending
  <1>2. CASE held[s] = Nothing
    <2>1. Taken(s) = queue[s]
      BY <1>1, <1>2, ConcatEmptySeq DEF Taken
    <2> QED
      BY <1>1, <1>2, <2>1
  <1>3. CASE held[s] = End
    <2>1. Taken(s) = <<End>>
      <3>1. <<End>> \in Seq(S)
        BY Units
      <3> QED
        BY <1>1, <1>3, <3>1, ConcatEmptySeq DEF Taken
    <2>2. /\ <<End>> \in Seq(S) /\ Len(<<End>>) = 1 /\ ToSet(<<End>>) = {End}
          /\ Single(<<End>>) /\ ToSet(queue[s]) = {}
      BY <1>1, <1>3, Units
    <2>3. DOMAIN <<End>> = 1 .. 1
      BY <2>2, LenProperties
    <2> QED
      BY <1>3, <2>1, <2>2, <2>3
  <1>4. CASE held[s] \in Items
    <2> DEFINE h == <<held[s]>>
               a == h \o queue[s]
    <2>1. /\ h \in Seq(S) /\ Len(h) = 1 /\ ToSet(h) = {held[s]} /\ Single(h)
          /\ h[1] = held[s]
      BY <1>4, Units
    <2>2. Taken(s) = a
      BY <1>1, <1>4 DEF Taken
    <2>3. held[s] \notin ToSet(queue[s])
      <3>1. In(held[s], "held", s) /\ "held" \in Carriers /\ Alone
        BY <1>4, Forms DEF Carriers, Placed
      <3> QED
        BY <1>4, <3>1, Only
    <2> HIDE DEF h, S
    <2>4. /\ a \in Seq(S) /\ Len(a) = 1 + Len(queue[s])
          /\ ToSet(a) = {held[s]} \cup ToSet(queue[s]) /\ Single(a)
      <3>1. /\ a \in Seq(S) /\ Len(a) = Len(h) + Len(queue[s])
            /\ ToSet(a) = ToSet(h) \cup ToSet(queue[s])
            /\ Single(h) /\ Single(queue[s]) /\ ToSet(h) \cap ToSet(queue[s]) = {}
               => Single(a)
        <4>1. queue[s] \in Seq(S) /\ h \in Seq(S)
          BY <1>1, <2>1
        <4> QED
          BY <4>1, Joined
      <3>2. ToSet(h) \cap ToSet(queue[s]) = {}
        BY <2>1, <2>3
      <3> QED
        BY <1>1, <2>1, <3>1, <3>2
    <2>5. \A i \in 1 .. 1 + Len(queue[s]) :
             a[i] = IF i <= 1 THEN h[i] ELSE queue[s][i - 1]
      <3>1. \A i \in 1 .. Len(h) + Len(queue[s]) :
               a[i] = IF i <= Len(h) THEN h[i] ELSE queue[s][i - Len(h)]
        <4>1. queue[s] \in Seq(S) /\ h \in Seq(S)
          BY <1>1, <2>1
        <4> QED
          BY <4>1, ConcatProperties, Zenon
      <3> HIDE DEF a
      <3> QED
        BY <2>1, <3>1
    <2>6. /\ DOMAIN a = 1 .. 1 + Len(queue[s]) /\ DOMAIN queue[s] = 1 .. Len(queue[s])
          /\ Len(queue[s]) \in Nat
      BY <1>1, <2>4, LenProperties
    <2> HIDE DEF a
    <2>7. ASSUME NEW i \in DOMAIN a, a[i] = End
          PROVE  i = Len(a)
      <3>1. i # 1
        BY <1>1, <1>4, <2>1, <2>5, <2>6, <2>7
      <3>2. i - 1 \in DOMAIN queue[s] /\ queue[s][i - 1] = End
        BY <2>5, <2>6, <2>7, <3>1
      <3> QED
        BY <1>1, <2>4, <2>6, <3>2
    <2>8. \A x \in S : x \in ToSet(Taken(s)) <=> x \in ToSet(queue[s]) \/ held[s] = x
      BY <2>2, <2>4
    <2> QED
      BY <2>2, <2>4, <2>7, <2>8 DEF S
  <1> QED
    BY <1>1, <1>2, <1>3, <1>4

\* batches() moves all that has come into the batch.
LEMMA CollectMoves ==
    ASSUME Placed, Ending, NEW s \in Stages, Collect(s)
    PROVE  /\ CarrierTypes' /\ Singles'
           /\ Moved({d \in Items : d \in ToSet(queue[s]) \/ held[s] = d}, "batch", s, {})
           /\ \A d \in {e \in Items : e \in ToSet(queue[s]) \/ held[s] = e} :
                 In(d, "queue", s) \/ In(d, "held", s)
  <1> DEFINE M == {d \in Items : d \in ToSet(queue[s]) \/ held[s] = d}
             w == WithoutEnd(Taken(s))
             a == batch[s] \o w
  <1>1. /\ queue' = [queue EXCEPT ![s] = <<>>] /\ held' = [held EXCEPT ![s] = Nothing]
        /\ batch' = [batch EXCEPT ![s] = a]
        /\ out' = out /\ handler' = handler
        /\ queue \in [Stages -> Seq(Items \cup {End})]
        /\ held \in [Stages -> Items \cup {End, Nothing}]
        /\ batch \in [Stages -> Seq(Items)]
    BY DEF Collect, Placed, CarrierTypes, downloadVars
  <1>2. /\ Taken(s) \in Seq(Items \cup {End}) /\ Single(Taken(s))
        /\ \A i \in DOMAIN Taken(s) : Taken(s)[i] = End => i = Len(Taken(s))
        /\ \A x \in Items \cup {End} :
              x \in ToSet(Taken(s)) <=> x \in ToSet(queue[s]) \/ held[s] = x
    BY TakenAll
  <1>3. w \in Seq(Items) /\ ToSet(w) = ToSet(Taken(s)) \ {End} /\ Single(w)
    BY <1>2, Stripped
  <1> HIDE DEF w
  <1>4. \A d \in Items : d \in ToSet(w) <=> d \in M
    BY <1>2, <1>3, StagesAssumption
  <1>5. \A d \in M : In(d, "queue", s) \/ In(d, "held", s)
    BY Forms
  <1>6. ASSUME NEW d \in M
        PROVE  \A r \in Stages : /\ d \in ToSet(queue[r]) => r = s
                                 /\ held[r] = d => r = s
                                 /\ d \notin ToSet(batch[r]) /\ d \notin ToSet(out[r])
                                 /\ d \notin Pending
    <2>1. Alone /\ "queue" \in Carriers /\ "held" \in Carriers /\ d \in Items
      BY DEF Placed, Carriers
    <2>2. CASE In(d, "queue", s)
      BY <2>1, <2>2, Only
    <2>3. CASE In(d, "held", s)
      BY <2>1, <2>3, Only
    <2> QED
      BY <1>5, <2>2, <2>3
  <1>7. batch[s] \in Seq(Items) /\ Single(batch[s])
    BY <1>1 DEF Placed, Singles
  <1>8. ToSet(batch[s]) \cap ToSet(w) = {}
    <2>1. \A x \in ToSet(w) : x \in Items
      BY <1>3, ElementOfSeq, LenProperties DEF ToSet
    <2> QED
      BY <1>4, <1>6, <2>1
  <1>9. a \in Seq(Items) /\ ToSet(a) = ToSet(batch[s]) \cup ToSet(w) /\ Single(a)
    BY <1>3, <1>7, <1>8, Joined
  <1> HIDE DEF a, M
  <1>10. \A r \in Stages : /\ queue'[r] = IF r = s THEN <<>> ELSE queue[r]
                           /\ held'[r] = IF r = s THEN Nothing ELSE held[r]
                           /\ batch'[r] = IF r = s THEN a ELSE batch[r]
    BY <1>1
  <1>11. /\ <<>> \in Seq(Items \cup {End}) /\ Len(<<>>) = 0 /\ ToSet(<<>>) = {}
         /\ Single(<<>>)
    BY Units
  <1>12. CarrierTypes'
    <2>1. QueueSize \in Nat
      BY StagesAssumption
    <2>2. /\ queue' \in [Stages -> Seq(Items \cup {End})]
          /\ held' \in [Stages -> Items \cup {End, Nothing}]
          /\ batch' \in [Stages -> Seq(Items)]
      BY <1>1, <1>9, <1>11
    <2>3. \A r \in Stages : Len(queue'[r]) <= QueueSize
      BY <1>1, <1>10, <1>11, <2>1 DEF Placed, CarrierTypes
    <2> QED
      BY <1>1, <2>2, <2>3 DEF Placed, CarrierTypes
  <1>13. Singles'
    BY <1>1, <1>9, <1>10, <1>11 DEF Placed, Singles
  <1>14. Moved(M, "batch", s, {})
    <2>1. Pending' = Pending /\ "batch" \in Carriers
      BY <1>1 DEF Pending, Carriers
    <2>2. \A d \in Items : d \in M <=> d \in ToSet(queue[s]) \/ held[s] = d
      BY DEF M
    <2>3. Nothing \notin Items
      BY StagesAssumption
    <2>4. ASSUME NEW d \in Items, NEW r \in Stages
          PROVE  /\ d \in ToSet(queue'[r]) <=> d \notin M /\ d \in ToSet(queue[r])
                 /\ held'[r] = d <=> d \notin M /\ held[r] = d
                 /\ d \in ToSet(batch'[r]) <=> IF d \in M THEN r = s ELSE d \in ToSet(batch[r])
                 /\ d \in ToSet(out'[r]) <=> d \notin M /\ d \in ToSet(out[r])
                 /\ d \in Pending' <=> d \notin M /\ d \in Pending
      BY <1>1, <1>4, <1>6, <1>9, <1>10, <1>11, <2>1, <2>2, <2>3
    <2>d. \A d \in Items, r \in Stages : Described(M, "batch", s, {}, d, r)
      BY <2>1, <2>4 DEF Described
    <2> QED
      BY <2>d, <2>1, <2>4, Piecewise
  <1> QED
    BY <1>5, <1>12, <1>13, <1>14 DEF M

\* A stage hands on all of its batch.
LEMMA HandsMoves ==
    ASSUME Placed, NEW s \in Stages, NEW items \in Seq(Items), Hands(s, items),
           ToSet(items) = ToSet(batch[s]), Single(items), out[s] = <<>>,
           handler' \in [Items -> Handlers], Pending' = Pending
    PROVE  /\ CarrierTypes' /\ Singles' /\ Moved(ToSet(batch[s]), "out", s, {})
           /\ ToSet(batch[s]) \subseteq Items
           /\ \A d \in ToSet(batch[s]) : In(d, "batch", s)
  <1> DEFINE M == ToSet(batch[s])
  <1>1. /\ batch' = [batch EXCEPT ![s] = <<>>] /\ out' = [out EXCEPT ![s] = items]
        /\ queue' = queue /\ held' = held
        /\ batch \in [Stages -> Seq(Items)] /\ out \in [Stages -> Seq(Items)]
    BY DEF Hands, Placed, CarrierTypes
  <1>2. M \subseteq Items
    BY <1>1, ElementOfSeq, LenProperties DEF ToSet
  <1>3. \A d \in M : In(d, "batch", s)
    BY <1>2, Forms
  <1>4. \A d \in M, r \in Stages : /\ d \notin ToSet(queue[r]) /\ held[r] # d
                                   /\ d \in ToSet(batch[r]) => r = s
                                   /\ d \notin ToSet(out[r]) /\ d \notin Pending
    <2>1. Alone /\ "batch" \in Carriers
      BY DEF Placed, Carriers
    <2> QED
      BY <1>2, <1>3, <2>1, Only
  <1>5. <<>> \in Seq(Items) /\ ToSet(<<>>) = {} /\ Single(<<>>)
    BY Units
  <1>6. \A r \in Stages : /\ batch'[r] = IF r = s THEN <<>> ELSE batch[r]
                          /\ out'[r] = IF r = s THEN items ELSE out[r]
    BY <1>1
  <1>7. CarrierTypes'
    <2>1. batch' \in [Stages -> Seq(Items)] /\ out' \in [Stages -> Seq(Items)]
      BY <1>1, <1>5
    <2> QED
      BY <1>1, <2>1 DEF Placed, CarrierTypes
  <1>8. Singles'
    BY <1>1, <1>5, <1>6 DEF Placed, Singles
  <1>a. M = ToSet(batch[s]) /\ ToSet(items) = M
    OBVIOUS
  <1> HIDE DEF M
  <1>9. Moved(M, "out", s, {})
    <2>1. "out" \in Carriers
      BY DEF Carriers
    <2>2. ASSUME NEW d \in Items, NEW r \in Stages
          PROVE  /\ d \in ToSet(queue'[r]) <=> d \notin M /\ d \in ToSet(queue[r])
                 /\ held'[r] = d <=> d \notin M /\ held[r] = d
                 /\ d \in ToSet(batch'[r]) <=> d \notin M /\ d \in ToSet(batch[r])
                 /\ d \in ToSet(out'[r]) <=> IF d \in M THEN r = s ELSE d \in ToSet(out[r])
                 /\ d \in Pending' <=> d \notin M /\ d \in Pending
      <3> USE <1>1, <1>4, <1>5, <1>6, <1>a
      <3>1. CASE r = s
        BY <3>1, Units
      <3>2. CASE r # s
        BY <3>2
      <3> QED
        BY <3>1, <3>2
    <2>d. \A d \in Items, r \in Stages : Described(M, "out", s, {}, d, r)
      BY <2>1, <2>2 DEF Described
    <2> QED
      BY <2>d, <2>1, <2>2, Piecewise
  <1> QED
    BY <1>2, <1>3, <1>7, <1>8, <1>9 DEF M

\* The association hands on what is new in its batch, and drops the rest.
Fresh(items) == {i \in DOMAIN items : ~Present(items, i)}
FreshOf(s) == {batch[s][i] : i \in Fresh(batch[s])}

\* ContentAssociation takes its batch: what is new goes to the items it has to put, the
\* rest leaves the pipeline.
LEMMA AssociateMoves ==
    ASSUME Placed, NEW s \in Stages, Associate(s), out[s] = <<>>
    PROVE  /\ CarrierTypes' /\ Singles'
           /\ Moved(FreshOf(s), "out", s, ToSet(batch[s]) \ FreshOf(s))
           /\ ToSet(batch[s]) \subseteq Items /\ FreshOf(s) \subseteq ToSet(batch[s])
           /\ \A d \in ToSet(batch[s]) : In(d, "batch", s)
           /\ Fresh(batch[s]) = {} => out'[s] = <<>>
  <1> DEFINE M == ToSet(batch[s])
             F == FreshOf(s)
             new == Fresh(batch[s])
  <1>1. /\ batch' = [batch EXCEPT ![s] = <<>>]
        /\ queue' = queue /\ held' = held /\ handler' = handler
        /\ batch \in [Stages -> Seq(Items)] /\ out \in [Stages -> Seq(Items)]
    BY DEF Associate, Placed, CarrierTypes, downloadVars
  <1>2. PICK order \in SetToSeqs(new) :
           out' = [out EXCEPT ![s] = [i \in DOMAIN order |-> batch[s][order[i]]]]
    BY DEF Associate, Fresh
  <1>3. /\ batch[s] \in Seq(Items) /\ DOMAIN batch[s] = 1 .. Len(batch[s])
        /\ Len(batch[s]) \in Nat /\ \A i \in DOMAIN batch[s] : batch[s][i] \in Items
        /\ Single(batch[s])
    <2>1. batch[s] \in Seq(Items) /\ Single(batch[s])
      BY <1>1 DEF Placed, Singles
    <2> QED
      BY <2>1, LenProperties, ElementOfSeq
  <1>4. IsFiniteSet(new)
    <2>1. IsFiniteSet(1 .. Len(batch[s]))
      BY <1>3, FS_Interval
    <2>2. new \in SUBSET (1 .. Len(batch[s]))
      BY <1>3 DEF Fresh
    <2> QED
      BY <2>1, <2>2, FS_Subset
  <1>5. /\ order \in Seq(new) /\ ToSet(order) = new /\ Single(order)
        /\ DOMAIN order = 1 .. Cardinality(new) /\ Cardinality(new) \in Nat
    BY <1>4, Ordered, FS_CardinalityType
  <1> DEFINE n == Cardinality(new)
             f == [i \in 1 .. n |-> batch[s][order[i]]]
  <1>6. /\ \A i \in 1 .. n : order[i] \in new /\ f[i] = batch[s][order[i]] /\ f[i] \in Items
        /\ \A j \in new : \E i \in 1 .. n : order[i] = j
    BY <1>3, <1>5 DEF ToSet, Fresh
  <1>7. f \in Seq(Items) /\ DOMAIN f = 1 .. n
    <2>1. f \in [1 .. n -> Items]
      BY <1>6
    <2> HIDE DEF f
    <2> QED
      BY <1>5, <2>1, SeqDef
  <1>8. out' = [out EXCEPT ![s] = f]
    BY <1>2, <1>5
  <1> HIDE DEF f, n
  <1>9. \A x : x \in ToSet(f) <=> x \in F
    <2>1. ASSUME NEW x \in ToSet(f) PROVE x \in F
      BY <1>6, <1>7 DEF ToSet, FreshOf
    <2>2. ASSUME NEW x \in F PROVE x \in ToSet(f)
      <3>1. PICK j \in new : x = batch[s][j]
        BY DEF FreshOf
      <3>2. PICK i \in 1 .. n : order[i] = j
        BY <1>6
      <3> QED
        BY <1>6, <1>7, <3>1, <3>2 DEF ToSet
    <2> QED
      BY <2>1, <2>2
  <1>10. Single(f)
    <2> SUFFICES ASSUME NEW i \in 1 .. n, NEW j \in 1 .. n, f[i] = f[j]
                 PROVE  i = j
      BY <1>7 DEF Single
    <2>1. order[i] = order[j]
      BY <1>3, <1>6 DEF Single, Fresh
    <2> QED
      BY <1>5, <2>1 DEF Single, n
  <1>11. M \subseteq Items /\ F \subseteq M
    BY <1>3 DEF ToSet, FreshOf, Fresh
  <1>12. \A d \in M : In(d, "batch", s)
    BY <1>11, Forms
  <1>13. \A d \in M, r \in Stages : /\ d \notin ToSet(queue[r]) /\ held[r] # d
                                    /\ d \in ToSet(batch[r]) => r = s
                                    /\ d \notin ToSet(out[r]) /\ d \notin Pending
    <2>1. Alone /\ "batch" \in Carriers
      BY DEF Placed, Carriers
    <2> QED
      BY <1>11, <1>12, <2>1, Only
  <1>14. <<>> \in Seq(Items) /\ ToSet(<<>>) = {} /\ Single(<<>>)
    BY Units
  <1>15. \A r \in Stages : /\ batch'[r] = IF r = s THEN <<>> ELSE batch[r]
                           /\ out'[r] = IF r = s THEN f ELSE out[r]
    BY <1>1, <1>8
  <1>16. CarrierTypes'
    <2>1. batch' \in [Stages -> Seq(Items)] /\ out' \in [Stages -> Seq(Items)]
      BY <1>1, <1>7, <1>8, <1>14
    <2> QED
      BY <1>1, <2>1 DEF Placed, CarrierTypes
  <1>17. Singles'
    BY <1>1, <1>10, <1>14, <1>15 DEF Placed, Singles
  <1>18. Moved(F, "out", s, M \ F)
    <2>1. Pending' = Pending /\ "out" \in Carriers
      BY <1>1 DEF Pending, Carriers
    <2>a. M = ToSet(batch[s]) /\ ToSet(out[s]) = {}
      BY Units
    <2> HIDE DEF F, M
    <2>2. ASSUME NEW d \in Items, NEW r \in Stages
          PROVE  /\ d \in ToSet(queue'[r]) <=> d \notin M /\ d \in ToSet(queue[r])
                 /\ held'[r] = d <=> d \notin M /\ held[r] = d
                 /\ d \in ToSet(batch'[r]) <=> d \notin M /\ d \in ToSet(batch[r])
                 /\ d \in ToSet(out'[r]) <=>
                        (d \in F /\ r = s) \/ (d \notin M /\ d \in ToSet(out[r]))
                 /\ d \in Pending' <=> d \notin M /\ d \in Pending
      <3> USE <1>1, <1>9, <1>11, <1>13, <1>14, <1>15, <2>1, <2>a
      <3>1. CASE r = s
        BY <3>1
      <3>2. CASE r # s
        BY <3>2
      <3> QED
        BY <3>1, <3>2
    <2> DEFINE D == M \ F
    <2>3. \A d \in Items : d \in M <=> d \in F \/ d \in D
      BY <1>11
    <2>4. \A d \in D : d \notin F
      OBVIOUS
    <2> HIDE DEF D
    <2>d. \A d \in Items, r \in Stages : Described(F, "out", s, D, d, r)
      BY <2>1, <2>2, <2>3, <2>4 DEF Described
    <2>5. Moved(F, "out", s, D)
      BY <2>d, <2>1, <2>2, <2>3, <2>4, Piecewise
    <2> QED
      BY <2>5 DEF D
  <1>19. new = {} => out'[s] = <<>>
    <2> SUFFICES ASSUME new = {} PROVE f = <<>>
      BY <1>15
    <2>1. \A x : x \notin F
      BY DEF FreshOf
    <2>2. ToSet(f) = {}
      BY <1>9, <2>1
    <2>3. f \in Seq(Items)
      BY <1>7
    <2>4. \A q \in Seq(Items) : ToSet(q) = {} => q = <<>>
      BY Units
    <2> QED
      BY <2>2, <2>3, <2>4
  <1> QED
    BY <1>11, <1>12, <1>16, <1>17, <1>18, <1>19

-----------------------------------------------------------------------------
(***************************************************************************)
(* The steps, by what they do to the depths of items.                      *)
(***************************************************************************)
AtStill == \A d \in Items, k \in Depths : At(d, k)' <=> At(d, k)

Steady == CarrierTypes' /\ Singles' /\ Alone' /\ AtStill
Moving(M, n, D) == CarrierTypes' /\ Singles' /\ Alone' /\ Flows(M, n, D)

\* A motion that keeps the depths of what it moves changes no depth.
LEMMA SameDepth ==
    ASSUME Placed, CarrierTypes', Singles',
           NEW M, NEW b \in Carriers, NEW r \in Stages, Moved(M, b, r, {}),
           \A d \in M \cap Items : \E c \in Carriers, s \in Stages :
               In(d, c, s) /\ Reach(c, s) = Reach(b, r)
    PROVE  Steady
  <1>1. Alone' /\ Flows(M, Reach(b, r), {})
    BY Motion DEF Placed
  <1>2. ASSUME NEW d \in Items, NEW k \in Depths
        PROVE  At(d, k)' <=> At(d, k)
    <2>1. CASE d \in M
      <3>1. PICK c \in Carriers, s \in Stages : In(d, c, s) /\ Reach(c, s) = Reach(b, r)
        BY <2>1
      <3>2. At(d, k) <=> k = Reach(b, r)
        BY <3>1, OneDepth DEF Placed
      <3> QED
        BY <1>1, <2>1, <3>2 DEF Flows
    <2>2. CASE d \notin M
      BY <1>1, <2>2 DEF Flows
    <2> QED
      BY <2>1, <2>2
  <1> QED
    BY <1>1, <1>2 DEF Steady, AtStill

\* Where nothing is put or taken, no depth changes.
LEMMA StillStep ==
    ASSUME Placed, UNCHANGED <<queue, held, batch, out>>,
           handler' \in [Items -> Handlers], Pending' = Pending
    PROVE  Steady
  <1>1. CarrierTypes' /\ Singles' /\ Moved({}, "queue", First, {})
    BY StillMoves
  <1>2. First \in Stages /\ "queue" \in Carriers
    BY Order DEF Carriers
  <1> QED
    BY <1>1, <1>2, SameDepth

\* The tasks of the downloader change what they do, and stay.
LEMMA TaskStep ==
    ASSUME Placed, UNCHANGED <<queue, held, batch, out>>,
           NEW d0 \in Items, NEW h \in {"try", "blocked", "load", "put"},
           d0 \in Pending, handler' = [handler EXCEPT ![d0] = h]
    PROVE  Steady
  <1>1. handler' \in [Items -> Handlers]
    BY DEF Placed, CarrierTypes, Handlers
  <1>2. \A d \in Items : handler'[d] = IF d = d0 THEN h ELSE handler[d]
    BY DEF Placed, CarrierTypes
  <1>3. Pending' = Pending
    BY <1>2 DEF Pending
  <1> QED
    BY <1>1, <1>3, StillStep

\* A stage that puts an item into the next queue leaves every item at its depth.
LEMMA PutStep ==
    ASSUME Placed, NEW s \in Stages \ {EndStage}, Put(s)
    PROVE  Steady
  <1>1. /\ CarrierTypes' /\ Singles' /\ Moved({Head(out[s])}, "queue", s + 1, {})
        /\ Head(out[s]) \in Items /\ In(Head(out[s]), "out", s)
    BY PutMoves
  <1>2. s + 1 \in Stages /\ "queue" \in Carriers /\ "out" \in Carriers
    BY Order DEF Carriers
  <1>3. Reach("out", s) = Reach("queue", s + 1)
    BY DEF Reach
  <1> QED
    BY <1>1, <1>2, <1>3, SameDepth

\* So does a stage that puts the end marker,
LEMMA FinishStep ==
    ASSUME Placed, NEW s \in Stages \ {EndStage}, Finish(s), End \notin ToSet(queue[s + 1])
    PROVE  Steady
  <1>1. First \in Stages /\ "queue" \in Carriers
    BY Order DEF Carriers
  <1> QED
    BY <1>1, FinishMoves, SameDepth

\* get_listener of batches(), which takes the head of the queue,
LEMMA ListenStep ==
    ASSUME Placed, NEW s \in Stages, Listen(s)
    PROVE  Steady
  <1>1. /\ CarrierTypes' /\ Singles'
        /\ Moved({Head(queue[s])} \cap Items, "held", s, {})
        /\ \A d \in {Head(queue[s])} \cap Items : In(d, "queue", s)
    BY ListenMoves
  <1>2. "held" \in Carriers /\ "queue" \in Carriers /\ Reach("queue", s) = Reach("held", s)
    BY DEF Carriers, Reach
  <1> QED
    BY <1>1, <1>2, SameDepth

\* batches(), which takes all that has come into its batch,
LEMMA CollectStep ==
    ASSUME Placed, Ending, NEW s \in Stages, Collect(s)
    PROVE  Steady
  <1> DEFINE M == {d \in Items : d \in ToSet(queue[s]) \/ held[s] = d}
  <1>1. /\ CarrierTypes' /\ Singles' /\ Moved(M, "batch", s, {})
        /\ \A d \in M : In(d, "queue", s) \/ In(d, "held", s)
    BY CollectMoves
  <1>2. /\ {"queue", "held", "batch"} \subseteq Carriers
        /\ Reach("queue", s) = Reach("batch", s) /\ Reach("held", s) = Reach("batch", s)
    BY DEF Carriers, Reach
  <1> HIDE DEF M
  <1> QED
    BY <1>1, <1>2, SameDepth

\* and the downloader, which makes a task for the head of its queue.
LEMMA GetNextStep ==
    ASSUME Placed, GetNext(Downloader)
    PROVE  Steady
  <1> DEFINE M == {Head(queue[Downloader])} \cap Items
  <1>1. /\ CarrierTypes' /\ Singles' /\ Moved(M, "task", Downloader, {})
        /\ \A d \in M : In(d, "queue", Downloader)
    BY GetNextMoves
  <1>2. /\ {"queue", "task"} \subseteq Carriers /\ Downloader \in Stages
        /\ Reach("queue", Downloader) = Reach("task", Downloader)
    BY Order DEF Carriers, Reach
  <1> HIDE DEF M
  <1> QED
    BY <1>1, <1>2, SameDepth

\* The first stage puts an item that was nowhere into the second queue.
LEMMA FirstPutStep ==
    ASSUME Placed, Unsent, ControlTypes, FirstPut
    PROVE  /\ Moving({Script[pos][2]}, 2, {})
           /\ Script[pos][2] \in Items /\ ~Somewhere(Script[pos][2])
           /\ Sent' = Sent \cup {Script[pos][2]} /\ Script[pos][2] \notin Sent
  <1>1. /\ CarrierTypes' /\ Singles' /\ Moved({Script[pos][2]}, "queue", 2, {})
        /\ Script[pos][2] \in Items /\ ~Somewhere(Script[pos][2])
        /\ Sent' = Sent \cup {Script[pos][2]} /\ Script[pos][2] \notin Sent
    BY FirstPutMoves DEF ControlTypes
  <1>2. 2 \in Stages /\ "queue" \in Carriers /\ Reach("queue", 2) = 2
    BY Order DEF Carriers, Reach
  <1> QED
    BY <1>1, <1>2, Motion DEF Placed, Moving

\* A stage that handles its batch takes all items of it one stage further.
LEMMA HandsStep ==
    ASSUME Placed, NEW s \in Stages, NEW items \in Seq(Items), Hands(s, items),
           ToSet(items) = ToSet(batch[s]), Single(items), Empties,
           handler' \in [Items -> Handlers], Pending' = Pending
    PROVE  /\ Moving(ToSet(batch[s]), s + 1, {})
           /\ \A d \in ToSet(batch[s]) : d \in Items /\ At(d, s)
  <1>1. out[s] = <<>>
    BY DEF Hands, Empties, Idling
  <1>2. /\ CarrierTypes' /\ Singles' /\ Moved(ToSet(batch[s]), "out", s, {})
        /\ ToSet(batch[s]) \subseteq Items
        /\ \A d \in ToSet(batch[s]) : In(d, "batch", s)
    BY <1>1, HandsMoves
  <1>3. "out" \in Carriers /\ "batch" \in Carriers /\ Reach("out", s) = s + 1
        /\ Reach("batch", s) = s
    BY DEF Carriers, Reach
  <1>4. \A d \in ToSet(batch[s]) : At(d, s)
    BY <1>2, <1>3, Deep
  <1> QED
    BY <1>2, <1>3, <1>4, Motion DEF Placed, Moving

\* ContentAssociation takes the new items of its batch further, and drops the others.
LEMMA AssociateStep ==
    ASSUME Placed, Empties, NEW s \in Stages, Associate(s)
    PROVE  /\ Moving(FreshOf(s), s + 1, ToSet(batch[s]) \ FreshOf(s))
           /\ FreshOf(s) \subseteq ToSet(batch[s])
           /\ \A d \in ToSet(batch[s]) : d \in Items /\ At(d, s)
           /\ Fresh(batch[s]) = {} => out'[s] = <<>>
  <1>1. out[s] = <<>>
    BY DEF Associate, Empties, Idling
  <1>2. /\ CarrierTypes' /\ Singles'
        /\ Moved(FreshOf(s), "out", s, ToSet(batch[s]) \ FreshOf(s))
        /\ ToSet(batch[s]) \subseteq Items /\ FreshOf(s) \subseteq ToSet(batch[s])
        /\ \A d \in ToSet(batch[s]) : In(d, "batch", s)
        /\ Fresh(batch[s]) = {} => out'[s] = <<>>
    BY <1>1, AssociateMoves
  <1>3. "out" \in Carriers /\ "batch" \in Carriers /\ Reach("out", s) = s + 1
        /\ Reach("batch", s) = s
    BY DEF Carriers, Reach
  <1>4. \A d \in ToSet(batch[s]) : At(d, s)
    BY <1>2, <1>3, Deep
  <1> QED
    BY <1>2, <1>3, <1>4, Motion DEF Placed, Moving

\* ResolveContentFutures takes the head of its queue one stage further.
LEMMA ResolveStep ==
    ASSUME Placed, Empties, NEW s \in Stages, ResolveFuture(s)
    PROVE  /\ Moving({Head(queue[s])} \cap Items, s + 1, {})
           /\ \A d \in {Head(queue[s])} \cap Items : At(d, s)
  <1> DEFINE M == {Head(queue[s])} \cap Items
  <1>1. out[s] = <<>>
    BY DEF ResolveFuture, Empties, Idling
  <1>2. /\ CarrierTypes' /\ Singles' /\ Moved(M, "out", s, {})
        /\ \A d \in M : In(d, "queue", s)
    BY <1>1, ResolveMoves
  <1>3. "out" \in Carriers /\ "queue" \in Carriers /\ Reach("out", s) = s + 1
        /\ Reach("queue", s) = s
    BY DEF Carriers, Reach
  <1>4. \A d \in M : At(d, s)
    BY <1>2, <1>3, Deep
  <1> HIDE DEF M
  <1> QED
    <2>1. Moving(M, s + 1, {})
      BY <1>2, <1>3, Motion DEF Placed, Moving
    <2> QED
      BY <1>4, <2>1 DEF M

\* A task of the downloader takes its item one stage further.
LEMMA PutDownloadedStep ==
    ASSUME Placed, NEW d0 \in Items, PutDownloaded(Downloader, d0)
    PROVE  Moving({d0}, Downloader + 1, {}) /\ At(d0, Downloader)
  <1>1. /\ CarrierTypes' /\ Singles' /\ Moved({d0}, "queue", Downloader + 1, {})
        /\ In(d0, "task", Downloader)
    BY PutDownloadedMoves
  <1>2. /\ "queue" \in Carriers /\ "task" \in Carriers
        /\ Downloader \in Stages /\ Downloader + 1 \in Stages
        /\ Reach("queue", Downloader + 1) = Downloader + 1
        /\ Reach("task", Downloader) = Downloader
    BY Order DEF Carriers, Reach
  <1>3. At(d0, Downloader)
    BY <1>1, <1>2, Deep
  <1> QED
    BY <1>1, <1>2, <1>3, Motion DEF Placed, Moving

\* EndStage drops the head of its queue.
LEMMA DrainStep ==
    ASSUME Placed, NEW s \in Stages, Drain(s)
    PROVE  /\ Moving({}, First, {Head(queue[s])})
           /\ Head(queue[s]) \in Items => At(Head(queue[s]), s)
  <1>1. /\ CarrierTypes' /\ Singles' /\ Moved({}, "queue", First, {Head(queue[s])})
        /\ \A d \in {Head(queue[s])} \cap Items : In(d, "queue", s)
    BY DrainMoves
  <1>2. /\ "queue" \in Carriers /\ First \in Stages /\ Reach("queue", s) = s
        /\ Reach("queue", First) = First
    BY Order DEF Carriers, Reach
  <1>3. Head(queue[s]) \in Items => At(Head(queue[s]), s)
    BY <1>1, <1>2, Deep
  <1> QED
    BY <1>1, <1>2, <1>3, Motion DEF Placed, Moving

\* Tasks that are stopped drop their items.
LEMMA StopStep ==
    ASSUME Placed, UNCHANGED <<queue, held, batch, out>>,
           handler' \in [Items -> Handlers],
           NEW D \in SUBSET Pending, Pending' = Pending \ D
    PROVE  Moving({}, First, D)
  <1>1. CarrierTypes' /\ Singles' /\ Moved({}, "queue", First, D)
    BY StopMoves
  <1>2. "queue" \in Carriers /\ First \in Stages /\ Reach("queue", First) = First
    BY Order DEF Carriers, Reach
  <1> QED
    BY <1>1, <1>2, Motion DEF Placed, Moving

-----------------------------------------------------------------------------
(***************************************************************************)
(* Sums, and what is given back to the budget.                             *)
(***************************************************************************)
Grains(f, ds) == UNION {{d} \X (1 .. f[d]) : d \in ds}

\* The bytes of a set of items are finitely many.
LEMMA SumType ==
    ASSUME NEW f \in [Items -> Nat], NEW ds \in SUBSET Items
    PROVE  /\ IsFiniteSet(Grains(f, ds)) /\ SumOf(f, ds) = Cardinality(Grains(f, ds))
           /\ SumOf(f, ds) \in Nat /\ IsFiniteSet(ds)
           /\ \A x : x \in Grains(f, ds) <=> \E d \in ds : x \in {d} \X (1 .. f[d])
           /\ \A d \in ds : f[d] \in Nat
  <1> DEFINE T == {{d} \X (1 .. f[d]) : d \in ds}
  <1>1. IsFiniteSet(ds)
    BY StagesAssumption, FS_Subset
  <1>2. \A d \in ds : f[d] \in Nat
    OBVIOUS
  <1>3. ASSUME NEW d \in ds
        PROVE  IsFiniteSet({d} \X (1 .. f[d]))
    <2>1. IsFiniteSet(1 .. f[d])
      BY <1>2, FS_Interval
    <2>2. IsFiniteSet({d})
      BY FS_Singleton
    <2> QED
      BY <2>1, <2>2, FS_Product
  <1>4. \A X \in T : IsFiniteSet(X)
    BY <1>3
  <1>5. IsFiniteSet(T)
    <2> DEFINE g == [d \in ds |-> {d} \X (1 .. f[d])]
    <2>1. g \in Surjection(ds, T)
      BY DEF Surjection
    <2> HIDE DEF g, T
    <2> QED
      BY <1>1, <2>1, FS_Surjection
  <1>6. IsFiniteSet(Grains(f, ds))
    BY <1>4, <1>5, FS_UNION DEF Grains
  <1>7. SumOf(f, ds) = Cardinality(Grains(f, ds))
    BY DEF SumOf, Grains
  <1>8. \A x : x \in Grains(f, ds) <=> \E d \in ds : x \in {d} \X (1 .. f[d])
    BY DEF Grains
  <1> QED
    BY <1>1, <1>2, <1>6, <1>7, <1>8, FS_CardinalityType

\* More items have at least as many bytes.
LEMMA SumMore ==
    ASSUME NEW f \in [Items -> Nat], NEW g \in [Items -> Nat],
           NEW ds \in SUBSET Items, NEW es \in SUBSET Items,
           ds \subseteq es, \A d \in ds : f[d] <= g[d]
    PROVE  SumOf(f, ds) <= SumOf(g, es)
  <1>1. Grains(f, ds) \in SUBSET Grains(g, es)
    <2> SUFFICES ASSUME NEW x \in Grains(f, ds) PROVE x \in Grains(g, es)
      OBVIOUS
    <2>1. PICK d \in ds : x \in {d} \X (1 .. f[d])
      BY SumType
    <2>2. f[d] \in Nat /\ g[d] \in Nat /\ f[d] <= g[d]
      OBVIOUS
    <2>3. 1 .. f[d] \subseteq 1 .. g[d]
      BY <2>2
    <2>4. x \in {d} \X (1 .. g[d])
      BY <2>1, <2>3
    <2> QED
      BY <2>4, SumType
  <1>2. /\ IsFiniteSet(Grains(g, es)) /\ SumOf(f, ds) = Cardinality(Grains(f, ds))
        /\ SumOf(g, es) = Cardinality(Grains(g, es))
    BY SumType
  <1> QED
    BY <1>1, <1>2, FS_Subset

\* The bytes of some of the items are taken off the sum.
LEMMA SumLess ==
    ASSUME NEW f \in [Items -> Nat], NEW ds \in SUBSET Items, NEW es \in SUBSET ds
    PROVE  SumOf(f, ds \ es) = SumOf(f, ds) - SumOf(f, es)
  <1> DEFINE A == Grains(f, ds)
             B == Grains(f, es)
             C == Grains(f, ds \ es)
  <1>1. /\ IsFiniteSet(A) /\ SumOf(f, ds) = Cardinality(A)
        /\ SumOf(f, es) = Cardinality(B) /\ SumOf(f, ds \ es) = Cardinality(C)
    <2>1. ds \ es \in SUBSET Items /\ es \in SUBSET Items
      OBVIOUS
    <2> QED
      BY <2>1, SumType
  <1>2. /\ \A x : x \in A <=> \E d \in ds : x \in {d} \X (1 .. f[d])
        /\ \A x : x \in B <=> \E d \in es : x \in {d} \X (1 .. f[d])
        /\ \A x : x \in C <=> \E d \in ds \ es : x \in {d} \X (1 .. f[d])
    BY DEF Grains
  <1>3. \A x, d, e : x \in {d} \X (1 .. f[d]) /\ x \in {e} \X (1 .. f[e]) => d = e
    OBVIOUS
  <1> HIDE DEF A, B, C
  <1>4. C = A \ B
    <2>1. \A x \in C : x \in A /\ x \notin B
      BY <1>2, <1>3
    <2>2. \A x \in A : x \notin B => x \in C
      BY <1>2
    <2> QED
      BY <2>1, <2>2
  <1>5. A \cap B = B
    <2>1. \A x \in B : x \in A
      BY <1>2
    <2> QED
      BY <2>1
  <1>6. Cardinality(A \ B) = Cardinality(A) - Cardinality(A \cap B)
    BY <1>1, FS_Difference
  <1> QED
    BY <1>1, <1>4, <1>5, <1>6

\* An item adds no more than its bytes.
LEMMA SumOne ==
    ASSUME NEW f \in [Items -> Nat], NEW ds \in SUBSET Items, NEW d0 \in Items
    PROVE  SumOf(f, ds \cup {d0}) <= SumOf(f, ds) + f[d0]
  <1> DEFINE A == Grains(f, ds)
             B == {d0} \X (1 .. f[d0])
             C == Grains(f, ds \cup {d0})
  <1>1. /\ IsFiniteSet(A) /\ SumOf(f, ds) = Cardinality(A)
        /\ SumOf(f, ds \cup {d0}) = Cardinality(C)
    <2>1. ds \cup {d0} \in SUBSET Items
      OBVIOUS
    <2> QED
      BY <2>1, SumType
  <1>2. /\ \A x : x \in A <=> \E d \in ds : x \in {d} \X (1 .. f[d])
        /\ \A x : x \in C <=> \E d \in ds \cup {d0} : x \in {d} \X (1 .. f[d])
    BY DEF Grains
  <1>3. IsFiniteSet(B) /\ Cardinality(B) = f[d0]
    <2>1. f[d0] \in Nat
      OBVIOUS
    <2>2. IsFiniteSet(1 .. f[d0]) /\ Cardinality(1 .. f[d0]) = f[d0]
      <3>1. /\ IsFiniteSet(1 .. f[d0])
            /\ Cardinality(1 .. f[d0]) = IF 1 > f[d0] THEN 0 ELSE f[d0] - 1 + 1
        BY <2>1, FS_Interval
      <3> QED
        BY <2>1, <3>1
    <2>3. IsFiniteSet({d0}) /\ Cardinality({d0}) = 1
      BY FS_Singleton
    <2>4. IsFiniteSet(B) /\ Cardinality(B) = 1 * f[d0]
      BY <2>2, <2>3, FS_Product
    <2> QED
      BY <2>1, <2>4
  <1>4. C = A \cup B
    BY <1>2, Zenon
  <1> HIDE DEF A, B, C
  <1>5. /\ Cardinality(A \cup B) = Cardinality(A) + Cardinality(B) - Cardinality(A \cap B)
        /\ IsFiniteSet(A \cap B)
    <2>1. IsFiniteSet(A) /\ IsFiniteSet(B)
      BY <1>1, <1>3
    <2> QED
      BY <2>1, FS_Union, FS_Intersection
  <1>6. Cardinality(A) \in Nat /\ Cardinality(A \cap B) \in Nat /\ f[d0] \in Nat
    BY <1>1, <1>5, FS_CardinalityType
  <1> QED
    BY <1>1, <1>3, <1>4, <1>5, <1>6

\* No item, no byte.
LEMMA SumNone == ASSUME NEW f PROVE SumOf(f, {}) = 0
  <1> DEFINE T == UNION {{d} \X (1 .. f[d]) : d \in {}}
  <1>1. T = {}
    OBVIOUS
  <1>2. SumOf(f, {}) = Cardinality(T)
    BY DEF SumOf
  <1> HIDE DEF T
  <1>3. Cardinality({}) = 0
    BY FS_EmptySet
  <1>4. SumOf(f, {}) = Cardinality({})
    BY <1>1, <1>2
  <1> QED
    BY <1>3, <1>4

\* What the tasks of these items give back when they are stopped.
Paid(ds) == {d \in ds \cap acquired : Advertised[d] # 0}

\* A task that waits for the budget tries again, every other one is where it was
\* or where the step that releases has put it.
LEMMA Released ==
    ASSUME NEW n \in Nat, NEW size \in Nat, NEW freed, NEW tasks \in [Items -> Handlers],
           Release(n, size, freed, tasks), used \in Nat, bytes \in Nat
    PROVE  /\ handler' \in [Items -> Handlers]
           /\ \A d \in Items : handler'[d] = IF tasks[d] = "blocked" THEN "try" ELSE tasks[d]
           /\ acquired' = acquired \ freed /\ flush' \in BOOLEAN
           /\ used' \in Nat /\ bytes' \in Nat
           /\ used' >= used - n /\ bytes' >= bytes - size
           /\ used' <= used
  <1>1. handler' = [d \in Items |-> IF tasks[d] = "blocked" THEN "try" ELSE tasks[d]]
    BY DEF Release
  <1>2. handler' \in [Items -> Handlers]
    <2>1. \A d \in Items : tasks[d] \in Handlers /\ "try" \in Handlers
      BY DEF Handlers
    <2> QED
      BY <1>1, <2>1
  <1>3. \A m \in Int : NonNegative(m) \in Nat /\ NonNegative(m) >= m
    BY DEF NonNegative
  <1>4. used' <= used
    BY DEF Release, NonNegative
  <1>5. used' = NonNegative(used - n) /\ bytes' = NonNegative(bytes - size)
    BY DEF Release
  <1>6. used - n \in Int /\ bytes - size \in Int
    OBVIOUS
  <1>7. /\ used' \in Nat /\ bytes' \in Nat
        /\ used' >= used - n /\ bytes' >= bytes - size
    BY <1>3, <1>5, <1>6
  <1>8. /\ acquired' = acquired \ freed /\ flush' \in BOOLEAN
        /\ \A d \in Items : handler'[d] = IF tasks[d] = "blocked" THEN "try" ELSE tasks[d]
    BY <1>1 DEF Release
  <1> QED
    BY <1>2, <1>4, <1>7, <1>8

\* A stopped task gives back what was announced of its item.
LEMMA GivenBack ==
    ASSUME NEW ds \in SUBSET Items, NEW tasks \in [Items -> Handlers],
           GiveBack(ds, tasks), used \in Nat, bytes \in Nat, acquired \subseteq Items,
           flush \in BOOLEAN
    PROVE  /\ handler' \in [Items -> Handlers]
           /\ \A d \in Items : \/ handler'[d] = tasks[d]
                               \/ tasks[d] = "blocked" /\ handler'[d] = "try"
           /\ acquired' = acquired \ Paid(ds) /\ flush' \in BOOLEAN
           /\ used' \in Nat /\ bytes' \in Nat /\ used' <= used
           /\ used' >= used - Cardinality(Paid(ds))
           /\ bytes' >= bytes - SumOf(Advertised, Paid(ds))
  <1> DEFINE back == Paid(ds)
  <1>1. back \in SUBSET Items
    BY DEF Paid
  <1>2. Advertised \in [Items -> Nat]
    BY StagesAssumption
  <1>3. Cardinality(back) \in Nat /\ SumOf(Advertised, back) \in Nat
    BY <1>1, <1>2, SumType, FS_CardinalityType
  <1>4. CASE back = {}
    <2>1. handler' = tasks /\ UNCHANGED budgetVars
      BY <1>4 DEF GiveBack, Paid
    <2>2. Cardinality(back) = 0 /\ SumOf(Advertised, back) = 0
      BY <1>4, FS_EmptySet, SumNone
    <2> HIDE DEF back
    <2> QED
      BY <1>4, <2>1, <2>2 DEF budgetVars, back
  <1>5. CASE back # {}
    <2>1. Release(Cardinality(back), SumOf(Advertised, back), back, tasks)
      BY <1>5 DEF GiveBack, Paid
    <2> HIDE DEF back
    <2>2. /\ handler' \in [Items -> Handlers]
          /\ \A d \in Items : handler'[d] = IF tasks[d] = "blocked" THEN "try" ELSE tasks[d]
          /\ acquired' = acquired \ back /\ flush' \in BOOLEAN
          /\ used' \in Nat /\ bytes' \in Nat
          /\ used' >= used - Cardinality(back) /\ bytes' >= bytes - SumOf(Advertised, back)
          /\ used' <= used
      BY <1>3, <2>1, Released
    <2> QED
      BY <2>2 DEF back
  <1> QED
    BY <1>4, <1>5

-----------------------------------------------------------------------------
(***************************************************************************)
(* Every step is one of these, at the stages of these kinds.               *)
(***************************************************************************)
LEMMA Cases ==
    ASSUME [Next]_vars
    PROVE  \/ FirstPut \/ Resolution \/ FirstResumes
           \/ \E s \in Stages \ {EndStage} : Put(s) \/ Finish(s)
           \/ \E s \in Batching : Listen(s) \/ Collect(s)
           \/ \E s \in Batching \ {Querier, Saver, ContentSaver, Associator} : HandOver(s)
           \/ ArmFlush(Saver) \/ QueryArtifacts(Querier) \/ SaveArtifacts(Saver)
           \/ SaveContent(ContentSaver) \/ Associate(Associator)
           \/ \E s \in Batching : AddContent(s) \/ RemoveContent(s)
           \/ ResolveFuture(Resolver) \/ Drain(EndStage)
           \/ GetNext(Downloader) \/ DownloaderEnds(Downloader)
           \/ \E d \in Items : \/ SkipDownload(Downloader, d) \/ Acquire(Downloader, d)
                               \/ AwaitBudget(Downloader, d) \/ Downloaded(Downloader, d)
                               \/ PutDownloaded(Downloader, d)
                               \/ DownloadFails(Downloader, d)
           \/ \E s \in Stages : StageFails(s) \/ Cancel(s)
           \/ PipelineFails \/ PipelineSucceeds \/ OtherSaves
           \/ UNCHANGED vars
  <1>1. ASSUME NEW s \in Batching,
               \/ ArmFlush(s) \/ QueryArtifacts(s) \/ SaveArtifacts(s)
               \/ HandOver(s) \/ SaveContent(s) \/ Associate(s)
        PROVE  \/ ArmFlush(Saver) \/ QueryArtifacts(Querier) \/ SaveArtifacts(Saver)
               \/ SaveContent(ContentSaver) \/ Associate(Associator)
               \/ s \in Batching \ {Querier, Saver, ContentSaver, Associator} /\ HandOver(s)
    <2>1. s \in Stages
      BY Batchers
    <2>2. /\ Kinds[s] = "artifacts" <=> s = Querier
          /\ Kinds[s] = "save" <=> s = Saver
          /\ Kinds[s] = "content" <=> s = ContentSaver
          /\ Kinds[s] = "associate" <=> s = Associator
      BY <2>1, Kinded
    <2>3. CASE ArmFlush(s)
      BY <2>2, <2>3 DEF ArmFlush
    <2>4. CASE QueryArtifacts(s)
      BY <2>2, <2>4 DEF QueryArtifacts
    <2>5. CASE SaveArtifacts(s)
      BY <2>2, <2>5 DEF SaveArtifacts
    <2>6. CASE HandOver(s)
      BY <2>2, <2>6 DEF HandOver
    <2>7. CASE SaveContent(s)
      BY <2>2, <2>7 DEF SaveContent
    <2>8. CASE Associate(s)
      <3>1. Kinds[s] = "associate"
        BY <2>8 DEF Associate
      <3> QED
        BY <2>2, <2>8, <3>1
    <2> QED
      BY <1>1, <2>3, <2>4, <2>5, <2>6, <2>7, <2>8
  <1>2. ASSUME NEW s \in Stages, ResolveFuture(s)
        PROVE  ResolveFuture(Resolver)
    BY <1>2, Kinded DEF ResolveFuture
  <1>3. ASSUME NEW s \in Stages, Drain(s)
        PROVE  Drain(EndStage)
    BY <1>3, Kinded DEF Drain
  <1> QED
    BY <1>1, <1>2, <1>3 DEF Next, Flow, Downloads, Failures, Closing, EndStage

-----------------------------------------------------------------------------
(***************************************************************************)
(* How far a step takes an item.                                           *)
(***************************************************************************)
\* The stages that must have done their work on what they hand on.
Handed(d, s) ==
    /\ s = Downloader => PutDownloaded(Downloader, d)
    /\ s = Saver => SaveArtifacts(Saver) /\ d \in ToSet(batch[Saver])
    /\ s = ContentSaver => SaveContent(ContentSaver) /\ d \in ToSet(batch[ContentSaver])
    /\ s = Resolver => ResolveFuture(Resolver) /\ d = Head(queue[Resolver])
    /\ s = Associator => Associate(Associator) /\ d \in FreshOf(Associator)

Passed(d, n) == n - 1 \in Stages /\ At(d, n - 1) /\ Handed(d, n - 1)

Passage ==
    \A d \in Items, n \in Depths :
        At(d, n)' => At(d, n) \/ (n = 2 /\ d \in Sent' \ Sent) \/ Passed(d, n)

Leaves(d) ==
    \/ outcome' # "running"
    \/ Drain(EndStage) /\ At(d, EndStage)
    \/ Associate(Associator) /\ d \in ToSet(batch[Associator]) \ FreshOf(Associator)

Departure == \A d \in Items : Somewhere(d) /\ ~Somewhere(d)' => Leaves(d)

Progress == CarrierTypes' /\ Singles' /\ Alone' /\ Passage /\ Departure

\* A step that keeps the depths takes no item anywhere.
LEMMA SteadyProgress ==
    ASSUME Steady
    PROVE  Progress
  <1>1. Passage
    BY DEF Steady, AtStill, Passage
  <1>2. Departure
    <2>1. ASSUME NEW d \in Items, Somewhere(d)
          PROVE  Somewhere(d)'
      BY <2>1 DEF Steady, AtStill, Somewhere, Depths, EndStage
    <2> QED
      BY <2>1 DEF Departure
  <1> QED
    BY <1>1, <1>2 DEF Progress, Steady

\* A step that moves items takes them one stage further, and drops what leaves.
LEMMA MovingProgress ==
    ASSUME NEW M, NEW n \in Depths, NEW D, Moving(M, n, D),
           \A d \in M \cap Items : Passed(d, n),
           \A d \in D \cap Items : Leaves(d)
    PROVE  Progress
  <1>1. Passage
    BY DEF Moving, Flows, Passage
  <1>2. Departure
    <2> SUFFICES ASSUME NEW d \in Items, Somewhere(d), ~Leaves(d)
                 PROVE  Somewhere(d)'
      BY DEF Departure
    <2>1. d \notin D
      OBVIOUS
    <2>2. \E k \in Depths : At(d, k)'
      BY <2>1 DEF Moving, Flows, Somewhere
    <2> QED
      BY <2>2 DEF Somewhere, Depths, EndStage
  <1> QED
    BY <1>1, <1>2 DEF Progress, Moving

\* The items that were sent are more only when the first stage puts one.
LEMMA SentKept ==
    ASSUME ControlTypes, pos' = pos \/ (pos' = pos + 1 /\ Script[pos][1] = "await")
    PROVE  Sent' = Sent
  <1>1. CASE pos' = pos
    BY <1>1 DEF Sent
  <1>2. CASE pos' = pos + 1 /\ Script[pos][1] = "await"
    <2>1. pos \in Int /\ Len(Script) \in Nat
      BY ScriptAssumption, LenProperties DEF ControlTypes
    <2>2. \A d \in Items : Script[pos] # <<"put", d>>
      BY <1>2
    <2>3. \A i : i \in 1 .. pos' - 1 <=> i \in 1 .. pos - 1 \/ (i = pos /\ pos >= 1)
      BY <1>2, <2>1
    <2> QED
      BY <2>2, <2>3 DEF Sent
  <1> QED
    BY <1>1, <1>2

\* An item that has come further was sent.
LEMMA PassageUnsent ==
    ASSUME Unsent, Passage, Sent \subseteq Sent'
    PROVE  Unsent'
  <1> SUFFICES ASSUME NEW d \in Items, Somewhere(d)' PROVE d \in Sent'
    BY DEF Unsent
  <1>1. PICK n \in Depths : At(d, n)'
    BY DEF Somewhere, Depths, EndStage
  <1>2. CASE At(d, n)
    BY <1>2, Deep DEF Unsent
  <1>3. CASE d \in Sent'
    BY <1>3
  <1>4. CASE Passed(d, n)
    <2>1. n - 1 \in Depths
      BY <1>4, Order DEF Passed, Depths
    <2> QED
      BY <1>4, <2>1, Deep DEF Unsent, Passed
  <1> QED
    BY <1>1, <1>2, <1>3, <1>4 DEF Passage

\* What a stage hands on has passed it.
LEMMA NextPasses ==
    ASSUME NEW s \in Stages, NEW d \in Items, At(d, s), Handed(d, s)
    PROVE  Passed(d, s + 1)
  <1> DEFINE n == s + 1
  <1>1. n - 1 = s
    BY Order
  <1> HIDE DEF n
  <1>2. Passed(d, n)
    BY <1>1 DEF Passed
  <1> QED
    BY <1>2 DEF n

\* Where a stage may read the end marker, the one before it is over, and so it
\* puts no second one.
LEMMA NoSecondEnd ==
    ASSUME Ending, ControlTypes, NEW s \in Stages \ {EndStage}, Finish(s)
    PROVE  End \notin ToSet(queue[s + 1])
  <1> DEFINE t == s + 1
  <1>1. t \in Stages /\ t # First /\ t - 1 = s
    BY Order
  <1>2. mode[s] # "done"
    BY DEF Finish
  <1> HIDE DEF t
  <1>3. ~EndSeen(t)
    BY <1>1, <1>2 DEF Ending
  <1> QED
    BY <1>3 DEF EndSeen, t

\* Where nothing is put or taken, an item that was not sent is not sent.
Placing == Placed /\ ControlTypes /\ Unsent /\ Empties /\ Ending

\* Every stage that is yielded a batch hands all of it on, but for the last one.
LEMMA BatchPasses ==
    ASSUME Placing, NEW s \in Stages, NEW items \in Seq(Items), Hands(s, items),
           ToSet(items) = ToSet(batch[s]), Single(items),
           handler' \in [Items -> Handlers], Pending' = Pending,
           \A d \in ToSet(batch[s]) : Handed(d, s)
    PROVE  Progress
  <1>1. /\ Moving(ToSet(batch[s]), s + 1, {})
        /\ \A d \in ToSet(batch[s]) : d \in Items /\ At(d, s)
    BY HandsStep DEF Placing
  <1>2. s + 1 \in Depths
    BY Order DEF Depths
  <1>3. \A d \in ToSet(batch[s]) : Passed(d, s + 1)
    BY <1>1, NextPasses
  <1> QED
    BY <1>1, <1>2, <1>3, MovingProgress

\* A batch in its own order.
LEMMA WholeBatch ==
    ASSUME Placed, NEW s \in Stages
    PROVE  /\ batch[s] \in Seq(Items) /\ Single(batch[s])
           /\ IsFiniteSet(ToSet(batch[s])) /\ ToSet(batch[s]) \subseteq Items
  <1>1. batch[s] \in Seq(Items) /\ Single(batch[s])
    BY DEF Placed, CarrierTypes, Singles
  <1>2. ToSet(batch[s]) \subseteq Items
    BY <1>1, ElementOfSeq, LenProperties DEF ToSet
  <1> QED
    BY <1>1, <1>2, StagesAssumption, FS_Subset

\* A stage in between hands its batch on.
LEMMA HandOverProgress ==
    ASSUME Placing,
           NEW s \in Batching \ {Querier, Saver, ContentSaver, Associator}, HandOver(s)
    PROVE  Progress
  <1>1. s \in Stages /\ s \notin {Downloader, Saver, ContentSaver, Resolver, Associator}
    BY Batchers
  <1>2. batch[s] \in Seq(Items) /\ Single(batch[s])
    BY <1>1, WholeBatch DEF Placing
  <1>3. Hands(s, batch[s]) /\ handler' = handler
    BY DEF HandOver
  <1>4. handler' \in [Items -> Handlers] /\ Pending' = Pending
    BY <1>3 DEF Placing, Placed, CarrierTypes, Pending
  <1>5. \A d \in ToSet(batch[s]) : Handed(d, s)
    BY <1>1 DEF Handed
  <1> QED
    BY <1>1, <1>2, <1>3, <1>4, <1>5, BatchPasses

\* QueryExistingArtifacts hands its batch on.
LEMMA QueryProgress ==
    ASSUME Placing, QueryArtifacts(Querier)
    PROVE  Progress
  <1>1. /\ Querier \in Stages
        /\ Querier \notin {Downloader, Saver, ContentSaver, Resolver, Associator}
    BY Order
  <1>2. batch[Querier] \in Seq(Items) /\ Single(batch[Querier])
    BY <1>1, WholeBatch DEF Placing
  <1>3. Hands(Querier, batch[Querier]) /\ handler' = handler
    BY DEF QueryArtifacts
  <1>4. handler' \in [Items -> Handlers] /\ Pending' = Pending
    BY <1>3 DEF Placing, Placed, CarrierTypes, Pending
  <1>5. \A d \in ToSet(batch[Querier]) : Handed(d, Querier)
    BY <1>1 DEF Handed
  <1> QED
    BY <1>1, <1>2, <1>3, <1>4, <1>5, BatchPasses

\* What the saver gives back: it changes no item's place.
LEMMA SaveRelease ==
    ASSUME Placed, DataTypes, SaveArtifacts(Saver)
    PROVE  LET ds == ToSet(batch[Saver]) IN
           /\ handler' \in [Items -> Handlers]
           /\ \A d \in Items : handler'[d] = IF handler[d] = "blocked" THEN "try"
                                             ELSE handler[d]
           /\ acquired' = acquired \ ds /\ flush' \in BOOLEAN
           /\ used' \in Nat /\ bytes' \in Nat /\ used' <= used
           /\ used' >= used - Cardinality(ds) /\ bytes' >= bytes - SumOf(Size, ds)
           /\ Cardinality(ds) \in Nat /\ SumOf(Size, ds) \in Nat
           /\ Pending' = Pending
  <1> DEFINE ds == ToSet(batch[Saver])
  <1>1. IsFiniteSet(ds) /\ ds \subseteq Items
    BY WholeBatch, Order
  <1>2. Size \in [Items -> Nat]
    BY StagesAssumption
  <1>3. Cardinality(ds) \in Nat /\ SumOf(Size, ds) \in Nat
    BY <1>1, <1>2, SumType, FS_CardinalityType
  <1>4. Release(Cardinality(ds), SumOf(Size, ds), ds, handler)
    BY DEF SaveArtifacts
  <1>5. handler \in [Items -> Handlers] /\ used \in Nat /\ bytes \in Nat
    BY DEF Placed, CarrierTypes, DataTypes
  <1> HIDE DEF ds
  <1>6. /\ handler' \in [Items -> Handlers]
        /\ \A d \in Items : handler'[d] = IF handler[d] = "blocked" THEN "try"
                                          ELSE handler[d]
        /\ acquired' = acquired \ ds /\ flush' \in BOOLEAN
        /\ used' \in Nat /\ bytes' \in Nat /\ used' <= used
        /\ used' >= used - Cardinality(ds) /\ bytes' >= bytes - SumOf(Size, ds)
    BY <1>3, <1>4, <1>5, Released
  <1>7. Pending' = Pending
    BY <1>6 DEF Pending
  <1> QED
    BY <1>3, <1>6, <1>7 DEF ds

\* ArtifactSaver hands its batch on once it has saved the artifacts.
LEMMA SaveArtifactsProgress ==
    ASSUME Placing, DataTypes, SaveArtifacts(Saver)
    PROVE  Progress
  <1>1. Saver \in Stages /\ Saver \notin {Downloader, ContentSaver, Resolver, Associator}
    BY Order
  <1>2. batch[Saver] \in Seq(Items) /\ Single(batch[Saver])
    BY <1>1, WholeBatch DEF Placing
  <1>3. Hands(Saver, batch[Saver])
    BY DEF SaveArtifacts
  <1>4. handler' \in [Items -> Handlers] /\ Pending' = Pending
    BY SaveRelease DEF Placing
  <1>5. \A d \in ToSet(batch[Saver]) : Handed(d, Saver)
    BY <1>1 DEF Handed
  <1> QED
    BY <1>1, <1>2, <1>3, <1>4, <1>5, BatchPasses

\* ContentSaver hands its batch on once it has saved the content.
LEMMA SaveContentProgress ==
    ASSUME Placing, SaveContent(ContentSaver)
    PROVE  Progress
  <1> DEFINE S == ToSet(batch[ContentSaver])
  <1>1. /\ ContentSaver \in Stages
        /\ ContentSaver \notin {Downloader, Saver, Resolver, Associator}
    BY Order
  <1>2. IsFiniteSet(S) /\ S \subseteq Items
    BY <1>1, WholeBatch DEF Placing
  <1>3. PICK order \in SetToSeqs(S) : Hands(ContentSaver, order)
    BY DEF SaveContent
  <1>4. handler' = handler
    BY DEF SaveContent
  <1>5. handler' \in [Items -> Handlers] /\ Pending' = Pending
    BY <1>4 DEF Placing, Placed, CarrierTypes, Pending
  <1>6. \A d \in S : Handed(d, ContentSaver)
    BY <1>1 DEF Handed
  <1> HIDE DEF S
  <1>7. order \in Seq(S) /\ ToSet(order) = S /\ Single(order)
    BY <1>2, <1>3, Ordered
  <1>8. order \in Seq(Items)
    BY <1>2, <1>7, ElementOfSeq, LenProperties
  <1> QED
    BY <1>1, <1>3, <1>5, <1>6, <1>7, <1>8, BatchPasses DEF S

\* ContentAssociation hands on the new items of its batch; the others may leave.
LEMMA AssociateProgress ==
    ASSUME Placing, Associate(Associator)
    PROVE  Progress
  <1> DEFINE F == FreshOf(Associator)
             D == ToSet(batch[Associator]) \ F
  <1>1. /\ Associator \in Stages /\ Associator + 1 \in Depths
        /\ Associator \notin {Downloader, Saver, ContentSaver, Resolver}
    BY Order DEF Depths
  <1>2. /\ Moving(F, Associator + 1, D) /\ F \subseteq ToSet(batch[Associator])
        /\ \A d \in ToSet(batch[Associator]) : d \in Items /\ At(d, Associator)
    BY <1>1, AssociateStep DEF Placing
  <1>3. \A d \in F : d \in Items /\ At(d, Associator) /\ Handed(d, Associator)
    BY <1>1, <1>2 DEF Handed
  <1>4. \A d \in D : Leaves(d)
    BY DEF Leaves
  <1>5. \A d \in F \cap Items : Passed(d, Associator + 1)
    BY <1>1, <1>3, NextPasses
  <1> HIDE DEF F, D
  <1> QED
    BY <1>1, <1>2, <1>4, <1>5, MovingProgress

\* ResolveContentFutures hands its item on.
LEMMA ResolveProgress ==
    ASSUME Placing, ResolveFuture(Resolver)
    PROVE  Progress
  <1> DEFINE M == {Head(queue[Resolver])} \cap Items
  <1>1. /\ Resolver \in Stages /\ Resolver + 1 \in Depths
        /\ Resolver \notin {Downloader, Saver, ContentSaver, Associator}
    BY Order DEF Depths
  <1>2. Moving(M, Resolver + 1, {}) /\ \A d \in M : At(d, Resolver)
    BY <1>1, ResolveStep DEF Placing
  <1>3. \A d \in M : d \in Items /\ Handed(d, Resolver)
    BY <1>1 DEF Handed
  <1> HIDE DEF M
  <1>4. \A d \in M \cap Items : Passed(d, Resolver + 1)
    BY <1>1, <1>2, <1>3, NextPasses
  <1> QED
    BY <1>1, <1>2, <1>4, MovingProgress

\* A task of ArtifactDownloader hands its item on.
LEMMA PutDownloadedProgress ==
    ASSUME Placing, NEW d0 \in Items, PutDownloaded(Downloader, d0)
    PROVE  Progress
  <1>1. /\ Downloader \in Stages /\ Downloader + 1 \in Depths
        /\ Downloader \notin {Saver, ContentSaver, Resolver, Associator}
    BY Order DEF Depths
  <1>2. Moving({d0}, Downloader + 1, {}) /\ At(d0, Downloader)
    BY PutDownloadedStep DEF Placing
  <1>3. Handed(d0, Downloader)
    BY <1>1 DEF Handed
  <1>4. Passed(d0, Downloader + 1)
    BY <1>1, <1>2, <1>3, NextPasses
  <1>5. \A d \in {d0} \cap Items : Passed(d, Downloader + 1)
    BY <1>4
  <1> QED
    BY <1>1, <1>2, <1>5, MovingProgress

\* EndStage lets the items leave.
LEMMA DrainProgress ==
    ASSUME Placing, Drain(EndStage)
    PROVE  Progress
  <1> DEFINE D == {Head(queue[EndStage])}
  <1>1. EndStage \in Stages /\ First \in Depths
    BY Order DEF Depths
  <1>2. /\ Moving({}, First, D)
        /\ Head(queue[EndStage]) \in Items => At(Head(queue[EndStage]), EndStage)
    BY <1>1, DrainStep DEF Placing
  <1>3. \A d \in D \cap Items : Leaves(d)
    BY <1>2 DEF Leaves
  <1> HIDE DEF D
  <1> QED
    BY <1>1, <1>2, <1>3, MovingProgress

\* A task that is stopped drops its item: the pipeline is failing.
LEMMA StopProgress ==
    ASSUME Placed, UNCHANGED <<queue, held, batch, out>>,
           handler' \in [Items -> Handlers],
           NEW D \in SUBSET Pending, Pending' = Pending \ D, outcome' # "running"
    PROVE  Progress
  <1>1. Moving({}, First, D) /\ First \in Depths
    BY StopStep, Order DEF Depths
  <1>2. \A d \in D \cap Items : Leaves(d)
    BY DEF Leaves
  <1> QED
    BY <1>1, <1>2, MovingProgress

\* The task of a download that failed is over, and has given back its share.
LEMMA FailedTask ==
    ASSUME Placed, DataTypes, NEW d0 \in Items, DownloadFails(Downloader, d0)
    PROVE  /\ handler' \in [Items -> Handlers]
           /\ \A d \in Items : \/ handler'[d] = (IF d = d0 THEN "stopped" ELSE handler[d])
                               \/ (d # d0 /\ handler[d] = "blocked" /\ handler'[d] = "try")
           /\ Pending' = Pending \ {d0} /\ {d0} \in SUBSET Pending
           /\ acquired' = acquired \ Paid({d0}) /\ flush' \in BOOLEAN
           /\ used' \in Nat /\ bytes' \in Nat /\ used' <= used
           /\ used' >= used - Cardinality(Paid({d0}))
           /\ bytes' >= bytes - SumOf(Advertised, Paid({d0}))
  <1> DEFINE tasks == [handler EXCEPT ![d0] = "stopped"]
  <1>1. tasks \in [Items -> Handlers]
    BY DEF Placed, CarrierTypes, Handlers
  <1>2. GiveBack({d0}, tasks)
    BY DEF DownloadFails
  <1>3. handler[d0] = "load"
    BY DEF DownloadFails
  <1>4. \A d \in Items : tasks[d] = IF d = d0 THEN "stopped" ELSE handler[d]
    BY DEF Placed, CarrierTypes
  <1> HIDE DEF tasks
  <1>5. /\ handler' \in [Items -> Handlers]
        /\ \A d \in Items : \/ handler'[d] = tasks[d]
                            \/ tasks[d] = "blocked" /\ handler'[d] = "try"
        /\ acquired' = acquired \ Paid({d0}) /\ flush' \in BOOLEAN
        /\ used' \in Nat /\ bytes' \in Nat /\ used' <= used
        /\ used' >= used - Cardinality(Paid({d0}))
        /\ bytes' >= bytes - SumOf(Advertised, Paid({d0}))
    <2>1. {d0} \in SUBSET Items
      OBVIOUS
    <2> QED
      BY <1>1, <1>2, <2>1, GivenBack DEF DataTypes
  <1>6. \A d \in Items : handler'[d] = (IF d = d0 THEN "stopped" ELSE handler[d])
                        \/ (d # d0 /\ handler[d] = "blocked" /\ handler'[d] = "try")
    BY <1>4, <1>5
  <1>7. Pending' = Pending \ {d0} /\ {d0} \in SUBSET Pending
    BY <1>3, <1>6 DEF Pending
  <1> QED
    BY <1>5, <1>6, <1>7

\* The item of a download that fails leaves a pipeline that fails.
LEMMA DownloadFailsProgress ==
    ASSUME Placed, DataTypes, NEW d0 \in Items, DownloadFails(Downloader, d0)
    PROVE  Progress
  <1>1. UNCHANGED <<queue, held, batch, out>> /\ outcome' # "running"
    BY DEF DownloadFails, batchVars
  <1>2. /\ handler' \in [Items -> Handlers]
        /\ Pending' = Pending \ {d0} /\ {d0} \in SUBSET Pending
    BY FailedTask
  <1> QED
    BY <1>1, <1>2, StopProgress

\* The tasks of the downloader are stopped with it.
LEMMA CancelTasks ==
    ASSUME Placed, DataTypes, Cancel(Downloader)
    PROVE  /\ handler' \in [Items -> Handlers]
           /\ \A d \in Items : handler'[d] = IF d \in Pending THEN "stopped" ELSE handler[d]
           /\ Pending' = {}
           /\ acquired' = acquired \ Paid(Pending) /\ flush' \in BOOLEAN
           /\ used' \in Nat /\ bytes' \in Nat /\ used' <= used
           /\ used' >= used - Cardinality(Paid(Pending))
           /\ bytes' >= bytes - SumOf(Advertised, Paid(Pending))
  <1> DEFINE tasks == [d \in Items |-> IF d \in Pending THEN "stopped" ELSE handler[d]]
  <1>1. tasks \in [Items -> Handlers]
    BY DEF Placed, CarrierTypes, Handlers
  <1>2. GiveBack(Pending, tasks)
    <2>1. Kinds[Downloader] = "download"
      BY Order, Kinded
    <2> QED
      BY <2>1 DEF Cancel
  <1>3. \A d \in Items : tasks[d] = IF d \in Pending THEN "stopped" ELSE handler[d]
    OBVIOUS
  <1>4. Pending \in SUBSET Items
    BY DEF Pending
  <1> HIDE DEF tasks
  <1>5. /\ handler' \in [Items -> Handlers]
        /\ \A d \in Items : \/ handler'[d] = tasks[d]
                            \/ tasks[d] = "blocked" /\ handler'[d] = "try"
        /\ acquired' = acquired \ Paid(Pending) /\ flush' \in BOOLEAN
        /\ used' \in Nat /\ bytes' \in Nat /\ used' <= used
        /\ used' >= used - Cardinality(Paid(Pending))
        /\ bytes' >= bytes - SumOf(Advertised, Paid(Pending))
    BY <1>1, <1>2, <1>4, GivenBack DEF DataTypes
  <1>6. \A d \in Items : tasks[d] # "blocked"
    BY <1>3 DEF Pending
  <1>7. \A d \in Items : handler'[d] = IF d \in Pending THEN "stopped" ELSE handler[d]
    BY <1>3, <1>5, <1>6
  <1>8. Pending' = {}
    <2>1. \A d \in Items : handler'[d] \notin {"try", "blocked", "load", "put"}
      BY <1>7 DEF Pending
    <2> QED
      BY <2>1 DEF Pending
  <1> QED
    BY <1>5, <1>7, <1>8

\* So do those whose tasks create_pipeline() cancels with the downloader.
LEMMA CancelProgress ==
    ASSUME Placed, DataTypes, NEW s \in Stages, Cancel(s)
    PROVE  Progress
  <1>1. UNCHANGED <<queue, held, batch, out>> /\ outcome' # "running"
    BY DEF Cancel, batchVars
  <1>2. CASE s = Downloader
    <2>1. handler' \in [Items -> Handlers] /\ Pending' = Pending \ Pending
      BY <1>2, CancelTasks
    <2> QED
      BY <1>1, <2>1, StopProgress
  <1>3. CASE s # Downloader
    <2>1. handler' = handler
      BY <1>3, Kinded DEF Cancel
    <2>2. handler' \in [Items -> Handlers] /\ Pending' = Pending
      BY <2>1 DEF Placed, CarrierTypes, Pending
    <2> QED
      BY <1>1, <2>2, StillStep, SteadyProgress
  <1> QED
    BY <1>2, <1>3

\* What every step keeps: items are in one place, they are nowhere before they
\* are put, they go from stage to stage, and leave the pipeline at its end only,
\* where the version has their content, or when it fails.
Growth ==
    /\ Sent \subseteq Sent' /\ (FirstPut \/ Sent' = Sent)
    /\ \A d \in Sent' \ Sent : Somewhere(d)'

\* Every step of the pipeline does so.
LEMMA Steps ==
    ASSUME Placing, DataTypes, [Next]_vars
    PROVE  Progress /\ Unsent' /\ Growth
  <1> USE DEF Placing, flowVars, batchVars, downloadVars
  <1>1. CASE FirstPut
    <2>1. /\ Moving({Script[pos][2]}, 2, {})
          /\ Script[pos][2] \in Items /\ ~Somewhere(Script[pos][2])
          /\ Sent' = Sent \cup {Script[pos][2]} /\ Script[pos][2] \notin Sent
      BY <1>1, FirstPutStep
    <2>2. Passage
      BY <2>1 DEF Moving, Flows, Passage
    <2>3. Departure
      <3> SUFFICES ASSUME NEW d \in Items, Somewhere(d)
                   PROVE  Somewhere(d)'
        BY DEF Departure
      <3>1. \E k \in Depths : At(d, k)'
        BY <2>1 DEF Moving, Flows, Somewhere
      <3> QED
        BY <3>1 DEF Somewhere, Depths, EndStage
    <2>4. Growth
      <3>1. 2 \in Depths
        BY Order DEF Depths
      <3>2. \A d \in Sent' \ Sent : d = Script[pos][2]
        BY <2>1
      <3>3. \A d \in Sent' \ Sent : At(d, 2)'
        BY <2>1, <3>1, <3>2 DEF Moving, Flows
      <3>4. \A d \in Sent' \ Sent : Somewhere(d)'
        BY <3>1, <3>3 DEF Somewhere, Depths, EndStage
      <3> QED
        BY <1>1, <2>1, <3>4 DEF Growth
    <2>5. Progress
      BY <2>1, <2>2, <2>3 DEF Moving, Progress
    <2> QED
      BY <2>4, <2>5, PassageUnsent DEF Progress, Growth
  <1>2. ASSUME Progress, pos' = pos \/ (pos' = pos + 1 /\ Script[pos][1] = "await")
        PROVE  Progress /\ Unsent' /\ Growth
    <2>1. Sent' = Sent
      BY <1>2, SentKept
    <2> QED
      BY <1>2, <2>1, PassageUnsent DEF Growth, Progress
  <1>3. ASSUME UNCHANGED <<queue, held, batch, out>>, UNCHANGED handler
        PROVE  Progress
    <2>1. handler' \in [Items -> Handlers] /\ Pending' = Pending
      BY <1>3 DEF Placed, CarrierTypes, Pending
    <2> QED
      BY <1>3, <2>1, StillStep, SteadyProgress
  <1>4. CASE Resolution
    <2>1. UNCHANGED <<queue, held, batch, out>> /\ UNCHANGED handler /\ pos' = pos
      BY <1>4 DEF Resolution
    <2> QED
      BY <1>2, <1>3, <2>1
  <1>5. CASE FirstResumes
    <2>1. /\ UNCHANGED <<queue, held, batch, out>> /\ UNCHANGED handler
          /\ pos' = pos + 1 /\ Script[pos][1] = "await"
      BY <1>5 DEF FirstResumes
    <2> QED
      BY <1>2, <1>3, <2>1
  <1>6. ASSUME NEW s \in Stages \ {EndStage}, Put(s)
        PROVE  Progress /\ Unsent' /\ Growth
    <2>1. pos' = pos
      BY <1>6 DEF Put
    <2> QED
      BY <1>2, <1>6, <2>1, PutStep, SteadyProgress
  <1>7. ASSUME NEW s \in Stages \ {EndStage}, Finish(s)
        PROVE  Progress /\ Unsent' /\ Growth
    <2>1. pos' = pos
      BY <1>7 DEF Finish
    <2>2. End \notin ToSet(queue[s + 1])
      BY <1>7, NoSecondEnd
    <2> QED
      BY <1>2, <1>7, <2>1, <2>2, FinishStep, SteadyProgress
  <1>8. ASSUME NEW s \in Batching, Listen(s) \/ Collect(s)
        PROVE  Progress /\ Unsent' /\ Growth
    <2>1. pos' = pos /\ s \in Stages
      BY <1>8, Batchers DEF Listen, Collect
    <2> QED
      BY <1>2, <1>8, <2>1, ListenStep, CollectStep, SteadyProgress
  <1>9. ASSUME NEW s \in Batching \ {Querier, Saver, ContentSaver, Associator}, HandOver(s)
        PROVE  Progress /\ Unsent' /\ Growth
    <2>1. pos' = pos
      BY <1>9 DEF HandOver, Hands
    <2> QED
      BY <1>2, <1>9, <2>1, HandOverProgress
  <1>10. CASE ArmFlush(Saver)
    <2>1. UNCHANGED <<queue, held, batch, out>> /\ UNCHANGED handler /\ pos' = pos
      BY <1>10 DEF ArmFlush
    <2> QED
      BY <1>2, <1>3, <2>1
  <1>11. CASE QueryArtifacts(Querier)
    <2>1. pos' = pos
      BY <1>11 DEF QueryArtifacts, Hands
    <2> QED
      BY <1>2, <1>11, <2>1, QueryProgress
  <1>12. CASE SaveArtifacts(Saver)
    <2>1. pos' = pos
      BY <1>12 DEF SaveArtifacts, Hands
    <2> QED
      BY <1>2, <1>12, <2>1, SaveArtifactsProgress
  <1>13. CASE SaveContent(ContentSaver)
    <2>1. pos' = pos
      BY <1>13 DEF SaveContent, Hands
    <2> QED
      BY <1>2, <1>13, <2>1, SaveContentProgress
  <1>14. CASE Associate(Associator)
    <2>1. pos' = pos
      BY <1>14 DEF Associate
    <2> QED
      BY <1>2, <1>14, <2>1, AssociateProgress
  <1>15. ASSUME NEW s \in Batching, AddContent(s) \/ RemoveContent(s)
         PROVE  Progress /\ Unsent' /\ Growth
    <2>1. UNCHANGED <<queue, held, batch, out>> /\ UNCHANGED handler /\ pos' = pos
      BY <1>15 DEF AddContent, RemoveContent
    <2> QED
      BY <1>2, <1>3, <2>1
  <1>16. CASE ResolveFuture(Resolver)
    <2>1. pos' = pos
      BY <1>16 DEF ResolveFuture
    <2> QED
      BY <1>2, <1>16, <2>1, ResolveProgress
  <1>17. CASE Drain(EndStage)
    <2>1. pos' = pos
      BY <1>17 DEF Drain
    <2> QED
      BY <1>2, <1>17, <2>1, DrainProgress
  <1>18. CASE GetNext(Downloader)
    <2>1. pos' = pos
      BY <1>18 DEF GetNext
    <2> QED
      BY <1>2, <1>18, <2>1, GetNextStep, SteadyProgress
  <1>19. CASE DownloaderEnds(Downloader)
    <2>1. UNCHANGED <<queue, held, batch, out>> /\ UNCHANGED handler /\ pos' = pos
      BY <1>19 DEF DownloaderEnds
    <2> QED
      BY <1>2, <1>3, <2>1
  <1>20. ASSUME NEW d \in Items,
                \/ SkipDownload(Downloader, d) \/ Acquire(Downloader, d)
                \/ AwaitBudget(Downloader, d) \/ Downloaded(Downloader, d)
         PROVE  Progress /\ Unsent' /\ Growth
    <2>1. UNCHANGED <<queue, held, batch, out>> /\ pos' = pos
      BY <1>20 DEF SkipDownload, Acquire, AwaitBudget, Downloaded
    <2>2. \E h \in {"try", "blocked", "load", "put"} : handler' = [handler EXCEPT ![d] = h]
      BY <1>20 DEF SkipDownload, Acquire, AwaitBudget, Downloaded
    <2>3. d \in Pending
      BY <1>20 DEF SkipDownload, Acquire, AwaitBudget, Downloaded, Pending
    <2> QED
      BY <1>2, <2>1, <2>2, <2>3, TaskStep, SteadyProgress
  <1>21. ASSUME NEW d \in Items, PutDownloaded(Downloader, d)
         PROVE  Progress /\ Unsent' /\ Growth
    <2>1. pos' = pos
      BY <1>21 DEF PutDownloaded
    <2> QED
      BY <1>2, <1>21, <2>1, PutDownloadedProgress
  <1>22. ASSUME NEW d \in Items, DownloadFails(Downloader, d)
         PROVE  Progress /\ Unsent' /\ Growth
    <2>1. pos' = pos
      BY <1>22 DEF DownloadFails
    <2> QED
      BY <1>2, <1>22, <2>1, DownloadFailsProgress
  <1>23. ASSUME NEW s \in Stages, StageFails(s)
         PROVE  Progress /\ Unsent' /\ Growth
    <2>1. UNCHANGED <<queue, held, batch, out>> /\ UNCHANGED handler /\ pos' = pos
      BY <1>23 DEF StageFails
    <2> QED
      BY <1>2, <1>3, <2>1
  <1>24. ASSUME NEW s \in Stages, Cancel(s)
         PROVE  Progress /\ Unsent' /\ Growth
    <2>1. pos' = pos
      BY <1>24 DEF Cancel
    <2> QED
      BY <1>2, <1>24, <2>1, CancelProgress
  <1>25. CASE PipelineFails \/ PipelineSucceeds \/ OtherSaves
    <2>1. UNCHANGED <<queue, held, batch, out>> /\ UNCHANGED handler /\ pos' = pos
      BY <1>25 DEF PipelineFails, PipelineSucceeds, OtherSaves
    <2> QED
      BY <1>2, <1>3, <2>1
  <1>26. CASE UNCHANGED vars
    <2>1. UNCHANGED <<queue, held, batch, out>> /\ UNCHANGED handler /\ pos' = pos
      BY <1>26 DEF vars
    <2> QED
      BY <1>2, <1>3, <2>1
  <1> QED
    BY <1>1, <1>4, <1>5, <1>6, <1>7, <1>8, <1>9, <1>10, <1>11, <1>12, <1>13, <1>14,
       <1>15, <1>16, <1>17, <1>18, <1>19, <1>20, <1>21, <1>22, <1>23, <1>24, <1>25,
       <1>26, Cases

-----------------------------------------------------------------------------
(***************************************************************************)
(* The types, kept.                                                        *)
(***************************************************************************)
\* The coroutines of stages and their listeners stay in the states they have.
LEMMA ControlStep ==
    ASSUME ControlTypes, [Next]_vars
    PROVE  ControlTypes'
  <1> USE DEF flowVars, batchVars, downloadVars, ControlTypes
  <1>0. /\ \A s : AfterPut(s) \in Modes
        /\ {"wait", "handle", "put", "add", "tail", "finish", "done", "failed",
            "cancelled"} \subseteq Modes
    BY DEF AfterPut, Modes, Ended
  <1>1. CASE FirstPut \/ FirstResumes
    <2>1. /\ pos' = pos + 1 /\ pos <= Len(Script) /\ Len(Script) \in Nat
          /\ mode' = [mode EXCEPT ![First] = IF pos = Len(Script) THEN "finish" ELSE @]
          /\ UNCHANGED <<noBlock, shutdown, thaw, listener, getting, outcome>>
      BY <1>1, ScriptAssumption, LenProperties DEF FirstPut, FirstResumes
    <2>2. mode' \in [Stages -> Modes]
      BY <1>0, <2>1
    <2>3. pos' \in 1 .. Len(Script) + 1
      BY <2>1
    <2> QED
      BY <2>1, <2>2, <2>3
  <1>2. CASE Resolution
    <2>1. /\ UNCHANGED <<pos, noBlock, shutdown, listener, mode, getting, outcome>>
          /\ \E d : thaw' = [s \in Stages |-> thaw[s] \/ s \in HoldersOf(d)]
      BY <1>2 DEF Resolution
    <2> QED
      BY <2>1
  <1>3. ASSUME NEW s \in Stages \ {EndStage}, Put(s)
        PROVE  ControlTypes'
    <2>1. UNCHANGED <<pos, noBlock, shutdown, thaw, getting, outcome>>
      BY <1>3 DEF Put
    <2>2. \/ mode' = [mode EXCEPT ![s] = AfterPut(s)] /\ Rearm(s)
          \/ UNCHANGED <<mode, listener>>
      BY <1>3 DEF Put
    <2>3. mode' \in [Stages -> Modes] /\ listener' \in {"new", "armed", "fired", "off"}
      BY <1>0, <2>2 DEF Rearm
    <2> QED
      BY <2>1, <2>3
  <1>4. ASSUME NEW s \in Stages \ {EndStage}, Finish(s)
        PROVE  ControlTypes'
    BY <1>0, <1>4 DEF Finish
  <1>5. ASSUME NEW s \in Batching, Listen(s)
        PROVE  ControlTypes'
    BY <1>5 DEF Listen
  <1>6. ASSUME NEW s \in Batching, Collect(s)
        PROVE  ControlTypes'
    <2>1. UNCHANGED <<pos, getting, outcome>>
      BY <1>6 DEF Collect
    <2> DEFINE items == batch[s] \o WithoutEnd(Taken(s))
               ends == End \in ToSet(Taken(s))
               hurry == \/ noBlock[s] \/ thaw[s] \/ Flushed(s)
                        \/ \E d \in ToSet(items) : future[d] = "awaited"
               yields == /\ items # <<>>
                         /\ Len(items) >= MinSize(s) \/ ends \/ hurry
    <2>2. /\ noBlock' = [noBlock EXCEPT ![s] = hurry /\ ~yields]
          /\ shutdown' = [shutdown EXCEPT ![s] = ends]
          /\ mode' = [mode EXCEPT ![s] =
                 IF yields THEN "handle"
                 ELSE IF ~ends THEN "wait"
                 ELSE IF Kinds[s] = "associate" THEN "tail" ELSE "finish"]
          /\ thaw' = [thaw EXCEPT ![s] = FALSE]
          /\ listener' \in {"new", "armed", "fired", "off"}
      BY <1>6 DEF Collect
    <2>3. (hurry /\ ~yields) \in BOOLEAN /\ ends \in BOOLEAN
      OBVIOUS
    <2> HIDE DEF items, ends, hurry, yields
    <2>4. noBlock' \in [Stages -> BOOLEAN] /\ shutdown' \in [Stages -> BOOLEAN]
      BY <2>2, <2>3
    <2>5. mode' \in [Stages -> Modes] /\ thaw' \in [Stages -> BOOLEAN]
      BY <1>0, <2>2
    <2> QED
      BY <2>1, <2>2, <2>4, <2>5
  <1>7. ASSUME NEW s, \E items : Hands(s, items), UNCHANGED listener
        PROVE  ControlTypes'
    <2>1. UNCHANGED <<pos, noBlock, shutdown, thaw, getting, outcome>>
      BY <1>7 DEF Hands
    <2>2. \E m \in Modes : mode' = [mode EXCEPT ![s] = m]
      BY <1>0, <1>7 DEF Hands
    <2> QED
      BY <1>7, <2>1, <2>2
  <1>8. ASSUME NEW s \in Batching \ {Querier, Saver, ContentSaver, Associator}, HandOver(s)
        PROVE  ControlTypes'
    BY <1>7, <1>8 DEF HandOver
  <1>9. CASE ArmFlush(Saver)
    BY <1>9 DEF ArmFlush
  <1>10. CASE QueryArtifacts(Querier)
    BY <1>7, <1>10 DEF QueryArtifacts
  <1>11. CASE SaveArtifacts(Saver)
    BY <1>7, <1>11 DEF SaveArtifacts
  <1>12. CASE SaveContent(ContentSaver)
    BY <1>7, <1>12 DEF SaveContent
  <1>13. CASE Associate(Associator)
    <2>1. UNCHANGED <<pos, noBlock, shutdown, thaw, listener, getting, outcome>>
      BY <1>13 DEF Associate
    <2>2. \E m \in Modes : mode' = [mode EXCEPT ![Associator] = m]
      BY <1>0, <1>13 DEF Associate
    <2> QED
      BY <2>1, <2>2
  <1>14. ASSUME NEW s \in Batching, AddContent(s) \/ RemoveContent(s)
         PROVE  ControlTypes'
    BY <1>0, <1>14 DEF AddContent, RemoveContent
  <1>15. CASE ResolveFuture(Resolver)
    <2>1. UNCHANGED <<pos, noBlock, shutdown, thaw, listener, getting, outcome>>
      BY <1>15 DEF ResolveFuture
    <2>2. \E m \in Modes : mode' = [mode EXCEPT ![Resolver] = m]
      BY <1>0, <1>15 DEF ResolveFuture
    <2> QED
      BY <2>1, <2>2
  <1>16. CASE Drain(EndStage)
    BY <1>0, <1>16 DEF Drain
  <1>17. CASE GetNext(Downloader)
    <2>1. UNCHANGED <<pos, mode, noBlock, thaw, listener, outcome>>
      BY <1>17 DEF GetNext
    <2>2. getting' \in BOOLEAN
      <3>1. getting' = FALSE \/ getting' = (Cardinality(Pending) + 1 < MaxConcurrent)
        BY <1>17 DEF GetNext
      <3>2. (Cardinality(Pending) + 1 < MaxConcurrent) \in BOOLEAN
        OBVIOUS
      <3> QED
        BY <3>1, <3>2
    <2>3. shutdown' = shutdown \/ shutdown' = [shutdown EXCEPT ![Downloader] = TRUE]
      BY <1>17 DEF GetNext
    <2> QED
      BY <2>1, <2>2, <2>3
  <1>18. CASE DownloaderEnds(Downloader)
    BY <1>0, <1>18 DEF DownloaderEnds
  <1>19. ASSUME NEW d \in Items,
                \/ SkipDownload(Downloader, d) \/ Acquire(Downloader, d)
                \/ Downloaded(Downloader, d)
         PROVE  ControlTypes'
    BY <1>19 DEF SkipDownload, Acquire, Downloaded
  <1>20. ASSUME NEW d \in Items, AwaitBudget(Downloader, d)
         PROVE  ControlTypes'
    BY <1>20 DEF AwaitBudget
  <1>21. ASSUME NEW d \in Items, PutDownloaded(Downloader, d)
         PROVE  ControlTypes'
    <2>1. UNCHANGED <<pos, mode, noBlock, shutdown, thaw, listener, outcome>>
      BY <1>21 DEF PutDownloaded
    <2>2. getting' \in BOOLEAN
      BY <1>21 DEF PutDownloaded
    <2> QED
      BY <2>1, <2>2
  <1>22. ASSUME NEW d \in Items, DownloadFails(Downloader, d)
         PROVE  ControlTypes'
    BY <1>0, <1>22 DEF DownloadFails
  <1>23. ASSUME NEW s \in Stages, StageFails(s)
         PROVE  ControlTypes'
    BY <1>0, <1>23 DEF StageFails
  <1>24. ASSUME NEW s \in Stages, Cancel(s)
         PROVE  ControlTypes'
    <2>1. UNCHANGED <<pos, noBlock, shutdown, thaw, listener, getting, outcome>>
      BY <1>24 DEF Cancel
    <2>2. mode' = [mode EXCEPT ![s] = "cancelled"]
      BY <1>24 DEF Cancel
    <2> QED
      BY <1>0, <2>1, <2>2
  <1>25. CASE PipelineFails \/ PipelineSucceeds \/ OtherSaves
    BY <1>25 DEF PipelineFails, PipelineSucceeds, OtherSaves
  <1>26. CASE UNCHANGED vars
    BY <1>26 DEF vars
  <1> QED
    BY <1>1, <1>2, <1>3, <1>4, <1>5, <1>6, <1>8, <1>9, <1>10, <1>11, <1>12, <1>13, <1>14,
       <1>15, <1>16, <1>17, <1>18, <1>19, <1>20, <1>21, <1>22, <1>23, <1>24, <1>25,
       <1>26, Cases

\* A batch that the association is yielded has its content saved.
LEMMA BatchSaved ==
    ASSUME Placed, SavedFirst, NEW d \in ToSet(batch[Associator])
    PROVE  d \in Items /\ At(d, Associator) /\ Key[d] \in rows
  <1>1. Associator \in Stages /\ Associator \in Depths /\ Associator > ContentSaver
    BY Order DEF Depths
  <1>2. d \in Items
    BY <1>1, WholeBatch
  <1>3. In(d, "batch", Associator) /\ "batch" \in Carriers
    BY <1>1, <1>2, Forms DEF Carriers
  <1>4. At(d, Reach("batch", Associator)) /\ Reach("batch", Associator) = Associator
    BY <1>1, <1>2, <1>3, Deep DEF Reach
  <1> QED
    BY <1>1, <1>2, <1>4 DEF SavedFirst

\* The budget, the artifacts, the futures and what the database has keep their
\* types, and what was there before the sync stays.
LEMMA DataStep ==
    ASSUME Placed, DataTypes, SavedFirst, [Next]_vars
    PROVE  DataTypes'
  <1> USE DEF budgetVars, itemVars, dbVars, DataTypes
  <1>1. CASE UNCHANGED <<budgetVars, itemVars, dbVars>>
    BY <1>1
  <1>2. CASE Resolution
    <2>1. /\ UNCHANGED <<budgetVars, dbVars, artifact>>
          /\ \E d : future' = [future EXCEPT ![d] = "awaited"]
      BY <1>2 DEF Resolution
    <2> QED
      BY <2>1
  <1>3. CASE QueryArtifacts(Querier)
    <2>1. /\ UNCHANGED <<budgetVars, dbVars, future>>
          /\ artifact' \in [Items -> {"none", "wanted", "file", "saved"}]
      BY <1>3 DEF QueryArtifacts
    <2> QED
      BY <2>1
  <1>4. CASE SaveArtifacts(Saver)
    <2>1. /\ UNCHANGED <<dbVars, future>>
          /\ artifact' \in [Items -> {"none", "wanted", "file", "saved"}]
      BY <1>4 DEF SaveArtifacts
    <2>2. /\ acquired' = acquired \ ToSet(batch[Saver]) /\ flush' \in BOOLEAN
          /\ used' \in Nat /\ bytes' \in Nat
      BY <1>4, SaveRelease
    <2> QED
      BY <2>1, <2>2
  <1>5. CASE SaveContent(ContentSaver)
    <2>1. /\ UNCHANGED <<budgetVars, itemVars, toAdd, toDelete, version>>
          /\ rows \subseteq rows'
      BY <1>5 DEF SaveContent
    <2> QED
      BY <2>1
  <1>6. CASE Associate(Associator)
    <2> DEFINE items == batch[Associator]
               new == {i \in DOMAIN items : ~Present(items, i)}
    <2>1. /\ UNCHANGED <<budgetVars, itemVars, rows, version>>
          /\ toAdd' = {Key[items[i]] : i \in new}
          /\ toDelete' = toDelete \ {Key[d] : d \in ToSet(items)}
      BY <1>6 DEF Associate
    <2>2. \A i \in new : items[i] \in ToSet(items)
      <3>1. items \in Seq(Items)
        BY WholeBatch, Order
      <3> QED
        BY <3>1, LenProperties DEF ToSet
    <2>3. \A i \in new : Key[items[i]] \in rows
      BY <2>2, BatchSaved
    <2> QED
      BY <2>1, <2>3
  <1>7. ASSUME NEW s \in Batching, AddContent(s)
        PROVE  DataTypes'
    BY <1>7 DEF AddContent
  <1>8. ASSUME NEW s \in Batching, RemoveContent(s)
        PROVE  DataTypes'
    BY <1>8 DEF RemoveContent
  <1>9. CASE ResolveFuture(Resolver)
    <2>1. UNCHANGED <<budgetVars, dbVars, artifact>>
      BY <1>9 DEF ResolveFuture
    <2>2. future' = future \/ \E d : future' = [future EXCEPT ![d] = "resolved"]
      BY <1>9 DEF ResolveFuture
    <2> QED
      BY <2>1, <2>2
  <1>10. ASSUME NEW d \in Items, Acquire(Downloader, d)
         PROVE  DataTypes'
    <2>1. /\ used' = used + 1 /\ bytes' = bytes + Advertised[d]
          /\ acquired' = acquired \cup {d}
          /\ UNCHANGED <<flush, dbVars, itemVars>>
      BY <1>10 DEF Acquire
    <2>2. Advertised[d] \in Nat
      BY StagesAssumption
    <2> QED
      BY <2>1, <2>2
  <1>11. ASSUME NEW d \in Items, AwaitBudget(Downloader, d)
         PROVE  DataTypes'
    BY <1>11 DEF AwaitBudget
  <1>12. ASSUME NEW d \in Items, Downloaded(Downloader, d)
         PROVE  DataTypes'
    <2>1. /\ UNCHANGED <<budgetVars, dbVars, future>>
          /\ artifact' = [artifact EXCEPT ![d] = "file"]
      BY <1>12 DEF Downloaded
    <2> QED
      BY <2>1
  <1>13. ASSUME NEW d \in Items, DownloadFails(Downloader, d)
         PROVE  DataTypes'
    <2>1. UNCHANGED <<dbVars, itemVars>>
      BY <1>13 DEF DownloadFails
    <2>2. /\ acquired' = acquired \ Paid({d}) /\ flush' \in BOOLEAN
          /\ used' \in Nat /\ bytes' \in Nat
      BY <1>13, FailedTask
    <2> QED
      BY <2>1, <2>2
  <1>14. ASSUME NEW s \in Stages, Cancel(s)
         PROVE  DataTypes'
    <2>1. UNCHANGED <<dbVars, itemVars>>
      BY <1>14 DEF Cancel
    <2>2. CASE s = Downloader
      BY <1>14, <2>1, <2>2, CancelTasks
    <2>3. CASE s # Downloader
      <3>1. UNCHANGED budgetVars
        BY <1>14, <2>3, Kinded DEF Cancel
      <3> QED
        BY <2>1, <3>1
    <2> QED
      BY <2>2, <2>3
  <1>15. CASE PipelineFails
    BY <1>15 DEF PipelineFails
  <1>16. CASE OtherSaves
    BY <1>16 DEF OtherSaves
  <1>17. ASSUME NEW s \in Stages \ {EndStage}, Put(s) \/ Finish(s)
         PROVE  UNCHANGED <<budgetVars, itemVars, dbVars>>
    BY <1>17 DEF Put, Finish
  <1>18. ASSUME NEW s \in Batching, Listen(s) \/ Collect(s) \/ HandOver(s)
         PROVE  UNCHANGED <<budgetVars, itemVars, dbVars>>
    BY <1>18 DEF Listen, Collect, HandOver
  <1>19. ASSUME NEW d \in Items, SkipDownload(Downloader, d) \/ PutDownloaded(Downloader, d)
         PROVE  UNCHANGED <<budgetVars, itemVars, dbVars>>
    BY <1>19 DEF SkipDownload, PutDownloaded
  <1>20. ASSUME \/ FirstPut \/ FirstResumes \/ ArmFlush(Saver) \/ Drain(EndStage)
                \/ GetNext(Downloader) \/ DownloaderEnds(Downloader)
                \/ (\E s \in Stages : StageFails(s)) \/ PipelineSucceeds \/ UNCHANGED vars
         PROVE  UNCHANGED <<budgetVars, itemVars, dbVars>>
    BY <1>20 DEF FirstPut, FirstResumes, ArmFlush, Drain, GetNext, DownloaderEnds,
                 StageFails, PipelineSucceeds, vars
  <1> QED
    BY <1>1, <1>2, <1>3, <1>4, <1>5, <1>6, <1>7, <1>8, <1>9, <1>10, <1>11, <1>12, <1>13,
       <1>14, <1>15, <1>16, <1>17, <1>18, <1>19, <1>20, Cases

-----------------------------------------------------------------------------
(***************************************************************************)
(* What stages have in hand and where they are, kept.                      *)
(***************************************************************************)
\* Where a stage goes when it has put its last item.
LEMMA After ==
    ASSUME NEW s \in Stages
    PROVE  /\ AfterPut(s) \in {"add", "wait", "tail", "finish"}
           /\ AfterPut(s) = "add" => s = Associator
           /\ AfterPut(s) = "tail" => s = Associator
           /\ AfterPut(s) \in {"tail", "finish"} => shutdown[s]
           /\ s = Associator /\ toAdd # {} => AfterPut(s) = "add"
           /\ s = Associator => AfterPut(s) # "finish"
  BY Kinded DEF AfterPut

\* Each stage but the association hands its whole batch on.
LEMMA HandsOf ==
    ASSUME \/ \E s \in Batching \ {Querier, Saver, ContentSaver, Associator} : HandOver(s)
           \/ QueryArtifacts(Querier) \/ SaveArtifacts(Saver) \/ SaveContent(ContentSaver)
    PROVE  /\ \E s \in Batching \ {Associator} : \E items : Hands(s, items)
           /\ toAdd' = toAdd /\ toDelete' = toDelete /\ version' = version
  <1>1. {Querier, Saver, ContentSaver} \subseteq Batching \ {Associator}
    BY Order, Batchers
  <1>2. ASSUME NEW s \in Batching \ {Querier, Saver, ContentSaver, Associator}, HandOver(s)
        PROVE  /\ \E r \in Batching \ {Associator} : \E items : Hands(r, items)
               /\ toAdd' = toAdd /\ toDelete' = toDelete /\ version' = version
    BY <1>2 DEF HandOver, dbVars
  <1>3. CASE QueryArtifacts(Querier)
    BY <1>1, <1>3 DEF QueryArtifacts, dbVars
  <1>4. CASE SaveArtifacts(Saver)
    BY <1>1, <1>4 DEF SaveArtifacts, dbVars
  <1>5. CASE SaveContent(ContentSaver)
    BY <1>1, <1>5 DEF SaveContent
  <1> QED
    BY <1>2, <1>3, <1>4, <1>5

\* It is kept when the one stage that moves has put all it had.
LEMMA EmptiesKept ==
    ASSUME Empties, NEW s \in Stages,
           \A r \in Stages : r # s => /\ mode'[r] = mode[r] /\ out'[r] = out[r]
                                     /\ batch'[r] = batch[r] /\ held'[r] = held[r],
           mode'[s] \in Idling => out'[s] = <<>>,
           mode'[s] \in Closed \cup {"put", "add"} => batch'[s] = <<>>,
           s \notin Batching => batch'[s] = <<>> /\ held'[s] = Nothing,
           s \notin Batching /\ s # Resolver => out'[s] = <<>>,
           queue'[First] = <<>>,
           mode'[Associator] \in Closed \cup {"wait", "handle"} => toAdd' = {}
    PROVE  Empties'
  <1>1. \A r \in Stages : mode'[r] \in Idling => out'[r] = <<>>
    BY DEF Empties
  <1>2. \A r \in Stages : mode'[r] \in Closed \cup {"put", "add"} => batch'[r] = <<>>
    BY DEF Empties
  <1>3. \A r \in Stages \ Batching : batch'[r] = <<>> /\ held'[r] = Nothing
    BY DEF Empties
  <1>4. \A r \in Stages \ Batching : r # Resolver => out'[r] = <<>>
    BY DEF Empties
  <1> QED
    BY <1>1, <1>2, <1>3, <1>4 DEF Empties

\* A stage that handles, waits, or is over has put all it had.
LEMMA EmptiesStep ==
    ASSUME Placed, ControlTypes, Empties, Postures, Ending, [Next]_vars
    PROVE  Empties'
  <1> USE DEF flowVars, batchVars, dbVars, Idling, Closed, Empties
  <1>0. /\ queue \in [Stages -> Seq(Items \cup {End})]
        /\ held \in [Stages -> Items \cup {End, Nothing}]
        /\ batch \in [Stages -> Seq(Items)] /\ out \in [Stages -> Seq(Items)]
        /\ mode \in [Stages -> Modes]
        /\ Batching \subseteq Stages /\ Associator \in Batching
        /\ {First, Downloader, Resolver, EndStage, Associator} \subseteq Stages
        /\ Batching \cap {First, Downloader, Resolver, EndStage} = {}
        /\ First # Resolver /\ Downloader # Resolver /\ EndStage # Resolver
        /\ First # EndStage /\ First # Downloader
    <2>1. /\ queue \in [Stages -> Seq(Items \cup {End})]
          /\ held \in [Stages -> Items \cup {End, Nothing}]
          /\ batch \in [Stages -> Seq(Items)] /\ out \in [Stages -> Seq(Items)]
          /\ mode \in [Stages -> Modes]
      BY DEF Placed, CarrierTypes, ControlTypes
    <2>2. /\ Batching \subseteq Stages /\ Associator \in Batching
          /\ Batching \cap {First, Downloader, Resolver, EndStage} = {}
      BY Batchers
    <2>3. /\ {First, Downloader, Resolver, EndStage, Associator} \subseteq Stages
          /\ First # Resolver /\ Downloader # Resolver /\ EndStage # Resolver
          /\ First # EndStage /\ First # Downloader
      BY Order
    <2> QED
      BY <2>1, <2>2, <2>3
  <1>1. CASE FirstPut \/ FirstResumes
    <2>1. /\ mode'[First] \in {"finish", mode[First]}
          /\ \A s \in Stages : s # First => mode'[s] = mode[s]
          /\ UNCHANGED <<held, batch, out, toAdd>>
      BY <1>0, <1>1 DEF FirstPut, FirstResumes
    <2>2. queue'[First] = queue[First]
      <3>1. First # 2
        BY Order
      <3>2. CASE FirstPut
        BY <1>0, <3>1, <3>2 DEF FirstPut
      <3>3. CASE FirstResumes
        BY <3>3 DEF FirstResumes
      <3> QED
        BY <1>1, <3>2, <3>3
    <2> QED
      BY <1>0, <2>1, <2>2
  <1>2. CASE Resolution \/ ArmFlush(Saver)
    BY <1>2 DEF Resolution, ArmFlush
  <1>3. ASSUME NEW s \in Stages \ {EndStage}, Put(s)
        PROVE  Empties'
    <2>1. /\ \A r \in Stages : out'[r] = IF r = s THEN Tail(out[s]) ELSE out[r]
          /\ UNCHANGED <<held, batch, toAdd>>
          /\ mode[s] = "put" /\ out[s] # <<>>
      BY <1>0, <1>3 DEF Put
    <2>2. \/ /\ Len(out[s]) = 1
             /\ \A r \in Stages : mode'[r] = IF r = s THEN AfterPut(s) ELSE mode[r]
          \/ mode' = mode
      BY <1>0, <1>3 DEF Put
    <2>3. Len(out[s]) = 1 => Tail(out[s]) = <<>>
      <3>1. out[s] \in Seq(Items) /\ out[s] # <<>>
        BY <1>0, <2>1
      <3> QED
        BY <3>1, Taken1
    <2>4. queue'[First] = queue[First]
      <3>1. s + 1 # First
        BY Order
      <3> QED
        BY <1>0, <1>3, <3>1 DEF Put
    <2>5. s \in Batching \/ s = Resolver
      BY <2>1 DEF Postures
    <2>6. s = Associator /\ toAdd # {} => AfterPut(s) = "add"
      BY <1>0, After
    <2>0. s \in Stages
      OBVIOUS
    <2>7. mode'[s] = "put" \/ (mode'[s] = AfterPut(s) /\ out'[s] = <<>>)
      <3>1. CASE mode' = mode
        BY <2>1, <3>1
      <3>2. CASE Len(out[s]) = 1 /\ mode'[s] = AfterPut(s)
        <4>1. out'[s] = Tail(out[s])
          BY <2>0, <2>1
        <4> QED
          BY <2>3, <3>2, <4>1
      <3> QED
        BY <2>0, <2>2, <3>1, <3>2
    <2>8. batch'[s] = <<>> /\ held' = held /\ queue'[First] = <<>>
      BY <2>1, <2>4
    <2>9. s = Associator /\ toAdd # {} => mode'[s] \in {"add", "put"}
      BY <2>6, <2>7
    <2>10. mode'[Associator] \in Closed \cup {"wait", "handle"} => toAdd' = {}
      <3>1. CASE s = Associator
        BY <2>1, <2>9, <3>1
      <3>2. CASE s # Associator
        BY <1>0, <2>1, <2>2, <3>2
      <3> QED
        BY <3>1, <3>2
    <2>11. \A r \in Stages : r # s => /\ mode'[r] = mode[r] /\ out'[r] = out[r]
                                      /\ batch'[r] = batch[r] /\ held'[r] = held[r]
      BY <2>1, <2>2
    <2>12. mode'[s] \in Idling => out'[s] = <<>>
      BY <2>7
    <2>13. s \notin Batching => held'[s] = Nothing
      BY <2>0, <2>8
    <2> HIDE DEF Empties, Idling, Closed
    <2> QED
      BY <2>0, <2>5, <2>8, <2>10, <2>11, <2>12, <2>13, EmptiesKept
  <1>4. ASSUME NEW s \in Stages \ {EndStage}, Finish(s)
        PROVE  Empties'
    <2>1. /\ \A r \in Stages : mode'[r] = IF r = s THEN "done" ELSE mode[r]
          /\ mode[s] = "finish" /\ UNCHANGED <<held, batch, out, toAdd>>
      BY <1>0, <1>4 DEF Finish
    <2>2. queue'[First] = queue[First]
      <3>1. s + 1 # First
        BY Order
      <3> QED
        BY <1>0, <1>4, <3>1 DEF Finish
    <2> QED
      BY <1>0, <2>1, <2>2
  <1>5. ASSUME NEW s \in Batching, Listen(s)
        PROVE  Empties'
    <2>1. /\ UNCHANGED <<batch, out, mode, toAdd>>
          /\ \A r \in Stages : r # s => held'[r] = held[r] /\ queue'[r] = queue[r]
      BY <1>0, <1>5 DEF Listen
    <2> QED
      BY <1>0, <2>1
  <1>6. ASSUME NEW s \in Batching, Collect(s)
        PROVE  Empties'
    <2> DEFINE items == batch[s] \o WithoutEnd(Taken(s))
               ends == End \in ToSet(Taken(s))
               hurry == \/ noBlock[s] \/ thaw[s] \/ Flushed(s)
                        \/ \E d \in ToSet(items) : future[d] = "awaited"
               yields == /\ items # <<>>
                         /\ Len(items) >= MinSize(s) \/ ends \/ hurry
    <2>1. /\ mode[s] = "wait" /\ UNCHANGED <<out, toAdd>>
          /\ batch' = [batch EXCEPT ![s] = items]
          /\ mode' = [mode EXCEPT ![s] =
                 IF yields THEN "handle"
                 ELSE IF ~ends THEN "wait"
                 ELSE IF Kinds[s] = "associate" THEN "tail" ELSE "finish"]
          /\ \A r \in Stages : r # s => held'[r] = held[r] /\ queue'[r] = queue[r]
      BY <1>0, <1>6 DEF Collect
    <2>2. ends /\ ~yields => items = <<>>
      OBVIOUS
    <2> HIDE DEF items, ends, hurry, yields
    <2>3. /\ \A r \in Stages : r # s => mode'[r] = mode[r] /\ batch'[r] = batch[r]
          /\ batch'[s] = items /\ mode'[s] \in {"handle", "wait", "tail", "finish"}
          /\ mode'[s] \in {"tail", "finish"} => ends /\ ~yields
      BY <1>0, <2>1
    <2>4. /\ mode'[s] \in Idling => out'[s] = <<>>
          /\ mode'[s] \in Closed \cup {"put", "add"} => batch'[s] = <<>>
      BY <1>0, <2>1, <2>2, <2>3
    <2>5. /\ \A r \in Stages : r # s => /\ mode'[r] = mode[r] /\ out'[r] = out[r]
                                       /\ batch'[r] = batch[r] /\ held'[r] = held[r]
      BY <1>0, <2>1, <2>3
    <2>8. queue'[First] = <<>>
      BY <1>0, <2>1
    <2>6. toAdd' = {} \/ (s # Associator /\ toAdd' = toAdd)
      BY <2>1
    <2>7. mode'[Associator] \in Closed \cup {"wait", "handle"} => toAdd' = {}
      BY <1>0, <2>5, <2>6
    <2> HIDE DEF Empties, Idling, Closed
    <2> QED
      BY <1>0, <2>4, <2>5, <2>7, <2>8, EmptiesKept, Zenon
  <1>7. ASSUME NEW s \in Batching \ {Associator}, NEW items, Hands(s, items), toAdd' = toAdd
        PROVE  Empties'
    <2>1. /\ mode[s] = "handle" /\ UNCHANGED <<queue, held>>
          /\ \A r \in Stages : batch'[r] = IF r = s THEN <<>> ELSE batch[r]
          /\ \A r \in Stages : out'[r] = IF r = s THEN items ELSE out[r]
          /\ \A r \in Stages : mode'[r] = IF r = s
                  THEN IF items = <<>> THEN AfterPut(s) ELSE "put" ELSE mode[r]
      BY <1>0, <1>7 DEF Hands
    <2>2. /\ mode'[s] \in Idling => out'[s] = <<>>
          /\ batch'[s] = <<>> /\ s # Associator /\ s \in Stages
      BY <1>0, <1>7, <2>1
    <2>3. /\ \A r \in Stages : r # s => /\ mode'[r] = mode[r] /\ out'[r] = out[r]
                                       /\ batch'[r] = batch[r] /\ held'[r] = held[r]
          /\ queue'[First] = <<>>
      BY <2>1
    <2>4. mode'[Associator] \in Closed \cup {"wait", "handle"} => toAdd' = {}
      BY <1>0, <1>7, <2>2, <2>3
    <2> HIDE DEF Empties, Idling, Closed
    <2> QED
      BY <1>0, <1>7, <2>2, <2>3, <2>4, EmptiesKept, Zenon
  <1>8. CASE Associate(Associator)
    <2>1. /\ mode[Associator] = "handle" /\ UNCHANGED <<queue, held>>
          /\ \A r \in Stages : batch'[r] = IF r = Associator THEN <<>> ELSE batch[r]
          /\ toAdd' = {Key[batch[Associator][i]] : i \in Fresh(batch[Associator])}
      BY <1>0, <1>8 DEF Associate, Fresh
    <2>2. \A r \in Stages : mode'[r] = IF r = Associator
              THEN IF Fresh(batch[Associator]) # {} THEN "put" ELSE AfterPut(Associator)
              ELSE mode[r]
      BY <1>0, <1>8 DEF Associate, Fresh
    <2>3. \A r \in Stages : r # Associator => out'[r] = out[r]
      BY <1>0, <1>8 DEF Associate
    <2>4. Fresh(batch[Associator]) = {} => out'[Associator] = <<>> /\ toAdd' = {}
      BY <1>0, <1>8, <2>1, AssociateStep
    <2> QED
      BY <1>0, <2>1, <2>2, <2>3, <2>4
  <1>9. ASSUME NEW s \in Batching, AddContent(s)
        PROVE  Empties'
    <2>1. /\ mode[s] = "add" /\ toAdd' = {} /\ UNCHANGED <<queue, held, batch, out>>
          /\ \A r \in Stages : r # s => mode'[r] = mode[r]
          /\ mode'[s] \in {"tail", "wait"}
      BY <1>0, <1>9 DEF AddContent
    <2> QED
      BY <1>0, <2>1
  <1>10. ASSUME NEW s \in Batching, RemoveContent(s)
         PROVE  Empties'
    <2>1. /\ mode[s] = "tail" /\ UNCHANGED <<queue, held, batch, out, toAdd>>
          /\ \A r \in Stages : mode'[r] = IF r = s THEN "finish" ELSE mode[r]
      BY <1>0, <1>10 DEF RemoveContent
    <2> QED
      BY <1>0, <2>1
  <1>11. CASE ResolveFuture(Resolver)
    <2>1. /\ mode[Resolver] = "wait" /\ UNCHANGED <<held, batch, toAdd>>
          /\ \A r \in Stages : r # Resolver => /\ queue'[r] = queue[r] /\ mode'[r] = mode[r]
                                               /\ out'[r] = out[r]
      BY <1>0, <1>11 DEF ResolveFuture
    <2>2. \/ mode'[Resolver] = "finish" /\ out' = out
          \/ mode'[Resolver] = "put"
      BY <1>0, <1>11 DEF ResolveFuture
    <2>3. Resolver # Associator
      BY Order
    <2> QED
      BY <1>0, <2>1, <2>2, <2>3
  <1>12. CASE Drain(EndStage)
    <2>1. /\ UNCHANGED <<held, batch, out, toAdd>>
          /\ \A r \in Stages : r # EndStage => queue'[r] = queue[r] /\ mode'[r] = mode[r]
      BY <1>0, <1>12 DEF Drain
    <2> QED
      BY <1>0, <2>1
  <1>13. CASE GetNext(Downloader)
    <2>1. /\ UNCHANGED <<held, batch, out, mode, toAdd>>
          /\ \A r \in Stages : r # Downloader => queue'[r] = queue[r]
      BY <1>0, <1>13 DEF GetNext
    <2> QED
      BY <1>0, <2>1
  <1>14. CASE DownloaderEnds(Downloader)
    <2>1. /\ UNCHANGED <<queue, held, batch, out, toAdd>>
          /\ \A r \in Stages : r # Downloader => mode'[r] = mode[r]
      BY <1>0, <1>14 DEF DownloaderEnds
    <2> QED
      BY <1>0, <2>1
  <1>15. ASSUME NEW d \in Items,
                \/ SkipDownload(Downloader, d) \/ Acquire(Downloader, d)
                \/ AwaitBudget(Downloader, d) \/ Downloaded(Downloader, d)
         PROVE  Empties'
    BY <1>15 DEF SkipDownload, Acquire, AwaitBudget, Downloaded
  <1>16. ASSUME NEW d \in Items, PutDownloaded(Downloader, d)
         PROVE  Empties'
    <2>1. UNCHANGED <<held, batch, out, mode, toAdd>>
      BY <1>16 DEF PutDownloaded
    <2>2. queue'[First] = queue[First]
      <3>1. Downloader + 1 # First
        BY Order
      <3> QED
        BY <1>0, <1>16, <3>1 DEF PutDownloaded
    <2> QED
      BY <2>1, <2>2
  <1>17. ASSUME NEW s \in Stages, mode' = [mode EXCEPT ![s] = "failed"]
                                  \/ mode' = [mode EXCEPT ![s] = "cancelled"],
                UNCHANGED <<queue, held, batch, out, toAdd>>
         PROVE  Empties'
    <2>1. /\ mode'[s] \in {"failed", "cancelled"}
          /\ \A r \in Stages : r # s => mode'[r] = mode[r]
      BY <1>0, <1>17
    <2>2. mode'[s] \notin Closed \cup {"wait", "handle"}
      BY <2>1
    <2>3. UNCHANGED <<out, batch, held, toAdd>> /\ queue'[First] = queue[First]
      BY <1>17
    <2>4. /\ mode'[s] \in Idling => out'[s] = <<>>
          /\ mode'[s] \in Closed \cup {"put", "add"} => batch'[s] = <<>>
          /\ s \notin Batching => batch'[s] = <<>> /\ held'[s] = Nothing
          /\ s \notin Batching /\ s # Resolver => out'[s] = <<>>
          /\ queue'[First] = <<>>
      BY <2>1, <2>3
    <2>5. mode'[Associator] \in Closed \cup {"wait", "handle"} => toAdd' = {}
      BY <1>0, <2>1, <2>2, <2>3
    <2>6. \A r \in Stages : r # s => /\ mode'[r] = mode[r] /\ out'[r] = out[r]
                                     /\ batch'[r] = batch[r] /\ held'[r] = held[r]
      BY <2>1, <2>3
    <2> HIDE DEF Empties, Idling, Closed
    <2> QED
      BY <2>4, <2>5, <2>6, EmptiesKept
  <1>18. ASSUME NEW d \in Items, DownloadFails(Downloader, d)
         PROVE  Empties'
    BY <1>0, <1>17, <1>18 DEF DownloadFails
  <1>19. ASSUME NEW s \in Stages, StageFails(s) \/ Cancel(s)
         PROVE  Empties'
    <2>1. /\ mode' = [mode EXCEPT ![s] = "failed"] \/ mode' = [mode EXCEPT ![s] = "cancelled"]
          /\ UNCHANGED <<queue, held, batch, out, toAdd>>
      BY <1>19 DEF StageFails, Cancel
    <2> QED
      BY <1>17, <2>1
  <1>20. CASE PipelineFails \/ PipelineSucceeds \/ OtherSaves \/ UNCHANGED vars
    BY <1>20 DEF PipelineFails, PipelineSucceeds, OtherSaves, vars
  <1>21. CASE \/ \E s \in Batching \ {Querier, Saver, ContentSaver, Associator} : HandOver(s)
              \/ QueryArtifacts(Querier) \/ SaveArtifacts(Saver) \/ SaveContent(ContentSaver)
    BY <1>7, <1>21, HandsOf
  <1> QED
    BY <1>1, <1>2, <1>3, <1>4, <1>5, <1>6, <1>8, <1>9, <1>10, <1>11, <1>12, <1>13, <1>14,
       <1>15, <1>16, <1>18, <1>19, <1>20, <1>21, Cases

\* Where one stage goes, the others stay.
LEMMA OnePosture ==
    ASSUME Postures, NEW s \in Stages, \A r \in Stages : r # s => mode'[r] = mode[r],
           mode'[s] = "handle" => s \in Batching,
           mode'[s] \in {"add", "tail"} => s = Associator,
           mode'[s] = "put" => s \in Batching \/ s = Resolver,
           mode'[s] = "finish" => s # EndStage,
           mode'[s] \in {"failed", "cancelled"} => outcome' \notin {"running", "ok"},
           outcome' \in {"running", "ok"} => outcome \in {"running", "ok"}
    PROVE  Postures'
  <1>1. EndStage' = EndStage /\ EndStage \in Stages
    BY Order DEF EndStage
  <1>2. mode'[EndStage] # "finish"
    BY <1>1 DEF Postures
  <1>3. /\ \A r \in Stages : mode'[r] = "handle" => r \in Batching
        /\ \A r \in Stages : mode'[r] \in {"add", "tail"} => r = Associator
        /\ \A r \in Stages : mode'[r] = "put" => r \in Batching \/ r = Resolver
    BY DEF Postures
  <1>4. outcome' \in {"running", "ok"} =>
            \A r \in Stages : mode'[r] \notin {"failed", "cancelled"}
    BY DEF Postures
  <1> QED
    BY <1>2, <1>3, <1>4 DEF Postures, EndStage

\* Only stages that read batches() handle them, only the association adds and
\* removes content, and no stage has failed while the pipeline runs.
LEMMA PosturesStep ==
    ASSUME ControlTypes, Postures, [Next]_vars
    PROVE  Postures'
  <1> USE DEF flowVars
  <1>0. /\ mode \in [Stages -> Modes] /\ Batching \subseteq Stages /\ Associator \in Batching
        /\ {First, Downloader, Resolver, EndStage, Associator} \subseteq Stages
        /\ EndStage \notin Batching /\ EndStage # First /\ EndStage # Resolver
        /\ EndStage # Downloader
    <2>1. {First, Downloader, Resolver, EndStage, Associator} \subseteq Stages
          /\ EndStage # First /\ EndStage # Resolver /\ EndStage # Downloader
      BY Order
    <2> QED
      BY <2>1, Batchers DEF ControlTypes
  <1>1. ASSUME mode' = mode, outcome' = outcome
        PROVE  Postures'
    BY <1>1 DEF Postures
  <1>2. CASE FirstPut \/ FirstResumes
    <2>1. /\ mode'[First] \in {"finish", mode[First]} /\ outcome' = outcome
          /\ \A r \in Stages : r # First => mode'[r] = mode[r]
      BY <1>0, <1>2 DEF FirstPut, FirstResumes
    <2>2. /\ mode[First] = "handle" => First \in Batching
          /\ mode[First] \in {"add", "tail"} => First = Associator
          /\ mode[First] = "put" => First \in Batching \/ First = Resolver
          /\ mode[First] \notin {"failed", "cancelled"}
      BY <1>0, <1>2 DEF Postures, FirstPut, FirstResumes, Alive, Ended
    <2> QED
      BY <1>0, <2>1, <2>2, OnePosture
  <1>3. CASE Resolution \/ ArmFlush(Saver)
    BY <1>1, <1>3 DEF Resolution, ArmFlush
  <1>4. ASSUME NEW s \in Stages \ {EndStage}, Put(s)
        PROVE  Postures'
    <2>1. outcome' = outcome
      BY <1>4 DEF Put
    <2>2. \/ \A r \in Stages : mode'[r] = IF r = s THEN AfterPut(s) ELSE mode[r]
          \/ mode' = mode
      BY <1>0, <1>4 DEF Put
    <2>3. /\ AfterPut(s) \in {"add", "wait", "tail", "finish"}
          /\ AfterPut(s) \in {"add", "tail"} => s = Associator
      BY After
    <2>4. CASE mode' = mode
      BY <1>1, <2>1, <2>4
    <2>5. CASE \A r \in Stages : mode'[r] = IF r = s THEN AfterPut(s) ELSE mode[r]
      BY <2>1, <2>3, <2>5, OnePosture
    <2> QED
      BY <2>2, <2>4, <2>5
  <1>5. ASSUME NEW s \in Stages \ {EndStage}, Finish(s)
        PROVE  Postures'
    <2>1. /\ \A r \in Stages : mode'[r] = IF r = s THEN "done" ELSE mode[r]
          /\ outcome' = outcome
      BY <1>0, <1>5 DEF Finish
    <2> QED
      BY <2>1, OnePosture
  <1>6. ASSUME NEW s \in Batching, Listen(s)
        PROVE  Postures'
    BY <1>1, <1>6 DEF Listen
  <1>7. ASSUME NEW s \in Batching, Collect(s)
        PROVE  Postures'
    <2>1. /\ \A r \in Stages : r # s => mode'[r] = mode[r]
          /\ mode'[s] \in {"handle", "wait", "tail", "finish"}
          /\ outcome' = outcome
      BY <1>0, <1>7 DEF Collect
    <2>2. mode'[s] = "tail" => Kinds[s] = "associate"
      BY <1>0, <1>7 DEF Collect
    <2> QED
      BY <1>0, <2>1, <2>2, Kinded, OnePosture
  <1>8. ASSUME NEW s \in Batching \ {Associator}, NEW items, Hands(s, items)
        PROVE  Postures'
    <2>1. /\ \A r \in Stages : r # s => mode'[r] = mode[r]
          /\ mode'[s] \in {AfterPut(s), "put"} /\ outcome' = outcome
      BY <1>0, <1>8 DEF Hands
    <2>2. /\ AfterPut(s) \in {"add", "wait", "tail", "finish"}
          /\ AfterPut(s) \in {"add", "tail"} => s = Associator
      BY <1>0, After
    <2> QED
      BY <1>0, <2>1, <2>2, OnePosture
  <1>9. CASE Associate(Associator)
    <2>1. /\ \A r \in Stages : r # Associator => mode'[r] = mode[r]
          /\ mode'[Associator] \in {AfterPut(Associator), "put"} /\ outcome' = outcome
      BY <1>0, <1>9 DEF Associate
    <2>2. /\ AfterPut(Associator) \in {"add", "wait", "tail", "finish"}
      BY <1>0, After
    <2> QED
      BY <1>0, <2>1, <2>2, OnePosture
  <1>10. ASSUME NEW s \in Batching, AddContent(s) \/ RemoveContent(s)
         PROVE  Postures'
    <2>1. /\ \A r \in Stages : r # s => mode'[r] = mode[r]
          /\ mode'[s] \in {"tail", "wait", "finish"} /\ outcome' = outcome
          /\ mode[s] \in {"add", "tail"}
      BY <1>0, <1>10 DEF AddContent, RemoveContent
    <2>2. s = Associator
      BY <1>0, <2>1 DEF Postures
    <2> QED
      BY <1>0, <2>1, <2>2, OnePosture
  <1>11. CASE ResolveFuture(Resolver)
    <2>1. /\ \A r \in Stages : r # Resolver => mode'[r] = mode[r]
          /\ mode'[Resolver] \in {"put", "finish"} /\ outcome' = outcome
      BY <1>0, <1>11 DEF ResolveFuture
    <2> QED
      BY <1>0, <2>1, OnePosture
  <1>12. CASE Drain(EndStage)
    <2>1. /\ \A r \in Stages : r # EndStage => mode'[r] = mode[r]
          /\ mode'[EndStage] \in {"done", mode[EndStage]} /\ outcome' = outcome
      BY <1>0, <1>12 DEF Drain
    <2>2. mode[EndStage] \notin {"failed", "cancelled", "handle", "add", "tail", "put",
                                 "finish"}
      <3>1. EndStage # Associator
        BY <1>0
      <3> QED
        BY <1>0, <1>12, <3>1 DEF Postures, Drain, Alive, Ended
    <2> QED
      BY <1>0, <2>1, <2>2, OnePosture
  <1>13. CASE GetNext(Downloader)
    BY <1>1, <1>13 DEF GetNext
  <1>14. CASE DownloaderEnds(Downloader)
    <2>1. /\ \A r \in Stages : mode'[r] = IF r = Downloader THEN "finish" ELSE mode[r]
          /\ outcome' = outcome
      BY <1>0, <1>14 DEF DownloaderEnds
    <2> QED
      BY <1>0, <2>1, OnePosture
  <1>15. ASSUME NEW d \in Items,
                \/ SkipDownload(Downloader, d) \/ Acquire(Downloader, d)
                \/ AwaitBudget(Downloader, d) \/ Downloaded(Downloader, d)
                \/ PutDownloaded(Downloader, d)
         PROVE  Postures'
    <2>1. mode' = mode /\ outcome' = outcome
      BY <1>15 DEF SkipDownload, Acquire, AwaitBudget, Downloaded, PutDownloaded
    <2> QED
      BY <1>1, <2>1
  <1>16. ASSUME NEW d \in Items, DownloadFails(Downloader, d)
         PROVE  Postures'
    <2>1. /\ \A r \in Stages : mode'[r] = IF r = Downloader THEN "failed" ELSE mode[r]
          /\ outcome' = "failing"
      BY <1>0, <1>16 DEF DownloadFails
    <2> QED
      BY <1>0, <2>1, OnePosture
  <1>17. ASSUME NEW s \in Stages, StageFails(s) \/ Cancel(s)
         PROVE  Postures'
    <2>1. /\ \A r \in Stages : r # s => mode'[r] = mode[r]
          /\ mode'[s] \in {"failed", "cancelled"} /\ outcome' = "failing"
      BY <1>0, <1>17 DEF StageFails, Cancel
    <2> QED
      BY <1>0, <2>1, OnePosture
  <1>18. CASE PipelineFails \/ PipelineSucceeds \/ OtherSaves \/ UNCHANGED vars
    <2>1. /\ mode' = mode
          /\ outcome' \in {"running", "ok"} => outcome \in {"running", "ok"}
      BY <1>18 DEF PipelineFails, PipelineSucceeds, OtherSaves, vars
    <2> QED
      BY <2>1 DEF Postures
  <1>19. CASE \/ \E s \in Batching \ {Querier, Saver, ContentSaver, Associator} : HandOver(s)
              \/ QueryArtifacts(Querier) \/ SaveArtifacts(Saver) \/ SaveContent(ContentSaver)
    BY <1>8, <1>19, HandsOf
  <1> QED
    BY <1>2, <1>3, <1>4, <1>5, <1>6, <1>7, <1>9, <1>10, <1>11, <1>12, <1>13, <1>14,
       <1>15, <1>16, <1>17, <1>18, <1>19, Cases

-----------------------------------------------------------------------------
(***************************************************************************)
(* The end of stages, kept.                                                *)
(***************************************************************************)
\* What a stage may do to be over: the end marker was read, or it is the first
\* one, which reads nothing.
MayClose(s) ==
    \/ shutdown[s] \/ mode[s] \in Closed
    \/ s = First /\ queue[First] = <<>> /\ held[First] = Nothing

\* The first stage and the downloader end when they have nothing to send.
EndsClean ==
    /\ mode'[First] \in Closed => pos' = Len(Script) + 1
    /\ mode'[Downloader] \in Closed => Pending' = {}

\* A stage goes on, or is over as it may be, and takes nothing.
LEMMA EndingMode ==
    ASSUME Ending, EndsClean, NEW s \in Stages, mode[s] # "done",
           \A r \in Stages : r # s => mode'[r] = mode[r],
           mode'[s] \in Closed => MayClose(s),
           UNCHANGED <<queue, held, shutdown>>
    PROVE  Ending'
  <1>1. ASSUME NEW r \in Stages, r # First, EndSeen(r)'
        PROVE  mode'[r - 1] = "done"
    <2>1. EndSeen(r)
      BY <1>1 DEF EndSeen, MayClose
    <2>2. r - 1 \in Stages /\ mode[r - 1] = "done"
      BY <1>1, <2>1, Order DEF Ending
    <2> QED
      BY <2>2
  <1>2. \A r \in Stages : shutdown'[r] \/ mode'[r] \in Closed =>
            queue'[r] = <<>> /\ held'[r] = Nothing
    BY DEF Ending, MayClose
  <1> QED
    BY <1>1, <1>2 DEF Ending, EndsClean

\* A stage that is not over hands an item on: the next has not seen the end.
LEMMA EndingFeed ==
    ASSUME Placed, Ending, EndsClean, NEW s \in Stages \ {EndStage}, mode[s] # "done",
           NEW x \in Items,
           queue' = [queue EXCEPT ![s + 1] = Append(queue[s + 1], x)],
           \A r \in Stages : r # s => mode'[r] = mode[r],
           mode'[s] \in Closed => MayClose(s),
           UNCHANGED <<held, shutdown>>
    PROVE  Ending'
  <1> DEFINE t == s + 1
  <1>1. t \in Stages /\ t # First /\ t - 1 = s /\ t # s
    BY Order
  <1>2. queue \in [Stages -> Seq(Items \cup {End})]
    BY DEF Placed, CarrierTypes
  <1>3. /\ ToSet(Append(queue[t], x)) = ToSet(queue[t]) \cup {x}
        /\ \A i \in DOMAIN queue[t] : Append(queue[t], x)[i] = queue[t][i]
        /\ Append(queue[t], x)[Len(queue[t]) + 1] = x
        /\ DOMAIN Append(queue[t], x) = 1 .. Len(queue[t]) + 1
        /\ DOMAIN queue[t] = 1 .. Len(queue[t]) /\ Len(queue[t]) \in Nat
    BY <1>1, <1>2, Appended
  <1>4. \A r \in Stages : queue'[r] = IF r = t THEN Append(queue[t], x) ELSE queue[r]
    BY <1>1, <1>2
  <1>5. x # End
    BY StagesAssumption
  <1> HIDE DEF t
  <1>6. ~EndSeen(t)
    BY <1>1 DEF Ending
  <1>7. ASSUME NEW r \in Stages, r # First, EndSeen(r)'
        PROVE  mode'[r - 1] = "done"
    <2>1. End \in ToSet(queue'[r]) => End \in ToSet(queue[r])
      BY <1>3, <1>4, <1>5
    <2>2. EndSeen(r)
      BY <1>7, <2>1 DEF EndSeen, MayClose
    <2>3. r - 1 \in Stages /\ mode[r - 1] = "done"
      BY <1>7, <2>2, Order DEF Ending
    <2> QED
      BY <2>3
  <1>8. ASSUME NEW r \in Stages, NEW i \in DOMAIN queue'[r], queue'[r][i] = End
        PROVE  i = Len(queue'[r])
    <2>1. CASE r = t
      <3>1. i \in DOMAIN queue[t]
        BY <1>3, <1>4, <1>5, <1>8, <2>1
      <3>2. queue[t][i] = End
        BY <1>3, <1>4, <1>8, <2>1, <3>1
      <3>3. End \in ToSet(queue[t])
        BY <3>1, <3>2 DEF ToSet
      <3> QED
        BY <1>6, <3>3 DEF EndSeen
    <2>2. CASE r # t
      BY <1>4, <1>8, <2>2 DEF Ending
    <2> QED
      BY <2>1, <2>2
  <1>9. \A r \in Stages : held'[r] = End => queue'[r] = <<>>
    BY <1>4, <1>6 DEF Ending, EndSeen
  <1>10. \A r \in Stages : shutdown'[r] \/ mode'[r] \in Closed =>
             queue'[r] = <<>> /\ held'[r] = Nothing
    <2>1. ASSUME NEW r \in Stages, shutdown'[r] \/ mode'[r] \in Closed
          PROVE  queue'[r] = <<>> /\ held'[r] = Nothing
      <3>1. CASE r = s
        BY <1>1, <1>4, <2>1, <3>1 DEF Ending, MayClose
      <3>2. CASE r # s
        <4>1. shutdown[r] \/ mode[r] \in Closed
          BY <2>1, <3>2
        <4>2. r # t
          BY <1>6, <4>1 DEF Ending, EndSeen
        <4> QED
          BY <1>4, <4>1, <4>2 DEF Ending
      <3> QED
        BY <3>1, <3>2
    <2> QED
      BY <2>1
  <1> QED
    BY <1>7, <1>8, <1>9, <1>10 DEF Ending, EndsClean

\* The rest of a queue ends as the queue does.
LEMMA Rest ==
    ASSUME Placed, Ending, NEW s \in Stages, queue[s] # <<>>
    PROVE  /\ End \in ToSet(Tail(queue[s])) => End \in ToSet(queue[s])
           /\ \A i \in DOMAIN Tail(queue[s]) :
                 Tail(queue[s])[i] = End => i = Len(Tail(queue[s]))
           /\ Head(queue[s]) = End => Tail(queue[s]) = <<>> /\ End \in ToSet(queue[s])
           /\ held[s] # End /\ ~shutdown[s] /\ mode[s] \notin Closed
  <1> DEFINE q == queue[s]
  <1>1. q \in Seq(Items \cup {End}) /\ q # <<>>
    BY DEF Placed, CarrierTypes
  <1>2. \A i \in DOMAIN q : q[i] = End => i = Len(q)
    BY DEF Ending
  <1>3. held[s] # End /\ ~shutdown[s] /\ mode[s] \notin Closed
    BY DEF Ending
  <1> HIDE DEF q
  <1>4. /\ Head(q) = q[1] /\ Len(q) \in Nat \ {0} /\ Len(Tail(q)) = Len(q) - 1
        /\ ToSet(q) = ToSet(Tail(q)) \cup {Head(q)}
        /\ \A i \in DOMAIN Tail(q) : i + 1 \in DOMAIN q /\ Tail(q)[i] = q[i + 1]
        /\ Len(q) = 1 => Tail(q) = <<>>
        /\ DOMAIN q = 1 .. Len(q) /\ DOMAIN Tail(q) = 1 .. Len(q) - 1
    BY <1>1, Taken1
  <1>5. ASSUME NEW i \in DOMAIN Tail(q), Tail(q)[i] = End
        PROVE  i = Len(Tail(q))
    <2>1. i + 1 = Len(q)
      BY <1>2, <1>4, <1>5
    <2> QED
      BY <1>4, <2>1
  <1>6. Head(q) = End => Tail(q) = <<>> /\ End \in ToSet(q)
    BY <1>2, <1>4
  <1> QED
    BY <1>3, <1>4, <1>5, <1>6 DEF q

\* A stage ends: the next one sees the end of its queue, once.
LEMMA EndingFinish ==
    ASSUME Placed, ControlTypes, Ending, NEW s \in Stages \ {EndStage}, Finish(s)
    PROVE  Ending'
  <1> DEFINE t == s + 1
  <1>1. t \in Stages /\ t # First /\ t - 1 = s /\ t # s
    BY Order
  <1>2. /\ queue \in [Stages -> Seq(Items \cup {End})] /\ mode \in [Stages -> Modes]
        /\ queue' = [queue EXCEPT ![t] = Append(queue[t], End)]
        /\ mode' = [mode EXCEPT ![s] = "done"] /\ mode[s] = "finish"
        /\ UNCHANGED <<held, shutdown, pos, handler>>
    BY DEF Finish, Placed, CarrierTypes, ControlTypes, batchVars, downloadVars
  <1>3. /\ \A i \in DOMAIN queue[t] : Append(queue[t], End)[i] = queue[t][i]
        /\ DOMAIN Append(queue[t], End) = 1 .. Len(queue[t]) + 1
        /\ DOMAIN queue[t] = 1 .. Len(queue[t]) /\ Len(queue[t]) \in Nat
        /\ Len(Append(queue[t], End)) = Len(queue[t]) + 1
        /\ ToSet(Append(queue[t], End)) = ToSet(queue[t]) \cup {End}
    BY <1>1, <1>2, Appended
  <1>4. /\ \A r \in Stages : queue'[r] = IF r = t THEN Append(queue[t], End) ELSE queue[r]
        /\ \A r \in Stages : mode'[r] = IF r = s THEN "done" ELSE mode[r]
    BY <1>1, <1>2
  <1> HIDE DEF t
  <1>5. ~EndSeen(t)
    BY <1>1, <1>2 DEF Ending
  <1>6. ASSUME NEW r \in Stages, r # First, EndSeen(r)'
        PROVE  mode'[r - 1] = "done"
    <2>1. CASE r = t
      BY <1>1, <1>4, <2>1
    <2>2. CASE r # t
      <3>1. EndSeen(r)
        BY <1>2, <1>4, <1>6, <2>2 DEF EndSeen, Closed
      <3>2. r - 1 \in Stages /\ mode[r - 1] = "done"
        BY <1>6, <3>1, Order DEF Ending
      <3> QED
        BY <1>4, <3>2
    <2> QED
      BY <2>1, <2>2
  <1>7. ASSUME NEW r \in Stages, NEW i \in DOMAIN queue'[r], queue'[r][i] = End
        PROVE  i = Len(queue'[r])
    <2>1. CASE r = t
      <3>1. CASE i \in DOMAIN queue[t]
        <4>1. queue[t][i] = End
          BY <1>3, <1>4, <1>7, <2>1, <3>1
        <4>2. End \in ToSet(queue[t])
          BY <3>1, <4>1 DEF ToSet
        <4> QED
          BY <1>5, <4>2 DEF EndSeen
      <3>2. CASE i \notin DOMAIN queue[t]
        <4>1. queue'[r] = Append(queue[t], End)
          BY <1>4, <2>1
        <4>2. i \in 1 .. Len(queue[t]) + 1 /\ i \notin 1 .. Len(queue[t])
          BY <1>3, <3>2, <4>1
        <4>3. i = Len(queue[t]) + 1
          BY <1>3, <4>2
        <4> QED
          BY <1>3, <4>1, <4>3
      <3> QED
        BY <3>1, <3>2
    <2>2. CASE r # t
      BY <1>4, <1>7, <2>2 DEF Ending
    <2> QED
      BY <2>1, <2>2
  <1>8. \A r \in Stages : held'[r] = End => queue'[r] = <<>>
    BY <1>2, <1>4, <1>5 DEF Ending, EndSeen
  <1>9. \A r \in Stages : shutdown'[r] \/ mode'[r] \in Closed =>
            queue'[r] = <<>> /\ held'[r] = Nothing
    BY <1>1, <1>2, <1>4, <1>5 DEF Ending, EndSeen, Closed
  <1>10. EndsClean
    <2>1. Pending' = Pending
      BY <1>2 DEF Pending
    <2>2. First \in Stages /\ Downloader \in Stages /\ mode[s] = "finish" /\ pos' = pos
      BY <1>2, Order
    <2>3. \A r \in Stages : mode'[r] \in Closed => mode[r] \in Closed
      BY <1>4, <2>2 DEF Closed
    <2> QED
      BY <2>1, <2>2, <2>3 DEF Ending, EndsClean
  <1> QED
    BY <1>6, <1>7, <1>8, <1>9, <1>10 DEF Ending, EndsClean

\* A stage takes the first of its queue.
LEMMA EndingTake ==
    ASSUME Placed, Ending, EndsClean, NEW s \in Stages, queue[s] # <<>>,
           \A r \in Stages : queue'[r] = IF r = s THEN Tail(queue[s]) ELSE queue[r],
           \A r \in Stages : r # s => /\ mode'[r] = mode[r] /\ held'[r] = held[r]
                                      /\ shutdown'[r] = shutdown[r],
           mode[s] # "done",
           held'[s] = held[s] \/ held'[s] = Head(queue[s]),
           (mode'[s] \in Closed \/ shutdown'[s]) =>
               Head(queue[s]) = End /\ held'[s] = Nothing
    PROVE  Ending'
  <1>1. /\ End \in ToSet(Tail(queue[s])) => End \in ToSet(queue[s])
        /\ \A i \in DOMAIN Tail(queue[s]) : Tail(queue[s])[i] = End => i = Len(Tail(queue[s]))
        /\ Head(queue[s]) = End => Tail(queue[s]) = <<>> /\ End \in ToSet(queue[s])
        /\ held[s] # End /\ ~shutdown[s] /\ mode[s] \notin Closed
    BY Rest
  <1>2. ASSUME NEW r \in Stages, r # First, EndSeen(r)'
        PROVE  mode'[r - 1] = "done"
    <2>1. EndSeen(r)
      <3>1. CASE r = s
        BY <1>1, <1>2, <3>1 DEF EndSeen
      <3>2. CASE r # s
        BY <1>2, <3>2 DEF EndSeen
      <3> QED
        BY <3>1, <3>2
    <2>2. r - 1 \in Stages /\ mode[r - 1] = "done"
      BY <1>2, <2>1, Order DEF Ending
    <2> QED
      BY <2>2
  <1>3. \A r \in Stages : \A i \in DOMAIN queue'[r] :
            queue'[r][i] = End => i = Len(queue'[r])
    BY <1>1 DEF Ending
  <1>4. \A r \in Stages : held'[r] = End => queue'[r] = <<>>
    BY <1>1 DEF Ending
  <1>5. \A r \in Stages : shutdown'[r] \/ mode'[r] \in Closed =>
            queue'[r] = <<>> /\ held'[r] = Nothing
    BY <1>1 DEF Ending
  <1> QED
    BY <1>2, <1>3, <1>4, <1>5 DEF Ending, EndsClean

\* A stage collects all there is, the end marker too.
LEMMA EndingCollect ==
    ASSUME Placed, ControlTypes, Ending, NEW s \in Batching, Collect(s)
    PROVE  Ending'
  <1> DEFINE items == batch[s] \o WithoutEnd(Taken(s))
             ends == End \in ToSet(Taken(s))
             hurry == \/ noBlock[s] \/ thaw[s] \/ Flushed(s)
                      \/ \E d \in ToSet(items) : future[d] = "awaited"
             yields == /\ items # <<>>
                       /\ Len(items) >= MinSize(s) \/ ends \/ hurry
  <1>0. s \in Stages /\ s # First /\ s # Downloader
    BY Batchers
  <1>1. /\ mode[s] = "wait" /\ pos' = pos /\ handler' = handler
        /\ shutdown' = [shutdown EXCEPT ![s] = ends]
        /\ mode' = [mode EXCEPT ![s] =
               IF yields THEN "handle"
               ELSE IF ~ends THEN "wait"
               ELSE IF Kinds[s] = "associate" THEN "tail" ELSE "finish"]
        /\ held' = [held EXCEPT ![s] = Nothing] /\ queue' = [queue EXCEPT ![s] = <<>>]
    BY DEF Collect, downloadVars
  <1>2. ends <=> End \in ToSet(queue[s]) \/ held[s] = End
    BY <1>0, TakenAll
  <1> HIDE DEF items, ends, hurry, yields
  <1>3. /\ queue \in [Stages -> Seq(Items \cup {End})] /\ mode \in [Stages -> Modes]
        /\ held \in [Stages -> Items \cup {End, Nothing}]
        /\ shutdown \in [Stages -> BOOLEAN]
    BY DEF Placed, CarrierTypes, ControlTypes
  <1>4. /\ \A r \in Stages : queue'[r] = IF r = s THEN <<>> ELSE queue[r]
        /\ \A r \in Stages : held'[r] = IF r = s THEN Nothing ELSE held[r]
        /\ \A r \in Stages : r # s => mode'[r] = mode[r] /\ shutdown'[r] = shutdown[r]
        /\ mode'[s] \in Closed => ends
    BY <1>0, <1>1, <1>3 DEF Closed
  <1>5. shutdown'[s] <=> ends
    BY <1>0, <1>1, <1>3
  <1>6. ToSet(<<>>) = {} /\ DOMAIN <<>> = {}
    <2>1. <<>> \in Seq(Items) /\ Len(<<>>) = 0 /\ ToSet(<<>>) = {}
      BY Units
    <2>2. DOMAIN <<>> = 1 .. Len(<<>>)
      BY <2>1, LenProperties
    <2> QED
      BY <2>1, <2>2
  <1>7. ASSUME NEW r \in Stages, r # First, EndSeen(r)'
        PROVE  mode'[r - 1] = "done"
    <2>1. EndSeen(r)
      <3>1. CASE r = s
        <4>1. Nothing # End
          BY StagesAssumption
        <4> QED
          BY <1>2, <1>4, <1>5, <1>6, <1>7, <3>1, <4>1 DEF EndSeen
      <3>2. CASE r # s
        BY <1>4, <1>7, <3>2 DEF EndSeen
      <3> QED
        BY <3>1, <3>2
    <2>2. r - 1 \in Stages /\ mode[r - 1] = "done"
      BY <1>7, <2>1, Order DEF Ending
    <2> QED
      BY <1>1, <1>4, <2>2
  <1>8. \A r \in Stages : \A i \in DOMAIN queue'[r] :
            queue'[r][i] = End => i = Len(queue'[r])
    BY <1>4, <1>6 DEF Ending
  <1>9. \A r \in Stages : held'[r] = End => queue'[r] = <<>>
    BY <1>4 DEF Ending
  <1>10. \A r \in Stages : shutdown'[r] \/ mode'[r] \in Closed =>
             queue'[r] = <<>> /\ held'[r] = Nothing
    BY <1>4 DEF Ending
  <1>11. EndsClean
    <2>1. Pending' = Pending
      BY <1>1 DEF Pending
    <2>2. mode'[First] = mode[First] /\ mode'[Downloader] = mode[Downloader]
      BY <1>0, <1>4, Order
    <2> QED
      BY <1>1, <2>1, <2>2 DEF Ending, EndsClean
  <1> QED
    BY <1>7, <1>8, <1>9, <1>10, <1>11 DEF Ending, EndsClean

\* The end marker is the last of a queue, it is sent by a stage that is over,
\* and a stage that has read it has nothing left to read.
LEMMA EndingStep ==
    ASSUME Placed, ControlTypes, DataTypes, Empties, Postures, Ending, [Next]_vars
    PROVE  Ending'
  <1> USE DEF flowVars, batchVars, downloadVars
  <1>0. /\ queue \in [Stages -> Seq(Items \cup {End})]
        /\ held \in [Stages -> Items \cup {End, Nothing}]
        /\ mode \in [Stages -> Modes] /\ shutdown \in [Stages -> BOOLEAN]
        /\ Batching \subseteq Stages /\ Associator \in Batching
        /\ {First, Downloader, Resolver, EndStage, Associator} \subseteq Stages
        /\ Batching \cap {First, Downloader, Resolver, EndStage} = {}
        /\ First # Resolver /\ Downloader # Resolver /\ First # Downloader
        /\ EndStage # Resolver /\ EndStage # Downloader /\ EndStage # First
    <2>1. /\ queue \in [Stages -> Seq(Items \cup {End})]
          /\ held \in [Stages -> Items \cup {End, Nothing}]
          /\ mode \in [Stages -> Modes] /\ shutdown \in [Stages -> BOOLEAN]
      BY DEF Placed, CarrierTypes, ControlTypes
    <2>2. /\ Batching \subseteq Stages /\ Associator \in Batching
          /\ Batching \cap {First, Downloader, Resolver, EndStage} = {}
      BY Batchers
    <2>3. /\ {First, Downloader, Resolver, EndStage, Associator} \subseteq Stages
          /\ First # Resolver /\ Downloader # Resolver /\ First # Downloader
          /\ EndStage # Resolver /\ EndStage # Downloader /\ EndStage # First
      BY Order
    <2> QED
      BY <2>1, <2>2, <2>3
  <1>a. ASSUME UNCHANGED <<pos, queue, held, shutdown, mode>>,
               mode[Downloader] \in Closed => Pending' = {}
        PROVE  Ending'
    BY <1>a DEF Ending, EndSeen
  <1>b. handler' = handler => Pending' = Pending
    BY DEF Pending
  <1>c. ASSUME NEW s \in Stages, s # First, s # Downloader,
               \A r \in Stages : r # s => mode'[r] = mode[r],
               pos' = pos, Pending' = Pending
        PROVE  EndsClean
    BY <1>0, <1>c DEF Ending, EndsClean
  <1>1. CASE FirstPut
    <2>1. /\ mode' = [mode EXCEPT ![First] = IF pos = Len(Script) THEN "finish" ELSE @]
          /\ queue' = [queue EXCEPT ![2] = Append(queue[2], Script[pos][2])]
          /\ pos' = pos + 1 /\ pos <= Len(Script) /\ handler' = handler
          /\ UNCHANGED <<held, shutdown>> /\ mode[First] \notin Ended
      BY <1>1 DEF FirstPut, Alive
    <2>2. pos \in Int /\ Len(Script) \in Int
      BY ScriptAssumption, LenProperties DEF ControlTypes
    <2>3. mode[First] \notin Closed
      BY <1>0, <2>1, <2>2 DEF Ending
    <2>4. Script[pos][2] \in Items
      BY <2>1, <2>2, ScriptAssumption, ElementOfSeq, LenProperties DEF ControlTypes
    <2>5. /\ \A r \in Stages : r # First => mode'[r] = mode[r]
          /\ mode'[First] \in Closed => pos' = Len(Script) + 1
      BY <1>0, <2>1, <2>2, <2>3 DEF Closed
    <2>6. MayClose(First)
      BY <1>0 DEF Empties, MayClose
    <2>7. EndsClean
      BY <1>0, <1>b, <2>1, <2>5 DEF Ending, EndsClean
    <2>8. First + 1 = 2 /\ mode[First] # "done"
      BY <2>1, Order DEF Ended
    <2> QED
      BY <1>0, <2>1, <2>4, <2>5, <2>6, <2>7, <2>8, EndingFeed
  <1>2. CASE FirstResumes
    <2>1. /\ mode' = [mode EXCEPT ![First] = IF pos = Len(Script) THEN "finish" ELSE @]
          /\ pos' = pos + 1 /\ pos <= Len(Script) /\ handler' = handler
          /\ UNCHANGED <<queue, held, shutdown>> /\ mode[First] \notin Ended
      BY <1>2 DEF FirstResumes, Alive
    <2>2. pos \in Int /\ Len(Script) \in Int
      BY ScriptAssumption, LenProperties DEF ControlTypes
    <2>3. mode[First] \notin Closed
      BY <1>0, <2>1, <2>2 DEF Ending
    <2>4. /\ \A r \in Stages : r # First => mode'[r] = mode[r]
          /\ mode'[First] \in Closed => pos' = Len(Script) + 1
      BY <1>0, <2>1, <2>2, <2>3 DEF Closed
    <2>5. MayClose(First)
      BY <1>0 DEF Empties, MayClose
    <2>6. EndsClean
      BY <1>0, <1>b, <2>1, <2>4 DEF Ending, EndsClean
    <2> QED
      BY <1>0, <2>1, <2>4, <2>5, <2>6, EndingMode DEF Ended
  <1>3. CASE Resolution \/ ArmFlush(Saver)
    BY <1>3, <1>a, <1>b DEF Resolution, ArmFlush, Ending
  <1>4. ASSUME NEW s \in Stages \ {EndStage}, Put(s)
        PROVE  Ending'
    <2>1. /\ pos' = pos /\ handler' = handler /\ UNCHANGED <<held, shutdown>>
          /\ queue' = [queue EXCEPT ![s + 1] = Append(queue[s + 1], Head(out[s]))]
          /\ mode[s] = "put"
      BY <1>4 DEF Put
    <2>2. \/ \A r \in Stages : mode'[r] = IF r = s THEN AfterPut(s) ELSE mode[r]
          \/ mode' = mode
      BY <1>0, <1>4 DEF Put
    <2>3. mode'[s] \in Closed => shutdown[s]
      BY <2>1, <2>2, After DEF Closed
    <2>4. s # First /\ s # Downloader
      BY <1>0, <2>1 DEF Postures
    <2>5. Head(out[s]) \in Items
      BY <1>4, PutMoves
    <2>6. \A r \in Stages : r # s => mode'[r] = mode[r]
      BY <2>2
    <2>7. EndsClean
      BY <1>b, <1>c, <2>1, <2>4, <2>6
    <2> QED
      BY <2>1, <2>3, <2>5, <2>6, <2>7, EndingFeed DEF MayClose
  <1>5. ASSUME NEW s \in Stages \ {EndStage}, Finish(s)
        PROVE  Ending'
    BY <1>5, EndingFinish
  <1>6. ASSUME NEW s \in Batching, Listen(s)
        PROVE  Ending'
    <2>1. /\ queue[s] # <<>> /\ pos' = pos /\ handler' = handler /\ mode' = mode
          /\ ~shutdown[s] /\ shutdown' = shutdown /\ s \in Stages
          /\ \A r \in Stages : queue'[r] = IF r = s THEN Tail(queue[s]) ELSE queue[r]
          /\ \A r \in Stages : held'[r] = IF r = s THEN Head(queue[s]) ELSE held[r]
      BY <1>0, <1>6 DEF Listen
    <2>2. mode[s] \notin Closed /\ mode[s] # "done"
      BY <2>1 DEF Ending, Closed
    <2>3. s # First /\ s # Downloader
      BY <1>0
    <2>4. EndsClean
      BY <1>b, <1>c, <2>1, <2>3
    <2> QED
      BY <2>1, <2>2, <2>4, EndingTake
  <1>7. ASSUME NEW s \in Batching, Collect(s)
        PROVE  Ending'
    BY <1>7, EndingCollect
  <1>8. ASSUME NEW s \in Stages, s # First, s # Downloader, mode[s] # "done",
               \A r \in Stages : r # s => mode'[r] = mode[r],
               mode'[s] \in Closed => shutdown[s] \/ mode[s] \in Closed,
               UNCHANGED <<queue, held, shutdown, pos>>, Pending' = Pending
        PROVE  Ending'
    <2>1. EndsClean
      BY <1>8, <1>c
    <2> QED
      BY <1>8, <2>1, EndingMode DEF MayClose
  <1>9. ASSUME NEW s \in Batching \ {Associator}, NEW items, Hands(s, items),
               Pending' = Pending
        PROVE  Ending'
    <2>1. /\ mode[s] = "handle" /\ UNCHANGED <<queue, held, shutdown, pos>>
          /\ \A r \in Stages : r # s => mode'[r] = mode[r]
          /\ mode'[s] \in {AfterPut(s), "put"}
      BY <1>0, <1>9 DEF Hands
    <2>2. mode'[s] \in Closed => shutdown[s]
      BY <1>0, <2>1, After DEF Closed
    <2> QED
      BY <1>0, <1>8, <1>9, <2>1, <2>2
  <1>10. CASE Associate(Associator)
    <2>1. /\ mode[Associator] = "handle" /\ UNCHANGED <<queue, held, shutdown, pos>>
          /\ \A r \in Stages : r # Associator => mode'[r] = mode[r]
          /\ mode'[Associator] \in {AfterPut(Associator), "put"} /\ handler' = handler
      BY <1>0, <1>10 DEF Associate
    <2>2. mode'[Associator] \in Closed => shutdown[Associator]
      BY <1>0, <2>1, After DEF Closed
    <2> QED
      BY <1>0, <1>b, <1>8, <2>1, <2>2
  <1>11. ASSUME NEW s \in Batching, AddContent(s) \/ RemoveContent(s)
         PROVE  Ending'
    <2>1. /\ UNCHANGED <<queue, held, shutdown, pos>> /\ handler' = handler
          /\ \A r \in Stages : r # s => mode'[r] = mode[r]
          /\ mode[s] \in {"add", "tail"}
          /\ mode'[s] \in Closed => shutdown[s] \/ mode[s] = "tail"
      BY <1>0, <1>11 DEF AddContent, RemoveContent, Closed
    <2>2. mode'[s] \in Closed => shutdown[s] \/ mode[s] \in Closed
      BY <2>1 DEF Closed
    <2> QED
      BY <1>0, <1>b, <1>8, <2>1, <2>2
  <1>12. CASE ResolveFuture(Resolver)
    <2>1. /\ queue[Resolver] # <<>> /\ pos' = pos /\ handler' = handler
          /\ mode[Resolver] = "wait" /\ UNCHANGED <<held, shutdown>>
          /\ \A r \in Stages : queue'[r] = IF r = Resolver THEN Tail(queue[r]) ELSE queue[r]
          /\ \A r \in Stages : r # Resolver => mode'[r] = mode[r]
      BY <1>0, <1>12 DEF ResolveFuture
    <2>2. Head(queue[Resolver]) # End => mode'[Resolver] = "put"
      BY <1>0, <1>12 DEF ResolveFuture
    <2>3. ~shutdown[Resolver]
      BY <1>0, <2>1 DEF Ending
    <2>4. held[Resolver] = Nothing
      BY <1>0 DEF Empties
    <2>5. EndsClean
      BY <1>0, <1>b, <1>c, <2>1
    <2> QED
      BY <1>0, <2>1, <2>2, <2>3, <2>4, <2>5, EndingTake DEF Closed
  <1>13. CASE Drain(EndStage)
    <2>1. /\ queue[EndStage] # <<>> /\ pos' = pos /\ handler' = handler
          /\ UNCHANGED <<held, shutdown>>
          /\ \A r \in Stages : queue'[r] = IF r = EndStage THEN Tail(queue[r]) ELSE queue[r]
          /\ \A r \in Stages : r # EndStage => mode'[r] = mode[r]
          /\ mode'[EndStage] = IF Head(queue[EndStage]) = End THEN "done" ELSE mode[EndStage]
      BY <1>0, <1>13 DEF Drain
    <2>2. ~shutdown[EndStage] /\ mode[EndStage] \notin Closed
      BY <1>0, <2>1 DEF Ending
    <2>3. held[EndStage] = Nothing
      BY <1>0 DEF Empties
    <2>4. EndsClean
      BY <1>0, <1>b, <1>c, <2>1
    <2> QED
      BY <1>0, <2>1, <2>2, <2>3, <2>4, EndingTake DEF Closed
  <1>14. CASE GetNext(Downloader)
    <2>1. /\ queue[Downloader] # <<>> /\ pos' = pos /\ mode' = mode
          /\ UNCHANGED <<held>>
          /\ \A r \in Stages : queue'[r] = IF r = Downloader THEN Tail(queue[r]) ELSE queue[r]
          /\ \A r \in Stages : r # Downloader => shutdown'[r] = shutdown[r]
      BY <1>0, <1>14 DEF GetNext
    <2>2. Head(queue[Downloader]) # End => shutdown' = shutdown
      BY <1>0, <1>14 DEF GetNext
    <2>3. ~shutdown[Downloader] /\ mode[Downloader] \notin Closed
      BY <1>0, <2>1 DEF Ending
    <2>4. held[Downloader] = Nothing
      BY <1>0 DEF Empties
    <2>5. EndsClean
      BY <2>1, <2>3 DEF Ending, EndsClean
    <2>6. mode[Downloader] # "done"
      BY <2>3 DEF Closed
    <2>7. mode'[Downloader] \in Closed \/ shutdown'[Downloader] =>
              Head(queue[Downloader]) = End /\ held'[Downloader] = Nothing
      BY <2>1, <2>2, <2>3, <2>4
    <2>8. \A r \in Stages : r # Downloader => /\ mode'[r] = mode[r] /\ held'[r] = held[r]
                                              /\ shutdown'[r] = shutdown[r]
      BY <2>1
    <2>9. \A r \in Stages : queue'[r] = IF r = Downloader THEN Tail(queue[Downloader])
                                       ELSE queue[r]
      BY <2>1
    <2> HIDE DEF flowVars, batchVars, downloadVars
    <2> QED
      BY <1>0, <2>1, <2>5, <2>6, <2>7, <2>8, <2>9, EndingTake
  <1>15. CASE DownloaderEnds(Downloader)
    <2>1. /\ mode' = [mode EXCEPT ![Downloader] = "finish"] /\ mode[Downloader] = "wait"
          /\ shutdown[Downloader] /\ Pending = {} /\ handler' = handler
          /\ UNCHANGED <<queue, held, shutdown, pos>>
      BY <1>15 DEF DownloaderEnds, NothingPending
    <2>2. \A r \in Stages : r # Downloader => mode'[r] = mode[r]
      BY <1>0, <2>1
    <2>3. EndsClean
      BY <1>0, <1>b, <2>1, <2>2 DEF Ending, EndsClean
    <2> QED
      BY <1>0, <2>1, <2>2, <2>3, EndingMode DEF MayClose
  <1>16. ASSUME NEW d \in Items,
                \/ SkipDownload(Downloader, d) \/ Acquire(Downloader, d)
                \/ AwaitBudget(Downloader, d) \/ Downloaded(Downloader, d)
         PROVE  Ending'
    <2>1. UNCHANGED <<pos, queue, held, shutdown, mode>> /\ Working(Downloader)
      BY <1>16 DEF SkipDownload, Acquire, AwaitBudget, Downloaded
    <2>2. mode[Downloader] \notin Closed
      BY <2>1 DEF Working, Closed
    <2> QED
      BY <1>a, <2>1, <2>2
  <1>17. ASSUME NEW d \in Items, PutDownloaded(Downloader, d)
         PROVE  Ending'
    <2>1. /\ UNCHANGED <<pos, held, shutdown, mode>> /\ Working(Downloader)
          /\ queue' = [queue EXCEPT ![Downloader + 1] = Append(queue[Downloader + 1], d)]
      BY <1>17 DEF PutDownloaded
    <2>2. mode[Downloader] \notin Closed /\ mode[Downloader] # "done"
      BY <2>1 DEF Working, Closed
    <2>3. EndsClean
      BY <2>1, <2>2 DEF Ending, EndsClean
    <2> QED
      BY <1>0, <2>1, <2>2, <2>3, EndingFeed
  <1>18. ASSUME NEW s \in Stages, mode[s] \notin {"done"}, Pending' \subseteq Pending,
                mode' = [mode EXCEPT ![s] = "failed"] \/ mode' = [mode EXCEPT ![s] = "cancelled"],
                UNCHANGED <<pos, queue, held, shutdown>>
         PROVE  Ending'
    <2>1. /\ \A r \in Stages : r # s => mode'[r] = mode[r]
          /\ mode'[s] \notin Closed
      BY <1>0, <1>18 DEF Closed
    <2>2. EndsClean
      BY <1>0, <1>18, <2>1 DEF Ending, EndsClean
    <2> QED
      BY <1>18, <2>1, <2>2, EndingMode
  <1>19. ASSUME NEW d \in Items, DownloadFails(Downloader, d)
         PROVE  Ending'
    <2>1. /\ mode' = [mode EXCEPT ![Downloader] = "failed"] /\ Working(Downloader)
          /\ UNCHANGED <<pos, queue, held, shutdown>>
      BY <1>19 DEF DownloadFails
    <2>2. Pending' = Pending \ {d}
      BY <1>19, FailedTask
    <2>3. mode[Downloader] # "done"
      BY <2>1 DEF Working
    <2> QED
      BY <1>0, <1>18, <2>1, <2>2, <2>3
  <1>20. ASSUME NEW s \in Stages, StageFails(s)
         PROVE  Ending'
    <2>1. /\ mode' = [mode EXCEPT ![s] = "failed"] /\ mode[s] = "handle"
          /\ UNCHANGED <<pos, queue, held, shutdown, handler>>
      BY <1>20 DEF StageFails
    <2> QED
      BY <1>b, <1>18, <2>1
  <1>21. ASSUME NEW s \in Stages, Cancel(s)
         PROVE  Ending'
    <2>1. /\ mode' = [mode EXCEPT ![s] = "cancelled"] /\ mode[s] \notin Ended
          /\ UNCHANGED <<pos, queue, held, shutdown>>
      BY <1>21 DEF Cancel
    <2>2. Pending' \subseteq Pending
      <3>1. CASE s = Downloader
        BY <1>21, <3>1, CancelTasks
      <3>2. CASE s # Downloader
        BY <1>b, <1>21, <3>2, Kinded DEF Cancel
      <3> QED
        BY <3>1, <3>2
    <2> QED
      BY <1>18, <2>1, <2>2 DEF Ended
  <1>22. CASE PipelineFails \/ PipelineSucceeds \/ OtherSaves \/ UNCHANGED vars
    <2>1. UNCHANGED <<pos, queue, held, shutdown, mode, handler>>
      BY <1>22 DEF PipelineFails, PipelineSucceeds, OtherSaves, vars
    <2> QED
      BY <1>a, <1>b, <2>1 DEF Ending
  <1>23. ASSUME \/ \E s \in Batching \ {Querier, Saver, ContentSaver, Associator} : HandOver(s)
                \/ QueryArtifacts(Querier) \/ SaveArtifacts(Saver)
                \/ SaveContent(ContentSaver)
         PROVE  Ending'
    <2>1. Pending' = Pending
      <3>1. CASE SaveArtifacts(Saver)
        BY <3>1, SaveRelease
      <3>2. CASE \/ \E s \in Batching \ {Querier, Saver, ContentSaver, Associator} : HandOver(s)
                 \/ QueryArtifacts(Querier) \/ SaveContent(ContentSaver)
        BY <1>b, <3>2 DEF HandOver, QueryArtifacts, SaveContent
      <3> QED
        BY <1>23, <3>1, <3>2
    <2> QED
      BY <1>9, <1>23, <2>1, HandsOf
  <1> QED
    BY <1>1, <1>2, <1>3, <1>4, <1>5, <1>6, <1>7, <1>10, <1>11, <1>12, <1>13, <1>14,
       <1>15, <1>16, <1>17, <1>19, <1>20, <1>21, <1>22, <1>23, Cases

-----------------------------------------------------------------------------
(***************************************************************************)
(* What is saved and what the version is made of, kept.                    *)
(***************************************************************************)
\* The pipeline has the depths it had.
LEMMA DepthsStay ==
    /\ Depths' = Depths /\ EndStage' = EndStage
  BY DEF Depths, EndStage

\* The steps that change the database.
LEMMA DbChanges ==
    ASSUME [Next]_vars
    PROVE  \/ UNCHANGED dbVars
           \/ SaveContent(ContentSaver) \/ Associate(Associator)
           \/ \E s \in Batching : AddContent(s) \/ RemoveContent(s)
           \/ PipelineFails \/ OtherSaves
  <1>1. ASSUME NEW s \in Stages, Put(s) \/ Finish(s) \/ StageFails(s) \/ Cancel(s)
        PROVE  UNCHANGED dbVars
    BY <1>1 DEF Put, Finish, StageFails, Cancel, dbVars
  <1>2. ASSUME NEW s \in Batching, Listen(s) \/ Collect(s) \/ HandOver(s)
        PROVE  UNCHANGED dbVars
    BY <1>2 DEF Listen, Collect, HandOver, dbVars
  <1>3. ASSUME NEW d \in Items,
               \/ SkipDownload(Downloader, d) \/ Acquire(Downloader, d)
               \/ AwaitBudget(Downloader, d) \/ Downloaded(Downloader, d)
               \/ PutDownloaded(Downloader, d) \/ DownloadFails(Downloader, d)
        PROVE  UNCHANGED dbVars
    BY <1>3 DEF SkipDownload, Acquire, AwaitBudget, Downloaded, PutDownloaded,
                DownloadFails, dbVars
  <1>4. ASSUME \/ FirstPut \/ Resolution \/ FirstResumes \/ ArmFlush(Saver)
               \/ QueryArtifacts(Querier) \/ SaveArtifacts(Saver)
               \/ ResolveFuture(Resolver) \/ Drain(EndStage) \/ GetNext(Downloader)
               \/ DownloaderEnds(Downloader) \/ PipelineSucceeds \/ UNCHANGED vars
        PROVE  UNCHANGED dbVars
    BY <1>4 DEF FirstPut, Resolution, FirstResumes, ArmFlush, QueryArtifacts,
                SaveArtifacts, ResolveFuture, Drain, GetNext, DownloaderEnds,
                PipelineSucceeds, vars, dbVars
  <1> QED
    BY <1>1, <1>2, <1>3, <1>4, Cases

\* Content that is saved stays saved.
LEMMA RowsGrow ==
    ASSUME [Next]_vars
    PROVE  rows \subseteq rows'
  <1>1. CASE UNCHANGED dbVars
    BY <1>1 DEF dbVars
  <1>2. CASE SaveContent(ContentSaver)
    BY <1>2 DEF SaveContent
  <1>3. CASE Associate(Associator)
    BY <1>3 DEF Associate
  <1>4. ASSUME NEW s \in Batching, AddContent(s) \/ RemoveContent(s)
        PROVE  rows \subseteq rows'
    BY <1>4 DEF AddContent, RemoveContent
  <1>5. CASE PipelineFails
    BY <1>5 DEF PipelineFails
  <1>6. CASE OtherSaves
    BY <1>6 DEF OtherSaves
  <1> QED
    BY <1>1, <1>2, <1>3, <1>4, <1>5, <1>6, DbChanges

\* The steps that change a future.
LEMMA FutureChanges ==
    ASSUME [Next]_vars
    PROVE  future' = future \/ Resolution \/ ResolveFuture(Resolver)
  <1>1. ASSUME NEW s \in Stages, Put(s) \/ Finish(s) \/ StageFails(s) \/ Cancel(s)
        PROVE  future' = future
    BY <1>1 DEF Put, Finish, StageFails, Cancel, itemVars
  <1>2. ASSUME NEW s \in Batching,
               \/ Listen(s) \/ Collect(s) \/ HandOver(s) \/ AddContent(s) \/ RemoveContent(s)
        PROVE  future' = future
    BY <1>2 DEF Listen, Collect, HandOver, AddContent, RemoveContent, itemVars
  <1>3. ASSUME NEW d \in Items,
               \/ SkipDownload(Downloader, d) \/ Acquire(Downloader, d)
               \/ AwaitBudget(Downloader, d) \/ Downloaded(Downloader, d)
               \/ PutDownloaded(Downloader, d) \/ DownloadFails(Downloader, d)
        PROVE  future' = future
    BY <1>3 DEF SkipDownload, Acquire, AwaitBudget, Downloaded, PutDownloaded,
                DownloadFails, itemVars
  <1>4. ASSUME \/ FirstPut \/ FirstResumes \/ ArmFlush(Saver) \/ QueryArtifacts(Querier)
               \/ SaveArtifacts(Saver) \/ SaveContent(ContentSaver)
               \/ Associate(Associator) \/ Drain(EndStage) \/ GetNext(Downloader)
               \/ DownloaderEnds(Downloader) \/ PipelineFails \/ PipelineSucceeds
               \/ OtherSaves \/ UNCHANGED vars
        PROVE  future' = future
    BY <1>4 DEF FirstPut, FirstResumes, ArmFlush, QueryArtifacts, SaveArtifacts,
                SaveContent, Associate, Drain, GetNext, DownloaderEnds, PipelineFails,
                PipelineSucceeds, OtherSaves, vars, itemVars
  <1> QED
    BY <1>1, <1>2, <1>3, <1>4, Cases

\* Content is saved before it goes further than the saver of content, and before
\* anybody learns that it is.
LEMMA SavedFirstStep ==
    ASSUME Placed, DataTypes, SavedFirst, Passage, [Next]_vars
    PROVE  SavedFirst'
  <1>0. /\ {ContentSaver, Resolver, Associator} \subseteq Stages
        /\ \A s \in Stages : s \in Depths
        /\ ContentSaver > 2 /\ Resolver > ContentSaver /\ ContentSaver \in Int
        /\ Resolver \in Depths /\ Depths \subseteq Int
    BY Order DEF Depths
  <1>1. rows \subseteq rows'
    BY RowsGrow
  <1>2. ASSUME NEW d \in Items, NEW n \in Depths, At(d, n)', n > ContentSaver
        PROVE  Key[d] \in rows'
    <2>1. CASE At(d, n)
      BY <1>1, <1>2, <2>1 DEF SavedFirst
    <2>2. CASE n = 2
      BY <1>0, <1>2, <2>2
    <2>3. CASE Passed(d, n) /\ n - 1 > ContentSaver
      BY <1>0, <1>1, <2>3 DEF SavedFirst, Passed
    <2>4. CASE Passed(d, n) /\ n - 1 = ContentSaver
      <3>1. SaveContent(ContentSaver) /\ d \in ToSet(batch[ContentSaver])
        BY <2>4 DEF Passed, Handed
      <3> QED
        BY <3>1 DEF SaveContent
    <2>5. n \in Int /\ ContentSaver \in Int
      BY <1>0
    <2> QED
      BY <1>2, <2>1, <2>2, <2>3, <2>4, <2>5 DEF Passage
  <1>3. ASSUME NEW d \in Items, future'[d] = "resolved"
        PROVE  Key[d] \in rows'
    <2>1. CASE future[d] = "resolved"
      BY <1>1, <2>1 DEF SavedFirst
    <2>2. CASE future[d] # "resolved"
      <3>1. CASE Resolution
        <4>1. PICK e : future' = [future EXCEPT ![e] = "awaited"]
          BY <3>1 DEF Resolution
        <4>2. future'[d] \in {future[d], "awaited"}
          BY <4>1 DEF DataTypes
        <4> QED
          BY <1>3, <2>2, <4>2
      <3>2. CASE ResolveFuture(Resolver)
        <4>1. Head(queue[Resolver]) # End /\ queue[Resolver] # <<>>
              /\ future' = [future EXCEPT ![Head(queue[Resolver])] = "resolved"]
          BY <1>3, <2>2, <3>2 DEF ResolveFuture
        <4>2. d = Head(queue[Resolver])
          BY <1>3, <2>2, <4>1 DEF DataTypes
        <4>3. In(d, "queue", Resolver) /\ "queue" \in Carriers
          BY <1>0, <4>1, <4>2, Heads DEF Carriers
        <4>4. At(d, Resolver)
          BY <1>0, <4>3, Deep DEF Reach
        <4> QED
          BY <1>0, <1>1, <4>4 DEF SavedFirst
      <3> QED
        BY <1>3, <2>2, <3>1, <3>2, FutureChanges
    <2> QED
      BY <2>1, <2>2
  <1> QED
    BY <1>2, <1>3, DepthsStay DEF SavedFirst

\* What the association does with a batch: all of its content is either new, or
\* was in the version and stays.
LEMMA Associated ==
    ASSUME Placed, Contained, DataTypes, Associate(Associator), NEW d \in ToSet(batch[Associator])
    PROVE  /\ Key[d] \notin toDelete'
           /\ d \in FreshOf(Associator) => Key[d] \in toAdd'
           /\ d \notin FreshOf(Associator) => Key[d] \in version'
  <1> DEFINE items == batch[Associator]
  <1>1. /\ toAdd' = {Key[items[i]] : i \in Fresh(items)}
        /\ toDelete' = toDelete \ {Key[e] : e \in ToSet(items)}
        /\ version' = version /\ mode[Associator] = "handle"
    BY DEF Associate, Fresh
  <1>2. FreshOf(Associator) = {items[i] : i \in Fresh(items)}
    BY DEF FreshOf
  <1>3. PICK i \in DOMAIN items : items[i] = d
    BY DEF ToSet
  <1>4. d \notin FreshOf(Associator) => Key[d] \in toDelete
    BY <1>2, <1>3 DEF Fresh, Present
  <1>5. toDelete \subseteq version
    BY <1>1 DEF Contained, DataTypes
  <1> QED
    BY <1>1, <1>2, <1>4, <1>5

\* How content comes to the version, and leaves it.
LEMMA VersionChanges ==
    ASSUME Placed, Empties, Contained, DataTypes, [Next]_vars, outcome' = "running"
    PROVE  /\ \A d \in Items : Settled(d) => Settled(d)'
           /\ \A d \in Items : Associate(Associator) /\ d \in ToSet(batch[Associator]) =>
                 /\ Key[d] \notin toDelete'
                 /\ d \in FreshOf(Associator) => Key[d] \in toAdd'
                 /\ d \notin FreshOf(Associator) => Key[d] \in version'
  <1> USE DEF Settled
  <1>1. CASE UNCHANGED dbVars
    <2>2. \A d \in Items : Settled(d) => Settled(d)'
      BY <1>1 DEF dbVars
    <2>3. CASE Associate(Associator)
      BY <2>2, <2>3, Associated
    <2> QED
      BY <2>2, <2>3
  <1>2. CASE Associate(Associator)
    <2>1. /\ toDelete' \subseteq toDelete /\ version' = version /\ toAdd = {}
      <3>1. mode[Associator] = "handle"
        BY <1>2 DEF Associate
      <3> QED
        BY <1>2, <3>1 DEF Associate, Empties
    <2> QED
      BY <1>2, <2>1, Associated
  <1>3. CASE SaveContent(ContentSaver) \/ OtherSaves
    <2>1. \A d \in Items : Settled(d) => Settled(d)'
      BY <1>3 DEF SaveContent, OtherSaves
    <2> QED
      BY <1>2, <2>1
  <1>4. ASSUME NEW s \in Batching, AddContent(s)
        PROVE  \A d \in Items : Settled(d) => Settled(d)'
    BY <1>4 DEF AddContent
  <1>5. ASSUME NEW s \in Batching, RemoveContent(s)
        PROVE  \A d \in Items : Settled(d) => Settled(d)'
    BY <1>5 DEF RemoveContent
  <1>6. CASE PipelineFails
    BY <1>6 DEF PipelineFails
  <1> QED
    BY <1>1, <1>2, <1>3, <1>4, <1>5, <1>6, DbChanges

\* Nothing that was sent is lost on the way to the version.
LEMMA KeptStep ==
    ASSUME Placed, DataTypes, Empties, Kept, Contained, Passage, Departure, Growth,
           [Next]_vars, outcome' = "running"
    PROVE  Kept'
  <1>0. /\ {Associator, EndStage} \subseteq Stages /\ Associator > 2
        /\ EndStage > Associator /\ Associator \in Int /\ EndStage \in Int
        /\ Stages \subseteq Depths /\ Depths \subseteq Int
    BY Order DEF Depths
  <1>1. \A d \in Items : Settled(d) => Settled(d)'
    BY VersionChanges
  <1>2. \A d \in Items : Associate(Associator) /\ d \in ToSet(batch[Associator]) =>
            /\ Key[d] \notin toDelete'
            /\ d \in FreshOf(Associator) => Key[d] \in toAdd'
            /\ d \notin FreshOf(Associator) => Key[d] \in version'
    BY VersionChanges
  <1>3. FreshOf(Associator) \subseteq ToSet(batch[Associator])
    <2>1. \A i \in Fresh(batch[Associator]) : i \in DOMAIN batch[Associator]
      BY DEF Fresh
    <2> QED
      BY <2>1 DEF FreshOf, ToSet
  <1>4. ASSUME NEW d \in Items, d \in Sent'
        PROVE  Somewhere(d)' \/ Settled(d)'
    <2>1. CASE d \notin Sent
      BY <1>4, <2>1 DEF Growth
    <2>2. CASE d \in Sent /\ Settled(d)
      BY <1>1, <2>2
    <2>3. CASE d \in Sent /\ Somewhere(d)
      <3>1. CASE Somewhere(d)'
        BY <3>1
      <3>2. CASE ~Somewhere(d)'
        <4>1. Leaves(d)
          BY <2>3, <3>2 DEF Departure
        <4>2. CASE At(d, EndStage)
          BY <1>0, <1>1, <4>2 DEF Kept
        <4>3. CASE Associate(Associator) /\ d \in ToSet(batch[Associator]) \ FreshOf(Associator)
          BY <1>2, <4>3 DEF Settled
        <4> QED
          BY <4>1, <4>2, <4>3 DEF Leaves
      <3> QED
        BY <3>1, <3>2
    <2> QED
      BY <1>4, <2>1, <2>2, <2>3 DEF Kept
  <1>5. ASSUME NEW d \in Items, NEW n \in Depths, At(d, n)', n > Associator
        PROVE  Settled(d)'
    <2>1. CASE At(d, n)
      BY <1>1, <1>5, <2>1 DEF Kept
    <2>2. CASE n = 2
      BY <1>0, <1>5, <2>2
    <2>3. CASE Passed(d, n) /\ n - 1 > Associator
      BY <1>0, <1>1, <2>3 DEF Kept, Passed
    <2>4. CASE Passed(d, n) /\ n - 1 = Associator
      <3>1. Associate(Associator) /\ d \in FreshOf(Associator)
        BY <2>4 DEF Passed, Handed
      <3> QED
        BY <1>2, <1>3, <3>1 DEF Settled
    <2>5. n \in Int /\ Associator \in Int
      BY <1>0
    <2> QED
      BY <1>5, <2>1, <2>2, <2>3, <2>4, <2>5 DEF Passage
  <1>6. Sent' \subseteq Items
    BY DEF Sent
  <1> QED
    BY <1>4, <1>5, <1>6, DepthsStay DEF Kept

Over == {"finish", "done"}
AssociatorGoes ==
    /\ mode'[Associator] \in Over => mode[Associator] \in Over \/ RemoveContent(Associator)
    /\ mode[Associator] \in Over /\ outcome' = "running" => mode'[Associator] \in Over

\* The association is over when it has removed what is not there any more.
LEMMA AssociatorEnds ==
    ASSUME ControlTypes, [Next]_vars
    PROVE  AssociatorGoes
  <1> USE DEF flowVars, AssociatorGoes, Over
  <1>0. /\ mode \in [Stages -> Modes] /\ Batching \subseteq Stages /\ Associator \in Stages
        /\ Associator \notin {First, Downloader, Resolver, EndStage}
    <2>1. Associator \in Stages /\ Associator \notin {First, Downloader, Resolver, EndStage}
      BY Order
    <2> QED
      BY <2>1, Batchers DEF ControlTypes
  <1>1. ASSUME mode'[Associator] = mode[Associator]
        PROVE  AssociatorGoes
    BY <1>1
  <1>2. CASE FirstPut \/ FirstResumes
    <2>1. mode'[Associator] = mode[Associator]
      BY <1>0, <1>2 DEF FirstPut, FirstResumes
    <2> QED
      BY <1>1, <2>1
  <1>3. ASSUME NEW s \in Stages \ {EndStage}, Put(s)
        PROVE  AssociatorGoes
    <2>1. /\ mode'[Associator] = mode[Associator] \/ mode'[Associator] = AfterPut(s)
          /\ mode'[Associator] = mode[Associator] \/ s = Associator
          /\ mode[s] = "put"
      BY <1>0, <1>3 DEF Put
    <2>2. AfterPut(Associator) \notin Over
      BY <1>0, After
    <2> QED
      BY <2>1, <2>2
  <1>4. ASSUME NEW s \in Stages \ {EndStage}, Finish(s)
        PROVE  AssociatorGoes
    BY <1>0, <1>4 DEF Finish
  <1>5. ASSUME NEW s \in Batching, Collect(s)
        PROVE  AssociatorGoes
    <2>1. mode[s] = "wait" /\ (s # Associator => mode'[Associator] = mode[Associator])
      BY <1>0, <1>5 DEF Collect
    <2>2. mode'[s] \in {"handle", "wait", "tail", "finish"}
          /\ (mode'[s] = "finish" => Kinds[s] # "associate")
      BY <1>0, <1>5 DEF Collect
    <2>3. Kinds[Associator] = "associate"
      BY <1>0, Kinded
    <2> QED
      BY <2>1, <2>2, <2>3
  <1>6. ASSUME NEW s \in Batching \ {Associator}, NEW items, Hands(s, items)
        PROVE  AssociatorGoes
    BY <1>0, <1>6 DEF Hands
  <1>7. CASE Associate(Associator)
    <2>1. mode[Associator] = "handle" /\ mode'[Associator] \in {AfterPut(Associator), "put"}
      BY <1>0, <1>7 DEF Associate
    <2>2. AfterPut(Associator) \notin Over
      BY <1>0, After
    <2> QED
      BY <2>1, <2>2
  <1>8. ASSUME NEW s \in Batching, AddContent(s)
        PROVE  AssociatorGoes
    BY <1>0, <1>8 DEF AddContent
  <1>9. ASSUME NEW s \in Batching, RemoveContent(s)
        PROVE  AssociatorGoes
    <2>1. mode' = [mode EXCEPT ![s] = "finish"] /\ mode[s] = "tail"
      BY <1>9 DEF RemoveContent
    <2>2. CASE s = Associator
      BY <1>0, <1>9, <2>1, <2>2
    <2>3. CASE s # Associator
      BY <1>0, <2>1, <2>3
    <2> QED
      BY <2>2, <2>3
  <1>10. CASE ResolveFuture(Resolver)
    BY <1>0, <1>10 DEF ResolveFuture
  <1>11. CASE Drain(EndStage)
    BY <1>0, <1>11 DEF Drain
  <1>12. CASE DownloaderEnds(Downloader)
    BY <1>0, <1>12 DEF DownloaderEnds
  <1>13. ASSUME NEW d \in Items, DownloadFails(Downloader, d)
         PROVE  AssociatorGoes
    BY <1>0, <1>13 DEF DownloadFails
  <1>14. ASSUME NEW s \in Stages, StageFails(s) \/ Cancel(s)
         PROVE  AssociatorGoes
    <2>1. /\ outcome' = "failing"
          /\ \/ mode' = [mode EXCEPT ![s] = "failed"]
             \/ mode' = [mode EXCEPT ![s] = "cancelled"]
      BY <1>14 DEF StageFails, Cancel
    <2> QED
      BY <1>0, <2>1
  <1>15. ASSUME NEW d \in Items,
                \/ SkipDownload(Downloader, d) \/ Acquire(Downloader, d)
                \/ AwaitBudget(Downloader, d) \/ Downloaded(Downloader, d)
                \/ PutDownloaded(Downloader, d)
         PROVE  AssociatorGoes
    <2>1. mode' = mode
      BY <1>15 DEF SkipDownload, Acquire, AwaitBudget, Downloaded, PutDownloaded
    <2> QED
      BY <1>1, <2>1
  <1>16. ASSUME \/ Resolution \/ ArmFlush(Saver) \/ GetNext(Downloader)
                \/ (\E s \in Batching : Listen(s))
                \/ PipelineFails \/ PipelineSucceeds \/ OtherSaves \/ UNCHANGED vars
         PROVE  AssociatorGoes
    <2>1. mode' = mode
      BY <1>16 DEF Resolution, ArmFlush, GetNext, Listen, PipelineFails,
                   PipelineSucceeds, OtherSaves, vars
    <2> QED
      BY <1>1, <2>1
  <1>17. CASE \/ \E s \in Batching \ {Querier, Saver, ContentSaver, Associator} : HandOver(s)
              \/ QueryArtifacts(Querier) \/ SaveArtifacts(Saver) \/ SaveContent(ContentSaver)
    BY <1>6, <1>17, HandsOf
  <1> HIDE DEF flowVars, AssociatorGoes, Over
  <1> QED
    BY <1>2, <1>3, <1>4, <1>5, <1>7, <1>8, <1>9, <1>10, <1>11, <1>12, <1>13, <1>14,
       <1>15, <1>16, <1>17, Cases

\* The version has content of the sync and content that was there, no other.
LEMMA ContainedStep ==
    ASSUME Placed, ControlTypes, DataTypes, Empties, Postures, Contained, [Next]_vars,
           outcome' = "running"
    PROVE  Contained'
  <1> DEFINE over == {"finish", "done"}
  <1>0. /\ mode'[Associator] \in over => mode[Associator] \in over \/ RemoveContent(Associator)
        /\ mode[Associator] \in over => mode'[Associator] \in over
    BY AssociatorEnds DEF AssociatorGoes, Over
  <1>1. CASE UNCHANGED dbVars
    <2>1. ~RemoveContent(Associator) \/ (~Mirror \/ version' \cap toDelete' = {})
      BY <1>1 DEF RemoveContent, dbVars
    <2> QED
      BY <1>0, <1>1, <2>1 DEF Contained, dbVars
  <1>2. CASE SaveContent(ContentSaver) \/ OtherSaves
    <2>1. UNCHANGED <<toAdd, toDelete, version>>
      BY <1>2 DEF SaveContent, OtherSaves
    <2>2. ~RemoveContent(Associator) \/ (~Mirror \/ version' \cap toDelete' = {})
      BY <2>1 DEF RemoveContent
    <2> QED
      BY <1>0, <2>1, <2>2 DEF Contained
  <1>3. CASE Associate(Associator)
    <2> DEFINE items == batch[Associator]
    <2>1. /\ toAdd' = {Key[items[i]] : i \in Fresh(items)}
          /\ toDelete' = toDelete \ {Key[d] : d \in ToSet(items)}
          /\ version' = version /\ mode[Associator] = "handle"
      BY <1>3 DEF Associate, Fresh
    <2>2. /\ \A i \in Fresh(items) : items[i] \in Items
          /\ ToSet(items) \subseteq Items
      <3>1. items \in Seq(Items) /\ ToSet(items) \subseteq Items
        BY WholeBatch, Order
      <3> QED
        BY <3>1, ElementOfSeq, LenProperties DEF Fresh
    <2>3. mode'[Associator] \notin over
      <3>1. ~RemoveContent(Associator)
        BY <2>1 DEF RemoveContent
      <3> QED
        BY <1>0, <2>1, <3>1
    <2> HIDE DEF items
    <2>4. toAdd' \subseteq KeysOf(Items) /\ Old \ toDelete' \subseteq KeysOf(Items)
      BY <2>1, <2>2 DEF Contained, KeysOf
    <2>5. Old \subseteq version
      BY <2>1 DEF Contained
    <2> QED
      BY <2>1, <2>3, <2>4, <2>5 DEF Contained
  <1>4. ASSUME NEW s \in Batching, AddContent(s)
        PROVE  Contained'
    <2>1. /\ mode[s] = "add" /\ version' = version \cup toAdd /\ toAdd' = {}
          /\ toDelete' = toDelete
      BY <1>4 DEF AddContent
    <2>2. s = Associator
      BY <2>1, Batchers DEF Postures
    <2>3. mode'[Associator] \notin over
      <3>1. ~RemoveContent(Associator)
        BY <2>1, <2>2 DEF RemoveContent
      <3> QED
        BY <1>0, <2>1, <2>2, <3>1
    <2> QED
      BY <2>1, <2>2, <2>3 DEF Contained
  <1>5. ASSUME NEW s \in Batching, RemoveContent(s)
        PROVE  Contained'
    <2>1. /\ mode[s] = "tail" /\ toAdd' = toAdd /\ toDelete' = toDelete
          /\ version' = IF Mirror THEN version \ toDelete ELSE version
          /\ mode' = [mode EXCEPT ![s] = "finish"]
      BY <1>5 DEF RemoveContent
    <2>2. s = Associator /\ s \in Stages
      BY <2>1, Batchers DEF Postures
    <2>3. mode'[Associator] = "finish"
      BY <2>1, <2>2 DEF ControlTypes
    <2> QED
      BY <2>1, <2>2, <2>3 DEF Contained
  <1>6. CASE PipelineFails
    BY <1>6 DEF PipelineFails
  <1> QED
    BY <1>1, <1>2, <1>3, <1>4, <1>5, <1>6, DbChanges

-----------------------------------------------------------------------------
(***************************************************************************)
(* What the downloader knows, and the budget, kept.                        *)
(***************************************************************************)
\* The steps that change artifacts, tasks and the budget.
LEMMA LoadChanges ==
    ASSUME [Next]_vars
    PROVE  \/ UNCHANGED <<artifact, handler, budgetVars>>
           \/ QueryArtifacts(Querier) \/ SaveArtifacts(Saver) \/ GetNext(Downloader)
           \/ \E d \in Items : \/ SkipDownload(Downloader, d) \/ Acquire(Downloader, d)
                               \/ AwaitBudget(Downloader, d) \/ Downloaded(Downloader, d)
                               \/ PutDownloaded(Downloader, d)
                               \/ DownloadFails(Downloader, d)
           \/ Cancel(Downloader)
  <1> USE DEF itemVars, downloadVars
  <1>1. ASSUME NEW s \in Stages, Put(s) \/ Finish(s) \/ StageFails(s)
        PROVE  UNCHANGED <<artifact, handler, budgetVars>>
    BY <1>1 DEF Put, Finish, StageFails
  <1>2. ASSUME NEW s \in Batching,
               \/ Listen(s) \/ Collect(s) \/ HandOver(s) \/ AddContent(s) \/ RemoveContent(s)
        PROVE  UNCHANGED <<artifact, handler, budgetVars>>
    BY <1>2 DEF Listen, Collect, HandOver, AddContent, RemoveContent
  <1>3. ASSUME NEW s \in Stages, s # Downloader, Cancel(s)
        PROVE  UNCHANGED <<artifact, handler, budgetVars>>
    BY <1>3, Kinded DEF Cancel
  <1>4. ASSUME \/ FirstPut \/ Resolution \/ FirstResumes \/ ArmFlush(Saver)
               \/ SaveContent(ContentSaver) \/ Associate(Associator)
               \/ ResolveFuture(Resolver) \/ Drain(EndStage)
               \/ DownloaderEnds(Downloader) \/ PipelineFails \/ PipelineSucceeds
               \/ OtherSaves \/ UNCHANGED vars
        PROVE  UNCHANGED <<artifact, handler, budgetVars>>
    BY <1>4 DEF FirstPut, Resolution, FirstResumes, ArmFlush, SaveContent, Associate,
                ResolveFuture, Drain, DownloaderEnds, PipelineFails, PipelineSucceeds,
                OtherSaves, vars
  <1> QED
    BY <1>1, <1>2, <1>3, <1>4, Cases

\* Where an item comes from: a stage before, if it has passed that stage's work.
LEMMA Arrives ==
    ASSUME Passage, NEW d \in Items, NEW n \in Depths, At(d, n)'
    PROVE  \/ n = 2 /\ d \in Sent' \ Sent
           \/ \E m \in Depths :
                 /\ At(d, m) /\ m <= n
                 /\ n > Downloader /\ m <= Downloader => PutDownloaded(Downloader, d)
                 /\ n > Saver /\ m <= Saver =>
                       SaveArtifacts(Saver) /\ d \in ToSet(batch[Saver])
  <1>0. Stages \subseteq Depths /\ Depths \subseteq Int /\ {Downloader, Saver} \subseteq Int
    BY Order DEF Depths
  <1>1. CASE At(d, n)
    BY <1>0, <1>1
  <1>2. CASE Passed(d, n)
    <2>1. /\ n - 1 \in Stages /\ At(d, n - 1)
          /\ n - 1 = Downloader => PutDownloaded(Downloader, d)
          /\ n - 1 = Saver => SaveArtifacts(Saver) /\ d \in ToSet(batch[Saver])
      BY <1>2 DEF Passed, Handed
    <2>2. n - 1 \in Depths /\ n - 1 <= n
      BY <1>0, <2>1
    <2>3. n > Downloader /\ n - 1 <= Downloader => n - 1 = Downloader
      BY <1>0
    <2>4. n > Saver /\ n - 1 <= Saver => n - 1 = Saver
      BY <1>0
    <2> QED
      BY <2>1, <2>2, <2>3, <2>4
  <1> QED
    BY <1>1, <1>2 DEF Passage

\* An item in a batch of the querier or the saver, or in a queue.
LEMMA InBatch ==
    ASSUME Placed, NEW s \in Stages, NEW d \in ToSet(batch[s])
    PROVE  d \in Items /\ At(d, s) /\ s \in Depths /\ Somewhere(d) /\ d \notin Pending
  <1>1. d \in Items
    BY WholeBatch
  <1>2. In(d, "batch", s) /\ "batch" \in Carriers /\ Alone
    BY <1>1, Forms DEF Carriers, Placed
  <1>3. Reach("batch", s) = s
    BY DEF Reach
  <1> QED
    BY <1>1, <1>2, <1>3, Deep, Only

\* A task has its item at the downloader.
LEMMA InTask ==
    ASSUME Placed, NEW d \in Pending
    PROVE  /\ d \in Items /\ At(d, Downloader) /\ Downloader \in Depths /\ Somewhere(d)
           /\ \A n \in Depths : At(d, n) => n = Downloader
  <1>0. d \in Items /\ Downloader \in Stages
    BY Order DEF Pending
  <1>1. In(d, "task", Downloader) /\ "task" \in Carriers /\ Alone
    BY <1>0, Forms DEF Carriers, Placed
  <1>2. Reach("task", Downloader) = Downloader
    BY DEF Reach
  <1> QED
    BY <1>0, <1>1, <1>2, Deep, OneDepth

\* The saver's batch is one stage further when it is saved.
LEMMA SavedMoves ==
    ASSUME Placed, DataTypes, Empties, SaveArtifacts(Saver)
    PROVE  \A d \in ToSet(batch[Saver]), n \in Depths : At(d, n)' => n = Saver + 1
  <1>1. Saver \in Stages
    BY Order
  <1>2. batch[Saver] \in Seq(Items) /\ Single(batch[Saver])
    BY <1>1, WholeBatch
  <1>3. Hands(Saver, batch[Saver])
    BY DEF SaveArtifacts
  <1>4. handler' \in [Items -> Handlers] /\ Pending' = Pending
    BY SaveRelease
  <1>5. /\ Moving(ToSet(batch[Saver]), Saver + 1, {})
        /\ \A d \in ToSet(batch[Saver]) : d \in Items /\ At(d, Saver)
    BY <1>1, <1>2, <1>3, <1>4, HandsStep
  <1> QED
    BY <1>5 DEF Moving, Flows

\* A task that is stopped leaves no item behind.
LEMMA StoppedMoves ==
    ASSUME Placed, UNCHANGED <<queue, held, batch, out>>,
           handler' \in [Items -> Handlers],
           NEW D \in SUBSET Pending, Pending' = Pending \ D
    PROVE  \A d \in D, n \in Depths : ~At(d, n)'
  <1>1. Moving({}, First, D) /\ D \subseteq Items
    BY StopStep DEF Pending
  <1> QED
    BY <1>1 DEF Moving, Flows

\* An item that a step leaves as it was, but for a task that tries again.
LEMMA SameLoad ==
    ASSUME Placed, Loading, Growth, Passage, NEW d \in Items,
           handler'[d] = handler[d] \/ (handler[d] = "blocked" /\ handler'[d] = "try"),
           artifact'[d] = artifact[d], d \in acquired' <=> d \in acquired
    PROVE  Loads(d)'
  <1>0. Depths \subseteq Int /\ {Downloader, Saver} \subseteq Int /\ Downloader > 1
    BY Order DEF Depths
  <1>1. Loads(d)
    BY DEF Loading
  <1>2. ASSUME NEW n \in Depths, At(d, n)'
        PROVE  Borne(d, n)'
    <2>1. CASE n = 2 /\ d \in Sent' \ Sent
      BY <1>0, <1>1, <2>1 DEF Loads, Borne
    <2>2. ASSUME NEW m \in Depths, At(d, m), m <= n,
                 n > Downloader /\ m <= Downloader => PutDownloaded(Downloader, d)
          PROVE  Borne(d, n)'
      <3>1. Borne(d, m)
        BY <1>1, <2>2 DEF Loads
      <3>2. CASE PutDownloaded(Downloader, d)
        <4>1. handler' = [handler EXCEPT ![d] = "done"] /\ handler[d] = "put"
          BY <3>2 DEF PutDownloaded
        <4>2. handler'[d] = "done"
          BY <4>1 DEF Placed, CarrierTypes
        <4> QED
          BY <4>1, <4>2
      <3>3. CASE ~PutDownloaded(Downloader, d)
        BY <1>0, <2>2, <3>1, <3>3 DEF Borne
      <3> QED
        BY <3>2, <3>3
    <2> QED
      BY <1>2, <2>1, <2>2, Arrives
  <1>3. d \notin Sent' => handler'[d] = "none" /\ artifact'[d] \in {"none", "wanted"}
    BY <1>1 DEF Loads, Growth
  <1> QED
    BY <1>1, <1>2, <1>3, DepthsStay DEF Loads

\* An item whose task goes on: it stays at the downloader.
LEMMA TaskLoad ==
    ASSUME Placed, Unsent, Loading, Growth, NEW d0 \in Pending,
           NEW h \in {"try", "blocked", "load", "put"},
           UNCHANGED <<queue, held, batch, out>>, handler' = [handler EXCEPT ![d0] = h],
           artifact'[d0] = "none" <=> d0 \notin Needs,
           h \in {"try", "blocked"} => d0 \notin acquired' /\ artifact'[d0] # "file",
           h = "load" => d0 \in acquired' /\ artifact'[d0] = "wanted",
           h = "put" => artifact'[d0] # "wanted",
           artifact'[d0] = "file" => d0 \in acquired',
           artifact'[d0] = "saved" => d0 \in Stored
    PROVE  Loads(d0)'
  <1>0. /\ {Downloader, Saver} \subseteq Int /\ Depths \subseteq Int
    BY Order DEF Depths
  <1>1. d0 \in Items /\ handler'[d0] = h
    BY DEF Pending, Placed, CarrierTypes
  <1>2. Steady
    BY <1>1, TaskStep
  <1>3. \A n \in Depths : At(d0, n)' => n = Downloader
    BY <1>1, <1>2, InTask DEF Steady, AtStill
  <1>4. d0 \in Sent'
    BY <1>1, InTask DEF Unsent, Growth
  <1>5. ASSUME NEW n \in Depths, At(d0, n)'
        PROVE  Borne(d0, n)'
    <2>1. n = Downloader
      BY <1>3, <1>5
    <2>2. ~(n > Downloader) /\ handler'[d0] \notin {"done", "stopped"}
      BY <1>0, <1>1, <2>1
    <2> QED
      BY <2>2 DEF Borne
  <1> QED
    BY <1>1, <1>4, <1>5, DepthsStay DEF Loads

\* What the stages know of an item is right.
LEMMA LoadingStep ==
    ASSUME Placed, DataTypes, Empties, Unsent, Loading, Passage, Growth, [Next]_vars
    PROVE  Loading'
  <1> USE DEF budgetVars
  <1>0. /\ Depths \subseteq Int /\ {Querier, Downloader, Saver} \subseteq Int
        /\ Querier < Downloader /\ Downloader < Saver /\ Downloader > 1
        /\ {Querier, Downloader, Saver} \subseteq Stages
    BY Order DEF Depths
  <1>a. /\ handler \in [Items -> Handlers] /\ acquired \subseteq Items
        /\ artifact \in [Items -> {"none", "wanted", "file", "saved"}]
    BY DEF Placed, CarrierTypes, DataTypes
  <1>b. \A d \in Items : Loads(d)
    BY DEF Loading
  <1>c. \A d \in Items : Somewhere(d) => d \in Sent'
    BY DEF Unsent, Growth
  <1>d. acquired \subseteq Sent'
    BY DEF Loading, Growth
  <1>1. CASE UNCHANGED <<artifact, handler, budgetVars>>
    <2>1. \A d \in Items : Loads(d)'
      BY <1>1, SameLoad
    <2> QED
      BY <1>1, <1>d, <2>1 DEF Loading
  <1>2. CASE QueryArtifacts(Querier)
    <2>1. /\ handler' = handler /\ acquired' = acquired
          /\ \A d \in Items : artifact'[d] = IF d \in ToSet(batch[Querier]) \cap Stored
                                             THEN "saved" ELSE artifact[d]
      BY <1>2 DEF QueryArtifacts
    <2>2. ASSUME NEW d \in Items, d \in ToSet(batch[Querier]) \cap Stored
          PROVE  Loads(d)'
      <3>1. At(d, Querier) /\ Querier \in Depths /\ Somewhere(d) /\ d \notin Pending
        BY <1>0, <2>2, InBatch
      <3>2. handler[d] = "none" /\ Borne(d, Querier)
        BY <1>0, <1>a, <1>b, <3>1 DEF Loads, Borne, Pending, Handlers
      <3>3. d \in Needs
        BY <2>2, StagesAssumption
      <3>4. ASSUME NEW n \in Depths, At(d, n)'
            PROVE  Borne(d, n)'
        <4>1. ~PutDownloaded(Downloader, d)
          BY <3>2 DEF PutDownloaded
        <4>2. n <= Downloader
          <5>1. d \notin Sent' \ Sent
            BY <3>1 DEF Unsent
          <5>2. PICK m \in Depths : /\ At(d, m) /\ m <= n
                                    /\ n > Downloader => m > Downloader
            BY <1>0, <3>4, <4>1, <5>1, Arrives
          <5>3. m > Downloader => handler[d] = "done"
            BY <1>b, <5>2 DEF Loads, Borne
          <5> QED
            BY <1>0, <3>2, <5>2, <5>3
        <4> QED
          BY <1>0, <2>1, <2>2, <3>2, <4>2 DEF Borne
      <3> QED
        BY <1>b, <1>c, <2>1, <2>2, <3>1, <3>2, <3>3, <3>4, DepthsStay DEF Loads
    <2>3. ASSUME NEW d \in Items, d \notin ToSet(batch[Querier]) \cap Stored
          PROVE  Loads(d)'
      BY <2>1, <2>3, SameLoad
    <2> QED
      BY <1>d, <2>1, <2>2, <2>3 DEF Loading
  <1>3. CASE SaveArtifacts(Saver)
    <2> DEFINE ds == ToSet(batch[Saver])
    <2>1. /\ \A d \in Items : handler'[d] = IF handler[d] = "blocked" THEN "try"
                                            ELSE handler[d]
          /\ acquired' = acquired \ ds
      BY <1>3, SaveRelease
    <2>2. \A d \in Items : artifact'[d] = IF d \in ds /\ artifact[d] = "file"
                                         THEN "saved" ELSE artifact[d]
      BY <1>3 DEF SaveArtifacts
    <2>3. ASSUME NEW d \in Items, d \in ds
          PROVE  Loads(d)'
      <3>1. At(d, Saver) /\ Saver \in Depths /\ Somewhere(d)
        BY <1>0, <2>3, InBatch
      <3>2. handler[d] = "done" /\ Borne(d, Saver)
        BY <1>0, <1>b, <3>1 DEF Loads, Borne
      <3>3. \A n \in Depths : At(d, n)' => n = Saver + 1
        BY <1>3, <2>3, SavedMoves
      <3>4. ASSUME NEW n \in Depths, At(d, n)'
            PROVE  Borne(d, n)'
        <4>1. n = Saver + 1
          BY <3>3, <3>4
        <4>2. n > Downloader /\ ~(n <= Saver)
          BY <1>0, <4>1
        <4>3. handler'[d] = "done" /\ artifact'[d] # "file"
          BY <2>1, <2>2, <2>3, <3>2
        <4> QED
          BY <4>2, <4>3 DEF Borne
      <3>5. /\ handler'[d] = "done" /\ artifact'[d] # "wanted"
            /\ artifact'[d] = "none" <=> d \notin Needs
        BY <1>b, <2>1, <2>2, <3>2 DEF Loads
      <3>6. d \in Sent'
        BY <1>c, <3>1
      <3> QED
        BY <3>4, <3>5, <3>6, DepthsStay DEF Loads
    <2>4. ASSUME NEW d \in Items, d \notin ds
          PROVE  Loads(d)'
      BY <2>1, <2>2, <2>4, SameLoad
    <2> QED
      BY <1>d, <2>1, <2>3, <2>4 DEF Loading
  <1>4. CASE GetNext(Downloader)
    <2> DEFINE d0 == Head(queue[Downloader])
    <2>1. /\ UNCHANGED <<artifact, budgetVars>> /\ queue[Downloader] # <<>>
          /\ \/ d0 = End /\ handler' = handler
             \/ d0 # End /\ handler' = [handler EXCEPT ![d0] = "try"]
      BY <1>4 DEF GetNext, itemVars
    <2>2. d0 \in Items => In(d0, "queue", Downloader) /\ d0 \notin Pending
      BY <1>0, <2>1, Heads
    <2>3. ASSUME NEW d \in Items, d = d0
          PROVE  Loads(d)'
      <3>1. In(d, "queue", Downloader) /\ "queue" \in Carriers /\ d \notin Pending
        BY <2>2, <2>3 DEF Carriers
      <3>2. At(d, Downloader) /\ Downloader \in Depths /\ Somewhere(d)
        BY <1>0, <3>1, Deep DEF Reach
      <3>3. handler[d] = "none" /\ Borne(d, Downloader)
        BY <1>0, <1>a, <1>b, <3>1, <3>2 DEF Loads, Borne, Pending, Handlers
      <3>4. End \notin Items
        BY StagesAssumption
      <3>5. handler'[d] = "try" /\ artifact' = artifact /\ acquired' = acquired
        BY <1>a, <2>1, <2>3, <3>4
      <3>6. ASSUME NEW n \in Depths, At(d, n)'
            PROVE  Borne(d, n)'
        <4>1. ~PutDownloaded(Downloader, d)
          BY <3>3 DEF PutDownloaded
        <4>2. d \notin Sent' \ Sent
          BY <3>2 DEF Unsent
        <4>3. PICK m \in Depths : /\ At(d, m) /\ m <= n
                                  /\ n > Downloader => m > Downloader
          BY <1>0, <3>6, <4>1, <4>2, Arrives
        <4>4. m > Downloader => handler[d] = "done"
          BY <1>b, <4>3 DEF Loads, Borne
        <4>5. n <= Downloader
          BY <1>0, <3>3, <4>3, <4>4
        <4> QED
          BY <1>0, <3>3, <3>5, <4>5 DEF Borne
      <3>7. d \in Sent'
        BY <1>c, <3>2
      <3> QED
        BY <1>b, <3>3, <3>5, <3>6, <3>7, DepthsStay DEF Loads
    <2>4. ASSUME NEW d \in Items, d # d0
          PROVE  Loads(d)'
      <3>1. handler'[d] = handler[d]
        BY <1>a, <2>1, <2>4
      <3> QED
        BY <2>1, <3>1, SameLoad
    <2> QED
      BY <1>d, <2>1, <2>3, <2>4 DEF Loading
  <1>5. ASSUME NEW d0 \in Items, SkipDownload(Downloader, d0)
        PROVE  Loading'
    <2>1. /\ UNCHANGED <<queue, held, batch, out, artifact, acquired>>
          /\ handler' = [handler EXCEPT ![d0] = "put"]
          /\ handler[d0] = "try" /\ artifact[d0] # "wanted"
      BY <1>5 DEF SkipDownload, flowVars, batchVars, itemVars
    <2>2. d0 \in Pending
      BY <2>1 DEF Pending
    <2>3. Loads(d0) /\ Borne(d0, Downloader)
      BY <1>b, <2>2, InTask DEF Loads
    <2>4. Downloader <= Saver
      BY <1>0
    <2>5. Loads(d0)'
      BY <2>1, <2>2, <2>3, <2>4, TaskLoad DEF Loads, Borne
    <2>6. ASSUME NEW d \in Items, d # d0
          PROVE  Loads(d)'
      <3>1. handler'[d] = handler[d]
        BY <1>a, <2>1, <2>6
      <3> QED
        BY <2>1, <3>1, SameLoad
    <2> QED
      BY <1>d, <2>1, <2>5, <2>6 DEF Loading
  <1>6. ASSUME NEW d0 \in Items, Acquire(Downloader, d0)
        PROVE  Loading'
    <2>1. /\ UNCHANGED <<queue, held, batch, out, artifact>>
          /\ handler' = [handler EXCEPT ![d0] = "load"] /\ acquired' = acquired \cup {d0}
          /\ handler[d0] = "try" /\ artifact[d0] = "wanted"
      BY <1>6 DEF Acquire, flowVars, batchVars, itemVars
    <2>2. d0 \in Pending
      BY <2>1 DEF Pending
    <2>3. Loads(d0) /\ d0 \in Sent'
      BY <1>b, <1>c, <2>2, InTask
    <2>5. Loads(d0)'
      BY <2>1, <2>2, <2>3, TaskLoad DEF Loads
    <2>6. ASSUME NEW d \in Items, d # d0
          PROVE  Loads(d)'
      <3>1. handler'[d] = handler[d] /\ (d \in acquired' <=> d \in acquired)
        BY <1>a, <2>1, <2>6
      <3> QED
        BY <2>1, <3>1, SameLoad
    <2> QED
      BY <1>d, <2>1, <2>3, <2>5, <2>6 DEF Loading
  <1>7. ASSUME NEW d0 \in Items, AwaitBudget(Downloader, d0)
        PROVE  Loading'
    <2>1. /\ UNCHANGED <<queue, held, batch, out, artifact, acquired>>
          /\ handler' = [handler EXCEPT ![d0] = "blocked"]
          /\ handler[d0] = "try" /\ artifact[d0] = "wanted"
      BY <1>7 DEF AwaitBudget, flowVars, itemVars
    <2>2. d0 \in Pending
      BY <2>1 DEF Pending
    <2>3. Loads(d0)
      BY <1>b
    <2>5. Loads(d0)'
      BY <2>1, <2>2, <2>3, TaskLoad DEF Loads
    <2>6. ASSUME NEW d \in Items, d # d0
          PROVE  Loads(d)'
      <3>1. handler'[d] = handler[d]
        BY <1>a, <2>1, <2>6
      <3> QED
        BY <2>1, <3>1, SameLoad
    <2> QED
      BY <1>d, <2>1, <2>5, <2>6 DEF Loading
  <1>8. ASSUME NEW d0 \in Items, Downloaded(Downloader, d0)
        PROVE  Loading'
    <2>1. /\ UNCHANGED <<queue, held, batch, out, acquired>>
          /\ handler' = [handler EXCEPT ![d0] = "put"] /\ handler[d0] = "load"
          /\ artifact' = [artifact EXCEPT ![d0] = "file"]
      BY <1>8 DEF Downloaded, flowVars, batchVars, budgetVars
    <2>2. d0 \in Pending /\ artifact'[d0] = "file"
      BY <1>a, <2>1 DEF Pending
    <2>3. Loads(d0) /\ d0 \in acquired /\ artifact[d0] = "wanted"
      BY <1>b, <2>1 DEF Loads
    <2>5. Loads(d0)'
      BY <2>1, <2>2, <2>3, TaskLoad DEF Loads
    <2>6. ASSUME NEW d \in Items, d # d0
          PROVE  Loads(d)'
      <3>1. handler'[d] = handler[d] /\ artifact'[d] = artifact[d]
        BY <1>a, <2>1, <2>6
      <3> QED
        BY <2>1, <3>1, SameLoad
    <2> QED
      BY <1>d, <2>1, <2>5, <2>6 DEF Loading
  <1>9. ASSUME NEW d0 \in Items, PutDownloaded(Downloader, d0)
        PROVE  Loading'
    <2>1. /\ UNCHANGED <<artifact, acquired>> /\ handler[d0] = "put"
          /\ handler' = [handler EXCEPT ![d0] = "done"]
      BY <1>9 DEF PutDownloaded, itemVars
    <2>2. d0 \in Pending /\ handler'[d0] = "done"
      BY <1>a, <2>1 DEF Pending
    <2>3. Loads(d0) /\ Borne(d0, Downloader) /\ d0 \in Sent'
      BY <1>b, <1>c, <2>2, InTask DEF Loads
    <2>4. \A n \in Depths : At(d0, n)' => n = Downloader + 1
      BY <1>9, PutDownloadedStep DEF Moving, Flows
    <2>5. ASSUME NEW n \in Depths, At(d0, n)'
          PROVE  Borne(d0, n)'
      <3>1. n = Downloader + 1
        BY <2>4, <2>5
      <3>2. n > Downloader /\ Downloader <= Saver
        BY <1>0, <3>1
      <3> QED
        BY <2>1, <2>2, <2>3, <3>2 DEF Borne
    <2>6. Loads(d0)'
      BY <2>1, <2>2, <2>3, <2>5, DepthsStay DEF Loads
    <2>7. ASSUME NEW d \in Items, d # d0
          PROVE  Loads(d)'
      <3>1. handler'[d] = handler[d]
        BY <1>a, <2>1, <2>7
      <3> QED
        BY <2>1, <3>1, SameLoad
    <2> QED
      BY <1>d, <2>1, <2>6, <2>7 DEF Loading
  <1>10. ASSUME NEW d0 \in Items, DownloadFails(Downloader, d0)
         PROVE  Loading'
    <2>1. /\ UNCHANGED <<queue, held, batch, out, artifact>>
          /\ handler' \in [Items -> Handlers]
          /\ Pending' = Pending \ {d0} /\ {d0} \in SUBSET Pending
          /\ acquired' = acquired \ Paid({d0})
          /\ \A d \in Items : \/ handler'[d] = (IF d = d0 THEN "stopped" ELSE handler[d])
                              \/ (d # d0 /\ handler[d] = "blocked" /\ handler'[d] = "try")
      BY <1>10, FailedTask DEF DownloadFails, itemVars, batchVars
    <2>2. \A n \in Depths : ~At(d0, n)'
      BY <2>1, StoppedMoves
    <2>3. Loads(d0) /\ d0 \in Sent' /\ handler'[d0] = "stopped"
      BY <1>b, <1>c, <2>1, InTask
    <2>4. Loads(d0)'
      BY <2>1, <2>2, <2>3, DepthsStay DEF Loads
    <2>5. ASSUME NEW d \in Items, d # d0
          PROVE  Loads(d)'
      <3>1. d \in acquired' <=> d \in acquired
        BY <2>1, <2>5 DEF Paid
      <3> QED
        BY <2>1, <2>5, <3>1, SameLoad
    <2> QED
      BY <1>d, <2>1, <2>4, <2>5 DEF Loading
  <1>11. CASE Cancel(Downloader)
    <2>1. /\ UNCHANGED <<queue, held, batch, out, artifact>>
          /\ handler' \in [Items -> Handlers] /\ Pending' = {}
          /\ acquired' = acquired \ Paid(Pending)
          /\ \A d \in Items : handler'[d] = IF d \in Pending THEN "stopped" ELSE handler[d]
      BY <1>11, CancelTasks DEF Cancel, itemVars, batchVars
    <2>2. \A d \in Pending, n \in Depths : ~At(d, n)'
      <3>1. Pending' = Pending \ Pending /\ Pending \in SUBSET Pending
        BY <2>1
      <3> QED
        BY <2>1, <3>1, StoppedMoves
    <2>3. ASSUME NEW d \in Items, d \in Pending
          PROVE  Loads(d)'
      <3>1. Loads(d) /\ d \in Sent' /\ handler'[d] = "stopped"
        BY <1>b, <1>c, <2>1, <2>3, InTask
      <3> QED
        BY <2>1, <2>2, <2>3, <3>1, DepthsStay DEF Loads
    <2>4. ASSUME NEW d \in Items, d \notin Pending
          PROVE  Loads(d)'
      <3>1. d \in acquired' <=> d \in acquired
        BY <2>1, <2>4 DEF Paid
      <3> QED
        BY <2>1, <2>4, <3>1, SameLoad
    <2> QED
      BY <1>d, <2>1, <2>3, <2>4 DEF Loading
  <1> QED
    BY <1>1, <1>2, <1>3, <1>4, <1>5, <1>6, <1>7, <1>8, <1>9, <1>10, <1>11, LoadChanges

\* An artifact that is there stays, and a saved one is saved.
LEMMA ArtifactsStay ==
    ASSUME DataTypes, Loading, [Next]_vars
    PROVE  \A d \in Items : /\ artifact[d] # "wanted" => artifact'[d] # "wanted"
                            /\ artifact[d] = "saved" => artifact'[d] = "saved"
  <1> USE DEF itemVars
  <1>1. artifact \in [Items -> {"none", "wanted", "file", "saved"}]
    BY DEF DataTypes
  <1>2. CASE UNCHANGED artifact
    BY <1>2
  <1>3. CASE QueryArtifacts(Querier)
    BY <1>1, <1>3 DEF QueryArtifacts
  <1>4. CASE SaveArtifacts(Saver)
    BY <1>1, <1>4 DEF SaveArtifacts
  <1>5. ASSUME NEW d0 \in Items, Downloaded(Downloader, d0)
        PROVE  \A d \in Items : /\ artifact[d] # "wanted" => artifact'[d] # "wanted"
                                /\ artifact[d] = "saved" => artifact'[d] = "saved"
    <2>1. handler[d0] = "load" /\ artifact' = [artifact EXCEPT ![d0] = "file"]
      BY <1>5 DEF Downloaded
    <2>2. artifact[d0] = "wanted"
      BY <2>1 DEF Loading, Loads
    <2> QED
      BY <1>1, <2>1, <2>2
  <1>6. ASSUME NEW d0 \in Items,
               \/ SkipDownload(Downloader, d0) \/ Acquire(Downloader, d0)
               \/ AwaitBudget(Downloader, d0) \/ PutDownloaded(Downloader, d0)
               \/ DownloadFails(Downloader, d0)
        PROVE  UNCHANGED artifact
    BY <1>6 DEF SkipDownload, Acquire, AwaitBudget, PutDownloaded, DownloadFails
  <1>7. GetNext(Downloader) \/ Cancel(Downloader) => UNCHANGED artifact
    BY DEF GetNext, Cancel
  <1> QED
    BY <1>2, <1>3, <1>4, <1>5, <1>6, <1>7, LoadChanges

\* What the saver gives back too much is never less.
LEMMA DuesGrow ==
    ASSUME DataTypes, Loading, Unsent, Passage, Growth, [Next]_vars
    PROVE  /\ Unpaid \subseteq Unpaid' /\ Underpaid \subseteq Underpaid'
           /\ Overpaid \subseteq Overpaid' /\ Overpaid' \subseteq Unpaid'
           /\ Unpaid \subseteq Items /\ Unpaid' \subseteq Items
  <1>1. Unpaid \subseteq Unpaid' /\ Underpaid \subseteq Underpaid'
    <2>1. \A d \in Sent : d \in Items /\ d \in Sent'
      BY DEF Growth, Sent
    <2> QED
      BY <2>1, ArtifactsStay DEF Unpaid, Underpaid
  <1>2. ASSUME NEW d \in Overpaid, NEW n \in Depths, At(d, n)'
        PROVE  n > Saver
    <2>1. d \in Items /\ d \notin Sent' \ Sent /\ Through(d)
      BY <1>2 DEF Overpaid, Unpaid, Sent
    <2>2. \E m \in Depths : At(d, m) /\ m <= n
      BY <1>2, <2>1, Arrives
    <2>3. Depths \subseteq Int /\ Saver \in Int
      BY Order DEF Depths
    <2> QED
      BY <2>1, <2>2, <2>3 DEF Through
  <1>3. Overpaid \subseteq Overpaid'
    BY <1>1, <1>2, DepthsStay DEF Overpaid, Through
  <1> QED
    BY <1>1, <1>3 DEF Overpaid, Unpaid, Sent

\* The counts and sums of the budget are numbers.
LEMMA Counted ==
    ASSUME NEW ds \in SUBSET Items
    PROVE  IsFiniteSet(ds) /\ Cardinality(ds) \in Nat /\ SumOf(Advertised, ds) \in Nat
  BY StagesAssumption, SumType, FS_Subset, FS_CardinalityType

\* Items that give back the share they took.
LEMMA PaidBack ==
    ASSUME DataTypes, NEW ps \in SUBSET acquired
    PROVE  /\ Cardinality(acquired \ ps) = Cardinality(acquired) - Cardinality(ps)
           /\ SumOf(Advertised, acquired \ ps) =
                 SumOf(Advertised, acquired) - SumOf(Advertised, ps)
           /\ Cardinality(acquired) \in Nat /\ Cardinality(ps) \in Nat
           /\ SumOf(Advertised, acquired) \in Nat /\ SumOf(Advertised, ps) \in Nat
  <1>1. acquired \in SUBSET Items /\ ps \in SUBSET Items /\ acquired \cap ps = ps
    BY DEF DataTypes
  <1>2. /\ IsFiniteSet(acquired) /\ Cardinality(acquired) \in Nat
        /\ Cardinality(ps) \in Nat
        /\ SumOf(Advertised, acquired) \in Nat /\ SumOf(Advertised, ps) \in Nat
    BY <1>1, Counted
  <1>3. Cardinality(acquired \ ps) = Cardinality(acquired) - Cardinality(ps)
    <2>1. Cardinality(acquired \ ps) = Cardinality(acquired) - Cardinality(acquired \cap ps)
      BY <1>2, FS_Difference, Zenon
    <2> QED
      BY <1>1, <2>1
  <1>4. SumOf(Advertised, acquired \ ps) =
            SumOf(Advertised, acquired) - SumOf(Advertised, ps)
    BY <1>1, SumLess, StagesAssumption
  <1> QED
    BY <1>1, <1>2, <1>3, <1>4

\* The saver gives back one share for each item of its batch: for those that had
\* none this is one too much, which the dues make up for.
LEMMA SaverPays ==
    ASSUME Placed, DataTypes, Empties, Unsent, Loading, Growth, Passage, [Next]_vars,
           SaveArtifacts(Saver)
    PROVE  LET ds == ToSet(batch[Saver]) IN
           /\ \A d \in ds \ acquired : d \notin Overpaid /\ d \in Overpaid'
           /\ Unpaid' \cup Underpaid' = {} => \A d \in ds : Size[d] <= Advertised[d]
  <1> DEFINE ds == ToSet(batch[Saver])
  <1>0. /\ Saver \in Stages /\ {Downloader, Saver} \subseteq Int /\ Depths \subseteq Int
        /\ Downloader < Saver
    BY Order DEF Depths
  <1>1. ASSUME NEW d \in ds
        PROVE  /\ d \in Items /\ d \in Sent' /\ ~Through(d) /\ Through(d)'
               /\ \/ artifact'[d] # "wanted" /\ (d \in Stored \/ d \notin Needs)
                  \/ d \in acquired /\ artifact'[d] = "saved"
    <2>1. d \in Items /\ At(d, Saver) /\ Saver \in Depths /\ Somewhere(d)
      BY <1>0, InBatch
    <2>2. d \in Sent'
      BY <2>1 DEF Unsent, Growth
    <2>3. ~Through(d)
      BY <1>0, <2>1 DEF Through
    <2>4. Through(d)'
      <3>1. \A n \in Depths : At(d, n)' => n > Saver
        BY <1>0, SavedMoves
      <3> QED
        BY <3>1, DepthsStay DEF Through
    <2>5. Loads(d) /\ Borne(d, Saver) /\ handler[d] = "done"
      BY <1>0, <2>1 DEF Loading, Loads, Borne
    <2>6. artifact'[d] = IF artifact[d] = "file" THEN "saved" ELSE artifact[d]
      BY <2>1 DEF SaveArtifacts
    <2>7. artifact[d] \in {"none", "file", "saved"}
      BY <2>1, <2>5 DEF Loads, DataTypes
    <2>8. CASE artifact[d] = "none"
      BY <2>1, <2>2, <2>3, <2>4, <2>5, <2>6, <2>8 DEF Loads
    <2>9. CASE artifact[d] = "file"
      BY <2>1, <2>2, <2>3, <2>4, <2>5, <2>6, <2>9 DEF Borne
    <2>10. CASE artifact[d] = "saved"
      BY <1>0, <2>1, <2>2, <2>3, <2>4, <2>5, <2>6, <2>10 DEF Borne
    <2> QED
      BY <2>7, <2>8, <2>9, <2>10
  <1>2. ASSUME NEW d \in ds \ acquired
        PROVE  d \notin Overpaid /\ d \in Overpaid'
    BY <1>1 DEF Overpaid, Unpaid
  <1>3. ASSUME NEW d \in ds, Unpaid' \cup Underpaid' = {}
        PROVE  Size[d] <= Advertised[d]
    <2>1. d \notin Unpaid' /\ d \notin Underpaid'
      BY <1>3
    <2>2. d \in Items /\ d \in Sent' /\ artifact'[d] = "saved"
      BY <1>1, <2>1 DEF Unpaid
    <2>3. ~(Size[d] > Advertised[d])
      BY <2>1, <2>2 DEF Underpaid
    <2>4. Size[d] \in Nat /\ Advertised[d] \in Nat
      BY <2>2, StagesAssumption
    <2> QED
      BY <2>3, <2>4
  <1> QED
    BY <1>2, <1>3

\* The steps that touch what an item has taken of the budget.
LEMMA BudgetChanges ==
    ASSUME [Next]_vars
    PROVE  \/ UNCHANGED <<used, bytes, acquired>>
           \/ SaveArtifacts(Saver) \/ Cancel(Downloader)
           \/ \E d \in Items : Acquire(Downloader, d) \/ DownloadFails(Downloader, d)
  <1> USE DEF budgetVars
  <1>1. QueryArtifacts(Querier) \/ GetNext(Downloader) => UNCHANGED <<used, bytes, acquired>>
    BY DEF QueryArtifacts, GetNext
  <1>2. ASSUME NEW d \in Items,
               \/ SkipDownload(Downloader, d) \/ AwaitBudget(Downloader, d)
               \/ Downloaded(Downloader, d) \/ PutDownloaded(Downloader, d)
        PROVE  UNCHANGED <<used, bytes, acquired>>
    BY <1>2 DEF SkipDownload, AwaitBudget, Downloaded, PutDownloaded
  <1> QED
    BY <1>1, <1>2, LoadChanges

\* A task that takes a share finds one.
LEMMA AcquireFits ==
    ASSUME DataTypes, Loading, Budget, NEW d0 \in Items, Acquire(Downloader, d0)
    PROVE  /\ used' = used + 1 /\ bytes' = bytes + Advertised[d0]
           /\ acquired' = acquired \cup {d0}
           /\ used + 1 <= MaxItems
           /\ used = 0 \/ bytes + Advertised[d0] <= MaxBytes
           /\ Cardinality(acquired') = Cardinality(acquired) + 1
           /\ SumOf(Advertised, acquired') <= SumOf(Advertised, acquired) + Advertised[d0]
           /\ Advertised[d0] \in Nat
  <1>1. acquired \in SUBSET Items /\ used \in Nat
    BY DEF DataTypes
  <1>2. /\ used' = used + 1 /\ bytes' = bytes + Advertised[d0]
        /\ acquired' = acquired \cup {d0}
        /\ handler[d0] = "try" /\ Affordable(d0)
    BY DEF Acquire
  <1>3. used = 0 \/ (bytes + Advertised[d0] <= MaxBytes /\ used < MaxItems)
    BY <1>2 DEF Affordable
  <1>4. used + 1 <= MaxItems
    BY <1>1, <1>3, StagesAssumption
  <1>5. d0 \notin acquired
    BY <1>2 DEF Loading, Loads
  <1>6. Cardinality(acquired \cup {d0}) = Cardinality(acquired) + 1
    BY <1>1, <1>5, Counted, FS_AddElement
  <1>7. SumOf(Advertised, acquired \cup {d0}) <= SumOf(Advertised, acquired) + Advertised[d0]
    BY <1>1, StagesAssumption, SumOne
  <1> QED
    BY <1>2, <1>3, <1>4, <1>6, <1>7, StagesAssumption

\* The budget counts every share that is taken, but for those that were given
\* back without having been taken.
LEMMA BudgetStep ==
    ASSUME Placed, DataTypes, Empties, Unsent, Loading, Budget, Growth, Passage, [Next]_vars
    PROVE  Budget'
  <1> DEFINE o == Cardinality(Overpaid)
             p == Cardinality(Overpaid')
             c == Cardinality(acquired)
             t == SumOf(Advertised, acquired)
             clear == Unpaid \cup Underpaid = {}
             clearN == Unpaid' \cup Underpaid' = {}
  <1>1. /\ Overpaid \in SUBSET Items /\ Overpaid' \in SUBSET Items
        /\ Overpaid \subseteq Overpaid' /\ (clearN => clear)
    BY DuesGrow
  <1>2. o \in Nat /\ p \in Nat /\ o <= p /\ IsFiniteSet(Overpaid')
    BY <1>1, Counted, FS_Subset
  <1>3. /\ used \in Nat /\ bytes \in Nat /\ acquired \in SUBSET Items
        /\ c \in Nat /\ t \in Nat /\ MaxItems \in Nat
    BY Counted, StagesAssumption DEF DataTypes
  <1>4. used <= MaxItems /\ c <= used + o /\ (clear => t <= bytes)
    BY DEF Budget
  <1>5. SUFFICES /\ used' <= MaxItems
                 /\ Cardinality(acquired') <= used' + p
                 /\ clearN => SumOf(Advertised, acquired') <= bytes'
    <2>1. SumOf(Advertised, acquired)' = SumOf(Advertised, acquired')
      BY DEF SumOf
    <2> QED
      BY <2>1 DEF Budget
  <1> HIDE DEF o, p, clear, clearN
  <1>6. CASE UNCHANGED <<used, bytes, acquired>>
    BY <1>1, <1>2, <1>3, <1>4, <1>6
  <1>7. ASSUME NEW d0 \in Items, Acquire(Downloader, d0)
        PROVE  /\ used' <= MaxItems
               /\ Cardinality(acquired') <= used' + p
               /\ clearN => SumOf(Advertised, acquired') <= bytes'
    <2>1. /\ used' = used + 1 /\ bytes' = bytes + Advertised[d0]
          /\ used + 1 <= MaxItems /\ Advertised[d0] \in Nat
          /\ Cardinality(acquired') = c + 1
          /\ SumOf(Advertised, acquired') <= t + Advertised[d0]
      BY <1>7, AcquireFits
    <2>2. SumOf(Advertised, acquired') \in Nat
      BY <1>7, <1>3, Counted DEF Acquire
    <2> HIDE DEF c, t
    <2> QED
      BY <1>1, <1>2, <1>3, <1>4, <2>1, <2>2
  <1>8. ASSUME NEW ps \in SUBSET acquired, acquired' = acquired \ ps,
               used' <= used, used' \in Nat, bytes' \in Nat,
               used' >= used - Cardinality(ps),
               bytes' >= bytes - SumOf(Advertised, ps)
        PROVE  /\ used' <= MaxItems
               /\ Cardinality(acquired') <= used' + p
               /\ clearN => SumOf(Advertised, acquired') <= bytes'
    <2>1. /\ Cardinality(acquired') = c - Cardinality(ps)
          /\ SumOf(Advertised, acquired') = t - SumOf(Advertised, ps)
          /\ Cardinality(ps) \in Nat /\ SumOf(Advertised, ps) \in Nat
      BY <1>8, PaidBack
    <2> HIDE DEF c, t
    <2> QED
      BY <1>1, <1>2, <1>3, <1>4, <1>8, <2>1
  <1>9. ASSUME NEW d0 \in Items, DownloadFails(Downloader, d0)
        PROVE  /\ used' <= MaxItems
               /\ Cardinality(acquired') <= used' + p
               /\ clearN => SumOf(Advertised, acquired') <= bytes'
    <2>1. Paid({d0}) \in SUBSET acquired
      BY DEF Paid
    <2> QED
      BY <1>8, <1>9, <2>1, FailedTask
  <1>10. CASE Cancel(Downloader)
    <2>1. Paid(Pending) \in SUBSET acquired
      BY DEF Paid
    <2> QED
      BY <1>8, <1>10, <2>1, CancelTasks
  <1>11. CASE SaveArtifacts(Saver)
    <2> DEFINE ds == ToSet(batch[Saver])
               k == Cardinality(ds \ acquired)
               a == Cardinality(ds \cap acquired)
    <2>1. /\ acquired' = acquired \ ds /\ ds \in SUBSET Items
          /\ used' \in Nat /\ bytes' \in Nat /\ used' <= used
          /\ used' >= used - Cardinality(ds) /\ bytes' >= bytes - SumOf(Size, ds)
          /\ SumOf(Size, ds) \in Nat
      BY <1>11, SaveRelease, WholeBatch, Order
    <2>2. /\ \A d \in ds \ acquired : d \notin Overpaid /\ d \in Overpaid'
          /\ clearN => \A d \in ds : Size[d] <= Advertised[d]
      BY <1>11, SaverPays DEF clearN
    <2> HIDE DEF ds
    <2>3. /\ ds \cap acquired \in SUBSET acquired /\ acquired' = acquired \ (ds \cap acquired)
          /\ ds \cap acquired \in SUBSET Items /\ ds \ acquired \in SUBSET Items
      BY <2>1
    <2>4. /\ Cardinality(acquired') = c - a
          /\ SumOf(Advertised, acquired') = t - SumOf(Advertised, ds \cap acquired)
      BY <2>3, PaidBack
    <2>5. k \in Nat /\ a \in Nat /\ SumOf(Advertised, ds \cap acquired) \in Nat
      BY <2>3, Counted
    <2>6. Cardinality(ds) = k + a
      <3>1. k = Cardinality(ds) - a /\ Cardinality(ds) \in Nat
        BY <2>1, Counted, FS_Difference
      <3> QED
        BY <2>5, <3>1
    <2>7. o + k <= p
      <3>1. /\ Overpaid \cup (ds \ acquired) \in SUBSET Overpaid'
            /\ Overpaid \cap (ds \ acquired) = {}
        BY <1>1, <2>2
      <3>2. IsFiniteSet(Overpaid) /\ IsFiniteSet(ds \ acquired)
        BY <1>1, <2>3, Counted
      <3>3. Cardinality(Overpaid \cup (ds \ acquired)) = o + k
        <4>1. Cardinality(Overpaid \cap (ds \ acquired)) = 0
          BY <3>1, FS_EmptySet
        <4>2. Cardinality(Overpaid \cup (ds \ acquired))
              = Cardinality(Overpaid) + Cardinality(ds \ acquired)
                - Cardinality(Overpaid \cap (ds \ acquired))
          BY <3>2, FS_Union
        <4> QED
          BY <1>2, <2>5, <4>1, <4>2 DEF o
      <3>4. Cardinality(Overpaid \cup (ds \ acquired)) <= p
        BY <1>2, <3>1, FS_Subset DEF p
      <3> QED
        BY <3>3, <3>4
    <2>8. clearN => SumOf(Size, ds) <= SumOf(Advertised, ds \cap acquired)
      <3>1. clearN => ds \subseteq ds \cap acquired
        BY <2>2, <1>1 DEF clearN, Overpaid
      <3>2. Size \in [Items -> Nat] /\ Advertised \in [Items -> Nat]
        BY StagesAssumption
      <3> QED
        BY <2>1, <2>2, <2>3, <3>1, <3>2, SumMore
    <2> DEFINE x == SumOf(Advertised, ds \cap acquired)
               y == SumOf(Size, ds)
               z == Cardinality(ds)
    <2> HIDE DEF k, a, c, t, x, y, z
    <2>9. used' <= MaxItems
      BY <1>3, <1>4, <2>1
    <2>10. Cardinality(acquired') <= used' + p
      <3>1. used' >= used - z /\ z = k + a /\ used' \in Nat
        BY <2>1, <2>6 DEF z
      <3>2. Cardinality(acquired') = c - a /\ c <= used + o
        BY <1>4, <2>4
      <3>3. /\ used \in Nat /\ c \in Nat /\ k \in Nat /\ a \in Nat
            /\ o \in Nat /\ p \in Nat /\ o + k <= p
        BY <1>2, <1>3, <2>5, <2>7
      <3>4. \A u, v, shares, extra, paid, dues, more \in Nat :
               /\ v >= u - (extra + paid) /\ shares <= u + dues /\ dues + extra <= more
               => shares - paid <= v + more
        OBVIOUS
      <3>5. c - a <= used' + p
        BY <3>1, <3>2, <3>3, <3>4
      <3> QED
        BY <3>2, <3>5
    <2>11. clearN => SumOf(Advertised, acquired') <= bytes'
      <3>1. /\ bytes' >= bytes - y /\ y \in Nat /\ x \in Nat
            /\ SumOf(Advertised, acquired') = t - x /\ (clearN => y <= x)
        BY <2>1, <2>4, <2>5, <2>8 DEF x, y
      <3> QED
        BY <1>1, <1>3, <1>4, <2>1, <3>1
    <2> QED
      BY <2>9, <2>10, <2>11
  <1> QED
    BY <1>6, <1>7, <1>9, <1>10, <1>11, BudgetChanges

\* What was downloaded and not saved stays within the budget.
LEMMA BudgetHoldsStep ==
    ASSUME Placed, DataTypes, Empties, Unsent, Loading, Budget, BudgetHolds, Growth, Passage,
           Budget', DataTypes', [Next]_vars
    PROVE  BudgetHolds'
  <1> DEFINE c == Cardinality(acquired)
             t == SumOf(Advertised, acquired)
             clear == Unpaid \cup Underpaid = {}
             clearN == Unpaid' \cup Underpaid' = {}
  <1>1. /\ Overpaid' \subseteq Unpaid' /\ (clearN => clear)
        /\ Overpaid \subseteq Unpaid /\ Unpaid' \in SUBSET Items
    BY DuesGrow DEF Overpaid
  <1>2. /\ used \in Nat /\ bytes \in Nat /\ acquired \in SUBSET Items
        /\ c \in Nat /\ t \in Nat /\ MaxItems \in Nat /\ MaxBytes \in Nat
    BY Counted, StagesAssumption DEF DataTypes
  <1>3. Cardinality(acquired') <= MaxItems + Cardinality(Unpaid')
    <2>1. used' <= MaxItems /\ Cardinality(acquired') <= used' + Cardinality(Overpaid')
      BY DEF Budget
    <2>2. Cardinality(Overpaid') <= Cardinality(Unpaid') /\ Cardinality(Unpaid') \in Nat
      BY <1>1, Counted, FS_Subset
    <2>3. used' \in Nat /\ Cardinality(acquired') \in Nat /\ Cardinality(Overpaid') \in Nat
      BY <1>1, Counted DEF DataTypes
    <2> QED
      BY <1>2, <2>1, <2>2, <2>3
  <1>4. SUFFICES clearN =>
          Cardinality(acquired') <= 1 \/ SumOf(Advertised, acquired') <= MaxBytes
    <2>1. SumOf(Advertised, acquired)' = SumOf(Advertised, acquired')
      BY DEF SumOf
    <2> QED
      BY <1>3, <2>1 DEF BudgetHolds
  <1>5. clear => c <= 1 \/ t <= MaxBytes
    BY DEF BudgetHolds
  <1>6. CASE acquired' \subseteq acquired
    <2>1. Cardinality(acquired') <= c /\ Cardinality(acquired') \in Nat
      BY <1>2, <1>6, Counted, FS_Subset
    <2>2. Advertised \in [Items -> Nat] /\ \A d \in acquired' : Advertised[d] <= Advertised[d]
      BY <1>2, <1>6, StagesAssumption
    <2>3. SumOf(Advertised, acquired') <= t /\ SumOf(Advertised, acquired') \in Nat
      BY <1>2, <1>6, <2>2, Counted, SumMore
    <2> HIDE DEF c, t, clear, clearN
    <2> QED
      BY <1>1, <1>2, <1>5, <2>1, <2>3
  <1>7. ASSUME NEW d0 \in Items, Acquire(Downloader, d0), clearN
        PROVE  Cardinality(acquired') <= 1 \/ SumOf(Advertised, acquired') <= MaxBytes
    <2>1. Overpaid = {} /\ clear
      BY <1>1, <1>7
    <2>2. c <= used + 0 /\ t <= bytes
      BY <2>1, FS_EmptySet DEF Budget
    <2>3. /\ used = 0 \/ bytes + Advertised[d0] <= MaxBytes
          /\ Cardinality(acquired') = c + 1
          /\ SumOf(Advertised, acquired') <= t + Advertised[d0]
          /\ Advertised[d0] \in Nat
      BY <1>7, AcquireFits
    <2>4. SumOf(Advertised, acquired') \in Nat
      BY Counted DEF DataTypes
    <2> HIDE DEF c, t
    <2> QED
      BY <1>2, <2>2, <2>3, <2>4
  <1>8. acquired' \subseteq acquired \/ \E d0 \in Items : Acquire(Downloader, d0)
    <2>1. SaveArtifacts(Saver) => acquired' \subseteq acquired
      BY SaveRelease
    <2>2. Cancel(Downloader) => acquired' \subseteq acquired
      BY CancelTasks
    <2>3. ASSUME NEW d \in Items, DownloadFails(Downloader, d)
          PROVE  acquired' \subseteq acquired
      BY <2>3, FailedTask
    <2> QED
      BY <2>1, <2>2, <2>3, BudgetChanges
  <1> QED
    BY <1>6, <1>7, <1>8

\* Once a pipeline has an outcome nothing is done any more.
LEMMA OutcomeStays ==
    ASSUME outcome \in {"ok", "error"}, [Next]_vars
    PROVE  outcome' = outcome /\ version' = version
  <1>1. \A s \in Stages : ~Alive(s) /\ ~Working(s)
    BY DEF Alive, Working
  <1>2. /\ {First, Downloader, Saver, Associator, Resolver, EndStage} \subseteq Stages
        /\ Batching \subseteq Stages
    BY Order, Batchers
  <1>3. ~FirstPut /\ ~Resolution /\ ~FirstResumes
    BY <1>1, <1>2 DEF FirstPut, Resolution, FirstResumes
  <1>4. \A s \in Stages : /\ ~Put(s) /\ ~Finish(s) /\ ~Listen(s) /\ ~Collect(s)
                          /\ ~AddContent(s) /\ ~RemoveContent(s) /\ ~StageFails(s)
    BY <1>1 DEF Put, Finish, Listen, Collect, AddContent, RemoveContent, StageFails
  <1>5. \A s \in Stages : ~Cancel(s)
    BY DEF Cancel
  <1>6. \A s \in Stages : \A items : ~Hands(s, items)
    BY <1>1 DEF Hands
  <1>7. /\ ~ArmFlush(Saver) /\ ~Associate(Associator) /\ ~ResolveFuture(Resolver)
        /\ ~Drain(EndStage) /\ ~GetNext(Downloader) /\ ~DownloaderEnds(Downloader)
    BY <1>1, <1>2 DEF ArmFlush, Associate, ResolveFuture, Drain, GetNext, DownloaderEnds
  <1>8. \A d \in Items : /\ ~SkipDownload(Downloader, d) /\ ~Acquire(Downloader, d)
                         /\ ~AwaitBudget(Downloader, d) /\ ~Downloaded(Downloader, d)
                         /\ ~PutDownloaded(Downloader, d) /\ ~DownloadFails(Downloader, d)
    BY <1>1, <1>2 DEF SkipDownload, Acquire, AwaitBudget, Downloaded, PutDownloaded,
                      DownloadFails
  <1>9. ~PipelineFails /\ ~PipelineSucceeds /\ ~OtherSaves
    BY DEF PipelineFails, PipelineSucceeds, OtherSaves
  <1>10. ~(\/ \E s \in Batching \ {Querier, Saver, ContentSaver, Associator} : HandOver(s)
           \/ QueryArtifacts(Querier) \/ SaveArtifacts(Saver) \/ SaveContent(ContentSaver))
    BY <1>2, <1>6, HandsOf
  <1>11. UNCHANGED vars
    BY <1>2, <1>3, <1>4, <1>5, <1>7, <1>8, <1>9, <1>10, Cases
  <1> QED
    BY <1>11 DEF vars, dbVars

\* A pipeline ends, or begins to fail.
LEMMA OutcomeChanges ==
    ASSUME [Next]_vars
    PROVE  outcome' = outcome \/ outcome' = "failing" \/ PipelineFails \/ PipelineSucceeds
  <1>1. FirstPut \/ Resolution \/ FirstResumes => outcome' = outcome
    BY DEF FirstPut, Resolution, FirstResumes
  <1>2. ASSUME NEW s \in Stages, \/ Put(s) \/ Finish(s) \/ Listen(s) \/ Collect(s)
                                 \/ AddContent(s) \/ RemoveContent(s) \/ Cancel(s)
        PROVE  outcome' = outcome
    BY <1>2 DEF Put, Finish, Listen, Collect, AddContent, RemoveContent, Cancel
  <1>3. ASSUME NEW s \in Stages, StageFails(s)
        PROVE  outcome' = "failing"
    BY <1>3 DEF StageFails
  <1>4. ASSUME NEW s, NEW items, Hands(s, items)
        PROVE  outcome' = outcome
    BY <1>4 DEF Hands
  <1>5. ASSUME \/ ArmFlush(Saver) \/ Associate(Associator) \/ ResolveFuture(Resolver)
               \/ Drain(EndStage) \/ GetNext(Downloader) \/ DownloaderEnds(Downloader)
               \/ OtherSaves \/ UNCHANGED vars
        PROVE  outcome' = outcome
    BY <1>5 DEF ArmFlush, Associate, ResolveFuture, Drain, GetNext, DownloaderEnds,
                OtherSaves, vars
  <1>6. ASSUME NEW d \in Items,
               \/ SkipDownload(Downloader, d) \/ Acquire(Downloader, d)
               \/ AwaitBudget(Downloader, d) \/ Downloaded(Downloader, d)
               \/ PutDownloaded(Downloader, d) \/ DownloadFails(Downloader, d)
        PROVE  outcome' \in {outcome, "failing"}
    BY <1>6 DEF SkipDownload, Acquire, AwaitBudget, Downloaded, PutDownloaded, DownloadFails
  <1>7. ASSUME \/ \E s \in Batching \ {Querier, Saver, ContentSaver, Associator} : HandOver(s)
               \/ QueryArtifacts(Querier) \/ SaveArtifacts(Saver) \/ SaveContent(ContentSaver)
        PROVE  outcome' = outcome
    BY <1>4, <1>7, HandsOf
  <1> QED
    BY <1>1, <1>2, <1>3, <1>5, <1>6, <1>7, Cases, Batchers

\* When all stages are done the first one has put every item, and none is left
\* on its way: the version has what the pipeline was to bring.
LEMMA DoneIsRight ==
    ASSUME Placed, Empties, Ending, Kept, Contained, \A s \in Stages : mode[s] = "done"
    PROVE  version = {Key[d] : d \in Items} \cup (IF Mirror THEN {} ELSE Old)
  <1>0. {First, Downloader, Associator} \subseteq Stages
    BY Order
  <1>1. pos = Len(Script) + 1 /\ Pending = {} /\ toAdd = {}
    BY <1>0 DEF Ending, Empties, Closed
  <1>2. Items \subseteq Sent
    <2> SUFFICES ASSUME NEW d \in Items PROVE d \in Sent
      OBVIOUS
    <2>1. PICK i \in DOMAIN Script : Script[i] = <<"put", d>>
      BY ScriptAssumption
    <2>2. i \in 1 .. Len(Script) /\ Len(Script) \in Nat
      BY ScriptAssumption, LenProperties
    <2>3. i \in 1 .. pos - 1
      BY <1>1, <2>2
    <2> QED
      BY <2>1, <2>3 DEF Sent
  <1>3. \A s \in Stages : queue[s] = <<>> /\ held[s] = Nothing /\ batch[s] = <<>> /\ out[s] = <<>>
    BY DEF Ending, Empties, Closed, Idling
  <1>4. \A d \in Items : ~Somewhere(d)
    <2>1. ASSUME NEW d \in Items, NEW c \in Carriers, NEW s \in Stages, In(d, c, s)
          PROVE  FALSE
      <3>1. d # Nothing /\ ToSet(<<>>) = {}
        BY Units, StagesAssumption
      <3> QED
        BY <1>1, <1>3, <2>1, <3>1 DEF In
    <2> QED
      BY <2>1 DEF Somewhere, At
  <1>5. \A d \in Items : Key[d] \in version /\ Key[d] \notin toDelete
    BY <1>1, <1>2, <1>4 DEF Kept, Settled
  <1>6. CASE Mirror
    BY <1>0, <1>5, <1>6 DEF Contained, KeysOf
  <1>7. CASE ~Mirror
    BY <1>0, <1>5, <1>7 DEF Contained, KeysOf
  <1> QED
    BY <1>6, <1>7

\* The version that a pipeline leaves.
LEMMA VersionIsRightStep ==
    ASSUME Placed, Empties, Ending, outcome = "running" => Kept /\ Contained,
           VersionIsRight, [Next]_vars
    PROVE  VersionIsRight'
  <1>1. CASE outcome \in {"ok", "error"}
    BY <1>1, OutcomeStays DEF VersionIsRight
  <1>2. CASE PipelineFails
    BY <1>2 DEF PipelineFails, VersionIsRight
  <1>3. CASE PipelineSucceeds
    <2>1. /\ outcome = "running" /\ outcome' = "ok" /\ version' = version
          /\ \A s \in Stages : mode[s] = "done"
      BY <1>3 DEF PipelineSucceeds, dbVars
    <2> QED
      BY <2>1, DoneIsRight DEF VersionIsRight
  <1>4. CASE outcome' = "failing"
    BY <1>4 DEF VersionIsRight
  <1>5. CASE outcome' = outcome /\ outcome \notin {"ok", "error"}
    BY <1>5 DEF VersionIsRight
  <1> QED
    BY <1>1, <1>2, <1>3, <1>4, <1>5, OutcomeChanges

-----------------------------------------------------------------------------
(***************************************************************************)
(* The invariant holds.                                                    *)
(***************************************************************************)
\* At the start no item is anywhere.
LEMMA StartsEmpty ==
    ASSUME Init
    PROVE  /\ \A d \in Items, c \in Carriers, s \in Stages : ~In(d, c, s)
           /\ \A d \in Items : ~Somewhere(d) /\ \A n \in Depths : ~At(d, n)
           /\ Sent = {} /\ Pending = {}
  <1>1. Pending = {}
    BY DEF Init, Pending
  <1>2. Sent = {}
    BY DEF Init, Sent
  <1>3. ToSet(<<>>) = {}
    BY Units
  <1>4. ASSUME NEW d \in Items, NEW c \in Carriers, NEW s \in Stages
        PROVE  ~In(d, c, s)
    <2>1. d # Nothing
      BY StagesAssumption
    <2> QED
      BY <1>1, <1>3, <2>1 DEF Init, In
  <1> QED
    BY <1>1, <1>2, <1>4 DEF Somewhere, At

\* The pipeline starts with empty queues and batches, typed as they are to stay.
LEMMA StartsTyped ==
    ASSUME Init
    PROVE  CarrierTypes /\ ControlTypes /\ DataTypes /\ Singles
  <1>1. CarrierTypes /\ Singles
    <2>1. /\ \A S : <<>> \in Seq(S) /\ Len(<<>>) = 0 /\ Single(<<>>)
      BY Units
    <2>2. QueueSize \in Nat
      BY StagesAssumption
    <2> QED
      BY <2>1, <2>2 DEF Init, CarrierTypes, Singles, Handlers
  <1>2. ControlTypes
    <2>1. Len(Script) \in Nat
      BY ScriptAssumption, LenProperties
    <2>2. 1 \in 1 .. Len(Script) + 1
      BY <2>1
    <2> QED
      BY <2>2 DEF Init, ControlTypes, Modes
  <1>3. DataTypes
    BY StagesAssumption DEF Init, DataTypes
  <1> QED
    BY <1>1, <1>2, <1>3

\* The pipeline starts in the invariant.
LEMMA StartsInv ==
    ASSUME Init
    PROVE  StagesInv
  <1>1. CarrierTypes /\ ControlTypes /\ DataTypes /\ Singles
    BY StartsTyped
  <1>m. \A s \in Stages : /\ s # First => mode[s] = "wait"
                          /\ mode[s] = "wait" \/ (mode[s] = "finish" /\ Script = <<>>)
    BY DEF Init
  <1>2. Alone /\ Unsent
    BY StartsEmpty DEF Alone, Unsent
  <1>3. Empties
    <2>1. First \in Stages /\ Associator \in Stages
      BY Order
    <2> QED
      BY <2>1, Batchers DEF Init, Empties, Idling
  <1>4. Postures
    <2>1. EndStage \in Stages /\ EndStage # First
      BY Order
    <2> QED
      BY <1>m, <2>1 DEF Init, Postures
  <1>5. Ending
    <2>1. ToSet(<<>>) = {} /\ DOMAIN <<>> = {} /\ Nothing # End /\ Len(<<>>) = 0
      BY Units, StagesAssumption
    <2>2. /\ \A s \in Stages : queue[s] = <<>> /\ held[s] = Nothing /\ ~shutdown[s]
          /\ pos = 1
      BY DEF Init
    <2>3. \A s \in Stages : s # First => ~EndSeen(s)
      BY <1>m, <2>1, <2>2 DEF EndSeen, Closed
    <2>4. Pending = {} /\ {First, Downloader} \subseteq Stages
      BY Order, StartsEmpty
    <2>5. mode[First] \in Closed => pos = Len(Script) + 1
      BY <1>m, <2>1, <2>2, <2>4 DEF Closed
    <2> QED
      BY <2>1, <2>2, <2>3, <2>4, <2>5 DEF Ending
  <1>6. SavedFirst
    BY StartsEmpty DEF Init, SavedFirst
  <1>7. Kept /\ Contained
    <2>1. Associator \in Stages /\ Associator # First
      BY Order
    <2>2. mode[Associator] = "wait"
      BY <1>m, <2>1
    <2>3. toAdd = {} /\ toDelete = Old /\ version = Old
      BY DEF Init
    <2> QED
      BY <2>2, <2>3, StartsEmpty DEF Kept, Contained
  <1>8. Loading
    BY StartsEmpty DEF Init, Loading, Loads
  <1>9. Budget /\ BudgetHolds
    <2>1. acquired = {} /\ used = 0 /\ bytes = 0
      BY DEF Init
    <2>2. Unpaid = {} /\ Overpaid = {} /\ Underpaid = {}
      BY StartsEmpty DEF Unpaid, Overpaid, Underpaid
    <2>3. Cardinality({}) = 0 /\ SumOf(Advertised, {}) = 0
      BY FS_EmptySet, SumNone
    <2>4. MaxItems \in Nat /\ MaxBytes \in Nat
      BY StagesAssumption
    <2> QED
      BY <2>1, <2>2, <2>3, <2>4 DEF Budget, BudgetHolds
  <1>10. VersionIsRight
    BY DEF Init, VersionIsRight
  <1> QED
    BY <1>1, <1>2, <1>3, <1>4, <1>5, <1>6, <1>7, <1>8, <1>9, <1>10 DEF StagesInv

\* Every step keeps the invariant.
LEMMA StepsInv ==
    ASSUME StagesInv, [Next]_vars
    PROVE  StagesInv'
  <1>0. /\ Placed /\ ControlTypes /\ DataTypes /\ Unsent /\ Empties /\ Postures /\ Ending
        /\ SavedFirst /\ (outcome = "running" => Kept /\ Contained)
        /\ Loading /\ Budget /\ BudgetHolds /\ VersionIsRight
    BY DEF StagesInv, Placed
  <1>1. Progress /\ Unsent' /\ Growth
    BY <1>0, Steps DEF Placing
  <1>2. CarrierTypes' /\ Singles' /\ Alone' /\ Passage /\ Departure
    BY <1>1 DEF Progress
  <1>3. ControlTypes' /\ Postures'
    BY <1>0, ControlStep, PosturesStep
  <1>4. DataTypes' /\ SavedFirst'
    BY <1>0, <1>2, DataStep, SavedFirstStep
  <1>5. Empties' /\ Ending'
    BY <1>0, EmptiesStep, EndingStep
  <1>6. ASSUME outcome' = "running"
        PROVE  Kept' /\ Contained'
    <2>1. outcome = "running"
      BY <1>6, OutcomeChanges DEF PipelineFails, PipelineSucceeds
    <2> QED
      BY <1>0, <1>1, <1>2, <1>6, <2>1, KeptStep, ContainedStep
  <1>7. Loading'
    BY <1>0, <1>1, <1>2, LoadingStep
  <1>8. Budget'
    BY <1>0, <1>1, <1>2, BudgetStep
  <1>9. BudgetHolds'
    BY <1>0, <1>1, <1>2, <1>4, <1>8, BudgetHoldsStep
  <1>10. VersionIsRight'
    BY <1>0, VersionIsRightStep
  <1> QED
    BY <1>1, <1>2, <1>3, <1>4, <1>5, <1>6, <1>7, <1>8, <1>9, <1>10 DEF StagesInv

\* The invariant of the pipeline: every queue, batch and task of DeclarativeVersion's
\* stages, the end markers, the budget, the database and the new version agree.
THEOREM StagesInvariance == Spec => []StagesInv
  <1>1. Init => StagesInv
    BY StartsInv
  <1>2. StagesInv /\ [Next]_vars => StagesInv'
    BY StepsInv
  <1> QED
    BY <1>1, <1>2, PTL DEF Spec

\* The types of the state.
LEMMA InvTyped ==
    ASSUME StagesInv
    PROVE  TypeOK
  <1>0. CarrierTypes /\ ControlTypes /\ DataTypes /\ Singles
    BY DEF StagesInv
  <1>1. ASSUME NEW s \in Stages
        PROVE  /\ Len(queue[s]) <= QueueSize
               /\ ToSet(queue[s]) \subseteq Items \cup {End}
    <2>1. queue[s] \in Seq(Items \cup {End}) /\ Len(queue[s]) <= QueueSize
      BY <1>0 DEF CarrierTypes
    <2> QED
      BY <2>1, ElementOfSeq, LenProperties DEF ToSet
  <1>2. ASSUME NEW s \in Stages
        PROVE  /\ ToSet(batch[s]) \cup ToSet(out[s]) \subseteq Items
               /\ IsInjective(batch[s]) /\ IsInjective(out[s])
    <2>1. batch[s] \in Seq(Items) /\ out[s] \in Seq(Items)
      BY <1>0 DEF CarrierTypes
    <2>2. ToSet(batch[s]) \cup ToSet(out[s]) \subseteq Items
      BY <2>1, ElementOfSeq, LenProperties DEF ToSet
    <2>3. Single(batch[s]) /\ Single(out[s])
      BY <1>0 DEF Singles
    <2> QED
      BY <2>2, <2>3 DEF Single, IsInjective
  <1>3. /\ held \in [Stages -> Items \cup {End, Nothing}]
        /\ handler \in [Items -> Handlers]
    BY <1>0 DEF CarrierTypes
  <1>4. ControlTypes /\ DataTypes
    BY <1>0
  <1> QED
    BY <1>1, <1>2, <1>3, <1>4 DEF TypeOK, ControlTypes, DataTypes, Handlers, Modes

\* The state of the stages, the batches, the budget and the database is typed, the queues
\* are not longer than create_pipeline() makes them, and no batch has an item twice.
THEOREM StagesTyped == Spec => []TypeOK
  <1>1. StagesInv => TypeOK
    BY InvTyped
  <1> QED
    BY <1>1, StagesInvariance, PTL

\* An item that no queue, or no batch, of a stage has is in none of these places.
LEMMA WithinNone ==
    ASSUME NEW name, NEW f, NEW d, \A r \in Stages : d \notin ToSet(f[r])
    PROVE  Within(name, f, d) = {}
  <1>1. \A r \in Stages : \A j \in DOMAIN f[r] : f[r][j] # d
    BY DEF ToSet
  <1> QED
    BY <1>1 DEF Within

\* An item that is somewhere is in one place of the pipeline.
LEMMA OnePlace ==
    ASSUME Placed, NEW d \in Items, Somewhere(d)
    PROVE  \E x : Places(d) = {x}
  <1>1. PICK c \in Carriers, s \in Stages : In(d, c, s)
    BY DEF Somewhere, At
  <1>2. \A r \in Stages :
           /\ d \in ToSet(queue[r]) => c = "queue" /\ r = s
           /\ held[r] = d => c = "held" /\ r = s
           /\ d \in ToSet(batch[r]) => c = "batch" /\ r = s
           /\ d \in ToSet(out[r]) => c = "out" /\ r = s
           /\ d \in Pending => c = "task" /\ s = Downloader
    BY <1>1, Only DEF Placed
  <1>3. Single(queue[s]) /\ Single(batch[s]) /\ Single(out[s])
    BY DEF Placed, Singles
  <1> DEFINE q == Within("queue", queue, d)
             b == Within("batch", batch, d)
             o == Within("out", out, d)
             h == {<<"held", r, 1>> : r \in {t \in Stages : held[t] = d}}
             k == {<<"task", Downloader, 1>> : t \in {d} \cap Pending}
  <1>4. Places(d) = q \cup b \cup o \cup h \cup k
    BY DEF Places
  <1>5. /\ c # "queue" => q = {}
        /\ c # "batch" => b = {}
        /\ c # "out" => o = {}
    BY <1>2, WithinNone
  <1>6. /\ c # "held" => h = {}
        /\ c # "task" => k = {}
    BY <1>2, Order
  <1>7. CASE c = "queue"
    <2>1. PICK i \in DOMAIN queue[s] : queue[s][i] = d
      BY <1>1, <1>7 DEF In, ToSet
    <2>2. q = {<<"queue", s, i>>}
      <3>1. \A r \in Stages : d \in ToSet(queue[r]) => r = s
        BY <1>2
      <3>2. Single(queue[s]) /\ queue[s][i] = d
        BY <1>3, <2>1
      <3> HIDE DEF q, b, o
      <3>3. \A r \in Stages : \A j \in DOMAIN queue[r] : queue[r][j] = d => r = s /\ j = i
        BY <2>1, <3>1, <3>2 DEF ToSet, Single
      <3>4. \A x : x \in Within("queue", queue, d) <=> x = <<"queue", s, i>>
        BY <1>1, <2>1, <3>3 DEF Within
      <3> QED
        BY <3>4 DEF q
    <2> HIDE DEF q, b, o, h, k
    <2> QED
      BY <1>4, <1>5, <1>6, <1>7, <2>2
  <1>8. CASE c = "batch"
    <2>1. PICK i \in DOMAIN batch[s] : batch[s][i] = d
      BY <1>1, <1>8 DEF In, ToSet
    <2>2. b = {<<"batch", s, i>>}
      <3>1. \A r \in Stages : d \in ToSet(batch[r]) => r = s
        BY <1>2
      <3>2. Single(batch[s]) /\ batch[s][i] = d
        BY <1>3, <2>1
      <3> HIDE DEF q, b, o
      <3>3. \A r \in Stages : \A j \in DOMAIN batch[r] : batch[r][j] = d => r = s /\ j = i
        BY <2>1, <3>1, <3>2 DEF ToSet, Single
      <3>4. \A x : x \in Within("batch", batch, d) <=> x = <<"batch", s, i>>
        BY <1>1, <2>1, <3>3 DEF Within
      <3> QED
        BY <3>4 DEF b
    <2> HIDE DEF q, b, o, h, k
    <2> QED
      BY <1>4, <1>5, <1>6, <1>8, <2>2
  <1>9. CASE c = "out"
    <2>1. PICK i \in DOMAIN out[s] : out[s][i] = d
      BY <1>1, <1>9 DEF In, ToSet
    <2>2. o = {<<"out", s, i>>}
      <3>1. \A r \in Stages : d \in ToSet(out[r]) => r = s
        BY <1>2
      <3>2. Single(out[s]) /\ out[s][i] = d
        BY <1>3, <2>1
      <3> HIDE DEF q, b, o
      <3>3. \A r \in Stages : \A j \in DOMAIN out[r] : out[r][j] = d => r = s /\ j = i
        BY <2>1, <3>1, <3>2 DEF ToSet, Single
      <3>4. \A x : x \in Within("out", out, d) <=> x = <<"out", s, i>>
        BY <1>1, <2>1, <3>3 DEF Within
      <3> QED
        BY <3>4 DEF o
    <2> HIDE DEF q, b, o, h, k
    <2> QED
      BY <1>4, <1>5, <1>6, <1>9, <2>2
  <1>10. CASE c = "held"
    <2>1. {t \in Stages : held[t] = d} = {s}
      BY <1>1, <1>2, <1>10 DEF In
    <2>2. h = {<<"held", s, 1>>}
      BY <2>1
    <2> HIDE DEF q, b, o, h, k
    <2> QED
      BY <1>4, <1>5, <1>6, <1>10, <2>2
  <1>11. CASE c = "task"
    <2>1. {d} \cap Pending = {d}
      BY <1>1, <1>11 DEF In
    <2>2. k = {<<"task", Downloader, 1>>}
      BY <2>1
    <2> HIDE DEF q, b, o, h, k
    <2> QED
      BY <1>4, <1>5, <1>6, <1>11, <2>2
  <1> QED
    BY <1>7, <1>8, <1>9, <1>10, <1>11 DEF Carriers

\* One that is nowhere is in no place.
LEMMA NoPlace ==
    ASSUME NEW d \in Items, ~Somewhere(d)
    PROVE  Places(d) = {}
  <1>1. /\ \A s \in Stages : /\ d \notin ToSet(queue[s]) /\ held[s] # d
                             /\ d \notin ToSet(batch[s]) /\ d \notin ToSet(out[s])
        /\ d \notin Pending
    BY Nowhere
  <1>2. /\ Within("queue", queue, d) = {} /\ Within("batch", batch, d) = {}
        /\ Within("out", out, d) = {}
    BY <1>1, WithinNone
  <1>3. {s \in Stages : held[s] = d} = {} /\ {d} \cap Pending = {}
    BY <1>1
  <1> QED
    BY <1>2, <1>3 DEF Places

\* An item that was sent has one place, or its content is in the new version.
LEMMA InvLosesNothing ==
    ASSUME StagesInv
    PROVE  NothingLost
  <1> SUFFICES ASSUME outcome = "running", NEW d \in Sent
               PROVE  \/ Copies(d) = 1 /\ (future[d] = "resolved" => Key[d] \in rows)
                      \/ Copies(d) = 0 /\ Key[d] \in version \cup toAdd
    BY DEF NothingLost
  <1>0. Placed /\ Kept /\ SavedFirst /\ d \in Items
    BY DEF StagesInv, Placed, Sent
  <1>1. CASE Somewhere(d)
    <2>1. Copies(d) = 1
      BY <1>0, <1>1, OnePlace, FS_Singleton DEF Copies
    <2> QED
      BY <1>0, <2>1 DEF SavedFirst
  <1>2. CASE ~Somewhere(d)
    <2>1. Copies(d) = 0
      BY <1>0, <1>2, NoPlace, FS_EmptySet DEF Copies
    <2> QED
      BY <1>0, <1>2, <2>1 DEF Kept, Settled
  <1> QED
    BY <1>1, <1>2

\* An item that the first stage has put is in one queue, batch or task of the pipeline,
\* and it leaves it only when its content is saved and in the new version: neither the
\* listeners of batches(), nor the end of a stage, nor the tasks of the downloader lose
\* an item or hand it on twice.
THEOREM ItemsKept == Spec => []NothingLost
  <1>1. StagesInv => NothingLost
    BY InvLosesNothing
  <1> QED
    BY <1>1, StagesInvariance, PTL

\* DeclarativeVersion.create() leaves a version with the content of all items, and with
\* what was there before unless it mirrors the remote; a sync that fails leaves none.
THEOREM RightVersion == Spec => []VersionIsRight
  <1>1. StagesInv => VersionIsRight
    BY DEF StagesInv
  <1> QED
    BY <1>1, StagesInvariance, PTL

\* What ArtifactResourceBudget promises: the artifacts that were downloaded and not saved
\* are as many as it allows and one for each share the saver gives back too much, and
\* their bytes are within the budget as long as no item gives back more than it took.
THEOREM BudgetKept == Spec => []BudgetHolds
  <1>1. StagesInv => BudgetHolds
    BY DEF StagesInv
  <1> QED
    BY <1>1, StagesInvariance, PTL

-----------------------------------------------------------------------------
(***************************************************************************)
(* The pipeline is never stuck.  The prover cannot expand ENABLED: MayStep *)
(* spells out when a step of Flow, Downloads or Closing can be taken.      *)
(***************************************************************************)
MayFirst ==
    /\ Alive(First) /\ pos <= Len(Script)
    /\ \/ Script[pos][1] = "put" /\ HasRoom(2)
       \/ Script[pos][1] = "await" /\ future[Script[pos][2]] # "awaited"

MayPass(s) ==
    /\ s # EndStage /\ Alive(s) /\ HasRoom(s + 1)
    /\ mode[s] = "finish" \/ (mode[s] = "put" /\ out[s] # <<>>)

MayBatch(s) ==
    /\ s \in Batching /\ Alive(s)
    /\ \/ held[s] = Nothing /\ queue[s] # <<>> /\ ~shutdown[s]
       \/ s = Saver /\ listener = "new"
       \/ mode[s] = "wait" /\ (held[s] # Nothing \/ thaw[s] \/ Flushed(s))
       \/ mode[s] \in {"handle", "add", "tail"}

MayRead ==
    \/ Alive(Resolver) /\ mode[Resolver] = "wait" /\ queue[Resolver] # <<>>
    \/ Alive(EndStage) /\ queue[EndStage] # <<>>

MayDownload ==
    \/ Alive(Downloader) /\ getting /\ queue[Downloader] # <<>>
    \/ Alive(Downloader) /\ mode[Downloader] = "wait" /\ NothingPending(Downloader)
    \/ \E d \in Items : /\ Working(Downloader)
                        /\ \/ handler[d] \in {"try", "load"}
                           \/ handler[d] = "put" /\ HasRoom(Downloader + 1)

MayConclude ==
    \/ outcome = "failing" /\ \E s \in Stages : mode[s] \notin Ended
    \/ outcome = "failing" /\ \A s \in Stages : mode[s] \in Ended
    \/ outcome = "running" /\ \A s \in Stages : mode[s] = "done"

MayStep ==
    \/ MayFirst \/ MayRead \/ MayDownload \/ MayConclude
    \/ \E s \in Stages : MayPass(s) \/ MayBatch(s)

(* The pipeline is never stuck: as long as it has not ended, a stage, a     *)
(* task of the downloader or the pipeline itself can do something.          *)
NeverStuck == outcome \in {"running", "failing"} => MayStep

\* A stage is told of the end of the one before it, and does not forget it.
Told == \A s \in Stages \ {First} : mode[s - 1] = "done" => EndSeen(s)

\* No stage waits with something it should be busy with.
AwakeAt(s) ==
    /\ shutdown[s] => s \in Batching \cup {Downloader}
    /\ shutdown[s] /\ s \in Batching => mode[s] # "wait"
    /\ mode[s] = "wait" /\ s \in Batching =>
           \A d \in ToSet(batch[s]) : future[d] = "awaited" => thaw[s]
    /\ noBlock[s] => batch[s] = <<>>
    /\ mode[s] = "handle" => batch[s] # <<>>
    /\ mode[s] = "put" => out[s] # <<>>
    /\ s = Saver /\ listener = "off" /\ mode[s] = "wait" => noBlock[s]
    /\ s = First /\ mode[s] = "wait" => pos <= Len(Script)
Awake == \A s \in Stages : AwakeAt(s)

\* A task waits for the budget only while shares are taken, and the saver was asked
\* to flush; the downloader stops to take items only while tasks are left.
Asking ==
    /\ flush => listener # "armed"
    /\ \A d \in Items : handler[d] = "blocked" => flush /\ used # 0
    /\ getting \/ shutdown[Downloader] \/ Pending # {}
    /\ shutdown[Downloader] => ~getting
    /\ used <= Cardinality(acquired)

\* Who is waited for is still ahead of the stage that ends the waiting.
Upto(d, s) == \E n \in Depths : n <= s /\ At(d, n)
Ahead ==
    /\ \A d \in acquired : Upto(d, Saver)
    /\ \A d \in Sent : future[d] # "resolved" => Upto(d, Resolver)

Vigil == outcome = "running" => Told /\ Awake /\ Asking /\ Ahead

\* Steps after which the pipeline still runs: it ran before, and nothing failed.
LEMMA Runs ==
    ASSUME [Next]_vars, outcome' = "running"
    PROVE  outcome = "running"
  BY OutcomeChanges DEF PipelineFails, PipelineSucceeds

\* The steps of a pipeline that runs.
LEMMA RunningCases ==
    ASSUME [Next]_vars, outcome' = "running"
    PROVE  \/ FirstPut \/ Resolution \/ FirstResumes
           \/ \E s \in Stages \ {EndStage} : Put(s) \/ Finish(s)
           \/ \E s \in Batching : Listen(s) \/ Collect(s)
           \/ \E s \in Batching \ {Querier, Saver, ContentSaver, Associator} : HandOver(s)
           \/ ArmFlush(Saver) \/ QueryArtifacts(Querier) \/ SaveArtifacts(Saver)
           \/ SaveContent(ContentSaver) \/ Associate(Associator)
           \/ \E s \in Batching : AddContent(s) \/ RemoveContent(s)
           \/ ResolveFuture(Resolver) \/ Drain(EndStage)
           \/ GetNext(Downloader) \/ DownloaderEnds(Downloader)
           \/ \E d \in Items : \/ SkipDownload(Downloader, d) \/ Acquire(Downloader, d)
                               \/ AwaitBudget(Downloader, d) \/ Downloaded(Downloader, d)
                               \/ PutDownloaded(Downloader, d)
           \/ OtherSaves \/ UNCHANGED vars
  <1>0. outcome = "running"
    BY Runs
  <1>1. ASSUME NEW s \in Stages
        PROVE  ~StageFails(s) /\ ~Cancel(s)
    BY <1>0 DEF StageFails, Cancel
  <1>2. ASSUME NEW d \in Items
        PROVE  ~DownloadFails(Downloader, d)
    BY <1>0 DEF DownloadFails
  <1>3. ~PipelineFails /\ ~PipelineSucceeds
    BY <1>0 DEF PipelineFails, PipelineSucceeds
  <1> QED
    BY <1>1, <1>2, <1>3, Cases

\* Each stage but the association hands on what it was yielded, the saver all of it.
LEMMA HandsBatch ==
    ASSUME \/ \E s \in Batching \ {Querier, Saver, ContentSaver, Associator} : HandOver(s)
           \/ QueryArtifacts(Querier) \/ SaveArtifacts(Saver) \/ SaveContent(ContentSaver)
    PROVE  \E s \in Batching \ {Associator} : \E items :
              /\ Hands(s, items) /\ (s = Saver => items = batch[Saver])
              /\ listener' = listener /\ future' = future
  <1>1. /\ {Querier, Saver, ContentSaver} \subseteq Batching \ {Associator}
        /\ Querier # Saver /\ ContentSaver # Saver
    BY Order, Batchers
  <1>2. ASSUME NEW s \in Batching \ {Querier, Saver, ContentSaver, Associator}, HandOver(s)
        PROVE  \E r \in Batching \ {Associator} : \E items :
                  /\ Hands(r, items) /\ (r = Saver => items = batch[Saver])
                  /\ listener' = listener /\ future' = future
    <2>1. Hands(s, batch[s]) /\ listener' = listener /\ future' = future
      BY <1>2 DEF HandOver, itemVars
    <2> QED
      BY <2>1
  <1>3. CASE QueryArtifacts(Querier)
    <2>1. /\ Hands(Querier, batch[Querier]) /\ listener' = listener /\ future' = future
      BY <1>3 DEF QueryArtifacts
    <2> QED
      BY <1>1, <2>1
  <1>4. CASE SaveArtifacts(Saver)
    <2>1. /\ Hands(Saver, batch[Saver]) /\ listener' = listener /\ future' = future
      BY <1>4 DEF SaveArtifacts
    <2> QED
      BY <1>1, <2>1
  <1>5. CASE SaveContent(ContentSaver)
    <2>1. PICK items \in SetToSeqs(ToSet(batch[ContentSaver])) : Hands(ContentSaver, items)
      BY <1>5 DEF SaveContent
    <2>2. listener' = listener /\ future' = future
      BY <1>5 DEF SaveContent, itemVars
    <2> QED
      BY <1>1, <2>1, <2>2
  <1> QED
    BY <1>2, <1>3, <1>4, <1>5

-----------------------------------------------------------------------------
(***************************************************************************)
(* No stage waits with something it should be busy with.                   *)
(***************************************************************************)
SameBatch(s) ==
    /\ mode'[s] = mode[s] /\ batch'[s] = batch[s] /\ out'[s] = out[s]
    /\ shutdown'[s] = shutdown[s] /\ noBlock'[s] = noBlock[s] /\ thaw'[s] = thaw[s]

\* No item is waited for that was not.
Calm == \A d \in Items : future'[d] = "awaited" => future[d] = "awaited"

\* A stage that stays as it is.
LEMMA AwakeSame ==
    ASSUME NEW s \in Stages, AwakeAt(s), SameBatch(s), Calm, batch[s] \in Seq(Items),
           s = Saver /\ listener' = "off" => listener = "off",
           s = First => pos' = pos
    PROVE  AwakeAt(s)'
  <1>1. \A d \in ToSet(batch[s]) : future'[d] = "awaited" => future[d] = "awaited"
    <2>1. ToSet(batch[s]) \subseteq Items
      BY ElementOfSeq, LenProperties DEF ToSet
    <2> QED
      BY <2>1 DEF Calm
  <1> QED
    BY <1>1 DEF AwakeAt, SameBatch

\* Where one stage goes on, the others stay as they are.
LEMMA AwakeKept ==
    ASSUME Awake, Placed, Calm, NEW s \in Stages, AwakeAt(s)',
           \A r \in Stages : r # s => SameBatch(r),
           s # Saver /\ listener' = "off" => listener = "off",
           s # First => pos' = pos
    PROVE  Awake'
  <1>1. ASSUME NEW r \in Stages, r # s
        PROVE  AwakeAt(r)'
    <2>1. batch[r] \in Seq(Items)
      BY DEF Placed, CarrierTypes
    <2> QED
      BY <1>1, <2>1, AwakeSame DEF Awake
  <1> QED
    BY <1>1 DEF Awake

\* The first stage goes on: it is over when its script is.
LEMMA AwakeFirst ==
    ASSUME Awake, Placed, ControlTypes, FirstPut \/ FirstResumes
    PROVE  Awake'
  <1> USE DEF batchVars, itemVars
  <1>0. /\ First \in Stages /\ First \notin Batching /\ First # Saver
        /\ mode \in [Stages -> Modes] /\ pos \in Int /\ Len(Script) \in Nat
    BY Order, Batchers, ScriptAssumption, LenProperties DEF ControlTypes
  <1>1. /\ UNCHANGED <<batch, out, noBlock, shutdown, thaw, listener, future>>
        /\ mode' = [mode EXCEPT ![First] = IF pos = Len(Script) THEN "finish" ELSE @]
        /\ pos' = pos + 1 /\ pos <= Len(Script)
    BY DEF FirstPut, FirstResumes
  <1>2. AwakeAt(First)'
    <2>1. AwakeAt(First)
      BY <1>0 DEF Awake
    <2>2. /\ mode'[First] \in {"finish", mode[First]}
          /\ mode'[First] = mode[First] => pos # Len(Script) \/ mode[First] = "finish"
      BY <1>0, <1>1
    <2>3. mode'[First] = "wait" => pos + 1 <= Len(Script)
      BY <1>0, <1>1, <2>2
    <2> QED
      BY <1>0, <1>1, <2>1, <2>2, <2>3 DEF AwakeAt
  <1>3. \A r \in Stages : r # First => SameBatch(r)
    BY <1>0, <1>1 DEF SameBatch
  <1>4. Calm
    BY <1>1 DEF Calm
  <1> QED
    BY <1>0, <1>1, <1>2, <1>3, <1>4, AwakeKept

\* resolution(): whoever holds the item in a batch is told not to wait.
LEMMA AwakeResolution ==
    ASSUME Awake, Placed, ControlTypes, DataTypes, Resolution
    PROVE  Awake'
  <1> DEFINE d0 == Script[pos][2]
  <1>1. /\ UNCHANGED <<mode, batch, out, noBlock, shutdown, listener, pos>>
        /\ future' = [future EXCEPT ![d0] = "awaited"]
        /\ thaw' = [s \in Stages |-> thaw[s] \/ s \in HoldersOf(d0)]
    BY DEF Resolution, flowVars
  <1> HIDE DEF d0
  <1>2. ASSUME NEW s \in Stages
        PROVE  AwakeAt(s)'
    <2>1. AwakeAt(s)
      BY DEF Awake
    <2>2. thaw'[s] <=> thaw[s] \/ s \in HoldersOf(d0)
      BY <1>1
    <2>3. ASSUME mode[s] = "wait", s \in Batching, NEW d \in ToSet(batch[s]),
                 future'[d] = "awaited"
          PROVE  thaw'[s]
      <3>1. d = d0 \/ future[d] = "awaited"
        <4>1. d \in Items
          BY WholeBatch
        <4> QED
          BY <1>1, <2>3, <4>1 DEF DataTypes
      <3>2. CASE d = d0
        BY <2>2, <2>3, <3>2 DEF HoldersOf
      <3>3. CASE future[d] = "awaited"
        BY <2>1, <2>2, <2>3, <3>3 DEF AwakeAt
      <3> QED
        BY <3>1, <3>2, <3>3
    <2> QED
      BY <1>1, <2>1, <2>3 DEF AwakeAt
  <1> QED
    BY <1>2 DEF Awake

\* A stage puts an item: after the last one it waits with an empty batch, and the
\* saver's flush listener is armed again.
LEMMA AwakePut ==
    ASSUME Awake, Placed, ControlTypes, Empties, Postures,
           NEW s \in Stages \ {EndStage}, Put(s)
    PROVE  Awake'
  <1>0. /\ mode \in [Stages -> Modes] /\ out \in [Stages -> Seq(Items)]
        /\ First \notin Batching /\ First # Resolver
    <2>1. First \notin Batching /\ First # Resolver
      BY Order, Batchers
    <2> QED
      BY <2>1 DEF ControlTypes, Placed, CarrierTypes
  <1>1. /\ UNCHANGED <<batch, noBlock, shutdown, thaw, future, pos>>
        /\ mode[s] = "put" /\ out[s] # <<>> /\ out' = [out EXCEPT ![s] = Tail(@)]
        /\ \/ Len(out[s]) = 1 /\ mode' = [mode EXCEPT ![s] = AfterPut(s)] /\ Rearm(s)
           \/ Len(out[s]) # 1 /\ UNCHANGED <<mode, listener>>
    BY DEF Put, itemVars
  <1>2. s # Saver => listener' = listener
    BY <1>1, Kinded DEF Rearm
  <1>3. AwakeAt(s)'
    <2>1. AwakeAt(s) /\ s # First
      BY <1>0, <1>1 DEF Awake, Postures
    <2>2. batch'[s] = <<>>
      BY <1>1 DEF Empties
    <2>3. ToSet(<<>>) = {}
      BY Units
    <2>4. CASE Len(out[s]) # 1
      <3>1. Tail(out[s]) # <<>>
        <4>1. Len(Tail(out[s])) # 0 /\ Len(<<>>) = 0
          BY <1>0, <1>1, <2>4, Taken1, Units
        <4> QED
          BY <4>1
      <3>2. out'[s] = Tail(out[s])
        BY <1>0, <1>1
      <3> QED
        BY <1>1, <2>1, <2>2, <2>3, <2>4, <3>1, <3>2 DEF AwakeAt
    <2>5. CASE Len(out[s]) = 1
      <3>1. /\ mode'[s] \in {"add", "wait", "tail", "finish"}
            /\ mode'[s] = "wait" => ~shutdown[s]
        BY <1>0, <1>1, <2>5 DEF AfterPut
      <3>2. s = Saver => listener' # "off"
        BY <1>1, <2>5, Kinded DEF Rearm
      <3> QED
        BY <1>1, <2>1, <2>2, <2>3, <3>1, <3>2 DEF AwakeAt
    <2> QED
      BY <2>4, <2>5
  <1>4. \A r \in Stages : r # s => SameBatch(r)
    BY <1>0, <1>1 DEF SameBatch
  <1>5. Calm
    BY <1>1 DEF Calm
  <1> QED
    BY <1>1, <1>2, <1>3, <1>4, <1>5, AwakeKept

\* batches(): whatever must not wait is yielded.
LEMMA AwakeCollect ==
    ASSUME Awake, Placed, ControlTypes, Ending, NEW s \in Batching, Collect(s)
    PROVE  Awake'
  <1> DEFINE items == batch[s] \o WithoutEnd(Taken(s))
             ends == End \in ToSet(Taken(s))
             hurry == \/ noBlock[s] \/ thaw[s] \/ Flushed(s)
                      \/ \E d \in ToSet(items) : future[d] = "awaited"
             yields == /\ items # <<>>
                       /\ Len(items) >= MinSize(s) \/ ends \/ hurry
  <1>0. s \in Stages /\ s # First
    BY Batchers
  <1>1. /\ mode[s] = "wait" /\ UNCHANGED <<pos, out, future>>
        /\ batch' = [batch EXCEPT ![s] = items]
        /\ shutdown' = [shutdown EXCEPT ![s] = ends]
        /\ noBlock' = [noBlock EXCEPT ![s] = hurry /\ ~yields]
        /\ mode' = [mode EXCEPT ![s] =
               IF yields THEN "handle"
               ELSE IF ~ends THEN "wait"
               ELSE IF Kinds[s] = "associate" THEN "tail" ELSE "finish"]
        /\ thaw' = [thaw EXCEPT ![s] = FALSE]
        /\ listener' = IF Flushed(s) THEN "off" ELSE listener
    BY DEF Collect, itemVars
  <1>2. /\ noBlock[s] => hurry
        /\ Flushed(s) => hurry
        /\ \A d \in ToSet(items) : future[d] = "awaited" => hurry
        /\ yields => items # <<>>
        /\ hurry /\ items # <<>> => yields
    OBVIOUS
  <1>3. hurry \in BOOLEAN /\ yields \in BOOLEAN /\ ends \in BOOLEAN
    OBVIOUS
  <1> HIDE DEF items, ends, hurry, yields
  <1>4. /\ mode \in [Stages -> Modes] /\ batch \in [Stages -> Seq(Items)]
        /\ shutdown \in [Stages -> BOOLEAN] /\ noBlock \in [Stages -> BOOLEAN]
        /\ thaw \in [Stages -> BOOLEAN]
    BY DEF Placed, CarrierTypes, ControlTypes
  <1>5. /\ batch'[s] = items /\ (shutdown'[s] <=> ends)
        /\ noBlock'[s] <=> hurry /\ ~yields
    BY <1>0, <1>1, <1>3, <1>4, Zenon
  <1>6. /\ yields => mode'[s] = "handle"
        /\ ~yields => mode'[s] \in {"wait", "tail", "finish"}
        /\ mode'[s] = "wait" => ~yields /\ ~ends
    BY <1>0, <1>1, <1>4
  <1>7. \A r \in Stages : r # s => SameBatch(r)
    BY <1>0, <1>1, <1>4 DEF SameBatch
  <1>8. s # Saver => listener' = listener
    BY <1>0, <1>1, Kinded DEF Flushed
  <1>9. s = Saver /\ listener' = "off" => hurry
    BY <1>0, <1>1, <1>2 DEF Awake, AwakeAt
  <1>10. AwakeAt(s)'
    <2>1. mode'[s] = "wait" => \A d \in ToSet(batch'[s]) : future'[d] # "awaited"
      <3> SUFFICES ASSUME mode'[s] = "wait", NEW d \in ToSet(items)
                   PROVE  future[d] # "awaited"
        BY <1>1, <1>5
      <3>1. items # <<>>
        BY Units
      <3> QED
        BY <1>2, <1>6, <3>1
    <2>2. noBlock'[s] => batch'[s] = <<>>
      BY <1>2, <1>5
    <2>3. s = Saver /\ listener' = "off" /\ mode'[s] = "wait" => noBlock'[s]
      BY <1>5, <1>6, <1>9
    <2>4. mode'[s] # "put" /\ (mode'[s] = "handle" => batch'[s] # <<>>)
      BY <1>2, <1>5, <1>6
    <2>5. shutdown'[s] => mode'[s] # "wait"
      BY <1>5, <1>6
    <2> QED
      BY <1>0, <2>1, <2>2, <2>3, <2>4, <2>5 DEF AwakeAt
  <1>11. Calm
    BY <1>1 DEF Calm
  <1> QED
    BY <1>0, <1>1, <1>7, <1>8, <1>10, <1>11, AwakeKept

\* A stage that has handled its batch puts what there is to put, or goes on with an
\* empty batch.
LEMMA AwakeHands ==
    ASSUME Awake, Placed, ControlTypes, NEW s \in Batching, NEW items, Hands(s, items),
           s = Saver => items = batch[Saver], listener' = listener, future' = future
    PROVE  Awake'
  <1>0. /\ s \in Stages /\ s # First
        /\ mode \in [Stages -> Modes] /\ batch \in [Stages -> Seq(Items)]
        /\ out \in [Stages -> Seq(Items)]
    BY Batchers DEF Placed, CarrierTypes, ControlTypes
  <1>1. /\ UNCHANGED <<noBlock, shutdown, thaw, pos>> /\ mode[s] = "handle"
        /\ batch' = [batch EXCEPT ![s] = <<>>]
        /\ out' = [out EXCEPT ![s] = items]
        /\ mode' = [mode EXCEPT ![s] = IF items = <<>> THEN AfterPut(s) ELSE "put"]
    BY DEF Hands
  <1>2. /\ batch'[s] = <<>> /\ out'[s] = items
        /\ mode'[s] = IF items = <<>> THEN AfterPut(s) ELSE "put"
        /\ \A r \in Stages : r # s => SameBatch(r)
    BY <1>0, <1>1 DEF SameBatch
  <1>3. AwakeAt(s)'
    <2>1. AwakeAt(s)
      BY <1>0 DEF Awake
    <2>2. s = Saver => items # <<>>
      BY <1>1, <2>1 DEF AwakeAt
    <2>3. /\ AfterPut(s) \in {"add", "wait", "tail", "finish"}
          /\ AfterPut(s) = "wait" => ~shutdown[s]
      BY DEF AfterPut
    <2>4. ToSet(<<>>) = {}
      BY Units
    <2> QED
      BY <1>0, <1>1, <1>2, <2>1, <2>2, <2>3, <2>4 DEF AwakeAt
  <1>4. Calm
    BY DEF Calm
  <1> QED
    BY <1>0, <1>1, <1>2, <1>3, <1>4, AwakeKept

\* ContentAssociation hands on what is new, or goes on with an empty batch.
LEMMA AwakeAssociate ==
    ASSUME Awake, Placed, ControlTypes, Empties, Associate(Associator)
    PROVE  Awake'
  <1> DEFINE a == Associator
             new == Fresh(batch[a])
  <1>0. /\ a \in Stages /\ a \in Batching /\ a # First /\ a # Saver
        /\ mode \in [Stages -> Modes] /\ batch \in [Stages -> Seq(Items)]
        /\ out \in [Stages -> Seq(Items)]
    <2>1. /\ a \in Stages /\ a \in Batching /\ a # First /\ a # Saver
      BY Order, Batchers
    <2> QED
      BY <2>1 DEF Placed, CarrierTypes, ControlTypes
  <1>1. /\ UNCHANGED <<noBlock, shutdown, thaw, listener, future, pos>>
        /\ mode[a] = "handle" /\ batch' = [batch EXCEPT ![a] = <<>>]
        /\ mode' = [mode EXCEPT ![a] = IF new # {} THEN "put" ELSE AfterPut(a)]
        /\ \E f : out' = [out EXCEPT ![a] = f]
    BY DEF Associate, Fresh, itemVars
  <1>2. new # {} => out'[a] # <<>>
    <2>1. out[a] = <<>>
      BY <1>0, <1>1 DEF Empties, Idling
    <2>2. /\ Moved(FreshOf(a), "out", a, ToSet(batch[a]) \ FreshOf(a))
          /\ ToSet(batch[a]) \subseteq Items /\ FreshOf(a) \subseteq ToSet(batch[a])
      BY <1>0, <2>1, AssociateMoves
    <2>3. ASSUME NEW d \in FreshOf(a)
          PROVE  d \in ToSet(out'[a])
      <3>1. In(d, "out", a)' /\ "out" \in Carriers /\ d \in Items
        BY <1>0, <2>2, <2>3 DEF Moved, Carriers
      <3> QED
        BY <1>0, <3>1, Forms
    <2>4. new # {} => FreshOf(a) # {}
      BY DEF FreshOf
    <2> QED
      BY <2>3, <2>4, Units
  <1> HIDE DEF new, a
  <1>3. /\ batch'[a] = <<>> /\ mode'[a] = IF new # {} THEN "put" ELSE AfterPut(a)
        /\ \A r \in Stages : r # a => SameBatch(r)
    BY <1>0, <1>1 DEF SameBatch
  <1>4. AwakeAt(a)'
    <2>1. AwakeAt(a)
      BY <1>0 DEF Awake
    <2>2. /\ AfterPut(a) \in {"add", "wait", "tail", "finish"}
          /\ AfterPut(a) = "wait" => ~shutdown[a]
      BY DEF AfterPut
    <2>3. ToSet(<<>>) = {}
      BY Units
    <2> QED
      BY <1>0, <1>1, <1>2, <1>3, <2>1, <2>2, <2>3 DEF AwakeAt
  <1>5. Calm
    BY <1>1 DEF Calm
  <1> QED
    BY <1>0, <1>1, <1>3, <1>4, <1>5, AwakeKept

\* A stage that moves on with what it has in hand, and waits only with an empty batch.
LEMMA AwakeGoes ==
    ASSUME Awake, Placed, ControlTypes, NEW s \in Stages, NEW m,
           mode' = [mode EXCEPT ![s] = m],
           UNCHANGED <<batch, noBlock, shutdown, thaw, listener, pos>>, Calm,
           \A r \in Stages : r # s => out'[r] = out[r],
           m = "put" => out'[s] # <<>>,
           m = "wait" => batch[s] = <<>> /\ ~shutdown[s],
           m # "handle", s # First, s # Saver
    PROVE  Awake'
  <1>0. mode \in [Stages -> Modes]
    BY DEF ControlTypes
  <1>1. mode'[s] = m /\ \A r \in Stages : r # s => SameBatch(r)
    BY <1>0 DEF SameBatch
  <1>2. AwakeAt(s)'
    <2>1. AwakeAt(s)
      BY DEF Awake
    <2>2. ToSet(<<>>) = {}
      BY Units
    <2> QED
      BY <1>1, <2>1, <2>2 DEF AwakeAt
  <1> QED
    BY <1>1, <1>2, AwakeKept

\* A step that no stage notices.
LEMMA AwakeStill ==
    ASSUME Awake, Placed, Calm, UNCHANGED <<mode, batch, out, noBlock, shutdown, thaw, pos>>,
           listener' = "off" => listener = "off"
    PROVE  Awake'
  <1>1. ASSUME NEW r \in Stages
        PROVE  AwakeAt(r)'
    <2>1. batch[r] \in Seq(Items) /\ SameBatch(r)
      BY DEF Placed, CarrierTypes, SameBatch
    <2> QED
      BY <2>1, AwakeSame DEF Awake
  <1> QED
    BY <1>1 DEF Awake

\* No step leaves a stage waiting with something it should be busy with.
LEMMA AwakeStep ==
    ASSUME Awake, Placed, ControlTypes, DataTypes, Empties, Postures, Ending,
           [Next]_vars, outcome' = "running"
    PROVE  Awake'
  <1> USE DEF flowVars, batchVars, itemVars
  <1>0. /\ Batching \subseteq Stages /\ {Resolver, Downloader, EndStage} \subseteq Stages
        /\ {Resolver, Downloader, EndStage} \cap Batching = {}
        /\ First \notin {Resolver, Downloader, EndStage, Associator}
        /\ Saver \notin {Resolver, Downloader, EndStage, Associator}
    <2>1. /\ {Resolver, Downloader, EndStage} \subseteq Stages
          /\ First \notin {Resolver, Downloader, EndStage, Associator}
          /\ Saver \notin {Resolver, Downloader, EndStage, Associator}
      BY Order
    <2> QED
      BY <2>1, Batchers
  <1>c. future' = future => Calm
    BY DEF Calm
  <1>1. CASE FirstPut \/ FirstResumes \/ Resolution
    BY <1>1, AwakeFirst, AwakeResolution
  <1>2. ASSUME NEW s \in Stages \ {EndStage}, Put(s)
        PROVE  Awake'
    BY <1>2, AwakePut
  <1>3. ASSUME NEW s \in Stages \ {EndStage}, Finish(s)
        PROVE  Awake'
    <2>1. /\ mode' = [mode EXCEPT ![s] = "done"]
          /\ UNCHANGED <<batch, noBlock, shutdown, thaw, listener, pos, out, future>>
      BY <1>3 DEF Finish
    <2>2. ASSUME NEW r \in Stages, r # s
          PROVE  SameBatch(r)
      BY <2>1, <2>2 DEF ControlTypes, SameBatch
    <2>3. AwakeAt(s)'
      <3>1. mode'[s] = "done" /\ AwakeAt(s)
        BY <2>1 DEF ControlTypes, Awake
      <3> QED
        BY <2>1, <3>1 DEF AwakeAt
    <2> QED
      BY <1>c, <2>1, <2>2, <2>3, AwakeKept
  <1>4. ASSUME NEW s \in Batching, Listen(s)
        PROVE  Awake'
    <2>1. UNCHANGED <<mode, batch, out, noBlock, shutdown, thaw, pos, listener, future>>
      BY <1>4 DEF Listen
    <2> QED
      BY <1>c, <2>1, AwakeStill
  <1>5. ASSUME NEW s \in Batching, Collect(s)
        PROVE  Awake'
    BY <1>5, AwakeCollect
  <1>6. ASSUME \/ \E s \in Batching \ {Querier, Saver, ContentSaver, Associator} : HandOver(s)
               \/ QueryArtifacts(Querier) \/ SaveArtifacts(Saver) \/ SaveContent(ContentSaver)
        PROVE  Awake'
    BY <1>6, HandsBatch, AwakeHands
  <1>7. CASE Associate(Associator)
    BY <1>7, AwakeAssociate
  <1>8. ASSUME NEW s \in Batching, AddContent(s) \/ RemoveContent(s)
        PROVE  Awake'
    <2>1. /\ UNCHANGED <<batch, noBlock, shutdown, thaw, listener, pos, out, future>>
          /\ mode[s] \in {"add", "tail"}
          /\ \E m : /\ mode' = [mode EXCEPT ![s] = m] /\ m \notin {"put", "handle"}
                    /\ m = "wait" => ~shutdown[s]
      BY <1>8 DEF AddContent, RemoveContent
    <2>2. s = Associator /\ batch[s] = <<>>
      BY <1>0, <2>1 DEF Postures, Empties, Closed
    <2> QED
      BY <1>0, <1>c, <2>1, <2>2, AwakeGoes
  <1>9. CASE ResolveFuture(Resolver)
    <2>1. /\ UNCHANGED <<batch, noBlock, shutdown, thaw, listener, pos>>
          /\ \/ mode' = [mode EXCEPT ![Resolver] = "finish"] /\ UNCHANGED <<out, future>>
             \/ /\ mode' = [mode EXCEPT ![Resolver] = "put"]
                /\ \E d : /\ out' = [out EXCEPT ![Resolver] = <<d>>]
                          /\ future' = [future EXCEPT ![d] = "resolved"]
      BY <1>9 DEF ResolveFuture
    <2>2. Calm
      BY <2>1 DEF Calm, DataTypes
    <2>3. out' = out \/ \E d : out' = [out EXCEPT ![Resolver] = <<d>>]
      BY <2>1
    <2>4. \A r \in Stages : r # Resolver => out'[r] = out[r]
      BY <2>3 DEF Placed, CarrierTypes
    <2>5. CASE mode' = [mode EXCEPT ![Resolver] = "finish"]
      BY <1>0, <2>1, <2>2, <2>4, <2>5, AwakeGoes
    <2>6. ASSUME NEW d, mode' = [mode EXCEPT ![Resolver] = "put"],
                 out' = [out EXCEPT ![Resolver] = <<d>>]
          PROVE  Awake'
      <3>1. out'[Resolver] # <<>>
        BY <1>0, <2>6 DEF Placed, CarrierTypes
      <3> QED
        BY <1>0, <2>1, <2>2, <2>4, <2>6, <3>1, AwakeGoes
    <2> QED
      BY <2>1, <2>5, <2>6
  <1>10. CASE Drain(EndStage)
    <2>1. /\ UNCHANGED <<batch, noBlock, shutdown, thaw, listener, pos, out, future>>
          /\ \/ mode' = [mode EXCEPT ![EndStage] = "done"]
             \/ mode' = [mode EXCEPT ![EndStage] = mode[EndStage]]
      BY <1>10 DEF Drain
    <2>2. CASE mode' = [mode EXCEPT ![EndStage] = "done"]
      BY <1>0, <1>c, <2>1, <2>2, AwakeGoes
    <2>3. CASE mode' = [mode EXCEPT ![EndStage] = mode[EndStage]]
      <3>1. mode' = mode
        BY <2>3 DEF ControlTypes
      <3> QED
        BY <1>c, <2>1, <3>1, AwakeStill
    <2> QED
      BY <2>1, <2>2, <2>3
  <1>11. CASE GetNext(Downloader)
    <2>1. /\ UNCHANGED <<mode, batch, noBlock, thaw, listener, pos, out, future>>
          /\ shutdown' = [shutdown EXCEPT ![Downloader] = TRUE] \/ shutdown' = shutdown
      BY <1>11 DEF GetNext
    <2>2. \A r \in Stages : r # Downloader => SameBatch(r)
      BY <2>1 DEF SameBatch, ControlTypes
    <2>3. AwakeAt(Downloader)'
      <3>1. AwakeAt(Downloader)
        BY <1>0 DEF Awake
      <3> QED
        BY <1>0, <2>1, <3>1 DEF AwakeAt
    <2> QED
      BY <1>0, <1>c, <2>1, <2>2, <2>3, AwakeKept
  <1>12. CASE DownloaderEnds(Downloader)
    <2>1. /\ UNCHANGED <<batch, noBlock, shutdown, thaw, listener, pos, out, future>>
          /\ mode' = [mode EXCEPT ![Downloader] = "finish"]
      BY <1>12 DEF DownloaderEnds
    <2> QED
      BY <1>0, <1>c, <2>1, AwakeGoes
  <1>13. ASSUME NEW d \in Items,
                \/ SkipDownload(Downloader, d) \/ Acquire(Downloader, d)
                \/ AwaitBudget(Downloader, d) \/ Downloaded(Downloader, d)
                \/ PutDownloaded(Downloader, d)
         PROVE  Awake'
    <2>1. /\ UNCHANGED <<mode, batch, out, noBlock, shutdown, thaw, pos, future>>
          /\ listener' \in {listener, "fired"}
      BY <1>13 DEF SkipDownload, Acquire, AwaitBudget, Downloaded, PutDownloaded
    <2> QED
      BY <1>c, <2>1, AwakeStill
  <1>14. CASE ArmFlush(Saver) \/ OtherSaves \/ UNCHANGED vars
    <2>1. /\ UNCHANGED <<mode, batch, out, noBlock, shutdown, thaw, pos, future>>
          /\ listener' \in {listener, "fired", "armed"}
      BY <1>14 DEF ArmFlush, OtherSaves, vars
    <2> QED
      BY <1>c, <2>1, AwakeStill
  <1> QED
    BY <1>1, <1>2, <1>3, <1>4, <1>5, <1>6, <1>7, <1>8, <1>9, <1>10, <1>11, <1>12,
       <1>13, <1>14, RunningCases

-----------------------------------------------------------------------------
(***************************************************************************)
(* A stage is told of the end of the one before it.                        *)
(***************************************************************************)
\* A stage that is over stays over, and it is done when it has put the end marker.
Onward(s, m) ==
    /\ mode' = [mode EXCEPT ![s] = m]
    /\ mode[s] \in Closed => m \in Closed
    /\ m = "done" => s = EndStage \/ Finish(s)

\* Every step moves one stage at most.
LEMMA Onwards ==
    ASSUME ControlTypes, [Next]_vars, outcome' = "running"
    PROVE  mode' = mode \/ \E s \in Stages, m \in Modes : Onward(s, m)
  <1> USE DEF flowVars, Closed, Modes, Ended
  <1>0. /\ mode \in [Stages -> Modes] /\ Batching \subseteq Stages
        /\ {First, Resolver, Downloader, EndStage, Associator} \subseteq Stages
    BY Order, Batchers DEF ControlTypes
  <1>g. ASSUME NEW s \in Stages, NEW m \in Modes, mode' = [mode EXCEPT ![s] = m],
               mode[s] \in Closed => m \in Closed,
               m = "done" => s = EndStage \/ Finish(s)
        PROVE  \E t \in Stages, n \in Modes : Onward(t, n)
    BY <1>g DEF Onward
  <1>1. CASE FirstPut \/ FirstResumes
    <2>1. \/ mode' = [mode EXCEPT ![First] = "finish"]
          \/ mode' = [mode EXCEPT ![First] = mode[First]]
      BY <1>1 DEF FirstPut, FirstResumes
    <2>2. CASE mode' = [mode EXCEPT ![First] = "finish"]
      BY <1>0, <1>g, <2>2
    <2>3. CASE mode' = [mode EXCEPT ![First] = mode[First]]
      BY <1>0, <2>3
    <2> QED
      BY <2>1, <2>2, <2>3
  <1>2. ASSUME NEW s \in Stages \ {EndStage}, Put(s)
        PROVE  mode' = mode \/ \E t \in Stages, n \in Modes : Onward(t, n)
    <2>1. mode[s] = "put" /\ (mode' = mode \/ mode' = [mode EXCEPT ![s] = AfterPut(s)])
      BY <1>2 DEF Put
    <2>2. AfterPut(s) \in {"add", "wait", "tail", "finish"}
      BY DEF AfterPut
    <2> QED
      BY <1>0, <1>g, <2>1, <2>2
  <1>3. ASSUME NEW s \in Stages \ {EndStage}, Finish(s)
        PROVE  \E t \in Stages, n \in Modes : Onward(t, n)
    <2>1. mode' = [mode EXCEPT ![s] = "done"]
      BY <1>3 DEF Finish
    <2> QED
      BY <1>3, <1>g, <2>1
  <1>4. ASSUME NEW s \in Batching, Collect(s)
        PROVE  \E t \in Stages, n \in Modes : Onward(t, n)
    <2>1. /\ mode[s] = "wait"
          /\ \E m \in {"handle", "wait", "tail", "finish"} : mode' = [mode EXCEPT ![s] = m]
      BY <1>4 DEF Collect
    <2> QED
      BY <1>0, <1>g, <2>1
  <1>5. ASSUME NEW s \in Batching, NEW items, Hands(s, items)
        PROVE  \E t \in Stages, n \in Modes : Onward(t, n)
    <2>1. /\ mode[s] = "handle"
          /\ \E m \in {AfterPut(s), "put"} : mode' = [mode EXCEPT ![s] = m]
      BY <1>5 DEF Hands
    <2>2. AfterPut(s) \in {"add", "wait", "tail", "finish"}
      BY DEF AfterPut
    <2> QED
      BY <1>0, <1>g, <2>1, <2>2
  <1>6. CASE Associate(Associator)
    <2>1. /\ mode[Associator] = "handle"
          /\ \E m \in {AfterPut(Associator), "put"} : mode' = [mode EXCEPT ![Associator] = m]
      BY <1>6 DEF Associate
    <2>2. AfterPut(Associator) \in {"add", "wait", "tail", "finish"}
      BY DEF AfterPut
    <2> QED
      BY <1>0, <1>g, <2>1, <2>2
  <1>7. ASSUME NEW s \in Batching, AddContent(s) \/ RemoveContent(s)
        PROVE  \E t \in Stages, n \in Modes : Onward(t, n)
    <2>1. /\ mode[s] = "add" \/ mode' = [mode EXCEPT ![s] = "finish"]
          /\ \E m \in {"tail", "wait", "finish"} : mode' = [mode EXCEPT ![s] = m]
      BY <1>7 DEF AddContent, RemoveContent
    <2> QED
      BY <1>0, <1>g, <2>1
  <1>8. CASE ResolveFuture(Resolver)
    <2>1. /\ mode[Resolver] = "wait"
          /\ \E m \in {"put", "finish"} : mode' = [mode EXCEPT ![Resolver] = m]
      BY <1>8 DEF ResolveFuture
    <2> QED
      BY <1>0, <1>g, <2>1
  <1>9. CASE Drain(EndStage)
    <2>1. \/ mode' = [mode EXCEPT ![EndStage] = "done"]
          \/ mode' = [mode EXCEPT ![EndStage] = mode[EndStage]]
      BY <1>9 DEF Drain
    <2>2. CASE mode' = [mode EXCEPT ![EndStage] = "done"]
      BY <1>0, <1>g, <2>2
    <2>3. CASE mode' = [mode EXCEPT ![EndStage] = mode[EndStage]]
      BY <1>0, <2>3
    <2> QED
      BY <2>1, <2>2, <2>3
  <1>10. CASE DownloaderEnds(Downloader)
    <2>1. mode' = [mode EXCEPT ![Downloader] = "finish"]
      BY <1>10 DEF DownloaderEnds
    <2> QED
      BY <1>0, <1>g, <2>1
  <1>11. ASSUME NEW s \in Batching, Listen(s)
         PROVE  mode' = mode
    BY <1>11 DEF Listen
  <1>12. ASSUME NEW d \in Items,
                \/ SkipDownload(Downloader, d) \/ Acquire(Downloader, d)
                \/ AwaitBudget(Downloader, d) \/ Downloaded(Downloader, d)
                \/ PutDownloaded(Downloader, d)
         PROVE  mode' = mode
    BY <1>12 DEF SkipDownload, Acquire, AwaitBudget, Downloaded, PutDownloaded
  <1>13. ASSUME \/ Resolution \/ ArmFlush(Saver) \/ GetNext(Downloader) \/ OtherSaves
                \/ UNCHANGED vars
         PROVE  mode' = mode
    BY <1>13 DEF Resolution, ArmFlush, GetNext, OtherSaves, vars
  <1>14. ASSUME \/ \E s \in Batching \ {Querier, Saver, ContentSaver, Associator} : HandOver(s)
                \/ QueryArtifacts(Querier) \/ SaveArtifacts(Saver) \/ SaveContent(ContentSaver)
         PROVE  \E s \in Stages, m \in Modes : Onward(s, m)
    BY <1>0, <1>5, <1>14, HandsBatch
  <1> QED
    BY <1>0, <1>1, <1>2, <1>3, <1>4, <1>6, <1>7, <1>8, <1>9, <1>10, <1>11, <1>12, <1>13,
       <1>14, RunningCases

\* Of a stage that is over; and of one that is done the next was told.
LEMMA DoneTells ==
    ASSUME ControlTypes, [Next]_vars, outcome' = "running", NEW s \in Stages
    PROVE  /\ mode[s] \in Closed => mode'[s] \in Closed
           /\ mode'[s] = "done" => mode[s] = "done" \/ s = EndStage \/ Finish(s)
  <1>1. CASE mode' = mode
    BY <1>1
  <1>2. ASSUME NEW r \in Stages, NEW m \in Modes, Onward(r, m)
        PROVE  /\ mode[s] \in Closed => mode'[s] \in Closed
               /\ mode'[s] = "done" => mode[s] = "done" \/ s = EndStage \/ Finish(s)
    <2>1. mode'[s] = IF s = r THEN m ELSE mode[s]
      BY <1>2 DEF Onward, ControlTypes
    <2> QED
      BY <1>2, <2>1 DEF Onward
  <1> QED
    BY <1>1, <1>2, Onwards

\* What is in a queue stays in it when something is put.
LEMMA Fed ==
    ASSUME Placed, NEW t \in Stages, NEW x \in Items \cup {End},
           queue' = [queue EXCEPT ![t] = Append(@, x)]
    PROVE  /\ \A s \in Stages : ToSet(queue[s]) \subseteq ToSet(queue'[s])
           /\ x \in ToSet(queue'[t])
  <1>1. queue \in [Stages -> Seq(Items \cup {End})]
    BY DEF Placed, CarrierTypes
  <1>2. ToSet(Append(queue[t], x)) = ToSet(queue[t]) \cup {x}
    BY <1>1, Appended
  <1>3. \A s \in Stages : queue'[s] = IF s = t THEN Append(queue[t], x) ELSE queue[s]
    BY <1>1
  <1> QED
    BY <1>2, <1>3

\* The first of a queue is taken, the rest stays.
LEMMA TookOne ==
    ASSUME Placed, NEW t \in Stages, queue[t] # <<>>,
           queue' = [queue EXCEPT ![t] = Tail(@)]
    PROVE  /\ \A s \in Stages : s # t => queue'[s] = queue[s]
           /\ \A x \in ToSet(queue[t]) : x = Head(queue[t]) \/ x \in ToSet(queue'[t])
  <1>1. queue \in [Stages -> Seq(Items \cup {End})]
    BY DEF Placed, CarrierTypes
  <1>2. ToSet(queue[t]) = ToSet(Tail(queue[t])) \cup {Head(queue[t])}
    BY <1>1, Taken1
  <1>3. \A s \in Stages : queue'[s] = IF s = t THEN Tail(queue[t]) ELSE queue[s]
    BY <1>1
  <1> QED
    BY <1>2, <1>3

\* A step that takes nothing from a queue leaves the end marker where it is.
LEMMA SeenStays ==
    ASSUME ControlTypes, [Next]_vars, outcome' = "running", NEW s \in Stages, EndSeen(s),
           ToSet(queue[s]) \subseteq ToSet(queue'[s]), held'[s] = held[s],
           shutdown'[s] = shutdown[s]
    PROVE  EndSeen(s)'
  <1>1. mode[s] \in Closed => mode'[s] \in Closed
    BY DoneTells
  <1> QED
    BY <1>1 DEF EndSeen

\* Whoever takes the end marker of a queue remembers it.
LEMMA SeenKept ==
    ASSUME Placed, ControlTypes, DataTypes, Unsent, Postures, Ending, Awake,
           [Next]_vars, outcome' = "running", NEW r \in Stages, EndSeen(r)
    PROVE  EndSeen(r)'
  <1> USE DEF batchVars, flowVars, downloadVars
  <1>0. /\ Batching \subseteq Stages /\ {Resolver, Downloader, EndStage} \subseteq Stages
        /\ 2 \in Stages /\ \A s \in Stages \ {EndStage} : s + 1 \in Stages
    BY Order, Batchers
  <1>t. /\ queue \in [Stages -> Seq(Items \cup {End})]
        /\ held \in [Stages -> Items \cup {End, Nothing}]
        /\ out \in [Stages -> Seq(Items)]
        /\ shutdown \in [Stages -> BOOLEAN]
    BY DEF Placed, CarrierTypes, ControlTypes
  <1>1. ASSUME UNCHANGED <<queue, held, shutdown>>
        PROVE  EndSeen(r)'
    BY <1>1, SeenStays
  <1>2. ASSUME NEW t \in Stages, NEW x \in Items \cup {End},
               queue' = [queue EXCEPT ![t] = Append(@, x)], UNCHANGED <<held, shutdown>>
        PROVE  EndSeen(r)'
    BY <1>2, Fed, SeenStays
  <1>3. ASSUME NEW t \in Stages, queue[t] # <<>>, queue' = [queue EXCEPT ![t] = Tail(@)],
               \A s \in Stages : s # t => held'[s] = held[s] /\ shutdown'[s] = shutdown[s],
               Head(queue[t]) = End => EndSeen(t)',
               Head(queue[t]) # End => held'[t] = held[t] \/ held[t] = Nothing,
               Head(queue[t]) # End => shutdown'[t] = shutdown[t]
        PROVE  EndSeen(r)'
    <2>1. /\ \A s \in Stages : s # t => queue'[s] = queue[s]
          /\ \A x \in ToSet(queue[t]) : x = Head(queue[t]) \/ x \in ToSet(queue'[t])
      BY <1>3, TookOne
    <2>2. CASE r # t
      BY <1>3, <2>1, <2>2, SeenStays
    <2>3. CASE r = t /\ Head(queue[t]) # End
      <3>1. mode[r] \in Closed => mode'[r] \in Closed
        BY DoneTells
      <3>2. End # Nothing
        BY StagesAssumption
      <3> QED
        BY <1>3, <2>1, <2>3, <3>1, <3>2 DEF EndSeen
    <2> QED
      BY <1>3, <2>2, <2>3
  <1>4. CASE FirstPut
    <2>1. /\ queue' = [queue EXCEPT ![2] = Append(@, Script[pos][2])]
          /\ UNCHANGED <<held, shutdown>>
      BY <1>4 DEF FirstPut
    <2>2. Script[pos][2] \in Items
      BY <1>4, FirstPutStep
    <2> QED
      BY <1>0, <1>2, <2>1, <2>2
  <1>5. ASSUME NEW s \in Stages \ {EndStage}, Put(s)
        PROVE  EndSeen(r)'
    <2>1. /\ queue' = [queue EXCEPT ![s + 1] = Append(@, Head(out[s]))]
          /\ UNCHANGED <<held, shutdown>> /\ out[s] # <<>>
      BY <1>5 DEF Put
    <2>2. Head(out[s]) \in Items
      BY <1>t, <2>1, Taken1
    <2> QED
      BY <1>0, <1>2, <2>1, <2>2
  <1>6. ASSUME NEW s \in Stages \ {EndStage}, Finish(s)
        PROVE  EndSeen(r)'
    <2>1. /\ queue' = [queue EXCEPT ![s + 1] = Append(@, End)]
          /\ UNCHANGED <<held, shutdown>>
      BY <1>6 DEF Finish
    <2> QED
      BY <1>0, <1>2, <2>1
  <1>7. ASSUME NEW s \in Batching, Listen(s)
        PROVE  EndSeen(r)'
    <2>1. /\ queue[s] # <<>> /\ queue' = [queue EXCEPT ![s] = Tail(@)]
          /\ held[s] = Nothing /\ held' = [held EXCEPT ![s] = Head(queue[s])]
          /\ shutdown' = shutdown /\ s \in Stages
      BY <1>0, <1>7 DEF Listen
    <2>2. /\ held'[s] = Head(queue[s])
          /\ \A q \in Stages : q # s => held'[q] = held[q]
      BY <1>t, <2>1
    <2>3. Head(queue[s]) = End => EndSeen(s)'
      BY <2>2 DEF EndSeen
    <2> QED
      BY <1>3, <2>1, <2>2, <2>3
  <1>8. ASSUME NEW s \in Batching, Collect(s)
        PROVE  EndSeen(r)'
    <2> DEFINE ends == End \in ToSet(Taken(s))
    <2>1. /\ mode[s] = "wait" /\ s \in Stages
          /\ shutdown' = [shutdown EXCEPT ![s] = ends]
          /\ queue' = [queue EXCEPT ![s] = <<>>] /\ held' = [held EXCEPT ![s] = Nothing]
      BY <1>0, <1>8 DEF Collect
    <2>2. ends <=> End \in ToSet(queue[s]) \/ held[s] = End
      BY <2>1, TakenAll
    <2>3. ends \in BOOLEAN
      OBVIOUS
    <2> HIDE DEF ends
    <2>4. CASE r = s
      <3>1. ~shutdown[s] /\ mode[s] \notin Closed
        BY <1>8, <2>1 DEF Awake, AwakeAt, Closed
      <3>2. ends
        BY <2>2, <2>4, <3>1 DEF EndSeen
      <3>3. shutdown'[s]
        BY <1>t, <2>1, <3>2
      <3> QED
        BY <2>4, <3>3 DEF EndSeen
    <2>5. CASE r # s
      <3>1. /\ queue'[r] = queue[r] /\ held'[r] = held[r] /\ shutdown'[r] = shutdown[r]
        BY <1>t, <2>1, <2>5
      <3> QED
        BY <3>1, SeenStays
    <2> QED
      BY <2>4, <2>5
  <1>9. CASE ResolveFuture(Resolver)
    <2>1. /\ queue[Resolver] # <<>> /\ queue' = [queue EXCEPT ![Resolver] = Tail(@)]
          /\ UNCHANGED <<held, shutdown>>
          /\ Head(queue[Resolver]) = End => mode' = [mode EXCEPT ![Resolver] = "finish"]
      BY <1>9 DEF ResolveFuture
    <2>2. Head(queue[Resolver]) = End => EndSeen(Resolver)'
      BY <1>0, <2>1 DEF EndSeen, Closed, ControlTypes
    <2> QED
      BY <1>0, <1>3, <2>1, <2>2
  <1>10. CASE Drain(EndStage)
    <2>1. /\ queue[EndStage] # <<>> /\ queue' = [queue EXCEPT ![EndStage] = Tail(@)]
          /\ UNCHANGED <<held, shutdown>>
          /\ Head(queue[EndStage]) = End => mode' = [mode EXCEPT ![EndStage] = "done"]
      BY <1>10 DEF Drain
    <2>2. Head(queue[EndStage]) = End => mode'[EndStage] = "done"
      BY <1>0, <2>1 DEF ControlTypes
    <2>3. Head(queue[EndStage]) = End => EndSeen(EndStage)'
      BY <2>2, DepthsStay DEF EndSeen, Closed
    <2> QED
      BY <1>0, <1>3, <2>1, <2>3
  <1>11. CASE GetNext(Downloader)
    <2>1. /\ queue[Downloader] # <<>> /\ queue' = [queue EXCEPT ![Downloader] = Tail(@)]
          /\ held' = held
          /\ Head(queue[Downloader]) = End =>
                shutdown' = [shutdown EXCEPT ![Downloader] = TRUE]
          /\ Head(queue[Downloader]) # End => shutdown' = shutdown
      BY <1>11 DEF GetNext
    <2>2. Head(queue[Downloader]) = End => EndSeen(Downloader)'
      BY <1>0, <1>t, <2>1 DEF EndSeen
    <2>3. \A s \in Stages : s # Downloader => shutdown'[s] = shutdown[s]
      BY <1>t, <2>1
    <2> QED
      BY <1>0, <1>3, <2>1, <2>2, <2>3
  <1>12. ASSUME NEW d \in Items, PutDownloaded(Downloader, d)
         PROVE  EndSeen(r)'
    <2>1. /\ queue' = [queue EXCEPT ![Downloader + 1] = Append(@, d)]
          /\ UNCHANGED <<held, shutdown>>
      BY <1>12 DEF PutDownloaded
    <2>2. Downloader + 1 \in Stages
      BY Order
    <2> QED
      BY <1>2, <2>1, <2>2
  <1>13. ASSUME NEW d \in Items,
                \/ SkipDownload(Downloader, d) \/ Acquire(Downloader, d)
                \/ AwaitBudget(Downloader, d) \/ Downloaded(Downloader, d)
         PROVE  EndSeen(r)'
    <2>1. UNCHANGED <<queue, held, shutdown>>
      BY <1>13 DEF SkipDownload, Acquire, AwaitBudget, Downloaded
    <2> QED
      BY <1>1, <2>1
  <1>14. ASSUME NEW s \in Batching, AddContent(s) \/ RemoveContent(s)
         PROVE  EndSeen(r)'
    <2>1. UNCHANGED <<queue, held, shutdown>>
      BY <1>14 DEF AddContent, RemoveContent
    <2> QED
      BY <1>1, <2>1
  <1>15. ASSUME \/ \E s \in Batching \ {Querier, Saver, ContentSaver, Associator} : HandOver(s)
                \/ QueryArtifacts(Querier) \/ SaveArtifacts(Saver) \/ SaveContent(ContentSaver)
         PROVE  EndSeen(r)'
    <2>1. UNCHANGED <<queue, held, shutdown>>
      BY <1>15, HandsBatch DEF Hands
    <2> QED
      BY <1>1, <2>1
  <1>16. ASSUME \/ FirstResumes \/ Resolution \/ ArmFlush(Saver) \/ Associate(Associator)
                \/ DownloaderEnds(Downloader) \/ OtherSaves \/ UNCHANGED vars
         PROVE  EndSeen(r)'
    <2>1. UNCHANGED <<queue, held, shutdown>>
      BY <1>16 DEF FirstResumes, Resolution, ArmFlush, Associate, DownloaderEnds,
                   OtherSaves, vars
    <2> QED
      BY <1>1, <2>1
  <1> QED
    BY <1>4, <1>5, <1>6, <1>7, <1>8, <1>9, <1>10, <1>11, <1>12, <1>13, <1>14, <1>15,
       <1>16, RunningCases

\* A stage is told when the one before it ends, and does not forget it.
LEMMA ToldStep ==
    ASSUME Placed, ControlTypes, DataTypes, Unsent, Postures, Ending, Awake, Told,
           [Next]_vars, outcome' = "running"
    PROVE  Told'
  <1> SUFFICES ASSUME NEW s \in Stages \ {First}, mode'[s - 1] = "done"
               PROVE  EndSeen(s)'
    BY DEF Told
  <1> DEFINE r == s - 1
  <1>1. r \in Stages /\ r # EndStage /\ r + 1 = s
    BY Order
  <1>2. mode'[r] = "done"
    OBVIOUS
  <1> HIDE DEF r
  <1>3. mode[r] = "done" \/ Finish(r)
    BY <1>1, <1>2, DoneTells
  <1>4. CASE mode[r] = "done"
    <2>1. EndSeen(s)
      BY <1>4 DEF Told, r
    <2> QED
      BY <2>1, SeenKept
  <1>5. CASE Finish(r)
    <2>1. queue' = [queue EXCEPT ![s] = Append(@, End)]
      BY <1>1, <1>5 DEF Finish
    <2>2. End \in ToSet(queue'[s])
      BY <2>1, Fed
    <2> QED
      BY <2>2 DEF EndSeen
  <1> QED
    BY <1>3, <1>4, <1>5
-----------------------------------------------------------------------------
(***************************************************************************)
(* Who waits for the budget has asked for it.                              *)
(***************************************************************************)
\* The saver is not left waiting for a flush that was asked for.
LEMMA FlushKept ==
    ASSUME DataTypes, flush => listener # "armed", [Next]_vars, outcome' = "running"
    PROVE  flush' => listener' # "armed"
  <1> USE DEF batchVars, budgetVars
  <1>1. ASSUME flush' = flush,
               listener' = listener \/ listener' \in {"new", "off"}
        PROVE  flush' => listener' # "armed"
    BY <1>1
  <1>2. ASSUME NEW s \in Stages \ {EndStage}, Put(s) \/ Finish(s)
        PROVE  flush' = flush /\ (listener' = listener \/ listener' = "new")
    BY <1>2 DEF Put, Finish, Rearm
  <1>3. ASSUME NEW s \in Batching,
               Listen(s) \/ Collect(s) \/ HandOver(s) \/ AddContent(s) \/ RemoveContent(s)
        PROVE  flush' = flush /\ (listener' = listener \/ listener' = "off")
    BY <1>3 DEF Listen, Collect, HandOver, AddContent, RemoveContent
  <1>4. CASE ArmFlush(Saver)
    BY <1>4 DEF ArmFlush
  <1>5. CASE SaveArtifacts(Saver)
    BY <1>5 DEF SaveArtifacts, Release
  <1>6. ASSUME NEW d \in Items, AwaitBudget(Downloader, d)
        PROVE  flush' => listener' # "armed"
    BY <1>6 DEF AwaitBudget
  <1>7. ASSUME NEW d \in Items,
               \/ SkipDownload(Downloader, d) \/ Acquire(Downloader, d)
               \/ Downloaded(Downloader, d) \/ PutDownloaded(Downloader, d)
        PROVE  flush' = flush /\ listener' = listener
    BY <1>7 DEF SkipDownload, Acquire, Downloaded, PutDownloaded
  <1>8. ASSUME \/ FirstPut \/ Resolution \/ FirstResumes \/ QueryArtifacts(Querier)
               \/ SaveContent(ContentSaver) \/ Associate(Associator)
               \/ ResolveFuture(Resolver) \/ Drain(EndStage) \/ GetNext(Downloader)
               \/ DownloaderEnds(Downloader) \/ OtherSaves \/ UNCHANGED vars
        PROVE  flush' = flush /\ listener' = listener
    BY <1>8 DEF FirstPut, Resolution, FirstResumes, QueryArtifacts, SaveContent, Associate,
                ResolveFuture, Drain, GetNext, DownloaderEnds, OtherSaves, vars
  <1> QED
    BY <1>1, <1>2, <1>3, <1>4, <1>5, <1>6, <1>7, <1>8, RunningCases

\* The budget counts no share that nobody has.
LEMMA UsedKept ==
    ASSUME Placed, DataTypes, Loading, Budget, used <= Cardinality(acquired), [Next]_vars,
           outcome' = "running"
    PROVE  used' <= Cardinality(acquired')
  <1>1. ASSUME NEW d \in Items, Acquire(Downloader, d)
        PROVE  used' <= Cardinality(acquired')
    <2>1. used' = used + 1 /\ Cardinality(acquired') = Cardinality(acquired) + 1
      BY <1>1, AcquireFits
    <2>2. used \in Nat /\ Cardinality(acquired) \in Nat
      BY Counted, FS_CardinalityType DEF DataTypes
    <2> QED
      BY <2>1, <2>2
  <1>2. CASE SaveArtifacts(Saver)
    <2> DEFINE ds == ToSet(batch[Saver])
               shares == ds \cap acquired
    <2>1. acquired' = acquired \ ds /\ IsFiniteSet(ds)
      BY <1>2, SaveRelease, WholeBatch, Order
    <2>2. shares \in SUBSET acquired /\ acquired \ ds = acquired \ shares
      OBVIOUS
    <2>3. used' = NonNegative(used - Cardinality(ds)) /\ used \in Nat
      BY <1>2 DEF SaveArtifacts, Release, DataTypes
    <2>4. Cardinality(shares) <= Cardinality(ds) /\ Cardinality(ds) \in Nat
      BY <2>1, FS_Subset, FS_CardinalityType
    <2> HIDE DEF ds, shares
    <2>5. /\ Cardinality(acquired \ shares) = Cardinality(acquired) - Cardinality(shares)
          /\ Cardinality(acquired) \in Nat /\ Cardinality(shares) \in Nat
      BY <2>2, PaidBack
    <2>6. Cardinality(acquired \ shares) \in Nat
      BY Counted, FS_CardinalityType DEF DataTypes
    <2>7. Cardinality(acquired') = Cardinality(acquired \ shares)
      BY <2>1, <2>2
    <2> QED
      BY <2>3, <2>4, <2>5, <2>6, <2>7 DEF NonNegative
  <1>3. CASE UNCHANGED <<used, acquired>>
    BY <1>3
  <1>4. outcome = "running"
    BY Runs
  <1>5. ~Cancel(Downloader) /\ \A d \in Items : ~DownloadFails(Downloader, d)
    BY <1>4 DEF Cancel, DownloadFails
  <1> QED
    BY <1>1, <1>2, <1>3, <1>5, BudgetChanges

\* The steps that change whether the downloader waits for an item.
LEMMA GettingChanges ==
    ASSUME ControlTypes, [Next]_vars, outcome' = "running"
    PROVE  \/ getting' = getting /\ shutdown'[Downloader] = shutdown[Downloader]
           \/ GetNext(Downloader) \/ \E d \in Items : PutDownloaded(Downloader, d)
  <1> USE DEF batchVars, downloadVars
  <1>0. Downloader \in Stages /\ Downloader \notin Batching /\ Batching \subseteq Stages
    BY Order, Batchers
  <1>1. ASSUME NEW s \in Stages \ {EndStage}, Put(s) \/ Finish(s)
        PROVE  UNCHANGED <<getting, shutdown>>
    BY <1>1 DEF Put, Finish
  <1>2. ASSUME NEW s \in Batching, Listen(s) \/ AddContent(s) \/ RemoveContent(s)
        PROVE  UNCHANGED <<getting, shutdown>>
    BY <1>2 DEF Listen, AddContent, RemoveContent
  <1>3. ASSUME NEW s \in Batching, Collect(s)
        PROVE  getting' = getting /\ shutdown'[Downloader] = shutdown[Downloader]
    <2>1. /\ getting' = getting
          /\ \E ends : shutdown' = [shutdown EXCEPT ![s] = ends]
      BY <1>3 DEF Collect
    <2> QED
      BY <1>0, <2>1 DEF ControlTypes
  <1>4. ASSUME \/ \E s \in Batching \ {Querier, Saver, ContentSaver, Associator} : HandOver(s)
               \/ QueryArtifacts(Querier) \/ SaveArtifacts(Saver) \/ SaveContent(ContentSaver)
        PROVE  UNCHANGED <<getting, shutdown>>
    BY <1>4, HandsBatch DEF Hands
  <1>5. ASSUME NEW d \in Items,
               \/ SkipDownload(Downloader, d) \/ Acquire(Downloader, d)
               \/ AwaitBudget(Downloader, d) \/ Downloaded(Downloader, d)
        PROVE  UNCHANGED <<getting, shutdown>>
    BY <1>5 DEF SkipDownload, Acquire, AwaitBudget, Downloaded
  <1>6. ASSUME \/ FirstPut \/ Resolution \/ FirstResumes \/ ArmFlush(Saver)
               \/ Associate(Associator) \/ ResolveFuture(Resolver) \/ Drain(EndStage)
               \/ DownloaderEnds(Downloader) \/ OtherSaves \/ UNCHANGED vars
        PROVE  UNCHANGED <<getting, shutdown>>
    BY <1>6 DEF FirstPut, Resolution, FirstResumes, ArmFlush, Associate, ResolveFuture,
                Drain, DownloaderEnds, OtherSaves, vars
  <1> QED
    BY <1>1, <1>2, <1>3, <1>4, <1>5, <1>6, RunningCases
\* When the downloader stops to take items, a task is left or the end has come.
LEMMA GettingKept ==
    ASSUME Placed, ControlTypes, DataTypes, Asking, [Next]_vars, outcome' = "running"
    PROVE  /\ getting' \/ shutdown'[Downloader] \/ Pending' # {}
           /\ shutdown'[Downloader] => ~getting'
  <1>0. /\ Downloader \in Stages /\ handler \in [Items -> Handlers]
        /\ shutdown \in [Stages -> BOOLEAN]
        /\ queue \in [Stages -> Seq(Items \cup {End})]
    BY Order DEF Placed, CarrierTypes, ControlTypes
  <1>1. CASE GetNext(Downloader)
    <2>1. getting /\ queue[Downloader] # <<>> /\ ~shutdown[Downloader]
      BY <1>1 DEF GetNext, Asking
    <2>2. CASE Head(queue[Downloader]) = End
      <3>1. getting' = FALSE /\ shutdown' = [shutdown EXCEPT ![Downloader] = TRUE]
        BY <1>1, <2>2 DEF GetNext
      <3> QED
        BY <1>0, <3>1
    <2>3. CASE Head(queue[Downloader]) # End
      <3>1. Head(queue[Downloader]) \in Items
        BY <1>0, <2>1, <2>3, Taken1
      <3>2. /\ handler' = [handler EXCEPT ![Head(queue[Downloader])] = "try"]
            /\ shutdown' = shutdown
        BY <1>1, <2>3 DEF GetNext
      <3>3. Head(queue[Downloader]) \in Pending'
        BY <1>0, <3>1, <3>2 DEF Pending
      <3> QED
        BY <2>1, <3>2, <3>3
    <2> QED
      BY <2>2, <2>3
  <1>2. ASSUME NEW d \in Items, PutDownloaded(Downloader, d)
        PROVE  /\ getting' \/ shutdown'[Downloader] \/ Pending' # {}
               /\ shutdown'[Downloader] => ~getting'
    <2>1. /\ shutdown' = shutdown /\ handler' = [handler EXCEPT ![d] = "done"]
          /\ getting' = (\/ getting
                         \/ ~shutdown[Downloader] /\ Cardinality(Pending) - 1 < MaxConcurrent)
          /\ handler[d] = "put"
      BY <1>2 DEF PutDownloaded, batchVars
    <2>2. d \in Pending /\ Pending' = Pending \ {d}
      BY <1>0, <2>1 DEF Pending
    <2>3. Pending \subseteq {d} => Cardinality(Pending) = 1
      BY <2>2, FS_Singleton
    <2>4. Pending \subseteq {d} => Cardinality(Pending) - 1 < MaxConcurrent
      BY <2>3, StagesAssumption
    <2> QED
      BY <2>1, <2>2, <2>4 DEF Asking
  <1>3. ASSUME getting' = getting, shutdown'[Downloader] = shutdown[Downloader],
               ~\E d \in Items : PutDownloaded(Downloader, d)
        PROVE  /\ getting' \/ shutdown'[Downloader] \/ Pending' # {}
               /\ shutdown'[Downloader] => ~getting'
    <2>1. CASE handler' = handler
      BY <1>3, <2>1 DEF Asking, Pending
    <2>2. CASE SaveArtifacts(Saver)
      BY <1>3, <2>2, SaveRelease DEF Asking
    <2>3. ASSUME NEW d \in Items,
                 \/ SkipDownload(Downloader, d) \/ Acquire(Downloader, d)
                 \/ AwaitBudget(Downloader, d) \/ Downloaded(Downloader, d)
          PROVE  d \in Pending'
      <3>1. \E h \in {"put", "load", "blocked"} : handler' = [handler EXCEPT ![d] = h]
        BY <2>3 DEF SkipDownload, Acquire, AwaitBudget, Downloaded
      <3> QED
        BY <1>0, <3>1 DEF Pending
    <2>4. CASE GetNext(Downloader)
      BY <1>1, <2>4
    <2>5. CASE QueryArtifacts(Querier)
      BY <2>1, <2>5 DEF QueryArtifacts
    <2>6. outcome = "running"
      BY Runs
    <2>7. ~Cancel(Downloader) /\ \A d \in Items : ~DownloadFails(Downloader, d)
      BY <2>6 DEF Cancel, DownloadFails
    <2>8. shutdown'[Downloader] => ~getting'
      BY <1>3 DEF Asking
    <2> QED
      BY <1>3, <2>1, <2>2, <2>3, <2>4, <2>5, <2>7, <2>8, LoadChanges
  <1> QED
    BY <1>1, <1>2, <1>3, GettingChanges

\* A task waits for the budget only while shares are taken.
LEMMA BlockedKept ==
    ASSUME Placed, DataTypes, [Next]_vars, outcome' = "running",
           \A d \in Items : handler[d] = "blocked" => flush /\ used # 0
    PROVE  \A d \in Items : handler'[d] = "blocked" => flush' /\ used' # 0
  <1> SUFFICES ASSUME NEW d \in Items, handler'[d] = "blocked"
               PROVE  flush' /\ used' # 0
    OBVIOUS
  <1> USE DEF budgetVars
  <1>0. handler \in [Items -> Handlers] /\ used \in Nat
    BY DEF Placed, CarrierTypes, DataTypes
  <1>1. ASSUME flush' = flush, used' = used, handler'[d] = handler[d]
        PROVE  flush' /\ used' # 0
    BY <1>1
  <1>2. CASE UNCHANGED <<artifact, handler, budgetVars>>
    BY <1>2
  <1>3. CASE QueryArtifacts(Querier)
    BY <1>1, <1>3 DEF QueryArtifacts
  <1>4. CASE SaveArtifacts(Saver)
    BY <1>4, SaveRelease
  <1>5. CASE GetNext(Downloader)
    <2>1. /\ UNCHANGED <<flush, used>>
          /\ handler' = handler \/ \E e : handler' = [handler EXCEPT ![e] = "try"]
      BY <1>5 DEF GetNext
    <2>2. handler'[d] = handler[d]
      BY <1>0, <2>1
    <2> QED
      BY <1>1, <2>1, <2>2
  <1>6. ASSUME NEW e \in Items,
               \/ SkipDownload(Downloader, e) \/ Downloaded(Downloader, e)
               \/ PutDownloaded(Downloader, e) \/ Acquire(Downloader, e)
        PROVE  flush' /\ used' # 0
    <2>1. /\ flush' = flush /\ used' \in {used, used + 1}
          /\ \E h \in {"put", "done", "load"} : handler' = [handler EXCEPT ![e] = h]
      BY <1>6 DEF SkipDownload, Downloaded, PutDownloaded, Acquire
    <2>2. handler'[d] = handler[d]
      BY <1>0, <2>1
    <2> QED
      BY <1>0, <2>1, <2>2
  <1>7. ASSUME NEW e \in Items, AwaitBudget(Downloader, e)
        PROVE  flush' /\ used' # 0
    BY <1>7 DEF AwaitBudget, Affordable
  <1>8. outcome = "running"
    BY Runs
  <1>9. ~Cancel(Downloader) /\ \A e \in Items : ~DownloadFails(Downloader, e)
    BY <1>8 DEF Cancel, DownloadFails
  <1> QED
    BY <1>2, <1>3, <1>4, <1>5, <1>6, <1>7, <1>9, LoadChanges

\* Whoever waits for the budget or stops to take items is woken by what is left.
LEMMA AskingStep ==
    ASSUME Placed, ControlTypes, DataTypes, Loading, Budget, Asking, [Next]_vars,
           outcome' = "running"
    PROVE  Asking'
  <1>1. flush' => listener' # "armed"
    BY FlushKept DEF Asking
  <1>2. \A d \in Items : handler'[d] = "blocked" => flush' /\ used' # 0
    BY BlockedKept DEF Asking
  <1>3. /\ getting' \/ shutdown'[Downloader] \/ Pending' # {}
        /\ shutdown'[Downloader] => ~getting'
    BY GettingKept
  <1>4. used' <= Cardinality(acquired')
    BY UsedKept DEF Asking
  <1> QED
    BY <1>1, <1>2, <1>3, <1>4 DEF Asking, Downloader
-----------------------------------------------------------------------------
(***************************************************************************)
(* Who is waited for is ahead of the stage that ends the waiting.          *)
(***************************************************************************)
\* What is before a stage stays before it until that stage hands it on.
LEMMA StaysAhead ==
    ASSUME Placed, Passage, Departure, outcome' = "running", NEW k \in {Saver, Resolver},
           NEW d \in Items, Upto(d, k), ~Handed(d, k)
    PROVE  \E m \in Depths : m <= k /\ At(d, m)'
  <1>0. /\ k \in Int /\ 2 <= k /\ k < Associator /\ k < EndStage /\ Depths \subseteq Int
        /\ {Associator, EndStage} \subseteq Depths /\ Associator \in Stages
    BY Order DEF Depths
  <1>1. PICK n \in Depths : n <= k /\ At(d, n)
    BY DEF Upto
  <1>2. \A m \in Depths : At(d, m) => m = n
    BY <1>1 DEF Placed, Alone, At
  <1>3. ~Leaves(d)
    <2>1. n # EndStage /\ n # Associator
      BY <1>0, <1>1
    <2>2. ~At(d, EndStage) /\ ~At(d, Associator)
      BY <1>0, <1>2, <2>1, Zenon
    <2>3. d \notin ToSet(batch[Associator])
      BY <1>0, <2>2, InBatch
    <2> QED
      BY <2>2, <2>3 DEF Leaves
  <1>4. PICK m \in Depths : At(d, m)'
    BY <1>1, <1>3 DEF Departure, Somewhere, Depths, EndStage
  <1>5. CASE At(d, m)
    <2>1. m <= k
      BY <1>1, <1>2, <1>5
    <2> QED
      BY <1>4, <2>1
  <1>6. CASE m = 2
    BY <1>0, <1>4, <1>6
  <1>7. CASE Passed(d, m)
    <2>1. /\ m - 1 \in Stages /\ At(d, m - 1) /\ Handed(d, m - 1)
      BY <1>7 DEF Passed
    <2>2. m - 1 \in Depths
      BY <2>1, Order DEF Depths
    <2>3. m - 1 = n
      BY <1>2, <2>1, <2>2
    <2>4. m - 1 # k
      BY <2>1
    <2>5. m <= k
      BY <1>0, <1>1, <2>3, <2>4
    <2> QED
      BY <1>4, <2>5
  <1> QED
    BY <1>4, <1>5, <1>6, <1>7 DEF Passage

\* A future that has its result keeps it.
LEMMA ResolvedStays ==
    ASSUME DataTypes, [Next]_vars, NEW d \in Items, future[d] = "resolved"
    PROVE  future'[d] = "resolved"
  <1>0. future \in [Items -> {"none", "awaited", "resolved"}]
    BY DEF DataTypes
  <1>1. CASE future' = future
    BY <1>1
  <1>2. CASE Resolution
    <2>1. /\ future' = [future EXCEPT ![Script[pos][2]] = "awaited"]
          /\ future[Script[pos][2]] = "none"
      BY <1>2 DEF Resolution
    <2> QED
      BY <1>0, <2>1
  <1>3. CASE ResolveFuture(Resolver)
    <2>1. \/ future' = future
          \/ \E e : future' = [future EXCEPT ![e] = "resolved"]
      BY <1>3 DEF ResolveFuture
    <2> QED
      BY <1>0, <2>1
  <1> QED
    BY <1>1, <1>2, <1>3, FutureChanges

\* A share of the budget is given back when its item passes the saver, a future has
\* its result when its item passes the resolver.
LEMMA AheadStep ==
    ASSUME Placed, ControlTypes, DataTypes, Unsent, Passage, Departure, Growth, Ahead,
           [Next]_vars, outcome' = "running"
    PROVE  Ahead'
  <1>0. /\ Depths \subseteq Int /\ {Downloader, Saver, Resolver} \subseteq Int
        /\ Downloader <= Saver /\ 2 <= Resolver /\ Resolver \in Stages
        /\ Sent \subseteq Items /\ acquired \subseteq Items /\ Sent' \subseteq Items
    BY Order DEF Depths, Sent, DataTypes
  <1>1. ASSUME NEW d \in acquired'
        PROVE  \E m \in Depths : m <= Saver /\ At(d, m)'
    <2>1. CASE d \in acquired
      <3>1. ~Handed(d, Saver)
        <4>1. SaveArtifacts(Saver) => acquired' = acquired \ ToSet(batch[Saver])
          BY SaveRelease
        <4> QED
          BY <1>1, <4>1 DEF Handed
      <3> QED
        BY <1>0, <2>1, <3>1, StaysAhead DEF Ahead
    <2>2. CASE d \notin acquired
      <3>1. d \in Items /\ Acquire(Downloader, d)
        <4>1. outcome = "running"
          BY Runs
        <4>2. ~Cancel(Downloader) /\ \A e \in Items : ~DownloadFails(Downloader, e)
          BY <4>1 DEF Cancel, DownloadFails
        <4>3. SaveArtifacts(Saver) => acquired' = acquired \ ToSet(batch[Saver])
          BY SaveRelease
        <4>4. \A e \in Items : Acquire(Downloader, e) => acquired' = acquired \cup {e}
          BY DEF Acquire
        <4> QED
          BY <1>1, <2>2, <4>2, <4>3, <4>4, BudgetChanges
      <3>2. /\ UNCHANGED <<queue, held, batch, out>> /\ d \in Pending
            /\ handler' = [handler EXCEPT ![d] = "load"]
        BY <3>1 DEF Acquire, flowVars, batchVars, Pending
      <3>3. Steady
        BY <3>1, <3>2, TaskStep
      <3>4. At(d, Downloader) /\ Downloader \in Depths
        BY <3>2, InTask
      <3>5. At(d, Downloader)'
        BY <3>1, <3>3, <3>4, SameDepth DEF Steady, AtStill
      <3> QED
        BY <1>0, <3>4, <3>5
    <2> QED
      BY <2>1, <2>2
  <1>2. ASSUME NEW d \in Sent', future'[d] # "resolved"
        PROVE  \E m \in Depths : m <= Resolver /\ At(d, m)'
    <2>1. CASE d \in Sent
      <3>1. future[d] # "resolved" /\ d \in Items
        BY <1>0, <1>2, <2>1, ResolvedStays
      <3>2. ~Handed(d, Resolver)
        <4> SUFFICES ASSUME ResolveFuture(Resolver), d = Head(queue[Resolver])
                     PROVE  FALSE
          BY DEF Handed
        <4>1. d # End
          BY <3>1, StagesAssumption
        <4>2. future' = [future EXCEPT ![d] = "resolved"]
          BY <4>1 DEF ResolveFuture
        <4> QED
          BY <1>2, <3>1, <4>2 DEF DataTypes
      <3> QED
        BY <2>1, <3>1, <3>2, StaysAhead DEF Ahead
    <2>2. CASE d \notin Sent
      <3>1. PICK m \in Depths : At(d, m)'
        BY <1>2, <2>2 DEF Growth, Somewhere, Depths, EndStage
      <3>2. d \in Items /\ ~Somewhere(d)
        BY <1>0, <1>2, <2>2 DEF Unsent
      <3>3. ~At(d, m)
        BY <3>2 DEF Somewhere
      <3>4. ~Passed(d, m)
        <4>1. m - 1 \in Stages => m - 1 \in Depths
          BY Order DEF Depths
        <4> QED
          BY <3>2, <4>1 DEF Passed, Somewhere
      <3>5. m = 2
        BY <3>1, <3>2, <3>3, <3>4 DEF Passage
      <3> QED
        BY <1>0, <3>1, <3>5
    <2> QED
      BY <2>1, <2>2
  <1> QED
    BY <1>1, <1>2 DEF Ahead, Upto, Depths, EndStage, Saver, Resolver
-----------------------------------------------------------------------------
(***************************************************************************)
(* The vigil, kept.                                                        *)
(***************************************************************************)
\* At the start no stage has anything yet.
LEMMA StartsVigil ==
    ASSUME Init
    PROVE  Vigil
  <1>0. \A s \in Stages : /\ s # First => mode[s] = "wait"
                          /\ mode[s] = "wait" \/ (mode[s] = "finish" /\ Script = <<>>)
    BY DEF Init
  <1>1. Told
    <2>1. \A s \in Stages \ {First} : s - 1 \in Stages
      BY Order
    <2> QED
      BY <1>0, <2>1 DEF Told
  <1>2. Awake
    <2> SUFFICES ASSUME NEW s \in Stages PROVE AwakeAt(s)
      BY DEF Awake
    <2>1. /\ batch[s] = <<>> /\ ~shutdown[s] /\ ~noBlock[s] /\ listener = "new" /\ pos = 1
          /\ mode[s] \in {"wait", "finish"}
      BY <1>0 DEF Init
    <2>2. ToSet(<<>>) = {}
      BY Units
    <2>3. s = First /\ mode[s] = "wait" => 1 <= Len(Script)
      <3>1. Script # <<>> => 1 <= Len(Script)
        BY ScriptAssumption, EmptySeq, LenProperties
      <3>2. s = First /\ mode[s] = "wait" => Script # <<>>
        BY DEF Init
      <3> QED
        BY <3>1, <3>2
    <2> QED
      BY <2>1, <2>2, <2>3 DEF AwakeAt
  <1>3. Asking
    <2>1. /\ flush = FALSE /\ used = 0 /\ acquired = {} /\ getting = TRUE
          /\ shutdown[Downloader] = FALSE /\ \A d \in Items : handler[d] = "none"
      BY Order DEF Init
    <2>2. Cardinality({}) = 0
      BY FS_EmptySet
    <2> QED
      BY <2>1, <2>2 DEF Asking
  <1>4. Ahead
    BY StartsEmpty DEF Init, Ahead
  <1> QED
    BY <1>1, <1>2, <1>3, <1>4 DEF Vigil

\* Every step of a pipeline that goes on running keeps it.
LEMMA StepsVigil ==
    ASSUME StagesInv, Vigil, [Next]_vars
    PROVE  Vigil'
  <1> SUFFICES ASSUME outcome' = "running"
               PROVE  Told' /\ Awake' /\ Asking' /\ Ahead'
    BY DEF Vigil
  <1>0. /\ Placed /\ ControlTypes /\ DataTypes /\ Unsent /\ Empties /\ Postures /\ Ending
        /\ Loading /\ Budget
    BY DEF StagesInv, Placed
  <1>1. outcome = "running"
    BY Runs
  <1>2. Told /\ Awake /\ Asking /\ Ahead
    BY <1>1 DEF Vigil
  <1>3. Passage /\ Departure /\ Growth
    BY <1>0, Steps DEF Placing, Progress
  <1>4. Told'
    BY <1>0, <1>2, ToldStep
  <1>5. Awake'
    BY <1>0, <1>2, AwakeStep
  <1>6. Asking'
    BY <1>0, <1>2, AskingStep
  <1>7. Ahead'
    BY <1>0, <1>2, <1>3, AheadStep
  <1> QED
    BY <1>4, <1>5, <1>6, <1>7
-----------------------------------------------------------------------------
(***************************************************************************)
(* A pipeline in which nothing can happen, and why there is none.          *)
(***************************************************************************)
\* Among some stages there is a first one and a last one.
LEMMA FirstAndLast ==
    ASSUME NEW S \in SUBSET Stages, S # {}
    PROVE  /\ \E v \in S : \A u \in S : v <= u
           /\ \E v \in S : \A u \in S : u <= v
  <1>1. ASSUME NEW T \in SUBSET Nat, T # {}
        PROVE  \E v \in T : \A u \in T : v <= u
    <2>1. \E v \in T : \A u \in T : ~(<<u, v>> \in OpToRel(<, Nat))
      BY <1>1, NatLessThanWellFounded, WFMin, Zenon
    <2>2. PICK v \in T : \A u \in T : ~(<<u, v>> \in OpToRel(<, Nat))
      BY <2>1, Zenon
    <2>3. ASSUME NEW u \in T, u < v
          PROVE  FALSE
      <3>1. <<u, v>> \in OpToRel(<, Nat)
        BY <2>3 DEF OpToRel
      <3> QED
        BY <2>2, <3>1, Zenon
    <2> QED
      BY <2>3
  <1>2. Stages = 1 .. EndStage /\ EndStage \in Nat
    BY Order
  <1>3. \E v \in S : \A u \in S : v <= u
    BY <1>1, <1>2
  <1>4. \E v \in S : \A u \in S : u <= v
    <2> DEFINE T == {EndStage - v : v \in S}
    <2>1. T \in SUBSET Nat /\ T # {}
      <3>1. \A v \in S : EndStage - v \in Nat
        BY <1>2
      <3> QED
        BY <3>1
    <2>2. PICK t \in T : \A u \in T : t <= u
      BY <1>1, <2>1
    <2>3. PICK v \in S : t = EndStage - v
      BY <2>2
    <2>4. ASSUME NEW u \in S
          PROVE  u <= v
      <3>1. EndStage - v <= EndStage - u
        BY <2>2, <2>3
      <3> QED
        BY <1>2, <3>1
    <2> QED
      BY <2>4
  <1> QED
    BY <1>3, <1>4

Stuck == StagesInv /\ Vigil /\ outcome = "running" /\ ~MayStep

\* Stages wait, or have something for a stage that has not taken the last yet.
LEMMA StuckModes ==
    ASSUME Stuck, NEW s \in Stages
    PROVE  /\ mode[s] \in {"wait", "put", "finish", "done"}
           /\ mode[s] \in {"put", "finish"} => s + 1 \in Stages /\ queue[s + 1] # <<>>
           /\ mode[s] # "done" => Alive(s)
  <1>0. /\ outcome = "running" /\ ControlTypes /\ CarrierTypes /\ Postures /\ AwakeAt(s)
        /\ ~MayPass(s) /\ ~MayBatch(s)
    BY DEF Stuck, StagesInv, Vigil, Awake, MayStep
  <1>1. mode[s] \in Modes /\ mode[s] \notin {"failed", "cancelled"}
    BY <1>0 DEF ControlTypes, Postures
  <1>2. mode[s] # "done" => Alive(s)
    BY <1>0, <1>1 DEF Alive, Ended
  <1>3. Associator \in Batching
    BY Batchers
  <1>4. mode[s] \notin {"handle", "add", "tail"}
    BY <1>0, <1>2, <1>3 DEF Postures, MayBatch
  <1>5. mode[s] \in {"wait", "put", "finish", "done"}
    BY <1>1, <1>4 DEF Modes, Ended
  <1>6. ASSUME mode[s] \in {"put", "finish"}
        PROVE  s + 1 \in Stages /\ queue[s + 1] # <<>>
    <2>1. EndStage \notin Batching /\ EndStage # Resolver
      BY Order, Batchers
    <2>2. s # EndStage
      BY <1>0, <1>6, <2>1 DEF Postures
    <2>3. mode[s] = "put" => out[s] # <<>>
      BY <1>0 DEF AwakeAt
    <2>4. ~HasRoom(s + 1)
      BY <1>0, <1>2, <1>6, <2>2, <2>3 DEF MayPass
    <2>5. Len(<<>>) = 0 /\ QueueSize \in Nat \ {0}
      BY Units, StagesAssumption
    <2>6. queue[s + 1] # <<>>
      BY <2>4, <2>5 DEF HasRoom
    <2> QED
      BY <2>2, <2>6, Order
  <1> QED
    BY <1>2, <1>5, <1>6

\* A stage that reads batches has taken what there is, and asks for more.
LEMMA StuckBatch ==
    ASSUME Stuck, NEW s \in Batching
    PROVE  /\ mode[s] # "put" => queue[s] = <<>> /\ held[s] = Nothing
           /\ mode[s] = "wait" => ~thaw[s] /\ ~Flushed(s) /\ ~shutdown[s]
           /\ s = Saver /\ mode[s] # "done" => listener # "new"
  <1>0. s \in Stages /\ Ending /\ AwakeAt(s) /\ ~MayBatch(s)
    BY Batchers DEF Stuck, StagesInv, Vigil, Awake, MayStep
  <1>1. /\ mode[s] \in {"wait", "put", "finish", "done"}
        /\ mode[s] # "done" => Alive(s)
    BY <1>0, StuckModes
  <1>2. mode[s] = "wait" => ~thaw[s] /\ ~Flushed(s) /\ held[s] = Nothing /\ ~shutdown[s]
    BY <1>0, <1>1 DEF MayBatch, AwakeAt
  <1>3. mode[s] = "wait" => queue[s] = <<>>
    BY <1>0, <1>1, <1>2 DEF MayBatch
  <1>4. mode[s] \in {"finish", "done"} => queue[s] = <<>> /\ held[s] = Nothing
    BY <1>0 DEF Ending, Closed
  <1>5. s = Saver /\ mode[s] # "done" => listener # "new"
    BY <1>0, <1>1 DEF MayBatch
  <1> QED
    BY <1>1, <1>2, <1>3, <1>4, <1>5
\* The saver is next to the downloader, and no other stage reads items one by one.
LEMMA Assembly ==
    /\ Saver = Downloader + 1
    /\ Stages \subseteq Batching \cup {First, Downloader, Resolver, EndStage}
  <1>1. Of("save") = {Saver} /\ Of("resolve") = {Resolver}
    BY Order, Kinded DEF Of
  <1> QED
    BY <1>1, AssemblyAssumption DEF EndStage

\* While the saver and the stage behind it have an empty queue, no task is left.
LEMMA StuckTasks ==
    ASSUME Stuck, queue[Saver] = <<>>, queue[Saver + 1] = <<>>,
           mode[Downloader] = "wait"
    PROVE  Pending = {}
  <1>0. /\ outcome = "running" /\ CarrierTypes /\ DataTypes /\ Alone /\ Ending /\ Empties
        /\ Loading /\ Asking /\ AwakeAt(Saver) /\ ~MayDownload /\ Ahead
        /\ \A d \in acquired : Upto(d, Saver)
    BY Order DEF Stuck, StagesInv, Vigil, Awake, MayStep, Ahead
  <1>1. /\ Saver = Downloader + 1 /\ Saver \in Batching /\ {Saver, Downloader} \subseteq Stages
        /\ Downloader \notin Batching /\ Downloader # Resolver /\ Saver # Downloader
        /\ Depths \subseteq Int /\ Downloader \in Int
    BY Order, Batchers, Assembly DEF Depths
  <1>2. Len(<<>>) = 0 /\ QueueSize \in Nat \ {0}
    BY Units, StagesAssumption
  <1>3. Working(Downloader)
    BY <1>0, <1>1, Kinded DEF Working
  <1>4. HasRoom(Downloader + 1)
    BY <1>1, <1>2 DEF HasRoom
  <1>5. \A d \in Items : handler[d] \notin {"try", "load", "put"}
    BY <1>0, <1>3, <1>4 DEF MayDownload
  <1> SUFFICES ASSUME NEW d0 \in Pending
               PROVE  FALSE
    OBVIOUS
  <1>6. flush /\ used # 0
    <2>1. d0 \in Items /\ handler[d0] = "blocked"
      BY <1>5 DEF Pending
    <2> QED
      BY <1>0, <2>1 DEF Asking
  <1>7. acquired # {}
    <2>1. used \in Nat /\ used <= Cardinality(acquired)
      BY <1>0 DEF Asking, DataTypes
    <2>2. acquired = {} => Cardinality(acquired) = 0
      BY FS_EmptySet
    <2>3. Cardinality(acquired) # 0
      BY <1>6, <2>1
    <2> QED
      BY <2>2, <2>3
  <1>8. PICK e \in acquired : TRUE
    BY <1>7
  <1>9. PICK n \in Depths : n <= Saver /\ At(e, n)
    BY <1>0 DEF Upto
  <1>10. e \in Items /\ Borne(e, n) /\ handler[e] \notin {"none", "try", "blocked"}
    BY <1>0, <1>9 DEF Loading, Loads, DataTypes
  <1>11. handler[e] \in Handlers
    BY <1>0, <1>10 DEF CarrierTypes
  <1>12. n > Downloader
    BY <1>5, <1>10, <1>11 DEF Borne, Handlers
  <1>13. n = Saver
    BY <1>1, <1>9, <1>12
  <1>14. PICK c \in Carriers, s \in Stages : In(e, c, s) /\ Reach(c, s) = Saver
    BY <1>9, <1>13 DEF At
  <1>15. s = Saver /\ c \in {"queue", "held", "batch"}
    <2>1. ToSet(<<>>) = {} /\ Stages \subseteq Int
      BY Units, Order
    <2>2. c # "out"
      <3>1. ASSUME c = "out" PROVE s = Downloader
        BY <1>1, <1>14, <2>1, <3>1 DEF Reach
      <3>2. out[Downloader] = <<>>
        BY <1>0, <1>1 DEF Empties
      <3> QED
        BY <1>14, <2>1, <3>1, <3>2 DEF In
    <2>3. s = Saver
      BY <1>14, <2>2 DEF Reach
    <2> QED
      BY <1>1, <1>14, <2>2, <2>3 DEF In, Carriers
  <1>16. e \in ToSet(batch[Saver])
    <2>1. e # Nothing /\ ToSet(<<>>) = {}
      BY <1>10, StagesAssumption, Units
    <2>2. CASE c = "queue"
      BY <1>14, <1>15, <2>1, <2>2 DEF In
    <2>3. CASE c = "held"
      <3>1. held[Saver] # Nothing
        BY <1>14, <1>15, <2>1, <2>3 DEF In
      <3>2. mode[Saver] = "put"
        BY <1>1, <3>1, StuckBatch
      <3> QED
        BY <1>1, <3>2, StuckModes
    <2>4. CASE c = "batch"
      BY <1>14, <1>15, <2>4 DEF In
    <2> QED
      BY <1>15, <2>2, <2>3, <2>4
  <1>17. batch[Saver] # <<>>
    BY <1>16, Units
  <1>18. mode[Saver] = "wait"
    <2>1. mode[Saver] \in {"wait", "put", "finish", "done"}
      BY <1>1, StuckModes
    <2> QED
      BY <1>0, <1>1, <1>17, <2>1 DEF Empties, Closed
  <1>19. listener \notin {"off", "new", "armed"}
    <2>1. listener # "off"
      BY <1>0, <1>17, <1>18 DEF AwakeAt
    <2>2. listener # "new"
      BY <1>1, <1>18, StuckBatch
    <2>3. listener # "armed"
      BY <1>0, <1>6 DEF Asking
    <2> QED
      BY <2>1, <2>2, <2>3
  <1>20. listener # "fired"
    <2>1. ~Flushed(Saver) /\ Kinds[Saver] = "save"
      BY <1>1, <1>18, StuckBatch, Kinded
    <2> QED
      BY <2>1 DEF Flushed
  <1>21. listener \in {"new", "armed", "fired", "off"}
    BY DEF Stuck, StagesInv, ControlTypes
  <1> QED
    BY <1>19, <1>20, <1>21

\* Nothing is on its way: the last stage that has a queue could take from it.
LEMMA StuckQueues ==
    ASSUME Stuck
    PROVE  \A s \in Stages : queue[s] = <<>>
  <1> DEFINE S == {s \in Stages : queue[s] # <<>>}
  <1> SUFFICES ASSUME S # {}
               PROVE  FALSE
    OBVIOUS
  <1>1. PICK s \in S : \A u \in S : u <= s
    BY FirstAndLast
  <1>2. s \in Stages /\ queue[s] # <<>>
    BY <1>1
  <1>3. \A u \in Stages : u > s => queue[u] = <<>>
    BY <1>1, Order
  <1> HIDE DEF S
  <1>4. mode[s] \notin {"put", "finish"}
    <2>1. ASSUME mode[s] \in {"put", "finish"}
          PROVE  s + 1 \in Stages /\ queue[s + 1] # <<>> /\ s + 1 > s
      BY <1>2, <2>1, StuckModes, Order
    <2> QED
      BY <1>3, <2>1
  <1>5. /\ Ending /\ Empties /\ Asking /\ ~MayRead /\ ~MayDownload /\ outcome = "running"
    BY DEF Stuck, StagesInv, Vigil, MayStep
  <1>6. mode[s] = "wait" /\ ~shutdown[s] /\ Alive(s)
    <2>1. mode[s] # "done" /\ ~shutdown[s]
      BY <1>2, <1>5 DEF Ending, Closed
    <2> QED
      BY <1>2, <1>4, <2>1, StuckModes
  <1>7. s \notin Batching
    BY <1>2, <1>6, StuckBatch
  <1>8. s \notin {First, Resolver, EndStage}
    BY <1>2, <1>5, <1>6 DEF Empties, MayRead
  <1>9. s = Downloader
    BY <1>2, <1>7, <1>8, Assembly
  <1>10. ~getting
    BY <1>2, <1>5, <1>6, <1>9 DEF MayDownload
  <1>11. Pending # {}
    BY <1>5, <1>6, <1>9, <1>10 DEF Asking
  <1>12. queue[Saver] = <<>> /\ queue[Saver + 1] = <<>>
    <2>1. Saver \in Stages /\ Saver + 1 \in Stages /\ Saver > s /\ Saver + 1 > s
      BY <1>9, Order
    <2> QED
      BY <1>3, <2>1
  <1> QED
    BY <1>6, <1>9, <1>11, <1>12, StuckTasks
\* What has not left the pipeline is in a batch that a stage waits to fill.
LEMMA StuckItems ==
    ASSUME Stuck
    PROVE  /\ \A s \in Stages : mode[s] \in {"wait", "done"} /\ held[s] = Nothing
           /\ Pending = {}
           /\ \A d \in Items : Somewhere(d) =>
                 \E s \in Batching : d \in ToSet(batch[s]) /\ mode[s] = "wait"
  <1>0. Ending /\ Empties /\ Batching \subseteq Stages
    BY Batchers DEF Stuck, StagesInv
  <1>1. \A s \in Stages : queue[s] = <<>>
    BY StuckQueues
  <1>2. \A s \in Stages : mode[s] \in {"wait", "done"}
    BY <1>1, StuckModes
  <1>3. \A s \in Stages : held[s] = Nothing
    <2>1. ASSUME NEW s \in Batching
          PROVE  held[s] = Nothing
      <3>1. mode[s] # "put"
        BY <1>0, <1>2
      <3> QED
        BY <3>1, StuckBatch
    <2> QED
      BY <1>0, <2>1 DEF Empties
  <1>4. Pending = {}
    <2>1. /\ Downloader \in Stages /\ Saver \in Stages /\ Saver + 1 \in Stages
      BY Order
    <2>2. mode[Downloader] = "done" => Pending = {}
      BY <1>0 DEF Ending, Closed
    <2>3. mode[Downloader] = "wait" => Pending = {}
      BY <1>1, <2>1, StuckTasks
    <2> QED
      BY <1>2, <2>1, <2>2, <2>3
  <1>5. ASSUME NEW d \in Items, Somewhere(d)
        PROVE  \E s \in Batching : d \in ToSet(batch[s]) /\ mode[s] = "wait"
    <2>1. PICK c \in Carriers, s \in Stages : In(d, c, s)
      BY <1>5 DEF Somewhere, At
    <2>2. ToSet(<<>>) = {} /\ d # Nothing
      BY Units, StagesAssumption
    <2>3. out[s] = <<>>
      BY <1>0, <1>2 DEF Empties, Idling
    <2>4. d \in ToSet(batch[s])
      BY <1>1, <1>3, <1>4, <2>1, <2>2, <2>3 DEF In
    <2>5. batch[s] # <<>>
      BY <2>2, <2>4
    <2>6. s \in Batching /\ mode[s] # "done"
      BY <1>0, <2>5 DEF Empties, Closed
    <2> QED
      BY <1>2, <2>4, <2>6
  <1> QED
    BY <1>2, <1>3, <1>4, <1>5

\* The first stage is over: it waits for no item that it has put.
LEMMA StuckFirst ==
    ASSUME Stuck
    PROVE  mode[First] = "done"
  <1>0. /\ First \in Stages /\ 2 \in Stages /\ AwakeAt(First) /\ Ahead /\ Awake /\ ~MayFirst
        /\ ControlTypes /\ DataTypes
    BY Order DEF Stuck, StagesInv, Vigil, Awake, MayStep
  <1> SUFFICES ASSUME mode[First] # "done"
               PROVE  FALSE
    OBVIOUS
  <1>1. mode[First] = "wait" /\ Alive(First)
    BY <1>0, StuckItems, StuckModes
  <1>2. pos <= Len(Script) /\ pos \in Nat \ {0} /\ Len(Script) \in Nat
    <2>1. Len(Script) \in Nat
      BY ScriptAssumption, LenProperties
    <2> QED
      BY <1>0, <1>1, <2>1 DEF AwakeAt, ControlTypes
  <1>3. /\ pos \in DOMAIN Script /\ Script[pos][1] \in {"put", "await"}
        /\ Script[pos][2] \in Items
    <2>1. pos \in DOMAIN Script
      BY <1>2, ScriptAssumption, LenProperties
    <2>2. Script[pos] \in {"put", "await"} \X Items
      BY <2>1, ScriptAssumption, ElementOfSeq, <1>2
    <2> QED
      BY <2>1, <2>2
  <1> DEFINE d == Script[pos][2]
  <1>4. HasRoom(2)
    <2>1. Len(<<>>) = 0 /\ QueueSize \in Nat \ {0} /\ queue[2] = <<>>
      BY <1>0, Units, StagesAssumption, StuckQueues
    <2> QED
      BY <2>1 DEF HasRoom
  <1>5. Script[pos][1] = "await" /\ future[d] = "awaited"
    BY <1>0, <1>1, <1>2, <1>3, <1>4 DEF MayFirst
  <1>6. d \in Sent
    <2>1. \E j \in 1 .. pos - 1 : Script[j] = <<"put", d>>
      BY <1>3, <1>5, AssemblyAssumption
    <2> QED
      BY <1>3, <2>1 DEF Sent
  <1>7. Somewhere(d)
    <2>1. Upto(d, Resolver)
      BY <1>0, <1>5, <1>6 DEF Ahead
    <2> QED
      BY <2>1 DEF Upto, Somewhere
  <1>8. PICK s \in Batching : d \in ToSet(batch[s]) /\ mode[s] = "wait"
    BY <1>3, <1>7, StuckItems
  <1> HIDE DEF d
  <1>9. s \in Stages /\ AwakeAt(s)
    BY <1>0, Batchers DEF Awake
  <1>10. thaw[s]
    BY <1>5, <1>8, <1>9 DEF AwakeAt
  <1> QED
    BY <1>8, <1>10, StuckBatch

\* So no stage is left that waits: the first of them was told of the end.
LEMMA NoneStuck == ~Stuck
  <1> SUFFICES ASSUME Stuck
               PROVE  FALSE
    OBVIOUS
  <1>0. /\ outcome = "running" /\ Told /\ Awake /\ Asking /\ ~MayDownload /\ ~MayConclude
    BY DEF Stuck, Vigil, MayStep
  <1> DEFINE S == {s \in Stages : mode[s] # "done"}
  <1>1. S # {}
    BY <1>0 DEF MayConclude
  <1>2. PICK s \in S : \A u \in S : s <= u
    BY <1>1, FirstAndLast
  <1>3. s \in Stages /\ mode[s] = "wait" /\ s # First
    BY <1>2, StuckItems, StuckFirst
  <1>4. mode[s - 1] = "done"
    <2>1. s - 1 \in Stages /\ ~(s <= s - 1)
      BY <1>3, Order
    <2> QED
      BY <1>2, <2>1
  <1> HIDE DEF S
  <1>5. EndSeen(s)
    BY <1>0, <1>3, <1>4 DEF Told
  <1>6. shutdown[s]
    <2>1. queue[s] = <<>> /\ held[s] = Nothing
      BY <1>3, StuckQueues, StuckItems
    <2>2. ToSet(<<>>) = {} /\ Nothing # End
      BY Units, StagesAssumption
    <2> QED
      BY <1>3, <1>5, <2>1, <2>2 DEF EndSeen, Closed
  <1>7. s = Downloader
    <2>1. s \notin Batching
      BY <1>3, <1>6, StuckBatch
    <2> QED
      BY <1>0, <1>3, <1>6, <2>1 DEF Awake, AwakeAt
  <1>8. NothingPending(Downloader)
    BY <1>0, <1>6, <1>7, StuckItems DEF NothingPending, Asking
  <1>9. Alive(Downloader)
    BY <1>3, <1>7, StuckModes
  <1> QED
    BY <1>0, <1>3, <1>7, <1>8, <1>9 DEF MayDownload

(* From the start to the end something can happen: no stage waits for good  *)
(* for an item, for the budget, for a place in a queue or for the end of    *)
(* the stage before it.                                                     *)
THEOREM NeverStops == Spec => []NeverStuck
  <1>1. Init => StagesInv /\ Vigil
    BY StartsInv, StartsVigil
  <1>2. StagesInv /\ Vigil /\ [Next]_vars => StagesInv' /\ Vigil'
    BY StepsInv, StepsVigil
  <1>3. StagesInv /\ Vigil => NeverStuck
    <2>1. outcome = "failing" => MayStep
      BY DEF MayStep, MayConclude
    <2>2. StagesInv /\ Vigil /\ outcome = "running" => MayStep
      BY NoneStuck DEF Stuck
    <2> QED
      BY <2>1, <2>2 DEF NeverStuck
  <1> QED
    BY <1>1, <1>2, <1>3, PTL DEF Spec

=============================================================================
