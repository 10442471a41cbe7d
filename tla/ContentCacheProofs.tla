-------------------------- MODULE ContentCacheProofs --------------------------
(***************************************************************************)
(* What TLAPS proves of the cache of the content app, for every number of  *)
(* base paths, requests and changes: the types, the bound on how stale a   *)
(* response may be, and that an invalidation leaves nothing stale behind.  *)
(***************************************************************************)
EXTENDS ContentCache, TLAPS

\* The kinds whose hash is deleted after the commit, and those that announce.
Afterwards == {"update", "rename", "publish"}
Announced == {"delete", "unpublish", "version", "reclaim"}

Responses == [v : 0 .. MaxChanges, left : 0 .. TTL, late : BOOLEAN]

Handlers ==
    [pc : {"auth", "lookup", "handle", "fill", "expire"},
     path : Paths, bk : BasePaths, v : 0 .. MaxChanges, late : BOOLEAN,
     age : 0 .. MaxHandling, stale : {0}]

Waiting == [pc : {"idle"}, stale : 0 .. Horizon]

Shape ==
    /\ base \in BasePaths \cup {NoPath}
    /\ current \in 0 .. MaxChanges
    /\ since \in [0 .. MaxChanges -> 0 .. Horizon]
    /\ entry \in [BasePaths -> [Paths -> Responses \cup {None}]]
    /\ flag \in [BasePaths -> BOOLEAN]
    /\ expiry \in [BasePaths -> -1 .. TTL]
    /\ req \in [Requests -> Handlers \cup Waiting]
    /\ change \in Kinds \cup {Quiet}

\* Only what is not current has an age, and an announced change has room.
Numbered ==
    /\ \A v \in current .. MaxChanges : since[v] = 0
    /\ change \in Announced => current < MaxChanges

\* A hash that is not there has no expiry.
Expiries == \A b \in BasePaths : HashExists(b) \/ expiry[b] = -1

\* What a handler has read is no older than the time it has taken, and what is
\* cached no older than that and the part of its TTL that is over.
ReadsAged ==
    \A q \in Requests :
        /\ req[q].pc = "fill" => /\ req[q].v <= current
                                 /\ since[req[q].v] <= req[q].age
        /\ req[q].pc \in {"auth", "lookup", "handle"} => req[q].age = 0
EntriesAged ==
    \A b \in BasePaths, p \in Paths :
        entry[b][p] # None =>
            /\ entry[b][p].v <= current
            /\ entry[b][p].left > 0 =>
                 since[entry[b][p].v] + entry[b][p].left <= TTL + MaxHandling

\* What a response of the base path b shows is current, it was overtaken, or
\* a change since then was one that nobody invalidates after.
Excused(b, v, late) ==
    \/ v = current \/ late
    \/ \E w \in v .. current - 1 : <<b, w>> \in silent

ReadsExcused ==
    change \notin Afterwards =>
        \A q \in Requests : req[q].pc = "fill" /\ req[q].bk = base =>
            Excused(base, req[q].v, req[q].late)
EntriesExcused ==
    change \notin Afterwards =>
        \A p \in Paths :
            base # NoPath /\ entry[base][p] # None =>
                Excused(base, entry[base][p].v, entry[base][p].late)

CacheInv ==
    /\ Shape /\ Numbered /\ Expiries /\ ReadsAged /\ EntriesAged
    /\ ReadsExcused /\ EntriesExcused /\ StalenessIsBounded
-----------------------------------------------------------------------------
\* The empty cache, with nothing under way, satisfies the invariant.
LEMMA InitInv == Init => CacheInv
<1> SUFFICES ASSUME Init PROVE CacheInv
  OBVIOUS
<1> USE CacheAssumption
<1>1. Shape
  BY DEF Init, Shape, None, Idle, Waiting, Quiet, Horizon
<1>2. Numbered
  BY DEF Init, Numbered, Announced, Quiet
<1>3. Expiries
  BY DEF Init, Expiries
<1>4. ReadsAged /\ EntriesAged
  BY DEF Init, ReadsAged, EntriesAged, Idle
<1>5. ReadsExcused /\ EntriesExcused
  BY DEF Init, ReadsExcused, EntriesExcused, Idle
<1>6. StalenessIsBounded
  BY DEF Init, StalenessIsBounded, Idle
<1> QED
  BY <1>1, <1>2, <1>3, <1>4, <1>5, <1>6 DEF CacheInv

\* What a request may become, so that the invariant goes on to hold of it.
Sound(r) ==
    /\ r \in Handlers \cup Waiting
    /\ r.pc = "fill" =>
          /\ r.v <= current /\ since[r.v] <= r.age
          /\ change \notin Afterwards /\ r.bk = base =>
               Excused(base, r.v, r.late)
    /\ r.pc \in {"auth", "lookup", "handle"} => r.age = 0
    /\ TTL # 0 => r.stale <= TTL + MaxHandling

\* A step that only replaces one request by a sound one keeps what the
\* invariant says of requests: their state is that of their own coroutine.
LEMMA RequestsHold ==
    ASSUME CacheInv, NEW q \in Requests, NEW r, Sound(r),
           req' = [req EXCEPT ![q] = r],
           UNCHANGED <<base, current, since, change, silent>>
    PROVE  /\ req' \in [Requests -> Handlers \cup Waiting]
           /\ Numbered'
           /\ ReadsAged' /\ ReadsExcused' /\ StalenessIsBounded'
<1> req \in [Requests -> Handlers \cup Waiting]
  BY DEF CacheInv, Shape
<1>1. \A x \in Requests : req'[x] = IF x = q THEN r ELSE req[x]
  OBVIOUS
<1>2. req' \in [Requests -> Handlers \cup Waiting] /\ Numbered'
  BY DEF CacheInv, Numbered, Sound
<1>3. ReadsAged'
  BY <1>1 DEF CacheInv, ReadsAged, Sound
<1>4. ReadsExcused'
  BY <1>1 DEF CacheInv, ReadsExcused, Excused, Sound
<1>5. StalenessIsBounded'
  BY <1>1 DEF CacheInv, StalenessIsBounded, Sound
<1> QED
  BY <1>2, <1>3, <1>4, <1>5

\* A request that is answered, or dies, has nothing left to show.
LEMMA IdleIsSound == Sound(Idle)
BY CacheAssumption DEF Sound, Idle, Waiting, Horizon

\* A request that is not idle has a path and the base path it is cached at.
LEMMA NotIdle ==
    ASSUME CacheInv, NEW q \in Requests, req[q].pc # "idle"
    PROVE  req[q] \in Handlers
BY DEF CacheInv, Shape, Waiting

\* The fields of a handler, and of one that goes on.
LEMMA HandlerFields ==
    ASSUME NEW h \in Handlers
    PROVE  /\ h.path \in Paths /\ h.bk \in BasePaths /\ h.v \in 0 .. MaxChanges
           /\ h.late \in BOOLEAN /\ h.age \in 0 .. MaxHandling /\ h.stale = 0
           /\ h = [pc |-> h.pc, path |-> h.path, bk |-> h.bk, v |-> h.v,
                   late |-> h.late, age |-> h.age, stale |-> 0]
BY DEF Handlers

\* A handler that has read what is current shows it.
LEMMA HandlerReads ==
    ASSUME CacheInv, NEW h \in Handlers, h.age = 0, NEW r,
           r = [h EXCEPT !.pc = "fill", !.v = current]
    PROVE  Sound(r)
<1>1. current \in 0 .. MaxChanges /\ since[current] = 0
  BY CacheAssumption DEF CacheInv, Shape, Numbered
<1>2. r \in Handlers
  BY <1>1 DEF Handlers
<1>3. r.pc = "fill" /\ r.v = current /\ r.age = h.age
  BY DEF Handlers
<1>4. r.stale = 0
  BY DEF Handlers
<1> QED
  BY <1>1, <1>2, <1>3, <1>4, CacheAssumption DEF Sound, Excused

\* A handler that has set() what it read has no age any more.
LEMMA HandlerSets ==
    ASSUME CacheInv, NEW h \in Handlers, NEW r,
           r = [h EXCEPT !.pc = "expire", !.late = FALSE, !.age = 0]
    PROVE  Sound(r)
<1>1. r \in Handlers
  <2>1. 0 \in 0 .. MaxHandling
    BY CacheAssumption
  <2>2. [h EXCEPT !.pc = "expire"] \in Handlers
    BY DEF Handlers
  <2>3. [[h EXCEPT !.pc = "expire"] EXCEPT !.late = FALSE] \in Handlers
    BY <2>2 DEF Handlers
  <2>4. [[[h EXCEPT !.pc = "expire"] EXCEPT !.late = FALSE] EXCEPT !.age = 0]
          \in Handlers
    BY <2>1, <2>3 DEF Handlers
  <2> QED
    BY <2>4
<1>2. r.pc = "expire" /\ r.stale = 0
  BY DEF Handlers
<1> QED
  BY <1>1, <1>2, CacheAssumption DEF Sound

\* find_base_path_cached() only starts a request.
LEMMA FindStep ==
    ASSUME CacheInv, NEW q \in Requests, NEW p \in Paths, FindBasePath(q, p)
    PROVE  CacheInv'
<1> USE CacheAssumption
<1>1. PICK bk \in BasePaths :
        req' = [req EXCEPT ![q] =
          [pc |-> "auth", path |-> p, bk |-> bk, v |-> 0, late |-> FALSE,
           age |-> 0, stale |-> 0]]
  BY DEF FindBasePath
<1>2. UNCHANGED <<base, current, since, entry, flag, expiry, change, silent>>
  BY DEF FindBasePath
<1> DEFINE r == [pc |-> "auth", path |-> p, bk |-> bk, v |-> 0,
                 late |-> FALSE, age |-> 0, stale |-> 0]
<1>3. Sound(r)
  BY DEF Sound, Handlers
<1> HIDE DEF r
<1>4. /\ req' \in [Requests -> Handlers \cup Waiting]
      /\ Numbered' /\ ReadsAged' /\ ReadsExcused' /\ StalenessIsBounded'
  BY <1>1, <1>2, <1>3, RequestsHold DEF r
<1>5. Shape' /\ Expiries' /\ EntriesAged' /\ EntriesExcused'
  BY <1>2, <1>4 DEF CacheInv, Shape, Expiries, EntriesAged, EntriesExcused,
                    Excused, HashExists, Cached
<1> QED
  BY <1>4, <1>5 DEF CacheInv

\* auth_cached() changes the flag of the guard only.
LEMMA AuthorizeStep ==
    ASSUME CacheInv, NEW q \in Requests, Authorize(q)
    PROVE  CacheInv'
<1> USE CacheAssumption
<1>1. UNCHANGED <<base, current, since, entry, expiry, change, silent>>
  BY DEF Authorize
<1>2. req[q] \in Handlers /\ req[q].pc = "auth"
  BY NotIdle DEF Authorize
<1> DEFINE r == [req[q] EXCEPT !.pc = "lookup"]
<1>3. Sound(r)
  <2>1. req[q].age = 0
    BY <1>2 DEF CacheInv, ReadsAged
  <2>2. r = [pc |-> "lookup", path |-> req[q].path, bk |-> req[q].bk,
             v |-> req[q].v, late |-> req[q].late, age |-> 0, stale |-> 0]
    <3>1. PICK h \in Handlers : h = req[q] /\ h.pc = "auth" /\ h.age = 0
      BY <1>2, <2>1
    <3>2. [h EXCEPT !.pc = "lookup"] =
             [pc |-> "lookup", path |-> h.path, bk |-> h.bk, v |-> h.v,
              late |-> h.late, age |-> 0, stale |-> 0]
      BY <3>1 DEF Handlers
    <3> QED
      BY <3>1, <3>2
  <2> QED
    BY <1>2, <2>1, <2>2, HandlerFields DEF Sound, Handlers
<1>4. req' = [req EXCEPT ![q] = r] \/ req' = [req EXCEPT ![q] = Idle]
  BY DEF Authorize, Ends
<1> HIDE DEF r
<1>5. /\ req' \in [Requests -> Handlers \cup Waiting]
      /\ Numbered' /\ ReadsAged' /\ ReadsExcused' /\ StalenessIsBounded'
  BY <1>1, <1>3, <1>4, IdleIsSound, RequestsHold
<1>6. /\ flag' \in [BasePaths -> BOOLEAN]
      /\ \A b \in BasePaths : flag[b] => flag'[b]
  <2>1. req[q].bk \in BasePaths /\ flag \in [BasePaths -> BOOLEAN]
    BY <1>2 DEF Handlers, CacheInv, Shape
  <2>2. flag' = [flag EXCEPT ![req[q].bk] = TRUE] \/ flag' = flag
    BY DEF Authorize
  <2> QED
    BY <2>1, <2>2
<1>7. Shape' /\ Expiries' /\ EntriesAged' /\ EntriesExcused'
  BY <1>1, <1>5, <1>6 DEF CacheInv, Shape, Expiries, EntriesAged,
     EntriesExcused, Excused, HashExists, Cached
<1> QED
  BY <1>5, <1>7 DEF CacheInv

\* make_response() answers with what is valid, and deletes what is not.
LEMMA LookupStep ==
    ASSUME CacheInv, NEW q \in Requests, Lookup(q)
    PROVE  CacheInv'
<1> USE CacheAssumption
<1>1. UNCHANGED <<base, current, since, flag, change, silent>>
  BY DEF Lookup
<1>2. req[q] \in Handlers /\ req[q].pc = "lookup"
  BY NotIdle DEF Lookup
<1>3. req[q].bk \in BasePaths /\ req[q].path \in Paths
  BY <1>2 DEF Handlers
<1> DEFINE e == entry[req[q].bk][req[q].path]
<1>4. CASE Valid(e)
  <2> DEFINE r == [Idle EXCEPT !.stale = since[e.v]]
  <2>1. req' = [req EXCEPT ![q] = r] /\ UNCHANGED <<entry, expiry>>
    BY <1>4 DEF Lookup
  <2>2. e \in Responses
    BY <1>3, <1>4 DEF Valid, CacheInv, Shape
  <2>3. since[e.v] \in 0 .. Horizon
    BY <2>2 DEF Responses, CacheInv, Shape
  <2>4. TTL # 0 => since[e.v] <= TTL + MaxHandling
    <3>1. TTL # 0 => e.left > 0 /\ since[e.v] + e.left <= TTL + MaxHandling
      <4>1. e # None /\ (TTL # 0 => e.left > 0)
        BY <1>4 DEF Valid
      <4>2. e.left > 0 => since[e.v] + e.left <= TTL + MaxHandling
        <5> DEFINE b == req[q].bk
                   p == req[q].path
        <5>1. b \in BasePaths /\ p \in Paths /\ entry[b][p] # None
          BY <1>3, <4>1
        <5> HIDE DEF b, p
        <5>2. entry[b][p].left > 0 =>
                 since[entry[b][p].v] + entry[b][p].left <= TTL + MaxHandling
          <6>1. EntriesAged
            BY DEF CacheInv
          <6> QED
            BY <5>1, <6>1, Zenon DEF EntriesAged
        <5> QED
          BY <5>2 DEF b, p
      <4> HIDE DEF e
      <4> QED
        BY <4>1, <4>2
    <3> HIDE DEF e
    <3> QED
      BY <2>2, <2>3, <3>1 DEF Responses, Horizon
  <2>5. Sound(r)
    <3> HIDE DEF e
    <3>1. r \in Waiting /\ r.pc = "idle" /\ r.stale = since[e.v]
      BY <2>3 DEF Idle, Waiting
    <3> HIDE DEF r
    <3> QED
      BY <2>4, <3>1 DEF Sound
  <2> HIDE DEF r
  <2>6. /\ req' \in [Requests -> Handlers \cup Waiting]
        /\ Numbered' /\ ReadsAged' /\ ReadsExcused' /\ StalenessIsBounded'
    BY <1>1, <2>1, <2>5, RequestsHold
  <2>7. Shape' /\ Expiries' /\ EntriesAged' /\ EntriesExcused'
    BY <1>1, <2>1, <2>6 DEF CacheInv, Shape, Expiries, EntriesAged,
       EntriesExcused, Excused, HashExists, Cached
  <2> QED
    BY <2>6, <2>7 DEF CacheInv
<1>5. CASE ~Valid(e)
  <2> DEFINE r == [req[q] EXCEPT !.pc = "handle"]
             b == req[q].bk
             p == req[q].path
  <2>1. /\ req' = [req EXCEPT ![q] = r]
        /\ entry' = [entry EXCEPT ![b][p] = None]
        /\ expiry' = IF Cached(b) \subseteq {p} /\ ~flag[b]
                      THEN [expiry EXCEPT ![b] = -1] ELSE expiry
    BY <1>5 DEF Lookup
  <2>2. Sound(r)
    <3>1. req[q].age = 0
      BY <1>2 DEF CacheInv, ReadsAged
    <3>2. r = [pc |-> "handle", path |-> req[q].path, bk |-> req[q].bk,
               v |-> req[q].v, late |-> req[q].late, age |-> 0, stale |-> 0]
      <4>1. PICK h \in Handlers : h = req[q] /\ h.pc = "lookup" /\ h.age = 0
        BY <1>2, <3>1
      <4>2. [h EXCEPT !.pc = "handle"] =
               [pc |-> "handle", path |-> h.path, bk |-> h.bk, v |-> h.v,
                late |-> h.late, age |-> 0, stale |-> 0]
        BY <4>1 DEF Handlers
      <4> QED
        BY <4>1, <4>2
    <3> QED
      BY <1>2, <3>1, <3>2, HandlerFields DEF Sound, Handlers
  <2>3. b \in BasePaths /\ p \in Paths
    BY <1>3
  <2> HIDE DEF r, b, p
  <2>4. /\ req' \in [Requests -> Handlers \cup Waiting]
        /\ Numbered' /\ ReadsAged' /\ ReadsExcused' /\ StalenessIsBounded'
    BY <1>1, <2>1, <2>2, RequestsHold
  <2>5. \A x \in BasePaths, y \in Paths :
          entry'[x][y] = IF x = b /\ y = p THEN None ELSE entry[x][y]
    BY <2>1, <2>3 DEF CacheInv, Shape
  <2>6. expiry' \in [BasePaths -> -1 .. TTL]
    BY <2>1, <2>3 DEF CacheInv, Shape
  <2>7. entry' \in [BasePaths -> [Paths -> Responses \cup {None}]]
    BY <2>1, <2>3 DEF CacheInv, Shape
  <2>8. Shape'
    BY <1>1, <2>4, <2>6, <2>7 DEF CacheInv, Shape
  <2>9. Expiries'
    <3> SUFFICES ASSUME NEW x \in BasePaths, ~HashExists(x)'
                 PROVE  expiry'[x] = -1
      BY DEF Expiries
    <3>1. ~flag[x] /\ \A y \in Paths : entry'[x][y] = None
      BY <1>1 DEF HashExists, Cached
    <3>2. CASE x = b
      <4>1. Cached(b) \subseteq {p}
        BY <2>5, <3>1, <3>2 DEF Cached
      <4> QED
        BY <2>1, <2>3, <3>1, <3>2, <4>1 DEF CacheInv, Shape
    <3>3. CASE x # b
      <4>1. ~HashExists(x)
        BY <2>5, <3>1, <3>3 DEF HashExists, Cached
      <4>2. expiry[x] = -1
        BY <4>1 DEF CacheInv, Expiries
      <4> QED
        BY <2>1, <2>3, <3>3, <4>2 DEF CacheInv, Shape
    <3> QED
      BY <3>2, <3>3
  <2>10. EntriesAged' /\ EntriesExcused'
    <3>1. EntriesAged'
      BY <1>1, <2>5 DEF CacheInv, EntriesAged
    <3>2. EntriesExcused'
      BY <1>1, <2>5 DEF CacheInv, Shape, EntriesExcused, Excused
    <3> QED
      BY <3>1, <3>2
  <2> QED
    BY <2>4, <2>8, <2>9, <2>10 DEF CacheInv
<1> QED
  BY <1>4, <1>5

\* The handler reads what is served: what it shows is current and has no age.
LEMMA HandleStep ==
    ASSUME CacheInv, NEW q \in Requests, Handle(q)
    PROVE  CacheInv'
<1> USE CacheAssumption
<1>1. UNCHANGED <<base, current, since, entry, flag, expiry, change, silent>>
  BY DEF Handle
<1>2. req[q] \in Handlers /\ req[q].pc = "handle"
  BY NotIdle DEF Handle
<1> DEFINE r == [req[q] EXCEPT !.pc = "fill", !.v = current]
<1>3. Sound(r)
  <2>1. req[q].age = 0
    BY <1>2 DEF CacheInv, ReadsAged
  <2> QED
    BY <1>2, <2>1, HandlerReads, Zenon
<1>4. req' = [req EXCEPT ![q] = r] \/ req' = [req EXCEPT ![q] = Idle]
  BY DEF Handle, Ends
<1> HIDE DEF r
<1>5. /\ req' \in [Requests -> Handlers \cup Waiting]
      /\ Numbered' /\ ReadsAged' /\ ReadsExcused' /\ StalenessIsBounded'
  BY <1>1, <1>3, <1>4, IdleIsSound, RequestsHold
<1>6. Shape' /\ Expiries' /\ EntriesAged' /\ EntriesExcused'
  BY <1>1, <1>5 DEF CacheInv, Shape, Expiries, EntriesAged, EntriesExcused,
                    Excused, HashExists, Cached
<1> QED
  BY <1>5, <1>6 DEF CacheInv

\* set() caches what the handler has read, with the full TTL.
LEMMA FillStep ==
    ASSUME CacheInv, NEW q \in Requests, Fill(q)
    PROVE  CacheInv'
<1> USE CacheAssumption
<1> DEFINE b == req[q].bk
           p == req[q].path
           e == [v |-> req[q].v, left |-> TTL, late |-> req[q].late]
           r == [req[q] EXCEPT !.pc = "expire", !.late = FALSE, !.age = 0]
<1>1. /\ UNCHANGED <<base, current, since, flag, expiry, change, silent>>
      /\ entry' = [entry EXCEPT ![b][p] = e]
      /\ req' = [req EXCEPT ![q] = r]
  BY DEF Fill
<1>2. req[q] \in Handlers /\ req[q].pc = "fill"
  BY NotIdle DEF Fill
<1>3. b \in BasePaths /\ p \in Paths /\ e \in Responses /\ e # None
  BY <1>2 DEF Handlers, Responses, None
<1>4. Sound(r)
  BY <1>2, HandlerSets, Zenon
<1>5. e.v <= current /\ since[e.v] + e.left <= TTL + MaxHandling
  <2>1. /\ req[q].v <= current /\ since[req[q].v] <= req[q].age
        /\ req[q].age \in 0 .. MaxHandling /\ req[q].v \in 0 .. MaxChanges
    BY <1>2 DEF CacheInv, ReadsAged, Handlers
  <2>2. since[req[q].v] \in 0 .. Horizon
    BY <2>1 DEF CacheInv, Shape
  <2> QED
    BY <2>1, <2>2 DEF Horizon
<1>6. change \notin Afterwards /\ b = base => Excused(base, e.v, e.late)
  BY <1>2 DEF CacheInv, ReadsExcused
<1> HIDE DEF b, p, e, r
<1>7. \A x \in BasePaths, y \in Paths :
        entry'[x][y] = IF x = b /\ y = p THEN e ELSE entry[x][y]
  BY <1>1, <1>3 DEF CacheInv, Shape
<1>8. /\ req' \in [Requests -> Handlers \cup Waiting]
      /\ Numbered' /\ ReadsAged' /\ ReadsExcused' /\ StalenessIsBounded'
  BY <1>1, <1>4, RequestsHold
<1>9. entry' \in [BasePaths -> [Paths -> Responses \cup {None}]]
  BY <1>1, <1>3 DEF CacheInv, Shape
<1>10. Shape'
  BY <1>1, <1>8, <1>9 DEF CacheInv, Shape
<1>11. Expiries'
  BY <1>1, <1>3, <1>7 DEF CacheInv, Expiries, HashExists, Cached
<1>12. EntriesAged'
  BY <1>1, <1>5, <1>7 DEF CacheInv, EntriesAged
<1>13. EntriesExcused'
  <2> SUFFICES ASSUME change \notin Afterwards, NEW y \in Paths,
                      base # NoPath, entry'[base][y] # None
               PROVE  Excused(base, entry'[base][y].v, entry'[base][y].late)
    BY <1>1 DEF EntriesExcused, Excused
  <2>1. base \in BasePaths
    BY DEF CacheInv, Shape
  <2>2. CASE base = b /\ y = p
    BY <1>6, <1>7, <2>1, <2>2
  <2>3. CASE ~(base = b /\ y = p)
    <3>1. entry'[base][y] = entry[base][y]
      BY <1>7, <2>1, <2>3
    <3> QED
      BY <3>1 DEF CacheInv, EntriesExcused
  <2> QED
    BY <2>2, <2>3
<1> QED
  BY <1>8, <1>10, <1>11, <1>12, <1>13 DEF CacheInv

\* expire() changes the expiry of a hash that is there.
LEMMA ExpireStep ==
    ASSUME CacheInv, NEW q \in Requests, Expire(q)
    PROVE  CacheInv'
<1> USE CacheAssumption
<1>1. UNCHANGED <<base, current, since, entry, flag, change, silent>>
  BY DEF Expire
<1>2. req' = [req EXCEPT ![q] = Idle]
  BY DEF Expire, Ends
<1>3. /\ req' \in [Requests -> Handlers \cup Waiting]
      /\ Numbered' /\ ReadsAged' /\ ReadsExcused' /\ StalenessIsBounded'
  BY <1>1, <1>2, IdleIsSound, RequestsHold
<1> DEFINE b == req[q].bk
<1>4. b \in BasePaths
  BY NotIdle DEF Expire, Handlers
<1>5. \/ expiry' = expiry
      \/ HashExists(b) /\ expiry' = [expiry EXCEPT ![b] = TTL]
  BY DEF Expire
<1> HIDE DEF b
<1>6. /\ expiry' \in [BasePaths -> -1 .. TTL]
      /\ \A x \in BasePaths : HashExists(x) \/ expiry'[x] = -1
  <2>1. TTL \in -1 .. TTL /\ expiry \in [BasePaths -> -1 .. TTL]
    BY DEF CacheInv, Shape
  <2>2. \A x \in BasePaths : HashExists(x) \/ expiry[x] = -1
    BY DEF CacheInv, Expiries
  <2> QED
    BY <1>4, <1>5, <2>1, <2>2
<1>7. Shape' /\ Expiries' /\ EntriesAged' /\ EntriesExcused'
  BY <1>1, <1>3, <1>6 DEF CacheInv, Shape, Expiries, EntriesAged,
     EntriesExcused, Excused, HashExists, Cached
<1> QED
  BY <1>3, <1>7 DEF CacheInv

\* A request that breaks off changes nothing but itself.
LEMMA DiesStep ==
    ASSUME CacheInv, NEW q \in Requests, RequestDies(q)
    PROVE  CacheInv'
<1>1. UNCHANGED <<base, current, since, entry, flag, expiry, change, silent>>
  BY DEF RequestDies
<1>2. req' = [req EXCEPT ![q] = Idle]
  BY DEF RequestDies, Ends
<1>3. /\ req' \in [Requests -> Handlers \cup Waiting]
      /\ Numbered' /\ ReadsAged' /\ ReadsExcused' /\ StalenessIsBounded'
  BY <1>1, <1>2, IdleIsSound, RequestsHold
<1>4. Shape' /\ Expiries' /\ EntriesAged' /\ EntriesExcused'
  BY <1>1, <1>3 DEF CacheInv, Shape, Expiries, EntriesAged, EntriesExcused,
                    Excused, HashExists, Cached
<1> QED
  BY <1>3, <1>4 DEF CacheInv

\* Deleting the hash of the base path leaves nothing to excuse: the responses
\* are gone, and what handlers have read of it is late.
LEMMA ForgetHolds ==
    ASSUME CacheInv, Forget(base), UNCHANGED <<base, current, since, silent>>,
           change' \in Kinds \cup {Quiet},
           change' \in Announced => current < MaxChanges
    PROVE  CacheInv'
<1> USE CacheAssumption
<1>1. \A q \in Requests :
        \/ req'[q] = req[q] /\ ~(req[q].pc = "fill" /\ req[q].bk = base)
        \/ /\ req[q].pc = "fill" /\ req[q] \in Handlers
           /\ req'[q] = [req[q] EXCEPT !.late = TRUE]
  BY NotIdle DEF Forget
<1>2. \A h \in Handlers :
        /\ [h EXCEPT !.late = TRUE] \in Handlers
        /\ [h EXCEPT !.late = TRUE].pc = h.pc
        /\ [h EXCEPT !.late = TRUE].v = h.v
        /\ [h EXCEPT !.late = TRUE].age = h.age
        /\ [h EXCEPT !.late = TRUE].stale = h.stale
        /\ [h EXCEPT !.late = TRUE].late = TRUE
  BY DEF Handlers
<1>3. \A q \in Requests :
        /\ req'[q] \in Handlers \cup Waiting
        /\ req'[q].pc = req[q].pc
        /\ req'[q].pc = "fill" => req'[q].v = req[q].v
        /\ req'[q].pc # "idle" => req'[q].age = req[q].age
        /\ req'[q].stale = req[q].stale
        /\ req'[q].pc = "fill" /\ req'[q].bk = base => req'[q].late = TRUE
  <2> SUFFICES ASSUME NEW q \in Requests
               PROVE /\ req'[q] \in Handlers \cup Waiting
                     /\ req'[q].pc = req[q].pc
                     /\ req'[q].pc = "fill" => req'[q].v = req[q].v
                     /\ req'[q].pc # "idle" => req'[q].age = req[q].age
                     /\ req'[q].stale = req[q].stale
                     /\ req'[q].pc = "fill" /\ req'[q].bk = base
                          => req'[q].late = TRUE
    OBVIOUS
  <2>1. req[q] \in Handlers \cup Waiting
    BY DEF CacheInv, Shape
  <2>2. CASE req'[q] = req[q] /\ ~(req[q].pc = "fill" /\ req[q].bk = base)
    BY <2>1, <2>2
  <2>3. CASE /\ req[q].pc = "fill" /\ req[q] \in Handlers
             /\ req'[q] = [req[q] EXCEPT !.late = TRUE]
    BY <1>2, <2>3
  <2> QED
    BY <1>1, <2>2, <2>3
<1>4. req' \in [Requests -> Handlers \cup Waiting]
  BY <1>3 DEF Forget
<1>5. /\ \A b \in BasePaths, p \in Paths :
           entry'[b][p] = IF b = base THEN None ELSE entry[b][p]
      /\ \A b \in BasePaths : /\ flag'[b] = (b # base /\ flag[b])
                              /\ expiry'[b] = IF b = base THEN -1 ELSE expiry[b]
      /\ entry' \in [BasePaths -> [Paths -> Responses \cup {None}]]
      /\ flag' \in [BasePaths -> BOOLEAN] /\ expiry' \in [BasePaths -> -1 .. TTL]
  <2>1. /\ entry \in [BasePaths -> [Paths -> Responses \cup {None}]]
        /\ flag \in [BasePaths -> BOOLEAN] /\ expiry \in [BasePaths -> -1 .. TTL]
    BY DEF CacheInv, Shape
  <2>2. entry' \in [BasePaths -> [Paths -> Responses \cup {None}]]
    BY <2>1 DEF Forget
  <2>3. flag' \in [BasePaths -> BOOLEAN] /\ expiry' \in [BasePaths -> -1 .. TTL]
    BY <2>1 DEF Forget
  <2>4. \A b \in BasePaths, p \in Paths :
           entry'[b][p] = IF b = base THEN None ELSE entry[b][p]
    BY DEF Forget
  <2>5. \A b \in BasePaths : /\ flag'[b] = (b # base /\ flag[b])
                             /\ expiry'[b] = IF b = base THEN -1 ELSE expiry[b]
    BY DEF Forget
  <2> QED
    BY <2>2, <2>3, <2>4, <2>5
<1>6. Shape'
  BY <1>4, <1>5 DEF CacheInv, Shape
<1>7. Numbered'
  BY DEF CacheInv, Numbered
<1>8. Expiries'
  <2> SUFFICES ASSUME NEW b \in BasePaths, expiry'[b] # -1
               PROVE  HashExists(b)'
    BY DEF Expiries
  <2>0. /\ expiry'[b] = IF b = base THEN -1 ELSE expiry[b]
        /\ flag'[b] = (b # base /\ flag[b])
    BY <1>5
  <2>1. b # base /\ expiry[b] # -1
    BY <2>0
  <2>2. \A p \in Paths : entry'[b][p] = entry[b][p]
    BY <1>5, <2>1
  <2>3. HashExists(b)
    BY <2>1 DEF CacheInv, Expiries
  <2> QED
    <3>1. Cached(b)' = Cached(b)
      BY <2>2 DEF Cached
    <3>2. flag[b] => flag'[b]
      BY <2>0, <2>1, Zenon
    <3> QED
      BY <2>3, <3>1, <3>2 DEF HashExists
<1>9. ReadsAged' /\ StalenessIsBounded'
  BY <1>3 DEF CacheInv, ReadsAged, StalenessIsBounded
<1>10. EntriesAged'
  BY <1>5 DEF CacheInv, EntriesAged
<1>11. ReadsExcused'
  BY <1>3 DEF ReadsExcused, Excused
<1>12. EntriesExcused'
  BY <1>5 DEF CacheInv, Shape, EntriesExcused
<1> QED
  BY <1>6, <1>7, <1>8, <1>9, <1>10, <1>11, <1>12 DEF CacheInv

\* A change that is committed is one that is invalidated next, or nobody
\* invalidates after it: then what there is, is excused.
LEMMA ServeHolds ==
    ASSUME CacheInv, current < MaxChanges, base' \in BasePaths \cup {NoPath},
           current' = current + 1, UNCHANGED <<since, entry, flag, expiry, req>>,
           change' \in Kinds \cup {Quiet}, change' \notin Announced,
           \/ change' \in Afterwards
           \/ silent' = silent \cup {<<b, current>> : b \in BasePaths}
    PROVE  CacheInv'
<1> USE CacheAssumption
<1>1. current \in 0 .. MaxChanges /\ current' \in 0 .. MaxChanges
  BY DEF CacheInv, Shape
<1>2. Shape' /\ Expiries' /\ StalenessIsBounded'
  BY <1>1 DEF CacheInv, Shape, Expiries, HashExists, Cached, StalenessIsBounded
<1>3. Numbered'
  BY <1>1 DEF CacheInv, Numbered
<1>4. ReadsAged'
  <2> SUFFICES ASSUME NEW q \in Requests, req[q].pc = "fill"
               PROVE  req[q].v <= current'
    BY DEF CacheInv, ReadsAged
  <2>1. req[q].v \in 0 .. MaxChanges
    BY NotIdle, HandlerFields
  <2> QED
    BY <1>1, <2>1 DEF CacheInv, ReadsAged
<1>5. EntriesAged'
  <2> SUFFICES ASSUME NEW b \in BasePaths, NEW p \in Paths, entry[b][p] # None
               PROVE  entry[b][p].v <= current'
    BY DEF CacheInv, EntriesAged
  <2>1. entry[b][p].v \in 0 .. MaxChanges
    BY DEF CacheInv, Shape, Responses
  <2> QED
    BY <1>1, <2>1 DEF CacheInv, EntriesAged
<1>6. ASSUME NEW b \in BasePaths, NEW v \in 0 .. MaxChanges, NEW late,
             v <= current, change' \notin Afterwards
      PROVE  Excused(b, v, late)'
  <2>1. <<b, current>> \in silent'
    BY <1>6
  <2>2. current \in v .. current' - 1
    BY <1>1, <1>6
  <2> QED
    BY <2>1, <2>2 DEF Excused
<1>7. ReadsExcused'
  <2> SUFFICES ASSUME change' \notin Afterwards, NEW q \in Requests,
                      req[q].pc = "fill", req[q].bk = base'
               PROVE  Excused(base, req[q].v, req[q].late)'
    BY DEF ReadsExcused
  <2>1. req[q].v \in 0 .. MaxChanges /\ req[q].bk \in BasePaths
    BY NotIdle, HandlerFields
  <2>2. req[q].v <= current
    BY DEF CacheInv, ReadsAged
  <2> QED
    BY <1>6, <2>1, <2>2
<1>8. EntriesExcused'
  <2> SUFFICES ASSUME change' \notin Afterwards, NEW p \in Paths,
                      base' # NoPath, entry[base'][p] # None
               PROVE  Excused(base, entry[base][p].v, entry[base][p].late)'
    BY DEF EntriesExcused
  <2>1. base' \in BasePaths
    OBVIOUS
  <2>2. entry[base'][p].v \in 0 .. MaxChanges
    BY <2>1 DEF CacheInv, Shape, Responses
  <2>3. entry[base'][p].v <= current
    BY <2>1 DEF CacheInv, EntriesAged
  <2> QED
    BY <1>6, <2>1, <2>2, <2>3
<1> QED
  BY <1>2, <1>3, <1>4, <1>5, <1>7, <1>8 DEF CacheInv

\* Every change of what a distribution serves keeps the invariant.
LEMMA ChangeStep ==
    ASSUME CacheInv, Change
    PROVE  CacheInv'
<1> USE CacheAssumption
<1>1. base \in BasePaths \cup {NoPath} /\ current \in 0 .. MaxChanges
  BY DEF CacheInv, Shape
<1>2. CASE UpdateDistribution
  BY <1>1, <1>2, ServeHolds
     DEF UpdateDistribution, MayChange, Serve, Afterwards, Announced
<1>3. CASE Publish
  BY <1>1, <1>3, ServeHolds DEF Publish, MayChange, Serve, Afterwards, Announced
<1>4. ASSUME NEW new \in BasePaths, RenameDistribution(new)
      PROVE  CacheInv'
  BY <1>1, <1>4, ServeHolds
     DEF RenameDistribution, MayChange, Serve, Afterwards, Announced
<1>5. ASSUME NEW new \in BasePaths, CreateDistribution(new)
      PROVE  CacheInv'
  BY <1>1, <1>5, ServeHolds
     DEF CreateDistribution, MayChange, Serve, Announced, Quiet
<1>6. ASSUME NEW kind, Invalidates(kind)
      PROVE  CacheInv'
  BY <1>6, ForgetHolds DEF Invalidates, Announced, Quiet
<1>7. ASSUME NEW kind, Announces(kind)
      PROVE  CacheInv'
  BY <1>1, <1>7, ForgetHolds DEF Announces, MayChange
<1>8. ASSUME NEW kind \in Announced, NEW new \in BasePaths \cup {NoPath},
             Changes(kind, new)
      PROVE  CacheInv'
  <2>1. current < MaxChanges
    BY <1>8 DEF Changes, CacheInv, Numbered
  <2> QED
    BY <1>1, <1>8, <2>1, ServeHolds DEF Changes, Serve, Announced, Quiet
<1> QED
  BY <1>1, <1>2, <1>3, <1>4, <1>5, <1>6, <1>7, <1>8
     DEF Change, DeleteDistribution, DeletePublication, NewVersion, ReclaimSpace,
         Announced

\* Time passes for a response: it has one tick less, if it has any.
LEMMA LessFields ==
    ASSUME NEW e \in Responses \cup {None}
    PROVE  /\ Less(e) \in Responses \cup {None}
           /\ (Less(e) = None) <=> (e = None)
           /\ e # None => /\ Less(e).v = e.v /\ Less(e).late = e.late
                          /\ Less(e).left = IF e.left = 0 THEN 0 ELSE e.left - 1
<1> USE CacheAssumption
<1>1. CASE e = None \/ e.left = 0
  BY <1>1 DEF Less
<1>2. CASE e # None /\ e.left # 0
  <2>1. e \in Responses /\ e.left - 1 \in 0 .. TTL
    BY <1>2 DEF Responses
  <2>2. Less(e) = [e EXCEPT !.left = e.left - 1]
    BY <1>2 DEF Less
  <2>3. Less(e) \in Responses
    BY <2>1, <2>2 DEF Responses
  <2>4. /\ Less(e).v = e.v /\ Less(e).late = e.late
        /\ Less(e).left = e.left - 1
    BY <2>1, <2>2 DEF Responses
  <2>5. Less(e) # None
    BY <2>1, <2>4 DEF Responses, None
  <2> QED
    BY <1>2, <2>3, <2>4, <2>5
<1> QED
  BY <1>1, <1>2

\* A tick: what is not current gets older by one, while a handler under way
\* has taken one more and a response has one less left.
LEMMA TickStep ==
    ASSUME CacheInv, Tick
    PROVE  CacheInv'
<1> USE CacheAssumption
<1>1. UNCHANGED <<base, current, change, silent>>
  BY DEF Tick
<1>2. /\ current \in 0 .. MaxChanges /\ since \in [0 .. MaxChanges -> 0 .. Horizon]
      /\ entry \in [BasePaths -> [Paths -> Responses \cup {None}]]
      /\ flag \in [BasePaths -> BOOLEAN] /\ expiry \in [BasePaths -> -1 .. TTL]
      /\ req \in [Requests -> Handlers \cup Waiting]
  BY DEF CacheInv, Shape
<1>3. /\ since' \in [0 .. MaxChanges -> 0 .. Horizon]
      /\ \A v \in 0 .. MaxChanges : /\ v < current => since'[v] <= since[v] + 1
                                    /\ v >= current => since'[v] = since[v]
      /\ \A v \in 0 .. MaxChanges : /\ since[v] \in Nat /\ since'[v] \in Nat
                                    /\ since'[v] <= since[v] + 1
  <2>1. since' = [v \in 0 .. MaxChanges |->
           IF v < current /\ since[v] < Horizon THEN since[v] + 1 ELSE since[v]]
    BY DEF Tick
  <2>2. \A v \in 0 .. MaxChanges :
          (IF v < current /\ since[v] < Horizon THEN since[v] + 1 ELSE since[v])
             \in 0 .. Horizon
    BY <1>2 DEF Horizon
  <2>3. since' \in [0 .. MaxChanges -> 0 .. Horizon]
    BY <2>1, <2>2
  <2>4. \A v \in 0 .. MaxChanges : since[v] \in Nat /\ since'[v] \in Nat
    BY <1>2, <2>3 DEF Horizon
  <2>5. \A v \in 0 .. MaxChanges :
          /\ v < current => since'[v] <= since[v] + 1
          /\ v >= current => since'[v] = since[v]
    BY <1>2, <2>1, <2>4
  <2>6. \A v \in 0 .. MaxChanges : since'[v] <= since[v] + 1
    BY <1>2, <2>4, <2>5
  <2> QED
    BY <2>3, <2>4, <2>5, <2>6
<1>4. \A q \in Requests :
        \/ req'[q] = req[q] /\ req[q].pc # "fill"
        \/ /\ req[q] \in Handlers /\ req[q].pc = "fill"
           /\ req[q].age < MaxHandling
           /\ req'[q] = [req[q] EXCEPT !.age = req[q].age + 1]
  BY <1>2, NotIdle DEF Tick
<1>5. \A h \in Handlers : h.age < MaxHandling =>
        LET r == [h EXCEPT !.age = h.age + 1]
        IN  /\ r \in Handlers /\ r.pc = h.pc /\ r.v = h.v /\ r.late = h.late
            /\ r.bk = h.bk /\ r.stale = h.stale /\ r.age = h.age + 1
  <2> SUFFICES ASSUME NEW h \in Handlers, h.age < MaxHandling,
                      NEW r, r = [h EXCEPT !.age = h.age + 1]
               PROVE  /\ r \in Handlers /\ r.pc = h.pc /\ r.v = h.v
                      /\ r.late = h.late /\ r.bk = h.bk /\ r.stale = h.stale
                      /\ r.age = h.age + 1
    OBVIOUS
  <2>1. h.age + 1 \in 0 .. MaxHandling
    BY HandlerFields
  <2>2. r \in Handlers
    BY <2>1 DEF Handlers
  <2>3. /\ r.pc = h.pc /\ r.v = h.v /\ r.late = h.late /\ r.bk = h.bk
        /\ r.stale = h.stale /\ r.age = h.age + 1
    BY DEF Handlers
  <2> QED
    BY <2>2, <2>3
<1>6. \A q \in Requests :
        /\ req'[q] \in Handlers \cup Waiting
        /\ req'[q].pc = req[q].pc /\ req'[q].stale = req[q].stale
        /\ req[q].pc # "fill" => req'[q] = req[q]
        /\ req[q].pc = "fill" =>
             /\ req[q] \in Handlers
             /\ req'[q].v = req[q].v /\ req'[q].late = req[q].late
             /\ req'[q].bk = req[q].bk /\ req'[q].age = req[q].age + 1
  <2> SUFFICES ASSUME NEW q \in Requests
               PROVE
        /\ req'[q] \in Handlers \cup Waiting
        /\ req'[q].pc = req[q].pc /\ req'[q].stale = req[q].stale
        /\ req[q].pc # "fill" => req'[q] = req[q]
        /\ req[q].pc = "fill" =>
             /\ req[q] \in Handlers
             /\ req'[q].v = req[q].v /\ req'[q].late = req[q].late
             /\ req'[q].bk = req[q].bk /\ req'[q].age = req[q].age + 1
    OBVIOUS
  <2>1. req[q] \in Handlers \cup Waiting
    BY <1>2
  <2>2. CASE req'[q] = req[q] /\ req[q].pc # "fill"
    BY <2>1, <2>2
  <2>3. CASE /\ req[q] \in Handlers /\ req[q].pc = "fill"
             /\ req[q].age < MaxHandling
             /\ req'[q] = [req[q] EXCEPT !.age = req[q].age + 1]
    BY <1>5, <2>3
  <2> QED
    BY <1>4, <2>2, <2>3
<1>7. req' \in [Requests -> Handlers \cup Waiting]
  BY <1>6 DEF Tick
<1>8. \A b \in BasePaths, p \in Paths :
        entry'[b][p] = IF expiry[b] = 1 THEN None ELSE Less(entry[b][p])
  BY DEF Tick
<1>9. entry' \in [BasePaths -> [Paths -> Responses \cup {None}]]
  <2>1. \A b \in BasePaths, p \in Paths :
          (IF expiry[b] = 1 THEN None ELSE Less(entry[b][p]))
            \in Responses \cup {None}
    BY <1>2, LessFields
  <2> QED
    BY <2>1 DEF Tick
<1>10. /\ flag' \in [BasePaths -> BOOLEAN]
       /\ \A b \in BasePaths : flag'[b] = (flag[b] /\ expiry[b] # 1)
  BY DEF Tick
<1>11. /\ expiry' \in [BasePaths -> -1 .. TTL]
       /\ \A b \in BasePaths :
            expiry'[b] = IF expiry[b] > 1 THEN expiry[b] - 1 ELSE -1
  <2>1. \A b \in BasePaths :
          (IF expiry[b] > 1 THEN expiry[b] - 1 ELSE -1) \in -1 .. TTL
    BY <1>2
  <2> QED
    BY <2>1 DEF Tick
<1>12. Shape'
  BY <1>1, <1>3, <1>7, <1>9, <1>10, <1>11 DEF CacheInv, Shape
<1>13. Numbered'
  <2>1. ASSUME NEW v \in current .. MaxChanges
        PROVE  since'[v] = 0
    <3>1. v \in 0 .. MaxChanges /\ v >= current
      BY <1>2
    <3>2. since'[v] = since[v]
      BY <1>3, <3>1
    <3>3. since[v] = 0
      BY DEF CacheInv, Numbered
    <3> QED
      BY <3>2, <3>3
  <2> QED
    BY <1>1, <2>1 DEF CacheInv, Numbered
<1>14. Expiries'
  <2> SUFFICES ASSUME NEW b \in BasePaths, expiry'[b] # -1
               PROVE  HashExists(b)'
    BY DEF Expiries
  <2>1. expiry[b] > 1 /\ expiry[b] # 1 /\ HashExists(b)
    BY <1>2, <1>11 DEF CacheInv, Expiries
  <2>2. CASE flag[b]
    BY <1>2, <1>10, <2>1, <2>2 DEF HashExists
  <2>3. CASE Cached(b) # {}
    <3>1. PICK p \in Paths : entry[b][p] # None
      BY <2>3 DEF Cached
    <3>2. entry'[b][p] # None
      BY <1>2, <1>8, <2>1, <3>1, LessFields
    <3> QED
      BY <3>2 DEF HashExists, Cached
  <2> QED
    BY <2>1, <2>2, <2>3 DEF HashExists
<1>15. ReadsAged'
  <2> SUFFICES ASSUME NEW q \in Requests
               PROVE  /\ req'[q].pc = "fill" =>
                           /\ req'[q].v <= current'
                           /\ since'[req'[q].v] <= req'[q].age
                      /\ req'[q].pc \in {"auth", "lookup", "handle"} =>
                           req'[q].age = 0
    BY DEF ReadsAged
  <2>1. CASE req[q].pc # "fill"
    BY <1>6, <2>1 DEF CacheInv, ReadsAged
  <2>2. CASE req[q].pc = "fill"
    <3>1. /\ req[q].v \in 0 .. MaxChanges /\ req[q].age \in 0 .. MaxHandling
          /\ req[q].v <= current /\ since[req[q].v] <= req[q].age
      BY <1>6, <2>2, HandlerFields DEF CacheInv, ReadsAged
    <3>2. since'[req[q].v] <= req[q].age + 1
      <4>1. \A m, n, k \in Nat : m <= n + 1 /\ n <= k => m <= k + 1
        OBVIOUS
      <4>2. /\ since[req[q].v] \in Nat /\ since'[req[q].v] \in Nat
            /\ since'[req[q].v] <= since[req[q].v] + 1
        BY <1>3, <3>1
      <4> QED
        BY <3>1, <4>1, <4>2
    <3> QED
      BY <1>1, <1>6, <2>2, <3>1, <3>2
  <2> QED
    BY <2>1, <2>2
<1>16. EntriesAged'
  <2> SUFFICES ASSUME NEW b \in BasePaths, NEW p \in Paths,
                      entry'[b][p] # None
               PROVE  /\ entry'[b][p].v <= current'
                      /\ entry'[b][p].left > 0 =>
                           since'[entry'[b][p].v] + entry'[b][p].left
                              <= TTL + MaxHandling
    BY DEF EntriesAged
  <2> DEFINE e == entry[b][p]
  <2>1. entry'[b][p] = Less(e) /\ e \in Responses \cup {None}
    BY <1>2, <1>8
  <2>2. e # None
    BY <2>1, LessFields
  <2>3. /\ e.v <= current
        /\ e.left > 0 => since[e.v] + e.left <= TTL + MaxHandling
    BY <2>2 DEF CacheInv, EntriesAged
  <2> HIDE DEF e
  <2>4. e.v \in 0 .. MaxChanges /\ e.left \in 0 .. TTL
    BY <2>1, <2>2 DEF Responses
  <2>5. /\ entry'[b][p].v = e.v
        /\ entry'[b][p].left = IF e.left = 0 THEN 0 ELSE e.left - 1
    BY <2>1, <2>2, LessFields
  <2>6. since[e.v] \in Nat /\ since'[e.v] \in Nat
        /\ since'[e.v] <= since[e.v] + 1
    BY <1>2, <1>3, <2>4
  <2>7. CASE e.left = 0
    BY <1>1, <2>3, <2>5, <2>7
  <2>8. CASE e.left # 0
    <3> DEFINE l == e.left
               m == since[e.v]
               n == since'[e.v]
               k == TTL + MaxHandling
    <3>1. l \in Nat /\ l # 0 /\ m \in Nat /\ n \in Nat /\ k \in Nat
      BY <2>4, <2>6, <2>8
    <3>2. m + l <= k /\ n <= m + 1
      BY <2>3, <2>6, <2>8, <3>1
    <3>3. entry'[b][p].left = l - 1 /\ entry'[b][p].v = e.v
      BY <2>5, <2>8
    <3>4. n + (l - 1) <= k
      <4> HIDE DEF l, m, n, k
      <4>1. \A x, y, u, v \in Nat : y # 0 /\ x + y <= v /\ u <= x + 1 => u + (y - 1) <= v
        OBVIOUS
      <4> QED
        BY <3>1, <3>2, <4>1
    <3> QED
      BY <1>1, <2>3, <3>3, <3>4
  <2> QED
    BY <2>7, <2>8
<1>17. ReadsExcused'
  BY <1>1, <1>6 DEF CacheInv, ReadsExcused, Excused
<1>18. EntriesExcused'
  <2> SUFFICES ASSUME change \notin Afterwards, NEW p \in Paths,
                      base # NoPath, entry'[base][p] # None
               PROVE  Excused(base, entry'[base][p].v, entry'[base][p].late)
    BY <1>1 DEF EntriesExcused, Excused
  <2>1. base \in BasePaths
    BY DEF CacheInv, Shape
  <2>2. /\ entry[base][p] # None /\ entry'[base][p].v = entry[base][p].v
        /\ entry'[base][p].late = entry[base][p].late
    BY <1>2, <1>8, <2>1, LessFields
  <2> QED
    BY <2>2 DEF CacheInv, EntriesExcused
<1>19. StalenessIsBounded'
  BY <1>6 DEF CacheInv, StalenessIsBounded
<1> QED
  BY <1>12, <1>13, <1>14, <1>15, <1>16, <1>17, <1>18, <1>19 DEF CacheInv

\* Every step keeps the invariant.
LEMMA NextStep == CacheInv /\ [Next]_vars => CacheInv'
<1> SUFFICES ASSUME CacheInv, [Next]_vars PROVE CacheInv'
  OBVIOUS
<1>1. ASSUME NEW q \in Requests, Request(q) PROVE CacheInv'
  BY <1>1, FindStep, AuthorizeStep, LookupStep, HandleStep, FillStep, ExpireStep,
     DiesStep DEF Request
<1>2. CASE Change
  BY <1>2, ChangeStep
<1>3. CASE Tick
  BY <1>3, TickStep
<1>4. CASE UNCHANGED vars
  <2>1. Shape' /\ Numbered' /\ Expiries' /\ ReadsAged' /\ EntriesAged'
    BY <1>4 DEF vars, CacheInv, Shape, Numbered, Expiries, HashExists, Cached,
                ReadsAged, EntriesAged
  <2>2. ReadsExcused' /\ EntriesExcused' /\ StalenessIsBounded'
    BY <1>4 DEF vars, CacheInv, ReadsExcused, EntriesExcused, Excused,
                StalenessIsBounded
  <2> QED
    BY <2>1, <2>2 DEF CacheInv
<1> QED
  BY <1>1, <1>2, <1>3, <1>4 DEF Next

\* The inductive invariant holds whatever the requests and the changes do.
THEOREM CacheInvariance == Spec => []CacheInv
<1>1. Init => CacheInv
  BY InitInv
<1>2. CacheInv /\ [Next]_vars => CacheInv'
  BY NextStep
<1> QED
  BY <1>1, <1>2, PTL DEF Spec

\* What the cache, the requests and the distribution hold keeps its type: a
\* cached response is of a state there was, and no hash that is gone has an
\* expiry (cache.py, handler.py).
THEOREM CacheTypes == Spec => []TypeOK
<1>1. CacheInv => TypeOK
  <2> SUFFICES ASSUME CacheInv PROVE TypeOK
    OBVIOUS
  <2> USE CacheAssumption
  <2>1. Shape /\ Expiries
    BY DEF CacheInv
  <2>2. ASSUME NEW b \in BasePaths, NEW p \in Cached(b)
        PROVE  entry[b][p].v \in 0 .. current /\ entry[b][p].left \in 0 .. TTL
    <3>1. p \in Paths /\ entry[b][p] # None /\ entry[b][p] \in Responses
      BY <2>1, <2>2 DEF Cached, Shape
    <3>2. entry[b][p].v <= current
      BY <3>1 DEF CacheInv, EntriesAged
    <3> QED
      BY <2>1, <3>1, <3>2 DEF Responses, Shape
  <2>3. \A q \in Requests :
          req[q].pc \in {"idle", "auth", "lookup", "handle", "fill", "expire"}
    <3>1. \A r \in Handlers : r.pc \in {"auth", "lookup", "handle", "fill", "expire"}
      BY DEF Handlers
    <3>2. \A r \in Waiting : r.pc = "idle"
      BY DEF Waiting
    <3> QED
      BY <2>1, <3>1, <3>2 DEF Shape
  <2> QED
    BY <2>1, <2>2, <2>3 DEF TypeOK, Shape, Expiries
<1> QED
  BY <1>1, CacheInvariance, PTL

\* No response is staler than the EXPIRES_TTL and the time of the request that
\* cached it, however often other responses extend the expiry of the hash.
THEOREM BoundedStaleness == Spec => []StalenessIsBounded
<1>1. CacheInv => StalenessIsBounded
  BY DEF CacheInv
<1> QED
  BY <1>1, CacheInvariance, PTL

\* After a change that is invalidated after its commit, the responses of the
\* distribution show it, but for those of a request that it overtook and those
\* of changes that nobody invalidates after (models/publication.py).
THEOREM Invalidation == Spec => []InvalidationWorks
<1>1. CacheInv => InvalidationWorks
  <2> SUFFICES ASSUME CacheInv, change = Quiet, base # NoPath,
                      NEW p \in Cached(base)
               PROVE  \/ entry[base][p].v = current \/ entry[base][p].late
                      \/ \E v \in entry[base][p].v .. current - 1 :
                            <<base, v>> \in silent
    BY DEF InvalidationWorks
  <2>1. p \in Paths /\ entry[base][p] # None
    BY DEF Cached
  <2>2. change \notin Afterwards
    BY DEF Afterwards, Quiet
  <2>3. Excused(base, entry[base][p].v, entry[base][p].late)
    BY <2>1, <2>2 DEF CacheInv, EntriesExcused
  <2> QED
    BY <2>3 DEF Excused
<1> QED
  BY <1>1, CacheInvariance, PTL
=============================================================================
