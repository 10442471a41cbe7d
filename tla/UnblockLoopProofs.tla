--------------------------- MODULE UnblockLoopProofs ---------------------------
(***************************************************************************)
(* For every set of resources and every queue: the pass of the worker and  *)
(* the query of dispatch() decide what Tasking says they decide.           *)
(***************************************************************************)
EXTENDS UnblockLoop, TLAPS

(* Comparing with the taken sets is comparing with every earlier task.     *)
LEMMA TakenDecides ==
    ASSUME TypeOK, Taken, next \in Queue
    PROVE  MayRun(queue[next]) <=> Unopposed(next)
<1>1. queue[next] \in Row
  BY DEF TypeOK
<1>2. \A j \in Queue : queue[j] \in Row
  BY DEF TypeOK
<1>3. ASSUME MayRun(queue[next]), NEW j \in Queue, j < next
      PROVE  ~Excludes(queue[next], queue[j])
  <2>1. queue[j].exclusive \subseteq takenExclusive
    BY <1>2, <1>3 DEF Taken, Row
  <2>2. SharedOnly(queue[j]) \subseteq takenShared
    BY <1>2, <1>3 DEF Taken, Row, SharedOnly
  <2> QED
    BY <1>3, <2>1, <2>2 DEF MayRun, Excludes, SharedOnly
<1>4. ASSUME Unopposed(next)
      PROVE  MayRun(queue[next])
  <2>1. queue[next].exclusive \cap takenExclusive = {}
    BY <1>4 DEF Unopposed, Excludes, Taken
  <2>2. queue[next].exclusive \cap takenShared = {}
    BY <1>4 DEF Unopposed, Excludes, Taken, SharedOnly
  <2>3. SharedOnly(queue[next]) \cap takenExclusive = {}
    BY <1>4 DEF Unopposed, Excludes, Taken, SharedOnly
  <2> QED
    BY <2>1, <2>2, <2>3 DEF MayRun
<1> QED
  BY <1>3, <1>4 DEF Unopposed

LEMMA LoopInit == Init => LoopInv
<1> SUFFICES ASSUME Init PROVE LoopInv
  OBVIOUS
<1>1. \A j \in Queue : ~(j < next)
  BY LengthAssumption DEF Init, Queue
<1>2. TypeOK
  BY LengthAssumption DEF Init, TypeOK
<1>3. Taken
  BY <1>1 DEF Init, Taken
<1>4. PassIsExact
  BY <1>1 DEF Init, PassIsExact
<1> QED
  BY <1>2, <1>3, <1>4 DEF LoopInv

LEMMA LoopStep == LoopInv /\ [Next]_vars => LoopInv'
<1> SUFFICES ASSUME LoopInv, [Next]_vars PROVE LoopInv'
  OBVIOUS
<1> USE DEF LoopInv
<1>1. CASE Step
  <2> USE <1>1
  <2>1. next \in Queue /\ queue' = queue /\ next' = next + 1
    BY DEF Step
  <2>2. \A j \in Queue : j < next' <=> j < next \/ j = next
    BY <2>1, LengthAssumption DEF Queue
  <2>3. \A j \in Queue : queue[j] \in Row
    BY DEF TypeOK
  <2>4. TypeOK'
    BY <2>1, LengthAssumption DEF TypeOK, Step, Queue
  <2>5. Taken'
    BY <2>1, <2>2, <2>3 DEF Taken, Step, SharedOnly, Row
  <2>6. Marks(queue[next]) <=>
           /\ ~queue[next].unblocked
           /\ queue[next].state = "waiting" => Unopposed(next)
    BY <2>1, TakenDecides DEF Marks
  <2>7. \A i \in Queue : Unopposed(i)' <=> Unopposed(i)
    BY <2>1 DEF Unopposed
  <2>8. PassIsExact'
    BY <2>1, <2>2, <2>6, <2>7 DEF PassIsExact, Step
  <2> QED
    BY <2>4, <2>5, <2>8
<1>2. CASE UNCHANGED vars
  BY <1>2 DEF vars, TypeOK, Taken, PassIsExact, Unopposed
<1> QED
  BY <1>1, <1>2 DEF Next

(* _unblock_tasks() marks exactly the tasks that no earlier incomplete     *)
(* task excludes, for every queue.                                         *)
THEOREM Pass == Spec => []PassIsExact
<1>1. LoopInv => PassIsExact
  BY DEF LoopInv
<1> QED
  BY <1>1, LoopInit, LoopStep, PTL DEF Spec

(* The overlap of strings means what the sets mean.                        *)
LEMMA OverlapExcludes ==
    ASSUME NEW x \in Row, NEW y \in Row
    PROVE  Record(y) \cap Colliding(x) = {} <=> ~Excludes(x, y)
<1>1. ASSUME NEW e \in Record(y) \cap Colliding(x)
      PROVE  Excludes(x, y)
  <2>1. CASE e \in Plain(y.exclusive)
    BY <1>1, <2>1 DEF Colliding, Plain, Prefixed, Excludes
  <2>2. CASE e \in Prefixed(y.shared)
    BY <1>1, <2>2 DEF Colliding, Plain, Prefixed, Excludes
  <2> QED
    BY <1>1, <2>1, <2>2 DEF Record
<1>2. ASSUME Excludes(x, y)
      PROVE  Record(y) \cap Colliding(x) # {}
  <2>1. CASE (x.exclusive \cup x.shared) \cap y.exclusive # {}
    <3>1. PICK r \in x.exclusive \cup x.shared : r \in y.exclusive
      BY <2>1
    <3>2. <<"exclusive", r>> \in Record(y) \cap Colliding(x)
      BY <3>1 DEF Record, Colliding, Plain
    <3> QED
      BY <3>2
  <2>2. CASE x.exclusive \cap y.shared # {}
    <3>1. PICK r \in x.exclusive : r \in y.shared
      BY <2>2
    <3>2. <<"shared", r>> \in Record(y) \cap Colliding(x)
      BY <3>1 DEF Record, Colliding, Prefixed
    <3> QED
      BY <3>2
  <2> QED
    BY <1>2, <2>1, <2>2 DEF Excludes
<1> QED
  BY <1>1, <1>2

(* are_resources_available() agrees with the workers for every queue.      *)
THEOREM Agreement == Spec => []QueryAgrees
<1>1. LoopInv => QueryAgrees
  BY OverlapExcludes DEF LoopInv, TypeOK, QueryAgrees, Available, Unopposed
<1> QED
  BY <1>1, LoopInit, LoopStep, PTL DEF Spec
=============================================================================
