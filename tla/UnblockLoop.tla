------------------------------ MODULE UnblockLoop ------------------------------
(***************************************************************************)
(* The two algorithms that decide whether a task may run: the single pass  *)
(* of _unblock_tasks() (tasking/worker.py) over the incomplete tasks in    *)
(* order of pulp_created, which collects the resources taken so far, and   *)
(* the query of are_resources_available() (tasking/tasks.py) over the      *)
(* strings of reserved_resources_record.  Both are compared to what        *)
(* Tasking takes them for: nothing earlier and incomplete conflicts.       *)
(***************************************************************************)
EXTENDS Integers, FiniteSets

CONSTANTS
    Resources,   \* the resources that tasks name
    Length       \* how many incomplete tasks there are

ASSUME LengthAssumption == Length \in Nat

Queue == 1..Length

(* What a task reserves: get_resources() neither forbids nor drops a       *)
(* resource that is named exclusive as well as shared.                     *)
Row == [state     : {"waiting", "running", "canceling"},
        unblocked : BOOLEAN,
        exclusive : SUBSET Resources,
        shared    : SUBSET Resources]

VARIABLES
    queue,           \* the incomplete tasks, oldest first
    next,            \* the position the pass has come to
    takenExclusive,  \* taken_exclusive_resources
    takenShared,     \* taken_shared_resources
    marked           \* the positions whose task was marked unblocked

vars == <<queue, next, takenExclusive, takenShared, marked>>

Init ==
    /\ queue \in [Queue -> Row]
    /\ next = 1
    /\ takenExclusive = {}
    /\ takenShared = {}
    /\ marked = {}

(* Shared reservations count only if they are not exclusive as well.       *)
SharedOnly(row) == row.shared \ row.exclusive

MayRun(row) ==
    /\ row.exclusive \cap (takenExclusive \cup takenShared) = {}
    /\ SharedOnly(row) \cap takenExclusive = {}

Marks(row) ==
    /\ ~row.unblocked
    /\ row.state = "waiting" => MayRun(row)

(* Mutant: what blocks a task, too, is not recorded as taken.              *)
StepMarked ==
    LET row == queue[next] IN
    /\ next \in Queue
    /\ marked' = IF Marks(row) THEN marked \cup {next} ELSE marked
    /\ IF Marks(row) \/ row.unblocked
       THEN /\ takenExclusive' = takenExclusive \cup row.exclusive
            /\ takenShared' = takenShared \cup SharedOnly(row)
       ELSE UNCHANGED <<takenExclusive, takenShared>>
    /\ next' = next + 1
    /\ UNCHANGED queue

Step ==
    LET row == queue[next] IN
    /\ next \in Queue
    /\ marked' = IF Marks(row) THEN marked \cup {next} ELSE marked
    /\ takenExclusive' = takenExclusive \cup row.exclusive
    /\ takenShared' = takenShared \cup SharedOnly(row)
    /\ next' = next + 1
    /\ UNCHANGED queue

Next == Step

Spec == Init /\ [][Next]_vars

-----------------------------------------------------------------------------
(***************************************************************************)
(* The query: reserved_resources_record && colliding_resources.            *)
(***************************************************************************)
Plain(S) == {<<"exclusive", r>> : r \in S}
Prefixed(S) == {<<"shared", r>> : r \in S}

(* reserved_resources_record of a task.                                    *)
Record(row) == Plain(row.exclusive) \cup Prefixed(row.shared)

(* Mutant: whatever is reserved collides with itself only.                 *)
CollidingRecord(row) == Record(row)

(* colliding_resources of get_resources().                                 *)
Colliding(row) ==
    Plain(row.shared \cup row.exclusive) \cup Prefixed(row.exclusive)

Available(i) ==
    \A j \in Queue : j < i => Record(queue[j]) \cap Colliding(queue[i]) = {}

-----------------------------------------------------------------------------
Excludes(x, y) ==
    \/ x.exclusive \cap (y.exclusive \cup y.shared) # {}
    \/ x.shared \cap y.exclusive # {}

Unopposed(i) == \A j \in Queue : j < i => ~Excludes(queue[i], queue[j])

TypeOK ==
    /\ queue \in [Queue -> Row]
    /\ next \in 1..(Length + 1)
    /\ marked \subseteq Queue

(* One pass of _unblock_tasks() marks exactly the tasks that Tasking calls *)
(* Unblockable, though it keeps two sets of resources and no pairs.        *)
PassIsExact ==
    marked = {i \in Queue : /\ i < next
                            /\ ~queue[i].unblocked
                            /\ queue[i].state = "waiting" => Unopposed(i)}

(* dispatch() and the workers agree on which tasks have to wait, although  *)
(* one compares strings in the database and the others sets in Python.     *)
QueryAgrees == \A i \in Queue : Available(i) <=> Unopposed(i)

(* What the taken sets hold between two rounds of the loop.                *)
Taken ==
    /\ takenExclusive = {r \in Resources : \E j \in Queue :
                            j < next /\ r \in queue[j].exclusive}
    /\ takenShared = {r \in Resources : \E j \in Queue :
                            j < next /\ r \in SharedOnly(queue[j])}

LoopInv == TypeOK /\ Taken /\ PassIsExact
=============================================================================
