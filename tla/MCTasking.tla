------------------------------ MODULE MCTasking ------------------------------
(* Small instances of Tasking for TLC. *)
EXTENDS TaskingRefinement

CONSTANTS t1, t2, t3, w1, w2, w3, a1, a2, r1, r2

NoShared == [t \in Tasks |-> {}]
AllExclusive == [t \in Tasks |-> Resources]
AllCompatible == [w \in Workers |-> Tasks]

(* t1 excludes t2 and t3, which share r1 *)
OneWriter == [t \in Tasks |-> IF t = t1 THEN {r1} ELSE {}]
Readers == [t \in Tasks |-> IF t = t1 THEN {} ELSE {r1}]

(* w2 lacks the version that t2 asks for *)
OldWorker == [w \in Workers |-> IF w = w2 THEN Tasks \ {t2} ELSE Tasks]
=============================================================================
