---------------------------- MODULE MCRedisTasking ----------------------------
(* Small instances of RedisTasking for TLC. *)
EXTENDS RedisTasking

CONSTANTS t1, t2, t3, w1, w2, w3, a1, c1, n1, n2, na, nc, r1

(* w3 is a restart of w1 *)
NameOf == [p \in Procs |-> CASE p \in {w1, w3} -> n1
                             [] p = w2 -> n2
                             [] p = a1 -> na
                             [] OTHER -> nc]

(* t1 writes what the others read *)
Writes == [t \in Tasks |-> IF t = t1 THEN {r1} ELSE {}]
Reads == [t \in Tasks |-> IF t = t1 THEN {} ELSE {r1}]

(* w2 lacks the version that t1 asks for *)
OldWorker == [w \in Workers |-> IF w = w2 THEN Tasks \ {t1} ELSE Tasks]
=============================================================================
