---------------------------- MODULE VersionHistory ----------------------------
(***************************************************************************)
(* What a repository promises about its versions: each is a set of content *)
(* that never changes, its number is never given to another one, it        *)
(* differs from the version it succeeds, and one version always remains.   *)
(***************************************************************************)
EXTENDS Integers

CONSTANT Contents

VARIABLES
    history,  \* number -> the content of that version, for those that exist
    last      \* the greatest number ever given to a version

vars == <<history, last>>

Numbers == DOMAIN history

Newest == CHOOSE v \in Numbers : \A u \in Numbers : u <= v

Init ==
    /\ history = [v \in {0} |-> {}]
    /\ last = 0

Publish(S) ==
    /\ S # history[Newest]
    /\ last' = last + 1
    /\ history' = [v \in Numbers \cup {last + 1} |->
                      IF v = last + 1 THEN S ELSE history[v]]

Discard(v) ==
    /\ Numbers # {v}
    /\ history' = [u \in Numbers \ {v} |-> history[u]]
    /\ UNCHANGED last

Next == \/ \E S \in SUBSET Contents : Publish(S)
        \/ \E v \in Numbers : Discard(v)

Spec == Init /\ [][Next]_vars
=============================================================================
