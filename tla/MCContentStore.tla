--------------------------- MODULE MCContentStore ---------------------------
(* Two content units with the same artifact: see MCContentStore_store.cfg. *)
EXTENDS ContentStore, TLC

CONSTANTS d1, c1, c2

OneDigest == [c \in Contents |-> d1]
=============================================================================
