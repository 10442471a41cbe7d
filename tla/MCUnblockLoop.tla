---------------------------- MODULE MCUnblockLoop ----------------------------
(* Small queues for TLC. *)
EXTENDS UnblockLoop

CONSTANTS r1, r2
=============================================================================
