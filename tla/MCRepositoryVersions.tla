------------------------- MODULE MCRepositoryVersions -------------------------
(* A small repository for TLC. *)
EXTENDS RepositoryVersions

CONSTANTS c1, c2
=============================================================================
