--------------------------- MODULE MCContentCache ---------------------------
(* Two base paths, one below the other: see MCContentCache_serving.cfg.    *)
EXTENDS ContentCache

CONSTANTS a, ab, p1, p3

\* p3 is below a/b, the others are below a.
Nested == [p \in Paths |-> IF p = p3 THEN <<ab, a>> ELSE <<a>>]
=============================================================================
