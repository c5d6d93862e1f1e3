----------------------------- MODULE MCShelfFile -----------------------------
(* Two ShelfFile objects on one path, as in two processes.                 *)
EXTENDS ShelfFile

CONSTANTS p1, p2

MCTwoProcs == {p1, p2}
=============================================================================
