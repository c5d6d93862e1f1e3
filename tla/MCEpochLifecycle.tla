--------------------------- MODULE MCEpochLifecycle ---------------------------
(* Instantiates EpochLifecycle for TLC: a parent and the child it forks.  *)
EXTENDS EpochLifecycle

CONSTANTS p1, p2

MCProcs == {p1, p2}

=============================================================================
