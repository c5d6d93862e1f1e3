-------------------------- MODULE MCEpochZoneHeap --------------------------
(* Instantiates EpochZoneHeap for TLC: two user threads, the cleaner, the  *)
(* five delayed-free lists of the code, a small zone.                      *)
EXTENDS EpochZoneHeap

CONSTANTS u1, u2, c

MCUsers == {u1, u2}

MCParticipants == MCUsers \union {c}

=============================================================================
