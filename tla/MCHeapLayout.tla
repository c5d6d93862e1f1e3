--------------------------- MODULE MCHeapLayout ---------------------------
(* Instantiates HeapLayout for TLC with a data area of four cache lines,  *)
(* enough for an allocation, a write into it and a full heap.            *)
EXTENDS HeapLayout

MCHeapSize == 4

=============================================================================
