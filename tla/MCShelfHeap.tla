---------------------------- MODULE MCShelfHeap ----------------------------
(* Instantiates ShelfHeap for TLC: a cache line of 2 bytes, a data area of *)
(* three cache lines after the 6-byte header, 4-bit offsets.               *)
EXTENDS ShelfHeap, TLC

CONSTANTS t1, t2

MCThreads == {t1, t2}

\* Request sizes a caller passes: under a cache line, exactly one, and one
\* that needs two lines.
MCSizes == {1, 2, 3}

\* A size near the top of size_t, as from a negative int passed to Alloc.
MCHugeSizes == {2, 14}

\* Requests of zero bytes, next to ordinary ones.
MCZeroSizes == {0, 2}

Symmetry == Permutations(MCThreads)

=============================================================================
