\* Alloc with a size near the top of size_t: expected + round_up(size)
\* wraps back into the data area and the CAS moves next_free backwards.
CONSTANTS
    t1 = t1
    t2 = t2
    Threads <- MCThreads
    CacheLine = 2
    HeapSize = 6
    Width = 4
    Sizes <- MCHugeSizes
    MaxAllocs = 3
SPECIFICATION Spec
INVARIANT BlocksDisjoint
CHECK_DEADLOCK FALSE
