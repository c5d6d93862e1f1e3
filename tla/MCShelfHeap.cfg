\* Concurrent Alloc calls of two threads: no overlap, linearizable to the
\* atomic bump allocator, and every call returns.
CONSTANTS
    t1 = t1
    t2 = t2
    Threads <- MCThreads
    CacheLine = 2
    HeapSize = 6
    Width = 4
    Sizes <- MCSizes
    MaxAllocs = 4
SPECIFICATION FairSpec
INVARIANT TypeOK
INVARIANT BlocksDisjoint
PROPERTY BumpAllocRefined
PROPERTY AllocReturns
\* Callers may stop calling Alloc at any point.
CHECK_DEADLOCK FALSE
