--------------------------- MODULE MCShelfRegistry ---------------------------
EXTENDS ShelfRegistry, TLC

CONSTANTS t1, t2, t3

MCThreads == {t1, t2, t3}

\* Callers that pair every Map with an Unmap(..., true), as spec 4.2 asks.
MCSymmetric == {TRUE}

\* Calls that may fail besides fam_atomic_register_region and munmap.
MCMmapFailures == {"mmap"}

MCAllFailures == {"mmap", "register", "munmap"}
MCSymmetry == Permutations(MCThreads)
=============================================================================
