\* Three threads, each pushing and popping, on a list of three blocks with
\* a 16-bit tag (32 in the code; no bounded run wraps either): the list
\* refines an atomic stack and some call always returns.
CONSTANTS
    t1 = t1
    t2 = t2
    t3 = t3
    Threads <- MCThreads
    NBlocks = 3
    TagBits = 16
    MaxOps = 6
SPECIFICATION Spec
INVARIANT TypeOK
PROPERTY StackRefined
PROPERTY LockFree
\* Every behaviour ends when the calls allowed by MaxOps have returned.
CHECK_DEADLOCK FALSE
