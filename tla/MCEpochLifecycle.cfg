\* A process that calls ResetBeforeFork and exits before ResetAfterFork
\* (a child that never rebuilds, a parent whose fork() failed): its
\* destructor deletes em a second time.
CONSTANTS
    p1 = p1
    p2 = p2
    Procs <- MCProcs
    Root = p1
    MaxInode = 2
SPECIFICATION Spec
INVARIANT FinalDeletesOnce
\* Every behaviour ends with all processes exited.
CHECK_DEADLOCK FALSE
