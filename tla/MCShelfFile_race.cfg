\* Two objects on one path whose calls interleave, with a second path to
\* rename to; no system call fails.
CONSTANTS
    p1 = p1
    p2 = p2
    Procs <- MCTwoProcs
    Paths = {pa, pb}
    Home = pa
    MaxInode = 3
    Failures = {}
SPECIFICATION Spec
INVARIANT ExclusiveCreate
