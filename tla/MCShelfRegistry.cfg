\* Three threads map and unmap one shelf, with either unregister flag; mmap
\* may fail.  An assert failure ends the process, so behaviours may stop.
CONSTANTS
    t1 = t1
    t2 = t2
    t3 = t3
    Threads <- MCThreads
    MaxMaps = 3
    UnregisterModes = {TRUE, FALSE}
    Failures <- MCMmapFailures
SYMMETRY MCSymmetry
SPECIFICATION Spec
CHECK_DEADLOCK FALSE
INVARIANT TypeOK
INVARIANT NoOrphanMapping
INVARIANT RegistryMapped
