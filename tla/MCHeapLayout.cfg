\* Create, allocation, user writes, evictions, Destroy, a second Create and
\* a crash at any point, with four data lines.
CONSTANTS
    HeapSize <- MCHeapSize
SPECIFICATION Spec
INVARIANT TypeOK
INVARIANT CreateCrashSafe
INVARIANT FreshAfterCreate
