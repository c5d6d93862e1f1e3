\* A crash inside Destroy: Destroy zeroes heap_size and next_free before it
\* clears the magic, so a restart can pass Verify on a destroyed header.
CONSTANTS
    HeapSize <- MCHeapSize
SPECIFICATION Spec
INVARIANT RecoveredHeapFormatted
