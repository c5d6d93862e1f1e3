\* A failed Create or Destroy, then Destroy again: the assert on the
\* missing shelf ends the process.
CONSTANTS
    Failures <- MCRetryFailures
    Crashes = FALSE
SPECIFICATION Spec
INVARIANT DestroyNeverAsserts
