\* Create and Destroy, called again and again, with any call failing and
\* the process dying at any step: success is only reported truthfully.
CONSTANTS
    Failures <- MCAllFailures
    Crashes = TRUE
SPECIFICATION Spec
INVARIANT TypeOK
PROPERTY CreateSuccessComplete
PROPERTY DestroySuccessRemoves
