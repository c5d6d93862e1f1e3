\* Create, Open, then a Close whose region_->Unmap fails: is_open_ stays
\* set with rmb_ NULL.
CONSTANTS
    Failures <- MCCloseFailures
    Crashes = FALSE
SPECIFICATION Spec
INVARIANT IsOpenUsable
