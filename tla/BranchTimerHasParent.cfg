CONSTANTS
  Tags = {t1, t2}
  Parent = parent
SPECIFICATION IctSpec
INVARIANTS
  BranchTimerHasParent
CHECK_DEADLOCK FALSE
