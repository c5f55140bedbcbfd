CONSTANTS
  Tags = {t1}
  Parent = parent
  QUEUE_RETRY_MAX = 1
SPECIFICATION Spec
INVARIANTS
  TypeOK
  DispatchedOnce
  RejectedIsNotDispatched
  GoneIsBlocked
  CompletedIsTimed
PROPERTIES
  NeverGoesBack
  AwaitedAckIsKept
CHECK_DEADLOCK FALSE
