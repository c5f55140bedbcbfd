CONSTANTS
  Tags = {t1, t2}
  Parent = parent
SPECIFICATION IctSpec
PROPERTIES
  NoTimeoutAfterResponse
CHECK_DEADLOCK FALSE
