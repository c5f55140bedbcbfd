CONSTANTS
  Tags = {t1}
  Parent = parent
  QUEUE_RETRY_MAX = 0
SPECIFICATION FairSpec
PROPERTIES
  RetransmissionEnds
  EventuallyGone
CHECK_DEADLOCK FALSE
