CONSTANTS
  Tags = {t1, t2}
  Parent = parent
SPECIFICATION IctSpec
INVARIANTS
  RetransmittedErrorIsAcked
CHECK_DEADLOCK FALSE
