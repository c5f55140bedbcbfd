CONSTANTS
  Tags = {t1, t2}
  Parent = parent
SPECIFICATION FairSpec
INVARIANTS
  TypeOK
  ReleasedOnce
  NothingOutlivesParent
  AlwaysReaped
  PooledIsLive
PROPERTIES
  KeepsUserPromise
  TerminatedIsFinal
  SilentAfterRelease
  NoTimeoutAfterFinal
  NoResendAfterResponse
  EventuallyReleased
CHECK_DEADLOCK FALSE
