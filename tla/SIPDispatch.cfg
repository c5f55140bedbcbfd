CONSTANTS
  MaxInvites = 4
SPECIFICATION Spec
INVARIANTS
  TypeOK
  GoneIsBlocked
  ThrowsOnlyOnStop
  RemovesOwnEntry
PROPERTY TaskEnds
CHECK_DEADLOCK FALSE
