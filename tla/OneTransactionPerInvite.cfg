CONSTANTS
  MaxInvites = 3
SPECIFICATION Spec
INVARIANT
  OneTransactionPerInvite
CHECK_DEADLOCK FALSE
