SPECIFICATION Spec
CONSTANTS
  Conns = {c1, c2}
  Trans = {x1, x2}
  MaxReadErrors = 2
  None = None
INVARIANTS TypeOK ListedIsReading DelayedGoesFirst
PROPERTIES DelayedIsSettled ClosedIsForgotten
CHECK_DEADLOCK FALSE
