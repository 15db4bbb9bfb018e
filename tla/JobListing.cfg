SPECIFICATION Spec
CONSTANTS
  Job = {j1, j2, j3, j4, j5}
  PageSize = 2
INVARIANTS
  NothingIsJumped
  MissedAreOutnumbered
  PageIsFull
CHECK_DEADLOCK FALSE
