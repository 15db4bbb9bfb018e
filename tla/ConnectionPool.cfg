SPECIFICATION PoolFairSpec
CONSTANTS
  Request = {r1, r2, r3}
  Key = {k, blank}
  Blank = blank
  NoKey = null
  PoolSize = 2
CHECK_DEADLOCK FALSE
INVARIANTS
  SameJob
  ConflictResolvable
  AnswerStands
  IInv
PROPERTIES
  EveryRequestAnswered
  RegistrySpec
  CreationStep
  ConnectionsComeBack
