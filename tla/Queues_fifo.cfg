SPECIFICATION Spec
CONSTANTS
  Job = {1, 2}
  Retried = {}
  Tier1 = 2
  Tier2 = 2
  Tier3 = 2
  Tier <- MCTier
  Weight <- MCWeight
  Quantum <- MCQuantum
  Horizon = 6
  MaxDelay = 0
  DrainLimit = 1
PROPERTIES
  FifoWithinTier
