SPECIFICATION Spec
CONSTANTS
  Job = {1, 2, 3}
  Retried = {1, 2}
  Tier1 = 2
  Tier2 = 1
  Tier3 = 1
  Tier <- MCTier
  Weight <- MCWeight
  Quantum <- MCQuantum
  Horizon = 3
  MaxDelay = 1
  DrainLimit = 1
INVARIANTS
  TypeOK
  BatchIsDrainBatch
PROPERTIES
  PopsForemost
  FifoUpToQuantum
