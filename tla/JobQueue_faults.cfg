SPECIFICATION Spec
CONSTANTS
  w1 = w1
  w2 = w2
  w3 = w3
  j1 = j1
  j2 = j2
  c1 = c1
  NoJob = NoJob
  Worker = {w1, w2}
  Job = {j1, j2}
  Preloaded = {j2}
  Canceller = {c1}
  Unregistered = {j2}
  MaxFaults = 2
  DrainLimit = 2
  Attempts1 = 3
  Attempts2 = 1
  MaxAttempts <- MCMaxAttempts
  Tier <- MCTier
  PromptCommits = FALSE
  PromptClaims = FALSE
  ThresholdExceedsTimeout = TRUE
SYMMETRY Symmetric
INVARIANTS
  TypeOK
  ExclusiveExecution
  AttemptsMatchStarts
  RetryBudget
  OutcomeRecorded
  StuckIsOrphan
  ProcessingIsAttended
  IInv
PROPERTIES
  RetiredIsFinal
