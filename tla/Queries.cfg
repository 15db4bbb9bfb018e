SPECIFICATION QueriesFairSpec
CONSTANTS
  w1 = w1
  w2 = w2
  w3 = w3
  j1 = j1
  j2 = j2
  c1 = c1
  NoJob = NoJob
  Worker = {w1}
  Job = {j1}
  Preloaded = {}
  Canceller = {c1}
  Unregistered = {}
  MaxFaults = 2
  DrainLimit = 1
  Attempts1 = 2
  Attempts2 = 1
  MaxAttempts <- MCMaxAttempts
  Tier <- MCTier
  PromptCommits = FALSE
  PromptClaims = FALSE
  ThresholdExceedsTimeout = TRUE
INVARIANTS
  ExecutionsWithinBudget
  LogsCoverAttempts
  CompletedHaveAverage
PROPERTIES
  AttemptsNeverDecrease
  ProcessingPageMovesOn
