SPECIFICATION Spec
CONSTANTS
  w1 = w1
  w2 = w2
  w3 = w3
  j1 = j1
  j2 = j2
  c1 = c1
  NoJob = NoJob
  Worker = {w1}
  Job = {j1}
  Preloaded = {j1}
  Canceller = {c1}
  Unregistered = {}
  MaxFaults = 0
  DrainLimit = 1
  Attempts1 = 2
  Attempts2 = 2
  MaxAttempts <- MCMaxAttempts
  Tier <- MCTier
  PromptCommits = TRUE
  PromptClaims = TRUE
  ThresholdExceedsTimeout = TRUE
PROPERTY OutcomeIsNotCancelled
