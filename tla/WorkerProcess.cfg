SPECIFICATION ProcessFairSpec
CONSTANTS
  w1 = w1
  w2 = w2
  w3 = w3
  j1 = j1
  j2 = j2
  c1 = c1
  NoJob = NoJob
  Worker = {w1, w2}
  Job = {j1, j2}
  Preloaded = {j1, j2}
  Canceller = {}
  Unregistered = {}
  MaxFaults = 1
  MaxStops = 1
  DrainLimit = 1
  Attempts1 = 3
  Attempts2 = 1
  MaxAttempts <- MCMaxAttempts
  Tier <- MCTier
  PromptCommits = TRUE
  PromptClaims = TRUE
  ThresholdExceedsTimeout = TRUE
PROPERTIES
  OnlyStopsLose
  StoppedJobSettles
