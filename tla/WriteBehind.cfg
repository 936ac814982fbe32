SPECIFICATION Spec
CONSTANTS
  Workers = {w1}
  Events = {1, 2}
  Unreplayable = {2}
  RRetryMax = 2
  DlqBatch = 2
  RunOnce = FALSE
  MaxCopies = 3
  MaxRejects = 1
  MaxRFaults = 2
  MaxRCrashes = 1
INVARIANTS ReplayKeepsEvery RetryBounded NoSilentLoss NothingFallsBetween
