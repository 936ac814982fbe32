SPECIFICATION Spec
CONSTANTS
  w1 = w1
  w2 = w2
  Workers = {w1, w2}
  MaxEvents = 2
  Malformed <- SecondMalformed
  BatchMax = 2
  RetryMax = 1
  ReclaimEnabled = TRUE
  ReclaimCount = 2
  DlqOnError = {w1}
  AckOnError = {w1, w2}
  StreamMaxLen = 0
  DlqXaddMayFail = FALSE
  MaxFaults = 1
  MaxEnds = 1
VIEW LiveState
INVARIANTS
  NoSilentLoss
  BatchBounded
PROPERTIES
  PromiseKept
