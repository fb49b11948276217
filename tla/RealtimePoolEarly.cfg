\* The program as it is, with no failure: only that jobs do not wait for it.
CONSTANTS
  Workers = {w1, w2}
  NumChannels = 2
  Rank <- MapOrder
  NoWorker = NoWorker
  NoChannel = NoChannel
  EarlyJobs = TRUE
  Failures = FALSE
SPECIFICATION Spec
INVARIANT WorkingIsFlagged
CHECK_DEADLOCK FALSE
