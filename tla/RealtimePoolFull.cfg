\* As many channels as workers, all created before the first job.
CONSTANTS
  Workers = {w1, w2, w3}
  NumChannels = 3
  Rank <- MapOrder
  NoWorker = NoWorker
  NoChannel = NoChannel
  EarlyJobs = FALSE
  Failures = FALSE
SPECIFICATION Spec
INVARIANTS TypeOK Exclusive WorkingIsFlagged SuccessIsDecoded
PROPERTIES LeaseSpec
CHECK_DEADLOCK FALSE
