\* Jobs arrive while the map is being filled, and creating a channel may fail. One
\* channel fewer than workers: a pool of three with one creation already failed, so
\* that three workers meet on one channel.
CONSTANTS
  Workers = {w1, w2, w3}
  NumChannels = 2
  Rank <- MapOrder
  NoWorker = NoWorker
  NoChannel = NoChannel
  EarlyJobs = TRUE
  Failures = TRUE
SPECIFICATION Spec
INVARIANTS FlaggedIsHeld
PROPERTIES ClosedIsUnused MutexReleased StateReset
CHECK_DEADLOCK FALSE
