\* Recordings, of which each reaches the threshold and one has no known size, or
\* the option left out, in lists and alone.
CONSTANTS
  r1 = r1  r2 = r2  a = a  b = b  c = c  d = d  e = e
  Runners <- TheRunners
  Lines <- SizedLines
  Uris <- TheUris
  Tids = {t1, t2, t3}
  NoTid = NoTid
  IndexTypes = {"list", "filename"}
  Thresholds = {"y", "unset"}
  Available = {3}
  Threshold = 1
  SizeMod = 64
  TrackedLimit = 1
  SpawnMayFail = TRUE
SPECIFICATION Spec
INVARIANTS IndexTruth BudgetBound
CHECK_DEADLOCK FALSE
