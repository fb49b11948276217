\* Two lists of one line each, as many jobs as lines, and no failure.
CONSTANTS
  r1 = r1  r2 = r2  a = a  b = b  c = c  d = d  e = e
  Runners <- TheRunners
  Lines <- SingleLines
  Uris <- TheUris
  Tids = {t1, t2, t3}
  NoTid = NoTid
  IndexTypes = {"list"}
  Thresholds = {"n"}
  Available = {2}
  Threshold = 2
  SizeMod = 64
  TrackedLimit = 1
  SpawnMayFail = FALSE
SPECIFICATION Spec
PROPERTY RunJobReturns
CHECK_DEADLOCK FALSE
