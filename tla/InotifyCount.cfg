\* Every index_type without a threshold; the limit changes while jobs run.
CONSTANTS
  r1 = r1  r2 = r2  a = a  b = b  c = c  d = d  e = e
  Runners <- TheRunners
  Lines <- MixedLines
  Uris <- TheUris
  Tids = {t1, t2, t3}
  NoTid = NoTid
  IndexTypes = {"list", "filename", "file", "pair"}
  Thresholds = {"n"}
  Available = {1, 2}
  Threshold = 2
  SizeMod = 64
  TrackedLimit = 1
  SpawnMayFail = TRUE
SPECIFICATION Spec
INVARIANTS TypeOK WorkingJobTruth Overshoot ChildrenFirst
PROPERTIES DrainEnds
CHECK_DEADLOCK FALSE
