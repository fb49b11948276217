\* Three jobs, and an API server that may refuse them.
CONSTANTS
  j1 = j1  j2 = j2  j3 = j3
  Jobs <- ThreeJobs
  Uri <- ThreeUris
  Deletes = {TRUE}
  MaxRetries = 0
SPECIFICATION Spec
INVARIANT SuccessMeansAccepted
CHECK_DEADLOCK FALSE
