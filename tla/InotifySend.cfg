\* Three jobs that share the token, each retried once at most.
CONSTANTS
  j1 = j1  j2 = j2  j3 = j3
  Jobs <- ThreeJobs
  Uri <- ThreeUris
  Deletes = {TRUE}
  MaxRetries = 1
SPECIFICATION Spec
INVARIANTS TypeOK FinishedOnce LockIsOwned SectionExclusive SentWithToken
PROPERTIES AllReturn
CHECK_DEADLOCK FALSE
