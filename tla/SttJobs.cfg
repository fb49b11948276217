CONSTANTS
  Workers = {w1, w2}
  Recordings <- MCRecordings
  Proto <- MCProto
  Base <- MCBase
  Header <- MCHeader
  Speech <- MCSpeech
  Configs <- MCConfigs
  Retries = 1
  Leftovers <- MCLeftovers
  MaxJobs = 2
  NoRecording = NoRecording
  NoPlace = NoPlace
  NoFile = NoFile
SPECIFICATION Spec
INVARIANT TypeOK
INVARIANT OwnResult
INVARIANT CleanSuccess
PROPERTY OriginalKept
PROPERTY JobReturns
CHECK_DEADLOCK FALSE
