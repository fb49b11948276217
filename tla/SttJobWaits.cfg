CONSTANTS
  Workers = {w1}
  Recordings <- MCRecordings
  Proto <- MCProto
  Base <- MCBase
  Header <- MCHeader
  Speech <- MCSpeech
  Configs <- SftpConfigs
  Retries = 3
  Leftovers <- NoLeftovers
  MaxJobs = 2
  NoRecording = NoRecording
  NoPlace = NoPlace
  NoFile = NoFile
SPECIFICATION Spec
PROPERTY JobReturns
CHECK_DEADLOCK FALSE
