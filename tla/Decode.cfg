\* A recording shorter than a chunk, and one of three chunks with a short one at
\* the end; a reset after every batch, and after the second or third.
CONSTANTS
  Modes = {TRUE, FALSE}
  Lengths = {0, 1, 5}
  ReadSize = 2
  Stack = 1
  Silence = 1
  Periods = {0, 3}
  MaxCalls = 2
SPECIFICATION Spec
INVARIANTS TypeOK OwnSpeech InTime
PROPERTIES TranscriptSpec
CHECK_DEADLOCK FALSE
