\* Two threads for speech and two for text, one or two GPUs, a channel, and two
\* jobs, of any of the kinds, so that both of one kind can be met.
CONSTANTS
  s1 = s1  s2 = s2  t1 = t1  t2 = t2  h1 = h1
  Threads <- All
  SttThreads <- TwoStt
  TextThreads <- TwoText
  TextKinds <- Kinds
  Main = Main
  MaxJobs = 2
  Channels = 1
  HasUnsegment = TRUE
  GpuNums = {1, 2}
  IdGpu = 0
  Handles = {h1}
  SspUtil = {TRUE}
  Leftovers <- NoneOrAll
  NoText = NoText
SPECIFICATION Spec
INVARIANTS TypeOK ChildFate GpuOfChild UnloadLast OwnText
CHECK_DEADLOCK FALSE
SYMMETRY SttSymmetry
