SPECIFICATION FairSpec
CONSTANTS
  SeqIDs <- MCSeqIDs
  StepCount <- FullStepCount
  NoSeq = NoSeq
  Wild = Wild
  ZeroedHeap = FALSE
  MaxStarts = 4
  MaxUnsolicited = 29
  MaxEvents = 10
  MaxCount = 29
  Cmd = "axisInfo"
  NoRequest = NoRequest
  FaultKinds = {}
  MaxFaults = 0
INVARIANTS
  RefusedOnlyWhileRunning
CHECK_DEADLOCK FALSE
