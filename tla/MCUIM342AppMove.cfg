SPECIFICATION FairSpec
CONSTANTS
  SeqIDs <- MCSeqIDs
  StepCount <- FullStepCount
  NoSeq = NoSeq
  Wild = Wild
  ZeroedHeap = TRUE
  MaxStarts = 4
  MaxUnsolicited = 29
  MaxEvents = 10
  MaxCount = 29
  Cmd = "axisMove"
  NoRequest = NoRequest
  FaultKinds = {}
  MaxFaults = 0
INVARIANTS
  CommandDone
