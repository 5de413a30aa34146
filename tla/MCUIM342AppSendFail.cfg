SPECIFICATION FairSpec
CONSTANTS
  SeqIDs <- MCSeqIDs
  StepCount <- ShortStepCount
  NoSeq = NoSeq
  Wild = Wild
  ZeroedHeap = TRUE
  MaxStarts = 4
  MaxUnsolicited = 12
  MaxEvents = 10
  MaxCount = 12
  Cmd = "axisInfo"
  NoRequest = NoRequest
  FaultKinds = {"sendFail"}
  MaxFaults = 1
PROPERTIES
  StepErrorEndsSequence
CHECK_DEADLOCK FALSE
