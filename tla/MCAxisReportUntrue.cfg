SPECIFICATION ReportSpec
CONSTANTS
  SeqIDs <- MCSeqIDs
  StepCount <- FullStepCount
  NoSeq = NoSeq
  Wild = Wild
  ZeroedHeap = TRUE
  MaxStarts = 4
  MaxUnsolicited = 29
  MaxEvents = 10
  MaxCount = 31
  Cmd = "axisInfo"
  NoRequest = NoRequest
  FaultKinds = {}
  MaxFaults = 0
  Steps <- AxisInfoSteps
  ByteSize <- MCByteSize
  RegisterSets <- MCMovedBack
  StrayPayloads <- MCStrayPayloads
  Garbage <- MCLeftover
  Missing = Missing
INVARIANTS
  ReportTrue
