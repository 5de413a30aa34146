SPECIFICATION ReportSpec
CONSTANTS
  SeqIDs <- MCSeqIDs
  StepCount <- FewStepCount
  NoSeq = NoSeq
  Wild = Wild
  ZeroedHeap = TRUE
  MaxStarts = 4
  MaxUnsolicited = 29
  MaxEvents = 10
  MaxCount = 31
  Cmd = "axisInfo"
  NoRequest = NoRequest
  FaultKinds = {"duplicate", "stray"}
  MaxFaults = 2
  Steps <- FewSteps
  ByteSize <- MCByteSize
  RegisterSets <- MCRegisterSets
  StrayPayloads <- MCStrayPayloads
  Garbage <- MCZeroed
  Missing = Missing
INVARIANTS
  GapsBounded
