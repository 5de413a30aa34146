SPECIFICATION MotionSpec
CONSTANTS
  SeqIDs <- MCSeqIDs
  StepCount <- MCStepCount
  NoSeq = NoSeq
  Wild = Wild
  ZeroedHeap = TRUE
  MaxStarts = 4
  MaxUnsolicited = 12
  MaxEvents = 10
  MaxCount = 12
  Cmd = "axisMove"
  NoRequest = NoRequest
  FaultKinds = {"lose", "duplicate", "stray", "sendFail", "interrupt"}
  MaxFaults = 2
  RunPlans <- MCRunPlans
  Increments <- MCIncrements
  MaxInt = 2047
  PowerOn <- MCPowerOn
INVARIANTS
  MotionPrepared
  StoppedBeforeOff
  ParametersAsAsked
  RestsWhenComplete
CHECK_DEADLOCK FALSE
