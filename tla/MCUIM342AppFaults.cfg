SPECIFICATION FairSpec
CONSTANTS
  SeqIDs <- MCSeqIDs
  StepCount <- ShortStepCount
  NoSeq = NoSeq
  Wild = Wild
  ZeroedHeap = FALSE
  MaxStarts = 4
  MaxUnsolicited = 12
  MaxEvents = 10
  MaxCount = 12
  Cmd = "axisInfo"
  NoRequest = NoRequest
  FaultKinds = {"lose", "duplicate", "stray", "sendFail", "interrupt",
                "netlinkFail", "initFail", "watchFail", "openFail"}
  MaxFaults = 2
INVARIANTS
  ReadsNeverBlock
  HangNeedsFault
  CrashExplained
  CommandDone
  LagBounded
  InFlightBounded
PROPERTIES
  TerminatesUnlessFault
CHECK_DEADLOCK FALSE
