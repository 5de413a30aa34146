SPECIFICATION FairSpec
CONSTANTS
  SeqIDs <- MCSeqIDs
  StepCount <- MCStepCount
  NoSeq = NoSeq
  Wild = Wild
  ZeroedHeap = FALSE
  MaxStarts = 2
  MaxUnsolicited = 2
INVARIANTS
  TypeOK
  NoLostWakeup
  UnearnedBounded
  SafeDispatch
  ExecutionOwnership
  StartedInOrder
PROPERTIES
  CompleteOnFinish
  Scheduled
  FinishesUnlessError
CHECK_DEADLOCK FALSE
