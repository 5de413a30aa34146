SPECIFICATION FairSpec
CONSTANTS
  FDs = {"quit", "pending", "bus"}
  QuitFD = "quit"
  MaxEvents = 3
  MaxCount = 2
INVARIANTS
  TypeOK
  NoBlockingRead
PROPERTIES
  NothingDropped
  QuitStopsLoop
  EveryEventServed
CHECK_DEADLOCK TRUE
