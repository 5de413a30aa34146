SPECIFICATION Spec
CONSTANTS
  ByteBits = 2
  MaxData = 5
  IDs <- MCIDs
  Cmds <- MCCmds
  Values <- MCValues
  Garbage <- MCGarbage
  MaxAppends = 3
INVARIANTS
  TypeOK
  AddressDelivered
  ReadBack
CHECK_DEADLOCK FALSE
