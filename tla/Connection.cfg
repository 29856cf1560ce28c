CONSTANTS
  MaxLen = 4
  LongestLine = 6
  MaxMsgs = 3
  RioSize = 3
  SocketSize = 8
SPECIFICATION Spec
INVARIANTS ConnectionIInv FitsArrivesWhole InSequence
PROPERTIES WrittenIsRead
CHECK_DEADLOCK FALSE
