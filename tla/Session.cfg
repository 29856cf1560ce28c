CONSTANTS
  bob = bob
  carol = carol
  r1 = r1
  r2 = r2
  Clients <- MCClients
  Role <- MCRole
  Name <- MCName
  Leavers <- MCClients
  RoomNames = {r1, r2}
  RoomArg <- MCRoomArg
  MaxTyped = 2
  MaxLines = 5
  MaxFds = 2
  MaxThreads = 2
  NoRoom = NoRoom
  Uninit = Uninit
  Nothing = Nothing
SPECIFICATION SessionSpec
INVARIANTS InStep HeardInOrder
PROPERTIES Answered EveryTextHeard GoneIsRemoved ServerSpec
CHECK_DEADLOCK FALSE
