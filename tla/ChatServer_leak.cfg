CONSTANTS
  alice = alice
  bob = bob
  carol = carol
  alice2 = alice2
  stranger = stranger
  Clients <- PairClients
  Role <- PairRole
  Name <- PairName
  RoomNames = {r1}
  Leavers = {carol}
  MaxLines = 2
  MaxFds = 2
  MaxThreads = 4
  NoRoom = NoRoom
  Uninit = Uninit
  Nothing = Nothing
SPECIFICATION Spec
PROPERTY DescriptorsReturned
CHECK_DEADLOCK FALSE
