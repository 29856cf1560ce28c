CONSTANTS
  alice = alice
  bob = bob
  carol = carol
  alice2 = alice2
  stranger = stranger
  Clients <- ChatClients
  Role <- ChatRole
  Name <- ChatName
  RoomNames = {r1, r2}
  Leavers = {alice2}
  MaxLines = 3
  MaxFds = 4
  MaxThreads = 3
  NoRoom = NoRoom
  Uninit = Uninit
  Nothing = Nothing
SPECIFICATION Spec
INVARIANTS TypeOK RightRoom Membership InOrder
SYMMETRY RoomSymmetry
CHECK_DEADLOCK FALSE
