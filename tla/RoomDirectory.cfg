CONSTANTS
  Workers = {w1, w2, w3}
  RoomNames = {r1, r2}
  Objects = {o1, o2, o3}
  NoRoom = NoRoom
  Unlocked = Unlocked
SPECIFICATION LookupSpec
PROPERTY DirectorySpec
