CONSTANTS
  num_sets = 2
  num_blocks = 2
  num_bytes = 4
  Addresses = {0, 6, 8, 16, 20}
  MaxOps = 5
SPECIFICATION Spec
INVARIANTS CacheInv StackDistance
PROPERTIES PolicySpec
CHECK_DEADLOCK FALSE
