CONSTANTS
  N = 6
  Threshold = 2
  Inputs <- Files
  MaxDepth = 2
  MaxFailures = 2
SPECIFICATION Spec
INVARIANTS StatusHonest RaceFree NothingLost OrphansExplained
PROPERTIES EveryoneEnds
CHECK_DEADLOCK FALSE
