SPECIFICATION FairSpec
CONSTANTS
  Size = 4
INVARIANTS
  ImmediateDominators
  FrontiersExact
  LoopsAreNatural
PROPERTIES
  Converges
CHECK_DEADLOCK FALSE
