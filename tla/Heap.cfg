SPECIFICATION Spec
CONSTANTS
  Modulus = 64
  Base = 8
  Stacks = {44, 60}
  Request = {0, 1, 8, 13, 62}
  Counts = {2, 11}
  Contents = {A, B}
  Zero = Zero
  Junk = Junk
  Header = Header
INVARIANTS
  Tiling
  Coalesced
  LargeEnough
  ContentsKept
PROPERTIES
  ImplementsAllocator
CHECK_DEADLOCK FALSE
