SPECIFICATION EmitFairSpec
CONSTANTS
  Capacities = {20, 60}
  Opcodes = {1, 52}
  Globals <- SomeGlobals
  MaxCode = 2
  MaxGlobals = 2
  None = None
INVARIANTS
  LayoutKept
PROPERTIES
  Returns
CHECK_DEADLOCK FALSE
