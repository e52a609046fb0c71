SPECIFICATION RSpec
CONSTANTS
  Programs <- IndirectCalls
  NV = 4
  Word = {1, 2}
  Undef = Undef
  ArgumentRegisters = 5
  CallerSaved <- SomeCallerSaved
  CalleeSaved <- SomeCalleeSaved
INVARIANTS
  SameInRegisters
CHECK_DEADLOCK FALSE
