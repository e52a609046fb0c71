SPECIFICATION RSpec
CONSTANTS
  Programs <- ShapesAndOperands
  NV = 8
  Word = {1, 2}
  Undef = Undef
  ArgumentRegisters = 5
  CallerSaved <- SomeCallerSaved
  CalleeSaved <- SomeCalleeSaved
INVARIANTS
  SamePlace
  SameOperands
  SameInRegisters
CHECK_DEADLOCK FALSE
