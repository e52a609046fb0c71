SPECIFICATION NativeSpec
CONSTANTS
  WordBits = 16
  Second = 12
  Jobs <- AllJobs
INVARIANTS
  TableIsFresh
PROPERTIES
  ImplementsReference
  RunEnds
CHECK_DEADLOCK FALSE
