SPECIFICATION BuildSpec
CONSTANTS
  Reach = 90
  Jobs <- AllJobs
  Registers = {1, 15}
  Literals <- EdgeLiterals
INVARIANTS
  RunsAsWritten
  NothingLeftOut
  StubsAsNeeded
  SizesMirrorCode
PROPERTIES
  LinkEnds
CHECK_DEADLOCK FALSE
