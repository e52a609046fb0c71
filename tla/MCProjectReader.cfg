SPECIFICATION Spec
CONSTANTS
  Modulus = 128
  Magic = 7
  Version = 1
  Limit = 124
  Storages <- PackedOrCorrupted
INVARIANTS
  StaysInside
  ReadsWhatThePackerWrote
  AcceptsOnlyProjects
CHECK_DEADLOCK FALSE
