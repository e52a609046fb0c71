SPECIFICATION FairSpec
CONSTANTS
  Jobs = 2
  Resets = 1
  MaxImage = 2
  OutputCapacities = {3, 4, 6, 8, 10, 12}
  MaxOutput = 3
  Garbage = Garbage
  CannotFail = {}
INVARIANTS
  SuccessIsComplete
  EverythingFreed
  RunsWhatWasCompiled
PROPERTIES
  RegionKept
  Answered
CHECK_DEADLOCK FALSE
