SPECIFICATION Spec
CONSTANTS
  Jobs <- AllJobs
  Inputs <- SomeInputs
  NV = 24
  Fuel = 10
  IterationLimit = 2
  InstructionLimit = 16
  RegisterBudget = 3
  UnrollLimit = 2
  LapLimit = 64
  Undef = Undef
  Unknown = Unknown
  Varying = Varying
INVARIANTS
  SameBehaviour
  RaisesForKnownReasonsOnly
PROPERTIES
  PipelineEnds
CHECK_DEADLOCK FALSE
