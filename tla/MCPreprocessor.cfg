SPECIFICATION Spec
CONSTANTS
  Names <- AllNames
  NumberOf <- Numbers
  WordBits = 8
  MaxDepth = 4
  MaxParameters = 2
  Projects <- AllProjects
  MaxSource = 100
  OutputSlack = 10
  MacrosPerFile = 2
  MacroSlack = 2
INVARIANTS
  SameTokens
  RefusesWhatTheHostRefuses
  GroupsAsNested
CHECK_DEADLOCK FALSE
