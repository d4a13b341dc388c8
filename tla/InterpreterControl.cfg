SPECIFICATION Spec
CONSTANTS
  WordMod = 64
  Junk = Junk
  Programs <- ControlPrograms
  Arguments <- TwoArguments
  Ipcs = {1, 4}
  StackLines = 1
  CallLines = 1
  PrintWords = 2
  OverrunLines = 0
CHECK_DEADLOCK FALSE
INVARIANTS
  CycleBudget
  ControlStays
PROPERTIES
  CycleEnds
  ImplementsMachine
