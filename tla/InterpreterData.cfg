SPECIFICATION Spec
CONSTANTS
  WordMod = 64
  Junk = Junk
  Programs <- DataPrograms
  Arguments <- NoArguments
  Ipcs = {3, 20}
  StackLines = 2
  CallLines = 4
  PrintWords = 2
  OverrunLines = 0
CHECK_DEADLOCK FALSE
INVARIANTS
  TypeOK
  CallLineInFrame
  RingHoldsLatest
PROPERTIES
  ImplementsMachine
