SPECIFICATION Spec
CONSTANTS
  a = a
  b = b
  c = c
  Process <- Two
  Killable <- One
  ExitCodes = {0, 7}
INVARIANTS
  InterruptedBySignal
