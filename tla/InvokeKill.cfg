SPECIFICATION Spec
CONSTANTS
  a = a
  b = b
  c = c
  Process <- Three
  Killable <- Two
  ExitCodes = {0, 7}
INVARIANTS
  TypeOK
  OneThread
  NoUseAfterFree
  ResultIsOwn
  TokensFromKills
  QuietRunsComplete
PROPERTIES
  KilledReturns
  HaltReturns
