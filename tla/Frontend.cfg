SPECIFICATION Spec
CONSTANTS
  p1 = p1
  p2 = p2
  Proc = {p1, p2}
  Char <- Chars
  JobsOf <- AllJobsOf
  PwSize = 3
  WordMod = 16
  SizeMod = 64
  NUL = NUL
  Eof = Eof
  Nobody = Nobody
  NoKey = NoKey
INVARIANTS
  TypeOK
  ModuleSound
  KeyFromPassword
  NoTrace
  ReportTruthful
  EchoRight
