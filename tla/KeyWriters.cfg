SPECIFICATION Spec
CONSTANTS
  v = v
  w = w
  c1 = c1
  c2 = c2
  p1 = p1
  p2 = p2
  Zero = Zero
  Writer <- TwoWriters
  Cpu <- TwoCpus
  Password <- TwoPasswords
  KdfIter = 0
INVARIANTS
  SectionKeyCurrent
  RegistersClean
PROPERTIES
  StoreReturns
