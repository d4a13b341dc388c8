SPECIFICATION Spec
CONSTANTS
  WordMod = 128
  Junk = Junk
  Fuel = 12
  Jobs <- OpenJobs
  FileBufsize = 1
  NoTree <- Nil
  ParseTokens <- parse_tokenlist
  GenerateCode <- generate_code
  WordsOf <- Words
  StackLines = 2
  CallLines = 6
  PrintWords = 12
CHECK_DEADLOCK FALSE
INVARIANTS
  FunctionsReturn
