CONSTANTS
  Symbols = {"1", "quote", "newline", "return", "nul", "semicolon", ".", "/", "space", "(", "csv"}
  kMaxMessageSize = 2
  MaxLength = 4
  MaxNumber = 11
SPECIFICATION Spec
INVARIANTS
  CsvReadable
  MessageComplete
  DumpGrouped
  RolledNames
  FuncNameFound
