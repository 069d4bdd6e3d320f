SPECIFICATION FairSpec
CONSTANTS
  Processes = {p, q}
  Plain = {"n"}
  Values = {"3", "5"}
  Contents <- MCContents
  Bytes <- MCBytes
  AsInt <- MCAsInt
  Parts <- MCParts
  Texts <- MCTexts
  LengthOf <- MCLengthOf
  MaxCalls = 3
  Failures = {"lock", "open", "write", "close", "read", "unlink"}
  Crashes = {q}
CHECK_DEADLOCK FALSE
INVARIANT StringsMatch
PROPERTY ImplementsRegister
PROPERTY CallsEnd
