SPECIFICATION ScanSpec
CONSTANTS
  Modes = {"small", "large", "percent", "unknown"}
  Number = {0, 9, 35, 63, 64, 100, 1300}
  Count = {1, 2, 37}
  MaxTokens = 2
  Char <- const_Char
  MaxText = 4
  MaxUint = 2047
CHECK_DEADLOCK FALSE
INVARIANTS DecodesWhatWasEncoded
PROPERTIES Terminates
