SPECIFICATION FairSpec
CONSTANTS
  e1 = e1
  e2 = e2
  e3 = e3
  ha = ha
  hb = hb
  Event <- MCEvent
  Host <- MCHost
  HostOf <- MCHostOf
  FilesFail = TRUE
  MaxSaves = 2
INVARIANTS OneLineEach FlushProcessesBatches
PROPERTIES BatchesAreProcessed FlushReturns ImplementsBacking
