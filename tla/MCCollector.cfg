SPECIFICATION FairSpec
CONSTANTS
  r1 = r1
  Request <- const_Request
  Conf <- const_Conf
INVARIANTS ProperExitCutsNothing BatchedBySignalIsProcessed
PROPERTIES StopsAfterSignal
