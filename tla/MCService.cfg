SPECIFICATION FairSpec
CONSTANTS
  e1 = e1
  e2 = e2
  e3 = e3
  h1 = h1
  h2 = h2
  None = None
  Event <- MCEvent
  Hostname <- MCHostname
  Time <- MCTime
  HostnameOf <- MCHostnameOf
  CreatedAt <- MCCreatedAt
  MaxExits = 1
INVARIANTS DeliveredOnce HostnameAccounted RowsOfProcessedEvents NoEventVanishes
PROPERTIES ImplementsDisposal EventuallyDisposed EventuallyListedOrMissed
