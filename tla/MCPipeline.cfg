SPECIFICATION FairPipeSpec
CONSTANTS
  good = good
  bad = bad
  torn = torn
  h1 = h1
  i1 = i1
  empty = empty
  None = None
  Event <- MCEvent
  Hostname <- MCHostname
  Time <- MCTime
  HostnameOf <- MCHostnameOf
  CreatedAt <- MCCreatedAt
  Parses <- MCParses
  WellFormed <- MCWellFormed
  Id = {i1, empty}
  NoId = empty
  SubscriptionOf <- MCSubscriptionOf
  Registered <- MCRegistered
  MaxExits = 2
  MaxStops = 1
INVARIANTS BadPageGetsNowhere KeptAsGiven
PROPERTIES BackedUpInTheEnd
