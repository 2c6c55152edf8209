SPECIFICATION Spec
CONSTANTS
  u1 = u1
  u2 = u2
  h1 = h1
  h2 = h2
  i1 = i1
  i2 = i2
  None = None
  User <- MCUser
  Hostname <- MCHostname
  Id <- MCId
  ReadsFail = TRUE
  Trial = 1
  MaxTime = 2
SYMMETRY MCSymmetry
INVARIANTS FoundWasIssued FoundSeenSinceLoad RegisteredIsFound
PROPERTIES ExpiredForEver
