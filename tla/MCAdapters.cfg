SPECIFICATION Spec
CONSTANTS
  Adapters = {"mysql", "rethinkdb", "redis"}
  User = {"a", "ab"}
  Hostname = {"c", "bc"}
  Id = {i1, i2}
  KeyOf <- const_KeyOf
  Event = {e1, e2}
  None = None
  MaxCalls = 4
SYMMETRY symmetry
INVARIANTS FoundWasIssued NoDatabaseOnlyAfterCreate
PROPERTIES RowsGoByTheirOwner SavedIsKept
