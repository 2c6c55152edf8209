SPECIFICATION Spec
CONSTANTS
  Adapters = {"clickhouse", "mysql", "rethinkdb"}
  Version <- const_Version
  AdapterVersion <- const_AdapterVersion
  None = None
  Subscriptions = TRUE
  ReadsFail = TRUE
INVARIANTS VersionIsCommitPoint SoundService
PROPERTIES DestroyedOnlyWhenAsked CreatedIsEmpty NewerIsLeftAlone
