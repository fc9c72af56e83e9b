CONSTANTS
  a = a
  b = b
  d1 = d1
  d2 = d2
  d3 = d3
  NONE = NONE
  Id <- MCId
  SourceID <- MCSourceID
  LiveAlias <- MCLiveAlias
  Alias <- FixedAlias
  Database <- MCDatabase
  Documents <- FixedDocuments
  Kind <- ODBCKind
  Handle = {h1, h2}
  Probe = {}
  MaxOutages = 1
  Timeouts = TRUE
SPECIFICATION FairSpec
INVARIANTS
  NeverDownNeverLost
  CommitIsExact
  NoStrayCatalog
  
  FailureHasCause
PROPERTIES
  UnchangedStaysUp
  
