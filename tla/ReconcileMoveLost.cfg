CONSTANTS
  a = a
  b = b
  d1 = d1
  d2 = d2
  d3 = d3
  NONE = NONE
  Id <- MCId
  SourceID <- MCSourceID
  LiveAlias <- MCLiveAlias
  Alias <- MovingAlias
  Database <- MCDatabase
  Documents <- MovingDocuments
  Kind <- FixedKind
  Handle = {}
  Probe = {}
  MaxOutages = 2
  Timeouts = FALSE
SPECIFICATION Spec
INVARIANT NeverDownNeverLost
