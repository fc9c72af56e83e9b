CONSTANTS
  i = i
  j = j
  p = p
  q = q
  NONE = NONE
  Source <- MCSource
  Documents <- MCDocuments
  Caller = {c}
  MaxStarts = 2
  Faults = {"edit", "ping", "restore"}
SPECIFICATION FairSpec
INVARIANTS
  OneEngine
  ReloadIsExact
  DeadOnlyUnrestored
  ReadyIsComplete
  FailedReloadKeepsSources
 
