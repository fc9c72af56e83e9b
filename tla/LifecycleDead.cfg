CONSTANTS
  i = i
  j = j
  p = p
  q = q
  NONE = NONE
  Source <- MCSource
  Documents <- MCDocuments
  Caller = {}
  MaxStarts = 1
  Faults = {"restore"}
SPECIFICATION Spec
INVARIANT StateMatchesEngine
