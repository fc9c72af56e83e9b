CONSTANTS
  i = i
  j = j
  a = a
  b = b
  Proc = {p, q}
  Source <- RaceSource
  ABSENT = ABSENT
  TORN = TORN
  MaxCrashes = 0
  MaxFaults = 1
  SyncFaults = TRUE
  MaxDamage = 1
SPECIFICATION Spec
SYMMETRY Commands
INVARIANTS
  FilesAreValid
  
