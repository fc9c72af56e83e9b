CONSTANTS
  i = i
  j = j
  a = a
  b = b
  Proc = {p}
  Source <- MCSource
  ABSENT = ABSENT
  TORN = TORN
  MaxCrashes = 2
  MaxFaults = 1
  SyncFaults = FALSE
  MaxDamage = 0
SPECIFICATION Spec
INVARIANTS
  TypeOK
  
  
 
