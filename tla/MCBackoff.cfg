CONSTANTS
  Source = {s, t}
  NONE = NONE
  Given <- MCGiven
  MaxInt = 15
  Saturated = 4
  DefaultBase = 2
  DefaultMaximum = 8
  MaxFailures = 7
SPECIFICATION Spec
INVARIANTS
  DelaysBounded
  DelayIsExponential
