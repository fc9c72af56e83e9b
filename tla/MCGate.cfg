CONSTANTS
  SourceID = {s1, s2}
  Alias = {a, b}
  Database = {d}
  Handle = {h1, h2}
  Probe = {p}
  NONE = NONE
  x = x
  Catalog = {x}
  Client = {c}
  Submitted <- MCSubmitted
SPECIFICATION GateSpec
SYMMETRY GateSymmetry
INVARIANTS
  EngineTypeOK
  
  ReadyIsRegistered
  ProbeCredentialsErased
  DecisionIsExact
  ListenerGuarded
  NothingLeftOpen
