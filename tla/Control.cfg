CONSTANTS
  Daemon = {d1, d2}
  Client = {c, doc}
  Doctor = doc
  Asked <- MCAsked
  NONE = NONE
  FILE = FILE
SPECIFICATION FairSpec
INVARIANTS
  LoneDaemonReachable
  
  DoctorIsRight

  
  
