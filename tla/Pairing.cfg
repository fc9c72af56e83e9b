CONSTANTS
  Handler = {h1, h2}
  Server = {s1}
  Request = {r1, r2}
  NONE = NONE
  MaxTokens = 3
SPECIFICATION FairSpec
INVARIANTS
  TypeOK
  SingleUse
  OneToken
  Listening
  NoPairingLeft
PROPERTIES
  PairingsEnd
  
