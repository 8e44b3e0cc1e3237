SPECIFICATION FairSpec
CONSTANTS
  Msgs = {m1, m2}
  Delay = 3
INVARIANTS
  NoLostMessage
PROPERTIES
  ExpiresInTime
  ReturnsToIdle
