SPECIFICATION FairSpec
CONSTANTS
  NumTerminals = 2
  BufSize = 3
  Chars = {a}
  MaxLength = 4
INVARIANTS
  LineDelivered
PROPERTY EnterReturns
CHECK_DEADLOCK FALSE
