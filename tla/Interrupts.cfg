SPECIFICATION SpecPic
CONSTANTS
  NumTerminals = 2
  TargetFreq = 4
  MaxFreq = 32
  Freqs = {0, 2, 3, 8}
  MaxDepth = 2
  MaxFds = 2
INVARIANTS
  CountsDown
  ReadWaitsWhileOn
PROPERTIES
  ReadsReturnUnlessHeld
  TimerGetsThrough
