SPECIFICATION FairSpec
CONSTANTS
  Leds = {d1}
  Pointer = p
  Reports <- MCReports
  Line = 3
INVARIANTS
  ButtonsFollow
PROPERTIES
  LedsFollow
  AckComes
