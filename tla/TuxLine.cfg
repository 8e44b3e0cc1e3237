SPECIFICATION SpecLine
CONSTANTS
  NumPackets = 3
  Resets = {2}
  RingRoom = 6
  PacketRoom = 5
  MaxLost = 2
  NumCommands = 2
  Size = 2
  DriverRoom = 10
INVARIANTS
  WholeHandled
  LossDetected
  HandledInOrder
  CommandsWhole
