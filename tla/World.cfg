SPECIFICATION Spec
CONSTANTS
  Handled = {"TUX", "MP2", "BOOK_C", "GPS_BAD", "GPS_GOOD", "GPS_SPEC", "BATT_EMPTY", "BATT_FULL", "MTN_DEW", "FISH", "ICARD", "CAR_KEY", "ROBOT_DEAD", "ROBOT_LIVE", "MIMO_CARD"}
  Droppable = {"TUX", "BATT_EMPTY", "BATT_FULL", "GPS_GOOD", "ICARD"}
  DropRooms = {"IN_391LAB", "CAR_SITE"}
INVARIANTS
  OneForm
  HoodShows
  LocksHold
  NoShortcut
CHECK_DEADLOCK FALSE
