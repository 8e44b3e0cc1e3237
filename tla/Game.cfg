SPECIFICATION Spec
CONSTANTS
  Letters = {"g", " "}
  MaxTyped = 2
  Signals = {"SIGINT", "SIGQUIT"}
INVARIANTS
  VerbsReachable
  GivenBack
  NeverTwice
PROPERTIES
  KeysSurviveTicks
  TextKept
  SignalEnds
CHECK_DEADLOCK FALSE
