SPECIFICATION FairSpec
CONSTANT MaxProcs = 5
INVARIANTS
  Accounting
  MappingFollows
  ContextOnOwnStack
  ExclusiveOutsideWindow
PROPERTIES
  NoScribble
  Stacks
  UserPageRefreshed
\* Undefined behaviour (Wild) ends a behaviour.
CHECK_DEADLOCK FALSE
