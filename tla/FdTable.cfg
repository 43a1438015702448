SPECIFICATION Spec
CONSTANTS
  Streams = 1
  Preopens = 2
  MaxFd = 4
  Names = {"a", "c:"}
  Prefixed = {"c:"}
  Up = ".."
  MaxPath = 2
  RightsSets <- SomeRights
  Nowhere = Nowhere
INVARIANTS
  LexicallyBelow
  EveryEntryCloses
PROPERTIES
  RightsOnlyShrink
  ImplementsMap
CHECK_DEADLOCK FALSE
