SPECIFICATION Spec
CONSTANTS
  Streams = 1
  Preopens = 1
  MaxFd = 3
  Names = {"a"}
  Prefixed = {}
  Up = ".."
  MaxPath = 1
  RightsSets <- SomeRights
  Nowhere = Nowhere
INVARIANT
  FdstatResolves
CHECK_DEADLOCK FALSE
