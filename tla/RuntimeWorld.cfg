SPECIFICATION FairSpec
CONSTANTS
  Ids = {i1, i2, i3}
  Tiers = {"jit", "interp"}
  None = None
  MaxDepth = 4
  MaxReaders = 2
INVARIANTS
  TypeOK
  ViewsExcludeExecution
  CountsAreHolders
  CalledIsAlive
  IdleWorldCanFreeAll
  ClosingIsCalled
  SingleTier
PROPERTIES
  DroppedWorldIsEmptied
  UsesLifecycle
