SPECIFICATION Spec
CONSTANTS
  Ids = {i1, i2}
  Tiers = {"jit"}
  Modules <- SomeModules
  Size = 2
  Zero = Zero
INVARIANT
  DataOnce
CHECK_DEADLOCK FALSE
