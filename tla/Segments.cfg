SPECIFICATION Spec
CONSTANTS
  Ids = {i1, i2}
  Tiers = {"jit", "interp"}
  Modules <- SomeModules
  Size = 2
  Zero = Zero
INVARIANTS
  EntriesAreCallable
  SpentOnce
PROPERTIES
  StartSeesAll
  PassiveReady
CHECK_DEADLOCK FALSE
