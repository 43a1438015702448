SPECIFICATION Spec
CONSTANTS
  MaxSlots = 2
  MaxGen = 3
  MaxUse = 2
  Handles = {h1, h2, h3}
  Here = w1
  Elsewhere = w2
  Vacant = Vacant
  NoToken = NoToken
INVARIANTS
  TypeOK
  NoDanglingToken
  CountIsHolders
  PendingIsHeld
  ReusableIsFree
  SuspendedDropIsDead
PROPERTY LifecycleSpec
CHECK_DEADLOCK FALSE
