SPECIFICATION Spec
CONSTANTS
  Block = 2
  Tick = 3
  Targets <- SomeTargets
  Endless = Endless
  MaxStall = 2
  MaxNow = 20
INVARIANT
  NeverOverstates
PROPERTY
  ProbeEnds
