SPECIFICATION Spec
CONSTANTS
  Runs = 3
  Codes <- SomeCodes
  Signals <- SomeSignals
INVARIANTS
  PassIsAnExit
  MeasuredAlone
PROPERTY
  DriverFinishes
