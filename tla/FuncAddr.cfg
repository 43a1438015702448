SPECIFICATION Spec
CONSTANTS
  Ids = {i1, i2}
  Nobody = Nobody
  Top = 4
  MaxFuncs = 2
SYMMETRY IdSymmetry
INVARIANTS
  TypeOK
  RangesDisjoint
  NoMisdispatch
  LocalFormsStayHome
CHECK_DEADLOCK FALSE
