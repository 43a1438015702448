SPECIFICATION Spec
CONSTANTS
  Ids = {"a", "b"}
  Mems = {"m", "n"}
  Tables = {"shared"}
  Elements = {"null"}
  Memories <- GrowingMemories
  TableOf <- ConstantTable
  Own <- NoFunctions
  Mutates = {}
  Exported = {"shared"}
  None = None
  Miss = Miss
  MaxPages = 2
  MaxElements = 0
  MaxRevision = 0
  MaxDepth = 4
INVARIANTS
  TypeOK
  ViewsAreLive
  SlicesAreLive
  BorrowsAreExclusive
