SPECIFICATION Spec
CONSTANTS
  Ids = {"a", "b"}
  Mems = {"m"}
  Tables = {"shared"}
  Elements = {"fa", "fb"}
  Memories <- SharedMemory
  TableOf <- ConstantTable
  Own <- Functions
  Mutates = {"b"}
  Exported = {"shared"}
  None = None
  Miss = Miss
  MaxPages = 0
  MaxElements = 2
  MaxRevision = 3
  MaxDepth = 3
INVARIANTS
  ViewsAreLive
  EntriesAreLive
