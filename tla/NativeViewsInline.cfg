SPECIFICATION Spec
CONSTANTS
  Ids = {"a"}
  Mems = {"m"}
  Tables = {"private"}
  Elements = {"fa", "fb"}
  Memories <- NoMemories
  TableOf <- OneTable
  Own <- OwnFunctions
  Mutates = {"a"}
  Exported = {}
  None = None
  Miss = Miss
  MaxPages = 0
  MaxElements = 2
  MaxRevision = 3
  MaxDepth = 3
INVARIANTS
  EntriesAreLive
