SPECIFICATION Spec
CONSTANTS
  Type <- SizedTypes
  NoElem = NoElem
  IntType <- Bool
  BoolType <- Bool
  BytesType <- ByteArrays
  DynArrays <- NoArrays
  MaxLevel = 1
  MaxId = 2
  MaxVars = 2
  NFunc = 2
  OutputLists <- BytesOutputs
INVARIANT OutputsDeclared
CHECK_DEADLOCK FALSE
