SPECIFICATION Spec
CONSTANTS
  Type <- ScopeTypes
  NoElem = NoElem
  IntType <- Uint
  BoolType <- Uint
  BytesType <- ByteArray
  DynArrays <- Arrays
  MaxLevel = 2
  MaxId = 2
  MaxVars = 2
  NFunc = 2
  OutputLists <- BytesOutputs
INVARIANTS
  TypeOK
  NamesUnique
  LocalsInScope
  EffectsDeclared
CHECK_DEADLOCK FALSE
