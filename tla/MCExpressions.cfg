SPECIFICATION Spec
CONSTANTS
  ByteBits = 1
  WordBytes = 2
  MaxBytes = 2
  MaxList = 2
  MaxPower = 4
  MaxBits = 2
  TextSize = 2
  DecimalBytes = 2
  AddressBytes = 2
  IntOps <- AllOps
  DecimalOps <- DecOps
  Raw <- RawNumbers
  Declared <- Types
  MaxTopics = 2
  MaxDepth = 3
  DeepOps <- RootOps
  DeepType <- Int2
  NoValue = NoValue
INVARIANTS
  TypeOK
  TypesBalanced
  OperandsClosed
  SizesFit
  
  ConstantsFixed
CHECK_DEADLOCK FALSE
