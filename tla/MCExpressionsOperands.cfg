SPECIFICATION Spec
CONSTANTS
  ByteBits = 1
  WordBytes = 2
  MaxBytes = 2
  MaxList = 2
  MaxPower = 4
  MaxBits = 2
  TextSize = 2
  DecimalBytes = 2
  AddressBytes = 2
  IntOps <- NaginiOps
  DecimalOps <- DecOps
  Raw <- RawNumbers
  Declared <- Words
  MaxTopics = 2
  MaxDepth = 2
  DeepOps <- RootOps
  DeepType <- Int2
  NoValue = NoValue
CHECK_DEADLOCK FALSE
INVARIANT OperandsLegal
