SPECIFICATION FairSpec
CONSTANT N = 3
INVARIANTS
  TypeOK
  NoCycles
  CalleesFirst
  DepthBounded
  RaiseNeedsSharedCallee
  IndInv
PROPERTY Terminates
CHECK_DEADLOCK FALSE
