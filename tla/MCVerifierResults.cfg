SPECIFICATION Spec
CONSTANTS
  N = 3
  MaxFuncs = 2
  K = 2
  Strategy <- MCStrategy
  Args = {0, 1}
  Zero = 0
  Value = {0, 1}
  Message = {"m1", "m2"}
  Chain <- MCChain
  Behaviour <- MCBehaviour
  Processes <- MCProcesses
INVARIANTS
  DiscrepancyLocated
  DeploymentsCompared
  DiscrepancyCaused
CHECK_DEADLOCK FALSE
