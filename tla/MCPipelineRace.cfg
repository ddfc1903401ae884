SPECIFICATION Spec
CONSTANTS
  Gen = {g1}
  NoGen = NoGen
  venom = venom
  default = default
  v1 = v1
  v2 = v2
  d1 = d1
  q1 = q1
  q2 = q2
  b1 = b1
  b2 = b2
  Compiler = {venom, default}
  Runner = {v1, d1}
  CompilerOf <- MCCompilerOfPair
  Queue = {q1, q2}
  QueueOf <- MCQueueOf
  Broker = {b1, b2}
  BrokerOf <- MCDedicated
  Clean = {"ok"}
  Deterministic = TRUE
  MaxFaults = 0
  MaxReports = 1
INVARIANTS
  NoRaceInRunners
