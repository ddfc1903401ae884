SPECIFICATION MCSpec
CONSTANTS
  NCompiler = 2
  b1 = b1
  b2 = b2
  Broker = {b1, b2}
  NoBroker = NoBroker
  r1 = r1
  r2 = r2
  Replica <- Replicas
  Deployments <- Names
  Unknown = Unknown
  Generator = Generator
  MaxAttempts = 2
  NTask = 2
  Poison <- Second
  MaxStops = 1
INVARIANTS
  TypeOK
  TaskKept
  PatientGenerator
PROPERTIES
  RunnersRecover
  TasksExecuted
CHECK_DEADLOCK FALSE
