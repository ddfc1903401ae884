--------------------------- MODULE PipelineProofs ---------------------------
(***************************************************************************)
(* Proofs about Pipeline for every number of contracts, compilers,         *)
(* replicas and brokers, and every bound on faults and reports.            *)
(***************************************************************************)
EXTENDS Pipeline, FiniteSetTheorems, TLAPS

(***************************************************************************)
(* TypeOK is inductive.                                                    *)
(***************************************************************************)

\* The initial state of the pipeline is well typed.
LEMMA InitTypeOK == Init => TypeOK
  BY GenAssumption, ConfigAssumption, CleanAssumption, BoundAssumption
     DEF Init, TypeOK, BlankRow, Row

\* Every step of every process keeps the variables in their types.
LEMMA NextTypeOK == TypeOK /\ [Next]_vars => TypeOK'
<1> SUFFICES ASSUME TypeOK, [Next]_vars PROVE TypeOK'
  OBVIOUS
<1> USE GenAssumption, ConfigAssumption, CleanAssumption, BoundAssumption
<1>1. ASSUME NEW g \in Gen, GenLog(g) PROVE TypeOK'
  <2>1. PICK row \in [Compiler -> Outcome] : truth' = [truth EXCEPT ![g] = row]
    BY <1>1 DEF GenLog, Truth, Outcome
  <2>2. truth' \in [Gen -> Row]
    BY <2>1 DEF TypeOK, Row
  <2>3. QED
    BY <1>1, <2>2 DEF TypeOK, GenLog, runnerVars, verifierVars
<1>2. ASSUME NEW q \in Queue, GenPublish(q) PROVE TypeOK'
  BY <1>2 DEF TypeOK, GenPublish, runnerVars, verifierVars
<1>3. CASE GenInsertEntry
  BY <1>3 DEF TypeOK, GenInsertEntry, runnerVars, verifierVars
<1>4. CASE GenCrash
  BY <1>4 DEF TypeOK, GenCrash, Fault, runnerVars, verifierVars
<1>5. CASE GenRestart
  BY <1>5 DEF TypeOK, GenRestart, runnerVars, verifierVars
<1>6. ASSUME NEW r \in Runner, NEW g \in Gen, Deliver(r, g) PROVE TypeOK'
  BY <1>6 DEF TypeOK, Deliver, BrokerFor, genVars, verifierVars
<1>7. ASSUME NEW r \in Runner, ExecuteAndFlag(r) PROVE TypeOK'
  <2>1. rgen[r] \in Gen /\ CompilerOf[r] \in Compiler
    BY <1>7 DEF TypeOK, ExecuteAndFlag
  <2>2. \A o \in Execution(rgen[r], CompilerOf[r]) : o \in Outcome \cup {NoResult}
    BY <2>1 DEF TypeOK, Execution, Row
  <2>3. rout' \in [Runner -> Outcome \cup {NoResult}]
    BY <1>7, <2>2 DEF TypeOK, ExecuteAndFlag
  <2>4. compiled' \in [Gen -> SUBSET Compiler]
    BY <1>7, <2>1 DEF TypeOK, ExecuteAndFlag
  <2>5. /\ rpc' \in [Runner -> {"idle", "execute", "store", "ack"}]
        /\ \A s \in Runner : rgen'[s] = NoGen <=> rpc'[s] = "idle"
    BY <1>7 DEF TypeOK, ExecuteAndFlag
  <2>6. QED
    BY <1>7, <2>3, <2>4, <2>5 DEF TypeOK, ExecuteAndFlag, genVars, verifierVars
<1>8. ASSUME NEW r \in Runner, StoreResult(r) PROVE TypeOK'
  <2>1. rgen[r] \in Gen /\ CompilerOf[r] \in Compiler
    BY <1>8 DEF TypeOK, StoreResult
  <2>2. result' \in [Gen -> Row]
    <3>1. [result[rgen[r]] EXCEPT ![CompilerOf[r]] = rout[r]] \in Row
      BY <2>1 DEF TypeOK, Row
    <3>2. \/ result' = result
          \/ result' = [result EXCEPT ![rgen[r]] =
                           [result[rgen[r]] EXCEPT ![CompilerOf[r]] = rout[r]]]
      BY <1>8 DEF StoreResult
    <3>3. result \in [Gen -> Row]
      BY DEF TypeOK
    <3>4. QED
      BY <2>1, <3>1, <3>2, <3>3
  <2>3. entry' \in [Gen -> {"absent", "new", "unhandled", "handled"}]
    BY <1>8, <2>1 DEF TypeOK, StoreResult
  <2>4. QED
    BY <1>8, <2>2, <2>3 DEF TypeOK, StoreResult, genVars, verifierVars
<1>9. ASSUME NEW r \in Runner, Ack(r) PROVE TypeOK'
  BY <1>9 DEF TypeOK, Ack, Release, genVars, verifierVars
<1>10. ASSUME NEW r \in Runner, RunnerCrash(r) PROVE TypeOK'
  BY <1>10 DEF TypeOK, RunnerCrash, Release, Requeued, Fault, BrokerFor, genVars,
               verifierVars
<1>11. ASSUME NEW r \in Runner, BrokerRequeue(r) PROVE TypeOK'
  BY <1>11 DEF TypeOK, BrokerRequeue, Requeued, Fault, BrokerFor, genVars,
               verifierVars
<1>12. CASE VerifierFind
  BY <1>12 DEF TypeOK, VerifierFind, Row, BlankRow, genVars, runnerVars
<1>13. CASE VerifierReport
  BY <1>13 DEF TypeOK, VerifierReport, Record, Bump, Forget, Row, BlankRow,
               genVars, runnerVars
<1>14. CASE VerifierMark
  BY <1>14 DEF TypeOK, VerifierMark, Mark, Forget, Row, BlankRow, genVars,
               runnerVars
<1>15. CASE VerifierCrash
  <2>1. snap' \in [Gen -> Row]
    BY <1>15 DEF VerifierCrash, Forget, Row, BlankRow
  <2>2. /\ reports' \in [Gen -> 0..MaxReports]
        /\ verdict' \in [Gen -> Row]
    <3>1. CASE UNCHANGED <<reports, verdict>>
      BY <3>1 DEF TypeOK
    <3>2. ASSUME NEW G \in SUBSET Reportable(snap), Record(G)
          PROVE  reports' \in [Gen -> 0..MaxReports] /\ verdict' \in [Gen -> Row]
      BY <3>2 DEF TypeOK, Record, Bump
    <3>3. QED
      BY <1>15, <3>1, <3>2 DEF VerifierCrash
  <2>3. entry' \in [Gen -> {"absent", "new", "unhandled", "handled"}]
    BY <1>15 DEF TypeOK, VerifierCrash, Mark
  <2>4. faults' \in 0..MaxFaults
    BY <1>15 DEF TypeOK, VerifierCrash, Fault
  <2>5. QED
    BY <1>15, <2>1, <2>2, <2>3, <2>4
       DEF TypeOK, VerifierCrash, Forget, genVars, runnerVars
<1>16. CASE VerifierRestart
  BY <1>16 DEF TypeOK, VerifierRestart, genVars, runnerVars
<1>17. CASE UNCHANGED vars
  BY <1>17 DEF TypeOK, vars, genVars, runnerVars, verifierVars
<1>18. QED
  BY <1>1, <1>2, <1>3, <1>4, <1>5, <1>6, <1>7, <1>8, <1>9, <1>10, <1>11, <1>12,
     <1>13, <1>14, <1>15, <1>16, <1>17
     DEF Next, GeneratorStep, RunnerStep, VerifierStep, FaultStep

\* Every reachable state is well typed, and the generator and each runner hold a
\* contract exactly while they work on it.
THEOREM TypeCorrect == Spec => []TypeOK
<1>1. Init => TypeOK
  BY InitTypeOK
<1>2. TypeOK /\ [Next]_vars => TypeOK'
  BY NextTypeOK
<1>3. QED
  BY <1>1, <1>2, PTL DEF Spec

\* An execution of a known contract yields an outcome.
LEMMA ExecutionOutcome ==
  ASSUME TypeOK, KnownContracts, NEW r \in Runner, rpc[r] = "execute",
         NEW o \in Execution(rgen[r], CompilerOf[r])
  PROVE  o \in Outcome /\ o # NoResult
<1>1. rgen[r] \in logged /\ CompilerOf[r] \in Compiler
  BY ConfigAssumption DEF TypeOK, KnownContracts
<1>2. o \in Outcome
  BY <1>1 DEF Execution, KnownContracts
<1>3. NoResult \notin Outcome
  BY CleanAssumption DEF Outcome, NoResult, DeployError, Empty
<1>4. QED
  BY <1>2, <1>3

\* Nothing but GenLog introduces a contract.
LEMMA NextKnownContracts ==
  ASSUME TypeOK, KnownContracts, VerifierPass, [Next]_vars
  PROVE  KnownContracts'
<1>1. ASSUME NEW g \in Gen, GenLog(g) PROVE KnownContracts'
  BY <1>1, GenAssumption, ConfigAssumption
     DEF TypeOK, KnownContracts, GenLog, Truth, Outcome, runnerVars, verifierVars
<1>2. ASSUME NEW q \in Queue, GenPublish(q) PROVE KnownContracts'
  BY <1>2, GenAssumption, ConfigAssumption
     DEF TypeOK, KnownContracts, GenPublish, runnerVars, verifierVars
<1>3. CASE GenInsertEntry
  BY <1>3, GenAssumption, ConfigAssumption
     DEF TypeOK, KnownContracts, GenInsertEntry, runnerVars, verifierVars
<1>4. CASE GenCrash
  BY <1>4, GenAssumption, ConfigAssumption
     DEF TypeOK, KnownContracts, GenCrash, runnerVars, verifierVars
<1>5. CASE GenRestart
  BY <1>5, GenAssumption, ConfigAssumption
     DEF TypeOK, KnownContracts, GenRestart, runnerVars, verifierVars
<1>6. ASSUME NEW r \in Runner, NEW g \in Gen, Deliver(r, g) PROVE KnownContracts'
  BY <1>6, GenAssumption, ConfigAssumption
     DEF TypeOK, KnownContracts, Deliver, BrokerFor, genVars, verifierVars
<1>7. ASSUME NEW r \in Runner, ExecuteAndFlag(r) PROVE KnownContracts'
  BY <1>7, GenAssumption, ConfigAssumption
     DEF TypeOK, KnownContracts, ExecuteAndFlag, genVars, verifierVars
<1>8. ASSUME NEW r \in Runner, StoreResult(r) PROVE KnownContracts'
  BY <1>8, GenAssumption, ConfigAssumption
     DEF TypeOK, KnownContracts, StoreResult, genVars, verifierVars
<1>9. ASSUME NEW r \in Runner, Ack(r) PROVE KnownContracts'
  BY <1>9, GenAssumption, ConfigAssumption
     DEF TypeOK, KnownContracts, Ack, Release, genVars, verifierVars
<1>10. ASSUME NEW r \in Runner, RunnerCrash(r) PROVE KnownContracts'
  BY <1>10, GenAssumption, ConfigAssumption
     DEF TypeOK, KnownContracts, RunnerCrash, Requeued, BrokerFor, Release,
         genVars, verifierVars
<1>11. ASSUME NEW r \in Runner, BrokerRequeue(r) PROVE KnownContracts'
  BY <1>11, GenAssumption, ConfigAssumption
     DEF TypeOK, KnownContracts, BrokerRequeue, Requeued, BrokerFor, genVars,
         verifierVars
<1>12. CASE VerifierFind
  BY <1>12, GenAssumption, ConfigAssumption
     DEF TypeOK, KnownContracts, VerifierFind, genVars, runnerVars
<1>13. CASE VerifierReport
  BY <1>13, GenAssumption, ConfigAssumption
     DEF TypeOK, KnownContracts, VerifierReport, VerifierPass, Record, Forget,
         Reportable, genVars, runnerVars
<1>14. CASE VerifierMark
  BY <1>14, GenAssumption, ConfigAssumption
     DEF TypeOK, KnownContracts, VerifierMark, VerifierPass, Mark, HandledIds,
         Reportable, Forget, genVars, runnerVars
<1>15. CASE VerifierCrash
  BY <1>15, GenAssumption, ConfigAssumption
     DEF TypeOK, KnownContracts, VerifierCrash, VerifierPass, Record, Mark,
         HandledIds, Reportable, Forget, genVars, runnerVars
<1>16. CASE VerifierRestart
  BY <1>16, GenAssumption, ConfigAssumption
     DEF TypeOK, KnownContracts, VerifierRestart, genVars, runnerVars
<1>17. CASE UNCHANGED vars
  BY <1>17, GenAssumption, ConfigAssumption
     DEF TypeOK, KnownContracts, vars, genVars, runnerVars, verifierVars
<1>18. QED
  BY <1>1, <1>2, <1>3, <1>4, <1>5, <1>6, <1>7, <1>8, <1>9, <1>10, <1>11, <1>12,
     <1>13, <1>14, <1>15, <1>16, <1>17
     DEF Next, GeneratorStep, RunnerStep, VerifierStep, FaultStep

\* A delivery is owned only by a working replica; the flag precedes the result.
LEMMA NextDeliveriesHeld ==
  ASSUME TypeOK, KnownContracts, DeliveriesHeld, [Next]_vars
  PROVE  DeliveriesHeld'
<1>1. ASSUME NEW g \in Gen, GenLog(g) PROVE DeliveriesHeld'
  BY <1>1, GenAssumption, ConfigAssumption
     DEF TypeOK, KnownContracts, DeliveriesHeld, GenLog, runnerVars,
         verifierVars
<1>2. ASSUME NEW q \in Queue, GenPublish(q) PROVE DeliveriesHeld'
  BY <1>2, GenAssumption, ConfigAssumption
     DEF TypeOK, KnownContracts, DeliveriesHeld, GenPublish, runnerVars,
         verifierVars
<1>3. CASE GenInsertEntry
  BY <1>3, GenAssumption, ConfigAssumption
     DEF TypeOK, KnownContracts, DeliveriesHeld, GenInsertEntry, runnerVars,
         verifierVars
<1>4. CASE GenCrash
  BY <1>4, GenAssumption, ConfigAssumption
     DEF TypeOK, KnownContracts, DeliveriesHeld, GenCrash, runnerVars,
         verifierVars
<1>5. CASE GenRestart
  BY <1>5, GenAssumption, ConfigAssumption
     DEF TypeOK, KnownContracts, DeliveriesHeld, GenRestart, runnerVars,
         verifierVars
<1>6. ASSUME NEW r \in Runner, NEW g \in Gen, Deliver(r, g) PROVE DeliveriesHeld'
  BY <1>6, GenAssumption, ConfigAssumption
     DEF TypeOK, KnownContracts, DeliveriesHeld, Deliver, genVars, verifierVars
<1>7. ASSUME NEW r \in Runner, ExecuteAndFlag(r) PROVE DeliveriesHeld'
  <2>1. rgen[r] \in logged /\ CompilerOf[r] \in Compiler
    BY <1>7, ConfigAssumption DEF TypeOK, KnownContracts, ExecuteAndFlag
  <2>2. /\ compiled'[rgen[r]] = compiled[rgen[r]] \cup {CompilerOf[r]}
        /\ \A g \in Gen : compiled[g] \subseteq compiled'[g]
    BY <1>7, <2>1 DEF TypeOK, ExecuteAndFlag
  <2>3. rout'[r] # NoResult
    <3>1. PICK o \in Execution(rgen[r], CompilerOf[r]) : rout' = [rout EXCEPT ![r] = o]
      BY <1>7 DEF ExecuteAndFlag
    <3>2. o # NoResult
      BY <1>7, ExecutionOutcome DEF ExecuteAndFlag
    <3>3. QED
      BY <3>1, <3>2 DEF TypeOK
  <2>4. \A s \in Runner \ {r} : rout'[s] = rout[s] /\ rpc'[s] = rpc[s]
    BY <1>7 DEF TypeOK, ExecuteAndFlag
  <2>5. rpc'[r] = "store" /\ UNCHANGED <<rgen, owns>>
    BY <1>7 DEF TypeOK, ExecuteAndFlag
  <2>6. QED
    BY <2>2, <2>3, <2>4, <2>5 DEF TypeOK, DeliveriesHeld
<1>8. ASSUME NEW r \in Runner, StoreResult(r) PROVE DeliveriesHeld'
  BY <1>8, GenAssumption, ConfigAssumption
     DEF TypeOK, KnownContracts, DeliveriesHeld, StoreResult, genVars,
         verifierVars
<1>9. ASSUME NEW r \in Runner, Ack(r) PROVE DeliveriesHeld'
  BY <1>9, GenAssumption, ConfigAssumption
     DEF TypeOK, KnownContracts, DeliveriesHeld, Ack, Release, genVars,
         verifierVars
<1>10. ASSUME NEW r \in Runner, RunnerCrash(r) PROVE DeliveriesHeld'
  BY <1>10, GenAssumption, ConfigAssumption
     DEF TypeOK, KnownContracts, DeliveriesHeld, RunnerCrash, Release, genVars,
         verifierVars
<1>11. ASSUME NEW r \in Runner, BrokerRequeue(r) PROVE DeliveriesHeld'
  BY <1>11, GenAssumption, ConfigAssumption
     DEF TypeOK, KnownContracts, DeliveriesHeld, BrokerRequeue, genVars,
         verifierVars
<1>12. CASE VerifierFind
  BY <1>12, GenAssumption, ConfigAssumption
     DEF TypeOK, KnownContracts, DeliveriesHeld, VerifierFind, genVars,
         runnerVars
<1>13. CASE VerifierReport
  BY <1>13, GenAssumption, ConfigAssumption
     DEF TypeOK, KnownContracts, DeliveriesHeld, VerifierReport, genVars,
         runnerVars
<1>14. CASE VerifierMark
  BY <1>14, GenAssumption, ConfigAssumption
     DEF TypeOK, KnownContracts, DeliveriesHeld, VerifierMark, genVars,
         runnerVars
<1>15. CASE VerifierCrash
  BY <1>15, GenAssumption, ConfigAssumption
     DEF TypeOK, KnownContracts, DeliveriesHeld, VerifierCrash, genVars,
         runnerVars
<1>16. CASE VerifierRestart
  BY <1>16, GenAssumption, ConfigAssumption
     DEF TypeOK, KnownContracts, DeliveriesHeld, VerifierRestart, genVars,
         runnerVars
<1>17. CASE UNCHANGED vars
  BY <1>17, GenAssumption, ConfigAssumption
     DEF TypeOK, KnownContracts, DeliveriesHeld, vars, genVars, runnerVars,
         verifierVars
<1>18. QED
  BY <1>1, <1>2, <1>3, <1>4, <1>5, <1>6, <1>7, <1>8, <1>9, <1>10, <1>11, <1>12,
     <1>13, <1>14, <1>15, <1>16, <1>17
     DEF Next, GeneratorStep, RunnerStep, VerifierStep, FaultStep

\* With a broker for each compiler, no step loses a task.
LEMMA NextTaskNotLost ==
  ASSUME TypeOK, KnownContracts, DeliveriesHeld, DedicatedBrokers, TaskNotLost, [Next]_vars
  PROVE  TaskNotLost'
<1>1. ASSUME NEW g \in Gen, GenLog(g) PROVE TaskNotLost'
  BY <1>1, GenAssumption, ConfigAssumption
     DEF TypeOK, KnownContracts, DeliveriesHeld, DedicatedBrokers, TaskNotLost,
         TaskPending, GenLog, runnerVars, verifierVars
<1>2. ASSUME NEW q \in Queue, GenPublish(q) PROVE TaskNotLost'
  BY <1>2, GenAssumption, ConfigAssumption
     DEF TypeOK, KnownContracts, DeliveriesHeld, DedicatedBrokers, TaskNotLost,
         TaskPending, GenPublish, BrokerFor, runnerVars, verifierVars
<1>3. CASE GenInsertEntry
  BY <1>3, GenAssumption, ConfigAssumption
     DEF TypeOK, KnownContracts, DeliveriesHeld, DedicatedBrokers, TaskNotLost,
         TaskPending, GenInsertEntry, runnerVars, verifierVars
<1>4. CASE GenCrash
  BY <1>4, GenAssumption, ConfigAssumption
     DEF TypeOK, KnownContracts, DeliveriesHeld, DedicatedBrokers, TaskNotLost,
         TaskPending, GenCrash, runnerVars, verifierVars
<1>5. CASE GenRestart
  BY <1>5, GenAssumption, ConfigAssumption
     DEF TypeOK, KnownContracts, DeliveriesHeld, DedicatedBrokers, TaskNotLost,
         TaskPending, GenRestart, runnerVars, verifierVars
<1>6. ASSUME NEW r \in Runner, NEW g \in Gen, Deliver(r, g) PROVE TaskNotLost'
  <2> SUFFICES ASSUME NEW h \in Gen, NEW c \in Compiler, QueueOf[c] \in sent[h],
                      c \notin compiled'[h], TaskPending(h, c)
               PROVE  TaskPending(h, c)'
    BY <1>6 DEF TaskNotLost, Deliver, genVars
  <2>1. ~ owns[r]
    BY <1>6 DEF DeliveriesHeld, Deliver
  <2>2. ASSUME NEW s \in Runner, owns[s], rgen[s] = h, CompilerOf[s] = c
        PROVE  owns'[s] /\ rgen'[s] = h
    BY <1>6, <2>1, <2>2 DEF TypeOK, Deliver
  <2>3. BrokerFor(c) \in Broker /\ BrokerFor(CompilerOf[r]) \in Broker
    BY ConfigAssumption DEF BrokerFor
  <2>4. CASE ready[BrokerFor(c)][h] > 0 /\ BrokerFor(c) = BrokerFor(CompilerOf[r])
             /\ h = g
    <3>1. CompilerOf[r] = c
      BY <2>4, ConfigAssumption DEF DedicatedBrokers
    <3>2. owns'[r] /\ rgen'[r] = h
      BY <1>6, <2>4 DEF TypeOK, Deliver
    <3>3. QED
      BY <3>1, <3>2 DEF TaskPending
  <2>5. CASE ready[BrokerFor(c)][h] > 0 /\ ~ (BrokerFor(c) = BrokerFor(CompilerOf[r])
             /\ h = g)
    <3>1. ready'[BrokerFor(c)][h] = ready[BrokerFor(c)][h]
      BY <1>6, <2>3, <2>5 DEF TypeOK, Deliver
    <3>2. QED
      BY <2>5, <3>1 DEF TaskPending, BrokerFor
  <2>6. QED
    BY <2>2, <2>4, <2>5 DEF TaskPending
<1>7. ASSUME NEW r \in Runner, ExecuteAndFlag(r) PROVE TaskNotLost'
  BY <1>7, GenAssumption, ConfigAssumption
     DEF TypeOK, KnownContracts, DeliveriesHeld, DedicatedBrokers, TaskNotLost,
         TaskPending, ExecuteAndFlag, genVars, verifierVars
<1>8. ASSUME NEW r \in Runner, StoreResult(r) PROVE TaskNotLost'
  BY <1>8, GenAssumption, ConfigAssumption
     DEF TypeOK, KnownContracts, DeliveriesHeld, DedicatedBrokers, TaskNotLost,
         TaskPending, StoreResult, genVars, verifierVars
<1>9. ASSUME NEW r \in Runner, Ack(r) PROVE TaskNotLost'
  <2> SUFFICES ASSUME NEW h \in Gen, NEW c \in Compiler, QueueOf[c] \in sent[h],
                      c \notin compiled'[h], TaskPending(h, c)
               PROVE  TaskPending(h, c)'
    BY <1>9 DEF TaskNotLost, Ack, genVars
  <2>1. ~ (owns[r] /\ rgen[r] = h /\ CompilerOf[r] = c)
    BY <1>9 DEF Ack, DeliveriesHeld
  <2>2. \A s \in Runner \ {r} : owns'[s] = owns[s] /\ rgen'[s] = rgen[s]
    BY <1>9 DEF TypeOK, Ack, Release
  <2>3. ready' = ready
    BY <1>9 DEF Ack
  <2>4. QED
    BY <2>1, <2>2, <2>3 DEF TaskPending, BrokerFor
<1>10. ASSUME NEW r \in Runner, RunnerCrash(r) PROVE TaskNotLost'
  <2> SUFFICES ASSUME NEW h \in Gen, NEW c \in Compiler, QueueOf[c] \in sent[h],
                      c \notin compiled'[h], TaskPending(h, c)
               PROVE  TaskPending(h, c)'
    BY <1>10 DEF TaskNotLost, RunnerCrash, genVars
  <2>1. BrokerFor(c) \in Broker /\ BrokerFor(CompilerOf[r]) \in Broker
    BY ConfigAssumption DEF BrokerFor
  <2>2. CASE owns[r] /\ rgen[r] = h /\ CompilerOf[r] = c
    <3>1. ready'[BrokerFor(c)][h] = ready[BrokerFor(c)][h] + 1
      BY <1>10, <2>1, <2>2 DEF TypeOK, RunnerCrash, Requeued
    <3>2. QED
      BY <2>1, <3>1 DEF TypeOK, TaskPending, BrokerFor
  <2>3. CASE ~ (owns[r] /\ rgen[r] = h /\ CompilerOf[r] = c)
    <3>1. \A s \in Runner \ {r} : owns'[s] = owns[s] /\ rgen'[s] = rgen[s]
      BY <1>10 DEF TypeOK, RunnerCrash, Release
    <3>2. ready'[BrokerFor(c)][h] >= ready[BrokerFor(c)][h]
      BY <1>10, <2>1 DEF TypeOK, RunnerCrash, Requeued
    <3>3. ready[BrokerFor(c)][h] \in Nat /\ ready'[BrokerFor(c)][h] \in Nat
      BY <1>10, <2>1 DEF TypeOK, RunnerCrash, Requeued
    <3>4. QED
      BY <2>3, <3>1, <3>2, <3>3 DEF TaskPending, BrokerFor
  <2>4. QED
    BY <2>2, <2>3
<1>11. ASSUME NEW r \in Runner, BrokerRequeue(r) PROVE TaskNotLost'
  BY <1>11, GenAssumption, ConfigAssumption
     DEF TypeOK, KnownContracts, DeliveriesHeld, DedicatedBrokers, TaskNotLost,
         TaskPending, BrokerRequeue, Requeued, BrokerFor, genVars, verifierVars
<1>12. CASE VerifierFind
  BY <1>12, GenAssumption, ConfigAssumption
     DEF TypeOK, KnownContracts, DeliveriesHeld, DedicatedBrokers, TaskNotLost,
         TaskPending, VerifierFind, genVars, runnerVars
<1>13. CASE VerifierReport
  BY <1>13, GenAssumption, ConfigAssumption
     DEF TypeOK, KnownContracts, DeliveriesHeld, DedicatedBrokers, TaskNotLost,
         TaskPending, VerifierReport, genVars, runnerVars
<1>14. CASE VerifierMark
  BY <1>14, GenAssumption, ConfigAssumption
     DEF TypeOK, KnownContracts, DeliveriesHeld, DedicatedBrokers, TaskNotLost,
         TaskPending, VerifierMark, genVars, runnerVars
<1>15. CASE VerifierCrash
  BY <1>15, GenAssumption, ConfigAssumption
     DEF TypeOK, KnownContracts, DeliveriesHeld, DedicatedBrokers, TaskNotLost,
         TaskPending, VerifierCrash, genVars, runnerVars
<1>16. CASE VerifierRestart
  BY <1>16, GenAssumption, ConfigAssumption
     DEF TypeOK, KnownContracts, DeliveriesHeld, DedicatedBrokers, TaskNotLost,
         TaskPending, VerifierRestart, genVars, runnerVars
<1>17. CASE UNCHANGED vars
  BY <1>17, GenAssumption, ConfigAssumption
     DEF TypeOK, KnownContracts, DeliveriesHeld, DedicatedBrokers, TaskNotLost,
         TaskPending, vars, genVars, runnerVars, verifierVars
<1>18. QED
  BY <1>1, <1>2, <1>3, <1>4, <1>5, <1>6, <1>7, <1>8, <1>9, <1>10, <1>11, <1>12,
     <1>13, <1>14, <1>15, <1>16, <1>17
     DEF Next, GeneratorStep, RunnerStep, VerifierStep, FaultStep

\* StoreResult touches at most one field of one document.
LEMMA StoredField ==
  ASSUME TypeOK, NEW r \in Runner, StoreResult(r)
  PROVE  \A g \in Gen, c \in Compiler :
           \/ result'[g][c] = result[g][c]
           \/ g = rgen[r] /\ c = CompilerOf[r] /\ result'[g][c] = rout[r]
<1>1. rgen[r] \in Gen /\ CompilerOf[r] \in Compiler
  BY ConfigAssumption DEF TypeOK, StoreResult
<1>2. CASE result' = result
  BY <1>2
<1>3. CASE result' = [result EXCEPT ![rgen[r]] =
                        [result[rgen[r]] EXCEPT ![CompilerOf[r]] = rout[r]]]
  <2> TAKE g \in Gen, c \in Compiler
  <2>1. CASE g # rgen[r]
    BY <1>1, <1>3, <2>1 DEF TypeOK
  <2>2. CASE g = rgen[r]
    <3>1. result'[g] = [result[g] EXCEPT ![CompilerOf[r]] = rout[r]]
      BY <1>1, <1>3, <2>2 DEF TypeOK
    <3>2. result[g] \in Row
      BY DEF TypeOK
    <3>3. QED
      BY <1>1, <2>2, <3>1, <3>2 DEF Row
  <2>3. QED
    BY <2>1, <2>2
<1>4. QED
  BY <1>2, <1>3 DEF StoreResult

\* Nobody but the verifier closes a document, and results are only added.
LEMMA NextVerifierPass ==
  ASSUME TypeOK, KnownContracts, DeliveriesHeld, VerifierPass, [Next]_vars
  PROVE  VerifierPass'
<1>1. ASSUME NEW g \in Gen, GenLog(g) PROVE VerifierPass'
  BY <1>1, GenAssumption, BoundAssumption
     DEF TypeOK, KnownContracts, DeliveriesHeld, VerifierPass, Reportable,
         ReadyToHandle, GenLog, runnerVars, verifierVars
<1>2. ASSUME NEW q \in Queue, GenPublish(q) PROVE VerifierPass'
  BY <1>2, GenAssumption, BoundAssumption
     DEF TypeOK, KnownContracts, DeliveriesHeld, VerifierPass, Reportable,
         ReadyToHandle, GenPublish, runnerVars, verifierVars
<1>3. CASE GenInsertEntry
  BY <1>3, GenAssumption, BoundAssumption
     DEF TypeOK, KnownContracts, DeliveriesHeld, VerifierPass, Reportable,
         ReadyToHandle, GenInsertEntry, runnerVars, verifierVars
<1>4. CASE GenCrash
  BY <1>4, GenAssumption, BoundAssumption
     DEF TypeOK, KnownContracts, DeliveriesHeld, VerifierPass, Reportable,
         ReadyToHandle, GenCrash, runnerVars, verifierVars
<1>5. CASE GenRestart
  BY <1>5, GenAssumption, BoundAssumption
     DEF TypeOK, KnownContracts, DeliveriesHeld, VerifierPass, Reportable,
         ReadyToHandle, GenRestart, runnerVars, verifierVars
<1>6. ASSUME NEW r \in Runner, NEW g \in Gen, Deliver(r, g) PROVE VerifierPass'
  BY <1>6, GenAssumption, BoundAssumption
     DEF TypeOK, KnownContracts, DeliveriesHeld, VerifierPass, Reportable,
         ReadyToHandle, Deliver, genVars, verifierVars
<1>7. ASSUME NEW r \in Runner, ExecuteAndFlag(r) PROVE VerifierPass'
  BY <1>7, GenAssumption, BoundAssumption
     DEF TypeOK, KnownContracts, DeliveriesHeld, VerifierPass, Reportable,
         ReadyToHandle, ExecuteAndFlag, genVars, verifierVars
<1>8. ASSUME NEW r \in Runner, StoreResult(r) PROVE VerifierPass'
  <2>0. rout[r] # NoResult
    BY <1>8 DEF DeliveriesHeld, StoreResult
  <2>1. \A g \in Gen, c \in Compiler : result[g][c] # NoResult => result'[g][c] # NoResult
    BY <1>8, <2>0, StoredField
  <2>2. \A g \in Gen : entry'[g] = "handled" => entry[g] = "handled"
    BY <1>8 DEF TypeOK, StoreResult
  <2>3. UNCHANGED <<vpc, seen, snap, reports, verdict, logged>>
    BY <1>8 DEF StoreResult, genVars, verifierVars
  <2>4. QED
    BY <2>1, <2>2, <2>3 DEF TypeOK, VerifierPass, Reportable, ReadyToHandle
<1>9. ASSUME NEW r \in Runner, Ack(r) PROVE VerifierPass'
  BY <1>9, GenAssumption, BoundAssumption
     DEF TypeOK, KnownContracts, DeliveriesHeld, VerifierPass, Reportable,
         ReadyToHandle, Ack, Release, genVars, verifierVars
<1>10. ASSUME NEW r \in Runner, RunnerCrash(r) PROVE VerifierPass'
  BY <1>10, GenAssumption, BoundAssumption
     DEF TypeOK, KnownContracts, DeliveriesHeld, VerifierPass, Reportable,
         ReadyToHandle, RunnerCrash, Release, genVars, verifierVars
<1>11. ASSUME NEW r \in Runner, BrokerRequeue(r) PROVE VerifierPass'
  BY <1>11, GenAssumption, BoundAssumption
     DEF TypeOK, KnownContracts, DeliveriesHeld, VerifierPass, Reportable,
         ReadyToHandle, BrokerRequeue, genVars, verifierVars
<1>12. CASE VerifierFind
  BY <1>12, GenAssumption, BoundAssumption
     DEF TypeOK, KnownContracts, DeliveriesHeld, VerifierPass, Reportable,
         ReadyToHandle, VerifierFind, BlankRow, genVars, runnerVars
<1>13. CASE VerifierReport
  BY <1>13, GenAssumption, BoundAssumption
     DEF TypeOK, KnownContracts, DeliveriesHeld, VerifierPass, Reportable,
         ReadyToHandle, VerifierReport, Record, Bump, Forget, BlankRow,
         genVars, runnerVars
<1>14. CASE VerifierMark
  BY <1>14, GenAssumption, BoundAssumption
     DEF TypeOK, KnownContracts, DeliveriesHeld, VerifierPass, Reportable,
         ReadyToHandle, VerifierMark, Mark, HandledIds, Forget, BlankRow,
         genVars, runnerVars
<1>15. CASE VerifierCrash
  BY <1>15, GenAssumption, BoundAssumption
     DEF TypeOK, KnownContracts, DeliveriesHeld, VerifierPass, Reportable,
         ReadyToHandle, VerifierCrash, Record, Mark, HandledIds, Forget,
         BlankRow, genVars, runnerVars
<1>16. CASE VerifierRestart
  BY <1>16, GenAssumption, BoundAssumption
     DEF TypeOK, KnownContracts, DeliveriesHeld, VerifierPass, Reportable,
         ReadyToHandle, VerifierRestart, genVars, runnerVars
<1>17. CASE UNCHANGED vars
  BY <1>17, GenAssumption, BoundAssumption
     DEF TypeOK, KnownContracts, DeliveriesHeld, VerifierPass, Reportable,
         ReadyToHandle, vars, genVars, runnerVars, verifierVars
<1>18. QED
  BY <1>1, <1>2, <1>3, <1>4, <1>5, <1>6, <1>7, <1>8, <1>9, <1>10, <1>11, <1>12,
     <1>13, <1>14, <1>15, <1>16, <1>17
     DEF Next, GeneratorStep, RunnerStep, VerifierStep, FaultStep

\* A document is marked after its verdict was written.
LEMMA NextHandledWasReported ==
  ASSUME TypeOK, VerifierPass, HandledWasReported, [Next]_vars
  PROVE  HandledWasReported'
<1>1. ASSUME NEW g \in Gen, GenLog(g) PROVE HandledWasReported'
  BY <1>1, GenAssumption, BoundAssumption
     DEF TypeOK, VerifierPass, HandledWasReported, GenLog, runnerVars,
         verifierVars
<1>2. ASSUME NEW q \in Queue, GenPublish(q) PROVE HandledWasReported'
  BY <1>2, GenAssumption, BoundAssumption
     DEF TypeOK, VerifierPass, HandledWasReported, GenPublish, runnerVars,
         verifierVars
<1>3. CASE GenInsertEntry
  BY <1>3, GenAssumption, BoundAssumption
     DEF TypeOK, VerifierPass, HandledWasReported, GenInsertEntry, runnerVars,
         verifierVars
<1>4. CASE GenCrash
  BY <1>4, GenAssumption, BoundAssumption
     DEF TypeOK, VerifierPass, HandledWasReported, GenCrash, runnerVars,
         verifierVars
<1>5. CASE GenRestart
  BY <1>5, GenAssumption, BoundAssumption
     DEF TypeOK, VerifierPass, HandledWasReported, GenRestart, runnerVars,
         verifierVars
<1>6. ASSUME NEW r \in Runner, NEW g \in Gen, Deliver(r, g) PROVE HandledWasReported'
  BY <1>6, GenAssumption, BoundAssumption
     DEF TypeOK, VerifierPass, HandledWasReported, Deliver, genVars,
         verifierVars
<1>7. ASSUME NEW r \in Runner, ExecuteAndFlag(r) PROVE HandledWasReported'
  BY <1>7, GenAssumption, BoundAssumption
     DEF TypeOK, VerifierPass, HandledWasReported, ExecuteAndFlag, genVars,
         verifierVars
<1>8. ASSUME NEW r \in Runner, StoreResult(r) PROVE HandledWasReported'
  BY <1>8, GenAssumption, BoundAssumption
     DEF TypeOK, VerifierPass, HandledWasReported, StoreResult, genVars,
         verifierVars
<1>9. ASSUME NEW r \in Runner, Ack(r) PROVE HandledWasReported'
  BY <1>9, GenAssumption, BoundAssumption
     DEF TypeOK, VerifierPass, HandledWasReported, Ack, Release, genVars,
         verifierVars
<1>10. ASSUME NEW r \in Runner, RunnerCrash(r) PROVE HandledWasReported'
  BY <1>10, GenAssumption, BoundAssumption
     DEF TypeOK, VerifierPass, HandledWasReported, RunnerCrash, Release,
         genVars, verifierVars
<1>11. ASSUME NEW r \in Runner, BrokerRequeue(r) PROVE HandledWasReported'
  BY <1>11, GenAssumption, BoundAssumption
     DEF TypeOK, VerifierPass, HandledWasReported, BrokerRequeue, genVars,
         verifierVars
<1>12. CASE VerifierFind
  BY <1>12, GenAssumption, BoundAssumption
     DEF TypeOK, VerifierPass, HandledWasReported, VerifierFind, genVars,
         runnerVars
<1>13. CASE VerifierReport
  BY <1>13, GenAssumption, BoundAssumption
     DEF TypeOK, VerifierPass, HandledWasReported, VerifierReport, Record,
         Reportable, genVars, runnerVars
<1>14. CASE VerifierMark
  BY <1>14, GenAssumption, BoundAssumption
     DEF TypeOK, VerifierPass, HandledWasReported, VerifierMark, Mark,
         HandledIds, Reportable, Complete, genVars, runnerVars
<1>15. CASE VerifierCrash
  BY <1>15, GenAssumption, BoundAssumption
     DEF TypeOK, VerifierPass, HandledWasReported, VerifierCrash, Record, Mark,
         HandledIds, Reportable, Complete, genVars, runnerVars
<1>16. CASE VerifierRestart
  BY <1>16, GenAssumption, BoundAssumption
     DEF TypeOK, VerifierPass, HandledWasReported, VerifierRestart, genVars,
         runnerVars
<1>17. CASE UNCHANGED vars
  BY <1>17, GenAssumption, BoundAssumption
     DEF TypeOK, VerifierPass, HandledWasReported, vars, genVars, runnerVars,
         verifierVars
<1>18. QED
  BY <1>1, <1>2, <1>3, <1>4, <1>5, <1>6, <1>7, <1>8, <1>9, <1>10, <1>11, <1>12,
     <1>13, <1>14, <1>15, <1>16, <1>17
     DEF Next, GeneratorStep, RunnerStep, VerifierStep, FaultStep

\* A result is copied, never altered.
LEMMA NextFaithfulCopies ==
  ASSUME TypeOK, KnownContracts, VerifierPass, FaithfulCopies, [Next]_vars
  PROVE  FaithfulCopies'
<1>1. ASSUME NEW g \in Gen, GenLog(g) PROVE FaithfulCopies'
  BY <1>1, GenAssumption, ConfigAssumption
     DEF TypeOK, KnownContracts, FaithfulCopies, GenLog, VerifierPass,
         BlankRow, runnerVars, verifierVars
<1>2. ASSUME NEW q \in Queue, GenPublish(q) PROVE FaithfulCopies'
  BY <1>2, GenAssumption, ConfigAssumption
     DEF TypeOK, KnownContracts, FaithfulCopies, GenPublish, runnerVars,
         verifierVars
<1>3. CASE GenInsertEntry
  BY <1>3, GenAssumption, ConfigAssumption
     DEF TypeOK, KnownContracts, FaithfulCopies, GenInsertEntry, runnerVars,
         verifierVars
<1>4. CASE GenCrash
  BY <1>4, GenAssumption, ConfigAssumption
     DEF TypeOK, KnownContracts, FaithfulCopies, GenCrash, runnerVars,
         verifierVars
<1>5. CASE GenRestart
  BY <1>5, GenAssumption, ConfigAssumption
     DEF TypeOK, KnownContracts, FaithfulCopies, GenRestart, runnerVars,
         verifierVars
<1>6. ASSUME NEW r \in Runner, NEW g \in Gen, Deliver(r, g) PROVE FaithfulCopies'
  BY <1>6, GenAssumption, ConfigAssumption
     DEF TypeOK, KnownContracts, FaithfulCopies, Deliver, genVars, verifierVars
<1>7. ASSUME NEW r \in Runner, ExecuteAndFlag(r) PROVE FaithfulCopies'
  BY <1>7, GenAssumption, ConfigAssumption
     DEF TypeOK, KnownContracts, FaithfulCopies, ExecuteAndFlag, Execution,
         genVars, verifierVars
<1>8. ASSUME NEW r \in Runner, StoreResult(r) PROVE FaithfulCopies'
  <2>1. UNCHANGED <<truth, rgen, rout, snap>>
    BY <1>8 DEF StoreResult, genVars, verifierVars
  <2>2. \A s \in Runner : rpc'[s] \in {"store", "ack"} => rpc[s] \in {"store", "ack"}
    BY <1>8 DEF TypeOK, StoreResult
  <2>3. rpc[r] = "store"
    BY <1>8 DEF StoreResult
  <2>4. QED
    BY <1>8, <2>1, <2>2, <2>3, StoredField DEF FaithfulCopies
<1>9. ASSUME NEW r \in Runner, Ack(r) PROVE FaithfulCopies'
  BY <1>9, GenAssumption, ConfigAssumption
     DEF TypeOK, KnownContracts, FaithfulCopies, Ack, Release, genVars,
         verifierVars
<1>10. ASSUME NEW r \in Runner, RunnerCrash(r) PROVE FaithfulCopies'
  BY <1>10, GenAssumption, ConfigAssumption
     DEF TypeOK, KnownContracts, FaithfulCopies, RunnerCrash, Release, genVars,
         verifierVars
<1>11. ASSUME NEW r \in Runner, BrokerRequeue(r) PROVE FaithfulCopies'
  BY <1>11, GenAssumption, ConfigAssumption
     DEF TypeOK, KnownContracts, FaithfulCopies, BrokerRequeue, genVars,
         verifierVars
<1>12. CASE VerifierFind
  BY <1>12, GenAssumption, ConfigAssumption
     DEF TypeOK, KnownContracts, FaithfulCopies, VerifierFind, BlankRow,
         genVars, runnerVars
<1>13. CASE VerifierReport
  BY <1>13, GenAssumption, ConfigAssumption
     DEF TypeOK, KnownContracts, FaithfulCopies, VerifierReport, Forget,
         BlankRow, genVars, runnerVars
<1>14. CASE VerifierMark
  BY <1>14, GenAssumption, ConfigAssumption
     DEF TypeOK, KnownContracts, FaithfulCopies, VerifierMark, Forget,
         BlankRow, genVars, runnerVars
<1>15. CASE VerifierCrash
  BY <1>15, GenAssumption, ConfigAssumption
     DEF TypeOK, KnownContracts, FaithfulCopies, VerifierCrash, Forget,
         BlankRow, genVars, runnerVars
<1>16. CASE VerifierRestart
  BY <1>16, GenAssumption, ConfigAssumption
     DEF TypeOK, KnownContracts, FaithfulCopies, VerifierRestart, genVars,
         runnerVars
<1>17. CASE UNCHANGED vars
  BY <1>17, GenAssumption, ConfigAssumption
     DEF TypeOK, KnownContracts, FaithfulCopies, vars, genVars, runnerVars,
         verifierVars
<1>18. QED
  BY <1>1, <1>2, <1>3, <1>4, <1>5, <1>6, <1>7, <1>8, <1>9, <1>10, <1>11, <1>12,
     <1>13, <1>14, <1>15, <1>16, <1>17
     DEF Next, GeneratorStep, RunnerStep, VerifierStep, FaultStep

\* A complete row of true copies is the true row.
LEMMA ReportableIsTrue ==
  ASSUME TypeOK, FaithfulCopies, Deterministic, NEW g \in Reportable(snap)
  PROVE  g \in Gen /\ snap[g] = truth[g]
<1>1. g \in Gen /\ \A c \in Compiler : snap[g][c] # NoResult
  BY DEF TypeOK, Reportable, ReadyToHandle
<1>2. \A c \in Compiler : snap[g][c] = truth[g][c]
  BY <1>1 DEF FaithfulCopies
<1>3. snap[g] \in Row /\ truth[g] \in Row
  BY <1>1 DEF TypeOK
<1>4. QED
  BY <1>1, <1>2, <1>3 DEF Row

\* A verdict is written from what the verifier read.
LEMMA NextVerdictTruthful ==
  ASSUME TypeOK, KnownContracts, VerifierPass, FaithfulCopies, VerdictTruthful, [Next]_vars
  PROVE  VerdictTruthful'
<1>1. ASSUME NEW g \in Gen, GenLog(g) PROVE VerdictTruthful'
  BY <1>1, GenAssumption
     DEF TypeOK, KnownContracts, VerifierPass, FaithfulCopies, VerdictTruthful,
         GenLog, runnerVars, verifierVars
<1>2. ASSUME NEW q \in Queue, GenPublish(q) PROVE VerdictTruthful'
  BY <1>2, GenAssumption
     DEF TypeOK, KnownContracts, VerifierPass, FaithfulCopies, VerdictTruthful,
         GenPublish, runnerVars, verifierVars
<1>3. CASE GenInsertEntry
  BY <1>3, GenAssumption
     DEF TypeOK, KnownContracts, VerifierPass, FaithfulCopies, VerdictTruthful,
         GenInsertEntry, runnerVars, verifierVars
<1>4. CASE GenCrash
  BY <1>4, GenAssumption
     DEF TypeOK, KnownContracts, VerifierPass, FaithfulCopies, VerdictTruthful,
         GenCrash, runnerVars, verifierVars
<1>5. CASE GenRestart
  BY <1>5, GenAssumption
     DEF TypeOK, KnownContracts, VerifierPass, FaithfulCopies, VerdictTruthful,
         GenRestart, runnerVars, verifierVars
<1>6. ASSUME NEW r \in Runner, NEW g \in Gen, Deliver(r, g) PROVE VerdictTruthful'
  BY <1>6, GenAssumption
     DEF TypeOK, KnownContracts, VerifierPass, FaithfulCopies, VerdictTruthful,
         Deliver, genVars, verifierVars
<1>7. ASSUME NEW r \in Runner, ExecuteAndFlag(r) PROVE VerdictTruthful'
  BY <1>7, GenAssumption
     DEF TypeOK, KnownContracts, VerifierPass, FaithfulCopies, VerdictTruthful,
         ExecuteAndFlag, genVars, verifierVars
<1>8. ASSUME NEW r \in Runner, StoreResult(r) PROVE VerdictTruthful'
  BY <1>8, GenAssumption
     DEF TypeOK, KnownContracts, VerifierPass, FaithfulCopies, VerdictTruthful,
         StoreResult, genVars, verifierVars
<1>9. ASSUME NEW r \in Runner, Ack(r) PROVE VerdictTruthful'
  BY <1>9, GenAssumption
     DEF TypeOK, KnownContracts, VerifierPass, FaithfulCopies, VerdictTruthful,
         Ack, Release, genVars, verifierVars
<1>10. ASSUME NEW r \in Runner, RunnerCrash(r) PROVE VerdictTruthful'
  BY <1>10, GenAssumption
     DEF TypeOK, KnownContracts, VerifierPass, FaithfulCopies, VerdictTruthful,
         RunnerCrash, Release, genVars, verifierVars
<1>11. ASSUME NEW r \in Runner, BrokerRequeue(r) PROVE VerdictTruthful'
  BY <1>11, GenAssumption
     DEF TypeOK, KnownContracts, VerifierPass, FaithfulCopies, VerdictTruthful,
         BrokerRequeue, genVars, verifierVars
<1>12. CASE VerifierFind
  BY <1>12, GenAssumption
     DEF TypeOK, KnownContracts, VerifierPass, FaithfulCopies, VerdictTruthful,
         VerifierFind, genVars, runnerVars
<1>13. CASE VerifierReport
  BY <1>13, ReportableIsTrue
     DEF TypeOK, VerdictTruthful, VerifierReport, Record, genVars
<1>14. CASE VerifierMark
  BY <1>14, GenAssumption
     DEF TypeOK, KnownContracts, VerifierPass, FaithfulCopies, VerdictTruthful,
         VerifierMark, genVars, runnerVars
<1>15. CASE VerifierCrash
  BY <1>15, ReportableIsTrue
     DEF TypeOK, VerdictTruthful, VerifierCrash, Record, genVars
<1>16. CASE VerifierRestart
  BY <1>16, GenAssumption
     DEF TypeOK, KnownContracts, VerifierPass, FaithfulCopies, VerdictTruthful,
         VerifierRestart, genVars, runnerVars
<1>17. CASE UNCHANGED vars
  BY <1>17, GenAssumption
     DEF TypeOK, KnownContracts, VerifierPass, FaithfulCopies, VerdictTruthful,
         vars, genVars, runnerVars, verifierVars
<1>18. QED
  BY <1>1, <1>2, <1>3, <1>4, <1>5, <1>6, <1>7, <1>8, <1>9, <1>10, <1>11, <1>12,
     <1>13, <1>14, <1>15, <1>16, <1>17
     DEF Next, GeneratorStep, RunnerStep, VerifierStep, FaultStep

(***************************************************************************)
(* The account of reports.                                                 *)
(***************************************************************************)

\* The generator inserts each document once, and only a mark closes one.
LEMMA NextOpenDocuments ==
  ASSUME TypeOK, KnownContracts, VerifierPass, OpenDocuments, [Next]_vars
  PROVE  OpenDocuments'
<1>1. ASSUME NEW g \in Gen, GenLog(g) PROVE OpenDocuments'
  BY <1>1 DEF TypeOK, KnownContracts, OpenDocuments, GenLog, verifierVars
<1>2. ASSUME NEW q \in Queue, GenPublish(q) PROVE OpenDocuments'
  BY <1>2 DEF TypeOK, OpenDocuments, GenPublish, verifierVars
<1>3. CASE GenInsertEntry
  <2>1. gcur \in Gen /\ entry[gcur] = "absent" /\ gpc' = "idle"
    BY <1>3 DEF TypeOK, OpenDocuments, GenInsertEntry
  <2>2. \A g \in Gen \ {gcur} : entry'[g] = entry[g]
    BY <1>3 DEF TypeOK, GenInsertEntry
  <2>3. vpc' = vpc /\ seen' = seen
    BY <1>3 DEF GenInsertEntry, verifierVars
  <2>4. QED
    BY <2>1, <2>2, <2>3 DEF TypeOK, OpenDocuments
<1>4. CASE GenCrash
  BY <1>4 DEF OpenDocuments, GenCrash, verifierVars
<1>5. CASE GenRestart
  BY <1>5 DEF OpenDocuments, GenRestart, verifierVars
<1>6. ASSUME NEW r \in Runner, NEW g \in Gen, Deliver(r, g) PROVE OpenDocuments'
  BY <1>6 DEF OpenDocuments, Deliver, genVars, verifierVars
<1>7. ASSUME NEW r \in Runner, ExecuteAndFlag(r) PROVE OpenDocuments'
  BY <1>7 DEF OpenDocuments, ExecuteAndFlag, genVars, verifierVars
<1>8. ASSUME NEW r \in Runner, StoreResult(r) PROVE OpenDocuments'
  <2>1. \A g \in Gen : /\ entry[g] = "absent" => entry'[g] = "absent"
                       /\ entry[g] = "unhandled" => entry'[g] = "unhandled"
    BY <1>8 DEF TypeOK, StoreResult
  <2>2. UNCHANGED <<gpc, gcur, vpc, seen>>
    BY <1>8 DEF StoreResult, genVars, verifierVars
  <2>3. QED
    BY <2>1, <2>2 DEF TypeOK, OpenDocuments
<1>9. ASSUME NEW r \in Runner, Ack(r) PROVE OpenDocuments'
  BY <1>9 DEF OpenDocuments, Ack, genVars, verifierVars
<1>10. ASSUME NEW r \in Runner, RunnerCrash(r) PROVE OpenDocuments'
  BY <1>10 DEF OpenDocuments, RunnerCrash, genVars, verifierVars
<1>11. ASSUME NEW r \in Runner, BrokerRequeue(r) PROVE OpenDocuments'
  BY <1>11 DEF OpenDocuments, BrokerRequeue, genVars, verifierVars
<1>12. CASE VerifierFind
  BY <1>12 DEF OpenDocuments, VerifierFind, genVars
<1>13. CASE VerifierReport
  BY <1>13 DEF OpenDocuments, VerifierReport, Forget, genVars
<1>14. ASSUME VerifierMark \/ VerifierCrash PROVE OpenDocuments'
  <2>1. \A g \in Gen : entry[g] = "absent" => entry'[g] = "absent"
    BY <1>14 DEF TypeOK, OpenDocuments, VerifierMark, VerifierCrash, Mark,
                 HandledIds, Reportable
  <2>2. gpc' = gpc /\ gcur' = gcur /\ seen' = {}
    BY <1>14 DEF VerifierMark, VerifierCrash, Forget, genVars
  <2>3. QED
    BY <2>1, <2>2 DEF TypeOK, OpenDocuments
<1>15. CASE VerifierRestart
  BY <1>15 DEF OpenDocuments, VerifierRestart, genVars
<1>16. CASE UNCHANGED vars
  BY <1>16 DEF OpenDocuments, vars, genVars, verifierVars
<1>17. QED
  BY <1>1, <1>2, <1>3, <1>4, <1>5, <1>6, <1>7, <1>8, <1>9, <1>10, <1>11, <1>12,
     <1>13, <1>14, <1>15, <1>16
     DEF Next, GeneratorStep, RunnerStep, VerifierStep, FaultStep

\* The messages of a contract are the pairs of a broker and a place in its queue.
LEMMA WaitingElement ==
  ASSUME NEW g, NEW m
  PROVE  m \in Waiting(g) <=> \E b \in Broker : \E n \in 1 .. ready[b][g] : m = <<b, n>>
  BY DEF Waiting

\* One more message in a broker is one more unit of work for its contract.
LEMMA MessageAdded ==
  ASSUME TypeOK, TasksFinite, NEW b \in Broker, NEW h \in Gen, NEW g \in Gen,
         ready' = [ready EXCEPT ![b][h] = @ + 1]
  PROVE  /\ IsFiniteSet(Waiting(g)')
         /\ Cardinality(Waiting(g)')
              = Cardinality(Waiting(g)) + (IF g = h THEN 1 ELSE 0)
<1> DEFINE new == <<b, ready[b][h] + 1>>
<1>1. /\ ready[b][h] \in Nat
      /\ ready'[b][h] = ready[b][h] + 1
      /\ \A d \in Broker, k \in Gen : d # b \/ k # h => ready'[d][k] = ready[d][k]
  BY DEF TypeOK
<1>2. IsFiniteSet(Waiting(g)) /\ Cardinality(Waiting(g)) \in Nat
  BY FS_CardinalityType DEF TasksFinite
<1>3. CASE g # h
  <2>1. Waiting(g)' = Waiting(g)
    BY <1>1, <1>3 DEF Waiting
  <2>2. QED
    BY <1>2, <1>3, <2>1
<1>4. CASE g = h
  <2>1. ASSUME NEW m PROVE m \in Waiting(g)' <=> m \in Waiting(g) \cup {new}
    <3>1. m \in Waiting(g)' <=>
            \E d \in Broker : \E n \in 1 .. ready'[d][g] : m = <<d, n>>
      BY DEF Waiting
    <3>2. \A d \in Broker \ {b} : ready'[d][g] = ready[d][g]
      BY <1>1
    <3>3. \A n : n \in 1 .. ready'[b][g] <=> n \in 1 .. ready[b][g] \/ n = ready[b][g] + 1
      BY <1>1, <1>4
    <3>4. QED
      BY <3>1, <3>2, <3>3, <1>4, WaitingElement
  <2>2. new \notin Waiting(g)
    BY <1>1, <1>4, WaitingElement
  <2>3. Waiting(g)' = Waiting(g) \cup {new}
    BY <2>1
  <2> HIDE DEF new
  <2>4. /\ IsFiniteSet(Waiting(g) \cup {new})
        /\ Cardinality(Waiting(g) \cup {new}) = Cardinality(Waiting(g)) + 1
    BY <1>2, <2>2, FS_AddElement
  <2>5. QED
    BY <1>4, <2>3, <2>4
<1>5. QED
  BY <1>3, <1>4

\* One message less in a broker is one unit of work less for its contract.
LEMMA MessageRemoved ==
  ASSUME TypeOK, TasksFinite, NEW b \in Broker, NEW h \in Gen, NEW g \in Gen,
         ready[b][h] > 0, ready' = [ready EXCEPT ![b][h] = @ - 1]
  PROVE  /\ IsFiniteSet(Waiting(g)')
         /\ Cardinality(Waiting(g)')
              = Cardinality(Waiting(g)) - (IF g = h THEN 1 ELSE 0)
<1> DEFINE old == <<b, ready[b][h]>>
<1>1. /\ ready[b][h] \in Nat
      /\ ready'[b][h] = ready[b][h] - 1
      /\ \A d \in Broker, k \in Gen : d # b \/ k # h => ready'[d][k] = ready[d][k]
  BY DEF TypeOK
<1>2. IsFiniteSet(Waiting(g)) /\ Cardinality(Waiting(g)) \in Nat
  BY FS_CardinalityType DEF TasksFinite
<1>3. CASE g # h
  <2>1. Waiting(g)' = Waiting(g)
    BY <1>1, <1>3 DEF Waiting
  <2>2. QED
    BY <1>2, <1>3, <2>1
<1>4. CASE g = h
  <2>1. ASSUME NEW m PROVE m \in Waiting(g)' <=> m \in Waiting(g) \ {old}
    <3>1. m \in Waiting(g)' <=>
            \E d \in Broker : \E n \in 1 .. ready'[d][g] : m = <<d, n>>
      BY DEF Waiting
    <3>2. \A d \in Broker \ {b} : ready'[d][g] = ready[d][g]
      BY <1>1
    <3>3. \A n : n \in 1 .. ready'[b][g] <=> n \in 1 .. ready[b][g] /\ n # ready[b][g]
      BY <1>1, <1>4
    <3>4. QED
      BY <3>1, <3>2, <3>3, <1>4, WaitingElement
  <2>2. old \in Waiting(g)
    BY <1>1, <1>4, WaitingElement
  <2>3. Waiting(g)' = Waiting(g) \ {old}
    BY <2>1
  <2> HIDE DEF old
  <2>4. /\ IsFiniteSet(Waiting(g) \ {old})
        /\ Cardinality(Waiting(g) \ {old}) = Cardinality(Waiting(g)) - 1
    BY <1>2, <2>2, FS_RemoveElement
  <2>5. QED
    BY <1>4, <2>3, <2>4
<1>5. QED
  BY <1>3, <1>4

\* A step that adds at most one fault, and one unit of work only with it.
Pays(g) ==
  /\ IsFiniteSet(Waiting(g)') /\ IsFiniteSet(Running(g)')
  /\ Tasks(g)' \in Nat
  /\ Tasks(g)' + faults <= Tasks(g) + faults'

\* There are no more queues in use than compilers.
LEMMA ActiveQueuesFinite ==
  /\ IsFiniteSet(ActiveQueues) /\ Cardinality(ActiveQueues) \in Nat
  /\ Cardinality(Compiler) \in Nat
  /\ Cardinality(ActiveQueues) <= Cardinality(Compiler)
<1>1. [c \in Compiler |-> QueueOf[c]] \in Surjection(Compiler, ActiveQueues)
  BY DEF ActiveQueues, Surjection
<1>2. IsFiniteSet(ActiveQueues) /\ Cardinality(ActiveQueues) <= Cardinality(Compiler)
  BY <1>1, CompilersAssumption, FS_Surjection
<1>3. QED
  BY <1>2, CompilersAssumption, FS_CardinalityType

\* The three counts that make up the work on a contract are natural numbers.
LEMMA TasksInNat ==
  ASSUME TypeOK, TasksFinite, NEW g \in Gen
  PROVE  /\ IsFiniteSet(Unsent(g)) /\ Cardinality(Unsent(g)) \in Nat
         /\ IsFiniteSet(Waiting(g)) /\ Cardinality(Waiting(g)) \in Nat
         /\ IsFiniteSet(Running(g)) /\ Cardinality(Running(g)) \in Nat
         /\ Tasks(g) \in Nat
<1>1. IsFiniteSet(ActiveQueues) /\ Cardinality(ActiveQueues) <= Cardinality(Compiler)
  BY ActiveQueuesFinite
<1>2. IsFiniteSet(Unsent(g))
  BY <1>1, FS_Subset DEF Unsent
<1>3. IsFiniteSet(Waiting(g)) /\ IsFiniteSet(Running(g))
  BY DEF TasksFinite
<1>4. /\ Cardinality(Unsent(g)) \in Nat
      /\ Cardinality(Waiting(g)) \in Nat
      /\ Cardinality(Running(g)) \in Nat
  BY <1>2, <1>3, FS_CardinalityType
<1>5. QED
  BY <1>2, <1>3, <1>4 DEF Tasks

\* A step that moves no message and no replica pays for its faults.
LEMMA SameTasks ==
  ASSUME TypeOK, TasksFinite, NEW g \in Gen,
         Unsent(g)' = Unsent(g), Waiting(g)' = Waiting(g), Running(g)' = Running(g),
         faults' \in Nat, faults <= faults'
  PROVE  Pays(g)
<1>1. Tasks(g)' = Tasks(g)
  BY DEF Tasks
<1>2. QED
  BY <1>1, TasksInNat DEF Pays, TypeOK

\* A publish turns a queue to publish to into a message.
LEMMA PublishTasks ==
  ASSUME TypeOK, TasksFinite, NEW q \in Queue, GenPublish(q), NEW g \in Gen
  PROVE  Pays(g)
<1>1. gcur \in Gen /\ q \in Unsent(gcur) /\ BrokerOf[q] \in Broker
  BY ConfigAssumption DEF TypeOK, GenPublish, Unsent
<1>2. /\ IsFiniteSet(Waiting(g)')
      /\ Cardinality(Waiting(g)')
           = Cardinality(Waiting(g)) + (IF g = gcur THEN 1 ELSE 0)
  BY <1>1, MessageAdded DEF GenPublish
<1>3. Running(g)' = Running(g) /\ faults' = faults
  BY DEF GenPublish, Running, runnerVars
<1>4. Cardinality(Unsent(g)')
        = Cardinality(Unsent(g)) - (IF g = gcur THEN 1 ELSE 0)
  <2>1. CASE g = gcur
    <3>1. Unsent(g)' = Unsent(g) \ {q}
      BY <1>1, <2>1 DEF TypeOK, GenPublish, Unsent
    <3>2. Cardinality(Unsent(g) \ {q}) = Cardinality(Unsent(g)) - 1
      BY <1>1, <2>1, TasksInNat, FS_RemoveElement
    <3>3. QED
      BY <2>1, <3>1, <3>2
  <2>2. CASE g # gcur
    <3>1. Unsent(g)' = Unsent(g)
      BY <1>1, <2>2 DEF TypeOK, GenPublish, Unsent
    <3>2. QED
      BY <2>2, <3>1, TasksInNat
  <2>3. QED
    BY <2>1, <2>2
<1>5. Tasks(g)' = Tasks(g)
  <2>1. Cardinality(Running(g)') = Cardinality(Running(g))
    BY <1>3
  <2>2. Tasks(g)' = Cardinality(Unsent(g)') + Cardinality(Waiting(g)')
                      + Cardinality(Running(g)')
    BY DEF Tasks
  <2>3. QED
    BY <1>2, <1>4, <2>1, <2>2, TasksInNat DEF Tasks
<1>6. QED
  BY <1>2, <1>3, <1>5, TasksInNat DEF Pays, TypeOK

\* A delivery turns a message into a replica at work.
LEMMA DeliverTasks ==
  ASSUME TypeOK, TasksFinite, NEW r \in Runner, NEW h \in Gen, Deliver(r, h),
         NEW g \in Gen
  PROVE  Pays(g)
<1>1. BrokerFor(CompilerOf[r]) \in Broker
  BY ConfigAssumption DEF BrokerFor
<1>2. /\ IsFiniteSet(Waiting(g)')
      /\ Cardinality(Waiting(g)')
           = Cardinality(Waiting(g)) - (IF g = h THEN 1 ELSE 0)
  BY <1>1, MessageRemoved DEF Deliver
<1>3. Unsent(g)' = Unsent(g) /\ faults' = faults
  BY DEF Deliver, Unsent, genVars
<1>4. /\ IsFiniteSet(Running(g)')
      /\ Cardinality(Running(g)')
           = Cardinality(Running(g)) + (IF g = h THEN 1 ELSE 0)
  <2>1. r \notin Running(g)
    BY DEF Deliver, Running
  <2>2. CASE g = h
    <3>1. Running(g)' = Running(g) \cup {r}
      BY <2>2 DEF TypeOK, Deliver, Running
    <3>2. /\ IsFiniteSet(Running(g) \cup {r})
          /\ Cardinality(Running(g) \cup {r}) = Cardinality(Running(g)) + 1
      BY <2>1, TasksInNat, FS_AddElement
    <3>3. QED
      BY <2>2, <3>1, <3>2
  <2>3. CASE g # h
    <3>1. Running(g)' = Running(g)
      BY <2>1, <2>3 DEF TypeOK, Deliver, Running
    <3>2. QED
      BY <2>3, <3>1, TasksInNat
  <2>4. QED
    BY <2>2, <2>3
<1>5. Tasks(g)' = Tasks(g)
  <2>1. Cardinality(Unsent(g)') = Cardinality(Unsent(g))
    BY <1>3
  <2>2. Tasks(g)' = Cardinality(Unsent(g)') + Cardinality(Waiting(g)')
                      + Cardinality(Running(g)')
    BY DEF Tasks
  <2>3. QED
    BY <1>2, <1>4, <2>1, <2>2, TasksInNat DEF Tasks
<1>6. QED
  BY <1>2, <1>3, <1>4, <1>5, TasksInNat DEF Pays, TypeOK

\* A stored result, lost or not, is a unit of work less.
LEMMA StoreTasks ==
  ASSUME TypeOK, TasksFinite, NEW r \in Runner, StoreResult(r), NEW g \in Gen
  PROVE  /\ Pays(g)
         /\ g = rgen[r] => Tasks(g)' = Tasks(g) - 1
<1>1. Unsent(g)' = Unsent(g) /\ Waiting(g)' = Waiting(g) /\ faults' = faults
  BY DEF StoreResult, Unsent, Waiting, genVars
<1>2. /\ IsFiniteSet(Running(g)')
      /\ Cardinality(Running(g)')
           = Cardinality(Running(g)) - (IF g = rgen[r] THEN 1 ELSE 0)
  <2>1. CASE g = rgen[r]
    <3>1. r \in Running(g)
      BY <2>1 DEF StoreResult, Running
    <3>2. Running(g)' = Running(g) \ {r}
      BY <2>1 DEF TypeOK, StoreResult, Running
    <3>3. /\ IsFiniteSet(Running(g) \ {r})
          /\ Cardinality(Running(g) \ {r}) = Cardinality(Running(g)) - 1
      BY <3>1, TasksInNat, FS_RemoveElement
    <3>4. QED
      BY <2>1, <3>2, <3>3
  <2>2. CASE g # rgen[r]
    <3>1. Running(g)' = Running(g)
      BY <2>2 DEF TypeOK, StoreResult, Running
    <3>2. QED
      BY <2>2, <3>1, TasksInNat
  <2>3. QED
    BY <2>1, <2>2
<1>3. Tasks(g)' = Tasks(g) - (IF g = rgen[r] THEN 1 ELSE 0)
  <2>1. /\ Cardinality(Unsent(g)') = Cardinality(Unsent(g))
        /\ Cardinality(Waiting(g)') = Cardinality(Waiting(g))
    BY <1>1
  <2>2. Tasks(g)' = Cardinality(Unsent(g)') + Cardinality(Waiting(g)')
                      + Cardinality(Running(g)')
    BY DEF Tasks
  <2>3. QED
    BY <1>2, <2>1, <2>2, TasksInNat DEF Tasks
<1>4. Cardinality(Running(g)') \in Nat
  BY <1>2, FS_CardinalityType
<1>5. Tasks(g)' \in Nat
  BY <1>1, <1>4, TasksInNat DEF Tasks
<1>6. IsFiniteSet(Waiting(g)')
  BY <1>1, TasksInNat
<1>7. QED
  BY <1>1, <1>2, <1>3, <1>5, <1>6, TasksInNat DEF Pays, TypeOK

\* A requeue adds a message and a fault; the replica works on or is released.
LEMMA RequeueTasks ==
  ASSUME TypeOK, TasksFinite, NEW r \in Runner, RunnerCrash(r) \/ BrokerRequeue(r),
         NEW g \in Gen
  PROVE  Pays(g)
<1>1. rgen[r] \in Gen /\ BrokerFor(CompilerOf[r]) \in Broker
  BY ConfigAssumption DEF TypeOK, RunnerCrash, BrokerRequeue, BrokerFor
<1>2. Unsent(g)' = Unsent(g) /\ faults' = faults + 1
  BY DEF RunnerCrash, BrokerRequeue, Fault, Unsent, genVars
<1>3. /\ IsFiniteSet(Waiting(g)')
      /\ Cardinality(Waiting(g)') \in Nat
      /\ Cardinality(Waiting(g)') <= Cardinality(Waiting(g)) + 1
  <2>1. CASE ready' = ready
    <3>1. Waiting(g)' = Waiting(g)
      BY <2>1 DEF Waiting
    <3>2. QED
      BY <3>1, TasksInNat
  <2>2. CASE ready' = Requeued(r)
    <3>1. /\ IsFiniteSet(Waiting(g)')
          /\ Cardinality(Waiting(g)')
               = Cardinality(Waiting(g)) + (IF g = rgen[r] THEN 1 ELSE 0)
      BY <1>1, <2>2, MessageAdded DEF Requeued
    <3>2. QED
      BY <3>1, TasksInNat
  <2>3. QED
    BY <2>1, <2>2 DEF RunnerCrash, BrokerRequeue
<1>4. /\ IsFiniteSet(Running(g)')
      /\ Cardinality(Running(g)') \in Nat
      /\ Cardinality(Running(g)') <= Cardinality(Running(g))
  <2>1. Running(g)' \in SUBSET Running(g)
    BY DEF TypeOK, RunnerCrash, BrokerRequeue, Release, Running
  <2>2. QED
    BY <2>1, TasksInNat, FS_Subset, FS_CardinalityType
<1>5. Tasks(g)' \in Nat /\ Tasks(g)' <= Tasks(g) + 1
  <2>1. Cardinality(Unsent(g)') = Cardinality(Unsent(g))
    BY <1>2
  <2>2. Tasks(g)' = Cardinality(Unsent(g)') + Cardinality(Waiting(g)')
                      + Cardinality(Running(g)')
    BY DEF Tasks
  <2>3. QED
    BY <1>3, <1>4, <2>1, <2>2, TasksInNat DEF Tasks
<1>6. QED
  BY <1>2, <1>3, <1>4, <1>5, TasksInNat DEF Pays, TypeOK

\* No step adds work on a contract without a fault.
LEMMA NextTasks ==
  ASSUME TypeOK, TasksFinite, [Next]_vars, NEW g \in Gen
  PROVE  Pays(g)
<1>1. ASSUME NEW q \in Queue, GenPublish(q) PROVE Pays(g)
  BY <1>1, PublishTasks
<1>2. ASSUME NEW r \in Runner, NEW h \in Gen, Deliver(r, h) PROVE Pays(g)
  BY <1>2, DeliverTasks
<1>3. ASSUME NEW r \in Runner, StoreResult(r) PROVE Pays(g)
  BY <1>3, StoreTasks
<1>4. ASSUME NEW r \in Runner, RunnerCrash(r) \/ BrokerRequeue(r) PROVE Pays(g)
  BY <1>4, RequeueTasks
<1>5. ASSUME NEW r \in Runner, ExecuteAndFlag(r) \/ Ack(r) PROVE Pays(g)
  <2>1. Unsent(g)' = Unsent(g) /\ Waiting(g)' = Waiting(g) /\ faults' = faults
    BY <1>5 DEF ExecuteAndFlag, Ack, Unsent, Waiting, genVars
  <2>2. Running(g)' = Running(g)
    BY <1>5, GenAssumption DEF TypeOK, ExecuteAndFlag, Ack, Release, Running
  <2>3. QED
    BY <2>1, <2>2, SameTasks DEF TypeOK
<1>6. ASSUME UNCHANGED <<sent, ready, rpc, rgen>>, faults' = faults \/ Fault
      PROVE  Pays(g)
  <2>1. Unsent(g)' = Unsent(g) /\ Waiting(g)' = Waiting(g) /\ Running(g)' = Running(g)
    BY <1>6 DEF Unsent, Waiting, Running
  <2>2. faults' \in Nat /\ faults <= faults'
    BY <1>6 DEF TypeOK, Fault
  <2>3. QED
    BY <2>1, <2>2, SameTasks
<1>7. ASSUME NEW h \in Gen, GenLog(h) PROVE Pays(g)
  BY <1>6, <1>7 DEF GenLog, runnerVars
<1>8. CASE GenInsertEntry \/ GenCrash \/ GenRestart
  BY <1>6, <1>8 DEF GenInsertEntry, GenCrash, GenRestart, runnerVars
<1>9. CASE VerifierStep \/ VerifierCrash \/ VerifierRestart
  BY <1>6, <1>9 DEF VerifierStep, VerifierFind, VerifierReport, VerifierMark,
                    VerifierCrash, VerifierRestart, genVars, runnerVars
<1>10. CASE UNCHANGED vars
  BY <1>6, <1>10 DEF vars, genVars, runnerVars
<1>11. QED
  BY <1>1, <1>2, <1>3, <1>4, <1>5, <1>7, <1>8, <1>9, <1>10
     DEF Next, GeneratorStep, RunnerStep, FaultStep

\* The compilers whose result is missing can be counted.
LEMMA MissingInNat ==
  ASSUME NEW g
  PROVE  IsFiniteSet(Missing(g)) /\ Cardinality(Missing(g)) \in Nat
<1>1. Missing(g) \in SUBSET Compiler
  BY DEF Missing
<1>2. QED
  BY <1>1, CompilersAssumption, FS_Subset, FS_CardinalityType

\* The compilers whose stored result differs from a row can be counted.
LEMMA StaleInNat ==
  ASSUME NEW g, NEW row
  PROVE  /\ IsFiniteSet(Stale(g, row)) /\ Cardinality(Stale(g, row)) \in Nat
         /\ IsFiniteSet(Stale(g, row)') /\ Cardinality(Stale(g, row)') \in Nat
<1>1. Stale(g, row) \in SUBSET Compiler /\ Stale(g, row)' \in SUBSET Compiler
  BY DEF Stale
<1>2. QED
  BY <1>1, CompilersAssumption, FS_Subset, FS_CardinalityType

\* A stored result ends the unit of work it came from, and makes one compiler at
\* most differ from a row or one compiler at most cease to be missing.
LEMMA StoredResult ==
  ASSUME TypeOK, TasksFinite, NEW r \in Runner, StoreResult(r),
         NEW g \in Gen, g = rgen[r]
  PROVE  /\ Tasks(g) \in Nat /\ Tasks(g)' = Tasks(g) - 1
         /\ Cardinality(Missing(g)) \in Nat /\ Cardinality(Missing(g)') \in Nat
         /\ Cardinality(Missing(g)) <= Cardinality(Missing(g)') + 1
         /\ \A row : Cardinality(Stale(g, row)') <= Cardinality(Stale(g, row)) + 1
<1>1. Tasks(g) \in Nat /\ Tasks(g)' = Tasks(g) - 1
  BY TasksInNat, StoreTasks
<1>2. /\ IsFiniteSet(Missing(g)) /\ Cardinality(Missing(g)) \in Nat
      /\ IsFiniteSet(Missing(g)') /\ Cardinality(Missing(g)') \in Nat
  <2>1. Missing(g)' \in SUBSET Compiler
    BY DEF Missing
  <2>2. QED
    BY <2>1, MissingInNat, CompilersAssumption, FS_Subset, FS_CardinalityType
<1>3. ASSUME NEW S, NEW T, IsFiniteSet(T), Cardinality(T) \in Nat,
             S \in SUBSET (T \cup {CompilerOf[r]})
      PROVE  Cardinality(S) <= Cardinality(T) + 1
  <2>1. /\ IsFiniteSet(T \cup {CompilerOf[r]})
        /\ Cardinality(T \cup {CompilerOf[r]}) <= Cardinality(T) + 1
    BY <1>3, FS_AddElement
  <2>2. /\ Cardinality(S) <= Cardinality(T \cup {CompilerOf[r]})
        /\ Cardinality(S) \in Nat /\ Cardinality(T \cup {CompilerOf[r]}) \in Nat
    BY <1>3, <2>1, FS_Subset, FS_CardinalityType
  <2>3. QED
    BY <1>3, <2>1, <2>2
<1>4. Cardinality(Missing(g)) <= Cardinality(Missing(g)') + 1
  <2>1. Missing(g) \in SUBSET (Missing(g)' \cup {CompilerOf[r]})
    BY StoredField DEF Missing
  <2>2. QED
    BY <1>2, <1>3, <2>1
<1>5. ASSUME NEW row
      PROVE  Cardinality(Stale(g, row)') <= Cardinality(Stale(g, row)) + 1
  <2>1. Stale(g, row)' \in SUBSET (Stale(g, row) \cup {CompilerOf[r]})
    BY StoredField DEF Stale
  <2>2. QED
    BY <1>3, <2>1, StaleInNat
<1>6. QED
  BY <1>1, <1>2, <1>4, <1>5

\* What covers the work on a contract goes on covering it while no result is stored.
LEMMA StillCovered ==
  ASSUME TypeOK, TasksFinite, NEW g \in Gen, NEW row, Covered(g, row), Pays(g),
         faults' \in Nat, result'[g] = result[g]
  PROVE  Covered(g, row)'
<1>1. Cardinality(Stale(g, row)') = Cardinality(Stale(g, row))
  BY DEF Stale
<1>2. /\ Tasks(g) \in Nat /\ Tasks(g)' \in Nat /\ faults \in Nat
      /\ Tasks(g)' + faults <= Tasks(g) + faults'
  BY TasksInNat DEF Pays, TypeOK
<1>3. Cardinality(Stale(g, row)) + Tasks(g) <= faults
  BY DEF Covered
<1>4. Cardinality(Stale(g, row)') + Tasks(g)' <= faults'
  BY <1>1, <1>2, <1>3, StaleInNat
<1>5. QED
  BY <1>4 DEF Covered

\* A step that stores no result of a contract keeps its work paid for: what it
\* reads was read already, and what it marks was covered when it was read.
LEMMA QuietWork ==
  ASSUME TypeOK, TasksFinite, NEW g \in Gen, Work(g), Pays(g), faults' \in Nat,
         result'[g] = result[g],
         g \in seen' => g \in seen /\ snap'[g] = snap[g],
         entry'[g] = "handled" =>
           \/ entry[g] = "handled" /\ verdict'[g] = verdict[g]
           \/ g \in seen /\ ReadyToHandle(snap[g]) /\ verdict'[g] = snap[g]
  PROVE  Work(g)'
<1>1. /\ Tasks(g) \in Nat /\ Tasks(g)' \in Nat /\ faults \in Nat
      /\ Tasks(g)' + faults <= Tasks(g) + faults'
  BY TasksInNat DEF Pays, TypeOK
<1>2. Tasks(g)' <= Cardinality(Missing(g)') + faults'
  <2>1. Missing(g)' = Missing(g)
    BY DEF Missing
  <2>2. Cardinality(Missing(g)') = Cardinality(Missing(g)) /\ Cardinality(Missing(g)) \in Nat
    BY <2>1, MissingInNat
  <2>3. Tasks(g) <= Cardinality(Missing(g)) + faults
    BY DEF Work
  <2>4. QED
    BY <1>1, <2>2, <2>3
<1>3. ASSUME g \in seen', ReadyToHandle(snap'[g])
      PROVE  Covered(g, snap[g])'
  <2>1. snap'[g] = snap[g] /\ Covered(g, snap[g])
    BY <1>3 DEF Work
  <2>2. Cardinality({c \in Compiler : snap[g][c] # result'[g][c]}) + Tasks(g)' <= faults'
    BY <2>1, StillCovered DEF Covered, Stale
  <2>3. QED
    BY <2>1, <2>2 DEF Covered, Stale
<1>4. ASSUME entry'[g] = "handled"
      PROVE  Covered(g, verdict[g])'
  <2>1. Cardinality({c \in Compiler : verdict'[g][c] # result'[g][c]}) + Tasks(g)' <= faults'
    <3>1. CASE entry[g] = "handled" /\ verdict'[g] = verdict[g]
      <4>1. Covered(g, verdict[g])
        BY <3>1 DEF Work
      <4>2. QED
        BY <3>1, <4>1, StillCovered DEF Covered, Stale
    <3>2. CASE g \in seen /\ ReadyToHandle(snap[g]) /\ verdict'[g] = snap[g]
      <4>1. Covered(g, snap[g])
        BY <3>2 DEF Work
      <4>2. QED
        BY <3>2, <4>1, StillCovered DEF Covered, Stale
    <3>3. QED
      BY <1>4, <3>1, <3>2
  <2>2. QED
    BY <2>1 DEF Covered, Stale
<1>5. QED
  BY <1>2, <1>3, <1>4 DEF Work, ReadyToHandle

\* A stored result reopens the contract, and the work it ends covers it.
LEMMA StoreWork ==
  ASSUME TypeOK, OpenDocuments, TasksFinite, NEW r \in Runner, StoreResult(r),
         NEW g \in Gen, g = rgen[r], Work(g)
  PROVE  Work(g)'
<1>1. /\ Tasks(g) \in Nat /\ Tasks(g)' = Tasks(g) - 1
      /\ faults \in Nat /\ faults' = faults
      /\ seen' = seen /\ snap' = snap
  <2>1. Tasks(g) \in Nat /\ Tasks(g)' = Tasks(g) - 1
    BY StoredResult
  <2>2. faults \in Nat /\ faults' = faults /\ seen' = seen /\ snap' = snap
    BY DEF StoreResult, TypeOK, verifierVars
  <2>3. QED
    BY <2>1, <2>2
<1>2. Tasks(g)' <= Cardinality(Missing(g)') + faults'
  <2>1. Tasks(g) <= Cardinality(Missing(g)) + faults
    BY DEF Work
  <2>2. QED
    BY <1>1, <2>1, StoredResult
<1>3. ASSUME g \in seen', ReadyToHandle(snap'[g])
      PROVE  Covered(g, snap[g])'
  <2>1. Cardinality(Stale(g, snap[g])) + Tasks(g) <= faults
    BY <1>1, <1>3 DEF Work, Covered
  <2>2. Cardinality({c \in Compiler : snap[g][c] # result'[g][c]})
          <= Cardinality(Stale(g, snap[g])) + 1
    BY StoredResult DEF Stale
  <2>3. Cardinality({c \in Compiler : snap[g][c] # result'[g][c]}) \in Nat
    <3>1. {c \in Compiler : snap[g][c] # result'[g][c]} \in SUBSET Compiler
      OBVIOUS
    <3>2. QED
      BY <3>1, CompilersAssumption, FS_Subset, FS_CardinalityType
  <2>4. Cardinality({c \in Compiler : snap[g][c] # result'[g][c]}) + Tasks(g)' <= faults'
    BY <1>1, <2>1, <2>2, <2>3, StaleInNat
  <2>5. QED
    BY <1>1, <2>4 DEF Covered, Stale
<1>4. entry'[g] # "handled"
  BY DEF StoreResult, TypeOK
<1>5. QED
  BY <1>2, <1>3, <1>4 DEF Work, ReadyToHandle

\* A complete row that has just been read holds what is stored, and the work left
\* has no result to fill.
LEMMA FindWork ==
  ASSUME TypeOK, TasksFinite, VerifierFind, NEW g \in Gen, Work(g), Pays(g)
  PROVE  Work(g)'
<1>1. /\ faults' \in Nat /\ faults' = faults /\ result' = result
      /\ entry' = entry /\ verdict' = verdict
  BY DEF VerifierFind, TypeOK
<1>2. CASE g \notin seen'
  BY <1>1, <1>2, QuietWork
<1>3. CASE g \in seen'
  <2>1. snap'[g] = result[g] /\ entry'[g] # "handled"
    BY <1>1, <1>3 DEF VerifierFind
  <2>2. /\ Tasks(g) \in Nat /\ Tasks(g)' \in Nat /\ faults \in Nat
        /\ Tasks(g)' <= Tasks(g)
    BY <1>1, TasksInNat DEF Pays, TypeOK
  <2>3. Missing(g)' = Missing(g)
    BY <1>1 DEF Missing
  <2>4. Tasks(g)' <= Cardinality(Missing(g)) + faults
    <3>1. Tasks(g) <= Cardinality(Missing(g)) + faults
      BY DEF Work
    <3>2. QED
      BY <2>2, <3>1, MissingInNat
  <2>5. ASSUME ReadyToHandle(snap'[g])
        PROVE  Covered(g, snap[g])'
    <3>1. Missing(g) = {} /\ Stale(g, snap[g])' = {}
      BY <1>1, <2>1, <2>5 DEF ReadyToHandle, Missing, Stale
    <3>2. Cardinality(Missing(g)) = 0 /\ Cardinality(Stale(g, snap[g])') = 0
      BY <3>1, FS_EmptySet
    <3>3. Cardinality(Stale(g, snap[g])') + Tasks(g)' <= faults'
      BY <1>1, <2>2, <2>4, <3>2
    <3>4. QED
      BY <3>3 DEF Covered
  <2>6. Cardinality(Missing(g)') = Cardinality(Missing(g))
    BY <2>3
  <2>7. QED
    BY <1>1, <2>1, <2>4, <2>5, <2>6 DEF Work, ReadyToHandle
<1>4. QED
  BY <1>2, <1>3

\* Every step keeps the work on every contract paid for.
LEMMA NextWorkPaid ==
  ASSUME TypeOK, VerifierPass, OpenDocuments, TasksFinite, WorkPaid, [Next]_vars
  PROVE  WorkPaid'
<1> SUFFICES ASSUME NEW g \in Gen PROVE Work(g)'
  BY DEF WorkPaid
<1>1. Work(g) /\ Pays(g) /\ faults' \in Nat
  BY NextTasks, NextTypeOK DEF TypeOK, WorkPaid
<1>2. ASSUME UNCHANGED <<result, verifierVars>>,
             entry'[g] = "handled" => entry[g] = "handled"
      PROVE  Work(g)'
  BY <1>1, <1>2, QuietWork DEF verifierVars
<1>3. CASE GeneratorStep
  <2>1. UNCHANGED <<result, verifierVars>>
    BY <1>3 DEF GeneratorStep, GenLog, GenPublish, GenInsertEntry
  <2>2. entry'[g] = "handled" => entry[g] = "handled"
    BY <1>3 DEF GeneratorStep, GenLog, GenPublish, GenInsertEntry, TypeOK
  <2>3. QED
    BY <1>2, <2>1, <2>2
<1>4. ASSUME NEW r \in Runner, StoreResult(r) PROVE Work(g)'
  <2>1. CASE g = rgen[r]
    BY <1>1, <1>4, <2>1, StoreWork
  <2>2. CASE g # rgen[r]
    <3>1. entry'[g] = entry[g] /\ result'[g] = result[g]
      BY <1>4, <2>2 DEF TypeOK, StoreResult
    <3>2. QED
      BY <1>1, <1>4, <3>1, QuietWork DEF StoreResult, verifierVars
  <2>3. QED
    BY <2>1, <2>2
<1>5. ASSUME NEW r \in Runner,
             \/ \E h \in Gen : Deliver(r, h)
             \/ ExecuteAndFlag(r) \/ Ack(r) \/ RunnerCrash(r) \/ BrokerRequeue(r)
      PROVE  Work(g)'
  BY <1>2, <1>5 DEF Deliver, ExecuteAndFlag, Ack, RunnerCrash, BrokerRequeue
<1>6. CASE GenCrash \/ GenRestart
  BY <1>2, <1>6 DEF GenCrash, GenRestart
<1>7. CASE VerifierFind
  BY <1>1, <1>7, FindWork
<1>8. CASE VerifierReport
  <2>1. result' = result /\ entry' = entry
    BY <1>8 DEF VerifierReport
  <2>2. g \in seen' => g \in seen /\ snap'[g] = snap[g]
    BY <1>8 DEF VerifierReport, Forget
  <2>3. entry'[g] = "handled" => verdict'[g] = verdict[g]
    BY <1>8, <2>1 DEF VerifierReport, Record, Reportable, OpenDocuments
  <2>4. QED
    BY <1>1, <2>1, <2>2, <2>3, QuietWork
<1>9. CASE VerifierMark
  <2>1. result' = result /\ verdict' = verdict /\ seen' = {}
    BY <1>9 DEF VerifierMark, Forget
  <2>2. entry'[g] = "handled" =>
          \/ entry[g] = "handled"
          \/ g \in seen /\ ReadyToHandle(snap[g]) /\ verdict[g] = snap[g]
    BY <1>9 DEF VerifierMark, Mark, HandledIds, Reportable, VerifierPass
  <2>3. QED
    BY <1>1, <2>1, <2>2, QuietWork
<1>10. CASE VerifierCrash
  <2>1. result' = result /\ seen' = {}
    BY <1>10 DEF VerifierCrash, Forget
  <2>2. entry'[g] = "handled" =>
          \/ entry[g] = "handled" /\ verdict'[g] = verdict[g]
          \/ g \in seen /\ ReadyToHandle(snap[g]) /\ verdict'[g] = snap[g]
    BY <1>10 DEF VerifierCrash, Record, Mark, HandledIds, Reportable, VerifierPass,
                 OpenDocuments
  <2>3. QED
    BY <1>1, <2>1, <2>2, QuietWork
<1>11. CASE VerifierRestart
  BY <1>1, <1>11, QuietWork DEF VerifierRestart
<1>12. CASE UNCHANGED vars
  BY <1>2, <1>12 DEF vars
<1>13. QED
  BY <1>3, <1>4, <1>5, <1>6, <1>7, <1>8, <1>9, <1>10, <1>11, <1>12
     DEF Next, RunnerStep, VerifierStep, FaultStep

\* A step that reports nothing and reopens nothing of a contract leaves its
\* account in balance.
LEMMA QuietAccount ==
  ASSUME TypeOK, TasksFinite, NEW g \in Gen, Paid(g), Pays(g),
         faults' \in Nat, reports'[g] = reports[g],
         reports[g] = 0 \/ truth'[g] = truth[g],
         ToReport(g)' => ToReport(g)
  PROVE  Paid(g)'
<1>1. /\ Tasks(g) \in Nat /\ Tasks(g)' \in Nat
      /\ Tasks(g)' + faults <= Tasks(g) + faults'
      /\ reports[g] \in Nat /\ faults \in Nat
  BY TasksInNat DEF Pays, TypeOK
<1>2. ASSUME reports'[g] > 0, ~ HasDeployError(truth'[g])
      PROVE  reports'[g] + Tasks(g)' + (IF ToReport(g)' THEN 1 ELSE 0) <= 1 + faults'
  <2>1. ~ HasDeployError(truth[g]) /\ reports[g] > 0
    BY <1>1, <1>2
  <2>2. reports[g] + Tasks(g) + (IF ToReport(g) THEN 1 ELSE 0) <= 1 + faults
    BY <2>1 DEF Paid
  <2>3. CASE ToReport(g)
    <3>1. reports[g] + Tasks(g) + 1 <= 1 + faults
      BY <2>2, <2>3
    <3>2. QED
      BY <1>1, <3>1
  <2>4. CASE ~ ToReport(g)
    <3>1. reports[g] + Tasks(g) + 0 <= 1 + faults
      BY <2>2, <2>4
    <3>2. ~ ToReport(g)'
      BY <2>4
    <3>3. QED
      BY <1>1, <3>1, <3>2
  <2>5. QED
    BY <2>3, <2>4
<1>3. QED
  BY <1>2 DEF Paid, HasDeployError

\* A stored result is paid for by the unit of work it ends.
LEMMA StoreAccount ==
  ASSUME TypeOK, TasksFinite, NEW r \in Runner, StoreResult(r),
         NEW g \in Gen, g = rgen[r], Paid(g)
  PROVE  Paid(g)'
<1>1. /\ Tasks(g) \in Nat /\ Tasks(g)' = Tasks(g) - 1
      /\ reports[g] \in Nat /\ faults \in Nat
      /\ reports' = reports /\ faults' = faults /\ truth' = truth
  <2>1. Tasks(g) \in Nat /\ Tasks(g)' = Tasks(g) - 1
    BY TasksInNat, StoreTasks
  <2>2. /\ reports[g] \in Nat /\ faults \in Nat
        /\ reports' = reports /\ faults' = faults /\ truth' = truth
    BY DEF StoreResult, TypeOK, genVars, verifierVars
  <2>3. QED
    BY <2>1, <2>2
<1>2. ASSUME reports'[g] > 0, ~ HasDeployError(truth'[g])
      PROVE  reports'[g] + Tasks(g)' + (IF ToReport(g)' THEN 1 ELSE 0) <= 1 + faults'
  <2>1. reports[g] + Tasks(g) + (IF ToReport(g) THEN 1 ELSE 0) <= 1 + faults
    BY <1>1, <1>2 DEF Paid
  <2>2. reports[g] + Tasks(g) <= 1 + faults
    BY <1>1, <2>1
  <2>3. QED
    BY <1>1, <2>2
<1>3. QED
  BY <1>2 DEF Paid, HasDeployError

\* The row of a clean contract is paid for by the pass that writes it, and the
\* contract is one of those to mark.
LEMMA ReportPaid ==
  ASSUME TypeOK, VerifierPass, FaithfulCopies, OpenDocuments, TasksFinite,
         Deterministic, vpc = "report",
         NEW g \in Reportable(snap), ~ HasDeployError(truth[g]), Work(g), Paid(g)
  PROVE  /\ g \in HandledIds(snap)
         /\ Bump(reports[g]) \in Nat /\ Bump(reports[g]) > 0
         /\ Bump(reports[g]) + Tasks(g) <= 1 + faults
<1>1. g \in Gen /\ snap[g] = truth[g]
  BY ReportableIsTrue
<1>2. g \in HandledIds(snap)
  BY <1>1 DEF HandledIds
<1>3. /\ reports[g] \in Nat /\ faults \in Nat /\ Tasks(g) \in Nat
      /\ Bump(reports[g]) \in Nat /\ Bump(reports[g]) > 0
      /\ Bump(reports[g]) <= reports[g] + 1
  BY <1>1, TasksInNat, BoundAssumption DEF TypeOK, Bump
<1>4. CASE reports[g] = 0
  <2>1. Cardinality(Stale(g, snap[g])) + Tasks(g) <= faults
    BY <1>1 DEF Work, Covered, Reportable
  <2>2. Tasks(g) <= faults
    BY <1>3, <2>1, StaleInNat
  <2>3. QED
    BY <1>2, <1>3, <1>4, <2>2
<1>5. CASE reports[g] > 0
  <2>1. ToReport(g)
    BY DEF OpenDocuments, Reportable, ToReport
  <2>2. reports[g] + Tasks(g) + 1 <= 1 + faults
    BY <1>5, <2>1 DEF Paid
  <2>3. QED
    BY <1>2, <1>3, <2>2
<1>6. QED
  BY <1>3, <1>4, <1>5

\* No pass of the verifier reports a clean contract that is not paid for.
LEMMA ReportAccount ==
  ASSUME TypeOK, VerifierPass, FaithfulCopies, OpenDocuments, TasksFinite,
         Deterministic, VerifierReport, NEW g \in Gen, Work(g), Paid(g), Pays(g)
  PROVE  Paid(g)'
<1>1. faults' \in Nat /\ truth' = truth /\ result' = result /\ entry' = entry
  BY DEF VerifierReport, TypeOK, genVars
<1>2. CASE g \notin Reportable(snap)
  <2>1. reports'[g] = reports[g]
    BY <1>2 DEF VerifierReport, Record
  <2>2. ToReport(g)' => ToReport(g)
    BY <1>1 DEF VerifierReport, ToReport
  <2>3. QED
    BY <1>1, <2>1, <2>2, QuietAccount
<1>3. CASE g \in Reportable(snap)
  <2>1. /\ reports'[g] = Bump(reports[g])
        /\ vpc' = "mark" /\ seen' = seen /\ snap' = snap /\ faults' = faults
    BY <1>3 DEF VerifierReport, Record
  <2>2. HandledIds(snap)' = HandledIds(snap)
    BY <2>1 DEF HandledIds, Reportable
  <2>3. ASSUME ~ HasDeployError(truth[g])
        PROVE  /\ reports'[g] \in Nat /\ reports'[g] > 0
               /\ ~ ToReport(g)'
               /\ reports'[g] + Tasks(g) <= 1 + faults
    <3>1. /\ g \in HandledIds(snap)
          /\ Bump(reports[g]) \in Nat /\ Bump(reports[g]) > 0
          /\ Bump(reports[g]) + Tasks(g) <= 1 + faults
      BY <1>3, <2>3, ReportPaid DEF VerifierReport
    <3>2. QED
      BY <2>1, <2>2, <3>1 DEF ToReport
  <2>4. reports'[g] # 0
    BY <2>1, BoundAssumption DEF TypeOK, Bump
  <2>5. /\ Tasks(g) \in Nat /\ Tasks(g)' \in Nat /\ faults \in Nat
        /\ Tasks(g)' <= Tasks(g)
    BY <2>1, TasksInNat DEF Pays, TypeOK
  <2>6. ASSUME ~ HasDeployError(truth'[g])
        PROVE  reports'[g] + Tasks(g)' + (IF ToReport(g)' THEN 1 ELSE 0) <= 1 + faults'
    <3>1. ~ HasDeployError(truth[g])
      BY <1>1, <2>6
    <3>2. reports'[g] + Tasks(g)' + 0 <= 1 + faults'
      BY <2>1, <2>3, <2>5, <3>1
    <3>3. QED
      BY <2>3, <3>1, <3>2
  <2>7. QED
    BY <2>4, <2>6 DEF Paid, HasDeployError
<1>4. QED
  BY <1>2, <1>3

\* A verifier that dies in the middle of a pass pays for it with a fault.
LEMMA VerifierCrashAccount ==
  ASSUME TypeOK, VerifierPass, FaithfulCopies, OpenDocuments, TasksFinite,
         Deterministic, VerifierCrash, NEW g \in Gen, Work(g), Paid(g)
  PROVE  Paid(g)'
<1>1. /\ faults \in Nat /\ faults' = faults + 1
      /\ truth' = truth /\ result' = result
  BY DEF VerifierCrash, Fault, TypeOK, genVars
<1>2. Tasks(g) \in Nat /\ Tasks(g)' = Tasks(g)
  BY TasksInNat DEF VerifierCrash, Tasks, Unsent, Waiting, Running, genVars, runnerVars
<1>3. reports[g] \in Nat
  BY DEF TypeOK
<1>4. \/ reports'[g] = reports[g]
      \/ vpc = "report" /\ g \in Reportable(snap) /\ reports'[g] = Bump(reports[g])
  BY DEF VerifierCrash, Record
<1>5. ASSUME reports'[g] > 0, ~ HasDeployError(truth'[g])
      PROVE  reports'[g] + Tasks(g)' + (IF ToReport(g)' THEN 1 ELSE 0) <= 1 + faults'
  <2>1. ~ HasDeployError(truth[g])
    BY <1>1, <1>5
  <2>2. reports'[g] \in Nat /\ reports'[g] + Tasks(g) <= 1 + faults
    <3>1. CASE reports'[g] = reports[g]
      <4>1. reports[g] + Tasks(g) + (IF ToReport(g) THEN 1 ELSE 0) <= 1 + faults
        BY <1>5, <2>1, <3>1 DEF Paid
      <4>2. QED
        BY <1>1, <1>2, <1>3, <3>1, <4>1
    <3>2. CASE vpc = "report" /\ g \in Reportable(snap) /\ reports'[g] = Bump(reports[g])
      BY <2>1, <3>2, ReportPaid
    <3>3. QED
      BY <1>4, <3>1, <3>2
  <2>3. QED
    BY <1>1, <1>2, <2>2
<1>6. QED
  BY <1>5 DEF Paid, HasDeployError

\* Every step keeps the accounts of the reports in balance.
LEMMA NextReportsPaid ==
  ASSUME TypeOK, KnownContracts, VerifierPass, FaithfulCopies, OpenDocuments,
         TasksFinite, WorkPaid, ReportsPaid, [Next]_vars
  PROVE  ReportsPaid'
<1> SUFFICES ASSUME Deterministic, NEW g \in Gen, Work(g), Paid(g) PROVE Paid(g)'
  BY DEF ReportsPaid, WorkPaid
<1>1. Pays(g) /\ faults' \in Nat
  BY NextTasks, NextTypeOK DEF TypeOK
<1>2. ASSUME NEW h \in Gen, GenLog(h) PROVE Paid(g)'
  <2>1. reports[g] = 0 \/ truth'[g] = truth[g]
    BY <1>2 DEF TypeOK, KnownContracts, GenLog
  <2>2. QED
    BY <1>1, <1>2, <2>1, QuietAccount
       DEF GenLog, verifierVars, ToReport, HandledIds, Reportable
<1>3. CASE GenInsertEntry
  <2>1. ToReport(g)' => ToReport(g)
    BY <1>3 DEF TypeOK, GenInsertEntry, verifierVars, ToReport, HandledIds, Reportable
  <2>2. QED
    BY <1>1, <1>3, <2>1, QuietAccount DEF GenInsertEntry, verifierVars
<1>4. ASSUME UNCHANGED <<truth, result, entry, verifierVars>> PROVE Paid(g)'
  <2>1. ToReport(g)' => ToReport(g)
    BY <1>4 DEF verifierVars, ToReport, HandledIds, Reportable
  <2>2. QED
    BY <1>1, <1>4, <2>1, QuietAccount DEF verifierVars
<1>5. ASSUME NEW q \in Queue, GenPublish(q) PROVE Paid(g)'
  BY <1>4, <1>5 DEF GenPublish
<1>6. CASE GenCrash \/ GenRestart
  BY <1>4, <1>6 DEF GenCrash, GenRestart
<1>7. ASSUME NEW r \in Runner,
             \/ \E h \in Gen : Deliver(r, h)
             \/ ExecuteAndFlag(r) \/ Ack(r) \/ RunnerCrash(r) \/ BrokerRequeue(r)
      PROVE  Paid(g)'
  BY <1>4, <1>7 DEF Deliver, ExecuteAndFlag, Ack, RunnerCrash, BrokerRequeue, genVars
<1>8. ASSUME NEW r \in Runner, StoreResult(r) PROVE Paid(g)'
  <2>1. CASE g = rgen[r]
    BY <1>8, <2>1, StoreAccount
  <2>2. CASE g # rgen[r]
    <3>1. entry'[g] = entry[g] /\ result'[g] = result[g]
      BY <1>8, <2>2 DEF TypeOK, StoreResult
    <3>2. ToReport(g)' => ToReport(g)
      BY <1>8, <3>1 DEF StoreResult, verifierVars, ToReport, HandledIds, Reportable
    <3>3. QED
      BY <1>1, <1>8, <3>1, <3>2, QuietAccount DEF StoreResult, genVars, verifierVars
  <2>3. QED
    BY <2>1, <2>2
<1>9. CASE VerifierFind
  <2>1. ToReport(g)' => ToReport(g)
    BY <1>9 DEF VerifierFind, ToReport
  <2>2. QED
    BY <1>1, <1>9, <2>1, QuietAccount DEF VerifierFind, genVars
<1>10. CASE VerifierReport
  BY <1>1, <1>10, ReportAccount
<1>11. CASE VerifierMark
  <2>1. ToReport(g)' => ToReport(g)
    BY <1>11 DEF VerifierMark, Mark, ToReport
  <2>2. QED
    BY <1>1, <1>11, <2>1, QuietAccount DEF VerifierMark, genVars
<1>12. CASE VerifierCrash
  BY <1>12, VerifierCrashAccount
<1>13. CASE VerifierRestart
  <2>1. ToReport(g)' => ToReport(g)
    BY <1>13 DEF VerifierRestart, ToReport
  <2>2. QED
    BY <1>1, <1>13, <2>1, QuietAccount DEF VerifierRestart, genVars
<1>14. CASE UNCHANGED vars
  BY <1>4, <1>14 DEF vars, genVars
<1>15. QED
  BY <1>2, <1>3, <1>5, <1>6, <1>7, <1>8, <1>9, <1>10, <1>11, <1>12, <1>13, <1>14
     DEF Next, GeneratorStep, RunnerStep, VerifierStep, FaultStep

(***************************************************************************)
(* The invariant, and what follows from it.                                *)
(***************************************************************************)

\* Nothing is waiting or running at first, and no more queues are to be published
\* to than compilers are missing.
LEMMA InitWorkPaid == Init => OpenDocuments /\ TasksFinite /\ WorkPaid
<1> SUFFICES ASSUME Init PROVE OpenDocuments /\ TasksFinite /\ WorkPaid
  OBVIOUS
<1>1. OpenDocuments
  BY DEF Init, OpenDocuments
<1>2. \A g \in Gen : Waiting(g) = {} /\ Running(g) = {}
  <2> TAKE g \in Gen
  <2>1. ASSUME NEW m PROVE m \notin Waiting(g)
    BY WaitingElement DEF Init
  <2>2. Running(g) = {}
    BY DEF Init, Running
  <2>3. QED
    BY <2>1, <2>2
<1>3. TasksFinite
  BY <1>2, FS_EmptySet DEF TasksFinite
<1>4. WorkPaid
  <2> SUFFICES ASSUME NEW g \in Gen PROVE Work(g)
    BY DEF WorkPaid
  <2>1. Unsent(g) = ActiveQueues /\ Missing(g) = Compiler
    BY DEF Init, Unsent, Missing, BlankRow
  <2>2. Cardinality(Waiting(g)) = 0 /\ Cardinality(Running(g)) = 0
    BY <1>2, FS_EmptySet
  <2>3. Tasks(g) <= Cardinality(Missing(g)) + faults
    BY <2>1, <2>2, ActiveQueuesFinite DEF Init, Tasks
  <2>4. g \notin seen /\ entry[g] # "handled"
    BY DEF Init
  <2>5. QED
    BY <2>3, <2>4 DEF Work
<1>5. QED
  BY <1>1, <1>3, <1>4

\* Empty collections and queues satisfy the invariant.
LEMMA InitIndInv == Init => IndInv
<1> SUFFICES ASSUME Init PROVE IndInv
  OBVIOUS
<1>1. TypeOK
  BY InitTypeOK
<1>2. KnownContracts /\ DeliveriesHeld
  BY DEF Init, KnownContracts, DeliveriesHeld
<1>3. TaskNotLost /\ HandledWasReported /\ VerdictTruthful
  BY DEF Init, TaskNotLost, HandledWasReported, VerdictTruthful
<1>4. VerifierPass /\ FaithfulCopies
  BY DEF Init, VerifierPass, FaithfulCopies, BlankRow
<1>5. ReportsPaid
  BY DEF Init, ReportsPaid, Paid
<1>6. QED
  BY <1>1, <1>2, <1>3, <1>4, <1>5, InitWorkPaid DEF IndInv

\* Every step preserves the invariant.
LEMMA NextIndInv == IndInv /\ [Next]_vars => IndInv'
<1> SUFFICES ASSUME IndInv, [Next]_vars PROVE IndInv'
  OBVIOUS
<1>1. TypeOK' /\ KnownContracts'
  BY NextTypeOK, NextKnownContracts DEF IndInv
<1>2. DeliveriesHeld' /\ VerifierPass'
  BY NextDeliveriesHeld, NextVerifierPass DEF IndInv
<1>3. DedicatedBrokers => TaskNotLost'
  BY NextTaskNotLost DEF IndInv
<1>4. HandledWasReported' /\ FaithfulCopies' /\ VerdictTruthful'
  BY NextHandledWasReported, NextFaithfulCopies, NextVerdictTruthful DEF IndInv
<1>5. DedicatedBrokers' <=> DedicatedBrokers
  BY DEF DedicatedBrokers, BrokerFor
<1>6. OpenDocuments' /\ WorkPaid' /\ ReportsPaid'
  BY NextOpenDocuments, NextWorkPaid, NextReportsPaid DEF IndInv
<1>7. TasksFinite'
  <2>1. TypeOK /\ TasksFinite
    BY DEF IndInv
  <2>2. ASSUME NEW g \in Gen PROVE Pays(g)
    BY <2>1, NextTasks
  <2>3. QED
    BY <2>2 DEF TasksFinite, Pays
<1>8. QED
  BY <1>1, <1>2, <1>3, <1>4, <1>5, <1>6, <1>7 DEF IndInv

\* The invariant holds in every reachable state.
THEOREM Invariance == Spec => []IndInv
<1>1. Init => IndInv
  BY InitIndInv
<1>2. IndInv /\ [Next]_vars => IndInv'
  BY NextIndInv
<1>3. QED
  BY <1>1, <1>2, PTL DEF Spec

\* When every compiler has a broker of its own, no crash, requeue or interleaving
\* loses a task: it has been run, or the broker still has it.
THEOREM NoTaskIsLost ==
  ASSUME DedicatedBrokers
  PROVE  Spec => []TaskNotLost
<1>1. IndInv => TaskNotLost
  BY DEF IndInv
<1>2. QED
  BY <1>1, Invariance, PTL

\* Whatever the executions yield, a contract is marked handled only after a
\* complete verdict without deployment errors has been written for it.
THEOREM HandledIsReported == Spec => []HandledWasReported
<1>1. IndInv => HandledWasReported
  BY DEF IndInv
<1>2. QED
  BY <1>1, Invariance, PTL

\* A verdict on deterministic executions is the truth about them.
THEOREM VerdictIsTruthful == Spec => []VerdictTruthful
<1>1. IndInv => VerdictTruthful
  BY DEF IndInv
<1>2. QED
  BY <1>1, Invariance, PTL

\* Whatever the executions yield, a handled contract holds results that nobody
\* judged for no more compilers than there were faults.
THEOREM StaleResultsArePaid == Spec => []StaleResultsPaid
<1>1. IndInv => StaleResultsPaid
  <2> SUFFICES ASSUME IndInv, NEW g \in Gen, entry[g] = "handled"
               PROVE  Cardinality(Stale(g, verdict[g])) <= faults
    BY DEF StaleResultsPaid
  <2>1. Cardinality(Stale(g, verdict[g])) + Tasks(g) <= faults
    BY DEF IndInv, WorkPaid, Work, Covered
  <2>2. Tasks(g) \in Nat /\ faults \in Nat
    BY TasksInNat DEF IndInv, TypeOK
  <2>3. QED
    BY <2>1, <2>2, StaleInNat
<1>2. QED
  BY <1>1, Invariance, PTL

\* However executions, crashes and redeliveries interleave, a contract that deploys
\* everywhere is reported once, and once more at most for every fault.
THEOREM ReportsAreBounded ==
  ASSUME Deterministic
  PROVE  Spec => []ReportsBounded
<1>1. IndInv => ReportsBounded
  <2> SUFFICES ASSUME IndInv, NEW g \in Gen,
                      reports[g] > 0, ~ HasDeployError(verdict[g])
               PROVE  reports[g] <= 1 + faults
    BY DEF ReportsBounded
  <2>1. ~ HasDeployError(truth[g])
    BY DEF IndInv, VerdictTruthful
  <2>2. reports[g] + Tasks(g) + (IF ToReport(g) THEN 1 ELSE 0) <= 1 + faults
    BY <2>1 DEF IndInv, ReportsPaid, Paid
  <2>3. reports[g] \in Nat /\ faults \in Nat /\ Tasks(g) \in Nat
    BY TasksInNat DEF IndInv, TypeOK
  <2>4. QED
    BY <2>2, <2>3
<1>2. QED
  BY <1>1, Invariance, PTL

(***************************************************************************)
(* Refinement: the pipeline implements DiffTest.                           *)
(***************************************************************************)

\* A batch of verdicts written by the verifier is a Judge step.
LEMMA RecordJudges ==
  ASSUME IndInv, Deterministic, NEW G \in SUBSET Reportable(snap), Record(G),
         UNCHANGED <<logged, truth>>
  PROVE  DT!Next
<1>1. G \in SUBSET logged
  BY DEF IndInv, VerifierPass, Reportable
<1>2. \A g \in G : g \in Gen /\ snap[g] = truth[g]
  BY ReportableIsTrue DEF IndInv
<1>3. \A g \in G : \A c \in Compiler : truth[g][c] # Empty
  BY <1>2 DEF Reportable, IsValid
<1>4. verdict' = [g \in Gen |-> IF g \in G THEN truth[g] ELSE verdict[g]]
  BY <1>2 DEF Record
<1>5. DT!Judge(G)
  BY <1>3, <1>4 DEF DT!Judge
<1>6. QED
  BY <1>1, <1>5 DEF DT!Next

\* On deterministic executions every behaviour of the pipeline, with its crashes,
\* duplicates and delays, is one of DiffTest.
THEOREM Refinement ==
  ASSUME Deterministic
  PROVE  Spec => ImplementsDiffTest
<1>1. Init => DT!Init
  BY DEF Init, DT!Init, DT!Blank, BlankRow
<1>2. IndInv /\ [Next]_vars => [DT!Next]_(DT!vars)
  <2> SUFFICES ASSUME IndInv, [Next]_vars, DT!vars' # DT!vars PROVE DT!Next
    OBVIOUS
  <2>1. ASSUME NEW g \in Gen, GenLog(g) PROVE DT!Next
    <3>1. DT!Submit(g)
      BY <2>1 DEF GenLog, Truth, DT!Submit, verifierVars
    <3>2. QED
      BY <3>1 DEF DT!Next
  <2>2. CASE VerifierReport
    BY <2>2, RecordJudges DEF VerifierReport, genVars
  <2>3. CASE VerifierCrash
    <3>1. CASE UNCHANGED <<reports, verdict>>
      BY <2>3, <3>1 DEF VerifierCrash, genVars, DT!vars
    <3>2. ASSUME NEW G \in SUBSET Reportable(snap), Record(G) PROVE DT!Next
      BY <2>3, <3>2, RecordJudges DEF VerifierCrash, genVars
    <3>3. QED
      BY <2>3, <3>1, <3>2 DEF VerifierCrash
  <2>4. CASE UNCHANGED <<logged, truth, verdict>>
    BY <2>4 DEF DT!vars
  <2>5. QED
    BY <2>1, <2>2, <2>3, <2>4
       DEF Next, GeneratorStep, RunnerStep, VerifierStep, FaultStep, GenPublish,
           GenInsertEntry, GenCrash, GenRestart, Deliver, ExecuteAndFlag,
           StoreResult, Ack, RunnerCrash, BrokerRequeue, VerifierFind,
           VerifierMark, VerifierRestart, vars, genVars, verifierVars
<1>3. QED
  BY <1>1, <1>2, Invariance, PTL DEF Spec, DT!Spec, ImplementsDiffTest

=============================================================================
