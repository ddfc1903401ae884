------------------------------ MODULE Pipeline ------------------------------
(***************************************************************************)
(* The distributed part of the fuzzer: one generator process, one message  *)
(* queue per compiler under test, a pool of runner replicas per compiler,  *)
(* one verifier, and the MongoDB collections they share.                   *)
(*                                                                         *)
(* Each action is one externally visible step of one process: a MongoDB    *)
(* operation, a publish, a delivery, an acknowledgement, or a crash.  The  *)
(* computation a process does between two such steps touches nothing       *)
(* shared and is part of the step that follows it.                         *)
(***************************************************************************)
EXTENDS Naturals, FiniteSets

CONSTANTS
  Gen,          \* ids of generated contracts (ObjectIds of compilation_log)
  NoGen,        \* "no contract": not an id
  Compiler,     \* names of the compilers in config.yml
  Runner,       \* runner replicas
  CompilerOf,   \* SERVICE_NAME of each replica
  Queue,        \* keys of the "queues" section of config.yml
  QueueOf,      \* the "queue" key of each compiler
  Broker,       \* RabbitMQ servers (the queue name is the same on all of them)
  BrokerOf,     \* host and port of each queue key
  Clean,        \* comparable results: deployed and with external functions
  Deterministic,\* is a result a function of contract and compiler?
  MaxFaults,    \* bound: crashes, converter failures and broker requeues
  MaxReports    \* bound: the count of reports per contract saturates here

DeployError == "deploy_error"   \* some constructor call of the result failed
Empty == "empty"                \* deployed, but without external functions
NoResult == "no_result"         \* field result_{compiler} not set

Outcome == Clean \cup {DeployError, Empty}
Row == [Compiler -> Outcome \cup {NoResult}]
BlankRow == [c \in Compiler |-> NoResult]

ASSUME GenAssumption == NoGen \notin Gen
ASSUME ConfigAssumption ==
  /\ CompilerOf \in [Runner -> Compiler]
  /\ QueueOf \in [Compiler -> Queue]
  /\ BrokerOf \in [Queue -> Broker]
\* config.yml lists the compilers.
ASSUME CompilersAssumption == IsFiniteSet(Compiler)
ASSUME CleanAssumption == Clean \cap {DeployError, Empty, NoResult} = {}
ASSUME BoundAssumption ==
  /\ Deterministic \in BOOLEAN
  /\ MaxFaults \in Nat
  /\ MaxReports \in Nat \ {0}

VARIABLES
  gpc, gcur,            \* generator: control point and contract in hand
  sent,                 \* queues each contract has been published to
  truth,                \* what each compiler does with each contract
  logged, compiled,     \* compilation_log: document present, compiled_* flags
  entry, result,        \* run_results: document state and result_* fields
  ready,                \* messages waiting in each broker, per contract
  rpc, rgen, rout,      \* runner: control point, contract, computed result
  owns,                 \* does the broker still hold r's delivery as unacked?
  vpc, seen, snap,      \* verifier: control point, documents read, their fields
  reports, verdict,     \* verification_results: count and last row judged
  faults                \* faults so far

genVars == <<gpc, gcur, sent, truth, logged>>
runnerVars == <<rpc, rgen, rout, owns>>
verifierVars == <<vpc, seen, snap, reports, verdict>>
vars == <<genVars, compiled, entry, result, ready, runnerVars, verifierVars,
          faults>>

-----------------------------------------------------------------------------
(* Configuration. *)

\* The queue managers of the generator: one per distinct queue key in use.
ActiveQueues == {QueueOf[c] : c \in Compiler}

\* The broker a compiler's runners consume from.
BrokerFor(c) == BrokerOf[QueueOf[c]]

Fault == /\ faults < MaxFaults
         /\ faults' = faults + 1

-----------------------------------------------------------------------------
(* Initial state: empty collections and queues, every process at the top   *)
(* of its loop.                                                            *)

Init ==
  /\ gpc = "idle" /\ gcur = NoGen
  /\ sent = [g \in Gen |-> {}]
  /\ truth = [g \in Gen |-> BlankRow]
  /\ logged = {}
  /\ compiled = [g \in Gen |-> {}]
  /\ entry = [g \in Gen |-> "absent"]
  /\ result = [g \in Gen |-> BlankRow]
  /\ ready = [b \in Broker |-> [g \in Gen |-> 0]]
  /\ rpc = [r \in Runner |-> "idle"]
  /\ rgen = [r \in Runner |-> NoGen]
  /\ rout = [r \in Runner |-> NoResult]
  /\ owns = [r \in Runner |-> FALSE]
  /\ vpc = "idle" /\ seen = {}
  /\ snap = [g \in Gen |-> BlankRow]
  /\ reports = [g \in Gen |-> 0]
  /\ verdict = [g \in Gen |-> BlankRow]
  /\ faults = 0

-----------------------------------------------------------------------------
(* Generator: TestOneProtoInput, called by the fuzzing engine for one      *)
(* message after another.                                                  *)

\* What a compiler may do with a contract; of no account when it varies from one
\* execution to the next.
Truth == IF Deterministic THEN Outcome ELSE {Empty}

\* Convert, compile, draw the inputs, and insert the compilation_log document.
GenLog(g) ==
  /\ gpc = "idle" /\ g \notin logged
  /\ logged' = logged \cup {g}
  /\ \E row \in [Compiler -> Truth] : truth' = [truth EXCEPT ![g] = row]
  /\ gpc' = "publish" /\ gcur' = g
  /\ UNCHANGED <<sent, compiled, entry, result, ready, runnerVars,
                 verifierVars, faults>>

\* MultiQueueManager.publish, one queue at a time.  (The code follows the
\* order of the configuration; any order is allowed here.)
GenPublish(q) ==
  /\ gpc = "publish" /\ q \in ActiveQueues \ sent[gcur]
  /\ sent' = [sent EXCEPT ![gcur] = @ \cup {q}]
  /\ ready' = [ready EXCEPT ![BrokerOf[q]][gcur] = @ + 1]
  /\ gpc' = IF ActiveQueues \subseteq sent'[gcur] THEN "insert" ELSE "publish"
  /\ UNCHANGED <<gcur, truth, logged, compiled, entry, result, runnerVars,
                 verifierVars, faults>>

\* The run_results document, without is_handled, comes last.
GenInsertEntry ==
  /\ gpc = "insert"
  /\ entry' = [entry EXCEPT ![gcur] = "new"]
  /\ gpc' = "idle" /\ gcur' = NoGen
  /\ UNCHANGED <<sent, truth, logged, compiled, result, ready, runnerVars,
                 verifierVars, faults>>

\* Seeded fault: the restarted generator still holds the contract in hand.
GenCrashKeepsContract ==
  /\ gpc # "down"
  /\ Fault
  /\ gpc' = "down"
  /\ UNCHANGED <<gcur, sent, truth, logged, compiled, entry, result, ready,
                 runnerVars, verifierVars>>

\* The process dies: the converter raised (generate_source logs and re-raises),
\* or an I/O call failed, or the container stopped.  What was begun is abandoned.
GenCrash ==
  /\ gpc # "down"
  /\ Fault
  /\ gpc' = "down" /\ gcur' = NoGen
  /\ UNCHANGED <<sent, truth, logged, compiled, entry, result, ready,
                 runnerVars, verifierVars>>

\* An operator starts the generator again (its service has no restart policy).
GenRestart ==
  /\ gpc = "down"
  /\ gpc' = "idle"
  /\ UNCHANGED <<gcur, sent, truth, logged, compiled, entry, result, ready,
                 runnerVars, verifierVars, faults>>

-----------------------------------------------------------------------------
(* Runner replica r: RunnerBase.callback with prefetch_count = 1.          *)

\* The outcomes handle_compilation may return for contract g on compiler c.
Execution(g, c) == IF Deterministic THEN {truth[g][c]} ELSE Outcome

\* Seeded fault: automatic acknowledgement, the broker forgets on delivery.
DeliverAutoAck(r, g) ==
  LET b == BrokerFor(CompilerOf[r])
  IN  /\ rpc[r] = "idle" /\ ready[b][g] > 0
      /\ ready' = [ready EXCEPT ![b][g] = @ - 1]
      /\ rpc' = [rpc EXCEPT ![r] = "execute"]
      /\ rgen' = [rgen EXCEPT ![r] = g]
      /\ UNCHANGED <<genVars, compiled, entry, result, rout, owns, verifierVars,
                     faults>>

\* The broker hands a waiting message to a runner that holds none.
Deliver(r, g) ==
  LET b == BrokerFor(CompilerOf[r])
  IN  /\ rpc[r] = "idle" /\ ready[b][g] > 0
      /\ ready' = [ready EXCEPT ![b][g] = @ - 1]
      /\ rpc' = [rpc EXCEPT ![r] = "execute"]
      /\ rgen' = [rgen EXCEPT ![r] = g]
      /\ owns' = [owns EXCEPT ![r] = TRUE]
      /\ UNCHANGED <<genVars, compiled, entry, result, rout, verifierVars,
                     faults>>

\* Deploy and call the contract, then set compiled_{c}; the update matches
\* nothing when the document is missing.
ExecuteAndFlag(r) ==
  LET g == rgen[r]
      c == CompilerOf[r]
  IN  /\ rpc[r] = "execute"
      /\ \E o \in Execution(g, c) : rout' = [rout EXCEPT ![r] = o]
      /\ compiled' = IF g \in logged
                     THEN [compiled EXCEPT ![g] = @ \cup {c}]
                     ELSE compiled
      /\ rpc' = [rpc EXCEPT ![r] = "store"]
      /\ UNCHANGED <<genVars, entry, result, ready, rgen, owns, verifierVars,
                     faults>>

\* Seeded fault: the update leaves is_handled unset.
StoreResultNoFlag(r) ==
  LET g == rgen[r]
      c == CompilerOf[r]
  IN  /\ rpc[r] = "store"
      /\ result' = IF entry[g] = "absent" THEN result
                   ELSE [result EXCEPT ![g][c] = rout[r]]
      /\ rpc' = [rpc EXCEPT ![r] = "ack"]
      /\ UNCHANGED <<genVars, compiled, entry, ready, rgen, rout, owns,
                     verifierVars, faults>>

\* Set result_{c} and is_handled = False; again nothing is matched, and the
\* result dropped, when the run_results document is missing.
StoreResult(r) ==
  LET g == rgen[r]
      c == CompilerOf[r]
  IN  /\ rpc[r] = "store"
      /\ IF entry[g] = "absent"
         THEN UNCHANGED <<entry, result>>
         ELSE /\ result' = [result EXCEPT ![g][c] = rout[r]]
              /\ entry' = [entry EXCEPT ![g] = "unhandled"]
      /\ rpc' = [rpc EXCEPT ![r] = "ack"]
      /\ UNCHANGED <<genVars, compiled, ready, rgen, rout, owns, verifierVars,
                     faults>>

Release(r) ==
  /\ rpc' = [rpc EXCEPT ![r] = "idle"]
  /\ rgen' = [rgen EXCEPT ![r] = NoGen]
  /\ rout' = [rout EXCEPT ![r] = NoResult]
  /\ owns' = [owns EXCEPT ![r] = FALSE]

\* basic_ack.  If the broker has already taken the delivery back the call fails,
\* start_runner exits, and the container is restarted: idle either way.
Ack(r) ==
  /\ rpc[r] = "ack"
  /\ Release(r)
  /\ UNCHANGED <<genVars, compiled, entry, result, ready, verifierVars, faults>>

Requeued(r) == [ready EXCEPT ![BrokerFor(CompilerOf[r])][rgen[r]] = @ + 1]

\* The replica dies and its container restarts it: an exception outside the try
\* blocks, an AMQPError, a kill.  The broker requeues the unacked delivery.
RunnerCrash(r) ==
  /\ rpc[r] # "idle"
  /\ Fault
  /\ ready' = IF owns[r] THEN Requeued(r) ELSE ready
  /\ Release(r)
  /\ UNCHANGED <<genVars, compiled, entry, result, verifierVars>>

\* The broker drops the connection (heartbeats are off) and requeues the
\* delivery, while the replica goes on working on it.
BrokerRequeue(r) ==
  /\ rpc[r] # "idle" /\ owns[r]
  /\ Fault
  /\ ready' = Requeued(r)
  /\ owns' = [owns EXCEPT ![r] = FALSE]
  /\ UNCHANGED <<genVars, compiled, entry, result, rpc, rgen, rout,
                 verifierVars>>

-----------------------------------------------------------------------------
(* Verifier: one pass of the loop of start_verifier.                       *)

\* Seeded fault: any instead of all.
ReadyWhenAny(row) == \E c \in Compiler : row[c] # NoResult

ReadyToHandle(row) == \A c \in Compiler : row[c] # NoResult
IsValid(row) == \A c \in Compiler : row[c] # Empty
HasDeployError(row) == \E c \in Compiler : row[c] = DeployError

\* Seeded faults: is_valid forgotten; every reported document marked handled;
\* the branches of has_errors swapped.
ReportableAny(S) == {g \in seen : ReadyToHandle(S[g])}
HandledAny(S) == {g \in seen : ReadyToHandle(S[g]) /\ IsValid(S[g])}
HandledSwapped(S) ==
  {g \in seen : ReadyToHandle(S[g]) /\ IsValid(S[g]) /\ HasDeployError(S[g])}

\* Documents of a pass that are written to verification_results, and those of
\* them that are marked handled: deployment errors are not.
Reportable(S) == {g \in seen : ReadyToHandle(S[g]) /\ IsValid(S[g])}
HandledIds(S) == {g \in Reportable(S) : ~ HasDeployError(S[g])}

\* find({"is_handled": False})
VerifierFind ==
  /\ vpc = "idle"
  /\ seen' = {g \in Gen : entry[g] = "unhandled"}
  /\ snap' = [g \in Gen |-> IF g \in seen' THEN result[g] ELSE BlankRow]
  /\ vpc' = "report"
  /\ UNCHANGED <<genVars, compiled, entry, result, ready, runnerVars, reports,
                 verdict, faults>>

Bump(n) == IF n < MaxReports THEN n + 1 ELSE n
Forget == /\ seen' = {}
          /\ snap' = [g \in Gen |-> BlankRow]

\* The rows of the contracts in G reach verification_results.
Record(G) ==
  /\ reports' = [g \in Gen |-> IF g \in G THEN Bump(reports[g]) ELSE reports[g]]
  /\ verdict' = [g \in Gen |-> IF g \in G THEN snap[g] ELSE verdict[g]]

\* is_handled is set on the contracts in G, whatever they hold by now.
Mark(G) == entry' = [g \in Gen |-> IF g \in G THEN "handled" ELSE entry[g]]

\* insert_many of the verification results, when there are any.
VerifierReport ==
  /\ vpc = "report"
  /\ Record(Reportable(snap))
  /\ IF Reportable(snap) = {}
     THEN vpc' = "idle" /\ Forget
     ELSE vpc' = "mark" /\ UNCHANGED <<seen, snap>>
  /\ UNCHANGED <<genVars, compiled, entry, result, ready, runnerVars, faults>>

\* update_many by _id.
VerifierMark ==
  /\ vpc = "mark"
  /\ Mark(HandledIds(snap))
  /\ vpc' = "idle" /\ Forget
  /\ UNCHANGED <<genVars, compiled, result, ready, runnerVars, reports,
                 verdict, faults>>

\* The verifier dies.  insert_many and update_many are not atomic: a crash inside
\* one leaves any part of its effect.
VerifierCrash ==
  /\ vpc # "down"
  /\ Fault
  /\ \/ /\ vpc = "idle"
        /\ UNCHANGED <<entry, reports, verdict>>
     \/ /\ vpc = "report"
        /\ \E G \in SUBSET Reportable(snap) : Record(G)
        /\ UNCHANGED entry
     \/ /\ vpc = "mark"
        /\ \E G \in SUBSET HandledIds(snap) : Mark(G)
        /\ UNCHANGED <<reports, verdict>>
  /\ vpc' = "down" /\ Forget
  /\ UNCHANGED <<genVars, compiled, result, ready, runnerVars>>

\* An operator starts the verifier again (its service has no restart policy).
VerifierRestart ==
  /\ vpc = "down"
  /\ vpc' = "idle"
  /\ UNCHANGED <<genVars, compiled, entry, result, ready, runnerVars, seen, snap,
                 reports, verdict, faults>>

-----------------------------------------------------------------------------
GeneratorStep ==
  \/ \E g \in Gen : GenLog(g)
  \/ \E q \in Queue : GenPublish(q)
  \/ GenInsertEntry
RunnerStep(r) ==
  \/ \E g \in Gen : Deliver(r, g)
  \/ ExecuteAndFlag(r)
  \/ StoreResult(r)
  \/ Ack(r)
VerifierStep == VerifierFind \/ VerifierReport \/ VerifierMark
FaultStep ==
  \/ GenCrash
  \/ GenRestart
  \/ \E r \in Runner : RunnerCrash(r) \/ BrokerRequeue(r)
  \/ VerifierCrash
  \/ VerifierRestart

Next ==
  \/ GeneratorStep
  \/ \E r \in Runner : RunnerStep(r)
  \/ VerifierStep
  \/ FaultStep

\* Runners and verifier are loops that never wait for anything but a message or
\* a clock, and only the runners' services say restart: always.  Nothing obliges
\* the generator to go on, or an operator to start a process that died.
Fairness ==
  /\ \A r \in Runner : WF_vars(RunnerStep(r))
  /\ WF_vars(VerifierStep)

Spec == Init /\ [][Next]_vars
FairSpec == Spec /\ Fairness

-----------------------------------------------------------------------------
(* Properties. *)

Complete(row) == ReadyToHandle(row) /\ IsValid(row)

\* Every variable has its type; the generator holds a contract exactly between
\* the two inserts of TestOneProtoInput, and a runner exactly while it works.
TypeOK ==
  /\ gpc \in {"idle", "publish", "insert", "down"}
  /\ gcur \in Gen \cup {NoGen}
  /\ gcur = NoGen <=> gpc \in {"idle", "down"}
  /\ sent \in [Gen -> SUBSET Queue]
  /\ truth \in [Gen -> Row]
  /\ logged \subseteq Gen
  /\ compiled \in [Gen -> SUBSET Compiler]
  /\ entry \in [Gen -> {"absent", "new", "unhandled", "handled"}]
  /\ result \in [Gen -> Row]
  /\ ready \in [Broker -> [Gen -> Nat]]
  /\ rpc \in [Runner -> {"idle", "execute", "store", "ack"}]
  /\ rgen \in [Runner -> Gen \cup {NoGen}]
  /\ \A r \in Runner : rgen[r] = NoGen <=> rpc[r] = "idle"
  /\ rout \in [Runner -> Outcome \cup {NoResult}]
  /\ owns \in [Runner -> BOOLEAN]
  /\ vpc \in {"idle", "report", "mark", "down"}
  /\ seen \subseteq Gen
  /\ snap \in [Gen -> Row]
  /\ reports \in [Gen -> 0..MaxReports]
  /\ verdict \in [Gen -> Row]
  /\ faults \in 0..MaxFaults

\* Each compiler has a broker of its own (howto_run.md: "For each `runner`,
\* there must be a separate AMQ").
DedicatedBrokers ==
  \A c, d \in Compiler : BrokerFor(c) = BrokerFor(d) => c = d

\* The task <<g, c>> is still in the broker: waiting, or delivered and unacked.
TaskPending(g, c) ==
  \/ ready[BrokerFor(c)][g] > 0
  \/ \E r \in Runner : owns[r] /\ rgen[r] = g /\ CompilerOf[r] = c

\* At-least-once: a contract published for a compiler is run by it, or is still
\* waiting for it, whatever crashed or was requeued in between.
TaskNotLost ==
  \A g \in Gen, c \in Compiler :
    QueueOf[c] \in sent[g] => c \in compiled[g] \/ TaskPending(g, c)

\* A contract is marked handled only after a complete verdict without deployment
\* errors has been written for it: start_verifier marks after it inserts, and a
\* runner that stores a new result reopens the contract.
HandledWasReported ==
  \A g \in Gen : entry[g] = "handled" =>
    /\ reports[g] > 0
    /\ Complete(verdict[g])
    /\ ~ HasDeployError(verdict[g])

\* When execution is deterministic, a verdict judges what the compilers really do:
\* no crash, duplicate or late answer mixes in a missing or foreign result.
VerdictTruthful ==
  Deterministic => \A g \in Gen : reports[g] > 0 => verdict[g] = truth[g]

\* Compilers whose stored result of g is not the one in row.
Stale(g, row) == {c \in Compiler : row[c] # result[g][c]}

\* update_many marks by _id, whatever was stored since the verifier read: a handled
\* contract may hold results nobody judged, though executions differ from one time
\* to the next, for no more compilers than there were faults.
StaleResultsPaid ==
  \A g \in Gen :
    entry[g] = "handled" => Cardinality(Stale(g, verdict[g])) <= faults

\* A clean contract is reported once, and once more at most for every fault: a
\* redelivery reopens it once, a verifier crash forgets one update.
ReportsBounded ==
  \A g \in Gen :
    reports[g] > 0 /\ ~ HasDeployError(verdict[g]) => reports[g] <= 1 + faults

\* The comment at run_api.py:77 promises "no race condition in runners": once no
\* process is working on a contract, what its runners computed is stored.
NoRaceInRunners ==
  \A g \in Gen, c \in Compiler :
    gcur # g /\ entry[g] # "absent" /\ c \in compiled[g] /\ ~ TaskPending(g, c)
      => result[g][c] # NoResult

\* Liveness: a published contract is eventually run by every compiler it was
\* published for.
TaskExecuted ==
  \A g \in Gen, c \in Compiler :
    QueueOf[c] \in sent[g] ~> c \in compiled[g]

\* What the verifier's part of the liveness supposes: whenever it died, somebody
\* started it again.
VerifierRestarted == []<>(vpc # "down")

\* Liveness: once every compiler's result is stored, a valid contract is reported,
\* provided the verifier is started again.
CompleteIsReported ==
  VerifierRestarted =>
    \A g \in Gen : Complete(result[g]) ~> reports[g] > 0

\* Liveness: and without deployment errors it ends up handled for good, however
\* often a redelivery reopened it.
CleanIsSettled ==
  VerifierRestarted =>
    \A g \in Gen :
      Complete(result[g]) /\ ~ HasDeployError(result[g])
        ~> [](entry[g] = "handled")

\* Deterministic executions implement DiffTest: a contract is submitted when its
\* compilation_log document is written, and judged when its verdict is.
DT == INSTANCE DiffTest WITH
        submitted <- logged, behaviour <- truth, judged <- verdict,
        Unknown <- NoResult
ImplementsDiffTest == DT!Spec

-----------------------------------------------------------------------------
(* The inductive invariant behind the safety properties, in parts.         *)

\* Only a contract in compilation_log leaves traces anywhere else.
KnownContracts ==
  /\ gcur # NoGen => gcur \in logged
  /\ \A g \in Gen : sent[g] # {} => g \in logged
  /\ \A r \in Runner : rgen[r] # NoGen => rgen[r] \in logged
  /\ \A b \in Broker, g \in Gen : ready[b][g] > 0 => g \in logged
  /\ \A g \in logged : truth[g] \in [Compiler -> Outcome]
  /\ \A g \in Gen \ logged :
       entry[g] = "absent" /\ result[g] = BlankRow /\ reports[g] = 0

\* A replica that owns a delivery is working on it, and one that is past the first
\* update has flagged its contract and holds an outcome.
DeliveriesHeld ==
  \A r \in Runner :
    /\ owns[r] => rpc[r] # "idle"
    /\ rpc[r] \in {"store", "ack"} =>
         CompilerOf[r] \in compiled[rgen[r]] /\ rout[r] # NoResult

\* What the verifier read is still there, in the documents it is going to mark.
VerifierPass ==
  /\ vpc \in {"idle", "down"} => seen = {}
  /\ seen \subseteq logged
  /\ \A g \in Gen, c \in Compiler :
       snap[g][c] # NoResult => result[g][c] # NoResult
  /\ vpc = "report" => \A g \in seen : entry[g] # "handled"
  /\ vpc = "mark" =>
       \A g \in Reportable(snap) : reports[g] > 0 /\ verdict[g] = snap[g]
  /\ \A g \in Gen : entry[g] = "handled" => ReadyToHandle(result[g])

\* Every copy of a result on its way to the verdict is the true one.
FaithfulCopies ==
  Deterministic =>
    /\ \A r \in Runner : rpc[r] \in {"store", "ack"} =>
         rout[r] = truth[rgen[r]][CompilerOf[r]]
    /\ \A g \in Gen, c \in Compiler :
         /\ result[g][c] \in {NoResult, truth[g][c]}
         /\ snap[g][c] \in {NoResult, truth[g][c]}

\* A document appears once, after everything else the generator does for it, and
\* the documents of a pass stay as they were found until they are marked.
OpenDocuments ==
  /\ gpc \in {"publish", "insert"} => entry[gcur] = "absent"
  /\ \A g \in seen : entry[g] = "unhandled"

\* The work that can still store a result of contract g, each unit of it once: the
\* queues it is not published to, its waiting messages, the replicas running it.
Unsent(g) == ActiveQueues \ sent[g]
Waiting(g) == UNION {{b} \X (1 .. ready[b][g]) : b \in Broker}
Running(g) == {r \in Runner : rgen[r] = g /\ rpc[r] \in {"execute", "store"}}
Tasks(g) ==
  Cardinality(Unsent(g)) + Cardinality(Waiting(g)) + Cardinality(Running(g))

TasksFinite ==
  \A g \in Gen : IsFiniteSet(Waiting(g)) /\ IsFiniteSet(Running(g))

\* Compilers whose result of g is not stored; will the next pass read g again?
Missing(g) == {c \in Compiler : result[g][c] = NoResult}
ToReport(g) ==
  entry[g] = "unhandled" /\ ~ (vpc = "mark" /\ g \in HandledIds(snap))

\* Every unit of work fills a missing result or was added by a fault.  Once a pass
\* has read a complete row, the work left and the results stored since then are
\* covered by faults, and so they are when the contract has been marked.
Covered(g, row) == Cardinality(Stale(g, row)) + Tasks(g) <= faults
Work(g) ==
  /\ Tasks(g) <= Cardinality(Missing(g)) + faults
  /\ g \in seen /\ ReadyToHandle(snap[g]) => Covered(g, snap[g])
  /\ entry[g] = "handled" => Covered(g, verdict[g])

WorkPaid == \A g \in Gen : Work(g)

\* After the first report the faults pay for every other one, for the work left,
\* which may reopen the contract, and for a pass that is to read it.
Paid(g) ==
  reports[g] > 0 /\ ~ HasDeployError(truth[g]) =>
    reports[g] + Tasks(g) + (IF ToReport(g) THEN 1 ELSE 0) <= 1 + faults

ReportsPaid == Deterministic => \A g \in Gen : Paid(g)

\* The inductive invariant: only the loss of a task depends on the brokers.
IndInv ==
  /\ TypeOK
  /\ KnownContracts
  /\ DeliveriesHeld
  /\ DedicatedBrokers => TaskNotLost
  /\ VerifierPass
  /\ HandledWasReported
  /\ FaithfulCopies
  /\ VerdictTruthful
  /\ OpenDocuments
  /\ TasksFinite
  /\ WorkPaid
  /\ ReportsPaid

=============================================================================
