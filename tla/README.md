# Vyzzer: a verification project

TLA+ models of *vyzzer*, a structure-aware differential fuzzer for the Vyper
compiler, with TLC configurations that check them on small instances and TLAPS
proofs of their main properties for instances of any size. Line numbers refer to
the Python sources under `src/fuzz/`.

## 1. The system

A *generator* is driven by a fuzzing engine with one protobuf message after
another. It converts each message to a contract in Vyper, draws inputs for its
functions, and hands both to the compilers under test through one RabbitMQ queue
per compiler. *Runners*, several replicas per compiler, deploy the contract, call
its functions and store what they observe. A *verifier* polls for contracts whose
results are complete, compares the compilers and writes a verdict.

| Component | State | Operations | Interacts with |
|---|---|---|---|
| Generator (`generators/run_api.py`, `run_diff.py`) | none of its own | `TestOneProtoInput`: convert, compile, insert in `compilation_log`, publish, insert in `run_results` | converter (call), MongoDB, queues |
| Queues (`helpers/queue_managers.py`, RabbitMQ) | messages waiting, deliveries unacknowledged | `publish` to each queue in turn; deliver, acknowledge, requeue | generator, runners |
| Runner (`runners/runner_api.py`) | delivery in hand | `callback`: execute, update two documents, acknowledge | queue, boa, MongoDB |
| Verifier (`verifiers/verifier_api.py`) | documents read in a pass | `start_verifier`: find, compare, insert verdicts, mark documents | MongoDB |
| Collections | `compilation_log` (`compiled_*`), `run_results` (`result_*`, `is_handled`), `verification_results` | single-document updates; `insert_many`, `update_many` | all three services |
| Configuration (`helpers/config.py`, `config.yml`) | compilers, queue keys, servers | `compiler_queues`, `get_compiler_params_by_name` | all three services |
| Function converter (`converters/function_converter.py`, `func_tracker.py`) | call tree, its sanitized copy | `setup_order` | typed converter (call) |
| Variable tracker (`converters/var_tracker.py`) | variables by type, level and mutability; id counters | register, look up, remove a level, reset | typed converter |
| Typed converter (`converters/typed_converters.py`, `parameters_converter.py`) | level of block, mutability level, stacks of types and operators, constant mode | `visit` and its visitors | the call graph, the tracker, types |
| Types and literals (`types_d/`, `converters/utils.py`) | none | sizes, literals, checks of operands, random values | converter, input generation |
| Input generation (`generators/input_generation.py`) | strategy | `change_strategy`, `generate` | generator |

Hard behaviours: three kinds of processes share collections without transactions;
tasks are delivered at least once, so a result may be computed and stored twice, or
late; every process may die between any two writes; the verifier acts on documents
it read earlier; brokers, which need longer to start than their clients, are reached
by retries, and docker restarts the runners and nothing else; the converter infers
mutability and scopes in one recursive pass over an arbitrary message, and hands
types from visitor to visitor on a stack that they all share.
`PROJECT.json` lists the hazards at their lines.

What makes each part correct:

- services: no published task is lost; a verdict judges what the compilers really
  do; a contract is closed only after its verdict; results that nobody judged and
  duplicate reports are bounded by faults; what should be judged eventually is;
- connections: no process gives up early or loses a message, and what a broker took is
  executed, as far as somebody looks after the brokers;
- runs and comparison: what is reported is caused by the compilers it names, and what
  differs is reported;
- call graph: no cycle is left, callees come before callers, the searches end;
- tracker and converter: names are unique, variables are referred to only in their
  block, functions are declared as mutable as they need to be;
- expressions: each is of the type that is wanted, fits it, and keeps its meaning when
  it is written inside another one.

## 2. Modules

| Module | Models | Used by |
|---|---|---|
| `DiffTest` | the abstract differential test: submit a contract, judge it on the true outcomes of all compilers | `Pipeline` (refinement) |
| `Pipeline` | generator, queues, runners, verifier, collections | `PipelineProofs`, `MCPipeline` |
| `Connections` | configuration, connecting, brokers that stop, restarts, poison messages | `ConnectionsProofs`, `MCConnections` |
| `VerifierResults` | inputs, execution and comparison of one contract | `VerifierResultsProofs`, `MCVerifierResults` |
| `CallGraph` | `FunctionConverter.setup_order` | `CallGraphProofs`, `MCCallGraph` |
| `VarTracker` | the operations of `VarTracker` | `Converter` (instance) |
| `Converter` | `TypedConverter.visit`: declarations, blocks, statements, calls | `ConverterProofs`, `MCConverter` |
| `Literals` | sizes of types, literals, what is known of the text written so far | `Expressions`, `LiteralsProofs` |
| `Expressions` | `TypedConverter`'s visitors of expressions | `ExpressionsProofs`, `MCExpressions` |

Each `MC` module gives values to the constants; each `.cfg` is one run. Operators
marked "Seeded fault" are not part of a model: they are what a plausible bug would
make of the definition that follows them, kept to show that the properties notice.

### Pipeline and DiffTest

An action is one write or read that another process can see, with the computation
before it. The generator's control point `gpc` goes through `GenLog` (the insert at
run_api.py:65), `GenPublish` for each queue (queue_managers.py:61-63) and
`GenInsertEntry` (run_api.py:78). A runner goes through `Deliver`, `ExecuteAndFlag`
(runner_api.py:42-46), `StoreResult` (47-48; an update that matches no document
changes nothing) and `Ack`. The verifier goes through `VerifierFind`,
`VerifierReport` and `VerifierMark`, which acts on what was read two steps earlier.

`entry[g]` is the state of a `run_results` document: absent, without `is_handled`,
`is_handled` false, or true. `truth[g]` is a history variable: what each compiler
does with `g`, fixed when the contract is written. Results are kept as far as the
verifier's control tells them apart: a member of `Clean`, a deployment error, or no
external function. With `Deterministic = FALSE` every execution may have any
outcome, and `truth` means nothing: that is how the verifier's stale mark can be seen
(`StaleResultsPaid`), since a result that is stored again is then not the one it judged.
`owns[r]` says whether the broker still counts `r`'s delivery as unacknowledged;
`BrokerRequeue` takes it back while the replica keeps working, which is possible because
heartbeats are off (queue_managers.py:29).

Faults (`GenCrash`, `RunnerCrash`, `BrokerRequeue`, `VerifierCrash`) are counted and
bounded by `MaxFaults`. `VerifierCrash` leaves any part of an `insert_many` or
`update_many` done, and the verifier `down`: its service has no restart policy
(docker-compose_diff_fuz.yml:76-88), so that `VerifierRestart` is an action of an operator,
without fairness. `reports` counts up to `MaxReports`.

`DiffTest` has no processes. `Pipeline` implements it with `submitted <- logged`,
`behaviour <- truth`, `judged <- verdict`, if execution is deterministic.

### Connections

`Pipeline` takes for granted that every process is connected; this module is about
how it comes to that. A process goes from `created` (`Start`: the configuration is read,
a `SERVICE_NAME` looked up) through `connecting` (`Connect`, `ConnectFails`: one attempt
of `QueueManager.__connect`, for one queue manager after another) to `working`. A runner
then takes a message (`Deliver`), stores a result (`Execute`) and acknowledges (`Ack`). It
ends when `handle_compilation` raises outside of its `try` blocks (`Execute` of a message in
`Poison`), when it acknowledges on a connection that is gone, or when it notices that
(`Fail`). Docker starts it again, with `Start`; the generator stays dead. `StopBroker` closes
all connections to a broker. What it had, and what was not acknowledged, may be there when
the broker is started again (queues are durable, messages persistent), or not: the queues
have no volumes, and docker-compose_diff_fuz.yml:110 has a TODO to find some "to not lose it
in case of a failure". `forgotten` keeps what was lost like that. A publish on a closed
connection is lost too (`PublishInVain`). The constants range over all assignments of queue
keys to compilers, one of them missing included, so that two compilers may share a queue,
as they do in `config.yml`.

### VerifierResults

One contract from its inputs to its verdict. `Init` draws the inputs as
`generate_inputs` does: a list for every strategy, for every function, and for the
constructor if it has parameters (otherwise it is deployed once, without any). Then, for
every compiler, `Take`, `Deploy` or `DeployFails`, `CallFunction`, `EndDeployment` and
`Store` are the loops of `handle_compilation`: a new contract for each set of constructor
inputs, on which all functions are called with each of their sets, in the order of their
names. All deployments of a runner, for this and for earlier contracts, are made in one
process of boa: `chain` is what they share (nonces, and so addresses; balances; other
contracts), `started` what it is when this contract comes. A contract is what boa makes of
it: an arbitrary function from the storage, the chain and the arguments to a result, a
storage and a chain (`Behaviour`); of the storage only the first ten slots are dumped.
Runners share nothing with each other, so that one is followed at a time.

When all results are there, the verifier acts: `Skip` (not `is_valid`),
`ReportDeployErrors` or `VerifyResults`. `Column` is what `reshape_data` collects for one
call, and `DeployErrors` what `check_deploy_errors` does for one deployment: bare lists
(`Listed`), to which each compiler that has a result appends it. Who a result is from is
only known by its place; `CallRow` and `DeployRow` name the compilers at the same places. Memory and gas are dumped and never compared (verifier_api.py:167-173), so they are
left out.

### CallGraph

The searches `_find_cyclic_calls` and `_find_next_id` are recursive in the code.
Here `stack` holds their active calls and an action is one iteration of the loop of
the topmost one. `path` is the `call_stack` list of a call, which grows over the
iterations and is copied for each callee (function_converter.py:42-43). The bodies
of the functions are only the calls they contain, in any order and number.

### VarTracker and Converter

The tracker's nested dictionaries are one set of variables with type, number,
level and dictionary key. A lookup gives all variables the code's list would hold,
and a caller chooses any, as `random.choice` does. `VarTracker` has no behaviour of its own:
its operators take a tracker and give the next one, and `Converter` applies them.
`reset_function_variables` is left out, since its calls in the converter are commented out
(typed_converters.py:160, 174).

`Converter` takes the message's place: an action is a declaration, a parameter, a
statement, the begin or end of a block, or of a function. Of the generated text
only what Vyper's acceptance depends on is kept. `effect` is a history variable:
the least mutability that the body written so far calls for, computed from the
variables really chosen, in two parts: what statements and calls need (`by`) and what
storing the outputs of calls needs (`outs`). `mutability` is what the code infers. When a
function is done, `short` records in which part it was given too little. An expression
is what it reads, the mutability level after it, and what it calls for; its structure is
in `Expressions`.

### Literals and Expressions

`Literals` has no state: it is the arithmetic of `types_d` and of `extract_type`, from
any number in a message to the size of a type, a literal, or what
`check_literal_bounds` and `check_binop_bounds` make of an operand. The code evaluates the text of an operand with `eval`; here a text is what `eval` would
return (an integer, a fraction, a complex number, nothing) and whether it has an operator
that no parentheses enclose.

`Expressions` has the visitors as frames of a stack, each with the steps it has left: push
or pop a type, open or close an operator, write a literal, refer to a variable, visit
another expression. `Execute` is one step, `VisitLeaf` and `VisitNested` enter a visitor
(the message decides which of the alternatives of its `oneof`), `Return` gives its text
to the one below, `Raise` is an exception, which nothing catches. The lowest frame is a
statement, whose `mark` is the height of `type_stack` when it began: entries that an early
return has left there stay below. `is_constant` is set for the value of a constant.

## 3. Runs

| Run | Question | Instance |
|---|---|---|
| `pipeline_faults` | tasks kept, verdicts true, duplicates bounded; refinement; executed, reported, settled; the invariant of the proofs | 1 contract, 2 + 1 replicas, 2 faults |
| `pipeline_two_contracts` | handled only after a report; no more unjudged results than faults | 2 contracts (symmetric), 1 + 1 replicas, 1 fault, executions that differ |
| `pipeline_insert_race` | **violated**: results of fast runners are stored | no fault |
| `connections` | messages kept, generator patient; runners recover, tasks are executed | 2 compilers, 2 brokers, 2 replicas, 2 contracts (the second is poison), 2 attempts, 1 stop |
| `verifier_results` | discrepancies located and caused by whom they name, deployments compared | 3 compilers of 6 behaviours, up to 2 functions, 2 strategies, 2 states of the chain |
| `call_graph` | acyclic, ordered, bounded depth, ends; the invariant of the proofs | all graphs of 3 functions |
| `call_graph_raise` | **violated**: `list.remove` never raises | the same |
| `converter` | unique names, scopes, mutability of statements and calls | 2 functions and `__default__`, 4 types, one block inside a body, 2 variables in scope |
| `converter_outputs` | **violated**: outputs stored in declared functions | as `converter`, no nested blocks |
| `expressions` | types balanced, operands closed, sizes and integers in range, constants constant | words of 2 bytes of 1 bit, 3 visitors deep |
| `expressions_raise` | **violated**: a conversion comes to an end | 2 visitors deep |
| `expressions_operands` | **violated**: known operands are legal | the operators of the 0.4 converter, `uint256`, 2 visitors deep |

Why the bounds are enough. Two replicas of one compiler can hold the same task at
once (one of them after a requeue), which needs one fault; the second fault then
crashes the verifier or another process. Executions that differ need one outcome of
each kind (`Clean`, a deployment error, no function). Contracts only meet in a pass of the
verifier, so two of them show all there is. Two compilers are the configured number; the
comparison, where a third one matters, has three.

Connections: two attempts (`MaxAttempts`, 20 in the code) tell the first from the last;
one stop (`MaxStops`) meets every state of a process; brokers are alike, so that the first
compiler that has a queue has the first one (`MCInit`); of two contracts the second ends
every runner that takes it, so that one is ahead of a poisoned message and one is it.
`Deployments` bounds the names of services to one replica of each compiler (two replicas
of one differ from them in nothing when the compilers share a queue, which the
constants allow), or one and an unknown name.

VerifierResults: two functions (`MaxFuncs`), the first of which may leave what only the second
shows, and two strategies, zeros first, so that a second deployment begins after calls
that have changed the first. The six behaviours are one contract and ways of getting it
wrong: by raising in the constructor, always or for one argument, by storing what the chain
is, by changing the chain in a call, by raising in a call, in a return value. Any three of
them are compared, in processes that have come to the same chain or, for one of them, not
(`Processes`).

Three functions are the least with a cycle that two paths reach, which is what makes
`list.remove` raise.

Converter: a scope error needs a variable declared in a block that ends and an
enclosing body that goes on, so that `MaxLevel` is 2, one block inside a body (the
theorems are for any depth); a name clash needs two variables of one type (`MaxId`,
`MaxVars`); an error of inference needs a storage variable, a caller and a callee.
`OutputLists` are two of one type, of which the second may meet the target of the
first. In `converter` the integers stand for booleans, which differ from them in
nothing that its properties read; in `converter_outputs` booleans stand for integers.

Expressions: with words of two bytes of one bit every size has a smaller and a greater
neighbour, and the numbers of messages (`Raw`, 0 to 3) reach beyond each. `MaxDepth`
bounds the frames and the types left on the stack; only the operators `DeepOps` of the
type `DeepType` are nested once more, those that can make fractions and roots of legal
operands (some of its literals are negative). `MaxPower` bounds the exponents that are
evaluated, `MaxBits` the operands of `&`, `|` and `^`: beyond them a number is not known. Of
the operators that the code treats alike one is taken (`-` for `+` and `*`, `&` for `|`). The
values of roots of positive numbers are left out.

Deadlock is checked in the pipeline, where the verifier's loop never ends. It is
not checked where the program ends: an order computed, a contract converted, a
document handled, a process that is not restarted; and where the bounds on numbers,
variables and depth stop the model.

### Fairness

`pipeline_faults` assumes weak fairness of each runner's loop and of the verifier's
loop. Both are `while True` loops that wait for a message or a clock only
(runner_api.py:27, verifier_api.py:20). The compose files restart runners
(docker-compose_diff_fuz.yml:33 and :60), so that a runner that crashed goes on. They do not
restart the verifier: `CompleteIsReported` and `CleanIsSettled` have the hypothesis
`VerifierRestarted`, that whenever it is down somebody starts it again. Without it a single
crash of the verifier ends all reporting. Nothing is assumed of the generator: only what it
has published must be executed. Faults are bounded; a message that crashes its runner every
time is left to `connections`.

`connections` assumes weak fairness of each runner's start and connection (docker restarts
it, whatever it ended with), and of its work on a connection that stands. It assumes nothing
of the brokers, which no compose file restarts, nor that a runner notices that its connection
is lost: without heartbeats (queue_managers.py:29) it may wait on it for ever. Both are the
hypothesis `Cared(r)` of `RunnersRecover` and `TasksExecuted`: the broker of `r` is up again
and again, and `r` does not stay at work for ever without a connection. `TasksExecuted` is
about tasks that the broker has not forgotten and that no poisoned message is ahead of: one
that ends its runner every time goes back to the head of the queue.

`call_graph` assumes that `setup_order`, sequential code, runs.

## 4. Disagreements found

1. `pipeline_insert_race`: publishing precedes the insert that run_api.py:77 says
   keeps runners from racing. A runner that is done first updates nothing and
   acknowledges; the contract is never complete, and never reported.
2. `call_graph_raise`: the search for cycles removes a call once per path, from a
   list that holds it once. `ValueError` ends the generator. `RaiseNeedsSharedCallee`
   bounds when: some function must be called by two others.
3. `converter_outputs`: typed_converters.py:606 chooses among wider variables, 611
   looks them up among narrower ones; the function is not made nonpayable.
4. `expressions_raise`: typed_converters.py:200 asks every list of two 256-bit integers
   for its `ecadd`, a field that only the message of fixed lists has; for a dynamic
   array protobuf raises. The run has a second way to the same end: types.py:101
   compares an exponent with 0 that may be a complex number.

5. `expressions_operands`: types.py:114 replaces a zero divisor of `/` and `%`. The converter
   for Vyper 0.4 divides integers by `//` (typed_converters_4.py:10), where the zero stays,
   and Vyper rejects it. The same property fails in other ways: a negative shift passes
   types.py:110-112. What it does not see is a divisor that only Vyper takes for zero: 1 / 2
   is 0.5 for the `eval` of the check.

Not a run, since the two conversions share no state: `generators/README.md:16` says that
`run_diff.py` generates equivalent sources for two compilers, but it converts the message
twice (31-32), and each conversion chooses variables at random.

All queues have one name (config.py:35) and `config.yml` gives both queue keys one
server. There a task is run by one of the compilers only; `TaskKept` and `TasksExecuted`
hold, and say "by whichever compiler", while the pipeline's `TaskNotLost` asks for all and
is proved for brokers of their own, which `howto_run.md:13` asks for.

## 5. Proofs

All proofs hold for every value of the constants that satisfies the `ASSUME`s of
the module. Constants are assumed to be what the configuration guarantees: each
replica has a compiler, each compiler a queue key, each key a server. Only the compilers
are assumed to be finitely many (they are a list in `config.yml`); no set is assumed
non-empty. What the provers cannot derive is arithmetic of powers. `PowersArePositive` in
`Literals` (powers of 2 are positive integers) is an assumption that TLC evaluates;
`PowersAreNumbers` (a power of an integer is an integer, positive or non-zero if its base
is, for all but 0 ^ 0) is a hypothesis of `IntsAreInRange`.

**Pipeline** (`PipelineProofs`). The safety properties are not inductive: that a
marked contract was reported depends on what the verifier read, on the fact that
results are never unset while it works, and on documents only being marked in the
second half of a pass. `IndInv` adds, in parts: only logged contracts leave traces
(`KnownContracts`); a replica that owns a delivery works on it, and one past its
first update has flagged its contract (`DeliveriesHeld`); what the verifier has
read is still there, and what it is about to mark has been reported with the row it
read (`VerifierPass`); every copy of a result on its way is the true one
(`FaithfulCopies`). Each part is a lemma with one step per action. From it follow
`TypeCorrect`, `NoTaskIsLost` (under `DedicatedBrokers`, which the one server of
`config.yml` does not satisfy), `HandledIsReported`,
`VerdictIsTruthful` and `Refinement` (the last two about deterministic executions).

`ReportsAreBounded` (a contract without deployment errors is reported once, and once more
for each fault) is an account of the work that can still store a result, each unit of it
once: queues that a contract has yet to be published to, messages that wait, replicas at
work (`Tasks`, finite by `TasksFinite`). Every step but a fault moves a unit on or ends it
(`Pays`). `ReportsPaid` balances it: before the first report every unit fills a missing
result or came with a fault; afterwards reports, units left and a pass that is still to
read the contract are together at most one more than the faults. `OpenDocuments` says that
what a pass has found stays open until it is marked. With executions that differ this
account fails: a unit may then store a deployment error, and such a contract is reported
in every pass.

`StaleResultsArePaid` is another balance of the same units, and holds of all executions
(`WorkPaid`): every unit fills a missing result or came with a fault, and once a pass has read
a complete row, the units left and the results that are no longer those of the row are
together covered by the faults, until the contract is marked and after.

**Call graph** (`CallGraphProofs`). `Acyclic` says that no function reaches itself
when the order is computed, although the search removes calls from a copy while it
walks the original. Reachability is stated by closed sets of functions, so that no
induction over paths is needed. The invariant says that, for every function
already searched, some set holds its callees' closure and leaves it out
(`SearchedAreClean`), and that, during a search, the functions visited are closed
under the remaining calls but for those that an active call has yet to examine, and
that none leads back to the root (`SearchIsClosed`). Later removals only shrink
reachability (`OnlyCuts`). `OrderIsTopological` follows from `OrderSoFar`: an active
call has placed the callees it has passed, but for the one it waits for.
`DepthIsBounded` is a matter of counting, since no function has two active calls
(`ActiveCallsDistinct`): in the search for cycles a call's `path` holds the functions of
those below it, in the order each of these reaches it, and by then nothing reaches itself.
`OnlySharedCalleesRaise`: unless two functions call a third, a search visits every
function through one call, and what is missing from the copy was passed
(`CutsArePassed`), so that nothing is removed twice.

**Converter** (`ConverterProofs`). `TypeOK` alone is not inductive: `level` is a number
that actions raise and lower, and only `BlocksInv` (it is that of the stack of blocks,
inside functions and out) bounds it and makes the end of a block remove the right
variables. `NamesUnique` needs `TrackerInv`: every number in use is below the tracker's
counter for its name, whichever levels were removed. It adds the levels of the variables in scope, for `LocalsInScope`. `EffectsDeclared` needs
`MutabilityInv`: in a body under way the part `by` of `effect` is at most
`mutability`, and `__default__` comes when all functions have been converted, so that every
call has a callee whose mutability is known. `OutputsInv` gives every converted function
its list of outputs. The part `outs` is not in it: there the run finds a counterexample.

**Connections** (`ConnectionsProofs`). `TaskKept` says where a message may be that its broker
has not forgotten, and needs to know what state a replica is in that has one in hand: it took
it from its own broker (`RunnersInv`), and its result is stored before it acknowledges.
`GeneratorInv` says that a generator past its start has a key for every compiler and, as long
as no broker has stopped, is connected to every broker that it no longer has to do: so it
cannot end but by its attempts, which `AttemptsLeft` counts for `PatientGenerator`.

**Comparison** (`VerifierResultsProofs`). That the place of a result in a list names its
compiler is not given but follows from the invariant: when a document is compared, every
compiler has all deployments, and all calls of those that did not fail, so that `Listed` keeps
each in its place (`ListedInOrder`, `AlignedErrors`, `AlignedResults`).
`DeploymentsAreCompared` and `DiscrepanciesLocated` need in addition that among compilers that
do not all agree some neighbours differ (`NeighboursDiffer`). `DiscrepanciesCaused` compares
two compilers that have built alike all that was run so far, in processes that began on the
same chain: their deployments begin on the same chains (`SameChains`), their calls in the same
worlds (`SameWorlds`), and answer the same (`SameDeployment`). These inductions use no
induction principle, but the least number of a set (`LeastNumber`, from the library's
well-foundedness of `<`). The invariant says of the deployments of each compiler that some
sequence of chains explains them (`Ran`), of each one that some sequence of worlds explains
all its results (`Truthful`, `Trace`), and of the one under way that one leads to its present
world (`TraceSoFar`), which each call extends.

**Literals** (`LiteralsProofs`). Theorems about the operators, for any word and number:
a literal and a checked number are in the range of the type (`ReducedIsInRange`,
`CheckedIsInRange`), a checked shift is no longer than a word, sizes are ones Vyper has, and
the parts of a concatenation fit (`ScaledFits`). The lemmas after them, for `Expressions`, say
that evaluation keeps numbers what they are, fractions with a positive denominator
or one of the values without a number (`ApplyIsNumber`), and that operations and the check
of operands make texts of texts (`OperationIsText`, `BinopBoundsAreTexts`).

**Expressions** (`ExpressionsProofs`). The module is an interpreter of scripts, so the
proof has two halves. The first is about scripts alone. `Runs(prod, todo, s, e)` says that
the steps `todo` take a visitor from the state `s` (the types it sees, from its own up,
and whether it is in an operator or a constant) to `e` by steps that are `Legal`: a visit or
a reading finds a type of its class on top, a pop leaves the visitor's own type, an operand
is visited between opening and closing an operator. Runs compose like the scripts do
(`\o`), so that each production is a few lines: all of them leave the types they found
(`ProductionsBalanced`), and all statements come to an end (`StatementsEnd`; what they leave
on the stack is what the code leaves there).

The second half is about frames. `IInv` says that some assignment of modes to frames
`Explains` the state: every frame is in the middle of a run (`Course`), on the slice of
`type_stack` from its own type to where the next frame begins; `op_stack` is as high as there
are frames in an operator; and `is_constant` holds exactly when the statement is in the value
of a constant. It adds that no frame in a constant is a call (`Quiet`), and that the value
just returned is what its type asks for (`LastGood`), and so are the operands in the frames.
Each action takes one step of one run, or puts a run on top or takes one off. From `IInv` follow
`TypesAreRight`, `TypesAreBalanced`, `OperandsAreClosed`, `ConstantsAreFixed`, and,
given `PowersAreNumbers`, `IntsAreInRange`. The last speaks of texts that evaluate to integers
only: of one that evaluates to a float, which is any that went through `/` or came from a
decimal, the code corrects at most the sign (types.py:126-129, with a FIXME), and by a minus
that it puts before the whole text, parentheses or not, as the check of an exponent does
(types.py:102). What such a minus means is in the model (`Minus`); `OperandsClosed` does not
judge it, as it looks at the operands of operators alone.

`SizesAreFit` needs a second invariant on top of `IInv`, since a concatenation spends what
its type allows part by part. `SizeInv` says of every frame in hand (`SizesInHand`) that what
is written and what its script still owes fit together: the sizes of the parts of a `concat`
and the types left in its script (`Parting`), or the items of a list and the visits left
(`Listing`).

What these proofs assume of the constants is what the code says of them: declared types are
those that `_expression_handlers` has a key for, the numbers of messages are naturals,
operators are among those that `INT_BIN_OP_MAP` and `DECIMAL_BIN_OP_MAP` list, in either
converter. `MaxDepth` may be any number, so that the results hold for messages of any depth; a
list has any number of items up to its size, a concatenation two parts or three.

What failed proofs found was in the models. The cases of an evaluation overlapped where an
operand is unknown and another one is complex. `SizesFit` would be false of fixed lists of lists, which `_visit_list_expression` does not fill up
(typed_converters.py:219-225), but there is no handler for them: `Declared` is now limited
to the types that have one.

Only model-checked are the liveness properties (`TaskExecuted`, `CompleteIsReported`,
`CleanIsSettled`, `RunnersRecover`, `TasksExecuted`, `Terminates`), which the prover does not
reach. Every other property that a passing run checks is a theorem.

## 6. Not modelled

- `boa`, the compilers and the virtual machine: an arbitrary outcome, or function.
- Text: how constructs are written, names, decorators, reentrancy keys, events.
- The 0.4 converter but for its operators: it writes some constructs differently.
- How long `eval` computes, and what Vyper makes of constant expressions where Python's
  value is another one (1 / 2).
- `reset_function_variables`, which only a test could call.
- Who starts brokers, the verifier or the generator again: hypotheses of the liveness
  properties, or nobody.
- Which random value a type has, checksums of addresses, JSON encodings.
- Compiler settings by flags, reading the configuration file, database connections,
  logging.
- `compile_source`: its result is logged, and nothing depends on it.

## 7. Plan

Done: the services (`DiffTest`, `Pipeline`, `Connections`), one contract from inputs to
verdict (`VerifierResults`), the call graph, the converter with its tracker and its
expressions, and proofs of all their safety properties.

Left, in this order:

1. `Expressions` with the bounds of decimals, and with the value that Vyper gives to what
   the code evaluates with Python's `/`.
2. Concatenations of any number of parts, of which `SizesInHand` would need the sum.
3. One conversion for two converters (`run_diff.py`): which of their choices would have
   to agree for the sources to be equivalent.
