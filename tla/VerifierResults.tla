-------------------------- MODULE VerifierResults --------------------------
(***************************************************************************)
(* From a contract and its inputs to the verdict.  The generator draws     *)
(* inputs for every function, the runner of every compiler deploys the     *)
(* contract once per set of constructor inputs, calls each function with   *)
(* each of its sets and notes what it sees, and the body of the loop of    *)
(* start_verifier compares the notes.  Pipeline keeps only the outcome.    *)
(* All that a runner deploys, for this and for other contracts, lives on   *)
(* the chain of its process: nonces, balances, other contracts.  Processes *)
(* share nothing, so that one is followed at a time, in any order.         *)
(***************************************************************************)
EXTENDS Integers, FiniteSets, Sequences

CONSTANTS
  N,          \* number of compilers in the configuration
  MaxFuncs,   \* bound: external functions of a contract
  K,          \* number of input strategies
  Strategy,   \* the strategies: "default" or "zeros"
  Args, Zero, \* lists of arguments; the empty one, or the one of zeros
  Value,      \* contents of storage, and return values
  Message,    \* texts of errors of a constructor
  Chain,      \* states of the chain of a process
  Behaviour,  \* contracts as compilers build them
  Processes   \* chains that the processes of all compilers may have come to

RuntimeError == [runtime_error |-> "raised"]
NotReported == "none"       \* no verifier raised: None
NotRun == "not run"
Nobody == 0

Compiler == 1 .. N          \* in the order of target_fields
ParamsSet == 1 .. K

\* The first ten slots are dumped, the rest is not.
Storage == [dumped : Value, rest : Value]
World == [storage : Storage, chain : Chain]     \* what a call may see and change
Returned == [world : World, return_value : Value]
DeployError == [deploy_error : Message]

ASSUME SizeAssumption == {N, K} \subseteq Nat \ {0} /\ MaxFuncs \in Nat
ASSUME StrategyAssumption == Strategy \in [ParamsSet -> {"default", "zeros"}]
ASSUME ArgsAssumption == Zero \in Args

\* A constructor raises, as does the compiler before it, or leaves a storage; a failed
\* deployment may leave its traces on the chain.  A call raises, and changes nothing, or
\* returns.
ASSUME BehaviourAssumption ==
  Behaviour \subseteq
    [init : [Chain \X Args -> [made : DeployError \cup Storage, chain : Chain]],
     call : [(1 .. MaxFuncs) \X World \X Args -> {RuntimeError} \cup Returned]]

\* One for each compiler: with replicas, the one that takes this contract.
ASSUME ProcessesAssumption == Processes \subseteq [Compiler -> Chain]

VARIABLES
  code,                     \* the contract, as each compiler builds it
  nfuncs, inputs,           \* its external functions, in order, and their inputs
  initValues,               \* inputs of the constructor
  started,                  \* the chain of each compiler's process before this contract
  phase, by,                \* what the runner that is followed does, and for whom
  dep, fn, ps,              \* its deployment, function and set of inputs
  chain, storage,           \* of its process; of its contract
  calls, results,           \* results of this and of all deployments
  doc,                      \* fields result_{compiler} of the document
  rows,                     \* what verification_results gets for it
  status                    \* "unhandled", "skipped", "failed" or "handled"

task == <<code, nfuncs, inputs, initValues, started>>
runner == <<phase, by, dep, fn, ps, chain, storage, calls, results>>
verdict == <<rows, status>>
vars == <<task, runner, doc, verdict>>

Func == 1 .. nfuncs
Deployment == DOMAIN initValues

\* InputGenerator.generate, after change_strategy: random values of the types of the
\* parameters, or the zero of each.
Generated(strategy) == IF strategy = "zeros" THEN {Zero} ELSE Args

\* generate_inputs: a list of inputs for every strategy, in the order of the strategies.
Drawn == {v \in [ParamsSet -> Args] : \A k \in ParamsSet : v[k] \in Generated(Strategy[k])}

\* A constructor without parameters has no entry, and is called once with no input.
Init ==
  /\ code \in [Compiler -> Behaviour]
  /\ nfuncs \in 0 .. MaxFuncs
  /\ inputs \in [Func -> Drawn]
  /\ initValues \in Drawn \cup {[i \in {1} |-> Zero]}
  /\ started \in Processes
  /\ phase = "idle" /\ by = Nobody
  /\ dep = 1 /\ fn = 1 /\ ps = 1
  /\ chain = NotRun /\ storage = NotRun /\ calls = NotRun /\ results = NotRun
  /\ doc = [c \in {} |-> NotRun]
  /\ rows = {} /\ status = "unhandled"

-----------------------------------------------------------------------------
(* handle_compilation. *)

Take(c) ==
  /\ phase = "idle" /\ c \in Compiler \ DOMAIN doc
  /\ phase' = "deploy" /\ by' = c /\ dep' = 1
  /\ chain' = started[c]
  /\ results' = [i \in Deployment |-> NotRun]
  /\ UNCHANGED <<task, fn, ps, storage, calls, doc, verdict>>

Constructed == code[by].init[<<chain, initValues[dep]>>]
Fails == "deploy_error" \in DOMAIN Constructed.made

DeployFails ==
  /\ phase = "deploy" /\ dep \in Deployment /\ Fails
  /\ results' = [results EXCEPT ![dep] = Constructed.made]
  /\ chain' = Constructed.chain
  /\ dep' = dep + 1
  /\ UNCHANGED <<task, phase, by, fn, ps, storage, calls, doc, verdict>>

\* Each set of constructor inputs has a contract of its own, on the same chain.
Deploy ==
  /\ phase = "deploy" /\ dep \in Deployment /\ ~ Fails
  /\ phase' = "call" /\ fn' = 1 /\ ps' = 1
  /\ storage' = Constructed.made /\ chain' = Constructed.chain
  /\ calls' = [f \in Func |-> [k \in ParamsSet |-> NotRun]]
  /\ UNCHANGED <<task, by, dep, results, doc, verdict>>

\* execution_result and compose_result.  (Memory and gas are dumped too, and never
\* compared.)
Observed(r) ==
  IF r = RuntimeError THEN r
  ELSE [state |-> r.world.storage.dumped, return_value |-> r.return_value]

WorldAfter(w, r) == IF r = RuntimeError THEN w ELSE r.world

Invoke(b, f, w, k) == b.call[<<f, w, inputs[f][k]>>]

Here == [storage |-> storage, chain |-> chain]

\* The calls of a deployment act on one contract, each on what those before it have left.
CallFunction ==
  /\ phase = "call" /\ fn \in Func
  /\ LET r == Invoke(code[by], fn, Here, ps)
     IN  /\ calls' = [calls EXCEPT ![fn] = [@ EXCEPT ![ps] = Observed(r)]]
         /\ storage' = WorldAfter(Here, r).storage
         /\ chain' = WorldAfter(Here, r).chain
  /\ IF ps < K THEN ps' = ps + 1 /\ UNCHANGED fn
               ELSE ps' = 1 /\ fn' = fn + 1
  /\ UNCHANGED <<task, phase, by, dep, results, doc, verdict>>

EndDeployment ==
  /\ phase = "call" /\ fn \notin Func
  /\ results' = [results EXCEPT ![dep] = [calls |-> calls]]
  /\ dep' = dep + 1 /\ phase' = "deploy"
  /\ UNCHANGED <<task, by, fn, ps, chain, storage, calls, doc, verdict>>

Store ==
  /\ phase = "deploy" /\ dep \notin Deployment
  /\ doc' = [c \in DOMAIN doc \cup {by} |-> IF c = by THEN results ELSE doc[c]]
  /\ phase' = "idle" /\ by' = Nobody
  /\ fn' = 1 /\ ps' = 1 /\ dep' = 1
  /\ storage' = NotRun /\ calls' = NotRun /\ results' = NotRun
  /\ UNCHANGED <<task, chain, verdict>>

-----------------------------------------------------------------------------
(* start_verifier. *)

\* ready_to_handle: every compiler has its field.
ReadyToHandle == Compiler \subseteq DOMAIN doc

Failed(c, i) == "deploy_error" \in DOMAIN doc[c][i]
Call(c, i, f, k) == doc[c][i].calls[f][k]

\* is_valid: the first deployment of each compiler has results, or an error.
IsValid == \A c \in Compiler : Failed(c, 1) \/ Func # {}

HasDeployErrors == \E c \in Compiler, i \in Deployment : Failed(c, i)

\* verify_and_catch(verifier, (x, y)), with a verifier that compares.
Verify(name, x, y) == IF x = y THEN NotReported ELSE name

\* Seeded fault: the last compiler is compared with nothing.
NeighboursShort(list) == {<<n, n + 1>> : n \in 1 .. Len(list) - 2}

\* Positions in a list that follow each other.
Neighbours(list) == {<<n, n + 1>> : n \in 1 .. Len(list) - 1}

\* Seeded fault: the fields are read in another order than the one they are named in.
ListedBackwards(v) ==
  [n \in 1 .. Cardinality(DOMAIN v) |->
     v[CHOOSE c \in DOMAIN v : Cardinality({d \in DOMAIN v : d >= c}) = n]]

\* The fields are read in the order of the compilers, and what is found is appended: the
\* list has the values of v without a sign of whose they are.
Listed(v) ==
  [n \in 1 .. Cardinality(DOMAIN v) |->
     v[CHOOSE c \in DOMAIN v : Cardinality({d \in DOMAIN v : d <= c}) = n]]

\* check_deploy_errors: the error, or None for a deployment that succeeded,
ErrorOf(c, i) == IF Failed(c, i) THEN doc[c][i].deploy_error ELSE NotReported

\* for each deployment a list with those of the compilers that have it.
DeployErrors(i) ==
  Listed([c \in {d \in Compiler : i \in DOMAIN doc[d]} |-> ErrorOf(c, i)])

\* What is found at two positions is put down to the compilers at the same positions.
DeployRow(p, i) ==
  [compilers |-> p, deployment |-> i,
   results |-> Verify("deploy", DeployErrors(i)[p[1]], DeployErrors(i)[p[2]])]

DeployRows == UNION {{DeployRow(p, i) : p \in Neighbours(DeployErrors(i))} : i \in Deployment}

\* reshape_data: for each function, deployment and set of inputs a list with the results of
\* the compilers that have them.
Column(f, i, k) ==
  Listed([c \in {d \in Compiler : i \in DOMAIN doc[d] /\ f \in DOMAIN doc[d][i].calls} |->
            Call(c, i, f, k)])

\* Seeded fault: the return values are not compared.
VerifyStorageOnly(r0, r1) ==
  IF r0 = RuntimeError \/ r1 = RuntimeError THEN {}
  ELSE {Verify("Storage", r0.state, r1.state)}

\* verify_two_results: nothing is compared if either call raised.
VerifyTwoResults(r0, r1) ==
  IF r0 = RuntimeError \/ r1 = RuntimeError
  THEN {}
  ELSE {Verify("Storage", r0.state, r1.state),
        Verify("Return_Value", r0.return_value, r1.return_value)}

\* verify_results: positions again.
CallRow(p, f, i, k) ==
  [compilers |-> p, function |-> f, deployment |-> i, params_set |-> k,
   results |-> VerifyTwoResults(Column(f, i, k)[p[1]], Column(f, i, k)[p[2]])]

CallRows ==
  UNION {{CallRow(p, f, i, k) : p \in Neighbours(Column(f, i, k))} :
           f \in Func, i \in Deployment, k \in ParamsSet}

-----------------------------------------------------------------------------
Skip ==
  /\ status = "unhandled" /\ ReadyToHandle /\ ~ IsValid
  /\ status' = "skipped"
  /\ UNCHANGED <<task, runner, doc, rows>>

ReportDeployErrors ==
  /\ status = "unhandled" /\ ReadyToHandle /\ IsValid /\ HasDeployErrors
  /\ rows' = DeployRows
  /\ status' = "failed"
  /\ UNCHANGED <<task, runner, doc>>

VerifyResults ==
  /\ status = "unhandled" /\ ReadyToHandle /\ IsValid /\ ~ HasDeployErrors
  /\ rows' = CallRows
  /\ status' = "handled"
  /\ UNCHANGED <<task, runner, doc>>

Next ==
  \/ \E c \in Compiler : Take(c)
  \/ DeployFails \/ Deploy \/ CallFunction \/ EndDeployment \/ Store
  \/ Skip \/ ReportDeployErrors \/ VerifyResults

Spec == Init /\ [][Next]_vars

-----------------------------------------------------------------------------
(* Properties. *)

\* Two calls that both returned, and not the same.
Differ(r0, r1) == RuntimeError \notin {r0, r1} /\ r0 # r1

Names(row) == row.results \ {NotReported}

\* Although only neighbours in the list of compilers are compared, a difference between
\* any two of them is reported somewhere between the two, unless the call raised for
\* one in between.
DiscrepancyLocated ==
  status = "handled" =>
    \A f \in Func, i \in Deployment, k \in ParamsSet, c, d \in Compiler :
      LET r == [e \in Compiler |-> Call(e, i, f, k)]
      IN  c < d /\ Differ(r[c], r[d]) /\ (\A e \in c .. d : r[e] # RuntimeError)
            => \E row \in rows :
                 /\ row.function = f /\ row.deployment = i /\ row.params_set = k
                 /\ row.compilers[1] \in c .. d - 1
                 /\ Names(row) # {}

\* A constructor that fails for one compiler and not, or differently, for another one
\* is reported, and the document stays unhandled.
DeploymentsCompared ==
  status # "unhandled" /\ IsValid =>
    \A i \in Deployment, c, d \in Compiler :
      ErrorOf(c, i) # ErrorOf(d, i) =>
        /\ status = "failed"
        /\ \E row \in rows : row.deployment = i /\ row.results # NotReported

\* What the process has called before the row was found, or for it.
CalledFor(row) ==
  IF row.deployment > 1 THEN Func
  ELSE IF status = "handled" THEN 1 .. row.function ELSE {}

\* What is reported has a cause: the processes of the two compilers it names had not come to
\* the same chain, or those compilers differ in a constructor or a function that was run
\* before, or for that row.  (All deployments run in one process, so that an earlier one may
\* be the cause; no later one, no function called later and no third compiler is.)
DiscrepancyCaused ==
  \A row \in rows :
    LET c == row.compilers[1]
        d == row.compilers[2]
        reported == IF status = "failed" THEN row.results # NotReported ELSE Names(row) # {}
    IN  reported =>
          \/ started[c] # started[d]
          \/ \E j \in 1 .. row.deployment, h \in Chain :
               code[c].init[<<h, initValues[j]>>] # code[d].init[<<h, initValues[j]>>]
          \/ \E f \in CalledFor(row), k \in ParamsSet, w \in World :
               Invoke(code[c], f, w, k) # Invoke(code[d], f, w, k)

=============================================================================
