----------------------- MODULE VerifierResultsProofs -----------------------
(***************************************************************************)
(* Proofs about VerifierResults, for any number of compilers, functions,   *)
(* deployments and sets of inputs, and any behaviour of the contracts.     *)
(***************************************************************************)
EXTENDS VerifierResults, FiniteSetTheorems, WellFoundedInduction, TLAPS

\* Every set of natural numbers that is not empty has a least element.
LEMMA LeastNumber ==
  ASSUME NEW S \in SUBSET Nat, S # {}
  PROVE  \E m \in S : \A n \in S : m <= n
<1>1. PICK m \in S : \A n \in S : ~ (<<n, m>> \in OpToRel(<, Nat))
  BY NatLessThanWellFounded, WFMin
<1>2. \A n \in S : ~ (n < m)
  BY <1>1 DEF OpToRel
<1> QED
  BY <1>2

\* Where the ends of a chain differ, two neighbours do.
LEMMA NeighboursDiffer ==
  ASSUME NEW r, NEW c \in Nat, NEW d \in Nat, c < d, r[c] # r[d]
  PROVE  \E e \in c .. d - 1 : r[e] # r[e + 1]
<1> DEFINE S == {e \in c .. d : r[e] # r[c]}
<1>1. S \subseteq Nat /\ d \in S
  OBVIOUS
<1>2. PICK m \in S : \A n \in S : m <= n
  BY <1>1, LeastNumber
<1>3. m \in c + 1 .. d /\ r[m] # r[c]
  BY <1>2
<1>4. m - 1 \in c .. d - 1 /\ m - 1 \notin S
  BY <1>2, <1>3
<1>5. r[m - 1] = r[c] /\ (m - 1) + 1 = m
  BY <1>3, <1>4
<1> QED
  BY <1>3, <1>4, <1>5

-----------------------------------------------------------------------------
(* What a run is. *)

\* What execution_result returns.
CallResult == {RuntimeError} \cup [state : Value, return_value : Value]

\* What the constructor of b makes of the chain h and the inputs of the i-th deployment.
Construct(b, h, i) == b.init[<<h, initValues[i]>>]

\* From the contract in b in a world, call (f, k) gives result.
Gives(b, w, f, k, result) == result = Observed(Invoke(b, f, w, k))

\* The world after it.
Leaves(b, w, f, k) == WorldAfter(w, Invoke(b, f, w, k))

\* The functions and the end of the deployment.
Place == 1 .. nfuncs + 1

\* tr tells the world before each call of a deployment that began with w, and x its result.
Trace(b, w, tr, x) ==
  /\ tr \in [Place -> [ParamsSet -> World]]
  /\ tr[1][1] = w
  /\ \A f \in Func, k \in ParamsSet : Gives(b, tr[f][k], f, k, x[f][k])
  /\ \A f \in Func, k \in ParamsSet :
       k + 1 \in ParamsSet => tr[f][k + 1] = Leaves(b, tr[f][k], f, k)
  /\ \A f \in Func : tr[f + 1][1] = Leaves(b, tr[f][K], f, K)

\* What a constructor leaves for the calls.
First(o) == [storage |-> o.made, chain |-> o.chain]

\* The i-th deployment of compiler c, begun on the chain h, gives d and leaves the chain g.
Truthful(c, i, h, d, g) ==
  LET o == Construct(code[c], h, i)
  IN  IF "deploy_error" \in DOMAIN o.made THEN d = o.made /\ g = o.chain
      ELSE \E x \in [Func -> [ParamsSet -> CallResult]], tr \in [Place -> [ParamsSet -> World]] :
             /\ d = [calls |-> x] /\ Trace(code[c], First(o), tr, x)
             /\ g = tr[nfuncs + 1][1].chain

\* Deployments of compiler c, each begun on the chain that hs tells.
Ran(c, deployments, hs, ds) ==
  /\ hs \in [Nat -> Chain] /\ hs[1] = started[c]
  /\ \A i \in deployments : Truthful(c, i, hs[i], ds[i], hs[i + 1])

\* Calls before the current one.
Done(f, k) == f < fn \/ (f = fn /\ k < ps)

\* The part of a trace that leads to the current call.
TraceSoFar(b, w, tr) ==
  /\ tr \in [Place -> [ParamsSet -> World]]
  /\ tr[1][1] = w
  /\ tr[fn][ps] = Here
  /\ \A f \in Func, k \in ParamsSet : Done(f, k) => Gives(b, tr[f][k], f, k, calls[f][k])
  /\ \A f \in Func, k \in ParamsSet :
       Done(f, k) /\ k + 1 \in ParamsSet => tr[f][k + 1] = Leaves(b, tr[f][k], f, k)
  /\ \A f \in Func : Done(f, K) => tr[f + 1][1] = Leaves(b, tr[f][K], f, K)

\* The deployment that is called began on the chain h.
Calling(h) ==
  LET o == Construct(code[by], h, dep)
  IN  /\ "deploy_error" \notin DOMAIN o.made
      /\ \E tr \in [Place -> [ParamsSet -> World]] : TraceSoFar(code[by], First(o), tr)

-----------------------------------------------------------------------------
(* The invariant. *)

TaskInv ==
  /\ code \in [Compiler -> Behaviour]
  /\ nfuncs \in 0 .. MaxFuncs
  /\ inputs \in [Func -> [ParamsSet -> Args]]
  /\ \E m \in Nat \ {0} : initValues \in [1 .. m -> Args]
  /\ started \in [Compiler -> Chain]

RunnerInv ==
  /\ phase \in {"idle", "deploy", "call"}
  /\ phase # "idle" =>
       /\ by \in Compiler \ DOMAIN doc
       /\ dep \in Nat \ {0} /\ 1 .. dep - 1 \subseteq Deployment
       /\ chain \in Chain
       /\ results = [i \in Deployment |-> results[i]]
       /\ \E hs : /\ Ran(by, 1 .. dep - 1, hs, results)
                  /\ phase = "deploy" => hs[dep] = chain
                  /\ phase = "call" => Calling(hs[dep])

CallInv ==
  phase = "call" =>
    /\ dep \in Deployment
    /\ storage \in Storage
    /\ calls \in [Func -> [ParamsSet -> CallResult \cup {NotRun}]]
    /\ fn \in Place /\ ps \in ParamsSet
    /\ fn \notin Func => ps = 1
    /\ \A f \in Func, k \in ParamsSet : Done(f, k) => calls[f][k] \in CallResult

\* A list of results for every field, one for each deployment.
DocInv ==
  /\ DOMAIN doc \subseteq Compiler
  /\ \A c \in DOMAIN doc :
       /\ DOMAIN doc[c] = Deployment
       /\ \E hs : Ran(c, Deployment, hs, doc[c])

\* The report is what the comparison of a complete document gives, and nothing else.
VerdictInv ==
  /\ status \in {"unhandled", "skipped", "failed", "handled"}
  /\ status = "unhandled" => rows = {}
  /\ status # "unhandled" => ReadyToHandle
  /\ status = "skipped" => rows = {} /\ ~ IsValid
  /\ status = "failed" => HasDeployErrors /\ rows = DeployRows
  /\ status = "handled" => ~ HasDeployErrors /\ rows = CallRows

IndInv == TaskInv /\ RunnerInv /\ CallInv /\ DocInv /\ VerdictInv

-----------------------------------------------------------------------------
(* What contracts return. *)

\* What a contract does is of the right type.
LEMMA BehaviourFacts ==
  ASSUME TaskInv, NEW c \in Compiler
  PROVE  /\ \A h \in Chain, i \in Deployment :
              Construct(code[c], h, i) \in [made : DeployError \cup Storage, chain : Chain]
         /\ \A f \in Func, w \in World, k \in ParamsSet :
              Invoke(code[c], f, w, k) \in {RuntimeError} \cup Returned
<1>1. code[c] \in [init : [Chain \X Args -> [made : DeployError \cup Storage, chain : Chain]],
                   call : [(1 .. MaxFuncs) \X World \X Args -> {RuntimeError} \cup Returned]]
  BY BehaviourAssumption DEF TaskInv
<1>2. /\ code[c].init \in [Chain \X Args -> [made : DeployError \cup Storage, chain : Chain]]
      /\ code[c].call \in [(1 .. MaxFuncs) \X World \X Args -> {RuntimeError} \cup Returned]
  BY <1>1
<1>3. \A h \in Chain, i \in Deployment : <<h, initValues[i]>> \in Chain \X Args
  BY DEF TaskInv, Deployment
<1>4. \A f \in Func, w \in World, k \in ParamsSet :
        <<f, w, inputs[f][k]>> \in (1 .. MaxFuncs) \X World \X Args
  <2> SUFFICES ASSUME NEW f \in Func, NEW w \in World, NEW k \in ParamsSet
               PROVE  <<f, w, inputs[f][k]>> \in (1 .. MaxFuncs) \X World \X Args
    OBVIOUS
  <2>1. f \in 1 .. MaxFuncs
    BY SizeAssumption DEF TaskInv, Func
  <2>2. inputs[f][k] \in Args
    BY DEF TaskInv
  <2> QED
    BY <2>1, <2>2
<1> QED
  BY <1>2, <1>3, <1>4 DEF Invoke, Construct

\* A contract that was made has a storage.
LEMMA MadeOrFailed ==
  ASSUME NEW o \in [made : DeployError \cup Storage, chain : Chain]
  PROVE  /\ o.chain \in Chain
         /\ "deploy_error" \notin DOMAIN o.made => o.made \in Storage /\ First(o) \in World
BY DEF DeployError, First, World

\* What is observed of a call, and the world after it.
LEMMA ObservedInFull ==
  ASSUME NEW r \in {RuntimeError} \cup Returned, NEW w \in World
  PROVE  Observed(r) \in CallResult /\ WorldAfter(w, r) \in World
<1>1. CASE r = RuntimeError
  BY <1>1 DEF Observed, WorldAfter, CallResult
<1>2. CASE r # RuntimeError
  <2>1. r \in Returned
    BY <1>2
  <2>2. r.world \in World /\ r.return_value \in Value
    BY <2>1 DEF Returned
  <2>3. r.world.storage.dumped \in Value
    BY <2>2 DEF World, Storage
  <2> QED
    BY <1>2, <2>2, <2>3 DEF Observed, WorldAfter, CallResult
<1> QED
  BY <1>1, <1>2

-----------------------------------------------------------------------------
(* The invariant is one. *)

\* There is at least one deployment.
LEMMA DeploymentsCount ==
  ASSUME TaskInv
  PROVE  \E m \in Nat \ {0} : Deployment = 1 .. m
BY DEF TaskInv, Deployment

\* The inductive invariant holds before any compiler has taken the contract.
LEMMA Initially == Init => IndInv
<1> SUFFICES ASSUME Init PROVE IndInv
  OBVIOUS
<1>1. Drawn \subseteq [ParamsSet -> Args]
  BY DEF Drawn
<1>2. TaskInv
  <2>0. started \in [Compiler -> Chain]
    BY ProcessesAssumption DEF Init
  <2>1. CASE initValues \in Drawn
    <3>1. initValues \in [1 .. K -> Args] /\ K \in Nat \ {0}
      BY <1>1, <2>1, SizeAssumption DEF ParamsSet
    <3> QED
      BY <1>1, <2>0, <3>1 DEF Init, TaskInv
  <2>2. CASE initValues = [i \in {1} |-> Zero]
    <3>1. initValues \in [1 .. 1 -> Args] /\ 1 \in Nat \ {0}
      BY <2>2, ArgsAssumption
    <3> QED
      BY <1>1, <2>0, <3>1 DEF Init, TaskInv
  <2> QED
    BY <2>1, <2>2 DEF Init
<1>3. RunnerInv /\ CallInv
  BY DEF Init, RunnerInv, CallInv
<1>4. DocInv /\ VerdictInv
  BY DEF Init, DocInv, VerdictInv
<1> QED
  BY <1>2, <1>3, <1>4 DEF IndInv

\* What was true of a deployment stays true: the task never changes.
LEMMA TruthKept ==
  ASSUME UNCHANGED task
  PROVE  /\ \A c, i, h, d, g : Truthful(c, i, h, d, g)' <=> Truthful(c, i, h, d, g)
         /\ \A c, ds, hs, d : Ran(c, ds, hs, d)' <=> Ran(c, ds, hs, d)
<1>1. \A c, i, h, d, g : Truthful(c, i, h, d, g)' <=> Truthful(c, i, h, d, g)
  BY DEF task, Truthful, Trace, Gives, Leaves, Invoke, Func, Place, Construct
<1> QED
  BY <1>1 DEF Ran, task

\* What is not about the task leaves the task as it was.
LEMMA TaskKept ==
  ASSUME IndInv, UNCHANGED task
  PROVE  TaskInv' /\ Deployment' = Deployment /\ Func' = Func /\ Place' = Place
BY DEF IndInv, TaskInv, task, Deployment, Func, Place

\* While the document and the verdict stay, so does what is true of them.
LEMMA VerdictKept ==
  ASSUME IndInv, UNCHANGED <<task, doc, verdict>>
  PROVE  VerdictInv'
<1>1. /\ IsValid' <=> IsValid
      /\ HasDeployErrors' <=> HasDeployErrors
      /\ ReadyToHandle' <=> ReadyToHandle
      /\ DeployRows' = DeployRows /\ CallRows' = CallRows
  BY DEF IsValid, HasDeployErrors, ReadyToHandle, Failed, DeployRows, DeployRow, DeployErrors,
         ErrorOf, CallRows, CallRow, Column, Call, task, Func, Deployment
<1> QED
  BY <1>1 DEF IndInv, VerdictInv, verdict

\* While the document stays, so does what is true of it.
LEMMA DocKept ==
  ASSUME IndInv, UNCHANGED <<task, doc>>
  PROVE  DocInv'
BY TruthKept, TaskKept DEF IndInv, DocInv

\* Every step keeps the invariant: taking the contract,
LEMMA TakeStep ==
  ASSUME IndInv, NEW c \in Compiler, Take(c)
  PROVE  IndInv'
<1>1. UNCHANGED <<task, doc, verdict>>
  BY DEF Take
<1>2. RunnerInv'
  <2>1. /\ phase' = "deploy" /\ by' = c /\ dep' = 1 /\ chain' = started[c]
        /\ results' = [i \in Deployment |-> NotRun]
        /\ c \in Compiler \ DOMAIN doc
    BY DEF Take
  <2>2. started[c] \in Chain
    BY DEF IndInv, TaskInv
  <2>3. PICK hs : Ran(c, {}, hs, results') /\ hs[1] = chain'
    <3> DEFINE hs == [n \in Nat |-> started[c]]
    <3>1. Ran(c, {}, hs, results') /\ hs[1] = chain'
      BY <2>1, <2>2 DEF Ran
    <3> QED
      BY <3>1
  <2>4. Ran(by, 1 .. dep - 1, hs, results)'
    <3>1. PICK ds, deployments : ds = results' /\ deployments = {}
      OBVIOUS
    <3>2. Ran(c, deployments, hs, ds)'
      BY <1>1, <2>3, <3>1, TruthKept
    <3>3. 1 .. dep' - 1 = deployments
      BY <2>1, <3>1
    <3> QED
      BY <2>1, <3>1, <3>2, <3>3
  <2> QED
    BY <1>1, <2>1, <2>2, <2>3, <2>4, TaskKept DEF RunnerInv
<1>3. CallInv'
  BY DEF Take, CallInv
<1> QED
  BY <1>1, <1>2, <1>3, TaskKept, DocKept, VerdictKept DEF IndInv

\* A deployment that has ended is one more of those that ran.
LEMMA OneMore ==
  ASSUME IndInv, phase # "idle", dep \in Deployment,
         NEW hs, Ran(by, 1 .. dep - 1, hs, results),
         NEW d, NEW g \in Chain, Truthful(by, dep, hs[dep], d, g),
         UNCHANGED <<task, by, doc>>, results' = [results EXCEPT ![dep] = d],
         dep' = dep + 1, chain' = g, phase' = "deploy"
  PROVE  RunnerInv'
<1>1. /\ by \in Compiler \ DOMAIN doc
      /\ dep \in Nat \ {0} /\ 1 .. dep - 1 \subseteq Deployment
      /\ results = [i \in Deployment |-> results[i]]
  BY DEF IndInv, RunnerInv
<1>2. 1 .. dep' - 1 = (1 .. dep - 1) \cup {dep}
  BY <1>1
<1>3. /\ results' = [i \in Deployment |-> results'[i]] /\ results'[dep] = d
      /\ \A i \in 1 .. dep - 1 : results'[i] = results[i]
  BY <1>1
<1>4. PICK gs \in [Nat -> Chain] : gs[dep + 1] = g /\ \A i \in 1 .. dep : gs[i] = hs[i]
  <2> DEFINE gs == [hs EXCEPT ![dep + 1] = g]
  <2>1. gs \in [Nat -> Chain] /\ gs[dep + 1] = g /\ \A i \in 1 .. dep : gs[i] = hs[i]
    BY <1>1 DEF Ran
  <2> QED
    BY <2>1
<1>5. Ran(by, 1 .. dep' - 1, gs, results')
  <2>1. gs[1] = started[by]
    BY <1>1, <1>4 DEF Ran
  <2>2. ASSUME NEW i \in 1 .. dep' - 1 PROVE Truthful(by, i, gs[i], results'[i], gs[i + 1])
    <3>1. CASE i = dep
      BY <1>1, <1>3, <1>4, <3>1
    <3>2. CASE i \in 1 .. dep - 1
      <4>1. i \in 1 .. dep /\ i + 1 \in 1 .. dep
        BY <1>1, <3>2
      <4>2. gs[i] = hs[i] /\ gs[i + 1] = hs[i + 1] /\ results'[i] = results[i]
        BY <1>3, <1>4, <3>2, <4>1
      <4> QED
        BY <3>2, <4>2 DEF Ran
    <3> QED
      BY <1>2, <3>1, <3>2
  <2> QED
    BY <1>4, <2>1, <2>2 DEF Ran
<1>6. Ran(by, 1 .. dep - 1, gs, results)'
  <2>1. PICK c, ds, deployments :
          c = by /\ ds = results' /\ deployments = 1 .. dep' - 1
    OBVIOUS
  <2>2. Ran(c, deployments, gs, ds)'
    BY <1>5, <2>1, TruthKept
  <2> QED
    BY <2>1, <2>2
<1>7. gs[dep'] = chain'
  BY <1>4
<1>8. dep' \in Nat \ {0} /\ 1 .. dep' - 1 \subseteq Deployment'
  BY <1>1, <1>2, TaskKept
<1>9. results' = [i \in Deployment' |-> results'[i]]
  BY <1>3, TaskKept
<1> QED
  BY <1>1, <1>6, <1>7, <1>8, <1>9 DEF RunnerInv

\* a constructor that fails,
LEMMA DeployFailsStep ==
  ASSUME IndInv, DeployFails
  PROVE  IndInv'
<1>1. /\ UNCHANGED <<task, doc, verdict, by>> /\ dep \in Deployment /\ phase = "deploy"
      /\ phase' = "deploy" /\ dep' = dep + 1 /\ chain' = Constructed.chain
      /\ results' = [results EXCEPT ![dep] = Constructed.made]
      /\ "deploy_error" \in DOMAIN Constructed.made
  BY DEF DeployFails, Fails
<1>2. PICK hs : Ran(by, 1 .. dep - 1, hs, results) /\ hs[dep] = chain
  BY <1>1 DEF IndInv, RunnerInv
<1>3. by \in Compiler /\ chain \in Chain
  BY <1>1 DEF IndInv, RunnerInv
<1>4. Constructed = Construct(code[by], hs[dep], dep)
  BY <1>2 DEF Constructed, Construct
<1>5. Constructed.chain \in Chain
  BY <1>1, <1>2, <1>3, <1>4, BehaviourFacts, MadeOrFailed DEF IndInv
<1>6. Truthful(by, dep, hs[dep], Constructed.made, Constructed.chain)
  BY <1>1, <1>4 DEF Truthful
<1>7. RunnerInv'
  BY <1>1, <1>2, <1>5, <1>6, OneMore
<1>8. CallInv'
  BY <1>1 DEF CallInv
<1> QED
  BY <1>1, <1>7, <1>8, TaskKept, DocKept, VerdictKept DEF IndInv

\* one that does not,
LEMMA DeployStep ==
  ASSUME IndInv, Deploy
  PROVE  IndInv'
<1>1. /\ UNCHANGED <<task, doc, verdict, by, dep, results>>
      /\ phase = "deploy" /\ phase' = "call" /\ dep \in Deployment
      /\ "deploy_error" \notin DOMAIN Constructed.made
      /\ fn' = 1 /\ ps' = 1 /\ storage' = Constructed.made /\ chain' = Constructed.chain
      /\ calls' = [f \in Func |-> [k \in ParamsSet |-> NotRun]]
  BY DEF Deploy, Fails
<1>2. PICK hs : Ran(by, 1 .. dep - 1, hs, results) /\ hs[dep] = chain
  BY <1>1 DEF IndInv, RunnerInv
<1>3. /\ by \in Compiler \ DOMAIN doc /\ chain \in Chain /\ dep \in Nat \ {0}
      /\ 1 .. dep - 1 \subseteq Deployment /\ results = [i \in Deployment |-> results[i]]
  BY <1>1 DEF IndInv, RunnerInv
<1>4. Constructed = Construct(code[by], hs[dep], dep)
  BY <1>2 DEF Constructed, Construct
<1>5. Constructed.chain \in Chain /\ Constructed.made \in Storage /\ First(Constructed) \in World
  BY <1>1, <1>2, <1>3, <1>4, BehaviourFacts, MadeOrFailed DEF IndInv
<1>6. fn' \in Place /\ ps' \in ParamsSet /\ K \in ParamsSet
  BY <1>1, SizeAssumption DEF IndInv, TaskInv, ParamsSet, Place
<1>7. \A f \in Func, k \in ParamsSet : ~ Done(f, k)'
  BY <1>1 DEF Done, Func, ParamsSet
<1>8. PICK o : o = Constructed
  OBVIOUS
<1>9. PICK tr \in [Place -> [ParamsSet -> World]] :
        tr[1][1] = First(o) /\ tr[fn'][ps'] = First(o)
  <2> DEFINE tr == [f \in Place |-> [k \in ParamsSet |-> First(o)]]
  <2>1. 1 \in Place /\ 1 \in ParamsSet
    BY <1>1, <1>6
  <2>2. tr \in [Place -> [ParamsSet -> World]] /\ tr[1][1] = First(o) /\ tr[fn'][ps'] = First(o)
    BY <1>1, <1>5, <1>8, <2>1
  <2> QED
    BY <2>2
<1>10. First(o) = Here'
  BY <1>1, <1>8 DEF First, Here
<1>11. TraceSoFar(code[by], First(o), tr)'
  BY <1>1, <1>6, <1>7, <1>9, <1>10, TaskKept DEF TraceSoFar, First
<1>12. Calling(hs[dep])'
  <2>1. Construct(code[by], hs[dep], dep)' = o
    BY <1>1, <1>4, <1>8 DEF Construct, task
  <2>2. "deploy_error" \notin DOMAIN o.made
    BY <1>1, <1>8
  <2> HIDE DEF First
  <2>3. First(o)' = First(o)
    BY DEF First
  <2> QED
    BY <1>1, <1>9, <1>11, <2>1, <2>2, TaskKept DEF Calling
<1>13. Ran(by, 1 .. dep - 1, hs, results)'
  BY <1>1, <1>2, TruthKept
<1>14. RunnerInv'
  BY <1>1, <1>3, <1>5, <1>12, <1>13, TaskKept DEF RunnerInv
<1>15. calls' \in [Func' -> [ParamsSet -> CallResult \cup {NotRun}]]
  BY <1>1, TaskKept
<1>16. CallInv'
  BY <1>1, <1>5, <1>6, <1>7, <1>15, TaskKept DEF CallInv
<1> QED
  BY <1>1, <1>14, <1>16, TaskKept, DocKept, VerdictKept DEF IndInv

\* The call that follows (fn, ps).
LEMMA NextCall ==
  ASSUME IndInv, CallFunction
  PROVE  /\ fn' \in 1 .. nfuncs + 1 /\ ps' \in ParamsSet
         /\ fn' \notin Func => ps' = 1
         /\ \A f \in Func, k \in ParamsSet : Done(f, k)' <=> Done(f, k) \/ (f = fn /\ k = ps)
         /\ ~ Done(fn, ps)
         /\ \A f \in Func, k \in ParamsSet : Done(f, k)' => ~ (f = fn' /\ k = ps')
         /\ ps < K => fn' = fn /\ ps' = ps + 1
         /\ ~ (ps < K) => ps = K /\ fn' = fn + 1 /\ ps' = 1
<1>1. fn \in Func /\ ps \in ParamsSet /\ nfuncs \in Nat /\ K \in Nat \ {0}
  BY SizeAssumption DEF CallFunction, IndInv, CallInv, TaskInv
<1>2. (ps < K /\ ps' = ps + 1 /\ fn' = fn) \/ (~ (ps < K) /\ ps' = 1 /\ fn' = fn + 1)
  BY DEF CallFunction
<1> QED
  BY <1>1, <1>2 DEF Done, Func, ParamsSet

\* a call, which the world so far explains,
LEMMA CallTrace ==
  ASSUME IndInv, CallFunction, NEW w,
         NEW tr \in [Place -> [ParamsSet -> World]], TraceSoFar(code[by], w, tr)
  PROVE  \E ts \in [Place -> [ParamsSet -> World]] : TraceSoFar(code[by], w, ts)'
<1> DEFINE b == code[by]
           r == Invoke(b, fn, Here, ps)
<1>1. /\ UNCHANGED <<task, by>> /\ phase = "call" /\ fn \in Func
      /\ calls' = [calls EXCEPT ![fn] = [@ EXCEPT ![ps] = Observed(r)]]
      /\ storage' = WorldAfter(Here, r).storage /\ chain' = WorldAfter(Here, r).chain
  BY DEF CallFunction
<1>2. /\ storage \in Storage /\ chain \in Chain
      /\ calls \in [Func -> [ParamsSet -> CallResult \cup {NotRun}]]
      /\ ps \in ParamsSet /\ by \in Compiler
  BY <1>1 DEF IndInv, CallInv, RunnerInv
<1>3. Here \in World
  BY <1>2 DEF Here, World
<1>4. r \in {RuntimeError} \cup Returned
  BY <1>1, <1>2, <1>3, BehaviourFacts DEF IndInv
<1>5. Observed(r) \in CallResult /\ WorldAfter(Here, r) \in World
  BY <1>3, <1>4, ObservedInFull
<1>6. Here' = Leaves(b, Here, fn, ps) /\ Here' \in World
  <2>1. Here' = WorldAfter(Here, r)
    BY <1>1, <1>5 DEF Here, World
  <2> QED
    BY <1>5, <2>1 DEF Leaves
<1>7. /\ calls'[fn][ps] = Observed(r)
      /\ \A f \in Func, k \in ParamsSet : ~ (f = fn /\ k = ps) => calls'[f][k] = calls[f][k]
  <2>1. calls[fn] \in [ParamsSet -> CallResult \cup {NotRun}]
    BY <1>1, <1>2
  <2> HIDE DEF r
  <2> DEFINE row == [calls[fn] EXCEPT ![ps] = Observed(r)]
  <2>2. row[ps] = Observed(r) /\ \A k \in ParamsSet \ {ps} : row[k] = calls[fn][k]
    BY <1>2, <2>1
  <2>3. calls' = [calls EXCEPT ![fn] = row]
    BY <1>1
  <2> QED
    BY <1>1, <1>2, <2>2, <2>3
<1>8. /\ fn' \in Place /\ ps' \in ParamsSet /\ 1 \in ParamsSet /\ K \in ParamsSet
      /\ nfuncs \in Nat /\ K \in Nat \ {0}
  <2>1. nfuncs \in Nat /\ K \in Nat \ {0}
    BY SizeAssumption DEF IndInv, TaskInv
  <2>2. 1 \in ParamsSet /\ K \in ParamsSet
    BY <2>1 DEF ParamsSet
  <2> QED
    BY <2>1, <2>2, NextCall DEF Place
<1>9. tr[fn][ps] = Here /\ tr[1][1] = w
  BY DEF TraceSoFar
\* The trace goes on with the world that the call has left.
<1>10. PICK ts \in [Place -> [ParamsSet -> World]] :
        /\ ts[fn'][ps'] = Here'
        /\ \A f \in Place, k \in ParamsSet : ~ (f = fn' /\ k = ps') => ts[f][k] = tr[f][k]
  <2> DEFINE ts == [f \in Place |-> [k \in ParamsSet |->
                      IF f = fn' /\ k = ps' THEN Here' ELSE tr[f][k]]]
  <2>1. ts \in [Place -> [ParamsSet -> World]]
    BY <1>6
  <2>2. ts[fn'][ps'] = Here'
    BY <1>8
  <2>3. \A f \in Place, k \in ParamsSet : ~ (f = fn' /\ k = ps') => ts[f][k] = tr[f][k]
    OBVIOUS
  <2> QED
    BY <2>1, <2>2, <2>3
<1>11. \A f \in Func : f \in Place /\ f + 1 \in Place
  BY <1>8 DEF Func, Place
<1>12. \A f \in Func, k \in ParamsSet : Done(f, k)' => ts[f][k] = tr[f][k]
  BY <1>10, <1>11, NextCall
<1> HIDE DEF b
<1>13. ts[1][1] = w
  <2>1. ~ (1 = fn' /\ 1 = ps')
    BY <1>1, <1>2, NextCall DEF Func, ParamsSet
  <2>2. 1 \in Place
    BY <1>8 DEF Place
  <2> QED
    BY <1>8, <1>9, <1>10, <2>1, <2>2
<1>14. \A f \in Func, k \in ParamsSet : Done(f, k)' => Gives(b, ts[f][k], f, k, calls'[f][k])
  <2> SUFFICES ASSUME NEW f \in Func, NEW k \in ParamsSet, Done(f, k)'
               PROVE  Gives(b, ts[f][k], f, k, calls'[f][k])
    OBVIOUS
  <2>1. CASE f = fn /\ k = ps
    BY <1>7, <1>9, <1>12, <2>1 DEF Gives
  <2>2. CASE ~ (f = fn /\ k = ps)
    <3>1. Done(f, k)
      BY <2>2, NextCall
    <3> QED
      BY <1>7, <1>12, <2>2, <3>1 DEF TraceSoFar, b
  <2> QED
    BY <2>1, <2>2
<1>15. \A f \in Func, k \in ParamsSet :
         Done(f, k)' /\ k + 1 \in ParamsSet => ts[f][k + 1] = Leaves(b, ts[f][k], f, k)
  <2> SUFFICES ASSUME NEW f \in Func, NEW k \in ParamsSet, Done(f, k)', k + 1 \in ParamsSet
               PROVE  ts[f][k + 1] = Leaves(b, ts[f][k], f, k)
    OBVIOUS
  <2>1. CASE f = fn /\ k = ps
    <3>1. fn' = f /\ ps' = k + 1
      BY <2>1, NextCall DEF ParamsSet
    <3> QED
      BY <1>6, <1>9, <1>10, <1>12, <2>1, <3>1
  <2>2. CASE ~ (f = fn /\ k = ps)
    <3>1. Done(f, k)
      BY <2>2, NextCall
    <3>2. ~ (f = fn' /\ k + 1 = ps')
      BY <1>1, <1>2, <3>1, NextCall DEF Done, Func, ParamsSet
    <3>3. ts[f][k + 1] = tr[f][k + 1]
      BY <1>10, <1>11, <3>2
    <3> QED
      BY <1>12, <3>1, <3>3 DEF TraceSoFar, b
  <2> QED
    BY <2>1, <2>2
<1>16. \A f \in Func : Done(f, K)' => ts[f + 1][1] = Leaves(b, ts[f][K], f, K)
  <2> SUFFICES ASSUME NEW f \in Func, Done(f, K)'
               PROVE  ts[f + 1][1] = Leaves(b, ts[f][K], f, K)
    OBVIOUS
  <2>1. CASE f = fn /\ K = ps
    <3>1. fn' = f + 1 /\ ps' = 1
      BY <1>8, <2>1, NextCall
    <3> QED
      BY <1>6, <1>8, <1>9, <1>10, <1>12, <2>1, <3>1
  <2>2. CASE ~ (f = fn /\ K = ps)
    <3>1. Done(f, K)
      BY <1>8, <2>2, NextCall
    <3>2. ~ (f + 1 = fn' /\ 1 = ps')
      BY <1>1, <1>2, <1>8, <3>1, NextCall DEF Done, Func, ParamsSet
    <3>3. ts[f + 1][1] = tr[f + 1][1]
      BY <1>8, <1>10, <1>11, <3>2
    <3> QED
      BY <1>8, <1>12, <3>1, <3>3 DEF TraceSoFar, b
  <2> QED
    BY <2>1, <2>2
<1>17. Func' = Func /\ Place' = Place /\ code'[by'] = b
  BY <1>1, TaskKept DEF task, b
<1>18. \A bb, u, f, k : Leaves(bb, u, f, k)' = Leaves(bb, u, f, k)
  BY <1>1 DEF task, Leaves, Invoke
<1>19. \A bb, u, f, k, res : Gives(bb, u, f, k, res)' <=> Gives(bb, u, f, k, res)
  BY <1>1 DEF task, Gives, Invoke
<1>20. TraceSoFar(code[by], w, ts)'
  BY <1>10, <1>13, <1>14, <1>15, <1>16, <1>17, <1>18, <1>19 DEF TraceSoFar
<1> QED
  BY <1>20

LEMMA CallStep ==
  ASSUME IndInv, CallFunction
  PROVE  IndInv'
<1>1. /\ UNCHANGED <<task, doc, verdict, phase, by, dep, results>>
      /\ phase = "call" /\ phase' = "call" /\ fn \in Func
  BY DEF CallFunction
<1>2. PICK hs : Ran(by, 1 .. dep - 1, hs, results) /\ Calling(hs[dep])
  BY <1>1 DEF IndInv, RunnerInv
<1> DEFINE r == Invoke(code[by], fn, Here, ps)
<1>3. /\ calls' = [calls EXCEPT ![fn] = [@ EXCEPT ![ps] = Observed(r)]]
      /\ storage' = WorldAfter(Here, r).storage /\ chain' = WorldAfter(Here, r).chain
  BY DEF CallFunction
<1>4. /\ dep \in Deployment /\ storage \in Storage /\ chain \in Chain
      /\ calls \in [Func -> [ParamsSet -> CallResult \cup {NotRun}]]
      /\ ps \in ParamsSet /\ by \in Compiler
      /\ \A f \in Func, k \in ParamsSet : Done(f, k) => calls[f][k] \in CallResult
  BY <1>1 DEF IndInv, CallInv, RunnerInv
<1>5. Here \in World
  BY <1>4 DEF Here, World
<1>6. r \in {RuntimeError} \cup Returned
  BY <1>1, <1>4, <1>5, BehaviourFacts DEF IndInv
<1>7. Observed(r) \in CallResult /\ WorldAfter(Here, r) \in World
  BY <1>5, <1>6, ObservedInFull
<1> HIDE DEF r
<1>8. storage' \in Storage /\ chain' \in Chain
  BY <1>3, <1>7 DEF World
<1>9. /\ calls' \in [Func -> [ParamsSet -> CallResult \cup {NotRun}]]
      /\ calls'[fn][ps] = Observed(r)
      /\ \A f \in Func, k \in ParamsSet : ~ (f = fn /\ k = ps) => calls'[f][k] = calls[f][k]
  <2>1. calls[fn] \in [ParamsSet -> CallResult \cup {NotRun}]
    BY <1>1, <1>4
  <2> DEFINE row == [calls[fn] EXCEPT ![ps] = Observed(r)]
  <2>2. row \in [ParamsSet -> CallResult \cup {NotRun}] /\ row[ps] = Observed(r)
        /\ \A k \in ParamsSet \ {ps} : row[k] = calls[fn][k]
    BY <1>4, <1>7, <2>1
  <2>3. calls' = [calls EXCEPT ![fn] = row]
    BY <1>3
  <2> QED
    BY <1>1, <1>4, <2>2, <2>3
<1>10. \A f \in Func, k \in ParamsSet : Done(f, k)' => calls'[f][k] \in CallResult
  BY <1>4, <1>7, <1>9, NextCall
<1>11. Calling(hs[dep])'
  <2>1. PICK o : o = Construct(code[by], hs[dep], dep)
    OBVIOUS
  <2>2. PICK tr \in [Place -> [ParamsSet -> World]] : TraceSoFar(code[by], First(o), tr)
    BY <1>2, <2>1 DEF Calling
  <2>3. PICK ts \in [Place -> [ParamsSet -> World]] : TraceSoFar(code[by], First(o), ts)'
    BY <2>2, CallTrace
  <2>4. Construct(code[by], hs[dep], dep)' = o /\ Place' = Place
    BY <1>1, <2>1, TaskKept DEF Construct, task
  <2>5. "deploy_error" \notin DOMAIN o.made
    BY <1>2, <2>1 DEF Calling
  <2> QED
    BY <2>3, <2>4, <2>5 DEF Calling, First
<1>12. Ran(by, 1 .. dep - 1, hs, results)'
  BY <1>1, <1>2, TruthKept
<1>13. RunnerInv'
  BY <1>1, <1>8, <1>11, <1>12, TaskKept DEF IndInv, RunnerInv
<1>14. fn' \in Place /\ ps' \in ParamsSet /\ (fn' \notin Func => ps' = 1)
  BY NextCall DEF Place
<1>15. CallInv'
  BY <1>1, <1>4, <1>8, <1>9, <1>10, <1>14, TaskKept DEF CallInv
<1> QED
  BY <1>1, <1>13, <1>15, TaskKept, DocKept, VerdictKept DEF IndInv

\* the end of a deployment,
LEMMA EndDeploymentStep ==
  ASSUME IndInv, EndDeployment
  PROVE  IndInv'
<1>1. /\ UNCHANGED <<task, doc, verdict, by, chain>>
      /\ phase = "call" /\ fn \notin Func /\ dep' = dep + 1 /\ phase' = "deploy"
      /\ results' = [results EXCEPT ![dep] = [calls |-> calls]]
  BY DEF EndDeployment
<1>2. PICK hs : Ran(by, 1 .. dep - 1, hs, results) /\ Calling(hs[dep])
  BY <1>1 DEF IndInv, RunnerInv
<1>3. /\ dep \in Deployment /\ chain \in Chain
      /\ calls \in [Func -> [ParamsSet -> CallResult \cup {NotRun}]]
      /\ fn \in Place /\ ps = 1 /\ nfuncs \in Nat
      /\ \A f \in Func, k \in ParamsSet : Done(f, k) => calls[f][k] \in CallResult
  BY <1>1 DEF IndInv, CallInv, RunnerInv, TaskInv
<1>4. fn = nfuncs + 1 /\ K \in ParamsSet /\ \A f \in Func, k \in ParamsSet : Done(f, k)
  BY <1>1, <1>3, SizeAssumption DEF Done, Func, Place, ParamsSet
<1> DEFINE o == Construct(code[by], hs[dep], dep)
<1>5. PICK tr \in [Place -> [ParamsSet -> World]] : TraceSoFar(code[by], First(o), tr)
  BY <1>2 DEF Calling
<1>6. Trace(code[by], First(o), tr, calls)
  BY <1>4, <1>5 DEF TraceSoFar, Trace
<1>7. tr[nfuncs + 1][1].chain = chain
  BY <1>3, <1>4, <1>5 DEF TraceSoFar, Here
<1>8. calls \in [Func -> [ParamsSet -> CallResult]]
  <2>1. \A f \in Func : calls[f] \in [ParamsSet -> CallResult]
    <3> TAKE f \in Func
    <3>1. calls[f] \in [ParamsSet -> CallResult \cup {NotRun}]
      BY <1>3
    <3>2. \A k \in ParamsSet : calls[f][k] \in CallResult
      BY <1>3, <1>4
    <3> QED
      BY <3>1, <3>2
  <2> QED
    BY <1>3, <2>1
<1>9. Truthful(by, dep, hs[dep], [calls |-> calls], chain)
  <2>1. "deploy_error" \notin DOMAIN o.made
    BY <1>2 DEF Calling
  <2> QED
    BY <1>6, <1>7, <1>8, <2>1 DEF Truthful
<1>10. RunnerInv'
  BY <1>1, <1>2, <1>3, <1>9, OneMore
<1>11. CallInv'
  BY <1>1 DEF CallInv
<1> QED
  BY <1>1, <1>10, <1>11, TaskKept, DocKept, VerdictKept DEF IndInv

\* the results stored,
LEMMA StoreStep ==
  ASSUME IndInv, Store
  PROVE  IndInv'
<1>1. /\ phase = "deploy" /\ dep \notin Deployment /\ phase' = "idle"
      /\ doc' = [c \in DOMAIN doc \cup {by} |-> IF c = by THEN results ELSE doc[c]]
      /\ UNCHANGED <<task, verdict>>
  BY DEF Store
<1>2. /\ by \in Compiler \ DOMAIN doc /\ dep \in Nat \ {0}
      /\ 1 .. dep - 1 \subseteq Deployment
      /\ results = [i \in Deployment |-> results[i]]
  BY <1>1 DEF IndInv, RunnerInv
<1>3. PICK hs : Ran(by, 1 .. dep - 1, hs, results)
  BY <1>1 DEF IndInv, RunnerInv
<1>4. RunnerInv' /\ CallInv'
  BY <1>1 DEF RunnerInv, CallInv
<1>5. DocInv'
  <2>1. Deployment = 1 .. dep - 1
    <3>1. PICK m \in Nat \ {0} : Deployment = 1 .. m
      BY DeploymentsCount DEF IndInv
    <3>2. dep = m + 1
      <4>1. dep > m
        BY <1>1, <1>2, <3>1
      <4>2. dep > 1 => dep - 1 \in 1 .. m
        <5>1. dep > 1 => dep - 1 \in 1 .. dep - 1
          BY <1>2
        <5> QED
          BY <1>2, <3>1, <5>1
      <4> QED
        BY <1>2, <4>1, <4>2
    <3> QED
      BY <3>1, <3>2
  <2>2. DOMAIN doc' = DOMAIN doc \cup {by} /\ doc'[by] = results
        /\ \A c \in DOMAIN doc : doc'[c] = doc[c]
    BY <1>1, <1>2
  <2>3. DOMAIN results = Deployment
    BY <1>2
  <2>4. ASSUME NEW c \in DOMAIN doc'
        PROVE  DOMAIN doc'[c] = Deployment /\ \E gs : Ran(c, Deployment, gs, doc'[c])
    BY <1>2, <1>3, <2>1, <2>2, <2>3 DEF IndInv, DocInv
  <2>5. ASSUME NEW c \in DOMAIN doc'
        PROVE  \E gs : Ran(c, Deployment, gs, doc[c])'
    <3>1. PICK gs : Ran(c, Deployment, gs, doc'[c])
      BY <2>4
    <3>2. PICK ds, deployments : ds = doc'[c] /\ deployments = Deployment
      OBVIOUS
    <3>3. Ran(c, deployments, gs, ds)'
      BY <1>1, <3>1, <3>2, TruthKept
    <3>4. Deployment' = deployments
      BY <1>1, <3>2, TaskKept
    <3> QED
      BY <3>2, <3>3, <3>4
  <2> QED
    BY <1>1, <1>2, <2>2, <2>4, <2>5, TaskKept DEF IndInv, DocInv
<1>6. VerdictInv'
  <2>1. ~ ReadyToHandle
    BY <1>2 DEF ReadyToHandle
  <2>2. status = "unhandled" /\ rows = {}
    BY <2>1 DEF IndInv, VerdictInv
  <2> QED
    BY <1>1, <2>2 DEF VerdictInv, verdict
<1> QED
  BY <1>1, <1>4, <1>5, <1>6, TaskKept DEF IndInv

\* and what the verifier does.
LEMMA VerifierStep ==
  ASSUME IndInv, Skip \/ ReportDeployErrors \/ VerifyResults
  PROVE  IndInv'
<1>1. UNCHANGED <<task, runner, doc>> /\ ReadyToHandle
  BY DEF Skip, ReportDeployErrors, VerifyResults
<1>2. phase = "idle"
  BY <1>1 DEF IndInv, RunnerInv, ReadyToHandle
<1>3. RunnerInv' /\ CallInv'
  BY <1>1, <1>2 DEF RunnerInv, CallInv, runner
<1>4. /\ IsValid' <=> IsValid
      /\ HasDeployErrors' <=> HasDeployErrors
      /\ ReadyToHandle' <=> ReadyToHandle
      /\ DeployRows' = DeployRows /\ CallRows' = CallRows
  BY <1>1 DEF IsValid, HasDeployErrors, ReadyToHandle, Failed, DeployRows, DeployRow, DeployErrors,
              ErrorOf, CallRows, CallRow, Column, Call, task, Func, Deployment
<1>5. VerdictInv'
  BY <1>1, <1>4 DEF Skip, ReportDeployErrors, VerifyResults, IndInv, VerdictInv
<1> QED
  BY <1>1, <1>3, <1>5, TaskKept, DocKept DEF IndInv

\* What changes nothing keeps the invariant.
LEMMA StutterStep ==
  ASSUME IndInv, UNCHANGED vars
  PROVE  IndInv'
<1>1. UNCHANGED <<task, runner, doc, verdict>>
  BY DEF vars
<1>2. UNCHANGED <<code, nfuncs, inputs, phase, by, dep, fn, ps, chain, storage, calls, results>>
  BY <1>1 DEF task, runner
<1>3. \A b, w, tr : TraceSoFar(b, w, tr)' <=> TraceSoFar(b, w, tr)
  BY <1>2, <1>1, TaskKept DEF TraceSoFar, Done, Here, Gives, Leaves, Invoke
<1>4. \A h : Calling(h)' <=> Calling(h)
  BY <1>1, <1>2, <1>3, TaskKept DEF Calling, Construct, task, First
<1>5. RunnerInv'
  <2>1. CASE phase = "idle"
    BY <1>2, <2>1 DEF RunnerInv
  <2>2. CASE phase # "idle"
    <3>1. PICK hs : /\ Ran(by, 1 .. dep - 1, hs, results)
                    /\ phase = "deploy" => hs[dep] = chain
                    /\ phase = "call" => Calling(hs[dep])
      BY <2>2 DEF IndInv, RunnerInv
    <3>2. Ran(by, 1 .. dep - 1, hs, results)'
      BY <1>1, <1>2, <3>1, TruthKept
    <3>3. phase = "call" => Calling(hs[dep])'
      BY <1>2, <1>4, <3>1
    <3> QED
      BY <1>1, <1>2, <2>2, <3>1, <3>2, <3>3, TaskKept DEF IndInv, RunnerInv
  <2> QED
    BY <2>1, <2>2
<1>6. CallInv'
  <2>1. \A f, k : Done(f, k)' <=> Done(f, k)
    BY <1>2 DEF Done
  <2> QED
    BY <1>1, <1>2, <2>1, TaskKept DEF IndInv, CallInv
<1> QED
  BY <1>1, <1>5, <1>6, TaskKept, DocKept, VerdictKept DEF IndInv

\* The inductive invariant holds.
LEMMA Invariance == Spec => []IndInv
<1>1. IndInv /\ [Next]_vars => IndInv'
  <2> SUFFICES ASSUME IndInv, [Next]_vars
               PROVE  IndInv'
    OBVIOUS
  <2>1. ASSUME NEW c \in Compiler, Take(c)
        PROVE  IndInv'
    BY <2>1, TakeStep
  <2>2. CASE DeployFails
    BY <2>2, DeployFailsStep
  <2>3. CASE Deploy
    BY <2>3, DeployStep
  <2>4. CASE CallFunction
    BY <2>4, CallStep
  <2>5. CASE EndDeployment
    BY <2>5, EndDeploymentStep
  <2>6. CASE Store
    BY <2>6, StoreStep
  <2>7. CASE Skip \/ ReportDeployErrors \/ VerifyResults
    BY <2>7, VerifierStep
  <2>8. CASE UNCHANGED vars
    BY <2>8, StutterStep
  <2> QED
    BY <2>1, <2>2, <2>3, <2>4, <2>5, <2>6, <2>7, <2>8 DEF Next
<1> QED
  BY <1>1, Initially, PTL DEF Spec

-----------------------------------------------------------------------------
\* In a complete document each deployment of each compiler is what a run gives.
LEMMA DeploymentsRan ==
  ASSUME IndInv, ReadyToHandle, NEW c \in Compiler, NEW i \in Deployment
  PROVE  \E h, g : Truthful(c, i, h, doc[c][i], g)
BY DEF ReadyToHandle, IndInv, DocInv, Ran

\* In a document that is complete and has no errors of the constructor there is a result for
\* every call.
LEMMA CallsHaveResults ==
  ASSUME IndInv, ReadyToHandle, ~ HasDeployErrors,
         NEW c \in Compiler, NEW i \in Deployment, NEW f \in Func
  PROVE  /\ DOMAIN doc[c][i].calls = Func
         /\ \A k \in ParamsSet : Call(c, i, f, k) \in CallResult
<1>1. PICK h, g : ~ Failed(c, i) /\ Truthful(c, i, h, doc[c][i], g)
  BY DeploymentsRan DEF HasDeployErrors
<1>2. PICK x \in [Func -> [ParamsSet -> CallResult]] : doc[c][i] = [calls |-> x]
  BY <1>1 DEF Truthful, Failed
<1> QED
  BY <1>2 DEF Call

-----------------------------------------------------------------------------
(* Whose values the lists have. *)

\* Compilers that follow each other in the configuration.
Adjacent == {<<n, n + 1>> : n \in 1 .. N - 1}

\* A list to which every compiler has appended its value has them in the order of the compilers.
LEMMA ListedInOrder ==
  ASSUME NEW v, DOMAIN v = Compiler
  PROVE  Listed(v) = [n \in Compiler |-> v[n]] /\ Neighbours(Listed(v)) = Adjacent
<1>1. N \in Nat \ {0}
  BY SizeAssumption
<1>2. Cardinality(Compiler) = N
  BY <1>1, FS_Interval DEF Compiler
<1>3. ASSUME NEW c \in Compiler
      PROVE  Cardinality({d \in Compiler : d <= c}) = c
  <2>1. {d \in Compiler : d <= c} = 1 .. c /\ c \in Nat \ {0}
    BY <1>1 DEF Compiler
  <2>2. Cardinality(1 .. c) = c
    BY <2>1, FS_Interval
  <2> QED
    BY <2>1, <2>2
<1>4. ASSUME NEW n \in Compiler
      PROVE  (CHOOSE c \in Compiler : Cardinality({d \in Compiler : d <= c}) = n) = n
  BY <1>3
<1>5. Listed(v) = [n \in Compiler |-> v[n]]
  <2>1. Listed(v) =
          [n \in 1 .. N |-> v[CHOOSE c \in Compiler : Cardinality({d \in Compiler : d <= c}) = n]]
    BY <1>2 DEF Listed
  <2> QED
    BY <1>4, <2>1 DEF Compiler
<1>6. Len(Listed(v)) = N
  BY <1>1, <1>5 DEF Compiler
<1> QED
  BY <1>5, <1>6 DEF Neighbours, Adjacent

\* In a complete document the lists of errors, and without errors those of results, have a
\* place for every compiler.
LEMMA AlignedErrors ==
  ASSUME IndInv, ReadyToHandle, NEW i \in Deployment
  PROVE  /\ DeployErrors(i) = [c \in Compiler |-> ErrorOf(c, i)]
         /\ Neighbours(DeployErrors(i)) = Adjacent
<1> DEFINE v == [c \in Compiler |-> ErrorOf(c, i)]
<1>1. {d \in Compiler : i \in DOMAIN doc[d]} = Compiler
  BY DEF ReadyToHandle, IndInv, DocInv
<1>2. DeployErrors(i) = Listed(v)
  BY <1>1 DEF DeployErrors
<1>3. DOMAIN v = Compiler /\ \A n \in Compiler : v[n] = ErrorOf(n, i)
  OBVIOUS
<1> HIDE DEF v
<1> QED
  BY <1>2, <1>3, ListedInOrder

\* (The same for results.)
LEMMA AlignedResults ==
  ASSUME IndInv, ReadyToHandle, ~ HasDeployErrors,
         NEW f \in Func, NEW i \in Deployment, NEW k \in ParamsSet
  PROVE  /\ Column(f, i, k) = [c \in Compiler |-> Call(c, i, f, k)]
         /\ Neighbours(Column(f, i, k)) = Adjacent
<1> DEFINE v == [c \in Compiler |-> Call(c, i, f, k)]
<1>1. {d \in Compiler : i \in DOMAIN doc[d] /\ f \in DOMAIN doc[d][i].calls} = Compiler
  BY CallsHaveResults DEF ReadyToHandle, IndInv, DocInv
<1>2. Column(f, i, k) = Listed(v)
  BY <1>1 DEF Column
<1>3. DOMAIN v = Compiler /\ \A n \in Compiler : v[n] = Call(n, i, f, k)
  OBVIOUS
<1> HIDE DEF v
<1> QED
  BY <1>2, <1>3, ListedInOrder

\* What two results of calls are reported for: what differs, if both returned.
LEMMA ComparedInFull ==
  ASSUME NEW r0 \in CallResult, NEW r1 \in CallResult
  PROVE  VerifyTwoResults(r0, r1) \ {NotReported} # {} <=> Differ(r0, r1)
<1>1. CASE RuntimeError \in {r0, r1}
  BY <1>1 DEF VerifyTwoResults, Differ
<1>2. CASE RuntimeError \notin {r0, r1}
  <2>1. r0 \in [state : Value, return_value : Value] /\ r1 \in [state : Value, return_value : Value]
    BY <1>2 DEF CallResult
  <2>2. VerifyTwoResults(r0, r1) = {Verify("Storage", r0.state, r1.state),
                                    Verify("Return_Value", r0.return_value, r1.return_value)}
    BY <1>2 DEF VerifyTwoResults
  <2>3. r0 = r1 <=> r0.state = r1.state /\ r0.return_value = r1.return_value
    BY <2>1
  <2>4. Differ(r0, r1) <=> r0 # r1
    BY <1>2 DEF Differ
  <2> QED
    BY <2>2, <2>3, <2>4 DEF Verify, NotReported
<1> QED
  BY <1>1, <1>2

\* What a row about a call says, by the compilers it names.
LEMMA CallRowTells ==
  ASSUME IndInv, ReadyToHandle, ~ HasDeployErrors,
         NEW p \in Adjacent, NEW f \in Func, NEW i \in Deployment, NEW k \in ParamsSet
  PROVE  LET row == CallRow(p, f, i, k)
         IN  /\ row.compilers = p /\ row.function = f
             /\ row.deployment = i /\ row.params_set = k
             /\ Names(row) # {} <=> Differ(Call(p[1], i, f, k), Call(p[2], i, f, k))
<1>1. p[1] \in Compiler /\ p[2] \in Compiler
  BY SizeAssumption DEF Adjacent, Compiler
<1>2. Column(f, i, k)[p[1]] = Call(p[1], i, f, k) /\ Column(f, i, k)[p[2]] = Call(p[2], i, f, k)
  BY <1>1, AlignedResults
<1>3. Call(p[1], i, f, k) \in CallResult /\ Call(p[2], i, f, k) \in CallResult
  BY <1>1, CallsHaveResults
<1> QED
  BY <1>2, <1>3, ComparedInFull DEF CallRow, Names

-----------------------------------------------------------------------------
\* A difference between any two compilers of the list is reported between the two, if no
\* call raised there: comparing neighbours is enough.
THEOREM DiscrepanciesLocated == Spec => []DiscrepancyLocated
<1>1. IndInv => DiscrepancyLocated
  <2> SUFFICES ASSUME IndInv, status = "handled",
                      NEW f \in Func, NEW i \in Deployment, NEW k \in ParamsSet,
                      NEW c \in Compiler, NEW d \in Compiler
               PROVE  LET r == [e \in Compiler |-> Call(e, i, f, k)]
                      IN  c < d /\ Differ(r[c], r[d]) /\ (\A e \in c .. d : r[e] # RuntimeError)
                            => \E row \in rows :
                                 /\ row.function = f /\ row.deployment = i /\ row.params_set = k
                                 /\ row.compilers[1] \in c .. d - 1
                                 /\ Names(row) # {}
    BY DEF DiscrepancyLocated
  <2> DEFINE r == [e \in Compiler |-> Call(e, i, f, k)]
  <2> HIDE DEF r
  <2> SUFFICES ASSUME c < d, Differ(r[c], r[d]), \A e \in c .. d : r[e] # RuntimeError
               PROVE  \E row \in rows :
                        /\ row.function = f /\ row.deployment = i /\ row.params_set = k
                        /\ row.compilers[1] \in c .. d - 1
                        /\ Names(row) # {}
    BY DEF r
  <2>1. ~ HasDeployErrors /\ rows = CallRows /\ ReadyToHandle
    BY DEF IndInv, VerdictInv
  <2>2. c \in Nat /\ d \in Nat /\ N \in Nat /\ r[c] # r[d]
    BY SizeAssumption DEF Compiler, Differ
  <2>3. PICK e \in c .. d - 1 : r[e] # r[e + 1]
    BY <2>2, NeighboursDiffer
  <2>4. e \in Compiler /\ e + 1 \in Compiler /\ e \in c .. d /\ e + 1 \in c .. d
    BY <2>2 DEF Compiler
  <2>5. r[e] = Call(e, i, f, k) /\ r[e + 1] = Call(e + 1, i, f, k)
    BY <2>4 DEF r
  <2>6. Differ(Call(e, i, f, k), Call(e + 1, i, f, k))
    BY <2>3, <2>4, <2>5 DEF Differ
  <2> DEFINE p == <<e, e + 1>>
             row == CallRow(p, f, i, k)
  <2>7. p \in Adjacent
    BY <2>2, <2>4 DEF Adjacent, Compiler
  <2>8. row \in rows
    <3>1. \E q \in Neighbours(Column(f, i, k)) : row = CallRow(q, f, i, k)
      BY <2>1, <2>7, AlignedResults
    <3> HIDE DEF row
    <3>2. \E S \in {{CallRow(q, g, j, l) : q \in Neighbours(Column(g, j, l))} :
                     g \in Func, j \in Deployment, l \in ParamsSet} : row \in S
      <4> DEFINE S == {CallRow(q, f, i, k) : q \in Neighbours(Column(f, i, k))}
      <4>1. row \in S
        BY <3>1
      <4>2. S \in {{CallRow(q, g, j, l) : q \in Neighbours(Column(g, j, l))} :
                     g \in Func, j \in Deployment, l \in ParamsSet}
        OBVIOUS
      <4> HIDE DEF S
      <4> QED
        BY <4>1, <4>2
    <3> QED
      BY <2>1, <3>2 DEF CallRows
  <2>9. /\ row.compilers = p /\ row.function = f /\ row.deployment = i /\ row.params_set = k
        /\ Names(row) # {}
    BY <2>1, <2>6, <2>7, CallRowTells
  <2> QED
    BY <2>4, <2>8, <2>9
<1> QED
  BY <1>1, Invariance, PTL

\* A constructor that fails for one compiler and not, or differently, for another is
\* reported, and the document stays unhandled (check_deploy_errors).
THEOREM DeploymentsAreCompared == Spec => []DeploymentsCompared
<1>1. IndInv => DeploymentsCompared
  <2> SUFFICES ASSUME IndInv, status # "unhandled", IsValid,
                      NEW i \in Deployment, NEW c \in Compiler, NEW d \in Compiler,
                      ErrorOf(c, i) # ErrorOf(d, i)
               PROVE  /\ status = "failed"
                      /\ \E row \in rows : row.deployment = i /\ row.results # NotReported
    BY DEF DeploymentsCompared
  <2>1. HasDeployErrors
    BY DEF ErrorOf, HasDeployErrors
  <2>2. status = "failed" /\ rows = DeployRows /\ ReadyToHandle
    BY <2>1 DEF IndInv, VerdictInv
  <2> DEFINE error == [e \in Compiler |-> ErrorOf(e, i)]
  <2>3. /\ c \in Nat /\ d \in Nat /\ N \in Nat
        /\ error[c] # error[d]
    BY SizeAssumption DEF Compiler
  <2>4. PICK e \in Nat : e \in Compiler /\ e + 1 \in Compiler /\ error[e] # error[e + 1]
    <3> HIDE DEF error
    <3>1. CASE c < d
      <4>1. PICK e \in c .. d - 1 : error[e] # error[e + 1]
        BY <2>3, <3>1, NeighboursDiffer
      <4> QED
        BY <2>3, <4>1 DEF Compiler
    <3>2. CASE d < c
      <4>1. PICK e \in d .. c - 1 : error[e] # error[e + 1]
        BY <2>3, <3>2, NeighboursDiffer
      <4> QED
        BY <2>3, <4>1 DEF Compiler
    <3> QED
      BY <2>3, <3>1, <3>2
  <2> DEFINE p == <<e, e + 1>>
             row == DeployRow(p, i)
  <2>5. p \in Adjacent
    BY <2>3, <2>4 DEF Adjacent, Compiler
  <2>6. row \in rows
    BY <2>2, <2>5, AlignedErrors DEF DeployRows
  <2>7. DeployErrors(i)[e] # DeployErrors(i)[e + 1]
    BY <2>2, <2>4, AlignedErrors
  <2>8. row.deployment = i /\ row.results # NotReported
    BY <2>7 DEF DeployRow, Verify, NotReported
  <2> QED
    BY <2>2, <2>6, <2>8
<1> QED
  BY <1>1, Invariance, PTL

-----------------------------------------------------------------------------
(* What is to blame. *)

\* b and e answer the calls of functions up to f in the same way.
Alike(b, e, f) ==
  \A g \in 1 .. f, k \in ParamsSet, w \in World : Invoke(b, g, w, k) = Invoke(e, g, w, k)

\* From the same world, contracts that answer alike go through the same worlds.
LEMMA SameWorlds ==
  ASSUME TaskInv, NEW b, NEW e, NEW w, NEW x, NEW y, NEW tr, NEW ts,
         Trace(b, w, tr, x), Trace(e, w, ts, y),
         NEW f \in 0 .. nfuncs, Alike(b, e, f)
  PROVE  /\ \A g \in 1 .. f, k \in ParamsSet : tr[g][k] = ts[g][k]
         /\ tr[f + 1][1] = ts[f + 1][1]
<1>0. /\ f \in Nat /\ nfuncs \in Nat /\ K \in Nat \ {0}
      /\ 1 .. f \subseteq Func /\ 1 .. f + 1 \subseteq Place /\ K \in ParamsSet /\ 1 \in ParamsSet
  BY SizeAssumption DEF TaskInv, Func, Place, ParamsSet
<1>1. \A g \in 1 .. f, j \in ParamsSet : tr[g][j] \in World /\ ts[g][j] \in World
  BY <1>0 DEF Trace
<1>2. \A g \in 1 .. f, j \in ParamsSet :
        tr[g][j] = ts[g][j] => Leaves(b, tr[g][j], g, j) = Leaves(e, ts[g][j], g, j)
  BY <1>1 DEF Alike, Leaves
\* The first place that differs cannot be.
<1>3. ASSUME NEW g \in 1 .. f + 1, NEW j \in ParamsSet, g = f + 1 => j = 1,
             \A h \in 1 .. g - 1, l \in ParamsSet : tr[h][l] = ts[h][l],
             \A l \in 1 .. j - 1 : tr[g][l] = ts[g][l]
      PROVE  tr[g][j] = ts[g][j]
  <2>1. CASE j > 1
    <3>1. j - 1 \in ParamsSet /\ (j - 1) + 1 = j /\ j - 1 \in 1 .. j - 1 /\ g \in 1 .. f
      BY <1>0, <1>3, <2>1 DEF ParamsSet
    <3>2. tr[g][j] = Leaves(b, tr[g][j - 1], g, j - 1) /\ ts[g][j] = Leaves(e, ts[g][j - 1], g, j - 1)
      <4>1. \A l \in Func, k \in ParamsSet : k + 1 \in ParamsSet =>
              /\ tr[l][k + 1] = Leaves(b, tr[l][k], l, k)
              /\ ts[l][k + 1] = Leaves(e, ts[l][k], l, k)
        BY DEF Trace
      <4>2. g \in Func
        BY <1>0, <3>1
      <4> QED
        BY <1>3, <3>1, <4>1, <4>2
    <3> QED
      BY <1>2, <1>3, <3>1, <3>2
  <2>2. CASE j = 1 /\ g > 1
    <3>1. g - 1 \in 1 .. f /\ (g - 1) + 1 = g /\ g - 1 \in 1 .. g - 1
      BY <1>0, <2>2
    <3>2. tr[g][1] = Leaves(b, tr[g - 1][K], g - 1, K) /\ ts[g][1] = Leaves(e, ts[g - 1][K], g - 1, K)
      <4>1. \A l \in Func : /\ tr[l + 1][1] = Leaves(b, tr[l][K], l, K)
                           /\ ts[l + 1][1] = Leaves(e, ts[l][K], l, K)
        BY DEF Trace
      <4>2. g - 1 \in Func
        BY <1>0, <3>1
      <4> QED
        BY <3>1, <4>1, <4>2
    <3>3. tr[g - 1][K] = ts[g - 1][K]
      BY <1>0, <1>3, <3>1
    <3> QED
      BY <1>0, <1>2, <2>2, <3>1, <3>2, <3>3
  <2>3. CASE j = 1 /\ g = 1
    BY <2>3 DEF Trace
  <2> QED
    BY <1>0, <2>1, <2>2, <2>3 DEF ParamsSet
<1>4. \A g \in 1 .. f, j \in ParamsSet : tr[g][j] = ts[g][j]
  <2> DEFINE apart == {g \in 1 .. f : \E j \in ParamsSet : tr[g][j] # ts[g][j]}
  <2> SUFFICES ASSUME apart # {} PROVE FALSE
    OBVIOUS
  <2>1. PICK g \in apart : \A h \in apart : g <= h
    <3>1. apart \in SUBSET Nat
      OBVIOUS
    <3> QED
      BY <3>1, LeastNumber
  <2> DEFINE apartIn == {j \in ParamsSet : tr[g][j] # ts[g][j]}
  <2>2. PICK j \in apartIn : \A h \in apartIn : j <= h
    <3>1. apartIn \in SUBSET Nat /\ apartIn # {}
      BY <2>1 DEF ParamsSet
    <3> QED
      BY <3>1, LeastNumber
  <2>3. g \in 1 .. f + 1 /\ g # f + 1 /\ j \in ParamsSet /\ tr[g][j] # ts[g][j]
    BY <1>0, <2>1, <2>2
  <2>4. \A h \in 1 .. g - 1, l \in ParamsSet : tr[h][l] = ts[h][l]
    <3> SUFFICES ASSUME NEW h \in 1 .. g - 1, NEW l \in ParamsSet, tr[h][l] # ts[h][l]
                 PROVE  FALSE
      OBVIOUS
    <3>1. h \in 1 .. f
      BY <1>0, <2>1
    <3>2. h \in apart
      BY <3>1
    <3> QED
      BY <1>0, <2>1, <3>2
  <2>5. \A l \in 1 .. j - 1 : tr[g][l] = ts[g][l]
    <3> SUFFICES ASSUME NEW l \in 1 .. j - 1, tr[g][l] # ts[g][l]
                 PROVE  FALSE
      OBVIOUS
    <3>1. l \in apartIn
      BY <1>0, <2>2 DEF ParamsSet
    <3> QED
      BY <1>0, <2>2, <3>1 DEF ParamsSet
  <2> HIDE DEF apart, apartIn
  <2> QED
    BY <1>3, <2>3, <2>4, <2>5
<1>5. tr[f + 1][1] = ts[f + 1][1]
  <2>1. f + 1 \in 1 .. f + 1 /\ (f + 1) - 1 = f /\ 1 .. 1 - 1 = {}
    BY <1>0
  <2>2. \A h \in 1 .. (f + 1) - 1, l \in ParamsSet : tr[h][l] = ts[h][l]
    BY <1>4, <2>1
  <2>3. \A l \in 1 .. 1 - 1 : tr[f + 1][l] = ts[f + 1][l]
    BY <2>1
  <2> QED
    BY <1>0, <1>3, <2>1, <2>2, <2>3
<1> QED
  BY <1>4, <1>5

\* Begun on the same chain with constructors that are alike, the i-th deployment leaves the
\* same chain if all functions are alike, fails in the same way, and has the same results up
\* to the last function that is.
LEMMA SameDeployment ==
  ASSUME TaskInv, NEW c, NEW d, NEW i, NEW h, NEW dc, NEW dd, NEW gc, NEW gd,
         Truthful(c, i, h, dc, gc), Truthful(d, i, h, dd, gd),
         Construct(code[c], h, i) = Construct(code[d], h, i)
  PROVE  /\ "deploy_error" \in DOMAIN dc <=> "deploy_error" \in DOMAIN dd
         /\ "deploy_error" \in DOMAIN dc => dc = dd /\ gc = gd
         /\ "deploy_error" \notin DOMAIN dc =>
              /\ \A f \in Func, k \in ParamsSet :
                   Alike(code[c], code[d], f) => dc.calls[f][k] = dd.calls[f][k]
              /\ Alike(code[c], code[d], nfuncs) => gc = gd
<1> DEFINE o == Construct(code[c], h, i)
<1>1. CASE "deploy_error" \in DOMAIN o.made
  BY <1>1 DEF Truthful
<1>2. CASE "deploy_error" \notin DOMAIN o.made
  <2>1. PICK x, tr : /\ dc = [calls |-> x] /\ Trace(code[c], First(o), tr, x)
                     /\ gc = tr[nfuncs + 1][1].chain
    BY <1>2 DEF Truthful
  <2>2. PICK y, ts : /\ dd = [calls |-> y] /\ Trace(code[d], First(o), ts, y)
                     /\ gd = ts[nfuncs + 1][1].chain
    BY <1>2 DEF Truthful
  <2> HIDE DEF o
  <2>3. "deploy_error" \notin DOMAIN dc /\ "deploy_error" \notin DOMAIN dd
    BY <2>1, <2>2
  <2>4. nfuncs \in Nat
    BY SizeAssumption DEF TaskInv
  <2>5. ASSUME NEW f \in Func, NEW k \in ParamsSet, Alike(code[c], code[d], f)
        PROVE  x[f][k] = y[f][k]
    <3>1. f \in 0 .. nfuncs /\ f \in 1 .. f /\ f \in Place
      BY <2>4 DEF Func, Place
    <3>2. tr[f][k] = ts[f][k]
      BY <2>1, <2>2, <2>5, <3>1, SameWorlds
    <3>3. tr[f][k] \in World
      BY <2>1, <3>1 DEF Trace
    <3> QED
      BY <2>1, <2>2, <2>5, <3>1, <3>2, <3>3 DEF Trace, Gives, Alike
  <2>6. ASSUME Alike(code[c], code[d], nfuncs)
        PROVE  gc = gd
    <3>1. nfuncs \in 0 .. nfuncs
      BY <2>4
    <3> QED
      BY <2>1, <2>2, <2>6, <3>1, SameWorlds
  <2> QED
    BY <2>1, <2>2, <2>3, <2>5, <2>6
<1> QED
  BY <1>1, <1>2

\* Processes that have come to the same chain begin a deployment on the same one, if all
\* before it are alike.
LEMMA SameChains ==
  ASSUME TaskInv, NEW c, NEW d, NEW i \in Deployment, NEW hs, NEW gs, NEW dc, NEW dd,
         Ran(c, Deployment, hs, dc), Ran(d, Deployment, gs, dd), started[c] = started[d],
         \A j \in 1 .. i, h \in Chain : Construct(code[c], h, j) = Construct(code[d], h, j),
         i > 1 => Alike(code[c], code[d], nfuncs)
  PROVE  hs[i] = gs[i]
<1>0. i \in Nat \ {0} /\ 1 .. i \subseteq Deployment
  BY DeploymentsCount
<1> DEFINE apart == {j \in 1 .. i : hs[j] # gs[j]}
<1> SUFFICES ASSUME apart # {} PROVE FALSE
  BY <1>0
<1>1. PICK j \in apart : \A l \in apart : j <= l
  <2>1. apart \in SUBSET Nat
    OBVIOUS
  <2> QED
    BY <2>1, LeastNumber
<1>2. j \in 1 .. i /\ hs[j] # gs[j]
  BY <1>1
<1>3. CASE j = 1
  BY <1>2, <1>3 DEF Ran
<1>4. CASE j > 1
  <2>1. /\ j - 1 \in 1 .. i /\ (j - 1) + 1 = j /\ j - 1 \notin apart /\ i > 1
        /\ j - 1 \in Deployment /\ j - 1 \in Nat
    BY <1>0, <1>1, <1>2, <1>4
  <2> DEFINE h == hs[j - 1]
  <2>2. gs[j - 1] = h /\ h \in Chain
    BY <2>1 DEF Ran
  <2>3. Truthful(c, j - 1, h, dc[j - 1], hs[j]) /\ Truthful(d, j - 1, h, dd[j - 1], gs[j])
    BY <2>1, <2>2 DEF Ran
  <2>4. Construct(code[c], h, j - 1) = Construct(code[d], h, j - 1)
    BY <2>1, <2>2
  <2> HIDE DEF h
  <2>5. hs[j] = gs[j]
    BY <2>1, <2>3, <2>4, SameDeployment
  <2> QED
    BY <1>2, <2>5
<1> QED
  BY <1>0, <1>2, <1>3, <1>4

\* What is reported has a cause among what was run for it: where the processes have come to
\* the same chain, a constructor or a function that the two compilers have built differently
\* (handle_compilation, verify_results, check_deploy_errors).
THEOREM DiscrepanciesCaused == Spec => []DiscrepancyCaused
<1>1. ASSUME IndInv, NEW row \in rows, NEW c, NEW d, c = row.compilers[1], d = row.compilers[2],
             started[c] = started[d],
             \A j \in 1 .. row.deployment, h \in Chain :
               Construct(code[c], h, j) = Construct(code[d], h, j),
             \A f \in CalledFor(row), k \in ParamsSet, w \in World :
               Invoke(code[c], f, w, k) = Invoke(code[d], f, w, k)
      PROVE  IF status = "failed" THEN row.results = NotReported ELSE Names(row) = {}
  <2>1. status \in {"failed", "handled"} /\ ReadyToHandle
    BY <1>1 DEF IndInv, VerdictInv
  <2>2. PICK p \in Adjacent, i \in Deployment : row.compilers = p /\ row.deployment = i
    <3>1. CASE status = "failed"
      BY <1>1, <2>1, <3>1, AlignedErrors DEF IndInv, VerdictInv, DeployRows, DeployRow
    <3>2. CASE status = "handled"
      <4>1. rows = CallRows /\ ~ HasDeployErrors
        BY <1>1, <3>2 DEF IndInv, VerdictInv
      <4>2. PICK f \in Func, i \in Deployment, k \in ParamsSet :
              row \in {CallRow(p, f, i, k) : p \in Neighbours(Column(f, i, k))}
        BY <1>1, <4>1 DEF CallRows
      <4>3. PICK p \in Adjacent : row = CallRow(p, f, i, k)
        BY <1>1, <2>1, <4>1, <4>2, AlignedResults
      <4> QED
        BY <4>3 DEF CallRow
    <3> QED
      BY <2>1, <3>1, <3>2
  <2>3. c \in Compiler /\ d \in Compiler /\ p[1] = c /\ p[2] = d
    BY <1>1, <2>2, SizeAssumption DEF Adjacent, Compiler
  <2>4. PICK hs : Ran(c, Deployment, hs, doc[c])
    BY <1>1, <2>1, <2>3 DEF ReadyToHandle, IndInv, DocInv
  <2>5. PICK gs : Ran(d, Deployment, gs, doc[d])
    BY <1>1, <2>1, <2>3 DEF ReadyToHandle, IndInv, DocInv
  <2>6. i > 1 => Alike(code[c], code[d], nfuncs)
    BY <1>1, <2>2 DEF CalledFor, Alike, Func
  <2>7. hs[i] = gs[i]
    <3>1. /\ TaskInv /\ started[c] = started[d]
          /\ \A j \in 1 .. i, h \in Chain : Construct(code[c], h, j) = Construct(code[d], h, j)
      BY <1>1, <2>2 DEF IndInv
    <3> QED
      BY <2>4, <2>5, <2>6, <3>1, SameChains
  <2> DEFINE h == hs[i]
  <2>8. h \in Chain /\ i \in 1 .. i
    <3>1. i \in Nat \ {0}
      BY <1>1, DeploymentsCount DEF IndInv
    <3> QED
      BY <2>4, <3>1 DEF Ran
  <2>9. /\ Truthful(c, i, h, doc[c][i], hs[i + 1]) /\ Truthful(d, i, h, doc[d][i], gs[i + 1])
        /\ Construct(code[c], h, i) = Construct(code[d], h, i)
    BY <1>1, <2>2, <2>4, <2>5, <2>7, <2>8 DEF Ran
  <2> HIDE DEF h
  <2>10. CASE status = "failed"
    <3>1. row \in DeployRows
      BY <1>1, <2>10 DEF IndInv, VerdictInv
    <3>2. PICK j \in Deployment : row \in {DeployRow(q, j) : q \in Neighbours(DeployErrors(j))}
      BY <3>1 DEF DeployRows
    <3>3. row = DeployRow(p, i)
      BY <2>2, <3>2 DEF DeployRow
    <3>4. DeployErrors(i)[c] = ErrorOf(c, i) /\ DeployErrors(i)[d] = ErrorOf(d, i)
      BY <1>1, <2>1, <2>3, AlignedErrors
    <3>5. ErrorOf(c, i) = ErrorOf(d, i)
      BY <1>1, <2>9, SameDeployment DEF IndInv, ErrorOf, Failed
    <3> QED
      BY <2>3, <2>10, <3>3, <3>4, <3>5 DEF DeployRow, Verify
  <2>11. CASE status = "handled"
    <3>1. rows = CallRows /\ ~ HasDeployErrors
      BY <1>1, <2>11 DEF IndInv, VerdictInv
    <3>2. PICK f \in Func, j \in Deployment, k \in ParamsSet :
            row \in {CallRow(q, f, j, k) : q \in Neighbours(Column(f, j, k))}
      BY <1>1, <3>1 DEF CallRows
    <3>3. row = CallRow(p, f, i, k)
      BY <2>2, <3>2 DEF CallRow
    <3>4. row.function = f /\ (Names(row) # {} <=> Differ(Call(c, i, f, k), Call(d, i, f, k)))
      BY <1>1, <2>1, <2>3, <3>1, <3>3, CallRowTells
    <3>5. Alike(code[c], code[d], f)
      <4>1. CASE i > 1
        <5>1. 1 .. f \subseteq 1 .. nfuncs
          BY <1>1, SizeAssumption DEF Func, IndInv, TaskInv
        <5> QED
          BY <2>6, <4>1, <5>1 DEF Alike
      <4>2. CASE ~ (i > 1)
        <5>1. CalledFor(row) = 1 .. f
          BY <2>2, <2>11, <3>4, <4>2 DEF CalledFor
        <5> QED
          BY <1>1, <5>1 DEF Alike
      <4> QED
        BY <4>1, <4>2
    <3>6. ~ Failed(c, i)
      BY <2>3, <3>1 DEF HasDeployErrors
    <3>7. Call(c, i, f, k) = Call(d, i, f, k)
      BY <1>1, <2>9, <3>5, <3>6, SameDeployment DEF IndInv, Failed, Call
    <3> QED
      BY <2>11, <3>4, <3>7 DEF Differ
  <2> QED
    BY <2>1, <2>10, <2>11
<1>2. IndInv => DiscrepancyCaused
  <2> SUFFICES ASSUME IndInv, NEW row \in rows,
                      started[row.compilers[1]] = started[row.compilers[2]],
                      \A j \in 1 .. row.deployment, h \in Chain :
                        code[row.compilers[1]].init[<<h, initValues[j]>>]
                          = code[row.compilers[2]].init[<<h, initValues[j]>>],
                      \A f \in CalledFor(row), k \in ParamsSet, w \in World :
                        Invoke(code[row.compilers[1]], f, w, k) = Invoke(code[row.compilers[2]], f, w, k)
               PROVE  IF status = "failed" THEN row.results = NotReported ELSE Names(row) = {}
    BY DEF DiscrepancyCaused
  <2> QED
    BY <1>1 DEF Construct
<1> QED
  BY <1>2, Invariance, PTL

=============================================================================
