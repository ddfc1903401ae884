----------------------------- MODULE CallGraph -----------------------------
(***************************************************************************)
(* FunctionConverter.setup_order: collect the calls between the functions  *)
(* of a contract, cut them until no function calls itself through others,  *)
(* and order the functions so that each comes after those it calls.        *)
(*                                                                         *)
(* The two depth-first searches are recursive in the code; here the stack  *)
(* of active calls is explicit and each action is one iteration of the     *)
(* loop of the topmost call.                                               *)
(***************************************************************************)
EXTENDS SequencesExt

CONSTANT N      \* number of functions, at most MAX_FUNCTIONS

ASSUME NAssumption == N \in Nat \ {0}

Func == 0 .. N - 1

VARIABLES
  phase,      \* "collect", "resolve", "order", "done" or "raised"
  external,   \* functions of visibility EXTERNAL
  func,       \* function the outermost loop of the phase has reached
  tree,       \* _call_tree
  sanitized,  \* _sanitized_tree
  stack,      \* active calls of _find_cyclic_calls or _find_next_id
  order       \* the order computed so far

vars == <<phase, external, func, tree, sanitized, stack, order>>

\* An active call: its function, the next position in its loop over the callees,
\* and the contents of its call_stack (unused while ordering).
Frame == [id : Func, pos : Nat \ {0}, path : SUBSET Func]

Top == stack[Len(stack)]
Advanced == [stack EXCEPT ![Len(stack)].pos = @ + 1]
Busy == stack # <<>> /\ Top.pos <= Len(tree[Top.id])
Finished == stack # <<>> /\ Top.pos > Len(tree[Top.id])
Callee == tree[Top.id][Top.pos]

Init ==
  /\ phase = "collect"
  /\ external \in SUBSET Func
  /\ func = 0
  /\ tree = [f \in Func |-> <<>>]
  /\ sanitized = [f \in Func |-> <<>>]
  /\ stack = <<>>
  /\ order = <<>>

-----------------------------------------------------------------------------
(* _find_func_call                                                         *)

\* Seeded fault: func_num is not taken modulo the number of functions.
FindFuncCallRaw(n) ==
  /\ phase = "collect"
  /\ n \notin Range(tree[func]) /\ n \notin external
  /\ tree' = [tree EXCEPT ![func] = Append(@, n)]
  /\ UNCHANGED <<phase, external, func, sanitized, stack, order>>

\* The body of func holds a call with number n.  A repeated call, or one of an
\* external function, changes nothing.
FindFuncCall(n) ==
  LET callee == n % N
  IN  /\ phase = "collect"
      /\ callee \notin Range(tree[func]) /\ callee \notin external
      /\ tree' = [tree EXCEPT ![func] = Append(@, callee)]
      /\ UNCHANGED <<phase, external, func, sanitized, stack, order>>

\* The body is exhausted; after the last one the tree is copied.
NextFunction ==
  /\ phase = "collect"
  /\ IF func + 1 < N
     THEN func' = func + 1 /\ UNCHANGED <<phase, sanitized>>
     ELSE func' = 0 /\ phase' = "resolve" /\ sanitized' = tree
  /\ UNCHANGED <<external, tree, stack, order>>

-----------------------------------------------------------------------------
(* _resolve_cyclic_dependencies                                            *)

StartResolve ==
  /\ phase = "resolve" /\ stack = <<>>
  /\ stack' = <<[id |-> func, pos |-> 1, path |-> {func}]>>
  /\ UNCHANGED <<phase, external, func, tree, sanitized, order>>

\* Seeded fault: the call is recognised but stays in the copy.
CutNothing ==
  /\ phase = "resolve" /\ Busy /\ Callee \in Top.path
  /\ Callee \in Range(sanitized[Top.id])
  /\ stack' = Advanced
  /\ UNCHANGED <<phase, external, func, tree, sanitized, order>>

\* The callee is on the call stack: list.remove drops it from the copy.
CutCall ==
  /\ phase = "resolve" /\ Busy /\ Callee \in Top.path
  /\ \E i \in DOMAIN sanitized[Top.id] :
       /\ sanitized[Top.id][i] = Callee
       /\ sanitized' = [sanitized EXCEPT ![Top.id] = RemoveAt(@, i)]
  /\ stack' = Advanced
  /\ UNCHANGED <<phase, external, func, tree, order>>

\* Seeded fault: caller and callee swapped in the lookup.
RaiseOnSwappedRemove ==
  /\ phase = "resolve" /\ Busy /\ Callee \in Top.path
  /\ Top.id \notin Range(sanitized[Callee])
  /\ phase' = "raised"
  /\ UNCHANGED <<external, func, tree, sanitized, stack, order>>

\* list.remove raises ValueError: an earlier visit has dropped the call already.
RaiseOnRemove ==
  /\ phase = "resolve" /\ Busy /\ Callee \in Top.path
  /\ Callee \notin Range(sanitized[Top.id])
  /\ phase' = "raised"
  /\ UNCHANGED <<external, func, tree, sanitized, stack, order>>

\* Seeded fault: the callee is not added to the call stack.
DescendUnmarked ==
  /\ phase = "resolve" /\ Busy /\ Callee \notin Top.path
  /\ stack' = Append(Advanced, [id |-> Callee, pos |-> 1, path |-> Top.path])
  /\ UNCHANGED <<phase, external, func, tree, sanitized, order>>

\* Otherwise the callee joins the call stack of this call, for good, and is
\* searched with a copy of it.
Descend ==
  /\ phase = "resolve" /\ Busy /\ Callee \notin Top.path
  /\ LET path == Top.path \cup {Callee}
     IN  stack' = Append([Advanced EXCEPT ![Len(stack)].path = path],
                         [id |-> Callee, pos |-> 1, path |-> path])
  /\ UNCHANGED <<phase, external, func, tree, sanitized, order>>

\* A call returns; when the outermost one does, the copy becomes the tree.
ReturnResolve ==
  /\ phase = "resolve" /\ Finished
  /\ stack' = Front(stack)
  /\ IF Len(stack) > 1
     THEN UNCHANGED <<phase, func, tree>>
     ELSE /\ tree' = sanitized
          /\ IF func + 1 < N
             THEN func' = func + 1 /\ UNCHANGED phase
             ELSE func' = 0 /\ phase' = "order"
  /\ UNCHANGED <<external, sanitized, order>>

-----------------------------------------------------------------------------
(* _define_order                                                           *)

StartOrder ==
  /\ phase = "order" /\ stack = <<>>
  /\ stack' = <<[id |-> func, pos |-> 1, path |-> {}]>>
  /\ UNCHANGED <<phase, external, func, tree, sanitized, order>>

\* Seeded fault: the loop over the callees does not advance.
VisitSameCallee ==
  /\ phase = "order" /\ Busy
  /\ stack' = Append(stack, [id |-> Callee, pos |-> 1, path |-> {}])
  /\ UNCHANGED <<phase, external, func, tree, sanitized, order>>

VisitCallee ==
  /\ phase = "order" /\ Busy
  /\ stack' = Append(Advanced, [id |-> Callee, pos |-> 1, path |-> {}])
  /\ UNCHANGED <<phase, external, func, tree, sanitized, order>>

\* Seeded fault: the function is put before those placed earlier.
ReturnOrderReversed ==
  /\ phase = "order" /\ Finished
  /\ order' = IF Top.id \in Range(order) THEN order ELSE <<Top.id>> \o order
  /\ stack' = Front(stack)
  /\ IF Len(stack) > 1
     THEN UNCHANGED <<phase, func>>
     ELSE IF func + 1 < N
          THEN func' = func + 1 /\ UNCHANGED phase
          ELSE phase' = "done" /\ UNCHANGED func
  /\ UNCHANGED <<external, tree, sanitized>>

\* A call returns after placing its function, unless an earlier one has.
ReturnOrder ==
  /\ phase = "order" /\ Finished
  /\ order' = IF Top.id \in Range(order) THEN order ELSE Append(order, Top.id)
  /\ stack' = Front(stack)
  /\ IF Len(stack) > 1
     THEN UNCHANGED <<phase, func>>
     ELSE IF func + 1 < N
          THEN func' = func + 1 /\ UNCHANGED phase
          ELSE phase' = "done" /\ UNCHANGED func
  /\ UNCHANGED <<external, tree, sanitized>>

-----------------------------------------------------------------------------
Resolve ==
  StartResolve \/ CutCall \/ RaiseOnRemove \/ Descend \/ ReturnResolve
Order == StartOrder \/ VisitCallee \/ ReturnOrder

\* func_num is an int32 that the fuzzing engine fills in: 2N values reach every
\* remainder twice.
Next ==
  \/ \E n \in 0 .. 2 * N - 1 : FindFuncCall(n)
  \/ NextFunction
  \/ Resolve
  \/ Order

Spec == Init /\ [][Next]_vars

\* setup_order runs to completion in one thread.
FairSpec == Spec /\ WF_vars(Next)

-----------------------------------------------------------------------------
(* Properties. *)

\* Every variable has its type; nothing but a search has active calls.
TypeOK ==
  /\ phase \in {"collect", "resolve", "order", "done", "raised"}
  /\ external \in SUBSET Func
  /\ func \in Func
  /\ tree \in [Func -> Seq(Func)]
  /\ sanitized \in [Func -> Seq(Func)]
  /\ stack \in Seq(Frame)
  /\ order \in Seq(Func)
  /\ phase \in {"collect", "done"} => stack = <<>>

\* C holds the callees, in call tree t, of f and of each of its own elements.
HoldsCallees(t, f, C) == \A x \in C \cup {f} : Range(t[x]) \subseteq C

\* f reaches g in call tree t by one or more calls: no set that holds the callees
\* leaves g out.
Reaches(t, f, g) == \A C \in SUBSET Func : HoldsCallees(t, f, C) => g \in C

\* When the functions are ordered and converted, none calls itself through others:
\* Vyper rejects such a contract and _find_next_id would never return.
NoCycles == phase \in {"order", "done"} => \A f \in Func : ~ Reaches(tree, f, f)

\* The order holds every function once, and each after the functions it calls, so
\* that the converter knows a callee's signature and mutability when it calls it.
CalleesFirst ==
  phase = "done" =>
    /\ IsInjective(order) /\ Range(order) = Func
    /\ \A i \in DOMAIN order : \A g \in Range(tree[order[i]]) :
         \E j \in 1 .. i - 1 : order[j] = g

\* The recursion of both searches is no deeper than there are functions.
DepthBounded == Len(stack) <= N

\* Two functions call a third.
SharedCallee ==
  \E g \in Func : \E e, f \in Func : e # f /\ g \in Range(tree[e]) \cap Range(tree[f])

\* list.remove raises only for a contract in which two functions call a third.
RaiseNeedsSharedCallee == phase = "raised" => SharedCallee

\* converters/README.md says that function_converter is there "to resolve all
\* circular calls": resolving them never fails.
ResolveNeverRaises == phase # "raised"

\* Liveness: setup_order returns, or raises; neither search runs forever.
Terminates == <>(phase \in {"done", "raised"})

-----------------------------------------------------------------------------
(* The inductive invariant behind the safety properties, in parts.         *)

\* Cutting only removes calls, and a call is listed once.
OnlyCuts ==
  /\ \A f \in Func : IsInjective(sanitized[f]) /\ IsInjective(tree[f])
  /\ phase = "resolve" => \A f \in Func : Range(sanitized[f]) \subseteq Range(tree[f])

\* The functions searched so far; those behind func when searching for cycles.
Searched == IF phase \in {"order", "done"} THEN Func
            ELSE IF phase = "resolve" THEN 0 .. func - 1 ELSE {}

\* None of them reaches itself: the witness holds its callees, and leaves it out.
SearchedAreClean ==
  \A f \in Searched : \E C \in SUBSET Func :
    f \notin C /\ HoldsCallees(tree, f, C)

\* The call of y by x is still to be examined by an active call.
Pending(x, y) ==
  \E k \in 1 .. Len(stack) :
    /\ stack[k].id = x
    /\ \E q \in stack[k].pos .. Len(tree[x]) : tree[x][q] = y

\* What the search from func has visited, V, is closed under the calls that remain,
\* but for those still to be examined; none of them leads back to func.
SearchIsClosed ==
  phase = "resolve" /\ stack # <<>> =>
    /\ \A k \in 1 .. Len(stack) : func \in stack[k].path
    /\ \E V \in SUBSET Func :
         /\ func \in V
         /\ \A k \in 1 .. Len(stack) : stack[k].id \in V
         /\ \A x \in V : \A y \in Range(sanitized[x]) :
              y \in V \ {func} \/ Pending(x, y)

\* Placed functions come after their callees, and an active call has placed the
\* callees it has passed, but for the one it is waiting for.
Placed(i) == \A g \in Range(tree[order[i]]) : \E j \in 1 .. i - 1 : order[j] = g
Passed(k, q) ==
  \/ tree[stack[k].id][q] \in Range(order)
  \/ k < Len(stack) /\ q = stack[k].pos - 1 /\ stack[k + 1].id = tree[stack[k].id][q]

OrderSoFar ==
  /\ phase \in {"collect", "resolve"} => order = <<>>
  /\ IsInjective(order)
  /\ phase \in {"order", "done"} => \A i \in DOMAIN order : Placed(i)
  /\ phase = "order" =>
       /\ \A f \in 0 .. func - 1 : f \in Range(order)
       /\ stack # <<>> => stack[1].id = func
       /\ \A k \in 1 .. Len(stack) : \A q \in 1 .. stack[k].pos - 1 :
            q <= Len(tree[stack[k].id]) /\ Passed(k, q)
  /\ phase = "done" => Range(order) = Func

\* No function has two active calls: a search for cycles has the functions of all of
\* them on the call stack of the topmost one, and in the order, which is computed when no
\* cycle is left, each of them reaches those above it.
ActiveCallsDistinct ==
  /\ \A j, k \in 1 .. Len(stack) : stack[j].id = stack[k].id => j = k
  /\ phase = "resolve" =>
       \A k \in 1 .. Len(stack) : \A j \in 1 .. k : stack[j].id \in stack[k].path
  /\ phase = "order" =>
       \A k \in 1 .. Len(stack) : \A j \in 1 .. k - 1 :
         Reaches(tree, stack[j].id, stack[k].id)

\* Unless two functions call a third, a search visits each function once, V: through a
\* call it has passed; and the calls missing from the copy are of functions visited and
\* have been passed too, so that none is removed again.
CutsArePassed ==
  /\ phase = "resolve" /\ stack = <<>> => sanitized = tree
  /\ phase = "resolve" /\ stack # <<>> /\ ~ SharedCallee =>
       \E V \in SUBSET Func :
         /\ func \in V
         /\ \A k \in 1 .. Len(stack) : stack[k].id \in V
         /\ \A y \in V \ {func} : \E x \in V : y \in Range(tree[x]) /\ ~ Pending(x, y)
         /\ \A x \in Func : \A y \in Range(tree[x]) \ Range(sanitized[x]) :
              x \in V /\ ~ Pending(x, y)
  /\ phase = "raised" => SharedCallee

IndInv ==
  /\ TypeOK /\ OnlyCuts /\ SearchedAreClean /\ SearchIsClosed /\ OrderSoFar
  /\ ActiveCallsDistinct /\ CutsArePassed

=============================================================================
