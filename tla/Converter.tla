----------------------------- MODULE Converter -----------------------------
(***************************************************************************)
(* TypedConverter.visit: from a protobuf message to the source of a        *)
(* contract.  The message is the fuzzing engine's: each step here is one   *)
(* declaration, parameter, statement or end of block it may contain.  What *)
(* is kept of the source is what decides whether Vyper accepts it: the     *)
(* variables in scope, the targets of assignments and the mutability that  *)
(* the converter infers for each function.                                 *)
(*                                                                         *)
(* Functions are numbered in the order they are converted (CallGraph shows *)
(* that each comes after those it calls).                                  *)
(***************************************************************************)
EXTENDS Naturals, Sequences, FiniteSets

CONSTANTS
  Type, NoElem, MaxLevel,          \* see VarTracker
  MaxId,                           \* bound: variables registered for one name of type
  IntType, BoolType,               \* uint256 and bool
  BytesType,                       \* Bytes[m], for the m > 0 of its domain
  DynArrays,                       \* the types that are dynamic arrays
  MaxVars,                         \* bound: variables in scope
  NFunc,                           \* functions of the contract
  OutputLists                      \* bound: the lists of outputs functions may have

ASSUME ConverterAssumption ==
  /\ \A t \in Type : DOMAIN t = {"name", "key", "width", "elem"} /\ t.width \in Nat
  /\ DynArrays \subseteq Type
  /\ {IntType, BoolType} \subseteq Type
  /\ \A m \in DOMAIN BytesType : BytesType[m] \in Type
  /\ NFunc \in Nat \ {0}
  /\ MaxLevel \in Nat \ {0}
  /\ {MaxId, MaxVars} \subseteq Nat
  /\ OutputLists \subseteq Seq(Type)

VARIABLES
  tracker,     \* _var_tracker
  unit,        \* part of the contract being converted
  stage,       \* of a function: "params", "body", "call" in its body, "out" of it
  level,       \* _block_level_count
  blocks,      \* kinds of the blocks opened in the body
  mutability,  \* _mutability_level
  pending,     \* outputs of a call that have no target yet
  taken,       \* targets of those that have
  finished,    \* mutability of the functions converted
  outputs,     \* their output_parameters
  effect,      \* what the body does so far
  short        \* in what a function converted was given too little mutability

vars == <<tracker, unit, stage, level, blocks, mutability, pending, taken,
          finished, outputs, effect, short>>

VT == INSTANCE VarTracker

PURE == 0
VIEW == 1
NON_PAYABLE == 2
PAYABLE == 3
Mutability == PURE .. PAYABLE
Higher(m, n) == IF m < n THEN n ELSE m

Func == 0 .. NFunc - 1
Unit == {"decls", "init", "func", "default", "done"}

\* The least mutability that what a body does calls for: its own statements and the
\* functions it calls ("by"), and the targets of the outputs of calls ("outs").
Part == {"by", "outs"}
Effects == [Part -> Mutability]
NoEffect == [part \in Part |-> PURE]

Init ==
  /\ tracker = VT!Blank
  /\ unit = "decls" /\ stage = "out"
  /\ level = 0 /\ blocks = <<>>
  /\ mutability = PURE
  /\ pending = <<>> /\ taken = {}
  /\ finished = <<>> /\ outputs = <<>>
  /\ effect = NoEffect /\ short = {}

\* Bounds on the names given out and on the variables in scope.
Room(t) == tracker.ids[t.name] < MaxId /\ Cardinality(tracker.vars) < MaxVars

-----------------------------------------------------------------------------
(* References to variables.                                                *)

Storage(ref) == ref.var.level = 0 /\ ref.var.key = VT!Key(TRUE)

\* What _visit_var_ref may choose from, for an assignment and for an expression.
Assignable(t) == VT!GetVars(tracker, t, level, TRUE, FALSE)
Readable(t) == Assignable(t) \cup VT!GetVars(tracker, t, level, FALSE, FALSE)

IsGlobal(ref, t) == ref \in VT!GetGlobalVars(tracker, t)

\* Seeded fault: every reference is taken for a read.
AfterRefReads(ref, t, assignment, m) ==
  IF IsGlobal(ref, t) THEN Higher(m, VIEW) ELSE m

\* The mutability level m, after ref was chosen for type t.
AfterRef(ref, t, assignment, m) ==
  IF IsGlobal(ref, t)
  THEN Higher(m, IF assignment THEN NON_PAYABLE ELSE VIEW)
  ELSE m

Reading(ref) == IF Storage(ref) THEN VIEW ELSE PURE
Writing(ref) == IF Storage(ref) THEN NON_PAYABLE ELSE PURE

-----------------------------------------------------------------------------
(* Expressions.  One comes to the tracker and the mutability level m after  *)
(* it, and to what it does.  (Expressions has the rest of it.)              *)

Value(m, does) == [tracker |-> tracker, level |-> m, does |-> does]

\* A variable or the item of a list.  (A literal is a value that does nothing.)
Reference(t, m) ==
  {Value(AfterRef(ref, t, FALSE, m), Reading(ref)) : ref \in Readable(t)}

\* _visit_conversion, and whatever else visits an expression of another type on the way
\* to the value: operands, items, arguments of hashes.
Nested(m) == UNION {Reference(u, m) : u \in Type}

\* create_minimal_proxy_to, create_copy_of, create_from_blueprint.
Create(m) == {Value(Higher(m, NON_PAYABLE), NON_PAYABLE)}

\* Seeded fault: raw_call is visited for a size of 0 as well, which marks a statement.
RawCallOfAnySize(size, m) ==
  {[Value(Higher(m, VIEW), VIEW) EXCEPT !.tracker =
      IF size = 0 /\ Room(BytesType[out])
      THEN VT!Created(tracker, BytesType[out], level, TRUE) ELSE tracker] :
     out \in DOMAIN BytesType}

\* raw_call, static or not, for a response of the given size.  Bytes of size 0, which
\* a part of a concatenation may have, are never the response of a raw_call.
RawCallExpr(size, m) ==
  IF size > 0 THEN {Value(Higher(m, d), d) : d \in {VIEW, NON_PAYABLE}} ELSE {}

\* The values a statement visits that are not stored anywhere.  Of several of them the one
\* that raises the mutability most stands for all.
Arguments(m) ==
  {Value(m, PURE)} \cup Nested(m) \cup Create(m)
    \cup UNION {RawCallExpr(size, m) : size \in 0 .. 1}

Expression(t, m) == Reference(t, m) \cup Arguments(m)

\* The body evaluates e.
Evaluated(e) ==
  /\ mutability' = e.level
  /\ effect' = [effect EXCEPT !.by = Higher(@, e.does)]

-----------------------------------------------------------------------------
(* Units: the global declarations, the constructor, the functions and      *)
(* __default__, in this order.                                             *)

GlobalDecl == unit = "decls"

\* __var_decl_global: a storage variable.
DeclareStorage(t) ==
  /\ GlobalDecl /\ Room(t)
  /\ tracker' = VT!Created(tracker, t, 0, TRUE)
  /\ UNCHANGED <<unit, stage, level, blocks, mutability, pending, taken,
                 finished, outputs, effect, short>>

\* The same for a constant or an immutable, whose value is visited first.  (The
\* mutability level it leaves behind is reset by the next unit.)
DeclareConstant(t) ==
  /\ GlobalDecl /\ Room(t)
  /\ \E e \in Expression(t, mutability) :
       tracker' = VT!Created(e.tracker, t, 0, FALSE)
  /\ UNCHANGED <<unit, stage, level, blocks, mutability, pending, taken, finished,
                 outputs, effect, short>>

\* What may follow; the function to be converted is number Len(finished).
Following ==
  CASE unit = "decls" -> {"init", "func"}
    [] unit = "init" -> {"func"}
    [] unit = "func" -> IF Len(finished) < NFunc THEN {"func"} ELSE {"default", "done"}
    [] unit = "default" -> {"done"}
    [] unit = "done" -> {}

StartUnit(u) ==
  /\ stage = "out" /\ u \in Following
  /\ unit' = u
  /\ stage' = IF u = "done" THEN "out" ELSE "params"
  /\ UNCHANGED <<tracker, level, blocks, mutability, pending, taken, finished,
                 outputs, effect, short>>

\* visit_input_parameters; __default__ has none.
DeclareParameter(t) ==
  /\ stage = "params" /\ unit # "default" /\ Room(t)
  /\ tracker' = VT!Created(tracker, t, 1, FALSE)
  /\ UNCHANGED <<unit, stage, level, blocks, mutability, pending, taken,
                 finished, outputs, effect, short>>

OpenBody ==
  /\ stage = "params"
  /\ stage' = "body" /\ level' = 1 /\ mutability' = PURE
  /\ effect' = NoEffect
  /\ UNCHANGED <<tracker, unit, blocks, pending, taken, finished, outputs,
                 short>>

InBody == stage = "body"

\* Seeded fault: _block_level_count stays at 1.
CloseBodyInside ==
  /\ InBody /\ blocks = <<>>
  /\ stage' = "out"
  /\ tracker' = VT!RemovedLevel(VT!RemovedLevel(tracker, 1, TRUE), 1, FALSE)
  /\ UNCHANGED <<unit, level, blocks, mutability, pending, taken, finished,
                 outputs, effect, short>>

\* The end of visit_init, visit_func and visit_default_func.  The constructor has no
\* mutability; the others have the declared one or the inferred one if that is higher.
\* (What is left in _mutability_level is reset before it is read again.)
CloseBody ==
  /\ InBody /\ blocks = <<>>
  /\ stage' = "out" /\ level' = 0
  /\ tracker' = VT!RemovedLevel(VT!RemovedLevel(tracker, 1, TRUE), 1, FALSE)
  /\ mutability' = PURE /\ effect' = NoEffect
  /\ IF unit # "init"
     THEN \E mut \in Mutability, outs \in OutputLists :
            LET given == Higher(mutability, mut)
            IN  /\ finished' = Append(finished, given)
                /\ outputs' = Append(outputs, outs)
                /\ short' = short \cup {part \in Part : effect[part] > given}
     ELSE UNCHANGED <<finished, outputs, short>>
  /\ UNCHANGED <<unit, blocks, pending, taken>>

-----------------------------------------------------------------------------
(* Blocks.                                                                 *)

\* _visit_for_stmt: the bounds are numbers or refer to a variable; the loop variable
\* belongs to the level of the body.
OpenFor ==
  /\ InBody /\ level < MaxLevel /\ Room(IntType)
  /\ \E e \in Reference(IntType, mutability) \cup {Value(mutability, PURE)} :
       Evaluated(e)
  /\ tracker' = VT!Created(tracker, IntType, level + 1, FALSE)
  /\ level' = level + 1
  /\ blocks' = Append(blocks, "for")
  /\ UNCHANGED <<unit, stage, pending, taken, finished, outputs, short>>

\* The condition and the body of an if or elif, or the body of an else.
OpenIf ==
  /\ InBody /\ level < MaxLevel
  /\ \E e \in Arguments(mutability) : Evaluated(e)
  /\ level' = level + 1
  /\ blocks' = Append(blocks, "if")
  /\ UNCHANGED <<tracker, unit, stage, pending, taken, finished, outputs,
                 short>>

\* Seeded fault: a for leaves its read-only variables, as an if does.
CloseBlockMutable ==
  /\ InBody /\ blocks # <<>>
  /\ tracker' = VT!RemovedLevel(tracker, level, TRUE)
  /\ level' = level - 1
  /\ blocks' = SubSeq(blocks, 1, Len(blocks) - 1)
  /\ UNCHANGED <<unit, stage, mutability, pending, taken, finished, outputs,
                 effect, short>>

\* An if removes only the mutable variables of its level.
CloseBlock ==
  LET tr == VT!RemovedLevel(tracker, level, TRUE)
  IN  /\ InBody /\ blocks # <<>>
      /\ tracker' = IF blocks[Len(blocks)] = "for"
                    THEN VT!RemovedLevel(tr, level, FALSE) ELSE tr
      /\ level' = level - 1
      /\ blocks' = SubSeq(blocks, 1, Len(blocks) - 1)
      /\ UNCHANGED <<unit, stage, mutability, pending, taken, finished,
                     outputs, effect, short>>

-----------------------------------------------------------------------------
(* Statements.                                                             *)

\* assert, raise, raw_revert, return: expressions and nothing else.
Evaluate ==
  /\ InBody
  /\ \E e \in Arguments(mutability) : Evaluated(e)
  /\ UNCHANGED <<tracker, unit, stage, level, blocks, pending, taken, finished,
                 outputs, short>>

\* send, raw_log, selfdestruct.  No argument of theirs can raise the level further.
ChangeState ==
  /\ InBody
  /\ Evaluated(Value(Higher(mutability, NON_PAYABLE), NON_PAYABLE))
  /\ UNCHANGED <<tracker, unit, stage, level, blocks, pending, taken, finished,
                 outputs, short>>

\* __var_decl: the number in the name is drawn before the value is visited.
VarDecl(t) ==
  /\ InBody /\ Room(t)
  /\ \E e \in Expression(t, mutability) :
       /\ Evaluated(e)
       /\ tracker' = VT!Registered(e.tracker, t, VT!NextId(tracker, t), level, TRUE)
  /\ UNCHANGED <<unit, stage, level, blocks, pending, taken, finished, outputs,
                 short>>

\* _visit_assignment: to a variable that could be read where type t is expected; to
\* a new one (VarDecl) when there is none.
Assign(t) ==
  \/ /\ InBody
     /\ \E ref \in Assignable(t) :
        \E e \in Expression(t, AfterRef(ref, t, TRUE, mutability)) :
          /\ mutability' = e.level
          /\ effect' = [effect EXCEPT !.by = Higher(Higher(@, e.does), Writing(ref))]
     /\ UNCHANGED <<tracker, unit, stage, level, blocks, pending, taken,
                    finished, outputs, short>>
  \/ Assignable(t) = {} /\ VarDecl(t)

\* append or pop, on any dynamic array; append visits a value.
ChangeArray(t) ==
  /\ InBody /\ t \in DynArrays
  /\ \E ref \in Assignable(t) :
     \E e \in Arguments(AfterRef(ref, t, TRUE, mutability)) :
       /\ mutability' = e.level
       /\ effect' = [effect EXCEPT !.by = Higher(Higher(@, e.does), Writing(ref))]
  /\ UNCHANGED <<tracker, unit, stage, level, blocks, pending, taken, finished,
                 outputs, short>>

\* A target of the results of a raw_call statement: [tracker, level, does].
Target(tr, t, m) ==
  IF Assignable(t) # {}
  THEN {[tracker |-> tr, level |-> AfterRef(ref, t, TRUE, m), does |-> Writing(ref)] :
          ref \in Assignable(t)}
  ELSE IF Room(t)
  THEN {[tracker |-> VT!Created(tr, t, level, TRUE), level |-> m, does |-> PURE]}
  ELSE {}

Untargeted(tr, m) == {[tracker |-> tr, level |-> m, does |-> PURE]}

\* _visit_raw_call as a statement: max_outsize asks for a response, revert = False
\* for the success; the call itself, static or not, counts too.  (Levels only rise, so it
\* does not matter that gas and value are visited after the response has its target.)
RawCalls(m) ==
  {[level |-> Higher(e.level, call), does |-> Higher(e.does, call)] :
     e \in Arguments(m), call \in {VIEW, NON_PAYABLE}}

RawCall(out, revert) ==
  /\ InBody
  /\ \E c \in RawCalls(mutability) :
     \E r \in IF out = 0 THEN Untargeted(tracker, c.level)
              ELSE Target(tracker, BytesType[out], c.level) :
     \E s \in IF revert THEN Untargeted(r.tracker, r.level)
              ELSE Target(r.tracker, BoolType, r.level) :
       /\ tracker' = s.tracker
       /\ mutability' = s.level
       /\ effect' = [effect EXCEPT !.by =
            Higher(Higher(@, c.does), Higher(r.does, s.does))]
  /\ UNCHANGED <<unit, stage, level, blocks, pending, taken, finished, outputs,
                 short>>

\* Functions that the unit may call.  (__default__ uses the calls of the function that
\* was converted last.)
Callees ==
  CASE unit = "func" -> {f \in Func : f < Len(finished)}
    [] unit = "default" -> {f \in Func : f < NFunc - 1}
    [] OTHER -> {}

\* Seeded fault: the mutability of the callee is not taken over.
CallUnraised(f) ==
  /\ InBody /\ f \in Callees
  /\ stage' = "call"
  /\ pending' = outputs[f + 1] /\ taken' = {}
  /\ effect' = [effect EXCEPT !.by = Higher(@, finished[f + 1])]
  /\ UNCHANGED <<tracker, unit, level, blocks, mutability, finished,
                 outputs, short>>

\* _visit_func_call: the mutability of the callee is final, it was converted before.
Call(f) ==
  /\ InBody /\ f \in Callees
  /\ mutability' = Higher(mutability, finished[f + 1])
  /\ stage' = "call"
  /\ pending' = outputs[f + 1] /\ taken' = {}
  /\ effect' = [effect EXCEPT !.by = Higher(@, finished[f + 1])]
  /\ UNCHANGED <<tracker, unit, level, blocks, finished, outputs,
                 short>>

\* Its loop over the outputs: a variable wide enough, or a new one when there is none
\* or the one that was drawn is taken.
BindOutput ==
  /\ stage = "call" /\ pending # <<>>
  /\ LET t == Head(pending)
         allowed == VT!GetVars(tracker, t, level, TRUE, TRUE)
     IN  \/ \E ref \in allowed \ taken :
              /\ mutability' = IF IsGlobal(ref, t) THEN Higher(mutability, NON_PAYABLE)
                               ELSE mutability
              /\ effect' = [effect EXCEPT !.outs = Higher(@, Writing(ref))]
              /\ taken' = taken \cup {ref}
              /\ UNCHANGED tracker
         \/ /\ allowed = {} \/ allowed \cap taken # {}
            /\ Room(t)
            /\ tracker' = VT!Created(tracker, t, level, TRUE)
            /\ taken' = taken \cup
                 [var : tracker'.vars \ tracker.vars, item : {FALSE}]
            /\ UNCHANGED <<mutability, effect>>
  /\ pending' = Tail(pending)
  /\ UNCHANGED <<unit, stage, level, blocks, finished, outputs, short>>

\* Its arguments are visited after that.
PassArguments ==
  /\ stage = "call" /\ pending = <<>>
  /\ stage' = "body" /\ taken' = {}
  /\ \E e \in Arguments(mutability) : Evaluated(e)
  /\ UNCHANGED <<tracker, unit, level, blocks, pending, finished, outputs, short>>

-----------------------------------------------------------------------------
Next ==
  \/ \E t \in Type : DeclareStorage(t) \/ DeclareConstant(t) \/ DeclareParameter(t)
  \/ \E u \in Unit : StartUnit(u)
  \/ OpenBody \/ CloseBody \/ OpenFor \/ OpenIf \/ CloseBlock
  \/ \E t \in Type : VarDecl(t) \/ Assign(t) \/ ChangeArray(t)
  \/ Evaluate \/ ChangeState
  \/ \E out \in {0} \cup DOMAIN BytesType, revert \in BOOLEAN : RawCall(out, revert)
  \/ \E f \in Func : Call(f)
  \/ BindOutput \/ PassArguments

Spec == Init /\ [][Next]_vars

-----------------------------------------------------------------------------
(* Properties. *)

\* Every variable has its type, and the level is that of the innermost block.
TypeOK ==
  /\ tracker.vars \subseteq VT!Variable
  /\ unit \in Unit
  /\ stage \in {"out", "params", "body", "call"}
  /\ level = IF stage \in {"body", "call"} THEN Len(blocks) + 1 ELSE 0
  /\ blocks \in Seq({"for", "if"})
  /\ mutability \in Mutability
  /\ pending \in Seq(Type)
  /\ taken \subseteq [var : VT!Variable, item : BOOLEAN]
  /\ finished \in Seq(Mutability)
  /\ outputs \in Seq(Seq(Type))
  /\ effect \in Effects
  /\ short \subseteq Part

\* No two variables of the contract that are in scope together have the same name (that
\* of their type and a number), whichever levels were removed in between.
NamesUnique ==
  \A v, w \in tracker.vars : v.type.name = w.type.name /\ v.id = w.id => v = w

\* A variable that can still be referred to was declared in a block that is open: the
\* end of each kind of block removes all that was declared in it.
LocalsInScope ==
  \A v \in tracker.vars : v.level <= IF stage = "params" THEN 1 ELSE level

\* A function is never given a mutability below what its body needs, through calls as
\* well, but for the targets of calls.
EffectsDeclared == "by" \notin short

\* converters/README.md:4 promises "that the generated code is valid": nor below what
\* storing the outputs of calls needs.
OutputsDeclared == "outs" \notin short

=============================================================================
