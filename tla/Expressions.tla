---------------------------- MODULE Expressions ----------------------------
(***************************************************************************)
(* The expressions of TypedConverter: one visitor per class of types, each *)
(* of which reads the type it has to produce from the top of type_stack.   *)
(* The fuzzing engine chooses the message, that is what is visited.        *)
(*                                                                         *)
(* A visitor is a frame with the steps it has left: types pushed and       *)
(* popped, operators pushed and popped, literals and variables read,       *)
(* expressions visited.  A statement is the lowest frame.                  *)
(***************************************************************************)
EXTENDS Literals, SequencesExt

CONSTANTS
  TextSize,        \* 100, the size of reasons, hashed values and call data
  DecimalBytes,    \* 21, the bytes of a decimal
  AddressBytes,    \* 20, the bytes of an address
  IntOps,          \* operators of INT_BIN_OP_MAP
  DecimalOps,      \* operators of DECIMAL_BIN_OP_MAP
  Raw,             \* bound: numbers in messages
  Declared,        \* bound: types of variables, parameters, results and items
  MaxTopics,       \* bound: topics of a raw_log (4)
  MaxDepth,        \* bound: frames and types left on the stack
  DeepOps,         \* bound: operators that may be nested once more,
  DeepType,        \* of this type
  NoValue

VARIABLES
  type_stack,
  op_stack,
  is_constant,     \* _is_constant
  frames,          \* the visitors that are running, a statement first
  last,            \* the value that was returned by the last step, if any
  raised           \* has an exception ended the conversion?

vars == <<type_stack, op_stack, is_constant, frames, last, raised>>

-----------------------------------------------------------------------------
(* Types.                                                                  *)

IntN(n, signed) == [class |-> "INT", size |-> n, signed |-> signed]
Uint256 == IntN(Word, FALSE)
Sized(class, m) == [class |-> class, size |-> m]
Plain(class) == Sized(class, 0)
BytesM(m) == Sized("BYTESM", m)
Bytes(m) == Sized("BYTES", m)
String(m) == Sized("STRING", m)
List(size, base, dynamic) ==
  [class |-> "LIST", size |-> size, base |-> base, dynamic |-> dynamic]

\* The types there are handlers for: integers, types that are told apart by their class and
\* size (0 if there is none), lists of these, and dynamic arrays of fixed lists.  (There are
\* none for fixed lists of byte arrays or strings, which nothing below depends on.)
IntTypes == [class : {"INT"}, size : 1 .. Word, signed : BOOLEAN]
SizedTypes ==
  [class : {"DECIMAL", "BOOL", "ADDRESS", "BYTESM", "BYTES", "STRING"}, size : Nat]
Scalars == IntTypes \cup SizedTypes
FixedLists ==
  [class : {"LIST"}, size : Nat \ {0}, base : Scalars, dynamic : {FALSE}]
DynArrays ==
  [class : {"LIST"}, size : Nat \ {0}, base : Scalars \cup FixedLists, dynamic : {TRUE}]
Handled == Scalars \cup FixedLists \cup DynArrays

\* The operators of INT_BIN_OP_MAP and DECIMAL_BIN_OP_MAP, and those of NaginiConverter.
ASSUME OperatorsAssumption ==
  IntOps \cup DecimalOps \subseteq
    {"+", "-", "*", "/", "//", "%", "**", "&", "|", "^", "<<", ">>"}

ASSUME DeclaredAssumption == Declared \subseteq Handled
ASSUME MessageAssumption ==
  /\ Raw \subseteq Nat
  /\ TextSize \in Nat /\ DecimalBytes \in Nat /\ AddressBytes \in Nat
  /\ MaxTopics \in Nat /\ MaxDepth \in Nat

\* DynArray(MAX_LIST_SIZE, None), which stands for all dynamic arrays.
AnyArray == List(MaxList, NoValue, TRUE)

\* What extract_type gives for the type of a convert.
InputInts == {IntN(IntSize(n), signed) : n \in Raw, signed \in BOOLEAN}
InputBytesMs == {BytesM(BytesMSize(m)) : m \in Raw}

Top == Last(type_stack)

-----------------------------------------------------------------------------
(* Values: a text (see Literals), the number inside it if it is a convert, *)
(* its size where the type has one, and whether it reads and changes       *)
(* nothing but constants.                                                  *)

Value(text, size, fixed) ==
  [text |-> text, inside |-> Unknown, size |-> size, fixed |-> fixed]
Call(size) == Value(Named, size, TRUE)

\* create_literal.
LiteralValues(t) ==
  CASE t.class = "INT" ->
         {Value(IntText(Reduced(t.size, t.signed, n)), 0, TRUE) : n \in Raw}
    [] t.class = "DECIMAL" -> {Value(Atom(Float(n, 1), FALSE), 0, TRUE) : n \in Raw}
    [] t.class \in {"BYTES", "STRING"} -> {Call(CutTo(t.size, n)) : n \in Raw}
    [] t.class = "BYTESM" -> {Call(FillTo(t.size, n)) : n \in Raw}
    [] t.class \in {"BOOL", "ADDRESS"} -> {Call(0)}
    [] OTHER -> {}

\* _visit_var_ref: any variable the tracker may offer (VarTracker), in a constant only
\* another constant.
ReferenceValues(t) ==
  {Value(Named, size, fixed) :
     size \in IF t.class \in {"BYTES", "STRING"} THEN 1 .. t.size ELSE {t.size},
     fixed \in IF is_constant THEN {TRUE} ELSE BOOLEAN}

-----------------------------------------------------------------------------
(* Steps and scripts.                                                      *)

Push(t) == [do |-> "push", type |-> t]
Visit(class) == [do |-> "visit", class |-> class]
Read(class) == [do |-> "read", class |-> class]
Do(what) == [do |-> what]
Pop == Do("pop")

\* An expression of type t, visited for its caller.
In(t) == <<Push(t), Visit(t.class), Pop>>

\* n expressions of the type on top.
Visits(class, n) == [i \in 1 .. n |-> Visit(class)]

\* An optional part of a message: there or not.
Optional(steps) == {<<>>, steps}
Then(S, T) == {s \o t : s \in S, t \in T}

\* Seeded fault: op_stack is not popped.
OperatorLeft(classes) ==
  <<Do("operator")>> \o [i \in DOMAIN classes |-> Visit(classes[i])]

Operator(classes) == <<Do("operator")>> \o [i \in DOMAIN classes |-> Visit(classes[i])]
                       \o <<Do("operated")>>

\* _visit_raw_call: in an expression, for a response of size bytes or the success; as a
\* statement, with targets for both if asked for.
RawCallArguments == In(Plain("ADDRESS")) \o In(Bytes(TextSize))
RawCallGas == {<<>>, <<Visit("INT")>>, <<Visit("INT"), Visit("INT")>>}
RawCallFlags == <<Pop, Push(Plain("BOOL")), Read("BOOL")>>
RawCallScripts(responses, successes) ==
  {RawCallArguments \o <<Push(Uint256), Read("INT")>> \o response \o gas
     \o RawCallFlags \o success \o <<Pop>> :
     response \in responses, gas \in RawCallGas, success \in successes}

RawCallExpressions == RawCallScripts({<<>>}, {<<>>})
RawCallStatements ==
  RawCallScripts({<<>>} \cup {<<Push(Bytes(CutTo(TextSize, out))), Read("BYTES"), Pop>> :
                                out \in Raw \ {0}},
                 Optional(<<Read("BOOL")>>))

\* visit_create_min_proxy_or_copy_of, visit_create_from_blueprint.
CreateEnd == Then(Optional(In(Uint256)), Optional(In(BytesM(WordBytes))))
CreateCopy == Then({<<Visit("ADDRESS")>>}, CreateEnd)
RawArgs == {<<Push(Plain("BOOL")), Read("BOOL"), Pop>> \o arg :
              arg \in Optional(In(Bytes(TextSize)))}
CreateFromBlueprint ==
  Then({<<Visit("ADDRESS")>>},
       Then({<<>>} \cup RawArgs, Then(Optional(In(Uint256)), CreateEnd)))

\* Seeded fault: the type of v stays on the stack.
EcRecoverUnpopped ==
  {<<Push(BytesM(WordBytes)), Visit("BYTESM")>> \o v8 \o <<Pop, Push(Uint256), Visit("INT"), Visit("INT"), Pop>> :
     v8 \in Optional(<<Push(IntN(ByteBits, FALSE)), Visit("INT")>>)}

\* visit_ecrecover: v of one of two types, r and s as bytes or as numbers after that.
EcRecover ==
  {<<Push(BytesM(WordBytes)), Visit("BYTESM")>> \o v8
     \o Visits("BYTESM", bytes) \o <<Pop, Push(Uint256)>>
     \o Visits("INT", IF v8 = <<>> THEN 3 - bytes ELSE 2 - bytes) \o <<Pop>> : v8 \in Optional(In(IntN(ByteBits, FALSE))), bytes \in 0 .. 2}

\* _visit_hash256.
Hash == {In(String(TextSize)), In(Bytes(TextSize)), In(BytesM(WordBytes))}

\* The type of a part of a concatenation, given its size: for bytes it may be bytesM, unless
\* empty.
Parts(class, size) ==
  {Sized(class, size)} \cup
  IF class = "BYTES" /\ size # 0 THEN {BytesM(CutTo(WordBytes, size))} ELSE {}

\* _visit_concat: two parts, scaled to fit, and those of the others that still fit.
\* (Bound: one other.)
TwoParts(class, max) ==
  UNION {Parts(class, Scaled(a, b, max)[1]) \X Parts(class, Scaled(a, b, max)[2]) : a, b \in Raw}
Others(class, room) == UNION {Parts(class, c) : c \in {c \in Raw : c <= room}}
Concat(class, max) ==
  UNION {{In(p[1]) \o In(p[2])} \cup
         {In(p[1]) \o In(p[2]) \o In(c) : c \in Others(class, max - (p[1].size + p[2].size))} :
           p \in TwoParts(class, max)}

-----------------------------------------------------------------------------
(* Conversions (_visit_conversion): the types that t may be converted from. *)

ConvertInt(t) ==
  {i \in InputInts : \/ t.class = "INT" /\ i # t
                     \/ t.class = "ADDRESS" /\ ~ i.signed
                     \/ t.class = "BYTESM" /\ t.size * ByteBits >= i.size
                     \/ t.class \in {"BOOL", "DECIMAL"}}

ConvertDecimal(t) ==
  {d \in {Plain("DECIMAL")} : \/ t.class \in {"INT", "BOOL"}
                              \/ t.class = "BYTESM" /\ t.size >= DecimalBytes}

ConvertBool(t) == {b \in {Plain("BOOL")} : t.class \in {"INT", "DECIMAL", "BYTESM"}}

ConvertAddress(t) ==
  {a \in {Plain("ADDRESS")} : \/ t.class = "INT" /\ ~ t.signed
                              \/ t.class = "BYTESM" /\ t.size >= AddressBytes
                              \/ t.class = "BOOL"}

ConvertBytesM(t) ==
  {m \in InputBytesMs : t.class \in {"INT", "BOOL", "ADDRESS", "DECIMAL", "BYTESM"}}

ConvertBytes(t) ==
  CASE t.class \in {"INT", "BOOL", "ADDRESS", "DECIMAL"} -> {Bytes(WordBytes)}
    [] t.class \in {"BYTESM", "STRING"} -> {Bytes(CutTo(WordBytes, t.size))}
    [] OTHER -> {}

ConvertString(t) ==
  CASE t.class = "BOOL" -> {String(WordBytes)}
    [] t.class = "BYTES" -> {String(t.size)}
    [] OTHER -> {}

Inputs(t) == ConvertInt(t) \cup ConvertDecimal(t) \cup ConvertBool(t) \cup ConvertAddress(t)
               \cup ConvertBytesM(t) \cup ConvertBytes(t) \cup ConvertString(t)

-----------------------------------------------------------------------------
(* Productions: what the visitor of a type may find in its message.        *)

Production(prod, op, scripts) == {[prod |-> prod, op |-> op, todo |-> s] : s \in scripts}

NumberProductions(class, ops) ==
  {[prod |-> "binOp", op |-> op, todo |-> Operator(<<class, class>>)] : op \in ops}
    \cup Production("unOp", "-", {Operator(<<class>>)})

Comparison(class, t) == <<Push(t)>> \o Operator(<<class, class>>) \o <<Pop>>

BoolProductions ==
  Production("boolOp", "", {Operator(<<"BOOL", "BOOL">>), Operator(<<"BOOL">>),
                            Comparison("INT", Uint256),
                            Comparison("DECIMAL", Plain("DECIMAL"))})
    \cup IF is_constant THEN {} ELSE Production("raw_call", "", RawCallExpressions)

\* Seeded fault: contracts are created in constants too.
AddressProductionsAnywhere ==
  Production("ecRec", "", EcRecover)
    \cup Production("create", "", CreateCopy \cup CreateFromBlueprint)

AddressProductions ==
  Production("ecRec", "", EcRecover)
    \cup IF is_constant THEN {} ELSE Production("create", "", CreateCopy \cup CreateFromBlueprint)

BytesProductions(t) ==
  Production("concat", "", Concat("BYTES", t.size))
    \cup IF is_constant \/ t.size = 0 THEN {} ELSE Production("raw_call", "", RawCallExpressions)

\* Is the list checked for ecadd and ecmul?
Curve(t) == t.base.class = "INT" /\ t.base.size = Word /\ t.size = 2

Point == List(2, Uint256, FALSE)
ListProductions(t) ==
  Production("list", "", {<<Push(t.base)>> \o Visits(t.base.class, items) \o <<Pop>> :
                            items \in 1 .. CutTo(MaxList, t.size)})
    \cup IF Curve(t)
         THEN Production("curve", "", {<<Push(Point), Visit("LIST"), Visit("LIST"), Pop>>,
                                       In(Point) \o In(Uint256)})
         ELSE {}

Productions(t) ==
  Production("convert", "", {In(i) : i \in Inputs(t)}) \cup
  CASE t.class = "INT" -> NumberProductions("INT", IntOps)
    [] t.class = "DECIMAL" -> NumberProductions("DECIMAL", DecimalOps)
    [] t.class = "BOOL" -> BoolProductions
    [] t.class = "ADDRESS" -> AddressProductions
    [] t.class = "BYTESM" -> Production("hash", "", Hash)
    [] t.class = "BYTES" -> BytesProductions(t)
    [] t.class = "STRING" -> Production("concat", "", Concat("STRING", t.size))
    [] t.class = "LIST" -> ListProductions(t)

\* DynArray messages have no field ecadd, and HasField raises for them.
ListRaises(t) == t.class = "LIST" /\ t.dynamic /\ Curve(t)

-----------------------------------------------------------------------------
(* Statements.                                                             *)

\* __var_decl; the same for an argument, a returned value, and an assignment that has
\* found its target.
Declarations == {In(t) : t \in Declared}

\* A constant (__var_decl_global); an immutable is as above.
Constants == {<<Push(t), Do("constant"), Visit(t.class), Do("variable"), Pop>> : t \in Declared}

\* _visit_assignment that has found no target: the type it has pushed stays.
Assignments == {<<Push(t), Read(t.class)>> \o In(t) : t \in Declared}

\* _visit_append_stmt; _visit_pop_stmt, which leaves its type on the stack if there is no
\* array.
FindArray == <<Push(AnyArray), Read("LIST")>>
Appends == {FindArray \o <<Pop>>} \cup
           {FindArray \o <<Pop>> \o In(t.base) : t \in {t \in Declared : t.class = "LIST"}}
Pops == {FindArray, FindArray \o <<Pop>>}

\* The bounds of a for, the condition of an if, an assert, a raise, a raw_revert, a
\* selfdestruct.
Simple == {<<Push(Uint256), Read("INT"), Pop>>, In(Plain("BOOL")),
           In(Plain("BOOL")) \o In(String(TextSize)), In(String(TextSize)),
           In(Bytes(TextSize)), In(Plain("ADDRESS"))}

Sends == {In(Plain("ADDRESS")) \o <<Push(Uint256), Visit("INT")>> \o gas \o <<Pop>> :
            gas \in Optional(<<Visit("INT")>>)}

RawLogs == {In(List(topics, BytesM(WordBytes), FALSE)) \o In(data) :
              topics \in 1 .. MaxTopics, data \in {Bytes(TextSize), BytesM(WordBytes)}}

Statements == Declarations \cup Constants \cup Assignments \cup Appends \cup Pops \cup Simple
                \cup Sends \cup RawLogs \cup RawCallStatements

-----------------------------------------------------------------------------
(* Visitors.                                                               *)

Frame(p) == [prod |-> p.prod, op |-> p.op, todo |-> p.todo, args |-> <<>>,
             type |-> IF type_stack = <<>> THEN NoValue ELSE Top, mark |-> Len(type_stack)]

Init ==
  /\ type_stack = <<>> /\ op_stack = 0
  /\ is_constant = FALSE
  /\ frames = <<>>
  /\ last = NoValue
  /\ raised = FALSE

Running == frames # <<>> /\ ~ raised
Current == Last(frames)
Next1(f) == Head(f.todo)
Advanced(f) == [f EXCEPT !.todo = Tail(@)]

\* What is kept of a value until the visitor that asked for it returns.
Kept(f, v) ==
  CASE f.prod \in {"binOp", "unOp", "boolOp", "convert"} -> Value(v.text, 0, TRUE)
    [] f.prod = "concat" -> Call(v.size)
    [] OTHER -> Call(0)

\* The value v of type t is returned to the last of fs.
Given(fs, t, v) ==
  LET f == Last(fs)
  IN  /\ frames' = Append(Front(fs), [Advanced(f) EXCEPT !.args = Append(@, Kept(f, v))])
      /\ last' = [type |-> t, value |-> v]

\* Seeded fault: the operation itself is not counted.
NestedInTwo(text) == IF op_stack > 1 THEN Parenthesised(text) ELSE text

\* Parentheses inside of another operation.
Nested(text) == IF op_stack > 0 THEN Parenthesised(text) ELSE text

IntBinOp(t, l, op, r) ==
  LET b == CheckBinopBounds(t.size, l, op, r)
  IN  Nested(CheckLiteralBounds(t.size, t.signed, Operation(b.left, b.op, b.right)))

\* Seeded fault: the bounds are not checked.
IntUnOpUnchecked(t, text) == IF t.signed THEN Nested(Minus(text)) ELSE text

\* A minus in front of an unsigned number is dropped.
IntUnOp(t, text) ==
  IF t.signed THEN Nested(CheckLiteralBounds(t.size, TRUE, Minus(text))) ELSE text

\* __visit_conversion; of a number to an integer with a check of its bounds.
Converted(f) ==
  LET text == f.args[1].text
  IN  [Call(f.type.size) EXCEPT !.inside =
        IF f.type.class = "INT"
        THEN CheckLiteralBounds(f.type.size, f.type.signed, text).num ELSE Unknown]

\* The fixed lists that are too short are filled up.
ListSize(t, items) ==
  IF ~ t.dynamic /\ items < t.size /\ t.base.class # "LIST" THEN t.size ELSE items

\* Of two parts or three (see Concat).
SumOfSizes(args) ==
  args[1].size + args[2].size + (IF Len(args) > 2 THEN args[3].size ELSE 0)

Result(f) ==
  LET text(i) == f.args[i].text
      int == f.type.class = "INT"
  IN  CASE f.prod = "binOp" ->
             Value(IF int THEN IntBinOp(f.type, text(1), f.op, text(2))
                   ELSE Nested(Operation(text(1), f.op, text(2))), 0, TRUE)
        [] f.prod = "unOp" ->
             Value(IF int THEN IntUnOp(f.type, text(1)) ELSE Nested(Minus(text(1))), 0, TRUE)
        [] f.prod = "boolOp" -> Value(Nested([Named EXCEPT !.open = TRUE]), 0, TRUE)
        [] f.prod = "convert" -> Converted(f)
        [] f.prod = "hash" -> Call(f.type.size)
        [] f.prod = "concat" -> Call(SumOfSizes(f.args))
        [] f.prod = "list" -> Call(ListSize(f.type, Len(f.args)))
        [] f.prod = "curve" -> Call(2)
        [] f.prod \in {"raw_call", "create"} -> Value(Named, f.type.size, FALSE)
        [] f.prod = "ecRec" -> Call(0)

\* _visit_statement.
Start ==
  /\ frames = <<>> /\ Len(type_stack) < MaxDepth
  /\ \E script \in Statements :
       frames' = <<Frame([prod |-> "statement", op |-> "", todo |-> script])>>
  /\ last' = NoValue
  /\ UNCHANGED <<type_stack, op_stack, is_constant, raised>>

\* The steps of a visitor that visit nothing.
Execute ==
  /\ Running /\ Current.todo # <<>>
  /\ LET step == Next1(Current)
     IN  /\ step.do # "visit"
         /\ type_stack' = CASE step.do = "push" -> Append(type_stack, step.type)
                            [] step.do = "pop" -> Front(type_stack)
                            [] OTHER -> type_stack
         /\ op_stack' = CASE step.do = "operator" -> op_stack + 1
                          [] step.do = "operated" -> op_stack - 1
                          [] OTHER -> op_stack
         /\ is_constant' = CASE step.do = "constant" -> TRUE
                             [] step.do = "variable" -> FALSE
                             [] OTHER -> is_constant
  /\ frames' = Append(Front(frames), Advanced(Current))
  /\ last' = NoValue
  /\ UNCHANGED raised

Visiting == Running /\ Current.todo # <<>> /\ Next1(Current).do = "visit"

\* A literal or a variable.
VisitLeaf ==
  /\ Visiting
  /\ \E v \in LiteralValues(Top) \cup ReferenceValues(Top) : Given(frames, Top, v)
  /\ UNCHANGED <<type_stack, op_stack, is_constant, raised>>

\* Bounds: the frames and the types that earlier statements have left; one more inside of
\* operators that are all in DeepOps and all of type DeepType, of a variable or a constant.
Shallow == Len(frames) + frames[1].mark < MaxDepth
OperatorsOnly(p) ==
  /\ Len(frames) = MaxDepth /\ type_stack = <<DeepType>>
  /\ \A f \in ToSet(Tail(frames)) \cup {p} : f.op \in DeepOps

\* Anything else is a visitor of its own.
VisitNested ==
  /\ Visiting /\ ~ ListRaises(Top)
  /\ \E p \in Productions(Top) :
       /\ Shallow \/ OperatorsOnly(p)
       /\ frames' = Append(frames, Frame(p))
  /\ last' = NoValue
  /\ UNCHANGED <<type_stack, op_stack, is_constant, raised>>

\* The visitor for integers compares what may be complex.
ResultRaises(f) ==
  /\ f.prod = "binOp" /\ f.type.class = "INT"
  /\ BinopRaises(f.type.size, f.op, f.args[2].text)

Return ==
  /\ Running /\ Len(frames) > 1 /\ Current.todo = <<>>
  /\ ~ ResultRaises(Current)
  /\ Given(Front(frames), Current.type, Result(Current))
  /\ UNCHANGED <<type_stack, op_stack, is_constant, raised>>

Finish ==
  /\ Running /\ Len(frames) = 1 /\ Current.todo = <<>>
  /\ frames' = <<>>
  /\ last' = NoValue
  /\ UNCHANGED <<type_stack, op_stack, is_constant, raised>>

\* An exception ends the conversion.
Raise ==
  /\ \/ Visiting /\ ListRaises(Top)
     \/ Running /\ Len(frames) > 1 /\ Current.todo = <<>> /\ ResultRaises(Current)
  /\ raised' = TRUE
  /\ UNCHANGED <<type_stack, op_stack, is_constant, frames, last>>

Next == Start \/ Execute \/ VisitLeaf \/ VisitNested \/ Return \/ Finish \/ Raise

Spec == Init /\ [][Next]_vars

-----------------------------------------------------------------------------
(* Properties. *)

\* The stacks are stacks, there is a statement below every visitor, and operators are open
\* only while one is converted.
TypeOK ==
  /\ \A i \in DOMAIN type_stack : type_stack[i].size \in Nat
  /\ op_stack \in Nat /\ (frames = <<>> => op_stack = 0 /\ ~ is_constant)
  /\ is_constant \in BOOLEAN /\ raised \in BOOLEAN
  /\ \A i \in DOMAIN frames : (frames[i].prod = "statement") <=> (i = 1)

\* What is visited or read for a class finds a type of this class on top of type_stack,
\* pushed by the statement in hand: the types that earlier ones left there are never used
\* again.  A visitor that returns has taken away exactly what it had pushed.
TypesBalanced ==
  Running =>
    IF Current.todo = <<>>
    THEN Len(frames) > 1 => Len(type_stack) = Current.mark /\ Top = Current.type
    ELSE Next1(Current).do \in {"visit", "read"} =>
           Len(type_stack) > frames[1].mark /\ Top.class = Next1(Current).class

\* An operand of an operator never is an operation without parentheses, however deep in
\* calls and conversions the operators are.
OperandsClosed ==
  \A i \in DOMAIN frames : frames[i].prod \in {"binOp", "unOp", "boolOp"} =>
    \A j \in DOMAIN frames[i].args : ~ frames[i].args[j].text.open

\* The text for a byte array or a string is no longer than its type allows, that for bytesM
\* is as long, and a fixed list has as many items as its type says.
SizesFit ==
  last # NoValue =>
    LET t == last.type
        size == last.value.size
    IN  CASE t.class \in {"BYTES", "STRING"} -> size <= t.size
          [] t.class = "LIST" -> IF t.dynamic THEN size \in 1 .. t.size ELSE size = t.size
          [] t.class = "BYTESM" -> size = t.size
          [] OTHER -> TRUE

\* What is written for an integer, or converted to one, and evaluates to an integer is a
\* value of its type.  (Of a text that evaluates to a float, which a `/` or a decimal
\* makes, check_literal_bounds changes at most the sign: it may be of any value.)
IntsInRange ==
  last # NoValue /\ last.type.class = "INT" =>
    \A x \in {last.value.text.num, last.value.inside} :
      x.kind = "int" => x.num \in Low(last.type.size, last.type.signed) .. Up(last.type.size, last.type.signed)

\* The value of a constant calls no contract and refers to no variable but other constants.
ConstantsFixed == is_constant /\ last # NoValue => last.value.fixed

\* converters/README.md:4 promises "that the generated code is valid".  The right operand
\* that check_binop_bounds returns, if it evaluates to a number, is none that Vyper refuses:
\* no zero divisor, no negative exponent, no shift by less than nothing or by more than a
\* word.
OperandsLegal ==
  Running /\ Current.prod = "binOp" /\ Current.todo = <<>> /\ Current.type.class = "INT" =>
    LET b == CheckBinopBounds(Current.type.size, Current.args[1].text, Current.op,
                              Current.args[2].text)
    IN  /\ b.op \in {"/", "//", "%"} => ~ Zero(b.right.num)
        /\ b.op = "**" => ~ Negative(b.right.num)
        /\ b.op \in {"<<", ">>"} /\ Real(b.right.num) =>
              ~ Negative(b.right.num) /\ b.right.num.num < (Word + 1) * b.right.num.den

\* By the same promise, the conversion of a message comes to an end.
NeverRaises == ~ raised

=============================================================================
