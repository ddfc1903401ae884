-------------------------- MODULE ConverterProofs --------------------------
(***************************************************************************)
(* Proofs about Converter for all types of variables, any number of        *)
(* functions and any depth of blocks.                                      *)
(***************************************************************************)
EXTENDS Converter, TLAPS, SequenceTheorems

(***************************************************************************)
(* The inductive invariant: what is known of the tracker, of the blocks,   *)
(* of the mutability of functions and of what their bodies do.             *)
(***************************************************************************)

Tracker == [vars : SUBSET VT!Variable, ids : [VT!Name -> Nat]]

ForFunctions == "__function__"
ReadOnly == "__readonly__"

\* No number in use will be given out again.
NumbersCounted(tr) == \A v \in tr.vars : v.id < tr.ids[v.type.name]

NamesDiffer(tr) ==
  \A v, w \in tr.vars : v.type.name = w.type.name /\ v.id = w.id => v = w

\* No variable is above level top, and a read-only variable of an inner block belongs to
\* a for, whose end removes it.
Scoped(tr, top, bl) ==
  \A v \in tr.vars :
    /\ v.level <= top
    /\ v.key = ReadOnly /\ v.level > 1 => bl[v.level - 1] = "for"

Sound(tr, top, bl) ==
  tr \in Tracker /\ NumbersCounted(tr) /\ NamesDiffer(tr) /\ Scoped(tr, top, bl)

TopLevel == IF stage = "params" THEN 1 ELSE level
TrackerInv == Sound(tracker, TopLevel, blocks)

BlocksInv ==
  /\ stage \in {"out", "params", "body", "call"}
  /\ blocks \in Seq({"for", "if"})
  /\ level = IF stage \in {"body", "call"} THEN Len(blocks) + 1 ELSE 0
  /\ level \in 0 .. MaxLevel
  /\ stage \in {"out", "params"} => blocks = <<>>

\* The level inferred so far is no lower than what the body does.
MutabilityInv ==
  /\ unit \in Unit
  /\ mutability \in Mutability
  /\ effect \in Effects
  /\ effect.by <= mutability
  /\ finished \in Seq(Mutability)
  /\ unit = "default" => Len(finished) >= NFunc
  /\ short \subseteq Part
  /\ "by" \notin short

\* The outputs of the functions converted, and what is left of those of a call.
OutputsInv ==
  /\ finished \in Seq(Mutability)
  /\ outputs \in Seq(Seq(Type)) /\ Len(outputs) = Len(finished)
  /\ pending \in Seq(Type)
  /\ taken \subseteq [var : VT!Variable, item : BOOLEAN]

IndInv == TrackerInv /\ BlocksInv /\ MutabilityInv /\ OutputsInv

(***************************************************************************)
(* The tracker.                                                            *)
(***************************************************************************)

\* The keys of the dictionaries.
LEMMA KeyFacts ==
  VT!Key(TRUE) = ForFunctions /\ VT!Key(FALSE) = ReadOnly
  BY DEF VT!Key, ForFunctions, ReadOnly

\* What is in the tracker is a variable.
LEMMA VariableFacts ==
  ASSUME NEW tr \in Tracker, NEW v \in tr.vars
  PROVE  v.level \in Nat /\ v.id \in Nat /\ v.key \in {ForFunctions, ReadOnly}
<1>1. v \in VT!Variable
  BY DEF Tracker
<1>2. v.level \in 0 .. MaxLevel /\ v.id \in Nat /\ v.key \in {ForFunctions, ReadOnly}
  BY <1>1, KeyFacts DEF VT!Variable
<1>3. QED
  BY <1>2, ConverterAssumption

\* A variable that is created takes the next number of its type.
LEMMA CreatedFacts ==
  ASSUME NEW tr \in Tracker, NEW t \in Type, NEW l \in 0 .. MaxLevel, NEW mutable \in BOOLEAN
  PROVE  /\ VT!Created(tr, t, l, mutable) \in Tracker
         /\ VT!Created(tr, t, l, mutable).vars
              = tr.vars \cup {VT!Entry(t, tr.ids[t.name], l, mutable)}
         /\ VT!Created(tr, t, l, mutable).ids = [tr.ids EXCEPT ![t.name] = @ + 1]
<1> DEFINE new == VT!Entry(t, tr.ids[t.name], l, mutable)
<1>1. t.name \in VT!Name /\ tr.ids[t.name] \in Nat
  BY DEF Tracker, VT!Name
<1>2. new \in VT!Variable
  BY <1>1 DEF VT!Variable, VT!Entry, VT!Key
<1>3. QED
  BY <1>1, <1>2 DEF Tracker, VT!Created, VT!Registered, VT!NextId

\* It therefore has a name of its own.
LEMMA CreatedKeepsNames ==
  ASSUME NEW tr \in Tracker, NumbersCounted(tr), NamesDiffer(tr),
         NEW t \in Type, NEW l \in 0 .. MaxLevel, NEW mutable \in BOOLEAN
  PROVE  /\ NumbersCounted(VT!Created(tr, t, l, mutable))
         /\ NamesDiffer(VT!Created(tr, t, l, mutable))
<1> DEFINE new == VT!Entry(t, tr.ids[t.name], l, mutable)
           after == VT!Created(tr, t, l, mutable)
<1>1. /\ after.vars = tr.vars \cup {new}
      /\ after.ids = [tr.ids EXCEPT ![t.name] = @ + 1]
  BY CreatedFacts
<1>2. /\ new.type = t /\ new.id = tr.ids[t.name]
      /\ t.name \in VT!Name
  BY DEF VT!Entry, VT!Name
<1>3. tr.ids \in [VT!Name -> Nat]
  BY DEF Tracker
<1>4. \A v \in tr.vars : v.type.name \in VT!Name /\ v.id \in Nat /\ v.id < tr.ids[v.type.name]
  BY DEF Tracker, NumbersCounted, VT!Variable, VT!Name
<1>5. NumbersCounted(after)
  BY <1>1, <1>2, <1>3, <1>4 DEF NumbersCounted
<1>6. NamesDiffer(after)
  <2>1. \A v \in tr.vars : ~ (v.type.name = t.name /\ v.id = new.id)
    BY <1>2, <1>3, <1>4
  <2>2. QED
    BY <1>1, <1>2, <2>1 DEF NamesDiffer
<1>7. QED
  BY <1>5, <1>6

\* Removing a level takes variables away, and nothing else.
LEMMA RemovedFacts ==
  ASSUME NEW tr \in Tracker, NEW l, NEW mutable
  PROVE  /\ VT!RemovedLevel(tr, l, mutable) \in Tracker
         /\ VT!RemovedLevel(tr, l, mutable).vars
              = {v \in tr.vars : ~ (v.level = l /\ v.key = VT!Key(mutable))}
         /\ VT!RemovedLevel(tr, l, mutable).ids = tr.ids
  BY DEF Tracker, VT!RemovedLevel

\* The removal of a level keeps names and counters apart.
LEMMA RemovedKeepsNames ==
  ASSUME NEW tr \in Tracker, NumbersCounted(tr), NamesDiffer(tr), NEW l, NEW mutable
  PROVE  /\ NumbersCounted(VT!RemovedLevel(tr, l, mutable))
         /\ NamesDiffer(VT!RemovedLevel(tr, l, mutable))
  BY RemovedFacts DEF NumbersCounted, NamesDiffer

\* The read-only variables of a level.
LEMMA RemovedReadOnly ==
  ASSUME NEW tr \in Tracker, NumbersCounted(tr), NamesDiffer(tr), NEW l
  PROVE  /\ VT!RemovedLevel(tr, l, FALSE) \in Tracker
         /\ NumbersCounted(VT!RemovedLevel(tr, l, FALSE))
         /\ NamesDiffer(VT!RemovedLevel(tr, l, FALSE))
         /\ VT!RemovedLevel(tr, l, FALSE).vars
              = {v \in tr.vars : ~ (v.level = l /\ v.key = ReadOnly)}
<1> DEFINE after == VT!RemovedLevel(tr, l, FALSE)
<1>1. after = [tr EXCEPT !.vars = {v \in @ : ~ (v.level = l /\ v.key = ReadOnly)}]
  BY DEF VT!RemovedLevel, VT!Key, ReadOnly
<1> HIDE DEF after
<1>2. QED
  <2>1. after \in Tracker /\ NumbersCounted(after) /\ NamesDiffer(after)
        /\ after.vars = {v \in tr.vars : ~ (v.level = l /\ v.key = ReadOnly)}
    BY <1>1 DEF Tracker, NumbersCounted, NamesDiffer
  <2>2. QED
    BY <2>1, Zenon DEF after

(***************************************************************************)
(* What expressions come to.                                               *)
(***************************************************************************)

\* A global variable that is visible on some level is so on level 0.
LEMMA GlobalVisible ==
  ASSUME NEW tr, NEW t, NEW l, NEW ref,
         ref \in VT!GetVars(tr, t, l, TRUE, FALSE), ref.var.level = 0
  PROVE  ref \in VT!GetVars(tr, t, 0, TRUE, FALSE)
<1> DEFINE visible(k) == {v \in tr.vars : v.level <= k /\ v.key = VT!Key(TRUE)}
<1>1. \A k : VT!GetVars(tr, t, k, TRUE, FALSE)
              = [var : {v \in visible(k) : VT!Suits(v, t, FALSE)}, item : {FALSE}]
                \cup [var : VT!ListsOf(visible(k), t), item : {TRUE}]
  BY DEF VT!GetVars
<1>2. CASE ref \in [var : {v \in visible(l) : VT!Suits(v, t, FALSE)}, item : {FALSE}]
  <2>1. ref.var \in {v \in visible(l) : VT!Suits(v, t, FALSE)}
    BY <1>2
  <2>2. ref.var \in tr.vars /\ ref.var.key = VT!Key(TRUE)
    BY <2>1
  <2>3. ref.var.level <= 0
    OBVIOUS
  <2>4. ref.var \in visible(0)
    BY <2>2, <2>3
  <2>5. QED
    BY <1>1, <1>2, <2>1, <2>4
<1>3. CASE ref \in [var : VT!ListsOf(visible(l), t), item : {TRUE}]
  <2>1. ref.var \in VT!ListsOf(visible(l), t)
    BY <1>3
  <2>2. ref.var \in tr.vars /\ ref.var.key = VT!Key(TRUE) /\ ref.var.type.elem = t.key
    BY <2>1 DEF VT!ListsOf
  <2>3. ref.var.level <= 0
    OBVIOUS
  <2>4. ref.var \in VT!ListsOf(visible(0), t)
    BY <2>2, <2>3 DEF VT!ListsOf
  <2>5. QED
    BY <1>1, <1>3, <2>4
<1>4. QED
  BY <1>1, <1>2, <1>3

\* A variable of the storage that is read or assigned to is found among the global ones.
LEMMA StorageIsGlobal ==
  ASSUME NEW t, NEW ref, ref \in Readable(t), Storage(ref)
  PROVE  ref \in Assignable(t) /\ IsGlobal(ref, t)
<1>1. VT!Key(TRUE) # VT!Key(FALSE)
  BY DEF VT!Key
<1>2. ref \in Assignable(t)
  BY <1>1 DEF Readable, Assignable, Storage, VT!GetVars, VT!ListsOf
<1>3. QED
  BY <1>2, GlobalVisible DEF Assignable, Storage, IsGlobal, VT!GetGlobalVars

\* The mutability level follows a reference, be it read or assigned to.
LEMMA ReferenceLevels ==
  ASSUME NEW t, NEW m \in Mutability, NEW ref, ref \in Readable(t)
  PROVE  /\ AfterRef(ref, t, FALSE, m) \in Mutability /\ m <= AfterRef(ref, t, FALSE, m)
         /\ Reading(ref) \in Mutability /\ Reading(ref) <= AfterRef(ref, t, FALSE, m)
         /\ AfterRef(ref, t, TRUE, m) \in Mutability /\ m <= AfterRef(ref, t, TRUE, m)
         /\ Writing(ref) \in Mutability /\ Writing(ref) <= AfterRef(ref, t, TRUE, m)
  BY StorageIsGlobal
     DEF AfterRef, Reading, Writing, Higher, Mutability, PURE, VIEW, NON_PAYABLE, PAYABLE

\* An expression whose value declares nothing and is counted in the level after it.
Counted(e, m) ==
  /\ e.tracker = tracker
  /\ e.level \in Mutability /\ e.does \in Mutability
  /\ m <= e.level /\ e.does <= e.level

\* Whatever an expression reads or calls, the level after it counts it.
LEMMA ExpressionLevels ==
  ASSUME NEW m \in Mutability
  PROVE  /\ \A t : \A e \in Reference(t, m) : Counted(e, m)
         /\ \A e \in Arguments(m) : Counted(e, m)
         /\ \A t : \A e \in Expression(t, m) : Counted(e, m)
         /\ Counted(Value(m, PURE), m)
<1>1. Counted(Value(m, PURE), m)
  BY DEF Counted, Value, Mutability, PURE, PAYABLE
<1>2. \A t : \A e \in Reference(t, m) : Counted(e, m)
  <2> SUFFICES ASSUME NEW t, NEW e \in Reference(t, m) PROVE Counted(e, m)
    OBVIOUS
  <2>1. PICK ref \in Readable(t) : e = Value(AfterRef(ref, t, FALSE, m), Reading(ref))
    BY DEF Reference
  <2>2. QED
    BY <2>1, ReferenceLevels DEF Counted, Value
<1>3. \A e \in Nested(m) : Counted(e, m)
  BY <1>2 DEF Nested
<1>4. \A e \in Create(m) : Counted(e, m)
  BY DEF Create, Counted, Value, Higher, Mutability, PURE, NON_PAYABLE, PAYABLE
<1>5. \A size \in 0 .. 1 : \A e \in RawCallExpr(size, m) : Counted(e, m)
  BY DEF RawCallExpr, Counted, Value, Higher, Mutability, PURE, VIEW, NON_PAYABLE, PAYABLE
<1>6. \A e \in Arguments(m) : Counted(e, m)
  BY <1>1, <1>3, <1>4, <1>5 DEF Arguments
<1>7. QED
  BY <1>1, <1>2, <1>6 DEF Expression

(***************************************************************************)
(* The mutability.                                                         *)
(***************************************************************************)

\* The higher of two levels is a level, and is no lower than either.
LEMMA HigherFacts ==
  ASSUME NEW m \in Mutability, NEW n \in Mutability
  PROVE  Higher(m, n) \in Mutability /\ m <= Higher(m, n) /\ n <= Higher(m, n)
  BY DEF Higher, Mutability, PURE, PAYABLE

\* A statement that does d, after which the level is at least d, keeps the invariant.
LEMMA RaisedKeeps ==
  ASSUME MutabilityInv,
         mutability' \in Mutability, mutability <= mutability',
         NEW d \in Mutability, d <= mutability',
         effect' = [effect EXCEPT !.by = Higher(@, d)],
         UNCHANGED <<unit, finished, short>>
  PROVE  MutabilityInv'
<1>1. "by" \in Part /\ effect.by \in Mutability /\ mutability \in Mutability
  BY DEF MutabilityInv, Effects, Part
<1>2. Higher(effect.by, d) \in Mutability
  BY <1>1, HigherFacts
<1>3. effect' \in Effects /\ effect'.by = Higher(effect.by, d)
  BY <1>1, <1>2 DEF MutabilityInv, Effects
<1>4. effect'.by <= mutability'
  BY <1>1, <1>3 DEF Higher, MutabilityInv, Mutability, PURE, PAYABLE
<1>5. QED
  BY <1>3, <1>4 DEF MutabilityInv

\* So does one that evaluates an expression and nothing else.
LEMMA EvaluatedKeeps ==
  ASSUME MutabilityInv, NEW e, Counted(e, mutability), Evaluated(e),
         UNCHANGED <<unit, finished, short>>
  PROVE  MutabilityInv'
  BY RaisedKeeps DEF Counted, Evaluated

\* What a raw_call does, for its own sake and for its arguments, is counted.
LEMMA RawCallLevels ==
  ASSUME NEW m \in Mutability, NEW c \in RawCalls(m)
  PROVE  /\ c.level \in Mutability /\ c.does \in Mutability
         /\ m <= c.level /\ c.does <= c.level
<1>1. PICK e \in Arguments(m), call \in {VIEW, NON_PAYABLE} :
        c = [level |-> Higher(e.level, call), does |-> Higher(e.does, call)]
  BY DEF RawCalls
<1>2. Counted(e, m)
  BY ExpressionLevels
<1>3. call \in Mutability
  BY DEF Mutability, PURE, VIEW, NON_PAYABLE, PAYABLE
<1>4. QED
  BY <1>1, <1>2, <1>3 DEF Counted, Higher, Mutability, PURE, PAYABLE

\* So is the target of what it returns; it is a variable in scope or a new one.
LEMMA TargetLevels ==
  ASSUME NEW tr, NEW t, NEW m \in Mutability, NEW r,
         r \in Target(tr, t, m) \/ r \in Untargeted(tr, m)
  PROVE  /\ r.level \in Mutability /\ r.does \in Mutability
         /\ m <= r.level /\ r.does <= r.level
         /\ r.tracker \in {tr, VT!Created(tr, t, level, TRUE)}
<1>1. CASE r \in Untargeted(tr, m)
  <2>1. r = [tracker |-> tr, level |-> m, does |-> PURE]
    BY <1>1 DEF Untargeted
  <2>2. QED
    BY <2>1 DEF Mutability, PURE, PAYABLE
<1>2. CASE r \in Target(tr, t, m) /\ Assignable(t) = {}
  <2>1. r = [tracker |-> VT!Created(tr, t, level, TRUE), level |-> m, does |-> PURE]
    BY <1>2 DEF Target
  <2>2. QED
    BY <2>1 DEF Mutability, PURE, PAYABLE
<1>3. CASE r \in Target(tr, t, m) /\ Assignable(t) # {}
  <2>1. PICK ref \in Assignable(t) :
          r = [tracker |-> tr, level |-> AfterRef(ref, t, TRUE, m), does |-> Writing(ref)]
    BY <1>3 DEF Target
  <2>2. ref \in Readable(t)
    BY DEF Readable
  <2>3. QED
    BY <2>1, <2>2, ReferenceLevels
<1>4. QED
  BY <1>1, <1>2, <1>3

\* The end of a function: it is given no less than what its body does.
LEMMA CloseBodyMutability ==
  ASSUME MutabilityInv, CloseBody
  PROVE  MutabilityInv'
<1>1. mutability' \in Mutability /\ effect' \in Effects /\ effect'.by <= mutability'
  BY DEF CloseBody, NoEffect, Effects, Part, Mutability, PURE, PAYABLE
<1>2. CASE unit = "init"
  BY <1>1, <1>2 DEF CloseBody, MutabilityInv
<1>3. CASE unit # "init"
  <2>1. PICK mut \in Mutability :
          /\ finished' = Append(finished, Higher(mutability, mut))
          /\ short' = short \cup {part \in Part : effect[part] > Higher(mutability, mut)}
    BY <1>3 DEF CloseBody
  <2>2. /\ Higher(mutability, mut) \in Mutability
        /\ mutability <= Higher(mutability, mut)
    BY HigherFacts DEF MutabilityInv
  <2>3. finished' \in Seq(Mutability) /\ Len(finished') = Len(finished) + 1
    BY <2>1, <2>2 DEF MutabilityInv
  <2>4. ~ (effect.by > Higher(mutability, mut))
    BY <2>2 DEF MutabilityInv, Effects, Part, Mutability, PURE, PAYABLE
  <2>5. "by" \notin short' /\ short' \subseteq Part
    BY <2>1, <2>4 DEF MutabilityInv
  <2>6. unit' = "default" => Len(finished') >= NFunc
    BY <2>3, ConverterAssumption DEF CloseBody, MutabilityInv
  <2>7. QED
    BY <1>1, <2>3, <2>5, <2>6 DEF CloseBody, MutabilityInv
<1>4. QED
  BY <1>2, <1>3

\* A callee was converted before, and its mutability is taken over.
LEMMA CallMutability ==
  ASSUME MutabilityInv, NEW f \in Func, Call(f)
  PROVE  MutabilityInv'
<1>1. f \in Nat /\ f < Len(finished) /\ Len(finished) \in Nat
  BY ConverterAssumption DEF Call, Callees, Func, MutabilityInv
<1>2. finished[f + 1] \in Mutability
  BY <1>1 DEF MutabilityInv
<1>3. /\ mutability' = Higher(mutability, finished[f + 1])
      /\ effect' = [effect EXCEPT !.by = Higher(@, finished[f + 1])]
      /\ UNCHANGED <<unit, finished, short>>
  BY DEF Call
<1>4. mutability' \in Mutability /\ mutability <= mutability' /\ finished[f + 1] <= mutability'
  BY <1>2, <1>3, HigherFacts DEF MutabilityInv
<1>5. QED
  BY <1>2, <1>3, <1>4, RaisedKeeps

\* Every step keeps the level inferred no lower than what the body does.
LEMMA NextMutability ==
  ASSUME MutabilityInv, [Next]_vars
  PROVE  MutabilityInv'
<1>0. mutability \in Mutability
  BY DEF MutabilityInv
<1>1. ASSUME UNCHANGED <<unit, mutability, effect, finished, short>>
      PROVE  MutabilityInv'
  BY <1>1 DEF MutabilityInv
<1>2. ASSUME NEW t \in Type, DeclareStorage(t) \/ DeclareConstant(t) \/ DeclareParameter(t)
      PROVE  MutabilityInv'
  BY <1>1, <1>2 DEF DeclareStorage, DeclareConstant, DeclareParameter
<1>3. ASSUME NEW u \in Unit, StartUnit(u)
      PROVE  MutabilityInv'
  <2>1. Len(finished) \in Nat
    BY DEF MutabilityInv
  <2>2. u = "default" => Len(finished) >= NFunc
    BY <1>3, <2>1, ConverterAssumption DEF StartUnit, Following, Unit, MutabilityInv
  <2>3. QED
    BY <1>3, <2>2 DEF StartUnit, MutabilityInv
<1>4. CASE OpenBody
  BY <1>4 DEF OpenBody, MutabilityInv, NoEffect, Effects, Part, Mutability, PURE, PAYABLE
<1>5. CASE CloseBody
  BY <1>5, CloseBodyMutability
<1>6. CASE OpenFor \/ OpenIf \/ Evaluate \/ PassArguments
  <2>1. /\ \E e : Counted(e, mutability) /\ Evaluated(e)
        /\ UNCHANGED <<unit, finished, short>>
    BY <1>0, <1>6, ExpressionLevels DEF OpenFor, OpenIf, Evaluate, PassArguments
  <2>2. QED
    BY <2>1, EvaluatedKeeps
<1>7. CASE CloseBlock
  BY <1>1, <1>7 DEF CloseBlock
<1>8. ASSUME NEW t \in Type, VarDecl(t)
      PROVE  MutabilityInv'
  <2>1. /\ \E e : Counted(e, mutability) /\ Evaluated(e)
        /\ UNCHANGED <<unit, finished, short>>
    BY <1>0, <1>8, ExpressionLevels DEF VarDecl
  <2>2. QED
    BY <2>1, EvaluatedKeeps
<1>9. ASSUME NEW t \in Type, NEW ref \in Assignable(t), NEW e,
             Counted(e, AfterRef(ref, t, TRUE, mutability)), mutability' = e.level,
             effect' = [effect EXCEPT !.by = Higher(Higher(@, e.does), Writing(ref))],
             UNCHANGED <<unit, finished, short>>
      PROVE  MutabilityInv'
  <2>1. ref \in Readable(t)
    BY DEF Readable
  <2> DEFINE a == AfterRef(ref, t, TRUE, mutability)
  <2>11. /\ a \in Mutability /\ mutability <= a
        /\ Writing(ref) \in Mutability /\ Writing(ref) <= a
    BY <1>0, <2>1, ReferenceLevels
  <2>12. /\ e.does \in Mutability /\ e.does <= e.level
        /\ e.level \in Mutability /\ a <= e.level
    BY <1>9 DEF Counted
  <2> HIDE DEF a
  <2>2. /\ Writing(ref) \in Mutability /\ Writing(ref) <= e.level
        /\ e.does \in Mutability /\ e.does <= e.level
        /\ e.level \in Mutability /\ mutability <= e.level
    BY <1>0, <2>11, <2>12 DEF Mutability, PURE, PAYABLE
  <2>3. effect.by \in Mutability
    BY DEF MutabilityInv, Effects, Part
  <2>4. Higher(Higher(effect.by, e.does), Writing(ref))
          = Higher(effect.by, Higher(e.does, Writing(ref)))
    BY <2>2, <2>3 DEF Higher, Mutability, PURE, PAYABLE
  <2>5. /\ Higher(e.does, Writing(ref)) \in Mutability
        /\ Higher(e.does, Writing(ref)) <= e.level
    BY <2>2 DEF Higher, Mutability, PURE, PAYABLE
  <2>6. QED
    BY <1>9, <2>2, <2>4, <2>5, RaisedKeeps
<1>10. ASSUME NEW t \in Type, Assign(t) \/ ChangeArray(t)
       PROVE  MutabilityInv'
  <2>1. CASE VarDecl(t)
    BY <1>8, <2>1
  <2>2. CASE ~ VarDecl(t)
    <3>1. \E ref \in Assignable(t) :
          \E e \in Expression(t, AfterRef(ref, t, TRUE, mutability))
                   \cup Arguments(AfterRef(ref, t, TRUE, mutability)) :
            /\ mutability' = e.level
            /\ effect' = [effect EXCEPT !.by = Higher(Higher(@, e.does), Writing(ref))]
            /\ UNCHANGED <<unit, finished, short>>
      BY <1>10, <2>2 DEF Assign, ChangeArray
    <3>2. \A ref \in Assignable(t) : AfterRef(ref, t, TRUE, mutability) \in Mutability
      BY <1>0, ReferenceLevels DEF Readable
    <3>3. QED
      BY <1>9, <3>1, <3>2, ExpressionLevels
  <2>3. QED
    BY <2>1, <2>2
<1>11. ASSUME NEW out, NEW revert \in BOOLEAN, RawCall(out, revert)
       PROVE  MutabilityInv'
  <2>1. PICK c \in RawCalls(mutability) :
        \E r \in IF out = 0 THEN Untargeted(tracker, c.level)
                 ELSE Target(tracker, BytesType[out], c.level) :
        \E s \in IF revert THEN Untargeted(r.tracker, r.level)
                 ELSE Target(r.tracker, BoolType, r.level) :
          /\ mutability' = s.level
          /\ effect' = [effect EXCEPT !.by =
               Higher(Higher(@, c.does), Higher(r.does, s.does))]
    BY <1>11 DEF RawCall
  <2>2. /\ c.level \in Mutability /\ c.does \in Mutability
        /\ mutability <= c.level /\ c.does <= c.level
    BY <1>0, RawCallLevels
  <2>3. PICK r \in IF out = 0 THEN Untargeted(tracker, c.level)
                   ELSE Target(tracker, BytesType[out], c.level) :
        \E s \in IF revert THEN Untargeted(r.tracker, r.level)
                 ELSE Target(r.tracker, BoolType, r.level) :
          /\ mutability' = s.level
          /\ effect' = [effect EXCEPT !.by =
               Higher(Higher(@, c.does), Higher(r.does, s.does))]
    BY <2>1
  <2>4. /\ r.level \in Mutability /\ r.does \in Mutability
        /\ c.level <= r.level /\ r.does <= r.level
    BY <2>2, <2>3, TargetLevels
  <2>5. PICK s \in IF revert THEN Untargeted(r.tracker, r.level)
                   ELSE Target(r.tracker, BoolType, r.level) :
          /\ mutability' = s.level
          /\ effect' = [effect EXCEPT !.by =
               Higher(Higher(@, c.does), Higher(r.does, s.does))]
    BY <2>3
  <2>6. /\ s.level \in Mutability /\ s.does \in Mutability
        /\ r.level <= s.level /\ s.does <= s.level
    BY <2>4, <2>5, TargetLevels
  <2>7. effect.by \in Mutability
    BY DEF MutabilityInv, Effects, Part
  <2>8. Higher(Higher(effect.by, c.does), Higher(r.does, s.does))
          = Higher(effect.by, Higher(c.does, Higher(r.does, s.does)))
    BY <2>2, <2>4, <2>6, <2>7 DEF Higher, Mutability, PURE, PAYABLE
  <2>9. /\ Higher(c.does, Higher(r.does, s.does)) \in Mutability
        /\ Higher(c.does, Higher(r.does, s.does)) <= s.level
        /\ mutability <= s.level
    BY <1>0, <2>2, <2>4, <2>6 DEF Higher, Mutability, PURE, PAYABLE
  <2>10. QED
    BY <1>11, <2>5, <2>6, <2>8, <2>9, RaisedKeeps DEF RawCall
<1>12. CASE ChangeState
  <2>1. PICK e : e = Value(Higher(mutability, NON_PAYABLE), NON_PAYABLE) /\ Evaluated(e)
    BY <1>12 DEF ChangeState
  <2>2. Counted(e, mutability)
    BY <1>0, <2>1 DEF Counted, Value, Higher, Mutability, PURE, NON_PAYABLE, PAYABLE
  <2>3. QED
    BY <1>12, <2>1, <2>2, EvaluatedKeeps DEF ChangeState
<1>13. CASE BindOutput
  <2>1. /\ UNCHANGED <<unit, finished, short>>
        /\ mutability' \in {mutability, Higher(mutability, NON_PAYABLE)}
        /\ \/ effect' = effect
           \/ \E ref : effect' = [effect EXCEPT !.outs = Higher(@, Writing(ref))]
    BY <1>13 DEF BindOutput
  <2>2. mutability' \in Mutability /\ mutability <= mutability'
    BY <1>0, <2>1 DEF MutabilityInv, Higher, Mutability, PURE, NON_PAYABLE, PAYABLE
  <2>3. effect' \in Effects /\ effect'.by = effect.by
    <3>1. \A ref : Writing(ref) \in Mutability
      BY DEF Writing, Mutability, PURE, NON_PAYABLE, PAYABLE
    <3>2. effect.outs \in Mutability
      BY DEF MutabilityInv, Effects, Part
    <3>3. \A ref : Higher(effect.outs, Writing(ref)) \in Mutability
      BY <3>1, <3>2, HigherFacts
    <3>4. QED
      BY <2>1, <3>3 DEF MutabilityInv, Effects, Part
  <2>4. effect'.by <= mutability'
    BY <2>2, <2>3 DEF MutabilityInv, Effects, Part, Mutability, PURE, PAYABLE
  <2>5. QED
    BY <2>1, <2>2, <2>3, <2>4 DEF MutabilityInv
<1>14. CASE UNCHANGED vars
  BY <1>1, <1>14 DEF vars
<1>15. QED
  BY <1>2, <1>3, <1>4, <1>5, <1>6, <1>7, <1>8, <1>10, <1>11, <1>12, <1>13, <1>14,
     CallMutability DEF Next

\* Whatever a contract holds, no function is given a mutability below what its body
\* and the functions it calls need.
THEOREM MutabilityIsEnough == Spec => []EffectsDeclared
<1>1. Init => MutabilityInv
  BY ConverterAssumption
     DEF Init, MutabilityInv, NoEffect, Effects, Part, Unit, Mutability, PURE, PAYABLE
<1>2. MutabilityInv /\ [Next]_vars => MutabilityInv'
  BY NextMutability
<1>3. MutabilityInv => EffectsDeclared
  BY DEF MutabilityInv, EffectsDeclared
<1>4. QED
  BY <1>1, <1>2, <1>3, PTL DEF Spec

(***************************************************************************)
(* The scopes and the names.                                               *)
(***************************************************************************)

\* Every step keeps the level that of the innermost block.
LEMMA NextBlocks ==
  ASSUME BlocksInv, [Next]_vars
  PROVE  BlocksInv'
<1>1. ASSUME UNCHANGED <<stage, blocks, level>> PROVE BlocksInv'
  BY <1>1 DEF BlocksInv
<1>2. ASSUME stage \in {"body", "call"}, stage' \in {"body", "call"}, UNCHANGED <<blocks, level>>
      PROVE  BlocksInv'
  BY <1>2 DEF BlocksInv
<1>3. ASSUME NEW t \in Type,
             \/ DeclareStorage(t) \/ DeclareConstant(t) \/ DeclareParameter(t)
             \/ VarDecl(t) \/ Assign(t) \/ ChangeArray(t)
      PROVE  BlocksInv'
  BY <1>1, <1>3 DEF DeclareStorage, DeclareConstant, DeclareParameter, VarDecl, Assign, ChangeArray
<1>4. ASSUME NEW u \in Unit, StartUnit(u) PROVE BlocksInv'
  BY <1>4 DEF StartUnit, BlocksInv
<1>5. CASE OpenBody
  BY <1>5, ConverterAssumption DEF OpenBody, BlocksInv
<1>6. CASE CloseBody
  BY <1>6, ConverterAssumption DEF CloseBody, InBody, BlocksInv
<1>7. ASSUME NEW kind \in {"for", "if"}, stage = "body", stage' = "body", level < MaxLevel,
             blocks' = Append(blocks, kind), level' = level + 1
      PROVE  BlocksInv'
  BY <1>7, ConverterAssumption DEF BlocksInv
<1>8. CASE OpenFor \/ OpenIf
  BY <1>7, <1>8 DEF OpenFor, OpenIf, InBody
<1>9. CASE CloseBlock
  <2>1. /\ blocks' = SubSeq(blocks, 1, Len(blocks) - 1) /\ level' = level - 1
        /\ stage = "body" /\ stage' = "body" /\ blocks # <<>>
    BY <1>9 DEF CloseBlock, InBody
  <2>2. Len(blocks) \in Nat \ {0} /\ level = Len(blocks) + 1
    BY <2>1, EmptySeq DEF BlocksInv
  <2>3. blocks' \in Seq({"for", "if"}) /\ Len(blocks') = Len(blocks) - 1
    BY <2>1, <2>2 DEF BlocksInv
  <2>4. QED
    BY <2>1, <2>2, <2>3, ConverterAssumption DEF BlocksInv
<1>10. CASE Evaluate \/ ChangeState \/ BindOutput
  BY <1>1, <1>10 DEF Evaluate, ChangeState, BindOutput
<1>11. ASSUME NEW out, NEW revert \in BOOLEAN, RawCall(out, revert) PROVE BlocksInv'
  BY <1>1, <1>11 DEF RawCall
<1>12. ASSUME NEW f \in Func, Call(f) PROVE BlocksInv'
  BY <1>2, <1>12 DEF Call, InBody
<1>13. CASE PassArguments
  BY <1>2, <1>13 DEF PassArguments
<1>14. CASE UNCHANGED vars
  BY <1>1, <1>14 DEF vars
<1>15. QED
  BY <1>3, <1>4, <1>5, <1>6, <1>8, <1>9, <1>10, <1>11, <1>12, <1>13, <1>14 DEF Next

\* A new variable on a level that is open; a read-only one, in a block, in that of a for.
LEMMA AddedSound ==
  ASSUME NEW tr, NEW top, NEW bl, Sound(tr, top, bl),
         NEW after \in Tracker, NumbersCounted(after), NamesDiffer(after),
         NEW new, after.vars = tr.vars \cup {new}, new.level <= top,
         new.key = ReadOnly /\ new.level > 1 => bl[new.level - 1] = "for"
  PROVE  Sound(after, top, bl)
  BY DEF Sound, Scoped

\* A variable of a level that is open is declared as it should be.
LEMMA CreatedSound ==
  ASSUME NEW tr, NEW top, NEW bl, Sound(tr, top, bl),
         NEW t \in Type, NEW l \in 0 .. MaxLevel, NEW mutable \in BOOLEAN, l <= top,
         mutable # TRUE /\ l > 1 => bl[l - 1] = "for"
  PROVE  Sound(VT!Created(tr, t, l, mutable), top, bl)
<1>1. tr \in Tracker /\ NumbersCounted(tr) /\ NamesDiffer(tr)
  BY DEF Sound
<1>2. /\ VT!Created(tr, t, l, mutable) \in Tracker
      /\ NumbersCounted(VT!Created(tr, t, l, mutable))
      /\ NamesDiffer(VT!Created(tr, t, l, mutable))
  BY <1>1, CreatedFacts, CreatedKeepsNames, Zenon
<1>3. VT!Created(tr, t, l, mutable).vars = tr.vars \cup {VT!Entry(t, tr.ids[t.name], l, mutable)}
  BY DEF VT!Created, VT!Registered, VT!NextId
<1>4. VT!Entry(t, tr.ids[t.name], l, mutable).level = l
  BY DEF VT!Entry
<1>5. VT!Entry(t, tr.ids[t.name], l, mutable).key = ReadOnly => mutable # TRUE
  BY DEF VT!Entry, VT!Key, ReadOnly
<1> DEFINE after == VT!Created(tr, t, l, mutable)
           new == VT!Entry(t, tr.ids[t.name], l, mutable)
<1> HIDE DEF after, new
<1>6. /\ after \in Tracker /\ NumbersCounted(after) /\ NamesDiffer(after)
      /\ after.vars = tr.vars \cup {new}
  BY <1>2, <1>3, Zenon DEF after, new
<1>7. new.level = l /\ (new.key = ReadOnly /\ l > 1 => bl[l - 1] = "for")
  BY <1>4, <1>5, Zenon DEF new
<1>8. new.level <= top
  BY <1>7
<1>9. new.key = ReadOnly /\ new.level > 1 => bl[new.level - 1] = "for"
  BY <1>7
<1>10. Sound(after, top, bl)
  BY <1>6, <1>8, <1>9, AddedSound, Zenon
<1>11. QED
  BY <1>10, Zenon DEF after

\* Opening a block.
LEMMA OpenedSound ==
  ASSUME NEW tr, NEW bl \in Seq({"for", "if"}), NEW kind, Sound(tr, Len(bl) + 1, bl)
  PROVE  Sound(tr, Len(bl) + 2, Append(bl, kind))
<1>1. \A v \in tr.vars : v.level \in Nat /\ v.level <= Len(bl) + 1
  BY VariableFacts DEF Sound, Scoped
<1>2. \A i \in 1 .. Len(bl) : Append(bl, kind)[i] = bl[i]
  OBVIOUS
<1>3. Scoped(tr, Len(bl) + 2, Append(bl, kind))
  <2> SUFFICES ASSUME NEW v \in tr.vars
               PROVE  /\ v.level <= Len(bl) + 2
                      /\ v.key = ReadOnly /\ v.level > 1
                           => Append(bl, kind)[v.level - 1] = "for"
    BY DEF Scoped
  <2>1. v.level \in Nat /\ v.level <= Len(bl) + 1 /\ Len(bl) \in Nat
    BY <1>1
  <2>2. v.level > 1 => v.level - 1 \in 1 .. Len(bl)
    BY <2>1
  <2>3. QED
    BY <1>2, <2>1, <2>2 DEF Sound, Scoped
<1>4. QED
  BY <1>3 DEF Sound

\* Closing the innermost of them: nothing mutable is left of it, and nothing read-only
\* if it is a for.
LEMMA ClosedSound ==
  ASSUME NEW bl \in Seq({"for", "if"}), bl # <<>>, Sound(tracker, Len(bl) + 1, bl),
         NEW after \in Tracker, NumbersCounted(after), NamesDiffer(after),
         \A v \in after.vars :
           /\ v \in tracker.vars
           /\ ~ (v.level = Len(bl) + 1 /\ v.key = ForFunctions)
           /\ bl[Len(bl)] = "for" => ~ (v.level = Len(bl) + 1 /\ v.key = ReadOnly)
  PROVE  Sound(after, Len(bl), SubSeq(bl, 1, Len(bl) - 1))
<1> DEFINE inner == SubSeq(bl, 1, Len(bl) - 1)
<1>1. Len(bl) \in Nat \ {0}
  BY EmptySeq
<1>2. \A i \in 1 .. Len(bl) - 1 : inner[i] = bl[i]
  BY <1>1
<1> HIDE DEF inner
<1>3. Scoped(after, Len(bl), inner)
  <2> SUFFICES ASSUME NEW v \in after.vars
               PROVE  /\ v.level <= Len(bl)
                      /\ v.key = ReadOnly /\ v.level > 1 => inner[v.level - 1] = "for"
    BY DEF Scoped
  <2>1. v.level \in Nat /\ v.key \in {ForFunctions, ReadOnly}
    BY VariableFacts
  <2>2. /\ v.level <= Len(bl) + 1
        /\ v.key = ReadOnly /\ v.level > 1 => bl[v.level - 1] = "for"
    BY DEF Sound, Scoped
  <2>3. v.level # Len(bl) + 1
    <3> SUFFICES ASSUME v.level = Len(bl) + 1 PROVE FALSE
      OBVIOUS
    <3>1. v.key = ReadOnly
      BY <2>1
    <3>2. v.level > 1 /\ v.level - 1 = Len(bl)
      BY <1>1
    <3>3. QED
      BY <2>2, <3>1, <3>2
  <2>4. v.level <= Len(bl)
    BY <1>1, <2>1, <2>2, <2>3
  <2>5. v.level > 1 => v.level - 1 \in 1 .. Len(bl) - 1
    BY <1>1, <2>1, <2>4
  <2>6. QED
    BY <1>2, <2>2, <2>4, <2>5
<1>4. QED
  BY <1>3 DEF Sound, inner

\* A mutable variable on the innermost level.
LEMMA DeclaredSound ==
  ASSUME NEW tr, Sound(tr, TopLevel, blocks), BlocksInv, stage \in {"body", "call"},
         NEW t \in Type
  PROVE  Sound(VT!Created(tr, t, level, TRUE), TopLevel, blocks)
<1>1. level \in 0 .. MaxLevel /\ level <= TopLevel
  BY ConverterAssumption DEF BlocksInv, TopLevel
<1>2. QED
  BY <1>1, CreatedSound, Zenon

\* Every step keeps what is known of the tracker.
LEMMA NextTracker ==
  ASSUME IndInv, [Next]_vars
  PROVE  TrackerInv'
<1>1. /\ level \in 0 .. MaxLevel /\ MaxLevel \in Nat
      /\ mutability \in Mutability
      /\ blocks \in Seq({"for", "if"})
      /\ Sound(tracker, TopLevel, blocks)
  BY ConverterAssumption DEF IndInv, BlocksInv, MutabilityInv, TrackerInv
<1>2. /\ stage \in {"body", "call"} => TopLevel = level /\ level = Len(blocks) + 1
      /\ stage = "params" => TopLevel = 1 /\ level = 0 /\ blocks = <<>>
      /\ stage = "out" => TopLevel = 0 /\ level = 0 /\ blocks = <<>>
      /\ 0 <= TopLevel
  BY ConverterAssumption DEF IndInv, BlocksInv, TopLevel
<1>3. ASSUME NEW tr, Sound(tr, TopLevel, blocks), tracker' = tr, TopLevel' = TopLevel,
             UNCHANGED blocks
      PROVE  TrackerInv'
  BY <1>3 DEF TrackerInv
<1>4. ASSUME tracker' = tracker, UNCHANGED <<blocks, level>>,
             \/ stage' = stage
             \/ stage \in {"body", "call"} /\ stage' \in {"body", "call"}
      PROVE  TrackerInv'
  BY <1>1, <1>3, <1>4 DEF TopLevel
<1>5. ASSUME NEW t \in Type, DeclareStorage(t)
      PROVE  TrackerInv'
  <2>1. 0 \in 0 .. MaxLevel
    BY <1>1
  <2>2. Sound(VT!Created(tracker, t, 0, TRUE), TopLevel, blocks)
    BY <1>1, <1>2, <2>1, CreatedSound, Zenon
  <2>3. tracker' = VT!Created(tracker, t, 0, TRUE) /\ UNCHANGED <<stage, level, blocks>>
    BY <1>5 DEF DeclareStorage
  <2>4. TopLevel' = TopLevel
    BY <2>3 DEF TopLevel
  <2>5. QED
    BY <1>3, <2>2, <2>3, <2>4, Zenon
<1>6. ASSUME NEW t \in Type, NEW l \in 0 .. 1, l <= TopLevel
      PROVE  Sound(VT!Created(tracker, t, l, FALSE), TopLevel, blocks)
  <2>1. l \in 0 .. MaxLevel /\ ~ (l > 1)
    BY <1>1, ConverterAssumption
  <2>2. QED
    BY <1>1, <1>6, <2>1, CreatedSound, Zenon
<1>7. ASSUME NEW t \in Type, DeclareConstant(t)
      PROVE  TrackerInv'
  <2>1. PICK e \in Expression(t, mutability) : tracker' = VT!Created(e.tracker, t, 0, FALSE)
    BY <1>7 DEF DeclareConstant
  <2>2. e.tracker = tracker
    BY <1>1, ExpressionLevels DEF Counted
  <2>3. UNCHANGED <<stage, level, blocks>>
    BY <1>7 DEF DeclareConstant
  <2>4. TopLevel' = TopLevel
    BY <2>3 DEF TopLevel
  <2>5. 0 \in 0 .. 1 /\ 0 <= TopLevel
    BY <1>2
  <2>6. QED
    BY <1>3, <1>6, <2>1, <2>2, <2>3, <2>4, <2>5, Zenon
<1>8. ASSUME NEW t \in Type, DeclareParameter(t)
      PROVE  TrackerInv'
  <2>1. /\ tracker' = VT!Created(tracker, t, 1, FALSE)
        /\ stage = "params" /\ UNCHANGED <<stage, level, blocks>>
    BY <1>8 DEF DeclareParameter
  <2>2. TopLevel' = TopLevel
    BY <2>1 DEF TopLevel
  <2>3. 1 \in 0 .. 1 /\ 1 <= TopLevel
    BY <1>2, <2>1
  <2>4. QED
    BY <1>3, <1>6, <2>1, <2>2, <2>3, Zenon
<1>9. ASSUME NEW u \in Unit, StartUnit(u)
      PROVE  TrackerInv'
  <2>1. stage = "out" /\ stage' \in {"out", "params"} /\ UNCHANGED <<tracker, level, blocks>>
    BY <1>9 DEF StartUnit
  <2>2. TopLevel = 0 /\ TopLevel' \in 0 .. 1
    BY <1>2, <2>1 DEF TopLevel
  <2>3. \A v \in tracker.vars : v.level \in Nat
    BY <1>1, VariableFacts DEF Sound
  <2>4. Sound(tracker, TopLevel', blocks)
    BY <1>1, <2>2, <2>3 DEF Sound, Scoped
  <2>5. QED
    BY <2>1, <2>4 DEF TrackerInv
<1>10. CASE OpenBody
  <2>1. /\ stage = "params" /\ stage' = "body" /\ level' = 1
        /\ UNCHANGED <<tracker, blocks>>
    BY <1>10 DEF OpenBody
  <2>2. TopLevel' = TopLevel
    BY <1>2, <2>1 DEF TopLevel
  <2>3. QED
    BY <1>1, <1>3, <2>1, <2>2
<1>11. CASE CloseBody
  <2> DEFINE inner == VT!RemovedLevel(tracker, 1, TRUE)
             after == VT!RemovedLevel(inner, 1, FALSE)
  <2>1. /\ blocks = <<>> /\ stage = "body" /\ stage' = "out" /\ level' = 0
        /\ tracker' = after /\ UNCHANGED blocks
    BY <1>11 DEF CloseBody, InBody
  <2>2. TopLevel = 1 /\ TopLevel' = 0
    BY <1>2, <2>1 DEF TopLevel
  <2>3. tracker \in Tracker /\ NumbersCounted(tracker) /\ NamesDiffer(tracker)
    BY <1>1 DEF Sound
  <2>4. /\ inner \in Tracker /\ NumbersCounted(inner) /\ NamesDiffer(inner)
        /\ inner.vars = {v \in tracker.vars : ~ (v.level = 1 /\ v.key = VT!Key(TRUE))}
    BY <2>3, RemovedFacts, RemovedKeepsNames, ZenonT(60)
  <2> HIDE DEF inner
  <2>5. /\ after \in Tracker /\ NumbersCounted(after) /\ NamesDiffer(after)
        /\ after.vars = {v \in inner.vars : ~ (v.level = 1 /\ v.key = ReadOnly)}
    BY <2>4, RemovedReadOnly, Zenon
  <2> HIDE DEF after
  <2>6. \A v \in after.vars :
          /\ v \in tracker.vars
          /\ ~ (v.level = 1 /\ v.key = ForFunctions)
          /\ ~ (v.level = 1 /\ v.key = ReadOnly)
    BY <2>4, <2>5, KeyFacts, Zenon
  <2>7. \A v \in after.vars : v.level = 0
    <3> SUFFICES ASSUME NEW v \in after.vars PROVE v.level = 0
      OBVIOUS
    <3>1. v.level \in Nat /\ v.key \in {ForFunctions, ReadOnly}
      BY <2>5, VariableFacts
    <3>2. v.level <= 1
      BY <1>1, <2>2, <2>6 DEF Sound, Scoped
    <3>3. QED
      BY <2>6, <3>1, <3>2
  <2>8. Sound(after, 0, blocks)
    BY <2>5, <2>7 DEF Sound, Scoped
  <2>9. QED
    BY <2>1, <2>2, <2>8 DEF TrackerInv
<1>12. CASE OpenFor
  <2> DEFINE opened == Append(blocks, "for")
  <2>1. /\ stage = "body" /\ stage' = "body" /\ level < MaxLevel
        /\ level' = level + 1 /\ blocks' = opened
        /\ tracker' = VT!Created(tracker, IntType, level + 1, FALSE)
    BY <1>12 DEF OpenFor, InBody
  <2>2. /\ level = Len(blocks) + 1 /\ TopLevel = Len(blocks) + 1 /\ Len(blocks) \in Nat
        /\ level + 1 = Len(blocks) + 2 /\ (level + 1) - 1 = Len(blocks) + 1
    BY <1>1, <1>2, <2>1
  <2>3. Sound(tracker, Len(blocks) + 2, opened)
    BY <1>1, <2>2, OpenedSound, Zenon
  <2>4. level + 1 \in 0 .. MaxLevel /\ level + 1 <= Len(blocks) + 2
    BY <1>1, <2>1, <2>2
  <2>5. opened[(level + 1) - 1] = "for"
    BY <1>1, <2>2
  <2> HIDE DEF opened
  <2>6. Sound(VT!Created(tracker, IntType, level + 1, FALSE), Len(blocks) + 2, opened)
    BY <2>3, <2>4, <2>5, CreatedSound, ConverterAssumption, Zenon
  <2>7. TopLevel' = Len(blocks) + 2
    BY <2>1, <2>2 DEF TopLevel
  <2>8. QED
    BY <2>1, <2>6, <2>7, Zenon DEF TrackerInv
<1>13. CASE OpenIf
  <2>1. /\ stage = "body" /\ stage' = "body"
        /\ level' = level + 1 /\ blocks' = Append(blocks, "if") /\ tracker' = tracker
    BY <1>13 DEF OpenIf, InBody
  <2>2. TopLevel = Len(blocks) + 1 /\ TopLevel' = Len(blocks) + 2
    BY <1>1, <1>2, <2>1 DEF TopLevel
  <2>3. Sound(tracker, Len(blocks) + 2, Append(blocks, "if"))
    BY <1>1, <2>2, OpenedSound, Zenon
  <2>4. QED
    BY <2>1, <2>2, <2>3 DEF TrackerInv
<1>14. CASE CloseBlock
  <2> DEFINE inner == VT!RemovedLevel(tracker, level, TRUE)
             both == VT!RemovedLevel(inner, level, FALSE)
  <2>1. /\ blocks # <<>> /\ stage = "body" /\ stage' = "body" /\ level' = level - 1
        /\ tracker' = IF blocks[Len(blocks)] = "for" THEN both ELSE inner
        /\ blocks' = SubSeq(blocks, 1, Len(blocks) - 1)
    BY <1>14 DEF CloseBlock, InBody
  <2>2. level = Len(blocks) + 1 /\ TopLevel = Len(blocks) + 1 /\ TopLevel' = Len(blocks)
    BY <1>1, <1>2, <2>1 DEF TopLevel
  <2>3. tracker \in Tracker /\ NumbersCounted(tracker) /\ NamesDiffer(tracker)
    BY <1>1 DEF Sound
  <2>4. /\ inner \in Tracker /\ NumbersCounted(inner) /\ NamesDiffer(inner)
        /\ inner.vars = {v \in tracker.vars : ~ (v.level = level /\ v.key = VT!Key(TRUE))}
    BY <2>3, RemovedFacts, RemovedKeepsNames, ZenonT(60)
  <2> HIDE DEF inner
  <2>5. /\ both \in Tracker /\ NumbersCounted(both) /\ NamesDiffer(both)
        /\ both.vars = {v \in inner.vars : ~ (v.level = level /\ v.key = ReadOnly)}
    BY <2>4, RemovedReadOnly, Zenon
  <2> HIDE DEF both
  <2>6. \A v \in inner.vars :
          v \in tracker.vars /\ ~ (v.level = level /\ v.key = ForFunctions)
    BY <2>4, KeyFacts, Zenon
  <2>7. \A v \in both.vars :
          v \in inner.vars /\ ~ (v.level = level /\ v.key = ReadOnly)
    BY <2>5, KeyFacts, Zenon
  <2>8. /\ tracker' \in Tracker /\ NumbersCounted(tracker') /\ NamesDiffer(tracker')
        /\ \A v \in tracker'.vars :
             /\ v \in tracker.vars
             /\ ~ (v.level = level /\ v.key = ForFunctions)
             /\ blocks[Len(blocks)] = "for" => ~ (v.level = level /\ v.key = ReadOnly)
    <3>1. CASE blocks[Len(blocks)] = "for"
      <4>1. tracker' = both
        BY <2>1, <3>1
      <4>2. QED
        BY <4>1, <2>5, <2>6, <2>7, Zenon
    <3>2. CASE blocks[Len(blocks)] # "for"
      <4>1. tracker' = inner
        BY <2>1, <3>2
      <4>2. QED
        BY <4>1, <3>2, <2>4, <2>6, Zenon
    <3>3. QED
      BY <3>1, <3>2, Zenon
  <2> DEFINE after == tracker'
  <2>9. Sound(after, Len(blocks), SubSeq(blocks, 1, Len(blocks) - 1))
    <3> HIDE DEF after
    <3>1. /\ after \in Tracker /\ NumbersCounted(after) /\ NamesDiffer(after)
          /\ \A v \in after.vars :
               /\ v \in tracker.vars
               /\ ~ (v.level = Len(blocks) + 1 /\ v.key = ForFunctions)
               /\ blocks[Len(blocks)] = "for"
                    => ~ (v.level = Len(blocks) + 1 /\ v.key = ReadOnly)
      BY <2>2, <2>8, Zenon DEF after
    <3>2. QED
      BY <1>1, <2>1, <2>2, <3>1, ClosedSound, Zenon
  <2>10. QED
    BY <2>1, <2>2, <2>9 DEF TrackerInv
<1>15. ASSUME NEW t \in Type, VarDecl(t)
       PROVE  TrackerInv'
  <2>1. PICK e \in Expression(t, mutability) :
          tracker' = VT!Registered(e.tracker, t, VT!NextId(tracker, t), level, TRUE)
    BY <1>15 DEF VarDecl
  <2>2. e.tracker = tracker
    BY <1>1, ExpressionLevels DEF Counted
  <2>3. tracker' = VT!Created(tracker, t, level, TRUE)
    BY <2>1, <2>2, Zenon DEF VT!Created
  <2>4. stage = "body" /\ UNCHANGED <<stage, level, blocks>>
    BY <1>15 DEF VarDecl, InBody
  <2>5. Sound(VT!Created(tracker, t, level, TRUE), TopLevel, blocks)
    BY <1>1, <2>4, DeclaredSound, Zenon DEF IndInv
  <2>6. TopLevel' = TopLevel
    BY <2>4 DEF TopLevel
  <2>7. QED
    BY <1>3, <2>3, <2>4, <2>5, <2>6, Zenon
<1>16. ASSUME NEW t \in Type, Assign(t) \/ ChangeArray(t)
       PROVE  TrackerInv'
  BY <1>4, <1>15, <1>16 DEF Assign, ChangeArray
<1>17. CASE Evaluate \/ ChangeState \/ PassArguments
  BY <1>4, <1>17 DEF Evaluate, ChangeState, PassArguments
<1>18. ASSUME NEW f \in Func, Call(f)
       PROVE  TrackerInv'
  BY <1>4, <1>18 DEF Call, InBody
<1>19. ASSUME NEW out \in {0} \cup DOMAIN BytesType, NEW revert \in BOOLEAN,
              RawCall(out, revert)
       PROVE  TrackerInv'
  <2>1. stage = "body" /\ UNCHANGED <<stage, level, blocks>>
    BY <1>19 DEF RawCall, InBody
  <2>2. \E c \in RawCalls(mutability) :
        \E r \in IF out = 0 THEN Untargeted(tracker, c.level)
                 ELSE Target(tracker, BytesType[out], c.level) :
        \E s \in IF revert THEN Untargeted(r.tracker, r.level)
                 ELSE Target(r.tracker, BoolType, r.level) :
          tracker' = s.tracker
    BY <1>19 DEF RawCall
  <2>3. PICK c \in RawCalls(mutability) :
        \E r \in IF out = 0 THEN Untargeted(tracker, c.level)
                 ELSE Target(tracker, BytesType[out], c.level) :
        \E s \in IF revert THEN Untargeted(r.tracker, r.level)
                 ELSE Target(r.tracker, BoolType, r.level) :
          tracker' = s.tracker
    BY <2>2
  <2>4. PICK r \in IF out = 0 THEN Untargeted(tracker, c.level)
                   ELSE Target(tracker, BytesType[out], c.level) :
        \E s \in IF revert THEN Untargeted(r.tracker, r.level)
                 ELSE Target(r.tracker, BoolType, r.level) :
          tracker' = s.tracker
    BY <2>3
  <2>5. PICK s \in IF revert THEN Untargeted(r.tracker, r.level)
                   ELSE Target(r.tracker, BoolType, r.level) : tracker' = s.tracker
    BY <2>4
  <2>6. c.level \in Mutability
    BY <1>1, RawCallLevels
  <2>7. r.level \in Mutability /\ Sound(r.tracker, TopLevel, blocks)
    <3>1. CASE out = 0
      BY <1>1, <2>6, <3>1 DEF Untargeted
    <3>2. CASE out # 0
      <4>1. BytesType[out] \in Type
        BY <3>2, ConverterAssumption
      <4>2. /\ r.level \in Mutability
            /\ r.tracker \in {tracker, VT!Created(tracker, BytesType[out], level, TRUE)}
        BY <2>6, <3>2, TargetLevels
      <4>3. Sound(VT!Created(tracker, BytesType[out], level, TRUE), TopLevel, blocks)
        BY <1>1, <2>1, <4>1, DeclaredSound, Zenon DEF IndInv
      <4>4. QED
        BY <1>1, <4>2, <4>3, Zenon
    <3>3. QED
      BY <3>1, <3>2
  <2>8. Sound(s.tracker, TopLevel, blocks)
    <3>1. s.tracker \in {r.tracker, VT!Created(r.tracker, BoolType, level, TRUE)}
      BY <2>7, TargetLevels, Zenon
    <3>2. BoolType \in Type
      BY ConverterAssumption
    <3>3. Sound(VT!Created(r.tracker, BoolType, level, TRUE), TopLevel, blocks)
      BY <2>1, <2>7, <3>2, DeclaredSound, Zenon DEF IndInv
    <3>4. QED
      BY <2>7, <3>1, <3>3, Zenon
  <2>9. TopLevel' = TopLevel
    BY <2>1 DEF TopLevel
  <2>10. QED
    BY <1>3, <2>1, <2>5, <2>8, <2>9, Zenon
<1>20. CASE BindOutput
  <2> DEFINE t == Head(pending)
  <2>1. /\ stage = "call" /\ UNCHANGED <<stage, level, blocks>>
        /\ pending # <<>>
        /\ tracker' = tracker \/ tracker' = VT!Created(tracker, t, level, TRUE)
    BY <1>20 DEF BindOutput
  <2>2. t \in Type
    BY <2>1 DEF IndInv, OutputsInv
  <2> HIDE DEF t
  <2>3. Sound(VT!Created(tracker, t, level, TRUE), TopLevel, blocks)
    BY <1>1, <2>1, <2>2, DeclaredSound, Zenon DEF IndInv
  <2>4. TopLevel' = TopLevel
    BY <2>1 DEF TopLevel
  <2>5. QED
    BY <1>1, <1>3, <2>1, <2>3, <2>4, Zenon
<1>21. CASE UNCHANGED vars
  BY <1>4, <1>21 DEF vars
<1>22. QED
  BY <1>5, <1>7, <1>8, <1>9, <1>10, <1>11, <1>12, <1>13, <1>14, <1>15, <1>16, <1>17,
     <1>18, <1>19, <1>20, <1>21 DEF Next

\* A reference is to a variable of the tracker.
LEMMA ReferencesVariables ==
  ASSUME NEW tr \in Tracker, NEW t, NEW l, NEW mutable, NEW assignee,
         NEW ref \in VT!GetVars(tr, t, l, mutable, assignee)
  PROVE  ref \in [var : VT!Variable, item : BOOLEAN]
<1>1. tr.vars \subseteq VT!Variable
  BY DEF Tracker
<1>2. /\ ref \in [var : tr.vars, item : {FALSE}] \cup [var : tr.vars, item : {TRUE}]
  BY DEF VT!GetVars, VT!ListsOf
<1>3. QED
  BY <1>1, <1>2

\* Every step keeps what is known of the outputs of functions.
LEMMA NextOutputs ==
  ASSUME IndInv, [Next]_vars, TrackerInv'
  PROVE  OutputsInv'
<1>1. OutputsInv
  BY DEF IndInv
<1>2. ASSUME UNCHANGED <<finished, outputs, pending, taken>> PROVE OutputsInv'
  BY <1>1, <1>2 DEF OutputsInv
<1>3. ASSUME NEW t \in Type,
             \/ DeclareStorage(t) \/ DeclareConstant(t) \/ DeclareParameter(t)
             \/ VarDecl(t) \/ Assign(t) \/ ChangeArray(t)
      PROVE  OutputsInv'
  BY <1>2, <1>3 DEF DeclareStorage, DeclareConstant, DeclareParameter, VarDecl, Assign, ChangeArray
<1>4. ASSUME NEW u \in Unit, StartUnit(u) PROVE OutputsInv'
  BY <1>2, <1>4 DEF StartUnit
<1>5. CASE OpenBody \/ OpenFor \/ OpenIf \/ CloseBlock \/ Evaluate \/ ChangeState
  BY <1>2, <1>5 DEF OpenBody, OpenFor, OpenIf, CloseBlock, Evaluate, ChangeState
<1>6. CASE CloseBody
  <2>1. CASE unit = "init"
    BY <1>2, <1>6, <2>1 DEF CloseBody
  <2>2. CASE unit # "init"
    <3>1. PICK mut \in Mutability, outs \in OutputLists :
            /\ finished' = Append(finished, Higher(mutability, mut))
            /\ outputs' = Append(outputs, outs)
      BY <1>6, <2>2 DEF CloseBody
    <3>2. Higher(mutability, mut) \in Mutability
      BY HigherFacts DEF IndInv, MutabilityInv
    <3>3. outs \in Seq(Type)
      BY ConverterAssumption
    <3>4. UNCHANGED <<pending, taken>>
      BY <1>6 DEF CloseBody
    <3>5. QED
      BY <1>1, <3>1, <3>2, <3>3, <3>4 DEF OutputsInv
  <2>3. QED
    BY <2>1, <2>2
<1>7. ASSUME NEW out, NEW revert \in BOOLEAN, RawCall(out, revert) PROVE OutputsInv'
  BY <1>2, <1>7 DEF RawCall
<1>8. ASSUME NEW f \in Func, Call(f) PROVE OutputsInv'
  <2>1. f \in Nat /\ f < Len(finished) /\ Len(finished) \in Nat
    BY <1>1, <1>8, ConverterAssumption DEF Call, Callees, Func, OutputsInv, IndInv, MutabilityInv
  <2>2. outputs[f + 1] \in Seq(Type)
    BY <1>1, <2>1 DEF OutputsInv
  <2>3. pending' = outputs[f + 1] /\ taken' = {} /\ UNCHANGED <<finished, outputs>>
    BY <1>8 DEF Call
  <2>4. QED
    BY <1>1, <2>2, <2>3 DEF OutputsInv
<1>9. CASE BindOutput
  <2>1. pending' \in Seq(Type) /\ UNCHANGED <<finished, outputs>>
    BY <1>1, <1>9 DEF BindOutput, OutputsInv
  <2>2. tracker \in Tracker /\ tracker' \in Tracker
    BY DEF IndInv, TrackerInv, Sound
  <2>3. PICK ref : \/ /\ ref \in VT!GetVars(tracker, Head(pending), level, TRUE, TRUE)
                      /\ taken' = taken \cup {ref}
                   \/ taken' = taken \cup [var : tracker'.vars \ tracker.vars, item : {FALSE}]
    BY <1>9 DEF BindOutput
  <2>4. ref \in VT!GetVars(tracker, Head(pending), level, TRUE, TRUE)
          => ref \in [var : VT!Variable, item : BOOLEAN]
    BY <2>2, ReferencesVariables, Zenon
  <2>5. [var : tracker'.vars \ tracker.vars, item : {FALSE}]
          \subseteq [var : VT!Variable, item : BOOLEAN]
    BY <2>2 DEF Tracker
  <2>6. taken' \subseteq [var : VT!Variable, item : BOOLEAN]
    BY <1>1, <2>3, <2>4, <2>5, Zenon DEF OutputsInv
  <2>7. QED
    BY <1>1, <2>1, <2>6 DEF OutputsInv
<1>10. CASE PassArguments
  BY <1>1, <1>10 DEF PassArguments, OutputsInv
<1>11. CASE UNCHANGED vars
  BY <1>2, <1>11 DEF vars
<1>12. QED
  BY <1>3, <1>4, <1>5, <1>6, <1>7, <1>8, <1>9, <1>10, <1>11 DEF Next

\* The inductive invariant holds of an empty contract.
LEMMA InitIndInv == Init => IndInv
<1> SUFFICES ASSUME Init PROVE IndInv
  OBVIOUS
<1>1. tracker = VT!Blank /\ TopLevel = 0
  BY DEF Init, TopLevel
<1>2. TrackerInv
  BY <1>1 DEF TrackerInv, Sound, Tracker, NumbersCounted, NamesDiffer, Scoped, VT!Blank
<1>3. BlocksInv
  BY ConverterAssumption DEF Init, BlocksInv
<1>4. MutabilityInv
  BY ConverterAssumption
     DEF Init, MutabilityInv, NoEffect, Effects, Part, Unit, Mutability, PURE, PAYABLE
<1>5. OutputsInv
  BY DEF Init, OutputsInv
<1>6. QED
  BY <1>2, <1>3, <1>4, <1>5 DEF IndInv

\* The four invariants hold in every state of a conversion.
THEOREM Invariance == Spec => []IndInv
<1>1. Init => IndInv
  BY InitIndInv
<1>2. IndInv /\ [Next]_vars => IndInv'
  <2> SUFFICES ASSUME IndInv, [Next]_vars PROVE IndInv'
    OBVIOUS
  <2>1. TrackerInv'
    BY NextTracker
  <2>2. BlocksInv' /\ MutabilityInv' /\ OutputsInv'
    BY <2>1, NextBlocks, NextMutability, NextOutputs DEF IndInv
  <2>3. QED
    BY <2>1, <2>2 DEF IndInv
<1>3. QED
  BY <1>1, <1>2, PTL DEF Spec

\* Every variable of the converter has its type, and its level is that of the innermost
\* block.
THEOREM TypeCorrect == Spec => []TypeOK
<1>1. IndInv => TypeOK
  BY DEF IndInv, TrackerInv, Sound, Tracker, BlocksInv, MutabilityInv, OutputsInv, TypeOK
<1>2. QED
  BY <1>1, Invariance, PTL

\* The variables of the contract that are in scope together have different names.
THEOREM UniqueNames == Spec => []NamesUnique
<1>1. IndInv => NamesUnique
  BY DEF IndInv, TrackerInv, Sound, NamesDiffer, NamesUnique
<1>2. QED
  BY <1>1, Invariance, PTL

\* No variable outlives the block that it was declared in.
THEOREM ScopesAreKept == Spec => []LocalsInScope
<1>1. IndInv => LocalsInScope
  BY DEF IndInv, TrackerInv, Sound, Scoped, TopLevel, LocalsInScope
<1>2. QED
  BY <1>1, Invariance, PTL

=============================================================================
