------------------------- MODULE ExpressionsProofs -------------------------
(***************************************************************************)
(* Proofs about Expressions, for any message, any declared types and any   *)
(* depth of visitors.                                                      *)
(*                                                                         *)
(* A script is run on the types that its visitor sees: its own type and    *)
(* those it has pushed since.  What a script does to them is proved for    *)
(* each script once; the invariant says that every visitor that is running *)
(* is somewhere in such a run.                                             *)
(***************************************************************************)
EXTENDS Expressions, LiteralsProofs, SequenceTheorems, FiniteSetTheorems,
        WellFoundedInduction, TLAPS

(***************************************************************************)
(* Runs of scripts.                                                        *)
(***************************************************************************)

\* The types an expression may have, and the types that may be on the stack.
Visitable == Handled
AllTypes == Visitable \cup {AnyArray}

OpProds == {"binOp", "unOp", "boolOp"}
Modes == {"plain", "operator", "statement", "constant"}

\* The types a visitor sees, and whether it is in an operator or a constant.
St(types, mode) == [types |-> types, mode |-> mode]

\* A statement owns none of the types it sees, an expression its own type.
Least(prod) == IF prod = "statement" THEN 0 ELSE 1

IsASequence(s) == \E S : s \in Seq(S)

\* May the visitor take this step, and what does it change?
Legal(prod, step, s) ==
  \/ step.do = "push" /\ step.type \in AllTypes
  \/ step.do = "pop" /\ Len(s.types) > Least(prod)
  \/ /\ step.do = "read"
     /\ Len(s.types) > 0 /\ s.types[Len(s.types)].class = step.class
  \/ /\ step.do = "visit"
     /\ Len(s.types) > 0 /\ s.types[Len(s.types)].class = step.class
     /\ s.types[Len(s.types)] \in Visitable
     /\ prod \in OpProds => s.mode = "operator"
  \/ step.do = "operator" /\ s.mode = "plain"
  \/ step.do = "operated" /\ s.mode = "operator"
  \/ step.do = "constant" /\ s.mode = "statement"
  \/ step.do = "variable" /\ s.mode = "constant"

TypesAfter(step, types) ==
  CASE step.do = "push" -> Append(types, step.type)
    [] step.do = "pop" -> Front(types)
    [] OTHER -> types

ModeAfter(step, mode) ==
  CASE step.do = "operator" -> "operator"
    [] step.do = "operated" -> "plain"
    [] step.do = "constant" -> "constant"
    [] step.do = "variable" -> "statement"
    [] OTHER -> mode

Effect(step, s) == St(TypesAfter(step, s.types), ModeAfter(step, s.mode))

\* The script takes the visitor from s to e, by legal steps.
Traces(prod, todo, s, e, trace) ==
  /\ trace[1] = s /\ trace[Len(todo) + 1] = e
  /\ \A i \in 1 .. Len(todo) :
       Legal(prod, todo[i], trace[i]) /\ trace[i + 1] = Effect(todo[i], trace[i])

Runs(prod, todo, s, e) ==
  IsASequence(todo) /\ \E trace : Traces(prod, todo, s, e, trace)

\* The empty script runs from a state to itself,
LEMMA RunsNothing ==
  ASSUME NEW prod, NEW s
  PROVE  Runs(prod, <<>>, s, s)
<1>1. Traces(prod, <<>>, s, s, <<s>>)
  BY DEF Traces
<1>2. IsASequence(<<>>)
  <2>1. <<>> \in Seq({})
    OBVIOUS
  <2>2. QED
    BY <2>1 DEF IsASequence
<1>3. QED
  BY <1>1, <1>2 DEF Runs

\* and to nothing else.
LEMMA NothingRuns ==
  ASSUME NEW prod, NEW s, NEW e, Runs(prod, <<>>, s, e)
  PROVE  s = e
  BY DEF Runs, Traces

\* A legal step is a run.
LEMMA RunsStep ==
  ASSUME NEW prod, NEW step, NEW s, NEW e, Legal(prod, step, s), e = Effect(step, s)
  PROVE  Runs(prod, <<step>>, s, e)
<1>1. Traces(prod, <<step>>, s, e, <<s, e>>)
  BY DEF Traces
<1>2. IsASequence(<<step>>)
  <2>1. <<step>> \in Seq({step})
    OBVIOUS
  <2>2. QED
    BY <2>1 DEF IsASequence
<1>3. QED
  BY <1>1, <1>2 DEF Runs

\* Runs are composed,
LEMMA RunsCat ==
  ASSUME NEW prod, NEW a, NEW b, NEW s, NEW m, NEW e,
         Runs(prod, a, s, m), Runs(prod, b, m, e)
  PROVE  Runs(prod, a \o b, s, e)
<1>1. PICK f : Traces(prod, a, s, m, f)
  BY DEF Runs
<1>2. PICK g : Traces(prod, b, m, e, g)
  BY DEF Runs
<1>3. PICK A : a \in Seq(A)
  BY DEF Runs, IsASequence
<1>4. PICK B : b \in Seq(B)
  BY DEF Runs, IsASequence
<1>5. a \in Seq(A \cup B) /\ b \in Seq(A \cup B)
  BY <1>3, <1>4
<1>6. /\ a \o b \in Seq(A \cup B)
      /\ Len(a) \in Nat /\ Len(b) \in Nat
      /\ Len(a \o b) = Len(a) + Len(b)
      /\ \A i \in 1 .. Len(a) : (a \o b)[i] = a[i]
      /\ \A i \in 1 .. Len(b) : (a \o b)[Len(a) + i] = b[i]
  BY <1>5
<1> DEFINE n == Len(a)
           k == Len(b)
           h == [i \in 1 .. n + k + 1 |-> IF i <= n THEN f[i] ELSE g[i - n]]
<1>7. n \in Nat /\ k \in Nat
  BY <1>6
<1>8. f[1] = s /\ f[n + 1] = m /\ g[1] = m /\ g[k + 1] = e
  BY <1>1, <1>2 DEF Traces
<1>9. h[1] = s /\ h[n + k + 1] = e
  <2>1. h[1] = IF 1 <= n THEN f[1] ELSE g[1 - n]
    BY <1>7
  <2>2. h[n + k + 1] = g[k + 1]
    BY <1>7
  <2>3. CASE n = 0
    BY <1>8, <2>1, <2>2, <2>3
  <2>4. CASE n > 0
    BY <1>7, <1>8, <2>1, <2>2, <2>4
  <2>5. QED
    BY <1>7, <2>3, <2>4
<1>10. ASSUME NEW i \in 1 .. n
       PROVE  Legal(prod, (a \o b)[i], h[i]) /\ h[i + 1] = Effect((a \o b)[i], h[i])
  <2>1. Legal(prod, a[i], f[i]) /\ f[i + 1] = Effect(a[i], f[i])
    BY <1>1 DEF Traces
  <2>2. h[i] = f[i] /\ (a \o b)[i] = a[i]
    BY <1>6, <1>7
  <2>3. h[i + 1] = f[i + 1]
    <3>1. CASE i < n
      BY <1>7, <3>1
    <3>2. CASE i = n
      <4>1. h[i + 1] = g[1]
        BY <1>7, <3>2
      <4>2. QED
        BY <1>8, <3>2, <4>1
    <3>3. QED
      BY <1>7, <3>1, <3>2
  <2>4. QED
    BY <2>1, <2>2, <2>3
<1>11. ASSUME NEW i \in 1 .. k
       PROVE  /\ Legal(prod, (a \o b)[n + i], h[n + i])
              /\ h[n + i + 1] = Effect((a \o b)[n + i], h[n + i])
  <2>1. Legal(prod, b[i], g[i]) /\ g[i + 1] = Effect(b[i], g[i])
    BY <1>2 DEF Traces
  <2>2. h[n + i] = g[i] /\ h[n + i + 1] = g[i + 1]
    BY <1>7
  <2>3. (a \o b)[n + i] = b[i]
    BY <1>6
  <2>4. QED
    BY <2>1, <2>2, <2>3
<1> HIDE DEF h
<1>12. ASSUME NEW j \in 1 .. Len(a \o b)
       PROVE  Legal(prod, (a \o b)[j], h[j]) /\ h[j + 1] = Effect((a \o b)[j], h[j])
  <2>1. CASE j <= n
    BY <1>6, <1>7, <1>10, <2>1
  <2>2. CASE j > n
    <3>1. j - n \in 1 .. k /\ j = n + (j - n)
      BY <1>6, <1>7, <2>2
    <3>2. QED
      BY <1>11, <3>1
  <2>3. QED
    BY <1>6, <1>7, <2>1, <2>2
<1>13. Traces(prod, a \o b, s, e, h)
  BY <1>6, <1>7, <1>9, <1>12 DEF Traces
<1>14. QED
  BY <1>6, <1>13 DEF Runs, IsASequence

\* and taken apart, a step at a time.
LEMMA RunsHead ==
  ASSUME NEW prod, NEW todo, NEW s, NEW e, Runs(prod, todo, s, e), todo # <<>>
  PROVE  /\ Legal(prod, Head(todo), s)
         /\ Runs(prod, Tail(todo), Effect(Head(todo), s), e)
<1>1. PICK f : Traces(prod, todo, s, e, f)
  BY DEF Runs
<1>2. PICK S : todo \in Seq(S)
  BY DEF Runs, IsASequence
<1>3. /\ Len(todo) \in Nat \ {0} /\ Head(todo) = todo[1]
      /\ Tail(todo) \in Seq(S) /\ Len(Tail(todo)) = Len(todo) - 1
      /\ \A i \in 1 .. Len(todo) - 1 : Tail(todo)[i] = todo[i + 1]
  BY <1>2
<1> DEFINE n == Len(todo)
           h == [i \in 1 .. n |-> f[i + 1]]
<1>4. Legal(prod, todo[1], s) /\ h[1] = Effect(todo[1], s)
  BY <1>1, <1>3 DEF Traces
<1>5. h[n] = e
  BY <1>1, <1>3 DEF Traces
<1>6. \A i \in 1 .. n - 1 :
        Legal(prod, todo[i + 1], h[i]) /\ h[i + 1] = Effect(todo[i + 1], h[i])
  BY <1>1, <1>3 DEF Traces
<1> HIDE DEF h
<1>7. Traces(prod, Tail(todo), Effect(todo[1], s), e, h)
  BY <1>3, <1>4, <1>5, <1>6 DEF Traces
<1>8. QED
  BY <1>3, <1>4, <1>7 DEF Runs, IsASequence

(***************************************************************************)
(* The steps of a script.                                                  *)
(***************************************************************************)

Deep(prod, types) == types \in Seq(AllTypes) /\ Len(types) >= Least(prod)

\* What is pushed is on top, and what was there before comes back.
LEMMA Pushed ==
  ASSUME NEW S, NEW types \in Seq(S), NEW t \in S
  PROVE  /\ Append(types, t) \in Seq(S)
         /\ Len(Append(types, t)) = Len(types) + 1
         /\ Append(types, t)[Len(types) + 1] = t
         /\ Front(Append(types, t)) = types
<1>1. /\ Append(types, t) \in Seq(S)
      /\ Len(Append(types, t)) = Len(types) + 1
      /\ Append(types, t)[Len(types) + 1] = t
      /\ \A i \in 1 .. Len(types) : Append(types, t)[i] = types[i]
  OBVIOUS
<1>2. Front(Append(types, t)) = [i \in 1 .. Len(types) |-> types[i]]
  BY <1>1 DEF Front
<1>3. QED
  BY <1>1, <1>2

\* A pushed type is the last one that the visitor sees,
LEMMA RunsPush ==
  ASSUME NEW prod, NEW types, NEW mode, Deep(prod, types), NEW t \in AllTypes
  PROVE  Runs(prod, <<Push(t)>>, St(types, mode), St(Append(types, t), mode))
<1>1. Legal(prod, Push(t), St(types, mode))
  BY DEF Legal, Push
<1>2. Effect(Push(t), St(types, mode)) = St(Append(types, t), mode)
  BY DEF Effect, St, Push, TypesAfter, ModeAfter
<1>3. QED
  BY <1>1, <1>2, RunsStep

\* and a popped one is gone.
LEMMA RunsPop ==
  ASSUME NEW prod, NEW types, NEW mode, Deep(prod, types), NEW t \in AllTypes
  PROVE  Runs(prod, <<Pop>>, St(Append(types, t), mode), St(types, mode))
<1>1. Len(Append(types, t)) > Least(prod) /\ Front(Append(types, t)) = types
  BY Pushed DEF Deep, Least
<1>2. Legal(prod, Pop, St(Append(types, t), mode))
  BY <1>1 DEF Legal, Pop, Do, St
<1>3. Effect(Pop, St(Append(types, t), mode)) = St(types, mode)
  BY <1>1 DEF Effect, St, Pop, Do, TypesAfter, ModeAfter
<1>4. QED
  BY <1>2, <1>3, RunsStep

\* What is read or visited for the class of the last type changes no type.
LEMMA RunsRead ==
  ASSUME NEW prod, NEW types \in Seq(AllTypes), NEW mode, NEW t \in AllTypes
  PROVE  Runs(prod, <<Read(t.class)>>, St(Append(types, t), mode),
              St(Append(types, t), mode))
<1> DEFINE all == Append(types, t)
<1>1. Len(all) > 0 /\ all[Len(all)] = t
  BY Pushed
<1> HIDE DEF all
<1>2. Legal(prod, Read(t.class), St(all, mode))
  BY <1>1 DEF Legal, Read, St
<1>3. Effect(Read(t.class), St(all, mode)) = St(all, mode)
  BY DEF Effect, St, Read, TypesAfter, ModeAfter
<1>4. QED
  BY <1>2, <1>3, RunsStep DEF all

\* In a production with an operator, operands are visited while the operator is open.
LEMMA RunsVisit ==
  ASSUME NEW prod, NEW types \in Seq(AllTypes), NEW mode, NEW t \in Visitable,
         prod \in OpProds => mode = "operator"
  PROVE  Runs(prod, <<Visit(t.class)>>, St(Append(types, t), mode),
              St(Append(types, t), mode))
<1> DEFINE all == Append(types, t)
<1>1. Len(all) > 0 /\ all[Len(all)] = t
  BY Pushed DEF AllTypes
<1> HIDE DEF all
<1>2. Legal(prod, Visit(t.class), St(all, mode))
  BY <1>1 DEF Legal, Visit, St
<1>3. Effect(Visit(t.class), St(all, mode)) = St(all, mode)
  BY DEF Effect, St, Visit, TypesAfter, ModeAfter
<1>4. QED
  BY <1>2, <1>3, RunsStep DEF all

(***************************************************************************)
(* Scripts that leave the types as they were: any types, or those with t   *)
(* on top.                                                                 *)
(***************************************************************************)

Keeps(prod, script) ==
  \A types, mode : Deep(prod, types) => Runs(prod, script, St(types, mode), St(types, mode))

KeepsOn(prod, script, t) ==
  \A types \in Seq(AllTypes) : \A mode :
    Runs(prod, script, St(Append(types, t), mode), St(Append(types, t), mode))

\* Scripts that leave the types as they were: the empty one, and one after another.
LEMMA KeepsNothing ==
  ASSUME NEW prod
  PROVE  Keeps(prod, <<>>) /\ \A t : KeepsOn(prod, <<>>, t)
  BY RunsNothing DEF Keeps, KeepsOn

\* Two scripts that leave the types as they were, one after the other.
LEMMA KeepsCat ==
  ASSUME NEW prod, NEW a, NEW b, Keeps(prod, a), Keeps(prod, b)
  PROVE  Keeps(prod, a \o b)
  BY RunsCat DEF Keeps

\* The same on top of a type.
LEMMA KeepsOnCat ==
  ASSUME NEW prod, NEW a, NEW b, NEW t, KeepsOn(prod, a, t), KeepsOn(prod, b, t)
  PROVE  KeepsOn(prod, a \o b, t)
  BY RunsCat DEF KeepsOn

\* Every script of a set of scripts is as good as any.
LEMMA KeepsThen ==
  ASSUME NEW prod, NEW S, NEW T,
         \A s \in S : Keeps(prod, s), \A s \in T : Keeps(prod, s),
         NEW script \in Then(S, T)
  PROVE  Keeps(prod, script)
<1>1. PICK a \in S, b \in T : script = a \o b
  BY DEF Then
<1>2. QED
  BY <1>1, KeepsCat

\* Every choice of two such scripts, one after the other.
LEMMA KeepsOnThen ==
  ASSUME NEW prod, NEW S, NEW T, NEW t,
         \A s \in S : KeepsOn(prod, s, t), \A s \in T : KeepsOn(prod, s, t),
         NEW script \in Then(S, T)
  PROVE  KeepsOn(prod, script, t)
<1>1. PICK a \in S, b \in T : script = a \o b
  BY DEF Then
<1>2. QED
  BY <1>1, KeepsOnCat

\* What keeps any types keeps those with t on top.
LEMMA KeepsIsOn ==
  ASSUME NEW prod, NEW script, NEW t \in AllTypes, Keeps(prod, script)
  PROVE  KeepsOn(prod, script, t)
<1> SUFFICES ASSUME NEW types \in Seq(AllTypes) PROVE Deep(prod, Append(types, t))
  BY DEF Keeps, KeepsOn
<1>1. QED
  BY Pushed DEF Deep, Least

\* A script between the push and the pop of the type it is on.
LEMMA KeepsWrapped ==
  ASSUME NEW prod, NEW script, NEW t \in AllTypes, KeepsOn(prod, script, t)
  PROVE  Keeps(prod, <<Push(t)>> \o script \o <<Pop>>)
<1> SUFFICES ASSUME NEW types, NEW mode, Deep(prod, types)
             PROVE  Runs(prod, <<Push(t)>> \o script \o <<Pop>>, St(types, mode), St(types, mode))
  BY DEF Keeps
<1>1. Runs(prod, script, St(Append(types, t), mode), St(Append(types, t), mode))
  BY DEF KeepsOn, Deep
<1>2. Runs(prod, <<Push(t)>> \o script, St(types, mode), St(Append(types, t), mode))
  BY <1>1, RunsPush, RunsCat
<1>3. QED
  BY <1>2, RunsPop, RunsCat

\* One read, or one visit, on top of its type.
LEMMA KeepsRead ==
  ASSUME NEW prod, NEW t \in AllTypes
  PROVE  KeepsOn(prod, <<Read(t.class)>>, t)
  BY RunsRead DEF KeepsOn

\* Outside of operators, a visit on top of its type.
LEMMA KeepsVisit ==
  ASSUME NEW prod, prod \notin OpProds, NEW t \in Visitable
  PROVE  KeepsOn(prod, <<Visit(t.class)>>, t)
  BY RunsVisit DEF KeepsOn

\* Any number of visits.
LEMMA KeepsVisits ==
  ASSUME NEW prod, prod \notin OpProds, NEW t \in Visitable, NEW n \in Nat
  PROVE  KeepsOn(prod, Visits(t.class, n), t)
<1> DEFINE script == Visits(t.class, n)
<1> SUFFICES ASSUME NEW types \in Seq(AllTypes), NEW mode
             PROVE  Runs(prod, script, St(Append(types, t), mode), St(Append(types, t), mode))
  BY DEF KeepsOn
<1> DEFINE all == Append(types, t)
           s == St(all, mode)
           trace == [i \in 1 .. n + 1 |-> s]
<1>1. Len(all) > 0 /\ all[Len(all)] = t
  BY Pushed DEF AllTypes
<1> HIDE DEF all
<1>2. Legal(prod, Visit(t.class), s) /\ Effect(Visit(t.class), s) = s
  <2>1. Legal(prod, Visit(t.class), s)
    BY <1>1 DEF Legal, Visit, St
  <2>2. Effect(Visit(t.class), s) = s
    BY DEF Effect, St, Visit, TypesAfter, ModeAfter
  <2>3. QED
    BY <2>1, <2>2
<1> HIDE DEF s
<1>3. /\ script \in Seq({Visit(t.class)}) /\ Len(script) = n
      /\ \A i \in 1 .. n : script[i] = Visit(t.class)
  BY DEF Visits
<1> HIDE DEF script
<1>4. Traces(prod, script, s, s, trace)
  BY <1>2, <1>3 DEF Traces
<1>5. Runs(prod, script, s, s)
  BY <1>3, <1>4 DEF Runs, IsASequence
<1>6. QED
  BY <1>5 DEF s, all, script

\* The rests of short scripts, in the pieces they are put together from.
LEMMA Pieces ==
  /\ \A a, b : <<a, b>> = <<a>> \o <<b>>
  /\ \A a, b, c : <<a, b, c>> = <<a>> \o <<b>> \o <<c>>
  /\ \A a, b, c, d : <<a, b, c, d>> = <<a>> \o <<b, c>> \o <<d>>
<1>1. ASSUME NEW a, NEW b PROVE <<a, b>> = <<a>> \o <<b>>
  <2>1. <<a>> \in Seq({a, b}) /\ <<b>> \in Seq({a, b}) /\ <<a, b>> \in Seq({a, b})
    OBVIOUS
  <2>2. /\ Len(<<a>> \o <<b>>) = 2
        /\ (<<a>> \o <<b>>)[1] = a /\ (<<a>> \o <<b>>)[2] = b
    OBVIOUS
  <2>3. <<a>> \o <<b>> \in Seq({a, b})
    BY <2>1
  <2>4. /\ Len(<<a, b>>) = Len(<<a>> \o <<b>>)
        /\ \A i \in 1 .. Len(<<a, b>>) : <<a, b>>[i] = (<<a>> \o <<b>>)[i]
    BY <2>2
  <2>5. QED
    BY <2>1, <2>3, <2>4, SeqEqual
<1>2. ASSUME NEW a, NEW b, NEW c PROVE <<a, b, c>> = <<a>> \o <<b>> \o <<c>>
  <2>1. <<a, b, c>> = <<a, b>> \o <<c>>
    OBVIOUS
  <2>2. QED
    BY <1>1, <2>1
<1>3. ASSUME NEW a, NEW b, NEW c, NEW d
      PROVE  <<a, b, c, d>> = <<a>> \o <<b, c>> \o <<d>>
  <2>1. <<a, b, c, d>> = <<a, b, c>> \o <<d>>
    OBVIOUS
  <2>2. <<a, b, c>> = <<a>> \o <<b, c>>
    OBVIOUS
  <2>3. QED
    BY <2>1, <2>2
<1>4. QED
  BY <1>1, <1>2, <1>3

\* An expression visited for its caller.
LEMMA KeepsIn ==
  ASSUME NEW prod, prod \notin OpProds, NEW t \in Visitable
  PROVE  Keeps(prod, In(t))
<1>1. In(t) = <<Push(t)>> \o <<Visit(t.class)>> \o <<Pop>>
  BY Pieces DEF In
<1>2. t \in AllTypes
  BY DEF AllTypes
<1>3. QED
  BY <1>1, <1>2, KeepsVisit, KeepsWrapped

(***************************************************************************)
(* The types in the scripts.                                               *)
(***************************************************************************)

\* Integers of all sizes up to a word may be the type of an expression.
LEMMA IntIsVisitable ==
  ASSUME NEW n \in 1 .. Word, NEW signed \in BOOLEAN
  PROVE  IntN(n, signed) \in Visitable /\ IntN(n, signed).class = "INT"
<1>1. IntN(n, signed) \in IntTypes /\ IntN(n, signed).class = "INT"
  BY DEF IntN, IntTypes
<1>2. QED
  BY <1>1 DEF Visitable, Handled, Scalars

\* So may the integers that the code pushes itself (uint256),
LEMMA UintIsVisitable ==
  Uint256 \in Visitable /\ Uint256.class = "INT" /\ Uint256 \in IntTypes
<1>1. Word \in 1 .. Word
  BY WordIsPositive
<1>2. QED
  BY <1>1, IntIsVisitable DEF Uint256, IntN, IntTypes

\* types that have a size or nothing,
LEMMA SizedIsVisitable ==
  ASSUME NEW class \in {"DECIMAL", "BOOL", "ADDRESS", "BYTESM", "BYTES", "STRING"},
         NEW m \in Nat
  PROVE  /\ Sized(class, m) \in Visitable /\ Sized(class, m).class = class
         /\ Sized(class, m) \in SizedTypes
<1>1. Sized(class, m) \in SizedTypes /\ Sized(class, m).class = class
  BY DEF Sized, SizedTypes
<1>2. QED
  BY <1>1 DEF Visitable, Handled, Scalars

\* byte arrays and strings of every size,
LEMMA SizedTypesVisitable ==
  ASSUME NEW m \in Nat
  PROVE  /\ BytesM(m) \in Visitable /\ BytesM(m).class = "BYTESM"
         /\ Bytes(m) \in Visitable /\ Bytes(m).class = "BYTES"
         /\ String(m) \in Visitable /\ String(m).class = "STRING"
  BY SizedIsVisitable DEF BytesM, Bytes, String

\* decimals, booleans and addresses,
LEMMA PlainTypesVisitable ==
  /\ Plain("DECIMAL") \in Visitable /\ Plain("DECIMAL").class = "DECIMAL"
  /\ Plain("BOOL") \in Visitable /\ Plain("BOOL").class = "BOOL"
  /\ Plain("ADDRESS") \in Visitable /\ Plain("ADDRESS").class = "ADDRESS"
  BY SizedIsVisitable DEF Plain

\* and lists of all of these.
LEMMA ListIsVisitable ==
  ASSUME NEW t \in IntTypes \cup SizedTypes, NEW n \in Nat \ {0}
  PROVE  List(n, t, FALSE) \in Visitable /\ List(n, t, FALSE).class = "LIST"
<1>1. List(n, t, FALSE) \in FixedLists
  BY DEF List, FixedLists, Scalars
<1>2. QED
  BY <1>1 DEF Visitable, Handled, List

\* A type that may be visited has a size, and the items of a list, of which there are some,
\* may be visited too.
LEMMA VisitableShape ==
  ASSUME NEW t \in Visitable
  PROVE  /\ t.class \in {"INT", "DECIMAL", "BOOL", "ADDRESS", "BYTESM", "BYTES",
                         "STRING", "LIST"}
         /\ t.size \in Nat
         /\ t.class = "INT" => t \in IntTypes
         /\ t.class = "LIST" =>
              t.base \in Visitable /\ t.size # 0 /\ (~ t.dynamic => t.base.class # "LIST")
<1>1. Visitable = IntTypes \cup SizedTypes \cup FixedLists \cup DynArrays
  BY DEF Visitable, Handled, Scalars
<1>2. \A s \in Scalars : s.class # "LIST" /\ s \in Visitable
  BY <1>1 DEF Scalars, IntTypes, SizedTypes
<1>3. CASE t \in IntTypes
  BY <1>3, WordIsPositive DEF IntTypes
<1>4. CASE t \in SizedTypes
  BY <1>4 DEF SizedTypes
<1>5. CASE t \in FixedLists
  <2>1. t.class = "LIST" /\ t.size \in Nat \ {0} /\ t.base \in Scalars
    BY <1>5 DEF FixedLists
  <2>2. QED
    BY <1>2, <2>1
<1>6. CASE t \in DynArrays
  <2>1. /\ t.class = "LIST" /\ t.size \in Nat \ {0} /\ t.dynamic = TRUE
        /\ t.base \in Scalars \cup FixedLists
    BY <1>6 DEF DynArrays
  <2>2. QED
    BY <1>1, <1>2, <2>1
<1>7. QED
  BY <1>1, <1>3, <1>4, <1>5, <1>6

\* The types of a convert may be visited.
LEMMA InputsVisitable ==
  ASSUME NEW t \in Visitable, NEW i \in Inputs(t)
  PROVE  i \in Visitable
<1>1. CASE i \in InputInts
  <2>1. PICK n \in Raw, signed \in BOOLEAN : i = IntN(IntSize(n), signed)
    BY <1>1 DEF InputInts
  <2>2. n \in Nat
    BY MessageAssumption
  <2>3. IntSize(n) \in 1 .. Word
    <3>1. PICK bytes \in 1 .. WordBytes : IntSize(n) = ByteBits * bytes
      BY <2>2, IntSizeIsLegal
    <3>2. /\ ByteBits \in Nat \ {0} /\ WordBytes \in Nat \ {0}
          /\ Word = ByteBits * WordBytes
      BY LiteralsAssumption DEF Word
    <3>3. ByteBits * bytes >= 1 /\ ByteBits * bytes <= ByteBits * WordBytes
      BY <3>2
    <3>4. QED
      BY <3>1, <3>2, <3>3
  <2>4. QED
    BY <2>1, <2>3, IntIsVisitable
<1>2. CASE i \in InputBytesMs
  <2>1. PICK m \in Raw : i = BytesM(BytesMSize(m))
    BY <1>2 DEF InputBytesMs
  <2>2. BytesMSize(m) \in Nat
    BY MessageAssumption, BytesMSizeIsLegal
  <2>3. QED
    BY <2>1, <2>2, SizedTypesVisitable
<1>3. CASE i \in {Plain("DECIMAL"), Plain("BOOL"), Plain("ADDRESS")}
  BY <1>3, PlainTypesVisitable
<1>4. CASE i \in ConvertBytes(t) \cup ConvertString(t)
  <2>1. WordBytes \in Nat /\ t.size \in Nat /\ CutTo(WordBytes, t.size) \in Nat
    BY LiteralsAssumption, VisitableShape DEF CutTo
  <2>2. i \in {Bytes(WordBytes), Bytes(CutTo(WordBytes, t.size)), String(WordBytes),
               String(t.size)}
    BY <1>4 DEF ConvertBytes, ConvertString
  <2>3. QED
    BY <2>1, <2>2, SizedTypesVisitable
<1>5. QED
  BY <1>1, <1>2, <1>3, <1>4
     DEF Inputs, ConvertInt, ConvertDecimal, ConvertBool, ConvertAddress, ConvertBytesM

(***************************************************************************)
(* The scripts of the expressions.                                         *)
(***************************************************************************)

\* An operator is opened before its one or two operands, and closed after them.
LEMMA OperatorScript ==
  ASSUME NEW c
  PROVE  /\ Operator(<<c>>) = <<Do("operator"), Visit(c), Do("operated")>>
         /\ Operator(<<c, c>>) = <<Do("operator"), Visit(c), Visit(c), Do("operated")>>
<1>1. [i \in DOMAIN <<c>> |-> Visit(<<c>>[i])] = <<Visit(c)>>
  OBVIOUS
<1>2. [i \in DOMAIN <<c, c>> |-> Visit(<<c, c>>[i])] = <<Visit(c), Visit(c)>>
  OBVIOUS
<1> DEFINE o == Do("operator")
           v == Visit(c)
           e == Do("operated")
<1>3. /\ Operator(<<c>>) = <<o>> \o <<v>> \o <<e>>
      /\ Operator(<<c, c>>) = <<o>> \o <<v, v>> \o <<e>>
  BY <1>1, <1>2 DEF Operator
<1> HIDE DEF o, v, e
<1>4. <<o, v, e>> = <<o>> \o <<v>> \o <<e>>
  BY Pieces
<1>5. <<o, v, v, e>> = <<o>> \o <<v, v>> \o <<e>>
  BY Pieces
<1>6. Operator(<<c>>) = <<o, v, e>> /\ Operator(<<c, c>>) = <<o, v, v, e>>
  BY <1>3, <1>4, <1>5
<1>7. QED
  BY <1>6 DEF o, v, e

\* One or two steps that change nothing, between two that cancel each other.
LEMMA RunsBetween ==
  ASSUME NEW prod, NEW o, NEW v, NEW e, NEW s, NEW m,
         Runs(prod, <<o>>, s, m), Runs(prod, <<v>>, m, m), Runs(prod, <<e>>, m, s)
  PROVE  Runs(prod, <<o, v, e>>, s, s) /\ Runs(prod, <<o, v, v, e>>, s, s)
<1>1. <<o, v, e>> = <<o>> \o <<v>> \o <<e>>
  BY Pieces
<1>2. <<o, v, v, e>> = <<o>> \o <<v, v>> \o <<e>>
  BY Pieces, SMTT(30)
<1>3. <<v, v>> = <<v>> \o <<v>>
  BY Pieces
<1>4. Runs(prod, <<o>> \o <<v>>, s, m) /\ Runs(prod, <<v, v>>, m, m)
  BY <1>3, RunsCat
<1>5. Runs(prod, <<o>> \o <<v, v>>, s, m)
  BY <1>4, RunsCat
<1>6. Runs(prod, <<o>> \o <<v>> \o <<e>>, s, s)
  BY <1>4, RunsCat
<1>7. Runs(prod, <<o>> \o <<v, v>> \o <<e>>, s, s)
  BY <1>5, RunsCat
<1>8. QED
  BY <1>1, <1>2, <1>6, <1>7

\* An operator visits its operands inside of itself, on the type that is on top.
LEMMA RunsOperator ==
  ASSUME NEW prod, NEW types \in Seq(AllTypes), NEW t \in Visitable,
         NEW script \in {Operator(<<t.class>>), Operator(<<t.class, t.class>>)}
  PROVE  Runs(prod, script, St(Append(types, t), "plain"), St(Append(types, t), "plain"))
<1> DEFINE all == Append(types, t)
<1>1. Runs(prod, <<Do("operator")>>, St(all, "plain"), St(all, "operator"))
  <2>1. Legal(prod, Do("operator"), St(all, "plain"))
    BY DEF Legal, Do, St
  <2>2. Effect(Do("operator"), St(all, "plain")) = St(all, "operator")
    BY DEF Effect, Do, St, TypesAfter, ModeAfter
  <2>3. QED
    BY <2>1, <2>2, RunsStep
<1>2. Runs(prod, <<Do("operated")>>, St(all, "operator"), St(all, "plain"))
  <2>1. Legal(prod, Do("operated"), St(all, "operator"))
    BY DEF Legal, Do, St
  <2>2. Effect(Do("operated"), St(all, "operator")) = St(all, "plain")
    BY DEF Effect, Do, St, TypesAfter, ModeAfter
  <2>3. QED
    BY <2>1, <2>2, RunsStep
<1>3. Runs(prod, <<Visit(t.class)>>, St(all, "operator"), St(all, "operator"))
  BY RunsVisit
<1>4. /\ Operator(<<t.class>>) = <<Do("operator"), Visit(t.class), Do("operated")>>
      /\ Operator(<<t.class, t.class>>) =
           <<Do("operator"), Visit(t.class), Visit(t.class), Do("operated")>>
  BY OperatorScript
<1> HIDE DEF all
<1>5. Runs(prod, Operator(<<t.class>>), St(all, "plain"), St(all, "plain"))
  BY <1>1, <1>2, <1>3, <1>4, RunsBetween
<1>6. Runs(prod, Operator(<<t.class, t.class>>), St(all, "plain"), St(all, "plain"))
  BY <1>1, <1>2, <1>3, <1>4, RunsBetween
<1>7. QED
  BY <1>5, <1>6 DEF all

\* A comparison has a type of its own.
LEMMA RunsComparison ==
  ASSUME NEW types, NEW t \in Visitable, Deep("boolOp", types)
  PROVE  Runs("boolOp", Comparison(t.class, t), St(types, "plain"), St(types, "plain"))
<1>1. t \in AllTypes
  BY DEF AllTypes
<1>2. Runs("boolOp", Operator(<<t.class, t.class>>), St(Append(types, t), "plain"),
           St(Append(types, t), "plain"))
  BY RunsOperator DEF Deep
<1>3. Runs("boolOp", <<Push(t)>> \o Operator(<<t.class, t.class>>), St(types, "plain"),
           St(Append(types, t), "plain"))
  BY <1>1, <1>2, RunsPush, RunsCat
<1>4. QED
  BY <1>1, <1>3, RunsPop, RunsCat DEF Comparison

\* visit_ecrecover.
LEMMA KeepsEcRecover ==
  ASSUME NEW prod, prod \notin OpProds, NEW script \in EcRecover
  PROVE  Keeps(prod, script)
<1> DEFINE M == BytesM(WordBytes)
<1>1. /\ M \in Visitable /\ M.class = "BYTESM" /\ M \in AllTypes
      /\ Uint256 \in Visitable /\ Uint256.class = "INT" /\ Uint256 \in AllTypes
  <2>1. M \in Visitable /\ M.class = "BYTESM"
    BY SizedTypesVisitable, LiteralsAssumption
  <2>2. QED
    BY <2>1, UintIsVisitable DEF AllTypes
<1> HIDE DEF M
<1> DEFINE recover(v8, n) ==
             <<Push(M), Visit("BYTESM")>> \o v8 \o Visits("BYTESM", n)
               \o <<Pop, Push(Uint256)>>
               \o Visits("INT", IF v8 = <<>> THEN 3 - n ELSE 2 - n) \o <<Pop>>
           Vs == Optional(In(IntN(ByteBits, FALSE)))
           Ns == 0 .. 2
<1>19. EcRecover = {recover(v8, n) : v8 \in Vs, n \in Ns}
  BY DEF EcRecover, M
<1> HIDE DEF recover, Vs, Ns
<1>2. PICK v8 \in Vs, n \in Ns : script = recover(v8, n)
  BY <1>19
<1> USE DEF Vs, Ns
<1> DEFINE k == IF v8 = <<>> THEN 3 - n ELSE 2 - n
           ms == Visits("BYTESM", n)
           us == Visits("INT", k)
<1>3. KeepsOn(prod, v8, M)
  <2>1. ByteBits \in 1 .. Word
    <3>1. /\ ByteBits \in Nat \ {0} /\ WordBytes \in Nat \ {0}
          /\ Word = ByteBits * WordBytes
      BY LiteralsAssumption DEF Word
    <3>2. ByteBits * 1 <= ByteBits * WordBytes
      BY <3>1
    <3>3. QED
      BY <3>1, <3>2
  <2>2. Keeps(prod, In(IntN(ByteBits, FALSE)))
    BY <2>1, IntIsVisitable, KeepsIn
  <2>3. QED
    BY <1>1, <1>2, <2>2, KeepsNothing, KeepsIsOn DEF Optional
<1>4. KeepsOn(prod, ms, M)
  <2>1. n \in Nat
    OBVIOUS
  <2>2. QED
    BY <1>1, <2>1, KeepsVisits
<1>5. KeepsOn(prod, us, Uint256)
  <2>1. k \in Nat
    OBVIOUS
  <2> HIDE DEF k
  <2>2. QED
    BY <1>1, <2>1, KeepsVisits
<1>6. <<Push(M), Visit("BYTESM")>> = <<Push(M)>> \o <<Visit("BYTESM")>>
      /\ <<Pop, Push(Uint256)>> = <<Pop>> \o <<Push(Uint256)>>
  BY Pieces
<1>7. KeepsOn(prod, <<Visit("BYTESM")>>, M)
  BY <1>1, KeepsVisit
<1> HIDE DEF ms, us
<1> SUFFICES ASSUME NEW types, NEW mode, Deep(prod, types)
             PROVE  Runs(prod, script, St(types, mode), St(types, mode))
  BY DEF Keeps
<1> DEFINE s == St(types, mode)
           m == St(Append(types, M), mode)
           u == St(Append(types, Uint256), mode)
<1>8. Runs(prod, <<Push(M)>>, s, m) /\ Runs(prod, <<Pop>>, m, s)
  BY <1>1, RunsPush, RunsPop
<1>9. Runs(prod, <<Push(Uint256)>>, s, u) /\ Runs(prod, <<Pop>>, u, s)
  BY <1>1, RunsPush, RunsPop
<1>10. /\ Runs(prod, <<Visit("BYTESM")>>, m, m) /\ Runs(prod, v8, m, m)
       /\ Runs(prod, ms, m, m) /\ Runs(prod, us, u, u)
  BY <1>3, <1>4, <1>5, <1>7 DEF KeepsOn, Deep
<1> HIDE DEF s, m, u
<1>11. Runs(prod, <<Push(M), Visit("BYTESM")>>, s, m)
  BY <1>6, <1>8, <1>10, RunsCat
<1>12. Runs(prod, <<Push(M), Visit("BYTESM")>> \o v8, s, m)
  BY <1>10, <1>11, RunsCat
<1>13. Runs(prod, <<Push(M), Visit("BYTESM")>> \o v8 \o ms, s, m)
  BY <1>10, <1>12, RunsCat
<1>14. Runs(prod, <<Pop, Push(Uint256)>>, m, u)
  BY <1>6, <1>8, <1>9, RunsCat
<1>15. Runs(prod, <<Push(M), Visit("BYTESM")>> \o v8 \o ms \o <<Pop, Push(Uint256)>>, s, u)
  BY <1>13, <1>14, RunsCat
<1>16. Runs(prod, <<Push(M), Visit("BYTESM")>> \o v8 \o ms \o <<Pop, Push(Uint256)>> \o us,
            s, u)
  BY <1>10, <1>15, RunsCat
<1>17. Runs(prod, <<Push(M), Visit("BYTESM")>> \o v8 \o ms \o <<Pop, Push(Uint256)>> \o us
                    \o <<Pop>>, s, s)
  BY <1>9, <1>16, RunsCat
<1>18. QED
  BY <1>2, <1>17 DEF s, ms, us, recover

\* _visit_raw_call, whatever the response and the success keep of the types.
LEMMA KeepsRawCall ==
  ASSUME NEW prod, prod \notin OpProds, NEW responses, NEW successes,
         \A a \in responses : KeepsOn(prod, a, Uint256),
         \A a \in successes : KeepsOn(prod, a, Plain("BOOL")),
         NEW script \in RawCallScripts(responses, successes)
  PROVE  Keeps(prod, script)
<1> DEFINE B == Plain("BOOL")
<1> DEFINE rawCall(response, gas, success) ==
             RawCallArguments \o <<Push(Uint256), Read("INT")>> \o response \o gas
               \o RawCallFlags \o success \o <<Pop>>
<1>0. RawCallScripts(responses, successes) =
        {rawCall(response, gas, success) :
           response \in responses, gas \in RawCallGas, success \in successes}
  BY DEF RawCallScripts
<1> HIDE DEF rawCall
<1>21. PICK response \in responses, gas \in RawCallGas, success \in successes :
         script = rawCall(response, gas, success)
  BY <1>0
<1>1. script = RawCallArguments \o <<Push(Uint256), Read("INT")>> \o response \o gas
                 \o RawCallFlags \o success \o <<Pop>>
  BY <1>21 DEF rawCall
<1>2. /\ B \in Visitable /\ B.class = "BOOL" /\ B \in AllTypes
      /\ Uint256 \in Visitable /\ Uint256.class = "INT" /\ Uint256 \in AllTypes
  BY UintIsVisitable, PlainTypesVisitable DEF AllTypes
<1>3. KeepsOn(prod, response, Uint256) /\ KeepsOn(prod, success, B)
  OBVIOUS
<1> HIDE DEF B
<1>4. KeepsOn(prod, gas, Uint256)
  <2>1. KeepsOn(prod, <<Visit("INT")>>, Uint256)
    BY <1>2, KeepsVisit
  <2>2. <<Visit("INT"), Visit("INT")>> = <<Visit("INT")>> \o <<Visit("INT")>>
    BY Pieces
  <2>3. QED
    BY <2>1, <2>2, KeepsOnCat, KeepsNothing DEF RawCallGas
<1>5. KeepsOn(prod, <<Read("INT")>>, Uint256) /\ KeepsOn(prod, <<Read("BOOL")>>, B)
  BY <1>2, KeepsRead
<1>6. /\ <<Push(Uint256), Read("INT")>> = <<Push(Uint256)>> \o <<Read("INT")>>
      /\ RawCallFlags = <<Pop>> \o <<Push(B)>> \o <<Read("BOOL")>>
  <2>1. RawCallFlags = <<Pop, Push(B), Read("BOOL")>>
    BY DEF RawCallFlags, B
  <2>2. <<Pop, Push(B), Read("BOOL")>> = <<Pop>> \o <<Push(B)>> \o <<Read("BOOL")>>
    BY Pieces
  <2>3. <<Push(Uint256), Read("INT")>> = <<Push(Uint256)>> \o <<Read("INT")>>
    BY Pieces
  <2>4. QED
    BY <2>1, <2>2, <2>3
<1>7. Keeps(prod, RawCallArguments)
  <2>1. Plain("ADDRESS") \in Visitable /\ Bytes(TextSize) \in Visitable
    BY PlainTypesVisitable, SizedTypesVisitable, MessageAssumption
  <2>2. QED
    BY <2>1, KeepsIn, KeepsCat DEF RawCallArguments
<1> SUFFICES ASSUME NEW types, NEW mode, Deep(prod, types)
             PROVE  Runs(prod, script, St(types, mode), St(types, mode))
  BY DEF Keeps
<1> DEFINE s == St(types, mode)
           u == St(Append(types, Uint256), mode)
           b == St(Append(types, B), mode)
           args == RawCallArguments
           limit == <<Push(Uint256), Read("INT")>>
<1>8. Runs(prod, args, s, s)
  BY <1>7 DEF Keeps
<1>9. Runs(prod, <<Push(Uint256)>>, s, u) /\ Runs(prod, <<Pop>>, u, s)
  BY <1>2, RunsPush, RunsPop
<1>10. Runs(prod, <<Push(B)>>, s, b) /\ Runs(prod, <<Pop>>, b, s)
  BY <1>2, RunsPush, RunsPop
<1>11. /\ Runs(prod, <<Read("INT")>>, u, u) /\ Runs(prod, response, u, u)
       /\ Runs(prod, gas, u, u)
       /\ Runs(prod, <<Read("BOOL")>>, b, b) /\ Runs(prod, success, b, b)
  BY <1>3, <1>4, <1>5 DEF KeepsOn, Deep
<1> HIDE DEF s, u, b, args
<1>12. Runs(prod, limit, s, u)
  BY <1>6, <1>9, <1>11, RunsCat
<1>13. Runs(prod, RawCallFlags, u, b)
  <2>1. Runs(prod, <<Pop>> \o <<Push(B)>>, u, b)
    BY <1>9, <1>10, RunsCat
  <2>2. QED
    BY <1>6, <1>11, <2>1, RunsCat
<1> HIDE DEF limit
<1>14. Runs(prod, args \o limit, s, u)
  BY <1>8, <1>12, RunsCat
<1>15. Runs(prod, args \o limit \o response, s, u)
  BY <1>11, <1>14, RunsCat
<1>16. Runs(prod, args \o limit \o response \o gas, s, u)
  BY <1>11, <1>15, RunsCat
<1>17. Runs(prod, args \o limit \o response \o gas \o RawCallFlags, s, b)
  BY <1>13, <1>16, RunsCat
<1>18. Runs(prod, args \o limit \o response \o gas \o RawCallFlags \o success, s, b)
  BY <1>11, <1>17, RunsCat
<1>19. Runs(prod, args \o limit \o response \o gas \o RawCallFlags \o success \o <<Pop>>, s, s)
  BY <1>10, <1>18, RunsCat
<1>20. QED
  BY <1>1, <1>19 DEF s, args, limit

\* visit_create_min_proxy_or_copy_of, visit_create_from_blueprint: on an address.
LEMMA KeepsCreate ==
  ASSUME NEW prod, prod \notin OpProds, NEW t \in Visitable, t.class = "ADDRESS",
         NEW script \in CreateCopy \cup CreateFromBlueprint
  PROVE  KeepsOn(prod, script, t)
<1>1. t \in AllTypes
  BY DEF AllTypes
<1>2. /\ Keeps(prod, In(Uint256)) /\ Keeps(prod, In(BytesM(WordBytes)))
      /\ Keeps(prod, In(Bytes(TextSize)))
  <2>1. /\ Uint256 \in Visitable /\ BytesM(WordBytes) \in Visitable
        /\ Bytes(TextSize) \in Visitable
    BY UintIsVisitable, SizedTypesVisitable, LiteralsAssumption, MessageAssumption
  <2>2. QED
    BY <2>1, KeepsIn
<1>3. /\ \A s \in Optional(In(Uint256)) : Keeps(prod, s)
      /\ \A s \in Optional(In(BytesM(WordBytes))) : Keeps(prod, s)
      /\ \A s \in Optional(In(Bytes(TextSize))) : Keeps(prod, s)
  BY <1>2, KeepsNothing DEF Optional
<1>4. \A s \in CreateEnd : Keeps(prod, s)
  BY <1>3, KeepsThen DEF CreateEnd
<1>5. \A s \in {<<Visit("ADDRESS")>>} : KeepsOn(prod, s, t)
  BY KeepsVisit
<1>6. \A s \in RawArgs : Keeps(prod, s)
  <2> DEFINE flag == <<Push(Plain("BOOL")), Read("BOOL"), Pop>>
  <2>1. Keeps(prod, flag)
    <3>1. flag = <<Push(Plain("BOOL"))>> \o <<Read("BOOL")>> \o <<Pop>>
      BY Pieces
    <3>2. Plain("BOOL") \in AllTypes /\ Plain("BOOL").class = "BOOL"
      BY PlainTypesVisitable DEF AllTypes
    <3>3. QED
      BY <3>1, <3>2, KeepsRead, KeepsWrapped
  <2> HIDE DEF flag
  <2>2. RawArgs = {flag \o arg : arg \in Optional(In(Bytes(TextSize)))}
    BY DEF RawArgs, flag
  <2>3. ASSUME NEW s \in RawArgs PROVE Keeps(prod, s)
    <3>1. PICK arg \in Optional(In(Bytes(TextSize))) : s = flag \o arg
      BY <2>2
    <3>2. Keeps(prod, arg)
      BY <1>3
    <3>3. QED
      BY <2>1, <3>1, <3>2, KeepsCat
  <2>4. QED
    BY <2>3
<1>7. CASE script \in CreateCopy
  <2>1. \A s \in CreateEnd : KeepsOn(prod, s, t)
    BY <1>1, <1>4, KeepsIsOn
  <2>2. QED
    BY <1>5, <1>7, <2>1, KeepsOnThen DEF CreateCopy
<1>8. CASE script \in CreateFromBlueprint
  <2> DEFINE first == {<<>>} \cup RawArgs
             second == Then(Optional(In(Uint256)), CreateEnd)
  <2>1. \A s \in first : Keeps(prod, s)
    BY <1>6, KeepsNothing
  <2>2. \A s \in second : Keeps(prod, s)
    BY <1>3, <1>4, KeepsThen
  <2> HIDE DEF first, second
  <2>3. \A s \in Then(first, second) : KeepsOn(prod, s, t)
    BY <1>1, <2>1, <2>2, KeepsThen, KeepsIsOn
  <2>4. CreateFromBlueprint = Then({<<Visit("ADDRESS")>>}, Then(first, second))
    BY DEF CreateFromBlueprint, first, second
  <2>5. QED
    BY <1>5, <1>8, <2>3, <2>4, KeepsOnThen
<1>9. QED
  BY <1>7, <1>8

\* _visit_hash256.
LEMMA KeepsHash ==
  ASSUME NEW prod, prod \notin OpProds, NEW script \in Hash
  PROVE  Keeps(prod, script)
<1>1. /\ String(TextSize) \in Visitable /\ Bytes(TextSize) \in Visitable
      /\ BytesM(WordBytes) \in Visitable
  BY SizedTypesVisitable, LiteralsAssumption, MessageAssumption
<1>2. QED
  BY <1>1, KeepsIn DEF Hash

\* What is scaled are sizes,
LEMMA ScaledSizes ==
  ASSUME NEW a \in Raw, NEW b \in Raw, NEW max \in Nat
  PROVE  /\ Scaled(a, b, max)[1] \in Nat /\ Scaled(a, b, max)[2] \in Nat
         /\ Scaled(a, b, max)[1] + Scaled(a, b, max)[2] <= max
<1>1. a \in Nat /\ b \in Nat
  BY MessageAssumption
<1>2. Scaled(a, b, max)[1] + Scaled(a, b, max)[2] <= max
  BY <1>1, ScaledFits
<1>3. CASE a + b <= max
  BY <1>1, <1>2, <1>3 DEF Scaled
<1>4. CASE a + b > max
  <2>1. a + b \in Nat \ {0} /\ a * max \in Nat /\ b * max \in Nat
    BY <1>1, <1>4
  <2>2. (a * max) \div (a + b) \in Nat /\ (b * max) \div (a + b) \in Nat
    BY <2>1, DivisionRoundsDown
  <2>3. QED
    BY <1>1, <1>2, <1>4, <2>2 DEF Scaled
<1>5. QED
  BY <1>1, <1>3, <1>4

PartTypes == {c \in SizedTypes : c.class \in {"BYTES", "STRING", "BYTESM"}}

\* and the type of a part has the size it was given at most.
LEMMA PartFits ==
  ASSUME NEW class \in {"BYTES", "STRING"}, NEW size \in Nat, NEW t \in Parts(class, size)
  PROVE  t \in PartTypes /\ t.size <= size
<1> DEFINE word == CutTo(WordBytes, size)
<1>1. word \in Nat /\ word <= size
  BY LiteralsAssumption DEF CutTo
<1> HIDE DEF word
<1>2. t = Sized(class, size) \/ t = Sized("BYTESM", word)
  BY DEF Parts, BytesM, word
<1>3. t \in SizedTypes
  BY <1>1, <1>2, SizedIsVisitable
<1>4. QED
  BY <1>1, <1>2, <1>3 DEF Sized, PartTypes

\* Parts have a size, and may be visited.
LEMMA PartShape ==
  ASSUME NEW t \in PartTypes
  PROVE  /\ t \in Visitable /\ t.size \in Nat
         /\ t.class \in {"BYTES", "STRING", "BYTESM"}
  BY DEF PartTypes, SizedTypes, Visitable, Handled, Scalars

\* n parts are left, in all of at most room.
Left(n, todo, room) ==
  /\ n \in 0 .. 3
  /\ n = 0 => todo = <<>> /\ room \in Nat
  /\ n = 1 => \E c \in PartTypes : todo = In(c) /\ c.size <= room
  /\ n = 2 => \E b, c \in PartTypes : todo = In(b) \o In(c) /\ b.size + c.size <= room
  /\ n = 3 => \E a, b, c \in PartTypes :
       todo = In(a) \o In(b) \o In(c) /\ a.size + b.size + c.size <= room

\* Two parts or three are left if they fit together.
LEMMA LeftParts ==
  ASSUME NEW todo, NEW room
  PROVE  /\ (\E b, c \in PartTypes : todo = In(b) \o In(c) /\ b.size + c.size <= room)
              => Left(2, todo, room)
         /\ (\E a, b, c \in PartTypes :
               todo = In(a) \o In(b) \o In(c) /\ a.size + b.size + c.size <= room)
              => Left(3, todo, room)
<1>1. /\ 2 \in 0 .. 3 /\ 2 # 0 /\ 2 # 1 /\ 2 # 3
      /\ 3 \in 0 .. 3 /\ 3 # 0 /\ 3 # 1 /\ 3 # 2
  OBVIOUS
<1>2. QED
  BY <1>1, ZenonT(60) DEF Left

\* A concatenation is of two parts or three that fit together.
LEMMA ConcatShape ==
  ASSUME NEW class \in {"BYTES", "STRING"}, NEW max \in Nat, NEW script \in Concat(class, max)
  PROVE  Left(2, script, max) \/ Left(3, script, max)
<1> DEFINE two == TwoParts(class, max)
           others(p) == Others(class, max - (p[1].size + p[2].size))
           scripts(p) == {In(p[1]) \o In(p[2])} \cup
                           {In(p[1]) \o In(p[2]) \o In(c) : c \in others(p)}
<1>1. Concat(class, max) = UNION {scripts(p) : p \in two}
  BY DEF Concat
<1>2. ASSUME NEW p \in two
      PROVE  p[1] \in PartTypes /\ p[2] \in PartTypes /\ p[1].size + p[2].size <= max
  <2> DEFINE sizes(a, b) == Scaled(a, b, max)
             pairs(a, b) == Parts(class, sizes(a, b)[1]) \X Parts(class, sizes(a, b)[2])
  <2>1. two = UNION {pairs(a, b) : a, b \in Raw}
    BY DEF TwoParts
  <2> HIDE DEF two, pairs
  <2>2. PICK a \in Raw, b \in Raw : p \in pairs(a, b)
    BY <2>1
  <2> DEFINE m == sizes(a, b)[1]
             n == sizes(a, b)[2]
  <2>3. m \in Nat /\ n \in Nat /\ m + n <= max
    BY ScaledSizes
  <2>4. p[1] \in Parts(class, m) /\ p[2] \in Parts(class, n)
    BY <2>2 DEF pairs
  <2> HIDE DEF m, n
  <2>5. /\ p[1] \in PartTypes /\ p[1].size <= m
        /\ p[2] \in PartTypes /\ p[2].size <= n
    BY <2>3, <2>4, PartFits
  <2>6. QED
    BY <2>3, <2>5, PartShape
<1> HIDE DEF two, scripts
<1>3. PICK p \in two : script \in scripts(p)
  BY <1>1
<1>4. p[1] \in PartTypes /\ p[2] \in PartTypes /\ p[1].size + p[2].size <= max
  BY <1>2
<1> DEFINE a == p[1]
           b == p[2]
           room == max - (a.size + b.size)
<1>5. CASE script = In(a) \o In(b)
  BY <1>4, <1>5, LeftParts
<1>6. CASE \E c \in others(p) : script = In(a) \o In(b) \o In(c)
  <2>1. PICK c \in others(p) : script = In(a) \o In(b) \o In(c)
    BY <1>6
  <2>2. PICK size \in Raw : size <= room /\ c \in Parts(class, size)
    BY DEF Others
  <2>3. size \in Nat
    BY MessageAssumption
  <2>4. c \in PartTypes /\ c.size <= size
    BY <2>2, <2>3, PartFits
  <2>5. a.size \in Nat /\ b.size \in Nat /\ c.size \in Nat
    BY <1>4, <2>4, PartShape
  <2>6. a.size + b.size + c.size <= max
    BY <2>2, <2>3, <2>4, <2>5
  <2> HIDE DEF a, b
  <2>7. a \in PartTypes /\ b \in PartTypes
    BY <1>4 DEF a, b
  <2>8. \E x, y, z \in PartTypes :
          script = In(x) \o In(y) \o In(z) /\ x.size + y.size + z.size <= max
    BY <2>1, <2>4, <2>6, <2>7, ZenonT(60)
  <2>9. QED
    BY <2>8, LeftParts
<1>7. QED
  BY <1>3, <1>5, <1>6 DEF scripts

\* _visit_concat: every part is an expression of a size of its own.
LEMMA KeepsConcat ==
  ASSUME NEW prod, prod \notin OpProds, NEW class \in {"BYTES", "STRING"},
         NEW max \in Nat, NEW script \in Concat(class, max)
  PROVE  Keeps(prod, script)
<1>1. \A c \in PartTypes : Keeps(prod, In(c))
  BY PartShape, KeepsIn
<1>2. Left(2, script, max) \/ Left(3, script, max)
  BY ConcatShape
<1>3. CASE Left(2, script, max)
  <2>1. PICK b \in PartTypes, c \in PartTypes : script = In(b) \o In(c)
    BY <1>3, ZenonT(60) DEF Left
  <2>2. QED
    BY <1>1, <2>1, KeepsCat
<1>4. CASE Left(3, script, max)
  <2>1. PICK a \in PartTypes, b \in PartTypes, c \in PartTypes :
          script = In(a) \o In(b) \o In(c)
    BY <1>4, ZenonT(60) DEF Left
  <2>2. Keeps(prod, In(a) \o In(b))
    BY <1>1, KeepsCat
  <2>3. QED
    BY <1>1, <2>1, <2>2, KeepsCat
<1>5. QED
  BY <1>2, <1>3, <1>4

\* The lists: their items, or two points of the curve, or a point and a factor.
LEMMA RunsList ==
  ASSUME NEW t \in Visitable, t.class = "LIST", NEW p \in ListProductions(t)
  PROVE  Keeps(p.prod, p.todo) /\ p.prod \in {"list", "curve"}
<1>1. t.base \in Visitable /\ t.base \in AllTypes /\ t.size \in Nat
  BY VisitableShape DEF AllTypes
<1>2. Point \in Visitable /\ Point.class = "LIST" /\ Point \in AllTypes
  <2>1. 2 \in Nat \ {0} /\ Uint256 \in IntTypes \cup SizedTypes
    BY UintIsVisitable
  <2>2. QED
    BY <2>1, ListIsVisitable DEF Point, AllTypes
<1>3. CASE p.prod = "list" /\ \E n \in Nat : p.todo = <<Push(t.base)>> \o Visits(t.base.class, n) \o <<Pop>>
  <2>1. PICK n \in Nat : p.todo = <<Push(t.base)>> \o Visits(t.base.class, n) \o <<Pop>>
    BY <1>3
  <2>2. KeepsOn("list", Visits(t.base.class, n), t.base)
    BY <1>1, KeepsVisits DEF OpProds
  <2>3. QED
    BY <1>1, <1>3, <2>1, <2>2, KeepsWrapped
<1>4. CASE p.prod = "curve" /\ p.todo = <<Push(Point), Visit("LIST"), Visit("LIST"), Pop>>
  <2>1. KeepsOn("curve", <<Visit("LIST")>>, Point)
    BY <1>2, KeepsVisit DEF OpProds
  <2>2. <<Visit("LIST"), Visit("LIST")>> = <<Visit("LIST")>> \o <<Visit("LIST")>>
    BY Pieces
  <2>3. KeepsOn("curve", <<Visit("LIST"), Visit("LIST")>>, Point)
    BY <2>1, <2>2, KeepsOnCat
  <2>4. p.todo = <<Push(Point)>> \o <<Visit("LIST"), Visit("LIST")>> \o <<Pop>>
    BY <1>4, Pieces, SMTT(60)
  <2>5. QED
    BY <1>2, <1>4, <2>3, <2>4, KeepsWrapped
<1>5. CASE p.prod = "curve" /\ p.todo = In(Point) \o In(Uint256)
  BY <1>2, <1>5, UintIsVisitable, KeepsIn, KeepsCat DEF OpProds
<1>6. \A n \in 1 .. CutTo(MaxList, t.size) : n \in Nat
  BY <1>1, LiteralsAssumption DEF CutTo
<1> DEFINE items(n) == <<Push(t.base)>> \o Visits(t.base.class, n) \o <<Pop>>
           lists == {items(n) : n \in 1 .. CutTo(MaxList, t.size)}
           points == {<<Push(Point), Visit("LIST"), Visit("LIST"), Pop>>,
                      In(Point) \o In(Uint256)}
<1>7. ListProductions(t) \subseteq Production("list", "", lists) \cup Production("curve", "", points)
  BY DEF ListProductions
<1> HIDE DEF lists, points
<1>8. CASE p \in Production("list", "", lists)
  <2>1. PICK script \in lists : p = [prod |-> "list", op |-> "", todo |-> script]
    BY <1>8 DEF Production
  <2> HIDE DEF items
  <2>2. PICK n \in 1 .. CutTo(MaxList, t.size) : script = items(n)
    BY DEF lists
  <2>3. QED
    BY <1>3, <1>6, <2>1, <2>2 DEF items
<1>9. CASE p \in Production("curve", "", points)
  <2>1. PICK script \in points : p = [prod |-> "curve", op |-> "", todo |-> script]
    BY <1>9 DEF Production
  <2>2. QED
    BY <1>4, <1>5, <2>1 DEF points
<1>10. QED
  BY <1>7, <1>8, <1>9

(***************************************************************************)
(* What may be visited.                                                    *)
(***************************************************************************)

ExprProds == {"convert", "binOp", "unOp", "boolOp", "raw_call", "ecRec", "create",
                 "concat", "list", "curve", "hash"}

\* The parts of a production.
LEMMA InProduction ==
  ASSUME NEW prod, NEW op, NEW scripts, NEW p \in Production(prod, op, scripts)
  PROVE  p.prod = prod /\ p.op = op /\ p.todo \in scripts
  BY DEF Production

\* What a script keeps, it keeps for an expression that starts with its type alone.
LEMMA KeepsItsType ==
  ASSUME NEW prod, NEW script, NEW t \in AllTypes,
         Keeps(prod, script) \/ KeepsOn(prod, script, t)
  PROVE  Runs(prod, script, St(<<t>>, "plain"), St(<<t>>, "plain"))
<1>1. <<>> \in Seq(AllTypes) /\ Append(<<>>, t) = <<t>>
  OBVIOUS
<1>2. KeepsOn(prod, script, t)
  BY KeepsIsOn
<1>3. Runs(prod, script, St(Append(<<>>, t), "plain"), St(Append(<<>>, t), "plain"))
  BY <1>1, <1>2 DEF KeepsOn
<1>4. QED
  BY <1>1, <1>3

\* An operator whose operands are of the type that is wanted needs no other type.
LEMMA OperatorItsType ==
  ASSUME NEW prod, NEW t \in Visitable,
         NEW script \in {Operator(<<t.class>>), Operator(<<t.class, t.class>>)}
  PROVE  Runs(prod, script, St(<<t>>, "plain"), St(<<t>>, "plain"))
<1>1. <<>> \in Seq(AllTypes) /\ Append(<<>>, t) = <<t>>
  OBVIOUS
<1>2. Runs(prod, script, St(Append(<<>>, t), "plain"), St(Append(<<>>, t), "plain"))
  BY <1>1, RunsOperator
<1>3. QED
  BY <1>1, <1>2

\* Every visitor takes away what it pushes, leaves its operator, and has no effects in a
\* constant.
Balanced(t, p) ==
  /\ p.prod \in ExprProds
  /\ Runs(p.prod, p.todo, St(<<t>>, "plain"), St(<<t>>, "plain"))
  /\ is_constant => p.prod \notin {"raw_call", "create"}

\* _visit_raw_call inside an expression, which ends with the type of its flags.
LEMMA RawCallBalanced ==
  ASSUME NEW t \in Visitable, ~ is_constant, NEW p \in Production("raw_call", "", RawCallExpressions)
  PROVE  Balanced(t, p)
<1>1. p.prod = "raw_call" /\ p.todo \in RawCallScripts({<<>>}, {<<>>})
  BY InProduction DEF RawCallExpressions
<1>2. Keeps("raw_call", p.todo)
  <2>1. /\ \A a \in {<<>>} : KeepsOn("raw_call", a, Uint256)
        /\ \A a \in {<<>>} : KeepsOn("raw_call", a, Plain("BOOL"))
    BY KeepsNothing
  <2>2. "raw_call" \notin OpProds
    BY DEF OpProds
  <2>3. QED
    BY <1>1, <2>1, <2>2, KeepsRawCall
<1>3. QED
  BY <1>1, <1>2, KeepsItsType DEF AllTypes, Balanced, ExprProds

\* _visit_int_expression and _visit_decimal_expression.
LEMMA NumbersBalanced ==
  ASSUME NEW t \in Visitable, NEW ops, NEW p \in NumberProductions(t.class, ops)
  PROVE  Balanced(t, p)
<1> DEFINE unary == {Operator(<<t.class>>)}
           binary == Operator(<<t.class, t.class>>)
<1>1. /\ \A script \in unary : Runs("unOp", script, St(<<t>>, "plain"), St(<<t>>, "plain"))
      /\ Runs("binOp", binary, St(<<t>>, "plain"), St(<<t>>, "plain"))
  BY OperatorItsType
<1> HIDE DEF unary, binary
<1>2. CASE p \in {[prod |-> "binOp", op |-> op, todo |-> binary] : op \in ops}
  BY <1>1, <1>2 DEF Balanced, ExprProds
<1>3. CASE p \in Production("unOp", "-", unary)
  BY <1>1, <1>3, InProduction DEF Balanced, ExprProds
<1>4. QED
  BY <1>2, <1>3 DEF NumberProductions, unary, binary

\* _visit_bool_expression, with the type of its comparisons pushed and popped.
LEMMA BoolsBalanced ==
  ASSUME NEW t \in Visitable, t.class = "BOOL", NEW p \in BoolProductions
  PROVE  Balanced(t, p)
<1> DEFINE scripts == {Operator(<<"BOOL", "BOOL">>), Operator(<<"BOOL">>),
                       Comparison("INT", Uint256), Comparison("DECIMAL", Plain("DECIMAL"))}
<1>1. CASE p \in Production("boolOp", "", scripts)
  <2> HIDE DEF scripts
  <2>1. p.prod = "boolOp" /\ p.todo \in scripts
    BY <1>1, InProduction
  <2> USE DEF scripts
  <2>2. Deep("boolOp", <<t>>)
    <3>1. <<t>> \in Seq(AllTypes) /\ Len(<<t>>) = 1
      BY DEF AllTypes
    <3>2. QED
      BY <3>1 DEF Deep, Least
  <2>3. CASE p.todo \in {Operator(<<"BOOL", "BOOL">>), Operator(<<"BOOL">>)}
    BY <2>1, <2>3, OperatorItsType DEF Balanced, ExprProds
  <2>4. CASE p.todo = Comparison("INT", Uint256)
    <3>1. Runs("boolOp", p.todo, St(<<t>>, "plain"), St(<<t>>, "plain"))
      BY <2>2, <2>4, RunsComparison, UintIsVisitable
    <3>2. QED
      BY <2>1, <3>1 DEF Balanced, ExprProds
  <2>5. CASE p.todo = Comparison("DECIMAL", Plain("DECIMAL"))
    <3>1. Runs("boolOp", p.todo, St(<<t>>, "plain"), St(<<t>>, "plain"))
      BY <2>2, <2>5, RunsComparison, PlainTypesVisitable
    <3>2. QED
      BY <2>1, <3>1 DEF Balanced, ExprProds
  <2>6. QED
    BY <2>1, <2>3, <2>4, <2>5
<1> HIDE DEF scripts
<1>2. p \in Production("boolOp", "", scripts) \/ (~ is_constant /\ p \in Production("raw_call", "", RawCallExpressions))
  BY DEF BoolProductions, scripts
<1>3. QED
  BY <1>1, <1>2, RawCallBalanced

\* visit_address_expression: ecrecover and the creation of contracts.
LEMMA AddressesBalanced ==
  ASSUME NEW t \in Visitable, t.class = "ADDRESS", NEW p \in AddressProductions
  PROVE  Balanced(t, p)
<1>1. CASE p \in Production("ecRec", "", EcRecover)
  <2>1. p.prod = "ecRec" /\ p.todo \in EcRecover
    BY <1>1, InProduction
  <2>2. Keeps("ecRec", p.todo)
    BY <2>1, KeepsEcRecover DEF OpProds
  <2>3. QED
    BY <2>1, <2>2, KeepsItsType DEF AllTypes, Balanced, ExprProds
<1>2. CASE ~ is_constant /\ p \in Production("create", "", CreateCopy \cup CreateFromBlueprint)
  <2>1. p.prod = "create" /\ p.todo \in CreateCopy \cup CreateFromBlueprint
    BY <1>2, InProduction
  <2>2. KeepsOn("create", p.todo, t)
    BY <2>1, KeepsCreate DEF OpProds
  <2>3. QED
    BY <1>2, <2>1, <2>2, KeepsItsType DEF AllTypes, Balanced, ExprProds
<1>3. QED
  BY <1>1, <1>2 DEF AddressProductions

\* _visit_concat: parts of any number and size.
LEMMA ConcatBalanced ==
  ASSUME NEW t \in Visitable, t.class \in {"BYTES", "STRING"},
         NEW p \in Production("concat", "", Concat(t.class, t.size))
  PROVE  Balanced(t, p)
<1> DEFINE scripts == Concat(t.class, t.size)
<1> HIDE DEF scripts
<1>3. p \in Production("concat", "", scripts)
  BY DEF scripts
<1>4. p.prod = "concat" /\ p.todo \in scripts
  BY <1>3, InProduction
<1>1. p.prod = "concat" /\ p.todo \in Concat(t.class, t.size)
  BY <1>4 DEF scripts
<1>2. Keeps("concat", p.todo)
  BY <1>1, VisitableShape, KeepsConcat DEF OpProds
<1>5. QED
  BY <1>1, <1>2, KeepsItsType DEF AllTypes, Balanced, ExprProds

\* Whatever a visitor finds in its message, its type is on top when it is done.
LEMMA ProductionsBalanced ==
  ASSUME NEW t \in Visitable, NEW p \in Productions(t)
  PROVE  Balanced(t, p)
<1> DEFINE inputs == {In(i) : i \in Inputs(t)}
<1>11. \A s \in inputs : \E i \in Inputs(t) : s = In(i)
  OBVIOUS
<1> HIDE DEF inputs
<1>1. CASE p \in Production("convert", "", inputs)
  <2>3. p.prod = "convert" /\ p.todo \in inputs
    BY <1>1, InProduction
  <2>1. PICK i \in Inputs(t) : p.prod = "convert" /\ p.todo = In(i)
    BY <1>11, <2>3
  <2>2. Keeps("convert", p.todo)
    BY <2>1, InputsVisitable, KeepsIn DEF OpProds
  <2>4. QED
    BY <2>1, <2>2, KeepsItsType DEF AllTypes, Balanced, ExprProds
<1>2. CASE t.class = "INT" /\ p \in NumberProductions("INT", IntOps)
  BY <1>2, NumbersBalanced
<1>3. CASE t.class = "DECIMAL" /\ p \in NumberProductions("DECIMAL", DecimalOps)
  BY <1>3, NumbersBalanced
<1>4. CASE t.class = "BOOL" /\ p \in BoolProductions
  BY <1>4, BoolsBalanced
<1>5. CASE t.class = "ADDRESS" /\ p \in AddressProductions
  BY <1>5, AddressesBalanced
<1>6. CASE t.class = "BYTESM" /\ p \in Production("hash", "", Hash)
  <2>1. p.prod = "hash" /\ p.todo \in Hash
    BY <1>6, InProduction
  <2>2. Keeps("hash", p.todo)
    BY <2>1, KeepsHash DEF OpProds
  <2>3. QED
    BY <2>1, <2>2, KeepsItsType DEF AllTypes, Balanced, ExprProds
<1>7. CASE t.class = "BYTES" /\ p \in BytesProductions(t)
  <2>1. p \in Production("concat", "", Concat(t.class, t.size)) \/ (~ is_constant /\ p \in Production("raw_call", "", RawCallExpressions))
    BY <1>7 DEF BytesProductions
  <2>2. QED
    BY <1>7, <2>1, ConcatBalanced, RawCallBalanced
<1>8. CASE t.class = "STRING" /\ p \in Production("concat", "", Concat("STRING", t.size))
  BY <1>8, ConcatBalanced
<1>9. CASE t.class = "LIST" /\ p \in ListProductions(t)
  <2>1. Keeps(p.prod, p.todo) /\ p.prod \in {"list", "curve"}
    BY <1>9, RunsList
  <2>2. QED
    BY <2>1, KeepsItsType DEF AllTypes, Balanced, ExprProds
<1>10. QED
  BY <1>1, <1>2, <1>3, <1>4, <1>5, <1>6, <1>7, <1>8, <1>9, VisitableShape
     DEF Productions, inputs

(***************************************************************************)
(* The scripts of the statements: they leave the operators and the         *)
(* constants they have entered.                                            *)
(***************************************************************************)

Ends(script, types) ==
  types \in Seq(AllTypes) /\ Runs("statement", script, St(<<>>, "statement"), St(types, "statement"))

\* A statement that leaves the types as they were ends.
LEMMA KeepsEnds ==
  ASSUME NEW script, Keeps("statement", script)
  PROVE  Ends(script, <<>>)
<1>1. <<>> \in Seq(AllTypes) /\ Len(<<>>) = 0
  OBVIOUS
<1>2. Deep("statement", <<>>)
  BY <1>1 DEF Deep, Least
<1>3. QED
  BY <1>1, <1>2 DEF Keeps, Ends

\* What a statement leaves on the stack is below what follows.
LEMMA EndsThen ==
  ASSUME NEW a, NEW b, NEW types, Ends(a, types), Keeps("statement", b)
  PROVE  Ends(a \o b, types)
<1>1. Deep("statement", types)
  BY DEF Ends, Deep, Least
<1>2. QED
  BY <1>1, RunsCat DEF Ends, Keeps

\* Two steps, one after the other.
LEMMA RunsTwo ==
  ASSUME NEW prod, NEW a, NEW b, NEW s, NEW m, NEW e,
         Runs(prod, <<a>>, s, m), Runs(prod, <<b>>, m, e)
  PROVE  Runs(prod, <<a, b>>, s, e)
<1>1. <<a, b>> = <<a>> \o <<b>>
  BY Pieces
<1>2. QED
  BY <1>1, RunsCat

\* A type that is read for, and stays.
LEMMA EndsRead ==
  ASSUME NEW t \in AllTypes
  PROVE  Ends(<<Push(t), Read(t.class)>>, <<t>>)
<1>1. <<>> \in Seq(AllTypes) /\ Append(<<>>, t) = <<t>> /\ <<t>> \in Seq(AllTypes) /\ Len(<<>>) = 0
  OBVIOUS
<1>2. Deep("statement", <<>>)
  BY <1>1 DEF Deep, Least
<1>3. Runs("statement", <<Push(t)>>, St(<<>>, "statement"), St(<<t>>, "statement"))
  BY <1>1, <1>2, RunsPush
<1>4. Runs("statement", <<Read(t.class)>>, St(<<t>>, "statement"), St(<<t>>, "statement"))
  BY <1>1, RunsRead
<1>5. QED
  BY <1>1, <1>3, <1>4, RunsTwo DEF Ends

\* A type that is pushed, read for and popped.
LEMMA KeepsReadAndPopped ==
  ASSUME NEW prod, NEW t \in AllTypes
  PROVE  Keeps(prod, <<Push(t), Read(t.class)>> \o <<Pop>>)
<1>1. <<Push(t), Read(t.class)>> = <<Push(t)>> \o <<Read(t.class)>>
  BY Pieces
<1>2. QED
  BY <1>1, KeepsRead, KeepsWrapped

\* Three steps that change nothing, inside of two that cancel each other.
LEMMA RunsAround ==
  ASSUME NEW prod, NEW a, NEW b, NEW v, NEW d, NEW e, NEW s, NEW m,
         Runs(prod, <<a>>, s, m), Runs(prod, <<b, v, d>>, m, m), Runs(prod, <<e>>, m, s)
  PROVE  Runs(prod, <<a, b, v, d, e>>, s, s)
<1>1. <<a, b, v, d, e>> = <<a, b, v, d>> \o <<e>>
  OBVIOUS
<1>2. <<a, b, v, d>> = <<a>> \o <<b, v, d>>
  OBVIOUS
<1>3. Runs(prod, <<a>> \o <<b, v, d>>, s, m)
  BY RunsCat
<1>4. Runs(prod, <<a, b, v, d>> \o <<e>>, s, s)
  BY <1>2, <1>3, RunsCat
<1>5. QED
  BY <1>1, <1>4

\* __var_decl_global: the constant is entered and left.
LEMMA ConstantEnds ==
  ASSUME NEW t \in Visitable
  PROVE  Ends(<<Push(t), Do("constant"), Visit(t.class), Do("variable"), Pop>>, <<>>)
<1> DEFINE push == Push(t)
           enter == Do("constant")
           visit == Visit(t.class)
           leave == Do("variable")
           pop == Pop
           s == St(<<>>, "statement")
           m == St(<<t>>, "statement")
           c == St(<<t>>, "constant")
<1>1. <<>> \in Seq(AllTypes) /\ Append(<<>>, t) = <<t>> /\ Len(<<>>) = 0 /\ t \in AllTypes
  BY DEF AllTypes
<1>2. Deep("statement", <<>>)
  BY <1>1 DEF Deep, Least
<1>3. Runs("statement", <<push>>, s, m) /\ Runs("statement", <<pop>>, m, s)
  BY <1>1, <1>2, RunsPush, RunsPop
<1>4. Runs("statement", <<visit>>, c, c)
  BY <1>1, RunsVisit DEF OpProds
<1>5. Runs("statement", <<enter>>, m, c)
  <2>1. Legal("statement", enter, m)
    BY DEF Legal, Do, St
  <2>2. c = Effect(enter, m)
    BY DEF Effect, Do, St, TypesAfter, ModeAfter
  <2>3. QED
    BY <2>1, <2>2, RunsStep
<1>6. Runs("statement", <<leave>>, c, m)
  <2>1. Legal("statement", leave, c)
    BY DEF Legal, Do, St
  <2>2. m = Effect(leave, c)
    BY DEF Effect, Do, St, TypesAfter, ModeAfter
  <2>3. QED
    BY <2>1, <2>2, RunsStep
<1> HIDE DEF push, enter, visit, leave, pop, s, m, c
<1>8. Runs("statement", <<enter, visit, leave>>, m, m)
  BY <1>4, <1>5, <1>6, RunsBetween
<1>11. Runs("statement", <<push, enter, visit, leave, pop>>, s, s)
  BY <1>3, <1>8, RunsAround
<1>12. QED
  BY <1>1, <1>11 DEF Ends, push, enter, visit, leave, pop, s

\* _visit_send_stmt.
LEMMA KeepsSend ==
  ASSUME NEW script \in Sends
  PROVE  Keeps("statement", script)
<1> DEFINE to == In(Plain("ADDRESS"))
           value == <<Push(Uint256), Visit("INT")>>
           gases == Optional(<<Visit("INT")>>)
<1>1. Sends = {to \o value \o gas \o <<Pop>> : gas \in gases}
  BY DEF Sends
<1>2. Uint256 \in Visitable /\ Uint256.class = "INT" /\ Uint256 \in AllTypes
  BY UintIsVisitable DEF AllTypes
<1>3. KeepsOn("statement", <<Visit("INT")>>, Uint256)
  BY <1>2, KeepsVisit DEF OpProds
<1>4. \A gas \in gases : KeepsOn("statement", gas, Uint256)
  BY <1>3, KeepsNothing DEF Optional
<1>5. Keeps("statement", to)
  BY PlainTypesVisitable, KeepsIn DEF OpProds
<1>6. value = <<Push(Uint256)>> \o <<Visit("INT")>>
  BY Pieces
<1> HIDE DEF to, value, gases
<1>7. PICK gas \in gases : script = to \o value \o gas \o <<Pop>>
  BY <1>1
<1> SUFFICES ASSUME NEW types, NEW mode, Deep("statement", types)
             PROVE  Runs("statement", script, St(types, mode), St(types, mode))
  BY DEF Keeps
<1> DEFINE s == St(types, mode)
           u == St(Append(types, Uint256), mode)
<1>8. Runs("statement", <<Push(Uint256)>>, s, u) /\ Runs("statement", <<Pop>>, u, s)
  BY <1>2, RunsPush, RunsPop
<1>9. /\ Runs("statement", <<Visit("INT")>>, u, u) /\ Runs("statement", gas, u, u)
      /\ Runs("statement", to, s, s)
  BY <1>3, <1>4, <1>5 DEF KeepsOn, Keeps, Deep
<1> HIDE DEF s, u
<1>10. Runs("statement", value, s, u)
  BY <1>6, <1>8, <1>9, RunsCat
<1>11. Runs("statement", to \o value, s, u)
  BY <1>9, <1>10, RunsCat
<1>12. Runs("statement", to \o value \o gas, s, u)
  BY <1>9, <1>11, RunsCat
<1>13. Runs("statement", to \o value \o gas \o <<Pop>>, s, s)
  BY <1>8, <1>12, RunsCat
<1>14. QED
  BY <1>7, <1>13 DEF s

\* _visit_raw_log.
LEMMA KeepsRawLog ==
  ASSUME NEW script \in RawLogs
  PROVE  Keeps("statement", script)
<1> DEFINE logs(n) == In(List(n, BytesM(WordBytes), FALSE))
           datas == {Bytes(TextSize), BytesM(WordBytes)}
           log(n, data) == logs(n) \o In(data)
           numbers == 1 .. MaxTopics
<1>1. RawLogs = {log(n, data) : n \in numbers, data \in datas}
  BY DEF RawLogs
<1>2. BytesM(WordBytes) \in IntTypes \cup SizedTypes
  BY SizedIsVisitable, LiteralsAssumption DEF BytesM
<1>9. numbers \subseteq Nat \ {0}
  OBVIOUS
<1>3. ASSUME NEW n \in numbers
      PROVE  List(n, BytesM(WordBytes), FALSE) \in Visitable
  <2>1. n \in Nat \ {0}
    BY <1>9
  <2>2. QED
    BY <1>2, <2>1, ListIsVisitable
<1>4. \A data \in datas : data \in Visitable
  BY SizedTypesVisitable, LiteralsAssumption, MessageAssumption
<1>5. \A n \in numbers : Keeps("statement", logs(n))
  BY <1>3, KeepsIn DEF OpProds
<1>6. \A data \in datas : Keeps("statement", In(data))
  BY <1>4, KeepsIn DEF OpProds
<1> HIDE DEF log, numbers, datas
<1>7. PICK n \in numbers, data \in datas : script = log(n, data)
  BY <1>1
<1> HIDE DEF logs
<1>8. QED
  BY <1>5, <1>6, <1>7, KeepsCat DEF log

\* _visit_raw_call as a statement.
LEMMA KeepsRawCallStatement ==
  ASSUME NEW script \in RawCallStatements
  PROVE  Keeps("statement", script)
<1> DEFINE target(out) == <<Push(Bytes(CutTo(TextSize, out))), Read("BYTES"), Pop>>
           targets == {target(out) : out \in Raw \ {0}}
           responses == {<<>>} \cup targets
           successes == Optional(<<Read("BOOL")>>)
<1>1. RawCallStatements = RawCallScripts(responses, successes)
  BY DEF RawCallStatements
<1>2. ASSUME NEW a \in successes PROVE KeepsOn("statement", a, Plain("BOOL"))
  <2>1. Plain("BOOL") \in AllTypes /\ Plain("BOOL").class = "BOOL"
    BY PlainTypesVisitable DEF AllTypes
  <2>2. QED
    BY <2>1, KeepsRead, KeepsNothing DEF Optional
<1>3. ASSUME NEW a \in responses PROVE KeepsOn("statement", a, Uint256)
  <2>1. CASE a \in targets
    <3> HIDE DEF target
    <3>1. PICK out \in Raw \ {0} : a = target(out)
      BY <2>1
    <3> DEFINE b == Bytes(CutTo(TextSize, out))
    <3>2. b \in AllTypes /\ b.class = "BYTES"
      <4>1. CutTo(TextSize, out) \in Nat
        BY MessageAssumption DEF CutTo
      <4>2. QED
        BY <4>1, SizedTypesVisitable DEF AllTypes
    <3>3. a = <<Push(b), Read("BYTES"), Pop>>
      BY <3>1 DEF target
    <3> HIDE DEF b
    <3>4. a = <<Push(b)>> \o <<Read("BYTES")>> \o <<Pop>>
      BY <3>3, Pieces
    <3>5. Keeps("statement", a)
      BY <3>2, <3>4, KeepsRead, KeepsWrapped
    <3>6. QED
      BY <3>5, KeepsIsOn, UintIsVisitable DEF AllTypes
  <2>2. CASE a = <<>>
    BY <2>2, KeepsNothing
  <2>3. QED
    BY <2>1, <2>2
<1> HIDE DEF responses, successes
<1>4. script \in RawCallScripts(responses, successes)
  BY <1>1
<1>5. QED
  BY <1>2, <1>3, <1>4, KeepsRawCall DEF OpProds

\* Every statement ends, though not all leave the types as they were (_visit_append_stmt).
LEMMA StatementsEnd ==
  ASSUME NEW script \in Statements
  PROVE  \E types : Ends(script, types)
<1>1. Declared \subseteq Visitable
  BY DeclaredAssumption DEF Visitable
<1>2. "statement" \notin OpProds
  BY DEF OpProds
<1>3. CASE script \in Declarations
  <2>1. PICK t \in Declared : script = In(t)
    BY <1>3 DEF Declarations
  <2>2. QED
    BY <1>1, <1>2, <2>1, KeepsIn, KeepsEnds
<1>4. CASE script \in Constants
  <2>1. PICK t \in Declared :
          script = <<Push(t), Do("constant"), Visit(t.class), Do("variable"), Pop>>
    BY <1>4 DEF Constants
  <2>2. QED
    BY <1>1, <2>1, ConstantEnds
<1>5. CASE script \in Assignments
  <2>1. PICK t \in Declared : script = <<Push(t), Read(t.class)>> \o In(t)
    BY <1>5 DEF Assignments
  <2>2. Ends(<<Push(t), Read(t.class)>>, <<t>>)
    BY <1>1, EndsRead DEF AllTypes
  <2>3. QED
    BY <1>1, <1>2, <2>1, <2>2, KeepsIn, EndsThen
<1>6. AnyArray \in AllTypes /\ AnyArray.class = "LIST"
  BY DEF AllTypes, AnyArray, List
<1>7. Keeps("statement", FindArray \o <<Pop>>) /\ Ends(FindArray, <<AnyArray>>)
  BY <1>6, KeepsReadAndPopped, EndsRead DEF FindArray
<1>8. CASE script \in Appends
  <2>1. CASE script = FindArray \o <<Pop>>
    BY <1>7, <2>1, KeepsEnds
  <2>2. CASE \E t \in Declared : t.class = "LIST" /\ script = FindArray \o <<Pop>> \o In(t.base)
    <3>1. PICK t \in Declared : t.class = "LIST" /\ script = FindArray \o <<Pop>> \o In(t.base)
      BY <2>2
    <3>2. t.base \in Visitable
      BY <1>1, <3>1, VisitableShape
    <3>3. Keeps("statement", script)
      BY <1>2, <1>7, <3>1, <3>2, KeepsIn, KeepsCat
    <3>4. QED
      BY <3>3, KeepsEnds
  <2>3. QED
    BY <1>8, <2>1, <2>2 DEF Appends
<1>9. CASE script \in Pops
  BY <1>7, <1>9, KeepsEnds DEF Pops
<1>10. CASE script \in Simple
  <2>1. /\ Plain("BOOL") \in Visitable /\ String(TextSize) \in Visitable
        /\ Bytes(TextSize) \in Visitable /\ Plain("ADDRESS") \in Visitable
    BY PlainTypesVisitable, SizedTypesVisitable, MessageAssumption
  <2>2. /\ Keeps("statement", In(Plain("BOOL"))) /\ Keeps("statement", In(String(TextSize)))
        /\ Keeps("statement", In(Bytes(TextSize))) /\ Keeps("statement", In(Plain("ADDRESS")))
    BY <1>2, <2>1, KeepsIn
  <2>3. Keeps("statement", In(Plain("BOOL")) \o In(String(TextSize)))
    BY <2>2, KeepsCat
  <2>4. Keeps("statement", <<Push(Uint256), Read("INT"), Pop>>)
    <3>1. <<Push(Uint256), Read("INT"), Pop>> = <<Push(Uint256)>> \o <<Read("INT")>> \o <<Pop>>
      BY Pieces
    <3>2. Uint256 \in AllTypes /\ Uint256.class = "INT"
      BY UintIsVisitable DEF AllTypes
    <3>3. QED
      BY <3>1, <3>2, KeepsRead, KeepsWrapped
  <2>5. Keeps("statement", script)
    BY <1>10, <2>2, <2>3, <2>4 DEF Simple
  <2>6. QED
    BY <2>5, KeepsEnds
<1>11. CASE script \in Sends
  BY <1>11, KeepsSend, KeepsEnds
<1>12. CASE script \in RawLogs
  BY <1>12, KeepsRawLog, KeepsEnds
<1>13. CASE script \in RawCallStatements
  BY <1>13, KeepsRawCallStatement, KeepsEnds
<1>14. QED
  BY <1>3, <1>4, <1>5, <1>8, <1>9, <1>10, <1>11, <1>12, <1>13 DEF Statements

(***************************************************************************)
(* Sequences.                                                              *)
(***************************************************************************)

\* What is appended to a sequence is last, and the rest is as it was.
LEMMA InSequence ==
  ASSUME NEW s, IsASequence(s), NEW x
  PROVE  /\ Len(s) \in Nat
         /\ s = <<>> <=> Len(s) = 0
         /\ IsASequence(Append(s, x)) /\ Len(Append(s, x)) = Len(s) + 1
         /\ Append(s, x)[Len(s) + 1] = x
         /\ \A i \in 1 .. Len(s) : Append(s, x)[i] = s[i]
         /\ DOMAIN s = 1 .. Len(s) /\ DOMAIN Append(s, x) = 1 .. Len(s) + 1
<1>1. PICK S : s \in Seq(S)
  BY DEF IsASequence
<1>2. s \in Seq(S \cup {x}) /\ x \in S \cup {x}
  BY <1>1
<1>3. Append(s, x) \in Seq(S \cup {x})
  BY <1>2
<1>4. QED
  BY <1>2, <1>3 DEF IsASequence

\* Without its last member, a sequence is as it was.
LEMMA FrontOf ==
  ASSUME NEW s, IsASequence(s), s # <<>>
  PROVE  /\ IsASequence(Front(s)) /\ Len(Front(s)) = Len(s) - 1 /\ Len(s) \in Nat \ {0}
         /\ \A i \in 1 .. Len(s) - 1 : Front(s)[i] = s[i]
         /\ Last(s) = s[Len(s)]
<1>1. PICK S : s \in Seq(S)
  BY DEF IsASequence
<1>2. Len(s) \in Nat \ {0} /\ \A i \in 1 .. Len(s) : s[i] \in S
  BY <1>1
<1>3. Front(s) = [i \in 1 .. Len(s) - 1 |-> s[i]]
  BY DEF Front
<1>4. Front(s) \in Seq(S) /\ Len(Front(s)) = Len(s) - 1
  BY <1>2, <1>3
<1>5. QED
  BY <1>2, <1>3, <1>4 DEF IsASequence, Last

\* The last element is replaced.
LEMMA Replaced ==
  ASSUME NEW s, IsASequence(s), s # <<>>, NEW x
  PROVE  /\ IsASequence(Append(Front(s), x)) /\ Len(Append(Front(s), x)) = Len(s)
         /\ Append(Front(s), x)[Len(s)] = x
         /\ \A i \in 1 .. Len(s) - 1 : Append(Front(s), x)[i] = s[i]
<1>1. /\ IsASequence(Front(s)) /\ Len(Front(s)) = Len(s) - 1 /\ Len(s) \in Nat \ {0}
      /\ \A i \in 1 .. Len(s) - 1 : Front(s)[i] = s[i]
  BY FrontOf
<1> DEFINE r == Front(s)
<1> HIDE DEF r
<1>2. IsASequence(r) /\ Len(r) = Len(s) - 1 /\ \A i \in 1 .. Len(s) - 1 : r[i] = s[i]
  BY <1>1 DEF r
<1>3. /\ IsASequence(Append(r, x)) /\ Len(Append(r, x)) = Len(r) + 1
      /\ Append(r, x)[Len(r) + 1] = x
      /\ \A i \in 1 .. Len(r) : Append(r, x)[i] = r[i]
  BY <1>2, InSequence
<1>4. QED
  BY <1>1, <1>2, <1>3 DEF r

\* What a visitor sees, when the type on top of the stack is pushed or popped.
LEMMA SeenLength ==
  ASSUME NEW S, NEW s \in Seq(S), NEW a \in Nat \ {0}, NEW b \in Nat,
         a <= b + 1, b <= Len(s)
  PROVE  /\ SubSeq(s, a, b) \in Seq(S) /\ Len(SubSeq(s, a, b)) = b + 1 - a
         /\ \A i \in 1 .. b + 1 - a : SubSeq(s, a, b)[i] = s[a + i - 1]
  OBVIOUS

\* A type pushed on the stack is pushed on the part of it that is seen,
LEMMA SeenPush ==
  ASSUME NEW S, NEW s \in Seq(S), NEW a \in Nat \ {0}, a <= Len(s) + 1, NEW t \in S
  PROVE  SubSeq(Append(s, t), a, Len(s) + 1) = Append(SubSeq(s, a, Len(s)), t)
<1> DEFINE p == Append(s, t)
           x == SubSeq(p, a, Len(s) + 1)
           y == SubSeq(s, a, Len(s))
<1>1. /\ p \in Seq(S) /\ Len(p) = Len(s) + 1 /\ p[Len(s) + 1] = t
      /\ \A i \in 1 .. Len(s) : p[i] = s[i]
  OBVIOUS
<1>2. Len(s) \in Nat
  OBVIOUS
<1> HIDE DEF p
<1>3. /\ x \in Seq(S) /\ Len(x) = Len(s) + 2 - a
      /\ \A i \in 1 .. Len(s) + 2 - a : x[i] = p[a + i - 1]
  BY <1>1, <1>2, SeenLength
<1>4. /\ y \in Seq(S) /\ Len(y) = Len(s) + 1 - a
      /\ \A i \in 1 .. Len(s) + 1 - a : y[i] = s[a + i - 1]
  BY <1>2, SeenLength
<1> HIDE DEF x, y
<1> DEFINE n == Len(s) + 1 - a
           z == Append(y, t)
<1>5. y \in Seq(S) /\ Len(y) = n /\ n \in Nat
  BY <1>2, <1>4
<1>9. /\ z \in Seq(S) /\ Len(z) = Len(y) + 1
      /\ z[Len(y) + 1] = t /\ \A i \in 1 .. Len(y) : z[i] = y[i]
  BY <1>5
<1> HIDE DEF z
<1>10. Len(z) = n + 1 /\ z[n + 1] = t /\ Len(x) = n + 1
  BY <1>2, <1>3, <1>5, <1>9
<1>11. x[n + 1] = t
  <2>1. n + 1 \in 1 .. Len(s) + 2 - a /\ a + (n + 1) - 1 = Len(s) + 1
    BY <1>2, <1>5
  <2>2. x[n + 1] = p[a + (n + 1) - 1]
    BY <1>3, <2>1
  <2>3. QED
    BY <1>1, <2>1, <2>2
<1>12. ASSUME NEW i \in 1 .. n PROVE x[i] = z[i]
  <2>1. i \in 1 .. Len(s) + 2 - a /\ i \in 1 .. Len(s) + 1 - a /\ a + i - 1 \in 1 .. Len(s)
    BY <1>2, <1>5
  <2>2. x[i] = p[a + i - 1] /\ y[i] = s[a + i - 1] /\ z[i] = y[i]
    BY <1>3, <1>4, <1>5, <1>9, <2>1
  <2>3. QED
    BY <1>1, <2>1, <2>2
<1> HIDE DEF n
<1>6. \A i \in 1 .. n + 1 : x[i] = z[i]
  <2>1. \A i \in 1 .. n + 1 : i \in 1 .. n \/ i = n + 1
    BY <1>5
  <2>2. QED
    BY <1>10, <1>11, <1>12, <2>1
<1>7. x = z
  BY <1>3, <1>6, <1>9, <1>10, SeqEqual
<1>8. QED
  BY <1>7 DEF x, y, p, z

\* and a type popped from the stack is popped from that part.
LEMMA SeenPop ==
  ASSUME NEW S, NEW s \in Seq(S), NEW a \in Nat \ {0}, a <= Len(s)
  PROVE  /\ SubSeq(Front(s), a, Len(s) - 1) = Front(SubSeq(s, a, Len(s)))
         /\ Front(s) \in Seq(S) /\ Len(Front(s)) = Len(s) - 1
         /\ \A i \in 1 .. Len(s) - 1 : Front(s)[i] = s[i]
<1> DEFINE p == Front(s)
           x == SubSeq(p, a, Len(s) - 1)
           y == SubSeq(s, a, Len(s))
<1>1. Len(s) \in Nat \ {0} /\ \A i \in 1 .. Len(s) : s[i] \in S
  OBVIOUS
<1>2. p = [i \in 1 .. Len(s) - 1 |-> s[i]]
  BY DEF Front
<1>3. /\ p \in Seq(S) /\ Len(p) = Len(s) - 1
      /\ \A i \in 1 .. Len(s) - 1 : p[i] = s[i]
  BY <1>1, <1>2
<1> HIDE DEF p
<1>4. /\ x \in Seq(S) /\ Len(x) = Len(s) - a
      /\ \A i \in 1 .. Len(s) - a : x[i] = p[a + i - 1]
  BY <1>1, <1>3, SeenLength
<1>5. /\ y \in Seq(S) /\ Len(y) = Len(s) + 1 - a
      /\ \A i \in 1 .. Len(s) + 1 - a : y[i] = s[a + i - 1]
  BY <1>1, SeenLength
<1> HIDE DEF x, y
<1>6. Front(y) = [i \in 1 .. Len(s) - a |-> y[i]]
  BY <1>1, <1>5 DEF Front
<1>7. \A i \in 1 .. Len(s) - a : y[i] \in S
  BY <1>1, <1>5
<1>8. Front(y) \in Seq(S) /\ Len(Front(y)) = Len(s) - a
  <2> DEFINE k == Len(s) - a
  <2>1. k \in Nat
    BY <1>1
  <2>2. Front(y) = [i \in 1 .. k |-> y[i]] /\ \A i \in 1 .. k : y[i] \in S
    BY <1>6, <1>7
  <2> HIDE DEF k
  <2>3. Front(y) \in Seq(S) /\ Len(Front(y)) = k
    BY <2>1, <2>2
  <2>4. QED
    BY <2>3 DEF k
<1>9. ASSUME NEW i \in 1 .. Len(s) - a PROVE x[i] = Front(y)[i]
  <2>1. x[i] = p[a + i - 1] /\ Front(y)[i] = y[i] /\ y[i] = s[a + i - 1]
    <3>1. x[i] = p[a + i - 1]
      BY <1>4
    <3>2. Front(y)[i] = y[i]
      BY <1>6
    <3>3. i \in 1 .. Len(s) + 1 - a
      BY <1>1
    <3>4. y[i] = s[a + i - 1]
      BY <1>5, <3>3
    <3>5. QED
      BY <3>1, <3>2, <3>4
  <2>2. a + i - 1 \in 1 .. Len(s) - 1
    BY <1>1
  <2>3. QED
    BY <1>3, <2>1, <2>2
<1>10. x = Front(y)
  BY <1>1, <1>4, <1>8, <1>9, SeqEqual
<1>11. QED
  BY <1>3, <1>10 DEF x, y, p

\* What is below is as it was.
LEMMA SeenBelow ==
  ASSUME NEW S, NEW s \in Seq(S), NEW r \in Seq(S), NEW a \in Nat \ {0}, NEW b \in Nat,
         a <= b + 1, b <= Len(s), b <= Len(r), \A i \in 1 .. b : r[i] = s[i]
  PROVE  SubSeq(r, a, b) = SubSeq(s, a, b)
<1> DEFINE x == SubSeq(r, a, b)
           y == SubSeq(s, a, b)
<1>1. /\ x \in Seq(S) /\ Len(x) = b + 1 - a
      /\ \A i \in 1 .. b + 1 - a : x[i] = r[a + i - 1]
  BY SeenLength
<1>2. /\ y \in Seq(S) /\ Len(y) = b + 1 - a
      /\ \A i \in 1 .. b + 1 - a : y[i] = s[a + i - 1]
  BY SeenLength
<1> HIDE DEF x, y
<1>3. ASSUME NEW i \in 1 .. b + 1 - a PROVE x[i] = y[i]
  <2>1. a + i - 1 \in 1 .. b
    OBVIOUS
  <2>2. QED
    BY <1>1, <1>2, <2>1
<1>4. x = y
  BY <1>1, <1>2, <1>3, SeqEqual
<1>5. QED
  BY <1>4 DEF x, y

(***************************************************************************)
(* Texts for integer types and operators.                                  *)
(***************************************************************************)

\* Is a whole number a value of the integer type?
Fits(t, x) == x.kind = "int" => x.num \in Low(t.size, t.signed) .. Up(t.size, t.signed)

\* What is written for a value of an integer type fits it.
LEMMA IntTextFits ==
  ASSUME NEW t \in IntTypes, NEW v \in Low(t.size, t.signed) .. Up(t.size, t.signed)
  PROVE  IsText(IntText(v)) /\ Fits(t, IntText(v).num) /\ ~ IntText(v).open
<1>1. v \in Int
  OBVIOUS
<1>2. IsNumber(Integer(v)) /\ Integer(v).num = v
  BY <1>1, IntegerIsNumber
<1>3. /\ IsText(Atom(Integer(v), v < 0)) /\ Atom(Integer(v), v < 0).num = Integer(v)
      /\ ~ Atom(Integer(v), v < 0).open
  BY <1>2, AtomIsText
<1>4. QED
  BY <1>2, <1>3 DEF IntText, Fits

\* Int.check_literal_bounds: a negative float gets a minus, and stays a float.
LEMMA CheckedTextFits ==
  ASSUME NEW t \in IntTypes, NEW text, IsText(text)
  PROVE  /\ IsText(CheckLiteralBounds(t.size, t.signed, text))
         /\ Fits(t, CheckLiteralBounds(t.size, t.signed, text).num)
<1> DEFINE c == CheckLiteralBounds(t.size, t.signed, text)
<1>1. t.size \in 1 .. Word /\ t.signed \in BOOLEAN
  BY DEF IntTypes
<1>2. CASE text.num.kind = "float" /\ Negative(text.num) /\ ~ t.signed
  <2>1. c = Minus(text)
    BY <1>2 DEF CheckLiteralBounds
  <2>2. IsText(Minus(text)) /\ Minus(text).num = text.flip
    BY MinusIsText
  <2>3. text.flip.kind # "int"
    BY <1>2 DEF IsText, Alike
  <2> HIDE DEF c
  <2>4. QED
    BY <2>1, <2>2, <2>3 DEF c, Fits
<1>3. CASE /\ text.num.kind = "int"
           /\ text.num.num \notin Low(t.size, t.signed) .. Up(t.size, t.signed)
  <2> DEFINE v == Reduced(t.size, t.signed, text.num.num)
  <2>1. c = IntText(v)
    BY <1>3 DEF CheckLiteralBounds
  <2>2. text.num.num \in Int
    BY DEF IsText, IsNumber
  <2>3. v \in Low(t.size, t.signed) .. Up(t.size, t.signed)
    BY <1>1, <2>2, ReducedIsInRange
  <2> HIDE DEF c, v
  <2>4. QED
    BY <2>1, <2>3, IntTextFits DEF c
<1>4. CASE /\ ~ (text.num.kind = "float" /\ Negative(text.num) /\ ~ t.signed)
           /\ ~ (/\ text.num.kind = "int"
                 /\ text.num.num \notin Low(t.size, t.signed) .. Up(t.size, t.signed))
  <2>1. c = text
    BY <1>4 DEF CheckLiteralBounds
  <2>2. QED
    BY <1>4, <2>1 DEF Fits
<1>5. QED
  BY <1>2, <1>3, <1>4

\* In an operator, a text is nested in parentheses, which do not change its number.
LEMMA NestedIsText ==
  ASSUME NEW text
  PROVE  /\ op_stack > 0 => ~ Nested(text).open
         /\ IsText(text) => IsText(Nested(text))
         /\ Nested(text).num = text.num
<1>1. Parenthesised(text).num = text.num /\ Parenthesised(text).open = FALSE
  BY DEF Parenthesised, Atom
<1>2. IsText(text) => IsText(Parenthesised(text))
  BY AtomIsText DEF IsText, Parenthesised
<1>3. QED
  BY <1>1, <1>2 DEF Nested

(***************************************************************************)
(* Values.                                                                 *)
(***************************************************************************)

\* What may be returned for a type.
IsGood(t, v) ==
  /\ IsText(v.text)
  /\ t.class = "INT" => Fits(t, v.text.num) /\ Fits(t, v.inside)

\* Of a name nothing is known, so that it fits every type,
LEMMA NamedIsText ==
  /\ IsText(Named) /\ ~ Named.open /\ Named.num = Unknown
  /\ \A t : Fits(t, Unknown)
<1>1. /\ IsText(Atom(Unknown, FALSE)) /\ Atom(Unknown, FALSE).num = Unknown
      /\ ~ Atom(Unknown, FALSE).open
  BY OtherNumbers, AtomIsText
<1>2. QED
  BY <1>1, OtherNumbers DEF Named, Fits

\* and so it is with a call.
LEMMA CallIsGood ==
  ASSUME NEW t, NEW size
  PROVE  /\ IsGood(t, Call(size)) /\ ~ Call(size).text.open /\ Call(size).fixed = TRUE
         /\ Call(size).text = Named
<1>1. Call(size).text = Named /\ Call(size).inside = Unknown /\ Call(size).fixed = TRUE
  BY DEF Call, Value
<1>2. QED
  BY <1>1, NamedIsText DEF IsGood

\* A literal or a variable: in a constant, it is one.
LEMMA LeafIsGood ==
  ASSUME NEW t \in Visitable, NEW v \in LiteralValues(t) \cup ReferenceValues(t)
  PROVE  IsGood(t, v) /\ ~ v.text.open /\ (is_constant => v.fixed)
<1>1. CASE t.class = "INT" /\ v \in LiteralValues(t)
  <2>1. PICK n \in Raw : v = Value(IntText(Reduced(t.size, t.signed, n)), 0, TRUE)
    BY <1>1 DEF LiteralValues
  <2> DEFINE m == Reduced(t.size, t.signed, n)
  <2>2. t \in IntTypes /\ t.size \in 1 .. Word /\ t.signed \in BOOLEAN
    BY <1>1, VisitableShape DEF IntTypes
  <2>3. n \in Int
    BY MessageAssumption
  <2>4. m \in Low(t.size, t.signed) .. Up(t.size, t.signed)
    BY <2>2, <2>3, ReducedIsInRange
  <2> HIDE DEF m
  <2>5. IsText(IntText(m)) /\ Fits(t, IntText(m).num) /\ ~ IntText(m).open
    BY <2>2, <2>4, IntTextFits
  <2>6. v.text = IntText(m) /\ v.inside = Unknown /\ v.fixed = TRUE
    BY <2>1 DEF m, Value
  <2>7. QED
    BY <2>5, <2>6, NamedIsText DEF IsGood
<1>2. CASE t.class = "DECIMAL" /\ v \in LiteralValues(t)
  <2>1. PICK n \in Raw : v = Value(Atom(Float(n, 1), FALSE), 0, TRUE)
    BY <1>2 DEF LiteralValues
  <2>2. n \in Int /\ 1 \in Nat \ {0}
    BY MessageAssumption
  <2>3. IsNumber(Float(n, 1))
    BY <2>2, FloatIsNumber
  <2>4. IsText(Atom(Float(n, 1), FALSE)) /\ ~ Atom(Float(n, 1), FALSE).open
    BY <2>3, AtomIsText
  <2>5. v.text = Atom(Float(n, 1), FALSE) /\ v.fixed = TRUE
    BY <2>1 DEF Value
  <2>6. QED
    BY <1>2, <2>4, <2>5 DEF IsGood
<1>3. CASE t.class \notin {"INT", "DECIMAL"} /\ v \in LiteralValues(t)
  <2>1. \E size : v = Call(size)
    BY <1>3 DEF LiteralValues
  <2>2. QED
    BY <2>1, CallIsGood
<1>4. CASE v \in ReferenceValues(t)
  <2> DEFINE sizes == IF t.class \in {"BYTES", "STRING"} THEN 1 .. t.size ELSE {t.size}
             choices == IF is_constant THEN {TRUE} ELSE BOOLEAN
  <2>1. ReferenceValues(t) = {Value(Named, size, fixed) : size \in sizes, fixed \in choices}
    BY DEF ReferenceValues
  <2>5. \A fixed \in choices : is_constant => fixed
    OBVIOUS
  <2> HIDE DEF sizes, choices
  <2>2. PICK size \in sizes, fixed \in choices : v = Value(Named, size, fixed)
    BY <1>4, <2>1
  <2>3. v.text = Named /\ v.inside = Unknown /\ (is_constant => v.fixed)
    BY <2>2, <2>5 DEF Value
  <2>4. QED
    BY <2>3, NamedIsText DEF IsGood
<1>5. QED
  BY <1>1, <1>2, <1>3, <1>4

\* What a visitor has visited, by what it has left to do.
Counted(prod, todo, k) ==
  /\ prod = "unOp" =>
       \E c : \/ todo \in {<<Do("operator"), Visit(c), Do("operated")>>,
                           <<Visit(c), Do("operated")>>} /\ k = 0
              \/ todo \in {<<Do("operated")>>, <<>>} /\ k = 1
  /\ prod = "binOp" =>
       \E c : \/ todo \in {<<Do("operator"), Visit(c), Visit(c), Do("operated")>>,
                           <<Visit(c), Visit(c), Do("operated")>>} /\ k = 0
              \/ todo = <<Visit(c), Do("operated")>> /\ k = 1
              \/ todo \in {<<Do("operated")>>, <<>>} /\ k = 2
  /\ prod = "convert" =>
       \E t : \/ todo \in {<<Push(t), Visit(t.class), Pop>>, <<Visit(t.class), Pop>>} /\ k = 0
              \/ todo \in {<<Pop>>, <<>>} /\ k = 1

\* A step fewer to take.
LEMMA Tails ==
  ASSUME NEW a, NEW b, NEW c, NEW d
  PROVE  /\ Tail(<<a>>) = <<>> /\ Head(<<a>>) = a
         /\ Tail(<<a, b>>) = <<b>> /\ Head(<<a, b>>) = a
         /\ Tail(<<a, b, c>>) = <<b, c>> /\ Head(<<a, b, c>>) = a
         /\ Tail(<<a, b, c, d>>) = <<b, c, d>> /\ Head(<<a, b, c, d>>) = a
  OBVIOUS

\* A visit adds one operand.
LEMMA CountedAgain ==
  ASSUME NEW prod, NEW todo, NEW k \in Nat, Counted(prod, todo, k), todo # <<>>
  PROVE  Counted(prod, Tail(todo), IF Head(todo).do = "visit" THEN k + 1 ELSE k)
<1> DEFINE more == IF Head(todo).do = "visit" THEN k + 1 ELSE k
           o == Do("operator")
           d == Do("operated")
<1>1. o.do # "visit" /\ d.do # "visit" /\ Pop.do # "visit"
  BY DEF Do, Pop
<1>5. \A c : Visit(c).do = "visit" /\ Push(c).do # "visit"
  BY DEF Visit, Push
<1>2. CASE prod = "unOp"
  <2>1. PICK c : \/ todo \in {<<o, Visit(c), d>>, <<Visit(c), d>>} /\ k = 0
                 \/ todo \in {<<d>>, <<>>} /\ k = 1
    BY <1>2 DEF Counted
  <2> DEFINE v == Visit(c)
  <2>2. v.do = "visit"
    BY <1>5
  <2> HIDE DEF o, d, v
  <2>3. CASE todo = <<o, v, d>> /\ k = 0
    <3>1. Tail(todo) = <<v, d>> /\ Head(todo) = o
      BY <2>3, Tails
    <3>2. more = 0
      BY <1>1, <2>3, <3>1
    <3>3. QED
      BY <1>2, <3>1, <3>2 DEF Counted, o, d, v
  <2>4. CASE todo = <<v, d>> /\ k = 0
    <3>1. Tail(todo) = <<d>> /\ Head(todo) = v
      BY <2>4, Tails
    <3>2. more = 1
      BY <2>2, <2>4, <3>1
    <3>3. QED
      BY <1>2, <3>1, <3>2 DEF Counted, o, d, v
  <2>5. CASE todo = <<d>> /\ k = 1
    <3>1. Tail(todo) = <<>> /\ Head(todo) = d
      BY <2>5, Tails
    <3>2. more = 1
      BY <1>1, <2>5, <3>1
    <3>3. QED
      BY <1>2, <3>1, <3>2 DEF Counted, o, d, v
  <2>6. QED
    BY <2>1, <2>3, <2>4, <2>5 DEF o, d, v
<1>3. CASE prod = "binOp"
  <2>1. PICK c : \/ todo \in {<<o, Visit(c), Visit(c), d>>, <<Visit(c), Visit(c), d>>} /\ k = 0
                 \/ todo = <<Visit(c), d>> /\ k = 1
                 \/ todo \in {<<d>>, <<>>} /\ k = 2
    BY <1>3 DEF Counted
  <2> DEFINE v == Visit(c)
  <2>2. v.do = "visit"
    BY <1>5
  <2> HIDE DEF o, d, v
  <2>3. CASE todo = <<o, v, v, d>> /\ k = 0
    <3>1. Tail(todo) = <<v, v, d>> /\ Head(todo) = o
      BY <2>3, Tails
    <3>2. more = 0
      BY <1>1, <2>3, <3>1
    <3>3. QED
      BY <1>3, <3>1, <3>2 DEF Counted, o, d, v
  <2>4. CASE todo = <<v, v, d>> /\ k = 0
    <3>1. Tail(todo) = <<v, d>> /\ Head(todo) = v
      BY <2>4, Tails
    <3>2. more = 1
      BY <2>2, <2>4, <3>1
    <3>3. QED
      BY <1>3, <3>1, <3>2 DEF Counted, o, d, v
  <2>5. CASE todo = <<v, d>> /\ k = 1
    <3>1. Tail(todo) = <<d>> /\ Head(todo) = v
      BY <2>5, Tails
    <3>2. more = 2
      BY <2>2, <2>5, <3>1
    <3>3. QED
      BY <1>3, <3>1, <3>2 DEF Counted, o, d, v
  <2>6. CASE todo = <<d>> /\ k = 2
    <3>1. Tail(todo) = <<>> /\ Head(todo) = d
      BY <2>6, Tails
    <3>2. more = 2
      BY <1>1, <2>6, <3>1
    <3>3. QED
      BY <1>3, <3>1, <3>2 DEF Counted, o, d, v
  <2>7. QED
    BY <2>1, <2>3, <2>4, <2>5, <2>6 DEF o, d, v
<1>4. CASE prod = "convert"
  <2>1. PICK t : \/ todo \in {<<Push(t), Visit(t.class), Pop>>, <<Visit(t.class), Pop>>} /\ k = 0
                 \/ todo \in {<<Pop>>, <<>>} /\ k = 1
    BY <1>4 DEF Counted
  <2> DEFINE v == Visit(t.class)
             p == Push(t)
  <2>2. v.do = "visit" /\ p.do # "visit"
    BY <1>5
  <2> HIDE DEF v, p
  <2>3. CASE todo = <<p, v, Pop>> /\ k = 0
    <3>1. Tail(todo) = <<v, Pop>> /\ Head(todo) = p
      BY <2>3, Tails
    <3>2. more = 0
      BY <2>2, <2>3, <3>1
    <3>3. QED
      BY <1>4, <3>1, <3>2 DEF Counted, v, p
  <2>4. CASE todo = <<v, Pop>> /\ k = 0
    <3>1. Tail(todo) = <<Pop>> /\ Head(todo) = v
      BY <2>4, Tails
    <3>2. more = 1
      BY <2>2, <2>4, <3>1
    <3>3. QED
      BY <1>4, <3>1, <3>2 DEF Counted, v, p
  <2>5. CASE todo = <<Pop>> /\ k = 1
    <3>1. Tail(todo) = <<>> /\ Head(todo) = Pop
      BY <2>5, Tails
    <3>2. more = 1
      BY <1>1, <2>5, <3>1
    <3>3. QED
      BY <1>4, <3>1, <3>2 DEF Counted
  <2>6. QED
    BY <2>1, <2>3, <2>4, <2>5 DEF v, p
<1>6. QED
  BY <1>2, <1>3, <1>4 DEF Counted

\* A visitor that is done has all its operands.
LEMMA CountedAll ==
  ASSUME NEW prod, NEW k, Counted(prod, <<>>, k)
  PROVE  /\ prod \in {"unOp", "convert"} => k = 1
         /\ prod = "binOp" => k = 2
  BY DEF Counted

\* What the operands of an operator and of a convert are.
ArgsGood(f) ==
  /\ IsASequence(f.args)
  /\ f.prod \in OpProds => \A j \in 1 .. Len(f.args) : ~ f.args[j].text.open
  /\ PowersAreNumbers =>
       /\ f.prod \in OpProds \cup {"convert"} =>
            \A j \in 1 .. Len(f.args) : IsText(f.args[j].text)
       /\ f.prod \in {"unOp", "binOp"} /\ f.type.class = "INT" =>
            \A j \in 1 .. Len(f.args) : Fits(f.type, f.args[j].text.num)

\* The operands of a visitor are closed,
LEMMA ArgsOpen ==
  ASSUME NEW f, ArgsGood(f), f.prod \in OpProds, NEW j \in 1 .. Len(f.args)
  PROVE  ~ f.args[j].text.open
  BY DEF ArgsGood

\* and are texts, which for integers fit the type.
LEMMA ArgsAreTexts ==
  ASSUME PowersAreNumbers, NEW f, ArgsGood(f), f.prod \in OpProds \cup {"convert"},
         NEW j \in 1 .. Len(f.args)
  PROVE  /\ IsText(f.args[j].text)
         /\ f.prod \in {"unOp", "binOp"} /\ f.type.class = "INT" => Fits(f.type, f.args[j].text.num)
  BY DEF ArgsGood

\* A binary operation on closed operands is one itself if it is an operand, and fits.
LEMMA BinOpIsGood ==
  ASSUME NEW t \in Visitable, NEW l, NEW r, NEW op \in Ops,
         ~ l.open, ~ r.open, PowersAreNumbers => IsText(l) /\ IsText(r)
  PROVE  LET x == IF t.class = "INT" THEN IntBinOp(t, l, op, r) ELSE Nested(Operation(l, op, r))
         IN  /\ op_stack > 0 => ~ x.open
             /\ PowersAreNumbers => IsText(x) /\ (t.class = "INT" => Fits(t, x.num))
<1>1. CASE t.class = "INT"
  <2> DEFINE b == CheckBinopBounds(t.size, l, op, r)
             o == Operation(b.left, b.op, b.right)
             c == CheckLiteralBounds(t.size, t.signed, o)
  <2>1. IntBinOp(t, l, op, r) = Nested(c)
    BY DEF IntBinOp
  <2>2. ASSUME PowersAreNumbers PROVE IsText(c) /\ Fits(t, c.num)
    <3>1. b.op \in Ops /\ IsText(b.left) /\ ~ b.left.open /\ IsNumber(b.right.num)
      BY <2>2, BinopBoundsAreTexts
    <3> HIDE DEF b
    <3>2. IsText(o)
      BY <2>2, <3>1, OperationIsText
    <3> HIDE DEF o
    <3>3. t \in IntTypes
      BY <1>1, VisitableShape
    <3>4. QED
      BY <3>2, <3>3, CheckedTextFits
  <2> HIDE DEF c
  <2>3. QED
    BY <1>1, <2>1, <2>2, NestedIsText
<1>2. CASE t.class # "INT"
  <2>1. PowersAreNumbers => IsText(Operation(l, op, r))
    BY OperationIsText DEF IsText
  <2>2. QED
    BY <1>2, <2>1, NestedIsText
<1>3. QED
  BY <1>1, <1>2

\* So does a minus.
LEMMA UnOpIsGood ==
  ASSUME NEW t \in Visitable, NEW l, ~ l.open,
         PowersAreNumbers => IsText(l) /\ (t.class = "INT" => Fits(t, l.num))
  PROVE  LET x == IF t.class = "INT" THEN IntUnOp(t, l) ELSE Nested(Minus(l))
         IN  /\ op_stack > 0 => ~ x.open
             /\ PowersAreNumbers => IsText(x) /\ (t.class = "INT" => Fits(t, x.num))
<1>1. CASE t.class = "INT" /\ t.signed
  <2> DEFINE c == CheckLiteralBounds(t.size, TRUE, Minus(l))
  <2>1. IntUnOp(t, l) = Nested(c)
    BY <1>1 DEF IntUnOp
  <2>2. t \in IntTypes /\ t.signed = TRUE
    BY <1>1, VisitableShape DEF IntTypes
  <2>3. ASSUME PowersAreNumbers PROVE IsText(c) /\ Fits(t, c.num)
    BY <2>2, <2>3, MinusIsText, CheckedTextFits
  <2> HIDE DEF c
  <2>4. QED
    BY <1>1, <2>1, <2>3, NestedIsText
<1>2. CASE t.class = "INT" /\ ~ t.signed
  <2>1. IntUnOp(t, l) = l
    BY <1>2 DEF IntUnOp
  <2>2. QED
    BY <1>2, <2>1
<1>3. CASE t.class # "INT"
  BY <1>3, MinusIsText, NestedIsText
<1>4. QED
  BY <1>1, <1>2, <1>3

\* What a visitor returns: closed if it is the operand of another operator, without
\* effects unless it calls, and a value of its type.
LEMMA ResultIsGood ==
  ASSUME NEW f, f.prod \in ExprProds, f.type \in Visitable, ArgsGood(f),
         Counted(f.prod, <<>>, Len(f.args)), f.prod = "binOp" => f.op \in Ops
  PROVE  /\ op_stack > 0 => ~ Result(f).text.open
         /\ f.prod \notin {"raw_call", "create"} => Result(f).fixed
         /\ PowersAreNumbers => IsGood(f.type, Result(f))
<1> DEFINE l == f.args[1].text
           r == f.args[2].text
           t == f.type
<1>1. CASE f.prod = "binOp"
  <2> DEFINE x == IF t.class = "INT" THEN IntBinOp(t, l, f.op, r) ELSE Nested(Operation(l, f.op, r))
  <2>1. Result(f) = Value(x, 0, TRUE)
    BY <1>1 DEF Result
  <2>2. 1 \in 1 .. Len(f.args) /\ 2 \in 1 .. Len(f.args)
    BY <1>1, CountedAll
  <2>3. ~ l.open /\ ~ r.open
    BY <1>1, <2>2, ArgsOpen DEF OpProds
  <2>4. PowersAreNumbers => IsText(l) /\ IsText(r)
    BY <1>1, <2>2, ArgsAreTexts DEF OpProds
  <2> HIDE DEF l, r, t
  <2>5. /\ op_stack > 0 => ~ x.open
        /\ PowersAreNumbers => IsText(x) /\ (t.class = "INT" => Fits(t, x.num))
    BY <1>1, <2>3, <2>4, BinOpIsGood DEF t
  <2> HIDE DEF x
  <2>6. QED
    BY <2>1, <2>5, NamedIsText DEF IsGood, t, Value
<1>2. CASE f.prod = "unOp"
  <2> DEFINE x == IF t.class = "INT" THEN IntUnOp(t, l) ELSE Nested(Minus(l))
  <2>1. Result(f) = Value(x, 0, TRUE)
    BY <1>2 DEF Result
  <2>2. 1 \in 1 .. Len(f.args)
    BY <1>2, CountedAll
  <2>3. ~ l.open
    BY <1>2, <2>2, ArgsOpen DEF OpProds
  <2>4. PowersAreNumbers => IsText(l) /\ (t.class = "INT" => Fits(t, l.num))
    BY <1>2, <2>2, ArgsAreTexts DEF OpProds
  <2> HIDE DEF l, t
  <2>5. /\ op_stack > 0 => ~ x.open
        /\ PowersAreNumbers => IsText(x) /\ (t.class = "INT" => Fits(t, x.num))
    BY <2>3, <2>4, UnOpIsGood DEF t
  <2> HIDE DEF x
  <2>6. QED
    BY <2>1, <2>5, NamedIsText DEF IsGood, t, Value
<1>3. CASE f.prod = "boolOp"
  <2> DEFINE x == [Named EXCEPT !.open = TRUE]
  <2>1. Result(f) = Value(Nested(x), 0, TRUE)
    BY <1>3 DEF Result
  <2>2. x.num = Unknown /\ x.flip = Negated(Unknown) /\ x.open = TRUE
    BY DEF Named, Atom
  <2>3. IsText(x)
    BY <2>2, OtherNumbers, NegatedNumber DEF IsText, Alike
  <2> HIDE DEF x
  <2>4. QED
    BY <2>1, <2>2, <2>3, NestedIsText, NamedIsText DEF IsGood, Value
<1>4. CASE f.prod = "convert"
  <2> DEFINE inside == IF t.class = "INT" THEN CheckLiteralBounds(t.size, t.signed, l).num
                       ELSE Unknown
  <2>1. Result(f) = [Call(t.size) EXCEPT !.inside = inside]
    BY <1>4 DEF Result, Converted
  <2>2. 1 \in 1 .. Len(f.args)
    BY <1>4, CountedAll
  <2>3. PowersAreNumbers => IsText(l)
    BY <1>4, <2>2, ArgsAreTexts
  <2> HIDE DEF l
  <2>4. PowersAreNumbers => (t.class = "INT" => Fits(t, inside))
    BY <2>3, VisitableShape, CheckedTextFits
  <2> HIDE DEF inside, t
  <2>5. Result(f).text = Named /\ Result(f).inside = inside /\ Result(f).fixed = TRUE
    BY <2>1 DEF Call, Value
  <2>6. QED
    BY <2>4, <2>5, NamedIsText DEF IsGood, t
<1>5. CASE f.prod \in {"hash", "concat", "list", "curve", "ecRec"}
  <2>1. \E size : Result(f) = Call(size)
    BY <1>5 DEF Result
  <2>2. QED
    BY <2>1, CallIsGood
<1>6. CASE f.prod \in {"raw_call", "create"}
  <2>1. Result(f) = Value(Named, f.type.size, FALSE)
    BY <1>6 DEF Result
  <2>2. QED
    BY <1>6, <2>1, NamedIsText DEF IsGood, Value
<1>7. QED
  BY <1>1, <1>2, <1>3, <1>4, <1>5, <1>6 DEF ExprProds

(***************************************************************************)
(* The visitors that are running.                                          *)
(***************************************************************************)

\* The part of the stack that is seen by frame i: from its own type, or what its statement
\* has pushed first, up to the type of the next frame.
First(f) == f.mark + 1 - Least(f.prod)
Upper(fs, types, i) == IF i = Len(fs) THEN Len(types) ELSE fs[i + 1].mark
Seen(fs, types, i) == SubSeq(types, First(fs[i]), Upper(fs, types, i))

OnCourse(f, types, mode) ==
  IF f.prod = "statement"
  THEN \E end : Runs("statement", f.todo, St(types, mode), St(end, "statement"))
  ELSE Runs(f.prod, f.todo, St(types, mode), St(<<f.type>>, "plain"))

IsFrame(f) ==
  /\ f = [prod |-> f.prod, op |-> f.op, todo |-> f.todo, args |-> f.args, type |-> f.type,
          mark |-> f.mark]
  /\ f.mark \in Nat
  /\ ArgsGood(f)
  /\ Counted(f.prod, f.todo, Len(f.args))
  /\ f.prod = "binOp" => f.op \in Ops

IsExpression(f) == f.prod \in ExprProds /\ f.type \in Visitable /\ f.mark > 0

\* A frame on its course: of those below, each waits for the value of the next.
InHand(fs, types, modes, i) ==
  /\ IsFrame(fs[i])
  /\ i = 1 => fs[i].prod = "statement" /\ modes[i] \in {"statement", "constant"}
  /\ i > 1 => /\ IsExpression(fs[i]) /\ modes[i] \in {"plain", "operator"}
              /\ types[fs[i].mark] = fs[i].type /\ fs[1].mark < fs[i].mark
  /\ fs[i].prod \in {"unOp", "binOp"} => Upper(fs, types, i) = fs[i].mark
  /\ i < Len(fs) => fs[i].todo # <<>> /\ Head(fs[i].todo).do = "visit"
  /\ OnCourse(fs[i], Seen(fs, types, i), modes[i])

Course(fs, types, modes) ==
  /\ IsASequence(fs) /\ types \in Seq(AllTypes) /\ modes \in [Nat -> Modes]
  /\ \A i \in 1 .. Len(fs) : InHand(fs, types, modes, i)
  /\ \A i \in 1 .. Len(fs) : \A j \in i .. Len(fs) : fs[i].mark <= fs[j].mark
  /\ fs # <<>> => fs[Len(fs)].mark <= Len(types)

Opened(modes, n) == {i \in 1 .. n : modes[i] = "operator"}

\* A script that is on its course takes a legal step, and stays on it.
LEMMA OnCourseStep ==
  ASSUME NEW f, NEW types, NEW mode, OnCourse(f, types, mode), f.todo # <<>>,
         NEW g, g.prod = f.prod, g.type = f.type, g.todo = Tail(f.todo)
  PROVE  /\ Legal(f.prod, Head(f.todo), St(types, mode))
         /\ OnCourse(g, TypesAfter(Head(f.todo), types), ModeAfter(Head(f.todo), mode))
<1>1. St(types, mode).types = types /\ St(types, mode).mode = mode
  BY DEF St
<1>2. CASE f.prod = "statement"
  <2>1. PICK end : Runs("statement", f.todo, St(types, mode), St(end, "statement"))
    BY <1>2 DEF OnCourse
  <2>2. /\ Legal("statement", Head(f.todo), St(types, mode))
        /\ Runs("statement", Tail(f.todo), Effect(Head(f.todo), St(types, mode)), St(end, "statement"))
    BY <2>1, RunsHead
  <2>3. QED
    BY <1>1, <1>2, <2>2 DEF OnCourse, Effect
<1>3. CASE f.prod # "statement"
  <2>1. Runs(f.prod, f.todo, St(types, mode), St(<<f.type>>, "plain"))
    BY <1>3 DEF OnCourse
  <2>2. /\ Legal(f.prod, Head(f.todo), St(types, mode))
        /\ Runs(f.prod, Tail(f.todo), Effect(Head(f.todo), St(types, mode)), St(<<f.type>>, "plain"))
    BY <2>1, RunsHead
  <2>3. QED
    BY <1>1, <1>3, <2>2 DEF OnCourse, Effect
<1>4. QED
  BY <1>2, <1>3

\* At its end it has left its operator, and an expression only its type.
LEMMA OnCourseEnd ==
  ASSUME NEW f, NEW types, NEW mode, OnCourse(f, types, mode), f.todo = <<>>
  PROVE  /\ f.prod = "statement" => mode = "statement"
         /\ f.prod # "statement" => types = <<f.type>> /\ mode = "plain"
<1>1. \A a, b, c, d : St(a, b) = St(c, d) => a = c /\ b = d
  BY DEF St
<1>2. QED
  BY <1>1, NothingRuns DEF OnCourse

\* A visit is not a step of anything.
LEMMA VisitChangesNothing ==
  ASSUME NEW step, step.do = "visit", NEW types, NEW mode
  PROVE  TypesAfter(step, types) = types /\ ModeAfter(step, mode) = mode
  BY DEF TypesAfter, ModeAfter

\* What a step does to the stack, it does to the part that is seen, from a; what is below
\* stays.
Carried(step, types, after, a, mark) ==
  /\ after \in Seq(AllTypes) /\ mark <= Len(after)
  /\ SubSeq(after, a, Len(after)) = TypesAfter(step, SubSeq(types, a, Len(types)))
  /\ \A i \in 1 .. mark : after[i] = types[i]

\* A step changes what its visitor sees as it changes the stack, and nothing below.
LEMMA SeenAfter ==
  ASSUME NEW prod, NEW step, NEW mode, NEW types \in Seq(AllTypes), NEW mark \in Nat,
         mark <= Len(types), prod # "statement" => mark > 0,
         NEW a, a = mark + 1 - Least(prod), NEW after, after = TypesAfter(step, types),
         Legal(prod, step, St(SubSeq(types, a, Len(types)), mode))
  PROVE  Carried(step, types, after, a, mark)
<1> DEFINE seen == SubSeq(types, a, Len(types))
<1>1. a \in Nat \ {0} /\ a <= Len(types) + 1 /\ Len(types) \in Nat
  BY DEF Least
<1>2. Len(seen) = Len(types) - mark + Least(prod)
  BY <1>1, SeenLength DEF Least
<1>3. CASE step.do = "push"
  <2>1. step.type \in AllTypes /\ after = Append(types, step.type)
    BY <1>3 DEF Legal, TypesAfter
  <2>2. TypesAfter(step, seen) = Append(seen, step.type)
    BY <1>3 DEF TypesAfter
  <2>3. /\ after \in Seq(AllTypes) /\ Len(after) = Len(types) + 1
        /\ \A i \in 1 .. Len(types) : after[i] = types[i]
    BY <2>1
  <2>4. SubSeq(Append(types, step.type), a, Len(types) + 1) = Append(seen, step.type)
    BY <1>1, <2>1, SeenPush
  <2>5. SubSeq(after, a, Len(after)) = TypesAfter(step, seen)
    BY <2>1, <2>2, <2>3, <2>4
  <2> HIDE DEF seen
  <2>6. mark <= Len(after) /\ \A i \in 1 .. mark : after[i] = types[i]
    BY <1>1, <2>3
  <2>7. QED
    BY <2>3, <2>5, <2>6 DEF seen, Carried
<1>4. CASE step.do = "pop"
  <2>1. Len(seen) > Least(prod) /\ after = Front(types)
    BY <1>4 DEF Legal, TypesAfter, St
  <2>2. TypesAfter(step, seen) = Front(seen)
    BY <1>4 DEF TypesAfter
  <2>3. Len(types) > mark /\ a <= Len(types)
    BY <1>1, <1>2, <2>1 DEF Least
  <2>4. /\ SubSeq(Front(types), a, Len(types) - 1) = Front(seen)
        /\ Front(types) \in Seq(AllTypes) /\ Len(Front(types)) = Len(types) - 1
        /\ \A i \in 1 .. Len(types) - 1 : Front(types)[i] = types[i]
    BY <1>1, <2>3, SeenPop
  <2> HIDE DEF seen
  <2>5. QED
    BY <1>1, <2>1, <2>2, <2>3, <2>4 DEF seen, Carried
<1>5. CASE step.do \notin {"push", "pop"}
  <2>1. \A s : TypesAfter(step, s) = s
    BY <1>5 DEF TypesAfter
  <2>2. QED
    BY <2>1 DEF Carried
<1>6. QED
  BY <1>3, <1>4, <1>5

\* The operators that are open, one of them entered or left.
CountAfter(step, k) ==
  CASE step.do = "operator" -> k + 1
    [] step.do = "operated" -> k - 1
    [] OTHER -> k

\* A step opens and closes operators as it changes the mode of its visitor.
LEMMA OpenedAfter ==
  ASSUME NEW modes \in [Nat -> Modes], NEW n \in Nat \ {0}, NEW prod, NEW step, NEW types,
         Legal(prod, step, St(types, modes[n])),
         NEW m, m = [modes EXCEPT ![n] = ModeAfter(step, modes[n])]
  PROVE  Cardinality(Opened(m, n)) = CountAfter(step, Cardinality(Opened(modes, n)))
<1> DEFINE to == ModeAfter(step, modes[n])
           S == Opened(modes, n)
<1>1. modes[n] \in Modes /\ to \in Modes
  BY DEF ModeAfter, Modes
<1>2. /\ step.do = "operator" => modes[n] # "operator" /\ to = "operator"
      /\ step.do = "operated" => modes[n] = "operator" /\ to # "operator"
      /\ step.do \notin {"operator", "operated"} => (modes[n] = "operator" <=> to = "operator")
  BY DEF Legal, ModeAfter, St
<1>9. m = [modes EXCEPT ![n] = to]
  OBVIOUS
<1> HIDE DEF to
<1>3. m \in [Nat -> Modes] /\ m[n] = to /\ \A i \in 1 .. n : i # n => m[i] = modes[i]
  BY <1>1, <1>9
<1>4. S \subseteq 1 .. n /\ IsFiniteSet(S)
  <2>1. IsFiniteSet(1 .. n)
    BY FS_Interval
  <2>2. S \subseteq 1 .. n
    BY DEF Opened
  <2>3. QED
    BY <2>1, <2>2, FS_Subset
<1>5. CASE step.do = "operator"
  <2>1. Opened(m, n) = S \cup {n} /\ n \notin S
    BY <1>2, <1>3, <1>5 DEF Opened
  <2>2. Cardinality(S \cup {n}) = Cardinality(S) + 1
    BY <1>4, <2>1, FS_AddElement
  <2>3. QED
    BY <1>3, <1>5, <2>1, <2>2 DEF CountAfter
<1>6. CASE step.do = "operated"
  <2>1. Opened(m, n) = S \ {n} /\ n \in S
    BY <1>2, <1>3, <1>6 DEF Opened
  <2>2. Cardinality(S \ {n}) = Cardinality(S) - 1
    BY <1>4, <2>1, FS_RemoveElement
  <2>3. QED
    BY <1>3, <1>6, <2>1, <2>2 DEF CountAfter
<1>7. CASE step.do \notin {"operator", "operated"}
  <2>1. Opened(m, n) = S
    BY <1>2, <1>3, <1>7 DEF Opened
  <2>2. QED
    BY <1>3, <1>7, <2>1 DEF CountAfter
<1>8. QED
  BY <1>5, <1>6, <1>7

(***************************************************************************)
(* Frames.                                                                 *)
(***************************************************************************)

\* A step fewer to take, and one value more.
LEMMA FrameParts ==
  ASSUME NEW f, NEW k, IsFrame(f)
  PROVE  /\ Advanced(f) = [prod |-> f.prod, op |-> f.op, todo |-> Tail(f.todo), args |-> f.args,
                            type |-> f.type, mark |-> f.mark]
         /\ [Advanced(f) EXCEPT !.args = Append(@, k)] =
              [prod |-> f.prod, op |-> f.op, todo |-> Tail(f.todo), args |-> Append(f.args, k),
               type |-> f.type, mark |-> f.mark]
<1> DEFINE prod == f.prod
           op == f.op
           todo == f.todo
           args == f.args
           type == f.type
           mark == f.mark
           t == Tail(todo)
           a == Append(args, k)
<1>1. f = [prod |-> prod, op |-> op, todo |-> todo, args |-> args, type |-> type, mark |-> mark]
  BY DEF IsFrame
<1>2. Advanced(f) = [f EXCEPT !.todo = t]
  BY DEF Advanced
<1> HIDE DEF prod, op, todo, args, type, mark, t
<1>3. Advanced(f) = [prod |-> prod, op |-> op, todo |-> t, args |-> args, type |-> type,
                     mark |-> mark]
  BY <1>1, <1>2
<1>4. Advanced(f).args = args
  BY <1>3
<1>5. [Advanced(f) EXCEPT !.args = Append(@, k)] = [Advanced(f) EXCEPT !.args = a]
  BY <1>4
<1> HIDE DEF a
<1>6. [Advanced(f) EXCEPT !.args = a] = [prod |-> prod, op |-> op, todo |-> t, args |-> a,
                                         type |-> type, mark |-> mark]
  BY <1>3
<1>7. QED
  BY <1>3, <1>5, <1>6 DEF prod, op, todo, args, type, mark, t, a

\* A visitor that takes a step without a visit,
LEMMA FrameAdvanced ==
  ASSUME NEW f, IsFrame(f), f.todo # <<>>, Head(f.todo).do # "visit"
  PROVE  /\ IsFrame(Advanced(f))
         /\ Advanced(f).prod = f.prod /\ Advanced(f).type = f.type
         /\ Advanced(f).mark = f.mark /\ Advanced(f).todo = Tail(f.todo)
<1> DEFINE g == Advanced(f)
<1>1. g = [prod |-> f.prod, op |-> f.op, todo |-> Tail(f.todo), args |-> f.args,
           type |-> f.type, mark |-> f.mark]
  BY FrameParts
<1> HIDE DEF g
<1>2. /\ g.prod = f.prod /\ g.op = f.op /\ g.args = f.args /\ g.type = f.type
      /\ g.mark = f.mark /\ g.todo = Tail(f.todo)
  BY <1>1
<1>3. ArgsGood(g)
  BY <1>2 DEF IsFrame, ArgsGood
<1>4. Counted(g.prod, g.todo, Len(g.args))
  <2>1. Len(f.args) \in Nat
    BY InSequence DEF IsFrame, ArgsGood
  <2>2. Counted(f.prod, Tail(f.todo), Len(f.args))
    BY <2>1, CountedAgain DEF IsFrame
  <2>3. QED
    BY <1>2, <2>2
<1>5. IsFrame(g)
  BY <1>1, <1>2, <1>3, <1>4 DEF IsFrame
<1>6. QED
  BY <1>2, <1>5 DEF g

\* and one that is given the value of a visit.
LEMMA FrameGiven ==
  ASSUME NEW f, IsFrame(f), f.todo # <<>>, Head(f.todo).do = "visit", NEW v,
         f.prod \in OpProds => ~ v.text.open,
         PowersAreNumbers =>
           IsText(v.text) /\ (f.prod \in {"unOp", "binOp"} /\ f.type.class = "INT" =>
                                Fits(f.type, v.text.num))
  PROVE  LET g == [Advanced(f) EXCEPT !.args = Append(@, Kept(f, v))]
         IN  /\ IsFrame(g) /\ g.prod = f.prod /\ g.type = f.type /\ g.mark = f.mark
             /\ g.todo = Tail(f.todo)
<1> DEFINE k == Kept(f, v)
           g == [Advanced(f) EXCEPT !.args = Append(@, k)]
<1>1. f.prod \in OpProds \cup {"convert"} => k.text = v.text
  <2>1. f.prod \in OpProds \cup {"convert"} => k = Value(v.text, 0, TRUE)
    BY DEF Kept, OpProds
  <2>2. Value(v.text, 0, TRUE).text = v.text
    BY DEF Value
  <2>3. QED
    BY <2>1, <2>2
<1> HIDE DEF k
<1>2. g = [prod |-> f.prod, op |-> f.op, todo |-> Tail(f.todo), args |-> Append(f.args, k),
           type |-> f.type, mark |-> f.mark]
  BY FrameParts
<1> HIDE DEF g
<1>3. /\ g.prod = f.prod /\ g.op = f.op /\ g.args = Append(f.args, k) /\ g.type = f.type
      /\ g.mark = f.mark /\ g.todo = Tail(f.todo)
  BY <1>2
<1>4. /\ IsASequence(g.args) /\ Len(f.args) \in Nat /\ Len(g.args) = Len(f.args) + 1
      /\ \A j \in 1 .. Len(g.args) :
           IF j = Len(f.args) + 1 THEN g.args[j] = k
           ELSE j \in 1 .. Len(f.args) /\ g.args[j] = f.args[j]
  BY <1>3, InSequence DEF IsFrame, ArgsGood
<1>5. ArgsGood(f)
  BY DEF IsFrame
<1>6. ASSUME f.prod \in OpProds, NEW j \in 1 .. Len(g.args)
      PROVE  ~ g.args[j].text.open
  BY <1>1, <1>4, <1>5, <1>6, ArgsOpen
<1>7. ASSUME PowersAreNumbers, f.prod \in OpProds \cup {"convert"}, NEW j \in 1 .. Len(g.args)
      PROVE  /\ IsText(g.args[j].text)
             /\ f.prod \in {"unOp", "binOp"} /\ f.type.class = "INT" => Fits(f.type, g.args[j].text.num)
  BY <1>1, <1>4, <1>5, <1>7, ArgsAreTexts
<1>8. ArgsGood(g)
  BY <1>3, <1>4, <1>6, <1>7 DEF ArgsGood, OpProds
<1>9. Counted(g.prod, g.todo, Len(g.args))
  <2>1. Counted(f.prod, Tail(f.todo), Len(f.args) + 1)
    BY <1>4, CountedAgain DEF IsFrame
  <2>2. QED
    BY <1>3, <1>4, <2>1
<1>10. IsFrame(g)
  BY <1>2, <1>3, <1>8, <1>9 DEF IsFrame
<1>11. QED
  BY <1>3, <1>10 DEF g, k

\* What a visitor starts with.
LEMMA CountedFirst ==
  ASSUME NEW t \in Visitable, NEW p \in Productions(t)
  PROVE  Counted(p.prod, p.todo, 0) /\ (p.prod = "binOp" => p.op \in Ops)
<1> DEFINE inputs == {In(i) : i \in Inputs(t)}
<1>1. \A s \in inputs : \E i \in Inputs(t) : s = In(i)
  OBVIOUS
<1> HIDE DEF inputs
<1>2. CASE p \in Production("convert", "", inputs)
  <2>1. p.prod = "convert" /\ p.todo \in inputs
    BY <1>2, InProduction
  <2>2. PICK i : p.todo = In(i)
    BY <1>1, <2>1
  <2>3. p.todo = <<Push(i), Visit(i.class), Pop>>
    BY <2>2 DEF In
  <2>4. QED
    BY <2>1, <2>3 DEF Counted
<1>3. ASSUME NEW class, NEW ops, ops \subseteq Ops, p \in NumberProductions(class, ops)
      PROVE  Counted(p.prod, p.todo, 0) /\ (p.prod = "binOp" => p.op \in Ops)
  <2> DEFINE unary == Operator(<<class>>)
             binary == Operator(<<class, class>>)
  <2>1. unary = <<Do("operator"), Visit(class), Do("operated")>>
    BY OperatorScript
  <2>2. binary = <<Do("operator"), Visit(class), Visit(class), Do("operated")>>
    BY OperatorScript
  <2> HIDE DEF unary, binary
  <2>3. CASE p \in {[prod |-> "binOp", op |-> op, todo |-> binary] : op \in ops}
    <3>1. p.prod = "binOp" /\ p.op \in Ops /\ p.todo = binary
      BY <1>3, <2>3
    <3>2. QED
      BY <2>2, <3>1 DEF Counted
  <2>4. CASE p \in Production("unOp", "-", {unary})
    <3>1. p.prod = "unOp" /\ p.todo = unary
      BY <2>4, InProduction
    <3>2. QED
      BY <2>1, <3>1 DEF Counted
  <2>5. QED
    BY <1>3, <2>3, <2>4 DEF NumberProductions, unary, binary
<1>4. IntOps \subseteq Ops /\ DecimalOps \subseteq Ops
  BY OperatorsAssumption DEF Ops
<1>5. CASE p.prod \notin {"unOp", "binOp", "convert"}
  BY <1>5 DEF Counted
<1>6. \A prod, op, scripts : \A q \in Production(prod, op, scripts) : q.prod = prod
  BY InProduction
<1>7. \/ p \in Production("convert", "", inputs)
      \/ p \in NumberProductions("INT", IntOps)
      \/ p \in NumberProductions("DECIMAL", DecimalOps)
      \/ p \in BoolProductions \cup AddressProductions \cup Production("hash", "", Hash)
                 \cup BytesProductions(t) \cup Production("concat", "", Concat("STRING", t.size))
                 \cup ListProductions(t)
  BY VisitableShape DEF Productions, inputs
<1>8. CASE p \in BoolProductions
  BY <1>5, <1>6, <1>8 DEF BoolProductions
<1>9. CASE p \in AddressProductions
  BY <1>5, <1>6, <1>9 DEF AddressProductions
<1>10. CASE p \in BytesProductions(t)
  BY <1>5, <1>6, <1>10 DEF BytesProductions
<1>11. CASE p \in ListProductions(t)
  <2>1. p.prod \in {"list", "curve"}
    BY <1>6, <1>11 DEF ListProductions
  <2>2. QED
    BY <1>5, <2>1
<1>12. CASE p \in Production("hash", "", Hash) \cup Production("concat", "", Concat("STRING", t.size))
  BY <1>5, <1>6, <1>12
<1>13. QED
  BY <1>2, <1>3, <1>4, <1>7, <1>8, <1>9, <1>10, <1>11, <1>12

(***************************************************************************)
(* The course of the visitors.                                             *)
(***************************************************************************)

\* The marks of the frames do not fall, and all are on the stack.
LEMMA CourseMarks ==
  ASSUME NEW fs, NEW types, NEW modes, Course(fs, types, modes), NEW i \in 1 .. Len(fs)
  PROVE  /\ Len(fs) \in Nat \ {0} /\ IsFrame(fs[i])
         /\ fs[i].mark \in Nat /\ fs[i].mark <= fs[Len(fs)].mark /\ fs[i].mark <= Len(types)
         /\ Len(types) \in Nat /\ fs # <<>>
         /\ First(fs[i]) \in Nat \ {0} /\ First(fs[i]) <= fs[i].mark + 1
         /\ fs[i].prod # "statement" => fs[i].mark > 0
         /\ fs[i].prod = "statement" <=> i = 1
         /\ i < Len(fs) => fs[i].mark <= fs[i + 1].mark /\ fs[i + 1].mark <= Len(types)
<1>1. Len(fs) \in Nat /\ Len(types) \in Nat /\ fs # <<>> /\ Len(fs) > 0
  BY InSequence DEF Course
<1>2. ASSUME NEW j \in 1 .. Len(fs)
      PROVE  fs[j].mark \in Nat /\ fs[Len(fs)].mark \in Nat /\ fs[j].mark <= Len(types)
  <2>4. InHand(fs, types, modes, j) /\ InHand(fs, types, modes, Len(fs))
    BY <1>1 DEF Course
  <2>5. IsFrame(fs[j]) /\ IsFrame(fs[Len(fs)])
    BY <2>4 DEF InHand
  <2>6. \A f : IsFrame(f) => f.mark \in Nat
    BY DEF IsFrame
  <2>1. fs[j].mark \in Nat /\ fs[Len(fs)].mark \in Nat
    BY <2>5, <2>6
  <2>2. fs[j].mark <= fs[Len(fs)].mark /\ fs[Len(fs)].mark <= Len(types)
    BY <1>1 DEF Course
  <2>3. QED
    BY <1>1, <2>1, <2>2
<1>3. InHand(fs, types, modes, i) /\ fs[i].mark <= fs[Len(fs)].mark
  BY <1>1 DEF Course
<1>4. /\ fs[i].prod = "statement" <=> i = 1
      /\ fs[i].prod # "statement" => fs[i].mark > 0
  BY <1>1, <1>3 DEF InHand, IsExpression, ExprProds
<1>5. First(fs[i]) \in Nat \ {0} /\ First(fs[i]) <= fs[i].mark + 1
  BY <1>2, <1>4 DEF First, Least
<1>6. i < Len(fs) => fs[i].mark <= fs[i + 1].mark /\ fs[i + 1].mark <= Len(types)
  BY <1>1, <1>2 DEF Course
<1>7. QED
  BY <1>1, <1>2, <1>3, <1>4, <1>5, <1>6 DEF InHand

\* A frame that waits is where it was, as long as what it sees is.
LEMMA Undisturbed ==
  ASSUME NEW fs, NEW types, NEW modes, Course(fs, types, modes),
         NEW fs2, NEW types2 \in Seq(AllTypes), NEW modes2,
         NEW i \in 1 .. Len(fs), i < Len(fs), i < Len(fs2),
         fs2[i] = fs[i], fs2[1].mark = fs[1].mark, fs2[i + 1].mark = fs[i + 1].mark,
         modes2[i] = modes[i], fs[i + 1].mark <= Len(types2),
         \A j \in 1 .. fs[i + 1].mark : types2[j] = types[j]
  PROVE  InHand(fs2, types2, modes2, i)
<1> DEFINE b == fs[i + 1].mark
<1>1. /\ Len(fs) \in Nat \ {0} /\ fs[i].mark \in Nat /\ Len(types) \in Nat
      /\ First(fs[i]) \in Nat \ {0} /\ First(fs[i]) <= fs[i].mark + 1
      /\ fs[i].mark <= b /\ b <= Len(types) /\ (fs[i].prod = "statement" <=> i = 1)
      /\ fs[i].prod # "statement" => fs[i].mark > 0
  BY CourseMarks
<1>2. b \in Nat
  BY <1>1, CourseMarks
<1>3. Upper(fs, types, i) = b /\ Upper(fs2, types2, i) = b
  BY DEF Upper
<1>4. types \in Seq(AllTypes) /\ InHand(fs, types, modes, i)
  BY DEF Course
<1> HIDE DEF b
<1>5. \A j \in 1 .. b : types2[j] = types[j]
  BY DEF b
<1>10. First(fs[i]) \in Nat \ {0} /\ First(fs[i]) <= b + 1 /\ b <= Len(types) /\ b <= Len(types2)
  BY <1>1, <1>2, SMTT(60) DEF b
<1>6. SubSeq(types2, First(fs[i]), b) = SubSeq(types, First(fs[i]), b)
  <2> DEFINE a == First(fs[i])
  <2>1. a \in Nat \ {0} /\ a <= b + 1
    BY <1>10
  <2> HIDE DEF a
  <2>2. SubSeq(types2, a, b) = SubSeq(types, a, b)
    BY <1>2, <1>4, <1>5, <1>10, <2>1, SeenBelow
  <2>3. QED
    BY <2>2 DEF a
<1>7. Seen(fs2, types2, i) = Seen(fs, types, i)
  BY <1>3, <1>6 DEF Seen
<1>8. i > 1 => types2[fs[i].mark] = types[fs[i].mark]
  BY <1>1, <1>2, <1>5
<1>9. QED
  BY <1>3, <1>4, <1>7, <1>8 DEF InHand

\* What an operator has left to do neither pushes nor pops.
LEMMA OperatorsKeepTypes ==
  ASSUME NEW prod \in {"unOp", "binOp"}, NEW todo, NEW k, Counted(prod, todo, k), todo # <<>>
  PROVE  Head(todo).do \notin {"push", "pop"}
<1>1. /\ Do("operator").do = "operator" /\ Do("operated").do = "operated"
      /\ \A c : Visit(c).do = "visit"
  BY DEF Do, Visit
<1> DEFINE o == Do("operator")
           d == Do("operated")
<1>2. PICK c : todo \in {<<o, Visit(c), d>>, <<Visit(c), d>>, <<d>>, <<>>,
                         <<o, Visit(c), Visit(c), d>>, <<Visit(c), Visit(c), d>>}
  BY DEF Counted
<1> DEFINE v == Visit(c)
<1>3. o.do \notin {"push", "pop"} /\ d.do \notin {"push", "pop"} /\ v.do \notin {"push", "pop"}
  BY <1>1
<1> HIDE DEF o, d, v
<1>4. todo \in {<<o, v, d>>, <<v, d>>, <<d>>, <<o, v, v, d>>, <<v, v, d>>}
  BY <1>2 DEF v
<1>5. Head(todo) \in {o, v, d}
  BY <1>4, Tails
<1>6. QED
  BY <1>3, <1>5

\* The last frame takes a step.
LEMMA CourseStep ==
  ASSUME NEW fs, NEW types, NEW modes, Course(fs, types, modes), fs # <<>>, Last(fs).todo # <<>>,
         NEW g, IsFrame(g), g.prod = Last(fs).prod, g.type = Last(fs).type,
         g.mark = Last(fs).mark, g.todo = Tail(Last(fs).todo)
  PROVE  LET n == Len(fs)
             step == Head(Last(fs).todo)
         IN  /\ Legal(Last(fs).prod, step, St(Seen(fs, types, n), modes[n]))
             /\ Course(Append(Front(fs), g), TypesAfter(step, types),
                       [modes EXCEPT ![n] = ModeAfter(step, modes[n])])
<1> DEFINE n == Len(fs)
           f == Last(fs)
           step == Head(f.todo)
           fs2 == Append(Front(fs), g)
           types2 == TypesAfter(step, types)
           to == ModeAfter(step, modes[n])
           modes2 == [modes EXCEPT ![n] = to]
<1>1. n \in Nat \ {0} /\ f = fs[n] /\ IsASequence(fs)
  BY FrontOf DEF Course
<1>2. /\ IsASequence(fs2) /\ Len(fs2) = n /\ fs2[n] = g
      /\ \A i \in 1 .. n - 1 : fs2[i] = fs[i]
  BY <1>1, Replaced, ZenonT(60)
<1>3. InHand(fs, types, modes, n) /\ types \in Seq(AllTypes) /\ modes \in [Nat -> Modes]
  BY <1>1 DEF Course
<1>4. Upper(fs, types, n) = Len(types) /\ Upper(fs2, types2, n) = Len(types2)
  BY <1>2 DEF Upper
<1>5. Seen(fs, types, n) = SubSeq(types, f.mark + 1 - Least(f.prod), Len(types))
  BY <1>1, <1>4 DEF Seen, First
<1>6. Seen(fs2, types2, n) = SubSeq(types2, f.mark + 1 - Least(f.prod), Len(types2))
  BY <1>2, <1>4 DEF Seen, First
<1>7. /\ f.mark \in Nat /\ f.mark <= Len(types) /\ (f.prod = "statement" <=> n = 1)
      /\ f.prod # "statement" => f.mark > 0
  <2>1. n \in 1 .. Len(fs)
    BY <1>1
  <2>2. /\ fs[n].mark \in Nat /\ fs[n].mark <= Len(types) /\ (fs[n].prod = "statement" <=> n = 1)
        /\ fs[n].prod # "statement" => fs[n].mark > 0
    BY <2>1, CourseMarks
  <2>3. QED
    BY <1>1, <2>2
<1>8. OnCourse(f, Seen(fs, types, n), modes[n])
  BY <1>1, <1>3 DEF InHand
<1> HIDE DEF fs2
<1>9. /\ Legal(f.prod, step, St(Seen(fs, types, n), modes[n]))
      /\ OnCourse(g, TypesAfter(step, Seen(fs, types, n)), to)
  BY <1>8, OnCourseStep
<1>10. /\ types2 \in Seq(AllTypes) /\ f.mark <= Len(types2)
       /\ Seen(fs2, types2, n) = TypesAfter(step, Seen(fs, types, n))
       /\ \A i \in 1 .. f.mark : types2[i] = types[i]
  <2>1. Legal(f.prod, step, St(SubSeq(types, f.mark + 1 - Least(f.prod), Len(types)), modes[n]))
    BY <1>5, <1>9
  <2> DEFINE prod == f.prod
             mark == f.mark
             mode == modes[n]
             a == mark + 1 - Least(prod)
  <2>2. /\ mark \in Nat /\ mark <= Len(types) /\ (prod # "statement" => mark > 0)
        /\ Legal(prod, step, St(SubSeq(types, a, Len(types)), mode))
        /\ a = mark + 1 - Least(prod) /\ types2 = TypesAfter(step, types)
    BY <1>7, <2>1
  <2> HIDE DEF f, step, n, types2, prod, mark, mode, a
  <2>3. Carried(step, types, types2, a, mark)
    BY <1>3, <2>2, SeenAfter
  <2>4. QED
    BY <1>5, <1>6, <2>3 DEF Carried, prod, mark, a
<1>11. f.prod \in {"unOp", "binOp"} => types2 = types
  <2>1. Counted(f.prod, f.todo, Len(f.args))
    BY <1>1, <1>3 DEF InHand, IsFrame
  <2>2. f.prod \in {"unOp", "binOp"} => step.do \notin {"push", "pop"}
    BY <2>1, OperatorsKeepTypes
  <2>3. QED
    BY <2>2 DEF TypesAfter
<1>12. /\ to \in Modes
       /\ n = 1 => to \in {"statement", "constant"}
       /\ n > 1 => to \in {"plain", "operator"}
  <2>1. /\ n = 1 => modes[n] \in {"statement", "constant"}
        /\ n > 1 => modes[n] \in {"plain", "operator"}
    BY <1>3 DEF InHand
  <2>2. /\ step.do = "operator" => modes[n] = "plain"
        /\ step.do = "operated" => modes[n] = "operator"
        /\ step.do = "constant" => modes[n] = "statement"
        /\ step.do = "variable" => modes[n] = "constant"
    BY <1>9 DEF Legal, St
  <2> HIDE DEF n, step
  <2>3. QED
    BY <1>1, <2>1, <2>2 DEF ModeAfter, Modes
<1> HIDE DEF to, types2
<1>13. modes2 \in [Nat -> Modes] /\ modes2[n] = to /\ \A i \in 1 .. n - 1 : modes2[i] = modes[i]
  BY <1>1, <1>3, <1>12
<1> HIDE DEF modes2
<1>14. fs2[1].mark = fs[1].mark /\ \A i \in 1 .. n : fs2[i].mark = fs[i].mark
  BY <1>1, <1>2
<1>15. InHand(fs2, types2, modes2, n)
  <2>1. n > 1 => /\ IsExpression(f) /\ types[f.mark] = f.type /\ fs[1].mark < f.mark
    BY <1>1, <1>3 DEF InHand
  <2>2. n > 1 => /\ IsExpression(g) /\ types2[g.mark] = g.type /\ fs2[1].mark < g.mark
    BY <1>1, <1>7, <1>10, <1>14, <2>1 DEF IsExpression
  <2>3. g.prod \in {"unOp", "binOp"} => Upper(fs2, types2, n) = g.mark
    <3>1. f.prod \in {"unOp", "binOp"} => Upper(fs, types, n) = f.mark
      BY <1>1, <1>3 DEF InHand
    <3>2. QED
      BY <1>4, <1>11, <3>1
  <2>4. OnCourse(g, Seen(fs2, types2, n), to)
    BY <1>9, <1>10
  <2>5. n = 1 => g.prod = "statement"
    BY <1>7
  <2>6. QED
    BY <1>2, <1>12, <1>13, <2>2, <2>3, <2>4, <2>5 DEF InHand
<1>16. ASSUME NEW i \in 1 .. n - 1 PROVE InHand(fs2, types2, modes2, i)
  <2>1. /\ i \in 1 .. Len(fs) /\ i < Len(fs) /\ i < Len(fs2) /\ fs2[i] = fs[i]
        /\ modes2[i] = modes[i] /\ i + 1 \in 1 .. n
    BY <1>1, <1>2, <1>13
  <2>2. fs2[i + 1].mark = fs[i + 1].mark /\ fs[i + 1].mark \in Nat /\ fs[i + 1].mark <= f.mark
    BY <1>1, <1>14, <2>1, CourseMarks
  <2>3. fs[i + 1].mark <= Len(types2) /\ \A j \in 1 .. fs[i + 1].mark : types2[j] = types[j]
    BY <1>7, <1>10, <2>2
  <2>4. types2 \in Seq(AllTypes) /\ fs2[1].mark = fs[1].mark
    BY <1>10, <1>14
  <2> HIDE DEF n, f
  <2>5. QED
    BY <2>1, <2>2, <2>3, <2>4, Undisturbed
<1>17. \A i \in 1 .. n : InHand(fs2, types2, modes2, i)
  BY <1>1, <1>15, <1>16
<1>18. \A i \in 1 .. n : \A j \in i .. n : fs2[i].mark <= fs2[j].mark
  BY <1>1, <1>14 DEF Course
<1>19. fs2[n].mark <= Len(types2)
  BY <1>2, <1>10
<1>20. Course(fs2, types2, modes2)
  BY <1>2, <1>10, <1>13, <1>17, <1>18, <1>19 DEF Course
<1>21. QED
  BY <1>9, <1>20 DEF fs2, types2, modes2, to

\* The next step of the last frame is legal.
LEMMA CourseLegal ==
  ASSUME NEW fs, NEW types, NEW modes, Course(fs, types, modes), fs # <<>>, Last(fs).todo # <<>>
  PROVE  Legal(Last(fs).prod, Head(Last(fs).todo), St(Seen(fs, types, Len(fs)), modes[Len(fs)]))
<1> DEFINE f == Last(fs)
           g == [prod |-> f.prod, type |-> f.type, todo |-> Tail(f.todo)]
<1>1. Len(fs) \in Nat \ {0} /\ f = fs[Len(fs)]
  BY FrontOf DEF Course
<1>2. InHand(fs, types, modes, Len(fs))
  BY <1>1 DEF Course
<1>3. OnCourse(f, Seen(fs, types, Len(fs)), modes[Len(fs)])
  BY <1>1, <1>2 DEF InHand
<1>4. g.prod = f.prod /\ g.type = f.type /\ g.todo = Tail(f.todo)
  OBVIOUS
<1> HIDE DEF f, g
<1>5. QED
  BY <1>3, <1>4, OnCourseStep DEF f

\* What the last frame sees.
LEMMA CourseSeen ==
  ASSUME NEW fs, NEW types, NEW modes, Course(fs, types, modes), fs # <<>>
  PROVE  LET seen == Seen(fs, types, Len(fs))
             f == Last(fs)
         IN  /\ Len(fs) \in Nat \ {0} /\ f = fs[Len(fs)] /\ InHand(fs, types, modes, Len(fs))
             /\ Len(types) \in Nat /\ f.mark \in Nat /\ f.mark <= Len(types)
             /\ Len(seen) = Len(types) - f.mark + Least(f.prod)
             /\ Len(seen) > 0 => seen[Len(seen)] = types[Len(types)]
             /\ f.prod = "statement" <=> Len(fs) = 1
             /\ f.prod # "statement" => f.mark > 0
             /\ fs[1].mark \in Nat /\ (Len(fs) > 1 => fs[1].mark < f.mark)
<1> DEFINE n == Len(fs)
           f == Last(fs)
           seen == Seen(fs, types, n)
           a == f.mark + 1 - Least(f.prod)
<1>1. n \in Nat \ {0} /\ f = fs[n] /\ n \in 1 .. Len(fs) /\ 1 \in 1 .. Len(fs)
  BY FrontOf DEF Course
<1>2. InHand(fs, types, modes, n) /\ types \in Seq(AllTypes)
  BY <1>1 DEF Course
<1>3. /\ Len(types) \in Nat /\ fs[n].mark \in Nat /\ fs[n].mark <= Len(types)
      /\ fs[n].prod # "statement" => fs[n].mark > 0
      /\ fs[n].prod = "statement" <=> n = 1
  BY <1>1, CourseMarks
<1>4. fs[1].mark \in Nat
  BY <1>1, CourseMarks
<1>5. n > 1 => fs[1].mark < f.mark
  BY <1>1, <1>2 DEF InHand
<1>6. seen = SubSeq(types, a, Len(types))
  BY <1>1 DEF Seen, Upper, First
<1>7. a \in Nat \ {0} /\ a <= Len(types) + 1
  BY <1>1, <1>3 DEF Least
<1> HIDE DEF a
<1>8. /\ Len(seen) = Len(types) + 1 - a
      /\ \A i \in 1 .. Len(types) + 1 - a : seen[i] = types[a + i - 1]
  BY <1>2, <1>3, <1>6, <1>7, SeenLength
<1> HIDE DEF seen
<1>9. Len(seen) > 0 => seen[Len(seen)] = types[Len(types)]
  <2> SUFFICES ASSUME Len(seen) > 0 PROVE seen[Len(seen)] = types[Len(types)]
    OBVIOUS
  <2>1. Len(types) + 1 - a \in 1 .. Len(types) + 1 - a /\ a + (Len(types) + 1 - a) - 1 = Len(types)
    BY <1>3, <1>7, <1>8
  <2>2. QED
    BY <1>8, <2>1
<1>10. Len(seen) = Len(types) - f.mark + Least(f.prod)
  BY <1>1, <1>3, <1>8 DEF a, Least
<1>11. QED
  BY <1>1, <1>2, <1>3, <1>4, <1>5, <1>9, <1>10 DEF seen

\* What is visited or read is on top, pushed by the statement that is running.
LEMMA CourseTop ==
  ASSUME NEW fs, NEW types, NEW modes, Course(fs, types, modes), fs # <<>>,
         Last(fs).todo # <<>>, Head(Last(fs).todo).do \in {"visit", "read"}
  PROVE  LET f == Last(fs)
             step == Head(f.todo)
             top == types[Len(types)]
         IN  /\ Len(types) \in Nat \ {0} /\ Len(types) > fs[1].mark /\ top.class = step.class
             /\ step.do = "visit" =>
                  /\ top \in Visitable
                  /\ f.prod \in OpProds => modes[Len(fs)] = "operator"
                  /\ f.prod \in {"unOp", "binOp"} => top = f.type
<1> DEFINE n == Len(fs)
           f == Last(fs)
           step == Head(f.todo)
           top == types[Len(types)]
           seen == Seen(fs, types, n)
<1>1. /\ n \in Nat \ {0} /\ f = fs[n] /\ InHand(fs, types, modes, n)
      /\ Len(types) \in Nat /\ f.mark \in Nat /\ f.mark <= Len(types)
      /\ Len(seen) = Len(types) - f.mark + Least(f.prod)
      /\ Len(seen) > 0 => seen[Len(seen)] = top
      /\ f.prod = "statement" <=> n = 1
      /\ f.prod # "statement" => f.mark > 0
      /\ fs[1].mark \in Nat /\ (n > 1 => fs[1].mark < f.mark)
  BY CourseSeen
<1>7. n = 1 \/ n > 1
  <2> HIDE DEF n
  <2>1. n \in Nat \ {0}
    BY <1>1
  <2>2. QED
    BY <2>1
<1>2. Legal(f.prod, step, St(seen, modes[n]))
  BY CourseLegal
<1> HIDE DEF seen, step
<1>3. /\ Len(seen) > 0 /\ seen[Len(seen)].class = step.class
      /\ step.do = "visit" => /\ seen[Len(seen)] \in Visitable
                              /\ f.prod \in OpProds => modes[n] = "operator"
  BY <1>2 DEF Legal, St, step
<1>4. Len(types) \in Nat \ {0} /\ Len(types) > fs[1].mark
  <2>1. CASE n = 1
    BY <1>1, <1>3, <2>1 DEF Least
  <2>2. CASE n > 1
    BY <1>1, <2>2
  <2>3. QED
    BY <1>7, <2>1, <2>2
<1>5. f.prod \in {"unOp", "binOp"} => top = f.type
  <2>1. f.prod \in {"unOp", "binOp"} => n > 1
    <3>1. f.prod \in {"unOp", "binOp"} => n # 1
      BY <1>1
    <3>2. QED
      BY <1>7, <3>1
  <2>2. f.prod \in {"unOp", "binOp"} => Len(types) = f.mark
    BY <1>1 DEF InHand, Upper
  <2>3. n > 1 => types[f.mark] = f.type
    BY <1>1 DEF InHand
  <2>4. QED
    BY <2>1, <2>2, <2>3
<1>6. QED
  BY <1>1, <1>3, <1>4, <1>5 DEF step

\* A visitor that is called sees the type on top.
LEMMA CourseVisited ==
  ASSUME NEW fs, NEW types, NEW modes, Course(fs, types, modes), fs # <<>>,
         Last(fs).todo # <<>>, Head(Last(fs).todo).do = "visit",
         NEW g, IsFrame(g), g.prod \in ExprProds, g.type = types[Len(types)],
         g.mark = Len(types),
         Runs(g.prod, g.todo, St(<<g.type>>, "plain"), St(<<g.type>>, "plain"))
  PROVE  Course(Append(fs, g), types, [modes EXCEPT ![Len(fs) + 1] = "plain"])
<1> DEFINE n == Len(fs)
           fs2 == Append(fs, g)
           modes2 == [modes EXCEPT ![n + 1] = "plain"]
<1>1. /\ n \in Nat \ {0} /\ IsASequence(fs2) /\ Len(fs2) = n + 1 /\ fs2[n + 1] = g
      /\ \A i \in 1 .. n : fs2[i] = fs[i]
  BY InSequence, FrontOf DEF Course
<1>2. /\ modes2 \in [Nat -> Modes] /\ modes2[n + 1] = "plain"
      /\ \A i \in 1 .. n : modes2[i] = modes[i]
  BY <1>1 DEF Course, Modes
<1>3. /\ Last(fs) = fs[n] /\ InHand(fs, types, modes, n)
  BY CourseSeen
<1>4. /\ Len(types) \in Nat \ {0} /\ Len(types) > fs[1].mark
      /\ types[Len(types)] \in Visitable
  BY CourseTop
<1>5. types \in Seq(AllTypes)
  BY DEF Course
<1> HIDE DEF fs2, modes2
<1>6. InHand(fs2, types, modes2, n + 1)
  <2>1. Upper(fs2, types, n + 1) = Len(types)
    BY <1>1 DEF Upper
  <2>2. Seen(fs2, types, n + 1) = <<g.type>>
    <3>1. First(g) = Len(types)
      BY <1>4 DEF First, Least, ExprProds
    <3>2. Seen(fs2, types, n + 1) = SubSeq(types, Len(types), Len(types))
      BY <1>1, <2>1, <3>1 DEF Seen
    <3> DEFINE s == SubSeq(types, Len(types), Len(types))
    <3>3. /\ s \in Seq(AllTypes) /\ Len(s) = Len(types) + 1 - Len(types)
          /\ \A i \in 1 .. Len(types) + 1 - Len(types) : s[i] = types[Len(types) + i - 1]
      BY <1>4, <1>5, SeenLength
    <3> HIDE DEF s
    <3>4. Len(s) = 1 /\ s[1] = g.type
      BY <1>4, <3>3
    <3>5. s = <<g.type>>
      BY <3>3, <3>4
    <3>6. QED
      BY <3>2, <3>5 DEF s
  <2>3. OnCourse(g, <<g.type>>, "plain")
    BY DEF OnCourse, ExprProds
  <2>4. IsExpression(g) /\ types[g.mark] = g.type /\ fs2[1].mark < g.mark
    BY <1>1, <1>4 DEF IsExpression
  <2>5. n + 1 > 1 /\ ~ (n + 1 < Len(fs2)) /\ n + 1 # 1
    BY <1>1
  <2>6. QED
    BY <1>1, <1>2, <2>1, <2>2, <2>3, <2>4, <2>5 DEF InHand
<1>7. InHand(fs2, types, modes2, n)
  <2>1. Upper(fs2, types, n) = Len(types) /\ Upper(fs, types, n) = Len(types)
    BY <1>1 DEF Upper
  <2>3. fs2[n] = fs[n] /\ fs2[1] = fs[1] /\ modes2[n] = modes[n]
    BY <1>1, <1>2
  <2>2. Seen(fs2, types, n) = Seen(fs, types, n)
    BY <2>1, <2>3 DEF Seen
  <2>5. fs2[n].todo # <<>> /\ Head(fs2[n].todo).do = "visit"
    BY <1>3, <2>3
  <2>4. QED
    BY <1>3, <2>1, <2>2, <2>3, <2>5 DEF InHand
<1>8. ASSUME NEW i \in 1 .. n - 1 PROVE InHand(fs2, types, modes2, i)
  <2>5. i \in 1 .. n /\ i < n /\ i < n + 1 /\ i + 1 \in 1 .. n /\ 1 \in 1 .. n
    BY <1>1
  <2>6. fs2[1] = fs[1] /\ fs2[i] = fs[i] /\ fs2[i + 1] = fs[i + 1] /\ modes2[i] = modes[i]
    BY <1>1, <1>2, <2>5
  <2>1. /\ i \in 1 .. Len(fs) /\ i < Len(fs) /\ i < Len(fs2) /\ fs2[i] = fs[i]
        /\ fs2[1].mark = fs[1].mark /\ modes2[i] = modes[i] /\ fs2[i + 1].mark = fs[i + 1].mark
    BY <1>1, <2>5, <2>6
  <2>2. fs[i + 1].mark <= Len(types)
    BY <2>1, CourseMarks
  <2>3. \A j \in 1 .. fs[i + 1].mark : types[j] = types[j]
    OBVIOUS
  <2> HIDE DEF n
  <2>4. QED
    BY <1>5, <2>1, <2>2, <2>3, Undisturbed
<1>9. \A i \in 1 .. n + 1 : InHand(fs2, types, modes2, i)
  BY <1>1, <1>6, <1>7, <1>8
<1>10. \A i \in 1 .. n : fs2[i].mark = fs[i].mark /\ fs[i].mark <= Len(types)
  BY <1>1, CourseMarks
<1>11. \A i \in 1 .. n + 1 : \A j \in i .. n + 1 : fs2[i].mark <= fs2[j].mark
  <2>1. \A i \in 1 .. n : \A j \in i .. n : fs2[i].mark <= fs2[j].mark
    BY <1>1, <1>10 DEF Course
  <2>2. \A i \in 1 .. n + 1 : fs2[i].mark <= fs2[n + 1].mark
    BY <1>1, <1>4, <1>10
  <2>3. QED
    BY <1>1, <2>1, <2>2
<1>12. fs2[n + 1].mark <= Len(types)
  BY <1>1, <1>4
<1>13. QED
  BY <1>1, <1>2, <1>5, <1>9, <1>11, <1>12 DEF Course, fs2, modes2

\* A visitor that returns leaves the stack as it was, and its caller on its course.
LEMMA CourseReturned ==
  ASSUME NEW fs, NEW types, NEW modes, Course(fs, types, modes), fs # <<>>, Len(fs) > 1,
         Last(fs).todo = <<>>
  PROVE  /\ Len(types) = Last(fs).mark /\ types[Len(types)] = Last(fs).type
         /\ modes[Len(fs)] = "plain"
         /\ Front(fs) # <<>> /\ Len(Front(fs)) = Len(fs) - 1
         /\ Course(Front(fs), types, modes)
         /\ Last(Front(fs)).todo # <<>> /\ Head(Last(Front(fs)).todo).do = "visit"
<1> DEFINE n == Len(fs)
           f == Last(fs)
           fs2 == Front(fs)
           seen == Seen(fs, types, n)
<1>1. /\ n \in Nat \ {0} /\ f = fs[n] /\ InHand(fs, types, modes, n)
      /\ Len(types) \in Nat /\ f.mark \in Nat /\ f.mark <= Len(types)
      /\ Len(seen) = Len(types) - f.mark + Least(f.prod)
      /\ f.prod = "statement" <=> n = 1
      /\ f.prod # "statement" => f.mark > 0
  BY CourseSeen
<1>2. seen = <<f.type>> /\ modes[n] = "plain"
  <2>1. OnCourse(f, seen, modes[n])
    BY <1>1 DEF InHand
  <2>2. f.prod # "statement"
    BY <1>1
  <2> HIDE DEF f, seen
  <2>3. QED
    BY <2>1, <2>2, OnCourseEnd DEF f
<1>3. Len(types) = f.mark /\ types[Len(types)] = f.type
  <2>1. Len(seen) = 1
    BY <1>2
  <2>2. types[f.mark] = f.type
    BY <1>1 DEF InHand
  <2>3. Least(f.prod) = 1
    BY <1>1 DEF Least
  <2>4. QED
    BY <1>1, <2>1, <2>2, <2>3
<1>4. /\ IsASequence(fs2) /\ Len(fs2) = n - 1 /\ \A i \in 1 .. n - 1 : fs2[i] = fs[i]
  BY FrontOf DEF Course
<1> HIDE DEF fs2
<1>5. fs2 # <<>> /\ Last(fs2) = fs2[n - 1] /\ fs2[n - 1] = fs[n - 1]
  <2>1. fs2 # <<>>
    BY <1>1, <1>4, InSequence
  <2>2. Last(fs2) = fs2[Len(fs2)]
    BY <1>4, <2>1, FrontOf
  <2>3. QED
    BY <1>1, <1>4, <2>1, <2>2
<1>6. InHand(fs, types, modes, n - 1) /\ types \in Seq(AllTypes)
  BY <1>1 DEF Course
<1>7. fs[n - 1].todo # <<>> /\ Head(fs[n - 1].todo).do = "visit"
  BY <1>1, <1>6 DEF InHand
<1>8. InHand(fs2, types, modes, n - 1)
  <2>1. Upper(fs2, types, n - 1) = Len(types) /\ Upper(fs, types, n - 1) = Len(types)
    BY <1>1, <1>3, <1>4 DEF Upper
  <2>2. Seen(fs2, types, n - 1) = Seen(fs, types, n - 1)
    BY <1>5, <2>1 DEF Seen
  <2>3. fs2[1] = fs[1] /\ ~ (n - 1 < Len(fs2))
    BY <1>1, <1>4
  <2> DEFINE k == n - 1
  <2>4. /\ fs2[k] = fs[k] /\ InHand(fs, types, modes, k) /\ ~ (k < Len(fs2))
        /\ Upper(fs2, types, k) = Upper(fs, types, k) /\ Seen(fs2, types, k) = Seen(fs, types, k)
    BY <1>5, <1>6, <2>1, <2>2, <2>3
  <2> HIDE DEF k
  <2>5. InHand(fs2, types, modes, k)
    BY <2>3, <2>4, SMTT(30) DEF InHand
  <2>6. QED
    BY <2>5 DEF k
<1>9. ASSUME NEW i \in 1 .. n - 2 PROVE InHand(fs2, types, modes, i)
  <2>1. /\ i \in 1 .. Len(fs) /\ i < Len(fs) /\ i < Len(fs2) /\ fs2[i] = fs[i]
        /\ fs2[1].mark = fs[1].mark /\ fs2[i + 1].mark = fs[i + 1].mark
    BY <1>1, <1>4, SMTT(60)
  <2>2. fs[i + 1].mark <= Len(types)
    BY <2>1, CourseMarks
  <2>3. \A j \in 1 .. fs[i + 1].mark : types[j] = types[j]
    OBVIOUS
  <2>4. modes[i] = modes[i]
    OBVIOUS
  <2> HIDE DEF n
  <2>5. QED
    BY <1>6, <2>1, <2>2, <2>3, <2>4, Undisturbed
<1>10. \A i \in 1 .. n - 1 : InHand(fs2, types, modes, i)
  BY <1>1, <1>8, <1>9
<1>11. /\ \A i \in 1 .. n - 1 : \A j \in i .. n - 1 : fs2[i].mark <= fs2[j].mark
       /\ fs2[n - 1].mark <= Len(types)
  <2>1. fs[n - 1].mark <= Len(types)
    <3>1. n - 1 \in 1 .. Len(fs)
      BY <1>1
    <3>2. QED
      BY <3>1, CourseMarks
  <2>2. \A i \in 1 .. n - 1 : \A j \in i .. n - 1 : fs[i].mark <= fs[j].mark
    BY <1>1 DEF Course
  <2>3. QED
    BY <1>1, <1>4, <2>1, <2>2
<1>12. Course(fs2, types, modes)
  BY <1>1, <1>4, <1>6, <1>10, <1>11 DEF Course
<1>13. QED
  BY <1>1, <1>2, <1>3, <1>4, <1>5, <1>7, <1>12 DEF fs2

\* The last frame is given a value; a value that is the operand of an operator is closed.
LEMMA CourseGiven ==
  ASSUME NEW fs, NEW types, NEW modes, Course(fs, types, modes), fs # <<>>,
         Last(fs).todo # <<>>, Head(Last(fs).todo).do = "visit", NEW v,
         modes[Len(fs)] = "operator" => ~ v.text.open,
         PowersAreNumbers => IsGood(types[Len(types)], v),
         NEW g, g = [Advanced(Last(fs)) EXCEPT !.args = Append(@, Kept(Last(fs), v))]
  PROVE  /\ g.prod = Last(fs).prod
         /\ Course(Append(Front(fs), g), types, modes)
<1> DEFINE n == Len(fs)
           f == Last(fs)
           step == Head(f.todo)
           m == [modes EXCEPT ![n] = ModeAfter(step, modes[n])]
<1>1. n \in Nat \ {0} /\ f = fs[n] /\ InHand(fs, types, modes, n)
  BY CourseSeen
<1>2. /\ types[Len(types)] \in Visitable
      /\ f.prod \in OpProds => modes[n] = "operator"
      /\ f.prod \in {"unOp", "binOp"} => types[Len(types)] = f.type
  BY CourseTop
<1>3. IsFrame(f)
  BY <1>1 DEF InHand
<1>4. /\ f.prod \in OpProds => ~ v.text.open
      /\ PowersAreNumbers =>
           IsText(v.text) /\ (f.prod \in {"unOp", "binOp"} /\ f.type.class = "INT" =>
                                Fits(f.type, v.text.num))
  BY <1>2 DEF IsGood
<1>5. IsFrame(g) /\ g.prod = f.prod /\ g.type = f.type /\ g.mark = f.mark /\ g.todo = Tail(f.todo)
  BY <1>3, <1>4, FrameGiven
<1>6. /\ Legal(f.prod, step, St(Seen(fs, types, n), modes[n]))
      /\ Course(Append(Front(fs), g), TypesAfter(step, types), m)
  BY <1>5, CourseStep
<1>7. TypesAfter(step, types) = types /\ ModeAfter(step, modes[n]) = modes[n]
  BY VisitChangesNothing
<1>8. modes \in [Nat -> Modes] /\ step.do \notin {"operator", "operated"}
  BY DEF Course
<1>9. m = modes
  BY <1>1, <1>7, <1>8
<1>10. Course(Append(Front(fs), g), types, modes)
  BY <1>6, <1>7, <1>9
<1>11. QED
  BY <1>5, <1>10

\* A statement that starts.
LEMMA CourseStarted ==
  ASSUME NEW types \in Seq(AllTypes), NEW modes \in [Nat -> Modes],
         NEW g, IsFrame(g), g.prod = "statement", g.mark = Len(types),
         NEW end, Ends(g.todo, end)
  PROVE  LET m == [modes EXCEPT ![1] = "statement"]
         IN  /\ Course(<<g>>, types, m) /\ m[1] = "statement"
             /\ Cardinality(Opened(m, Len(<<g>>))) = 0
<1> DEFINE m == [modes EXCEPT ![1] = "statement"]
           fs == <<g>>
<1>1. fs \in Seq({g}) /\ Len(fs) = 1 /\ fs[1] = g /\ fs # <<>>
  OBVIOUS
<1>2. m \in [Nat -> Modes] /\ m[1] = "statement"
  BY DEF Modes
<1> HIDE DEF fs, m
<1>3. Len(types) \in Nat /\ Upper(fs, types, 1) = Len(types) /\ First(g) = Len(types) + 1
  BY <1>1 DEF Upper, First, Least
<1>4. Seen(fs, types, 1) = <<>>
  <2>1. Seen(fs, types, 1) = SubSeq(types, Len(types) + 1, Len(types))
    BY <1>1, <1>3 DEF Seen
  <2>2. Len(SubSeq(types, Len(types) + 1, Len(types))) = 0
        /\ SubSeq(types, Len(types) + 1, Len(types)) \in Seq(AllTypes)
    BY <1>3, SeenLength
  <2>3. QED
    BY <2>1, <2>2
<1>5. OnCourse(g, <<>>, "statement")
  BY DEF OnCourse, Ends
<1>6. InHand(fs, types, m, 1)
  BY <1>1, <1>2, <1>4, <1>5 DEF InHand
<1>7. Course(fs, types, m)
  <2>1. \A i \in 1 .. Len(fs) : i = 1
    BY <1>1
  <2>2. \A i \in 1 .. Len(fs) : \A j \in i .. Len(fs) : i = 1 /\ j = 1
    BY <1>1
  <2>3. g.mark <= g.mark
    BY DEF IsFrame
  <2>4. IsASequence(fs)
    BY <1>1 DEF IsASequence
  <2>5. fs[Len(fs)].mark <= Len(types)
    BY <1>1, <1>3
  <2>6. \A i \in 1 .. Len(fs) : InHand(fs, types, m, i)
    BY <1>6, <2>1
  <2>7. \A i \in 1 .. Len(fs) : \A j \in i .. Len(fs) : fs[i].mark <= fs[j].mark
    BY <1>1, <2>2, <2>3
  <2>8. QED
    BY <1>2, <2>4, <2>5, <2>6, <2>7 DEF Course
<1>8. Opened(m, Len(fs)) = {}
  BY <1>1, <1>2 DEF Opened
<1>9. QED
  BY <1>2, <1>7, <1>8, FS_EmptySet DEF fs, m

\* How many operators are open.
LEMMA OpenedCount ==
  ASSUME NEW modes, NEW n \in Nat
  PROVE  /\ Cardinality(Opened(modes, n)) \in Nat
         /\ \A i \in 1 .. n : modes[i] = "operator" => Cardinality(Opened(modes, n)) > 0
         /\ n = 0 => Cardinality(Opened(modes, n)) = 0
<1>1. IsFiniteSet(1 .. n)
  BY FS_Interval
<1>2. IsFiniteSet(Opened(modes, n))
  BY <1>1, FS_Subset DEF Opened
<1>3. Cardinality(Opened(modes, n)) \in Nat
  BY <1>2, FS_CardinalityType
<1>4. Cardinality(Opened(modes, n)) = 0 <=> Opened(modes, n) = {}
  BY <1>2, FS_EmptySet
<1>5. \A i \in 1 .. n : modes[i] = "operator" => Opened(modes, n) # {}
  BY DEF Opened
<1>6. n = 0 => Opened(modes, n) = {}
  BY DEF Opened
<1>7. QED
  BY <1>3, <1>4, <1>5, <1>6

(***************************************************************************)
(* The invariant.                                                          *)
(***************************************************************************)

\* The modes of the frames are what op_stack and is_constant count.
Explains(modes) ==
  /\ Course(frames, type_stack, modes)
  /\ op_stack = Cardinality(Opened(modes, Len(frames)))
  /\ is_constant \in BOOLEAN
  /\ is_constant <=> frames # <<>> /\ modes[1] = "constant"

\* Nothing calls in a constant.
Quiet ==
  is_constant => \A i \in 1 .. Len(frames) : frames[i].prod \notin {"raw_call", "create"}

LastGood ==
  last # NoValue =>
    /\ is_constant => last.value.fixed
    /\ PowersAreNumbers => IsGood(last.type, last.value)

IInv ==
  /\ \E modes : Explains(modes)
  /\ Quiet /\ LastGood
  /\ raised \in BOOLEAN

\* Before the first statement nothing is on course.
LEMMA InitInv ==
  ASSUME Init
  PROVE  IInv
<1> DEFINE modes == [i \in Nat |-> "plain"]
<1>1. modes \in [Nat -> Modes]
  BY DEF Modes
<1> HIDE DEF modes
<1>2. <<>> \in Seq(AllTypes) /\ Len(<<>>) = 0
  OBVIOUS
<1>3. Course(<<>>, <<>>, modes)
  BY <1>1, <1>2 DEF Course, IsASequence
<1>4. Cardinality(Opened(modes, 0)) = 0
  BY OpenedCount
<1>5. Explains(modes)
  BY <1>2, <1>3, <1>4 DEF Init, Explains
<1>6. QED
  BY <1>5 DEF IInv, Init, Quiet, LastGood

\* A statement begins on course, whatever earlier ones have left on the stack.
LEMMA StartInv ==
  ASSUME IInv, Start
  PROVE  IInv'
<1>1. PICK modes : Explains(modes)
  BY DEF IInv
<1>2. PICK script \in Statements :
        frames' = <<Frame([prod |-> "statement", op |-> "", todo |-> script])>>
  BY DEF Start
<1>3. PICK end : Ends(script, end)
  BY StatementsEnd
<1> DEFINE g == Frame([prod |-> "statement", op |-> "", todo |-> script])
<1>4. type_stack \in Seq(AllTypes) /\ modes \in [Nat -> Modes]
  BY <1>1 DEF Explains, Course
<1>5. g.prod = "statement" /\ g.mark = Len(type_stack) /\ g.todo = script /\ IsFrame(g)
  <2> DEFINE type == IF type_stack = <<>> THEN NoValue ELSE Top
             mark == Len(type_stack)
  <2>1. g = [prod |-> "statement", op |-> "", todo |-> script, args |-> <<>>, type |-> type,
             mark |-> mark]
    BY DEF Frame
  <2>2. mark \in Nat
    BY <1>4
  <2>3. Len(<<>>) = 0 /\ IsASequence(<<>>) /\ 1 .. 0 = {}
    BY DEF IsASequence
  <2> HIDE DEF g, type
  <2>4. /\ g.prod = "statement" /\ g.op = "" /\ g.todo = script /\ g.args = <<>>
        /\ g.type = type /\ g.mark = mark
    BY <2>1
  <2>5. ArgsGood(g)
    BY <2>3, <2>4 DEF ArgsGood
  <2>6. Counted(g.prod, g.todo, Len(g.args))
    BY <2>4 DEF Counted
  <2>7. IsFrame(g)
    BY <2>1, <2>2, <2>4, <2>5, <2>6 DEF IsFrame
  <2>8. QED
    BY <2>4, <2>7
<1> HIDE DEF g
<1> DEFINE m == [modes EXCEPT ![1] = "statement"]
<1>6. /\ Course(<<g>>, type_stack, m) /\ m[1] = "statement"
      /\ Cardinality(Opened(m, Len(<<g>>))) = 0
  BY <1>3, <1>4, <1>5, CourseStarted
<1> HIDE DEF m
<1>7. op_stack = 0 /\ is_constant = FALSE
  <2>1. frames = <<>> /\ Len(<<>>) = 0
    BY DEF Start
  <2>2. QED
    BY <1>1, <2>1, OpenedCount DEF Explains
<1>8. frames' = <<g>> /\ UNCHANGED <<type_stack, op_stack, is_constant, raised>> /\ last' = NoValue
  BY <1>2 DEF Start, g
<1>9. \E modes2 : Explains(modes2)'
  <2>1. PICK modes2 : modes2 = m
    OBVIOUS
  <2>2. frames' # <<>> /\ Len(frames') = Len(<<g>>)
    BY <1>8
  <2>3. Course(frames', type_stack', modes2)
    BY <1>6, <1>8, <2>1
  <2>4. op_stack' = Cardinality(Opened(modes2, Len(frames')))
    BY <1>6, <1>7, <1>8, <2>1, <2>2
  <2>5. is_constant' \in BOOLEAN /\ (is_constant' <=> frames' # <<>> /\ modes2[1] = "constant")
    BY <1>6, <1>7, <1>8, <2>1
  <2>6. Explains(modes2)'
    BY <2>3, <2>4, <2>5 DEF Explains
  <2>7. QED
    BY <2>6
<1>10. QED
  BY <1>7, <1>8, <1>9 DEF IInv, Quiet, LastGood

\* A step of a visitor is one of its script.
LEMMA ExecuteInv ==
  ASSUME IInv, Execute
  PROVE  IInv'
<1> DEFINE n == Len(frames)
           f == Current
           step == Next1(f)
           g == Advanced(f)
<1>1. PICK modes : Explains(modes)
  BY DEF IInv
<1>2. Course(frames, type_stack, modes) /\ frames # <<>> /\ f = Last(frames) /\ f.todo # <<>>
  BY <1>1 DEF Execute, Explains, Running, Current
<1>3. step = Head(Last(frames).todo) /\ step.do # "visit"
  BY DEF Execute, Next1, Current
<1>4. /\ type_stack' = TypesAfter(step, type_stack)
      /\ op_stack' = CountAfter(step, op_stack)
      /\ is_constant' = CASE step.do = "constant" -> TRUE
                          [] step.do = "variable" -> FALSE
                          [] OTHER -> is_constant
      /\ frames' = Append(Front(frames), g) /\ last' = NoValue /\ raised' = raised
  BY DEF Execute, TypesAfter, CountAfter
<1>5. /\ n \in Nat \ {0} /\ f = frames[n] /\ InHand(frames, type_stack, modes, n)
      /\ f.prod = "statement" <=> n = 1
  BY <1>2, CourseSeen
<1>6. IsFrame(f)
  BY <1>5 DEF InHand
<1>7. IsFrame(g) /\ g.prod = f.prod /\ g.type = f.type /\ g.mark = f.mark /\ g.todo = Tail(f.todo)
  BY <1>2, <1>3, <1>6, FrameAdvanced
<1> DEFINE m == [modes EXCEPT ![n] = ModeAfter(step, modes[n])]
<1> HIDE DEF g, step
<1>8. /\ Legal(f.prod, step, St(Seen(frames, type_stack, n), modes[n]))
      /\ Course(Append(Front(frames), g), TypesAfter(step, type_stack), m)
  BY <1>2, <1>3, <1>7, CourseStep
<1>9. Course(frames', type_stack', m)
  BY <1>4, <1>8
<1>10. modes \in [Nat -> Modes]
  BY <1>2 DEF Course
<1>11. /\ Len(frames') = n /\ frames' # <<>> /\ frames'[n] = g
       /\ \A i \in 1 .. n - 1 : frames'[i] = frames[i]
  <2>1. /\ IsASequence(frames') /\ Len(frames') = n /\ frames'[n] = g
        /\ \A i \in 1 .. n - 1 : frames'[i] = frames[i]
    BY <1>2, <1>4, Replaced, ZenonT(60) DEF Course
  <2>2. QED
    BY <1>5, <2>1, InSequence
<1>12. op_stack' = Cardinality(Opened(m, Len(frames')))
  <2> DEFINE S == Opened(modes, n)
  <2>1. Cardinality(Opened(m, n)) = CountAfter(step, Cardinality(S))
    <3>1. m = [modes EXCEPT ![n] = ModeAfter(step, modes[n])] /\ n \in Nat \ {0}
      BY <1>5
    <3>2. Legal(f.prod, step, St(Seen(frames, type_stack, n), modes[n]))
      BY <1>8
    <3> HIDE DEF n, m, f
    <3>3. QED
      BY <1>10, <3>1, <3>2, OpenedAfter
  <2>2. op_stack = Cardinality(S)
    BY <1>1 DEF Explains
  <2> HIDE DEF S, n, m
  <2>3. QED
    BY <1>4, <1>11, <2>1, <2>2
<1>13. /\ step.do = "constant" => modes[n] = "statement"
       /\ step.do = "variable" => modes[n] = "constant"
       /\ step.do = "operator" => modes[n] = "plain"
       /\ step.do = "operated" => modes[n] = "operator"
  BY <1>8 DEF Legal, St
<1>14. /\ n = 1 => modes[n] \in {"statement", "constant"}
       /\ n > 1 => modes[n] \in {"plain", "operator"}
  BY <1>5 DEF InHand
<1>15. is_constant \in BOOLEAN /\ (is_constant <=> modes[1] = "constant")
  BY <1>1, <1>2 DEF Explains
<1>16. /\ step.do \in {"constant", "variable"} => n = 1
       /\ m[1] = IF n = 1 THEN ModeAfter(step, modes[1]) ELSE modes[1]
  <2>1. n = 1 \/ n > 1
    <3> HIDE DEF n
    <3>1. n \in Nat \ {0}
      BY <1>5
    <3>2. QED
      BY <3>1
  <2>2. QED
    BY <1>10, <1>13, <1>14, <2>1
<1> HIDE DEF m
<1>17. is_constant' \in BOOLEAN /\ (is_constant' <=> m[1] = "constant")
  <2>1. CASE step.do = "constant"
    <3>1. is_constant' = TRUE /\ m[1] = "constant"
      BY <1>4, <1>16, <2>1 DEF ModeAfter
    <3>2. QED
      BY <3>1
  <2>2. CASE step.do = "variable"
    <3>1. is_constant' = FALSE /\ m[1] = "statement"
      BY <1>4, <1>16, <2>2 DEF ModeAfter
    <3>2. QED
      BY <3>1
  <2>3. CASE step.do \notin {"constant", "variable"}
    <3>1. is_constant' = is_constant
      BY <1>4, <2>3
    <3>2. m[1] = "constant" <=> modes[1] = "constant"
      <4>1. CASE n = 1
        <5>1. modes[1] \in {"statement", "constant"} /\ step.do \notin {"operator", "operated"}
          BY <1>13, <1>14, <4>1
        <5>2. QED
          BY <1>16, <2>3, <4>1, <5>1 DEF ModeAfter
      <4>2. CASE n # 1
        BY <1>16, <4>2
      <4>3. QED
        BY <4>1, <4>2
    <3>3. QED
      BY <1>15, <3>1, <3>2
  <2>4. QED
    BY <2>1, <2>2, <2>3
<1>18. \E modes2 : Explains(modes2)'
  <2>1. PICK modes2 : modes2 = m
    OBVIOUS
  <2>2. Course(frames', type_stack', modes2)
    BY <1>9, <2>1
  <2>3. op_stack' = Cardinality(Opened(modes2, Len(frames')))
    BY <1>12, <2>1
  <2>4. is_constant' \in BOOLEAN /\ (is_constant' <=> frames' # <<>> /\ modes2[1] = "constant")
    BY <1>11, <1>17, <2>1
  <2>5. Explains(modes2)'
    BY <2>2, <2>3, <2>4 DEF Explains
  <2>6. QED
    BY <2>5
<1>19. Quiet'
  <2> SUFFICES ASSUME is_constant', NEW i \in 1 .. n
               PROVE  frames'[i].prod \notin {"raw_call", "create"}
    BY <1>11 DEF Quiet
  <2>1. frames'[i].prod = frames[i].prod
    <3>1. i = n \/ i \in 1 .. n - 1
      BY <1>5
    <3>2. QED
      BY <1>5, <1>7, <1>11, <3>1
  <2>2. CASE is_constant
    BY <2>1, <2>2 DEF IInv, Quiet
  <2>3. CASE ~ is_constant
    <3>1. step.do = "constant"
      BY <1>4, <2>3
    <3>2. n = 1 /\ i = 1
      <4>1. n = 1
        BY <1>16, <3>1
      <4> HIDE DEF n
      <4>2. QED
        BY <4>1
    <3>3. QED
      BY <1>5, <2>1, <3>2
  <2>4. QED
    BY <2>2, <2>3
<1>20. QED
  BY <1>4, <1>18, <1>19 DEF IInv, LastGood

\* A value of type t is given to the last frame of fs, which stays on its course.
LEMMA GivenInv ==
  ASSUME IInv, NEW modes, NEW fs, Course(fs, type_stack, modes), fs # <<>>,
         Last(fs).todo # <<>>, Head(Last(fs).todo).do = "visit",
         op_stack = Cardinality(Opened(modes, Len(fs))),
         is_constant \in BOOLEAN, is_constant <=> modes[1] = "constant",
         is_constant => \A i \in 1 .. Len(fs) : fs[i].prod \notin {"raw_call", "create"},
         NEW v, modes[Len(fs)] = "operator" => ~ v.text.open,
         is_constant => v.fixed,
         PowersAreNumbers => IsGood(type_stack[Len(type_stack)], v),
         NEW t, t = type_stack[Len(type_stack)], Given(fs, t, v),
         UNCHANGED <<type_stack, op_stack, is_constant, raised>>
  PROVE  IInv'
<1> DEFINE f == Last(fs)
           g == [Advanced(f) EXCEPT !.args = Append(@, Kept(f, v))]
<1>1. frames' = Append(Front(fs), g) /\ last' = [type |-> t, value |-> v]
  BY DEF Given
<1>3. g = [Advanced(Last(fs)) EXCEPT !.args = Append(@, Kept(Last(fs), v))]
  OBVIOUS
<1> HIDE DEF g
<1>2. g.prod = f.prod /\ Course(Append(Front(fs), g), type_stack, modes)
  BY <1>3, CourseGiven
<1>4. Len(fs) \in Nat \ {0} /\ f = fs[Len(fs)]
  BY CourseSeen
<1>5. /\ Len(frames') = Len(fs) /\ frames' # <<>> /\ frames'[Len(fs)] = g
      /\ \A i \in 1 .. Len(fs) - 1 : frames'[i] = fs[i]
  <2>1. /\ IsASequence(frames') /\ Len(frames') = Len(fs) /\ frames'[Len(fs)] = g
        /\ \A i \in 1 .. Len(fs) - 1 : frames'[i] = fs[i]
    <3>1. IsASequence(fs)
      BY DEF Course
    <3>2. /\ IsASequence(Append(Front(fs), g)) /\ Len(Append(Front(fs), g)) = Len(fs)
          /\ Append(Front(fs), g)[Len(fs)] = g
          /\ \A i \in 1 .. Len(fs) - 1 : Append(Front(fs), g)[i] = fs[i]
      BY <3>1, Replaced, SMTT(60)
    <3> DEFINE fs2 == Append(Front(fs), g)
    <3>3. frames' = fs2
      BY <1>1
    <3>4. /\ IsASequence(fs2) /\ Len(fs2) = Len(fs) /\ fs2[Len(fs)] = g
          /\ \A i \in 1 .. Len(fs) - 1 : fs2[i] = fs[i]
      BY <3>2
    <3> HIDE DEF fs2
    <3>5. QED
      BY <3>3, <3>4
  <2>2. QED
    BY <1>4, <2>1, InSequence
<1>6. Explains(modes)'
  <2>1. Course(frames', type_stack', modes)
    BY <1>1, <1>2
  <2>2. op_stack' = Cardinality(Opened(modes, Len(frames')))
    BY <1>5
  <2>3. is_constant' \in BOOLEAN /\ (is_constant' <=> frames' # <<>> /\ modes[1] = "constant")
    BY <1>5
  <2>4. QED
    BY <2>1, <2>2, <2>3 DEF Explains
<1>7. Quiet'
  <2> SUFFICES ASSUME is_constant, NEW i \in 1 .. Len(fs)
               PROVE  frames'[i].prod \notin {"raw_call", "create"}
    BY <1>5 DEF Quiet
  <2>1. frames'[i].prod = fs[i].prod
    <3>1. i = Len(fs) \/ i \in 1 .. Len(fs) - 1
      BY <1>4
    <3>2. QED
      BY <1>2, <1>4, <1>5, <3>1
  <2>2. QED
    BY <2>1
<1>8. LastGood'
  <2>1. last'.type = t /\ last'.value = v
    BY <1>1
  <2>2. is_constant' => last'.value.fixed
    BY <2>1
  <2>3. PowersAreNumbers => IsGood(last'.type, last'.value)
    BY <2>1
  <2>4. QED
    BY <2>2, <2>3 DEF LastGood
<1>9. QED
  BY <1>6, <1>7, <1>8 DEF IInv

\* A literal or a variable is of the type that is wanted.
LEMMA VisitLeafInv ==
  ASSUME IInv, VisitLeaf
  PROVE  IInv'
<1>1. PICK modes : Explains(modes)
  BY DEF IInv
<1>2. PICK v \in LiteralValues(Top) \cup ReferenceValues(Top) : Given(frames, Top, v)
  BY DEF VisitLeaf
<1>3. /\ Course(frames, type_stack, modes) /\ frames # <<>>
      /\ Last(frames).todo # <<>> /\ Head(Last(frames).todo).do = "visit"
      /\ UNCHANGED <<type_stack, op_stack, is_constant, raised>>
  BY <1>1 DEF VisitLeaf, Visiting, Running, Current, Next1, Explains
<1>4. Top = type_stack[Len(type_stack)] /\ Top \in Visitable
  BY <1>3, CourseTop DEF Top, Last
<1>5. IsGood(Top, v) /\ ~ v.text.open /\ (is_constant => v.fixed)
  BY <1>2, <1>4, LeafIsGood
<1>6. /\ op_stack = Cardinality(Opened(modes, Len(frames)))
      /\ is_constant \in BOOLEAN /\ (is_constant <=> modes[1] = "constant")
      /\ is_constant => \A i \in 1 .. Len(frames) : frames[i].prod \notin {"raw_call", "create"}
  BY <1>1, <1>3 DEF Explains, IInv, Quiet
<1> DEFINE t == Top
<1>7. t = type_stack[Len(type_stack)] /\ Given(frames, t, v)
  BY <1>2, <1>4
<1>8. IsGood(type_stack[Len(type_stack)], v)
  BY <1>4, <1>5
<1> HIDE DEF t
<1>9. QED
  BY <1>3, <1>5, <1>6, <1>7, <1>8, GivenInv

\* A visitor begins its production on the type that is on top.
LEMMA VisitNestedInv ==
  ASSUME IInv, VisitNested
  PROVE  IInv'
<1>1. PICK modes : Explains(modes)
  BY DEF IInv
<1>2. PICK p \in Productions(Top) : frames' = Append(frames, Frame(p))
  BY DEF VisitNested
<1>3. /\ Course(frames, type_stack, modes) /\ frames # <<>>
      /\ Last(frames).todo # <<>> /\ Head(Last(frames).todo).do = "visit"
      /\ UNCHANGED <<type_stack, op_stack, is_constant, raised>> /\ last' = NoValue
  BY <1>1 DEF VisitNested, Visiting, Running, Current, Next1, Explains
<1>4. /\ Top = type_stack[Len(type_stack)] /\ Top \in Visitable
      /\ Len(type_stack) \in Nat \ {0}
  BY <1>3, CourseTop DEF Top, Last
<1> DEFINE g == Frame(p)
           n == Len(frames)
<1>5. /\ Balanced(Top, p) /\ Counted(p.prod, p.todo, 0) /\ (p.prod = "binOp" => p.op \in Ops)
  BY <1>2, <1>4, ProductionsBalanced, CountedFirst
<1>6. /\ g.prod = p.prod /\ g.todo = p.todo /\ g.type = Top /\ g.mark = Len(type_stack)
      /\ IsFrame(g)
  <2> DEFINE prod == p.prod
             op == p.op
             todo == p.todo
             mark == Len(type_stack)
             type == Top
  <2>1. type_stack # <<>>
    BY <1>4
  <2>2. g = [prod |-> prod, op |-> op, todo |-> todo, args |-> <<>>, type |-> type, mark |-> mark]
    BY <2>1 DEF Frame
  <2>3. mark \in Nat
    BY <1>4
  <2>4. Len(<<>>) = 0 /\ IsASequence(<<>>) /\ 1 .. 0 = {}
    BY DEF IsASequence
  <2>5. Counted(prod, todo, 0) /\ (prod = "binOp" => op \in Ops)
    BY <1>5
  <2> HIDE DEF g, prod, op, todo, mark, type
  <2>6. /\ g.prod = prod /\ g.op = op /\ g.todo = todo /\ g.args = <<>> /\ g.type = type
        /\ g.mark = mark
    BY <2>2
  <2>7. ArgsGood(g)
    BY <2>4, <2>6 DEF ArgsGood
  <2>8. IsFrame(g)
    BY <2>2, <2>3, <2>4, <2>5, <2>6, <2>7 DEF IsFrame
  <2>9. QED
    BY <2>6, <2>8 DEF prod, todo, mark, type
<1> HIDE DEF g
<1>7. /\ g.prod \in ExprProds /\ g.type = type_stack[Len(type_stack)] /\ g.mark = Len(type_stack)
      /\ Runs(g.prod, g.todo, St(<<g.type>>, "plain"), St(<<g.type>>, "plain"))
      /\ is_constant => g.prod \notin {"raw_call", "create"}
  BY <1>4, <1>5, <1>6 DEF Balanced
<1> DEFINE m == [modes EXCEPT ![n + 1] = "plain"]
<1>8. Course(Append(frames, g), type_stack, m)
  BY <1>3, <1>6, <1>7, CourseVisited
<1>9. /\ n \in Nat \ {0} /\ Len(frames') = n + 1 /\ frames' # <<>> /\ frames'[n + 1] = g
      /\ \A i \in 1 .. n : frames'[i] = frames[i]
  <2>1. n \in Nat \ {0}
    BY <1>3, CourseSeen
  <2>2. frames' = Append(frames, g)
    BY <1>2 DEF g
  <2>3. IsASequence(frames)
    BY <1>3 DEF Course
  <2>4. /\ Len(frames') = n + 1 /\ frames'[n + 1] = g /\ IsASequence(frames')
        /\ \A i \in 1 .. n : frames'[i] = frames[i]
    BY <2>2, <2>3, InSequence
  <2>5. QED
    BY <2>1, <2>4, InSequence
<1>10. /\ m[n + 1] = "plain" /\ \A i \in 1 .. n : m[i] = modes[i]
  BY <1>3, <1>9 DEF Course
<1>11. Opened(m, n + 1) = Opened(modes, n)
  <2>1. \A i \in 1 .. n + 1 : i \in 1 .. n \/ i = n + 1
    BY <1>9
  <2>2. \A i \in 1 .. n : i \in 1 .. n + 1
    BY <1>9
  <2> HIDE DEF n, m
  <2>3. QED
    BY <1>10, <2>1, <2>2 DEF Opened
<1>12. PICK modes2 : modes2 = m
  OBVIOUS
<1>13. Explains(modes2)'
  <2>1. Course(frames', type_stack', modes2)
    BY <1>2, <1>3, <1>8, <1>12 DEF g
  <2>2. op_stack' = Cardinality(Opened(modes2, Len(frames')))
    BY <1>1, <1>3, <1>9, <1>11, <1>12 DEF Explains
  <2>3. is_constant' \in BOOLEAN /\ (is_constant' <=> frames' # <<>> /\ modes2[1] = "constant")
    <3>1. modes2[1] = modes[1]
      BY <1>9, <1>10, <1>12
    <3>2. QED
      BY <1>1, <1>3, <1>9, <3>1 DEF Explains
  <2>4. QED
    BY <2>1, <2>2, <2>3 DEF Explains
<1>14. Quiet'
  <2> SUFFICES ASSUME is_constant, NEW i \in 1 .. n + 1
               PROVE  frames'[i].prod \notin {"raw_call", "create"}
    BY <1>3, <1>9 DEF Quiet
  <2>1. CASE i = n + 1
    BY <1>7, <1>9, <2>1
  <2>2. CASE i \in 1 .. n
    BY <1>9, <2>2 DEF IInv, Quiet
  <2>3. i = n + 1 \/ i \in 1 .. n
    BY <1>9
  <2>4. QED
    BY <2>1, <2>2, <2>3
<1>15. QED
  BY <1>3, <1>13, <1>14 DEF IInv, LastGood

\* A visitor that is done has left the stacks as it found them, and returns a good value.
LEMMA ReturnInv ==
  ASSUME IInv, Return
  PROVE  IInv'
<1> DEFINE n == Len(frames)
           f == Last(frames)
           fs == Front(frames)
           v == Result(f)
           t == f.type
<1>1. PICK modes : Explains(modes)
  BY DEF IInv
<1>2. /\ Course(frames, type_stack, modes) /\ frames # <<>> /\ n > 1 /\ f.todo = <<>>
      /\ UNCHANGED <<type_stack, op_stack, is_constant, raised>> /\ Given(fs, t, v)
  BY <1>1 DEF Return, Running, Current, Explains
<1>3. /\ Len(type_stack) = f.mark /\ type_stack[Len(type_stack)] = t
      /\ modes[n] = "plain" /\ fs # <<>> /\ Len(fs) = n - 1
      /\ Course(fs, type_stack, modes)
      /\ Last(fs).todo # <<>> /\ Head(Last(fs).todo).do = "visit"
  BY <1>2, CourseReturned
<1>4. /\ n \in Nat \ {0} /\ f = frames[n] /\ InHand(frames, type_stack, modes, n)
  BY <1>2, CourseSeen
<1>5. IsFrame(f) /\ IsExpression(f)
  BY <1>2, <1>4 DEF InHand
<1>6. /\ op_stack > 0 => ~ v.text.open
      /\ f.prod \notin {"raw_call", "create"} => v.fixed
      /\ PowersAreNumbers => IsGood(t, v)
  <2>1. /\ f.prod \in ExprProds /\ t \in Visitable /\ ArgsGood(f)
        /\ Counted(f.prod, <<>>, Len(f.args)) /\ (f.prod = "binOp" => f.op \in Ops)
    BY <1>2, <1>5 DEF IsFrame, IsExpression
  <2> HIDE DEF f
  <2>2. QED
    BY <2>1, ResultIsGood
<1>7. /\ op_stack = Cardinality(Opened(modes, n)) /\ is_constant \in BOOLEAN
      /\ is_constant <=> modes[1] = "constant"
  BY <1>1, <1>2 DEF Explains
<1>8. Opened(modes, n) = Opened(modes, n - 1)
  <2>1. \A i \in 1 .. n : i \in 1 .. n - 1 \/ i = n
    BY <1>4
  <2>2. \A i \in 1 .. n - 1 : i \in 1 .. n
    BY <1>4
  <2> HIDE DEF n
  <2>3. modes[n] # "operator"
    BY <1>3
  <2>4. QED
    BY <2>1, <2>2, <2>3 DEF Opened
<1>9. op_stack = Cardinality(Opened(modes, Len(fs)))
  BY <1>3, <1>7, <1>8
<1>10. modes[Len(fs)] = "operator" => ~ v.text.open
  <2>1. Len(fs) \in Nat /\ Len(fs) \in 1 .. Len(fs)
    BY <1>2, <1>3, <1>4
  <2>2. modes[Len(fs)] = "operator" => Cardinality(Opened(modes, Len(fs))) > 0
    BY <2>1, OpenedCount
  <2>3. QED
    BY <1>6, <1>9, <2>2
<1>11. is_constant => v.fixed
  <2>1. is_constant => f.prod \notin {"raw_call", "create"}
    BY <1>4 DEF IInv, Quiet
  <2>2. QED
    BY <1>6, <2>1
<1>12. is_constant => \A i \in 1 .. Len(fs) : fs[i].prod \notin {"raw_call", "create"}
  <2>1. \A i \in 1 .. n - 1 : fs[i] = frames[i] /\ i \in 1 .. n
    BY <1>2, <1>4, FrontOf DEF Course
  <2>2. QED
    BY <1>3, <2>1 DEF IInv, Quiet
<1>13. PowersAreNumbers => IsGood(type_stack[Len(type_stack)], v)
  BY <1>3, <1>6
<1>14. t = type_stack[Len(type_stack)]
  BY <1>3
<1> HIDE DEF fs, v, t, n
<1>15. QED
  BY <1>2, <1>3, <1>7, <1>9, <1>10, <1>11, <1>12, <1>13, <1>14, GivenInv

\* A statement that is done has closed its operators and is no constant any more.
LEMMA FinishInv ==
  ASSUME IInv, Finish
  PROVE  IInv'
<1>1. PICK modes : Explains(modes)
  BY DEF IInv
<1>2. /\ Course(frames, type_stack, modes) /\ frames # <<>> /\ Len(frames) = 1
      /\ Last(frames).todo = <<>> /\ frames' = <<>> /\ last' = NoValue
      /\ UNCHANGED <<type_stack, op_stack, is_constant, raised>>
  BY <1>1 DEF Finish, Running, Current, Explains
<1>3. /\ InHand(frames, type_stack, modes, 1) /\ Last(frames) = frames[1]
      /\ Last(frames).prod = "statement"
  BY <1>2, CourseSeen
<1>4. modes[1] = "statement"
  <2> DEFINE f == Last(frames)
             seen == Seen(frames, type_stack, 1)
  <2>1. OnCourse(f, seen, modes[1]) /\ f.todo = <<>> /\ f.prod = "statement"
    BY <1>2, <1>3 DEF InHand
  <2> HIDE DEF f, seen
  <2>2. QED
    BY <2>1, OnCourseEnd
<1>5. op_stack = 0
  <2>1. \A i \in 1 .. 1 : modes[i] # "operator"
    BY <1>4
  <2>2. Opened(modes, 1) = {}
    BY <2>1 DEF Opened
  <2>3. QED
    BY <1>1, <1>2, <2>2, FS_EmptySet DEF Explains
<1>6. is_constant = FALSE
  BY <1>1, <1>2, <1>4 DEF Explains
<1>7. Explains(modes)'
  <2>1. <<>> # <<1>> /\ Len(<<>>) = 0
    OBVIOUS
  <2>2. Course(<<>>, type_stack, modes)
    BY <1>2, <2>1 DEF Course, IsASequence
  <2>3. Cardinality(Opened(modes, 0)) = 0
    BY OpenedCount
  <2>4. QED
    BY <1>2, <1>5, <1>6, <2>1, <2>2, <2>3 DEF Explains
<1>8. QED
  BY <1>2, <1>6, <1>7 DEF IInv, Quiet, LastGood

\* The invariant is inductive: it holds at first, and no step breaks it.
LEMMA NextInv ==
  ASSUME IInv, [Next]_vars
  PROVE  IInv'
<1>1. CASE Start
  BY <1>1, StartInv
<1>2. CASE Execute
  BY <1>2, ExecuteInv
<1>3. CASE VisitLeaf
  BY <1>3, VisitLeafInv
<1>4. CASE VisitNested
  BY <1>4, VisitNestedInv
<1>5. CASE Return
  BY <1>5, ReturnInv
<1>6. CASE Finish
  BY <1>6, FinishInv
<1>7. CASE Raise
  <2>1. UNCHANGED <<type_stack, op_stack, is_constant, frames, last>> /\ raised' \in BOOLEAN
    BY <1>7 DEF Raise
  <2>2. PICK modes : Explains(modes)
    BY DEF IInv
  <2>3. Explains(modes)'
    BY <2>1, <2>2 DEF Explains
  <2>4. Quiet' /\ LastGood'
    BY <2>1 DEF IInv, Quiet, LastGood
  <2>5. QED
    BY <2>1, <2>3, <2>4 DEF IInv
<1>8. CASE UNCHANGED vars
  <2>1. UNCHANGED <<type_stack, op_stack, is_constant, frames, last, raised>>
    BY <1>8 DEF vars
  <2>2. PICK modes : Explains(modes)
    BY DEF IInv
  <2>3. Explains(modes)'
    BY <2>1, <2>2 DEF Explains
  <2>4. Quiet' /\ LastGood'
    BY <2>1 DEF IInv, Quiet, LastGood
  <2>5. QED
    BY <2>1, <2>3, <2>4 DEF IInv
<1>9. QED
  BY <1>1, <1>2, <1>3, <1>4, <1>5, <1>6, <1>7, <1>8 DEF Next

\* The inductive invariant holds.
LEMMA Invariance ==
  Spec => []IInv
<1>1. Init => IInv
  BY InitInv
<1>2. IInv /\ [Next]_vars => IInv'
  BY NextInv
<1>3. QED
  BY <1>1, <1>2, PTL DEF Spec

\* What the invariant says of the types and the counters.
LEMMA InvTypeOK ==
  ASSUME IInv
  PROVE  TypeOK
<1>1. PICK modes : Explains(modes)
  BY DEF IInv
<1>2. Course(frames, type_stack, modes) /\ type_stack \in Seq(AllTypes) /\ IsASequence(frames)
  BY <1>1 DEF Explains, Course
<1>3. \A i \in DOMAIN type_stack : type_stack[i].size \in Nat
  <2>1. \A t \in AllTypes : t.size \in Nat
    <3>1. AnyArray.size \in Nat
      BY LiteralsAssumption DEF AnyArray, List
    <3>2. QED
      BY <3>1, VisitableShape DEF AllTypes
  <2>2. \A i \in DOMAIN type_stack : type_stack[i] \in AllTypes
    BY <1>2
  <2>3. QED
    BY <2>1, <2>2
<1>4. Len(frames) \in Nat /\ DOMAIN frames = 1 .. Len(frames) /\ (frames = <<>> => Len(frames) = 0)
  BY <1>2, InSequence
<1>5. op_stack \in Nat /\ (frames = <<>> => op_stack = 0)
  BY <1>1, <1>4, OpenedCount DEF Explains
<1>6. is_constant \in BOOLEAN /\ (frames = <<>> => ~ is_constant)
  BY <1>1 DEF Explains
<1>7. \A i \in DOMAIN frames : (frames[i].prod = "statement") <=> (i = 1)
  BY <1>2, <1>4, CourseMarks
<1>8. raised \in BOOLEAN
  BY DEF IInv
<1>9. QED
  BY <1>3, <1>5, <1>6, <1>7, <1>8 DEF TypeOK

\* A visitor that is on course finds the type it was visited for.
LEMMA InvTypesBalanced ==
  ASSUME IInv
  PROVE  TypesBalanced
<1> SUFFICES ASSUME Running
             PROVE  IF Current.todo = <<>>
                    THEN Len(frames) > 1 => Len(type_stack) = Current.mark /\ Top = Current.type
                    ELSE Next1(Current).do \in {"visit", "read"} =>
                           Len(type_stack) > frames[1].mark /\ Top.class = Next1(Current).class
  BY DEF TypesBalanced
<1>1. PICK modes : Explains(modes)
  BY DEF IInv
<1>2. Course(frames, type_stack, modes) /\ frames # <<>> /\ Current = Last(frames)
  BY <1>1 DEF Explains, Running, Current
<1>3. Top = type_stack[Len(type_stack)]
  BY DEF Top, Last
<1>4. CASE Current.todo = <<>>
  BY <1>2, <1>3, <1>4, CourseReturned
<1>5. CASE Current.todo # <<>> /\ Next1(Current).do \in {"visit", "read"}
  BY <1>2, <1>3, <1>5, CourseTop DEF Next1
<1>6. QED
  BY <1>4, <1>5

\* The frames that the invariant speaks of.
LEMMA InvFrames ==
  ASSUME IInv, NEW i \in DOMAIN frames
  PROVE  /\ IsFrame(frames[i]) /\ IsASequence(frames[i].args)
         /\ DOMAIN frames[i].args = 1 .. Len(frames[i].args)
<1>1. PICK modes : Explains(modes)
  BY DEF IInv
<1>2. Course(frames, type_stack, modes) /\ DOMAIN frames = 1 .. Len(frames)
  BY <1>1, InSequence DEF Explains, Course
<1>3. IsFrame(frames[i])
  BY <1>2, CourseMarks
<1>4. IsASequence(frames[i].args)
  BY <1>3 DEF IsFrame, ArgsGood
<1>5. QED
  BY <1>3, <1>4, InSequence

\* The operands that the invariant counts are closed.
LEMMA InvOperandsClosed ==
  ASSUME IInv
  PROVE  OperandsClosed
<1> SUFFICES ASSUME NEW i \in DOMAIN frames, frames[i].prod \in {"unOp", "binOp", "boolOp"},
                    NEW j \in DOMAIN frames[i].args
             PROVE  ~ frames[i].args[j].text.open
  BY DEF OperandsClosed
<1>1. ArgsGood(frames[i]) /\ j \in 1 .. Len(frames[i].args) /\ frames[i].prod \in OpProds
  BY InvFrames DEF IsFrame, OpProds
<1> DEFINE f == frames[i]
<1>2. ArgsGood(f) /\ j \in 1 .. Len(f.args) /\ f.prod \in OpProds
  BY <1>1
<1> HIDE DEF f
<1>3. ~ f.args[j].text.open
  BY <1>2, ArgsOpen
<1>4. QED
  BY <1>3 DEF f

(***************************************************************************)
(* Sizes.                                                                  *)
(***************************************************************************)

\* What SizesFit says of a value, one class at a time.
SizeFits(t, v) ==
  /\ v.size \in Nat
  /\ t.class \in {"BYTES", "STRING"} => v.size <= t.size
  /\ t.class = "BYTESM" => v.size = t.size
  /\ t.class = "LIST" => IF t.dynamic THEN v.size \in 1 .. t.size ELSE v.size = t.size

\* Literals are cut or filled up, and variables are of the type or a shorter one.
LEMMA LeafFits ==
  ASSUME NEW t \in Visitable, NEW v \in LiteralValues(t) \cup ReferenceValues(t)
  PROVE  SizeFits(t, v)
<1>1. /\ t.size \in Nat /\ (t.class = "LIST" => t.size # 0)
      /\ t.class \in {"INT", "DECIMAL", "BOOL", "ADDRESS", "BYTESM", "BYTES", "STRING", "LIST"}
  BY VisitableShape
<1>2. \A text, size, fixed : Value(text, size, fixed).size = size
  BY DEF Value
<1>3. \A size : Call(size).size = size
  BY <1>2 DEF Call
<1>4. CASE t.class \in {"INT", "DECIMAL", "BOOL", "ADDRESS"} /\ v \in LiteralValues(t)
  <2>1. v.size = 0
    <3>1. CASE t.class = "INT"
      <4>1. PICK n \in Raw : v = Value(IntText(Reduced(t.size, t.signed, n)), 0, TRUE)
        BY <1>4, <3>1 DEF LiteralValues
      <4>2. QED
        BY <1>2, <4>1
    <3>2. CASE t.class = "DECIMAL"
      <4>1. PICK n \in Raw : v = Value(Atom(Float(n, 1), FALSE), 0, TRUE)
        BY <1>4, <3>2 DEF LiteralValues
      <4>2. QED
        BY <1>2, <4>1
    <3>3. CASE t.class \in {"BOOL", "ADDRESS"}
      <4>1. v = Call(0)
        BY <1>4, <3>3 DEF LiteralValues
      <4>2. QED
        BY <1>3, <4>1
    <3>4. QED
      BY <1>4, <3>1, <3>2, <3>3
  <2>2. QED
    BY <1>4, <2>1 DEF SizeFits
<1>5. CASE t.class \in {"BYTES", "STRING"} /\ v \in LiteralValues(t)
  <2>1. PICK n \in Raw : v = Call(CutTo(t.size, n))
    BY <1>5 DEF LiteralValues
  <2>2. n \in Nat /\ v.size = CutTo(t.size, n)
    BY <1>3, <2>1, MessageAssumption
  <2>3. v.size \in Nat /\ v.size <= t.size
    BY <1>1, <2>2 DEF CutTo
  <2>4. QED
    BY <1>5, <2>3 DEF SizeFits
<1>6. CASE t.class = "BYTESM" /\ v \in LiteralValues(t)
  <2>1. PICK n \in Raw : v = Call(FillTo(t.size, n))
    BY <1>6 DEF LiteralValues
  <2>2. n \in Nat /\ v.size = FillTo(t.size, n)
    BY <1>3, <2>1, MessageAssumption
  <2>3. v.size = t.size
    BY <1>1, <2>2 DEF FillTo
  <2>4. QED
    BY <1>1, <1>6, <2>3 DEF SizeFits
<1>7. CASE t.class = "LIST" /\ v \in LiteralValues(t)
  BY <1>7 DEF LiteralValues
<1>8. CASE v \in ReferenceValues(t)
  <2> DEFINE sizes == IF t.class \in {"BYTES", "STRING"} THEN 1 .. t.size ELSE {t.size}
             choices == IF is_constant THEN {TRUE} ELSE BOOLEAN
  <2>1. ReferenceValues(t) = {Value(Named, size, fixed) : size \in sizes, fixed \in choices}
    BY DEF ReferenceValues
  <2> HIDE DEF choices
  <2>2. PICK size \in sizes, fixed \in choices : v = Value(Named, size, fixed)
    BY <1>8, <2>1
  <2>3. v.size = size
    BY <1>2, <2>2
  <2>4. QED
    BY <1>1, <2>3 DEF SizeFits
<1>9. QED
  BY <1>1, <1>4, <1>5, <1>6, <1>7, <1>8

\* A sequence that begins with a member.
LEMMA Begins ==
  ASSUME NEW a, NEW s, IsASequence(s)
  PROVE  /\ Head(<<a>> \o s) = a /\ Tail(<<a>> \o s) = s /\ <<a>> \o s # <<>>
         /\ IsASequence(<<a>> \o s)
<1>1. PICK S : s \in Seq(S)
  BY DEF IsASequence
<1> DEFINE T == S \cup {a}
<1>2. s \in Seq(T) /\ <<a>> \in Seq(T)
  BY <1>1
<1> HIDE DEF T
<1> DEFINE c == <<a>> \o s
<1>3. /\ c \in Seq(T) /\ Len(c) = Len(s) + 1 /\ c[1] = a
      /\ \A i \in 1 .. Len(s) : c[i + 1] = s[i]
  BY <1>2
<1>4. Len(s) \in Nat
  BY <1>2
<1> HIDE DEF c
<1>5. c # <<>> /\ Head(c) = a
  BY <1>3, <1>4
<1>6. /\ Tail(c) \in Seq(T) /\ Len(Tail(c)) = Len(s)
      /\ \A i \in 1 .. Len(s) : Tail(c)[i] = c[i + 1]
  BY <1>3, <1>4, <1>5
<1>7. Tail(c) = s
  BY <1>2, <1>3, <1>6, SeqEqual
<1>8. QED
  BY <1>3, <1>5, <1>7 DEF IsASequence, c

\* The steps of a part, before what is left of a concatenation.
PartThen(c, rest) == <<Push(c)>> \o (<<Visit(c.class)>> \o (<<Pop>> \o rest))

\* A part is a part with nothing after it,
LEMMA PartBegins ==
  ASSUME NEW c, NEW rest, IsASequence(rest)
  PROVE  In(c) \o rest = PartThen(c, rest) /\ In(c) = PartThen(c, <<>>) /\ IsASequence(In(c))
<1> DEFINE p == Push(c)
           v == Visit(c.class)
<1>1. PICK S : rest \in Seq(S)
  BY DEF IsASequence
<1> DEFINE T == S \cup {p, v, Pop}
<1>2. /\ rest \in Seq(T) /\ <<p>> \in Seq(T) /\ <<v>> \in Seq(T) /\ <<Pop>> \in Seq(T)
      /\ <<>> \in Seq(T)
  BY <1>1
<1>3. In(c) = <<p>> \o <<v>> \o <<Pop>>
  BY Pieces DEF In
<1> HIDE DEF p, v, T
<1>4. In(c) = <<p>> \o (<<v>> \o <<Pop>>)
  BY <1>2, <1>3, ConcatAssociative
<1>5. <<v>> \o <<Pop>> \in Seq(T) /\ <<Pop>> \o rest \in Seq(T)
  BY <1>2, ConcatProperties
<1>6. In(c) \o rest = <<p>> \o ((<<v>> \o <<Pop>>) \o rest)
  BY <1>2, <1>4, <1>5, ConcatAssociative
<1>7. (<<v>> \o <<Pop>>) \o rest = <<v>> \o (<<Pop>> \o rest)
  BY <1>2, ConcatAssociative
<1>8. <<Pop>> \o <<>> = <<Pop>>
  BY <1>2, ConcatEmptySeq
<1>9. In(c) \in Seq(T)
  BY <1>2, <1>4, <1>5, ConcatProperties
<1>10. QED
  BY <1>4, <1>6, <1>7, <1>8, <1>9 DEF PartThen, p, v, IsASequence

\* and what is left of a concatenation is nothing, or begins with a part.
LEMMA LeftPart ==
  ASSUME NEW n \in 1 .. 3, NEW todo, NEW room \in Int, Left(n, todo, room)
  PROVE  \E c \in PartTypes : \E rest :
           /\ IsASequence(rest) /\ todo = PartThen(c, rest)
           /\ Left(n - 1, rest, room - c.size)
<1>1. \A c : IsASequence(In(c))
  <2>1. IsASequence(<<>>)
    BY DEF IsASequence
  <2>2. QED
    BY <2>1, PartBegins
<1>2. \A c \in PartTypes : c.size \in Nat
  BY PartShape
<1>3. CASE n = 1
  <2>1. PICK c \in PartTypes : todo = In(c) /\ c.size <= room
    BY <1>3 DEF Left
  <2>2. IsASequence(<<>>) /\ todo = PartThen(c, <<>>)
    <3>1. IsASequence(<<>>)
      BY DEF IsASequence
    <3>2. QED
      BY <2>1, <3>1, PartBegins
  <2>3. room - c.size \in Nat /\ n - 1 = 0
    BY <1>2, <1>3, <2>1
  <2>4. QED
    BY <2>2, <2>3 DEF Left
<1>4. CASE n = 2
  <2>1. PICK b \in PartTypes, c \in PartTypes : todo = In(b) \o In(c) /\ b.size + c.size <= room
    BY <1>4, ZenonT(60) DEF Left
  <2>2. IsASequence(In(c)) /\ todo = PartThen(b, In(c))
    BY <1>1, <2>1, PartBegins
  <2>3. c.size <= room - b.size /\ n - 1 = 1
    BY <1>2, <1>4, <2>1
  <2>4. QED
    BY <2>2, <2>3 DEF Left
<1>5. CASE n = 3
  <2>1. PICK a \in PartTypes, b \in PartTypes, c \in PartTypes :
          todo = In(a) \o In(b) \o In(c) /\ a.size + b.size + c.size <= room
    BY <1>5, ZenonT(60) DEF Left
  <2> DEFINE rest == In(b) \o In(c)
  <2>2. IsASequence(rest) /\ todo = In(a) \o rest
    <3>1. PICK A : In(a) \in Seq(A)
      BY <1>1 DEF IsASequence
    <3>2. PICK B : In(b) \in Seq(B)
      BY <1>1 DEF IsASequence
    <3>3. PICK C : In(c) \in Seq(C)
      BY <1>1 DEF IsASequence
    <3> DEFINE T == A \cup B \cup C
    <3>4. In(a) \in Seq(T) /\ In(b) \in Seq(T) /\ In(c) \in Seq(T)
      BY <3>1, <3>2, <3>3
    <3> HIDE DEF T
    <3>5. In(b) \o In(c) \in Seq(T)
      BY <3>4, ConcatProperties
    <3>6. (In(a) \o In(b)) \o In(c) = In(a) \o (In(b) \o In(c))
      BY <3>4, ConcatAssociative
    <3>7. QED
      BY <2>1, <3>5, <3>6 DEF IsASequence
  <2>3. todo = PartThen(a, rest)
    BY <2>2, PartBegins
  <2>4. b.size + c.size <= room - a.size /\ n - 1 = 2
    BY <1>2, <1>5, <2>1
  <2>5. \E x, y \in PartTypes : rest = In(x) \o In(y) /\ x.size + y.size <= room - a.size
    BY <2>4
  <2> HIDE DEF rest
  <2>6. Left(2, rest, room - a.size)
    BY <2>5, LeftParts
  <2>7. QED
    BY <2>2, <2>3, <2>4, <2>6
<1>6. QED
  BY <1>3, <1>4, <1>5

\* Nothing left is nothing to do, and the sizes fit.
LEMMA LeftNothing ==
  ASSUME NEW todo, NEW room, Left(0, todo, room)
  PROVE  todo = <<>> /\ room \in Nat
  BY DEF Left

\* What fits, fits into more room.
LEMMA LeftGrows ==
  ASSUME NEW n, NEW todo, NEW small \in Int, NEW room \in Int, small <= room,
         Left(n, todo, small)
  PROVE  Left(n, todo, room)
<1>1. n \in 0 .. 3 /\ \A c \in PartTypes : c.size \in Nat
  BY PartShape DEF Left
<1>2. n = 0 => todo = <<>> /\ room \in Nat
  BY DEF Left
<1>3. n = 1 => \E c \in PartTypes : todo = In(c) /\ c.size <= room
  <2>1. n = 1 => \E c \in PartTypes : todo = In(c) /\ c.size <= small
    BY ZenonT(60) DEF Left
  <2>2. QED
    BY <1>1, <2>1
<1>4. n = 2 => \E b, c \in PartTypes : todo = In(b) \o In(c) /\ b.size + c.size <= room
  <2>1. n = 2 => \E b, c \in PartTypes : todo = In(b) \o In(c) /\ b.size + c.size <= small
    BY ZenonT(60) DEF Left
  <2>2. \A b, c \in PartTypes : b.size + c.size <= small => b.size + c.size <= room
    BY <1>1
  <2>3. QED
    BY <2>1, <2>2, ZenonT(60)
<1>5. n = 3 => \E a, b, c \in PartTypes :
                 todo = In(a) \o In(b) \o In(c) /\ a.size + b.size + c.size <= room
  <2>1. n = 3 => \E a, b, c \in PartTypes :
                   todo = In(a) \o In(b) \o In(c) /\ a.size + b.size + c.size <= small
    BY ZenonT(60) DEF Left
  <2>2. \A a, b, c \in PartTypes :
          a.size + b.size + c.size <= small => a.size + b.size + c.size <= room
    BY <1>1
  <2>3. QED
    BY <2>1, <2>2, ZenonT(60)
<1>6. QED
  BY <1>1, <1>2, <1>3, <1>4, <1>5, ZenonT(60) DEF Left

\* The size of the parts that have been visited.
Written(args) ==
  IF Len(args) = 0 THEN 0
  ELSE IF Len(args) = 1 THEN args[1].size
  ELSE IF Len(args) = 2 THEN args[1].size + args[2].size
  ELSE args[1].size + args[2].size + args[3].size

Sizes(args) == IsASequence(args) /\ \A j \in 1 .. Len(args) : args[j].size \in Nat

\* n parts are left after the k that have been visited.
Owed(k, n, rest, room) == k + n \in 2 .. 3 /\ Left(n, rest, room)

\* A concatenation before, inside and at the end of a part, of the type top.
Before(todo, args, max) ==
  \E n \in 0 .. 3 : Owed(Len(args), n, todo, max - Written(args))
Inside(todo, args, max, top) ==
  \E n \in 0 .. 3 : \E rest :
    /\ IsASequence(rest) /\ top \in PartTypes
    /\ todo = <<Visit(top.class)>> \o (<<Pop>> \o rest)
    /\ Owed(Len(args) + 1, n, rest, max - Written(args) - top.size)
After(todo, args, max) ==
  \E rest : IsASequence(rest) /\ todo = <<Pop>> \o rest /\ Before(rest, args, max)

Parting(todo, args, max, top) ==
  /\ Sizes(args)
  /\ Before(todo, args, max) \/ Inside(todo, args, max, top) \/ After(todo, args, max)

\* What is written is a size, and one more part adds its own.
LEMMA WrittenParts ==
  ASSUME NEW args, Sizes(args), Len(args) <= 3
  PROVE  /\ Len(args) \in Nat /\ Written(args) \in Nat
         /\ \A k : k.size \in Nat /\ Len(args) < 3 =>
              /\ Sizes(Append(args, k)) /\ Len(Append(args, k)) = Len(args) + 1
              /\ Written(Append(args, k)) = Written(args) + k.size
<1> DEFINE n == Len(args)
<1>1. n \in Nat /\ n \in 0 .. 3
  <2>1. n \in Nat
    BY InSequence DEF Sizes
  <2>2. n <= 3
    OBVIOUS
  <2> HIDE DEF n
  <2>3. QED
    BY <2>1, <2>2
<1>2. \A i \in 1 .. n : args[i].size \in Nat
  BY DEF Sizes
<1>3. Written(args) \in Nat
  <2> DEFINE size(i) == args[i].size
  <2>1. \A i \in 1 .. n : size(i) \in Nat
    BY <1>2
  <2>2. Written(args) = IF n = 0 THEN 0 ELSE IF n = 1 THEN size(1)
                        ELSE IF n = 2 THEN size(1) + size(2) ELSE size(1) + size(2) + size(3)
    BY DEF Written
  <2> HIDE DEF n, size
  <2>3. QED
    BY <1>1, <2>1, <2>2
<1>4. ASSUME NEW k, k.size \in Nat, n < 3
      PROVE  /\ Sizes(Append(args, k)) /\ Len(Append(args, k)) = n + 1
             /\ Written(Append(args, k)) = Written(args) + k.size
  <2> DEFINE more == Append(args, k)
  <2>1. /\ IsASequence(more) /\ Len(more) = n + 1 /\ more[n + 1] = k
        /\ \A i \in 1 .. n : more[i] = args[i]
    BY InSequence DEF Sizes
  <2> HIDE DEF more
  <2>2. Sizes(more)
    <3>1. ASSUME NEW j \in 1 .. n + 1 PROVE more[j].size \in Nat
      <4>1. j \in 1 .. n \/ j = n + 1
        BY <1>1
      <4>2. QED
        BY <1>2, <1>4, <2>1, <4>1
    <3>2. QED
      BY <2>1, <3>1 DEF Sizes
  <2>3. CASE n = 0
    <3>1. Len(more) = 1 /\ more[1] = k /\ Len(args) = 0
      BY <2>1, <2>3
    <3>2. Written(more) = k.size /\ Written(args) = 0
      BY <3>1 DEF Written
    <3>3. QED
      BY <1>4, <2>1, <2>2, <3>2 DEF more
  <2>4. CASE n = 1
    <3>1. Len(more) = 2 /\ more[2] = k /\ more[1] = args[1] /\ Len(args) = 1
      BY <2>1, <2>4
    <3>2. Written(more) = args[1].size + k.size /\ Written(args) = args[1].size
      BY <3>1 DEF Written
    <3>3. QED
      BY <2>1, <2>2, <3>2 DEF more
  <2>5. CASE n = 2
    <3>1. /\ Len(more) = 3 /\ more[3] = k /\ more[1] = args[1] /\ more[2] = args[2]
          /\ Len(args) = 2
      BY <2>1, <2>5
    <3>2. /\ Written(more) = args[1].size + args[2].size + k.size
          /\ Written(args) = args[1].size + args[2].size
      BY <3>1 DEF Written
    <3>3. QED
      BY <2>1, <2>2, <3>2 DEF more
  <2>6. n \in {0, 1, 2}
    <3>1. n \in Nat /\ n < 3
      BY <1>1, <1>4
    <3> HIDE DEF n
    <3>2. QED
      BY <3>1
  <2>7. QED
    BY <2>3, <2>4, <2>5, <2>6
<1>5. QED
  BY <1>1, <1>3, <1>4

\* In every place there are at most three parts.
LEMMA PartsAreFew ==
  ASSUME NEW args, Sizes(args), NEW k, NEW n \in 0 .. 3, NEW rest, NEW room,
         Owed(k, n, rest, room), k \in {Len(args), Len(args) + 1}
  PROVE  Len(args) <= 3 /\ (k = Len(args) + 1 => Len(args) < 3)
<1>1. Len(args) \in Nat
  BY InSequence DEF Sizes
<1>2. k + n \in 2 .. 3
  BY DEF Owed
<1>3. QED
  BY <1>1, <1>2

\* The steps of a concatenation: a type is pushed and popped,
LEMMA PartingStep ==
  ASSUME NEW todo, NEW args, NEW max \in Nat, NEW top, Parting(todo, args, max, top),
         todo # <<>>, Head(todo).do # "visit",
         NEW next, Head(todo).do = "push" => next = Head(todo).type
  PROVE  Parting(Tail(todo), args, max, next)
<1>1. Sizes(args)
  BY DEF Parting
<1>2. CASE Before(todo, args, max)
  <2>1. PICK n \in 0 .. 3 : Owed(Len(args), n, todo, max - Written(args))
    BY <1>2 DEF Before
  <2>2. Len(args) \in Nat /\ Written(args) \in Nat
    BY <1>1, <2>1, PartsAreFew, WrittenParts
  <2>3. n \in 1 .. 3
    <3>1. n = 0 => todo = <<>>
      BY <2>1, LeftNothing DEF Owed
    <3>2. QED
      BY <3>1
  <2> DEFINE room == max - Written(args)
  <2>4. room \in Int /\ Left(n, todo, room) /\ Len(args) + n \in 2 .. 3
    BY <2>1, <2>2 DEF Owed
  <2> HIDE DEF room
  <2>part. PICK c \in PartTypes : \E rest :
             /\ IsASequence(rest) /\ todo = PartThen(c, rest)
             /\ Left(n - 1, rest, room - c.size)
    BY <2>3, <2>4, LeftPart
  <2>5. PICK rest :
          /\ IsASequence(rest) /\ todo = PartThen(c, rest)
          /\ Left(n - 1, rest, room - c.size)
    BY <2>part
  <2> DEFINE popped == <<Pop>> \o rest
             visited == <<Visit(c.class)>> \o popped
  <2>6. IsASequence(popped)
    BY <2>5, Begins
  <2> HIDE DEF popped
  <2>7. IsASequence(visited)
    BY <2>6, Begins
  <2>8. todo = <<Push(c)>> \o visited
    BY <2>5 DEF PartThen, popped
  <2> HIDE DEF visited
  <2>9. Head(todo) = Push(c) /\ Tail(todo) = visited
    BY <2>7, <2>8, Begins
  <2>10. next = c
    BY <2>9 DEF Push
  <2>11. n - 1 \in 0 .. 3 /\ Owed(Len(args) + 1, n - 1, rest, room - c.size)
    BY <2>2, <2>3, <2>4, <2>5 DEF Owed
  <2>12. Tail(todo) = <<Visit(next.class)>> \o (<<Pop>> \o rest)
    BY <2>9, <2>10 DEF visited, popped
  <2>13. Inside(Tail(todo), args, max, next)
    BY <2>5, <2>10, <2>11, <2>12 DEF Inside, room
  <2>14. QED
    BY <1>1, <2>13 DEF Parting
<1>3. CASE Inside(todo, args, max, top)
  <2>1. PICK rest : IsASequence(rest) /\ todo = <<Visit(top.class)>> \o (<<Pop>> \o rest)
    BY <1>3 DEF Inside
  <2>2. Head(todo) = Visit(top.class)
    BY <2>1, Begins
  <2>3. QED
    BY <2>2 DEF Visit
<1>4. CASE After(todo, args, max)
  <2>1. PICK rest : IsASequence(rest) /\ todo = <<Pop>> \o rest /\ Before(rest, args, max)
    BY <1>4 DEF After
  <2>2. Tail(todo) = rest
    BY <2>1, Begins
  <2>3. QED
    BY <1>1, <2>1, <2>2 DEF Parting
<1>5. QED
  BY <1>2, <1>3, <1>4 DEF Parting

\* and a part is visited, of the type on top and no longer than it.
LEMMA PartingGiven ==
  ASSUME NEW todo, NEW args, NEW max \in Nat, NEW top, Parting(todo, args, max, top),
         todo # <<>>, Head(todo).do = "visit",
         NEW k, k.size \in Nat, top \in PartTypes => k.size <= top.size, NEW next
  PROVE  Parting(Tail(todo), Append(args, k), max, next)
<1>1. Sizes(args)
  BY DEF Parting
<1>2. CASE Before(todo, args, max)
  <2>1. PICK n \in 0 .. 3 : Owed(Len(args), n, todo, max - Written(args))
    BY <1>2 DEF Before
  <2> DEFINE room == max - Written(args)
  <2>2. room \in Int
    BY <1>1, <2>1, PartsAreFew, WrittenParts
  <2>3. n = 0 => todo = <<>>
    BY <2>1, LeftNothing DEF Owed
  <2>4. n \in 1 .. 3 /\ Left(n, todo, room)
    BY <2>1, <2>3 DEF Owed
  <2> HIDE DEF room
  <2>part. PICK c \in PartTypes : \E rest : IsASequence(rest) /\ todo = PartThen(c, rest)
    BY <2>2, <2>4, LeftPart
  <2>5. PICK rest : IsASequence(rest) /\ todo = PartThen(c, rest)
    BY <2>part
  <2>6. IsASequence(<<Visit(c.class)>> \o (<<Pop>> \o rest))
    BY <2>5, Begins
  <2>7. Head(todo) = Push(c)
    BY <2>5, <2>6, Begins DEF PartThen
  <2>8. QED
    BY <2>7 DEF Push
<1>3. CASE Inside(todo, args, max, top)
  <2>owed. PICK n \in 0 .. 3 : \E rest :
             /\ IsASequence(rest) /\ top \in PartTypes
             /\ todo = <<Visit(top.class)>> \o (<<Pop>> \o rest)
             /\ Owed(Len(args) + 1, n, rest, max - Written(args) - top.size)
    BY <1>3 DEF Inside
  <2>1. PICK rest :
          /\ IsASequence(rest) /\ top \in PartTypes
          /\ todo = <<Visit(top.class)>> \o (<<Pop>> \o rest)
          /\ Owed(Len(args) + 1, n, rest, max - Written(args) - top.size)
    BY <2>owed
  <2>2. Tail(todo) = <<Pop>> \o rest
    BY <2>1, Begins
  <2> DEFINE more == Append(args, k)
  <2>3. /\ Len(args) \in Nat /\ Written(args) \in Nat
        /\ Sizes(more) /\ Len(more) = Len(args) + 1 /\ Written(more) = Written(args) + k.size
    BY <1>1, <2>1, PartsAreFew, WrittenParts
  <2> HIDE DEF more
  <2>4. top.size \in Nat /\ k.size <= top.size
    BY <2>1, PartShape
  <2>5. Owed(Len(more), n, rest, max - Written(more))
    <3>1. max - Written(args) - top.size <= max - Written(more)
      BY <2>3, <2>4
    <3>2. /\ max - Written(args) - top.size \in Int /\ max - Written(more) \in Int
      BY <2>3, <2>4
    <3> DEFINE small == max - Written(args) - top.size
               room == max - Written(more)
    <3>3. small \in Int /\ room \in Int /\ small <= room /\ Owed(Len(args) + 1, n, rest, small)
      BY <2>1, <3>1, <3>2
    <3> HIDE DEF small, room
    <3>4. Left(n, rest, room)
      BY <3>3, LeftGrows DEF Owed
    <3>5. QED
      BY <2>3, <3>3, <3>4 DEF Owed, room
  <2>6. After(Tail(todo), more, max)
    BY <2>1, <2>2, <2>5 DEF After, Before
  <2>7. QED
    BY <2>3, <2>6 DEF Parting, more
<1>4. CASE After(todo, args, max)
  <2>1. PICK rest : IsASequence(rest) /\ todo = <<Pop>> \o rest
    BY <1>4 DEF After
  <2>2. Head(todo) = Pop
    BY <2>1, Begins
  <2>3. QED
    BY <2>2 DEF Pop, Do
<1>5. QED
  BY <1>2, <1>3, <1>4 DEF Parting

\* A concatenation that is done is of two parts or three, and fits.
LEMMA PartingDone ==
  ASSUME NEW args, NEW max \in Nat, NEW top, Parting(<<>>, args, max, top)
  PROVE  SumOfSizes(args) \in Nat /\ SumOfSizes(args) <= max
<1>1. Sizes(args)
  BY DEF Parting
<1>2. Before(<<>>, args, max)
  <2>1. \A a, rest : IsASequence(rest) => <<a>> \o rest # <<>>
    BY Begins
  <2>2. ~ Inside(<<>>, args, max, top)
    <3> SUFFICES ASSUME NEW rest, IsASequence(rest)
                 PROVE  <<>> # <<Visit(top.class)>> \o (<<Pop>> \o rest)
      BY DEF Inside
    <3>1. IsASequence(<<Pop>> \o rest)
      BY Begins
    <3>2. QED
      BY <2>1, <3>1
  <2>3. ~ After(<<>>, args, max)
    BY <2>1 DEF After
  <2>4. QED
    BY <2>2, <2>3 DEF Parting
<1>3. PICK n \in 0 .. 3 : Owed(Len(args), n, <<>>, max - Written(args))
  BY <1>2 DEF Before
<1>4. Len(args) \in Nat /\ Written(args) \in Nat
  BY <1>1, <1>3, PartsAreFew, WrittenParts
<1>5. n = 0
  <2> SUFFICES ASSUME n # 0 PROVE FALSE
    OBVIOUS
  <2> DEFINE room == max - Written(args)
  <2>1. n \in 1 .. 3 /\ room \in Int /\ Left(n, <<>>, room)
    BY <1>3, <1>4 DEF Owed
  <2> HIDE DEF room
  <2>part. PICK c \in PartTypes : \E rest : IsASequence(rest) /\ <<>> = PartThen(c, rest)
    BY <2>1, LeftPart
  <2>2. PICK rest : IsASequence(rest) /\ <<>> = PartThen(c, rest)
    BY <2>part
  <2>3. IsASequence(<<Visit(c.class)>> \o (<<Pop>> \o rest))
    BY <2>2, Begins
  <2>4. QED
    BY <2>2, <2>3, Begins DEF PartThen
<1>6. Len(args) \in 2 .. 3 /\ max - Written(args) \in Nat
  BY <1>3, <1>4, <1>5, LeftNothing DEF Owed
<1>7. SumOfSizes(args) = Written(args)
  <2>1. Len(args) = 2 \/ Len(args) = 3
    BY <1>6
  <2>2. args[1].size \in Nat /\ args[2].size \in Nat
    BY <1>1, <1>6 DEF Sizes
  <2>3. QED
    BY <2>1, <2>2 DEF SumOfSizes, Written
<1>8. QED
  BY <1>4, <1>6, <1>7

\* It begins with no part visited.
LEMMA PartingFirst ==
  ASSUME NEW class \in {"BYTES", "STRING"}, NEW max \in Nat, NEW script \in Concat(class, max),
         NEW top
  PROVE  Parting(script, <<>>, max, top)
<1>1. Len(<<>>) = 0 /\ IsASequence(<<>>)
  BY DEF IsASequence
<1>2. Sizes(<<>>) /\ Written(<<>>) = 0
  BY <1>1 DEF Sizes, Written
<1>3. PICK n \in {2, 3} : Left(n, script, max)
  BY ConcatShape
<1>4. Owed(Len(<<>>), n, script, max - Written(<<>>))
  BY <1>1, <1>2, <1>3 DEF Owed
<1>5. Before(script, <<>>, max)
  BY <1>4 DEF Before
<1>6. QED
  BY <1>2, <1>5 DEF Parting


\* A list with n items left to visit, at the end of its script but for the pop.
Listed(todo, n) ==
  /\ IsASequence(todo) /\ n \in Nat /\ n <= Len(todo)
  /\ todo # <<>> => n < Len(todo)
  /\ \A i \in 1 .. Len(todo) : todo[i].do = "visit" <=> Len(todo) - n <= i /\ i < Len(todo)

Listing(todo, args, max) ==
  IsASequence(args) /\ \E n : Listed(todo, n) /\ Len(args) + n \in 1 .. max

\* A visit is one item fewer.
LEMMA ListedStep ==
  ASSUME NEW todo, NEW n, Listed(todo, n), todo # <<>>
  PROVE  /\ Head(todo).do = "visit" => n > 0 /\ Listed(Tail(todo), n - 1)
         /\ Head(todo).do # "visit" => Listed(Tail(todo), n)
<1> DEFINE k == Len(todo)
           rest == Tail(todo)
           visits(i) == todo[i].do = "visit"
<1>1. PICK S : todo \in Seq(S)
  BY DEF Listed, IsASequence
<1>2. /\ k \in Nat \ {0} /\ Head(todo) = todo[1]
      /\ rest \in Seq(S) /\ Len(rest) = k - 1 /\ IsASequence(rest)
      /\ \A i \in 1 .. k - 1 : rest[i] = todo[i + 1]
  BY <1>1 DEF IsASequence
<1>3. n \in Nat /\ n < k /\ \A i \in 1 .. k : visits(i) <=> k - n <= i /\ i < k
  BY DEF Listed
<1>4. \A i \in 1 .. k - 1 : (rest[i].do = "visit") <=> k - n <= i + 1 /\ i + 1 < k
  <2> SUFFICES ASSUME NEW i \in 1 .. k - 1
               PROVE  (rest[i].do = "visit") <=> k - n <= i + 1 /\ i + 1 < k
    OBVIOUS
  <2>1. i + 1 \in 1 .. k
    BY <1>2
  <2>2. visits(i + 1) <=> k - n <= i + 1 /\ i + 1 < k
    BY <1>3, <2>1
  <2>3. rest[i] = todo[i + 1]
    BY <1>2
  <2>4. QED
    BY <2>2, <2>3
<1>5. Head(todo).do = "visit" <=> k - n <= 1 /\ 1 < k
  <2>1. 1 \in 1 .. k
    BY <1>2
  <2>2. visits(1) <=> k - n <= 1 /\ 1 < k
    BY <1>3, <2>1
  <2>3. QED
    BY <1>2, <2>2
<1>6. rest = <<>> <=> k - 1 = 0
  BY <1>2, InSequence
<1> DEFINE m == k - 1
<1>7. m \in Nat /\ Len(rest) = m /\ m + 1 = k
  BY <1>2
<1> HIDE DEF k, rest, visits
<1>8. CASE Head(todo).do = "visit"
  <2>1. n > 0 /\ n - 1 \in Nat /\ n - 1 <= m /\ (m # 0 => n - 1 < m) /\ n = m
    BY <1>2, <1>3, <1>5, <1>7, <1>8
  <2>2. \A i \in 1 .. m : (k - n <= i + 1 /\ i + 1 < k) <=> (m - (n - 1) <= i /\ i < m)
    <3>1. m \in Nat /\ n = m /\ k = m + 1
      BY <1>7, <2>1
    <3> HIDE DEF m
    <3>2. \A i \in 1 .. m : ((m + 1) - m <= i + 1 /\ i + 1 < m + 1) <=> (m - (m - 1) <= i /\ i < m)
      BY <3>1
    <3>3. QED
      BY <3>1, <3>2
  <2>3. \A i \in 1 .. m : (rest[i].do = "visit") <=> (m - (n - 1) <= i /\ i < m)
    BY <1>4, <2>2
  <2>4. Listed(rest, n - 1)
    BY <1>2, <1>6, <1>7, <2>1, <2>3 DEF Listed
  <2>5. QED
    BY <1>8, <2>1, <2>4 DEF rest
<1>9. CASE Head(todo).do # "visit"
  <2>1. n <= m /\ (m # 0 => n < m)
    BY <1>2, <1>3, <1>5, <1>7, <1>9
  <2>2. \A i \in 1 .. m : (k - n <= i + 1 /\ i + 1 < k) <=> (m - n <= i /\ i < m)
    BY <1>3, <1>7
  <2>3. \A i \in 1 .. m : (rest[i].do = "visit") <=> (m - n <= i /\ i < m)
    BY <1>4, <2>2
  <2>4. Listed(rest, n)
    BY <1>2, <1>3, <1>6, <1>7, <2>1, <2>3 DEF Listed
  <2>5. QED
    BY <1>9, <2>4 DEF rest
<1>10. QED
  BY <1>8, <1>9

\* The items between the push and the pop of their type.
LEMMA ListedFirst ==
  ASSUME NEW b, NEW class, NEW n \in Nat
  PROVE  Listed(<<Push(b)>> \o Visits(class, n) \o <<Pop>>, n)
<1> DEFINE p == Push(b)
           v == Visit(class)
           vs == Visits(class, n)
           s == <<p>> \o vs \o <<Pop>>
           T == {p, v, Pop}
<1>1. p.do # "visit" /\ v.do = "visit" /\ Pop.do # "visit"
  BY DEF Push, Visit, Pop, Do
<1>2. /\ <<p>> \in Seq(T) /\ <<Pop>> \in Seq(T) /\ vs \in Seq(T)
      /\ Len(vs) = n /\ \A i \in 1 .. n : vs[i] = v
  BY DEF Visits
<1> HIDE DEF p, v, vs, T
<1> DEFINE a == <<p>> \o vs
<1>3. a \in Seq(T) /\ Len(a) = n + 1 /\ a[1] = p /\ \A i \in 1 .. n : a[i + 1] = v
  BY <1>2
<1> HIDE DEF a
<1>4. /\ s \in Seq(T) /\ Len(s) = n + 2 /\ s[n + 2] = Pop
      /\ \A i \in 1 .. n + 1 : s[i] = a[i]
  BY <1>2, <1>3 DEF a
<1> HIDE DEF s
<1>5. ASSUME NEW i \in 1 .. n + 2 PROVE (s[i].do = "visit") <=> (2 <= i /\ i < n + 2)
  <2>1. CASE i = 1
    <3>1. 1 \in 1 .. n + 1
      OBVIOUS
    <3>2. s[i] = p
      BY <1>3, <1>4, <2>1, <3>1
    <3>3. QED
      BY <1>1, <2>1, <3>2
  <2>2. CASE i = n + 2
    BY <1>1, <1>4, <2>2
  <2>3. CASE i # 1 /\ i # n + 2
    <3>1. i - 1 \in 1 .. n /\ (i - 1) + 1 = i /\ i \in 1 .. n + 1 /\ 2 <= i /\ i < n + 2
      BY <2>3
    <3>2. a[(i - 1) + 1] = v
      BY <1>3, <3>1
    <3>3. s[i] = v
      BY <1>4, <3>1, <3>2
    <3>4. QED
      BY <1>1, <3>1, <3>3
  <2>4. QED
    BY <2>1, <2>2, <2>3
<1>6. /\ IsASequence(s) /\ n < Len(s) /\ n <= Len(s) /\ Len(s) - n = 2
  BY <1>4 DEF IsASequence
<1>7. Listed(s, n)
  BY <1>4, <1>5, <1>6 DEF Listed
<1>8. QED
  BY <1>7 DEF s, p, vs

\* What may be found for a type that has a size.
Suits(t, prod) ==
  /\ t.class \in {"BYTES", "STRING"} => prod \in {"convert", "concat", "raw_call"}
  /\ t.class = "BYTESM" => prod \in {"convert", "hash"}
  /\ t.class = "LIST" => prod \in {"convert", "list"} \/ (prod = "curve" /\ t.size = 2)

\* A frame that has visited what its type allows, and waits for a value of the type top.
Fitting(f, top) ==
  /\ f.prod # "statement" => Suits(f.type, f.prod)
  /\ f.prod = "concat" => Parting(f.todo, f.args, f.type.size, top)
  /\ f.prod = "list" => Listing(f.todo, f.args, f.type.size)

\* What a production is at first.
Begun(t, p, top) ==
  /\ Suits(t, p.prod)
  /\ p.prod = "concat" => Parting(p.todo, <<>>, t.size, top)
  /\ p.prod = "list" => Listing(p.todo, <<>>, t.size)

\* The productions of a type suit it, and have visited nothing yet.
LEMMA ProductionFits ==
  ASSUME NEW t \in Visitable, NEW p \in Productions(t), NEW top
  PROVE  Begun(t, p, top)
<1>1. /\ t.size \in Nat
      /\ t.class \in {"INT", "DECIMAL", "BOOL", "ADDRESS", "BYTESM", "BYTES", "STRING", "LIST"}
  BY VisitableShape
<1> DEFINE inputs == {In(i) : i \in Inputs(t)}
<1> HIDE DEF inputs
<1>2. CASE p \in Production("convert", "", inputs)
  <2>1. p.prod = "convert" /\ p.todo \in inputs
    BY <1>2, InProduction
  <2>2. QED
    BY <2>1 DEF Begun, Suits
<1>3. CASE t.class \in {"INT", "DECIMAL"} /\ \E ops : p \in NumberProductions(t.class, ops)
  <2>1. PICK ops : p \in NumberProductions(t.class, ops)
    BY <1>3
  <2>2. p.prod \in {"binOp", "unOp"}
    <3> DEFINE unary == {Operator(<<t.class>>)}
               binary == Operator(<<t.class, t.class>>)
    <3> HIDE DEF unary, binary
    <3>1. p \in {[prod |-> "binOp", op |-> op, todo |-> binary] : op \in ops}
            \/ p \in Production("unOp", "-", unary)
      BY <2>1 DEF NumberProductions, unary, binary
    <3>2. QED
      BY <3>1, InProduction
  <2>3. QED
    BY <1>3, <2>2 DEF Begun, Suits
<1>4. CASE t.class = "BOOL" /\ p \in BoolProductions
  <2> DEFINE scripts == {Operator(<<"BOOL", "BOOL">>), Operator(<<"BOOL">>),
                         Comparison("INT", Uint256), Comparison("DECIMAL", Plain("DECIMAL"))}
  <2> HIDE DEF scripts
  <2>1. p \in Production("boolOp", "", scripts) \/ p \in Production("raw_call", "", RawCallExpressions)
    BY <1>4 DEF BoolProductions, scripts
  <2>2. CASE p \in Production("boolOp", "", scripts)
    <3>1. p.prod = "boolOp" /\ p.todo \in scripts
      BY <2>2, InProduction
    <3>2. QED
      BY <1>4, <3>1 DEF Begun, Suits
  <2>3. CASE p \in Production("raw_call", "", RawCallExpressions)
    <3>1. p.prod = "raw_call" /\ p.todo \in RawCallExpressions
      BY <2>3, InProduction
    <3>2. QED
      BY <1>4, <3>1 DEF Begun, Suits
  <2>4. QED
    BY <2>1, <2>2, <2>3
<1>5. CASE t.class = "ADDRESS" /\ p \in AddressProductions
  <2> DEFINE scripts == CreateCopy \cup CreateFromBlueprint
  <2> HIDE DEF scripts
  <2>1. p \in Production("ecRec", "", EcRecover) \/ p \in Production("create", "", scripts)
    BY <1>5 DEF AddressProductions, scripts
  <2>2. CASE p \in Production("ecRec", "", EcRecover)
    <3>1. p.prod = "ecRec" /\ p.todo \in EcRecover
      BY <2>2, InProduction
    <3>2. QED
      BY <1>5, <3>1 DEF Begun, Suits
  <2>3. CASE p \in Production("create", "", scripts)
    <3>1. p.prod = "create" /\ p.todo \in scripts
      BY <2>3, InProduction
    <3>2. QED
      BY <1>5, <3>1 DEF Begun, Suits
  <2>4. QED
    BY <2>1, <2>2, <2>3
<1>6. CASE t.class = "BYTESM" /\ p \in Production("hash", "", Hash)
  <2>1. p.prod = "hash" /\ p.todo \in Hash
    BY <1>6, InProduction
  <2>2. QED
    BY <1>6, <2>1 DEF Begun, Suits
<1>7. CASE t.class \in {"BYTES", "STRING"} /\ p \in Production("concat", "", Concat(t.class, t.size))
  <2> DEFINE scripts == Concat(t.class, t.size)
  <2> HIDE DEF scripts
  <2>1. p \in Production("concat", "", scripts)
    BY <1>7 DEF scripts
  <2>2. p.prod = "concat" /\ p.todo \in scripts
    BY <2>1, InProduction
  <2>3. p.todo \in Concat(t.class, t.size)
    BY <2>2 DEF scripts
  <2>4. Parting(p.todo, <<>>, t.size, top)
    BY <1>1, <1>7, <2>3, PartingFirst
  <2>5. Suits(t, p.prod)
    BY <1>7, <2>2 DEF Suits
  <2>6. QED
    BY <2>2, <2>4, <2>5 DEF Begun
<1>8. CASE t.class = "BYTES" /\ p \in Production("raw_call", "", RawCallExpressions)
  <2>1. p.prod = "raw_call" /\ p.todo \in RawCallExpressions
    BY <1>8, InProduction
  <2>2. QED
    BY <1>8, <2>1 DEF Begun, Suits
<1>9. CASE t.class = "LIST" /\ p \in ListProductions(t)
  <2> DEFINE items(n) == <<Push(t.base)>> \o Visits(t.base.class, n) \o <<Pop>>
             lists == {items(n) : n \in 1 .. CutTo(MaxList, t.size)}
             points == {<<Push(Point), Visit("LIST"), Visit("LIST"), Pop>>,
                        In(Point) \o In(Uint256)}
  <2>1. \/ p \in Production("list", "", lists)
        \/ Curve(t) /\ p \in Production("curve", "", points)
    <3>1. ListProductions(t) = Production("list", "", lists) \cup
            IF Curve(t) THEN Production("curve", "", points) ELSE {}
      BY DEF ListProductions
    <3> HIDE DEF lists, points
    <3>2. QED
      BY <1>9, <3>1
  <2> HIDE DEF lists, points
  <2>2. CASE p \in Production("list", "", lists)
    <3>1. p.prod = "list" /\ p.todo \in lists
      BY <2>2, InProduction
    <3> HIDE DEF items
    <3>2. PICK n \in 1 .. CutTo(MaxList, t.size) : p.todo = items(n)
      BY <3>1 DEF lists
    <3>3. n \in Nat /\ n \in 1 .. t.size
      <4>1. CutTo(MaxList, t.size) \in Nat /\ CutTo(MaxList, t.size) <= t.size
        BY <1>1, LiteralsAssumption DEF CutTo
      <4>2. QED
        BY <1>1, <4>1
    <3>4. Listed(p.todo, n)
      BY <3>2, <3>3, ListedFirst DEF items
    <3>5. Len(<<>>) = 0 /\ IsASequence(<<>>) /\ 0 + n = n
      BY <3>3 DEF IsASequence
    <3>6. Listing(p.todo, <<>>, t.size)
      BY <3>3, <3>4, <3>5 DEF Listing
    <3>7. Suits(t, p.prod)
      BY <1>9, <3>1 DEF Suits
    <3>8. QED
      BY <3>1, <3>6, <3>7 DEF Begun
  <2>3. CASE Curve(t) /\ p \in Production("curve", "", points)
    <3>1. p.prod = "curve" /\ p.todo \in points
      BY <2>3, InProduction
    <3>2. t.size = 2
      BY <2>3 DEF Curve
    <3>3. QED
      BY <1>9, <3>1, <3>2 DEF Begun, Suits
  <2>4. QED
    BY <2>1, <2>2, <2>3
<1>10. CASE t.class = "BYTES" /\ p \in BytesProductions(t)
  <2>1. \/ p \in Production("concat", "", Concat(t.class, t.size))
        \/ p \in Production("raw_call", "", RawCallExpressions)
    BY <1>10 DEF BytesProductions
  <2>2. QED
    BY <1>7, <1>8, <1>10, <2>1
<1>11. QED
  BY <1>1, <1>2, <1>3, <1>4, <1>5, <1>6, <1>7, <1>9, <1>10 DEF Productions, inputs

\* A step without a visit, of a visitor that sees next on top after it,
LEMMA FittingStep ==
  ASSUME NEW f, IsFrame(f), NEW top, Fitting(f, top), f.prod # "statement" => f.type.size \in Nat,
         f.todo # <<>>, Head(f.todo).do # "visit",
         NEW next, Head(f.todo).do = "push" => next = Head(f.todo).type
  PROVE  Fitting(Advanced(f), next)
<1> DEFINE g == Advanced(f)
<1>1. g = [prod |-> f.prod, op |-> f.op, todo |-> Tail(f.todo), args |-> f.args,
           type |-> f.type, mark |-> f.mark]
  BY FrameParts
<1> HIDE DEF g
<1>2. g.prod = f.prod /\ g.args = f.args /\ g.type = f.type /\ g.todo = Tail(f.todo)
  BY <1>1
<1>3. f.prod = "concat" => Parting(g.todo, g.args, g.type.size, next)
  <2> SUFFICES ASSUME f.prod = "concat" PROVE Parting(Tail(f.todo), f.args, f.type.size, next)
    BY <1>2
  <2>1. Parting(f.todo, f.args, f.type.size, top) /\ f.type.size \in Nat
    BY DEF Fitting
  <2>2. QED
    BY <2>1, PartingStep
<1>4. f.prod = "list" => Listing(g.todo, g.args, g.type.size)
  <2> SUFFICES ASSUME f.prod = "list" PROVE Listing(Tail(f.todo), f.args, f.type.size)
    BY <1>2
  <2>1. PICK n : Listed(f.todo, n) /\ Len(f.args) + n \in 1 .. f.type.size
    BY DEF Fitting, Listing
  <2>2. Listed(Tail(f.todo), n)
    BY <2>1, ListedStep
  <2>3. QED
    BY <2>1, <2>2 DEF Fitting, Listing
<1>5. Fitting(g, next)
  BY <1>2, <1>3, <1>4 DEF Fitting
<1>6. QED
  BY <1>5 DEF g

\* and a visit, which gives it a value that fits.
LEMMA FittingGiven ==
  ASSUME NEW f, IsFrame(f), NEW top, Fitting(f, top), f.prod # "statement" => f.type.size \in Nat,
         f.todo # <<>>, Head(f.todo).do = "visit",
         NEW v, SizeFits(top, v), NEW next
  PROVE  Fitting([Advanced(f) EXCEPT !.args = Append(@, Kept(f, v))], next)
<1> DEFINE k == Kept(f, v)
           g == [Advanced(f) EXCEPT !.args = Append(@, k)]
<1> HIDE DEF k
<1>1. g = [prod |-> f.prod, op |-> f.op, todo |-> Tail(f.todo), args |-> Append(f.args, k),
           type |-> f.type, mark |-> f.mark]
  BY FrameParts
<1> HIDE DEF g
<1>2. g.prod = f.prod /\ g.args = Append(f.args, k) /\ g.type = f.type /\ g.todo = Tail(f.todo)
  BY <1>1
<1>3. f.prod = "concat" => Parting(g.todo, g.args, g.type.size, next)
  <2> SUFFICES ASSUME f.prod = "concat"
               PROVE  Parting(Tail(f.todo), Append(f.args, k), f.type.size, next)
    BY <1>2
  <2>1. Parting(f.todo, f.args, f.type.size, top) /\ f.type.size \in Nat
    BY DEF Fitting
  <2>2. k.size = v.size
    <3>1. k = Call(v.size)
      BY DEF Kept, k
    <3>2. QED
      BY <3>1 DEF Call, Value
  <2>3. k.size \in Nat /\ (top \in PartTypes => k.size <= top.size)
    <3>1. v.size \in Nat
      BY DEF SizeFits
    <3>2. top \in PartTypes => top.size \in Nat /\ top.class \in {"BYTES", "STRING", "BYTESM"}
      BY PartShape
    <3>3. top \in PartTypes => v.size <= top.size
      BY <3>1, <3>2 DEF SizeFits
    <3>4. QED
      BY <2>2, <3>1, <3>3
  <2>4. QED
    BY <2>1, <2>3, PartingGiven
<1>4. f.prod = "list" => Listing(g.todo, g.args, g.type.size)
  <2> SUFFICES ASSUME f.prod = "list"
               PROVE  Listing(Tail(f.todo), Append(f.args, k), f.type.size)
    BY <1>2
  <2>1. PICK n : Listed(f.todo, n) /\ Len(f.args) + n \in 1 .. f.type.size
    BY DEF Fitting, Listing
  <2>2. IsASequence(f.args)
    BY DEF Fitting, Listing
  <2>3. Len(f.args) \in Nat /\ IsASequence(Append(f.args, k)) /\ Len(Append(f.args, k)) = Len(f.args) + 1
    BY <2>2, InSequence
  <2>4. n > 0 /\ Listed(Tail(f.todo), n - 1) /\ n \in Nat
    BY <2>1, ListedStep DEF Listed
  <2>5. Len(Append(f.args, k)) + (n - 1) \in 1 .. f.type.size
    BY <2>1, <2>3, <2>4
  <2>6. QED
    BY <2>3, <2>4, <2>5 DEF Listing
<1>5. Fitting(g, next)
  BY <1>2, <1>3, <1>4 DEF Fitting
<1>6. QED
  BY <1>5 DEF g, k

\* What is returned fits the type.
LEMMA ResultFits ==
  ASSUME NEW f, f.prod \in ExprProds, f.type \in Visitable, f.todo = <<>>,
         NEW top, Fitting(f, top)
  PROVE  SizeFits(f.type, Result(f))
<1> DEFINE t == f.type
           v == Result(f)
<1>1. /\ t.size \in Nat
      /\ t.class = "LIST" => t.size # 0 /\ (~ t.dynamic => t.base.class # "LIST")
  BY VisitableShape
<1>2. Suits(t, f.prod)
  BY DEF Fitting, ExprProds
<1>3. \A text, size, fixed : Value(text, size, fixed).size = size
  BY DEF Value
<1>4. \A size : Call(size).size = size
  BY <1>3 DEF Call
<1>5. CASE f.prod \in {"binOp", "unOp", "boolOp", "ecRec"}
  <2>1. v.size = 0
    <3>1. CASE f.prod = "binOp"
      <4>1. PICK text : v = Value(text, 0, TRUE)
        BY <3>1 DEF Result
      <4>2. QED
        BY <4>1 DEF Value
    <3>2. CASE f.prod = "unOp"
      <4>1. PICK text : v = Value(text, 0, TRUE)
        BY <3>2 DEF Result
      <4>2. QED
        BY <4>1 DEF Value
    <3>3. CASE f.prod = "boolOp"
      <4>1. PICK text : v = Value(text, 0, TRUE)
        BY <3>3 DEF Result
      <4>2. QED
        BY <4>1 DEF Value
    <3>4. CASE f.prod = "ecRec"
      <4>1. v = Call(0)
        BY <3>4 DEF Result
      <4>2. QED
        BY <1>4, <4>1
    <3>5. QED
      BY <1>5, <3>1, <3>2, <3>3, <3>4
  <2>2. t.class \notin {"BYTES", "STRING", "BYTESM", "LIST"}
    BY <1>2, <1>5 DEF Suits
  <2>3. QED
    BY <2>1, <2>2 DEF SizeFits
<1>6. CASE f.prod \in {"convert", "hash", "raw_call", "create"}
  <2>1. v.size = t.size
    <3>1. CASE f.prod = "convert"
      <4>1. \E inside : v = [Call(t.size) EXCEPT !.inside = inside]
        BY <3>1 DEF Result, Converted
      <4>2. QED
        BY <1>4, <4>1 DEF Call, Value
    <3>2. CASE f.prod = "hash"
      <4>1. v = Call(t.size)
        BY <3>2 DEF Result
      <4>2. QED
        BY <1>4, <4>1
    <3>3. CASE f.prod \in {"raw_call", "create"}
      <4>1. v = Value(Named, t.size, FALSE)
        BY <3>3 DEF Result
      <4>2. QED
        BY <4>1 DEF Value
    <3>4. QED
      BY <1>6, <3>1, <3>2, <3>3
  <2>2. QED
    BY <1>1, <2>1 DEF SizeFits
<1>7. CASE f.prod = "concat"
  <2>1. v.size = SumOfSizes(f.args)
    <3>1. v = Call(SumOfSizes(f.args))
      BY <1>7 DEF Result
    <3>2. QED
      BY <1>4, <3>1
  <2>2. Parting(<<>>, f.args, t.size, top)
    BY <1>7 DEF Fitting
  <2>3. v.size \in Nat /\ v.size <= t.size
    BY <1>1, <2>1, <2>2, PartingDone
  <2>4. t.class \notin {"BYTESM", "LIST"}
    BY <1>2, <1>7 DEF Suits
  <2>5. QED
    BY <2>3, <2>4 DEF SizeFits
<1>8. CASE f.prod = "list"
  <2>1. v.size = ListSize(t, Len(f.args))
    <3>1. v = Call(ListSize(t, Len(f.args)))
      BY <1>8 DEF Result
    <3>2. QED
      BY <1>4, <3>1
  <2>2. Len(f.args) \in 1 .. t.size
    <3>1. Listing(<<>>, f.args, t.size)
      BY <1>8 DEF Fitting
    <3>2. PICK n : Listed(<<>>, n) /\ Len(f.args) + n \in 1 .. t.size
      BY <3>1 DEF Listing
    <3>3. Len(<<>>) = 0
      OBVIOUS
    <3>4. n = 0
      BY <3>2, <3>3 DEF Listed
    <3>5. Len(f.args) \in Nat
      BY <3>1, InSequence DEF Listing
    <3>6. QED
      BY <3>2, <3>4, <3>5
  <2>3. t.class \notin {"BYTES", "STRING", "BYTESM"}
    BY <1>2, <1>8 DEF Suits
  <2>4. v.size \in Nat
    BY <1>1, <2>1, <2>2 DEF ListSize
  <2>5. t.class = "LIST" => IF t.dynamic THEN v.size \in 1 .. t.size ELSE v.size = t.size
    BY <1>1, <2>1, <2>2 DEF ListSize
  <2>6. QED
    BY <2>3, <2>4, <2>5 DEF SizeFits
<1>9. CASE f.prod = "curve"
  <2>1. v.size = 2
    <3>1. v = Call(2)
      BY <1>9 DEF Result
    <3>2. QED
      BY <1>4, <3>1
  <2>2. t.class \notin {"BYTES", "STRING", "BYTESM"} /\ (t.class = "LIST" => t.size = 2)
    BY <1>2, <1>9 DEF Suits
  <2>3. QED
    BY <2>1, <2>2 DEF SizeFits
<1>10. QED
  BY <1>5, <1>6, <1>7, <1>8, <1>9 DEF ExprProds

\* The type of the value that frame i waits for: that of the next frame, or the one on top.
Asked(fs, types, i) == IF i = Len(fs) THEN types[Len(types)] ELSE fs[i + 1].type

SizesInHand(fs, types) == \A i \in 1 .. Len(fs) : Fitting(fs[i], Asked(fs, types, i))

\* The last frame has taken a step.
LEMMA SizesStep ==
  ASSUME NEW fs, IsASequence(fs), fs # <<>>, NEW types, SizesInHand(fs, types),
         NEW after, NEW g, g.type = Last(fs).type, Fitting(g, after[Len(after)])
  PROVE  SizesInHand(Append(Front(fs), g), after)
<1> DEFINE n == Len(fs)
           fs2 == Append(Front(fs), g)
<1>1. /\ n \in Nat \ {0} /\ Last(fs) = fs[n] /\ Len(fs2) = n /\ fs2[n] = g
      /\ \A i \in 1 .. n - 1 : fs2[i] = fs[i]
  BY FrontOf, Replaced
<1> HIDE DEF fs2
<1>2. ASSUME NEW i \in 1 .. n PROVE Fitting(fs2[i], Asked(fs2, after, i))
  <2>1. CASE i = n
    BY <1>1, <2>1 DEF Asked
  <2>2. CASE i # n
    <3>1. i \in 1 .. n - 1 /\ (i + 1 = n \/ i + 1 \in 1 .. n - 1)
      BY <1>1, <2>2
    <3>2. fs2[i] = fs[i] /\ fs2[i + 1].type = fs[i + 1].type
      BY <1>1, <3>1
    <3>3. Asked(fs2, after, i) = Asked(fs, types, i)
      BY <1>1, <2>2, <3>2 DEF Asked
    <3>4. Fitting(fs[i], Asked(fs, types, i))
      BY DEF SizesInHand
    <3>5. QED
      BY <3>2, <3>3, <3>4
  <2>3. QED
    BY <2>1, <2>2
<1>3. QED
  BY <1>1, <1>2 DEF SizesInHand, fs2

\* The last frame is done, and what it was asked for is on top.
LEMMA SizesReturned ==
  ASSUME NEW fs, IsASequence(fs), Len(fs) > 1, NEW types, SizesInHand(fs, types),
         types[Len(types)] = Last(fs).type
  PROVE  SizesInHand(Front(fs), types)
<1> DEFINE n == Len(fs)
           fs2 == Front(fs)
<1>0. fs # <<>>
  BY InSequence
<1>1. /\ n \in Nat \ {0} /\ Last(fs) = fs[n] /\ Len(fs2) = n - 1
      /\ \A i \in 1 .. n - 1 : fs2[i] = fs[i]
  BY <1>0, FrontOf
<1> HIDE DEF fs2
<1>2. ASSUME NEW i \in 1 .. n - 1 PROVE Fitting(fs2[i], Asked(fs2, types, i))
  <2>1. i \in 1 .. n /\ i # n /\ fs2[i] = fs[i]
    BY <1>1
  <2>2. Asked(fs2, types, i) = fs[i + 1].type
    <3>1. CASE i = n - 1
      BY <1>1, <3>1 DEF Asked
    <3>2. CASE i # n - 1
      <4>1. i + 1 \in 1 .. n - 1
        BY <1>1, <3>2
      <4>2. QED
        BY <1>1, <3>2, <4>1 DEF Asked
    <3>3. QED
      BY <3>1, <3>2
  <2>3. Asked(fs, types, i) = fs[i + 1].type
    BY <2>1 DEF Asked
  <2>4. QED
    BY <2>1, <2>2, <2>3 DEF SizesInHand
<1>3. QED
  BY <1>1, <1>2 DEF SizesInHand, fs2

\* A visitor is called for the type on top.
LEMMA SizesVisited ==
  ASSUME NEW fs, IsASequence(fs), NEW types, SizesInHand(fs, types),
         NEW g, g.type = types[Len(types)], Fitting(g, types[Len(types)])
  PROVE  SizesInHand(Append(fs, g), types)
<1> DEFINE n == Len(fs)
           fs2 == Append(fs, g)
<1>1. n \in Nat /\ Len(fs2) = n + 1 /\ fs2[n + 1] = g /\ \A i \in 1 .. n : fs2[i] = fs[i]
  BY InSequence
<1> HIDE DEF fs2
<1>2. ASSUME NEW i \in 1 .. n + 1 PROVE Fitting(fs2[i], Asked(fs2, types, i))
  <2>1. CASE i = n + 1
    BY <1>1, <2>1 DEF Asked
  <2>2. CASE i # n + 1
    <3>1. i \in 1 .. n /\ fs2[i] = fs[i]
      BY <1>1, <2>2
    <3>2. Asked(fs2, types, i) = fs2[i + 1].type
      BY <1>1, <2>2 DEF Asked
    <3>3. fs2[i + 1].type = Asked(fs, types, i)
      <4>1. CASE i = n
        BY <1>1, <4>1 DEF Asked
      <4>2. CASE i # n
        <5>1. i + 1 \in 1 .. n
          BY <1>1, <3>1, <4>2
        <5>2. QED
          BY <1>1, <4>2, <5>1 DEF Asked
      <4>3. QED
        BY <4>1, <4>2
    <3>4. QED
      BY <3>1, <3>2, <3>3 DEF SizesInHand
  <2>3. QED
    BY <2>1, <2>2
<1>3. QED
  BY <1>1, <1>2 DEF SizesInHand, fs2

\* What the visitors have in hand fits, and so does the value that was returned last.
SizeInv ==
  /\ SizesInHand(frames, type_stack)
  /\ last # NoValue => SizeFits(last.type, last.value)

\* A statement has asked for nothing yet.
LEMMA StartSizes ==
  ASSUME Start
  PROVE  SizeInv'
<1>1. PICK script \in Statements :
        frames' = <<Frame([prod |-> "statement", op |-> "", todo |-> script])>>
  BY DEF Start
<1> DEFINE g == Frame([prod |-> "statement", op |-> "", todo |-> script])
<1>2. g.prod = "statement"
  BY DEF Frame
<1> HIDE DEF g
<1>3. frames' = <<g>> /\ last' = NoValue
  BY <1>1 DEF Start, g
<1>4. Len(<<g>>) = 1 /\ <<g>>[1] = g
  OBVIOUS
<1>5. \A top : Fitting(g, top)
  BY <1>2 DEF Fitting
<1>6. \A i \in 1 .. 1 : i = 1
  OBVIOUS
<1>7. SizesInHand(<<g>>, type_stack')
  BY <1>4, <1>5, <1>6 DEF SizesInHand
<1>8. QED
  BY <1>3, <1>7 DEF SizeInv

\* The frame that is running.
LEMMA RunningFrame ==
  ASSUME IInv, SizeInv, Running
  PROVE  /\ IsASequence(frames) /\ frames # <<>> /\ Current = Last(frames)
         /\ IsFrame(Current) /\ Fitting(Current, Top)
         /\ Current.prod # "statement" => Current.type.size \in Nat
         /\ Top = type_stack[Len(type_stack)]
<1>1. PICK modes : Explains(modes)
  BY DEF IInv
<1>2. Course(frames, type_stack, modes) /\ frames # <<>> /\ Current = Last(frames)
  BY <1>1 DEF Explains, Running, Current
<1> DEFINE n == Len(frames)
           f == Last(frames)
<1>3. /\ n \in Nat \ {0} /\ f = frames[n] /\ InHand(frames, type_stack, modes, n)
      /\ f.prod = "statement" <=> n = 1
  BY <1>2, CourseSeen
<1>4. Top = type_stack[Len(type_stack)]
  BY DEF Top, Last
<1>5. IsFrame(f) /\ (n > 1 => IsExpression(f))
  BY <1>3 DEF InHand
<1>6. Asked(frames, type_stack, n) = Top
  BY <1>4 DEF Asked
<1>7. Fitting(f, Top)
  <2>1. n \in 1 .. n
    <3> HIDE DEF n
    <3>1. QED
      BY <1>3
  <2>2. QED
    BY <1>3, <1>6, <2>1 DEF SizeInv, SizesInHand
<1>8. f.prod # "statement" => f.type.size \in Nat
  <2>1. n = 1 \/ n > 1
    <3> HIDE DEF n
    <3>1. QED
      BY <1>3
  <2>2. f.prod # "statement" => f.type \in Visitable
    BY <1>3, <1>5, <2>1 DEF IsExpression
  <2>3. QED
    BY <2>2, VisitableShape
<1>9. IsASequence(frames)
  BY <1>2 DEF Course
<1>10. QED
  BY <1>2, <1>4, <1>5, <1>7, <1>8, <1>9

\* What is pushed is what a visit asks for.
LEMMA ExecuteSizes ==
  ASSUME IInv, SizeInv, Execute
  PROVE  SizeInv'
<1> DEFINE f == Current
           g == Advanced(f)
           step == Next1(f)
           next == type_stack'[Len(type_stack')]
<1>1. /\ IsASequence(frames) /\ frames # <<>> /\ f = Last(frames)
      /\ IsFrame(f) /\ Fitting(f, Top) /\ (f.prod # "statement" => f.type.size \in Nat)
  BY RunningFrame DEF Execute
<1>2. /\ f.todo # <<>> /\ step = Head(f.todo) /\ step.do # "visit"
      /\ frames' = Append(Front(frames), g) /\ last' = NoValue
      /\ step.do = "push" => type_stack' = Append(type_stack, step.type)
  BY DEF Execute, Next1
<1>3. step.do = "push" => next = step.type
  <2>1. PICK modes : Explains(modes)
    BY DEF IInv
  <2>2. IsASequence(type_stack)
    BY <2>1 DEF Explains, Course, IsASequence
  <2> HIDE DEF step
  <2>3. Len(Append(type_stack, step.type)) = Len(type_stack) + 1
        /\ Append(type_stack, step.type)[Len(type_stack) + 1] = step.type
    BY <2>2, InSequence
  <2>4. QED
    BY <1>2, <2>3
<1>4. g.type = f.type
  <2>1. g = [prod |-> f.prod, op |-> f.op, todo |-> Tail(f.todo), args |-> f.args,
             type |-> f.type, mark |-> f.mark]
    BY <1>1, FrameParts
  <2> HIDE DEF f, g
  <2>2. QED
    BY <2>1
<1>5. Fitting(g, next)
  <2>1. Head(f.todo).do # "visit" /\ (Head(f.todo).do = "push" => next = Head(f.todo).type)
    BY <1>2, <1>3
  <2> HIDE DEF f, next
  <2>2. QED
    BY <1>1, <1>2, <2>1, FittingStep
<1> HIDE DEF f, g
<1>6. SizesInHand(Append(Front(frames), g), type_stack')
  BY <1>1, <1>4, <1>5, SizesStep DEF SizeInv
<1>7. QED
  BY <1>2, <1>6 DEF SizeInv

\* The last frame of fs is given a value that fits the type on top.
LEMMA GivenSizes ==
  ASSUME NEW fs, IsASequence(fs), fs # <<>>, SizesInHand(fs, type_stack),
         IsFrame(Last(fs)), Last(fs).prod # "statement" => Last(fs).type.size \in Nat,
         Last(fs).todo # <<>>, Head(Last(fs).todo).do = "visit",
         NEW t, t = type_stack[Len(type_stack)], NEW v, SizeFits(t, v),
         Given(fs, t, v), type_stack' = type_stack
  PROVE  SizeInv'
<1> DEFINE f == Last(fs)
           g == [Advanced(f) EXCEPT !.args = Append(@, Kept(f, v))]
<1>1. frames' = Append(Front(fs), g) /\ last' = [type |-> t, value |-> v]
  BY DEF Given
<1>2. g.type = f.type
  <2> DEFINE k == Kept(f, v)
  <2>1. [Advanced(f) EXCEPT !.args = Append(@, k)] =
          [prod |-> f.prod, op |-> f.op, todo |-> Tail(f.todo), args |-> Append(f.args, k),
           type |-> f.type, mark |-> f.mark]
    BY FrameParts
  <2>2. g = [Advanced(f) EXCEPT !.args = Append(@, k)]
    OBVIOUS
  <2> HIDE DEF g, f, k
  <2>3. QED
    BY <2>1, <2>2
<1>3. Fitting(f, t)
  <2>1. Len(fs) \in Nat \ {0} /\ f = fs[Len(fs)]
    BY FrontOf
  <2>2. Asked(fs, type_stack, Len(fs)) = t
    BY DEF Asked
  <2>3. Len(fs) \in 1 .. Len(fs)
    BY <2>1
  <2>4. QED
    BY <2>1, <2>2, <2>3 DEF SizesInHand
<1>4. Fitting(g, t)
  <2>1. IsFrame(f) /\ (f.prod # "statement" => f.type.size \in Nat)
        /\ f.todo # <<>> /\ Head(f.todo).do = "visit"
    OBVIOUS
  <2> HIDE DEF f
  <2>2. QED
    BY <1>3, <2>1, FittingGiven
<1> HIDE DEF f, g
<1>5. SizesInHand(Append(Front(fs), g), type_stack')
  BY <1>2, <1>4, SizesStep DEF f
<1>6. SizeFits(last'.type, last'.value)
  BY <1>1
<1>7. QED
  BY <1>1, <1>5, <1>6 DEF SizeInv

\* A literal or a variable fits.
LEMMA VisitLeafSizes ==
  ASSUME IInv, SizeInv, VisitLeaf
  PROVE  SizeInv'
<1>1. PICK v \in LiteralValues(Top) \cup ReferenceValues(Top) : Given(frames, Top, v)
  BY DEF VisitLeaf
<1>2. /\ IsASequence(frames) /\ frames # <<>> /\ Current = Last(frames)
      /\ IsFrame(Current) /\ (Current.prod # "statement" => Current.type.size \in Nat)
      /\ Top = type_stack[Len(type_stack)]
  BY RunningFrame DEF VisitLeaf, Visiting
<1>3. /\ Last(frames).todo # <<>> /\ Head(Last(frames).todo).do = "visit"
      /\ type_stack' = type_stack
  BY <1>2 DEF VisitLeaf, Visiting, Next1
<1>4. Top \in Visitable
  <2>1. PICK modes : Explains(modes)
    BY DEF IInv
  <2>2. Course(frames, type_stack, modes)
    BY <2>1 DEF Explains
  <2>3. QED
    BY <1>2, <1>3, <2>2, CourseTop
<1>5. SizeFits(Top, v)
  BY <1>1, <1>4, LeafFits
<1> DEFINE t == Top
<1>6. t = type_stack[Len(type_stack)] /\ SizeFits(t, v) /\ Given(frames, t, v)
  BY <1>1, <1>2, <1>5
<1>7. /\ IsFrame(Last(frames)) /\ (Last(frames).prod # "statement" => Last(frames).type.size \in Nat)
      /\ SizesInHand(frames, type_stack)
  BY <1>2 DEF SizeInv
<1> HIDE DEF t
<1>8. QED
  BY <1>2, <1>3, <1>6, <1>7, GivenSizes

\* A visitor begins with what suits the type on top.
LEMMA VisitNestedSizes ==
  ASSUME IInv, SizeInv, VisitNested
  PROVE  SizeInv'
<1>1. PICK p \in Productions(Top) : frames' = Append(frames, Frame(p))
  BY DEF VisitNested
<1>2. /\ IsASequence(frames) /\ frames # <<>> /\ Current = Last(frames)
      /\ Top = type_stack[Len(type_stack)]
  BY RunningFrame DEF VisitNested, Visiting
<1>3. /\ Last(frames).todo # <<>> /\ Head(Last(frames).todo).do = "visit"
      /\ type_stack' = type_stack /\ last' = NoValue
  BY <1>2 DEF VisitNested, Visiting, Next1
<1>4. Top \in Visitable /\ type_stack # <<>>
  <2>1. PICK modes : Explains(modes)
    BY DEF IInv
  <2>2. Course(frames, type_stack, modes)
    BY <2>1 DEF Explains
  <2>3. Top \in Visitable /\ Len(type_stack) \in Nat \ {0}
    BY <1>2, <1>3, <2>2, CourseTop
  <2>4. Len(<<>>) = 0
    OBVIOUS
  <2>5. QED
    BY <2>3, <2>4
<1> DEFINE g == Frame(p)
<1>5. Begun(Top, p, Top)
  BY <1>4, ProductionFits
<1>6. g.prod = p.prod /\ g.todo = p.todo /\ g.args = <<>> /\ g.type = Top
  <2> DEFINE prod == p.prod
             op == p.op
             todo == p.todo
             mark == Len(type_stack)
             type == Top
  <2>1. g = [prod |-> prod, op |-> op, todo |-> todo, args |-> <<>>, type |-> type, mark |-> mark]
    BY <1>4 DEF Frame
  <2> HIDE DEF g, prod, op, todo, mark, type
  <2>2. g.prod = prod /\ g.todo = todo /\ g.args = <<>> /\ g.type = type
    BY <2>1
  <2>3. QED
    BY <2>2 DEF prod, todo, type
<1> HIDE DEF g
<1>7. Fitting(g, Top)
  BY <1>5, <1>6 DEF Begun, Fitting
<1>8. SizesInHand(Append(frames, g), type_stack)
  BY <1>2, <1>6, <1>7, SizesVisited DEF SizeInv
<1>9. QED
  BY <1>1, <1>3, <1>8 DEF SizeInv, g

\* What a visitor returns fits the type that it was called for.
LEMMA ReturnSizes ==
  ASSUME IInv, SizeInv, Return
  PROVE  SizeInv'
<1> DEFINE f == Last(frames)
           fs == Front(frames)
           v == Result(f)
           t == f.type
<1>1. PICK modes : Explains(modes)
  BY DEF IInv
<1>2. /\ Course(frames, type_stack, modes) /\ frames # <<>> /\ Len(frames) > 1 /\ f.todo = <<>>
      /\ type_stack' = type_stack /\ Given(fs, t, v)
  BY <1>1 DEF Return, Running, Current, Explains
<1>3. /\ type_stack[Len(type_stack)] = t /\ fs # <<>> /\ Len(fs) = Len(frames) - 1
      /\ Course(fs, type_stack, modes)
      /\ Last(fs).todo # <<>> /\ Head(Last(fs).todo).do = "visit"
  BY <1>2, CourseReturned
<1>4. /\ IsASequence(frames) /\ f = Current /\ Fitting(f, Top)
  BY RunningFrame DEF Return
<1>5. IsExpression(f)
  BY <1>2, CourseSeen DEF InHand
<1>6. SizeFits(t, v)
  <2>1. f.prod \in ExprProds /\ f.type \in Visitable /\ f.todo = <<>>
    BY <1>2, <1>5 DEF IsExpression
  <2> HIDE DEF f
  <2>2. QED
    BY <1>4, <2>1, ResultFits
<1>7. SizesInHand(fs, type_stack)
  BY <1>2, <1>3, <1>4, SizesReturned DEF SizeInv
<1>8. IsFrame(Last(fs)) /\ (Last(fs).prod # "statement" => Last(fs).type.size \in Nat)
  <2> DEFINE k == Len(fs)
  <2>1. /\ k \in Nat \ {0} /\ InHand(fs, type_stack, modes, k) /\ Last(fs) = fs[k]
        /\ Last(fs).prod = "statement" <=> k = 1
    BY <1>3, CourseSeen
  <2>2. k = 1 \/ k > 1
    <3> HIDE DEF k
    <3>1. QED
      BY <2>1
  <2>3. IsFrame(Last(fs)) /\ (k > 1 => IsExpression(Last(fs)))
    BY <2>1 DEF InHand
  <2> HIDE DEF k, fs
  <2>4. Last(fs).prod # "statement" => Last(fs).type \in Visitable
    BY <2>1, <2>2, <2>3 DEF IsExpression
  <2>5. QED
    BY <2>3, <2>4, VisitableShape
<1>9. IsASequence(fs)
  BY <1>3 DEF Course
<1>10. t = type_stack[Len(type_stack)]
  BY <1>3
<1> HIDE DEF fs, v, t
<1>11. QED
  BY <1>2, <1>3, <1>6, <1>7, <1>8, <1>9, <1>10, GivenSizes

\* The sizes fit in every step.
LEMMA NextSizes ==
  ASSUME IInv, SizeInv, [Next]_vars
  PROVE  SizeInv'
<1>1. CASE Start
  BY <1>1, StartSizes
<1>2. CASE Execute
  BY <1>2, ExecuteSizes
<1>3. CASE VisitLeaf
  BY <1>3, VisitLeafSizes
<1>4. CASE VisitNested
  BY <1>4, VisitNestedSizes
<1>5. CASE Return
  BY <1>5, ReturnSizes
<1>6. CASE Finish
  <2>1. frames' = <<>> /\ last' = NoValue /\ Len(<<>>) = 0 /\ 1 .. 0 = {}
    BY <1>6 DEF Finish
  <2>2. SizesInHand(<<>>, type_stack')
    BY <2>1 DEF SizesInHand
  <2>3. QED
    BY <2>1, <2>2 DEF SizeInv
<1>7. CASE Raise \/ UNCHANGED vars
  <2>1. UNCHANGED <<type_stack, frames, last>>
    BY <1>7 DEF Raise, vars
  <2>2. QED
    BY <2>1 DEF SizeInv
<1>8. QED
  BY <1>1, <1>2, <1>3, <1>4, <1>5, <1>6, <1>7 DEF Next

\* So they always do.
LEMMA SizeInvariance ==
  Spec => []SizeInv
<1>1. Init => SizeInv
  <2>1. Len(<<>>) = 0 /\ 1 .. 0 = {}
    OBVIOUS
  <2>2. SizesInHand(<<>>, <<>>)
    BY <2>1 DEF SizesInHand
  <2>3. QED
    BY <2>2 DEF Init, SizeInv
<1>2. IInv /\ SizeInv /\ [Next]_vars => SizeInv'
  BY NextSizes
<1>3. QED
  BY <1>1, <1>2, Invariance, PTL DEF Spec

(***************************************************************************)
(* The theorems.                                                           *)
(***************************************************************************)

\* The type invariant: the stacks are stacks, whatever is visited, and a statement is below
\* every visitor.
THEOREM TypesAreRight ==
  Spec => []TypeOK
  BY Invariance, InvTypeOK, PTL

\* type_stack is balanced: every visitor finds on top the type that it was visited for, and
\* leaves it there, so that what a statement leaves on the stack is never used.
THEOREM TypesAreBalanced ==
  Spec => []TypesBalanced
  BY Invariance, InvTypesBalanced, PTL

\* op_stack does what it is for: an operand of an operator has parentheses if it is an
\* operation, however many calls and conversions are in between.
THEOREM OperandsAreClosed ==
  Spec => []OperandsClosed
  BY Invariance, InvOperandsClosed, PTL

\* is_constant does what it is for: what a constant is initialised with makes no calls and
\* creates no contracts, at any depth, and refers to constants alone.
THEOREM ConstantsAreFixed ==
  Spec => []ConstantsFixed
<1>1. IInv => ConstantsFixed
  BY DEF IInv, LastGood, ConstantsFixed
<1>2. QED
  BY <1>1, Invariance, PTL

\* check_literal_bounds is called wherever it is needed: what is written for an integer, or
\* converted to one, is a value of its type, if it evaluates to an integer.  Nothing is said
\* of what evaluates to a float, which check_literal_bounds lets through.
THEOREM IntsAreInRange ==
  ASSUME PowersAreNumbers
  PROVE  Spec => []IntsInRange
<1>1. IInv => IntsInRange
  BY DEF IInv, LastGood, IntsInRange, IsGood, Fits
<1>2. QED
  BY <1>1, Invariance, PTL

\* The sizes that _visit_concat, _visit_list and the literals count with are those of the
\* types: no byte array or string is longer than its type allows, no bytesM or fixed list
\* shorter or longer, at any depth.
THEOREM SizesAreFit ==
  Spec => []SizesFit
<1>1. SizeInv => SizesFit
  BY DEF SizeInv, SizeFits, SizesFit
<1>2. QED
  BY <1>1, SizeInvariance, PTL

=============================================================================
