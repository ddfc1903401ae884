--------------------------- MODULE CallGraphProofs ---------------------------
(***************************************************************************)
(* Proofs about CallGraph for every number of functions.                   *)
(***************************************************************************)
EXTENDS CallGraph, SequenceTheorems, FiniteSetTheorems, TLAPS

(***************************************************************************)
(* Sequences.                                                              *)
(***************************************************************************)

\* Front drops the last element and keeps the others.
LEMMA FrontKeeps ==
  ASSUME NEW S, NEW s \in Seq(S), s # <<>>
  PROVE  /\ Front(s) \in Seq(S)
         /\ Len(s) \in Nat \ {0}
         /\ Len(Front(s)) = Len(s) - 1
         /\ \A j \in 1 .. Len(s) - 1 : Front(s)[j] = s[j]
<1>1. Len(s) \in Nat \ {0}
  BY EmptySeq
<1>2. \A j \in 1 .. Len(s) - 1 : s[j] \in S
  BY <1>1, ElementOfSeq
<1> DEFINE n == Len(s) - 1
<1>3. n \in Int /\ 1 \in Int /\ n \in Nat
  BY <1>1
<1> HIDE DEF n
<1>4. /\ SubSeq(s, 1, n) \in Seq(S)
      /\ Len(SubSeq(s, 1, n)) = IF 1 <= n THEN n - 1 + 1 ELSE 0
      /\ \A j \in 1 .. n - 1 + 1 : SubSeq(s, 1, n)[j] = s[1 + j - 1]
  BY <1>2, <1>3, SubSeqProperties DEF n
<1>5. Front(s) = SubSeq(s, 1, n) /\ n = Len(s) - 1
  BY DEF Front, n
<1>6. Len(SubSeq(s, 1, n)) = n /\ \A j \in 1 .. n : SubSeq(s, 1, n)[j] = s[j]
  BY <1>3, <1>4
<1>7. QED
  BY <1>1, <1>4, <1>5, <1>6

\* Removing a position shifts what follows it.
LEMMA RemoveAtShifts ==
  ASSUME NEW S, NEW s \in Seq(S), NEW i \in 1 .. Len(s)
  PROVE  /\ RemoveAt(s, i) \in Seq(S)
         /\ Len(RemoveAt(s, i)) = Len(s) - 1
         /\ \A j \in 1 .. i - 1 : RemoveAt(s, i)[j] = s[j]
         /\ \A j \in i .. Len(s) - 1 : RemoveAt(s, i)[j] = s[j + 1]
<1> DEFINE n == Len(s)
           a == SubSeq(s, 1, i - 1)
           b == SubSeq(s, i + 1, n)
<1>1. n \in Nat /\ i \in 1 .. n /\ \A j \in 1 .. n : s[j] \in S
  BY LenProperties, ElementOfSeq
<1> HIDE DEF n
<1>2. a \in Seq(S) /\ Len(a) = i - 1 /\ \A j \in 1 .. i - 1 : a[j] = s[j]
  <2>1. i - 1 \in Int /\ \A j \in 1 .. i - 1 : s[j] \in S
    BY <1>1
  <2>2. /\ a \in Seq(S)
        /\ Len(a) = IF 1 <= i - 1 THEN (i - 1) - 1 + 1 ELSE 0
        /\ \A j \in 1 .. (i - 1) - 1 + 1 : a[j] = s[1 + j - 1]
    BY <2>1, SubSeqProperties
  <2> HIDE DEF a
  <2>3. QED
    BY <1>1, <2>2
<1>3. b \in Seq(S) /\ Len(b) = n - i /\ \A j \in 1 .. n - i : b[j] = s[j + i]
  <2>1. i + 1 \in Int /\ n \in Int /\ \A j \in i + 1 .. n : s[j] \in S
    BY <1>1
  <2>2. /\ b \in Seq(S)
        /\ Len(b) = IF i + 1 <= n THEN n - (i + 1) + 1 ELSE 0
        /\ \A j \in 1 .. n - (i + 1) + 1 : b[j] = s[(i + 1) + j - 1]
    BY <2>1, SubSeqProperties
  <2> HIDE DEF b
  <2>3. \A j \in 1 .. n - i : j \in 1 .. n - (i + 1) + 1 /\ (i + 1) + j - 1 = j + i
    BY <1>1
  <2>4. QED
    BY <1>1, <2>2, <2>3
<1>4. RemoveAt(s, i) = a \o b
  BY DEF RemoveAt, n
<1> HIDE DEF a, b
<1>5. /\ a \o b \in Seq(S)
      /\ Len(a \o b) = Len(a) + Len(b)
      /\ \A j \in 1 .. Len(a) + Len(b) :
           (a \o b)[j] = IF j <= Len(a) THEN a[j] ELSE b[j - Len(a)]
  BY <1>2, <1>3, ConcatProperties
<1>6. \A j \in 1 .. i - 1 : (a \o b)[j] = s[j]
  BY <1>1, <1>2, <1>3, <1>5
<1>7. ASSUME NEW j \in i .. n - 1 PROVE (a \o b)[j] = s[j + 1]
  <2>1. j - (i - 1) \in 1 .. n - i /\ (j - (i - 1)) + i = j + 1
    BY <1>1
  <2>2. (a \o b)[j] = b[j - (i - 1)]
    BY <1>1, <1>2, <1>3, <1>5
  <2>3. QED
    BY <1>3, <2>1, <2>2
<1>8. Len(a \o b) = n - 1
  BY <1>1, <1>2, <1>3, <1>5
<1>9. QED
  BY <1>4, <1>5, <1>6, <1>7, <1>8 DEF n

\* Removing a position drops its element, and no other of a list without repetition.
LEMMA RemoveAtDrops ==
  ASSUME NEW S, NEW s \in Seq(S), NEW i \in 1 .. Len(s), IsInjective(s)
  PROVE  /\ RemoveAt(s, i) \in Seq(S)
         /\ IsInjective(RemoveAt(s, i))
         /\ Range(RemoveAt(s, i)) = Range(s) \ {s[i]}
<1> DEFINE n == Len(s)
           t == RemoveAt(s, i)
           from(j) == IF j < i THEN j ELSE j + 1
<1>1. n \in Nat /\ i \in 1 .. n /\ DOMAIN s = 1 .. n
  BY LenProperties
<1>2. t \in Seq(S) /\ DOMAIN t = 1 .. n - 1
  BY RemoveAtShifts, LenProperties
<1>3. \A j \in 1 .. n - 1 : t[j] = s[from(j)]
  BY <1>1, RemoveAtShifts
<1>4. \A j, k \in 1 .. n : s[j] = s[k] => j = k
  BY <1>1 DEF IsInjective
<1> HIDE DEF n, t
<1>5. \A j \in 1 .. n - 1 : from(j) \in (1 .. n) \ {i}
  BY <1>1
<1>6. \A j, k \in 1 .. n - 1 : from(j) = from(k) => j = k
  BY <1>1
<1>7. \A k \in (1 .. n) \ {i} : \E j \in 1 .. n - 1 : from(j) = k
  <2> TAKE k \in (1 .. n) \ {i}
  <2>1. CASE k < i
    BY <1>1, <2>1
  <2>2. CASE k > i
    <3>1. k - 1 \in 1 .. n - 1 /\ from(k - 1) = k
      BY <1>1, <2>2
    <3>2. QED
      BY <3>1
  <2>3. QED
    BY <1>1, <2>1, <2>2
<1> HIDE DEF from
<1>8. IsInjective(t)
  BY <1>2, <1>3, <1>4, <1>5, <1>6 DEF IsInjective
<1>9. Range(t) \subseteq Range(s) \ {s[i]}
  <2> SUFFICES ASSUME NEW j \in 1 .. n - 1 PROVE t[j] \in Range(s) \ {s[i]}
    BY <1>2 DEF Range
  <2>1. from(j) \in 1 .. n /\ from(j) # i
    BY <1>5
  <2>2. s[from(j)] \in Range(s) /\ s[from(j)] # s[i]
    BY <1>1, <1>4, <2>1 DEF Range
  <2>3. QED
    BY <1>3, <2>2
<1>10. Range(s) \ {s[i]} \subseteq Range(t)
  <2> SUFFICES ASSUME NEW k \in 1 .. n, s[k] # s[i] PROVE s[k] \in Range(t)
    BY <1>1 DEF Range
  <2>1. PICK j \in 1 .. n - 1 : from(j) = k
    BY <1>7
  <2>2. j \in DOMAIN t /\ t[j] = s[k]
    BY <1>2, <1>3, <2>1
  <2>3. QED
    BY <2>2 DEF Range
<1>11. QED
  BY <1>2, <1>8, <1>9, <1>10 DEF t

\* Appending a new element to a list without repetition.
LEMMA AppendAdds ==
  ASSUME NEW S, NEW s \in Seq(S), NEW e \in S
  PROVE  /\ Append(s, e) \in Seq(S)
         /\ Len(Append(s, e)) = Len(s) + 1
         /\ \A j \in 1 .. Len(s) : Append(s, e)[j] = s[j]
         /\ Append(s, e)[Len(s) + 1] = e
         /\ Range(Append(s, e)) = Range(s) \cup {e}
         /\ IsInjective(s) /\ e \notin Range(s) => IsInjective(Append(s, e))
<1>1. /\ Append(s, e) \in Seq(S)
      /\ Len(Append(s, e)) = Len(s) + 1
      /\ \A j \in 1 .. Len(s) : Append(s, e)[j] = s[j]
      /\ Append(s, e)[Len(s) + 1] = e
  BY AppendProperties
<1>2. /\ Len(s) \in Nat /\ DOMAIN s = 1 .. Len(s)
      /\ DOMAIN Append(s, e) = 1 .. Len(s) + 1
  BY <1>1, LenProperties
<1>3. Range(Append(s, e)) = Range(s) \cup {e}
  BY <1>1, <1>2 DEF Range
<1>4. ASSUME IsInjective(s), e \notin Range(s) PROVE IsInjective(Append(s, e))
  BY <1>1, <1>2, <1>4 DEF IsInjective, Range
<1>5. QED
  BY <1>1, <1>3, <1>4

(***************************************************************************)
(* Active calls.                                                           *)
(***************************************************************************)

\* The topmost call is well typed, and so is the callee it examines.
LEMMA TopType ==
  ASSUME TypeOK, stack # <<>>
  PROVE  /\ Len(stack) \in Nat \ {0}
         /\ Top \in Frame
         /\ Busy => Callee \in Func /\ Top.pos \in 1 .. Len(tree[Top.id])
<1>1. Len(stack) \in Nat \ {0}
  BY EmptySeq DEF TypeOK
<1>2. Top \in Frame
  BY <1>1, ElementOfSeq DEF TypeOK, Top
<1>3. ASSUME Busy PROVE Callee \in Func /\ Top.pos \in 1 .. Len(tree[Top.id])
  <2>1. tree[Top.id] \in Seq(Func)
    BY <1>2 DEF TypeOK, Frame
  <2>2. Top.pos \in 1 .. Len(tree[Top.id])
    BY <1>2, <1>3, <2>1, LenProperties DEF Busy, Frame
  <2>3. QED
    BY <2>1, <2>2, ElementOfSeq DEF Callee
<1>4. QED
  BY <1>1, <1>2, <1>3

\* Advancing the loop of the topmost call changes nothing else.
LEMMA AdvancedType ==
  ASSUME TypeOK, stack # <<>>
  PROVE  /\ Advanced \in Seq(Frame)
         /\ Len(Advanced) = Len(stack)
         /\ Advanced[Len(stack)] = [Top EXCEPT !.pos = @ + 1]
         /\ \A k \in 1 .. Len(stack) - 1 : Advanced[k] = stack[k]
<1>1. Len(stack) \in Nat \ {0} /\ Top \in Frame /\ stack \in Seq(Frame)
  BY TopType DEF TypeOK
<1>2. [Top EXCEPT !.pos = @ + 1] \in Frame
  <2>1. Top.id \in Func /\ Top.pos + 1 \in Nat \ {0} /\ Top.path \in SUBSET Func
    BY <1>1 DEF Frame
  <2>2. [Top EXCEPT !.pos = @ + 1] = [id |-> Top.id, pos |-> Top.pos + 1, path |-> Top.path]
    BY <1>1 DEF Frame
  <2> HIDE DEF Top
  <2>3. QED
    BY <2>1, <2>2 DEF Frame
<1>3. Advanced = [stack EXCEPT ![Len(stack)] = [Top EXCEPT !.pos = @ + 1]]
  BY DEF Advanced, Top
<1>4. QED
  BY <1>1, <1>2, <1>3, ExceptSeq

(***************************************************************************)
(* Type correctness.                                                       *)
(***************************************************************************)

\* The initial state is well typed.
LEMMA InitTypeOK == Init => TypeOK
<1> SUFFICES ASSUME Init PROVE TypeOK
  OBVIOUS
<1>1. <<>> \in Seq(Func) /\ <<>> \in Seq(Frame)
  BY EmptySeq
<1>2. 0 \in Func
  BY NAssumption DEF Func
<1>3. QED
  BY <1>1, <1>2 DEF Init, TypeOK

\* The stack of a search grows and shrinks by well-typed calls.
LEMMA PushType ==
  ASSUME TypeOK, stack # <<>>, NEW s \in Seq(Frame), NEW c \in Func,
         NEW p \in SUBSET Func
  PROVE  Append(s, [id |-> c, pos |-> 1, path |-> p]) \in Seq(Frame)
<1>1. [id |-> c, pos |-> 1, path |-> p] \in Frame
  BY DEF Frame
<1>2. QED
  BY <1>1, AppendProperties

\* After Descend the caller is one position further and has its callee on its path,
\* and the callee is on top.
LEMMA DescendStack ==
  ASSUME TypeOK, Descend
  PROVE  LET n == Len(stack)
             c == Callee
             p == Top.path \cup {Callee}
         IN  /\ stack' \in Seq(Frame)
             /\ Len(stack') = n + 1
             /\ \A k \in 1 .. n - 1 : stack'[k] = stack[k]
             /\ stack'[n].id = Top.id
             /\ stack'[n].pos = Top.pos + 1
             /\ stack'[n].path = p
             /\ stack'[n + 1] = [id |-> c, pos |-> 1, path |-> p]
<1> DEFINE n == Len(stack)
           p == Top.path \cup {Callee}
           a == [Advanced EXCEPT ![n].path = p]
           new == [id |-> Callee, pos |-> 1, path |-> p]
<1>1. stack # <<>> /\ Busy
  BY DEF Descend, Busy
<1>2. n \in Nat \ {0} /\ Top \in Frame /\ Callee \in Func
  BY <1>1, TopType
<1>3. p \in SUBSET Func /\ new \in Frame
  BY <1>2 DEF Frame
<1>4. /\ Advanced \in Seq(Frame) /\ Len(Advanced) = n
      /\ Advanced[n] = [Top EXCEPT !.pos = @ + 1]
      /\ \A k \in 1 .. n - 1 : Advanced[k] = stack[k]
  BY <1>1, AdvancedType
<1>5. /\ [Advanced[n] EXCEPT !.path = p] \in Frame
      /\ [Advanced[n] EXCEPT !.path = p].id = Top.id
      /\ [Advanced[n] EXCEPT !.path = p].pos = Top.pos + 1
      /\ [Advanced[n] EXCEPT !.path = p].path = p
  <2>1. Top.id \in Func /\ Top.pos + 1 \in Nat \ {0}
    BY <1>2 DEF Frame
  <2>2. Advanced[n] = [id |-> Top.id, pos |-> Top.pos + 1, path |-> Top.path]
    BY <1>2, <1>4 DEF Frame
  <2>3. [Advanced[n] EXCEPT !.path = p] = [id |-> Top.id, pos |-> Top.pos + 1, path |-> p]
    <3>1. ASSUME NEW i, NEW q, NEW r, NEW s
          PROVE  [[id |-> i, pos |-> q, path |-> r] EXCEPT !.path = s]
                   = [id |-> i, pos |-> q, path |-> s]
      OBVIOUS
    <3> HIDE DEF p, n, Top
    <3>2. QED
      BY <2>2, <3>1
  <2> HIDE DEF p, n, Top
  <2>4. QED
    BY <1>3, <2>1, <2>3 DEF Frame
<1>6. a = [Advanced EXCEPT ![n] = [Advanced[n] EXCEPT !.path = p]]
  OBVIOUS
<1>7. n \in 1 .. Len(Advanced)
  BY <1>2, <1>4
<1>8. /\ a \in Seq(Frame) /\ Len(a) = n
      /\ \A k \in 1 .. n : a[k] = IF k = n THEN [Advanced[n] EXCEPT !.path = p]
                                           ELSE Advanced[k]
  <2> HIDE DEF a, p
  <2>1. QED
    BY <1>4, <1>5, <1>6, <1>7, ExceptSeq
<1>9. stack' = Append(a, new)
  BY DEF Descend
<1> HIDE DEF a, new, n, p
<1>10. /\ stack' \in Seq(Frame) /\ Len(stack') = n + 1
       /\ \A k \in 1 .. n : stack'[k] = a[k]
       /\ stack'[n + 1] = new
  BY <1>3, <1>8, <1>9, AppendProperties
<1>11. /\ \A k \in 1 .. n - 1 : stack'[k] = stack[k]
       /\ stack'[n].id = Top.id
       /\ stack'[n].pos = Top.pos + 1
       /\ stack'[n].path = p
  <2>1. \A k \in 1 .. n - 1 : k \in 1 .. n /\ k # n
    BY <1>2
  <2>2. n \in 1 .. n
    BY <1>2
  <2>3. \A k \in 1 .. n - 1 : stack'[k] = stack[k]
    BY <1>4, <1>8, <1>10, <2>1
  <2>4. stack'[n] = [Advanced[n] EXCEPT !.path = p]
    BY <1>8, <1>10, <2>2
  <2>5. QED
    BY <1>5, <2>3, <2>4
<1>12. QED
  BY <1>10, <1>11 DEF n, p, new

\* Every step keeps the variables in their types.
LEMMA NextTypeOK == TypeOK /\ [Next]_vars => TypeOK'
<1> SUFFICES ASSUME TypeOK, [Next]_vars PROVE TypeOK'
  OBVIOUS
<1>1. ASSUME NEW m \in 0 .. 2 * N - 1, FindFuncCall(m) PROVE TypeOK'
  <2>1. m % N \in Func
    BY NAssumption DEF Func
  <2>2. Append(tree[func], m % N) \in Seq(Func)
    BY <2>1, AppendProperties DEF TypeOK
  <2>3. tree' \in [Func -> Seq(Func)]
    BY <1>1, <2>2 DEF TypeOK, FindFuncCall
  <2>4. QED
    BY <1>1, <2>3 DEF TypeOK, FindFuncCall
<1>2. CASE NextFunction
  <2>1. func' \in Func
    BY <1>2, NAssumption DEF TypeOK, NextFunction, Func
  <2>2. QED
    BY <1>2, <2>1 DEF TypeOK, NextFunction
<1>3. CASE StartResolve
  <2>1. [id |-> func, pos |-> 1, path |-> {func}] \in Frame
    BY DEF TypeOK, Frame
  <2>2. stack' \in Seq(Frame)
    BY <1>3, <2>1 DEF StartResolve
  <2>3. QED
    BY <1>3, <2>2 DEF TypeOK, StartResolve
<1>4. CASE CutCall
  <2>1. Advanced \in Seq(Frame)
    BY <1>4, AdvancedType DEF CutCall, Busy
  <2>2. Top.id \in Func
    BY <1>4, TopType DEF CutCall, Busy, Frame
  <2>3. PICK i \in DOMAIN sanitized[Top.id] :
          sanitized' = [sanitized EXCEPT ![Top.id] = RemoveAt(@, i)]
    BY <1>4 DEF CutCall
  <2>4. RemoveAt(sanitized[Top.id], i) \in Seq(Func)
    BY <2>2, RemoveAtShifts, LenProperties DEF TypeOK
  <2>5. sanitized' \in [Func -> Seq(Func)]
    BY <2>2, <2>3, <2>4 DEF TypeOK
  <2>6. QED
    BY <1>4, <2>1, <2>5 DEF TypeOK, CutCall
<1>5. CASE RaiseOnRemove
  BY <1>5 DEF TypeOK, RaiseOnRemove
<1>6. CASE Descend
  <2>1. stack' \in Seq(Frame)
    BY <1>6, DescendStack
  <2>2. QED
    BY <1>6, <2>1 DEF TypeOK, Descend
<1>7. CASE ReturnResolve
  <2>1. stack' \in Seq(Frame)
    BY <1>7, FrontKeeps DEF TypeOK, ReturnResolve, Finished
  <2>2. func' \in Func /\ phase' \in {"resolve", "order"}
    BY <1>7, NAssumption, SMTT(60) DEF TypeOK, ReturnResolve, Func
  <2>3. tree' \in [Func -> Seq(Func)]
    BY <1>7 DEF TypeOK, ReturnResolve
  <2>4. QED
    BY <1>7, <2>1, <2>2, <2>3 DEF TypeOK, ReturnResolve
<1>8. CASE StartOrder
  <2>1. [id |-> func, pos |-> 1, path |-> {}] \in Frame
    BY DEF TypeOK, Frame
  <2>2. stack' \in Seq(Frame)
    BY <1>8, <2>1 DEF StartOrder
  <2>3. QED
    BY <1>8, <2>2 DEF TypeOK, StartOrder
<1>9. CASE VisitCallee
  <2>1. Advanced \in Seq(Frame) /\ Callee \in Func
    BY <1>9, AdvancedType, TopType DEF VisitCallee, Busy
  <2>2. stack' \in Seq(Frame)
    BY <1>9, <2>1, PushType DEF VisitCallee, Busy
  <2>3. QED
    BY <1>9, <2>2 DEF TypeOK, VisitCallee
<1>10. CASE ReturnOrder
  <2>1. stack' \in Seq(Frame) /\ (Len(stack) = 1 => stack' = <<>>)
    <3>1. stack' \in Seq(Frame) /\ Len(stack') = Len(stack) - 1
      BY <1>10, FrontKeeps DEF TypeOK, ReturnOrder, Finished
    <3>2. QED
      BY <3>1, EmptySeq
  <2>2. Len(stack) \in Nat \ {0} /\ Top.id \in Func
    BY <1>10, TopType DEF ReturnOrder, Finished, Frame
  <2>3. order' \in Seq(Func)
    BY <1>10, <2>2, AppendProperties DEF TypeOK, ReturnOrder
  <2>4. func' \in Func /\ phase' \in {"order", "done"}
    BY <1>10, NAssumption DEF TypeOK, ReturnOrder, Func
  <2>5. phase' = "done" => stack' = <<>>
    <3>1. phase' = "done" => ~ (Len(stack) > 1)
      BY <1>10 DEF ReturnOrder
    <3>2. ~ (Len(stack) > 1) => Len(stack) = 1
      <4>1. \A n \in Nat \ {0} : ~ (n > 1) => n = 1
        OBVIOUS
      <4>2. QED
        BY <2>2, <4>1
    <3>3. QED
      BY <2>1, <3>1, <3>2
  <2>6. QED
    BY <1>10, <2>1, <2>3, <2>4, <2>5 DEF TypeOK, ReturnOrder
<1>11. CASE UNCHANGED vars
  BY <1>11 DEF TypeOK, vars
<1>12. QED
  BY <1>1, <1>2, <1>3, <1>4, <1>5, <1>6, <1>7, <1>8, <1>9, <1>10, <1>11
     DEF Next, Resolve, Order

\* Every reachable state is well typed.
THEOREM TypeCorrect == Spec => []TypeOK
<1>1. Init => TypeOK
  BY InitTypeOK
<1>2. TypeOK /\ [Next]_vars => TypeOK'
  BY NextTypeOK
<1>3. QED
  BY <1>1, <1>2, PTL DEF Spec

(***************************************************************************)
(* No cycles.                                                              *)
(***************************************************************************)

\* The result of CutCall: one call less in the copy.
LEMMA CutDrops ==
  ASSUME TypeOK, OnlyCuts, CutCall
  PROVE  /\ Top.id \in Func
         /\ \A f \in Func : IsInjective(sanitized'[f])
         /\ \A f \in Func \ {Top.id} : sanitized'[f] = sanitized[f]
         /\ Range(sanitized'[Top.id]) = Range(sanitized[Top.id]) \ {Callee}
<1>1. Top.id \in Func
  BY TopType DEF CutCall, Busy, Frame
<1>2. PICK i \in DOMAIN sanitized[Top.id] :
        /\ sanitized[Top.id][i] = Callee
        /\ sanitized' = [sanitized EXCEPT ![Top.id] = RemoveAt(@, i)]
  BY DEF CutCall
<1>3. sanitized[Top.id] \in Seq(Func) /\ IsInjective(sanitized[Top.id])
  BY <1>1 DEF TypeOK, OnlyCuts
<1>4. i \in 1 .. Len(sanitized[Top.id])
  BY <1>2, <1>3, LenProperties
<1>5. /\ IsInjective(RemoveAt(sanitized[Top.id], i))
      /\ Range(RemoveAt(sanitized[Top.id], i)) = Range(sanitized[Top.id]) \ {Callee}
  BY <1>2, <1>3, <1>4, RemoveAtDrops
<1>6. /\ sanitized'[Top.id] = RemoveAt(sanitized[Top.id], i)
      /\ \A f \in Func \ {Top.id} : sanitized'[f] = sanitized[f]
  BY <1>1, <1>2 DEF TypeOK
<1>7. QED
  BY <1>1, <1>5, <1>6 DEF OnlyCuts

\* The lists stay free of repetitions, and the copy only loses calls.
LEMMA NextOnlyCuts ==
  ASSUME TypeOK, OnlyCuts, [Next]_vars
  PROVE  OnlyCuts'
<1>1. ASSUME NEW m \in 0 .. 2 * N - 1, FindFuncCall(m) PROVE OnlyCuts'
  <2>1. m % N \in Func /\ m % N \notin Range(tree[func])
    BY <1>1, NAssumption DEF Func, FindFuncCall
  <2>2. IsInjective(Append(tree[func], m % N))
    BY <2>1, AppendAdds DEF TypeOK, OnlyCuts
  <2>3. \A f \in Func : IsInjective(tree'[f])
    BY <1>1, <2>2 DEF TypeOK, OnlyCuts, FindFuncCall
  <2>4. QED
    BY <1>1, <2>3 DEF OnlyCuts, FindFuncCall
<1>2. CASE NextFunction
  BY <1>2 DEF OnlyCuts, NextFunction
<1>3. CASE CutCall
  <2>1. \A f \in Func : Range(sanitized'[f]) \subseteq Range(sanitized[f])
    BY <1>3, CutDrops
  <2>2. QED
    BY <1>3, <2>1, CutDrops DEF OnlyCuts, CutCall
<1>4. CASE ReturnResolve
  BY <1>4 DEF OnlyCuts, ReturnResolve
<1>5. CASE UNCHANGED <<tree, sanitized>> /\ (phase' = "resolve" => phase = "resolve")
  BY <1>5 DEF OnlyCuts
<1>6. QED
  BY <1>1, <1>2, <1>3, <1>4, <1>5
     DEF Next, Resolve, Order, StartResolve, RaiseOnRemove, Descend, StartOrder,
         VisitCallee, ReturnOrder, vars

\* A witness for a call tree is one for every tree with fewer calls.
LEMMA FewerCalls ==
  ASSUME NEW t, NEW u, NEW f \in Func, NEW C \in SUBSET Func,
         \A x \in Func : Range(u[x]) \subseteq Range(t[x]),
         HoldsCallees(t, f, C)
  PROVE  HoldsCallees(u, f, C)
  BY DEF HoldsCallees

\* When the search from func is over, func does not reach itself in the copy.
LEMMA SearchEnds ==
  ASSUME TypeOK, SearchIsClosed, ReturnResolve, ~ (Len(stack) > 1)
  PROVE  \E C \in SUBSET Func : func \notin C /\ HoldsCallees(sanitized, func, C)
<1>1. Finished /\ stack # <<>> /\ phase = "resolve"
  BY DEF ReturnResolve, Finished
<1>2. Len(stack) = 1 /\ Top \in Frame /\ Top = stack[1]
  <2>1. Len(stack) \in Nat \ {0} /\ Top \in Frame
    BY <1>1, TopType
  <2>2. \A n \in Nat \ {0} : ~ (n > 1) => n = 1
    OBVIOUS
  <2>3. QED
    BY <2>1, <2>2 DEF Top
<1>3. PICK V \in SUBSET Func :
        /\ func \in V
        /\ \A x \in V : \A y \in Range(sanitized[x]) :
             y \in V \ {func} \/ Pending(x, y)
  BY <1>1 DEF SearchIsClosed
<1>4. \A x \in V : \A y : ~ Pending(x, y)
  <2> SUFFICES ASSUME NEW x \in V, NEW y, Pending(x, y) PROVE FALSE
    OBVIOUS
  <2>1. PICK k \in 1 .. Len(stack) :
          /\ stack[k].id = x
          /\ \E q \in stack[k].pos .. Len(tree[x]) : tree[x][q] = y
    BY DEF Pending
  <2>2. k = 1
    BY <1>2
  <2>3. PICK q \in stack[1].pos .. Len(tree[stack[1].id]) : TRUE
    BY <2>1, <2>2
  <2>4. Top.pos > Len(tree[Top.id])
    BY <1>1 DEF Finished
  <2>5. Top.pos \in Nat /\ Len(tree[Top.id]) \in Nat
    BY <1>2, LenProperties DEF TypeOK, Frame
  <2>6. QED
    BY <1>2, <2>3, <2>4, <2>5
<1>5. HoldsCallees(sanitized, func, V \ {func})
  BY <1>3, <1>4 DEF HoldsCallees
<1>6. QED
  BY <1>3, <1>5

\* The functions searched so far stay clean, and the search adds its own.
LEMMA NextSearchedAreClean ==
  ASSUME TypeOK, OnlyCuts, SearchedAreClean, SearchIsClosed, [Next]_vars
  PROVE  SearchedAreClean'
<1>1. CASE ReturnResolve /\ ~ (Len(stack) > 1)
  <2>1. tree' = sanitized /\ phase = "resolve"
    BY <1>1 DEF ReturnResolve
  <2>2. Searched = 0 .. func - 1 /\ Searched' = 0 .. func
    <3>1. func \in Func /\ Searched = 0 .. func - 1
      BY <2>1 DEF TypeOK, Searched
    <3>2. CASE func + 1 < N
      <4>1. func' = func + 1 /\ phase' = "resolve"
        BY <1>1, <2>1, <3>2 DEF ReturnResolve
      <4>2. (func + 1) - 1 = func
        BY <3>1 DEF Func
      <4>3. QED
        BY <3>1, <4>1, <4>2 DEF Searched
    <3>3. CASE ~ (func + 1 < N)
      <4>1. phase' = "order"
        BY <1>1, <3>3 DEF ReturnResolve
      <4>2. Func = 0 .. func
        BY <3>1, <3>3, NAssumption DEF Func
      <4>3. QED
        BY <3>1, <4>1, <4>2 DEF Searched
    <3>4. QED
      BY <3>2, <3>3
  <2>3. ASSUME NEW f \in 0 .. func - 1
        PROVE  \E C \in SUBSET Func : f \notin C /\ HoldsCallees(sanitized, f, C)
    <3>1. PICK C \in SUBSET Func : f \notin C /\ HoldsCallees(tree, f, C)
      BY <2>2 DEF SearchedAreClean
    <3>2. f \in Func
      BY NAssumption DEF TypeOK, Func
    <3>3. \A x \in Func : Range(sanitized[x]) \subseteq Range(tree[x])
      BY <2>1 DEF OnlyCuts
    <3>4. HoldsCallees(sanitized, f, C)
      BY <3>1, <3>2, <3>3, FewerCalls
    <3>5. QED
      BY <3>1, <3>4
  <2>4. \E C \in SUBSET Func : func \notin C /\ HoldsCallees(sanitized, func, C)
    BY <1>1, SearchEnds
  <2>5. \A f \in 0 .. func : f \in 0 .. func - 1 \/ f = func
    BY DEF TypeOK, Func
  <2>6. \A f \in 0 .. func :
          \E C \in SUBSET Func : f \notin C /\ HoldsCallees(sanitized, f, C)
    BY <2>3, <2>4, <2>5
  <2>7. QED
    BY <2>1, <2>2, <2>6 DEF SearchedAreClean, HoldsCallees
<1>2. CASE Searched' = {}
  BY <1>2 DEF SearchedAreClean
<1>3. CASE tree' = tree /\ Searched' = Searched
  BY <1>3 DEF SearchedAreClean, HoldsCallees
<1>4. QED
  <2>1. ASSUME NEW m \in 0 .. 2 * N - 1, FindFuncCall(m) PROVE Searched' = {}
    BY <2>1 DEF FindFuncCall, Searched
  <2>2. NextFunction => Searched' = {}
    BY DEF NextFunction, Searched
  <2>3. RaiseOnRemove => Searched' = {}
    BY DEF RaiseOnRemove, Searched
  <2>4. CASE \/ StartResolve \/ CutCall \/ Descend \/ StartOrder \/ VisitCallee
             \/ ReturnOrder \/ UNCHANGED vars \/ (ReturnResolve /\ Len(stack) > 1)
    BY <1>3, <2>4
       DEF Searched, StartResolve, CutCall, Descend, StartOrder, VisitCallee,
           ReturnOrder, ReturnResolve, vars
  <2>5. QED
    BY <1>1, <1>2, <2>1, <2>2, <2>3, <2>4 DEF Next, Resolve, Order

\* The search stays closed: a call examined is cut, or leads to a visited function
\* other than func.
LEMMA NextSearchIsClosed ==
  ASSUME TypeOK, OnlyCuts, SearchIsClosed, [Next]_vars
  PROVE  SearchIsClosed'
<1>1. CASE StartResolve
  <2>1. /\ Len(stack') = 1 /\ stack'[1] = [id |-> func, pos |-> 1, path |-> {func}]
        /\ UNCHANGED <<phase, func, tree, sanitized>> /\ phase = "resolve"
    BY <1>1 DEF StartResolve
  <2>2. {func} \in SUBSET Func
    BY DEF TypeOK
  <2>3. ASSUME NEW y \in Range(sanitized[func]) PROVE Pending(func, y)'
    <3>1. y \in Range(tree[func])
      BY <2>1, <2>2 DEF OnlyCuts
    <3>2. PICK q \in 1 .. Len(tree[func]) : tree[func][q] = y
      BY <2>2, <3>1, LenProperties DEF TypeOK, Range
    <3>3. QED
      BY <2>1, <3>2 DEF Pending
  <2>4. \A x \in {func} : \A y \in Range(sanitized'[x]) :
           y \in {func} \ {func'} \/ Pending(x, y)'
    BY <2>1, <2>3
  <2>5. \A k \in 1 .. Len(stack') : func' \in stack'[k].path /\ stack'[k].id \in {func}
    BY <2>1
  <2>6. QED
    BY <2>1, <2>2, <2>4, <2>5 DEF SearchIsClosed
<1>2. CASE CutCall
  <2> DEFINE n == Len(stack)
  <2>1. /\ stack # <<>> /\ phase = "resolve" /\ stack' = Advanced
        /\ UNCHANGED <<phase, func, tree>>
    BY <1>2 DEF CutCall, Busy
  <2>2. n \in Nat \ {0} /\ Top \in Frame /\ Top = stack[n]
    BY <2>1, TopType DEF Top
  <2>3. /\ Len(stack') = n
        /\ \A k \in 1 .. n - 1 : stack'[k] = stack[k]
        /\ stack'[n].id = Top.id /\ stack'[n].pos = Top.pos + 1
        /\ stack'[n].path = Top.path
    BY <2>1, <2>2, AdvancedType DEF Frame
  <2>4. PICK V \in SUBSET Func :
          /\ func \in V
          /\ \A k \in 1 .. n : stack[k].id \in V
          /\ \A x \in V : \A y \in Range(sanitized[x]) :
               y \in V \ {func} \/ Pending(x, y)
    BY <2>1 DEF SearchIsClosed
  <2>5. \A k \in 1 .. n : stack'[k].id = stack[k].id /\ stack'[k].path = stack[k].path
    BY <2>2, <2>3
  <2>6. ASSUME NEW x \in V, NEW y \in Range(sanitized'[x]), y \notin V \ {func}
        PROVE  Pending(x, y)'
    <3>1. y \in Range(sanitized[x]) /\ (x = Top.id => y # Callee)
      BY <1>2, <2>4, CutDrops
    <3>2. PICK k \in 1 .. n : /\ stack[k].id = x
                              /\ \E q \in stack[k].pos .. Len(tree[x]) : tree[x][q] = y
      BY <2>4, <2>6, <3>1 DEF Pending
    <3>3. PICK q \in stack[k].pos .. Len(tree[x]) : tree[x][q] = y
      BY <3>2
    <3>4. q \in stack'[k].pos .. Len(tree[x])
      <4>1. CASE k # n
        BY <2>2, <2>3, <4>1
      <4>2. CASE k = n
        <5>1. q # Top.pos
          BY <2>2, <3>1, <3>2, <3>3, <4>2 DEF Callee
        <5>2. Top.pos \in Nat /\ Len(tree[x]) \in Nat
          BY <2>2, LenProperties DEF TypeOK, Frame
        <5>3. QED
          BY <2>2, <2>3, <4>2, <5>1, <5>2
      <4>3. QED
        BY <4>1, <4>2
    <3>5. QED
      BY <2>1, <2>3, <2>5, <3>2, <3>3, <3>4 DEF Pending
  <2>7. QED
    BY <2>1, <2>3, <2>4, <2>5, <2>6 DEF SearchIsClosed
<1>3. CASE Descend
  <2> DEFINE n == Len(stack)
  <2>0. PICK c \in Func : c = Callee
    BY <1>3, TopType DEF Descend, Busy
  <2>1. /\ stack # <<>> /\ phase = "resolve" /\ Busy /\ c \notin Top.path
        /\ UNCHANGED <<phase, func, tree, sanitized>>
    BY <1>3, <2>0 DEF Descend, Busy
  <2>2. n \in Nat \ {0} /\ Top \in Frame /\ Top = stack[n] /\ c \in Func
    BY <2>1, TopType DEF Top
  <2>3. /\ Len(stack') = n + 1
        /\ \A k \in 1 .. n - 1 : stack'[k] = stack[k]
        /\ stack'[n].id = Top.id /\ stack'[n].pos = Top.pos + 1
        /\ stack'[n].path = Top.path \cup {c}
        /\ stack'[n + 1] = [id |-> c, pos |-> 1, path |-> Top.path \cup {c}]
    BY <1>3, <2>0, DescendStack
  <2>4. /\ \A k \in 1 .. n : func \in stack[k].path
        /\ \E V \in SUBSET Func :
             /\ func \in V
             /\ \A k \in 1 .. n : stack[k].id \in V
             /\ \A x \in V : \A y \in Range(sanitized[x]) :
                  y \in V \ {func} \/ Pending(x, y)
    BY <2>1 DEF SearchIsClosed
  <2>5. PICK V \in SUBSET Func :
          /\ func \in V
          /\ \A k \in 1 .. n : stack[k].id \in V
          /\ \A x \in V : \A y \in Range(sanitized[x]) :
               y \in V \ {func} \/ Pending(x, y)
    BY <2>4
  <2> HIDE DEF n
  <2>6. \A k \in 1 .. n + 1 : k \in 1 .. n - 1 \/ k = n \/ k = n + 1
    BY <2>2
  <2>7. n \in 1 .. n /\ \A k \in 1 .. n - 1 : k \in 1 .. n
    BY <2>2
  <2>8. \A k \in 1 .. n + 1 : func \in stack'[k].path /\ stack'[k].id \in V \cup {c}
    BY <2>2, <2>3, <2>4, <2>5, <2>6, <2>7
  <2>9. c # func
    BY <2>1, <2>2, <2>4, <2>7
  <2>10. ASSUME NEW x \in V, NEW y \in Range(sanitized[x]), y \notin (V \cup {c}) \ {func}
         PROVE  Pending(x, y)'
    <3>1. Pending(x, y) /\ y # c
      BY <2>5, <2>9, <2>10
    <3>2. PICK k \in 1 .. n : /\ stack[k].id = x
                              /\ \E q \in stack[k].pos .. Len(tree[x]) : tree[x][q] = y
      BY <3>1 DEF Pending, n
    <3>3. PICK q \in stack[k].pos .. Len(tree[x]) : tree[x][q] = y
      BY <3>2
    <3>4. q \in stack'[k].pos .. Len(tree[x]) /\ stack'[k].id = x
      <4>1. CASE k # n
        BY <2>2, <2>3, <3>2, <4>1
      <4>2. CASE k = n
        <5>1. q # Top.pos
          BY <2>2, <3>1, <3>2, <3>3, <4>2, <2>0 DEF Callee
        <5>2. Top.pos \in Nat /\ Len(tree[x]) \in Nat
          BY <2>2, LenProperties DEF TypeOK, Frame
        <5>3. QED
          BY <2>2, <2>3, <3>2, <4>2, <5>1, <5>2
      <4>3. QED
        BY <4>1, <4>2
    <3>5. k \in 1 .. Len(stack')
      BY <2>2, <2>3
    <3>6. QED
      BY <2>1, <3>3, <3>4, <3>5 DEF Pending
  <2>11. ASSUME NEW y \in Range(sanitized[c]) PROVE Pending(c, y)'
    <3>1. PICK q \in 1 .. Len(tree[c]) : tree[c][q] = y
      <4>1. y \in Range(tree[c])
        BY <2>1, <2>2 DEF OnlyCuts
      <4>2. DOMAIN tree[c] = 1 .. Len(tree[c])
        BY <2>2, LenProperties DEF TypeOK
      <4>3. QED
        BY <4>1, <4>2 DEF Range
    <3>2. stack'[n + 1].id = c /\ stack'[n + 1].pos = 1 /\ n + 1 \in 1 .. Len(stack')
      BY <2>2, <2>3
    <3>3. QED
      BY <2>1, <3>1, <3>2 DEF Pending
  <2>12. \A x \in V \cup {c} : \A y \in Range(sanitized'[x]) :
            y \in (V \cup {c}) \ {func'} \/ Pending(x, y)'
    BY <2>1, <2>10, <2>11
  <2>13. func' \in V \cup {c} /\ V \cup {c} \in SUBSET Func
    BY <2>1, <2>2, <2>5
  <2>14. QED
    BY <2>1, <2>3, <2>8, <2>12, <2>13 DEF SearchIsClosed
<1>4. CASE ReturnResolve
  <2> DEFINE n == Len(stack)
  <2>1. /\ stack # <<>> /\ phase = "resolve" /\ Finished /\ stack' = Front(stack)
        /\ sanitized' = sanitized
    BY <1>4 DEF ReturnResolve, Finished
  <2>2. n \in Nat \ {0} /\ Top \in Frame /\ Top = stack[n]
    BY <2>1, TopType DEF Top
  <2>3. /\ stack' \in Seq(Frame) /\ Len(stack') = n - 1
        /\ \A k \in 1 .. n - 1 : stack'[k] = stack[k]
    BY <2>1, FrontKeeps DEF TypeOK
  <2>4. CASE ~ (n > 1)
    <3>1. n - 1 = 0
      <4>1. \A m \in Nat \ {0} : ~ (m > 1) => m - 1 = 0
        OBVIOUS
      <4>2. QED
        BY <2>2, <2>4, <4>1
    <3>2. stack' = <<>>
      BY <2>3, <3>1, EmptySeq
    <3>3. QED
      BY <3>2 DEF SearchIsClosed
  <2>5. CASE n > 1
    <3>1. UNCHANGED <<phase, func, tree>>
      BY <1>4, <2>5 DEF ReturnResolve
    <3>2. PICK V \in SUBSET Func :
            /\ func \in V
            /\ \A k \in 1 .. n : stack[k].id \in V
            /\ \A x \in V : \A y \in Range(sanitized[x]) :
                 y \in V \ {func} \/ Pending(x, y)
      BY <2>1 DEF SearchIsClosed
    <3>3. \A k \in 1 .. n - 1 : k \in 1 .. n
      BY <2>2
    <3>4. ASSUME NEW x \in V, NEW y, Pending(x, y) PROVE Pending(x, y)'
      <4>1. PICK k \in 1 .. n : /\ stack[k].id = x
                                /\ \E q \in stack[k].pos .. Len(tree[x]) : tree[x][q] = y
        BY <3>4 DEF Pending
      <4>2. k # n
        <5>1. Top.pos > Len(tree[Top.id])
          BY <2>1 DEF Finished
        <5>2. Top.pos \in Nat /\ Len(tree[Top.id]) \in Nat
          BY <2>2, LenProperties DEF TypeOK, Frame
        <5>3. QED
          BY <2>2, <4>1, <5>1, <5>2
      <4>3. k \in 1 .. n - 1
        BY <2>2, <4>2
      <4>4. QED
        BY <2>3, <3>1, <4>1, <4>3 DEF Pending
    <3>5. \A k \in 1 .. Len(stack') : func \in stack'[k].path /\ stack'[k].id \in V
      BY <2>1, <2>3, <3>2, <3>3 DEF SearchIsClosed
    <3>6. QED
      BY <2>1, <3>1, <3>2, <3>4, <3>5 DEF SearchIsClosed
  <2>6. QED
    BY <2>4, <2>5
<1>5. CASE phase' # "resolve" \/ stack' = <<>>
  BY <1>5 DEF SearchIsClosed
<1>6. CASE UNCHANGED vars
  BY <1>6 DEF SearchIsClosed, Pending, vars
<1>7. QED
  <2>1. NextFunction => stack' = <<>>
    BY DEF NextFunction, TypeOK
  <2>2. \A m \in 0 .. 2 * N - 1 : FindFuncCall(m) => phase' # "resolve"
    BY DEF FindFuncCall
  <2>3. RaiseOnRemove \/ Order => phase' # "resolve"
    BY DEF RaiseOnRemove, Order, StartOrder, VisitCallee, ReturnOrder
  <2>4. QED
    BY <1>1, <1>2, <1>3, <1>4, <1>5, <1>6, <2>1, <2>2, <2>3 DEF Next, Resolve

(***************************************************************************)
(* The order.                                                              *)
(***************************************************************************)

\* What holds of the order and the active calls while they are being placed.
LEMMA VisitKeepsOrder ==
  ASSUME TypeOK, OrderSoFar, VisitCallee
  PROVE  OrderSoFar'
<1>0. PICK c \in Func : c = Callee
  BY TopType DEF VisitCallee, Busy
<1>00. PICK n \in Nat \ {0} : n = Len(stack)
  BY TopType DEF VisitCallee, Busy
<1>1. /\ stack # <<>> /\ phase = "order" /\ Busy
      /\ UNCHANGED <<phase, func, tree, order>>
      /\ stack' = Append(Advanced, [id |-> c, pos |-> 1, path |-> {}])
  BY <1>0 DEF VisitCallee, Busy
<1>2. /\ n \in Nat \ {0} /\ Top \in Frame /\ Top = stack[n]
      /\ Top.pos \in 1 .. Len(tree[Top.id])
  BY <1>1, <1>00, TopType DEF Top
<1>3. /\ Advanced \in Seq(Frame) /\ Len(Advanced) = n
      /\ Advanced[n].id = Top.id /\ Advanced[n].pos = Top.pos + 1
      /\ \A k \in 1 .. n - 1 : Advanced[k] = stack[k]
  BY <1>1, <1>2, <1>00, AdvancedType DEF Frame
<1>4. [id |-> c, pos |-> 1, path |-> {}] \in Frame
  BY DEF Frame
<1>5. /\ Len(stack') = n + 1
      /\ \A k \in 1 .. n : stack'[k] = Advanced[k]
      /\ stack'[n + 1] = [id |-> c, pos |-> 1, path |-> {}]
  BY <1>1, <1>3, <1>4, AppendProperties
<1>6. \A k \in 1 .. n + 1 : k \in 1 .. n - 1 \/ k = n \/ k = n + 1
  BY <1>2
<1>7. n \in 1 .. n /\ \A k \in 1 .. n - 1 : k \in 1 .. n /\ k + 1 \in 1 .. n /\ k < n
  BY <1>2
<1>8. /\ \A k \in 1 .. n : stack'[k].id = stack[k].id
      /\ \A k \in 1 .. n - 1 : stack'[k].pos = stack[k].pos
      /\ stack'[n].pos = stack[n].pos + 1
      /\ stack'[n + 1].id = c /\ stack'[n + 1].pos = 1
  BY <1>2, <1>3, <1>5, <1>6, <1>7
<1>9. \A k \in 1 .. n : \A q \in 1 .. stack[k].pos - 1 :
        q <= Len(tree[stack[k].id]) /\ Passed(k, q)
  BY <1>1, <1>00 DEF OrderSoFar
<1>10. ASSUME NEW k \in 1 .. n - 1, NEW q \in 1 .. stack'[k].pos - 1
       PROVE  q <= Len(tree'[stack'[k].id]) /\ Passed(k, q)'
  <2>0. /\ k \in 1 .. n /\ k + 1 \in 1 .. n /\ k < n + 1
        /\ q \in 1 .. stack[k].pos - 1
    BY <1>2, <1>7, <1>8, <1>10
  <2>1. q <= Len(tree[stack[k].id]) /\ Passed(k, q) /\ k + 1 \in 1 .. n /\ k < n + 1
    BY <1>9, <2>0
  <2>2. QED
    BY <1>1, <1>5, <1>7, <1>8, <2>1 DEF Passed
<1>11. ASSUME NEW q \in 1 .. stack'[n].pos - 1
       PROVE  q <= Len(tree'[stack'[n].id]) /\ Passed(n, q)'
  <2>1. stack'[n].id = Top.id /\ stack'[n].pos - 1 = Top.pos /\ stack[n].pos = Top.pos
    BY <1>2, <1>7, <1>8
  <2>2. CASE q = Top.pos
    <3>1. tree[Top.id][q] = c /\ q = stack'[n].pos - 1 /\ n < n + 1
      BY <1>0, <1>2, <2>1, <2>2 DEF Callee
    <3>2. QED
      BY <1>1, <1>2, <1>5, <1>8, <2>1, <2>2, <3>1 DEF Passed
  <2>3. CASE q # Top.pos
    <3>1. q \in 1 .. stack[n].pos - 1
      BY <1>2, <2>1, <2>3
    <3>2. q <= Len(tree[stack[n].id]) /\ Passed(n, q)
      BY <1>7, <1>9, <3>1
    <3>3. tree[stack[n].id][q] \in Range(order)
      BY <1>2, <1>00, <3>2 DEF Passed
    <3>4. QED
      BY <1>1, <1>7, <1>8, <3>2, <3>3 DEF Passed
  <2>4. QED
    BY <2>2, <2>3
<1>12. \A q \in 1 .. stack'[n + 1].pos - 1 : FALSE
  BY <1>8
<1>13. \A k \in 1 .. Len(stack') : \A q \in 1 .. stack'[k].pos - 1 :
         q <= Len(tree'[stack'[k].id]) /\ Passed(k, q)'
  BY <1>5, <1>6, <1>10, <1>11, <1>12
<1>14. stack'[1].id = func'
  <2>1. stack[1].id = func /\ 1 \in 1 .. n
    BY <1>1, <1>2 DEF OrderSoFar
  <2>2. QED
    BY <1>1, <1>8, <2>1
<1>15. QED
  BY <1>1, <1>13, <1>14 DEF OrderSoFar, Placed

\* A call that returns has placed its callees, then itself.
LEMMA ReturnKeepsOrder ==
  ASSUME TypeOK, OrderSoFar, ReturnOrder
  PROVE  OrderSoFar'
<1> DEFINE n == Len(stack)
           m == Len(order)
<1>0. PICK x \in Func : x = Top.id
  BY TopType DEF ReturnOrder, Finished, Frame
<1>1. /\ stack # <<>> /\ phase = "order" /\ Finished /\ UNCHANGED tree
      /\ stack' = Front(stack)
      /\ order' = IF x \in Range(order) THEN order ELSE Append(order, x)
  BY <1>0 DEF ReturnOrder, Finished
<1>2. n \in Nat \ {0} /\ Top \in Frame /\ Top = stack[n] /\ n \in 1 .. n
  BY <1>1, TopType DEF Top
<1>3. /\ stack' \in Seq(Frame) /\ Len(stack') = n - 1
      /\ \A k \in 1 .. n - 1 : stack'[k] = stack[k]
  BY <1>1, FrontKeeps DEF TypeOK
<1>4. /\ m \in Nat /\ DOMAIN order = 1 .. m
      /\ Append(order, x) \in Seq(Func) /\ Len(Append(order, x)) = m + 1
      /\ DOMAIN Append(order, x) = 1 .. m + 1
      /\ \A i \in 1 .. m : Append(order, x)[i] = order[i]
      /\ Append(order, x)[m + 1] = x
      /\ Range(Append(order, x)) = Range(order) \cup {x}
      /\ x \notin Range(order) => IsInjective(Append(order, x))
  BY <1>0, AppendAdds, LenProperties DEF TypeOK, OrderSoFar
<1>5. /\ \A k \in 1 .. n : \A q \in 1 .. stack[k].pos - 1 :
           q <= Len(tree[stack[k].id]) /\ Passed(k, q)
      /\ \A i \in 1 .. m : Placed(i)
      /\ IsInjective(order) /\ stack[1].id = func
      /\ \A f \in 0 .. func - 1 : f \in Range(order)
  BY <1>1, <1>4 DEF OrderSoFar
<1>6. x \in Range(order') /\ Range(order) \subseteq Range(order')
      /\ Range(order') \subseteq Func /\ IsInjective(order')
  <2>1. Range(order) \subseteq Func
    BY RangeOfSeq DEF TypeOK
  <2>2. QED
    BY <1>1, <1>4, <1>5, <2>1
<1>7. ASSUME NEW g \in Range(tree[x]) PROVE \E j \in 1 .. m : order[j] = g
  <2>1. tree[x] \in Seq(Func) /\ Len(tree[x]) \in Nat /\ DOMAIN tree[x] = 1 .. Len(tree[x])
    BY LenProperties DEF TypeOK
  <2>2. PICK q \in 1 .. Len(tree[x]) : tree[x][q] = g
    BY <2>1 DEF Range
  <2>3. q \in 1 .. stack[n].pos - 1
    BY <1>0, <1>1, <1>2, <2>1 DEF Finished, Frame
  <2>4. Passed(n, q)
    BY <1>2, <1>5, <2>3
  <2>5. g \in Range(order)
    BY <1>0, <1>2, <2>2, <2>4 DEF Passed
  <2>6. QED
    BY <1>4, <2>5 DEF Range
<1> HIDE DEF n, m
<1>8. \A i \in DOMAIN order' : \A g \in Range(tree[order'[i]]) :
         \E j \in 1 .. i - 1 : order'[j] = g
  <2>1. CASE x \in Range(order)
    <3>1. order' = order /\ tree' = tree
      BY <1>1, <2>1
    <3>2. \A i \in DOMAIN order : Placed(i)
      BY <1>4, <1>5
    <3>3. QED
      BY <3>1, <3>2 DEF Placed
  <2>2. CASE x \notin Range(order)
    <3> SUFFICES ASSUME NEW i \in 1 .. m + 1, NEW g \in Range(tree[order'[i]])
                 PROVE  \E j \in 1 .. i - 1 : order'[j] = g
      BY <1>1, <1>4, <2>2
    <3>1. order' = Append(order, x)
      BY <1>1, <2>2
    <3>2. CASE i = m + 1
      <4>1. PICK j \in 1 .. m : order[j] = g
        BY <1>4, <1>7, <3>1, <3>2
      <4>2. j \in 1 .. i - 1 /\ order'[j] = g
        BY <1>4, <3>1, <3>2, <4>1
      <4>3. QED
        BY <4>2
    <3>3. CASE i # m + 1
      <4>1. i \in 1 .. m
        BY <1>4, <3>3
      <4>2. PICK j \in 1 .. i - 1 : order[j] = g
        BY <1>4, <1>5, <3>1, <4>1 DEF Placed
      <4>3. j \in 1 .. m
        BY <1>4, <4>1
      <4>4. QED
        BY <1>4, <3>1, <4>2, <4>3
    <3>4. QED
      BY <3>2, <3>3
  <2>3. QED
    BY <2>1, <2>2
<1>9. \A k \in 1 .. n - 1 : \A q \in 1 .. stack'[k].pos - 1 :
         q <= Len(tree'[stack'[k].id]) /\ Passed(k, q)'
  <2> SUFFICES ASSUME NEW k \in 1 .. n - 1, NEW q \in 1 .. stack[k].pos - 1
               PROVE  q <= Len(tree[stack[k].id]) /\ Passed(k, q)'
    BY <1>1, <1>3
  <2>1. k \in 1 .. n /\ k + 1 \in 1 .. n
    BY <1>2
  <2>2. q <= Len(tree[stack[k].id]) /\ Passed(k, q)
    BY <1>5, <2>1
  <2>3. CASE tree[stack[k].id][q] \in Range(order)
    BY <1>1, <1>3, <1>6, <2>2, <2>3 DEF Passed
  <2>4. CASE q = stack[k].pos - 1 /\ stack[k + 1].id = tree[stack[k].id][q]
    <3>1. CASE k + 1 = n
      <4>1. tree[stack[k].id][q] = x
        BY <1>0, <1>2, <2>4, <3>1
      <4>2. QED
        BY <1>1, <1>3, <1>6, <2>2, <4>1 DEF Passed
    <3>2. CASE k + 1 # n
      <4>1. k + 1 \in 1 .. n - 1 /\ k < n - 1
        BY <1>2, <3>2
      <4>2. QED
        BY <1>1, <1>3, <2>2, <2>4, <4>1 DEF Passed
    <3>3. QED
      BY <3>1, <3>2
  <2>5. QED
    BY <2>2, <2>3, <2>4 DEF Passed
<1>10. CASE n > 1
  <2>1. UNCHANGED <<phase, func>>
    BY <1>1, <1>10 DEF ReturnOrder, n
  <2>2. 1 \in 1 .. n - 1
    BY <1>2, <1>10
  <2>3. stack'[1].id = func'
    BY <1>3, <1>5, <2>1, <2>2
  <2>4. QED
    BY <1>1, <1>3, <1>5, <1>6, <1>8, <1>9, <2>1, <2>3 DEF OrderSoFar, Placed
<1>11. CASE ~ (n > 1)
  <2>1. n = 1
    <3>1. \A k \in Nat \ {0} : ~ (k > 1) => k = 1
      OBVIOUS
    <3>2. QED
      BY <1>2, <1>11, <3>1
  <2>2. stack' = <<>> /\ x = func
    BY <1>0, <1>2, <1>3, <1>5, <2>1, EmptySeq
  <2>3. func \in Func /\ \A f \in 0 .. func : f \in 0 .. func - 1 \/ f = func
    BY DEF TypeOK, Func
  <2>4. \A f \in 0 .. func : f \in Range(order')
    BY <1>5, <1>6, <2>2, <2>3
  <2>5. \A k \in 1 .. Len(stack') : FALSE
    BY <2>2
  <2>6. CASE func + 1 < N
    <3>1. func' = func + 1 /\ phase' = "order"
      BY <1>1, <1>11, <2>6 DEF ReturnOrder, n
    <3>2. func' - 1 = func
      BY <2>3, <3>1 DEF Func
    <3>3. QED
      BY <1>1, <1>6, <1>8, <2>2, <2>4, <2>5, <3>1, <3>2 DEF OrderSoFar, Placed
  <2>7. CASE ~ (func + 1 < N)
    <3>1. phase' = "done"
      BY <1>1, <1>11, <2>7 DEF ReturnOrder, n
    <3>2. Func = 0 .. func
      BY <2>3, <2>7, NAssumption DEF Func
    <3>3. Range(order') = Func
      BY <1>6, <2>4, <3>2
    <3>4. QED
      BY <1>1, <1>6, <1>8, <3>1, <3>3 DEF OrderSoFar, Placed
  <2>8. QED
    BY <2>6, <2>7
<1>12. QED
  BY <1>10, <1>11

\* Every step keeps the part of the invariant about the order.
LEMMA NextOrderSoFar ==
  ASSUME TypeOK, OrderSoFar, [Next]_vars
  PROVE  OrderSoFar'
<1>1. CASE phase \in {"collect", "resolve"} /\ order' = order
           /\ phase' \in {"collect", "resolve", "raised"}
  BY <1>1 DEF OrderSoFar
<1>2. CASE ReturnResolve /\ phase' # "resolve"
  <2>1. ~ (Len(stack) > 1) /\ phase = "resolve" /\ phase' = "order" /\ func' = 0
        /\ stack' = Front(stack) /\ order' = order /\ stack # <<>>
    BY <1>2 DEF ReturnResolve, Finished
  <2>2. Len(stack') = Len(stack) - 1 /\ stack' \in Seq(Frame) /\ Len(stack) \in Nat \ {0}
    BY <2>1, FrontKeeps DEF TypeOK
  <2>3. \A k \in Nat \ {0} : ~ (k > 1) => k - 1 = 0
    OBVIOUS
  <2>4. stack' = <<>> /\ order = <<>>
    BY <2>1, <2>2, <2>3, EmptySeq DEF OrderSoFar
  <2>5. QED
    BY <2>1, <2>4 DEF OrderSoFar
<1>3. CASE StartOrder
  <2>0. stack' = <<[id |-> func, pos |-> 1, path |-> {}]>>
    BY <1>3 DEF StartOrder
  <2>1. phase = "order" /\ UNCHANGED <<phase, func, tree, order>>
    BY <1>3 DEF StartOrder
  <2>2. \A k \in 1 .. Len(stack') : \A q \in 1 .. stack'[k].pos - 1 : FALSE
    BY <2>0
  <2>3. stack'[1].id = func'
    BY <2>0, <2>1
  <2>4. QED
    BY <2>1, <2>2, <2>3, SMTT(60) DEF OrderSoFar, Placed
<1>4. CASE UNCHANGED vars
  BY <1>4 DEF OrderSoFar, Placed, Passed, vars
<1>5. QED
  <2>1. \A m \in 0 .. 2 * N - 1 : FindFuncCall(m) =>
           phase = "collect" /\ phase' = "collect" /\ order' = order
    BY DEF FindFuncCall
  <2>2. NextFunction => phase = "collect" /\ phase' \in {"collect", "resolve"} /\ order' = order
    BY DEF NextFunction
  <2>3. StartResolve \/ CutCall \/ RaiseOnRemove \/ Descend =>
          phase = "resolve" /\ phase' \in {"resolve", "raised"} /\ order' = order
    BY DEF StartResolve, CutCall, RaiseOnRemove, Descend
  <2>4. ReturnResolve => phase = "resolve" /\ order' = order
    BY DEF ReturnResolve
  <2>5. QED
    BY <1>1, <1>2, <1>3, <1>4, <2>1, <2>2, <2>3, <2>4, VisitKeepsOrder,
       ReturnKeepsOrder DEF Next, Resolve, Order

(***************************************************************************)
(* The depth of the searches.                                              *)
(***************************************************************************)

\* A call that returns leaves the others as they are; the tree and the phase change only
\* when it was the last one.
LEMMA ReturnStack ==
  ASSUME TypeOK, ReturnResolve \/ ReturnOrder
  PROVE  /\ stack # <<>> /\ Len(stack) \in Nat \ {0}
         /\ Len(stack') = Len(stack) - 1
         /\ \A k \in 1 .. Len(stack') : k \in 1 .. Len(stack) - 1 /\ stack'[k] = stack[k]
         /\ stack' # <<>> => UNCHANGED <<phase, func, tree, sanitized>>
<1> DEFINE n == Len(stack)
<1>1. stack # <<>> /\ stack' = Front(stack)
      /\ (n > 1 => UNCHANGED <<phase, func, tree, sanitized>>)
  BY DEF ReturnResolve, ReturnOrder, Finished
<1>2. /\ stack' \in Seq(Frame) /\ n \in Nat \ {0} /\ Len(stack') = n - 1
      /\ \A k \in 1 .. n - 1 : stack'[k] = stack[k]
  BY <1>1, FrontKeeps DEF TypeOK
<1> HIDE DEF n
<1>3. CASE n > 1
  BY <1>1, <1>2, <1>3 DEF n
<1>4. CASE ~ (n > 1)
  <2>1. n - 1 = 0
    <3>1. \A m \in Nat \ {0} : ~ (m > 1) => m - 1 = 0
      OBVIOUS
    <3>2. QED
      BY <1>2, <1>4, <3>1
  <2>2. stack' = <<>>
    BY <1>2, <2>1, EmptySeq
  <2>3. QED
    BY <1>1, <1>2, <2>1, <2>2 DEF n
<1>5. QED
  BY <1>3, <1>4

\* A cut leaves the active calls, but for the position of the topmost one.
LEMMA CutStack ==
  ASSUME TypeOK, CutCall
  PROVE  /\ stack # <<>> /\ phase = "resolve" /\ Busy
         /\ UNCHANGED <<phase, func, tree>>
         /\ Len(stack) \in Nat \ {0} /\ Len(stack') = Len(stack)
         /\ \A k \in 1 .. Len(stack) - 1 : stack'[k] = stack[k]
         /\ \A k \in 1 .. Len(stack) :
              stack'[k].id = stack[k].id /\ stack'[k].path = stack[k].path
         /\ stack'[Len(stack)].pos = Top.pos + 1
<1> DEFINE n == Len(stack)
<1>1. /\ stack # <<>> /\ phase = "resolve" /\ Busy /\ stack' = Advanced
      /\ UNCHANGED <<phase, func, tree>>
  BY DEF CutCall, Busy
<1>2. n \in Nat \ {0} /\ Top \in Frame /\ Top = stack[n]
  BY <1>1, TopType DEF Top
<1>3. /\ Len(stack') = n
      /\ \A k \in 1 .. n - 1 : stack'[k] = stack[k]
      /\ stack'[n].id = Top.id /\ stack'[n].pos = Top.pos + 1
      /\ stack'[n].path = Top.path
  BY <1>1, <1>2, AdvancedType DEF Frame
<1>4. \A k \in 1 .. n : k \in 1 .. n - 1 \/ k = n
  BY <1>2
<1>5. QED
  BY <1>1, <1>2, <1>3, <1>4

\* What a function reaches includes what its callees reach.
LEMMA ReachesOn ==
  ASSUME NEW t, NEW f \in Func, NEW g \in Func, NEW h \in Func, h \in Range(t[g]),
         f = g \/ Reaches(t, f, g)
  PROVE  Reaches(t, f, h)
<1> SUFFICES ASSUME NEW C \in SUBSET Func, HoldsCallees(t, f, C) PROVE h \in C
  BY DEF Reaches
<1>1. g \in C \cup {f}
  BY DEF Reaches
<1>2. QED
  BY <1>1 DEF HoldsCallees

\* Every step keeps the functions of the active calls apart.
LEMMA NextActiveCallsDistinct ==
  ASSUME TypeOK, SearchedAreClean, ActiveCallsDistinct, [Next]_vars
  PROVE  ActiveCallsDistinct'
<1>1. CASE stack' = <<>>
  BY <1>1 DEF ActiveCallsDistinct
<1>2. CASE UNCHANGED <<stack, tree>> /\ phase' \in {phase, "raised"}
  BY <1>2 DEF ActiveCallsDistinct, Reaches, HoldsCallees
<1>3. CASE StartResolve \/ StartOrder
  <2>1. /\ Len(stack') = 1 /\ stack'[1].id = func
        /\ phase' = phase /\ (phase = "resolve" => stack'[1].path = {func})
    BY <1>3 DEF StartResolve, StartOrder
  <2>2. \A k \in 1 .. 1 : k = 1 /\ \A j \in 1 .. k : j = 1
    OBVIOUS
  <2>3. \A k \in 1 .. 1 : \A j \in 1 .. k - 1 : FALSE
    OBVIOUS
  <2>4. QED
    BY <2>1, <2>2, <2>3 DEF ActiveCallsDistinct
<1>4. CASE CutCall
  <2>1. /\ Len(stack') = Len(stack) /\ phase' = "resolve" /\ phase = "resolve"
        /\ Len(stack) \in Nat
        /\ \A k \in 1 .. Len(stack) :
             stack'[k].id = stack[k].id /\ stack'[k].path = stack[k].path
    BY <1>4, CutStack
  <2>2. \A k \in 1 .. Len(stack) : \A j \in 1 .. k : j \in 1 .. Len(stack)
    BY <2>1
  <2>3. QED
    BY <2>1, <2>2 DEF ActiveCallsDistinct
<1>5. CASE Descend
  <2> DEFINE n == Len(stack)
  <2>0. PICK c \in Func : c = Callee
    BY <1>5, TopType DEF Descend, Busy
  <2>1. /\ stack # <<>> /\ phase = "resolve" /\ phase' = "resolve" /\ c \notin Top.path
    BY <1>5, <2>0 DEF Descend, Busy
  <2>2. n \in Nat \ {0} /\ Top = stack[n]
    BY <2>1, TopType DEF Top
  <2>3. /\ Len(stack') = n + 1
        /\ \A k \in 1 .. n - 1 : stack'[k] = stack[k]
        /\ stack'[n].id = Top.id /\ stack'[n].path = Top.path \cup {c}
        /\ stack'[n + 1].id = c /\ stack'[n + 1].path = Top.path \cup {c}
    BY <1>5, <2>0, DescendStack
  <2>4. /\ \A j, k \in 1 .. n : stack[j].id = stack[k].id => j = k
        /\ \A k \in 1 .. n : \A j \in 1 .. k : stack[j].id \in stack[k].path
    BY <2>1 DEF ActiveCallsDistinct
  <2> HIDE DEF n
  <2>5. \A k \in 1 .. n + 1 : k \in 1 .. n - 1 \/ k = n \/ k = n + 1
    BY <2>2
  <2>6. n \in 1 .. n /\ \A k \in 1 .. n - 1 : k \in 1 .. n
    BY <2>2
  <2>7. \A k \in 1 .. n : stack'[k].id = stack[k].id
    BY <2>2, <2>3, <2>5
  <2>8. \A k \in 1 .. n : stack[k].id \in Top.path /\ stack[k].id # c
    BY <2>1, <2>2, <2>4, <2>6
  <2>9. \A j, k \in 1 .. n + 1 : stack'[j].id = stack'[k].id => j = k
    <3>1. \A k \in 1 .. n + 1 : k \in 1 .. n \/ k = n + 1
      BY <2>2
    <3>2. QED
      BY <2>3, <2>4, <2>7, <2>8, <3>1
  <2>10. ASSUME NEW k \in 1 .. n + 1, NEW j \in 1 .. k
         PROVE  stack'[j].id \in stack'[k].path
    <3>1. j \in 1 .. n + 1 /\ (j = n + 1 => k = n + 1)
      BY <2>2
    <3>2. CASE k \in 1 .. n - 1
      <4>1. j \in 1 .. n - 1
        BY <2>2, <3>2
      <4>2. QED
        BY <2>3, <2>4, <2>6, <3>2, <4>1
    <3>3. CASE k = n \/ k = n + 1
      <4>1. CASE j = n + 1
        BY <2>3, <3>1, <4>1
      <4>2. CASE j # n + 1
        <5>1. j \in 1 .. n
          BY <2>2, <3>1, <4>2
        <5>2. QED
          BY <2>3, <2>7, <2>8, <3>3, <5>1
      <4>3. QED
        BY <4>1, <4>2
    <3>4. QED
      BY <2>5, <3>2, <3>3
  <2>11. QED
    BY <2>1, <2>3, <2>9, <2>10 DEF ActiveCallsDistinct
<1>6. CASE VisitCallee
  <2> DEFINE n == Len(stack)
  <2>0. PICK c \in Func : c = Callee
    BY <1>6, TopType DEF VisitCallee, Busy
  <2>1. /\ stack # <<>> /\ phase = "order" /\ Busy /\ UNCHANGED <<phase, tree>>
        /\ stack' = Append(Advanced, [id |-> c, pos |-> 1, path |-> {}])
    BY <1>6, <2>0 DEF VisitCallee, Busy
  <2>2. /\ n \in Nat \ {0} /\ Top = stack[n] /\ Top \in Frame
        /\ Top.pos \in 1 .. Len(tree[Top.id])
    BY <2>1, TopType DEF Top
  <2>3. /\ Advanced \in Seq(Frame) /\ Len(Advanced) = n
        /\ Advanced[n].id = Top.id
        /\ \A k \in 1 .. n - 1 : Advanced[k] = stack[k]
    BY <2>1, <2>2, AdvancedType DEF Frame
  <2>4. [id |-> c, pos |-> 1, path |-> {}] \in Frame
    BY DEF Frame
  <2>5. /\ Len(stack') = n + 1
        /\ \A k \in 1 .. n : stack'[k] = Advanced[k]
        /\ stack'[n + 1].id = c
    BY <2>1, <2>3, <2>4, AppendProperties
  <2>6. c \in Range(tree[Top.id]) /\ Top.id \in Func
    <3>1. Top.id \in Func /\ tree[Top.id] \in Seq(Func)
      BY <2>2 DEF TypeOK, Frame
    <3>2. DOMAIN tree[Top.id] = 1 .. Len(tree[Top.id])
      BY <3>1, LenProperties
    <3>3. QED
      BY <2>0, <2>2, <3>1, <3>2 DEF Callee, Range
  <2>7. /\ \A j, k \in 1 .. n : stack[j].id = stack[k].id => j = k
        /\ \A k \in 1 .. n : \A j \in 1 .. k - 1 : Reaches(tree, stack[j].id, stack[k].id)
    BY <2>1 DEF ActiveCallsDistinct
  <2>8. \A k \in 1 .. n : stack[k] \in Frame /\ stack[k].id \in Func
    <3>1. \A k \in 1 .. n : stack[k] \in Frame
      BY ElementOfSeq DEF TypeOK
    <3>2. QED
      BY <3>1 DEF Frame
  <2> HIDE DEF n
  <2>9. \A k \in 1 .. n : stack'[k].id = stack[k].id
    <3>1. \A k \in 1 .. n : k \in 1 .. n - 1 \/ k = n
      BY <2>2
    <3>2. QED
      BY <2>2, <2>3, <2>5, <3>1
  <2>10. ASSUME NEW k \in 1 .. n PROVE Reaches(tree, stack[k].id, c)
    <3>1. k = n \/ (n \in 1 .. n /\ k \in 1 .. n - 1)
      BY <2>2
    <3>2. stack[k].id = Top.id \/ Reaches(tree, stack[k].id, Top.id)
      BY <2>2, <2>7, <3>1
    <3>3. QED
      BY <2>6, <2>8, <3>2, ReachesOn
  <2>11. \A k \in 1 .. n : stack[k].id # c
    <3>1. \A f \in Func : ~ Reaches(tree, f, f)
      BY <2>1 DEF SearchedAreClean, Searched, Reaches
    <3>2. QED
      BY <2>10, <3>1
  <2>12. \A k \in 1 .. n + 1 : k \in 1 .. n \/ k = n + 1
    BY <2>2
  <2>13. \A j, k \in 1 .. n + 1 : stack'[j].id = stack'[k].id => j = k
    BY <2>5, <2>7, <2>9, <2>11, <2>12
  <2>14. ASSUME NEW k \in 1 .. n + 1, NEW j \in 1 .. k - 1
         PROVE  Reaches(tree, stack'[j].id, stack'[k].id)
    <3>1. j \in 1 .. n
      BY <2>2
    <3>2. QED
      BY <2>5, <2>7, <2>9, <2>10, <2>12, <3>1
  <2>15. phase' # "resolve" /\ tree' = tree
    BY <2>1
  <2>16. QED
    BY <2>5, <2>13, <2>14, <2>15 DEF ActiveCallsDistinct
<1>7. CASE ReturnResolve \/ ReturnOrder
  <2>1. /\ Len(stack) \in Nat \ {0} /\ Len(stack') = Len(stack) - 1
        /\ \A k \in 1 .. Len(stack') : k \in 1 .. Len(stack) /\ stack'[k] = stack[k]
        /\ stack' # <<>> => UNCHANGED <<phase, tree>>
    BY <1>7, ReturnStack
  <2>2. \A k \in 1 .. Len(stack') : \A j \in 1 .. k : j \in 1 .. Len(stack')
    BY <2>1
  <2>3. \A k \in 1 .. Len(stack') : \A j \in 1 .. k - 1 : j \in 1 .. Len(stack')
    BY <2>1
  <2>4. CASE stack' # <<>>
    BY <2>1, <2>2, <2>3, <2>4, ZenonT(60) DEF ActiveCallsDistinct, Reaches, HoldsCallees
  <2>5. QED
    BY <1>1, <2>4
<1>8. QED
  <2>1. NextFunction => stack' = <<>>
    BY DEF NextFunction, TypeOK
  <2>2. ASSUME NEW m \in 0 .. 2 * N - 1, FindFuncCall(m) PROVE stack' = <<>>
    BY <2>2 DEF FindFuncCall, TypeOK
  <2>3. RaiseOnRemove \/ UNCHANGED vars =>
          UNCHANGED <<stack, tree>> /\ phase' \in {phase, "raised"}
    BY DEF RaiseOnRemove, vars
  <2>4. QED
    BY <1>1, <1>2, <1>3, <1>4, <1>5, <1>6, <1>7, <2>1, <2>2, <2>3
       DEF Next, Resolve, Order

\* As many things as there are functions, at most, have a function each for themselves.
LEMMA AtMostN ==
  ASSUME NEW n \in Nat, NEW f \in [1 .. n -> Func],
         \A j, k \in 1 .. n : f[j] = f[k] => j = k
  PROVE  n <= N
<1>1. f \in Injection(1 .. n, Func)
  BY DEF Injection, IsInjective
<1>2. IsFiniteSet(Func) /\ Cardinality(Func) = N
  <2>1. 0 \in Int /\ N - 1 \in Int /\ ~ (0 > N - 1) /\ (N - 1) - 0 + 1 = N
    BY NAssumption
  <2>2. QED
    BY <2>1, FS_Interval DEF Func
<1>3. Cardinality(1 .. n) = n
  <2>1. 1 \in Int /\ n \in Int /\ (1 > n => n = 0) /\ n - 1 + 1 = n
    OBVIOUS
  <2>2. QED
    BY <2>1, FS_Interval
<1>4. QED
  BY <1>1, <1>2, <1>3, FS_Injection

(***************************************************************************)
(* No call is removed twice unless two functions call a third.             *)
(***************************************************************************)

\* The topmost call has its callee before it.
LEMMA CalleeIsPending ==
  ASSUME TypeOK, stack # <<>>, Busy
  PROVE  /\ Top.id \in Func /\ Callee \in Range(tree[Top.id])
         /\ Pending(Top.id, Callee)
<1>1. /\ Len(stack) \in Nat \ {0} /\ Top \in Frame /\ Top = stack[Len(stack)]
      /\ Top.pos \in 1 .. Len(tree[Top.id])
  BY TopType DEF Top
<1>2. Top.id \in Func /\ tree[Top.id] \in Seq(Func)
  BY <1>1 DEF TypeOK, Frame
<1>3. Len(tree[Top.id]) \in Nat /\ DOMAIN tree[Top.id] = 1 .. Len(tree[Top.id])
  BY <1>2, LenProperties
<1>4. Callee \in Range(tree[Top.id])
  BY <1>1, <1>3 DEF Callee, Range
<1>5. Top.pos \in Top.pos .. Len(tree[Top.id]) /\ tree[Top.id][Top.pos] = Callee
  BY <1>1, <1>3 DEF Callee
<1>6. Pending(Top.id, Callee)
  <2> DEFINE n == Len(stack)
  <2>1. n \in 1 .. n
    BY <1>1
  <2>2. stack[n].id = Top.id /\ stack[n].pos = Top.pos
    BY <1>1
  <2>3. \E q \in stack[n].pos .. Len(tree[Top.id]) : tree[Top.id][q] = Callee
    BY <1>5, <2>2
  <2>4. QED
    BY <2>1, <2>2, <2>3 DEF Pending
<1>7. QED
  BY <1>2, <1>4, <1>6

\* A call that has been passed remains so while the active calls advance; one of the
\* topmost call is passed when that advances.  (The topmost call may have put another, of
\* function c, on top of it.)
LEMMA PassedRemains ==
  ASSUME TypeOK, OnlyCuts, ActiveCallsDistinct, stack # <<>>, Busy,
         UNCHANGED tree, NEW c,
         \/ Len(stack') = Len(stack)
         \/ Len(stack') = Len(stack) + 1 /\ stack'[Len(stack) + 1].id = c,
         \A k \in 1 .. Len(stack) - 1 : stack'[k] = stack[k],
         stack'[Len(stack)].id = Top.id,
         stack'[Len(stack)].pos = Top.pos + 1,
         NEW x \in Func, x # c \/ Len(stack') = Len(stack), NEW y,
         ~ Pending(x, y) \/ (x = Top.id /\ y = Callee)
  PROVE  ~ Pending(x, y)'
<1> DEFINE n == Len(stack)
<1>1. /\ n \in Nat \ {0} /\ Top \in Frame /\ Top = stack[n]
      /\ Top.pos \in 1 .. Len(tree[Top.id])
  BY TopType DEF Top
<1>2. tree[x] \in Seq(Func) /\ Len(tree[x]) \in Nat /\ IsInjective(tree[x])
      /\ DOMAIN tree[x] = 1 .. Len(tree[x])
  BY LenProperties DEF TypeOK, OnlyCuts
<1> SUFFICES ASSUME NEW k \in 1 .. Len(stack'), stack'[k].id = x,
                    NEW q \in stack'[k].pos .. Len(tree[x]), tree[x][q] = y
             PROVE  FALSE
  BY DEF Pending
<1> HIDE DEF n
<1>3. k \in 1 .. n
  BY <1>1 DEF n
<1>4. stack[k].id = x
  <2>1. CASE k = n
    BY <1>1, <2>1 DEF n
  <2>2. CASE k # n
    <3>1. k \in 1 .. n - 1
      BY <1>1, <1>3, <2>2
    <3>2. QED
      BY <3>1 DEF n
  <2>3. QED
    BY <2>1, <2>2
<1>5. q \in stack[k].pos .. Len(tree[x]) /\ (k = n => q # Top.pos)
  <2>1. CASE k = n
    <3>1. Top.pos \in Nat /\ q \in Top.pos + 1 .. Len(tree[x]) /\ stack[k].pos = Top.pos
      BY <1>1, <2>1 DEF n, Frame
    <3>2. QED
      BY <1>2, <3>1
  <2>2. CASE k # n
    <3>1. k \in 1 .. n - 1
      BY <1>1, <1>3, <2>2
    <3>2. QED
      BY <2>2, <3>1 DEF n
  <2>3. QED
    BY <2>1, <2>2
<1>6. Pending(x, y)
  BY <1>3, <1>4, <1>5 DEF Pending, n
<1>7. x = Top.id /\ y = Callee
  BY <1>6
<1>8. k = n
  <2>1. n \in 1 .. n
    BY <1>1
  <2>2. QED
    BY <1>1, <1>3, <1>4, <1>7, <2>1 DEF ActiveCallsDistinct, n
<1>9. q # Top.pos /\ q \in 1 .. Len(tree[x]) /\ Top.pos \in 1 .. Len(tree[x])
  <2>1. Top.pos \in Nat /\ stack[k].pos = Top.pos /\ Top.pos >= 1
    BY <1>1, <1>8
  <2>2. QED
    BY <1>1, <1>2, <1>5, <1>7, <1>8, <2>1
<1>10. tree[x][q] = tree[x][Top.pos]
  BY <1>7 DEF Callee
<1>11. QED
  BY <1>2, <1>9, <1>10 DEF IsInjective

\* Every step keeps the cuts among the calls that have been passed.
LEMMA NextCutsArePassed ==
  ASSUME TypeOK, OnlyCuts, SearchIsClosed, ActiveCallsDistinct, CutsArePassed,
         [Next]_vars
  PROVE  CutsArePassed'
<1> DEFINE Visited(V) ==
      /\ func \in V
      /\ \A k \in 1 .. Len(stack) : stack[k].id \in V
      /\ \A y \in V \ {func} : \E x \in V : y \in Range(tree[x]) /\ ~ Pending(x, y)
      /\ \A x \in Func : \A y \in Range(tree[x]) \ Range(sanitized[x]) :
           x \in V /\ ~ Pending(x, y)
<1>1. CASE phase' \notin {"resolve", "raised"}
  BY <1>1 DEF CutsArePassed
<1>2. CASE StartResolve
  <2>1. /\ Len(stack') = 1 /\ stack'[1].id = func /\ stack' # <<>>
        /\ UNCHANGED <<phase, func, tree, sanitized>> /\ sanitized = tree
        /\ phase' = "resolve"
    BY <1>2 DEF StartResolve, CutsArePassed
  <2>2. {func} \in SUBSET Func
    BY DEF TypeOK
  <2>3. \A k \in 1 .. Len(stack') : stack'[k].id \in {func}
    BY <2>1
  <2>4. \A x \in Func : Range(tree'[x]) \ Range(sanitized'[x]) = {}
    BY <2>1
  <2>5. \A y \in {func} \ {func'} : FALSE
    BY <2>1
  <2>6. QED
    BY <2>1, <2>2, <2>3, <2>4, <2>5 DEF CutsArePassed
<1>3. CASE CutCall
  <2> DEFINE n == Len(stack)
  <2>1. /\ stack # <<>> /\ phase = "resolve" /\ Busy /\ UNCHANGED <<phase, func, tree>>
        /\ n \in Nat \ {0} /\ Len(stack') = n /\ stack' # <<>>
        /\ \A k \in 1 .. n - 1 : stack'[k] = stack[k]
        /\ \A k \in 1 .. n : stack'[k].id = stack[k].id
        /\ stack'[n].id = Top.id /\ stack'[n].pos = Top.pos + 1
    <3>1. /\ stack # <<>> /\ phase = "resolve" /\ Busy /\ UNCHANGED <<phase, func, tree>>
          /\ n \in Nat \ {0} /\ Len(stack') = n
          /\ \A k \in 1 .. n - 1 : stack'[k] = stack[k]
          /\ \A k \in 1 .. n : stack'[k].id = stack[k].id
          /\ stack'[n].pos = Top.pos + 1
      BY <1>3, CutStack
    <3>2. stack'[n].id = Top.id
      BY <3>1 DEF Top
    <3>3. stack' # <<>>
      BY <3>1
    <3>4. QED
      BY <3>1, <3>2, <3>3
  <2>2. \A x \in Func : \A y :
          ~ Pending(x, y) \/ (x = Top.id /\ y = Callee) => ~ Pending(x, y)'
    BY <2>1, PassedRemains
  <2>3. SUFFICES ASSUME ~ SharedCallee
                 PROVE  \E V \in SUBSET Func : Visited(V)'
    BY <2>1 DEF CutsArePassed, SharedCallee
  <2>4. PICK V \in SUBSET Func : Visited(V)
    BY <2>1, <2>3 DEF CutsArePassed
  <2>5. ASSUME NEW x \in Func, NEW y \in Range(tree[x]) \ Range(sanitized'[x])
        PROVE  x \in V /\ ~ Pending(x, y)'
    <3>1. y \notin Range(sanitized[x]) \/ (x = Top.id /\ y = Callee)
      BY <1>3, <2>5, CutDrops
    <3>2. Top.id \in V
      <4>1. n \in 1 .. n /\ Top = stack[n]
        BY <2>1 DEF Top
      <4>2. QED
        BY <2>4, <4>1
    <3>3. x \in V /\ (~ Pending(x, y) \/ (x = Top.id /\ y = Callee))
      BY <2>4, <2>5, <3>1, <3>2
    <3>4. QED
      BY <2>2, <3>3
  <2>6. \A y \in V \ {func} : \E x \in V : y \in Range(tree[x]) /\ ~ Pending(x, y)'
    BY <2>2, <2>4
  <2>7. \A k \in 1 .. Len(stack') : stack'[k].id \in V
    BY <2>1, <2>4
  <2>8. QED
    BY <2>1, <2>4, <2>5, <2>6, <2>7
<1>4. CASE RaiseOnRemove
  <2>1. /\ stack # <<>> /\ phase = "resolve" /\ Busy /\ UNCHANGED tree
        /\ phase' = "raised" /\ Callee \notin Range(sanitized[Top.id])
    BY <1>4 DEF RaiseOnRemove, Busy
  <2>2. /\ Top.id \in Func /\ Callee \in Range(tree[Top.id])
        /\ Pending(Top.id, Callee)
    BY <2>1, CalleeIsPending
  <2>3. SharedCallee
    <3>1. ASSUME ~ SharedCallee PROVE FALSE
      <4>1. PICK V \in SUBSET Func : Visited(V)
        BY <2>1, <3>1 DEF CutsArePassed
      <4>2. QED
        BY <2>1, <2>2, <4>1
    <3>2. QED
      BY <3>1
  <2>4. QED
    BY <2>1, <2>3 DEF CutsArePassed, SharedCallee
<1>5. CASE Descend
  <2> DEFINE n == Len(stack)
  <2>0. PICK c \in Func : c = Callee
    BY <1>5, TopType DEF Descend, Busy
  <2>1. /\ stack # <<>> /\ phase = "resolve" /\ Busy /\ c \notin Top.path
        /\ UNCHANGED <<phase, func, tree, sanitized>>
    BY <1>5, <2>0 DEF Descend, Busy
  <2>2. n \in Nat \ {0} /\ Top = stack[n]
    BY <2>1, TopType DEF Top
  <2>3. /\ Len(stack') = n + 1 /\ stack' # <<>>
        /\ \A k \in 1 .. n - 1 : stack'[k] = stack[k]
        /\ stack'[n].id = Top.id /\ stack'[n].pos = Top.pos + 1
        /\ stack'[n + 1].id = c
    <3>1. /\ Len(stack') = n + 1
          /\ \A k \in 1 .. n - 1 : stack'[k] = stack[k]
          /\ stack'[n].id = Top.id /\ stack'[n].pos = Top.pos + 1
          /\ stack'[n + 1].id = c
      BY <1>5, <2>0, DescendStack
    <3>2. stack' # <<>>
      BY <2>2, <3>1
    <3>3. QED
      BY <3>1, <3>2
  <2>4. \A x \in Func \ {c} : \A y :
          ~ Pending(x, y) \/ (x = Top.id /\ y = Callee) => ~ Pending(x, y)'
    BY <2>1, <2>3, PassedRemains
  <2>5. SUFFICES ASSUME ~ SharedCallee
                 PROVE  \E V \in SUBSET Func : Visited(V)'
    BY <2>1, <2>3 DEF CutsArePassed, SharedCallee
  <2>6. PICK V \in SUBSET Func : Visited(V)
    BY <2>1, <2>5 DEF CutsArePassed
  <2>7. Top.id \in V /\ Top.id \in Func /\ c \in Range(tree[Top.id]) /\ Pending(Top.id, c)
    <3>1. n \in 1 .. n
      BY <2>2
    <3>2. QED
      BY <2>0, <2>1, <2>2, <2>6, <3>1, CalleeIsPending
  <2>8. c \notin V
    <3>1. SUFFICES ASSUME c \in V PROVE FALSE
      OBVIOUS
    <3>2. c # func
      <4>1. n \in 1 .. n
        BY <2>2
      <4>2. QED
        BY <2>1, <2>2, <4>1 DEF SearchIsClosed
    <3>3. PICK x \in V : c \in Range(tree[x]) /\ ~ Pending(x, c)
      BY <2>6, <3>1, <3>2
    <3>4. x = Top.id
      BY <2>5, <2>7, <3>3 DEF SharedCallee
    <3>5. QED
      BY <2>7, <3>3, <3>4
  <2>9. ASSUME NEW k \in 1 .. n + 1 PROVE stack'[k].id \in V \cup {c}
    <3>1. k \in 1 .. n - 1 \/ k = n \/ k = n + 1
      BY <2>2
    <3>2. k \in 1 .. n - 1 => k \in 1 .. n
      BY <2>2
    <3>3. QED
      BY <2>3, <2>6, <2>7, <3>1, <3>2
  <2>10. ASSUME NEW y \in (V \cup {c}) \ {func}
         PROVE  \E x \in V \cup {c} : y \in Range(tree[x]) /\ ~ Pending(x, y)'
    <3>1. CASE y = c
      BY <2>0, <2>4, <2>7, <2>8, <3>1
    <3>2. CASE y # c
      <4>1. PICK x \in V : y \in Range(tree[x]) /\ ~ Pending(x, y)
        BY <2>6, <2>10, <3>2
      <4>2. QED
        BY <2>4, <2>8, <4>1
    <3>3. QED
      BY <3>1, <3>2
  <2>11. ASSUME NEW x \in Func, NEW y \in Range(tree[x]) \ Range(sanitized[x])
         PROVE  x \in V \cup {c} /\ ~ Pending(x, y)'
    BY <2>4, <2>6, <2>8, <2>11
  <2>12. V \cup {c} \in SUBSET Func
    BY <2>6
  <2>13. Visited(V \cup {c})'
    BY <2>1, <2>3, <2>6, <2>9, <2>10, <2>11
  <2>14. QED
    BY <2>12, <2>13
<1>6. CASE ReturnResolve
  <2>1. /\ stack # <<>> /\ phase = "resolve" /\ Finished /\ sanitized' = sanitized
        /\ phase' # "raised"
    BY <1>6 DEF ReturnResolve, Finished
  <2>2. /\ Len(stack) \in Nat \ {0}
        /\ \A k \in 1 .. Len(stack') : k \in 1 .. Len(stack) /\ stack'[k] = stack[k]
        /\ stack' # <<>> => UNCHANGED <<phase, func, tree, sanitized>>
    BY <1>6, ReturnStack
  <2>3. CASE stack' = <<>>
    <3>1. tree' = sanitized
      <4>1. ~ (Len(stack) > 1)
        <5>1. SUFFICES ASSUME Len(stack) > 1 PROVE FALSE
          OBVIOUS
        <5>2. Len(stack') = Len(stack) - 1
          BY <1>6, ReturnStack
        <5>3. Len(stack') = 0
          BY <2>3
        <5>4. \A m \in Nat : m > 1 => m - 1 # 0
          OBVIOUS
        <5>5. QED
          BY <2>2, <5>1, <5>2, <5>3, <5>4
      <4>2. QED
        BY <1>6, <4>1 DEF ReturnResolve
    <3>2. QED
      BY <2>1, <2>3, <3>1 DEF CutsArePassed
  <2>4. CASE stack' # <<>>
    <3>1. UNCHANGED <<phase, func, tree, sanitized>>
      BY <2>2, <2>4
    <3>2. \A x, y : Pending(x, y)' => Pending(x, y)
      BY <2>2, <3>1 DEF Pending
    <3>3. SUFFICES ASSUME ~ SharedCallee
                   PROVE  \E V \in SUBSET Func : Visited(V)'
      BY <2>1, <2>4, <3>1 DEF CutsArePassed, SharedCallee
    <3>4. PICK V \in SUBSET Func : Visited(V)
      BY <2>1, <3>3 DEF CutsArePassed
    <3>5. Visited(V)'
      BY <2>2, <3>1, <3>2, <3>4
    <3>6. QED
      BY <3>5
  <2>5. QED
    BY <2>3, <2>4
<1>7. CASE NextFunction
  BY <1>7 DEF NextFunction, CutsArePassed, TypeOK
<1>8. CASE UNCHANGED vars
  <2>1. UNCHANGED <<phase, func, tree, sanitized, stack>>
    BY <1>8 DEF vars
  <2>2. \A x, y : Pending(x, y)' <=> Pending(x, y)
    BY <2>1 DEF Pending
  <2>3. SharedCallee' <=> SharedCallee
    BY <2>1 DEF SharedCallee
  <2>4. QED
    BY <2>1, <2>2, <2>3 DEF CutsArePassed
<1>9. QED
  <2>1. ASSUME NEW m \in 0 .. 2 * N - 1, FindFuncCall(m)
        PROVE  phase' \notin {"resolve", "raised"}
    BY <2>1 DEF FindFuncCall
  <2>2. Order => phase' \notin {"resolve", "raised"}
    BY DEF Order, StartOrder, VisitCallee, ReturnOrder
  <2>3. QED
    BY <1>1, <1>2, <1>3, <1>4, <1>5, <1>6, <1>7, <1>8, <2>1, <2>2 DEF Next, Resolve

(***************************************************************************)
(* The theorems.                                                           *)
(***************************************************************************)

\* The inductive invariant holds before the first function is searched.
LEMMA InitIndInv == Init => IndInv
<1> SUFFICES ASSUME Init PROVE IndInv
  OBVIOUS
<1>1. TypeOK
  BY InitTypeOK
<1>2. \A f \in Func : tree[f] = <<>> /\ sanitized[f] = <<>>
  BY DEF Init
<1>3. IsInjective(<<>>)
  BY DEF IsInjective
<1>4. OnlyCuts
  BY <1>2, <1>3 DEF Init, OnlyCuts
<1>5. SearchedAreClean /\ SearchIsClosed
  BY DEF Init, SearchedAreClean, Searched, SearchIsClosed
<1>6. OrderSoFar
  BY <1>3 DEF Init, OrderSoFar
<1>7. ActiveCallsDistinct /\ CutsArePassed
  BY DEF Init, ActiveCallsDistinct, CutsArePassed
<1>8. QED
  BY <1>1, <1>4, <1>5, <1>6, <1>7 DEF IndInv

\* Both searches keep what is known of the calls and of the order, whatever the
\* functions call.
THEOREM Invariance == Spec => []IndInv
<1>1. IndInv /\ [Next]_vars => IndInv'
  BY NextTypeOK, NextOnlyCuts, NextSearchedAreClean, NextSearchIsClosed, NextOrderSoFar,
     NextActiveCallsDistinct, NextCutsArePassed
     DEF IndInv
<1>2. QED
  BY <1>1, InitIndInv, PTL DEF Spec

\* When setup_order orders the functions, none of them calls itself through others,
\* whatever calls the contract holds.
THEOREM Acyclic == Spec => []NoCycles
<1>1. IndInv => NoCycles
  BY DEF IndInv, SearchedAreClean, Searched, NoCycles, Reaches
<1>2. QED
  BY <1>1, Invariance, PTL

\* When setup_order returns, its order holds every function once, after those it
\* calls.
THEOREM OrderIsTopological == Spec => []CalleesFirst
<1>1. IndInv => CalleesFirst
  BY DEF IndInv, OrderSoFar, Placed, CalleesFirst
<1>2. QED
  BY <1>1, Invariance, PTL

\* Neither search is ever deeper than there are functions: the recursion of
\* _find_cyclic_calls and _find_next_id is bounded by the message, whatever its calls.
THEOREM DepthIsBounded == Spec => []DepthBounded
<1>1. IndInv => DepthBounded
  <2> SUFFICES ASSUME IndInv PROVE Len(stack) <= N
    BY DEF DepthBounded
  <2> DEFINE n == Len(stack)
             f == [k \in 1 .. n |-> stack[k].id]
  <2>1. n \in Nat
    BY LenProperties DEF IndInv, TypeOK
  <2>2. f \in [1 .. n -> Func]
    <3>1. \A k \in 1 .. n : stack[k] \in Frame
      BY ElementOfSeq DEF IndInv, TypeOK
    <3>2. QED
      BY <3>1 DEF Frame
  <2>3. \A j, k \in 1 .. n : f[j] = f[k] => j = k
    BY DEF IndInv, ActiveCallsDistinct
  <2> HIDE DEF f, n
  <2>4. n <= N
    BY <2>1, <2>2, <2>3, AtMostN
  <2>5. QED
    BY <2>4 DEF n
<1>2. QED
  BY <1>1, Invariance, PTL

\* list.remove fails only if some function is called by two others: a search that visits
\* every function once removes a call once.
THEOREM OnlySharedCalleesRaise == Spec => []RaiseNeedsSharedCallee
<1>1. IndInv => RaiseNeedsSharedCallee
  BY DEF IndInv, CutsArePassed, RaiseNeedsSharedCallee
<1>2. QED
  BY <1>1, Invariance, PTL

=============================================================================
