--------------------------- MODULE LiteralsProofs ---------------------------
(***************************************************************************)
(* Proofs about Literals, for any size of bytes and words and any numbers  *)
(* in a message.                                                           *)
(***************************************************************************)
EXTENDS Literals, WellFoundedInduction, TLAPS

(***************************************************************************)
(* Arithmetic.                                                             *)
(***************************************************************************)

\* Integer division rounds down.
LEMMA DivisionRoundsDown ==
  ASSUME NEW x \in Nat, NEW d \in Nat \ {0}
  PROVE  /\ x \div d \in Nat
         /\ (x \div d) * d <= x
OBVIOUS

\* A word has at least one byte.
LEMMA WordIsPositive == Word \in Nat \ {0}
BY LiteralsAssumption DEF Word

\* Products compare as their factors do.
LEMMA ProductsCompare ==
  ASSUME NEW x \in Nat, NEW y \in Nat, NEW d \in Nat \ {0}, x * d <= y * d
  PROVE  x <= y
OBVIOUS

-----------------------------------------------------------------------------
(* Literals and operands of integer types. *)

\* A literal of any value in a message is written as a value of its type
\* (IntLiteralGen.generate).
THEOREM ReducedIsInRange ==
  ASSUME NEW n \in 1 .. Word, NEW signed \in BOOLEAN, NEW v \in Int
  PROVE  Reduced(n, signed, v) \in Low(n, signed) .. Up(n, signed)
<1> DEFINE half == 2 ^ (n - 1)
           whole == 2 ^ n
<1>1. half \in Nat \ {0} /\ whole \in Nat \ {0}
  <2>1. n - 1 \in 0 .. Word /\ n \in 0 .. Word
    BY WordIsPositive
  <2> QED
    BY <2>1, PowersArePositive
<1>2. Low(n, signed) = (IF signed THEN -half ELSE 0) /\ Up(n, signed) = IF signed THEN half - 1 ELSE whole - 1
  BY DEF Low, Up
<1> HIDE DEF half, whole
<1> DEFINE low == Low(n, signed)
           up == Up(n, signed)
           m == up - low + 1
<1>3. low \in Int /\ up \in Int /\ m \in Nat \ {0}
  BY <1>1, <1>2
<1>4. Reduced(n, signed, v) = (v % m) + low
  BY DEF Reduced
<1> HIDE DEF low, up
<1>5. v % m \in 0 .. m - 1
  BY <1>3
<1>6. (v % m) + low \in low .. up
  BY <1>3, <1>5
<1> QED
  BY <1>4, <1>6 DEF low, up

\* A whole number is left in the range of its type (Int.check_literal_bounds).
THEOREM CheckedIsInRange ==
  ASSUME NEW n \in 1 .. Word, NEW signed \in BOOLEAN, NEW text,
         text.num.kind = "int", text.num.num \in Int
  PROVE  LET x == CheckLiteralBounds(n, signed, text).num
         IN  x.kind = "int" /\ x.num \in Low(n, signed) .. Up(n, signed)
<1>1. CASE text.num.num \in Low(n, signed) .. Up(n, signed)
  BY <1>1 DEF CheckLiteralBounds
<1>2. CASE text.num.num \notin Low(n, signed) .. Up(n, signed)
  <2> DEFINE v == Reduced(n, signed, text.num.num)
  <2>1. v \in Low(n, signed) .. Up(n, signed)
    BY ReducedIsInRange
  <2>2. CheckLiteralBounds(n, signed, text) = IntText(v)
    BY <1>2 DEF CheckLiteralBounds
  <2> HIDE DEF v
  <2> QED
    BY <2>1, <2>2 DEF IntText, Atom, Integer, Number
<1> QED
  BY <1>1, <1>2

\* No known shift is longer than a word.
THEOREM ShiftIsInWord ==
  ASSUME NEW r, Real(r.num), r.num.kind = "int", r.num.num \in Int, r.num.den = 1
  PROVE  CheckShift(r).num.num <= Word
<1>1. Word \in Nat \ {0}
  BY WordIsPositive
<1>2. CASE r.num.num <= Word * r.num.den
  BY <1>1, <1>2 DEF CheckShift
<1>3. CASE ~ (r.num.num <= Word * r.num.den)
  <2>1. CheckShift(r).num.num = r.num.num % (Word + 1)
    BY <1>3 DEF CheckShift, IntText, Atom, Integer, Number
  <2>2. Word + 1 \in Nat \ {0}
    BY <1>1
  <2>3. r.num.num % (Word + 1) \in 0 .. Word
    BY <1>1, <2>2
  <2> QED
    BY <1>1, <2>1, <2>3
<1> QED
  BY <1>2, <1>3

-----------------------------------------------------------------------------
(* Sizes. *)

\* bytesM of any number in a message is a type of Vyper (extract_type).
THEOREM BytesMSizeIsLegal ==
  ASSUME NEW m \in Nat
  PROVE  BytesMSize(m) \in 1 .. WordBytes
BY LiteralsAssumption DEF BytesMSize

\* So are the sizes of byte arrays, strings and lists.
THEOREM LengthIsLegal ==
  ASSUME NEW len \in Nat
  PROVE  Clamped(len, MaxBytes) \in 1 .. MaxBytes /\ Clamped(len, MaxList) \in 1 .. MaxList
BY LiteralsAssumption DEF Clamped

\* So is an integer type: its size is a whole number of bytes, up to a word.
THEOREM IntSizeIsLegal ==
  ASSUME NEW n \in Nat
  PROVE  \E bytes \in 1 .. WordBytes : IntSize(n) = ByteBits * bytes
<1> DEFINE k == n % Word
           bytes == (k + 1 + ByteBits - 1) \div ByteBits
<1>1. Word \in Nat \ {0} /\ ByteBits \in Nat \ {0} /\ WordBytes \in Nat \ {0} /\ Word = ByteBits * WordBytes
  BY LiteralsAssumption, WordIsPositive DEF Word
<1>2. k \in 0 .. Word - 1
  BY <1>1
<1>3. IntSize(n) = ByteBits * bytes
  BY DEF IntSize, NearestMultiple
<1> HIDE DEF k
<1>4. bytes \in Nat /\ bytes * ByteBits <= k + ByteBits
  BY <1>1, <1>2, DivisionRoundsDown
<1>5. k + ByteBits < (bytes + 1) * ByteBits
  BY <1>1, <1>2
<1> HIDE DEF bytes
<1>6. bytes >= 1
  BY <1>1, <1>2, <1>4, <1>5
<1>7. bytes * ByteBits < (WordBytes + 1) * ByteBits
  BY <1>1, <1>2, <1>4
<1>8. bytes <= WordBytes
  BY <1>1, <1>4, <1>7
<1> QED
  BY <1>1, <1>3, <1>4, <1>6, <1>8

\* Two parts of a concatenation that are scaled down fit in what is left for them
\* (_visit_concat).
THEOREM ScaledFits ==
  ASSUME NEW a \in Nat, NEW b \in Nat, NEW max \in Nat
  PROVE  Scaled(a, b, max)[1] + Scaled(a, b, max)[2] <= max
<1>1. CASE a + b <= max
  BY <1>1 DEF Scaled
<1>2. CASE a + b > max
  <2> DEFINE d == a + b
             p == (a * max) \div d
             q == (b * max) \div d
  <2>1. d \in Nat \ {0} /\ a * max \in Nat /\ b * max \in Nat
    BY <1>2
  <2>2. Scaled(a, b, max) = <<p, q>>
    BY <1>2 DEF Scaled
  <2>3. p \in Nat /\ p * d <= a * max
    BY <2>1, DivisionRoundsDown
  <2>4. q \in Nat /\ q * d <= b * max
    BY <2>1, DivisionRoundsDown
  <2>5. a * max + b * max = max * d
    OBVIOUS
  <2> HIDE DEF p, q, d
  <2>6. (p + q) * d <= max * d
    BY <2>1, <2>3, <2>4, <2>5
  <2>7. p + q <= max
    BY <2>1, <2>3, <2>4, <2>6, ProductsCompare
  <2> QED
    BY <2>2, <2>7
<1> QED
  BY <1>1, <1>2

(***************************************************************************)
(* Numbers.  What the provers do not know of powers of integers is a       *)
(* hypothesis, true of all but 0 ^ 0, which TLA+ leaves open.              *)
(***************************************************************************)

PowersAreNumbers ==
  \A x \in Int, n \in Nat : x # 0 \/ n # 0 =>
    x ^ n \in Int /\ (x > 0 => x ^ n > 0) /\ (x # 0 => x ^ n # 0)

Ops == {"+", "-", "*", "/", "//", "%", "**", "&", "|", "^", "<<", ">>"}

IsNumber(x) ==
  /\ x = Number(x.kind, x.num, x.den)
  /\ x.kind \in {"int", "float", "complex", "unknown"}
  /\ x.num \in Int /\ x.den \in Nat \ {0}
  /\ x.kind = "int" => x.den = 1
  /\ x.kind \in {"complex", "unknown"} => x.num = 0 /\ x.den = 1

\* A whole number is no float.
Alike(x, y) == /\ ~ (x.kind = "int" /\ y.kind = "float")
               /\ ~ (x.kind = "float" /\ y.kind = "int")

\* Integers are numbers,
LEMMA IntegerIsNumber ==
  ASSUME NEW v \in Int
  PROVE  IsNumber(Integer(v)) /\ Integer(v).kind = "int" /\ Integer(v).num = v /\ Integer(v).den = 1
  BY DEF IsNumber, Integer, Number

\* as are what is not known and what is not real.
LEMMA OtherNumbers ==
  /\ IsNumber(Unknown) /\ Unknown.kind = "unknown"
  /\ IsNumber(Complex) /\ Complex.kind = "complex"
  BY DEF IsNumber, Unknown, Complex, Number

\* Only one number is unknown, and only one is complex.
LEMMA NumberKinds ==
  ASSUME NEW x, IsNumber(x)
  PROVE  x = Unknown \/ x = Complex \/ Real(x)
<1>1. x = Number(x.kind, x.num, x.den)
  BY DEF IsNumber
<1>2. CASE x.kind = "unknown"
  BY <1>1, <1>2 DEF IsNumber, Unknown
<1>3. CASE x.kind = "complex"
  BY <1>1, <1>3 DEF IsNumber, Complex
<1>4. QED
  BY <1>2, <1>3 DEF IsNumber, Real

\* The sign is in the numerator.
LEMMA NegatedParts ==
  ASSUME NEW kind, NEW num, NEW den
  PROVE  Negated(Number(kind, num, den)) = Number(kind, - num, den)
  BY DEF Negated, Number

\* The negation of a number is one of its kind, and negated again it is the number.
LEMMA NegatedNumber ==
  ASSUME NEW x, IsNumber(x)
  PROVE  /\ IsNumber(Negated(x)) /\ Negated(x).kind = x.kind /\ Negated(x).den = x.den
         /\ Negated(x).num = - x.num /\ Negated(Negated(x)) = x
<1>1. x = Number(x.kind, x.num, x.den) /\ x.num \in Int
  BY DEF IsNumber
<1>2. Negated(x) = Number(x.kind, - x.num, x.den)
  BY <1>1, NegatedParts
<1>3. /\ Negated(x).kind = x.kind /\ Negated(x).den = x.den /\ Negated(x).num = - x.num
  BY <1>2 DEF Number
<1>4. IsNumber(Negated(x))
  <2>1. Negated(x) = Number(Negated(x).kind, Negated(x).num, Negated(x).den)
    BY <1>2, <1>3
  <2>2. QED
    BY <1>1, <1>3, <2>1 DEF IsNumber
<1>5. Negated(Negated(x)) = Number(x.kind, - (- x.num), x.den)
  BY <1>2, NegatedParts
<1>6. QED
  BY <1>1, <1>3, <1>4, <1>5

\* A set of natural numbers that is not empty has a least number.
LEMMA LeastOf ==
  ASSUME NEW S, S \subseteq Nat, S # {}
  PROVE  \E n \in S : \A m \in S : n <= m
<1>1. PICK n \in S : \A m \in S : ~ (<<m, n>> \in OpToRel(<, Nat))
  BY NatLessThanWellFounded, WFMin
<1>2. \A m \in S : ~ (m < n)
  BY <1>1 DEF OpToRel
<1>3. QED
  BY <1>2

\* A fraction can be reduced: some divisor of both numbers is the greatest,
LEMMA GreatestDivisor ==
  ASSUME NEW p \in Int, NEW q \in Nat \ {0}
  PROVE  LET g == Max({h \in 1 .. q : Divides(h, p) /\ Divides(h, q)})
         IN  g \in 1 .. q /\ Divides(g, p) /\ Divides(g, q)
<1> DEFINE H == {h \in 1 .. q : Divides(h, p) /\ Divides(h, q)}
           D == {n \in Nat : q - n \in H}
<1>1. 1 \in H
  BY DEF Divides
<1>2. q - 1 \in D
  BY <1>1
<1>3. PICK n \in D : \A m \in D : n <= m
  BY <1>2, LeastOf
<1>4. q - n \in H
  BY <1>3
<1>5. ASSUME NEW h \in H PROVE q - n >= h
  <2>1. q - h \in Nat /\ q - (q - h) = h
    OBVIOUS
  <2>2. q - h \in D
    BY <2>1
  <2>3. n <= q - h
    BY <1>3, <2>2
  <2>4. QED
    BY <2>3
<1>6. Max(H) \in H
  <2> HIDE DEF H, D
  <2>1. \E x \in H : \A y \in H : x >= y
    BY <1>4, <1>5
  <2>2. QED
    BY <2>1 DEF Max
<1>7. QED
  BY <1>6

\* and divides them without a remainder.
LEMMA Divided ==
  ASSUME NEW p \in Int, NEW g \in Nat \ {0}, Divides(g, p)
  PROVE  p \div g \in Int /\ (p \div g) * g = p
  BY DEF Divides

\* A float is the fraction it is made of.
LEMMA FloatIsNumber ==
  ASSUME NEW p \in Int, NEW q \in Nat \ {0}
  PROVE  /\ IsNumber(Float(p, q)) /\ Float(p, q).kind = "float"
         /\ \E g \in Nat \ {0} : Float(p, q).num * g = p /\ Float(p, q).den * g = q
<1> DEFINE g == Max({h \in 1 .. q : Divides(h, p) /\ Divides(h, q)})
<1>1. g \in 1 .. q /\ Divides(g, p) /\ Divides(g, q)
  BY GreatestDivisor
<1>2. Float(p, q) = Number("float", p \div g, q \div g)
  BY DEF Float
<1> HIDE DEF g
<1>3. p \div g \in Int /\ (p \div g) * g = p /\ q \div g \in Int /\ (q \div g) * g = q
  BY <1>1, Divided
<1>4. q \div g \in Nat \ {0}
  <2> DEFINE k == q \div g
  <2>1. k \in Int /\ k * g = q
    BY <1>3
  <2> HIDE DEF k
  <2>2. k > 0
    BY <1>1, <2>1
  <2>3. QED
    BY <2>1, <2>2 DEF k
<1>5. QED
  BY <1>1, <1>2, <1>3, <1>4 DEF IsNumber, Number

\* A reduced fraction is a number, a float if one of its operands is.
LEMMA FractionIsNumber ==
  ASSUME NEW x, NEW y, NEW p \in Int, NEW q \in Int, q # 0
  PROVE  /\ IsNumber(Fraction(x, y, p, q))
         /\ Fraction(x, y, p, q).kind =
              IF x.kind = "float" \/ y.kind = "float" THEN "float" ELSE "int"
<1>1. CASE q > 0
  <2>1. q \in Nat \ {0} /\ p \div q \in Int
    BY <1>1
  <2>2. IsNumber(Float(p, q)) /\ Float(p, q).kind = "float"
    BY <2>1, FloatIsNumber
  <2>3. IsNumber(Integer(p \div q)) /\ Integer(p \div q).kind = "int"
    BY <2>1, IntegerIsNumber
  <2>4. QED
    BY <1>1, <2>2, <2>3 DEF Fraction
<1>2. CASE ~ (q > 0)
  <2>1. - q \in Nat \ {0} /\ - p \in Int
    BY <1>2
  <2>2. (- p) \div (- q) \in Int
    BY <2>1
  <2>3. IsNumber(Float(- p, - q)) /\ Float(- p, - q).kind = "float"
    BY <2>1, FloatIsNumber
  <2>4. IsNumber(Integer((- p) \div (- q))) /\ Integer((- p) \div (- q)).kind = "int"
    BY <2>2, IntegerIsNumber
  <2>5. QED
    BY <1>2, <2>3, <2>4 DEF Fraction
<1>3. QED
  BY <1>1, <1>2

\* Powers of numbers are numbers, by a known exponent
LEMMA PoweredIsNumber ==
  ASSUME PowersAreNumbers, NEW x, IsNumber(x), NEW e \in Int
  PROVE  IsNumber(Powered(x, e))
<1>1. x.num \in Int /\ x.den \in Nat \ {0}
  BY DEF IsNumber
<1>2. CASE e >= 0
  <2> DEFINE p == IF e = 0 THEN 1 ELSE x.num ^ e
             d == x.den ^ e
  <2>1. e \in Nat
    BY <1>2
  <2>2. p \in Int /\ d \in Nat \ {0}
    BY <1>1, <2>1 DEF PowersAreNumbers
  <2>3. Powered(x, e) = IF x.kind = "int" THEN Integer(p) ELSE Float(p, d)
    BY <1>2 DEF Powered
  <2> HIDE DEF p, d
  <2>4. QED
    BY <2>2, <2>3, IntegerIsNumber, FloatIsNumber
<1>3. CASE e < 0 /\ x.num = 0
  BY <1>3, OtherNumbers DEF Powered
<1>4. CASE e < 0 /\ x.num # 0
  <2> DEFINE p == x.den ^ (- e)
             q == x.num ^ (- e)
  <2>1. - e \in Nat
    BY <1>4
  <2>2. p \in Int /\ q \in Int /\ q # 0
    BY <1>1, <1>4, <2>1 DEF PowersAreNumbers
  <2>3. Powered(x, e) = IF q > 0 THEN Float(p, q) ELSE Float(- p, - q)
    BY <1>4 DEF Powered
  <2> HIDE DEF p, q
  <2>4. CASE q > 0
    BY <2>2, <2>3, <2>4, FloatIsNumber
  <2>5. CASE ~ (q > 0)
    <3>1. - q \in Nat \ {0} /\ - p \in Int
      BY <2>2, <2>5
    <3>2. QED
      BY <2>3, <2>5, <3>1, FloatIsNumber
  <2>6. QED
    BY <2>4, <2>5
<1>5. QED
  BY <1>2, <1>3, <1>4

\* or any.
LEMMA PowerIsNumber ==
  ASSUME PowersAreNumbers, NEW x, NEW y, IsNumber(x), IsNumber(y)
  PROVE  IsNumber(Power(x, y))
<1>1. CASE Power(x, y) = Complex \/ Power(x, y) = Unknown
  BY <1>1, OtherNumbers
<1>2. CASE Power(x, y) = LET z == Powered(x, y.num)
                         IN  IF y.kind = "float" /\ z.kind = "int" THEN Float(z.num, 1) ELSE z
  <2> DEFINE z == Powered(x, y.num)
  <2>1. IsNumber(z)
    BY PoweredIsNumber DEF IsNumber
  <2>2. Power(x, y) = IF y.kind = "float" /\ z.kind = "int" THEN Float(z.num, 1) ELSE z
    BY <1>2
  <2> HIDE DEF z
  <2>3. z.num \in Int /\ 1 \in Nat \ {0}
    BY <2>1 DEF IsNumber
  <2>4. IsNumber(Float(z.num, 1))
    BY <2>3, FloatIsNumber
  <2>5. QED
    BY <2>1, <2>2, <2>4
<1>3. QED
  BY <1>1, <1>2 DEF Power

\* No denominator becomes zero.
LEMMA ProductNotZero ==
  ASSUME NEW a \in Nat \ {0}, NEW b \in Int, b # 0
  PROVE  a * b \in Int /\ a * b # 0
<1>1. CASE b > 0
  BY <1>1
<1>2. CASE b < 0
  BY <1>2
<1>3. QED
  BY <1>1, <1>2

\* A quotient that is rounded down is an integer.
LEMMA FloorIsInteger ==
  ASSUME NEW x, NEW y, IsNumber(x), IsNumber(y), y.num # 0
  PROVE  Floor(x, y) \in Int
<1> DEFINE p == x.num * y.den
           q == y.num * x.den
<1>1. p \in Int /\ q \in Int /\ q # 0
  <2>1. x.num \in Int /\ y.den \in Int /\ y.num \in Int /\ x.den \in Nat \ {0}
    BY DEF IsNumber
  <2>2. x.den * y.num \in Int /\ x.den * y.num # 0
    BY <2>1, ProductNotZero
  <2>3. QED
    BY <2>1, <2>2
<1>2. Floor(x, y) = IF q > 0 THEN p \div q ELSE (- p) \div (- q)
  BY DEF Floor
<1> HIDE DEF p, q
<1>3. CASE q > 0
  BY <1>1, <1>2, <1>3
<1>4. CASE ~ (q > 0)
  <2>1. - q \in Nat \ {0} /\ - p \in Int
    BY <1>1, <1>4
  <2>2. QED
    BY <1>2, <1>4, <2>1
<1>5. QED
  BY <1>3, <1>4

\* The arithmetic of what is known gives numbers, and floats only by `/` or of floats.
LEMMA ArithmeticIsNumber ==
  ASSUME NEW x, NEW y, IsNumber(x), IsNumber(y), Real(x), Real(y),
         NEW op \in {"+", "-", "*", "/", "//", "%"}
  PROVE  /\ IsNumber(Arithmetic(x, op, y))
         /\ Arithmetic(x, op, y).kind = "float" =>
              op = "/" \/ x.kind = "float" \/ y.kind = "float"
         /\ Arithmetic(x, op, y).kind = "int" =>
              op # "/" /\ x.kind # "float" /\ y.kind # "float"
<1>1. x.num \in Int /\ y.num \in Int /\ x.den \in Nat \ {0} /\ y.den \in Nat \ {0}
  BY DEF IsNumber
<1>2. x.den * y.den \in Int /\ x.den * y.den # 0
  BY <1>1, ProductNotZero
<1> DEFINE whole(p, q) == Arithmetic(x, op, y) = Fraction(x, y, p, q)
<1>3. ASSUME NEW p \in Int, NEW q \in Int, q # 0, op # "/", whole(p, q)
      PROVE  /\ IsNumber(Arithmetic(x, op, y))
             /\ Arithmetic(x, op, y).kind =
                  IF x.kind = "float" \/ y.kind = "float" THEN "float" ELSE "int"
  BY <1>3, FractionIsNumber
<1>4. CASE op = "+"
  <2>1. x.num * y.den + y.num * x.den \in Int
    BY <1>1
  <2>2. whole(x.num * y.den + y.num * x.den, x.den * y.den)
    BY <1>4 DEF Arithmetic
  <2> HIDE DEF whole
  <2>3. QED
    BY <1>2, <1>3, <1>4, <2>1, <2>2
<1>5. CASE op = "-"
  <2>1. x.num * y.den - y.num * x.den \in Int
    BY <1>1
  <2>2. whole(x.num * y.den - y.num * x.den, x.den * y.den)
    BY <1>5 DEF Arithmetic
  <2> HIDE DEF whole
  <2>3. QED
    BY <1>2, <1>3, <1>5, <2>1, <2>2
<1>6. CASE op = "*"
  <2>1. x.num * y.num \in Int
    BY <1>1
  <2>2. whole(x.num * y.num, x.den * y.den)
    BY <1>6 DEF Arithmetic
  <2> HIDE DEF whole
  <2>3. QED
    BY <1>2, <1>3, <1>6, <2>1, <2>2
<1>7. CASE op \in {"/", "//", "%"} /\ Zero(y)
  BY <1>7, OtherNumbers DEF Arithmetic
<1>8. CASE op = "/" /\ ~ Zero(y)
  <2> DEFINE p == x.num * y.den
             q == x.den * y.num
  <2>1. p \in Int /\ q \in Int /\ q # 0
    BY <1>1, <1>8, ProductNotZero DEF Zero
  <2>2. Arithmetic(x, op, y) = IF q > 0 THEN Float(p, q) ELSE Float(- p, - q)
    BY <1>8 DEF Arithmetic
  <2> HIDE DEF p, q
  <2>3. CASE q > 0
    BY <1>8, <2>1, <2>2, <2>3, FloatIsNumber
  <2>4. CASE ~ (q > 0)
    <3>1. - q \in Nat \ {0} /\ - p \in Int
      BY <2>1, <2>4
    <3>2. QED
      BY <1>8, <2>2, <2>4, <3>1, FloatIsNumber
  <2>5. QED
    BY <2>3, <2>4
<1>9. CASE op = "%" /\ ~ Zero(y)
  <2> DEFINE f == Floor(x, y)
             p == x.num * y.den - f * y.num * x.den
  <2>1. f \in Int
    BY <1>9, FloorIsInteger DEF Zero
  <2>2. whole(p, x.den * y.den)
    BY <1>9 DEF Arithmetic
  <2> HIDE DEF f
  <2>3. p \in Int
    BY <1>1, <2>1
  <2> HIDE DEF p, whole
  <2>4. QED
    BY <1>2, <1>3, <1>9, <2>2, <2>3
<1>10. CASE op = "//" /\ ~ Zero(y)
  <2> DEFINE f == Floor(x, y)
  <2>1. f \in Int /\ 1 \in Int /\ 1 # 0
    BY <1>10, FloorIsInteger DEF Zero
  <2>2. whole(f, 1)
    BY <1>10 DEF Arithmetic
  <2> HIDE DEF f, whole
  <2>3. QED
    BY <1>3, <1>10, <2>1, <2>2
<1>11. QED
  BY <1>4, <1>5, <1>6, <1>7, <1>8, <1>9, <1>10

\* The same of shifts, which are of integers.
LEMMA ShiftIsNumber ==
  ASSUME PowersAreNumbers, NEW x, NEW y, IsNumber(x), IsNumber(y), NEW op
  PROVE  /\ IsNumber(Shift(x, op, y))
         /\ Shift(x, op, y).kind # "float"
         /\ Shift(x, op, y).kind = "int" => x.kind # "float" /\ y.kind # "float"
<1> DEFINE p == 2 ^ y.num
<1>1. CASE x.kind = "int" /\ y.kind = "int" /\ y.num >= 0
  <2>1. x.num \in Int /\ y.num \in Nat
    BY <1>1 DEF IsNumber
  <2>2. p \in Nat \ {0}
    BY <2>1 DEF PowersAreNumbers
  <2>3. Shift(x, op, y) = Integer(IF op = "<<" THEN x.num * p ELSE x.num \div p)
    BY <1>1 DEF Shift
  <2> HIDE DEF p
  <2>4. x.num * p \in Int /\ x.num \div p \in Int
    BY <2>1, <2>2
  <2>5. QED
    BY <1>1, <2>3, <2>4, IntegerIsNumber
<1>2. CASE ~ (x.kind = "int" /\ y.kind = "int" /\ y.num >= 0)
  BY <1>2, OtherNumbers DEF Shift
<1>3. QED
  BY <1>1, <1>2

\* So are bitwise operations.
LEMMA BitwiseIsNumber ==
  ASSUME NEW x, NEW y, NEW op
  PROVE  /\ IsNumber(Bitwise(x, op, y))
         /\ Bitwise(x, op, y).kind # "float"
         /\ Bitwise(x, op, y).kind = "int" => x.kind # "float" /\ y.kind # "float"
<1> DEFINE made(v) == \A i \in 0 .. MaxBits : Bit(v, i) = Combined(op, Bit(x.num, i), Bit(y.num, i))
           known == /\ x.kind = "int" /\ y.kind = "int" /\ {x.num, y.num} \subseteq BitRange
                    /\ \E v \in BitRange : made(v)
           z == CHOOSE v \in BitRange : made(v)
<1>1. Bitwise(x, op, y) = IF known THEN Integer(z) ELSE Unknown
  BY DEF Bitwise
<1>2. known => z \in BitRange /\ x.kind = "int" /\ y.kind = "int"
  <2> HIDE DEF made
  <2>1. QED
    OBVIOUS
<1>3. BitRange \subseteq Int
  BY DEF BitRange
<1> HIDE DEF known, z
<1>4. CASE known
  BY <1>1, <1>2, <1>3, <1>4, IntegerIsNumber
<1>5. CASE ~ known
  BY <1>1, <1>5, OtherNumbers
<1>6. QED
  BY <1>4, <1>5

\* An operation on numbers gives a number; but for powers, its kind follows from those of
\* the operands.
LEMMA ApplyIsNumber ==
  ASSUME PowersAreNumbers, NEW x, NEW y, IsNumber(x), IsNumber(y), NEW op \in Ops
  PROVE  /\ IsNumber(Apply(x, op, y))
         /\ op # "**" /\ Apply(x, op, y).kind = "float" =>
              op = "/" \/ x.kind = "float" \/ y.kind = "float"
         /\ op # "**" /\ Apply(x, op, y).kind = "int" =>
              op # "/" /\ x.kind # "float" /\ y.kind # "float"
<1>1. CASE op = "**"
  BY <1>1, PowerIsNumber DEF Apply
<1>2. CASE op # "**" /\ Unknown \in {x, y}
  BY <1>2, OtherNumbers DEF Apply
<1>3. CASE op \in {"<<", ">>"} /\ Unknown \notin {x, y}
  BY <1>3, ShiftIsNumber DEF Apply
<1>4. CASE op \in {"&", "|", "^"} /\ Unknown \notin {x, y}
  BY <1>4, BitwiseIsNumber DEF Apply
<1>5. CASE op \in Ops \ {"**", "<<", ">>", "&", "|", "^"} /\ Unknown \notin {x, y} /\ Complex \in {x, y}
  <2>1. Apply(x, op, y) \in {Unknown, Complex}
    BY <1>5 DEF Apply
  <2>2. QED
    BY <2>1, OtherNumbers
<1>6. CASE op \in Ops \ {"**", "<<", ">>", "&", "|", "^"} /\ Unknown \notin {x, y} /\ Complex \notin {x, y}
  <2>1. Apply(x, op, y) = Arithmetic(x, op, y)
    BY <1>6 DEF Apply
  <2>2. Real(x) /\ Real(y)
    BY <1>6, NumberKinds
  <2>3. op \in {"+", "-", "*", "/", "//", "%"}
    BY <1>6 DEF Ops
  <2>4. QED
    BY <2>1, <2>2, <2>3, ArithmeticIsNumber
<1>7. QED
  BY <1>1, <1>2, <1>3, <1>4, <1>5, <1>6 DEF Ops

(***************************************************************************)
(* Texts.                                                                  *)
(***************************************************************************)

\* What is not an operation without parentheses takes a minus in front of it.
IsText(text) ==
  /\ IsNumber(text.num) /\ IsNumber(text.flip) /\ Alike(text.num, text.flip)
  /\ ~ text.open => text.flip = Negated(text.num)

\* A number that is written is a text,
LEMMA AtomIsText ==
  ASSUME NEW x, IsNumber(x), NEW minus
  PROVE  /\ IsText(Atom(x, minus)) /\ Atom(x, minus).num = x /\ ~ Atom(x, minus).open
<1>1. Atom(x, minus).num = x /\ Atom(x, minus).flip = Negated(x) /\ Atom(x, minus).open = FALSE
  BY DEF Atom
<1>2. IsNumber(Negated(x)) /\ Negated(x).kind = x.kind
  BY NegatedNumber
<1>3. QED
  BY <1>1, <1>2 DEF IsText, Alike

\* with a minus in front it is the text of its negation,
LEMMA MinusIsText ==
  ASSUME NEW text, IsText(text)
  PROVE  IsText(Minus(text)) /\ Minus(text).num = text.flip
  BY DEF IsText, Minus, Alike

\* and an operation on two texts is a text.
LEMMA OperationIsText ==
  ASSUME PowersAreNumbers, NEW l, NEW r, NEW op \in Ops, IsText(l), ~ l.open, IsNumber(r.num)
  PROVE  IsText(Operation(l, op, r))
<1> DEFINE x == l.num
           y == r.num
           z == Operation(l, op, r)
<1>1. /\ IsNumber(x) /\ IsNumber(y) /\ l.flip = Negated(x)
      /\ IsNumber(Negated(x)) /\ Negated(x).kind = x.kind
  BY NegatedNumber DEF IsText
<1>2. CASE op = "**"
  <2> DEFINE v == IF l.minus THEN Negated(Apply(Negated(x), op, y)) ELSE Apply(x, op, y)
  <2>1. z.num = v /\ z.flip = Negated(v) /\ z.open = TRUE
    BY <1>2 DEF Operation
  <2>2. IsNumber(v)
    BY <1>1, ApplyIsNumber, NegatedNumber
  <2> HIDE DEF v, z
  <2>3. IsNumber(Negated(v)) /\ Negated(v).kind = v.kind
    BY <2>2, NegatedNumber
  <2>4. QED
    BY <2>1, <2>2, <2>3 DEF IsText, Alike, z
<1>3. CASE op # "**"
  <2>1. z.num = Apply(x, op, y) /\ z.flip = Apply(Negated(x), op, y) /\ z.open = TRUE
    BY <1>1, <1>3 DEF Operation
  <2> HIDE DEF x, y, z
  <2>2. /\ IsNumber(Apply(x, op, y)) /\ IsNumber(Apply(Negated(x), op, y))
        /\ Alike(Apply(x, op, y), Apply(Negated(x), op, y))
    <3>1. /\ IsNumber(Apply(x, op, y))
          /\ Apply(x, op, y).kind = "float" => op = "/" \/ x.kind = "float" \/ y.kind = "float"
          /\ Apply(x, op, y).kind = "int" => op # "/" /\ x.kind # "float" /\ y.kind # "float"
      BY <1>1, <1>3, ApplyIsNumber
    <3>2. /\ IsNumber(Apply(Negated(x), op, y))
          /\ Apply(Negated(x), op, y).kind = "float" =>
               op = "/" \/ x.kind = "float" \/ y.kind = "float"
          /\ Apply(Negated(x), op, y).kind = "int" =>
               op # "/" /\ x.kind # "float" /\ y.kind # "float"
      BY <1>1, <1>3, ApplyIsNumber, ZenonT(60)
    <3>3. QED
      BY <3>1, <3>2 DEF Alike
  <2>3. QED
    BY <2>1, <2>2 DEF IsText, z
<1>4. QED
  BY <1>2, <1>3

\* A shift that is cut is one by a number.
LEMMA CheckShiftIsNumber ==
  ASSUME NEW r, IsNumber(r.num)
  PROVE  IsNumber(CheckShift(r).num)
<1> DEFINE x == r.num
           w == Word + 1
<1>1. Word \in Nat \ {0} /\ w \in Nat \ {0}
  BY WordIsPositive
<1>2. x.num \in Int
  BY DEF IsNumber
<1>3. CASE ~ Real(x) \/ x.num <= Word * x.den
  BY <1>3 DEF CheckShift
<1>4. CASE Real(x) /\ ~ (x.num <= Word * x.den) /\ x.kind = "int"
  <2>1. CheckShift(r).num = Integer(x.num % w)
    BY <1>4 DEF CheckShift, IntText, Atom
  <2>2. x.num % w \in Int
    BY <1>1, <1>2
  <2>3. QED
    BY <2>1, <2>2, IntegerIsNumber
<1>5. CASE Real(x) /\ ~ (x.num <= Word * x.den) /\ x.kind # "int"
  <2>1. CheckShift(r).num = Arithmetic(x, "%", Integer(w))
    BY <1>5 DEF CheckShift, Atom
  <2>2. IsNumber(Integer(w)) /\ Real(Integer(w))
    BY <1>1, IntegerIsNumber DEF Real
  <2>3. QED
    BY <1>5, <2>1, <2>2, ArithmeticIsNumber
<1>6. QED
  BY <1>3, <1>4, <1>5

\* Int.check_binop_bounds: an operation can be made of what it returns.
LEMMA BinopBoundsAreTexts ==
  ASSUME NEW n, NEW l, NEW r, NEW op \in Ops, IsText(l), ~ l.open, IsText(r)
  PROVE  LET b == CheckBinopBounds(n, l, op, r)
         IN  b.op \in Ops /\ IsText(b.left) /\ ~ b.left.open /\ IsNumber(b.right.num)
<1> DEFINE b == CheckBinopBounds(n, l, op, r)
<1>1. IsText(IntText(1)) /\ IntText(1).num = Integer(1) /\ ~ IntText(1).open
  BY IntegerIsNumber, AtomIsText DEF IntText
<1>2. IsNumber(r.num) /\ IsNumber(r.flip)
  BY DEF IsText
<1>3. CASE op = "**"
  <2> DEFINE e == CheckExponent(l, r)
  <2>1. b.left = e.left /\ b.right = e.right /\ b.op = "**"
    BY <1>3 DEF CheckBinopBounds
  <2>2. e.left \in {l, IntText(1)}
    BY DEF CheckExponent
  <2>3. e.right.num \in {r.num, r.flip}
    BY DEF CheckExponent, Minus
  <2>4. QED
    BY <1>1, <1>2, <1>3, <2>1, <2>2, <2>3
<1>4. CASE op \in {"<<", ">>"} /\ n # Word
  <2>1. b = [left |-> l, op |-> "+", right |-> r]
    BY <1>4 DEF CheckBinopBounds
  <2>2. QED
    BY <1>2, <2>1 DEF Ops
<1>5. CASE op \in {"<<", ">>"} /\ n = Word
  <2>1. b = [left |-> l, op |-> op, right |-> CheckShift(r)]
    BY <1>5 DEF CheckBinopBounds
  <2>2. QED
    BY <1>2, <1>5, <2>1, CheckShiftIsNumber DEF Ops
<1>6. CASE op \in {"/", "%"}
  <2>1. b = [left |-> l, op |-> op, right |-> CheckDivisor(r)]
    BY <1>6 DEF CheckBinopBounds
  <2>2. IsNumber(CheckDivisor(r).num)
    BY <1>1, <1>2, IntegerIsNumber DEF CheckDivisor
  <2>3. QED
    BY <1>6, <2>1, <2>2 DEF Ops
<1>7. CASE op \in {"+", "-", "*", "//", "&", "|", "^"}
  <2>1. b = [left |-> l, op |-> op, right |-> r]
    BY <1>7 DEF CheckBinopBounds
  <2>2. QED
    BY <1>2, <1>7, <2>1 DEF Ops
<1>8. QED
  BY <1>3, <1>4, <1>5, <1>6, <1>7 DEF Ops

=============================================================================
