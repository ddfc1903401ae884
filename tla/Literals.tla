------------------------------ MODULE Literals ------------------------------
(***************************************************************************)
(* types_d/types.py, types_d/literal_value_generator.py and extract_type:  *)
(* the sizes of types, the literals written for them, and what the         *)
(* converter makes of the numbers it has written so far.  It evaluates the *)
(* text of an operand with Python's eval; a number is what eval returns.   *)
(***************************************************************************)
EXTENDS Integers, FiniteSetsExt

CONSTANTS
  ByteBits,      \* 8
  WordBytes,     \* 32, the bytes of a word
  MaxBytes,      \* MAX_BYTESTRING_SIZE
  MaxList,       \* MAX_LIST_SIZE
  MaxPower,      \* bound: the exponents that are evaluated
  MaxBits        \* bound: the bits of the operands of &, | and ^ that are evaluated

Word == ByteBits * WordBytes    \* 256

ASSUME LiteralsAssumption ==
  /\ ByteBits \in Nat \ {0} /\ WordBytes \in Nat \ {0}
  /\ MaxBytes \in Nat \ {0} /\ MaxList \in Nat \ {0}
  /\ MaxPower \in Nat /\ MaxBits \in Nat

\* A fact of arithmetic that the proofs use.
ASSUME PowersArePositive == \A n \in 0 .. Word : 2 ^ n \in Nat \ {0}

-----------------------------------------------------------------------------
(* Sizes of types (extract_type), from any number in a message.            *)

\* get_nearest_multiple for an integer.
NearestMultiple(num, mul) == mul * ((num + mul - 1) \div mul)

IntSize(n) == NearestMultiple((n % Word) + 1, ByteBits)
BytesMSize(m) == (m % WordBytes) + 1
Clamped(len, max) == IF len = 0 THEN 1 ELSE IF len < max THEN len ELSE max

-----------------------------------------------------------------------------
(* Literals.                                                               *)

\* _get_value_boundaries.
Low(n, signed) == IF signed THEN -(2 ^ (n - 1)) ELSE 0
Up(n, signed) == IF signed THEN 2 ^ (n - 1) - 1 ELSE 2 ^ n - 1

\* IntLiteralGen.generate.
Reduced(n, signed, v) ==
  (v % (Up(n, signed) - Low(n, signed) + 1)) + Low(n, signed)

\* StringLiteralGen and BytesLiteralGen cut what is too long for m; BytesMLiteralGen cuts
\* or fills up to m.
CutTo(m, len) == IF len <= m THEN len ELSE m
FillTo(m, len) == IF len >= m THEN m ELSE len + (m - len)

\* Seeded fault: only the first part is scaled.
ScaledFirst(a, b, max) ==
  IF a + b > max THEN <<(a * max) \div (a + b), b>> ELSE <<a, b>>

\* The sizes of the first two parts of a concatenation of at most max.
Scaled(a, b, max) ==
  IF a + b > max THEN <<(a * max) \div (a + b), (b * max) \div (a + b)>> ELSE <<a, b>>

-----------------------------------------------------------------------------
(* Numbers: integers and floats (the fraction num / den), the complex      *)
(* numbers that are roots of negative floats, and unknown for a text that  *)
(* eval fails on: it has a name, a division by zero, a negative shift or a *)
(* fraction in a place for integers.  The roots of positive numbers, and   *)
(* what is over a bound, are taken for unknown too.                        *)

Number(kind, num, den) == [kind |-> kind, num |-> num, den |-> den]
Unknown == Number("unknown", 0, 1)
Complex == Number("complex", 0, 1)
Integer(v) == Number("int", v, 1)

Divides(g, p) == p % g = 0
Float(p, q) ==
  LET g == Max({h \in 1 .. q : Divides(h, p) /\ Divides(h, q)})
  IN  Number("float", p \div g, q \div g)

Real(x) == x.kind \in {"int", "float"}
Negative(x) == Real(x) /\ x.num < 0
Zero(x) == Real(x) /\ x.num = 0

\* The number p / q, of the type that Python's arithmetic gives for x and y.
Fraction(x, y, p, q) ==
  IF x.kind = "float" \/ y.kind = "float"
  THEN IF q > 0 THEN Float(p, q) ELSE Float(-p, -q)
  ELSE Integer(IF q > 0 THEN p \div q ELSE (-p) \div (-q))

Floor(x, y) == LET p == x.num * y.den
                   q == y.num * x.den
               IN  IF q > 0 THEN p \div q ELSE (-p) \div (-q)

\* x to the power of a whole number e.
Powered(x, e) ==
  IF e >= 0
  THEN LET p == IF e = 0 THEN 1 ELSE x.num ^ e
       IN  IF x.kind = "int" THEN Integer(p) ELSE Float(p, x.den ^ e)
  ELSE IF x.num = 0 THEN Unknown
  ELSE LET p == x.den ^ (-e)
           q == x.num ^ (-e)
       IN  IF q > 0 THEN Float(p, q) ELSE Float(-p, -q)

Power(x, y) ==
  CASE "complex" \in {x.kind, y.kind} -> Complex
    [] Real(x) /\ Real(y) /\ y.den = 1 /\ y.num \in -MaxPower .. MaxPower ->
         LET z == Powered(x, y.num)
         IN  IF y.kind = "float" /\ z.kind = "int" THEN Float(z.num, 1) ELSE z
    [] Real(x) /\ Real(y) /\ y.den # 1 /\ Negative(x) -> Complex
    [] OTHER -> Unknown

Arithmetic(x, op, y) ==
  IF op \in {"/", "//", "%"} /\ Zero(y) THEN Unknown
  ELSE CASE op = "+" -> Fraction(x, y, x.num * y.den + y.num * x.den, x.den * y.den)
         [] op = "-" -> Fraction(x, y, x.num * y.den - y.num * x.den, x.den * y.den)
         [] op = "*" -> Fraction(x, y, x.num * y.num, x.den * y.den)
         [] op = "/" -> LET q == x.den * y.num
                        IN  IF q > 0 THEN Float(x.num * y.den, q) ELSE Float(-(x.num * y.den), -q)
         [] op = "//" -> Fraction(x, y, Floor(x, y), 1)
         [] op = "%" -> LET q == x.den * y.den
                        IN  Fraction(x, y, x.num * y.den - Floor(x, y) * y.num * x.den, q)

Shift(x, op, y) ==
  IF x.kind = "int" /\ y.kind = "int" /\ y.num >= 0
  THEN Integer(IF op = "<<" THEN x.num * 2 ^ y.num ELSE x.num \div 2 ^ y.num)
  ELSE Unknown

\* Bit i of an integer, which is in two's complement; bit MaxBits stands for all above.
BitRange == -(2 ^ MaxBits) .. 2 ^ MaxBits - 1
Bit(v, i) == (v \div 2 ^ i) % 2
Combined(op, a, b) == CASE op = "&" -> a * b
                        [] op = "|" -> a + b - a * b
                        [] op = "^" -> (a + b) % 2

Bitwise(x, op, y) ==
  LET made(v) == \A i \in 0 .. MaxBits : Bit(v, i) = Combined(op, Bit(x.num, i), Bit(y.num, i))
  IN  IF /\ x.kind = "int" /\ y.kind = "int" /\ {x.num, y.num} \subseteq BitRange
         /\ \E v \in BitRange : made(v)
      THEN Integer(CHOOSE v \in BitRange : made(v))
      ELSE Unknown

\* eval of "x op y".
Apply(x, op, y) ==
  IF op = "**" THEN Power(x, y)
  ELSE IF Unknown \in {x, y} THEN Unknown
  ELSE IF op \in {"<<", ">>"} THEN Shift(x, op, y)
  ELSE IF op \in {"&", "|", "^"} THEN Bitwise(x, op, y)
  ELSE IF Complex \notin {x, y} THEN Arithmetic(x, op, y)
  ELSE IF op \in {"+", "-", "*"} \/ (op = "/" /\ ~ Zero(y)) THEN Complex ELSE Unknown

Negated(x) == [x EXCEPT !.num = -@]

-----------------------------------------------------------------------------
(* Texts: the number it evaluates to, and the one it evaluates to with a   *)
(* minus in front; whether its first character is a minus; whether it is   *)
(* an operation that is not in parentheses.                                *)

Atom(x, minus) == [num |-> x, flip |-> Negated(x), minus |-> minus, open |-> FALSE]

Named == Atom(Unknown, FALSE)    \* a variable, a call
IntText(v) == Atom(Integer(v), v < 0)
Parenthesised(text) == Atom(text.num, FALSE)

\* -{text}
Minus(text) == [num |-> text.flip, flip |-> text.num, minus |-> TRUE, open |-> TRUE]

\* {l} {op} {r}.  A minus in front of l is part of it, but not for **.
Operation(l, op, r) ==
  LET value(x) == IF op = "**" /\ l.minus
                  THEN Negated(Apply(Negated(x), op, r.num))
                  ELSE Apply(x, op, r.num)
  IN  [num |-> value(l.num),
       flip |-> IF op = "**" THEN Negated(value(l.num)) ELSE value(l.flip),
       minus |-> l.minus,
       open |-> TRUE]

\* Int.check_literal_bounds.  A complex number is not comparable: an exception, caught.
CheckLiteralBounds(n, signed, text) ==
  CASE text.num.kind = "float" /\ Negative(text.num) /\ ~ signed -> Minus(text)
    [] text.num.kind = "int" /\ text.num.num \notin Low(n, signed) .. Up(n, signed) ->
         IntText(Reduced(n, signed, text.num.num))
    [] OTHER -> text

\* Int.check_binop_bounds: the exponent, or the base if nothing is known of either; the
\* operator; and the other right operands.
CheckExponent(l, r) ==
  [left |-> IF l.num = Unknown /\ r.num = Unknown THEN IntText(1) ELSE l,
   right |-> IF Negative(r.num) THEN Minus(r) ELSE r]

CheckShift(r) ==
  IF ~ Real(r.num) \/ r.num.num <= Word * r.num.den THEN r
  ELSE IF r.num.kind = "int" THEN IntText(r.num.num % (Word + 1))
  ELSE Atom(Arithmetic(r.num, "%", Integer(Word + 1)), FALSE)

CheckDivisor(r) == IF Zero(r.num) THEN IntText(1) ELSE r

CheckBinopBounds(n, l, op, r) ==
  LET op1 == IF op \in {"<<", ">>"} /\ n # Word THEN "+" ELSE op
      e == CheckExponent(l, r)
  IN  CASE op1 = "**" -> [left |-> e.left, op |-> op1, right |-> e.right]
        [] op1 \in {"<<", ">>"} -> [left |-> l, op |-> op1, right |-> CheckShift(r)]
        [] op1 \in {"/", "%"} -> [left |-> l, op |-> op1, right |-> CheckDivisor(r)]
        [] OTHER -> [left |-> l, op |-> op1, right |-> r]

\* It compares the exponent with 0 and the shift with 256, outside of its try blocks.
BinopRaises(n, op, r) ==
  r.num = Complex /\ (op = "**" \/ (op \in {"<<", ">>"} /\ n = Word))

=============================================================================
