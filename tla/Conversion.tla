----------------------------- MODULE Conversion -----------------------------
(***************************************************************************)
(* The conversions between the raw values of a register and the values of  *)
(* the user type: numeric::convert() and RawConverter::Converter.          *)
(*                                                                         *)
(* A real number is kept as an integer, in multiples of 1/Unit. A byte has *)
(* BitsPerByte bits, so that all values can be enumerated; the floating    *)
(* point types have a mantissa which is shorter than the integers of their *)
(* size, like float (24 of 32 bits) and double (53 of 64), and exponents   *)
(* without bound.                                                          *)
(***************************************************************************)
EXTENDS Integers, Sequences

CONSTANTS BitsPerByte, FloatBits, DoubleBits, Unit

IntegerType(bytes, signed) == [kind |-> "integer", bits |-> bytes * BitsPerByte, signed |-> signed]
Float == [kind |-> "float", bits |-> FloatBits, signed |-> TRUE]
Double == [kind |-> "float", bits |-> DoubleBits, signed |-> TRUE]
BooleanType == [kind |-> "boolean", bits |-> 1, signed |-> FALSE]
Void == [kind |-> "void", bits |-> 0, signed |-> FALSE]

IsFloat(type) == type.kind = "float"
Highest(type) == 2 ^ (IF type.signed THEN type.bits - 1 ELSE type.bits) - 1
Lowest(type) == IF type.signed THEN -(2 ^ (type.bits - 1)) ELSE 0

\* n as two's complement number of so many bits.
Wrapped(n, bits, signed) ==
  LET u == n % (2 ^ bits) IN IF signed /\ u >= 2 ^ (bits - 1) THEN u - 2 ^ bits ELSE u

-----------------------------------------------------------------------------
(* Floating point arithmetic (of the processor): to nearest, ties to even. *)

Abs(x) == IF x < 0 THEN -x ELSE x

Rounded(type, x) ==
  LET ulp == 2 ^ (CHOOSE e \in 0 .. 30 :
                    Abs(x) < 2 ^ (type.bits + e) /\ (e > 0 => Abs(x) >= 2 ^ (type.bits + e - 1)))
      q == Abs(x) \div ulp
      r == Abs(x) % ulp
      up == 2 * r > ulp \/ (2 * r = ulp /\ q % 2 = 1)
      a == ulp * (IF up THEN q + 1 ELSE q)
  IN  IF x < 0 THEN -a ELSE a

\* A cast to an integer.
Truncated(x) == IF x < 0 THEN -((-x) \div Unit) ELSE x \div Unit

-----------------------------------------------------------------------------
(* numeric::convert() *)

\* detail::roundAndCast()
RoundAndCast(to, from, x) ==
  IF to = BooleanType THEN IF 2 * Abs(x) >= Unit THEN 1 ELSE 0
  ELSE Truncated(Rounded(from, IF x >= 0 THEN x + Unit \div 2 ELSE x - Unit \div 2))

\* detail::greaterMaximum() and lesserMinimum(). All integers are in the range
\* of the floating point types.
GreaterMaximum(left, right) ==
  /\ left.kind # "boolean"
  /\ right.kind = "boolean" \/ IsFloat(left) \/ (~IsFloat(right) /\ Highest(left) > Highest(right))
LesserMinimum(left, right) == IsFloat(left) \/ Lowest(left) < Lowest(right)

\* An integer as value of the other type.
As(type, n) == IF IsFloat(type) THEN Rounded(type, n * Unit) ELSE n * Unit

\* Mistake: the signedness of the target is not looked at.
ConvertToIntegerWrapping(to, from, x) ==
  IF GreaterMaximum(from, to) /\ x >= As(from, Highest(to)) THEN Highest(to)
  ELSE IF IsFloat(from) THEN RoundAndCast(to, from, x)
  ELSE IF to = BooleanType THEN IF x = 0 THEN 0 ELSE 1
  ELSE Wrapped(Truncated(x), to.bits, to.signed)

\* The clamping, rounding and casting to an integer or to a Boolean.
ConvertToInteger(to, from, x) ==
  IF GreaterMaximum(from, to) /\ x >= As(from, Highest(to)) THEN Highest(to)
  ELSE IF from.signed /\ ~to.signed /\ to # BooleanType /\ x < 0 THEN 0
  ELSE IF from.signed /\ to.signed /\ LesserMinimum(from, to) /\ x <= As(from, Lowest(to)) THEN Lowest(to)
  ELSE IF IsFloat(from) THEN RoundAndCast(to, from, x)
  ELSE IF to = BooleanType THEN IF x = 0 THEN 0 ELSE 1
  ELSE Wrapped(Truncated(x), to.bits, to.signed)

Convert(to, from, x) ==
  IF to = from THEN x
  ELSE IF Void \in {to, from} THEN 0
  ELSE IF IsFloat(to) THEN Rounded(to, x)
  ELSE ConvertToInteger(to, from, x) * Unit

-----------------------------------------------------------------------------
(* RawConverter::Converter. A format has the number of bytes of the raw    *)
(* type, the width in bits, the fractional bits, and the sign.             *)

\* interpretArbitraryBitInteger(), which has variants for speed
Promoted(format, raw) == Wrapped(raw, format.width, format.signed)
PromotedType(format) == IntegerType(format.bytes, format.signed)

\* The types in between
FloatIntermediate(type) == IF type = Float THEN Float ELSE Double
IntIntermediate(format) == [kind |-> "integer", bits |-> 8 * BitsPerByte, signed |-> format.signed]

\* x * 2 ^ n
Scaled(x, n) == IF n >= 0 THEN x * 2 ^ n ELSE x \div 2 ^ (-n)

\* callForFractionalCase()
FractionalCase(format, type) ==
  IF format.fractional = 0 THEN "integer"
  ELSE IF format.fractional > 0 \/ IsFloat(type) THEN "floating"
  ELSE IF /\ type.kind = "integer" /\ type.signed = format.signed
          /\ type.bits >= format.width - format.fractional
       THEN "fixedNegativeFast"
  ELSE "fixedNegative"

ToCooked(format, type, raw) ==
  LET case == FractionalCase(format, type)
      value == Promoted(format, raw)
      float == FloatIntermediate(type)
      integer == IntIntermediate(format)
  IN  IF type = Void THEN 0
      ELSE IF case = "integer" THEN Convert(type, PromotedType(format), value * Unit)
      ELSE IF case = "floating" THEN Convert(type, float, Scaled(Rounded(float, value * Unit), -format.fractional))
      ELSE IF case = "fixedNegative"
           THEN Convert(type, integer, Wrapped(Scaled(value, -format.fractional), integer.bits, integer.signed) * Unit)
      ELSE Wrapped(Scaled(value, -format.fractional), type.bits, type.signed) * Unit

\* Mistake: the range of the raw type is used, not that of the width.
ToRawUnclamped(format, type, x) ==
  LET float == FloatIntermediate(type)
      value == IF FractionalCase(format, type) = "integer" THEN Convert(PromotedType(format), type, x)
               ELSE Convert(PromotedType(format), float, Scaled(Convert(float, type, x), format.fractional))
  IN  IF type = Void THEN 0 ELSE Truncated(value) % (2 ^ format.width)

ToRaw(format, type, x) ==
  LET float == FloatIntermediate(type)
      value == IF FractionalCase(format, type) = "integer" THEN Convert(PromotedType(format), type, x)
               ELSE Convert(PromotedType(format), float, Scaled(Convert(float, type, x), format.fractional))
      range == [kind |-> "integer", bits |-> format.width, signed |-> format.signed]
      clamped == IF Truncated(value) < Lowest(range) THEN Lowest(range)
                 ELSE IF Truncated(value) > Highest(range) THEN Highest(range) ELSE Truncated(value)
  IN  IF type = Void THEN 0 ELSE clamped % (2 ^ format.width)

-----------------------------------------------------------------------------
(* What the conversions promise: the nearest value in the range.           *)

\* To the nearest integer, halves away from zero.
NearestInteger(x) == IF x < 0 THEN -((2 * (-x) + Unit) \div (2 * Unit)) ELSE (2 * x + Unit) \div (2 * Unit)

InRange(type, n) == IF n < Lowest(type) THEN Lowest(type) ELSE IF n > Highest(type) THEN Highest(type) ELSE n

\* The value of the type for the number.
Nearest(type, x) ==
  CASE type.kind = "integer" -> InRange(type, NearestInteger(x)) * Unit
    [] type.kind = "boolean" -> IF NearestInteger(x) = 0 THEN 0 ELSE Unit
    [] type.kind = "float" -> Rounded(type, x)
    [] type.kind = "void" -> 0

\* The raw value for the number.
NearestRaw(format, x) ==
  LET range == [kind |-> "integer", bits |-> format.width, signed |-> format.signed]
  IN  InRange(range, NearestInteger(Scaled(x, format.fractional))) % (2 ^ format.width)

=============================================================================
