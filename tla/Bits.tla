-------------------------------- MODULE Bits --------------------------------
(***************************************************************************)
(* The puzzles of bits.c and their reference functions of tests.c, with    *)
(* ints of Width bits and floats of one sign bit, ExpBits and FracBits.    *)
(* An int is a number in Ints, computed modulo 2^Width as on the machine.  *)
(* The code's literals are written with the widths they stand for; the     *)
(* float puzzles work on patterns, that is, unsigned numbers.              *)
(***************************************************************************)
EXTENDS Integers, Bitwise

CONSTANTS Width, ExpBits, FracBits

ASSUME WidthAssumption ==
    /\ {Width, ExpBits, FracBits} \subseteq Nat \ {0}
    /\ Width = 1 + ExpBits + FracBits /\ Width > 7
    /\ 2^(ExpBits - 1) >= Width     \* infinity is out of the range of an int

Size == 2^Width
TMin == -(Size \div 2)
TMax == Size \div 2 - 1
Ints == TMin .. TMax

(* The operators of C.                                                     *)
Unsigned(x) == x % Size
Signed(u)   == IF (u % Size) > TMax THEN (u % Size) - Size ELSE u % Size
Plus(x, y)  == Signed(x + y)
BitNot(x)   == -x - 1
BitAnd(x, y) == Signed(Unsigned(x) & Unsigned(y))
BitOr(x, y)  == Signed(Unsigned(x) | Unsigned(y))
BitXor(x, y) == Signed(Unsigned(x) ^^ Unsigned(y))
Shl(x, n)   == Signed(x * 2^n)
Shr(x, n)   == x \div 2^n
Bool(p)     == IF p THEN 1 ELSE 0
LNot(x)     == Bool(x = 0)
-----------------------------------------------------------------------------
bitXor(x, y) ==
    LET nand == BitNot(BitAnd(x, y))
    IN  BitNot(BitAnd(BitNot(BitAnd(x, nand)), BitNot(BitAnd(y, nand))))

tmin == Shl(1, Width - 1)

(* Seeded fault: -1, whose successor is 0, passes for the maximum.         *)
isTmax_MinusOne(x) == LNot(BitNot(Plus(x, Plus(x, 1))))

isTmax(x) ==
    LET i == Plus(x, 1)
    IN  LNot(Plus(BitNot(Plus(x, i)), LNot(i)))

(* m is built from the byte 0xAA, four times over.                         *)
allOddBits(x) ==
    LET wider(m) == BitOr(Shl(m, 8), m)
        m == wider(wider(wider(wider(Signed(170)))))
    IN  LNot(BitXor(BitAnd(x, m), m))

negate(x) == Plus(BitNot(x), 1)

isAsciiDigit(x) ==
    LET sign       == Shl(1, Width - 1)
        upperBound == BitNot(BitOr(sign, 57))
        lowerBound == BitNot(48)
        above      == BitAnd(sign, Shr(Plus(upperBound, x), Width - 1))
        below      == BitAnd(sign, Shr(Plus(Plus(lowerBound, 1), x), Width - 1))
    IN  LNot(BitOr(above, below))

conditional(x, y, z) ==
    LET flag == Plus(BitNot(LNot(LNot(x))), 1)
    IN  BitOr(BitAnd(flag, y), BitAnd(BitNot(flag), z))

(* Seeded fault: the signs are not compared first.                         *)
isLessOrEqual_Subtracts(x, y) == LNot(Shr(Plus(y, Plus(BitNot(x), 1)), Width - 1))

isLessOrEqual(x, y) ==
    LET sign == BitXor(LNot(Shr(x, Width - 1)), LNot(Shr(y, Width - 1)))
        a    == BitAnd(sign, Shr(x, Width - 1))
        b    == BitAnd(LNot(sign), LNot(Shr(Plus(y, Plus(BitNot(x), 1)), Width - 1)))
    IN  BitOr(a, b)

logicalNeg(x) == Plus(Shr(BitOr(x, Plus(BitNot(x), 1)), Width - 1), 1)

(* The highest bit set is found by halves: if there is anything above the  *)
(* lowest n bits, those n are counted and shifted out.                     *)
howManyBits(x0) ==
    LET sign == Shr(x0, Width - 1)
        x    == BitOr(BitAnd(sign, BitNot(x0)), BitAnd(BitNot(sign), x0))
        bits[n \in {2^k : k \in 0 .. Width}, y \in Ints] ==
            IF n = 1 THEN LNot(LNot(Shr(y, 1))) + Shr(y, LNot(LNot(Shr(y, 1))))
            ELSE IF LNot(LNot(Shr(y, n))) = 1 THEN n + bits[n \div 2, Shr(y, n)]
                 ELSE bits[n \div 2, y]
    IN  bits[Width \div 2, x] + 1
-----------------------------------------------------------------------------
(* The float puzzles.  Shifts and masks of a pattern are written as what   *)
(* they pick out.                                                          *)
ExpOf(uf)  == (uf \div 2^FracBits) % 2^ExpBits
FracOf(uf) == uf % 2^FracBits
SignOf(uf) == uf \div 2^(Width - 1)
Pattern(sign, exp, frac) == sign * 2^(Width - 1) + exp * 2^FracBits + frac
Bias    == 2^(ExpBits - 1) - 1
ExpOnes == 2^ExpBits - 1

(* Of a denormalised number the fraction moves up, into the exponent if    *)
(* it is large enough.                                                     *)
floatScale2(uf) ==
    LET exp  == ExpOf(uf)
        sign == SignOf(uf)
    IN  CASE exp = 0           -> Pattern(sign, 0, 2 * FracOf(uf))
          [] exp = ExpOnes     -> uf
          [] exp = ExpOnes - 1 -> Pattern(sign, ExpOnes, 0)
          [] OTHER             -> Pattern(sign, exp + 1, FracOf(uf))

floatFloat2Int(uf) ==
    LET sign == SignOf(uf)
        exp  == ExpOf(uf) - Bias
        ones == FracOf(uf) + 2^FracBits
        frac == IF exp > FracBits THEN Shl(ones, exp - FracBits)
                ELSE Shr(ones, FracBits - exp)
    IN  CASE exp > Width - 1                -> TMin
          [] exp < 0                        -> 0
          [] exp \in 0 .. Width - 1 /\ frac < 0 -> TMin
          [] exp \in 0 .. Width - 1 /\ frac >= 0 -> IF sign = 0 THEN frac ELSE Plus(BitNot(frac), 1)

(* Near the maximum x + 127 overflows, which C leaves undefined: compilers *)
(* compare x instead, so the sum is taken without wrapping.                *)
floatPower2(x) ==
    LET least == -(Bias + FracBits - 1)
        exp   == x + Bias
    IN  CASE x \in least .. -Bias -> 2^(x - least)
          [] x \notin least .. -Bias /\ exp <= 0 -> 0
          [] exp >= ExpOnes -> Pattern(0, ExpOnes, 0)
          [] OTHER -> Pattern(0, exp, 0)
-----------------------------------------------------------------------------
(* The reference functions.  A finite float is Magnitude times the         *)
(* smallest denormalised number.                                           *)
test_bitXor(x, y)        == BitXor(x, y)
test_tmin                == TMin
test_isTmax(x)           == Bool(x = TMax)
test_allOddBits(x)       == Bool(\A n \in {m \in 0 .. Width - 1 : m % 2 = 1} :
                                   (Unsigned(x) \div 2^n) % 2 = 1)
test_negate(x)           == Signed(-x)
test_isAsciiDigit(x)     == Bool(48 <= x /\ x <= 57)
test_conditional(x, y, z) == IF x # 0 THEN y ELSE z
test_isLessOrEqual(x, y) == Bool(x <= y)
test_logicalNeg(x)       == Bool(x = 0)

test_howManyBits(x) ==
    LET a == IF x < 0 THEN -x - 1 ELSE x
    IN  1 + CHOOSE cnt \in 0 .. Width : a < 2^cnt /\ \A c \in 0 .. cnt - 1 : a >= 2^c

Magnitude(uf) ==
    IF ExpOf(uf) = 0 THEN FracOf(uf)
    ELSE (2^FracBits + FracOf(uf)) * 2^(ExpOf(uf) - 1)

isnan(uf) == ExpOf(uf) = ExpOnes /\ FracOf(uf) # 0

(* f2u of a number given by its magnitude: representable, or too large.    *)
f2u(sign, magnitude) ==
    IF magnitude >= Magnitude(Pattern(0, ExpOnes, 0)) THEN Pattern(sign, ExpOnes, 0)
    ELSE CHOOSE uf \in 0 .. Size - 1 : SignOf(uf) = sign /\ Magnitude(uf) = magnitude

test_floatScale2(uf) == IF isnan(uf) THEN uf ELSE f2u(SignOf(uf), 2 * Magnitude(uf))

(* The conversion of the machine gives TMin for what does not fit.         *)
test_floatFloat2Int(uf) ==
    LET whole == Magnitude(uf) \div 2^(Bias + FracBits - 1)
        value == IF SignOf(uf) = 0 THEN whole ELSE -whole
    IN  IF ExpOf(uf) = ExpOnes \/ value \notin Ints THEN TMin ELSE value

(* Multiplying ones half of p2 by itself loses nothing until it is 0 or    *)
(* infinite.                                                               *)
test_floatPower2(x) ==
    LET least == -(Bias + FracBits - 1)
    IN  CASE x < least -> 0
          [] x > Bias  -> Pattern(0, ExpOnes, 0)
          [] OTHER     -> f2u(0, 2^(x - least))
=============================================================================
