------------------------------ MODULE Fixed168 ------------------------------
(***************************************************************************)
(* The 16.8 signed fixed-point library of the flight controller            *)
(* (168mathlib_ram_v1.asm).  A register is its 24 bits read as one signed  *)
(* integer, so the number x is stored as 256 * x.  Nothing saturates: a    *)
(* result keeps its low 24 bits.                                           *)
(***************************************************************************)
EXTENDS Integers

Unit == 256
Half == 8388608                                 \* 2^23

Wrap(x) == ((x + Half) % (2 * Half)) - Half
Whole(n) == n * Unit                            \* b16ldi of a whole number

Add(x, y) == Wrap(x + y)
Sub(x, y) == Wrap(x - y)
Neg(x) == Wrap(-x)

Magnitude(x) == IF x < 0 THEN -x ELSE x

\* The product of the magnitudes, rounded by the top bit of the lost byte, and
\* then the sign
Product(x, y) ==
    LET rounded == (Magnitude(x) * Magnitude(y) + Unit \div 2) \div Unit
    IN  IF (x < 0) = (y < 0) THEN rounded ELSE -rounded

Mul(x, y) == Wrap(Product(x, y))

\* n shifts to the right; the bit that went out last rounds
FDiv(x, n) == (x + 2^(n - 1)) \div 2^n

\* ILimit, and the same code for the yaw command
Limited(x, limit) == IF x >= limit THEN limit ELSE IF x < -limit THEN -limit ELSE x
=============================================================================
