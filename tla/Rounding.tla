------------------------------ MODULE Rounding ------------------------------
(* What becomes of a fraction a / b, b > 0, where the windows store it as a *)
(* whole number: int and qint64 cut it, x > 0 ? x + 0.5 : x - 0.5 makes it  *)
(* the nearest, halves away from 0.                                         *)
EXTENDS Integers

TruncDiv(a, b) == IF a >= 0 THEN a \div b ELSE -((-a) \div b)
RoundDiv(a, b) == IF a >= 0 THEN (2 * a + b) \div (2 * b) ELSE -((b - 2 * a) \div (2 * b))

Abs(x) == IF x < 0 THEN -x ELSE x
=============================================================================
