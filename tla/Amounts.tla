------------------------------ MODULE Amounts ------------------------------
(***************************************************************************)
(* Exact amounts, as the Decimal of core/money is at this scale: an average *)
(* is a fraction <<n, d>> with d > 0.                                      *)
(***************************************************************************)
EXTENDS Integers

Lesser(a, b) == IF a <= b THEN a ELSE b
Whole(n) == <<n, 1>>
Plus(a, b) == IF a[2] = b[2] THEN <<a[1] + b[1], a[2]>>
              ELSE <<a[1] * b[2] + b[1] * a[2], a[2] * b[2]>>
Times(k, a) == <<k * a[1], a[2]>>
SameAmount(a, b) == a[1] * b[2] = b[1] * a[2]
AtMost(a, b) == a[1] * b[2] <= b[1] * a[2]
=============================================================================
