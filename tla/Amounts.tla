------------------------------ MODULE Amounts ------------------------------
(* The arithmetic of unsigned amounts that every handler uses. *)
EXTENDS Integers

Least(a, b) == IF a < b THEN a ELSE b
Most(a, b) == IF a < b THEN b ELSE a

(* Subtraction that stops at zero. *)
Monus(a, b) == IF a > b THEN a - b ELSE 0

(* A share in basis points, rounded down. *)
Share(amount, bps) == (amount * bps) \div 10000
=============================================================================
