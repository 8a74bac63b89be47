---------------------------- MODULE ResponseSize ----------------------------
(***************************************************************************)
(* What both collectors count with: the digits of row_count.               *)
(***************************************************************************)
EXTENDS Integers

decimalDigits[n \in Nat] == IF n < 10 THEN 1 ELSE 1 + decimalDigits[n \div 10]
=============================================================================
