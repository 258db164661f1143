------------------------------- MODULE Powers -------------------------------
(***************************************************************************)
(* Powers of a number as a recursive function, for the modules that state  *)
(* theorems about them.                                                    *)
(***************************************************************************)
EXTENDS Integers

\* b multiplied n times with itself.
Power(b, n) ==
  LET power[k \in Nat] == IF k = 0 THEN 1 ELSE b * power[k - 1]
  IN power[n]
=============================================================================
