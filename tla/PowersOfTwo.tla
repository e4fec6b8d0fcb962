----------------------------- MODULE PowersOfTwo -----------------------------
(***************************************************************************)
(* The powers of two, for the modules that count bits or shift: a function *)
(* of its own, since the provers know nothing of the operator ^.           *)
(***************************************************************************)
EXTENDS Integers

\* LShiftU64 (1, n) in the code, as long as nothing is shifted out.
Pow2[n \in Nat] == IF n = 0 THEN 1 ELSE 2 * Pow2[n - 1]
=============================================================================
