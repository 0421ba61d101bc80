---------------------------- MODULE PowersOfTwo ----------------------------
(***************************************************************************)
(* The powers of two, by which ranks and sizes are doubled and halved.     *)
(***************************************************************************)
EXTENDS Integers

pow2[n \in Nat] == IF n = 0 THEN 1 ELSE 2 * pow2[n - 1]

=============================================================================
