------------------------------- MODULE MCRvm -------------------------------
(***************************************************************************)
(* Recoverable virtual memory on small instances.                          *)
(***************************************************************************)
EXTENDS Rvm, TLC

\* Segments are interchangeable.
SegSymmetry == Permutations(Seg) \union Permutations(Handle)

=============================================================================
