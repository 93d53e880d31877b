--------------------------- MODULE MCNumbersGame ---------------------------
(***************************************************************************)
(* Model checking NumbersGame with two processes.                          *)
(***************************************************************************)
EXTENDS NumbersGame, TLC

Symmetry == Permutations(Procs)

=============================================================================
