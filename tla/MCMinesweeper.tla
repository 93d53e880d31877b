--------------------------- MODULE MCMinesweeper ---------------------------
(***************************************************************************)
(* Model checking Minesweeper on a board of three cells a side.            *)
(***************************************************************************)
EXTENDS Minesweeper

CONSTANT MaxFlags   \* the most flags on a board whose successors TLC explores

FewFlags == Cardinality({c \in Cells : immap[c] = FLAGGED}) <= MaxFlags

=============================================================================
