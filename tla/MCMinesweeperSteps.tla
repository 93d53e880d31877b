------------------------- MODULE MCMinesweeperSteps -------------------------
(***************************************************************************)
(* Model checking MinesweeperSteps: the refinement and termination on a    *)
(* board of three cells a side, and what an uninitialised is_debug does to *)
(* a board of nine, which the test pattern just fits.                      *)
(***************************************************************************)
EXTENDS MinesweeperSteps

CONSTANT MaxFlags   \* the most flags on a board whose successors TLC explores

FewFlags == Cardinality({c \in Cells : immap[c] = FLAGGED}) <= MaxFlags

(* Only the cursor moves before the first poke or flag, and that key. *)
FirstMove == is_first \/ pc # "main"

(* Of the boards that are the same turned or mirrored two are explored     *)
(* after the first move, since the calls of the recursion have an order;   *)
(* a board with more mines than cells has nothing of its own then.         *)
FewBoards ==
  /\ FewFlags
  /\ \/ FirstMove
     \/ MinesIn(remap) \subseteq {<<0, 0>>, <<1, 0>>, <<1, 1>>, <<2, 1>>, <<2, 2>>}

=============================================================================
