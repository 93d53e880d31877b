------------------------- MODULE MCMinesweeperMain -------------------------
(***************************************************************************)
(* Model checking MinesweeperMain.  The clock jumps between the instants   *)
(* around which the timer's display changes.                               *)
(***************************************************************************)
EXTENDS MinesweeperMain

=============================================================================
