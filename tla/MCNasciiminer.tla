--------------------------- MODULE MCNasciiminer ---------------------------
(* Nasciiminer with a map of three layers: at one end of it, in the middle  *)
(* and at the other end, every way a frame can overlap a change of layer.   *)
EXTENDS Nasciiminer

=============================================================================
