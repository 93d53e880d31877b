---------------------------- MODULE Nasciiminer ----------------------------
(***************************************************************************)
(* The two threads of nasciiminer (nasciiminer/engine.cpp, main.cpp):      *)
(* simulate_frame reads keys and changes the current layer, render_frame   *)
(* draws it.  They share key and currlayer without any synchronisation, so *)
(* a step is one access of one of them.  The Makefile builds without       *)
(* optimisation: each access in the source is one to memory, and so is the *)
(* value that ++ and -- leave in currlayer before it is clamped.           *)
(*                                                                         *)
(* A layer drawn from outside the map is undefined behaviour; here the     *)
(* program dies of it, or draws something and goes on.                     *)
(***************************************************************************)
EXTENDS Integers

CONSTANTS
  Depth,      \* the depth map_generate is called with
  FrameReads  \* how often a frame reads currlayer

ASSUME DepthAssumption == Depth \in Nat
ASSUME FrameReadsAssumption == FrameReads \in Nat \ {0}

VARIABLES
  key,        \* the key getch returned last
  currlayer,
  sim,        \* where simulate_frame is
  rend,       \* where render_frame is
  left,       \* the reads of currlayer left in this frame
  alive       \* the process has not died

vars == <<key, currlayer, sim, rend, left, alive>>

Keys == {"z", "x", "q", "other"}   \* other: also none, when getch times out

(* Mutations for the runs: the upper bound of the clamp is one too high, or *)
(* it is forgotten.                                                        *)
clamp_ui64_Wide(val, min, max) ==
  IF val < min THEN min ELSE IF val > max + 1 THEN max + 1 ELSE val

clamp_ui64_NoMax(val, min, max) == IF val < min THEN min ELSE val

clamp_ui64(val, min, max) ==
  IF val < min THEN min ELSE IF val > max THEN max ELSE val

(* map_generate: a top layer, a bottom one, and what is asked for between. *)
Layers == 1 + clamp_ui64(Depth, 1, 64) + 1

InMap(layer) == layer \in 1 .. Layers

-----------------------------------------------------------------------------
(* simulate_frame *)

GetKey ==
  /\ alive /\ sim = "getch"
  /\ key' \in Keys
  /\ sim' = CASE key' = "q" -> "done"
              [] key' = "z" -> "dec"
              [] key' = "x" -> "inc"
              [] OTHER      -> "getch"
  /\ UNCHANGED <<currlayer, rend, left, alive>>

(* dec_layer and inc_layer: -- or ++ first, then the store of what it is   *)
(* clamped to.                                                             *)
StepLayer ==
  /\ alive /\ sim \in {"dec", "inc"}
  /\ currlayer' = IF sim = "dec" THEN currlayer - 1 ELSE currlayer + 1
  /\ sim' = "clamp"
  /\ UNCHANGED <<key, rend, left, alive>>

ClampLayer ==
  /\ alive /\ sim = "clamp"
  /\ currlayer' = clamp_ui64(currlayer, 1, Layers)
  /\ sim' = "getch"
  /\ UNCHANGED <<key, rend, left, alive>>

Simulate == GetKey \/ StepLayer \/ ClampLayer

-----------------------------------------------------------------------------
(* render_frame *)

(* A mutation for the runs: the loop goes on without a look at the key. *)
AfterSleep_NoCheck == "size"

(* The continue and the end of the body both lead to the loop's condition. *)
AfterSleep == "loop"

CheckKey ==
  /\ alive /\ rend = "loop"
  /\ rend' = IF key = "q" THEN "done" ELSE "size"
  /\ UNCHANGED <<key, currlayer, sim, left, alive>>

TerminalTooSmall ==
  /\ alive /\ rend = "size"
  /\ rend' = "sleep"
  /\ UNCHANGED <<key, currlayer, sim, left, alive>>

BeginFrame ==
  /\ alive /\ rend = "size"
  /\ rend' = "map" /\ left' = FrameReads
  /\ UNCHANGED <<key, currlayer, sim, alive>>

(* render_map reads currlayer for every row and every character. *)
ReadLayer ==
  /\ alive /\ rend = "map" /\ left > 0
  /\ alive' \in IF InMap(currlayer) THEN {TRUE} ELSE BOOLEAN
  /\ left' = left - 1
  /\ UNCHANGED <<key, currlayer, sim, rend>>

EndFrame ==
  /\ alive /\ rend = "map" /\ left = 0
  /\ rend' = "sleep"
  /\ UNCHANGED <<key, currlayer, sim, left, alive>>

(* sleep_for returns. *)
Wake ==
  /\ alive /\ rend = "sleep"
  /\ rend' = AfterSleep
  /\ UNCHANGED <<key, currlayer, sim, left, alive>>

Render == CheckKey \/ TerminalTooSmall \/ BeginFrame \/ ReadLayer \/ EndFrame \/ Wake

-----------------------------------------------------------------------------

(* main joins both threads and returns; a process that died stays dead. *)
Ended == rend = "done" /\ sim = "done"

Stopped == (Ended \/ ~alive) /\ UNCHANGED vars

Init ==
  /\ key = "other" /\ currlayer = 1
  /\ sim = "getch" /\ rend = "loop" /\ left = 0
  /\ alive = TRUE

Next == Simulate \/ Render \/ Stopped

Spec == Init /\ [][Next]_vars

(* Each thread runs on, whatever the other does: none of them waits for    *)
(* the other, and getch and sleep_for time out.                            *)
FairSpec == Spec /\ WF_vars(Simulate) /\ WF_vars(Render)

-----------------------------------------------------------------------------

(* Type invariant. *)
TypeOK ==
  /\ key \in Keys
  /\ currlayer \in 0 .. Layers + 1
  /\ sim \in {"getch", "dec", "inc", "clamp", "done"}
  /\ rend \in {"loop", "size", "map", "sleep", "done"}
  /\ left \in 0 .. FrameReads
  /\ alive \in BOOLEAN

(* The current layer is outside the map only between the two stores of     *)
(* inc_layer or dec_layer, and then the last key was the one that moves    *)
(* past the first or the last layer.                                       *)
OutsideOnlyMidUpdate ==
  ~InMap(currlayer) =>
    /\ sim = "clamp"
    /\ \/ key = "z" /\ currlayer = 0
       \/ key = "x" /\ currlayer = Layers + 1

(* When q has been pressed both threads end, whatever the renderer is      *)
(* doing and however small the terminal is, unless the process dies first. *)
QuitEnds == (key = "q") ~> (Ended \/ ~alive)

=============================================================================
