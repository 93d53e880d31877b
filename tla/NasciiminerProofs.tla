------------------------- MODULE NasciiminerProofs -------------------------
(***************************************************************************)
(* The safety properties of module Nasciiminer, for maps of any depth and  *)
(* frames of any length.                                                   *)
(***************************************************************************)
EXTENDS Nasciiminer, TLAPS

(* map_generate makes three layers at least, whatever depth it is given. *)
LEMMA LayersType == Layers \in Nat /\ Layers >= 3
BY DepthAssumption DEF Layers, clamp_ui64

(* clamp_ui64 returns a value between its bounds. *)
LEMMA Clamped ==
  ASSUME NEW val \in Int, NEW min \in Int, NEW max \in Int, min <= max
  PROVE  clamp_ui64(val, min, max) \in min .. max
BY DEF clamp_ui64

(* What the store in between leaves in currlayer depends on where in the    *)
(* map it was: simulate_frame is the only writer of key and currlayer, it   *)
(* starts every change from a layer of the map, and q is the last key it    *)
(* reads.                                                                   *)
WithinUnlessClamping == sim # "clamp" => InMap(currlayer)

KeyOfStep ==
  /\ sim = "dec" => key = "z"
  /\ sim = "inc" => key = "x"
  /\ key = "q" => sim = "done"

IInv == TypeOK /\ OutsideOnlyMidUpdate /\ WithinUnlessClamping /\ KeyOfStep

(* The engine starts on the first layer, and every access of either thread  *)
(* keeps the inductive invariant.                                           *)
THEOREM Invariance == Spec => []IInv
<1>1. Init => IInv
  BY LayersType, FrameReadsAssumption
  DEF Init, IInv, TypeOK, OutsideOnlyMidUpdate, WithinUnlessClamping, KeyOfStep, InMap, Keys
<1>2. IInv /\ [Next]_vars => IInv'
  <2> SUFFICES ASSUME IInv, [Next]_vars PROVE IInv'
    OBVIOUS
  <2> USE LayersType, FrameReadsAssumption
      DEF IInv, TypeOK, OutsideOnlyMidUpdate, WithinUnlessClamping, KeyOfStep, InMap
  <2>1. CASE GetKey
    BY <2>1 DEF GetKey, Keys
  <2>2. CASE StepLayer
    BY <2>2 DEF StepLayer
  <2>3. CASE ClampLayer
    <3>1. clamp_ui64(currlayer, 1, Layers) \in 1 .. Layers
      BY Clamped
    <3> QED
      BY <2>3, <3>1 DEF ClampLayer
  <2>4. CASE CheckKey
    BY <2>4 DEF CheckKey
  <2>5. CASE TerminalTooSmall
    BY <2>5 DEF TerminalTooSmall
  <2>6. CASE BeginFrame
    BY <2>6 DEF BeginFrame
  <2>7. CASE ReadLayer
    <3>1. alive' \in BOOLEAN
      BY <2>7, Zenon DEF ReadLayer
    <3>2. left' \in 0 .. FrameReads
      BY <2>7 DEF ReadLayer
    <3>3. UNCHANGED <<key, currlayer, sim, rend, Layers>>
      BY <2>7 DEF ReadLayer, Layers
    <3> QED
      BY <3>1, <3>2, <3>3
  <2>8. CASE EndFrame
    BY <2>8 DEF EndFrame
  <2>9. CASE Wake
    BY <2>9 DEF Wake, AfterSleep
  <2>10. CASE UNCHANGED vars
    BY <2>10 DEF vars
  <2> QED
    BY <2>1, <2>2, <2>3, <2>4, <2>5, <2>6, <2>7, <2>8, <2>9, <2>10
    DEF Next, Simulate, Render, Stopped
<1> QED
  BY <1>1, <1>2, PTL DEF Spec

(* The types of key, currlayer and of where the threads are hold always.    *)
THEOREM TypeCorrect == Spec => []TypeOK
BY Invariance, PTL DEF IInv

(* currlayer leaves the map only between the two stores of inc_layer and    *)
(* dec_layer, at the end of the map that the key moves past.                *)
THEOREM OutsideOnlyBetweenStores == Spec => []OutsideOnlyMidUpdate
BY Invariance, PTL DEF IInv

(* How many steps render_frame can still take when q has been pressed: it   *)
(* finishes the frame it is in, sleeps and looks at the key.                *)
RenderLeft ==
  CASE rend = "done"  -> 0
    [] rend = "loop"  -> 1
    [] rend = "sleep" -> 2
    [] rend = "map"   -> 3 + left
    [] OTHER          -> 4 + FrameReads

(* When q has been pressed simulate_frame is done and nothing takes the key *)
(* back, and every access of render_frame brings it closer to its end: it   *)
(* begins no frame after the one it is in.                                  *)
THEOREM QuitCountsDown ==
  Spec => [][key = "q" =>
               /\ sim = "done" /\ key' = "q"
               /\ Render => RenderLeft \in Nat /\ RenderLeft' < RenderLeft]_vars
<1> DEFINE Closer == key = "q" =>
                       /\ sim = "done" /\ key' = "q"
                       /\ Render => RenderLeft \in Nat /\ RenderLeft' < RenderLeft
<1>1. IInv /\ [Next]_vars => [Closer]_vars
  <2> SUFFICES ASSUME IInv, Next, key = "q"
               PROVE  /\ sim = "done" /\ key' = "q"
                      /\ Render => RenderLeft \in Nat /\ RenderLeft' < RenderLeft
    BY Zenon
  <2>1. sim = "done" /\ left \in 0 .. FrameReads /\ FrameReads \in Nat
    BY FrameReadsAssumption DEF IInv, KeyOfStep, TypeOK
  <2>2. rend \in {"loop", "size", "map", "sleep", "done"}
    BY DEF IInv, TypeOK
  <2>3. key' = "q"
    BY <2>1 DEF Next, Simulate, GetKey, StepLayer, ClampLayer, Render, CheckKey,
         TerminalTooSmall, BeginFrame, ReadLayer, EndFrame, Wake, Stopped, vars
  <2>4. RenderLeft \in Nat
    BY <2>1, <2>2 DEF RenderLeft
  <2> SUFFICES ASSUME Render
               PROVE  RenderLeft' < RenderLeft
    BY <2>1, <2>3, <2>4
  <2>5. CASE CheckKey \/ Wake
    <3>1. \/ rend = "loop" /\ rend' = "done"
          \/ rend = "sleep" /\ rend' = "loop"
      BY <2>5 DEF CheckKey, Wake, AfterSleep
    <3> QED
      BY <3>1 DEF RenderLeft
  <2>6. CASE TerminalTooSmall \/ BeginFrame
    BY <2>1, <2>6 DEF TerminalTooSmall, BeginFrame, RenderLeft
  <2>7. CASE ReadLayer
    <3>1. rend = "map" /\ rend' = "map" /\ left' = left - 1
      BY <2>7 DEF ReadLayer
    <3>2. RenderLeft = 3 + left /\ RenderLeft' = 3 + left'
      BY <3>1 DEF RenderLeft
    <3> QED
      BY <2>1, <3>1, <3>2
  <2>8. CASE EndFrame
    BY <2>1, <2>8 DEF EndFrame, RenderLeft
  <2> QED
    BY <2>5, <2>6, <2>7, <2>8 DEF Render
<1> QED
  BY <1>1, Invariance, PTL DEF Spec

=============================================================================
