------------------------------ MODULE MCHidKye ------------------------------
(***************************************************************************)
(* Model checking HidKye: every product, with descriptors of its own of    *)
(* the sizes the driver asks for and around them, in which the report that *)
(* enables a tablet is there, is too short, or is not there, or which the  *)
(* HID core refuses.                                                       *)
(***************************************************************************)
EXTENDS HidKye

SomeItems ==
  { Enabling(-128) \o Keys(4, <<Count(4), Constant>>),
    Enabling_Six(-128),
    Mouse(1024, 768),
    <<Open>> \o Mouse(1024, 768),
    <<Pop>> }

SomeDescriptors ==
  [size : {74, 75, 113, 114, 134, 135, 476, 482}, expected : BOOLEAN, items : SomeItems]

(* The states TLC explores further: the driver is bound again twice. *)
FewOpens == opens \in -2 .. 2

=============================================================================
