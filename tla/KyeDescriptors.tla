--------------------------- MODULE KyeDescriptors ---------------------------
(***************************************************************************)
(* The report descriptors that tablet-driver/hid-kye.c has for the tablets *)
(* to replace their own with, and what the HID core makes of one.          *)
(*                                                                         *)
(* A descriptor is a sequence of items.  Those about usages and physical   *)
(* units are left out, which the driver does not look at, and those that   *)
(* set again what is set.                                                  *)
(***************************************************************************)
EXTENDS Integers, Sequences

Item(tag, n) == [tag |-> tag, n |-> n]

Open == Item("collection", 0)
End  == Item("end", 0)
Push == Item("push", 0)
Pop  == Item("pop", 0)

Report(id)  == Item("report", id)
Size(bits)  == Item("size", bits)
Count(n)    == Item("count", n)
Minimum(n)  == Item("min", n)
Maximum(n)  == Item("max", n)

Input    == Item("input", 0)
Feature  == Item("feature", 0)
Constant == Item("constant", 0)   \* input bits that mean nothing

-----------------------------------------------------------------------------
(* The fixed descriptors *)

(* A mutation for the runs: the report has room for six of the values. *)
Enabling_Six(low) ==
  <<Open, Report(5)>> \o <<Minimum(low), Maximum(127), Size(8), Count(6), Feature>> \o <<End>>

(* The report that is sent to enable the tablet. *)
Enabling(low) ==
  <<Open, Report(5)>> \o <<Minimum(low), Maximum(127), Size(8), Count(7), Feature>> \o <<End>>

(* A mutation for the runs: the buttons are not filled up to a byte. *)
Pen_NoPadding(x, y, pressure) ==
  <<Open, Report(16), Open>>
    \o <<Minimum(0), Maximum(1), Size(1), Count(3), Input>> \o <<Count(1), Input>>
    \o <<Size(16), Count(1), Push>> \o <<Maximum(x), Input, Maximum(y), Input, Pop>>
    \o <<Maximum(pressure), Input>> \o <<End, End>>

(* Where the pen is, three buttons, whether it is in range, and how hard.  *)
Pen(x, y, pressure) ==
  <<Open, Report(16), Open>>
    \o <<Minimum(0), Maximum(1), Size(1), Count(3), Input>> \o <<Count(4), Constant, Count(1), Input>>
    \o <<Size(16), Count(1), Push>> \o <<Maximum(x), Input, Maximum(y), Input, Pop>>
    \o <<Maximum(pressure), Input>> \o <<End, End>>

Mouse(x, y) ==
  <<Open, Report(17), Open, Minimum(0), Push>>
    \o <<Size(1), Maximum(1), Count(3), Input>> \o <<Count(5), Constant, Pop>>
    \o <<Count(1), Push, Size(16)>> \o <<Maximum(x), Input, Maximum(y), Input, Pop>>
    \o <<Size(8), Minimum(-1), Maximum(1), Input, Constant>> \o <<End, End>>

Puck(x, y) ==
  <<Open, Report(17), Open>>
    \o <<Size(1), Minimum(0), Maximum(1), Count(3), Input>> \o <<Count(4), Constant, Count(1), Input>>
    \o <<Push, Size(16)>> \o <<Maximum(x), Input, Maximum(y), Input>>
    \o <<Size(8), Minimum(-1), Maximum(1), Input, Pop>> \o <<End, End>>

Keys(n, padding) ==
  <<Open, Report(18)>> \o <<Minimum(0), Maximum(1), Size(1), Count(n), Input>>
    \o padding \o <<End>>

easypen_M506_rdesc_fixed      == Enabling(-127) \o Pen(24576, 20480, 1023)
easypen_i405x_rdesc_fixed     == Enabling(-128) \o Pen(14080, 10240, 1023)
mousepen_i608x_rdesc_fixed    == Enabling(-128) \o Pen(20480, 15360, 1023) \o Mouse(20480, 15360)
mousepen_i608x_v2_rdesc_fixed == Enabling(-128) \o Pen(40960, 30720, 2047) \o Mouse(40960, 30720)
easypen_m610x_rdesc_fixed     ==
  Enabling(-128) \o Pen(40960, 25600, 1023)
    \o Keys(4, <<Count(1), Size(20), Constant, Size(32), Constant>>)
pensketch_m912_rdesc_fixed    ==
  Enabling(-127) \o Pen(61440, 46080, 2047) \o Puck(61440, 46080)
    \o Keys(8, <<Count(48), Constant>>)
easypen_m406xe_rdesc_fixed    ==
  Enabling(-128) \o Pen(15360, 10240, 1023) \o Keys(4, <<Count(52), Constant>>)

-----------------------------------------------------------------------------
(* What the HID core makes of a descriptor *)

Globals == [report |-> 0, size |-> 0, count |-> 0, min |-> 0, max |-> 0]

Start == [ok |-> TRUE, depth |-> 0, now |-> Globals, pushed |-> <<>>, fields |-> <<>>]

Step(p, item) ==
  CASE item.tag = "collection" -> [p EXCEPT !.depth = @ + 1]
    [] item.tag = "end"  -> [p EXCEPT !.depth = @ - 1, !.ok = @ /\ p.depth > 0]
    [] item.tag = "push" -> [p EXCEPT !.pushed = <<p.now>> \o @]
    [] item.tag = "pop"  ->
         IF p.pushed = <<>> THEN [p EXCEPT !.ok = FALSE]
         ELSE [p EXCEPT !.now = Head(p.pushed), !.pushed = Tail(@)]
    [] item.tag \in DOMAIN Globals -> [p EXCEPT !.now[item.tag] = item.n]
    [] OTHER -> [p EXCEPT !.fields = Append(@, [kind |-> item.tag, of |-> p.now])]

Parsed(items) ==
  LET upTo[k \in 0 .. Len(items)] == IF k = 0 THEN Start ELSE Step(upTo[k - 1], items[k])
  IN  upTo[Len(items)]

(* A descriptor is refused whose collections or pushes do not fit.         *)
Parses(items) == Parsed(items).ok /\ Parsed(items).depth = 0

=============================================================================
