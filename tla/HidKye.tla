------------------------------- MODULE HidKye -------------------------------
(***************************************************************************)
(* The driver for KYE tablets, mice and keyboards (tablet-driver/          *)
(* hid-kye.c): a device is plugged in, the driver probes it in steps, of   *)
(* which each can fail, and lets go of it again.  The device may be        *)
(* unplugged between any two steps; the kernel removes it afterwards.      *)
(*                                                                         *)
(* The kernel is modelled by what the driver has of it: hid_parse calls    *)
(* the driver's fixup and may refuse the descriptor or lack memory,        *)
(* hid_hw_start may fail, what hid_hw_request sends may be lost, and a     *)
(* driver without a remove function is stopped by the HID core.            *)
(***************************************************************************)
EXTENDS KyeDescriptors

CONSTANTS
  OwnDescriptors   \* the descriptors devices may have of their own

(* A descriptor of a device: its size, its items, and whether the bytes    *)
(* are those which the fixups for mice and keyboards look for.             *)
Descriptor == [size : Nat, expected : BOOLEAN, items : Seq([tag : STRING, n : Int])]

ASSUME DescriptorsAssumption == OwnDescriptors \subseteq Descriptor

(* What a pen and its buttons, or a mouse or keyboard, are sold as.        *)
Tablets == {"I405X", "M506", "I608X", "I608X_V2", "M610X", "M406XE", "M912"}

kye_devices == Tablets \cup {"ERGO_525V", "GILA", "IMPERATOR", "MANTICORE"}

VARIABLES
  product,     \* hdev->product, of the device that is plugged in
  own,         \* the descriptor it has
  plugged,
  request,     \* what has become of the report that enables the tablet, since
               \* the last probe: "none" sent, "sent", "taken" by the device,
               \* "lost" on the way, or "forgotten" by the device
  quirks,      \* HID_QUIRK_MULTI_INPUT
  desc,        \* the descriptor in use: "none", "own", "patched" or "fixed"
  started,     \* between hid_hw_start and hid_hw_stop
  opens,       \* hid_hw_open less hid_hw_close
  pc,          \* where kye_probe is, or "unbound" or "bound"
  ret          \* what has failed in it

vars == <<product, own, plugged, request, quirks, desc, started, opens, pc, ret>>

-----------------------------------------------------------------------------
(* The tables *)

rdesc_fixed(p) ==
  CASE p = "I405X"    -> easypen_i405x_rdesc_fixed
    [] p = "M506"     -> easypen_M506_rdesc_fixed
    [] p = "I608X"    -> mousepen_i608x_rdesc_fixed
    [] p = "I608X_V2" -> mousepen_i608x_v2_rdesc_fixed
    [] p = "M610X"    -> easypen_m610x_rdesc_fixed
    [] p = "M406XE"   -> easypen_m406xe_rdesc_fixed
    [] p = "M912"     -> pensketch_m912_rdesc_fixed

RDESC_ORIG_SIZE(p) == IF p \in {"I608X_V2", "M912"} THEN 482 ELSE 476

(* How long a descriptor is at least that is patched: for the keyboards,   *)
(* 31 bytes from where the Consumer Control should be.                     *)
PatchedFrom(p) ==
  CASE p = "ERGO_525V"             -> 75
    [] p = "IMPERATOR"             -> 83 + 31
    [] p \in {"GILA", "MANTICORE"} -> 104 + 31

MultiInput == {"I608X_V2", "M912", "M406XE", "M506"}

(* A mutation for the runs: the new tablet is forgotten. *)
Enabled_NoM506 == Tablets \ {"M506"}

Enabled == {"I405X", "M506", "I608X", "I608X_V2", "M610X", "M406XE", "M912"}

(* A mutation for the runs: there is no default, and no descriptor then. *)
kye_report_fixup_Null ==
  IF product \in Tablets
  THEN IF own.size = RDESC_ORIG_SIZE(product) THEN "fixed" ELSE "own"
  ELSE IF own.size >= PatchedFrom(product) /\ own.expected THEN "patched" ELSE "null"

(* kye_report_fixup: the fixed descriptor for one of the size that was     *)
(* known, and a few bytes of the others.                                   *)
kye_report_fixup ==
  IF product \in Tablets
  THEN IF own.size = RDESC_ORIG_SIZE(product) THEN "fixed" ELSE "own"
  ELSE IF own.size >= PatchedFrom(product) /\ own.expected THEN "patched" ELSE "own"

Items(d) == IF d = "fixed" THEN rdesc_fixed(product) ELSE own.items

Fields(d) == Parsed(Items(d)).fields

(* The fields of the feature report 5, in the descriptor in use. *)
EnablingFields ==
  {k \in DOMAIN Fields(desc) : Fields(desc)[k].of.report = 5 /\ Fields(desc)[k].kind = "feature"}

(* The first of them has room for the values. *)
CanBeEnabled ==
  \E k \in EnablingFields :
    (\A j \in EnablingFields : k <= j) /\ Fields(desc)[k].of.count >= 7

-----------------------------------------------------------------------------
(* Plugging in and out *)

Plug ==
  /\ ~plugged /\ pc = "unbound"
  /\ product' \in kye_devices /\ own' \in OwnDescriptors
  /\ plugged' = TRUE
  /\ request' = "none" /\ quirks' = FALSE /\ opens' = 0
  /\ UNCHANGED <<desc, started, pc, ret>>

(* A device that loses its power, or is reset, no longer is in the mode it *)
(* was asked for, nor will a request that is still under way put it there. *)
Forget == request' = IF request = "none" THEN "none" ELSE "forgotten"

Unplug ==
  /\ plugged
  /\ plugged' = FALSE
  /\ Forget
  /\ UNCHANGED <<product, own, quirks, desc, started, opens, pc, ret>>

(* The driver has no function that would be told of a reset of the bus.    *)
ResetBus ==
  /\ plugged
  /\ Forget
  /\ UNCHANGED <<product, own, plugged, quirks, desc, started, opens, pc, ret>>

(* hid_hw_request queues the report; the answer reaches nobody. *)
Arrive ==
  /\ request = "sent" /\ started /\ plugged
  /\ request' = "taken"
  /\ UNCHANGED <<product, own, plugged, quirks, desc, started, opens, pc, ret>>

Lose ==
  /\ request = "sent"
  /\ request' = "lost"
  /\ UNCHANGED <<product, own, plugged, quirks, desc, started, opens, pc, ret>>

(* The HID core lets go of the device: it has been unplugged, or somebody  *)
(* takes the driver from it.  What is still queued is dropped.             *)
Remove ==
  /\ pc = "bound"
  /\ pc' = "unbound" /\ started' = FALSE /\ desc' = "none"
  /\ request' = IF request = "sent" THEN "lost" ELSE request
  /\ UNCHANGED <<product, own, plugged, quirks, opens, ret>>

-----------------------------------------------------------------------------
(* kye_probe *)

Probe ==
  /\ plugged /\ pc = "unbound"
  /\ quirks' = (quirks \/ product \in MultiInput)
  /\ pc' = "parse" /\ ret' = "none" /\ request' = "none"
  /\ UNCHANGED <<product, own, plugged, desc, started, opens>>

(* hid_parse may want memory before it asks for the fixup, and after.      *)
Parse ==
  /\ pc = "parse"
  /\ \/ /\ desc' = kye_report_fixup /\ Parses(Items(desc'))
        /\ pc' = "start" /\ ret' = ret
     \/ /\ desc' = kye_report_fixup /\ ~Parses(Items(desc'))
        /\ pc' = "err" /\ ret' = "parse"
     \/ /\ desc' \in {desc, kye_report_fixup}
        /\ pc' = "err" /\ ret' = "memory"
  /\ UNCHANGED <<product, own, plugged, request, quirks, started, opens>>

StartHw ==
  /\ pc = "start"
  /\ \/ started' = TRUE /\ pc' = "enable" /\ ret' = ret
     \/ started' = FALSE /\ pc' = "err" /\ ret' = "start"
  /\ UNCHANGED <<product, own, plugged, request, quirks, desc, opens>>

(* kye_tablet_enable: the report is queued, which may fail, and which it   *)
(* does when the device has gone; the function does not come to know.      *)
EnableTablet ==
  /\ pc = "enable" /\ product \in Enabled
  /\ IF CanBeEnabled
     THEN /\ request' \in {"lost"} \cup {r \in {"sent"} : plugged}
          /\ pc' = "bound" /\ ret' = ret
     ELSE request' = request /\ pc' = "enabling_err" /\ ret' = "enable"
  /\ UNCHANGED <<product, own, plugged, quirks, desc, started, opens>>

(* The keyboard is left open, or closed when it could not be opened.       *)
OpenManticore ==
  /\ pc = "enable" /\ product = "MANTICORE"
  /\ \E opened \in BOOLEAN : opens' = IF opened THEN opens + 1 ELSE opens - 1
  /\ pc' = "bound"
  /\ UNCHANGED <<product, own, plugged, request, quirks, desc, started, ret>>

NothingToEnable ==
  /\ pc = "enable" /\ product \notin Enabled \cup {"MANTICORE"}
  /\ pc' = "bound"
  /\ UNCHANGED <<product, own, plugged, request, quirks, desc, started, opens, ret>>

(* A mutation for the runs: the hardware is not stopped. *)
EnablingFailed_NoStop ==
  /\ pc = "enabling_err"
  /\ pc' = "err"
  /\ UNCHANGED <<product, own, plugged, request, quirks, desc, started, opens, ret>>

EnablingFailed ==
  /\ pc = "enabling_err"
  /\ started' = FALSE /\ pc' = "err"
  /\ UNCHANGED <<product, own, plugged, request, quirks, desc, opens, ret>>

(* The HID core gives up the descriptor of a device whose probe failed.    *)
ProbeFailed ==
  /\ pc = "err"
  /\ desc' = "none" /\ pc' = "unbound"
  /\ UNCHANGED <<product, own, plugged, request, quirks, started, opens, ret>>

-----------------------------------------------------------------------------

Init ==
  /\ product \in kye_devices /\ own \in OwnDescriptors
  /\ plugged = FALSE /\ request = "none" /\ quirks = FALSE /\ started = FALSE
  /\ desc = "none" /\ opens = 0 /\ pc = "unbound" /\ ret = "none"

Next ==
  \/ Plug \/ Unplug \/ ResetBus \/ Remove \/ Arrive \/ Lose
  \/ Probe \/ Parse \/ StartHw \/ EnableTablet \/ OpenManticore \/ NothingToEnable
  \/ EnablingFailed \/ ProbeFailed

Spec == Init /\ [][Next]_vars

-----------------------------------------------------------------------------
(* What the driver promises *)

(* Type invariant. *)
TypeOK ==
  /\ product \in kye_devices /\ own \in OwnDescriptors
  /\ plugged \in BOOLEAN /\ quirks \in BOOLEAN /\ started \in BOOLEAN
  /\ request \in {"none", "sent", "taken", "lost", "forgotten"}
  /\ desc \in {"none", "own", "patched", "fixed"}
  /\ opens \in Int
  /\ pc \in {"unbound", "parse", "start", "enable", "bound", "enabling_err", "err"}
  /\ ret \in {"none", "memory", "parse", "start", "enable"}

(* However the probe ends, and whenever the device goes, the hardware runs *)
(* while the driver has the device, and is stopped when it has not: each   *)
(* step that fails undoes those before it, and no more.                    *)
StoppedUnlessBound ==
  /\ pc \in {"enable", "enabling_err", "bound"} <=> started
  /\ pc \in {"start", "enable", "enabling_err", "bound"} => desc # "none"
  /\ pc \in {"unbound", "parse"} => desc = "none"

(* A tablet whose descriptor has been replaced has, at this binding, been  *)
(* asked to behave as the new one says, whatever became of the request:    *)
(* the three switches on the product, in two functions, know it alike.     *)
(* That the tablet does behave so is not promised: the request may be      *)
(* lost, and after a reset of the bus nobody repeats it.                   *)
FixedTabletsAreAsked ==
  pc = "bound" /\ desc = "fixed" => request # "none"

(* With a descriptor of the driver's own nothing fails that could not fail *)
(* for lack of memory or a device: it is parsed, and the report that       *)
(* enables the tablet is in it.                                            *)
FixedDescriptorsWork ==
  desc = "fixed" => /\ pc = "err" => ret # "parse"
                    /\ pc # "enabling_err"

(* The reports of a descriptor that replaces another are whole bytes, and  *)
(* each field has the bits its largest and its smallest value need.        *)
Bits(fields, kind, id) ==
  LET upTo[k \in 0 .. Len(fields)] ==
        IF k = 0 THEN 0
        ELSE upTo[k - 1] + IF fields[k].of.report # id \/ (fields[k].kind = "feature") # (kind = "feature")
                           THEN 0 ELSE fields[k].of.size * fields[k].of.count
  IN  upTo[Len(fields)]

FixedDescriptorsFit ==
  desc = "fixed" =>
    \A k \in DOMAIN Fields(desc) :
      LET f == Fields(desc)[k].of
      IN  /\ Bits(Fields(desc), Fields(desc)[k].kind, f.report) % 8 = 0
          /\ Fields(desc)[k].kind # "constant" =>
               IF f.min < 0 THEN f.min >= -(2 ^ (f.size - 1)) /\ f.max < 2 ^ (f.size - 1)
               ELSE f.min < f.max /\ f.max < 2 ^ f.size

=============================================================================
