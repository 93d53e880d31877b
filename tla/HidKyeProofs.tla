---------------------------- MODULE HidKyeProofs ----------------------------
(***************************************************************************)
(* The safety properties of module HidKye, for every set of descriptors    *)
(* that the devices may have of their own.                                 *)
(*                                                                         *)
(* The driver's own descriptors are put together from parts (the report    *)
(* that enables a tablet, a pen, a mouse, keys).  A part is followed item  *)
(* by item once, from any state of the HID core between two parts; what    *)
(* the core makes of the seven descriptors is composed of that.            *)
(***************************************************************************)
EXTENDS HidKye, TLAPS, WellFoundedInduction

(* A fixed descriptor is there for tablets only. *)
FixedInv == desc = "fixed" => product \in Tablets

IInv == TypeOK /\ StoppedUnlessBound /\ FixedInv /\ FixedTabletsAreAsked

LEMMA InitIsSound == Init => IInv
<1> SUFFICES ASSUME Init PROVE IInv
  OBVIOUS
<1>1. TypeOK
  <2>1. product \in kye_devices /\ own \in OwnDescriptors
    BY DEF Init
  <2>2. plugged \in BOOLEAN /\ quirks \in BOOLEAN /\ started \in BOOLEAN
    BY Zenon DEF Init
  <2>3. /\ desc \in {"none", "own", "patched", "fixed"} /\ opens \in Int
        /\ pc \in {"unbound", "parse", "start", "enable", "bound", "enabling_err", "err"}
        /\ ret \in {"none", "memory", "parse", "start", "enable"}
        /\ request \in {"none", "sent", "taken", "lost", "forgotten"}
    BY DEF Init
  <2> QED
    BY <2>1, <2>2, <2>3 DEF TypeOK
<1>2. StoppedUnlessBound
  BY DEF Init, StoppedUnlessBound
<1>3. FixedInv /\ FixedTabletsAreAsked
  BY DEF Init, FixedInv, FixedTabletsAreAsked
<1> QED
  BY <1>1, <1>2, <1>3 DEF IInv

LEMMA PluggingIsSound ==
  IInv /\ (Plug \/ Unplug \/ ResetBus \/ Remove \/ Arrive \/ Lose) => IInv'
<1> SUFFICES ASSUME IInv, Plug \/ Unplug \/ ResetBus \/ Remove \/ Arrive \/ Lose PROVE IInv'
  OBVIOUS
<1>1. CASE Plug
  <2>1. TypeOK'
    <3>1. plugged' = TRUE /\ request' = "none" /\ quirks' = FALSE
      BY <1>1 DEF Plug
    <3>2. plugged' \in BOOLEAN /\ quirks' \in BOOLEAN
      BY <3>1, Zenon
    <3>3. product' \in kye_devices /\ own' \in OwnDescriptors /\ opens' \in Int
      BY <1>1 DEF Plug
    <3>4. desc' = desc /\ started' = started /\ pc' = pc /\ ret' = ret
      BY <1>1 DEF Plug
    <3> QED
      BY <3>1, <3>2, <3>3, <3>4 DEF IInv, TypeOK
  <2>2. pc' = pc /\ started' = started /\ desc' = desc /\ pc = "unbound"
    BY <1>1 DEF Plug
  <2>3. StoppedUnlessBound /\ desc = "none"
    BY <2>2 DEF IInv, StoppedUnlessBound
  <2>4. StoppedUnlessBound'
    BY <2>2, <2>3 DEF StoppedUnlessBound
  <2>5. FixedInv' /\ FixedTabletsAreAsked'
    BY <2>2, <2>3 DEF FixedInv, FixedTabletsAreAsked
  <2> QED
    BY <2>1, <2>4, <2>5 DEF IInv
<1> USE DEF IInv, TypeOK, StoppedUnlessBound, FixedInv, FixedTabletsAreAsked
<1>2. CASE Unplug
  <2>1. plugged' \in BOOLEAN
    BY <1>2, Zenon DEF Unplug
  <2> QED
    BY <1>2, <2>1 DEF Unplug, Forget
<1>3. CASE ResetBus
  BY <1>3 DEF ResetBus, Forget
<1>4. CASE Remove
  BY <1>4 DEF Remove
<1>5. CASE Arrive \/ Lose
  BY <1>5 DEF Arrive, Lose
<1> QED
  BY <1>1, <1>2, <1>3, <1>4, <1>5

LEMMA ParseIsSound == IInv /\ Parse => IInv'
<1> SUFFICES ASSUME IInv, Parse PROVE IInv'
  OBVIOUS
<1> USE DEF IInv
<1>1. /\ pc = "parse" /\ pc' \in {"start", "err"} /\ ret' \in {ret, "parse", "memory"}
      /\ UNCHANGED <<product, own, plugged, request, quirks, started, opens>>
  BY DEF Parse
<1>2. /\ kye_report_fixup \in {"own", "patched", "fixed"}
      /\ kye_report_fixup = "fixed" => product \in Tablets
  BY DEF kye_report_fixup
<1>3. /\ desc' \in {"none", "own", "patched", "fixed"}
      /\ pc' = "start" => desc' # "none"
      /\ desc' = "fixed" => product \in Tablets
  <2>1. desc = "none"
    BY <1>1 DEF StoppedUnlessBound
  <2> QED
    BY <1>2, <2>1 DEF Parse
<1>4. TypeOK'
  BY <1>1, <1>3 DEF TypeOK
<1>5. StoppedUnlessBound' /\ FixedInv' /\ FixedTabletsAreAsked'
  BY <1>1, <1>3 DEF StoppedUnlessBound, FixedInv, FixedTabletsAreAsked
<1> QED
  BY <1>4, <1>5

(* A tablet with a fixed descriptor cannot be taken, at the step where it  *)
(* is asked for its mode, for a device that has none.                      *)
LEMMA EnablingIsSound == IInv /\ (EnableTablet \/ OpenManticore \/ NothingToEnable) => IInv'
<1> SUFFICES ASSUME IInv, EnableTablet \/ OpenManticore \/ NothingToEnable PROVE IInv'
  OBVIOUS
<1> USE DEF IInv
<1>1. /\ pc = "enable" /\ desc' = desc
      /\ UNCHANGED <<product, own, plugged, quirks, started>>
  BY DEF EnableTablet, OpenManticore, NothingToEnable
<1>2. CASE EnableTablet
  <2>1. /\ opens' = opens
        /\ \/ request' \in {"sent", "lost"} /\ pc' = "bound" /\ ret' = ret
           \/ request' = request /\ pc' = "enabling_err" /\ ret' = "enable"
    BY <1>2 DEF EnableTablet
  <2> QED
    BY <1>1, <2>1 DEF TypeOK, StoppedUnlessBound, FixedInv, FixedTabletsAreAsked
<1>3. CASE OpenManticore \/ NothingToEnable
  <2>1. product \notin Tablets
    BY <1>3 DEF OpenManticore, NothingToEnable, Enabled, Tablets
  <2>2. pc' = "bound" /\ request' = request /\ ret' = ret /\ opens' \in Int
    BY <1>3 DEF OpenManticore, NothingToEnable, TypeOK
  <2> QED
    BY <1>1, <2>1, <2>2 DEF TypeOK, StoppedUnlessBound, FixedInv, FixedTabletsAreAsked
<1> QED
  BY <1>2, <1>3

LEMMA OtherStepsAreSound ==
  IInv /\ (Probe \/ StartHw \/ EnablingFailed \/ ProbeFailed \/ UNCHANGED vars) => IInv'
<1> SUFFICES ASSUME IInv, Probe \/ StartHw \/ EnablingFailed \/ ProbeFailed \/ UNCHANGED vars
             PROVE  IInv'
  OBVIOUS
<1> USE DEF IInv, TypeOK, StoppedUnlessBound, FixedInv, FixedTabletsAreAsked
<1>1. CASE Probe
  <2>1. quirks' \in BOOLEAN
    BY <1>1 DEF Probe
  <2> QED
    BY <1>1, <2>1 DEF Probe
<1>2. CASE StartHw
  BY <1>2 DEF StartHw
<1>3. CASE EnablingFailed
  BY <1>3 DEF EnablingFailed
<1>4. CASE ProbeFailed
  BY <1>4 DEF ProbeFailed
<1>5. CASE UNCHANGED vars
  BY <1>5 DEF vars
<1> QED
  BY <1>1, <1>2, <1>3, <1>4, <1>5

(* Every step of the probe, and every plugging and unplugging, keeps the    *)
(* inductive invariant.                                                    *)
THEOREM Invariance == Spec => []IInv
<1>1. IInv /\ [Next]_vars => IInv'
  BY PluggingIsSound, ParseIsSound, EnablingIsSound, OtherStepsAreSound DEF Next
<1> QED
  BY <1>1, InitIsSound, PTL DEF Spec

(* The state has its types. *)
THEOREM TypeCorrect == Spec => []TypeOK
BY Invariance, PTL DEF IInv

(* The hardware runs while the driver has the device and at no other time, *)
(* whichever step of the probe fails and whenever the device is unplugged. *)
THEOREM HardwareFollows == Spec => []StoppedUnlessBound
BY Invariance, PTL DEF IInv

(* Whenever the driver has a tablet whose descriptor it replaced, it has   *)
(* sent it the request for the mode of the new one, after the last probe;  *)
(* whether the tablet took it, or still is in that mode, is left open.     *)
THEOREM FixedTabletsAlwaysAsked == Spec => []FixedTabletsAreAsked
BY Invariance, PTL DEF IInv

-----------------------------------------------------------------------------
(* Induction over the numbers, with a set for the formula *)

LEMMA SetInduction ==
  ASSUME NEW S, 0 \in S, \A n \in Nat : n \in S => n + 1 \in S
  PROVE  Nat \subseteq S
<1> DEFINE Less == OpToRel(<, Nat)
           T == Nat \ S
<1>1. IsWellFoundedOn(Less, Nat)
  BY NatLessThanWellFounded
<1>2. \A x, y \in Nat : x < y => <<x, y>> \in Less
  BY DEF OpToRel
<1> HIDE DEF Less
<1>3. ASSUME T # {} PROVE FALSE
  <2>1. T \subseteq Nat
    OBVIOUS
  <2>2. PICK x \in T : \A y \in T : <<y, x>> \notin Less
    BY <1>1, <1>3, <2>1, WFMin
  <2>3. x - 1 \in Nat /\ x - 1 < x /\ x = (x - 1) + 1
    OBVIOUS
  <2>4. x - 1 \in S
    BY <1>2, <2>2, <2>3
  <2> QED
    BY <2>2, <2>3, <2>4
<1> QED
  BY <1>3

-----------------------------------------------------------------------------
(* What the HID core makes of the items of a descriptor *)

(* The states it comes through from p. *)
Through(p, items, u) ==
  u = [k \in 0 .. Len(items) |-> IF k = 0 THEN p ELSE Step(u[k - 1], items[k])]

States(p, items) == CHOOSE u : Through(p, items, u)

After(p, items) == States(p, items)[Len(items)]

(* There are such states: the recursion is one. *)
LEMMA StatesExist ==
  ASSUME NEW p, NEW I, NEW items \in Seq(I)
  PROVE  LET u == States(p, items)
         IN  u[0] = p /\ \A k \in 1 .. Len(items) : u[k] = Step(u[k - 1], items[k])
<1> DEFINE Upto(n, u) == u = [k \in 0 .. n |-> IF k = 0 THEN p ELSE Step(u[k - 1], items[k])]
           S == {n \in Nat : \E u : Upto(n, u)}
<1>1. 0 \in S
  <2>1. Upto(0, [k \in 0 .. 0 |-> p])
    OBVIOUS
  <2> QED
    BY <2>1
<1>2. ASSUME NEW n \in Nat, n \in S PROVE n + 1 \in S
  <2>1. PICK u : Upto(n, u)
    BY <1>2
  <2> DEFINE v == [k \in 0 .. n + 1 |-> IF k = n + 1 THEN Step(u[n], items[n + 1]) ELSE u[k]]
  <2>2. ASSUME NEW k \in 0 .. n + 1
        PROVE  v[k] = IF k = 0 THEN p ELSE Step(v[k - 1], items[k])
    <3>1. CASE k = n + 1
      BY <3>1
    <3>2. CASE k \in 0 .. n
      <4>1. v[k] = u[k] /\ u[k] = IF k = 0 THEN p ELSE Step(u[k - 1], items[k])
        BY <2>1, <3>2
      <4>2. k # 0 => v[k - 1] = u[k - 1]
        BY <3>2
      <4> QED
        BY <4>1, <4>2
    <3> QED
      BY <3>1, <3>2
  <2>3. v = [k \in 0 .. n + 1 |-> v[k]]
    OBVIOUS
  <2> HIDE DEF v
  <2>4. Upto(n + 1, v)
    BY <2>2, <2>3
  <2> HIDE DEF Upto
  <2> QED
    BY <2>4
<1> HIDE DEF S
<1>3. Len(items) \in S
  BY <1>1, <1>2, SetInduction
<1>4. \E u : Through(p, items, u)
  BY <1>3 DEF S, Through
<1> DEFINE u == States(p, items)
           n == Len(items)
<1>5. u = [k \in 0 .. n |-> IF k = 0 THEN p ELSE Step(u[k - 1], items[k])]
  BY <1>4 DEF Through, States
<1>6. n \in Nat
  OBVIOUS
<1> HIDE DEF u, n
<1>7. u[0] = p /\ \A k \in 1 .. n : u[k] = Step(u[k - 1], items[k])
  BY <1>5, <1>6
<1> QED
  BY <1>7 DEF u, n

(* Items after other items. *)
LEMMA AfterBoth ==
  ASSUME NEW p, NEW I, NEW s \in Seq(I), NEW t \in Seq(I)
  PROVE  After(p, s \o t) = After(After(p, s), t)
<1> DEFINE n == Len(s)
           m == Len(t)
           st == s \o t
           u == States(p, st)
           v == States(p, s)
           w == States(After(p, s), t)
           S == {k \in Nat : k <= n => u[k] = v[k]}
           T == {k \in Nat : k <= m => u[n + k] = w[k]}
<1>1. n \in Nat /\ m \in Nat /\ st \in Seq(I) /\ Len(st) = n + m
  OBVIOUS
<1>2. \A k \in 1 .. n : st[k] = s[k]
  OBVIOUS
<1>3. \A k \in 1 .. m : st[n + k] = t[k]
  OBVIOUS
<1> HIDE DEF st
<1>4. v[0] = p /\ \A k \in 1 .. n : v[k] = Step(v[k - 1], s[k])
  BY StatesExist
<1>5. w[0] = v[n] /\ \A k \in 1 .. m : w[k] = Step(w[k - 1], t[k])
  BY StatesExist DEF After
<1>6. u[0] = p /\ \A k \in 1 .. n + m : u[k] = Step(u[k - 1], st[k])
  <2>1. u[0] = p /\ \A k \in 1 .. Len(st) : u[k] = Step(u[k - 1], st[k])
    BY <1>1, StatesExist
  <2> QED
    BY <1>1, <2>1
<1>7. After(p, st) = u[n + m] /\ After(After(p, s), t) = w[m]
  BY <1>1 DEF After
<1> HIDE DEF n, m, u, v, w
<1>8. n \in S
  <2>1. 0 \in S
    BY <1>4, <1>6
  <2>2. ASSUME NEW k \in Nat, k \in S PROVE k + 1 \in S
    <3> SUFFICES ASSUME k + 1 <= n PROVE u[k + 1] = v[k + 1]
      OBVIOUS
    <3>1. k + 1 \in 1 .. n /\ k + 1 \in 1 .. n + m /\ (k + 1) - 1 = k /\ u[k] = v[k]
      BY <1>1, <2>2
    <3> QED
      BY <1>2, <1>4, <1>6, <3>1
  <2> HIDE DEF S
  <2> QED
    BY <1>1, <2>1, <2>2, SetInduction
<1>9. m \in T
  <2>1. 0 \in T
    BY <1>1, <1>5, <1>8
  <2>2. ASSUME NEW k \in Nat, k \in T PROVE k + 1 \in T
    <3> SUFFICES ASSUME k + 1 <= m PROVE u[n + (k + 1)] = w[k + 1]
      OBVIOUS
    <3>1. /\ k + 1 \in 1 .. m /\ n + (k + 1) \in 1 .. n + m
          /\ (k + 1) - 1 = k /\ (n + (k + 1)) - 1 = n + k /\ u[n + k] = w[k]
      BY <1>1, <2>2
    <3> QED
      BY <1>3, <1>5, <1>6, <3>1
  <2> HIDE DEF T
  <2> QED
    BY <1>1, <2>1, <2>2, SetInduction
<1> QED
  BY <1>1, <1>7, <1>9 DEF st

LEMMA ParsedIsAfter == ASSUME NEW items PROVE Parsed(items) = After(Start, items)
BY DEF Parsed, After, States, Through

-----------------------------------------------------------------------------
(* How many bits the fields of a report have *)

Counted(f, kind, id) ==
  IF f.of.report # id \/ (f.kind = "feature") # (kind = "feature") THEN 0
  ELSE f.of.size * f.of.count

Adding(fields, kind, id, b) ==
  b = [k \in 0 .. Len(fields) |-> IF k = 0 THEN 0 ELSE b[k - 1] + Counted(fields[k], kind, id)]

Sums(fields, kind, id) == CHOOSE b : Adding(fields, kind, id, b)

Kinds == {"input", "feature", "constant"}

Field == [kind : Kinds, of : [report : Int, size : Int, count : Int, min : Int, max : Int]]

LEMMA BitsAreSums ==
  ASSUME NEW fields, NEW kind, NEW id
  PROVE  Bits(fields, kind, id) = Sums(fields, kind, id)[Len(fields)]
BY DEF Bits, Sums, Adding, Counted

LEMMA CountedIsInt ==
  ASSUME NEW f \in Field, NEW kind, NEW id
  PROVE  Counted(f, kind, id) \in Int
BY DEF Counted, Field

LEMMA SumsExist ==
  ASSUME NEW fields \in Seq(Field), NEW kind, NEW id
  PROVE  LET b == Sums(fields, kind, id)
         IN  /\ b[0] = 0
             /\ \A k \in 1 .. Len(fields) : b[k] = b[k - 1] + Counted(fields[k], kind, id)
<1> DEFINE c(k) == Counted(fields[k], kind, id)
           Upto(n, b) == b = [k \in 0 .. n |-> IF k = 0 THEN 0 ELSE b[k - 1] + c(k)]
           S == {n \in Nat : \E b : Upto(n, b)}
<1> HIDE DEF c
<1>1. 0 \in S
  <2>1. Upto(0, [k \in 0 .. 0 |-> 0])
    OBVIOUS
  <2> QED
    BY <2>1
<1>2. ASSUME NEW n \in Nat, n \in S PROVE n + 1 \in S
  <2>1. PICK b : Upto(n, b)
    BY <1>2
  <2> DEFINE a == [k \in 0 .. n + 1 |-> IF k = n + 1 THEN b[n] + c(n + 1) ELSE b[k]]
  <2>2. ASSUME NEW k \in 0 .. n + 1
        PROVE  a[k] = IF k = 0 THEN 0 ELSE a[k - 1] + c(k)
    <3>1. CASE k = n + 1
      BY <3>1
    <3>2. CASE k \in 0 .. n
      <4>1. a[k] = b[k] /\ b[k] = IF k = 0 THEN 0 ELSE b[k - 1] + c(k)
        BY <2>1, <3>2
      <4>2. k # 0 => a[k - 1] = b[k - 1]
        BY <3>2
      <4> QED
        BY <4>1, <4>2
    <3> QED
      BY <3>1, <3>2
  <2>3. a = [k \in 0 .. n + 1 |-> a[k]]
    OBVIOUS
  <2> HIDE DEF a
  <2>4. Upto(n + 1, a)
    BY <2>2, <2>3
  <2> HIDE DEF Upto
  <2> QED
    BY <2>4
<1> HIDE DEF S
<1>3. Len(fields) \in S
  BY <1>1, <1>2, SetInduction
<1>4. \E b : Adding(fields, kind, id, b)
  BY <1>3 DEF S, Adding, c
<1> DEFINE b == Sums(fields, kind, id)
           n == Len(fields)
<1>5. b = [k \in 0 .. n |-> IF k = 0 THEN 0 ELSE b[k - 1] + c(k)]
  BY <1>4 DEF Adding, Sums, c
<1>6. n \in Nat
  OBVIOUS
<1> HIDE DEF b, n
<1>7. b[0] = 0 /\ \A k \in 1 .. n : b[k] = b[k - 1] + c(k)
  BY <1>5, <1>6
<1> QED
  BY <1>7 DEF b, n, c

(* The bits of fields after other fields. *)
LEMMA BitsBoth ==
  ASSUME NEW s \in Seq(Field), NEW t \in Seq(Field), NEW kind, NEW id
  PROVE  /\ Bits(s, kind, id) \in Int /\ Bits(t, kind, id) \in Int
         /\ Bits(s \o t, kind, id) = Bits(s, kind, id) + Bits(t, kind, id)
<1> DEFINE n == Len(s)
           m == Len(t)
           st == s \o t
           c(f) == Counted(f, kind, id)
           u == Sums(st, kind, id)
           v == Sums(s, kind, id)
           w == Sums(t, kind, id)
           S == {k \in Nat : k <= n => v[k] \in Int /\ u[k] = v[k]}
           T == {k \in Nat : k <= m => w[k] \in Int /\ u[n + k] = v[n] + w[k]}
<1>1. n \in Nat /\ m \in Nat /\ st \in Seq(Field) /\ Len(st) = n + m
  OBVIOUS
<1>2. \A k \in 1 .. n : st[k] = s[k] /\ s[k] \in Field
  OBVIOUS
<1>3. \A k \in 1 .. m : st[n + k] = t[k] /\ t[k] \in Field
  OBVIOUS
<1> HIDE DEF st
<1>4. v[0] = 0 /\ \A k \in 1 .. n : v[k] = v[k - 1] + c(s[k])
  BY SumsExist
<1>5. w[0] = 0 /\ \A k \in 1 .. m : w[k] = w[k - 1] + c(t[k])
  BY SumsExist
<1>6. u[0] = 0 /\ \A k \in 1 .. n + m : u[k] = u[k - 1] + c(st[k])
  BY <1>1, SumsExist
<1>7. Bits(st, kind, id) = u[n + m] /\ Bits(s, kind, id) = v[n] /\ Bits(t, kind, id) = w[m]
  BY <1>1, BitsAreSums
<1>8. \A f \in Field : c(f) \in Int
  BY CountedIsInt
<1> HIDE DEF n, m, u, v, w, c
<1>9. n \in S
  <2>1. 0 \in S
    BY <1>4, <1>6
  <2>2. ASSUME NEW k \in Nat, k \in S PROVE k + 1 \in S
    <3> SUFFICES ASSUME k + 1 <= n PROVE v[k + 1] \in Int /\ u[k + 1] = v[k + 1]
      OBVIOUS
    <3>1. /\ k + 1 \in 1 .. n /\ k + 1 \in 1 .. n + m /\ (k + 1) - 1 = k
          /\ v[k] \in Int /\ u[k] = v[k]
      BY <1>1, <2>2
    <3>2. v[k + 1] = v[k] + c(s[k + 1]) /\ u[k + 1] = u[k] + c(s[k + 1])
      BY <1>2, <1>4, <1>6, <3>1
    <3>3. c(s[k + 1]) \in Int
      BY <1>2, <1>8, <3>1
    <3> QED
      BY <3>1, <3>2, <3>3
  <2> HIDE DEF S
  <2> QED
    BY <1>1, <2>1, <2>2, SetInduction
<1>10. v[n] \in Int /\ u[n] = v[n]
  BY <1>1, <1>9
<1>11. m \in T
  <2>1. 0 \in T
    BY <1>1, <1>5, <1>10
  <2>2. ASSUME NEW k \in Nat, k \in T PROVE k + 1 \in T
    <3> SUFFICES ASSUME k + 1 <= m PROVE w[k + 1] \in Int /\ u[n + (k + 1)] = v[n] + w[k + 1]
      OBVIOUS
    <3>1. /\ k + 1 \in 1 .. m /\ n + (k + 1) \in 1 .. n + m
          /\ (k + 1) - 1 = k /\ (n + (k + 1)) - 1 = n + k
          /\ w[k] \in Int /\ u[n + k] = v[n] + w[k]
      BY <1>1, <2>2
    <3>2. w[k + 1] = w[k] + c(t[k + 1]) /\ u[n + (k + 1)] = u[n + k] + c(t[k + 1])
      BY <1>3, <1>5, <1>6, <3>1
    <3>3. c(t[k + 1]) \in Int
      BY <1>3, <1>8, <3>1
    <3> QED
      BY <1>10, <3>1, <3>2, <3>3
  <2> HIDE DEF T
  <2> QED
    BY <1>1, <2>1, <2>2, SetInduction
<1> QED
  BY <1>1, <1>7, <1>10, <1>11 DEF st

-----------------------------------------------------------------------------
(* What an item does *)

Now == [report : Int, size : Int, count : Int, min : Int, max : Int]

Global(r, s, c, a, b) == [report |-> r, size |-> s, count |-> c, min |-> a, max |-> b]

State(d, now, pushed, fields) ==
  [ok |-> TRUE, depth |-> d, now |-> now, pushed |-> pushed, fields |-> fields]

FieldOf(kind, now) == [kind |-> kind, of |-> now]

Tags == Kinds \cup {"collection", "end", "push", "pop", "report", "size", "count", "min", "max"}

AnyItem == [tag : Tags, n : Int]

LEMMA GlobalItems ==
  ASSUME NEW r, NEW s, NEW c, NEW a, NEW b, NEW n, NEW d, NEW p, NEW f
  PROVE  LET q(now) == State(d, now, p, f)
         IN  /\ Step(q(Global(r, s, c, a, b)), Report(n)) = q(Global(n, s, c, a, b))
             /\ Step(q(Global(r, s, c, a, b)), Size(n)) = q(Global(r, n, c, a, b))
             /\ Step(q(Global(r, s, c, a, b)), Count(n)) = q(Global(r, s, n, a, b))
             /\ Step(q(Global(r, s, c, a, b)), Minimum(n)) = q(Global(r, s, c, n, b))
             /\ Step(q(Global(r, s, c, a, b)), Maximum(n)) = q(Global(r, s, c, a, n))
BY DEF Step, State, Global, Report, Size, Count, Minimum, Maximum, Item, Globals

LEMMA CollectionItems ==
  ASSUME NEW now, NEW d \in Nat, NEW p, NEW f
  PROVE  /\ Step(State(d, now, p, f), Open) = State(d + 1, now, p, f)
         /\ Step(State(d + 1, now, p, f), End) = State(d, now, p, f)
<1>1. Step(State(d, now, p, f), Open) = State(d + 1, now, p, f)
  BY DEF Step, State, Open, Item, Globals
<1>2. d + 1 > 0 /\ (d + 1) - 1 = d
  OBVIOUS
<1>3. \A n \in Nat : n > 0 => Step(State(n, now, p, f), End) = State(n - 1, now, p, f)
  BY DEF Step, State, End, Item, Globals
<1> QED
  BY <1>1, <1>2, <1>3

LEMMA PushItem ==
  ASSUME NEW now, NEW d, NEW f
  PROVE  Step(State(d, now, <<>>, f), Push) = State(d, now, <<now>>, f)
<1>1. <<now>> \o <<>> = <<now>>
  OBVIOUS
<1>2. \A p : Step(State(d, now, p, f), Push) = State(d, now, <<now>> \o p, f)
  BY DEF Step, State, Push, Item, Globals
<1> QED
  BY <1>1, <1>2

LEMMA PopItem ==
  ASSUME NEW now, NEW then, NEW d, NEW f
  PROVE  Step(State(d, now, <<then>>, f), Pop) = State(d, then, <<>>, f)
<1>1. <<then>> # <<>> /\ Head(<<then>>) = then /\ Tail(<<then>>) = <<>>
  OBVIOUS
<1>2. \A p : p # <<>> => Step(State(d, now, p, f), Pop) = State(d, Head(p), Tail(p), f)
  BY DEF Step, State, Pop, Item, Globals
<1> QED
  BY <1>1, <1>2

LEMMA MainItems ==
  ASSUME NEW now, NEW d, NEW p, NEW f
  PROVE  LET q(kind) == State(d, now, p, Append(f, FieldOf(kind, now)))
         IN  /\ Step(State(d, now, p, f), Input) = q("input")
             /\ Step(State(d, now, p, f), Feature) = q("feature")
             /\ Step(State(d, now, p, f), Constant) = q("constant")
BY DEF Step, State, Input, Feature, Constant, FieldOf, Item, Globals

(* A few items are as many steps. *)
LEMMA After1 ==
  ASSUME NEW p, NEW i1
  PROVE  After(p, <<i1>>) = Step(p, i1)
<1> DEFINE I == {i1}
           s == <<i1>>
           u == States(p, s)
<1>1. s \in Seq(I)
  OBVIOUS
<1>2. Len(s) = 1 /\ s[1] = i1
  OBVIOUS
<1> HIDE DEF s, I
<1>3. u[0] = p /\ \A k \in 1 .. Len(s) : u[k] = Step(u[k - 1], s[k])
  BY <1>1, StatesExist
<1>4. After(p, s) = u[1]
  BY <1>2 DEF After
<1> HIDE DEF u
<1>5. u[1] = Step(p, i1)
  BY <1>2, <1>3
<1> QED
  BY <1>4, <1>5 DEF s

LEMMA After2 ==
  ASSUME NEW p, NEW i1, NEW i2
  PROVE  After(p, <<i1, i2>>) = Step(Step(p, i1), i2)
<1> DEFINE I == {i1, i2}
           s == <<i1, i2>>
           u == States(p, s)
<1>1. s \in Seq(I)
  OBVIOUS
<1>2. Len(s) = 2 /\ s[1] = i1 /\ s[2] = i2
  OBVIOUS
<1> HIDE DEF s, I
<1>3. u[0] = p /\ \A k \in 1 .. Len(s) : u[k] = Step(u[k - 1], s[k])
  BY <1>1, StatesExist
<1>4. After(p, s) = u[2]
  BY <1>2 DEF After
<1> HIDE DEF u
<1>5. u[1] = Step(p, i1) /\ u[2] = Step(u[1], i2)
  BY <1>2, <1>3
<1> QED
  BY <1>4, <1>5 DEF s

LEMMA After3 ==
  ASSUME NEW p, NEW i1, NEW i2, NEW i3
  PROVE  After(p, <<i1, i2, i3>>) = Step(Step(Step(p, i1), i2), i3)
<1> DEFINE I == {i1, i2, i3}
           s == <<i1, i2, i3>>
           u == States(p, s)
<1>1. s \in Seq(I)
  OBVIOUS
<1>2. Len(s) = 3 /\ s[1] = i1 /\ s[2] = i2 /\ s[3] = i3
  OBVIOUS
<1> HIDE DEF s, I
<1>3. u[0] = p /\ \A k \in 1 .. Len(s) : u[k] = Step(u[k - 1], s[k])
  BY <1>1, StatesExist
<1>4. After(p, s) = u[3]
  BY <1>2 DEF After
<1> HIDE DEF u
<1>5. u[1] = Step(p, i1) /\ u[2] = Step(u[1], i2) /\ u[3] = Step(u[2], i3)
  BY <1>2, <1>3
<1> QED
  BY <1>4, <1>5 DEF s

LEMMA After4 ==
  ASSUME NEW p, NEW i1, NEW i2, NEW i3, NEW i4
  PROVE  After(p, <<i1, i2, i3, i4>>) = Step(Step(Step(Step(p, i1), i2), i3), i4)
<1> DEFINE I == {i1, i2, i3, i4}
           s == <<i1, i2, i3, i4>>
           u == States(p, s)
<1>1. s \in Seq(I)
  OBVIOUS
<1>2. Len(s) = 4 /\ s[1] = i1 /\ s[2] = i2 /\ s[3] = i3 /\ s[4] = i4
  OBVIOUS
<1> HIDE DEF s, I
<1>3. u[0] = p /\ \A k \in 1 .. Len(s) : u[k] = Step(u[k - 1], s[k])
  BY <1>1, StatesExist
<1>4. After(p, s) = u[4]
  BY <1>2 DEF After
<1> HIDE DEF u
<1>5. u[1] = Step(p, i1) /\ u[2] = Step(u[1], i2) /\ u[3] = Step(u[2], i3) /\ u[4] = Step(u[3], i4)
  BY <1>2, <1>3
<1> QED
  BY <1>4, <1>5 DEF s

LEMMA After5 ==
  ASSUME NEW p, NEW i1, NEW i2, NEW i3, NEW i4, NEW i5
  PROVE  After(p, <<i1, i2, i3, i4, i5>>) = Step(Step(Step(Step(Step(p, i1), i2), i3), i4), i5)
<1> DEFINE I == {i1, i2, i3, i4, i5}
           s == <<i1, i2, i3, i4, i5>>
           u == States(p, s)
<1>1. s \in Seq(I)
  OBVIOUS
<1>2. Len(s) = 5 /\ s[1] = i1 /\ s[2] = i2 /\ s[3] = i3 /\ s[4] = i4 /\ s[5] = i5
  OBVIOUS
<1> HIDE DEF s, I
<1>3. u[0] = p /\ \A k \in 1 .. Len(s) : u[k] = Step(u[k - 1], s[k])
  BY <1>1, StatesExist
<1>4. After(p, s) = u[5]
  BY <1>2 DEF After
<1> HIDE DEF u
<1>5. /\ u[1] = Step(p, i1) /\ u[2] = Step(u[1], i2) /\ u[3] = Step(u[2], i3)
      /\ u[4] = Step(u[3], i4) /\ u[5] = Step(u[4], i5)
  BY <1>2, <1>3
<1> QED
  BY <1>4, <1>5 DEF s

LEMMA TheseAreItems ==
  /\ \A n \in Int : /\ Report(n) \in AnyItem /\ Size(n) \in AnyItem /\ Count(n) \in AnyItem
                    /\ Minimum(n) \in AnyItem /\ Maximum(n) \in AnyItem
  /\ Open \in AnyItem /\ End \in AnyItem /\ Push \in AnyItem /\ Pop \in AnyItem
  /\ Input \in AnyItem /\ Feature \in AnyItem /\ Constant \in AnyItem
BY DEF Item, AnyItem, Report, Size, Count, Minimum, Maximum, Open, End, Push, Pop, Input, Feature,
       Constant, Tags, Kinds

-----------------------------------------------------------------------------
(* What the driver's own descriptors are put together from *)

Whole(fields) == \A kind, id : Bits(fields, kind, id) % 8 = 0

(* The values of a field that is not constant have room in it. *)
Ranged(f) ==
  f.kind # "constant" =>
    IF f.of.min < 0 THEN f.of.min >= -(2 ^ (f.of.size - 1)) /\ f.of.max < 2 ^ (f.of.size - 1)
    ELSE f.of.min < f.of.max /\ f.of.max < 2 ^ f.of.size

Good(fields) ==
  fields \in Seq(Field) /\ Whole(fields) /\ \A k \in DOMAIN fields : Ranged(fields[k])

(* Items that may follow others: they add good fields. *)
Follow(items) ==
  /\ items \in Seq(AnyItem)
  /\ \A now \in Now, f \in Seq(Field) : \E then \in Now : \E x :
       Good(x) /\ After(State(0, now, <<>>, f), items) = State(0, then, <<>>, f \o x)

(* The largest values that need no more than sixteen bits. *)
Sixteen == {n \in Int : 0 < n /\ n < 65536}

Width(f) == f.of.size * f.of.count

SameReport(f, g) == f.of.report = g.of.report /\ (f.kind = "feature" <=> g.kind = "feature")

Totals(total, fields) ==
  /\ total \in Seq(Int) /\ Len(total) = Len(fields)
  /\ total[1] = Width(fields[1])
  /\ \A k \in 2 .. Len(fields) : total[k] = total[k - 1] + Width(fields[k])

(* Fields of one report are whole bytes when their last running total is.  *)
LEMMA OneReport ==
  ASSUME NEW fields \in Seq(Field), Len(fields) >= 1,
         NEW g, \A k \in 1 .. Len(fields) : SameReport(fields[k], g),
         NEW total, Totals(total, fields), total[Len(fields)] % 8 = 0
  PROVE  Whole(fields)
<1> SUFFICES ASSUME NEW kind, NEW id PROVE Bits(fields, kind, id) % 8 = 0
  BY DEF Whole
<1> DEFINE n == Len(fields)
           b == Sums(fields, kind, id)
           this == g.of.report = id /\ (g.kind = "feature" <=> kind = "feature")
           S == {k \in Nat : k \in 1 .. n => b[k] = IF this THEN total[k] ELSE 0}
<1>1. n \in Nat /\ n >= 1 /\ Len(total) = n
  BY DEF Totals
<1>2. b[0] = 0 /\ \A k \in 1 .. n : b[k] = b[k - 1] + Counted(fields[k], kind, id)
  BY SumsExist
<1>3. \A k \in 1 .. n : Counted(fields[k], kind, id) = IF this THEN Width(fields[k]) ELSE 0
  BY DEF Counted, Width, SameReport
<1>4. Bits(fields, kind, id) = b[n]
  BY BitsAreSums
<1>5. \A k \in 1 .. n : total[k] \in Int /\ Width(fields[k]) \in Int
  <2>1. \A f \in Field : Width(f) \in Int
    BY DEF Width, Field
  <2> QED
    BY <2>1 DEF Totals
<1> HIDE DEF n, b, this
<1>6. 0 \in S
  OBVIOUS
<1>7. ASSUME NEW k \in Nat, k \in S PROVE k + 1 \in S
  <2> SUFFICES ASSUME k + 1 \in 1 .. n PROVE b[k + 1] = IF this THEN total[k + 1] ELSE 0
    OBVIOUS
  <2>1. b[k + 1] = b[k] + IF this THEN Width(fields[k + 1]) ELSE 0
    BY <1>2, <1>3
  <2>2. CASE k = 0
    BY <1>2, <1>5, <2>1, <2>2 DEF Totals
  <2>3. CASE k # 0
    <3>1. /\ k \in 1 .. n /\ k + 1 \in 2 .. n /\ (k + 1) - 1 = k
          /\ b[k] = IF this THEN total[k] ELSE 0
      <4>1. k \in 1 .. n /\ k + 1 \in 2 .. n /\ (k + 1) - 1 = k
        BY <1>1, <2>3
      <4> QED
        BY <1>7, <4>1
    <3>2. total[k + 1] = total[k] + Width(fields[k + 1])
      BY <1>1, <3>1 DEF Totals, n
    <3> QED
      BY <1>5, <2>1, <3>1, <3>2
  <2> QED
    BY <2>2, <2>3
<1> HIDE DEF S
<1>8. n \in S
  BY <1>1, <1>6, <1>7, SetInduction
<1>9. b[n] = IF this THEN total[n] ELSE 0
  BY <1>1, <1>8 DEF S
<1>10. total[n] % 8 = 0
  BY DEF n
<1> QED
  BY <1>4, <1>9, <1>10

(* The fields of the driver's descriptors. *)
LEMMA KindsAre == "input" \in Kinds /\ "feature" \in Kinds /\ "constant" \in Kinds
BY DEF Kinds

LEMMA SixteenIsInt == Sixteen \subseteq Int
BY DEF Sixteen

LEMMA FieldFacts ==
  ASSUME NEW kind \in Kinds,
         NEW r \in Int, NEW s \in Int, NEW c \in Int, NEW a \in Int, NEW b \in Int
  PROVE  /\ Global(r, s, c, a, b) \in Now
         /\ FieldOf(kind, Global(r, s, c, a, b)) \in Field
<1>1. Global(r, s, c, a, b) \in Now
  BY DEF Global, Now
<1>2. \A now \in Now : FieldOf(kind, now) \in Field
  BY DEF FieldOf, Field, Now
<1> QED
  BY <1>1, <1>2

LEMMA OfOneReport ==
  ASSUME NEW kind, NEW other, NEW r, NEW s, NEW c, NEW a, NEW b, NEW s2, NEW c2, NEW a2, NEW b2,
         kind = "feature" <=> other = "feature"
  PROVE  SameReport(FieldOf(kind, Global(r, s, c, a, b)), FieldOf(other, Global(r, s2, c2, a2, b2)))
BY DEF SameReport, FieldOf, Global

LEMMA WidthFacts ==
  ASSUME NEW kind, NEW r, NEW n \in Int, NEW a, NEW b
  PROVE  /\ Width(FieldOf(kind, Global(r, 1, n, a, b))) = n
         /\ Width(FieldOf(kind, Global(r, n, 1, a, b))) = n
         /\ Width(FieldOf(kind, Global(r, 8, 7, a, b))) = 56
<1>1. \A s, c : Width(FieldOf(kind, Global(r, s, c, a, b))) = s * c
  BY DEF Width, FieldOf, Global
<1> QED
  BY <1>1

LEMMA Ranges ==
  ASSUME NEW r, NEW c, NEW kind
  PROVE  /\ \A s, a, b : Ranged(FieldOf("constant", Global(r, s, c, a, b)))
         /\ Ranged(FieldOf(kind, Global(r, 1, c, 0, 1)))
         /\ Ranged(FieldOf(kind, Global(r, 8, c, -1, 1)))
         /\ \A max \in Sixteen : Ranged(FieldOf(kind, Global(r, 16, c, 0, max)))
         /\ \A low \in {-127, -128} : Ranged(FieldOf(kind, Global(r, 8, c, low, 127)))
<1> DEFINE Power(n) == 2 ^ n
<1>1. Power(1) = 2 /\ Power(7) = 128 /\ Power(16) = 65536
  OBVIOUS
<1>2. ASSUME NEW f
      PROVE  Ranged(f) <=>
               \/ f.kind = "constant"
               \/ IF f.of.min < 0
                  THEN f.of.min >= -Power(f.of.size - 1) /\ f.of.max < Power(f.of.size - 1)
                  ELSE f.of.min < f.of.max /\ f.of.max < Power(f.of.size)
  BY DEF Ranged
<1> HIDE DEF Power
<1>3. \A k, now : FieldOf(k, now).of = now /\ FieldOf(k, now).kind = k
  BY DEF FieldOf
<1>4. ASSUME NEW k, NEW s \in Int, NEW a \in Int, NEW b \in Int,
             IF a < 0 THEN a >= -Power(s - 1) /\ b < Power(s - 1) ELSE a < b /\ b < Power(s)
      PROVE  Ranged(FieldOf(k, Global(r, s, c, a, b)))
  <2>1. LET g == Global(r, s, c, a, b) IN g.size = s /\ g.min = a /\ g.max = b
    BY DEF Global
  <2> QED
    BY <1>2, <1>3, <1>4, <2>1
<1>5. \A s, a, b : Ranged(FieldOf("constant", Global(r, s, c, a, b)))
  BY <1>2, <1>3
<1>6. Ranged(FieldOf(kind, Global(r, 1, c, 0, 1)))
  BY <1>1, <1>4
<1>7. Ranged(FieldOf(kind, Global(r, 8, c, -1, 1)))
  BY <1>1, <1>4
<1>8. ASSUME NEW max \in Sixteen PROVE Ranged(FieldOf(kind, Global(r, 16, c, 0, max)))
  BY <1>1, <1>4 DEF Sixteen
<1>9. ASSUME NEW low \in {-127, -128} PROVE Ranged(FieldOf(kind, Global(r, 8, c, low, 127)))
  BY <1>1, <1>4
<1> QED
  BY <1>5, <1>6, <1>7, <1>8, <1>9

(* The same, one kind of field at a time. *)
LEMMA RangedConstant == ASSUME NEW now PROVE Ranged(FieldOf("constant", now))
BY DEF Ranged, FieldOf

LEMMA RangedBit ==
  ASSUME NEW kind, NEW r, NEW n
  PROVE  Ranged(FieldOf(kind, Global(r, 1, n, 0, 1)))
BY Ranges

LEMMA RangedWheel ==
  ASSUME NEW kind, NEW r, NEW n
  PROVE  Ranged(FieldOf(kind, Global(r, 8, n, -1, 1)))
BY Ranges

LEMMA RangedValue ==
  ASSUME NEW kind, NEW r, NEW n, NEW max \in Sixteen
  PROVE  Ranged(FieldOf(kind, Global(r, 16, n, 0, max)))
BY Ranges

LEMMA GoodFields ==
  ASSUME NEW fields \in Seq(Field), Len(fields) >= 1, NEW g,
         \A k \in 1 .. Len(fields) : SameReport(fields[k], g) /\ Ranged(fields[k]),
         NEW total, Totals(total, fields), total[Len(fields)] % 8 = 0
  PROVE  Good(fields)
<1>1. Whole(fields)
  BY OneReport
<1> QED
  BY <1>1 DEF Good

LEMMA OneField ==
  ASSUME NEW a \in Field,
         SameReport(a, a),
         Ranged(a),
         Width(a) % 8 = 0
  PROVE  Good(<<a>>)
<1>1. \A f \in Field : Width(f) \in Int
  BY DEF Width, Field
<1> DEFINE fields == <<a>>
           total == <<Width(a)>>
<1>2. total \in Seq(Int) /\ Len(total) = 1 /\ total[1] = Width(a)
  BY <1>1
<1>3. fields \in Seq(Field) /\ Len(fields) = 1 /\ fields[1] = a
  OBVIOUS
<1>4. \A k \in 1 .. 1 : fields[k] \in {a}
  OBVIOUS
<1>5. \A k \in 2 .. 1 : total[k] = total[k - 1] + Width(fields[k])
  OBVIOUS
<1>6. total[1] % 8 = 0
  OBVIOUS
<1> HIDE DEF total, fields
<1>7. Totals(total, fields)
  BY <1>2, <1>3, <1>5 DEF Totals
<1>8. /\ Len(fields) >= 1 /\ total[Len(fields)] % 8 = 0
      /\ \A k \in 1 .. Len(fields) : SameReport(fields[k], a) /\ Ranged(fields[k])
  BY <1>3, <1>4, <1>6
<1>9. Good(fields)
  BY <1>3, <1>7, <1>8, GoodFields
<1> QED
  BY <1>9 DEF fields

LEMMA TwoFields ==
  ASSUME NEW a \in Field, NEW b \in Field,
         SameReport(a, a), SameReport(b, a),
         Ranged(a), Ranged(b),
         (Width(a) + Width(b)) % 8 = 0
  PROVE  Good(<<a, b>>)
<1>1. \A f \in Field : Width(f) \in Int
  BY DEF Width, Field
<1> DEFINE fields == <<a, b>>
           total == <<Width(a), Width(a) + Width(b)>>
<1>2. total \in Seq(Int) /\ Len(total) = 2 /\ total[1] = Width(a)
  BY <1>1
<1>3. fields \in Seq(Field) /\ Len(fields) = 2 /\ fields[1] = a
  OBVIOUS
<1>4. \A k \in 1 .. 2 : fields[k] \in {a, b}
  OBVIOUS
<1>5. \A k \in 2 .. 2 : total[k] = total[k - 1] + Width(fields[k])
  BY <1>1
<1>6. total[2] % 8 = 0
  OBVIOUS
<1> HIDE DEF total, fields
<1>7. Totals(total, fields)
  BY <1>2, <1>3, <1>5 DEF Totals
<1>8. /\ Len(fields) >= 1 /\ total[Len(fields)] % 8 = 0
      /\ \A k \in 1 .. Len(fields) : SameReport(fields[k], a) /\ Ranged(fields[k])
  BY <1>3, <1>4, <1>6
<1>9. Good(fields)
  BY <1>3, <1>7, <1>8, GoodFields
<1> QED
  BY <1>9 DEF fields

LEMMA ThreeFields ==
  ASSUME NEW a \in Field, NEW b \in Field, NEW c \in Field,
         SameReport(a, a), SameReport(b, a), SameReport(c, a),
         Ranged(a), Ranged(b), Ranged(c),
         (Width(a) + Width(b) + Width(c)) % 8 = 0
  PROVE  Good(<<a, b, c>>)
<1>1. \A f \in Field : Width(f) \in Int
  BY DEF Width, Field
<1> DEFINE fields == <<a, b, c>>
           total == <<Width(a), Width(a) + Width(b), Width(a) + Width(b) + Width(c)>>
<1>2. total \in Seq(Int) /\ Len(total) = 3 /\ total[1] = Width(a)
  BY <1>1
<1>3. fields \in Seq(Field) /\ Len(fields) = 3 /\ fields[1] = a
  OBVIOUS
<1>4. \A k \in 1 .. 3 : fields[k] \in {a, b, c}
  OBVIOUS
<1>5. \A k \in 2 .. 3 : total[k] = total[k - 1] + Width(fields[k])
  BY <1>1
<1>6. total[3] % 8 = 0
  OBVIOUS
<1> HIDE DEF total, fields
<1>7. Totals(total, fields)
  BY <1>2, <1>3, <1>5 DEF Totals
<1>8. /\ Len(fields) >= 1 /\ total[Len(fields)] % 8 = 0
      /\ \A k \in 1 .. Len(fields) : SameReport(fields[k], a) /\ Ranged(fields[k])
  BY <1>3, <1>4, <1>6
<1>9. Good(fields)
  BY <1>3, <1>7, <1>8, GoodFields
<1> QED
  BY <1>9 DEF fields

LEMMA SixFields ==
  ASSUME NEW a \in Field, NEW b \in Field, NEW c \in Field,
         NEW d \in Field, NEW g \in Field, NEW h \in Field,
         \A f \in {a, b, c, d, g, h} : SameReport(f, a) /\ Ranged(f),
         (Width(a) + Width(b) + Width(c) + Width(d) + Width(g) + Width(h)) % 8 = 0
  PROVE  Good(<<a, b, c, d, g, h>>)
<1>1. \A f \in Field : Width(f) \in Int
  BY DEF Width, Field
<1> DEFINE fields == <<a, b, c, d, g, h>>
           total == <<Width(a), Width(a) + Width(b), Width(a) + Width(b) + Width(c),
                      Width(a) + Width(b) + Width(c) + Width(d),
                      Width(a) + Width(b) + Width(c) + Width(d) + Width(g),
                      Width(a) + Width(b) + Width(c) + Width(d) + Width(g) + Width(h)>>
<1>2. total \in Seq(Int) /\ Len(total) = 6 /\ total[1] = Width(a)
  BY <1>1
<1>3. fields \in Seq(Field) /\ Len(fields) = 6 /\ fields[1] = a
  OBVIOUS
<1>4. \A k \in 1 .. 6 : fields[k] \in {a, b, c, d, g, h}
  OBVIOUS
<1>5. \A k \in 2 .. 6 : total[k] = total[k - 1] + Width(fields[k])
  BY <1>1
<1>6. total[6] % 8 = 0
  OBVIOUS
<1> HIDE DEF total, fields
<1>7. Totals(total, fields)
  BY <1>2, <1>3, <1>5 DEF Totals
<1>8. /\ Len(fields) >= 1 /\ total[Len(fields)] % 8 = 0
      /\ \A k \in 1 .. Len(fields) : SameReport(fields[k], a) /\ Ranged(fields[k])
  BY <1>3, <1>4, <1>6
<1>9. Good(fields)
  BY <1>3, <1>7, <1>8, GoodFields
<1> QED
  BY <1>9 DEF fields

-----------------------------------------------------------------------------
(* What each part adds *)

(* The fields u are those of s and then t. *)
Extends(u, s, t) == t \in Seq(Field) /\ u = s \o t

LEMMA AppendTo ==
  ASSUME NEW s \in Seq(Field), NEW t, NEW u, Extends(u, s, t), NEW e \in Field
  PROVE  Extends(Append(u, e), s, Append(t, e))
<1>1. \A v \in Seq(Field) : Append(v, e) \in Seq(Field) /\ Append(s \o v, e) = s \o Append(v, e)
  OBVIOUS
<1>2. t \in Seq(Field) /\ u = s \o t
  BY DEF Extends
<1> QED
  BY <1>1, <1>2, Zenon DEF Extends

LEMMA Appends ==
  ASSUME NEW f \in Seq(Field), NEW a \in Field, NEW b \in Field, NEW c \in Field
  PROVE  /\ Extends(Append(f, a), f, <<a>>)
         /\ Extends(Append(Append(f, a), b), f, <<a, b>>)
         /\ Extends(Append(Append(Append(f, a), b), c), f, <<a, b, c>>)
<1>1. Extends(Append(f, a), f, <<a>>)
  BY DEF Extends
<1>2. <<a, b>> = Append(<<a>>, b)
  OBVIOUS
<1>3. <<a, b, c>> = Append(<<a, b>>, c)
  OBVIOUS
<1>4. Extends(Append(Append(f, a), b), f, <<a, b>>)
  BY <1>1, <1>2, AppendTo, Zenon
<1>5. Extends(Append(Append(Append(f, a), b), c), f, <<a, b, c>>)
  BY <1>3, <1>4, AppendTo, Zenon
<1> QED
  BY <1>1, <1>4, <1>5

Appended(f, a, b, c, d, g, h) == Append(Append(Append(Append(Append(Append(f, a), b), c), d), g), h)

Longer(f, a, b, c, d, g, h) == f \o <<a, b, c, d, g, h>>

LEMMA SixAppended ==
  ASSUME NEW f \in Seq(Field),
         NEW a \in Field, NEW b \in Field, NEW c \in Field,
         NEW d \in Field, NEW g \in Field, NEW h \in Field
  PROVE  Appended(f, a, b, c, d, g, h) = Longer(f, a, b, c, d, g, h)
<1> DEFINE f3 == Append(Append(Append(f, a), b), c)
<1>1. Extends(f3, f, <<a, b, c>>)
  BY Appends
<1>2. <<a, b, c, d>> = Append(<<a, b, c>>, d)
  OBVIOUS
<1>3. <<a, b, c, d, g>> = Append(<<a, b, c, d>>, g)
  OBVIOUS
<1>4. <<a, b, c, d, g, h>> = Append(<<a, b, c, d, g>>, h)
  OBVIOUS
<1> HIDE DEF f3
<1>5. Extends(Append(f3, d), f, <<a, b, c, d>>)
  BY <1>1, <1>2, AppendTo, Zenon
<1>6. Extends(Append(Append(f3, d), g), f, <<a, b, c, d, g>>)
  BY <1>3, <1>5, AppendTo, Zenon
<1>7. Extends(Append(Append(Append(f3, d), g), h), f, <<a, b, c, d, g, h>>)
  BY <1>4, <1>6, AppendTo, Zenon
<1> QED
  BY <1>7, Zenon DEF f3, Appended, Longer, Extends

(* The items lead from one state of the HID core to another. *)
Lead(p, items, q) == items \in Seq(AnyItem) /\ After(p, items) = q

LEMMA LeadOn ==
  ASSUME NEW p, NEW s, NEW q, NEW t, NEW r, Lead(p, s, q), Lead(q, t, r)
  PROVE  Lead(p, s \o t, r)
<1>1. s \in Seq(AnyItem) /\ t \in Seq(AnyItem) /\ After(p, s) = q /\ After(q, t) = r
  BY DEF Lead
<1>2. After(p, s \o t) = After(After(p, s), t)
  BY <1>1, AfterBoth
<1> QED
  BY <1>1, <1>2 DEF Lead

LEMMA NowIs == ASSUME NEW now \in Now PROVE \E r, s, c, a, b : now = Global(r, s, c, a, b)
<1>1. now = Global(now.report, now.size, now.count, now.min, now.max)
  BY DEF Now, Global
<1> QED
  BY <1>1

LEMMA PenFollows ==
  ASSUME NEW x \in Sixteen, NEW y \in Sixteen, NEW pressure \in Sixteen
  PROVE  Follow(Pen(x, y, pressure))
<1> DEFINE s1 == <<Open, Report(16), Open>>
           s2 == <<Minimum(0), Maximum(1), Size(1), Count(3), Input>>
           s3 == <<Count(4), Constant, Count(1), Input>>
           s4 == <<Size(16), Count(1), Push>>
           s5 == <<Maximum(x), Input, Maximum(y), Input, Pop>>
           s6 == <<Maximum(pressure), Input>>
           s7 == <<End, End>>
           items == s1 \o s2 \o s3 \o s4 \o s5 \o s6 \o s7
<1>1. /\ s1 \in Seq(AnyItem) /\ s2 \in Seq(AnyItem) /\ s3 \in Seq(AnyItem) /\ s4 \in Seq(AnyItem)
      /\ s5 \in Seq(AnyItem) /\ s6 \in Seq(AnyItem) /\ s7 \in Seq(AnyItem)
  BY TheseAreItems, SixteenIsInt
<1>2. items = Pen(x, y, pressure)
  BY DEF Pen
<1> SUFFICES ASSUME NEW now \in Now, NEW f \in Seq(Field)
             PROVE  \E then \in Now : \E new :
                      /\ Good(new)
                      /\ After(State(0, now, <<>>, f), items) = State(0, then, <<>>, f \o new)
  <2> HIDE DEF s1, s2, s3, s4, s5, s6, s7
  <2>1. items \in Seq(AnyItem)
    BY <1>1
  <2> QED
    BY <1>2, <2>1 DEF Follow
<1>3. PICK r, s, c, a, b : now = Global(r, s, c, a, b)
  BY NowIs
<1> DEFINE bit(n) == Global(16, 1, n, 0, 1)
           value(max) == Global(16, 16, 1, 0, max)
           e1 == FieldOf("input", bit(3))
           e2 == FieldOf("constant", bit(4))
           e3 == FieldOf("input", bit(1))
           e4 == FieldOf("input", value(x))
           e5 == FieldOf("input", value(y))
           e6 == FieldOf("input", value(pressure))
           f1 == Append(f, e1)
           f3 == Append(Append(f1, e2), e3)
           f5 == Append(Append(f3, e4), e5)
           p1 == State(2, Global(16, s, c, a, b), <<>>, f)
           p2 == State(2, bit(3), <<>>, f1)
           p3 == State(2, bit(1), <<>>, f3)
           p4 == State(2, value(1), <<value(1)>>, f3)
           p5 == State(2, value(1), <<>>, f5)
           p6 == State(2, value(pressure), <<>>, Append(f5, e6))
           p7 == State(0, value(pressure), <<>>, Append(f5, e6))
<1>4. After(State(0, now, <<>>, f), s1) = p1
  <2>1. Step(State(0, Global(r, s, c, a, b), <<>>, f), Open)
          = State(1, Global(r, s, c, a, b), <<>>, f)
    BY CollectionItems
  <2>2. Step(State(1, Global(r, s, c, a, b), <<>>, f), Report(16))
          = State(1, Global(16, s, c, a, b), <<>>, f)
    BY GlobalItems
  <2>3. Step(State(1, Global(16, s, c, a, b), <<>>, f), Open) = p1
    BY CollectionItems
  <2> QED
    BY <1>3, <2>1, <2>2, <2>3, After3
<1>5. After(p1, s2) = p2
  <2>1. Step(Step(Step(Step(p1, Minimum(0)), Maximum(1)), Size(1)), Count(3))
          = State(2, bit(3), <<>>, f)
    BY GlobalItems
  <2> QED
    BY <2>1, After5, MainItems
<1> HIDE DEF f1
<1>6. After(p2, s3) = p3
  <2>1. Step(p2, Count(4)) = State(2, bit(4), <<>>, f1)
    BY GlobalItems
  <2>2. Step(State(2, bit(4), <<>>, f1), Constant) = State(2, bit(4), <<>>, Append(f1, e2))
    BY MainItems
  <2>3. Step(State(2, bit(4), <<>>, Append(f1, e2)), Count(1)) = State(2, bit(1), <<>>, Append(f1, e2))
    BY GlobalItems
  <2>4. Step(State(2, bit(1), <<>>, Append(f1, e2)), Input) = p3
    BY MainItems
  <2> QED
    BY <2>1, <2>2, <2>3, <2>4, After4
<1> HIDE DEF f3
<1>7. After(p3, s4) = p4
  <2>1. Step(Step(p3, Size(16)), Count(1)) = State(2, value(1), <<>>, f3)
    BY GlobalItems
  <2> QED
    BY <2>1, After3, PushItem
<1>8. After(p4, s5) = p5
  <2>1. Step(p4, Maximum(x)) = State(2, value(x), <<value(1)>>, f3)
    BY GlobalItems
  <2>2. Step(State(2, value(x), <<value(1)>>, f3), Input)
          = State(2, value(x), <<value(1)>>, Append(f3, e4))
    BY MainItems
  <2>3. Step(State(2, value(x), <<value(1)>>, Append(f3, e4)), Maximum(y))
          = State(2, value(y), <<value(1)>>, Append(f3, e4))
    BY GlobalItems
  <2>4. Step(State(2, value(y), <<value(1)>>, Append(f3, e4)), Input)
          = State(2, value(y), <<value(1)>>, f5)
    BY MainItems
  <2>5. Step(State(2, value(y), <<value(1)>>, f5), Pop) = p5
    BY PopItem
  <2> QED
    BY <2>1, <2>2, <2>3, <2>4, <2>5, After5
<1> HIDE DEF f5
<1>9. After(p5, s6) = p6
  <2>1. Step(p5, Maximum(pressure)) = State(2, value(pressure), <<>>, f5)
    BY GlobalItems
  <2> QED
    BY <2>1, After2, MainItems
<1>10. After(p6, s7) = p7
  <2>1. Step(p6, End) = State(1, value(pressure), <<>>, Append(f5, e6))
    BY CollectionItems
  <2>2. Step(State(1, value(pressure), <<>>, Append(f5, e6)), End) = p7
    BY CollectionItems
  <2> QED
    BY <2>1, <2>2, After2
<1>11. Lead(State(0, now, <<>>, f), items, p7)
  <2> DEFINE p == State(0, now, <<>>, f)
  <2> HIDE DEF p, s1, s2, s3, s4, s5, s6, s7, p1, p2, p3, p4, p5, p6, p7
  <2>1. /\ Lead(p, s1, p1) /\ Lead(p1, s2, p2) /\ Lead(p2, s3, p3) /\ Lead(p3, s4, p4)
        /\ Lead(p4, s5, p5) /\ Lead(p5, s6, p6) /\ Lead(p6, s7, p7)
    BY <1>1, <1>4, <1>5, <1>6, <1>7, <1>8, <1>9, <1>10 DEF Lead, p
  <2> QED
    BY <2>1, LeadOn, Zenon DEF p
<1>12. /\ e1 \in Field /\ e2 \in Field /\ e3 \in Field /\ e4 \in Field /\ e5 \in Field /\ e6 \in Field
       /\ value(pressure) \in Now
  <2>1. \A kind \in Kinds : FieldOf(kind, bit(1)) \in Field /\ FieldOf(kind, bit(3)) \in Field
                           /\ FieldOf(kind, bit(4)) \in Field
    BY FieldFacts
  <2>2. \A kind \in Kinds, max \in Int : value(max) \in Now /\ FieldOf(kind, value(max)) \in Field
    BY FieldFacts
  <2> HIDE DEF bit, value
  <2> QED
    BY <2>1, <2>2, SixteenIsInt, KindsAre
<1>13. Good(<<e1, e2, e3, e4, e5, e6>>)
  <2>1. /\ Width(e1) = 3 /\ Width(e2) = 4 /\ Width(e3) = 1
        /\ Width(e4) = 16 /\ Width(e5) = 16 /\ Width(e6) = 16
    BY WidthFacts
  <2>2. \A e \in {e1, e2, e3, e4, e5, e6} : SameReport(e, e1)
    BY OfOneReport
  <2>3. \A e \in {e1, e2, e3, e4, e5, e6} : Ranged(e)
    <3>1. Ranged(e1) /\ Ranged(e3)
      BY RangedBit
    <3>2. Ranged(e2)
      BY RangedConstant
    <3>3. Ranged(e4) /\ Ranged(e5) /\ Ranged(e6)
      BY RangedValue
    <3> HIDE DEF e1, e2, e3, e4, e5, e6
    <3> QED
      BY <3>1, <3>2, <3>3
  <2> HIDE DEF e1, e2, e3, e4, e5, e6
  <2>4. (Width(e1) + Width(e2) + Width(e3) + Width(e4) + Width(e5) + Width(e6)) % 8 = 0
    BY <2>1
  <2> QED
    BY <1>12, <2>2, <2>3, <2>4, SixFields
<1>14. Append(f5, e6) = f \o <<e1, e2, e3, e4, e5, e6>>
  <2> HIDE DEF e1, e2, e3, e4, e5, e6
  <2>1. Append(f5, e6) = Appended(f, e1, e2, e3, e4, e5, e6)
    BY Zenon DEF Appended, f1, f3, f5
  <2>2. Appended(f, e1, e2, e3, e4, e5, e6) = Longer(f, e1, e2, e3, e4, e5, e6)
    BY <1>12, SixAppended
  <2> QED
    BY <2>1, <2>2, Zenon DEF Longer
<1> QED
  BY <1>11, <1>12, <1>13, <1>14 DEF Lead

LEMMA MouseFollows ==
  ASSUME NEW x \in Sixteen, NEW y \in Sixteen
  PROVE  Follow(Mouse(x, y))
<1> DEFINE s1 == <<Open, Report(17), Open, Minimum(0), Push>>
           s2 == <<Size(1), Maximum(1), Count(3), Input>>
           s3 == <<Count(5), Constant, Pop>>
           s4 == <<Count(1), Push, Size(16)>>
           s5 == <<Maximum(x), Input, Maximum(y), Input, Pop>>
           s6 == <<Size(8), Minimum(-1), Maximum(1), Input, Constant>>
           s7 == <<End, End>>
           items == s1 \o s2 \o s3 \o s4 \o s5 \o s6 \o s7
<1>1. /\ s1 \in Seq(AnyItem) /\ s2 \in Seq(AnyItem) /\ s3 \in Seq(AnyItem) /\ s4 \in Seq(AnyItem)
      /\ s5 \in Seq(AnyItem) /\ s6 \in Seq(AnyItem) /\ s7 \in Seq(AnyItem)
  BY TheseAreItems, SixteenIsInt
<1>2. items = Mouse(x, y)
  BY DEF Mouse
<1> SUFFICES ASSUME NEW now \in Now, NEW f \in Seq(Field)
             PROVE  \E then \in Now : \E new :
                      /\ Good(new)
                      /\ After(State(0, now, <<>>, f), items) = State(0, then, <<>>, f \o new)
  <2> HIDE DEF s1, s2, s3, s4, s5, s6, s7
  <2>1. items \in Seq(AnyItem)
    BY <1>1
  <2> QED
    BY <1>2, <2>1 DEF Follow
<1>3. PICK r, s, c, a, b : now = Global(r, s, c, a, b)
  BY NowIs
<1> DEFINE g == Global(17, s, c, 0, b)
           h == Global(17, s, 1, 0, b)
           bit(n) == Global(17, 1, n, 0, 1)
           value(max) == Global(17, 16, 1, 0, max)
           wheel == Global(17, 8, 1, -1, 1)
           e1 == FieldOf("input", bit(3))
           e2 == FieldOf("constant", bit(5))
           e3 == FieldOf("input", value(x))
           e4 == FieldOf("input", value(y))
           e5 == FieldOf("input", wheel)
           e6 == FieldOf("constant", wheel)
           f1 == Append(f, e1)
           f2 == Append(f1, e2)
           f4 == Append(Append(f2, e3), e4)
           f6 == Append(Append(f4, e5), e6)
           p1 == State(2, g, <<g>>, f)
           p2 == State(2, bit(3), <<g>>, f1)
           p3 == State(2, g, <<>>, f2)
           p4 == State(2, value(b), <<h>>, f2)
           p5 == State(2, h, <<>>, f4)
           p6 == State(2, wheel, <<>>, f6)
           p7 == State(0, wheel, <<>>, f6)
<1>4. After(State(0, now, <<>>, f), s1) = p1
  <2>1. Step(State(0, Global(r, s, c, a, b), <<>>, f), Open)
          = State(1, Global(r, s, c, a, b), <<>>, f)
    BY CollectionItems
  <2>2. Step(State(1, Global(r, s, c, a, b), <<>>, f), Report(17))
          = State(1, Global(17, s, c, a, b), <<>>, f)
    BY GlobalItems
  <2>3. Step(State(1, Global(17, s, c, a, b), <<>>, f), Open)
          = State(2, Global(17, s, c, a, b), <<>>, f)
    BY CollectionItems
  <2>4. Step(State(2, Global(17, s, c, a, b), <<>>, f), Minimum(0)) = State(2, g, <<>>, f)
    BY GlobalItems
  <2>5. Step(State(2, g, <<>>, f), Push) = p1
    BY PushItem
  <2> QED
    BY <1>3, <2>1, <2>2, <2>3, <2>4, <2>5, After5
<1>5. After(p1, s2) = p2
  <2>1. Step(Step(Step(p1, Size(1)), Maximum(1)), Count(3)) = State(2, bit(3), <<g>>, f)
    BY GlobalItems
  <2> QED
    BY <2>1, After4, MainItems
<1> HIDE DEF f1
<1>6. After(p2, s3) = p3
  <2>1. Step(p2, Count(5)) = State(2, bit(5), <<g>>, f1)
    BY GlobalItems
  <2>2. Step(State(2, bit(5), <<g>>, f1), Constant) = State(2, bit(5), <<g>>, f2)
    BY MainItems
  <2>3. Step(State(2, bit(5), <<g>>, f2), Pop) = p3
    BY PopItem
  <2> QED
    BY <2>1, <2>2, <2>3, After3
<1> HIDE DEF f2
<1>7. After(p3, s4) = p4
  <2>1. Step(p3, Count(1)) = State(2, h, <<>>, f2)
    BY GlobalItems
  <2>2. Step(State(2, h, <<>>, f2), Push) = State(2, h, <<h>>, f2)
    BY PushItem
  <2>3. Step(State(2, h, <<h>>, f2), Size(16)) = p4
    BY GlobalItems
  <2> QED
    BY <2>1, <2>2, <2>3, After3
<1>8. After(p4, s5) = p5
  <2>1. Step(p4, Maximum(x)) = State(2, value(x), <<h>>, f2)
    BY GlobalItems
  <2>2. Step(State(2, value(x), <<h>>, f2), Input) = State(2, value(x), <<h>>, Append(f2, e3))
    BY MainItems
  <2>3. Step(State(2, value(x), <<h>>, Append(f2, e3)), Maximum(y))
          = State(2, value(y), <<h>>, Append(f2, e3))
    BY GlobalItems
  <2>4. Step(State(2, value(y), <<h>>, Append(f2, e3)), Input) = State(2, value(y), <<h>>, f4)
    BY MainItems
  <2>5. Step(State(2, value(y), <<h>>, f4), Pop) = p5
    BY PopItem
  <2> QED
    BY <2>1, <2>2, <2>3, <2>4, <2>5, After5
<1> HIDE DEF f4
<1>9. After(p5, s6) = p6
  <2>1. Step(Step(Step(p5, Size(8)), Minimum(-1)), Maximum(1)) = State(2, wheel, <<>>, f4)
    BY GlobalItems
  <2>2. Step(State(2, wheel, <<>>, f4), Input) = State(2, wheel, <<>>, Append(f4, e5))
    BY MainItems
  <2>3. Step(State(2, wheel, <<>>, Append(f4, e5)), Constant) = p6
    BY MainItems
  <2> QED
    BY <2>1, <2>2, <2>3, After5
<1> HIDE DEF f6
<1>10. After(p6, s7) = p7
  <2>1. Step(p6, End) = State(1, wheel, <<>>, f6)
    BY CollectionItems
  <2>2. Step(State(1, wheel, <<>>, f6), End) = p7
    BY CollectionItems
  <2> QED
    BY <2>1, <2>2, After2
<1>11. Lead(State(0, now, <<>>, f), items, p7)
  <2> DEFINE p == State(0, now, <<>>, f)
  <2> HIDE DEF p, s1, s2, s3, s4, s5, s6, s7, p1, p2, p3, p4, p5, p6, p7
  <2>1. /\ Lead(p, s1, p1) /\ Lead(p1, s2, p2) /\ Lead(p2, s3, p3) /\ Lead(p3, s4, p4)
        /\ Lead(p4, s5, p5) /\ Lead(p5, s6, p6) /\ Lead(p6, s7, p7)
    BY <1>1, <1>4, <1>5, <1>6, <1>7, <1>8, <1>9, <1>10 DEF Lead, p
  <2> QED
    BY <2>1, LeadOn, Zenon DEF p
<1>12. /\ e1 \in Field /\ e2 \in Field /\ e3 \in Field /\ e4 \in Field /\ e5 \in Field /\ e6 \in Field
       /\ wheel \in Now
  <2>1. \A kind \in Kinds : FieldOf(kind, bit(3)) \in Field /\ FieldOf(kind, bit(5)) \in Field
    BY FieldFacts
  <2>2. \A kind \in Kinds, max \in Int : FieldOf(kind, value(max)) \in Field
    BY FieldFacts
  <2>3. \A kind \in Kinds : wheel \in Now /\ FieldOf(kind, wheel) \in Field
    BY FieldFacts
  <2> HIDE DEF bit, value, wheel
  <2> QED
    BY <2>1, <2>2, <2>3, SixteenIsInt, KindsAre
<1>13. Good(<<e1, e2, e3, e4, e5, e6>>)
  <2>1. /\ Width(e1) = 3 /\ Width(e2) = 5 /\ Width(e3) = 16
        /\ Width(e4) = 16 /\ Width(e5) = 8 /\ Width(e6) = 8
    BY WidthFacts
  <2>2. \A e \in {e1, e2, e3, e4, e5, e6} : SameReport(e, e1)
    BY OfOneReport
  <2>3. \A e \in {e1, e2, e3, e4, e5, e6} : Ranged(e)
    <3>1. Ranged(e1)
      BY RangedBit
    <3>2. Ranged(e2) /\ Ranged(e6)
      BY RangedConstant
    <3>3. Ranged(e3) /\ Ranged(e4)
      BY RangedValue
    <3>4. Ranged(e5)
      BY RangedWheel
    <3> HIDE DEF e1, e2, e3, e4, e5, e6
    <3> QED
      BY <3>1, <3>2, <3>3, <3>4
  <2> HIDE DEF e1, e2, e3, e4, e5, e6
  <2>4. (Width(e1) + Width(e2) + Width(e3) + Width(e4) + Width(e5) + Width(e6)) % 8 = 0
    BY <2>1
  <2> QED
    BY <1>12, <2>2, <2>3, <2>4, SixFields
<1>14. f6 = f \o <<e1, e2, e3, e4, e5, e6>>
  <2> HIDE DEF e1, e2, e3, e4, e5, e6
  <2>1. f6 = Appended(f, e1, e2, e3, e4, e5, e6)
    BY Zenon DEF Appended, f1, f2, f4, f6
  <2> HIDE DEF f6
  <2>2. Appended(f, e1, e2, e3, e4, e5, e6) = Longer(f, e1, e2, e3, e4, e5, e6)
    BY <1>12, SixAppended
  <2> QED
    BY <2>1, <2>2, Zenon DEF Longer
<1> QED
  BY <1>11, <1>12, <1>13, <1>14 DEF Lead

LEMMA PuckFollows ==
  ASSUME NEW x \in Sixteen, NEW y \in Sixteen
  PROVE  Follow(Puck(x, y))
<1> DEFINE s1 == <<Open, Report(17), Open>>
           s2 == <<Size(1), Minimum(0), Maximum(1), Count(3), Input>>
           s3 == <<Count(4), Constant, Count(1), Input>>
           s4 == <<Push, Size(16)>>
           s5 == <<Maximum(x), Input, Maximum(y), Input>>
           s6 == <<Size(8), Minimum(-1), Maximum(1), Input, Pop>>
           s7 == <<End, End>>
           items == s1 \o s2 \o s3 \o s4 \o s5 \o s6 \o s7
<1>1. /\ s1 \in Seq(AnyItem) /\ s2 \in Seq(AnyItem) /\ s3 \in Seq(AnyItem) /\ s4 \in Seq(AnyItem)
      /\ s5 \in Seq(AnyItem) /\ s6 \in Seq(AnyItem) /\ s7 \in Seq(AnyItem)
  BY TheseAreItems, SixteenIsInt
<1>2. items = Puck(x, y)
  BY DEF Puck
<1> SUFFICES ASSUME NEW now \in Now, NEW f \in Seq(Field)
             PROVE  \E then \in Now : \E new :
                      /\ Good(new)
                      /\ After(State(0, now, <<>>, f), items) = State(0, then, <<>>, f \o new)
  <2> HIDE DEF s1, s2, s3, s4, s5, s6, s7
  <2>1. items \in Seq(AnyItem)
    BY <1>1
  <2> QED
    BY <1>2, <2>1 DEF Follow
<1>3. PICK r, s, c, a, b : now = Global(r, s, c, a, b)
  BY NowIs
<1> DEFINE bit(n) == Global(17, 1, n, 0, 1)
           value(max) == Global(17, 16, 1, 0, max)
           wheel == Global(17, 8, 1, -1, 1)
           e1 == FieldOf("input", bit(3))
           e2 == FieldOf("constant", bit(4))
           e3 == FieldOf("input", bit(1))
           e4 == FieldOf("input", value(x))
           e5 == FieldOf("input", value(y))
           e6 == FieldOf("input", wheel)
           f1 == Append(f, e1)
           f3 == Append(Append(f1, e2), e3)
           f5 == Append(Append(f3, e4), e5)
           f6 == Append(f5, e6)
           p1 == State(2, Global(17, s, c, a, b), <<>>, f)
           p2 == State(2, bit(3), <<>>, f1)
           p3 == State(2, bit(1), <<>>, f3)
           p4 == State(2, value(1), <<bit(1)>>, f3)
           p5 == State(2, value(y), <<bit(1)>>, f5)
           p6 == State(2, bit(1), <<>>, f6)
           p7 == State(0, bit(1), <<>>, f6)
<1>4. After(State(0, now, <<>>, f), s1) = p1
  <2>1. Step(State(0, Global(r, s, c, a, b), <<>>, f), Open)
          = State(1, Global(r, s, c, a, b), <<>>, f)
    BY CollectionItems
  <2>2. Step(State(1, Global(r, s, c, a, b), <<>>, f), Report(17))
          = State(1, Global(17, s, c, a, b), <<>>, f)
    BY GlobalItems
  <2>3. Step(State(1, Global(17, s, c, a, b), <<>>, f), Open) = p1
    BY CollectionItems
  <2> QED
    BY <1>3, <2>1, <2>2, <2>3, After3
<1>5. After(p1, s2) = p2
  <2>1. Step(Step(Step(Step(p1, Size(1)), Minimum(0)), Maximum(1)), Count(3))
          = State(2, bit(3), <<>>, f)
    BY GlobalItems
  <2> QED
    BY <2>1, After5, MainItems
<1> HIDE DEF f1
<1>6. After(p2, s3) = p3
  <2>1. Step(p2, Count(4)) = State(2, bit(4), <<>>, f1)
    BY GlobalItems
  <2>2. Step(State(2, bit(4), <<>>, f1), Constant) = State(2, bit(4), <<>>, Append(f1, e2))
    BY MainItems
  <2>3. Step(State(2, bit(4), <<>>, Append(f1, e2)), Count(1)) = State(2, bit(1), <<>>, Append(f1, e2))
    BY GlobalItems
  <2>4. Step(State(2, bit(1), <<>>, Append(f1, e2)), Input) = p3
    BY MainItems
  <2> QED
    BY <2>1, <2>2, <2>3, <2>4, After4
<1> HIDE DEF f3
<1>7. After(p3, s4) = p4
  <2>1. Step(p3, Push) = State(2, bit(1), <<bit(1)>>, f3)
    BY PushItem
  <2>2. Step(State(2, bit(1), <<bit(1)>>, f3), Size(16)) = p4
    BY GlobalItems
  <2> QED
    BY <2>1, <2>2, After2
<1>8. After(p4, s5) = p5
  <2>1. Step(p4, Maximum(x)) = State(2, value(x), <<bit(1)>>, f3)
    BY GlobalItems
  <2>2. Step(State(2, value(x), <<bit(1)>>, f3), Input)
          = State(2, value(x), <<bit(1)>>, Append(f3, e4))
    BY MainItems
  <2>3. Step(State(2, value(x), <<bit(1)>>, Append(f3, e4)), Maximum(y))
          = State(2, value(y), <<bit(1)>>, Append(f3, e4))
    BY GlobalItems
  <2>4. Step(State(2, value(y), <<bit(1)>>, Append(f3, e4)), Input) = p5
    BY MainItems
  <2> QED
    BY <2>1, <2>2, <2>3, <2>4, After4
<1> HIDE DEF f5
<1>9. After(p5, s6) = p6
  <2>1. Step(Step(Step(p5, Size(8)), Minimum(-1)), Maximum(1)) = State(2, wheel, <<bit(1)>>, f5)
    BY GlobalItems
  <2>2. Step(State(2, wheel, <<bit(1)>>, f5), Input) = State(2, wheel, <<bit(1)>>, f6)
    BY MainItems
  <2>3. Step(State(2, wheel, <<bit(1)>>, f6), Pop) = p6
    BY PopItem
  <2> QED
    BY <2>1, <2>2, <2>3, After5
<1> HIDE DEF f6
<1>10. After(p6, s7) = p7
  <2>1. Step(p6, End) = State(1, bit(1), <<>>, f6)
    BY CollectionItems
  <2>2. Step(State(1, bit(1), <<>>, f6), End) = p7
    BY CollectionItems
  <2> QED
    BY <2>1, <2>2, After2
<1>11. Lead(State(0, now, <<>>, f), items, p7)
  <2> DEFINE p == State(0, now, <<>>, f)
  <2> HIDE DEF p, s1, s2, s3, s4, s5, s6, s7, p1, p2, p3, p4, p5, p6, p7
  <2>1. /\ Lead(p, s1, p1) /\ Lead(p1, s2, p2) /\ Lead(p2, s3, p3) /\ Lead(p3, s4, p4)
        /\ Lead(p4, s5, p5) /\ Lead(p5, s6, p6) /\ Lead(p6, s7, p7)
    BY <1>1, <1>4, <1>5, <1>6, <1>7, <1>8, <1>9, <1>10 DEF Lead, p
  <2> QED
    BY <2>1, LeadOn, Zenon DEF p
<1>12. /\ e1 \in Field /\ e2 \in Field /\ e3 \in Field /\ e4 \in Field /\ e5 \in Field /\ e6 \in Field
       /\ bit(1) \in Now
  <2>1. \A kind \in Kinds, n \in Int : bit(n) \in Now /\ FieldOf(kind, bit(n)) \in Field
    BY FieldFacts
  <2>2. \A kind \in Kinds, max \in Int : FieldOf(kind, value(max)) \in Field
    BY FieldFacts
  <2>3. \A kind \in Kinds : FieldOf(kind, wheel) \in Field
    BY FieldFacts
  <2> HIDE DEF bit, value, wheel
  <2> QED
    BY <2>1, <2>2, <2>3, SixteenIsInt, KindsAre
<1>13. Good(<<e1, e2, e3, e4, e5, e6>>)
  <2>1. /\ Width(e1) = 3 /\ Width(e2) = 4 /\ Width(e3) = 1
        /\ Width(e4) = 16 /\ Width(e5) = 16 /\ Width(e6) = 8
    BY WidthFacts
  <2>2. \A e \in {e1, e2, e3, e4, e5, e6} : SameReport(e, e1)
    BY OfOneReport
  <2>3. \A e \in {e1, e2, e3, e4, e5, e6} : Ranged(e)
    <3>1. Ranged(e1) /\ Ranged(e3)
      BY RangedBit
    <3>2. Ranged(e2)
      BY RangedConstant
    <3>3. Ranged(e4) /\ Ranged(e5)
      BY RangedValue
    <3>4. Ranged(e6)
      BY RangedWheel
    <3> HIDE DEF e1, e2, e3, e4, e5, e6
    <3> QED
      BY <3>1, <3>2, <3>3, <3>4
  <2> HIDE DEF e1, e2, e3, e4, e5, e6
  <2>4. (Width(e1) + Width(e2) + Width(e3) + Width(e4) + Width(e5) + Width(e6)) % 8 = 0
    BY <2>1
  <2> QED
    BY <1>12, <2>2, <2>3, <2>4, SixFields
<1>14. f6 = f \o <<e1, e2, e3, e4, e5, e6>>
  <2> HIDE DEF e1, e2, e3, e4, e5, e6
  <2>1. f6 = Appended(f, e1, e2, e3, e4, e5, e6)
    BY Zenon DEF Appended, f1, f3, f5, f6
  <2> HIDE DEF f6
  <2>2. Appended(f, e1, e2, e3, e4, e5, e6) = Longer(f, e1, e2, e3, e4, e5, e6)
    BY <1>12, SixAppended
  <2> QED
    BY <2>1, <2>2, Zenon DEF Longer
<1> QED
  BY <1>11, <1>12, <1>13, <1>14 DEF Lead

LEMMA KeysFollow ==
  ASSUME NEW n \in Int, NEW c \in Int, (n + c) % 8 = 0
  PROVE  Follow(Keys(n, <<Count(c), Constant>>))
<1> DEFINE s1 == <<Open, Report(18)>>
           s2 == <<Minimum(0), Maximum(1), Size(1), Count(n), Input>>
           s3 == <<Count(c), Constant>>
           s4 == <<End>>
           items == s1 \o s2 \o s3 \o s4
<1>1. /\ s1 \in Seq(AnyItem) /\ s2 \in Seq(AnyItem) /\ s3 \in Seq(AnyItem) /\ s4 \in Seq(AnyItem)
  BY TheseAreItems
<1>2. items = Keys(n, <<Count(c), Constant>>)
  BY DEF Keys
<1> SUFFICES ASSUME NEW now \in Now, NEW f \in Seq(Field)
             PROVE  \E then \in Now : \E new :
                      /\ Good(new)
                      /\ After(State(0, now, <<>>, f), items) = State(0, then, <<>>, f \o new)
  <2> HIDE DEF s1, s2, s3, s4
  <2>1. items \in Seq(AnyItem)
    BY <1>1
  <2>2. Follow(items)
    BY <2>1 DEF Follow
  <2> HIDE DEF items
  <2> QED
    BY <1>2, <2>2, Zenon
<1>3. PICK r, s, t, a, b : now = Global(r, s, t, a, b)
  BY NowIs
<1> DEFINE bit(k) == Global(18, 1, k, 0, 1)
           e1 == FieldOf("input", bit(n))
           e2 == FieldOf("constant", bit(c))
           f1 == Append(f, e1)
           f2 == Append(f1, e2)
           p1 == State(1, Global(18, s, t, a, b), <<>>, f)
           p2 == State(1, bit(n), <<>>, f1)
           p3 == State(1, bit(c), <<>>, f2)
           p4 == State(0, bit(c), <<>>, f2)
<1>4. After(State(0, now, <<>>, f), s1) = p1
  <2>1. Step(State(0, Global(r, s, t, a, b), <<>>, f), Open)
          = State(1, Global(r, s, t, a, b), <<>>, f)
    BY CollectionItems
  <2>2. Step(State(1, Global(r, s, t, a, b), <<>>, f), Report(18)) = p1
    BY GlobalItems
  <2> QED
    BY <1>3, <2>1, <2>2, After2
<1>5. After(p1, s2) = p2
  <2>1. Step(Step(Step(Step(p1, Minimum(0)), Maximum(1)), Size(1)), Count(n))
          = State(1, bit(n), <<>>, f)
    BY GlobalItems
  <2> QED
    BY <2>1, After5, MainItems
<1> HIDE DEF f1
<1>6. After(p2, s3) = p3
  <2>1. Step(p2, Count(c)) = State(1, bit(c), <<>>, f1)
    BY GlobalItems
  <2>2. Step(State(1, bit(c), <<>>, f1), Constant) = p3
    BY MainItems
  <2> QED
    BY <2>1, <2>2, After2
<1> HIDE DEF f2
<1>7. After(p3, s4) = p4
  <2>1. Step(p3, End) = p4
    BY CollectionItems
  <2> QED
    BY <2>1, After1
<1>8. Lead(State(0, now, <<>>, f), items, p4)
  <2> DEFINE p == State(0, now, <<>>, f)
  <2> HIDE DEF p, s1, s2, s3, s4, p1, p2, p3, p4
  <2>1. Lead(p, s1, p1) /\ Lead(p1, s2, p2) /\ Lead(p2, s3, p3) /\ Lead(p3, s4, p4)
    BY <1>1, <1>4, <1>5, <1>6, <1>7 DEF Lead, p
  <2> QED
    BY <2>1, LeadOn, Zenon DEF p
<1>9. e1 \in Field /\ e2 \in Field /\ bit(c) \in Now
  BY FieldFacts, KindsAre
<1>10. Good(<<e1, e2>>)
  <2>1. Width(e1) = n /\ Width(e2) = c
    BY WidthFacts
  <2>2. SameReport(e1, e1) /\ SameReport(e2, e1)
    BY OfOneReport
  <2>3. Ranged(e1) /\ Ranged(e2)
    BY RangedBit, RangedConstant
  <2> HIDE DEF e1, e2
  <2>4. (Width(e1) + Width(e2)) % 8 = 0
    BY <2>1
  <2> QED
    BY <1>9, <2>2, <2>3, <2>4, TwoFields
<1>11. f2 = f \o <<e1, e2>>
  <2> HIDE DEF e1, e2
  <2>1. Extends(Append(Append(f, e1), e2), f, <<e1, e2>>)
    BY <1>9, Appends
  <2> QED
    BY <2>1, Zenon DEF Extends, f1, f2
<1> QED
  BY <1>8, <1>9, <1>10, <1>11 DEF Lead

LEMMA FourKeysFollow == Follow(Keys(4, <<Count(1), Size(20), Constant, Size(32), Constant>>))
<1> DEFINE s1 == <<Open, Report(18)>>
           s2 == <<Minimum(0), Maximum(1), Size(1), Count(4), Input>>
           s3 == <<Count(1), Size(20), Constant, Size(32), Constant>>
           s4 == <<End>>
           items == s1 \o s2 \o s3 \o s4
<1>1. /\ s1 \in Seq(AnyItem) /\ s2 \in Seq(AnyItem) /\ s3 \in Seq(AnyItem) /\ s4 \in Seq(AnyItem)
  BY TheseAreItems
<1>2. items = Keys(4, <<Count(1), Size(20), Constant, Size(32), Constant>>)
  BY DEF Keys
<1> SUFFICES ASSUME NEW now \in Now, NEW f \in Seq(Field)
             PROVE  \E then \in Now : \E new :
                      /\ Good(new)
                      /\ After(State(0, now, <<>>, f), items) = State(0, then, <<>>, f \o new)
  <2> HIDE DEF s1, s2, s3, s4
  <2>1. items \in Seq(AnyItem)
    BY <1>1
  <2>2. Follow(items)
    BY <2>1 DEF Follow
  <2> HIDE DEF items
  <2> QED
    BY <1>2, <2>2, Zenon
<1>3. PICK r, s, t, a, b : now = Global(r, s, t, a, b)
  BY NowIs
<1> DEFINE now1 == Global(18, 1, 4, 0, 1)
           some(bits) == Global(18, bits, 1, 0, 1)
           e1 == FieldOf("input", now1)
           e2 == FieldOf("constant", some(20))
           e3 == FieldOf("constant", some(32))
           f1 == Append(f, e1)
           f2 == Append(f1, e2)
           f3 == Append(f2, e3)
           p1 == State(1, Global(18, s, t, a, b), <<>>, f)
           p2 == State(1, now1, <<>>, f1)
           p3 == State(1, some(32), <<>>, f3)
           p4 == State(0, some(32), <<>>, f3)
<1>4. After(State(0, now, <<>>, f), s1) = p1
  <2>1. Step(State(0, Global(r, s, t, a, b), <<>>, f), Open)
          = State(1, Global(r, s, t, a, b), <<>>, f)
    BY CollectionItems
  <2>2. Step(State(1, Global(r, s, t, a, b), <<>>, f), Report(18)) = p1
    BY GlobalItems
  <2> QED
    BY <1>3, <2>1, <2>2, After2
<1>5. After(p1, s2) = p2
  <2>1. Step(Step(Step(Step(p1, Minimum(0)), Maximum(1)), Size(1)), Count(4)) = State(1, now1, <<>>, f)
    BY GlobalItems
  <2> QED
    BY <2>1, After5, MainItems
<1> HIDE DEF f1
<1>6. After(p2, s3) = p3
  <2>1. Step(Step(p2, Count(1)), Size(20)) = State(1, some(20), <<>>, f1)
    BY GlobalItems
  <2>2. Step(State(1, some(20), <<>>, f1), Constant) = State(1, some(20), <<>>, f2)
    BY MainItems
  <2>3. Step(State(1, some(20), <<>>, f2), Size(32)) = State(1, some(32), <<>>, f2)
    BY GlobalItems
  <2>4. Step(State(1, some(32), <<>>, f2), Constant) = p3
    BY MainItems
  <2> QED
    BY <2>1, <2>2, <2>3, <2>4, After5
<1> HIDE DEF f2, f3
<1>7. After(p3, s4) = p4
  <2>1. Step(p3, End) = p4
    BY CollectionItems
  <2> QED
    BY <2>1, After1
<1>8. Lead(State(0, now, <<>>, f), items, p4)
  <2> DEFINE p == State(0, now, <<>>, f)
  <2> HIDE DEF p, s1, s2, s3, s4, p1, p2, p3, p4
  <2>1. Lead(p, s1, p1) /\ Lead(p1, s2, p2) /\ Lead(p2, s3, p3) /\ Lead(p3, s4, p4)
    BY <1>1, <1>4, <1>5, <1>6, <1>7 DEF Lead, p
  <2> QED
    BY <2>1, LeadOn, Zenon DEF p
<1>9. e1 \in Field /\ e2 \in Field /\ e3 \in Field /\ some(32) \in Now
  BY FieldFacts, KindsAre
<1>10. Good(<<e1, e2, e3>>)
  <2>1. Width(e1) = 4 /\ Width(e2) = 20 /\ Width(e3) = 32
    BY WidthFacts
  <2>2. SameReport(e1, e1) /\ SameReport(e2, e1) /\ SameReport(e3, e1)
    BY OfOneReport
  <2>3. Ranged(e1) /\ Ranged(e2) /\ Ranged(e3)
    BY RangedBit, RangedConstant
  <2> HIDE DEF e1, e2, e3
  <2>4. (Width(e1) + Width(e2) + Width(e3)) % 8 = 0
    BY <2>1
  <2> QED
    BY <1>9, <2>2, <2>3, <2>4, ThreeFields
<1>11. f3 = f \o <<e1, e2, e3>>
  <2> HIDE DEF e1, e2, e3
  <2>1. Extends(Append(Append(Append(f, e1), e2), e3), f, <<e1, e2, e3>>)
    BY <1>9, Appends
  <2> QED
    BY <2>1, Zenon DEF Extends, f1, f2, f3
<1> QED
  BY <1>8, <1>9, <1>10, <1>11 DEF Lead

-----------------------------------------------------------------------------
(* The driver's own descriptors *)

LEMMA GoodBoth ==
  ASSUME NEW s, Good(s), NEW t, Good(t)
  PROVE  Good(s \o t)
<1>1. s \in Seq(Field) /\ t \in Seq(Field)
  BY DEF Good
<1>2. Whole(s \o t)
  <2> SUFFICES ASSUME NEW kind, NEW id PROVE Bits(s \o t, kind, id) % 8 = 0
    BY DEF Whole
  <2>1. Bits(s, kind, id) % 8 = 0 /\ Bits(t, kind, id) % 8 = 0
    BY DEF Good, Whole
  <2>2. /\ Bits(s, kind, id) \in Int /\ Bits(t, kind, id) \in Int
        /\ Bits(s \o t, kind, id) = Bits(s, kind, id) + Bits(t, kind, id)
    BY <1>1, BitsBoth
  <2>3. \A m, n \in Int : m % 8 = 0 /\ n % 8 = 0 => (m + n) % 8 = 0
    OBVIOUS
  <2> QED
    BY <2>1, <2>2, <2>3
<1>3. ASSUME NEW k \in DOMAIN (s \o t) PROVE Ranged((s \o t)[k])
  <2>1. \/ k \in DOMAIN s /\ (s \o t)[k] = s[k]
        \/ k - Len(s) \in DOMAIN t /\ (s \o t)[k] = t[k - Len(s)]
    BY <1>1
  <2> QED
    BY <2>1 DEF Good
<1>4. s \o t \in Seq(Field)
  BY <1>1
<1> QED
  BY <1>2, <1>3, <1>4 DEF Good

(* The first field is the report that enables a tablet, with room for what *)
(* is put in it.                                                           *)
Enables(fields) ==
  /\ Len(fields) >= 1
  /\ fields[1].kind = "feature" /\ fields[1].of.report = 5 /\ fields[1].of.count = 7

(* Items that are a descriptor by themselves, or with more that follow.    *)
Table(items) ==
  /\ items \in Seq(AnyItem)
  /\ \E now \in Now : \E f : Good(f) /\ Enables(f) /\ After(Start, items) = State(0, now, <<>>, f)

LEMMA EnablingIsTable == ASSUME NEW low \in {-127, -128} PROVE Table(Enabling(low))
<1> DEFINE s1 == <<Open, Report(5)>>
           s2 == <<Minimum(low), Maximum(127), Size(8), Count(7), Feature>>
           s3 == <<End>>
           items == s1 \o s2 \o s3
           now == Global(5, 8, 7, low, 127)
           e == FieldOf("feature", now)
           f == <<e>>
           p0 == State(0, Global(0, 0, 0, 0, 0), <<>>, <<>>)
           p1 == State(1, Global(5, 0, 0, 0, 0), <<>>, <<>>)
           p2 == State(1, now, <<>>, f)
           p3 == State(0, now, <<>>, f)
<1>1. s1 \in Seq(AnyItem) /\ s2 \in Seq(AnyItem) /\ s3 \in Seq(AnyItem)
  BY TheseAreItems
<1>2. items = Enabling(low)
  BY DEF Enabling
<1>3. Start = p0
  BY DEF Start, Globals, State, Global
<1>4. After(p0, s1) = p1
  <2>1. Step(p0, Open) = State(1, Global(0, 0, 0, 0, 0), <<>>, <<>>)
    BY CollectionItems
  <2>2. Step(State(1, Global(0, 0, 0, 0, 0), <<>>, <<>>), Report(5)) = p1
    BY GlobalItems
  <2> QED
    BY <2>1, <2>2, After2
<1>5. After(p1, s2) = p2
  <2>1. Step(Step(Step(Step(p1, Minimum(low)), Maximum(127)), Size(8)), Count(7))
          = State(1, now, <<>>, <<>>)
    BY GlobalItems
  <2>2. Append(<<>>, e) = f
    OBVIOUS
  <2>3. Step(State(1, now, <<>>, <<>>), Feature) = p2
    <3>1. \A g : Step(State(1, now, <<>>, g), Feature) = State(1, now, <<>>, Append(g, e))
      BY MainItems
    <3> HIDE DEF now, e
    <3> QED
      BY <2>2, <3>1
  <2> QED
    BY <2>1, <2>3, After5
<1>6. Len(f) = 1 /\ f[1] = e
  OBVIOUS
<1>7. e \in Field /\ now \in Now
  BY FieldFacts, KindsAre
<1>8. Good(f)
  <2>1. Width(e) % 8 = 0
    BY WidthFacts
  <2>2. SameReport(e, e) /\ Ranged(e)
    BY OfOneReport, Ranges
  <2> HIDE DEF e
  <2> QED
    BY <1>7, <2>1, <2>2, OneField
<1>9. Enables(f)
  <2>1. e.kind = "feature" /\ e.of.report = 5 /\ e.of.count = 7
    BY DEF FieldOf, Global
  <2> HIDE DEF e, f
  <2> QED
    BY <1>6, <2>1 DEF Enables
<1> HIDE DEF f
<1>10. After(p2, s3) = p3
  <2>1. Step(p2, End) = p3
    BY CollectionItems
  <2> QED
    BY <2>1, After1
<1>11. Lead(p0, items, p3)
  <2> HIDE DEF s1, s2, s3, p0, p1, p2, p3
  <2>1. Lead(p0, s1, p1) /\ Lead(p1, s2, p2) /\ Lead(p2, s3, p3)
    BY <1>1, <1>4, <1>5, <1>10 DEF Lead
  <2> QED
    BY <2>1, LeadOn, Zenon
<1> HIDE DEF items, p0
<1> QED
  BY <1>2, <1>3, <1>7, <1>8, <1>9, <1>11 DEF Lead, Table

LEMMA TableOn ==
  ASSUME NEW s, Table(s), NEW t, Follow(t)
  PROVE  Table(s \o t)
<1>1. s \in Seq(AnyItem) /\ t \in Seq(AnyItem)
  BY DEF Table, Follow
<1>2. PICK now \in Now : \E f : Good(f) /\ Enables(f) /\ After(Start, s) = State(0, now, <<>>, f)
  BY DEF Table
<1>3. PICK f : Good(f) /\ Enables(f) /\ After(Start, s) = State(0, now, <<>>, f)
  BY <1>2
<1>4. f \in Seq(Field)
  BY <1>3 DEF Good
<1>5. PICK then \in Now :
        \E x : Good(x) /\ After(State(0, now, <<>>, f), t) = State(0, then, <<>>, f \o x)
  BY <1>4 DEF Follow
<1>6. PICK x : Good(x) /\ After(State(0, now, <<>>, f), t) = State(0, then, <<>>, f \o x)
  BY <1>5
<1>7. x \in Seq(Field)
  BY <1>6 DEF Good
<1>8. After(Start, s \o t) = State(0, then, <<>>, f \o x)
  BY <1>1, <1>3, <1>6, AfterBoth
<1>9. Good(f \o x)
  BY <1>3, <1>6, GoodBoth
<1>10. Enables(f \o x)
  <2>1. Len(f) >= 1
    BY <1>3 DEF Enables
  <2>2. Len(f \o x) >= 1 /\ (f \o x)[1] = f[1]
    BY <1>4, <1>7, <2>1
  <2> QED
    BY <1>3, <2>2 DEF Enables
<1>11. s \o t \in Seq(AnyItem)
  BY <1>1
<1> QED
  BY <1>8, <1>9, <1>10, <1>11 DEF Table

(* Each of the seven is a descriptor that the HID core takes.              *)
LEMMA TabletsHaveTables == ASSUME NEW p \in Tablets PROVE Table(rdesc_fixed(p))
<1>1. Table(easypen_M506_rdesc_fixed)
  <2> DEFINE s == Enabling(-127)
             t == Pen(24576, 20480, 1023)
  <2>1. Table(s)
    BY EnablingIsTable
  <2>2. Follow(t)
    <3>1. 24576 \in Sixteen /\ 20480 \in Sixteen /\ 1023 \in Sixteen
      BY DEF Sixteen
    <3> QED
      BY <3>1, PenFollows
  <2> HIDE DEF s, t
  <2>3. Table(s \o t)
    BY <2>1, <2>2, TableOn
  <2> QED
    BY <2>3 DEF s, t, easypen_M506_rdesc_fixed
<1>2. Table(easypen_i405x_rdesc_fixed)
  <2> DEFINE s == Enabling(-128)
             t == Pen(14080, 10240, 1023)
  <2>1. Table(s)
    BY EnablingIsTable
  <2>2. Follow(t)
    <3>1. 14080 \in Sixteen /\ 10240 \in Sixteen /\ 1023 \in Sixteen
      BY DEF Sixteen
    <3> QED
      BY <3>1, PenFollows
  <2> HIDE DEF s, t
  <2>3. Table(s \o t)
    BY <2>1, <2>2, TableOn
  <2> QED
    BY <2>3 DEF s, t, easypen_i405x_rdesc_fixed
<1>3. Table(mousepen_i608x_rdesc_fixed)
  <2> DEFINE s == Enabling(-128)
             t == Pen(20480, 15360, 1023)
             u == Mouse(20480, 15360)
  <2>1. Table(s)
    BY EnablingIsTable
  <2>2. Follow(t)
    <3>1. 20480 \in Sixteen /\ 15360 \in Sixteen /\ 1023 \in Sixteen
      BY DEF Sixteen
    <3> QED
      BY <3>1, PenFollows
  <2>3. Follow(u)
    <3>1. 20480 \in Sixteen /\ 15360 \in Sixteen
      BY DEF Sixteen
    <3> QED
      BY <3>1, MouseFollows
  <2> HIDE DEF s, t, u
  <2>4. Table(s \o t \o u)
    BY <2>1, <2>2, <2>3, TableOn
  <2> QED
    BY <2>4 DEF s, t, u, mousepen_i608x_rdesc_fixed
<1>4. Table(mousepen_i608x_v2_rdesc_fixed)
  <2> DEFINE s == Enabling(-128)
             t == Pen(40960, 30720, 2047)
             u == Mouse(40960, 30720)
  <2>1. Table(s)
    BY EnablingIsTable
  <2>2. Follow(t)
    <3>1. 40960 \in Sixteen /\ 30720 \in Sixteen /\ 2047 \in Sixteen
      BY DEF Sixteen
    <3> QED
      BY <3>1, PenFollows
  <2>3. Follow(u)
    <3>1. 40960 \in Sixteen /\ 30720 \in Sixteen
      BY DEF Sixteen
    <3> QED
      BY <3>1, MouseFollows
  <2> HIDE DEF s, t, u
  <2>4. Table(s \o t \o u)
    BY <2>1, <2>2, <2>3, TableOn
  <2> QED
    BY <2>4 DEF s, t, u, mousepen_i608x_v2_rdesc_fixed
<1>5. Table(easypen_m610x_rdesc_fixed)
  <2> DEFINE s == Enabling(-128)
             t == Pen(40960, 25600, 1023)
             u == Keys(4, <<Count(1), Size(20), Constant, Size(32), Constant>>)
  <2>1. Table(s)
    BY EnablingIsTable
  <2>2. Follow(t)
    <3>1. 40960 \in Sixteen /\ 25600 \in Sixteen /\ 1023 \in Sixteen
      BY DEF Sixteen
    <3> QED
      BY <3>1, PenFollows
  <2>3. Follow(u)
    BY FourKeysFollow
  <2> HIDE DEF s, t, u
  <2>4. Table(s \o t \o u)
    BY <2>1, <2>2, <2>3, TableOn
  <2> QED
    BY <2>4 DEF s, t, u, easypen_m610x_rdesc_fixed
<1>6. Table(pensketch_m912_rdesc_fixed)
  <2> DEFINE s == Enabling(-127)
             t == Pen(61440, 46080, 2047)
             u == Puck(61440, 46080)
             v == Keys(8, <<Count(48), Constant>>)
  <2>1. Table(s)
    BY EnablingIsTable
  <2>2. Follow(t)
    <3>1. 61440 \in Sixteen /\ 46080 \in Sixteen /\ 2047 \in Sixteen
      BY DEF Sixteen
    <3> QED
      BY <3>1, PenFollows
  <2>3. Follow(u)
    <3>1. 61440 \in Sixteen /\ 46080 \in Sixteen
      BY DEF Sixteen
    <3> QED
      BY <3>1, PuckFollows
  <2>4. Follow(v)
    <3>1. (8 + 48) % 8 = 0
      OBVIOUS
    <3> QED
      BY <3>1, KeysFollow
  <2> HIDE DEF s, t, u, v
  <2>5. Table(s \o t \o u \o v)
    BY <2>1, <2>2, <2>3, <2>4, TableOn
  <2> QED
    BY <2>5 DEF s, t, u, v, pensketch_m912_rdesc_fixed
<1>7. Table(easypen_m406xe_rdesc_fixed)
  <2> DEFINE s == Enabling(-128)
             t == Pen(15360, 10240, 1023)
             u == Keys(4, <<Count(52), Constant>>)
  <2>1. Table(s)
    BY EnablingIsTable
  <2>2. Follow(t)
    <3>1. 15360 \in Sixteen /\ 10240 \in Sixteen /\ 1023 \in Sixteen
      BY DEF Sixteen
    <3> QED
      BY <3>1, PenFollows
  <2>3. Follow(u)
    <3>1. (4 + 52) % 8 = 0
      OBVIOUS
    <3> QED
      BY <3>1, KeysFollow
  <2> HIDE DEF s, t, u
  <2>4. Table(s \o t \o u)
    BY <2>1, <2>2, <2>3, TableOn
  <2> QED
    BY <2>4 DEF s, t, u, easypen_m406xe_rdesc_fixed
<1> QED
  BY <1>1, <1>2, <1>3, <1>4, <1>5, <1>6, <1>7 DEF Tablets, rdesc_fixed

(* Such a descriptor is parsed, and its fields are good ones.              *)
LEMMA FixedIsTable ==
  ASSUME product \in Tablets
  PROVE  /\ Parses(Items("fixed"))
         /\ Good(Fields("fixed")) /\ Enables(Fields("fixed"))
<1> DEFINE items == rdesc_fixed(product)
<1>1. Items("fixed") = items
  BY DEF Items
<1>2. Table(items)
  BY TabletsHaveTables
<1> HIDE DEF items
<1>3. PICK now, f : Good(f) /\ Enables(f) /\ After(Start, items) = State(0, now, <<>>, f)
  BY <1>2 DEF Table
<1>4. Parsed(items) = State(0, now, <<>>, f)
  BY <1>3, ParsedIsAfter
<1>5. Parses(items) /\ Parsed(items).fields = f
  BY <1>4 DEF Parses, State
<1> QED
  BY <1>1, <1>3, <1>5 DEF Fields

LEMMA FixedFits == IInv => FixedDescriptorsFit
<1> SUFFICES ASSUME IInv, desc = "fixed", NEW k \in DOMAIN Fields(desc)
             PROVE  LET f == Fields(desc)[k].of
                    IN  /\ Bits(Fields(desc), Fields(desc)[k].kind, f.report) % 8 = 0
                        /\ Fields(desc)[k].kind # "constant" =>
                             IF f.min < 0 THEN f.min >= -(2 ^ (f.size - 1)) /\ f.max < 2 ^ (f.size - 1)
                             ELSE f.min < f.max /\ f.max < 2 ^ f.size
  BY DEF FixedDescriptorsFit
<1>1. Good(Fields(desc))
  BY FixedIsTable DEF IInv, FixedInv
<1>2. \A kind, id : Bits(Fields(desc), kind, id) % 8 = 0
  BY <1>1 DEF Good, Whole
<1>3. Ranged(Fields(desc)[k])
  BY <1>1 DEF Good
<1> QED
  BY <1>2, <1>3 DEF Ranged

LEMMA FixedIsEnabled == ASSUME IInv, desc = "fixed" PROVE CanBeEnabled
<1>1. Good(Fields(desc)) /\ Enables(Fields(desc))
  BY FixedIsTable DEF IInv, FixedInv
<1> DEFINE f == Fields(desc)
<1>2. /\ f \in Seq(Field) /\ Len(f) >= 1
      /\ f[1].kind = "feature" /\ f[1].of.report = 5 /\ f[1].of.count = 7
  BY <1>1 DEF Good, Enables
<1> HIDE DEF f
<1>3. 1 \in DOMAIN f /\ \A j \in DOMAIN f : 1 <= j
  BY <1>2
<1>4. 1 \in EnablingFields /\ EnablingFields \subseteq DOMAIN f
  BY <1>2, <1>3 DEF EnablingFields, f
<1>5. f[1].of.count >= 7
  BY <1>2
<1> QED
  BY <1>3, <1>4, <1>5 DEF CanBeEnabled, f

(* What has failed so far: nothing, until something has.                   *)
WorksInv ==
  /\ pc \in {"parse", "start", "enable"} => ret = "none"
  /\ desc = "fixed" => /\ pc = "err" => ret # "parse"
                       /\ pc # "enabling_err"

LEMMA WorksIsSound == IInv /\ WorksInv /\ [Next]_vars => WorksInv'
<1> SUFFICES ASSUME IInv, WorksInv, [Next]_vars PROVE WorksInv'
  OBVIOUS
<1>1. CASE Plug \/ Unplug \/ ResetBus \/ Arrive \/ Lose \/ UNCHANGED vars
  <2>1. desc' = desc /\ pc' = pc /\ ret' = ret
    BY <1>1 DEF Plug, Unplug, ResetBus, Arrive, Lose, vars
  <2> QED
    BY <2>1 DEF WorksInv
<1>2. CASE Remove
  BY <1>2 DEF Remove, WorksInv
<1>3. CASE Probe
  BY <1>3 DEF Probe, WorksInv
<1>4. CASE Parse
  <2>1. pc = "parse" /\ ret = "none"
    BY <1>4 DEF Parse, WorksInv
  <2>2. CASE desc' = "fixed"
    <3>1. product \in Tablets
      <4>1. desc # "fixed"
        BY <2>1 DEF IInv, StoppedUnlessBound
      <4> QED
        BY <1>4, <2>2, <4>1 DEF Parse, kye_report_fixup
    <3>2. Parses(Items(desc'))
      BY <2>2, <3>1, FixedIsTable
    <3>3. \/ pc' = "start" /\ ret' = ret
          \/ pc' = "err" /\ ret' = "memory"
      BY <1>4, <3>2 DEF Parse
    <3> QED
      BY <2>1, <3>3 DEF WorksInv
  <2>3. CASE desc' # "fixed"
    <3>1. \/ pc' = "start" /\ ret' = ret
          \/ pc' = "err"
      BY <1>4 DEF Parse
    <3> QED
      BY <2>1, <2>3, <3>1 DEF WorksInv
  <2> QED
    BY <2>2, <2>3
<1>5. CASE StartHw
  BY <1>5 DEF StartHw, WorksInv
<1>6. CASE EnableTablet
  <2>1. pc = "enable" /\ desc' = desc
    BY <1>6 DEF EnableTablet
  <2>2. CASE desc = "fixed"
    <3>1. pc' = "bound"
      BY <1>6, <2>2, FixedIsEnabled DEF EnableTablet
    <3> QED
      BY <3>1 DEF WorksInv
  <2>3. CASE desc # "fixed"
    <3>1. pc' \in {"bound", "enabling_err"}
      BY <1>6 DEF EnableTablet
    <3> QED
      BY <2>1, <2>3, <3>1 DEF WorksInv
  <2> QED
    BY <2>2, <2>3
<1>7. CASE OpenManticore \/ NothingToEnable
  BY <1>7 DEF OpenManticore, NothingToEnable, WorksInv
<1>8. CASE EnablingFailed \/ ProbeFailed
  BY <1>8 DEF EnablingFailed, ProbeFailed, WorksInv
<1> QED
  BY <1>1, <1>2, <1>3, <1>4, <1>5, <1>6, <1>7, <1>8 DEF Next

(* Whichever of the driver's own descriptors replaces that of a tablet, it *)
(* is one the HID core takes, and the report that enables the tablet is in *)
(* it with room for its values: nothing of the probe fails for them.       *)
THEOREM FixedAlwaysWork == Spec => []FixedDescriptorsWork
<1>1. Init => WorksInv
  BY DEF Init, WorksInv
<1>2. WorksInv => FixedDescriptorsWork
  BY DEF WorksInv, FixedDescriptorsWork
<1>3. Spec => []WorksInv
  BY <1>1, Invariance, WorksIsSound, PTL DEF Spec
<1> QED
  BY <1>2, <1>3, PTL

(* Its reports are whole bytes, and each field has the bits for all the    *)
(* values it is said to have.                                              *)
THEOREM FixedAlwaysFit == Spec => []FixedDescriptorsFit
BY Invariance, FixedFits, PTL

=============================================================================
