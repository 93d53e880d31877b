----------------------- MODULE MinesweeperMainProofs -----------------------
(***************************************************************************)
(* The main loop keeps the timer and the header in step with the game, on  *)
(* a board of any size and for every course of the clock that does not go  *)
(* back.  What the engine promises comes from module MinesweeperProofs: a  *)
(* step of the loop is a step of the engine.                               *)
(***************************************************************************)
EXTENDS MinesweeperMain, MinesweeperProofs

-----------------------------------------------------------------------------
(* The timer *)

(* A timer's fields. *)
TimerOK(t) ==
  /\ t.start \in Instants /\ t.delta \in Nat
  /\ t.secs \in 0 .. 59 \cup {99} /\ t.mins \in Nat
  /\ t.is_paused \in BOOLEAN
  /\ t = [start |-> t.start, delta |-> t.delta, secs |-> t.secs,
          mins |-> t.mins, is_paused |-> t.is_paused]

(* The display, at the instant n, of a timer that was started at s. *)
Displays(t, s, n) ==
  \/ t.mins * 60 + t.secs = n - s /\ t.secs < 60
  \/ n - s >= 6000 /\ t.mins = 99 /\ t.secs = 99

(* A timer that is over 99 minutes was started so long ago. *)
LongAgo(t, n) == t.start <= n /\ (t.mins > 99 => n - t.start >= 6000)

LEMMA StartKeepsFields ==
  ASSUME NEW t, TimerOK(t), t.is_paused, NEW n \in Instants
  PROVE  /\ TimerOK(gt_start(t, n))
         /\ gt_start(t, n).start = n /\ gt_start(t, n).mins = t.mins
         /\ gt_start(t, n).is_paused = FALSE
BY DEF TimerOK, gt_start

LEMMA StopKeepsFields ==
  ASSUME NEW t, TimerOK(t)
  PROVE  /\ TimerOK(gt_stop(t))
         /\ gt_stop(t).start = t.start /\ gt_stop(t).mins = t.mins
         /\ gt_stop(t).secs = t.secs /\ gt_stop(t).is_paused = TRUE
<1> DEFINE a == gt_stop(t)
<1>1. a = [start |-> t.start, delta |-> t.delta, secs |-> t.secs, mins |-> t.mins, is_paused |-> TRUE]
  <2>1. t = [start |-> t.start, delta |-> t.delta, secs |-> t.secs, mins |-> t.mins, is_paused |-> t.is_paused]
    BY DEF TimerOK
  <2>2. a = [[start |-> t.start, delta |-> t.delta, secs |-> t.secs, mins |-> t.mins, is_paused |-> t.is_paused]
             EXCEPT !.is_paused = TRUE]
    BY <2>1 DEF gt_stop
  <2> QED
    BY ONLY <2>2
<1> HIDE DEF a
<1>2. /\ a.start = t.start /\ a.delta = t.delta /\ a.secs = t.secs
      /\ a.mins = t.mins /\ a.is_paused = TRUE
  BY <1>1
<1>3. TimerOK(a)
  BY <1>1, <1>2 DEF TimerOK
<1> QED
  BY <1>2, <1>3 DEF a

LEMMA PausedStays ==
  ASSUME NEW t, t.is_paused, NEW n
  PROVE  gt_advance(t, n) = t
BY DEF gt_advance

(* A running timer displays what has passed since its start. *)
LEMMA AdvanceDisplays ==
  ASSUME NEW t, TimerOK(t), ~t.is_paused, NEW m \in Instants, NEW n \in Instants,
         m <= n, LongAgo(t, m)
  PROVE  /\ TimerOK(gt_advance(t, n))
         /\ gt_advance(t, n).start = t.start /\ gt_advance(t, n).is_paused = FALSE
         /\ Displays(gt_advance(t, n), t.start, n) /\ LongAgo(gt_advance(t, n), n)
<1>1. m \in Nat /\ n \in Nat /\ t.start \in Nat /\ t.start <= m
  BY InstantsAssumption DEF TimerOK, LongAgo
<1> DEFINE d == n - t.start
           a == gt_advance(t, n)
<1>2. d \in Nat /\ d >= m - t.start
  BY <1>1
<1>3. CASE t.mins > 99
  <2>1. a = [start |-> t.start, delta |-> t.delta, secs |-> 99, mins |-> 99, is_paused |-> t.is_paused]
    BY <1>3 DEF gt_advance, TimerOK
  <2>2. d >= 6000
    BY <1>1, <1>2, <1>3 DEF LongAgo, TimerOK
  <2> QED
    BY <1>1, <2>1, <2>2 DEF TimerOK, Displays, LongAgo
<1>4. CASE ~(t.mins > 99)
  <2>1. a = [start |-> t.start, delta |-> d, secs |-> d % 60, mins |-> d \div 60, is_paused |-> t.is_paused]
    BY <1>4 DEF gt_advance, TimerOK
  <2> HIDE DEF d, a
  <2>2. d % 60 \in 0 .. 59 /\ d \div 60 \in Nat /\ (d \div 60) * 60 + (d % 60) = d
    BY <1>2
  <2>3. d \div 60 > 99 => d >= 6000
    BY <2>2, <1>2
  <2>4. d = n - t.start
    BY DEF d
  <2>5. TimerOK(a) /\ a.start = t.start /\ a.is_paused = FALSE
    BY <1>2, <2>1, <2>2 DEF TimerOK
  <2>6. Displays(a, t.start, n)
    BY <2>1, <2>2, <2>4 DEF Displays
  <2>7. LongAgo(a, n)
    BY <1>1, <1>2, <2>1, <2>3, <2>4 DEF LongAgo
  <2> QED
    BY <2>5, <2>6, <2>7 DEF a
<1> QED
  BY <1>3, <1>4

-----------------------------------------------------------------------------
(* The invariant *)

TimeInv ==
  /\ TimerOK(timer) /\ now \in Instants
  /\ timer.is_paused = (is_first \/ status # ONGOING)
  /\ IF is_first THEN timer = gt_reset /\ header.mins = 0 /\ header.secs = 0
     ELSE LongAgo(timer, now) /\ Displays(header, timer.start, now)

HeaderInv ==
  /\ header.mines_left = ms_total_mines(remap) - ms_total_flags(immap)
  /\ header.mines_total = ms_total_mines(remap)

MainInv == IInv /\ TimeInv /\ HeaderInv

(* A step of the loop is a step of the engine. *)
LEMMA StepsOfTheEngine == [NextMain]_mainvars => [Next]_vars
BY DEF NextMain, Move, OtherKey, FrozenKey, Next, mainvars

LEMMA MainInit == InitMain => MainInv
<1> SUFFICES ASSUME InitMain PROVE MainInv
  OBVIOUS
<1>1. IInv
  BY InitInv DEF InitMain
<1>2. HeaderInv
  BY DEF InitMain, HeaderInv, Header
<1>3. TimeInv
  <2>1. is_first = TRUE /\ timer = gt_reset /\ now = 0 /\ header = Header(gt_reset, remap, immap)
    BY DEF InitMain, Init
  <2>2. TimerOK(gt_reset) /\ gt_reset.is_paused = TRUE
    BY InstantsAssumption DEF TimerOK, gt_reset
  <2>3. header.mins = 0 /\ header.secs = 0
    BY <2>1 DEF Header, gt_reset
  <2> QED
    BY <2>1, <2>2, <2>3, InstantsAssumption DEF TimeInv
<1> QED
  BY <1>1, <1>2, <1>3 DEF MainInv

(* The rest of an iteration of a game that has begun, with a timer that    *)
(* runs.                                                                   *)
LEMMA RunningIteration ==
  ASSUME NEW t, TimerOK(t), t.is_paused = FALSE, NEW m \in Instants, now' \in Instants,
         m <= now', LongAgo(t, m), IInv', ~is_first', FinishIteration(t)
  PROVE  TimeInv' /\ timer'.start = t.start
<1> DEFINE a == gt_advance(t, now')
<1>1. /\ TimerOK(a) /\ a.start = t.start /\ a.is_paused = FALSE
      /\ Displays(a, t.start, now') /\ LongAgo(a, now')
  BY AdvanceDisplays
<1>2. timer' = IF status' \in {LOSE, WIN} THEN gt_stop(a) ELSE a
  BY DEF FinishIteration
<1>3. header'.mins = a.mins /\ header'.secs = a.secs
  BY DEF FinishIteration, Header
<1> HIDE DEF a
<1>4. TimerOK(timer') /\ timer'.start = a.start /\ timer'.mins = a.mins
  BY <1>1, <1>2, StopKeepsFields
<1>5. timer'.is_paused = (status' # ONGOING)
  <2>1. status' \in {ONGOING, LOSE, WIN}
    BY DEF IInv, TypeOK
  <2>2. CASE status' = ONGOING
    <3>1. status' \notin {LOSE, WIN}
      BY <2>2 DEF ONGOING, LOSE, WIN
    <3>2. timer' = a
      BY <1>2, <3>1
    <3> QED
      BY <1>1, <2>2, <3>2
  <2>3. CASE status' \in {LOSE, WIN}
    <3>1. status' # ONGOING
      BY <2>3 DEF ONGOING, LOSE, WIN
    <3>2. timer' = gt_stop(a)
      BY <1>2, <2>3
    <3>3. gt_stop(a).is_paused = TRUE
      BY <1>1, StopKeepsFields
    <3> QED
      BY <3>1, <3>2, <3>3
  <2> QED
    BY <2>1, <2>2, <2>3
<1>6. LongAgo(timer', now') /\ Displays(header', timer'.start, now')
  BY <1>1, <1>3, <1>4 DEF LongAgo, Displays
<1> QED
  BY <1>1, <1>4, <1>5, <1>6 DEF TimeInv

LEMMA NowIsLater ==
  ASSUME ClockMoves, now \in Instants
  PROVE  now' \in Instants /\ now <= now' /\ now' \in Nat /\ now \in Nat
BY InstantsAssumption DEF ClockMoves

LEMMA TimeStep == MainInv /\ [NextMain]_mainvars => TimeInv' /\ (~is_first => timer'.start = timer.start)
<1> SUFFICES ASSUME MainInv, [NextMain]_mainvars
             PROVE  TimeInv' /\ (~is_first => timer'.start = timer.start)
  OBVIOUS
<1>1. IInv /\ IInv' /\ TimeInv
  BY StepsOfTheEngine, StepInv DEF MainInv
<1>2. TimerOK(timer) /\ now \in Instants
  BY <1>1 DEF TimeInv
<1>3. CASE Move
  <2>1. status = ONGOING /\ is_first' = FALSE /\ ClockMoves
    BY <1>3 DEF Move, PokeMine, PokeSafe, Flag
  <2>2. now' \in Instants /\ now <= now' /\ now' \in Nat
    BY <1>2, <2>1, NowIsLater
  <2>3. CASE is_first
    <3>0. PICK begun \in {t \in Instants : now <= t /\ t <= now'} :
                 FinishIteration(gt_start(timer, begun))
      BY <1>3, <2>3 DEF Move
    <3> DEFINE t == gt_start(timer, begun)
    <3>1. timer = gt_reset /\ timer.is_paused = TRUE /\ timer.mins = 0
      BY <1>1, <2>3 DEF TimeInv, gt_reset
    <3>2. TimerOK(t) /\ t.start = begun /\ t.mins = 0 /\ t.is_paused = FALSE
      BY <1>2, <3>0, <3>1, StartKeepsFields
    <3>3. FinishIteration(t)
      BY <3>0
    <3>4. LongAgo(t, begun) /\ begun \in Instants /\ begun <= now'
      <4>1. begun \in Nat /\ begun \in Instants /\ begun <= now'
        BY <3>0, InstantsAssumption
      <4> QED
        BY <3>2, <4>1 DEF LongAgo
    <3> HIDE DEF t
    <3>5. TimeInv'
      BY <1>1, <2>1, <2>2, <3>2, <3>3, <3>4, RunningIteration
    <3> QED
      BY <2>3, <3>5
  <2>4. CASE ~is_first
    <3>1. timer.is_paused = FALSE /\ LongAgo(timer, now)
      BY <1>1, <2>1, <2>4 DEF TimeInv
    <3>2. FinishIteration(timer)
      BY <1>3, <2>4 DEF Move
    <3> QED
      BY <1>1, <1>2, <2>1, <2>2, <3>1, <3>2, RunningIteration
  <2> QED
    BY <2>3, <2>4
<1>4. CASE OtherKey
  <2>1. status = ONGOING /\ is_first' = is_first /\ ClockMoves /\ FinishIteration(timer)
    BY <1>4 DEF OtherKey, MoveCursor, Idle
  <2>2. now' \in Instants /\ now <= now' /\ now' \in Nat
    BY <1>2, <2>1, NowIsLater
  <2>3. CASE is_first
    <3>1. timer = gt_reset /\ timer.is_paused = TRUE
      BY <1>1, <2>3 DEF TimeInv, gt_reset
    <3>2. gt_advance(timer, now') = timer
      BY <3>1, PausedStays
    <3>3. timer' = timer
      <4>1. gt_stop(gt_reset) = gt_reset
        <5>1. gt_reset.is_paused = TRUE
          BY DEF gt_reset
        <5>2. gt_reset = [d \in {"start", "delta", "secs", "mins", "is_paused"} |-> gt_reset[d]]
          BY DEF gt_reset
        <5> QED
          BY <5>1, <5>2 DEF gt_stop
      <4>2. timer' \in {timer, gt_stop(timer)}
        BY <2>1, <3>2 DEF FinishIteration
      <4> QED
        BY <3>1, <4>1, <4>2
    <3>4. header' = Header(timer, remap', immap')
      BY <2>1, <3>2 DEF FinishIteration
    <3>5. header'.mins = 0 /\ header'.secs = 0
      BY <3>1, <3>4 DEF Header, gt_reset
    <3> QED
      BY <1>2, <2>1, <2>2, <2>3, <3>1, <3>3, <3>5 DEF TimeInv
  <2>4. CASE ~is_first
    <3>1. timer.is_paused = FALSE /\ LongAgo(timer, now)
      BY <1>1, <2>1, <2>4 DEF TimeInv
    <3> QED
      BY <1>1, <1>2, <2>1, <2>2, <2>4, <3>1, RunningIteration
  <2> QED
    BY <2>3, <2>4
<1>5. CASE FrozenKey \/ UNCHANGED mainvars
  BY <1>1, <1>5 DEF FrozenKey, Frozen, mainvars, vars, TimeInv
<1> QED
  BY <1>3, <1>4, <1>5 DEF NextMain

LEMMA HeaderStep == MainInv /\ [NextMain]_mainvars => HeaderInv'
<1> SUFFICES ASSUME MainInv, [NextMain]_mainvars PROVE HeaderInv'
  OBVIOUS
<1>1. CASE Move \/ OtherKey
  <2>1. \E t : FinishIteration(t)
    BY <1>1 DEF Move, OtherKey
  <2>2. PICK t : FinishIteration(t)
    BY <2>1
  <2>3. header' = Header(gt_advance(t, now'), remap', immap')
    BY <2>2 DEF FinishIteration
  <2> QED
    BY <2>3 DEF HeaderInv, Header, ms_total_mines, ms_total_flags
<1>2. CASE FrozenKey \/ UNCHANGED mainvars
  BY <1>2 DEF FrozenKey, Frozen, mainvars, vars, MainInv, HeaderInv, ms_total_mines, ms_total_flags
<1> QED
  BY <1>1, <1>2 DEF NextMain

(* Every iteration of the main loop keeps the inductive invariant.         *)
THEOREM MainInvariance == SpecMain => []MainInv
<1>1. MainInv /\ [NextMain]_mainvars => MainInv'
  BY StepsOfTheEngine, StepInv, TimeStep, HeaderStep DEF MainInv
<1> QED
  BY <1>1, MainInit, PTL DEF SpecMain

-----------------------------------------------------------------------------
(* The theorems *)

(* Sets of cells count from none to all. *)
LEMMA Counts == \A S \in SUBSET Cells : IsFiniteSet(S) /\ Cardinality(S) \in 0 .. Size * Size
<1> SUFFICES ASSUME NEW S \in SUBSET Cells PROVE IsFiniteSet(S) /\ Cardinality(S) \in 0 .. Size * Size
  OBVIOUS
<1>1. IsFiniteSet(Cells) /\ Cardinality(Cells) = Size * Size
  BY CellsFinite
<1>2. IsFiniteSet(S) /\ Cardinality(S) \in Nat
  BY CellsFinite
<1>3. Cardinality(S) <= Cardinality(Cells) /\ Cardinality(Cells) \in Nat
  BY <1>1, FS_Subset, FS_CardinalityType
<1> QED
  BY <1>1, <1>2, <1>3

(* The loop's own state has its types, on a board of any size.             *)
THEOREM MainTypeCorrect == SpecMain => []TypeOKMain
<1>1. MainInv => TypeOKMain
  <2> SUFFICES ASSUME MainInv PROVE TypeOKMain
    OBVIOUS
  <2>1. TypeOK /\ TimerOK(timer) /\ now \in Instants
    BY DEF MainInv, IInv, TimeInv
  <2>2. MinesIn(remap) \in SUBSET Cells /\ {c \in Cells : immap[c] = FLAGGED} \in SUBSET Cells
    BY DEF MinesIn
  <2>3. ms_total_mines(remap) \in 0 .. Size * Size /\ ms_total_flags(immap) \in 0 .. Size * Size
    BY <2>2, Counts DEF ms_total_mines, ms_total_flags
  <2>4. Size * Size \in Int
    BY <2>2, CellsFinite, FS_CardinalityType
  <2> DEFINE n == Size * Size
             x == ms_total_mines(remap)
             y == ms_total_flags(immap)
  <2>5. header.mines_left = x - y /\ header.mines_total = x
    BY DEF MainInv, HeaderInv
  <2>6. header.mines_left \in -n .. n /\ header.mines_total \in 0 .. n
    <3> HIDE DEF n, x, y
    <3>1. n \in Int /\ x \in 0 .. n /\ y \in 0 .. n
      BY <2>3, <2>4 DEF n, x, y
    <3> QED
      BY <2>5, <3>1
  <2> QED
    BY <2>1, <2>6 DEF TypeOKMain, TimerOK
<1> QED
  BY <1>1, MainInvariance, PTL

(* The timer runs from the first poke or flag to the iteration that wins   *)
(* or loses, whatever the keys and the clock.                              *)
THEOREM TimerAlwaysRunsWithGame == SpecMain => []TimerRunsWithGame
<1>1. MainInv => TimerRunsWithGame
  BY DEF MainInv, TimeInv, TimerRunsWithGame
<1> QED
  BY <1>1, MainInvariance, PTL

(* The header shows the time since the first move.                         *)
THEOREM ElapsedAlwaysShown == SpecMain => []ElapsedShown
<1>1. MainInv => ElapsedShown
  BY DEF MainInv, TimeInv, ElapsedShown, Displays
<1> QED
  BY <1>1, MainInvariance, PTL

(* No later key moves the start of the time.                               *)
THEOREM StartAlwaysStays == SpecMain => StartStays
<1>1. MainInv /\ [NextMain]_mainvars => [~is_first => timer'.start = timer.start]_mainvars
  BY TimeStep
<1> QED
  BY <1>1, MainInvariance, PTL DEF SpecMain, StartStays

(* At the end of the game the header counts the mines that are not         *)
(* flagged, and shows none if and only if it was won.                      *)
THEOREM HeaderCountsAtEnd == SpecMain => []HeaderAtEnd
<1>1. MainInv => HeaderAtEnd
  <2> SUFFICES ASSUME MainInv, status # ONGOING
               PROVE  /\ header.mines_left = Cardinality({c \in Cells : remap[c] = MINE /\ immap[c] # FLAGGED})
                      /\ header.mines_left = 0 <=> status = WIN
    BY DEF HeaderAtEnd
  <2> DEFINE mines == MinesIn(remap)
             flags == {c \in Cells : immap[c] = FLAGGED}
             left  == {c \in Cells : remap[c] = MINE /\ immap[c] # FLAGGED}
  <2>1. /\ status \in {LOSE, WIN} /\ curs \in Cells
        /\ status = WIN => \A c \in Cells : immap[c] = IF remap[c] = MINE THEN FLAGGED ELSE Shown(remap[c])
        /\ status = LOSE => /\ remap[curs] = MINE /\ immap[curs] = MINE
                            /\ \A c \in Cells : remap[c] # MINE => immap[c] # FLAGGED
    BY DEF MainInv, IInv, TypeOK, WinExact, LossShown
  <2>2. \A c \in Cells : Shown(remap[c]) # FLAGGED
    <3> SUFFICES ASSUME NEW c \in Cells PROVE Shown(remap[c]) # FLAGGED
      OBVIOUS
    <3>1. TypeOK /\ RemapCounted
      BY DEF MainInv, IInv
    <3>2. CASE is_first
      BY <3>1, <3>2 DEF RemapCounted, Uniform, Shown, ZERO, EMPTY, FLAGGED
    <3>3. CASE ~is_first
      <4>1. remap[c] \in (ZERO .. EIGHT) \cup {MINE}
        BY <3>1, <3>3, IncTile DEF RemapCounted, TypeOK
      <4> QED
        BY <4>1 DEF Shown, ZERO, EIGHT, MINE, EMPTY, FLAGGED
    <3> QED
      BY <3>2, <3>3
  <2>3. flags \subseteq mines
    BY <2>1, <2>2 DEF MinesIn
  <2>4. left = mines \ flags /\ mines \cap flags = flags
    BY <2>3 DEF MinesIn
  <2>5. IsFiniteSet(mines) /\ IsFiniteSet(left) /\ Cardinality(mines) \in Nat /\ Cardinality(flags) \in Nat
    BY Counts DEF MinesIn
  <2>6. Cardinality(left) = Cardinality(mines) - Cardinality(flags)
    <3> HIDE DEF mines, flags, left
    <3>1. Cardinality(mines \ flags) = Cardinality(mines) - Cardinality(mines \cap flags)
      BY <2>5, FS_Difference
    <3> QED
      BY <2>4, <3>1
  <2>7. header.mines_left = Cardinality(left)
    BY <2>6 DEF MainInv, HeaderInv, ms_total_mines, ms_total_flags
  <2>8. Cardinality(left) = 0 <=> left = {}
    BY <2>5, FS_EmptySet
  <2>9. left = {} <=> status = WIN
    BY <2>1 DEF LOSE, WIN, MINE, FLAGGED
  <2> QED
    BY <2>7, <2>8, <2>9
<1> QED
  BY <1>1, MainInvariance, PTL

=============================================================================
