-------------------------- MODULE MinesweeperMain --------------------------
(***************************************************************************)
(* The main loop of the minesweeper (minesweeper/main.c): the engine of    *)
(* module Minesweeper, the timer of module GameTimer, and the header line  *)
(* the player reads.  A step is an iteration of the loop, in its order:    *)
(* the key, gt_advance, the header, ms_check_win, gt_stop.                 *)
(***************************************************************************)
EXTENDS Minesweeper, GameTimer

CONSTANT Instants   \* the instants at which an iteration may read the clock

ASSUME InstantsAssumption == Instants \subseteq Nat /\ 0 \in Instants

VARIABLES
  timer,
  now,          \* the instant at which the last iteration's gt_advance ran
  header        \* the time and the mines left, as last printed

mainvars == <<vars, timer, now, header>>

ms_total_mines(rm) == Cardinality(MinesIn(rm))
ms_total_flags(im) == Cardinality({c \in Cells : im[c] = FLAGGED})

Header(t, rm, im) ==
  [mins |-> t.mins, secs |-> t.secs,
   mines_left |-> ms_total_mines(rm) - ms_total_flags(im),
   mines_total |-> ms_total_mines(rm)]

(* A mutation for the runs: the flags are counted before the key is        *)
(* handled.                                                                *)
FinishIteration_StaleFlags(t) ==
  LET advanced == gt_advance(t, now')
  IN  /\ header' = Header(advanced, remap', immap)
      /\ timer' = IF status' \in {LOSE, WIN} THEN gt_stop(advanced) ELSE advanced

(* The rest of an iteration, once the key has been handled; t is the timer *)
(* after the key.                                                          *)
FinishIteration(t) ==
  LET advanced == gt_advance(t, now')
  IN  /\ header' = Header(advanced, remap', immap')
      /\ timer' = IF status' \in {LOSE, WIN} THEN gt_stop(advanced) ELSE advanced

ClockMoves == now' \in {t \in Instants : t >= now}

(* A mutation for the runs: every poke or flag starts the timer anew. *)
Move_Restarts ==
  /\ PokeMine \/ PokeSafe \/ Flag
  /\ ClockMoves
  /\ FinishIteration(gt_start(gt_reset, now'))

(* The first poke or flag starts the timer, which reads the clock before   *)
(* gt_advance does.                                                        *)
Move ==
  /\ PokeMine \/ PokeSafe \/ Flag
  /\ ClockMoves
  /\ IF is_first
     THEN \E begun \in {t \in Instants : now <= t /\ t <= now'} :
            FinishIteration(gt_start(timer, begun))
     ELSE FinishIteration(timer)

OtherKey ==
  /\ MoveCursor \/ Idle
  /\ ClockMoves
  /\ FinishIteration(timer)

FrozenKey == Frozen /\ UNCHANGED <<timer, now, header>>

InitMain ==
  /\ Init
  /\ timer = gt_reset
  /\ now = 0
  /\ header = Header(gt_reset, remap, immap)

NextMain == Move \/ OtherKey \/ FrozenKey

SpecMain == InitMain /\ [][NextMain]_mainvars

-----------------------------------------------------------------------------

(* Type invariant of the loop's own state. *)
TypeOKMain ==
  /\ TypeOK
  /\ timer.start \in Instants /\ timer.delta \in Nat
  /\ timer.secs \in 0 .. 59 \cup {99} /\ timer.mins \in Nat
  /\ timer.is_paused \in BOOLEAN
  /\ now \in Instants
  /\ header.mines_left \in -(Size * Size) .. Size * Size
  /\ header.mines_total \in 0 .. Size * Size

(* The timer runs exactly while the game does: from the first poke or flag *)
(* to the iteration that wins or loses.                                    *)
TimerRunsWithGame == timer.is_paused <=> (is_first \/ status # ONGOING)

(* What the header shows is the time since the first move, as of the last  *)
(* iteration of the game, unless it is over 99 minutes; a game that has    *)
(* not begun shows none.                                                   *)
ElapsedShown ==
  IF is_first THEN header.mins = 0 /\ header.secs = 0
  ELSE \/ header.mins * 60 + header.secs = now - timer.start /\ header.secs < 60
       \/ now - timer.start >= 6000 /\ header.mins = 99 /\ header.secs = 99

(* The time is measured from the first move: no later key, and not the end *)
(* of the game, moves the start.                                           *)
StartStays == [][~is_first => timer'.start = timer.start]_mainvars

(* At the end of the game the header counts the mines that were not        *)
(* flagged: none of them when it was won, at least the detonated one when  *)
(* it was lost.  (While the game goes on it can be below zero.)            *)
HeaderAtEnd ==
  status # ONGOING =>
    /\ header.mines_left = Cardinality({c \in Cells : remap[c] = MINE /\ immap[c] # FLAGGED})
    /\ header.mines_left = 0 <=> status = WIN

(* What the comment in gt_advance says: over 99 minutes the timer does not *)
(* bother any more, and keeps its displays.                                *)
DoesNotBotherOver99 ==
  [][timer.mins >= 99 /\ timer.secs = 99 => timer'.mins = timer.mins]_mainvars

=============================================================================
