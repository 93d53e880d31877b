---------------------------- MODULE Minesweeper ----------------------------
(***************************************************************************)
(* The minesweeper engine (minesweeper/game.c) under its main loop         *)
(* (minesweeper/main.c).  A step is one iteration of the loop: the handler *)
(* of the key that was read, run to its end, and then ms_check_win.        *)
(*                                                                         *)
(* Not here: the timer, which module MinesweeperMain adds; the steps the   *)
(* handlers take inside, which module MinesweeperSteps takes one by one;   *)
(* drawing.                                                                *)
(***************************************************************************)
EXTENDS Board

CONSTANTS
  MineCounts,   \* the values --mines may have
  DebugBits     \* the values game->is_debug may have when the loop starts

(* parse_opt rejects a mine count below one. *)
ASSUME MinesAssumption == MineCounts \subseteq Nat \ {0} /\ DebugBits \subseteq BOOLEAN

VARIABLES
  remap,        \* the real map: where the mines are, and the counts
  immap,        \* the map the player sees
  curs,         \* <<curs_x, curs_y>>
  status,
  is_first,     \* no cell has been poked or flagged yet
  is_debug,
  mine_count

vars == <<remap, immap, curs, status, is_first, is_debug, mine_count>>

ONGOING == 0
LOSE    == 1
WIN     == 2

-----------------------------------------------------------------------------
(* Placing the mines *)

(* The literal cells of ms_maps_test, which writes t[row][column]. *)
TestPattern ==
  {<<1, 1>>, <<2, 1>>, <<3, 1>>, <<4, 1>>, <<4, 2>>,
   <<0, 3>>, <<1, 3>>, <<2, 3>>, <<3, 3>>, <<4, 3>>,
   <<6, 1>>, <<6, 2>>, <<6, 3>>, <<7, 1>>, <<7, 3>>, <<8, 1>>, <<8, 2>>, <<8, 3>>}

(* On a board of fewer than nine cells a side the pattern would be written *)
(* outside the maps, and what comes of that is not modelled.               *)
ASSUME PatternAssumption == \A debug \in DebugBits : debug => TestPattern \subseteq Cells

(* A mutation for the runs: the loop places a mine in every free cell.      *)
MinesToPlace_AllFree ==
  IF mine_count < Size * Size - 1 THEN mine_count + 1 ELSE Size * Size - 1

(* The loop of ms_place_mines stops when every mine is placed or when one  *)
(* cell is left (placed + 1 < free_space), so the cursor's cell stays free. *)
MinesToPlace ==
  IF mine_count < Size * Size THEN mine_count ELSE Size * Size - 1

(* A mutation for the runs: the cursor's cell may be mined. *)
ms_place_mines_AtCursor ==
  IF is_debug
  THEN {TestPattern}
  ELSE {M \in SUBSET Cells : Cardinality(M) = MinesToPlace}

(* The sets of mines ms_place_mines may leave on the board. *)
ms_place_mines ==
  IF is_debug
  THEN {TestPattern}
  ELSE {M \in SUBSET (Cells \ {curs}) : Cardinality(M) = MinesToPlace}

Mined(M) == [c \in Cells |-> IF c \in M THEN MINE ELSE ZERO]

(* A mutation for the runs: the map of counts is not computed. *)
Layouts_Uncounted == IF is_first THEN {Mined(M) : M \in ms_place_mines} ELSE {remap}

(* The real maps a poke or a flag may find itself working on: the first of *)
(* them places the mines and counts them.                                  *)
Layouts ==
  IF is_first THEN {ms_remap_show(Mined(M)) : M \in ms_place_mines} ELSE {remap}

-----------------------------------------------------------------------------
(* The handlers *)

(* Mutations for the runs: the flag on the detonated mine stays, or the    *)
(* right flags are taken for the wrong ones.                               *)
ms_show_mines_KeepFlag(rm, im) ==
  [c \in Cells |->
    IF rm[c] = MINE
    THEN IF im[c] # FLAGGED THEN MINE ELSE im[c]
    ELSE IF im[c] = FLAGGED THEN ERROR ELSE im[c]]

ms_show_mines_SwapError(rm, im) ==
  [c \in Cells |->
    IF rm[c] = MINE
    THEN IF im[c] # FLAGGED \/ c = curs THEN MINE ELSE ERROR
    ELSE im[c]]

(* A mine is shown unless it is flagged, the one under the cursor in any   *)
(* case; a flag on a cell without a mine becomes an ERROR tile.            *)
ms_show_mines(rm, im) ==
  [c \in Cells |->
    IF rm[c] = MINE
    THEN IF im[c] # FLAGGED \/ c = curs THEN MINE ELSE im[c]
    ELSE IF im[c] = FLAGGED THEN ERROR ELSE im[c]]

(* A mutation for the runs: a false flag does not keep the game going. *)
ms_check_win_FalseFlags(rm, im, st) ==
  IF \A c \in Cells : im[c] # UNKNOWN /\ (rm[c] = MINE => im[c] = FLAGGED)
  THEN WIN ELSE st

ms_check_win(rm, im, st) ==
  IF \A c \in Cells : /\ im[c] # UNKNOWN
                      /\ rm[c] # MINE => im[c] # FLAGGED
                      /\ rm[c] = MINE => im[c] = FLAGGED
  THEN WIN ELSE st

(* ms_poke on a mine. *)
PokeMine ==
  /\ status = ONGOING
  /\ \E rm \in Layouts :
       /\ rm[curs] = MINE
       /\ remap' = rm
       /\ immap' = ms_show_mines(rm, immap)
  /\ status' = ms_check_win(remap', immap', LOSE)
  /\ is_first' = FALSE
  /\ UNCHANGED <<curs, is_debug, mine_count>>

(* ms_poke anywhere else; it reveals nothing when the cell is flagged or   *)
(* has been revealed before.                                               *)
PokeSafe ==
  /\ status = ONGOING
  /\ \E rm \in Layouts :
       /\ rm[curs] # MINE
       /\ remap' = rm
       /\ immap' = ms_reveal_at(rm, immap, curs)
  /\ status' = ms_check_win(remap', immap', status)
  /\ is_first' = FALSE
  /\ UNCHANGED <<curs, is_debug, mine_count>>

Toggled(t) ==
  CASE t = UNKNOWN -> FLAGGED
    [] t = FLAGGED -> UNKNOWN
    [] OTHER       -> t

(* ms_flag; a flag as the first move places the mines too. *)
Flag ==
  /\ status = ONGOING
  /\ remap' \in Layouts
  /\ immap' = [immap EXCEPT ![curs] = Toggled(@)]
  /\ status' = ms_check_win(remap', immap', status)
  /\ is_first' = FALSE
  /\ UNCHANGED <<curs, is_debug, mine_count>>

(* ms_curs_l, ms_curs_r, ms_curs_u and ms_curs_d: a move off the board is  *)
(* ignored, and is then an iteration like that of any other key.           *)
Left  == <<curs[1] - 1, curs[2]>>
Right == <<curs[1] + 1, curs[2]>>
Up    == <<curs[1], curs[2] - 1>>
Down  == <<curs[1], curs[2] + 1>>

(* A mutation for the runs: the edge of the board does not hold the cursor. *)
MoveCursor_OverEdge ==
  /\ status = ONGOING
  /\ curs' \in {Left, Right, Up, Down}
  /\ UNCHANGED <<remap, immap, status, is_first, is_debug, mine_count>>

MoveCursor ==
  /\ status = ONGOING
  /\ curs' \in {Left, Right, Up, Down} \cap Cells
  /\ status' = ms_check_win(remap, immap, status)
  /\ UNCHANGED <<remap, immap, is_first, is_debug, mine_count>>

(* Any other key, or none before getch times out. *)
Idle ==
  /\ status = ONGOING
  /\ status' = ms_check_win(remap, immap, status)
  /\ UNCHANGED <<remap, immap, curs, is_first, is_debug, mine_count>>

(* After the end of the game the loop reads keys and does nothing else. *)
Frozen == status # ONGOING /\ UNCHANGED vars

-----------------------------------------------------------------------------

Init ==
  /\ remap = Uniform(ZERO)
  /\ immap = Uniform(UNKNOWN)
  /\ curs = <<Size \div 2, Size \div 2>>
  /\ status = ONGOING
  /\ is_first = TRUE
  /\ is_debug \in DebugBits
  /\ mine_count \in MineCounts

Next == PokeMine \/ PokeSafe \/ Flag \/ MoveCursor \/ Idle \/ Frozen

Spec == Init /\ [][Next]_vars

-----------------------------------------------------------------------------
(* What the engine promises *)

(* Type invariant of the engine (game.h). *)
TypeOK ==
  /\ remap \in [Cells -> Tile]
  /\ immap \in [Cells -> Tile]
  /\ curs \in Cells
  /\ status \in {ONGOING, LOSE, WIN}
  /\ is_first \in BOOLEAN
  /\ is_debug \in DebugBits
  /\ mine_count \in Nat \ {0}

(* The first move places the mines and counts them on the map it has just  *)
(* written (ms_remap_show writes over the map it reads): from then on every *)
(* cell of remap is a mine or the number of mines around it, and before it  *)
(* neither map has anything on it.                                          *)
RemapCounted ==
  IF is_first THEN remap = Uniform(ZERO) /\ immap = Uniform(UNKNOWN)
  ELSE \A c \in Cells : remap[c] = ms_inc_tile(remap, c)

(* What the player sees of an uncovered cell is what is there: ms_reveal_at *)
(* counts the mines itself and ms_poke looks at remap, and the two maps     *)
(* never disagree.  Nothing about a mine is shown before the game is lost.  *)
ImmapTruthful ==
  \A c \in Cells :
    /\ immap[c] = EMPTY => remap[c] = ZERO
    /\ immap[c] = MINE  => remap[c] = MINE /\ status = LOSE
    /\ immap[c] = ERROR => remap[c] # MINE /\ status = LOSE
    /\ immap[c] \in ZERO .. EIGHT => immap[c] = remap[c] /\ immap[c] # ZERO

(* ms_place_mines leaves the number of mines that was asked for, or, when   *)
(* there is no room for them, one free cell; no later move changes it.      *)
MinesPlaced ==
  ~is_first /\ ~is_debug =>
    LET free == Size * Size - Cardinality(MinesIn(remap))
    IN  free = 1 \/ (free > 1 /\ Cardinality(MinesIn(remap)) = mine_count)

(* The first move never loses, for ms_place_mines spares the cursor's cell. *)
(* It is the first poke or flag that is safe: a flag places the mines too,  *)
(* so that the poke after it can hit one.  The pattern of the debug mode    *)
(* spares no cell.                                                          *)
FirstMoveSafe == [][is_first /\ ~is_debug => status' # LOSE]_vars

(* A flag is removed by toggling it under the cursor and by the map shown   *)
(* at the end, never by the flood of ms_reveal_at.                          *)
FlagsHold ==
  [][\A c \in Cells :
       immap[c] = FLAGGED /\ immap'[c] # FLAGGED =>
         \/ c = curs /\ immap'[c] = UNKNOWN
         \/ status' = LOSE]_vars

(* The flood goes all the way: when a move makes a cell EMPTY, no cell      *)
(* around it is left UNKNOWN.  It goes no further: a cell that changes is   *)
(* under the cursor or around a cell that became EMPTY with it.  (As an     *)
(* invariant the first half is false: a flag can stop the flood and be      *)
(* removed later.)                                                          *)
FloodExact ==
  [][/\ \A c \in Cells : immap'[c] = EMPTY /\ immap[c] # EMPTY =>
          \A d \in Around(c) : immap'[d] # UNKNOWN
     /\ status' # LOSE => \A c \in Cells : immap'[c] # immap[c] =>
          c = curs \/ \E d \in Around(c) : immap'[d] = EMPTY /\ immap[d] # EMPTY]_vars

(* The game is won exactly when all mines, and nothing else, are flagged    *)
(* and every other cell is uncovered with its own count; no iteration ends  *)
(* with such a board still ONGOING, nor with LOSE.                          *)
WinExact ==
  status = WIN <=>
    /\ ~is_first
    /\ \A c \in Cells :
         immap[c] = IF remap[c] = MINE THEN FLAGGED ELSE Shown(remap[c])

(* A lost game shows everything there was to find: the mine under the      *)
(* cursor, every other mine or a flag on it, and an ERROR for each flag    *)
(* that was wrong; ms_check_win never takes it for a win.                  *)
LossShown ==
  status = LOSE =>
    /\ remap[curs] = MINE /\ immap[curs] = MINE
    /\ \A c \in Cells : IF remap[c] = MINE THEN immap[c] \in {MINE, FLAGGED}
                         ELSE immap[c] # FLAGGED

=============================================================================
