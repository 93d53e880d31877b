-------------------------- MODULE MinesweeperSteps --------------------------
(***************************************************************************)
(* The handlers of the minesweeper (minesweeper/game.c) taken apart into   *)
(* the steps of their loops and calls: the loop that places the mines, the *)
(* loop that counts them on the map it reads, the recursion that reveals.  *)
(* What an iteration of the main loop does all in all is module            *)
(* Minesweeper; this module is shown to implement it.                      *)
(***************************************************************************)
EXTENDS Minesweeper, Sequences

VARIABLES
  pc,          \* where the handler is
  handler,     \* "poke" or "flag", the key being handled
  to_place, placed,
  at,          \* the cell the counting loop is at, as i * size + j
  calls,       \* the calls of ms_reveal_at still to be made, the next one first
  before       \* the two maps and is_first when the key was read

loop == <<pc, handler, to_place, placed, at, calls>>
allvars == <<vars, loop, before>>

Cell(n) == <<n % Size, n \div Size>>

-----------------------------------------------------------------------------
(* A key is read in the main loop. *)

ReadKey ==
  /\ pc = "main" /\ status = ONGOING
  /\ handler' \in {"poke", "flag"}
  /\ pc' = IF is_first THEN "place" ELSE handler'
  /\ before' = [remap |-> remap, immap |-> immap, is_first |-> is_first]
  /\ IF is_first
     THEN to_place' = mine_count /\ placed' = 0
     ELSE UNCHANGED <<to_place, placed>>
  /\ UNCHANGED <<vars, at, calls>>

(* Cursor moves, other keys, and all keys after the end of the game, have  *)
(* no loop inside.                                                         *)
OtherKey ==
  /\ pc = "main"
  /\ MoveCursor \/ Idle \/ Frozen
  /\ UNCHANGED <<loop, before>>

(* ms_place_mines *)

(* A mutation for the runs: the loop does not stop for want of space. *)
Placing_NoLimit == to_place > 0

Placing == to_place > 0 /\ placed + 1 < Size * Size

(* rand() chose a cell that takes a mine. *)
PlaceMine ==
  /\ pc = "place" /\ ~is_debug /\ Placing
  /\ \E c \in Cells \ {curs} :
       /\ remap[c] # MINE
       /\ remap' = [remap EXCEPT ![c] = MINE]
  /\ to_place' = to_place - 1
  /\ placed' = placed + 1
  /\ UNCHANGED <<immap, curs, status, is_first, is_debug, mine_count,
                 pc, handler, at, calls, before>>

(* rand() chose a cell that does not: the loop tries again. *)
PlaceAgain ==
  /\ pc = "place" /\ ~is_debug /\ Placing
  /\ \E c \in Cells : remap[c] = MINE \/ c = curs
  /\ UNCHANGED allvars

(* ms_place_mines returns: the mines are placed, or ms_maps_test has        *)
(* cleared the maps and written its pattern.                               *)
PlaceDone ==
  /\ pc = "place"
  /\ IF is_debug
     THEN remap' = Mined(TestPattern) /\ immap' = Uniform(UNKNOWN)
     ELSE ~Placing /\ UNCHANGED <<remap, immap>>
  /\ pc' = "count" /\ at' = 0
  /\ UNCHANGED <<curs, status, is_first, is_debug, mine_count,
                 handler, to_place, placed, calls, before>>

(* A mutation for the runs: a counted cell is no longer a mine.            *)
CountTile_Clearing(map, c) == ZERO + Cardinality(Around(c) \cap MinesIn(map))

(* ms_remap_show: the count of a cell is written over the map from which   *)
(* the next one is computed.                                               *)
CountTile(map, c) == ms_inc_tile(map, c)

CountCell ==
  /\ pc = "count" /\ at < Size * Size
  /\ remap' = [remap EXCEPT ![Cell(at)] = CountTile(remap, Cell(at))]
  /\ at' = at + 1
  /\ UNCHANGED <<immap, curs, status, is_first, is_debug, mine_count,
                 pc, handler, to_place, placed, calls, before>>

CountDone ==
  /\ pc = "count" /\ at = Size * Size
  /\ is_first' = FALSE
  /\ pc' = handler
  /\ at' = 0
  /\ UNCHANGED <<remap, immap, curs, status, is_debug, mine_count,
                 handler, to_place, placed, calls, before>>

(* ms_flag, after the mines are placed *)
FlagCell ==
  /\ pc = "flag"
  /\ immap' = [immap EXCEPT ![curs] = Toggled(@)]
  /\ pc' = "check"
  /\ UNCHANGED <<remap, curs, status, is_first, is_debug, mine_count,
                 handler, to_place, placed, at, calls, before>>

(* ms_poke, after the mines are placed *)
Explode ==
  /\ pc = "poke" /\ remap[curs] = MINE
  /\ status' = LOSE
  /\ immap' = ms_show_mines(remap, immap)
  /\ pc' = "check"
  /\ UNCHANGED <<remap, curs, is_first, is_debug, mine_count,
                 handler, to_place, placed, at, calls, before>>

Reveal ==
  /\ pc = "poke" /\ remap[curs] # MINE
  /\ calls' = <<curs>>
  /\ pc' = "reveal"
  /\ UNCHANGED <<vars, handler, to_place, placed, at, before>>

(* A mutation for the runs: the bounds are not checked. *)
Call_Unbounded(d) == <<d>>

(* A call off the board returns at once and is left out. *)
Call(d) == IF d \in Cells THEN <<d>> ELSE <<>>

(* The cells a blank cell calls ms_reveal_at for, in that order. *)
Recursion(c) ==
  Call(<<c[1], c[2] - 1>>) \o Call(<<c[1] + 1, c[2] - 1>>) \o
  Call(<<c[1] + 1, c[2]>>) \o Call(<<c[1] + 1, c[2] + 1>>) \o
  Call(<<c[1], c[2] + 1>>) \o Call(<<c[1] - 1, c[2] + 1>>) \o
  Call(<<c[1] - 1, c[2]>>) \o Call(<<c[1] - 1, c[2] - 1>>)

(* A call of ms_reveal_at on a cell that is not UNKNOWN returns. *)
RevealReturn ==
  /\ pc = "reveal" /\ calls # <<>> /\ immap[Head(calls)] # UNKNOWN
  /\ calls' = Tail(calls)
  /\ UNCHANGED <<vars, pc, handler, to_place, placed, at, before>>

(* A call on an UNKNOWN cell shows its count (a mine stays hidden) and,    *)
(* when there is none, calls itself for the cells around before it returns *)
(* to its caller.                                                          *)
RevealCell ==
  /\ pc = "reveal" /\ calls # <<>>
  /\ LET c    == Head(calls)
         tile == ms_inc_tile(remap, c)
     IN  /\ immap[c] = UNKNOWN
         /\ immap' = IF tile = MINE THEN immap
                     ELSE [immap EXCEPT ![c] = Shown(tile)]
         /\ calls' = (IF tile = ZERO THEN Recursion(c) ELSE <<>>) \o Tail(calls)
  /\ UNCHANGED <<remap, curs, status, is_first, is_debug, mine_count,
                 pc, handler, to_place, placed, at, before>>

RevealDone ==
  /\ pc = "reveal" /\ calls = <<>>
  /\ pc' = "check"
  /\ UNCHANGED <<vars, handler, to_place, placed, at, calls, before>>

(* ms_check_win, and the end of the iteration *)
CheckWin ==
  /\ pc = "check"
  /\ status' = ms_check_win(remap, immap, status)
  /\ pc' = "main"
  /\ UNCHANGED <<remap, immap, curs, is_first, is_debug, mine_count,
                 handler, to_place, placed, at, calls, before>>

-----------------------------------------------------------------------------

InitSteps ==
  /\ Init
  /\ pc = "main" /\ handler = "poke"
  /\ to_place = 0 /\ placed = 0 /\ at = 0 /\ calls = <<>>
  /\ before = [remap |-> remap, immap |-> immap, is_first |-> is_first]

Handling ==
  \/ PlaceMine \/ PlaceDone
  \/ CountCell \/ CountDone
  \/ FlagCell \/ Explode
  \/ Reveal \/ RevealReturn \/ RevealCell \/ RevealDone
  \/ CheckWin

NextSteps == ReadKey \/ OtherKey \/ PlaceAgain \/ Handling

SpecSteps == InitSteps /\ [][NextSteps]_allvars

(* The program runs on while a handler is at work, and rand() does not     *)
(* choose taken cells forever when there are free ones.  Nothing is        *)
(* assumed of the player, who may never press a key.                       *)
FairSpecSteps == SpecSteps /\ WF_allvars(Handling)

-----------------------------------------------------------------------------
(* What the steps promise *)

(* Type invariant: what is under way in a handler. *)
TypeOKSteps ==
  /\ TypeOK
  /\ pc \in {"main", "place", "count", "poke", "flag", "reveal", "check"}
  /\ handler \in {"poke", "flag"}
  /\ to_place \in 0 .. mine_count /\ placed \in 0 .. Size * Size - 1
  /\ at \in 0 .. Size * Size
  /\ calls \in Seq(Cells)

(* The handlers implement module Minesweeper: seen from the main loop,     *)
(* which looks at the maps only between two keys, the counting loop works  *)
(* as if it read a copy of the map, the recursion uncovers the whole blank *)
(* region and nothing else, and the placing loop leaves the right number   *)
(* of mines.                                                               *)
Outside(new, old) == IF pc = "main" THEN new ELSE old

Whole == INSTANCE Minesweeper WITH
  remap    <- Outside(remap, before.remap),
  immap    <- Outside(immap, before.immap),
  is_first <- Outside(is_first, before.is_first),
  status   <- Outside(status, ONGOING)

ImplementsWhole == Whole!Spec

(* Every handler returns to the main loop: the placing loop ends even when *)
(* more mines are asked for than the board has cells, and the recursion is *)
(* finite.                                                                 *)
HandlerReturns == (pc # "main") ~> (pc = "main")

(* What the option says, "Specify how many mines there will be", for a     *)
(* count the board has room for.                                           *)
MinesAsAsked ==
  pc = "count" /\ mine_count < Size * Size => Cardinality(MinesIn(remap)) = mine_count

=============================================================================
