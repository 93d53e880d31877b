------------------------------- MODULE Board -------------------------------
(***************************************************************************)
(* The square board of the minesweeper (minesweeper/game.c): its cells,    *)
(* the tile codes of game.h, and the functions of game.c that compute one  *)
(* map from another without touching the rest of the engine.               *)
(*                                                                         *)
(* A map (tilemap_t) is a function from cells to tile codes.  A cell is    *)
(* the pair <<x, y>> the functions of game.c take as their x and y; the C  *)
(* code stores it at t[y][x].                                              *)
(***************************************************************************)
EXTENDS Integers, FiniteSets

CONSTANT Size       \* game->size, the side of the board

ASSUME SizeAssumption == Size \in Nat \ {0, 1}

-----------------------------------------------------------------------------
(* The codes of map_tile; like the enum, they are character codes, because *)
(* ms_inc_tile computes the tile of a count as count + '0'.                *)

MINE    == 42
EMPTY   == 46
UNKNOWN == 35
ZERO    == 48
EIGHT   == 56
FLAGGED == 80
ERROR   == 88

Tile == (ZERO .. EIGHT) \cup {MINE, FLAGGED, EMPTY, ERROR, UNKNOWN}

Cells == (0 .. Size - 1) \X (0 .. Size - 1)

(* Uniform(t) is a map all of whose tiles are t (ms_maps_zero). *)
Uniform(t) == [c \in Cells |-> t]

Near(c, d) == /\ c[1] - d[1] \in -1 .. 1
              /\ c[2] - d[2] \in -1 .. 1

(* The cells of the board in the three by three square centred on c; c is  *)
(* one of them, as it is in the loops of ms_inc_tile.  A cell off the      *)
(* board reads as UNKNOWN (tm_get_tile), which no function here tells from *)
(* not being there.                                                        *)
Around(c) == {d \in Cells : Near(c, d)}

MinesIn(map) == {c \in Cells : map[c] = MINE}

(* A mutation for the runs: the tile counts the cell's own row and column.  *)
ms_inc_tile_Cross(map, c) ==
  IF map[c] = MINE THEN MINE
  ELSE ZERO + Cardinality({d \in Around(c) : map[d] = MINE /\ (d[1] = c[1] \/ d[2] = c[2])})

ms_inc_tile(map, c) ==
  IF map[c] = MINE THEN MINE ELSE ZERO + Cardinality(Around(c) \cap MinesIn(map))

(* The loop of ms_remap_show reads the map it is writing.  It never moves  *)
(* a mine, and only mines are read, so the result is the one computed from *)
(* the map it started from; module MinesweeperSteps walks the loop cell by *)
(* cell and is checked against this definition.                            *)
ms_remap_show(map) == [c \in Cells |-> ms_inc_tile(map, c)]

-----------------------------------------------------------------------------
(* Revealing.  ms_reveal_at recurses from a blank cell (no mine around it) *)
(* to the cells around it and stops at every cell that is not UNKNOWN.     *)

Unknown(im) == {c \in Cells : im[c] = UNKNOWN}

Blank(rm, im) == {c \in Unknown(im) : ms_inc_tile(rm, c) = ZERO}

(* The cells of B that can be reached from c without leaving B: those that *)
(* are in every set that holds c and is closed under stepping inside B.    *)
Region(B, c) ==
  LET Closed == {S \in SUBSET B : /\ c \in S
                                  /\ \A e \in S : Around(e) \cap B \subseteq S}
  IN  {d \in B : \A S \in Closed : d \in S}

(* Mutations for the runs: the flood stops at its first ring of cells, or   *)
(* it runs over the flags as well.                                         *)
Uncovered_OneRing(rm, im, c) ==
  IF c \in Blank(rm, im)
  THEN Around(c) \cap Unknown(im)
  ELSE {c} \cap Unknown(im)

Uncovered_OverFlags(rm, im, c) ==
  IF c \in Blank(rm, im)
  THEN UNION {Around(e) : e \in Region(Blank(rm, im), c)}
  ELSE {c} \cap Unknown(im)

(* The cells whose tile a call of ms_reveal_at on c changes. *)
Uncovered(rm, im, c) ==
  IF c \in Blank(rm, im)
  THEN Unknown(im) \cap UNION {Around(e) : e \in Region(Blank(rm, im), c)}
  ELSE {c} \cap Unknown(im)

(* What the player sees of an uncovered cell. *)
Shown(t) == IF t = ZERO THEN EMPTY ELSE t

ms_reveal_at(rm, im, c) ==
  LET U == Uncovered(rm, im, c)
  IN  [d \in Cells |-> IF d \in U /\ rm[d] # MINE
                       THEN Shown(ms_inc_tile(rm, d))
                       ELSE im[d]]

=============================================================================
