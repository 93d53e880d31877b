------------------------- MODULE MinesweeperProofs -------------------------
(***************************************************************************)
(* The engine keeps its promises on a board of any size, with any number   *)
(* of mines.                                                               *)
(***************************************************************************)
EXTENDS Minesweeper, FiniteSetTheorems, TLAPS

-----------------------------------------------------------------------------
(* What the operators of module Board compute. *)

Map == [Cells -> Tile]

(* The board is finite, and so is any set of its cells. *)
LEMMA CellsFinite ==
  /\ IsFiniteSet(Cells)
  /\ Cardinality(Cells) = Size * Size
  /\ \A S \in SUBSET Cells : IsFiniteSet(S) /\ Cardinality(S) \in Nat
<1> DEFINE I == 0 .. Size - 1
<1>1. Size \in Nat /\ Size > 1
  BY SizeAssumption
<1>2. IsFiniteSet(I) /\ Cardinality(I) = Size
  BY <1>1, FS_Interval
<1>3. IsFiniteSet(I \X I) /\ Cardinality(I \X I) = Size * Size
  BY <1>2, FS_Product
<1>4. ASSUME NEW S \in SUBSET Cells
      PROVE  IsFiniteSet(S) /\ Cardinality(S) \in Nat
  BY <1>3, <1>4, FS_Subset, FS_CardinalityType DEF Cells
<1> QED
  BY <1>3, <1>4 DEF Cells

(* A cell has at most eight other cells around it, so that the tile of its *)
(* count is one of ZERO .. EIGHT.                                          *)
LEMMA EightAround ==
  ASSUME NEW c \in Cells
  PROVE  /\ IsFiniteSet(Around(c) \ {c})
         /\ Cardinality(Around(c) \ {c}) <= 8
<1> DEFINE I == c[1] - 1 .. c[1] + 1
           J == c[2] - 1 .. c[2] + 1
<1>1. Size \in Nat /\ Size > 1
  BY SizeAssumption
<1>2. c[1] \in Int /\ c[2] \in Int /\ c = <<c[1], c[2]>>
  BY <1>1 DEF Cells
<1>3. \A a \in Int : IsFiniteSet(a - 1 .. a + 1) /\ Cardinality(a - 1 .. a + 1) = 3
  <2> TAKE a \in Int
  <2>1. a - 1 \in Int /\ a + 1 \in Int /\ ~(a - 1 > a + 1) /\ (a + 1) - (a - 1) + 1 = 3
    OBVIOUS
  <2> QED
    BY <2>1, FS_Interval
<1>4. IsFiniteSet(I \X J) /\ Cardinality(I \X J) = 9
  <2>1. IsFiniteSet(I) /\ IsFiniteSet(J) /\ Cardinality(I) = 3 /\ Cardinality(J) = 3
    BY <1>2, <1>3
  <2>2. IsFiniteSet(I \X J) /\ Cardinality(I \X J) = Cardinality(I) * Cardinality(J)
    BY <2>1, FS_Product
  <2> QED
    BY <2>1, <2>2
<1>5. c \in I \X J
  BY <1>2
<1>6. IsFiniteSet((I \X J) \ {c}) /\ Cardinality((I \X J) \ {c}) = 8
  BY <1>4, <1>5, FS_RemoveElement
<1>7. Around(c) \ {c} \subseteq (I \X J) \ {c}
  <2>1. SUFFICES ASSUME NEW d \in Around(c)
                 PROVE  d \in I \X J
    OBVIOUS
  <2>2. d \in Cells /\ Near(c, d)
    BY <2>1 DEF Around
  <2>3. d[1] \in Int /\ d[2] \in Int /\ d = <<d[1], d[2]>>
    BY <1>1, <2>2 DEF Cells
  <2> QED
    BY <1>2, <2>2, <2>3 DEF Near
<1> QED
  BY <1>6, <1>7, FS_Subset

(* The tile of a count: MINE for a mine and only for one, ZERO when there  *)
(* is no mine around the cell and only then, a digit otherwise.            *)
LEMMA IncTile ==
  ASSUME NEW map, NEW c \in Cells
  PROVE  /\ ms_inc_tile(map, c) \in (ZERO .. EIGHT) \cup {MINE}
         /\ ms_inc_tile(map, c) = MINE <=> map[c] = MINE
         /\ ms_inc_tile(map, c) = ZERO <=> Around(c) \cap MinesIn(map) = {}
<1> DEFINE M == Around(c) \cap MinesIn(map)
<1>1. IsFiniteSet(M) /\ Cardinality(M) \in Nat
  BY CellsFinite DEF Around
<1>2. Cardinality(M) = 0 <=> M = {}
  BY <1>1, FS_EmptySet
<1>3. CASE map[c] = MINE
  <2>1. c \in Around(c)
    BY SizeAssumption DEF Around, Near, Cells
  <2>2. c \in M
    BY <1>3, <2>1 DEF MinesIn
  <2> QED
    BY <1>3, <2>2 DEF ms_inc_tile, MINE, ZERO, EIGHT
<1>4. CASE map[c] # MINE
  <2>1. M \subseteq Around(c) \ {c}
    BY <1>4 DEF MinesIn
  <2>2. Cardinality(M) <= 8
    <3>1. Cardinality(Around(c) \ {c}) \in Nat
      BY EightAround, FS_CardinalityType
    <3> QED
      BY <1>1, <2>1, <3>1, EightAround, FS_Subset
  <2>3. ms_inc_tile(map, c) = ZERO + Cardinality(M)
    BY <1>4 DEF ms_inc_tile
  <2> QED
    BY <1>1, <1>2, <1>4, <2>2, <2>3 DEF MINE, ZERO, EIGHT
<1> QED
  BY <1>3, <1>4

(* Two maps with the same mines have the same counts. *)
LEMMA SameMines ==
  ASSUME NEW m1, NEW m2, MinesIn(m1) = MinesIn(m2)
  PROVE  \A c \in Cells : ms_inc_tile(m1, c) = ms_inc_tile(m2, c)
<1> SUFFICES ASSUME NEW c \in Cells
             PROVE  ms_inc_tile(m1, c) = ms_inc_tile(m2, c)
  OBVIOUS
<1>1. m1[c] = MINE <=> m2[c] = MINE
  BY DEF MinesIn
<1> QED
  BY <1>1 DEF ms_inc_tile

(* Counting a map keeps its mines, and counting it again changes nothing:  *)
(* the loop of ms_remap_show may write over the map it reads.              *)
LEMMA RemapShow ==
  ASSUME NEW map
  PROVE  /\ ms_remap_show(map) \in Map
         /\ MinesIn(ms_remap_show(map)) = MinesIn(map)
         /\ \A c \in Cells :
              ms_remap_show(map)[c] = ms_inc_tile(ms_remap_show(map), c)
<1>1. \A c \in Cells : ms_remap_show(map)[c] = ms_inc_tile(map, c)
  BY DEF ms_remap_show
<1>2. ms_remap_show(map) \in Map
  BY IncTile DEF ms_remap_show, Map, Tile
<1>3. MinesIn(ms_remap_show(map)) = MinesIn(map)
  BY <1>1, IncTile DEF MinesIn
<1> QED
  BY <1>1, <1>2, <1>3, SameMines

(* What ms_reveal_at does to a cell: nothing, or, when it was UNKNOWN and  *)
(* is not mined, it shows the count.                                       *)
LEMMA RevealAt ==
  ASSUME NEW rm, NEW im \in Map, NEW c \in Cells
  PROVE  /\ ms_reveal_at(rm, im, c) \in Map
         /\ \A d \in Cells :
              \/ ms_reveal_at(rm, im, c)[d] = im[d]
              \/ /\ im[d] = UNKNOWN
                 /\ rm[d] # MINE
                 /\ ms_reveal_at(rm, im, c)[d] = Shown(ms_inc_tile(rm, d))
<1>1. Uncovered(rm, im, c) \subseteq Unknown(im)
  BY DEF Uncovered
<1>2. \A d \in Cells : Shown(ms_inc_tile(rm, d)) \in Tile
  BY IncTile DEF Shown, Tile
<1>3. \A d \in Cells :
        ms_reveal_at(rm, im, c)[d] =
          IF d \in Uncovered(rm, im, c) /\ rm[d] # MINE
          THEN Shown(ms_inc_tile(rm, d)) ELSE im[d]
  BY DEF ms_reveal_at
<1>4. ms_reveal_at(rm, im, c) \in Map
  BY <1>2 DEF ms_reveal_at, Map
<1> QED
  BY <1>1, <1>3, <1>4 DEF Unknown

(* The region of a blank cell holds it, stays inside the blank cells, and  *)
(* is closed under stepping to the blank cells around.                     *)
LEMMA RegionClosed ==
  ASSUME NEW B \in SUBSET Cells, NEW c \in B
  PROVE  /\ c \in Region(B, c)
         /\ Region(B, c) \subseteq B
         /\ \A e \in Region(B, c) : Around(e) \cap B \subseteq Region(B, c)
  BY DEF Region

(* The flood of ms_reveal_at is complete and minimal: around a cell that   *)
(* becomes EMPTY nothing stays UNKNOWN, and a cell that changes is c or    *)
(* has such a cell around it.                                              *)
LEMMA RevealFlood ==
  ASSUME NEW rm, NEW im \in Map, NEW c \in Cells,
         NEW im2, im2 = ms_reveal_at(rm, im, c)
  PROVE  /\ \A d \in Cells : im2[d] = EMPTY /\ im[d] # EMPTY =>
              \A g \in Around(d) : im2[g] # UNKNOWN
         /\ \A d \in Cells : im2[d] # im[d] =>
              d = c \/ \E e \in Around(d) : im2[e] = EMPTY /\ im[e] # EMPTY
<1> DEFINE U == Uncovered(rm, im, c)
           B == Blank(rm, im)
<1>1. \A d \in Cells :
        im2[d] = IF d \in U /\ rm[d] # MINE THEN Shown(ms_inc_tile(rm, d)) ELSE im[d]
  BY DEF ms_reveal_at
<1>2. B \in SUBSET Cells
  BY DEF Blank, Unknown
<1>3. \A d \in Cells : d \in Around(d)
  BY SizeAssumption DEF Around, Near, Cells
<1>4. \A d \in Cells : Around(d) \subseteq Cells
  BY DEF Around
<1>5. \A d, e \in Cells : d \in Around(e) => e \in Around(d)
  BY SizeAssumption DEF Around, Near, Cells
<1>6. ASSUME NEW d \in Cells, im2[d] = EMPTY, im[d] # EMPTY,
             NEW g \in Around(d)
      PROVE  im2[g] # UNKNOWN
  <2>1. d \in U /\ rm[d] # MINE /\ Shown(ms_inc_tile(rm, d)) = EMPTY
    BY <1>1, <1>6
  <2>2. ms_inc_tile(rm, d) = ZERO
    BY <2>1, IncTile DEF Shown, EMPTY, ZERO, EIGHT, MINE
  <2>3. d \in B
    BY <2>1, <2>2 DEF Uncovered, Blank
  <2>4. c \in B
    BY <2>1, <2>3 DEF Uncovered
  <2>5. PICK e \in Region(B, c) : d \in Around(e)
    BY <2>1, <2>4 DEF Uncovered
  <2>6. d \in Region(B, c)
    BY <1>2, <2>3, <2>4, <2>5, RegionClosed
  <2>7. im[g] = UNKNOWN => g \in U
    BY <1>4, <2>4, <2>6 DEF Uncovered, Unknown
  <2>8. rm[g] # MINE
    BY <2>2, IncTile, <1>4 DEF MinesIn
  <2>9. Shown(ms_inc_tile(rm, g)) # UNKNOWN
    BY <1>4, IncTile DEF Shown, EMPTY, ZERO, EIGHT, MINE, UNKNOWN
  <2> QED
    BY <1>1, <1>4, <2>7, <2>8, <2>9
<1>7. ASSUME NEW d \in Cells, im2[d] # im[d], d # c
      PROVE  \E e \in Around(d) : im2[e] = EMPTY /\ im[e] # EMPTY
  <2>1. d \in U
    BY <1>1, <1>7
  <2>2. c \in B
    BY <1>7, <2>1 DEF Uncovered
  <2>3. PICK e \in Region(B, c) : d \in Around(e)
    BY <2>1, <2>2 DEF Uncovered
  <2>4. e \in B /\ e \in Cells
    BY <1>2, <2>2, <2>3, RegionClosed
  <2>5. im[e] = UNKNOWN /\ ms_inc_tile(rm, e) = ZERO
    BY <2>4 DEF Blank, Unknown
  <2>6. e \in U
    BY <1>3, <2>2, <2>3, <2>4, <2>5 DEF Uncovered, Unknown
  <2>7. rm[e] # MINE
    BY <2>4, <2>5, IncTile DEF MINE, ZERO
  <2>8. im2[e] = EMPTY /\ im[e] # EMPTY
    BY <1>1, <2>4, <2>5, <2>6, <2>7 DEF Shown, UNKNOWN, EMPTY
  <2> QED
    BY <1>5, <2>3, <2>4, <2>8
<1> QED
  BY <1>6, <1>7

-----------------------------------------------------------------------------
(* The engine *)

(* The maps agree as long as the game goes on: what is shown is true, and  *)
(* nothing of what the end of the game shows is there.                     *)
MapsAgree(rm, im) ==
  \A c \in Cells :
    /\ im[c] \notin {MINE, ERROR}
    /\ im[c] = EMPTY => rm[c] = ZERO
    /\ im[c] \in ZERO .. EIGHT => im[c] = rm[c] /\ im[c] # ZERO

Counted(rm) == \A c \in Cells : rm[c] = ms_inc_tile(rm, c)

Solved(rm, im) ==
  \A c \in Cells : im[c] = IF rm[c] = MINE THEN FLAGGED ELSE Shown(rm[c])

PlacedIn(rm) ==
  ~is_debug =>
    LET free == Size * Size - Cardinality(MinesIn(rm))
    IN  free = 1 \/ (free > 1 /\ Cardinality(MinesIn(rm)) = mine_count)

IInv ==
  /\ TypeOK
  /\ RemapCounted
  /\ ImmapTruthful
  /\ WinExact
  /\ LossShown
  /\ MinesPlaced

-----------------------------------------------------------------------------

(* While the game goes on the invariant says what MapsAgree says. *)
LEMMA OngoingAgrees ==
  ASSUME IInv, status = ONGOING
  PROVE  MapsAgree(remap, immap)
  BY DEF IInv, ImmapTruthful, MapsAgree, ONGOING, LOSE

(* The real map a move works on is counted, holds the mines asked for,     *)
(* agrees with what the player sees, and spares the cursor's cell when it  *)
(* is new and not the debug pattern.                                       *)
LEMMA LayoutsOK ==
  ASSUME IInv, status = ONGOING, NEW rm \in Layouts
  PROVE  /\ rm \in Map
         /\ Counted(rm)
         /\ MapsAgree(rm, immap)
         /\ PlacedIn(rm)
         /\ ~is_first => rm = remap
         /\ is_first /\ ~is_debug => rm[curs] # MINE
<1>1. CASE ~is_first
  <2>1. rm = remap
    BY <1>1 DEF Layouts
  <2> QED
    BY <1>1, <2>1, OngoingAgrees
    DEF IInv, TypeOK, RemapCounted, MinesPlaced, PlacedIn, Counted, Map
<1>2. CASE is_first
  <2>1. PICK M \in ms_place_mines : rm = ms_remap_show(Mined(M))
    BY <1>2 DEF Layouts
  <2>2. M \in SUBSET Cells
    <3>1. is_debug \in DebugBits
      BY DEF IInv, TypeOK
    <3>2. is_debug => TestPattern \subseteq Cells
      BY <3>1, PatternAssumption, Zenon
    <3> QED
      BY <2>1, <3>2 DEF ms_place_mines
  <2>3. MinesIn(Mined(M)) = M
    BY <2>2 DEF MinesIn, Mined, MINE, ZERO
  <2>4. rm \in Map /\ Counted(rm) /\ MinesIn(rm) = M
    BY <2>1, <2>3, RemapShow DEF Counted
  <2>5. MapsAgree(rm, immap)
    <3>1. immap = Uniform(UNKNOWN)
      BY <1>2 DEF IInv, RemapCounted
    <3> QED
      BY <3>1 DEF MapsAgree, Uniform, UNKNOWN, MINE, ERROR, EMPTY, ZERO, EIGHT
  <2>6. ASSUME ~is_debug
        PROVE  curs \notin M /\ Cardinality(M) = MinesToPlace
    BY <2>1, <2>6 DEF ms_place_mines
  <2>7. PlacedIn(rm)
    <3>1. SUFFICES ASSUME ~is_debug
                   PROVE  LET free == Size * Size - Cardinality(M)
                          IN  free = 1 \/ (free > 1 /\ Cardinality(M) = mine_count)
      BY <2>4 DEF PlacedIn
    <3>2. Cardinality(M) = MinesToPlace
      BY <2>6, <3>1
    <3>3. Size * Size \in Nat /\ mine_count \in Nat
      BY SizeAssumption DEF IInv, TypeOK
    <3> QED
      BY <3>2, <3>3 DEF MinesToPlace
  <2>8. is_first /\ ~is_debug => rm[curs] # MINE
    BY <2>4, <2>6 DEF MinesIn, IInv, TypeOK
  <2> QED
    BY <1>2, <2>4, <2>5, <2>7, <2>8
<1>3. is_first \in BOOLEAN
  BY DEF IInv, TypeOK
<1> QED
  BY <1>1, <1>2, <1>3

(* On a board whose maps agree ms_check_win finds the win exactly when the *)
(* board is solved.                                                        *)
LEMMA CheckWinSolved ==
  ASSUME NEW rm \in Map, NEW im \in Map, Counted(rm), MapsAgree(rm, im)
  PROVE  ms_check_win(rm, im, ONGOING) = IF Solved(rm, im) THEN WIN ELSE ONGOING
<1> DEFINE Won(c) == /\ im[c] # UNKNOWN
                     /\ rm[c] # MINE => im[c] # FLAGGED
                     /\ rm[c] = MINE => im[c] = FLAGGED
<1>1. ASSUME NEW c \in Cells
      PROVE  Won(c) <=> im[c] = IF rm[c] = MINE THEN FLAGGED ELSE Shown(rm[c])
  <2>1. rm[c] \in (ZERO .. EIGHT) \cup {MINE} /\ im[c] \in Tile
    BY IncTile DEF Counted, Map
  <2>2. /\ im[c] \notin {MINE, ERROR}
        /\ im[c] = EMPTY => rm[c] = ZERO
        /\ im[c] \in ZERO .. EIGHT => im[c] = rm[c] /\ im[c] # ZERO
    BY DEF MapsAgree
  <2> QED
    BY <2>1, <2>2
    DEF Shown, Tile, MINE, EMPTY, UNKNOWN, ZERO, EIGHT, FLAGGED, ERROR
<1> QED
  BY <1>1 DEF ms_check_win, Solved

(* Both handlers that do not end the game with a loss lead to a state that *)
(* satisfies the invariant.                                                *)
LEMMA OngoingStep ==
  ASSUME IInv, status = ONGOING,
         remap' \in Map, immap' \in Map, Counted(remap'),
         MapsAgree(remap', immap'), PlacedIn(remap'),
         status' = ms_check_win(remap', immap', status),
         is_first' = FALSE, curs' = curs,
         UNCHANGED <<is_debug, mine_count>>
  PROVE  IInv'
<1>1. status' = IF Solved(remap', immap') THEN WIN ELSE ONGOING
  BY CheckWinSolved
<1>2. status' # LOSE
  BY <1>1 DEF WIN, ONGOING, LOSE
<1>3. TypeOK'
  BY <1>1 DEF IInv, TypeOK, Map
<1>4. RemapCounted'
  BY DEF RemapCounted, Counted
<1>5. ImmapTruthful'
  BY DEF ImmapTruthful, MapsAgree
<1>6. WinExact'
  BY <1>1 DEF WinExact, Solved, WIN, ONGOING
<1>7. LossShown'
  BY <1>2 DEF LossShown
<1>8. MinesPlaced'
  BY DEF MinesPlaced, PlacedIn
<1> QED
  BY <1>3, <1>4, <1>5, <1>6, <1>7, <1>8 DEF IInv

(* An iteration that leaves both maps alone (a cursor move, or no move at  *)
(* all) finds the board as unsolved as the one before did.                 *)
LEMMA NothingToWin ==
  ASSUME IInv, status = ONGOING
  PROVE  ms_check_win(remap, immap, status) = ONGOING
<1>1. CASE is_first
  <2>1. <<0, 0>> \in Cells
    BY SizeAssumption DEF Cells
  <2>2. immap[<<0, 0>>] = UNKNOWN
    BY <1>1, <2>1 DEF IInv, RemapCounted, Uniform
  <2> QED
    BY <2>1, <2>2 DEF ms_check_win
<1>2. CASE ~is_first
  <2>1. ~Solved(remap, immap)
    BY <1>2 DEF IInv, WinExact, Solved, ONGOING, WIN
  <2>2. Counted(remap)
    BY <1>2 DEF IInv, RemapCounted, Counted
  <2> QED
    BY <2>1, <2>2, OngoingAgrees, CheckWinSolved DEF IInv, TypeOK, Map
<1> QED
  BY <1>1, <1>2 DEF IInv, TypeOK

-----------------------------------------------------------------------------
(* The four kinds of iteration preserve the invariant. *)

LEMMA PokeMineStep ==
  ASSUME IInv, PokeMine
  PROVE  IInv' /\ status' = LOSE /\ ~(is_first /\ ~is_debug)
<1>1. PICK rm \in Layouts : /\ rm[curs] = MINE
                           /\ remap' = rm
                           /\ immap' = ms_show_mines(rm, immap)
  BY DEF PokeMine
<1>2. status = ONGOING /\ is_first' = FALSE /\ UNCHANGED <<curs, is_debug, mine_count>>
  BY DEF PokeMine
<1>3. /\ rm \in Map /\ Counted(rm) /\ MapsAgree(rm, immap) /\ PlacedIn(rm)
      /\ ~(is_first /\ ~is_debug)
  BY <1>1, <1>2, LayoutsOK
<1>4. curs \in Cells /\ immap \in Map
  BY DEF IInv, TypeOK, Map
<1>5. \A c \in Cells :
        immap'[c] = IF rm[c] = MINE
                    THEN IF immap[c] # FLAGGED \/ c = curs THEN MINE ELSE immap[c]
                    ELSE IF immap[c] = FLAGGED THEN ERROR ELSE immap[c]
  BY <1>1 DEF ms_show_mines
<1>6. immap' \in Map
  BY <1>1, <1>4 DEF ms_show_mines, Map, Tile
<1>7. immap'[curs] = MINE
  BY <1>1, <1>4, <1>5
<1>8. status' = LOSE
  BY <1>1, <1>4, <1>7 DEF PokeMine, ms_check_win, MINE, FLAGGED
<1>9. TypeOK'
  BY <1>1, <1>2, <1>3, <1>6, <1>8 DEF IInv, TypeOK, Map
<1>10. RemapCounted'
  BY <1>1, <1>2, <1>3 DEF RemapCounted, Counted
<1>11. ImmapTruthful'
  BY <1>1, <1>3, <1>5, <1>8
  DEF ImmapTruthful, MapsAgree, MINE, ERROR, EMPTY, ZERO, EIGHT
<1>12. WinExact'
  BY <1>1, <1>4, <1>7, <1>8 DEF WinExact, MINE, FLAGGED, LOSE, WIN
<1>13. LossShown'
  <2>1. \A c \in Cells : IF rm[c] = MINE THEN immap'[c] \in {MINE, FLAGGED}
                         ELSE immap'[c] # FLAGGED
    BY <1>5 DEF ERROR, FLAGGED
  <2> QED
    BY <1>1, <1>2, <1>7, <2>1 DEF LossShown
<1>14. MinesPlaced'
  BY <1>1, <1>2, <1>3 DEF MinesPlaced, PlacedIn
<1> QED
  BY <1>3, <1>8, <1>9, <1>10, <1>11, <1>12, <1>13, <1>14 DEF IInv

LEMMA PokeSafeStep ==
  ASSUME IInv, PokeSafe
  PROVE  IInv' /\ status' # LOSE
<1>1. PICK rm \in Layouts : /\ rm[curs] # MINE
                           /\ remap' = rm
                           /\ immap' = ms_reveal_at(rm, immap, curs)
  BY DEF PokeSafe
<1>2. /\ status = ONGOING
      /\ status' = ms_check_win(remap', immap', status)
      /\ is_first' = FALSE /\ UNCHANGED <<curs, is_debug, mine_count>>
  BY DEF PokeSafe
<1>3. rm \in Map /\ Counted(rm) /\ MapsAgree(rm, immap) /\ PlacedIn(rm)
  BY <1>1, <1>2, LayoutsOK
<1>4. curs \in Cells /\ immap \in Map
  BY DEF IInv, TypeOK, Map
<1>5. immap' \in Map
  BY <1>1, <1>4, RevealAt
<1>6. MapsAgree(rm, immap')
  <2>1. SUFFICES ASSUME NEW c \in Cells
                 PROVE  /\ immap'[c] \notin {MINE, ERROR}
                        /\ immap'[c] = EMPTY => rm[c] = ZERO
                        /\ immap'[c] \in ZERO .. EIGHT =>
                             immap'[c] = rm[c] /\ immap'[c] # ZERO
    BY DEF MapsAgree
  <2>2. CASE immap'[c] = immap[c]
    BY <1>3, <2>2 DEF MapsAgree
  <2>3. CASE rm[c] # MINE /\ immap'[c] = Shown(ms_inc_tile(rm, c))
    <3>1. rm[c] = ms_inc_tile(rm, c)
      BY <1>3 DEF Counted
    <3>2. rm[c] \in ZERO .. EIGHT
      BY <2>3, <3>1, IncTile
    <3>3. immap'[c] = IF rm[c] = ZERO THEN EMPTY ELSE rm[c]
      BY <2>3, <3>1 DEF Shown
    <3> QED
      BY <3>2, <3>3 DEF MINE, ERROR, EMPTY, ZERO, EIGHT
  <2> QED
    BY <1>1, <1>4, <2>2, <2>3, RevealAt
<1>7. IInv'
  BY <1>1, <1>2, <1>3, <1>5, <1>6, OngoingStep
<1>8. status' # LOSE
  BY <1>1, <1>2, <1>3, <1>5, <1>6, CheckWinSolved DEF ONGOING, WIN, LOSE
<1> QED
  BY <1>7, <1>8

LEMMA FlagStep ==
  ASSUME IInv, Flag
  PROVE  IInv' /\ status' # LOSE
<1>1. /\ status = ONGOING
      /\ remap' \in Layouts
      /\ immap' = [immap EXCEPT ![curs] = Toggled(@)]
      /\ status' = ms_check_win(remap', immap', status)
      /\ is_first' = FALSE /\ UNCHANGED <<curs, is_debug, mine_count>>
  BY DEF Flag
<1>2. /\ remap' \in Map /\ Counted(remap')
      /\ MapsAgree(remap', immap) /\ PlacedIn(remap')
  BY <1>1, LayoutsOK
<1>3. curs \in Cells /\ immap \in Map
  BY DEF IInv, TypeOK, Map
<1>4. /\ Toggled(immap[curs]) \in Tile
      /\ Toggled(immap[curs]) \in {immap[curs], FLAGGED, UNKNOWN}
  BY <1>3 DEF Toggled, Map, Tile
<1>5. immap' \in Map
  BY <1>1, <1>3, <1>4 DEF Map
<1>6. MapsAgree(remap', immap')
  <2>1. \A c \in Cells : immap'[c] \in {immap[c], FLAGGED, UNKNOWN}
    BY <1>1, <1>3, <1>4 DEF Map
  <2> QED
    BY <1>2, <2>1
    DEF MapsAgree, MINE, ERROR, EMPTY, ZERO, EIGHT, FLAGGED, UNKNOWN
<1>7. IInv'
  BY <1>1, <1>2, <1>5, <1>6, OngoingStep
<1>8. status' # LOSE
  BY <1>1, <1>2, <1>5, <1>6, CheckWinSolved DEF ONGOING, WIN, LOSE
<1> QED
  BY <1>7, <1>8

LEMMA QuietStep ==
  ASSUME IInv, MoveCursor \/ Idle \/ Frozen \/ UNCHANGED vars
  PROVE  IInv' /\ (status = ONGOING => status' # LOSE)
<1>1. CASE MoveCursor
  <2>1. /\ status = ONGOING /\ curs' \in Cells
        /\ UNCHANGED <<remap, immap, status, is_first, is_debug, mine_count>>
    BY <1>1, NothingToWin DEF MoveCursor
  <2>2. TypeOK'
    BY <2>1 DEF IInv, TypeOK
  <2>3. LossShown'
    BY <2>1 DEF LossShown, ONGOING, LOSE
  <2> QED
    BY <2>1, <2>2, <2>3
    DEF IInv, RemapCounted, ImmapTruthful, WinExact, MinesPlaced, ONGOING, LOSE
<1>2. CASE Idle \/ Frozen \/ UNCHANGED vars
  <2>1. UNCHANGED vars
    BY <1>2, NothingToWin DEF Idle, Frozen, vars
  <2> QED
    BY <2>1 DEF vars, IInv, TypeOK, RemapCounted, ImmapTruthful, WinExact,
                LossShown, MinesPlaced, ONGOING, LOSE
<1> QED
  BY <1>1, <1>2

LEMMA InitInv == Init => IInv
<1> SUFFICES ASSUME Init
             PROVE  IInv
  OBVIOUS
<1>1. TypeOK
  <2>1. <<Size \div 2, Size \div 2>> \in Cells
    BY SizeAssumption DEF Cells
  <2> QED
    BY <2>1, MinesAssumption DEF Init, TypeOK, Uniform, Tile, ZERO, EIGHT, UNKNOWN
<1>2. RemapCounted
  BY DEF Init, RemapCounted
<1>3. ImmapTruthful
  BY DEF Init, ImmapTruthful, Uniform, UNKNOWN, EMPTY, MINE, ERROR, ZERO, EIGHT
<1>4. WinExact /\ LossShown /\ MinesPlaced
  BY DEF Init, WinExact, LossShown, MinesPlaced, ONGOING, WIN, LOSE
<1> QED
  BY <1>1, <1>2, <1>3, <1>4 DEF IInv

LEMMA StepInv == IInv /\ [Next]_vars => IInv'
  BY PokeMineStep, PokeSafeStep, FlagStep, QuietStep DEF Next

-----------------------------------------------------------------------------

(* Every state of the engine satisfies the inductive invariant.            *)
THEOREM Invariance == Spec => []IInv
<1>1. Init => IInv
  BY InitInv
<1>2. IInv /\ [Next]_vars => IInv'
  BY StepInv
<1> QED
  BY <1>1, <1>2, PTL DEF Spec

(* The maps, the cursor and the status keep their types, for any board.    *)
THEOREM TypeCorrect == Spec => []TypeOK
<1>1. IInv => TypeOK
  BY DEF IInv
<1> QED
  BY <1>1, Invariance, PTL

(* The first move leaves a map that counts its mines, and it stays so,     *)
(* whichever mines ms_place_mines chose.                                   *)
THEOREM CountsAreRight == Spec => []RemapCounted
<1>1. IInv => RemapCounted
  BY DEF IInv
<1> QED
  BY <1>1, Invariance, PTL

(* The player is never shown anything false.                               *)
THEOREM ShowsTheTruth == Spec => []ImmapTruthful
<1>1. IInv => ImmapTruthful
  BY DEF IInv
<1> QED
  BY <1>1, Invariance, PTL

(* ms_check_win finds every win, at once, and no other board.              *)
THEOREM WinsAreExact == Spec => []WinExact
<1>1. IInv => WinExact
  BY DEF IInv
<1> QED
  BY <1>1, Invariance, PTL

(* A lost board shows every mine and every wrong flag.                     *)
THEOREM LossesAreShown == Spec => []LossShown
<1>1. IInv => LossShown
  BY DEF IInv
<1> QED
  BY <1>1, Invariance, PTL

(* ms_place_mines places the mines asked for, or leaves one cell free.     *)
THEOREM MinesArePlaced == Spec => []MinesPlaced
<1>1. IInv => MinesPlaced
  BY DEF IInv
<1> QED
  BY <1>1, Invariance, PTL

(* The first move never loses.                                             *)
THEOREM FirstMoveIsSafe == Spec => FirstMoveSafe
<1>1. IInv /\ [Next]_vars => [is_first /\ ~is_debug => status' # LOSE]_vars
  <2> SUFFICES ASSUME IInv, Next, is_first, ~is_debug
               PROVE  status' # LOSE
    BY DEF vars
  <2>1. status # LOSE
    <3>1. SUFFICES ASSUME status = LOSE
                   PROVE  FALSE
      OBVIOUS
    <3>2. curs \in Cells /\ remap[curs] = MINE
      BY <3>1 DEF IInv, LossShown, TypeOK
    <3> QED
      BY <3>2 DEF IInv, RemapCounted, Uniform, MINE, ZERO
  <2>2. CASE PokeMine
    BY <2>2, PokeMineStep
  <2>3. CASE PokeSafe
    BY <2>3, PokeSafeStep
  <2>4. CASE Flag
    BY <2>4, FlagStep
  <2>5. CASE MoveCursor \/ Idle \/ Frozen
    BY <2>1, <2>5, QuietStep DEF Frozen, vars, MoveCursor, Idle
  <2> QED
    BY <2>2, <2>3, <2>4, <2>5 DEF Next
<1> QED
  BY <1>1, Invariance, PTL DEF Spec, FirstMoveSafe

(* The flood of a poke uncovers the whole blank region and nothing else.   *)
THEOREM FloodIsExact == Spec => FloodExact
<1> DEFINE NewlyEmpty(c) == immap'[c] = EMPTY /\ immap[c] # EMPTY
           Complete == \A c \in Cells : NewlyEmpty(c) =>
                         \A d \in Around(c) : immap'[d] # UNKNOWN
           Minimal  == status' # LOSE => \A c \in Cells : immap'[c] # immap[c] =>
                         c = curs \/ \E d \in Around(c) : NewlyEmpty(d)
<1>1. IInv /\ [Next]_vars => [Complete /\ Minimal]_vars
  <2> SUFFICES ASSUME IInv, Next
               PROVE  Complete /\ Minimal
    BY DEF vars
  <2>1. CASE PokeMine
    <3>1. PICK rm \in Layouts : immap' = ms_show_mines(rm, immap)
      BY <2>1 DEF PokeMine
    <3>2. \A c \in Cells : ~NewlyEmpty(c)
      BY <3>1 DEF ms_show_mines, MINE, ERROR, EMPTY
    <3> QED
      BY <2>1, <3>2, PokeMineStep
  <2>2. CASE PokeSafe
    <3>1. PICK rm \in Layouts : immap' = ms_reveal_at(rm, immap, curs)
      BY <2>2 DEF PokeSafe
    <3>2. curs \in Cells /\ immap \in Map
      BY DEF IInv, TypeOK, Map
    <3> QED
      BY <3>1, <3>2, RevealFlood
  <2>3. CASE Flag
    <3>1. immap' = [immap EXCEPT ![curs] = Toggled(@)]
      BY <2>3 DEF Flag
    <3>2. curs \in Cells /\ immap \in Map
      BY DEF IInv, TypeOK, Map
    <3>3. \A c \in Cells : c # curs => immap'[c] = immap[c]
      BY <3>1, <3>2 DEF Map
    <3>4. immap'[curs] = Toggled(immap[curs])
      BY <3>1, <3>2 DEF Map
    <3>5. \A c \in Cells : ~NewlyEmpty(c)
      BY <3>3, <3>4 DEF Toggled, EMPTY, UNKNOWN, FLAGGED
    <3> QED
      BY <3>3, <3>5
  <2>4. CASE MoveCursor \/ Idle \/ Frozen
    BY <2>4 DEF MoveCursor, Idle, Frozen, vars
  <2> QED
    BY <2>1, <2>2, <2>3, <2>4 DEF Next
<1> QED
  BY <1>1, Invariance, PTL DEF Spec, FloodExact

(* A flag goes away only under the cursor, or when the game is lost.       *)
THEOREM FlagsAreHeld == Spec => FlagsHold
<1> DEFINE Held == \A c \in Cells :
             immap[c] = FLAGGED /\ immap'[c] # FLAGGED =>
               \/ c = curs /\ immap'[c] = UNKNOWN
               \/ status' = LOSE
<1>1. IInv /\ [Next]_vars => [Held]_vars
  <2> SUFFICES ASSUME IInv, Next
               PROVE  Held
    BY DEF vars
  <2>0. curs \in Cells /\ immap \in Map
    BY DEF IInv, TypeOK, Map
  <2>1. CASE PokeMine
    BY <2>1, PokeMineStep
  <2>2. CASE PokeSafe
    <3>1. PICK rm \in Layouts : immap' = ms_reveal_at(rm, immap, curs)
      BY <2>2 DEF PokeSafe
    <3>2. ASSUME NEW c \in Cells, immap[c] = FLAGGED
          PROVE  immap'[c] = FLAGGED
      <4>1. curs \in Cells /\ immap \in Map
        BY <2>0
      <4>2. \A d \in Cells :
              \/ ms_reveal_at(rm, immap, curs)[d] = immap[d]
              \/ /\ immap[d] = UNKNOWN
                 /\ rm[d] # MINE
                 /\ ms_reveal_at(rm, immap, curs)[d] = Shown(ms_inc_tile(rm, d))
        BY <4>1, RevealAt
      <4> QED
        BY <3>1, <3>2, <4>2 DEF UNKNOWN, FLAGGED
    <3> QED
      BY <3>2
  <2>3. CASE Flag
    <3>1. immap' = [immap EXCEPT ![curs] = Toggled(@)]
      BY <2>3 DEF Flag
    <3>2. \A c \in Cells : c # curs => immap'[c] = immap[c]
      BY <2>0, <3>1 DEF Map
    <3>3. immap'[curs] = Toggled(immap[curs])
      BY <2>0, <3>1 DEF Map
    <3> QED
      BY <3>2, <3>3 DEF Toggled, UNKNOWN, FLAGGED
  <2>4. CASE MoveCursor \/ Idle \/ Frozen
    BY <2>4 DEF MoveCursor, Idle, Frozen, vars
  <2> QED
    BY <2>1, <2>2, <2>3, <2>4 DEF Next
<1> QED
  BY <1>1, Invariance, PTL DEF Spec, FlagsHold

=============================================================================
