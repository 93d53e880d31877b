----------------------- MODULE MinesweeperStepsProofs -----------------------
(***************************************************************************)
(* The handlers taken step by step do what module Minesweeper says they do *)
(* all in all, on a board of any size, with any number of mines: the       *)
(* counting loop may write over the map it reads, and the recursion that   *)
(* reveals is exactly the flood of ms_reveal_at.                           *)
(***************************************************************************)
EXTENDS MinesweeperSteps, MinesweeperProofs, SequenceTheorems

-----------------------------------------------------------------------------
(* The counting loop visits every cell once. *)

Index == 0 .. Size * Size - 1

LEMMA Square == Size \in Nat /\ Size > 1 /\ Size * Size \in Nat /\ Size * Size > 1
<1>1. Size \in Nat /\ Size > 1
  BY SizeAssumption
<1>2. (Size - 1) * (Size - 1) >= 0 /\ (Size - 1) * (Size - 1) = Size * Size - 2 * Size + 1
  BY <1>1
<1>3. Size * Size \in Nat
  BY <1>1
<1> QED
  BY <1>1, <1>2, <1>3

LEMMA CellIndex ==
  /\ \A n \in Index : Cell(n) \in Cells
  /\ \A m, n \in Index : Cell(m) = Cell(n) => m = n
  /\ \A c \in Cells : \E n \in Index : Cell(n) = c
<1>1. Size \in Nat /\ Size > 1 /\ Size * Size \in Nat
  BY Square
<1>2. ASSUME NEW n \in Index
      PROVE  /\ n % Size \in 0 .. Size - 1
             /\ n \div Size \in 0 .. Size - 1
             /\ n = Size * (n \div Size) + (n % Size)
  <2> DEFINE q == n \div Size
             r == n % Size
  <2>1. n \in Nat /\ n < Size * Size
    BY <1>1 DEF Index
  <2>2. q \in Int /\ r \in 0 .. Size - 1 /\ n = Size * q + r
    BY <1>1, <2>1
  <2> HIDE DEF q, r
  <2>3. q >= 0
    <3>1. SUFFICES ASSUME q <= -1
                   PROVE  FALSE
      BY <2>2
    <3>2. Size * (-1 - q) >= 0 /\ Size * (-1 - q) = 0 - Size - Size * q
      BY <1>1, <2>2, <3>1
    <3> QED
      BY <1>1, <2>1, <2>2, <3>2
  <2>4. q < Size
    <3>1. SUFFICES ASSUME q - Size >= 0
                   PROVE  FALSE
      BY <1>1, <2>2
    <3>2. Size * (q - Size) >= 0 /\ Size * (q - Size) = Size * q - Size * Size
      BY <1>1, <2>2, <3>1
    <3> QED
      BY <1>1, <2>1, <2>2, <3>2
  <2> QED
    BY <1>1, <2>2, <2>3, <2>4 DEF q, r
<1>3. ASSUME NEW c \in Cells
      PROVE  \E n \in Index : Cell(n) = c
  <2> DEFINE x == c[1]
             y == c[2]
             n == Size * y + x
  <2>1. x \in 0 .. Size - 1 /\ y \in 0 .. Size - 1 /\ c = <<x, y>>
    BY <1>1 DEF Cells
  <2> HIDE DEF x, y
  <2>2. n \in Index
    <3>1. Size * y >= 0 /\ Size * y \in Int
      BY <1>1, <2>1
    <3>2. Size * (Size - 1 - y) >= 0
      BY <1>1, <2>1
    <3>3. Size * (Size - 1 - y) = Size * Size - Size - Size * y
      BY <1>1, <2>1
    <3> QED
      BY <1>1, <2>1, <3>1, <3>2, <3>3 DEF Index
  <2>3. n % Size = x /\ n \div Size = y
    BY <1>1, <2>1
  <2> QED
    BY <2>1, <2>2, <2>3 DEF Cell
<1> QED
  BY <1>2, <1>3 DEF Cell, Cells

-----------------------------------------------------------------------------
(* The calls of the recursion *)

LEMMA NextCall ==
  ASSUME NEW S, NEW s \in Seq(S), s # <<>>
  PROVE  /\ Head(s) \in S /\ Tail(s) \in Seq(S)
         /\ Range(s) = {Head(s)} \cup Range(Tail(s))
<1>1. /\ Head(s) \in S /\ Tail(s) \in Seq(S) /\ <<Head(s)>> \in Seq(S)
      /\ s = <<Head(s)>> \o Tail(s)
  OBVIOUS
<1>2. Range(<<Head(s)>>) = {Head(s)}
  BY DEF Range
<1>3. Range(<<Head(s)>> \o Tail(s)) = Range(<<Head(s)>>) \cup Range(Tail(s))
  <2>1. \A t, u \in Seq(S) : Range(t \o u) = Range(t) \cup Range(u)
    BY RangeConcatenation
  <2> QED
    BY <1>1, <2>1
<1> QED
  BY <1>1, <1>2, <1>3

(* A blank cell calls ms_reveal_at for the cells around it, those and no   *)
(* others.                                                                 *)
LEMMA CallsAround ==
  ASSUME NEW c \in Cells
  PROVE  /\ Recursion(c) \in Seq(Cells)
         /\ Range(Recursion(c)) = Around(c) \ {c}
<1>1. \A d : Call(d) \in Seq(Cells) /\ Range(Call(d)) = {d} \cap Cells
  BY DEF Call, Range
<1>2. ASSUME NEW s \in Seq(Cells), NEW d, NEW D, Range(s) = D \cap Cells
      PROVE  /\ s \o Call(d) \in Seq(Cells)
             /\ Range(s \o Call(d)) = (D \cup {d}) \cap Cells
  <2>1. Call(d) \in Seq(Cells) /\ Range(Call(d)) = {d} \cap Cells
    BY <1>1
  <2>2. s \o Call(d) \in Seq(Cells)
    BY <2>1
  <2>3. Range(s \o Call(d)) = Range(s) \cup Range(Call(d))
    BY <1>2, <2>1, RangeConcatenation
  <2> QED
    BY <1>2, <2>1, <2>2, <2>3
<1> DEFINE d1 == <<c[1], c[2] - 1>>
           d2 == <<c[1] + 1, c[2] - 1>>
           d3 == <<c[1] + 1, c[2]>>
           d4 == <<c[1] + 1, c[2] + 1>>
           d5 == <<c[1], c[2] + 1>>
           d6 == <<c[1] - 1, c[2] + 1>>
           d7 == <<c[1] - 1, c[2]>>
           d8 == <<c[1] - 1, c[2] - 1>>
           s2 == Call(d1) \o Call(d2)
           s3 == s2 \o Call(d3)
           s4 == s3 \o Call(d4)
           s5 == s4 \o Call(d5)
           s6 == s5 \o Call(d6)
           s7 == s6 \o Call(d7)
           s8 == s7 \o Call(d8)
<1>3. Recursion(c) = s8
  BY DEF Recursion
<1>4. Around(c) \ {c} = {d1, d2, d3, d4, d5, d6, d7, d8} \cap Cells
  <2>1. c[1] \in Int /\ c[2] \in Int /\ c = <<c[1], c[2]>>
    BY SizeAssumption DEF Cells
  <2>2. ASSUME NEW d \in Cells
        PROVE  d \in Around(c) \ {c} <=> d \in {d1, d2, d3, d4, d5, d6, d7, d8}
    <3>1. d[1] \in Int /\ d[2] \in Int /\ d = <<d[1], d[2]>>
      BY SizeAssumption DEF Cells
    <3> QED
      BY <2>1, <3>1 DEF Around, Near
  <2> QED
    BY <2>2 DEF Around
<1> HIDE DEF d1, d2, d3, d4, d5, d6, d7, d8
<1>5. Call(d1) \in Seq(Cells) /\ Range(Call(d1)) = {d1} \cap Cells
  BY <1>1
<1>6. s2 \in Seq(Cells) /\ Range(s2) = {d1, d2} \cap Cells
  <2>1. {d1} \cup {d2} = {d1, d2}
    OBVIOUS
  <2>2. /\ Call(d1) \o Call(d2) \in Seq(Cells)
        /\ Range(Call(d1) \o Call(d2)) = ({d1} \cup {d2}) \cap Cells
    BY <1>2, <1>5
  <2> QED
    BY <2>1, <2>2
<1> HIDE DEF s2
<1>7. s3 \in Seq(Cells) /\ Range(s3) = {d1, d2, d3} \cap Cells
  <2>1. {d1, d2} \cup {d3} = {d1, d2, d3}
    OBVIOUS
  <2>2. /\ s2 \o Call(d3) \in Seq(Cells)
        /\ Range(s2 \o Call(d3)) = ({d1, d2} \cup {d3}) \cap Cells
    BY <1>2, <1>6
  <2> QED
    BY <2>1, <2>2
<1> HIDE DEF s3
<1>8. s4 \in Seq(Cells) /\ Range(s4) = {d1, d2, d3, d4} \cap Cells
  <2>1. {d1, d2, d3} \cup {d4} = {d1, d2, d3, d4}
    OBVIOUS
  <2>2. /\ s3 \o Call(d4) \in Seq(Cells)
        /\ Range(s3 \o Call(d4)) = ({d1, d2, d3} \cup {d4}) \cap Cells
    BY <1>2, <1>7
  <2> QED
    BY <2>1, <2>2
<1> HIDE DEF s4
<1>9. s5 \in Seq(Cells) /\ Range(s5) = {d1, d2, d3, d4, d5} \cap Cells
  <2>1. {d1, d2, d3, d4} \cup {d5} = {d1, d2, d3, d4, d5}
    OBVIOUS
  <2>2. /\ s4 \o Call(d5) \in Seq(Cells)
        /\ Range(s4 \o Call(d5)) = ({d1, d2, d3, d4} \cup {d5}) \cap Cells
    BY <1>2, <1>8
  <2> QED
    BY <2>1, <2>2
<1> HIDE DEF s5
<1>10. s6 \in Seq(Cells) /\ Range(s6) = {d1, d2, d3, d4, d5, d6} \cap Cells
  <2>1. {d1, d2, d3, d4, d5} \cup {d6} = {d1, d2, d3, d4, d5, d6}
    OBVIOUS
  <2>2. /\ s5 \o Call(d6) \in Seq(Cells)
        /\ Range(s5 \o Call(d6)) = ({d1, d2, d3, d4, d5} \cup {d6}) \cap Cells
    BY <1>2, <1>9
  <2> QED
    BY <2>1, <2>2
<1> HIDE DEF s6
<1>11. s7 \in Seq(Cells) /\ Range(s7) = {d1, d2, d3, d4, d5, d6, d7} \cap Cells
  <2>1. {d1, d2, d3, d4, d5, d6} \cup {d7} = {d1, d2, d3, d4, d5, d6, d7}
    OBVIOUS
  <2>2. /\ s6 \o Call(d7) \in Seq(Cells)
        /\ Range(s6 \o Call(d7)) = ({d1, d2, d3, d4, d5, d6} \cup {d7}) \cap Cells
    BY <1>2, <1>10
  <2> QED
    BY <2>1, <2>2
<1> HIDE DEF s7
<1>12. s8 \in Seq(Cells) /\ Range(s8) = {d1, d2, d3, d4, d5, d6, d7, d8} \cap Cells
  <2>1. {d1, d2, d3, d4, d5, d6, d7} \cup {d8} = {d1, d2, d3, d4, d5, d6, d7, d8}
    OBVIOUS
  <2>2. /\ s7 \o Call(d8) \in Seq(Cells)
        /\ Range(s7 \o Call(d8)) = ({d1, d2, d3, d4, d5, d6, d7} \cup {d8}) \cap Cells
    BY <1>2, <1>11
  <2> QED
    BY <2>1, <2>2
<1> QED
  BY <1>3, <1>4, <1>12

-----------------------------------------------------------------------------
(* The inductive invariant *)

(* What Layouts is for the state in which the key was read. *)
OldLayouts ==
  IF before.is_first THEN {ms_remap_show(Mined(M)) : M \in ms_place_mines}
  ELSE {before.remap}

Fresh(rm, im) == rm = Uniform(ZERO) /\ im = Uniform(UNKNOWN)

(* In the placing loop: the map holds as many mines as were placed, none   *)
(* of them under the cursor, and the others are still to be placed.        *)
Placed ==
  /\ remap = Mined(MinesIn(remap))
  /\ curs \notin MinesIn(remap)
  /\ Cardinality(MinesIn(remap)) = placed
  /\ to_place + placed = mine_count

(* In the counting loop: the cells before the one the loop is at hold the  *)
(* counts of the map the loop started from, the others what they held.     *)
Counting ==
  /\ MinesIn(remap) \in ms_place_mines
  /\ \A n \in Index :
       remap[Cell(n)] = IF n < at THEN ms_inc_tile(Mined(MinesIn(remap)), Cell(n))
                        ELSE Mined(MinesIn(remap))[Cell(n)]

(* In the recursion: what a call was made for is in reach of the cursor,   *)
(* what was shown is in reach too, and whatever is around a blank cell     *)
(* that was shown is shown or still to be called for.                      *)
Blanks == Blank(remap, before.immap)

Flood == IF curs \in Blanks THEN Region(Blanks, curs) ELSE {}

Reach == {curs} \cup UNION {Around(e) : e \in Flood}

Seen(d) == immap[d] # UNKNOWN \/ d \in Range(calls)

Shows(d) ==
  /\ d \in Reach
  /\ before.immap[d] = UNKNOWN
  /\ remap[d] # MINE
  /\ immap[d] = Shown(ms_inc_tile(remap, d))

Revealing ==
  /\ remap[curs] # MINE
  /\ Range(calls) \subseteq Reach
  /\ \A d \in Cells : immap[d] # before.immap[d] => Shows(d)
  /\ Seen(curs)
  /\ \A e \in Blanks : immap[e] # UNKNOWN => \A d \in Around(e) : Seen(d)

(* The handler is done: the maps are those of a handler of Minesweeper.    *)
Handled ==
  \/ /\ status = LOSE /\ remap[curs] = MINE
     /\ immap = ms_show_mines(remap, before.immap)
  \/ /\ status = ONGOING /\ remap[curs] # MINE
     /\ immap = ms_reveal_at(remap, before.immap, curs)
  \/ /\ status = ONGOING
     /\ immap = [before.immap EXCEPT ![curs] = Toggled(@)]

StepsInv ==
  /\ TypeOKSteps
  /\ before \in [remap : Map, immap : Map, is_first : BOOLEAN]
  /\ pc = "main" /\ is_first => Fresh(remap, immap)
  /\ pc # "main" /\ before.is_first => Fresh(before.remap, before.immap)
  /\ pc \notin {"main", "check"} => status = ONGOING
  /\ pc \in {"place", "count"} => is_first /\ before.is_first
  /\ pc \in {"poke", "flag", "reveal", "check"} => ~is_first /\ remap \in OldLayouts
  /\ pc \in {"place", "count", "poke", "flag"} => immap = before.immap
  /\ pc = "place" /\ ~is_debug => Placed
  /\ pc = "count" => Counting
  /\ pc = "reveal" => Revealing
  /\ pc = "check" => Handled

-----------------------------------------------------------------------------
(* The loops and the recursion *)

(* The count of a mined map has the mines of the map. *)
LEMMA MinesOfMined ==
  ASSUME NEW M \in SUBSET Cells
  PROVE  Mined(M) \in Map /\ MinesIn(Mined(M)) = M
BY DEF Mined, Map, Tile, MinesIn, MINE, ZERO, EIGHT

(* One more mine. *)
LEMMA OneMore ==
  ASSUME StepsInv, pc = "place", ~is_debug, PlaceMine
  PROVE  Placed' /\ placed' \in 0 .. Size * Size - 1 /\ to_place' \in 0 .. mine_count
<1>1. PICK c \in Cells \ {curs} : remap[c] # MINE /\ remap' = [remap EXCEPT ![c] = MINE]
  BY DEF PlaceMine
<1>2. /\ to_place' = to_place - 1 /\ placed' = placed + 1
      /\ to_place > 0 /\ placed + 1 < Size * Size
      /\ UNCHANGED <<curs, mine_count>>
  BY DEF PlaceMine, Placing
<1>3. /\ remap \in Map /\ to_place \in 0 .. mine_count /\ mine_count \in Nat
      /\ placed \in 0 .. Size * Size - 1
  BY DEF StepsInv, TypeOKSteps, TypeOK, Map
<1>4. Placed
  BY DEF StepsInv
<1> DEFINE M == MinesIn(remap)
           N == MinesIn(remap')
<1>5. N = M \cup {c} /\ c \notin M
  BY <1>1, <1>3 DEF MinesIn, Map
<1>6. remap' = Mined(N)
  <2>1. remap = Mined(M)
    BY <1>4 DEF Placed
  <2> HIDE DEF M, N
  <2> QED
    BY <1>1, <1>5, <2>1 DEF Mined
<1>7. Cardinality(N) = placed + 1
  <2>1. IsFiniteSet(M) /\ Cardinality(M) = placed
    BY <1>4, CellsFinite DEF Placed, MinesIn
  <2> HIDE DEF M, N
  <2> QED
    BY <1>5, <2>1, FS_AddElement
<1>8. curs' \notin N /\ to_place' + placed' = mine_count'
  <2>1. curs \notin M /\ to_place + placed = mine_count
    BY <1>4 DEF Placed
  <2> HIDE DEF M, N
  <2>2. curs' \notin N
    BY <1>1, <1>2, <1>5, <2>1
  <2>3. to_place' + placed' = mine_count'
    BY <1>2, <1>3, <2>1
  <2> QED
    BY <2>2, <2>3
<1>9. Size * Size \in Nat
  BY Square
<1> QED
  BY <1>2, <1>3, <1>6, <1>7, <1>8, <1>9 DEF Placed

(* The loop stops with a set of mines ms_place_mines may choose. *)
LEMMA AllPlaced ==
  ASSUME StepsInv, pc = "place", PlaceDone
  PROVE  MinesIn(remap') \in ms_place_mines /\ remap' = Mined(MinesIn(remap'))
<1>1. CASE is_debug
  <2>1. remap' = Mined(TestPattern)
    BY <1>1 DEF PlaceDone
  <2>2. TestPattern \subseteq Cells
    <3>1. is_debug \in DebugBits
      BY DEF StepsInv, TypeOKSteps, TypeOK
    <3> QED
      BY <1>1, <3>1, PatternAssumption, Zenon
  <2> QED
    BY <1>1, <2>1, <2>2, MinesOfMined DEF ms_place_mines
<1>2. CASE ~is_debug
  <2>1. remap' = remap /\ (~(to_place > 0) \/ ~(placed + 1 < Size * Size))
    BY <1>2 DEF PlaceDone, Placing
  <2>2. Placed
    BY <1>2 DEF StepsInv
  <2>3. /\ to_place \in 0 .. mine_count /\ mine_count \in Nat
        /\ placed \in 0 .. Size * Size - 1 /\ Size * Size \in Nat
    BY Square DEF StepsInv, TypeOKSteps, TypeOK
  <2>4. to_place + placed = mine_count
    BY <2>2 DEF Placed
  <2>5. placed = MinesToPlace
    BY <2>1, <2>3, <2>4 DEF MinesToPlace
  <2> QED
    BY <1>2, <2>1, <2>2, <2>5 DEF ms_place_mines, Placed, MinesIn
<1> QED
  BY <1>1, <1>2

(* The count of a cell is right whatever counts were written before. *)
LEMMA OneCounted ==
  ASSUME StepsInv, pc = "count", CountCell
  PROVE  Counting' /\ remap' \in Map
<1>1. /\ at < Size * Size /\ at' = at + 1
      /\ remap' = [remap EXCEPT ![Cell(at)] = ms_inc_tile(remap, Cell(at))]
      /\ UNCHANGED <<curs, is_debug, mine_count>>
  BY DEF CountCell, CountTile
<1>2. remap \in Map /\ at \in 0 .. Size * Size /\ Size * Size \in Nat
  BY Square DEF StepsInv, TypeOKSteps, TypeOK, Map
<1>3. Counting
  BY DEF StepsInv
<1> DEFINE M == MinesIn(remap)
<1>4. at \in Index /\ Cell(at) \in Cells
  BY <1>1, <1>2, CellIndex DEF Index
<1>5. \A c \in Cells : remap'[c] = IF c = Cell(at) THEN ms_inc_tile(remap, c) ELSE remap[c]
  BY <1>1, <1>2, <1>4 DEF Map
<1>6. MinesIn(remap') = M
  BY <1>4, <1>5, IncTile DEF MinesIn
<1>7. remap' \in Map
  <2>1. ms_inc_tile(remap, Cell(at)) \in Tile
    BY <1>4, IncTile DEF Tile
  <2> QED
    BY <1>1, <1>2, <1>4, <2>1 DEF Map
<1>8. M \in SUBSET Cells
  BY DEF MinesIn
<1>9. \A c \in Cells : ms_inc_tile(remap, c) = ms_inc_tile(Mined(M), c)
  BY <1>8, MinesOfMined, SameMines
<1>10. ms_place_mines' = ms_place_mines
  BY <1>1 DEF ms_place_mines, MinesToPlace
<1>11. ASSUME NEW n \in Index
       PROVE  remap'[Cell(n)] = IF n < at + 1 THEN ms_inc_tile(Mined(M), Cell(n))
                                ELSE Mined(M)[Cell(n)]
  <2>1. Cell(n) \in Cells /\ (Cell(n) = Cell(at) => n = at)
    BY <1>4, CellIndex
  <2>2. n \in Int /\ at \in Int
    BY <1>2 DEF Index
  <2>3. remap[Cell(n)] = IF n < at THEN ms_inc_tile(Mined(M), Cell(n)) ELSE Mined(M)[Cell(n)]
    BY <1>3 DEF Counting
  <2>4. CASE n = at
    BY <1>5, <1>9, <2>1, <2>2, <2>4
  <2>5. CASE n # at
    BY <1>5, <2>1, <2>2, <2>3, <2>5
  <2> QED
    BY <2>4, <2>5
<1> QED
  BY <1>1, <1>3, <1>6, <1>7, <1>10, <1>11 DEF Counting

(* The loop over, the map is what ms_remap_show computes all at once. *)
LEMMA AllCounted ==
  ASSUME StepsInv, pc = "count", at = Size * Size
  PROVE  remap \in {ms_remap_show(Mined(M)) : M \in ms_place_mines}
<1> DEFINE M == MinesIn(remap)
<1>1. Counting /\ remap \in Map
  BY DEF StepsInv, TypeOKSteps, TypeOK, Map
<1>2. ASSUME NEW c \in Cells
      PROVE  remap[c] = ms_inc_tile(Mined(M), c)
  <2>1. PICK n \in Index : Cell(n) = c
    BY CellIndex
  <2>2. n < at
    BY Square DEF Index
  <2> QED
    BY <1>1, <2>1, <2>2 DEF Counting
<1>3. remap = ms_remap_show(Mined(M))
  BY <1>1, <1>2 DEF ms_remap_show, Map
<1>4. M \in ms_place_mines
  BY <1>1 DEF Counting
<1> QED
  BY <1>3, <1>4

(* What is in reach of a cursor that is on no mine: no mine is, and every  *)
(* blank cell there is part of the flood.                                  *)
LEMMA FloodReach ==
  ASSUME curs \in Cells, remap[curs] # MINE
  PROVE  /\ Flood \subseteq Blanks /\ Blanks \subseteq Cells /\ Reach \subseteq Cells
         /\ \A d \in Reach : remap[d] # MINE
         /\ \A d \in Reach \cap Blanks : d \in Flood
         /\ \A e \in Flood : Around(e) \subseteq Reach
<1>1. Blanks \subseteq Cells
  BY DEF Blanks, Blank, Unknown
<1>2. /\ Flood \subseteq Blanks
      /\ curs \in Blanks => curs \in Flood
      /\ \A e \in Flood : Around(e) \cap Blanks \subseteq Flood
  BY <1>1, RegionClosed DEF Flood
<1>3. \A d \in Reach : d = curs \/ \E e \in Flood : d \in Around(e)
  BY DEF Reach
<1>4. \A e \in Flood : Around(e) \subseteq Reach
  BY DEF Reach
<1>5. Reach \subseteq Cells
  BY <1>3 DEF Around
<1>6. ASSUME NEW d \in Reach
      PROVE  remap[d] # MINE
  <2>1. SUFFICES ASSUME NEW e \in Flood, d \in Around(e)
                 PROVE  remap[d] # MINE
    BY <1>3
  <2>2. e \in Cells /\ ms_inc_tile(remap, e) = ZERO
    BY <1>1, <1>2 DEF Blanks, Blank
  <2>3. Around(e) \cap MinesIn(remap) = {}
    BY <2>2, IncTile
  <2> QED
    BY <1>5, <2>1, <2>3 DEF MinesIn
<1>7. ASSUME NEW d \in Reach, d \in Blanks
      PROVE  d \in Flood
  BY <1>2, <1>3, <1>7
<1> QED
  BY <1>1, <1>2, <1>4, <1>5, <1>6, <1>7

(* A tile that is shown is no longer UNKNOWN. *)
LEMMA ShownKnown ==
  ASSUME NEW map, NEW c \in Cells
  PROVE  Shown(ms_inc_tile(map, c)) \in Tile /\ Shown(ms_inc_tile(map, c)) # UNKNOWN
BY IncTile DEF Shown, Tile, EMPTY, ZERO, EIGHT, MINE, UNKNOWN

(* A call that returns at once leaves nothing undone. *)
LEMMA OneReturned ==
  ASSUME StepsInv, pc = "reveal", RevealReturn
  PROVE  Revealing' /\ calls' \in Seq(Cells)
<1>1. /\ calls # <<>> /\ immap[Head(calls)] # UNKNOWN /\ calls' = Tail(calls)
      /\ UNCHANGED <<remap, immap, curs, before>>
  BY DEF RevealReturn, vars
<1>2. Revealing /\ calls \in Seq(Cells)
  BY DEF StepsInv, TypeOKSteps
<1>3. calls' \in Seq(Cells) /\ Range(calls) = {Head(calls)} \cup Range(calls')
  BY <1>1, <1>2, NextCall
<1>4. \A d : Seen(d) => Seen(d)'
  BY <1>1, <1>3 DEF Seen
<1>5. Blanks' = Blanks /\ Reach' = Reach /\ \A d \in Cells : Shows(d) => Shows(d)'
  BY <1>1 DEF Blanks, Reach, Flood, Shows
<1> QED
  BY <1>1, <1>2, <1>3, <1>4, <1>5 DEF Revealing

(* A call that shows a cell stays in reach, and calls for all that is      *)
(* around the cell when it is blank.                                       *)
LEMMA OneRevealed ==
  ASSUME StepsInv, pc = "reveal", RevealCell
  PROVE  Revealing' /\ calls' \in Seq(Cells) /\ immap' \in Map
<1> DEFINE c == Head(calls)
           tile == ms_inc_tile(remap, c)
           new == IF tile = ZERO THEN Recursion(c) ELSE <<>>
<1>1. /\ calls # <<>> /\ immap[c] = UNKNOWN
      /\ immap' = IF tile = MINE THEN immap ELSE [immap EXCEPT ![c] = Shown(tile)]
      /\ calls' = new \o Tail(calls)
      /\ UNCHANGED <<remap, curs, before>>
  BY DEF RevealCell
<1>2. /\ Revealing /\ calls \in Seq(Cells) /\ curs \in Cells
      /\ immap \in Map /\ before.immap \in Map
  BY DEF StepsInv, TypeOKSteps, TypeOK, Map
<1>3. c \in Cells /\ Tail(calls) \in Seq(Cells) /\ Range(calls) = {c} \cup Range(Tail(calls))
  BY <1>1, <1>2, NextCall
<1>4. /\ new \in Seq(Cells) /\ calls' \in Seq(Cells)
      /\ Range(calls') = Range(new) \cup Range(Tail(calls))
      /\ tile = ZERO => Range(new) = Around(c) \ {c}
      /\ tile # ZERO => Range(new) = {}
  <2>1. new \in Seq(Cells)
    BY <1>3, CallsAround
  <2>2. /\ tile = ZERO => Range(new) = Around(c) \ {c}
        /\ tile # ZERO => Range(new) = {}
    BY <1>3, CallsAround DEF Range
  <2> HIDE DEF new
  <2>3. calls' \in Seq(Cells)
    BY <1>1, <1>3, <2>1
  <2>4. \A s, t \in Seq(Cells) : Range(s \o t) = Range(s) \cup Range(t)
    BY RangeConcatenation
  <2>5. Range(new \o Tail(calls)) = Range(new) \cup Range(Tail(calls))
    BY <1>3, <2>1, <2>4
  <2> QED
    BY <1>1, <2>1, <2>2, <2>3, <2>5
<1> HIDE DEF c, new
<1>5. c \in Reach /\ remap[c] # MINE /\ tile # MINE
  BY <1>2, <1>3, FloodReach, IncTile DEF Revealing
<1>6. /\ immap' \in Map
      /\ \A d \in Cells : immap'[d] = IF d = c THEN Shown(tile) ELSE immap[d]
      /\ Shown(tile) # UNKNOWN
  <2>1. Shown(tile) \in Tile /\ Shown(tile) # UNKNOWN
    BY <1>3, ShownKnown
  <2> QED
    BY <1>1, <1>2, <1>3, <1>5, <2>1 DEF Map
<1>7. before.immap[c] = UNKNOWN
  <2>1. immap[c] # before.immap[c] => immap[c] = Shown(tile)
    BY <1>2, <1>3 DEF Revealing, Shows
  <2> QED
    BY <1>1, <1>6, <2>1
<1>8. c \in Blanks <=> tile = ZERO
  BY <1>3, <1>7 DEF Blanks, Blank, Unknown
<1>9. Range(calls') \subseteq Reach
  <2>1. tile = ZERO => Around(c) \subseteq Reach
    BY <1>2, <1>5, <1>8, FloodReach DEF Revealing
  <2> QED
    BY <1>2, <1>3, <1>4, <2>1 DEF Revealing
<1>10. Blanks' = Blanks /\ Reach' = Reach
  BY <1>1 DEF Blanks, Reach, Flood
<1>11. \A d \in Cells : Seen(d) => Seen(d)'
  BY <1>3, <1>4, <1>6 DEF Seen
<1>12. ASSUME NEW d \in Cells, immap'[d] # before.immap[d]
       PROVE  Shows(d)'
  <2>1. CASE d = c
    BY <1>1, <1>5, <1>6, <1>7, <1>10, <2>1 DEF Shows
  <2>2. CASE d # c
    BY <1>1, <1>2, <1>6, <1>10, <1>12, <2>2 DEF Shows, Revealing
  <2> QED
    BY <2>1, <2>2
<1>13. ASSUME NEW e \in Blanks, immap'[e] # UNKNOWN, NEW d \in Around(e)
       PROVE  Seen(d)'
  <2>1. e \in Cells /\ d \in Cells
    BY DEF Blanks, Blank, Unknown, Around
  <2>2. CASE e = c
    <3>1. d = c \/ d \in Range(calls')
      BY <1>4, <1>8, <1>13, <2>2
    <3> QED
      BY <1>3, <1>6, <3>1 DEF Seen
  <2>3. CASE e # c
    <3>1. immap[e] # UNKNOWN
      BY <1>6, <1>13, <2>1, <2>3
    <3>2. Seen(d)
      BY <1>2, <1>13, <3>1 DEF Revealing
    <3> QED
      BY <1>11, <2>1, <3>2
  <2> QED
    BY <2>2, <2>3
<1> QED
  BY <1>1, <1>2, <1>4, <1>6, <1>9, <1>10, <1>11, <1>12, <1>13 DEF Revealing

(* When no call is left, what is shown is the flood: the blank cells shown *)
(* are closed under stepping to the blank cells around, so that they are   *)
(* the whole region.                                                       *)
LEMMA AllRevealed ==
  ASSUME StepsInv, pc = "reveal", calls = <<>>
  PROVE  immap = ms_reveal_at(remap, before.immap, curs)
<1> DEFINE old == before.immap
           U == Uncovered(remap, old, curs)
           E == {e \in Blanks : immap[e] # UNKNOWN}
<1>1. Revealing /\ curs \in Cells /\ immap \in Map /\ old \in Map
  BY DEF StepsInv, TypeOKSteps, TypeOK, Map
<1>2. Range(calls) = {}
  BY DEF Range
<1>3. immap[curs] # UNKNOWN /\ \A e \in E : \A d \in Around(e) : immap[d] # UNKNOWN
  BY <1>1, <1>2 DEF Revealing, Seen
<1>4. Flood \subseteq E
  <2>1. SUFFICES ASSUME curs \in Blanks
                 PROVE  Region(Blanks, curs) \subseteq E
    BY DEF Flood
  <2>2. E \in SUBSET Blanks /\ curs \in E /\ \A e \in E : Around(e) \cap Blanks \subseteq E
    BY <1>3, <2>1
  <2> HIDE DEF E
  <2> QED
    BY <2>2 DEF Region
<1>5. ASSUME NEW d \in Reach
      PROVE  immap[d] # UNKNOWN
  BY <1>3, <1>4 DEF Reach
<1>6. \A d \in Cells : d \in U <=> d \in Reach /\ old[d] = UNKNOWN
  <2>1. \A d \in Cells : d \in Around(d)
    BY Square DEF Around, Near, Cells
  <2>2. CASE curs \in Blanks
    <3>1. Flood = Region(Blanks, curs) /\ curs \in Flood
      BY <1>1, <2>2, RegionClosed, FloodReach DEF Flood, Revealing
    <3>2. curs \in UNION {Around(e) : e \in Flood}
      BY <1>1, <2>1, <3>1
    <3>3. Reach = UNION {Around(e) : e \in Flood}
      BY <3>2 DEF Reach
    <3> QED
      BY <2>2, <3>1, <3>3 DEF Uncovered, Blanks, Unknown
  <2>3. CASE curs \notin Blanks
    <3>1. Reach = {curs}
      BY <2>3 DEF Reach, Flood
    <3> QED
      BY <2>3, <3>1 DEF Uncovered, Blanks, Unknown
  <2> QED
    BY <2>2, <2>3
<1>7. ASSUME NEW d \in Cells
      PROVE  immap[d] = IF d \in U /\ remap[d] # MINE
                        THEN Shown(ms_inc_tile(remap, d)) ELSE old[d]
  <2>1. immap[d] # old[d] => Shows(d)
    BY <1>1 DEF Revealing
  <2>2. CASE d \in U
    <3>1. immap[d] # old[d]
      BY <1>5, <1>6, <2>2
    <3> QED
      BY <2>1, <2>2, <3>1 DEF Shows
  <2>3. CASE d \notin U
    BY <1>6, <2>1, <2>3 DEF Shows
  <2> QED
    BY <2>2, <2>3
<1> HIDE DEF U
<1>8. immap = [d \in Cells |-> IF d \in U /\ remap[d] # MINE
                               THEN Shown(ms_inc_tile(remap, d)) ELSE old[d]]
  BY <1>1, <1>7 DEF Map
<1> QED
  BY <1>8 DEF ms_reveal_at, U

-----------------------------------------------------------------------------
(* Every step preserves the invariant. *)

LEMMA CheckWinStatus ==
  ASSUME NEW rm, NEW im, NEW st
  PROVE  ms_check_win(rm, im, st) \in {WIN, st}
BY DEF ms_check_win

(* What a handler leaves alone until it returns. *)
LEMMA SameLayouts ==
  ASSUME UNCHANGED <<curs, is_debug, mine_count, before>>
  PROVE  OldLayouts' = OldLayouts
BY DEF OldLayouts, ms_place_mines, MinesToPlace

LEMMA InitStepsInv == InitSteps => StepsInv
<1> SUFFICES ASSUME InitSteps
             PROVE  StepsInv
  OBVIOUS
<1>1. IInv
  BY InitInv DEF InitSteps
<1>2. TypeOK /\ Fresh(remap, immap)
  BY <1>1 DEF IInv, RemapCounted, Fresh, InitSteps, Init
<1>3. TypeOKSteps
  BY <1>2, Square DEF InitSteps, TypeOKSteps, TypeOK
<1>4. before \in [remap : Map, immap : Map, is_first : BOOLEAN]
  BY <1>2 DEF InitSteps, TypeOK, Map
<1> QED
  BY <1>2, <1>3, <1>4 DEF InitSteps, StepsInv

LEMMA MainStep ==
  ASSUME StepsInv, ReadKey \/ OtherKey
  PROVE  StepsInv'
<1>1. CASE ReadKey
  <2>1. TypeOKSteps'
    BY <1>1, Square DEF ReadKey, vars, StepsInv, TypeOKSteps, TypeOK
  <2>2. before' \in [remap : Map, immap : Map, is_first : BOOLEAN]
    BY <1>1 DEF ReadKey, StepsInv, TypeOKSteps, TypeOK, Map
  <2>3. CASE is_first
    <3>1. /\ pc' = "place" /\ status' = ONGOING /\ is_first' = TRUE
          /\ before'.is_first = TRUE /\ before'.remap = remap
          /\ before'.immap = immap /\ immap' = immap /\ remap' = remap
          /\ to_place' = mine_count /\ placed' = 0
          /\ mine_count' = mine_count
      BY <1>1, <2>3 DEF ReadKey, vars, StepsInv, TypeOKSteps, TypeOK
    <3>2. Fresh(remap, immap)
      BY <1>1, <2>3 DEF ReadKey, StepsInv
    <3>3. MinesIn(remap') = {} /\ remap' = Mined(MinesIn(remap'))
      <4>1. Uniform(ZERO) = Mined({})
        BY DEF Uniform, Mined
      <4> QED
        BY <3>1, <3>2, <4>1, MinesOfMined DEF Fresh
    <3>4. Placed'
      <4>1. Cardinality({}) = 0 /\ mine_count \in Nat
        BY FS_EmptySet DEF StepsInv, TypeOKSteps, TypeOK
      <4> QED
        BY <3>1, <3>3, <4>1 DEF Placed
    <3> QED
      BY <2>1, <2>2, <3>1, <3>2, <3>4 DEF StepsInv
  <2>4. CASE ~is_first
    <3>1. /\ pc' \in {"poke", "flag"} /\ status' = ONGOING /\ is_first' = FALSE
          /\ before'.is_first = FALSE /\ before'.remap = remap
          /\ before'.immap = immap /\ immap' = immap /\ remap' = remap
      BY <1>1, <2>4 DEF ReadKey, vars, StepsInv, TypeOKSteps, TypeOK
    <3>2. remap' \in OldLayouts'
      BY <3>1 DEF OldLayouts
    <3> QED
      BY <2>1, <2>2, <3>1, <3>2 DEF StepsInv
  <2> QED
    BY <2>3, <2>4
<1>2. CASE OtherKey
  <2>1. /\ pc = "main" /\ UNCHANGED <<loop, before>>
        /\ curs' \in Cells /\ status' \in {ONGOING, LOSE, WIN}
        /\ UNCHANGED <<remap, immap, is_first, is_debug, mine_count>>
    BY <1>2, CheckWinStatus
    DEF OtherKey, MoveCursor, Idle, Frozen, vars, StepsInv, TypeOKSteps, TypeOK
  <2>2. TypeOKSteps'
    BY <2>1 DEF loop, StepsInv, TypeOKSteps, TypeOK
  <2> QED
    BY <2>1, <2>2 DEF loop, StepsInv
<1> QED
  BY <1>1, <1>2

LEMMA PlaceStep ==
  ASSUME StepsInv, PlaceMine \/ PlaceDone
  PROVE  StepsInv'
<1>1. CASE PlaceMine
  <2>1. /\ pc = "place" /\ pc' = "place" /\ ~is_debug
        /\ UNCHANGED <<immap, curs, status, is_first, is_debug, mine_count,
                       handler, at, calls, before>>
    BY <1>1 DEF PlaceMine
  <2>2. Placed' /\ placed' \in 0 .. Size * Size - 1 /\ to_place' \in 0 .. mine_count
    BY <1>1, <2>1, OneMore
  <2>3. remap' \in [Cells -> Tile]
    BY <1>1 DEF PlaceMine, StepsInv, TypeOKSteps, TypeOK, Tile
  <2>4. TypeOKSteps'
    BY <2>1, <2>2, <2>3 DEF StepsInv, TypeOKSteps, TypeOK
  <2> QED
    BY <2>1, <2>2, <2>4 DEF StepsInv
<1>2. CASE PlaceDone
  <2>1. /\ pc = "place" /\ pc' = "count" /\ at' = 0
        /\ UNCHANGED <<curs, status, is_first, is_debug, mine_count,
                       handler, to_place, placed, calls, before>>
    BY <1>2 DEF PlaceDone
  <2>2. MinesIn(remap') \in ms_place_mines /\ remap' = Mined(MinesIn(remap'))
    BY <1>2, <2>1, AllPlaced
  <2>3. immap' = immap
    <3>1. CASE is_debug
      <4>1. immap = Uniform(UNKNOWN)
        BY <2>1 DEF StepsInv, Fresh
      <4> QED
        BY <1>2, <3>1, <4>1 DEF PlaceDone
    <3>2. CASE ~is_debug
      BY <1>2, <3>2 DEF PlaceDone
    <3> QED
      BY <3>1, <3>2
  <2>4. remap' \in Map
    <3>1. MinesIn(remap') \in SUBSET Cells
      BY DEF MinesIn
    <3> QED
      BY <2>2, <3>1, MinesOfMined
  <2>5. TypeOKSteps'
    BY <2>1, <2>3, <2>4, Square DEF StepsInv, TypeOKSteps, TypeOK, Map
  <2>6. Counting'
    <3>1. ms_place_mines' = ms_place_mines
      BY <2>1 DEF ms_place_mines, MinesToPlace
    <3>2. \A n \in Index : ~(n < at')
      BY <2>1, Square DEF Index
    <3>3. \A n \in Index : remap'[Cell(n)] = Mined(MinesIn(remap'))[Cell(n)]
      BY <2>2
    <3> QED
      BY <2>2, <3>1, <3>2, <3>3 DEF Counting
  <2> QED
    BY <2>1, <2>3, <2>5, <2>6 DEF StepsInv
<1> QED
  BY <1>1, <1>2

LEMMA CountStep ==
  ASSUME StepsInv, CountCell \/ CountDone
  PROVE  StepsInv'
<1>1. CASE CountCell
  <2>1. /\ pc = "count" /\ pc' = "count" /\ at < Size * Size /\ at' = at + 1
        /\ UNCHANGED <<immap, curs, status, is_first, is_debug, mine_count,
                       handler, to_place, placed, calls, before>>
    BY <1>1 DEF CountCell
  <2>2. Counting' /\ remap' \in Map
    BY <1>1, <2>1, OneCounted
  <2>3. at' \in 0 .. Size * Size
    BY <2>1, Square DEF StepsInv, TypeOKSteps
  <2>4. TypeOKSteps'
    BY <2>1, <2>2, <2>3 DEF StepsInv, TypeOKSteps, TypeOK, Map
  <2> QED
    BY <2>1, <2>2, <2>4 DEF StepsInv
<1>2. CASE CountDone
  <2>1. /\ pc = "count" /\ pc' = handler /\ at = Size * Size /\ at' = 0
        /\ is_first' = FALSE
        /\ UNCHANGED <<remap, immap, curs, status, is_debug, mine_count,
                       handler, to_place, placed, calls, before>>
    BY <1>2 DEF CountDone
  <2>2. TypeOKSteps' /\ pc' \in {"poke", "flag"}
    <3>1. handler \in {"poke", "flag"}
      BY DEF StepsInv, TypeOKSteps
    <3>2. at' \in 0 .. Size * Size
      BY <2>1, Square
    <3>3. TypeOK'
      BY <2>1 DEF StepsInv, TypeOKSteps, TypeOK
    <3> QED
      BY <2>1, <3>1, <3>2, <3>3 DEF StepsInv, TypeOKSteps
  <2>3. remap' \in OldLayouts'
    <3>1. remap \in OldLayouts
      BY <2>1, AllCounted DEF StepsInv, OldLayouts
    <3> QED
      BY <2>1, <3>1, SameLayouts
  <2> QED
    BY <2>1, <2>2, <2>3 DEF StepsInv
<1> QED
  BY <1>1, <1>2

(* The steps that end a handler, and the one that starts the recursion. *)
LEMMA KeyStep ==
  ASSUME StepsInv, FlagCell \/ Explode \/ Reveal
  PROVE  StepsInv'
<1>1. /\ pc \in {"poke", "flag"}
      /\ UNCHANGED <<remap, curs, is_first, is_debug, mine_count,
                     handler, to_place, placed, at, before>>
  BY DEF FlagCell, Explode, Reveal, vars
<1>2. /\ ~is_first /\ remap \in OldLayouts /\ immap = before.immap /\ status = ONGOING
      /\ curs \in Cells /\ immap \in Map
  BY <1>1 DEF StepsInv, TypeOKSteps, TypeOK, Map
<1>3. OldLayouts' = OldLayouts
  BY <1>1, SameLayouts
<1>4. CASE FlagCell
  <2>1. /\ pc' = "check" /\ immap' = [immap EXCEPT ![curs] = Toggled(@)]
        /\ UNCHANGED <<status, calls>>
    BY <1>4 DEF FlagCell
  <2>2. immap' \in Map
    <3>1. Toggled(immap[curs]) \in Tile
      BY <1>2 DEF Toggled, Map, Tile
    <3> QED
      BY <1>2, <2>1, <3>1 DEF Map
  <2>3. TypeOKSteps'
    BY <1>1, <2>1, <2>2 DEF StepsInv, TypeOKSteps, TypeOK, Map
  <2>4. Handled'
    BY <1>1, <1>2, <2>1 DEF Handled
  <2> QED
    BY <1>1, <1>2, <1>3, <2>1, <2>3, <2>4 DEF StepsInv
<1>5. CASE Explode
  <2>1. /\ pc' = "check" /\ status' = LOSE /\ remap[curs] = MINE
        /\ immap' = ms_show_mines(remap, immap)
        /\ UNCHANGED calls
    BY <1>5 DEF Explode
  <2>2. immap' \in Map
    BY <1>2, <2>1 DEF ms_show_mines, Map, Tile
  <2>3. TypeOKSteps'
    BY <1>1, <2>1, <2>2 DEF StepsInv, TypeOKSteps, TypeOK, Map
  <2>4. Handled'
    <3>1. immap' = ms_show_mines(remap, before.immap)'
      BY <1>1, <1>2, <2>1 DEF ms_show_mines
    <3> QED
      BY <1>1, <2>1, <3>1 DEF Handled
  <2> QED
    BY <1>1, <1>2, <1>3, <2>1, <2>3, <2>4 DEF StepsInv
<1>6. CASE Reveal
  <2>1. /\ pc' = "reveal" /\ remap[curs] # MINE /\ calls' = <<curs>>
        /\ UNCHANGED <<immap, status>>
    BY <1>6 DEF Reveal, vars
  <2>2. TypeOKSteps'
    BY <1>1, <1>2, <2>1 DEF StepsInv, TypeOKSteps, TypeOK
  <2>3. Range(calls') = {curs}
    BY <2>1 DEF Range
  <2>4. \A e \in Blanks' : immap'[e] = UNKNOWN
    BY <1>1, <1>2, <2>1 DEF Blanks, Blank, Unknown
  <2>5. Revealing'
    BY <1>1, <1>2, <2>1, <2>3, <2>4 DEF Revealing, Reach, Seen
  <2> QED
    BY <1>1, <1>2, <1>3, <2>1, <2>2, <2>5 DEF StepsInv
<1> QED
  BY <1>4, <1>5, <1>6

LEMMA RevealStep ==
  ASSUME StepsInv, RevealReturn \/ RevealCell \/ RevealDone
  PROVE  StepsInv'
<1>1. /\ pc = "reveal"
      /\ UNCHANGED <<remap, curs, status, is_first, is_debug, mine_count,
                     handler, to_place, placed, at, before>>
  BY DEF RevealReturn, RevealCell, RevealDone, vars
<1>2. OldLayouts' = OldLayouts
  BY <1>1, SameLayouts
<1>3. CASE RevealReturn \/ RevealCell
  <2>1. pc' = "reveal"
    BY <1>1, <1>3 DEF RevealReturn, RevealCell
  <2>2. Revealing' /\ calls' \in Seq(Cells) /\ immap' \in Map
    <3>1. RevealReturn => immap' \in Map
      BY DEF RevealReturn, vars, StepsInv, TypeOKSteps, TypeOK, Map
    <3> QED
      BY <1>1, <1>3, <3>1, OneReturned, OneRevealed
  <2>3. TypeOKSteps'
    BY <1>1, <2>1, <2>2 DEF StepsInv, TypeOKSteps, TypeOK, Map
  <2> QED
    BY <1>1, <1>2, <2>1, <2>2, <2>3 DEF StepsInv
<1>4. CASE RevealDone
  <2>1. pc' = "check" /\ calls = <<>> /\ UNCHANGED <<immap, calls>>
    BY <1>4 DEF RevealDone, vars
  <2>2. immap = ms_reveal_at(remap, before.immap, curs)
    BY <1>1, <2>1, AllRevealed
  <2>3. TypeOKSteps'
    BY <1>1, <2>1 DEF StepsInv, TypeOKSteps, TypeOK
  <2>4. Handled'
    BY <1>1, <2>1, <2>2 DEF Handled, StepsInv, Revealing
  <2> QED
    BY <1>1, <1>2, <2>1, <2>3, <2>4 DEF StepsInv
<1> QED
  BY <1>3, <1>4

LEMMA CheckStep ==
  ASSUME StepsInv, CheckWin
  PROVE  StepsInv'
<1>1. /\ pc = "check" /\ pc' = "main"
      /\ status' = ms_check_win(remap, immap, status)
      /\ UNCHANGED <<remap, immap, curs, is_first, is_debug, mine_count,
                     handler, to_place, placed, at, calls, before>>
  BY DEF CheckWin
<1>2. TypeOKSteps'
  <2>1. status' \in {WIN, status}
    BY <1>1, CheckWinStatus
  <2> QED
    BY <1>1, <2>1 DEF StepsInv, TypeOKSteps, TypeOK
<1> QED
  BY <1>1, <1>2 DEF StepsInv

LEMMA StepsStep == StepsInv /\ [NextSteps]_allvars => StepsInv'
<1> SUFFICES ASSUME StepsInv, [NextSteps]_allvars
             PROVE  StepsInv'
  OBVIOUS
<1>1. CASE UNCHANGED allvars
  <2>1. UNCHANGED <<remap, immap, curs, status, is_first, is_debug, mine_count, pc,
                    handler, to_place, placed, at, calls, before>>
    BY <1>1 DEF allvars, vars, loop
  <2>2. TypeOKSteps'
    BY <2>1 DEF StepsInv, TypeOKSteps, TypeOK
  <2>3. OldLayouts' = OldLayouts
    BY <2>1, SameLayouts
  <2>4. Placed => Placed'
    BY <2>1 DEF Placed
  <2>5. Counting => Counting'
    <3>1. ms_place_mines' = ms_place_mines
      BY <2>1 DEF ms_place_mines, MinesToPlace
    <3> QED
      BY <2>1, <3>1 DEF Counting
  <2>6. Revealing => Revealing'
    BY <2>1 DEF Revealing, Seen, Shows, Reach, Flood, Blanks
  <2>7. Handled => Handled'
    <3>1. ms_show_mines(remap, before.immap)' = ms_show_mines(remap, before.immap)
      BY <2>1 DEF ms_show_mines
    <3> QED
      BY <2>1, <3>1 DEF Handled
  <2> QED
    BY <2>1, <2>2, <2>3, <2>4, <2>5, <2>6, <2>7 DEF StepsInv
<1>2. PlaceAgain => UNCHANGED allvars
  BY DEF PlaceAgain
<1> QED
  BY <1>1, <1>2, MainStep, PlaceStep, CountStep, KeyStep, RevealStep, CheckStep
  DEF NextSteps, Handling

(* Every state of the handlers satisfies the inductive invariant.          *)
THEOREM StepsInvariance == SpecSteps => []StepsInv
<1>1. InitSteps => StepsInv
  BY InitStepsInv
<1>2. StepsInv /\ [NextSteps]_allvars => StepsInv'
  BY StepsStep
<1> QED
  BY <1>1, <1>2, PTL DEF SpecSteps

(* The loops never leave the board nor place more mines than it has room   *)
(* for, and the recursion makes no call off the board.                     *)
THEOREM StepsTypeCorrect == SpecSteps => []TypeOKSteps
<1>1. StepsInv => TypeOKSteps
  BY DEF StepsInv
<1> QED
  BY <1>1, StepsInvariance, PTL

-----------------------------------------------------------------------------
(* Seen from the main loop the steps are those of module Minesweeper. *)

LEMMA WholeInit == InitSteps => Whole!Init
<1> SUFFICES ASSUME InitSteps
             PROVE  Whole!Init
  OBVIOUS
<1>1. Init /\ pc = "main"
  BY DEF InitSteps
<1>2. Whole!Uniform(ZERO) = Uniform(ZERO) /\ Whole!Uniform(UNKNOWN) = Uniform(UNKNOWN)
  BY DEF Whole!Uniform, Uniform, Whole!Cells, Cells
<1> QED
  BY <1>1, <1>2
  DEF Init, Whole!Init, Outside, Whole!ZERO, ZERO, Whole!UNKNOWN, UNKNOWN,
      Whole!ONGOING, ONGOING

(* A step inside a handler is not seen. *)
LEMMA Unseen ==
  ASSUME StepsInv,
         \/ ReadKey
         \/ Handling /\ ~CheckWin
         \/ UNCHANGED allvars
  PROVE  UNCHANGED Whole!vars
<1>1. CASE UNCHANGED allvars
  BY <1>1 DEF allvars, vars, loop, Whole!vars, Outside
<1>2. CASE ReadKey
  <2>1. /\ pc = "main" /\ pc' # "main" /\ status = ONGOING
        /\ before' = [remap |-> remap, immap |-> immap, is_first |-> is_first]
        /\ UNCHANGED <<curs, is_debug, mine_count>>
    BY <1>2 DEF ReadKey, vars
  <2> QED
    BY <2>1 DEF Whole!vars, Outside
<1>3. CASE Handling /\ ~CheckWin
  <2>1. pc # "main" /\ pc' # "main" /\ UNCHANGED <<curs, is_debug, mine_count, before>>
    BY <1>3
    DEF Handling, PlaceMine, PlaceDone, CountCell, CountDone, FlagCell, Explode,
        Reveal, RevealReturn, RevealCell, RevealDone, vars, StepsInv, TypeOKSteps
  <2> QED
    BY <2>1 DEF Whole!vars, Outside
<1> QED
  BY <1>1, <1>2, <1>3

(* The other keys do there what they do here. *)
LEMMA WholeOther ==
  ASSUME OtherKey
  PROVE  Whole!MoveCursor \/ Whole!Idle \/ Whole!Frozen
<1>1. pc = "main" /\ pc' = "main" /\ (MoveCursor \/ Idle \/ Frozen)
  BY DEF OtherKey, loop
<1>2. Whole!ms_check_win(remap, immap, status) = ms_check_win(remap, immap, status)
  BY DEF Whole!ms_check_win, ms_check_win, Whole!Cells, Cells, Whole!UNKNOWN, UNKNOWN,
         Whole!MINE, MINE, Whole!FLAGGED, FLAGGED, Whole!WIN, WIN
<1>3. CASE MoveCursor
  BY <1>1, <1>2, <1>3
  DEF MoveCursor, Whole!MoveCursor, Outside, Whole!ONGOING, ONGOING,
      Whole!Cells, Cells, Whole!Left, Left, Whole!Right, Right, Whole!Up, Up, Whole!Down, Down
<1>4. CASE Idle
  BY <1>1, <1>2, <1>4 DEF Idle, Whole!Idle, Outside, Whole!ONGOING, ONGOING
<1>5. CASE Frozen
  BY <1>1, <1>5 DEF Frozen, Whole!Frozen, Outside, Whole!ONGOING, ONGOING, vars, Whole!vars
<1> QED
  BY <1>1, <1>3, <1>4, <1>5

(* The operators of the board, and those that read only what a handler     *)
(* leaves alone, are the same seen from the main loop.                     *)
LEMMA SameBoard ==
  /\ \A rm, c : Whole!ms_inc_tile(rm, c) = ms_inc_tile(rm, c)
  /\ \A rm : Whole!ms_remap_show(rm) = ms_remap_show(rm)
  /\ \A M : Whole!Mined(M) = Mined(M)
  /\ Whole!ms_place_mines = ms_place_mines
  /\ \A rm, im, c : Whole!ms_reveal_at(rm, im, c) = ms_reveal_at(rm, im, c)
  /\ \A rm, im : Whole!ms_show_mines(rm, im) = ms_show_mines(rm, im)
  /\ \A rm, im, st : Whole!ms_check_win(rm, im, st) = ms_check_win(rm, im, st)
  /\ \A t : Whole!Toggled(t) = Toggled(t)
<1>0. \A S : Whole!Cardinality(S) = Cardinality(S)
  BY Zenon DEF Whole!Cardinality, Cardinality
<1>1. /\ Whole!Cells = Cells /\ Whole!MINE = MINE /\ Whole!ZERO = ZERO
      /\ Whole!UNKNOWN = UNKNOWN /\ Whole!EMPTY = EMPTY
      /\ Whole!FLAGGED = FLAGGED /\ Whole!ERROR = ERROR /\ Whole!WIN = WIN
  BY DEF Whole!Cells, Cells, Whole!MINE, MINE, Whole!ZERO, ZERO, Whole!UNKNOWN, UNKNOWN,
         Whole!EMPTY, EMPTY, Whole!FLAGGED, FLAGGED, Whole!ERROR, ERROR, Whole!WIN, WIN
<1>2. /\ \A c : Whole!Around(c) = Around(c)
      /\ \A map : Whole!MinesIn(map) = MinesIn(map)
  BY <1>1 DEF Whole!Around, Around, Whole!Near, Near, Whole!MinesIn, MinesIn
<1>3. \A rm, c : Whole!ms_inc_tile(rm, c) = ms_inc_tile(rm, c)
  <2> TAKE rm, c
  <2>1. Whole!Around(c) \cap Whole!MinesIn(rm) = Around(c) \cap MinesIn(rm)
    BY <1>2
  <2> QED
    BY <1>0, <1>1, <2>1, Zenon DEF Whole!ms_inc_tile, ms_inc_tile
<1>4. \A rm : Whole!ms_remap_show(rm) = ms_remap_show(rm)
  BY <1>1, <1>3 DEF Whole!ms_remap_show, ms_remap_show
<1>5. \A M : Whole!Mined(M) = Mined(M)
  BY <1>1 DEF Whole!Mined, Mined
<1>6. Whole!ms_place_mines = ms_place_mines
  <2>1. Whole!MinesToPlace = MinesToPlace /\ Whole!TestPattern = TestPattern
    BY DEF Whole!MinesToPlace, MinesToPlace, Whole!TestPattern, TestPattern
  <2> QED
    BY <1>0, <1>1, <2>1, Zenon DEF Whole!ms_place_mines, ms_place_mines
<1>7. /\ \A im : Whole!Unknown(im) = Unknown(im)
      /\ \A rm, im : Whole!Blank(rm, im) = Blank(rm, im)
  BY <1>1, <1>3 DEF Whole!Unknown, Unknown, Whole!Blank, Blank
<1>8. \A B, c : Whole!Region(B, c) = Region(B, c)
  BY <1>2 DEF Whole!Region, Region
<1>9. \A rm, im, c : Whole!Uncovered(rm, im, c) = Uncovered(rm, im, c)
  BY <1>2, <1>7, <1>8 DEF Whole!Uncovered, Uncovered
<1>10. \A rm, im, c : Whole!ms_reveal_at(rm, im, c) = ms_reveal_at(rm, im, c)
  <2>1. \A t : Whole!Shown(t) = Shown(t)
    BY <1>1 DEF Whole!Shown, Shown
  <2> QED
    BY <1>1, <1>3, <1>9, <2>1 DEF Whole!ms_reveal_at, ms_reveal_at
<1>11. \A rm, im : Whole!ms_show_mines(rm, im) = ms_show_mines(rm, im)
  BY <1>1 DEF Whole!ms_show_mines, ms_show_mines
<1>12. \A rm, im, st : Whole!ms_check_win(rm, im, st) = ms_check_win(rm, im, st)
  BY <1>1 DEF Whole!ms_check_win, ms_check_win
<1>13. \A t : Whole!Toggled(t) = Toggled(t)
  BY <1>1 DEF Whole!Toggled, Toggled
<1> QED
  BY <1>3, <1>4, <1>5, <1>6, <1>10, <1>11, <1>12, <1>13

(* With ms_check_win the iteration ends, and what it did all in all is one *)
(* step of Minesweeper: a poke on a mine, a poke elsewhere, or a flag.     *)
LEMMA WholeHandler ==
  ASSUME StepsInv, CheckWin
  PROVE  Whole!PokeMine \/ Whole!PokeSafe \/ Whole!Flag
<1>1. /\ pc = "check" /\ pc' = "main"
      /\ status' = ms_check_win(remap, immap, status)
      /\ UNCHANGED <<remap, immap, curs, is_first, is_debug, mine_count>>
  BY DEF CheckWin
<1>2. /\ ~is_first /\ is_first \in BOOLEAN /\ remap \in OldLayouts /\ Handled
  BY <1>1 DEF StepsInv, TypeOKSteps, TypeOK
<1> DEFINE rm0 == Outside(remap, before.remap)
           im0 == Outside(immap, before.immap)
           first0 == Outside(is_first, before.is_first)
           st0 == Outside(status, ONGOING)
<1>3. /\ rm0 = before.remap /\ im0 = before.immap /\ first0 = before.is_first
      /\ st0 = ONGOING
      /\ rm0' = remap /\ im0' = immap /\ first0' = FALSE /\ st0' = status'
  BY <1>1, <1>2 DEF Outside
<1>4. Whole!Layouts = OldLayouts
  BY <1>1, SameBoard DEF Whole!Layouts, OldLayouts, Outside
<1>5. Whole!ONGOING = ONGOING /\ Whole!LOSE = LOSE /\ Whole!MINE = MINE
  BY DEF Whole!ONGOING, ONGOING, Whole!LOSE, LOSE, Whole!MINE, MINE
<1>6. /\ Whole!ms_show_mines(remap, before.immap) = ms_show_mines(remap, before.immap)
      /\ Whole!ms_reveal_at(remap, before.immap, curs) = ms_reveal_at(remap, before.immap, curs)
      /\ \A st : Whole!ms_check_win(remap, immap, st) = ms_check_win(remap, immap, st)
      /\ \A t : Whole!Toggled(t) = Toggled(t)
  BY SameBoard
<1> HIDE DEF rm0, im0, first0, st0
<1>7. CASE /\ status = LOSE /\ remap[curs] = MINE
           /\ immap = ms_show_mines(remap, before.immap)
  <2>1. Whole!PokeMine
    BY <1>1, <1>2, <1>3, <1>4, <1>5, <1>6, <1>7
    DEF Whole!PokeMine, rm0, im0, first0, st0
  <2> QED
    BY <2>1
<1>8. CASE /\ status = ONGOING /\ remap[curs] # MINE
           /\ immap = ms_reveal_at(remap, before.immap, curs)
  <2>1. Whole!PokeSafe
    BY <1>1, <1>2, <1>3, <1>4, <1>5, <1>6, <1>8
    DEF Whole!PokeSafe, rm0, im0, first0, st0
  <2> QED
    BY <2>1
<1>9. CASE /\ status = ONGOING
           /\ immap = [before.immap EXCEPT ![curs] = Toggled(@)]
  <2>1. Whole!Flag
    BY <1>1, <1>2, <1>3, <1>4, <1>5, <1>6, <1>9
    DEF Whole!Flag, rm0, im0, first0, st0
  <2> QED
    BY <2>1
<1> QED
  BY <1>2, <1>7, <1>8, <1>9 DEF Handled

LEMMA WholeStep == StepsInv /\ [NextSteps]_allvars => [Whole!Next]_(Whole!vars)
<1> SUFFICES ASSUME StepsInv, [NextSteps]_allvars
             PROVE  Whole!Next \/ UNCHANGED Whole!vars
  OBVIOUS
<1>1. CASE OtherKey
  BY <1>1, WholeOther DEF Whole!Next
<1>2. CASE CheckWin
  BY <1>2, WholeHandler DEF Whole!Next
<1>3. CASE ReadKey \/ (Handling /\ ~CheckWin) \/ UNCHANGED allvars
  BY <1>3, Unseen
<1>4. PlaceAgain => UNCHANGED allvars
  BY DEF PlaceAgain
<1>5. Handling => CheckWin \/ (Handling /\ ~CheckWin)
  OBVIOUS
<1> QED
  BY <1>1, <1>2, <1>3, <1>4, <1>5 DEF NextSteps

(* The handlers, run step by step, implement the iterations of the main    *)
(* loop: the placing loop leaves a set of mines that may be asked for, the *)
(* counting loop over the map it writes gives the counts of the map it     *)
(* started from, the recursion uncovers the whole blank region around the  *)
(* cursor and nothing else.                                                *)
THEOREM StepsImplementWhole == SpecSteps => ImplementsWhole
<1>1. InitSteps => Whole!Init
  BY WholeInit
<1>2. StepsInv /\ [NextSteps]_allvars => [Whole!Next]_(Whole!vars)
  BY WholeStep
<1> QED
  BY <1>1, <1>2, StepsInvariance, PTL DEF SpecSteps, ImplementsWhole, Whole!Spec

-----------------------------------------------------------------------------
(* A handler comes to its end.  StepsLeft is how many steps of it are left *)
(* at the most, the tries of rand() that hit a taken cell aside: one for   *)
(* each mine still to be placed and each cell still to be counted, and in  *)
(* the recursion one for each call still to be made and eight for each     *)
(* hidden cell, which makes eight calls at the most when it is shown.      *)

Hidden == Cardinality(Unknown(immap))

StepsLeft ==
  CASE pc = "main"             -> 0
    [] pc = "check"            -> 1
    [] pc = "reveal"           -> 2 + Len(calls) + 8 * Hidden
    [] pc \in {"poke", "flag"} -> 4 + 8 * (Size * Size)
    [] pc = "count"            -> 5 + 8 * (Size * Size) + (Size * Size - at)
    [] OTHER                   -> 6 + 9 * (Size * Size) + to_place

(* A blank cell makes eight calls at the most. *)
LEMMA EightCalls ==
  ASSUME NEW c \in Cells
  PROVE  Len(Recursion(c)) \in 0 .. 8
<1>1. ASSUME NEW s \in Seq(Cells), NEW d
      PROVE  /\ s \o Call(d) \in Seq(Cells)
             /\ Len(s \o Call(d)) \in {Len(s), Len(s) + 1}
  <2>1. Call(d) \in Seq(Cells) /\ Len(Call(d)) \in {0, 1}
    BY DEF Call
  <2>2. s \o Call(d) \in Seq(Cells) /\ Len(s \o Call(d)) = Len(s) + Len(Call(d))
    BY <2>1
  <2>3. Len(s) + 0 = Len(s)
    OBVIOUS
  <2> QED
    BY <2>1, <2>2, <2>3
<1> DEFINE s1 == Call(<<c[1], c[2] - 1>>)
           s2 == s1 \o Call(<<c[1] + 1, c[2] - 1>>)
           s3 == s2 \o Call(<<c[1] + 1, c[2]>>)
           s4 == s3 \o Call(<<c[1] + 1, c[2] + 1>>)
           s5 == s4 \o Call(<<c[1], c[2] + 1>>)
           s6 == s5 \o Call(<<c[1] - 1, c[2] + 1>>)
           s7 == s6 \o Call(<<c[1] - 1, c[2]>>)
           s8 == s7 \o Call(<<c[1] - 1, c[2] - 1>>)
<1>2. Recursion(c) = s8
  BY DEF Recursion
<1>3. s1 \in Seq(Cells) /\ Len(s1) \in {0, 1}
  BY DEF Call
<1> HIDE DEF s1
<1>4. s2 \in Seq(Cells) /\ Len(s2) \in {Len(s1), Len(s1) + 1}
  BY <1>1, <1>3
<1> HIDE DEF s2
<1>5. s3 \in Seq(Cells) /\ Len(s3) \in {Len(s2), Len(s2) + 1}
  BY <1>1, <1>4
<1> HIDE DEF s3
<1>6. s4 \in Seq(Cells) /\ Len(s4) \in {Len(s3), Len(s3) + 1}
  BY <1>1, <1>5
<1> HIDE DEF s4
<1>7. s5 \in Seq(Cells) /\ Len(s5) \in {Len(s4), Len(s4) + 1}
  BY <1>1, <1>6
<1> HIDE DEF s5
<1>8. s6 \in Seq(Cells) /\ Len(s6) \in {Len(s5), Len(s5) + 1}
  BY <1>1, <1>7
<1> HIDE DEF s6
<1>9. s7 \in Seq(Cells) /\ Len(s7) \in {Len(s6), Len(s6) + 1}
  BY <1>1, <1>8
<1> HIDE DEF s7
<1>10. s8 \in Seq(Cells) /\ Len(s8) \in {Len(s7), Len(s7) + 1}
  BY <1>1, <1>9
<1> HIDE DEF s8
<1> DEFINE n1 == Len(s1)
           n2 == Len(s2)
           n3 == Len(s3)
           n4 == Len(s4)
           n5 == Len(s5)
           n6 == Len(s6)
           n7 == Len(s7)
           n8 == Len(s8)
<1>11. n1 \in {0, 1} /\ n2 \in {n1, n1 + 1} /\ n3 \in {n2, n2 + 1} /\ n4 \in {n3, n3 + 1}
  BY <1>3, <1>4, <1>5, <1>6
<1>12. n5 \in {n4, n4 + 1} /\ n6 \in {n5, n5 + 1} /\ n7 \in {n6, n6 + 1} /\ n8 \in {n7, n7 + 1}
  BY <1>7, <1>8, <1>9, <1>10
<1>13. n8 \in 0 .. 8
  <2> HIDE DEF n1, n2, n3, n4, n5, n6, n7, n8
  <2> QED
    BY <1>11, <1>12
<1> QED
  BY <1>2, <1>13

(* The hidden cells can be counted, and there are no more than cells.      *)
LEMMA HiddenCells ==
  /\ IsFiniteSet(Unknown(immap))
  /\ Hidden \in 0 .. Size * Size
<1>1. Unknown(immap) \in SUBSET Cells
  BY DEF Unknown
<1>2. Cardinality(Unknown(immap)) <= Cardinality(Cells)
  BY <1>1, CellsFinite, FS_Subset
<1>3. IsFiniteSet(Unknown(immap)) /\ Hidden \in Nat
  BY <1>1, CellsFinite DEF Hidden
<1> QED
  BY <1>2, <1>3, CellsFinite, Square DEF Hidden

LEMMA StepsLeftNatural == StepsInv => StepsLeft \in Nat
<1> SUFFICES ASSUME StepsInv
             PROVE  StepsLeft \in Nat
  OBVIOUS
<1> DEFINE N == Size * Size
<1>1. N \in Nat /\ Hidden \in Nat
  BY Square, HiddenCells
<1>2. /\ at \in 0 .. N /\ to_place \in 0 .. mine_count /\ mine_count \in Nat
      /\ calls \in Seq(Cells)
      /\ pc \in {"main", "place", "count", "poke", "flag", "reveal", "check"}
  BY DEF StepsInv, TypeOKSteps, TypeOK
<1>3. Len(calls) \in Nat
  BY <1>2
<1>4. /\ 4 + 8 * N \in Nat
      /\ 2 + Len(calls) + 8 * Hidden \in Nat
      /\ 5 + 8 * N + (N - at) \in Nat
      /\ 6 + 9 * N + to_place \in Nat
  <2> HIDE DEF N
  <2> QED
    BY <1>1, <1>2, <1>3
<1> QED
  BY <1>4 DEF StepsLeft

(* A cell that a call shows is hidden no longer. *)
LEMMA OneLessHidden ==
  ASSUME StepsInv, RevealCell
  PROVE  /\ Hidden' = Hidden - 1
         /\ Len(calls') <= Len(calls) + 7
<1> DEFINE c == Head(calls)
           tile == ms_inc_tile(remap, c)
           new == IF tile = ZERO THEN Recursion(c) ELSE <<>>
<1>1. /\ pc = "reveal" /\ calls # <<>> /\ immap[c] = UNKNOWN
      /\ immap' = IF tile = MINE THEN immap ELSE [immap EXCEPT ![c] = Shown(tile)]
      /\ calls' = new \o Tail(calls)
  BY DEF RevealCell
<1>2. Revealing /\ calls \in Seq(Cells) /\ curs \in Cells /\ immap \in Map
  BY <1>1 DEF StepsInv, TypeOKSteps, TypeOK, Map
<1>3. /\ c \in Cells /\ Tail(calls) \in Seq(Cells)
      /\ Range(calls) = {c} \cup Range(Tail(calls))
      /\ Len(calls) \in Nat /\ Len(Tail(calls)) = Len(calls) - 1
  <2>1. c \in Cells /\ Tail(calls) \in Seq(Cells) /\ Range(calls) = {c} \cup Range(Tail(calls))
    BY <1>1, <1>2, NextCall
  <2>2. Len(calls) \in Nat /\ Len(Tail(calls)) = Len(calls) - 1
    BY <1>1, <1>2
  <2> QED
    BY <2>1, <2>2
<1>4. new \in Seq(Cells) /\ Len(new) \in 0 .. 8
  BY <1>3, CallsAround, EightCalls
<1> HIDE DEF new
<1>5. Len(calls') = Len(new) + Len(Tail(calls))
  BY <1>1, <1>3, <1>4
<1> HIDE DEF c
<1>6. tile # MINE
  BY <1>2, <1>3, FloodReach, IncTile DEF Revealing
<1>7. Unknown(immap)' = Unknown(immap) \ {c} /\ c \in Unknown(immap)
  <2>1. Shown(tile) # UNKNOWN
    BY <1>3, ShownKnown
  <2>2. \A d \in Cells : immap'[d] = IF d = c THEN Shown(tile) ELSE immap[d]
    BY <1>1, <1>2, <1>3, <1>6 DEF Map
  <2> QED
    BY <1>1, <1>3, <2>1, <2>2 DEF Unknown
<1>8. Hidden' = Hidden - 1
  BY <1>7, HiddenCells, FS_RemoveElement DEF Hidden
<1>9. Len(calls') <= Len(calls) + 7
  <2> DEFINE made == Len(new)
             rest == Len(Tail(calls))
             all  == Len(calls)
  <2>1. made \in 0 .. 8 /\ all \in Nat /\ rest = all - 1
    BY <1>3, <1>4
  <2>2. Len(calls') = made + rest
    BY <1>5
  <2> HIDE DEF made, rest, all
  <2>3. made + rest <= all + 7
    BY <2>1
  <2> QED
    BY <2>2, <2>3 DEF all
<1> QED
  BY <1>8, <1>9

LEMMA OneStepLess ==
  ASSUME StepsInv, Handling
  PROVE  StepsLeft' < StepsLeft
<1> DEFINE N == Size * Size
<1>1. N \in Nat /\ Hidden \in 0 .. N
  BY Square, HiddenCells
<1>2. /\ at \in 0 .. N /\ to_place \in 0 .. mine_count /\ mine_count \in Nat
      /\ calls \in Seq(Cells) /\ handler \in {"poke", "flag"}
  BY DEF StepsInv, TypeOKSteps, TypeOK
<1>3. Len(calls) \in Nat
  BY <1>2
<1>4. CASE PlaceMine
  <2>1. pc = "place" /\ pc' = "place" /\ to_place' = to_place - 1
    BY <1>4 DEF PlaceMine
  <2> HIDE DEF N
  <2> QED
    BY <1>1, <1>2, <2>1 DEF StepsLeft, N
<1>5. CASE PlaceDone
  <2>1. pc = "place" /\ pc' = "count" /\ at' = 0
    BY <1>5 DEF PlaceDone
  <2>2. StepsLeft = 6 + 9 * N + to_place /\ StepsLeft' = 5 + 8 * N + (N - 0)
    BY <2>1 DEF StepsLeft
  <2> HIDE DEF N
  <2> QED
    BY <1>1, <1>2, <2>2
<1>6. CASE CountCell
  <2>1. pc = "count" /\ pc' = "count" /\ at' = at + 1
    BY <1>6 DEF CountCell
  <2>2. StepsLeft = 5 + 8 * N + (N - at) /\ StepsLeft' = 5 + 8 * N + (N - (at + 1))
    BY <2>1 DEF StepsLeft
  <2> HIDE DEF N
  <2> QED
    BY <1>1, <1>2, <2>2
<1>7. CASE CountDone
  <2>1. pc = "count" /\ at = N /\ pc' \in {"poke", "flag"}
    BY <1>2, <1>7 DEF CountDone
  <2>2. StepsLeft = 5 + 8 * N + (N - at) /\ StepsLeft' = 4 + 8 * N
    BY <2>1 DEF StepsLeft
  <2> HIDE DEF N
  <2> QED
    BY <1>1, <2>1, <2>2
<1>8. CASE FlagCell \/ Explode
  <2>1. pc \in {"poke", "flag"} /\ pc' = "check"
    BY <1>8 DEF FlagCell, Explode
  <2>2. StepsLeft = 4 + 8 * N /\ StepsLeft' = 1
    BY <2>1 DEF StepsLeft
  <2> HIDE DEF N
  <2> QED
    BY <1>1, <2>2
<1>9. CASE Reveal
  <2>1. pc = "poke" /\ pc' = "reveal" /\ calls' = <<curs>> /\ immap' = immap
    BY <1>9 DEF Reveal, vars
  <2>2. Len(calls') = 1 /\ Hidden' = Hidden
    BY <2>1 DEF Hidden, Unknown
  <2>3. StepsLeft = 4 + 8 * N /\ StepsLeft' = 2 + 1 + 8 * Hidden
    BY <2>1, <2>2 DEF StepsLeft
  <2> HIDE DEF N
  <2> QED
    BY <1>1, <2>3
<1>10. CASE RevealReturn
  <2>1. pc = "reveal" /\ pc' = "reveal" /\ calls # <<>> /\ calls' = Tail(calls) /\ immap' = immap
    BY <1>10 DEF RevealReturn, vars
  <2>2. Len(calls') = Len(calls) - 1
    BY <1>2, <2>1
  <2>3. Hidden' = Hidden
    BY <2>1 DEF Hidden, Unknown
  <2>4. /\ StepsLeft = 2 + Len(calls) + 8 * Hidden
        /\ StepsLeft' = 2 + (Len(calls) - 1) + 8 * Hidden
    BY <2>1, <2>2, <2>3 DEF StepsLeft
  <2> HIDE DEF N
  <2> QED
    BY <1>1, <1>3, <2>4
<1>11. CASE RevealCell
  <2>1. pc = "reveal" /\ pc' = "reveal"
    BY <1>11 DEF RevealCell
  <2>2. Hidden' = Hidden - 1 /\ Len(calls') <= Len(calls) + 7
    BY <1>11, OneLessHidden
  <2>3. Len(calls') \in Nat
    <3>1. calls' \in Seq(Cells)
      BY <1>11, <2>1, OneRevealed
    <3> QED
      BY <3>1
  <2>4. /\ StepsLeft = 2 + Len(calls) + 8 * Hidden
        /\ StepsLeft' = 2 + Len(calls') + 8 * (Hidden - 1)
    BY <2>1, <2>2 DEF StepsLeft
  <2> HIDE DEF N
  <2> QED
    BY <1>1, <1>3, <2>2, <2>3, <2>4
<1>12. CASE RevealDone
  <2>1. pc = "reveal" /\ pc' = "check"
    BY <1>12 DEF RevealDone
  <2>2. StepsLeft = 2 + Len(calls) + 8 * Hidden /\ StepsLeft' = 1
    BY <2>1 DEF StepsLeft
  <2> HIDE DEF N
  <2> QED
    BY <1>1, <1>3, <2>2
<1>13. CASE CheckWin
  <2>1. pc = "check" /\ pc' = "main"
    BY <1>13 DEF CheckWin
  <2> QED
    BY <2>1 DEF StepsLeft
<1> QED
  BY <1>4, <1>5, <1>6, <1>7, <1>8, <1>9, <1>10, <1>11, <1>12, <1>13 DEF Handling

(* Every step of a handler is one of finitely many: the loop of            *)
(* ms_place_mines counts to its limit, that of ms_remap_show to the last   *)
(* cell, and the recursion of ms_reveal_at, which calls itself for cells   *)
(* that call it back, runs out of hidden cells.                            *)
THEOREM HandlersCountDown ==
  SpecSteps => [][Handling => StepsLeft \in Nat /\ StepsLeft' < StepsLeft]_allvars
<1>1. StepsInv /\ [NextSteps]_allvars
        => [Handling => StepsLeft \in Nat /\ StepsLeft' < StepsLeft]_allvars
  BY StepsLeftNatural, OneStepLess
<1> QED
  BY <1>1, StepsInvariance, PTL DEF SpecSteps

(* While ms_place_mines asks rand() for a cell there is one that takes a   *)
(* mine: the loop that tries again is not asked for the impossible, however *)
(* many mines were ordered.                                                *)
THEOREM AFreeCellIsLeft ==
  SpecSteps => [](pc = "place" /\ ~is_debug /\ Placing
                    => \E c \in Cells \ {curs} : remap[c] # MINE)
<1>1. ASSUME StepsInv, pc = "place", ~is_debug, Placing
      PROVE  \E c \in Cells \ {curs} : remap[c] # MINE
  <2> DEFINE M == MinesIn(remap)
  <2>1. M \in SUBSET Cells /\ curs \in Cells /\ curs \notin M /\ Cardinality(M) = placed
    BY <1>1 DEF StepsInv, TypeOKSteps, TypeOK, Placed, MinesIn
  <2>2. placed \in Nat /\ placed + 1 < Size * Size
    BY <1>1, Square DEF StepsInv, TypeOKSteps, Placing
  <2>3. IsFiniteSet(M) /\ \A c \in Cells : c \notin M => remap[c] # MINE
    BY <2>1, CellsFinite DEF MinesIn
  <2> HIDE DEF M
  <2>4. Cardinality(M \cup {curs}) = placed + 1
    BY <2>1, <2>2, <2>3, FS_AddElement
  <2>5. M \cup {curs} # Cells
    BY <2>2, <2>4, CellsFinite, Square
  <2> QED
    BY <2>1, <2>3, <2>5
<1> QED
  BY <1>1, StepsInvariance, PTL

=============================================================================
