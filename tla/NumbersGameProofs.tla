------------------------- MODULE NumbersGameProofs -------------------------
(***************************************************************************)
(* Any number of processes that play, fail and crash leave a data.sav that *)
(* holds less than a game or a coherent one.                               *)
(***************************************************************************)
EXTENDS NumbersGame, SequenceTheorems, TLAPS

GameType == [score : Int, game_count : Int, boundary : Int, number : Int]

(* A process that makes a new game was given a boundary for it. *)
ArgsParsed ==
  \A p \in Procs : /\ pc[p] = "new" => args[p].boundary \in Boundaries
                   /\ args[p].guess \in Nat

IInv ==
  /\ TypeOK
  /\ ArgsParsed
  /\ SavedGameCoherent
  /\ EngineReady
  /\ CorruptExplained

-----------------------------------------------------------------------------

(* A game is read back as it was written. *)
LEMMA ReadBack ==
  ASSUME NEW g \in [score : Nat, game_count : Nat, boundary : Nat, number : Nat]
  PROVE  /\ Abs!Words(g) \in Seq(Nat)
         /\ Len(Abs!Words(g)) = 4
         /\ Abs!Words(g) # <<>>
         /\ Abs!Parsed(Abs!Words(g)) = g
  BY DEF Abs!Words, Abs!Parsed

(* A coherent game has the type of a game, and stays coherent as guesses   *)
(* are made.                                                               *)
LEMMA CoherentType ==
  ASSUME NEW g \in GameType,
         Coherent(g), plays \in Nat, hits \in Nat
  PROVE  g \in [score : Nat, game_count : Nat, boundary : Nat, number : Nat]
  BY OptionsAssumption DEF Coherent, GameType

(* A new game is coherent. *)
LEMMA NewCoherent ==
  ASSUME NEW b \in Boundaries, NEW g \in Abs!NewGames(b), plays \in Nat, hits \in Nat
  PROVE  /\ g \in GameType
         /\ Coherent(g)
<1>1. PICK n \in 1 .. b : g = [score |-> 0, game_count |-> 0, boundary |-> b, number |-> n]
  BY DEF Abs!NewGames, Abs!Roll
<1> QED
  BY <1>1, OptionsAssumption DEF Coherent, GameType

(* A guess made on a coherent game, counted, leads to a coherent game.     *)
LEMMA GuessedCoherent ==
  ASSUME TypeOK, NEW p \in Procs, Coherent(game[p]),
         NEW g \in Abs!GuessedGames(game[p], args[p].guess),
         plays' = plays + 1,
         hits' = IF args[p].guess = game[p].number THEN hits + 1 ELSE hits
  PROVE  /\ g \in GameType
         /\ Coherent(g)'
<1> DEFINE h == game[p]
<1>1. h \in GameType
  BY DEF TypeOK, GameType
<1>2. plays \in Nat /\ hits \in Nat
  BY DEF TypeOK
<1>3. CASE args[p].guess = h.number
  <2>1. PICK n \in 1 .. h.boundary :
          g = [h EXCEPT !.game_count = @ + 1, !.score = @ + 1, !.number = n]
    BY <1>3 DEF Abs!GuessedGames, Abs!Roll
  <2>2. /\ g.score = h.score + 1 /\ g.game_count = h.game_count + 1
        /\ g.boundary = h.boundary /\ g.number = n
    BY <1>1, <2>1 DEF GameType
  <2>3. g \in GameType
    <3>1. g = [score |-> h.score + 1, game_count |-> h.game_count + 1,
               boundary |-> h.boundary, number |-> n]
      BY <1>1, <2>1 DEF GameType
    <3>2. h.score \in Int /\ h.game_count \in Int /\ h.boundary \in Int /\ n \in Int
      BY <1>1 DEF GameType
    <3> QED
      BY <3>1, <3>2 DEF GameType
  <2>4. h.boundary \in Nat
    BY OptionsAssumption DEF Coherent
  <2> QED
    BY <1>1, <1>2, <1>3, <2>2, <2>3, <2>4 DEF Coherent, GameType
<1>4. CASE args[p].guess # h.number
  <2>1. g = [h EXCEPT !.game_count = @ + 1]
    BY <1>4 DEF Abs!GuessedGames
  <2>2. g \in GameType /\ g.game_count = h.game_count + 1 /\ g.score = h.score
        /\ g.boundary = h.boundary /\ g.number = h.number
    BY <1>1, <2>1 DEF GameType
  <2> QED
    BY <1>1, <1>2, <1>4, <2>2 DEF Coherent, GameType
<1> QED
  BY <1>3, <1>4

(* More guesses made leave a coherent game coherent. *)
LEMMA CoherentGrows ==
  ASSUME NEW g \in GameType,
         Coherent(g), TypeOK,
         plays' \in Nat, hits' \in Nat, plays' >= plays, hits' >= hits
  PROVE  Coherent(g)'
  BY DEF Coherent, TypeOK, GameType

(* The -1 fields have the type of a game, and four words are not none.     *)
LEMMA UnsetType == Unset \in GameType
  BY DEF Unset, GameType

LEMMA FourWords ==
  ASSUME NEW w \in Seq(Nat), Len(w) = 4
  PROVE  Abs!Parsed(w) \in GameType
<1>1. \A i \in 1 .. 4 : w[i] \in Nat
  BY ElementOfSeq
<1>2. w[1] \in Int /\ w[2] \in Int /\ w[3] \in Int /\ w[4] \in Int
  BY <1>1
<1> QED
  BY <1>2 DEF Abs!Parsed, GameType

(* What __game_load leaves in the game has the type of one, and is what    *)
(* the file holds when that is a game.                                     *)
LEMMA LoadedGame ==
  ASSUME NEW w \in Seq(Nat)
  PROVE  /\ Loaded(w) \in GameType
         /\ Len(w) = 4 => Loaded(w) = Abs!Parsed(w)
<1> DEFINE f == [i \in 1 .. 4 |-> IF i <= Len(w) THEN w[i]
                                 ELSE IF i = Len(w) + 1 /\ w # <<>> THEN w[Len(w)] ELSE -1]
<1>1. Loaded(w) = Abs!Parsed(f)
  BY DEF Loaded
<1>2. Len(w) \in Nat
  OBVIOUS
<1>3. \A i \in 1 .. Len(w) : w[i] \in Nat
  BY ElementOfSeq
<1>4. w # <<>> => Len(w) \in 1 .. Len(w)
  BY <1>2, EmptySeq
<1>5. \A i \in 1 .. 4 : f[i] \in Int
  BY <1>2, <1>3, <1>4
<1>6. f[1] \in Int /\ f[2] \in Int /\ f[3] \in Int /\ f[4] \in Int
  BY <1>5
<1>7. Len(w) = 4 => f[1] = w[1] /\ f[2] = w[2] /\ f[3] = w[3] /\ f[4] = w[4]
  OBVIOUS
<1> HIDE DEF f
<1> QED
  BY <1>1, <1>6, <1>7 DEF Abs!Parsed, GameType

(* The first words of a game are words, and as many as were written.       *)
LEMMA FirstWords ==
  ASSUME NEW g \in [score : Nat, game_count : Nat, boundary : Nat, number : Nat],
         NEW k \in 0 .. 4
  PROVE  /\ SubSeq(Abs!Words(g), 1, k) \in Seq(Nat)
         /\ Len(SubSeq(Abs!Words(g), 1, k)) = k
         /\ k = 4 => SubSeq(Abs!Words(g), 1, k) = Abs!Words(g)
<1>1. PICK w : w = Abs!Words(g)
  OBVIOUS
<1>2. w \in Seq(Nat) /\ Len(w) = 4
  BY <1>1, ReadBack
<1>3. ASSUME NEW i \in 1 .. k
      PROVE  w[i] \in Nat
  <2>1. i \in 1 .. Len(w)
    BY <1>2
  <2> QED
    BY <1>2, <2>1, ElementOfSeq
<1>4. /\ SubSeq(w, 1, k) \in Seq(Nat)
      /\ Len(SubSeq(w, 1, k)) = k
  <2>1. 1 \in Int /\ k \in Int
    OBVIOUS
  <2>2. /\ SubSeq(w, 1, k) \in Seq(Nat)
        /\ Len(SubSeq(w, 1, k)) = IF 1 <= k THEN k - 1 + 1 ELSE 0
    BY <1>3, <2>1, SubSeqProperties
  <2>3. k = IF 1 <= k THEN k - 1 + 1 ELSE 0
    OBVIOUS
  <2> QED
    BY <2>2, <2>3
<1>5. k = 4 => SubSeq(w, 1, k) = w
  BY <1>2
<1> QED
  BY <1>1, <1>4, <1>5

-----------------------------------------------------------------------------
(* Each step preserves the invariant. *)

LEMMA StartStep ==
  ASSUME IInv, NEW p \in Procs, Start(p)
  PROVE  IInv'
<1>1. PICK b \in Boundaries \cup {0}, g \in Guesses \cup {0}, m \in {"new", "try", "both"} :
        /\ args' = [args EXCEPT ![p] = [mode |-> m, boundary |-> b, guess |-> g]]
        /\ pc' = [pc EXCEPT ![p] = IF m = "try" THEN "load" ELSE "new"]
        /\ m # "try" => b \in Boundaries
  BY DEF Start
<1>2. /\ pc[p] = "idle" /\ begun < MaxInvocations /\ begun' = begun + 1
      /\ game' = [game EXCEPT ![p] = Unset]
      /\ UNCHANGED <<file, status, saving, plays, hits, basis, cut>>
  BY DEF Start
<1>3. TypeOK'
  <2>1. met' \in BOOLEAN
    BY Zenon DEF Start
  <2> QED
    BY <1>1, <1>2, <2>1, InvocationsAssumption, UnsetType DEF IInv, TypeOK, GameType
<1>4. ArgsParsed'
  BY <1>1, <1>2, OptionsAssumption DEF IInv, TypeOK, ArgsParsed
<1>5. SavedGameCoherent'
  BY <1>2 DEF IInv, SavedGameCoherent, Coherent, Abs!Parsed
<1>6. EngineReady'
  BY <1>1, <1>2 DEF IInv, TypeOK, EngineReady, Coherent
<1>7. CorruptExplained'
  BY <1>1, <1>2 DEF IInv, TypeOK, CorruptExplained
<1> QED
  BY <1>3, <1>4, <1>5, <1>6, <1>7 DEF IInv

(* The steps of game_init that do not touch the file. *)
LEMMA InitStep ==
  ASSUME IInv, NEW p \in Procs,
         RndInitFails(p) \/ InitNew(p) \/ InitLoad(p) \/ InitLoadFails(p)
  PROVE  IInv'
<1>1. /\ UNCHANGED <<file, args, begun, plays, hits, cut, met>>
      /\ pc[p] \in {"new", "load"}
      /\ basis' \in {basis, file.words}
  BY DEF RndInitFails, InitNew, InitLoad, InitLoadFails, ghosts
<1>2. PICK l \in {"idle", "load", "open"} : pc' = [pc EXCEPT ![p] = l]
  BY DEF RndInitFails, InitNew, InitLoad, InitLoadFails, AfterRndFailure
<1>3. PICK st \in {E_OK, E_INIT} : status' = [status EXCEPT ![p] = st]
  BY DEF RndInitFails, InitNew, InitLoad, InitLoadFails
<1>4. saving' \in [Procs -> {"new", "load", "play"}]
  BY DEF RndInitFails, InitNew, InitLoad, InitLoadFails, IInv, TypeOK
<1>5. PICK g \in GameType :
        /\ game' = [game EXCEPT ![p] = g]
        /\ pc'[p] = "open" => Coherent(g) /\ status'[p] = E_OK
  <2>1. CASE RndInitFails(p)
    <3>1. game' = [game EXCEPT ![p] = game[p]] /\ pc'[p] # "open"
      BY <2>1 DEF RndInitFails, AfterRndFailure, IInv, TypeOK
    <3> QED
      BY <3>1 DEF IInv, TypeOK, GameType
  <2>2. CASE InitNew(p)
    <3>1. args[p].boundary \in Boundaries
      BY <2>2 DEF InitNew, IInv, ArgsParsed
    <3>2. plays \in Nat /\ hits \in Nat /\ status'[p] = E_OK
      BY <2>2 DEF InitNew, IInv, TypeOK
    <3>3. PICK g \in Abs!NewGames(args[p].boundary) : game' = [game EXCEPT ![p] = g]
      BY <2>2 DEF InitNew
    <3> QED
      BY <3>1, <3>2, <3>3, NewCoherent
  <2>3. CASE InitLoad(p)
    <3>1. Len(file.words) = 4 /\ file.words \in Seq(Nat) /\ status'[p] = E_OK
      BY <2>3 DEF InitLoad, Loadable, LastRead, IInv, TypeOK
    <3>2. Coherent(Abs!Parsed(file.words))
      BY <3>1 DEF IInv, SavedGameCoherent
    <3>3. Abs!Parsed(file.words) \in GameType
      BY <3>1, FourWords
    <3>4. game' = [game EXCEPT ![p] = Loaded(file.words)]
      BY <2>3 DEF InitLoad
    <3>5. game' = [game EXCEPT ![p] = Abs!Parsed(file.words)]
      BY <3>1, <3>4, LoadedGame
    <3> QED
      BY <3>1, <3>2, <3>3, <3>5
  <2>4. CASE InitLoadFails(p)
    <3>1. game' = [game EXCEPT ![p] = Loaded(file.words)] /\ pc'[p] # "open"
      BY <2>4 DEF InitLoadFails, IInv, TypeOK
    <3>2. file.words \in Seq(Nat)
      BY DEF IInv, TypeOK
    <3> QED
      BY <3>1, <3>2, LoadedGame
  <2> QED
    BY <2>1, <2>2, <2>3, <2>4
<1>6. TypeOK'
  BY <1>1, <1>2, <1>3, <1>4, <1>5 DEF IInv, TypeOK, GameType
<1>7. ArgsParsed'
  BY <1>1, <1>2 DEF IInv, TypeOK, ArgsParsed
<1>8. SavedGameCoherent'
  BY <1>1 DEF IInv, SavedGameCoherent, Coherent, Abs!Parsed
<1>9. EngineReady'
  <2>1. SUFFICES ASSUME NEW q \in Procs, pc'[q] \in {"play", "open", "write"}
                 PROVE  status'[q] = E_OK /\ Coherent(game[q])'
    BY DEF EngineReady
  <2>2. CASE q = p
    <3>1. pc'[p] = "open" /\ game'[p] = g
      BY <1>2, <1>5, <2>1, <2>2 DEF IInv, TypeOK
    <3> QED
      BY <1>1, <1>5, <2>2, <3>1 DEF Coherent
  <2>3. CASE q # p
    <3>1. pc'[q] = pc[q] /\ game'[q] = game[q] /\ status'[q] = status[q]
      BY <1>2, <1>3, <1>5, <2>3 DEF IInv, TypeOK
    <3> QED
      BY <1>1, <2>1, <3>1 DEF IInv, EngineReady, Coherent
  <2> QED
    BY <2>2, <2>3
<1>10. CorruptExplained'
  BY <1>1, <1>2 DEF IInv, TypeOK, CorruptExplained
<1> QED
  BY <1>6, <1>7, <1>8, <1>9, <1>10 DEF IInv

LEMMA PlayStep ==
  ASSUME IInv, NEW p \in Procs, Play(p)
  PROVE  IInv'
<1>1. PICK g \in Abs!GuessedGames(game[p], args[p].guess) : game' = [game EXCEPT ![p] = g]
  BY DEF Play
<1>2. /\ pc[p] = "play" /\ pc' = [pc EXCEPT ![p] = "open"]
      /\ plays' = plays + 1
      /\ hits' = IF args[p].guess = game[p].number THEN hits + 1 ELSE hits
      /\ saving' = [saving EXCEPT ![p] = "play"]
      /\ UNCHANGED <<file, args, status, begun, basis, cut, met>>
  BY DEF Play
<1>3. TypeOK /\ Coherent(game[p]) /\ status[p] = E_OK
  BY <1>2 DEF IInv, EngineReady
<1>4. /\ g \in GameType
      /\ Coherent(g)'
  BY <1>1, <1>2, <1>3, GuessedCoherent
<1>5. /\ plays' \in Nat /\ hits' \in Nat /\ plays' >= plays /\ hits' >= hits
  BY <1>2, <1>3 DEF TypeOK
<1>6. TypeOK'
  BY <1>1, <1>2, <1>3, <1>4, <1>5 DEF TypeOK, GameType
<1>7. ArgsParsed'
  BY <1>2 DEF IInv, TypeOK, ArgsParsed
<1>8. SavedGameCoherent'
  <2>1. PICK w \in Seq(Nat) : w = file.words
    BY <1>3 DEF TypeOK
  <2>2. SUFFICES ASSUME ~(Len(w) < 4)
                 PROVE  Len(w) = 4 /\ Coherent(Abs!Parsed(w))'
    BY <1>2, <2>1 DEF SavedGameCoherent, Abs!Parsed
  <2>3. Len(w) = 4 /\ Coherent(Abs!Parsed(w))
    BY <2>1, <2>2 DEF IInv, SavedGameCoherent
  <2> QED
    BY <1>3, <1>5, <2>3, FourWords, CoherentGrows
<1>9. EngineReady'
  <2>1. SUFFICES ASSUME NEW q \in Procs, pc'[q] \in {"play", "open", "write"}
                 PROVE  status'[q] = E_OK /\ Coherent(game[q])'
    BY DEF EngineReady
  <2>2. CASE q = p
    <3>1. game'[p] = g
      BY <1>1, <1>3 DEF TypeOK
    <3>2. Coherent(game[p])'
      BY <1>4, <3>1 DEF Coherent
    <3> QED
      BY <1>2, <1>3, <2>2, <3>2
  <2>3. CASE q # p
    <3>1. pc'[q] = pc[q] /\ game'[q] = game[q] /\ status'[q] = status[q]
      BY <1>1, <1>2, <1>3, <2>3 DEF TypeOK
    <3>2. Coherent(game[q]) /\ status[q] = E_OK
      BY <2>1, <3>1 DEF IInv, EngineReady
    <3>3. game[q] \in GameType
      BY <1>3 DEF TypeOK, GameType
    <3> QED
      BY <1>3, <1>5, <3>1, <3>2, <3>3 DEF Coherent, TypeOK, GameType
  <2> QED
    BY <2>2, <2>3
<1>10. CorruptExplained'
  BY <1>2, <1>3 DEF IInv, TypeOK, CorruptExplained
<1> QED
  BY <1>6, <1>7, <1>8, <1>9, <1>10 DEF IInv

(* __game_save: the file is emptied by a process that has a coherent game, *)
(* and written with that game by a process that has emptied it.            *)
LEMMA OpenStep ==
  ASSUME IInv, NEW p \in Procs, OpenSave(p)
  PROVE  IInv'
<1>1. /\ pc[p] = "open" /\ pc' = [pc EXCEPT ![p] = "write"]
      /\ file' = [exists |-> TRUE, words |-> <<>>]
      /\ basis' \in {basis, file.words}
      /\ UNCHANGED <<args, game, status, saving, begun, plays, hits, cut, met>>
  BY DEF OpenSave
<1>2. TypeOK'
  BY <1>1, EmptySeq DEF IInv, TypeOK
<1>3. ArgsParsed'
  BY <1>1 DEF IInv, TypeOK, ArgsParsed
<1>4. SavedGameCoherent'
  BY <1>1 DEF SavedGameCoherent
<1>5. EngineReady'
  BY <1>1 DEF IInv, TypeOK, EngineReady, Coherent
<1>6. CorruptExplained'
  BY <1>1 DEF IInv, TypeOK, CorruptExplained
<1> QED
  BY <1>2, <1>3, <1>4, <1>5, <1>6 DEF IInv

LEMMA WriteStep ==
  ASSUME IInv, NEW p \in Procs, WriteSave(p)
  PROVE  IInv'
<1>1. /\ pc[p] = "write"
      /\ file' = [exists |-> TRUE, words |-> Abs!Words(game[p])]
      /\ cut' = FALSE
      /\ UNCHANGED <<args, game, status, saving, begun, plays, hits, basis, met>>
  BY DEF WriteSave
<1>2. PICK l \in {"idle", "load", "play"} :
        /\ pc' = [pc EXCEPT ![p] = l]
        /\ l \in {"idle", "load", "play"}
  <2>1. saving[p] \in {"new", "load", "play"}
    BY DEF IInv, TypeOK
  <2> QED
    BY <2>1 DEF WriteSave, AfterSave
<1>3. Coherent(game[p]) /\ status[p] = E_OK
  BY <1>1 DEF IInv, EngineReady
<1>4. PICK g \in GameType : g = game[p]
  BY DEF IInv, TypeOK, GameType
<1>5. Coherent(g)
  BY <1>3, <1>4 DEF Coherent
<1>6. g \in [score : Nat, game_count : Nat, boundary : Nat, number : Nat]
  BY <1>5, CoherentType DEF IInv, TypeOK
<1>7. /\ Abs!Words(g) \in Seq(Nat) /\ Len(Abs!Words(g)) = 4
      /\ Abs!Words(g) # <<>> /\ Abs!Parsed(Abs!Words(g)) = g
  BY <1>6, ReadBack
<1>8. file' = [exists |-> TRUE, words |-> Abs!Words(g)]
  BY <1>1, <1>4
<1>9. TypeOK'
  <2>0. cut' \in BOOLEAN
    BY <1>1, Zenon
  <2>1. file' \in [exists : BOOLEAN, words : Seq(Nat)]
    BY <1>7, <1>8
  <2>2. pc' \in [Procs -> {"idle", "new", "load", "play", "open", "write"}]
    BY <1>2 DEF IInv, TypeOK
  <2> QED
    BY <1>1, <2>0, <2>1, <2>2 DEF IInv, TypeOK
<1>10. ArgsParsed'
  BY <1>1, <1>2 DEF IInv, TypeOK, ArgsParsed
<1>11. SavedGameCoherent'
  <2>1. file'.words = Abs!Words(g)
    BY <1>8
  <2>2. Coherent(g)'
    BY <1>1, <1>5 DEF Coherent
  <2>3. Abs!Parsed(file.words)' = g
    BY <1>7, <2>1 DEF Abs!Parsed
  <2> QED
    BY <1>7, <2>1, <2>2, <2>3 DEF SavedGameCoherent, Coherent
<1>12. EngineReady'
  <2>1. SUFFICES ASSUME NEW q \in Procs, pc'[q] \in {"play", "open", "write"}
                 PROVE  status'[q] = E_OK /\ Coherent(game[q])'
    BY DEF EngineReady
  <2>2. pc[q] \in {"play", "open", "write"}
    BY <1>1, <1>2, <2>1 DEF IInv, TypeOK
  <2> QED
    BY <1>1, <2>2 DEF IInv, EngineReady, Coherent
<1>13. CorruptExplained'
  <2>1. file'.words = Abs!Words(g)
    BY <1>8
  <2>2. Len(file'.words) = 4
    BY <1>7, <2>1
  <2> QED
    BY <2>2 DEF CorruptExplained
<1> QED
  BY <1>9, <1>10, <1>11, <1>12, <1>13 DEF IInv

(* A process that is about to write has a game whose fields are numbers.   *)
LEMMA SavingGame ==
  ASSUME IInv, NEW p \in Procs, pc[p] = "write"
  PROVE  game[p] \in [score : Nat, game_count : Nat, boundary : Nat, number : Nat]
<1>1. PICK g \in GameType : g = game[p]
  BY DEF IInv, TypeOK, GameType
<1>2. Coherent(g)
  BY <1>1 DEF IInv, EngineReady, Coherent
<1>3. g \in [score : Nat, game_count : Nat, boundary : Nat, number : Nat]
  BY <1>2, CoherentType DEF IInv, TypeOK
<1> QED
  BY <1>1, <1>3

(* A save that fails, and the end of a process that is killed.             *)
LEMMA FailureStep ==
  ASSUME IInv, NEW p \in Procs, WriteFails(p) \/ Crash(p)
  PROVE  IInv'
<1>1. /\ UNCHANGED <<args, game, status, saving, begun, plays, hits, basis, met>>
      /\ cut' \in BOOLEAN
      /\ cut => cut'
      /\ pc[p] = "write" => cut'
  BY DEF WriteFails, Crash, IInv, TypeOK
<1>2. PICK l \in {"idle", "load", "play"} :
        /\ pc' = [pc EXCEPT ![p] = l]
        /\ l = "play" => pc[p] = "write"
  <2>1. saving[p] \in {"new", "load", "play"}
    BY DEF IInv, TypeOK
  <2> QED
    BY <2>1 DEF WriteFails, Crash, AfterSave
<1>3. \/ file' = file
      \/ /\ pc[p] = "write"
         /\ file' \in [exists : BOOLEAN, words : Seq(Nat)]
         /\ Len(file'.words) < 4
  <2>1. CASE Crash(p)
    BY <2>1 DEF Crash
  <2>2. CASE WriteFails(p)
    <3>1. SUFFICES ASSUME NEW k \in Len(file.words) .. 3,
                          file' = [exists |-> TRUE, words |-> SubSeq(Abs!Words(game[p]), 1, k)]
                   PROVE  /\ file' \in [exists : BOOLEAN, words : Seq(Nat)]
                          /\ Len(file'.words) < 4
      BY <2>2 DEF WriteFails
    <3>2. k \in 0 .. 4 /\ k < 4
      <4>1. PICK w \in Seq(Nat) : w = file.words
        BY DEF IInv, TypeOK
      <4>2. Len(w) \in Nat /\ k \in Len(w) .. 3
        BY <3>1, <4>1
      <4> QED
        BY <4>2
    <3>3. /\ SubSeq(Abs!Words(game[p]), 1, k) \in Seq(Nat)
          /\ Len(SubSeq(Abs!Words(game[p]), 1, k)) = k
      BY <2>2, <3>2, SavingGame, FirstWords DEF WriteFails
    <3> QED
      BY <3>1, <3>2, <3>3
  <2> QED
    BY <2>1, <2>2
<1>4. TypeOK'
  <2>1. pc' \in [Procs -> {"idle", "new", "load", "play", "open", "write"}]
    BY <1>2 DEF IInv, TypeOK
  <2>2. cut' \in BOOLEAN
    BY <1>1, Zenon
  <2>3. TypeOK
    BY DEF IInv
  <2>4. UNCHANGED <<args, game, status, saving, begun, plays, hits, basis, met>>
    BY <1>1, Zenon
  <2>5. file' \in [exists : BOOLEAN, words : Seq(Nat)]
    BY <1>3, <2>3 DEF TypeOK
  <2> QED
    BY <2>1, <2>2, <2>3, <2>4, <2>5 DEF TypeOK
<1>5. ArgsParsed'
  BY <1>1, <1>2 DEF IInv, TypeOK, ArgsParsed
<1>6. SavedGameCoherent'
  <2>1. CASE file' = file
    BY <1>1, <2>1 DEF IInv, SavedGameCoherent, Coherent, Abs!Parsed
  <2>2. CASE Len(file'.words) < 4
    BY <2>2 DEF SavedGameCoherent
  <2> QED
    BY <1>3, <2>1, <2>2
<1>7. EngineReady'
  <2>1. SUFFICES ASSUME NEW q \in Procs, pc'[q] \in {"play", "open", "write"}
                 PROVE  status'[q] = E_OK /\ Coherent(game[q])'
    BY DEF EngineReady
  <2>2. pc[q] \in {"play", "open", "write"}
    BY <1>2, <2>1 DEF IInv, TypeOK
  <2> QED
    BY <1>1, <2>2 DEF IInv, EngineReady, Coherent
<1>8. CorruptExplained'
  <2>1. SUFFICES ASSUME file'.exists, Len(file'.words) < 4, ~cut'
                 PROVE  \E q \in Procs : pc'[q] = "write"
    BY DEF CorruptExplained
  <2>2. ~cut /\ pc[p] # "write" /\ file' = file
    BY <1>1, <1>3, <2>1, Zenon
  <2>3. PICK q \in Procs : pc[q] = "write"
    BY <2>1, <2>2 DEF IInv, CorruptExplained
  <2>4. pc'[q] = "write"
    BY <1>2, <2>2, <2>3 DEF IInv, TypeOK
  <2> QED
    BY <2>4
<1> QED
  BY <1>4, <1>5, <1>6, <1>7, <1>8 DEF IInv

LEMMA StutterStep == IInv /\ UNCHANGED vars => IInv'
<1>1. TypeOK /\ ArgsParsed /\ UNCHANGED vars => TypeOK' /\ ArgsParsed'
  BY DEF vars, TypeOK, ArgsParsed
<1>2. SavedGameCoherent /\ UNCHANGED vars => SavedGameCoherent'
  BY DEF vars, SavedGameCoherent, Coherent, Abs!Parsed
<1>3. EngineReady /\ UNCHANGED vars => EngineReady'
  BY DEF vars, EngineReady, Coherent
<1>4. CorruptExplained /\ UNCHANGED vars => CorruptExplained'
  BY DEF vars, CorruptExplained
<1> QED
  BY <1>1, <1>2, <1>3, <1>4 DEF IInv

LEMMA InitInv == Init => IInv
<1> SUFFICES ASSUME Init
             PROVE  IInv
  OBVIOUS
<1>1. TypeOK
  <2>1. <<>> \in Seq(Nat)
    OBVIOUS
  <2>2. file \in [exists : BOOLEAN, words : Seq(Nat)] /\ basis \in Seq(Nat)
    BY <2>1 DEF Init
  <2>3. game \in [Procs -> GameType]
    BY UnsetType DEF Init
  <2>4. args \in [Procs -> [mode : {"new", "try", "both"},
                           boundary : Boundaries \cup {0}, guess : Guesses \cup {0}]]
    BY DEF Init
  <2>5. /\ pc \in [Procs -> {"idle", "new", "load", "play", "open", "write"}]
        /\ status \in [Procs -> {E_OK, E_INIT}]
        /\ saving \in [Procs -> {"new", "load", "play"}]
    BY DEF Init
  <2>6. begun \in 0 .. MaxInvocations /\ plays \in Nat /\ hits \in Nat
    BY InvocationsAssumption DEF Init
  <2>7. cut \in BOOLEAN /\ met \in BOOLEAN
    BY Zenon DEF Init
  <2> QED
    BY <2>2, <2>3, <2>4, <2>5, <2>6, <2>7 DEF TypeOK, GameType
<1>2. ArgsParsed /\ SavedGameCoherent /\ EngineReady /\ CorruptExplained
  BY DEF Init, ArgsParsed, SavedGameCoherent, EngineReady, CorruptExplained
<1> QED
  BY <1>1, <1>2 DEF IInv

LEMMA StepInv == IInv /\ [Next]_vars => IInv'
<1>1. ASSUME IInv, NEW p \in Procs, Step(p)
      PROVE  IInv'
  BY <1>1, StartStep, InitStep, PlayStep, OpenStep, WriteStep, FailureStep DEF Step
<1> QED
  BY <1>1, StutterStep DEF Next

-----------------------------------------------------------------------------

(* Every state of the processes and the file satisfies the inductive        *)
(* invariant.                                                              *)
THEOREM Invariance == Spec => []IInv
<1>1. Init => IInv
  BY InitInv
<1>2. IInv /\ [Next]_vars => IInv'
  BY StepInv
<1> QED
  BY <1>1, <1>2, PTL DEF Spec

(* The state of any number of processes keeps its type.                    *)
THEOREM TypeCorrect == Spec => []TypeOK
<1>1. IInv => TypeOK
  BY DEF IInv
<1> QED
  BY <1>1, Invariance, PTL

(* data.sav holds a coherent game or less than a game, whoever wrote it    *)
(* and wherever they were killed.                                          *)
THEOREM SavesAreCoherent == Spec => []SavedGameCoherent
<1>1. IInv => SavedGameCoherent
  BY DEF IInv
<1> QED
  BY <1>1, Invariance, PTL

(* No process plays or saves a game it has not got.                        *)
THEOREM EnginesAreReady == Spec => []EngineReady
<1>1. IInv => EngineReady
  BY DEF IInv
<1> QED
  BY <1>1, Invariance, PTL

(* A data.sav with less than a game is a save under way or one cut short.  *)
THEOREM CorruptSavesAreExplained == Spec => []CorruptExplained
<1>1. IInv => CorruptExplained
  BY DEF IInv
<1> QED
  BY <1>1, Invariance, PTL

(* A save that is there stays there, and only a process that is saving     *)
(* changes it, to words of its own game.                                   *)
THEOREM OnlySavesChangeIt == Spec => OnlySavesWrite
<1> DEFINE Own(q) == file'.words = SubSeq(Abs!Words(game[q]), 1, Len(file'.words))
<1>1. ASSUME IInv, NEW p \in Procs, Step(p), file' # file
      PROVE  /\ file'.exists
             /\ \E q \in Procs : \/ pc[q] = "open" /\ pc'[q] = "write"
                                 \/ pc[q] = "write" /\ Own(q)
  <2>1. OpenSave(p) \/ WriteSave(p) \/ WriteFails(p)
    BY <1>1 DEF Step, Start, RndInitFails, InitNew, InitLoad, InitLoadFails, Play, Crash
  <2>2. CASE OpenSave(p)
    BY <1>1, <2>2 DEF OpenSave, IInv, TypeOK
  <2>3. CASE WriteSave(p) \/ WriteFails(p)
    <3>1. PICK k \in 0 .. 4 :
            file' = [exists |-> TRUE, words |-> SubSeq(Abs!Words(game[p]), 1, k)]
      <4>1. CASE WriteSave(p)
        <5>1. PICK w : w = Abs!Words(game[p])
          OBVIOUS
        <5>2. SubSeq(w, 1, 4) = w
          BY <1>1, <4>1, <5>1, SavingGame, FirstWords DEF WriteSave
        <5>3. file' = [exists |-> TRUE, words |-> w]
          BY <4>1, <5>1 DEF WriteSave
        <5>4. 4 \in 0 .. 4
          OBVIOUS
        <5>5. file' = [exists |-> TRUE, words |-> SubSeq(w, 1, 4)]
          BY <5>2, <5>3
        <5> QED
          BY <5>1, <5>4, <5>5
      <4>2. CASE WriteFails(p)
        <5>1. PICK w \in Seq(Nat) : w = file.words
          BY <1>1 DEF IInv, TypeOK
        <5>2. PICK k \in Len(w) .. 3 :
                file' = [exists |-> TRUE, words |-> SubSeq(Abs!Words(game[p]), 1, k)]
          BY <1>1, <4>2, <5>1 DEF WriteFails
        <5>3. k \in 0 .. 4
          BY <5>1, <5>2
        <5> QED
          BY <5>2, <5>3
      <4> QED
        BY <2>3, <4>1, <4>2
    <3>2. pc[p] = "write"
      BY <2>3 DEF WriteSave, WriteFails
    <3>3. Len(file'.words) = k
      BY <1>1, <3>1, <3>2, SavingGame, FirstWords
    <3> QED
      BY <3>1, <3>2, <3>3
  <2> QED
    BY <2>1, <2>2, <2>3
<1>2. IInv /\ [Next]_vars =>
        [file' # file => file'.exists /\ \E p \in Procs :
           \/ pc[p] = "open"  /\ pc'[p] = "write"
           \/ pc[p] = "write" /\ file'.words = SubSeq(Abs!Words(game[p]), 1, Len(file'.words))]_vars
  BY <1>1 DEF Next, vars
<1> QED
  BY <1>2, Invariance, PTL DEF Spec, OnlySavesWrite

-----------------------------------------------------------------------------
(* Invocations that overlap with no other implement GuessGame. *)

(* A process that loads or plays was given a guess. *)
GuessGiven ==
  \A p \in Procs :
    /\ args[p].mode # "new" => args[p].guess \in Guesses
    /\ \/ pc[p] \in {"load", "play"}
       \/ pc[p] \in {"open", "write"} /\ saving[p] # "new"
       => args[p].mode # "new"

(* The game g is the one with the words w, a guess later. *)
GuessedFrom(w, g, guess) ==
  /\ g.game_count = w[2] + 1 /\ g.boundary = w[3]
  /\ IF guess = w[4] THEN g.score = w[1] + 1 /\ g.number \in 1 .. w[3]
     ELSE g.score = w[1] /\ g.number = w[4]

(* The process p is the only one that runs, and what it is about to save   *)
(* is a new game, the one it has loaded, or that one a guess later.        *)
OnTheWay(p) ==
  /\ \A q \in Procs \ {p} : pc[q] = "idle"
  /\ pc[p] = "write" => file.words = <<>>
  /\ pc[p] = "play" => saving[p] = "load"
  /\ pc[p] = "play" \/ (pc[p] = "open" /\ saving[p] # "new") =>
       file.words = basis \/ Len(file.words) < 4
  /\ pc[p] \in {"open", "write"} /\ saving[p] = "new" =>
       \E b \in Boundaries : game[p] \in Abs!NewGames(b)
  /\ pc[p] \in {"play", "open", "write"} /\ saving[p] = "load" => basis = Abs!Words(game[p])
  /\ pc[p] \in {"open", "write"} /\ saving[p] = "play" =>
       \E h \in GameType, guess \in Guesses :
         basis = Abs!Words(h) /\ GuessedFrom(basis, game[p], guess)

AloneInv == ~met => \A p \in Procs : pc[p] # "idle" => OnTheWay(p)

RInv == IInv /\ GuessGiven /\ AloneInv

(* What Saved is when p is the only process that runs, before a step and   *)
(* after it.                                                               *)
LEMMA SavedAlone ==
  ASSUME NEW p \in Procs, \A q \in Procs \ {p} : pc[q] = "idle"
  PROVE  Saved = IF Busy(p) THEN basis ELSE file.words
  BY DEF Saved, Busy

LEMMA SavedAloneNext ==
  ASSUME NEW p \in Procs, \A q \in Procs \ {p} : pc'[q] = "idle"
  PROVE  Saved' = IF Busy(p)' THEN basis' ELSE file.words'
  BY DEF Saved, Busy

(* Reading back a game that was written gives the game.                    *)
LEMMA ParsedWords ==
  ASSUME NEW g \in GameType
  PROVE  Abs!Parsed(Abs!Words(g)) = g /\ Len(Abs!Words(g)) = 4
  BY DEF Abs!Parsed, Abs!Words, GameType

LEMMA GuessedBoth ==
  ASSUME NEW h \in GameType, NEW g \in GameType, NEW guess
  PROVE  g \in Abs!GuessedGames(h, guess) <=> GuessedFrom(Abs!Words(h), g, guess)
<1>1. Abs!Words(h)[1] = h.score /\ Abs!Words(h)[2] = h.game_count
      /\ Abs!Words(h)[3] = h.boundary /\ Abs!Words(h)[4] = h.number
  BY DEF Abs!Words
<1>2. CASE guess = h.number
  <2> DEFINE After(n) == [h EXCEPT !.game_count = @ + 1, !.score = @ + 1, !.number = n]
  <2>1. g \in Abs!GuessedGames(h, guess) <=> \E n \in 1 .. h.boundary : g = After(n)
    BY <1>2, Zenon DEF Abs!GuessedGames, Abs!Roll
  <2>2. ASSUME NEW n \in 1 .. h.boundary
        PROVE  g = After(n) <=> /\ g.score = h.score + 1 /\ g.game_count = h.game_count + 1
                                /\ g.boundary = h.boundary /\ g.number = n
    <3>1. PICK f : f = After(n)
      BY Zenon
    <3>2. f = [score |-> h.score + 1, game_count |-> h.game_count + 1,
               boundary |-> h.boundary, number |-> n]
      BY <3>1 DEF GameType
    <3> QED
      BY <3>1, <3>2 DEF GameType
  <2> HIDE DEF After
  <2> QED
    BY <1>1, <1>2, <2>1, <2>2 DEF GuessedFrom
<1>3. CASE guess # h.number
  <2>1. [h EXCEPT !.game_count = @ + 1]
               = [score |-> h.score, game_count |-> h.game_count + 1,
                  boundary |-> h.boundary, number |-> h.number]
    BY DEF GameType
  <2> QED
    BY <1>1, <1>3, <2>1 DEF Abs!GuessedGames, GuessedFrom, GameType
<1> QED
  BY <1>2, <1>3

(* A step other than a start is a step of the process that was alone, and  *)
(* leaves it alone.                                                        *)
LEMMA StepAlone ==
  ASSUME TypeOK, AloneInv, ~met', NEW p \in Procs, Step(p), ~Start(p)
  PROVE  /\ ~met /\ pc[p] # "idle" /\ OnTheWay(p)
         /\ \A q \in Procs \ {p} : pc'[q] = "idle"
         /\ pc' = [pc EXCEPT ![p] = pc'[p]]
<1>1. met' = met /\ pc[p] # "idle"
  BY DEF Step, RndInitFails, InitNew, InitLoad, InitLoadFails, Play, OpenSave,
         WriteSave, WriteFails, Crash, ghosts
<1>2. PICK l : pc' = [pc EXCEPT ![p] = l]
  BY DEF Step, RndInitFails, InitNew, InitLoad, InitLoadFails, Play, OpenSave,
         WriteSave, WriteFails, Crash
<1>3. OnTheWay(p)
  BY <1>1 DEF AloneInv
<1> QED
  BY <1>1, <1>2, <1>3 DEF OnTheWay, TypeOK

(* A start does not change what is saved, and a process that starts alone  *)
(* is on its way.                                                          *)
LEMMA StartAlone ==
  ASSUME TypeOK, ~met', NEW p \in Procs, Start(p)
  PROVE  AloneInv' /\ Saved' = Saved
<1>1. /\ \A q \in Procs : pc[q] = "idle"
      /\ UNCHANGED <<file, basis>>
  BY DEF Start
<1>2. PICK l \in {"new", "load"} : pc' = [pc EXCEPT ![p] = l]
  BY DEF Start
<1>3. \A q \in Procs : pc'[q] = IF q = p THEN l ELSE "idle"
  BY <1>1, <1>2 DEF TypeOK
<1>4. AloneInv'
  BY <1>3 DEF AloneInv, OnTheWay
<1>5. Saved = file.words
  BY <1>1 DEF Saved, Busy
<1>6. Saved' = file.words'
  BY <1>3 DEF Saved, Busy
<1> QED
  BY <1>1, <1>4, <1>5, <1>6

(* A save that fails leaves less than a game, when the process is alone.   *)
LEMMA FailsShort ==
  ASSUME IInv, NEW p \in Procs, WriteFails(p), OnTheWay(p)
  PROVE  Len(file'.words) < 4
<1>1. pc[p] = "write" /\ file.words = <<>>
  BY DEF WriteFails, OnTheWay
<1>2. CASE file' = file
  BY <1>1, <1>2
<1>3. ASSUME NEW k \in 0 .. 3,
             file' = [exists |-> TRUE, words |-> SubSeq(Abs!Words(game[p]), 1, k)]
      PROVE  Len(file'.words) < 4
  <2>1. k \in 0 .. 4 /\ k < 4
    OBVIOUS
  <2>2. Len(SubSeq(Abs!Words(game[p]), 1, k)) = k
    BY <1>1, <2>1, SavingGame, FirstWords
  <2> QED
    BY <1>3, <2>1, <2>2
<1>4. Len(file.words) = 0
  BY <1>1
<1> QED
  BY <1>2, <1>3, <1>4 DEF WriteFails

(* Every step of a process that is alone keeps it on its way.              *)
LEMMA WayKept ==
  ASSUME IInv, GuessGiven, AloneInv, ~met', NEW p \in Procs, Step(p), ~Start(p)
  PROVE  AloneInv'
<1> USE DEF IInv
<1>1. /\ ~met /\ pc[p] # "idle" /\ OnTheWay(p)
      /\ \A q \in Procs \ {p} : pc'[q] = "idle"
      /\ pc' = [pc EXCEPT ![p] = pc'[p]]
  BY StepAlone
<1>2. SUFFICES ASSUME pc'[p] # "idle"
               PROVE  OnTheWay(p)'
  BY <1>1 DEF AloneInv
<1>3. CASE RndInitFails(p)
  BY <1>1, <1>2, <1>3 DEF RndInitFails, AfterRndFailure, OnTheWay, TypeOK, ghosts
<1>4. CASE InitNew(p)
  <2>1. /\ pc'[p] = "open" /\ saving'[p] = "new"
        /\ args[p].boundary \in Boundaries
        /\ game'[p] \in Abs!NewGames(args[p].boundary)
    BY <1>4 DEF InitNew, TypeOK, ArgsParsed
  <2> QED
    BY <1>1, <2>1 DEF OnTheWay, Abs!NewGames, Abs!Roll
<1>5. CASE InitLoad(p)
  <2>1. /\ pc'[p] = "open" /\ saving'[p] = "load"
        /\ file' = file /\ basis' = file.words
        /\ Len(file.words) = 4 /\ file.words \in Seq(Nat)
        /\ game'[p] = Loaded(file.words)
    BY <1>5 DEF InitLoad, Loadable, LastRead, TypeOK
  <2>2. file.words = Abs!Words(Abs!Parsed(file.words))
    <3>1. PICK w \in Seq(Nat) : w = file.words
      BY <2>1
    <3>2. w = <<w[1], w[2], w[3], w[4]>>
      BY <2>1, <3>1
    <3>3. Abs!Words(Abs!Parsed(w)) = <<w[1], w[2], w[3], w[4]>>
      BY DEF Abs!Words, Abs!Parsed
    <3> QED
      BY <3>1, <3>2, <3>3
  <2>3. game'[p] = Abs!Parsed(file.words)
    BY <2>1, LoadedGame
  <2> QED
    BY <1>1, <2>1, <2>2, <2>3 DEF OnTheWay, Abs!Words
<1>6. CASE InitLoadFails(p)
  BY <1>1, <1>2, <1>6 DEF InitLoadFails, TypeOK
<1>7. CASE Play(p)
  <2>1. /\ pc[p] = "play" /\ pc'[p] = "open" /\ saving'[p] = "play"
        /\ file' = file /\ basis' = basis
        /\ game'[p] \in Abs!GuessedGames(game[p], args[p].guess)
    BY <1>7 DEF Play, TypeOK
  <2>2. saving[p] = "load" /\ basis = Abs!Words(game[p])
        /\ (file.words = basis \/ Len(file.words) < 4)
    BY <1>1, <2>1 DEF OnTheWay
  <2>3. game[p] \in GameType /\ game'[p] \in GameType
    <3>1. IInv'
      BY StepInv, <1>7, Zenon DEF Next, Step, IInv
    <3> QED
      BY <3>1 DEF TypeOK, GameType
  <2>5. args[p].guess \in Guesses
    BY <2>1 DEF GuessGiven
  <2>6. GuessedFrom(basis, game'[p], args[p].guess)
    BY <2>1, <2>2, <2>3, GuessedBoth
  <2> QED
    BY <1>1, <2>1, <2>2, <2>3, <2>5, <2>6 DEF OnTheWay, GuessedFrom, Abs!Words
<1>8. CASE OpenSave(p)
  <2>1. /\ pc[p] = "open" /\ pc'[p] = "write" /\ file'.words = <<>>
        /\ UNCHANGED <<game, saving>>
        /\ saving[p] # "new" => basis' = basis
    BY <1>8 DEF OpenSave, TypeOK
  <2> QED
    BY <1>1, <2>1 DEF OnTheWay, Abs!NewGames, Abs!Roll, Abs!Words, GuessedFrom
<1>9. CASE WriteSave(p) \/ WriteFails(p)
  <2>1. /\ pc[p] = "write" /\ pc'[p] = AfterSave(p)
        /\ file'.words = Abs!Words(game[p]) \/ Len(file'.words) < 4
        /\ UNCHANGED <<game, saving, basis>>
    <3>1. WriteSave(p) => file'.words = Abs!Words(game[p])
      BY DEF WriteSave
    <3>2. WriteFails(p) => Len(file'.words) < 4
      BY <1>1, FailsShort
    <3>3. /\ pc[p] = "write" /\ pc'[p] = AfterSave(p)
          /\ UNCHANGED <<game, saving, basis>>
      BY <1>9 DEF WriteSave, WriteFails, TypeOK
    <3> QED
      BY <1>9, <3>1, <3>2, <3>3
  <2>2. pc'[p] = "load" \/ (pc'[p] = "play" /\ saving[p] = "load")
    BY <1>2, <2>1 DEF AfterSave, TypeOK
  <2>3. saving[p] = "load" => basis = Abs!Words(game[p])
        /\ (file'.words = basis \/ Len(file'.words) < 4)
    BY <1>1, <2>1 DEF OnTheWay
  <2> QED
    BY <1>1, <2>1, <2>2, <2>3 DEF OnTheWay, Abs!Words
<1>10. CASE Crash(p)
  BY <1>2, <1>10 DEF Crash, TypeOK
<1> QED
  BY <1>3, <1>4, <1>5, <1>6, <1>7, <1>8, <1>9, <1>10 DEF Step

(* GuessGiven holds whoever overlaps with whom.                            *)
LEMMA GuessGivenKept == IInv /\ GuessGiven /\ [Next]_vars => GuessGiven'
<1>1. ASSUME TypeOK, GuessGiven, NEW p \in Procs, Start(p)
      PROVE  GuessGiven'
  <2>1. PICK b \in Boundaries \cup {0}, g \in Guesses \cup {0}, m \in {"new", "try", "both"} :
          /\ args' = [args EXCEPT ![p] = [mode |-> m, boundary |-> b, guess |-> g]]
          /\ pc' = [pc EXCEPT ![p] = IF m = "try" THEN "load" ELSE "new"]
          /\ m # "new" => g \in Guesses
    BY <1>1 DEF Start
  <2>2. saving' = saving
    BY <1>1 DEF Start
  <2> QED
    BY <1>1, <2>1, <2>2 DEF GuessGiven, TypeOK
<1>2. ASSUME TypeOK, GuessGiven, NEW p \in Procs,
             RndInitFails(p) \/ InitNew(p) \/ InitLoad(p) \/ InitLoadFails(p)
      PROVE  GuessGiven'
  BY <1>2 DEF RndInitFails, AfterRndFailure, InitNew, InitLoad, InitLoadFails,
              GuessGiven, TypeOK
<1>3. ASSUME TypeOK, GuessGiven, NEW p \in Procs,
             Play(p) \/ OpenSave(p) \/ WriteSave(p) \/ WriteFails(p) \/ Crash(p)
      PROVE  GuessGiven'
  <2>1. CASE Play(p) \/ OpenSave(p)
    BY <1>3, <2>1 DEF Play, OpenSave, GuessGiven, TypeOK
  <2>2. CASE WriteSave(p) \/ WriteFails(p)
    BY <1>3, <2>2 DEF WriteSave, WriteFails, AfterSave, GuessGiven, TypeOK
  <2>3. CASE Crash(p)
    BY <1>3, <2>3 DEF Crash, GuessGiven, TypeOK
  <2> QED
    BY <1>3, <2>1, <2>2, <2>3
<1>4. GuessGiven /\ UNCHANGED vars => GuessGiven'
  BY DEF vars, GuessGiven
<1> QED
  BY <1>1, <1>2, <1>3, <1>4 DEF Next, Step, IInv

LEMMA RInvKept == RInv /\ [Next]_vars => RInv'
<1>1. ASSUME RInv, NEW p \in Procs, Step(p)
      PROVE  AloneInv'
  <2>1. IInv /\ TypeOK /\ GuessGiven /\ AloneInv
    BY <1>1 DEF RInv, IInv
  <2>2. CASE met'
    BY <2>2 DEF AloneInv
  <2> QED
    BY <1>1, <2>1, <2>2, StartAlone, WayKept
<1>2. ASSUME RInv, UNCHANGED vars
      PROVE  AloneInv'
  BY <1>2 DEF RInv, vars, AloneInv, OnTheWay, GuessedFrom,
              Abs!Words, Abs!NewGames, Abs!Roll
<1> QED
  BY <1>1, <1>2, StepInv, GuessGivenKept DEF RInv, Next

(* Every step of a process that is alone is one of GuessGame, or changes   *)
(* nothing there.                                                          *)
LEMMA StepRefines ==
  ASSUME RInv, ~met', NEW p \in Procs, Step(p)
  PROVE  Abs!GuessNext \/ Saved' = Saved
<1>0. IInv /\ TypeOK /\ GuessGiven /\ AloneInv
  BY DEF RInv, IInv
<1>1. CASE Start(p)
  BY <1>0, <1>1, StartAlone
<1>2. SUFFICES ASSUME ~Start(p)
               PROVE  Abs!GuessNext \/ Saved' = Saved
  BY <1>1
<1>3. /\ ~met /\ pc[p] # "idle" /\ OnTheWay(p)
      /\ \A q \in Procs \ {p} : pc'[q] = "idle"
  BY <1>0, <1>2, StepAlone
<1>4. Saved = IF Busy(p) THEN basis ELSE file.words
  BY <1>3, SavedAlone DEF OnTheWay
<1>5. Saved' = IF Busy(p)' THEN basis' ELSE file.words'
  BY <1>3, SavedAloneNext
<1>6. game[p] \in GameType
  BY <1>0 DEF TypeOK, GameType
<1>7. CASE RndInitFails(p) \/ InitNew(p) \/ InitLoad(p) \/ InitLoadFails(p)
  BY <1>0, <1>4, <1>5, <1>7
     DEF RndInitFails, AfterRndFailure, InitNew, InitLoad, InitLoadFails, Busy, TypeOK, ghosts
<1>8. CASE Play(p)
  <2>1. pc[p] = "play" /\ pc'[p] = "open" /\ saving'[p] = "play" /\ basis' = basis
    BY <1>0, <1>8 DEF Play, TypeOK
  <2>2. saving[p] = "load"
    BY <1>3, <2>1 DEF OnTheWay
  <2> QED
    BY <1>4, <1>5, <2>1, <2>2 DEF Busy
<1>9. CASE OpenSave(p)
  <2>1. /\ pc[p] = "open" /\ pc'[p] = "write"
        /\ basis' = IF saving[p] = "new" THEN file.words ELSE basis
    BY <1>0, <1>9 DEF OpenSave, TypeOK
  <2> QED
    BY <1>4, <1>5, <2>1 DEF Busy
<1>10. CASE WriteSave(p)
  <2>1. /\ pc[p] = "write" /\ pc'[p] = AfterSave(p)
        /\ file'.words = Abs!Words(game[p])
        /\ UNCHANGED <<saving, basis>>
    BY <1>0, <1>10 DEF WriteSave, TypeOK
  <2>2. CASE saving[p] = "new"
    <3>1. Saved' = Abs!Words(game[p])
      BY <1>5, <2>1, <2>2 DEF AfterSave, Busy
    <3> QED
      BY <1>3, <2>1, <2>2, <3>1 DEF OnTheWay, Abs!GuessNext, Abs!New
  <2>3. CASE saving[p] = "load"
    BY <1>4, <1>5, <2>1, <2>3 DEF AfterSave, Busy
  <2>4. CASE saving[p] = "play"
    <3>1. Saved' = Abs!Words(game[p]) /\ Saved = basis
      BY <1>4, <1>5, <2>1, <2>4 DEF AfterSave, Busy
    <3>2. PICK h \in GameType, guess \in Guesses :
            basis = Abs!Words(h) /\ GuessedFrom(basis, game[p], guess)
      BY <1>3, <2>1, <2>4 DEF OnTheWay
    <3>3. game[p] \in Abs!GuessedGames(h, guess)
      BY <1>6, <3>2, GuessedBoth
    <3>4. Abs!Parsed(Saved) = h /\ Len(Saved) = 4
      BY <3>1, <3>2, ParsedWords
    <3>5. Abs!Guess
      BY <3>1, <3>3, <3>4 DEF Abs!Guess
    <3> QED
      BY <3>5 DEF Abs!GuessNext
  <2> QED
    BY <1>0, <2>2, <2>3, <2>4 DEF TypeOK
<1>11. CASE WriteFails(p)
  <2>1. /\ pc[p] = "write" /\ pc'[p] = AfterSave(p)
        /\ UNCHANGED <<saving, basis>>
    BY <1>0, <1>11 DEF WriteFails, TypeOK
  <2>2. Len(file'.words) < 4
    BY <1>0, <1>3, <1>11, FailsShort
  <2>3. Saved' = Saved \/ Saved' = file'.words
    BY <1>0, <1>4, <1>5, <2>1 DEF AfterSave, Busy, TypeOK
  <2> QED
    BY <2>2, <2>3 DEF Abs!GuessNext, Abs!CutShort
<1>12. CASE Crash(p)
  <2>1. pc'[p] = "idle" /\ file' = file
    BY <1>0, <1>12 DEF Crash, TypeOK
  <2>2. Busy(p) => file.words = basis \/ Len(file.words) < 4
    <3>1. file.words = <<>> => Len(file.words) < 4
      OBVIOUS
    <3> QED
      BY <1>3, <3>1 DEF Busy, OnTheWay
  <2>3. Saved' = file.words
    BY <1>5, <2>1 DEF Busy
  <2> QED
    BY <1>4, <2>2, <2>3 DEF Abs!GuessNext, Abs!CutShort
<1> QED
  BY <1>2, <1>7, <1>8, <1>9, <1>10, <1>11, <1>12 DEF Step

(* Whatever overlapped with whatever before, an invocation that overlaps   *)
(* with no other is a player of GuessGame: it replaces the saved game by a *)
(* new one or by the same one a guess later, or cuts it short.             *)
THEOREM Refinement == Spec => ImplementsGuessGame
<1>1. Init => RInv /\ Abs!GuessInit
  <2> SUFFICES ASSUME Init
               PROVE  RInv /\ Abs!GuessInit
    OBVIOUS
  <2>1. GuessGiven /\ AloneInv
    BY DEF Init, GuessGiven, AloneInv
  <2>2. Abs!GuessInit
    BY DEF Init, Abs!GuessInit, Saved, Busy
  <2> QED
    BY <2>1, <2>2, InitInv DEF RInv
<1>2. RInv /\ [Next]_vars => RInv'
  BY RInvKept
<1>3. RInv /\ [Next]_vars => [~met' => Abs!GuessNext]_Saved
  <2>1. UNCHANGED vars => Saved' = Saved
    BY DEF vars, Saved, Busy
  <2> QED
    BY <2>1, StepRefines DEF Next
<1> QED
  BY <1>1, <1>2, <1>3, PTL DEF Spec, ImplementsGuessGame

=============================================================================
