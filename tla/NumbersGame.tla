---------------------------- MODULE NumbersGame ----------------------------
(***************************************************************************)
(* The numbers game (numbers_game/game.c, main.c, rand.c).  Each process   *)
(* is an invocation of the program, started again when it has ended; what  *)
(* is left between two invocations is the file data.sav, which they share  *)
(* without a lock.  A step is a call that touches the file, or all the     *)
(* work between two such calls.  A process can be killed at any point, and *)
(* opening the random device or writing the file can fail.                 *)
(*                                                                         *)
(* The four words of a game are written by one write, when fclose flushes  *)
(* the buffer of the stream: a process that is killed has written all of   *)
(* them or none, and a disk without room for them all takes the first ones.*)
(* A word written in part is not distinguished from one not written.       *)
(***************************************************************************)
EXTENDS Integers, Sequences

CONSTANTS
  Procs,            \* the processes that may run at the same time
  Boundaries, Guesses,
  MaxInvocations    \* bound: how often the program is started in all

(* parse_opt rejects a boundary below two and a guess of zero. *)
ASSUME OptionsAssumption ==
  Boundaries \subseteq Nat \ {0, 1} /\ Guesses \subseteq Nat \ {0}

ASSUME InvocationsAssumption == MaxInvocations \in Nat

VARIABLES
  file,       \* data.sav: whether it exists, and the words in it
  pc,         \* where each process is in main
  args,       \* its struct arguments: the mode (gflags_t), boundary and guess
  game,       \* its game_t: score, game_count, boundary and number
  status,     \* engine->status
  saving,     \* which call of __game_save it is in, or came from last
  begun,      \* how many invocations have begun
  plays, hits,   \* the guesses made so far, and the right ones among them
  basis,      \* the words of the file that the game being saved comes after
  cut,        \* a save has been cut short since the last one that was not
  met         \* another process was running when the last one was started

vars == <<file, pc, args, game, status, saving, begun, plays, hits, basis, cut, met>>
ghosts == <<begun, plays, hits, basis, cut, met>>

E_OK   == "E_OK"
E_INIT == "E_INIT"

(* The game as module GuessGame has it: what is saved, except that a save  *)
(* under way has not happened yet, and that a game which was loaded is not *)
(* lost while the process that loaded it goes on to play it, even when     *)
(* saving it again as it was has failed.                                   *)
Busy(p) == \/ pc[p] = "write"
           \/ pc[p] \in {"open", "play"} /\ saving[p] # "new"

Saved == IF \E p \in Procs : Busy(p) THEN basis ELSE file.words

Abs == INSTANCE GuessGame WITH save <- Saved

(* The fields of a game that was not loaded: (uint32_t) -1, whatever the   *)
(* width.                                                                  *)
Unset == [score |-> -1, game_count |-> -1, boundary |-> -1, number |-> -1]

-----------------------------------------------------------------------------

(* The program is started with --new, with --try, or with both. *)
Start(p) ==
  /\ pc[p] = "idle" /\ begun < MaxInvocations
  /\ \/ \E b \in Boundaries :
          /\ args' = [args EXCEPT ![p] = [mode |-> "new", boundary |-> b, guess |-> 0]]
          /\ pc' = [pc EXCEPT ![p] = "new"]
     \/ \E g \in Guesses :
          /\ args' = [args EXCEPT ![p] = [mode |-> "try", boundary |-> 0, guess |-> g]]
          /\ pc' = [pc EXCEPT ![p] = "load"]
     \/ \E b \in Boundaries, g \in Guesses :
          /\ args' = [args EXCEPT ![p] = [mode |-> "both", boundary |-> b, guess |-> g]]
          /\ pc' = [pc EXCEPT ![p] = "new"]
  /\ game' = [game EXCEPT ![p] = Unset]
  /\ begun' = begun + 1
  /\ met' = (\E q \in Procs : pc[q] # "idle")
  /\ UNCHANGED <<file, status, saving, plays, hits, basis, cut>>

(* A mutation for the runs: main plays whatever game_init returned. *)
AfterRndFailure_Plays(p) ==
  IF pc[p] = "new" /\ args[p].mode = "both" THEN "load"
  ELSE IF pc[p] = "new" THEN "idle" ELSE "play"

(* game_init, when rnd_init cannot open the random device.  With both      *)
(* options main overwrites the error with the result of the next call.     *)
AfterRndFailure(p) == IF pc[p] = "new" /\ args[p].mode = "both" THEN "load" ELSE "idle"

RndInitFails(p) ==
  /\ pc[p] \in {"new", "load"}
  /\ status' = [status EXCEPT ![p] = E_INIT]
  /\ pc' = [pc EXCEPT ![p] = AfterRndFailure(p)]
  /\ UNCHANGED <<file, args, game, saving, ghosts>>

(* game_init with GAME_NEW, up to the call of __game_save *)
InitNew(p) ==
  /\ pc[p] = "new"
  /\ \E g \in Abs!NewGames(args[p].boundary) : game' = [game EXCEPT ![p] = g]
  /\ status' = [status EXCEPT ![p] = E_OK]
  /\ saving' = [saving EXCEPT ![p] = "new"]
  /\ pc' = [pc EXCEPT ![p] = "open"]
  /\ UNCHANGED <<file, args, ghosts>>

(* The loop of __game_load reads until a read finds the end of the file,   *)
(* so the last index it has given to __game_load_param, which check_it     *)
(* keeps, is the number of words.                                          *)
LastRead(w) == Len(w)

(* Mutations for the runs: what check_it has counted is not looked at, or  *)
(* compared with the index of the last word.                               *)
Loadable_Any(f) == f.exists

Loadable_Three(f) == f.exists /\ LastRead(f.words) = 3

(* What __game_load accepts: a file that can be opened, with check_it = 4. *)
Loadable(f) == f.exists /\ LastRead(f.words) = 4

(* What __game_load leaves in the game: the words that were read, once     *)
(* more the last one for the read that found the end of the file, and the  *)
(* -1 it began with.                                                       *)
Loaded(w) ==
  Abs!Parsed([i \in 1 .. 4 |-> IF i <= Len(w) THEN w[i]
                               ELSE IF i = Len(w) + 1 /\ w # <<>> THEN w[Len(w)] ELSE -1])

(* game_init with GAME_LOAD, up to the call of __game_save                 *)
InitLoad(p) ==
  /\ pc[p] = "load" /\ Loadable(file)
  /\ game' = [game EXCEPT ![p] = Loaded(file.words)]
  /\ status' = [status EXCEPT ![p] = E_OK]
  /\ saving' = [saving EXCEPT ![p] = "load"]
  /\ pc' = [pc EXCEPT ![p] = "open"]
  /\ basis' = file.words
  /\ UNCHANGED <<file, args, begun, plays, hits, cut, met>>

(* A mutation for the runs: the failed load leaves an empty file behind.   *)
InitLoadFails_Creates(p) ==
  /\ pc[p] = "load" /\ ~Loadable(file)
  /\ file' = [file EXCEPT !.exists = TRUE]
  /\ game' = [game EXCEPT ![p] = Loaded(file.words)]
  /\ status' = [status EXCEPT ![p] = E_INIT]
  /\ pc' = [pc EXCEPT ![p] = "idle"]
  /\ UNCHANGED <<args, saving, ghosts>>

(* There is no file, or it is corrupt: main returns the error. *)
InitLoadFails(p) ==
  /\ pc[p] = "load" /\ ~Loadable(file)
  /\ game' = [game EXCEPT ![p] = Loaded(file.words)]
  /\ status' = [status EXCEPT ![p] = E_INIT]
  /\ pc' = [pc EXCEPT ![p] = "idle"]
  /\ UNCHANGED <<file, args, saving, ghosts>>

(* game_play, up to the call of __game_save *)
Play(p) ==
  /\ pc[p] = "play"
  /\ game' \in {[game EXCEPT ![p] = g] : g \in Abs!GuessedGames(game[p], args[p].guess)}
  /\ plays' = plays + 1
  /\ hits' = IF args[p].guess = game[p].number THEN hits + 1 ELSE hits
  /\ saving' = [saving EXCEPT ![p] = "play"]
  /\ pc' = [pc EXCEPT ![p] = "open"]
  /\ UNCHANGED <<file, args, status, begun, basis, cut, met>>

(* __game_save: fopen empties the file (or makes it), fclose writes it.    *)
OpenSave(p) ==
  /\ pc[p] = "open" /\ status[p] = E_OK
  /\ file' = [exists |-> TRUE, words |-> <<>>]
  /\ basis' = IF saving[p] = "new" THEN file.words ELSE basis
  /\ pc' = [pc EXCEPT ![p] = "write"]
  /\ UNCHANGED <<args, game, status, saving, begun, plays, hits, cut, met>>

(* Where a process goes on when __game_save returns; nobody looks at what  *)
(* it returns.                                                             *)
AfterSave(p) ==
  CASE saving[p] = "new"  -> IF args[p].mode = "both" THEN "load" ELSE "idle"
    [] saving[p] = "load" -> "play"
    [] saving[p] = "play" -> "idle"

WriteSave(p) ==
  /\ pc[p] = "write"
  /\ file' = [exists |-> TRUE, words |-> Abs!Words(game[p])]
  /\ cut' = FALSE
  /\ pc' = [pc EXCEPT ![p] = AfterSave(p)]
  /\ UNCHANGED <<args, game, status, saving, begun, plays, hits, basis, met>>

(* The disk is full, and nobody looks at what fwrite and fclose return:    *)
(* nothing is written, or the first k words are, those among them that     *)
(* another process has written meanwhile being written over.               *)
WriteFails(p) ==
  /\ pc[p] = "write"
  /\ \/ UNCHANGED file
     \/ \E k \in Len(file.words) .. 3 :
          file' = [exists |-> TRUE, words |-> SubSeq(Abs!Words(game[p]), 1, k)]
  /\ cut' = TRUE
  /\ pc' = [pc EXCEPT ![p] = AfterSave(p)]
  /\ UNCHANGED <<args, game, status, saving, begun, plays, hits, basis, met>>

(* The process is killed, or aborts for the assertion that the file could  *)
(* be opened for writing.                                                  *)
Crash(p) ==
  /\ pc[p] # "idle"
  /\ cut' = (cut \/ pc[p] = "write")
  /\ pc' = [pc EXCEPT ![p] = "idle"]
  /\ UNCHANGED <<file, args, game, status, saving, begun, plays, hits, basis, met>>

-----------------------------------------------------------------------------

Init ==
  /\ file = [exists |-> FALSE, words |-> <<>>]
  /\ pc = [p \in Procs |-> "idle"]
  /\ args = [p \in Procs |-> [mode |-> "new", boundary |-> 0, guess |-> 0]]
  /\ game = [p \in Procs |-> Unset]
  /\ status = [p \in Procs |-> E_OK]
  /\ saving = [p \in Procs |-> "new"]
  /\ begun = 0 /\ plays = 0 /\ hits = 0 /\ basis = <<>> /\ cut = FALSE /\ met = FALSE

Step(p) ==
  \/ Start(p) \/ RndInitFails(p) \/ InitNew(p) \/ InitLoad(p) \/ InitLoadFails(p)
  \/ Play(p) \/ OpenSave(p) \/ WriteSave(p) \/ WriteFails(p) \/ Crash(p)

Next == \E p \in Procs : Step(p)

Spec == Init /\ [][Next]_vars

-----------------------------------------------------------------------------
(* What the game promises *)

Coherent(g) == /\ g.boundary \in Boundaries
               /\ g.number \in 1 .. g.boundary
               /\ g.game_count \in 0 .. plays
               /\ g.score \in 0 .. hits
               /\ g.score <= g.game_count

(* Type invariant. *)
TypeOK ==
  /\ file \in [exists : BOOLEAN, words : Seq(Nat)]
  /\ pc \in [Procs -> {"idle", "new", "load", "play", "open", "write"}]
  /\ args \in [Procs -> [mode : {"new", "try", "both"},
                         boundary : Boundaries \cup {0}, guess : Guesses \cup {0}]]
  /\ game \in [Procs -> [score : Int, game_count : Int, boundary : Int, number : Int]]
  /\ status \in [Procs -> {E_OK, E_INIT}]
  /\ saving \in [Procs -> {"new", "load", "play"}]
  /\ begun \in 0 .. MaxInvocations /\ plays \in Nat /\ hits \in Nat
  /\ basis \in Seq(Nat) /\ cut \in BOOLEAN /\ met \in BOOLEAN

(* Whatever processes ran at the same time and wherever they were killed,  *)
(* data.sav holds less than a game or a game somebody can have played: its *)
(* number can be guessed, and it counts no guess that was not made and no  *)
(* win that was not one.                                                   *)
SavedGameCoherent ==
  \/ Len(file.words) < 4
  \/ Len(file.words) = 4 /\ Coherent(Abs!Parsed(file.words))

(* A process that plays or saves has a game, loaded whole or made: the     *)
(* check at the top of game_play ("will break if @status was reset         *)
(* before") never has to catch anything, for main does not come there.     *)
EngineReady ==
  \A p \in Procs : pc[p] \in {"play", "open", "write"} =>
    status[p] = E_OK /\ Coherent(game[p])

(* A data.sav with less than a game, which the next player is told is      *)
(* corrupt, means that a save is under way or has been cut short.          *)
CorruptExplained ==
  file.exists /\ Len(file.words) < 4 => cut \/ \E p \in Procs : pc[p] = "write"

(* Saves are kept: a file that is there stays there, and is changed only   *)
(* by a process that is saving, to words of its own game (a failed load    *)
(* leaves it alone).                                                       *)
OnlySavesWrite ==
  [][file' # file => file'.exists /\ \E p \in Procs :
       \/ pc[p] = "open"  /\ pc'[p] = "write"
       \/ pc[p] = "write" /\ file'.words = SubSeq(Abs!Words(game[p]), 1, Len(file'.words))]_vars

(* Invocations that run while no other one does implement GuessGame,       *)
(* whatever overlapping ones have left behind before them: a game is       *)
(* replaced by a new one or by the same one a guess later, or cut short.   *)
ImplementsGuessGame == Abs!GuessInit /\ [][~met' => Abs!GuessNext]_Saved

(* What the option says: --new starts a new game with the boundary given,  *)
(* and a guess that comes with it is made in that game.                    *)
NewGameIsPlayed ==
  \A p \in Procs : pc[p] = "play" /\ args[p].mode = "both" =>
    game[p].boundary = args[p].boundary

=============================================================================
