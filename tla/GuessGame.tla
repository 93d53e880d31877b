----------------------------- MODULE GuessGame -----------------------------
(***************************************************************************)
(* What the numbers game (numbers_game/) promises a player who runs it     *)
(* once at a time: a saved game, which each invocation replaces by a new   *)
(* one or by the same one a guess later, all at once; or a save that was   *)
(* cut short and holds less than a game, which nobody plays on from.       *)
(***************************************************************************)
EXTENDS Integers, Sequences

CONSTANTS
  Boundaries,   \* the numbers that can follow --new
  Guesses       \* the numbers that can follow --try

VARIABLE save    \* the words of the saved game, or fewer

Game == [score : Nat, game_count : Nat, boundary : Boundaries, number : Nat]

(* A game as __game_save writes it and __game_load reads it (SAV_PARAM).   *)
Words(g) == <<g.score, g.game_count, g.boundary, g.number>>

Parsed(w) == [score |-> w[1], game_count |-> w[2], boundary |-> w[3], number |-> w[4]]

(* A mutation for the runs: the least number is zero.                      *)
Roll_FromZero(boundary) == 0 .. boundary - 1

(* What rnd_rand may answer: min + rnd_get32 % max, with min = 1. *)
Roll(boundary) == 1 .. boundary

NewGames(boundary) ==
  {[score |-> 0, game_count |-> 0, boundary |-> boundary, number |-> n] : n \in Roll(boundary)}

(* The games a guess can lead to.                                          *)
GuessedGames(g, guess) ==
  IF guess = g.number
  THEN {[g EXCEPT !.game_count = @ + 1, !.score = @ + 1, !.number = n] : n \in Roll(g.boundary)}
  ELSE {[g EXCEPT !.game_count = @ + 1]}

-----------------------------------------------------------------------------

New == \E b \in Boundaries : \E g \in NewGames(b) : save' = Words(g)

Guess ==
  /\ Len(save) = 4
  /\ \E guess \in Guesses : \E g \in GuessedGames(Parsed(save), guess) : save' = Words(g)

CutShort == Len(save') < 4

GuessInit == save = <<>>

GuessNext == New \/ Guess \/ CutShort

GuessSpec == GuessInit /\ [][GuessNext]_save

=============================================================================
