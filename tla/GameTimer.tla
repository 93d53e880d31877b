----------------------------- MODULE GameTimer -----------------------------
(***************************************************************************)
(* The timer of the minesweeper (stimer_t and gt_* in minesweeper/game.c), *)
(* as functions from timers to timers.  Time is in seconds; the instant    *)
(* gettimeofday answers is the argument now.  The field curr is not here:  *)
(* it only holds now between two lines of gt_advance.                      *)
(***************************************************************************)
EXTENDS Integers

gt_reset == [start |-> 0, delta |-> 0, secs |-> 0, mins |-> 0, is_paused |-> TRUE]

gt_start(t, now) ==
  IF t.is_paused THEN [t EXCEPT !.is_paused = FALSE, !.start = now] ELSE t

(* A mutation for the runs: the timer is not stopped. *)
gt_stop_Running(t) == t

gt_stop(t) == [t EXCEPT !.is_paused = TRUE]

(* Mutations for the runs: the minutes overflow one minute early, or the    *)
(* seconds run on past the minute.                                         *)
gt_advance_Early(t, now) ==
  IF t.is_paused THEN t
  ELSE IF t.mins > 98 THEN [t EXCEPT !.secs = 99, !.mins = 99]
  ELSE [t EXCEPT !.delta = now - t.start,
                 !.secs  = (now - t.start) % 60,
                 !.mins  = (now - t.start) \div 60]

gt_advance_NoMinute(t, now) ==
  IF t.is_paused THEN t
  ELSE IF t.mins > 99 THEN [t EXCEPT !.secs = 99, !.mins = 99]
  ELSE [t EXCEPT !.delta = now - t.start,
                 !.secs  = now - t.start,
                 !.mins  = (now - t.start) \div 60]

(* Past 99 minutes the displays are set to 99:99, which is not past 99     *)
(* minutes: the call after that computes them from the clock again.        *)
gt_advance(t, now) ==
  IF t.is_paused THEN t
  ELSE IF t.mins > 99 THEN [t EXCEPT !.secs = 99, !.mins = 99]
  ELSE [t EXCEPT !.delta = now - t.start,
                 !.secs  = (now - t.start) % 60,
                 !.mins  = (now - t.start) \div 60]

=============================================================================
