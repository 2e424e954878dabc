------------------------------ MODULE AppTimer ------------------------------
(***************************************************************************)
(* apps/timer/timer.py: a stopwatch and a countdown over time.time().      *)
(***************************************************************************)
EXTENDS Integers, Sequences
CONSTANTS MaxTime,  \* bound: ticks of the clock
          MaxLaps   \* bound: laps
VARIABLE s

\* `now` is the clock; `ran` and `asked` record for how long the stopwatch
\* has run since R and how long the countdown has run since it was started.
Fresh == [mode |-> "menu", now |-> 0, sw_running |-> FALSE, sw_start |-> 0,
          sw_elapsed |-> 0, sw_laps |-> <<>>, tm_input |-> "none", tm_seconds |-> 0,
          tm_start |-> 0, tm_running |-> FALSE, ran |-> 0, done |-> FALSE]

Tick ==
  /\ s.now < MaxTime
  /\ s' = [s EXCEPT !.now = @ + 1, !.ran = IF s.sw_running THEN @ + 1 ELSE @]

MenuKey ==
  /\ s.mode = "menu"
  /\ \/ s' = [s EXCEPT !.mode = "stopwatch"]
     \/ s' = [s EXCEPT !.mode = "timer_input", !.tm_input = "none"]

\* Mutant of elapsed: the earlier runs are forgotten while it runs again.
elapsed_fresh == IF s.sw_running THEN s.now - s.sw_start ELSE s.sw_elapsed

elapsed == s.sw_elapsed + (IF s.sw_running THEN s.now - s.sw_start ELSE 0)

\* S starts and stops, L records a lap, R starts over.
StopwatchKey ==
  /\ s.mode = "stopwatch"
  /\ \/ s.sw_running /\ s' = [s EXCEPT !.sw_elapsed = elapsed, !.sw_running = FALSE]
     \/ ~s.sw_running /\ s' = [s EXCEPT !.sw_start = s.now, !.sw_running = TRUE]
     \/ /\ s.sw_running /\ Len(s.sw_laps) < MaxLaps
        /\ s' = [s EXCEPT !.sw_laps = Append(@, elapsed)]
     \/ s' = [s EXCEPT !.sw_running = FALSE, !.sw_elapsed = 0, !.sw_laps = <<>>,
                       !.ran = 0]

\* The digits typed so far: none, a number of seconds, or a digit that
\* isdigit() accepts and int() does not.
InputKey ==
  /\ s.mode = "timer_input"
  /\ \/ \E t \in {"none", "number", "superscript"} : s' = [s EXCEPT !.tm_input = t]
     \/ /\ s.tm_input = "number"
        /\ \E n \in 0..MaxTime :
             s' = [s EXCEPT !.tm_seconds = n, !.tm_start = s.now,
                     !.tm_running = TRUE, !.mode = "timer_run", !.done = FALSE]

\* S stops, and starts the countdown again from the whole time.
RunKey ==
  /\ s.mode = "timer_run"
  /\ \/ s.tm_running /\ s' = [s EXCEPT !.tm_running = FALSE]
     \/ ~s.tm_running /\ s' = [s EXCEPT !.tm_start = s.now, !.tm_running = TRUE,
                                        !.done = FALSE]
     \/ s' = [s EXCEPT !.tm_running = FALSE, !.tm_start = 0,
                       !.mode = "timer_input", !.tm_input = "none"]

HandleInput == MenuKey \/ StopwatchKey \/ InputKey \/ RunKey

HandleEsc ==
  \/ s.mode \in {"stopwatch", "timer_input"} /\ s' = [s EXCEPT !.mode = "menu"]
  \/ s.mode = "timer_run" /\ s' = [s EXCEPT !.tm_running = FALSE, !.mode = "menu"]

InputRaises == s.mode = "timer_input" /\ s.tm_input = "superscript"

\* draw_timer_run() ends the countdown: it runs only while it is on screen.
Draw ==
  /\ s.mode = "timer_run" /\ s.tm_running
  /\ s.tm_seconds - (s.now - s.tm_start) <= 0
  /\ s' = [s EXCEPT !.tm_running = FALSE, !.done = TRUE]

\* The stopwatch shows the time it has run, laps are in order, and DONE! is
\* not drawn before the seconds asked for have passed.
Exact ==
  /\ elapsed = s.ran
  /\ \A i \in DOMAIN s.sw_laps : s.sw_laps[i] <= s.ran
  /\ \A i, j \in DOMAIN s.sw_laps : i < j => s.sw_laps[i] <= s.sw_laps[j]
  /\ s.done => s.now - s.tm_start >= s.tm_seconds
=============================================================================
