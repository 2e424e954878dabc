---------------------------- MODULE AppNetMonitor ----------------------------
(***************************************************************************)
(* apps/netmonitor/netmonitor.py: a thread samples the counters once a     *)
(* second while `running`, which the thread itself sets.                   *)
(***************************************************************************)
EXTENDS AppLists
CONSTANT MaxHistory   \* samples kept (20)
VARIABLE s

\* history is the number of samples.
Fresh == [running |-> FALSE, status |-> NoText, history |-> 0, jobs |-> NoJobs]

start ==
  /\ ~s.running /\ CanStart(s)
  /\ s' = [s EXCEPT !.jobs = Start(s, "new")]

stop == s' = [s EXCEPT !.running = FALSE, !.status = "Stopped"]

HandleInput == start \/ stop

\* Mutant of Trim: one sample late.
Trim_late(n) == IF n > MaxHistory + 1 THEN n - 1 ELSE n

\* The oldest sample goes.
Trim(n) == IF n > MaxHistory THEN n - 1 ELSE n

\* Mutant of Continues: the loop does not ask.
Continues_always == TRUE

\* while self.running
Continues == s.running

\* monitor(): a stop before the thread comes up is overwritten, and a thread
\* that sleeps through a stop and a start goes on beside the new one.
monitor(j) ==
  \/ /\ s.jobs[j] = "new"
     /\ s' = [s EXCEPT !.running = TRUE, !.status = "Monitoring", !.jobs[j] = "test"]
  \/ /\ s.jobs[j] = "test"
     /\ s' = IF Continues THEN [s EXCEPT !.history = @ + 1, !.jobs[j] = "full"]
             ELSE [s EXCEPT !.jobs[j] = Idle]
  \/ /\ s.jobs[j] = "full"
     /\ s' = [s EXCEPT !.history = Trim(@), !.jobs[j] = "test"]

Work == \E j \in Running(s) : monitor(j)

\* draw() names a `screen` that is not there, once there is a sample.
DrawRaises == s.history > 0

\* Samples beyond the limit are those of threads about to drop one.
Bounded == s.history <= MaxHistory + Cardinality({j \in Jobs : s.jobs[j] = "full"})
=============================================================================
