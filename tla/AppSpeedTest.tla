---------------------------- MODULE AppSpeedTest -----------------------------
(***************************************************************************)
(* apps/speedtest/speedtest.py.  start() asks whether a test is running,   *)
(* but it is the thread that says so: S twice starts two tests.            *)
(***************************************************************************)
EXTENDS AppLists
VARIABLE s

\* `twice` records that S came before the thread of the last S had run.
Fresh == [status |-> "idle", running |-> FALSE, jobs |-> NoJobs, twice |-> FALSE]

start ==
  /\ ~s.running /\ CanStart(s)
  /\ s' = [s EXCEPT !.jobs = Start(s, "new"), !.twice = @ \/ Running(s) # {}]

HandleInput == start

\* run(): ping, then download; an error is a result like any other.
After == [new |-> "ping", ping |-> "download", download |-> "complete"]

\* Mutant of Step: the thread ends with `running` set.
Step_stays(j) ==
  LET pc == s.jobs[j] IN
    IF pc = "complete" THEN s' = [s EXCEPT !.jobs[j] = Idle]
    ELSE s' = [s EXCEPT !.running = IF pc = "new" THEN TRUE ELSE @,
                        !.status = After[pc], !.jobs[j] = After[pc]]

Step(j) ==
  LET pc == s.jobs[j] IN
    IF pc = "complete"
    THEN s' = [s EXCEPT !.running = FALSE, !.jobs[j] = Idle]
    ELSE s' = [s EXCEPT !.running = IF pc = "new" THEN TRUE ELSE @,
                        !.status = After[pc], !.jobs[j] = After[pc]]

Work == \E j \in Running(s) : Step(j)

\* urlretrieve() has no timeout: a download ends when the server lets it.
Downloading == \E j \in Running(s) : s.jobs[j] = "download"
Prompt == \E j \in Running(s) : s.jobs[j] # "download" /\ Step(j)

\* One test at a time, and the screen says where it is, unless S was hit
\* again before the thread came up.
Own == ~s.twice =>
  /\ Cardinality(Running(s)) <= 1
  /\ \A j \in Running(s) : s.jobs[j] # "new" => s.running /\ s.status = s.jobs[j]
  /\ Running(s) = {} => ~s.running
=============================================================================
