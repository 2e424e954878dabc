----------------------------- MODULE AppPackets ------------------------------
(***************************************************************************)
(* apps/packetanalyzer/packetanalyzer.py: every S starts a capture thread; *)
(* all of them run until `running` is false, and fill one list.            *)
(***************************************************************************)
EXTENDS AppLists
CONSTANT MaxPackets   \* packets kept (50)
VARIABLE s

\* packets is the number of packets in the list.
Fresh == [running |-> FALSE, status |-> NoText, packets |-> 0, jobs |-> NoJobs]

start ==
  /\ CanStart(s)
  /\ s' = [s EXCEPT !.running = TRUE, !.status = "Capturing", !.jobs = Start(s, "open")]

stop == s' = [s EXCEPT !.running = FALSE, !.status = "Stopped"]

clear == s' = [s EXCEPT !.packets = 0]

HandleInput == start \/ stop \/ clear

\* capture(): no raw socket, no capture, and every other thread ends too.
\* pop(0) on a list that C has just replaced raises and ends the same way.
capture(j) ==
  LET fails == s' = [s EXCEPT !.status = "Error", !.running = FALSE, !.jobs[j] = Idle]
  IN \/ /\ s.jobs[j] = "open"
        /\ s' = [s EXCEPT !.jobs[j] = "test"] \/ fails
     \/ /\ s.jobs[j] = "test"
        /\ \/ ~s.running /\ s' = [s EXCEPT !.jobs[j] = Idle]
           \/ s.running /\ s' = [s EXCEPT !.packets = @ + 1, !.jobs[j] = "count"]
           \/ s.running /\ fails
           \/ s.running /\ UNCHANGED s
     \/ /\ s.jobs[j] = "count"
        /\ s' = [s EXCEPT !.jobs[j] = IF s.packets > MaxPackets THEN "pop" ELSE "test"]
     \/ /\ s.jobs[j] = "pop"
        /\ IF s.packets > 0
           THEN s' = [s EXCEPT !.packets = @ - 1, !.jobs[j] = "test"]
           ELSE fails

Work == \E j \in Running(s) : capture(j)

\* Packets beyond the limit are those of threads about to drop one.
Bounded == s.packets <= MaxPackets + Cardinality({j \in Jobs : s.jobs[j] \in {"count", "pop"}})
=============================================================================
