------------------------------- MODULE PMProofs --------------------------------
(***************************************************************************)
(* The safety properties of the process manager, for any number of         *)
(* services, priorities, processes and restarts, whether or not fork may   *)
(* fail.                                                                   *)
(***************************************************************************)
EXTENDS JuliusPM, FiniteSetTheorems, TLAPS

-----------------------------------------------------------------------------
(* The inductive invariant *)

\* How the places of the three fit: the watchdog exists when main is done, the handler
\* runs once the signal came, and main exits when the handler is through.
PlaceInv ==
    /\ pc.watchdog # "none" => started = Services /\ pc.main \in {"loop", "exited"}
    /\ pc.main \in {"start", "fork", "record", "run"} => at.main \in started
    /\ running <=> pc.handler = "none"
    /\ pc.handler = "none" => at.handler = 1 /\ upAtSignal = {}
    /\ pc.main = "exited" => pc.handler = "done"

\* A pid names a process of its service.
PidInv ==
    /\ \A s \in Services : pid[s] # NoPid => proc[pid[s]].of = s
    /\ \A th \in Threads : pc[th] = "record" => forked[th] \in Pids /\ proc[forked[th]].of = at[th]
    /\ \A p \in upAtSignal : proc[p].status # "unused"
    /\ \A p \in Pids : proc[p].status = "unused" <=> proc[p].of = 0

\* The watchdog may still find out about the process of s and start another.
WatchMay(s) ==
    \/ running
    \/ pc.watchdog \in {"scan", "poll"} /\ at.watchdog <= s
    \/ pc.watchdog \in {"fail", "forget", "start", "fork", "record", "run"} /\ at.watchdog < s

\* Who is about to fork starts from nothing.
FreshInv ==
    /\ \A s \in Services :
          s \notin started \/ (at.main = s /\ pc.main \in {"start", "fork"}) => Of(s) = {}
    /\ pc.watchdog \in {"fail", "forget", "start", "fork"} =>
          \A p \in Of(at.watchdog) : ~Alive(p)
    /\ \A th \in Threads : pc[th] = "record" =>
          \A p \in Of(at[th]) : Alive(p) => p = forked[th]

\* A live process the watchdog may look for is the one s->pid names, or about to be.
KnownInv == \A s \in Services : WatchMay(s) => \A p \in Of(s) : Alive(p) =>
    pid[s] = p \/ \E th \in Threads : pc[th] = "record" /\ at[th] = s /\ forked[th] = p

\* The handler clears s->pid only of a service that has no process left, unless main
\* is about to write it.
StopInv ==
    /\ pc.handler \in {"stopped", "clear"} /\ WatchMay(at.handler) =>
          \A p \in Of(at.handler) : Alive(p) =>
             pc.main = "record" /\ at.main = at.handler /\ forked["main"] = p
    /\ pc.handler = "wait" /\ WatchMay(at.handler) => awaited = pid[at.handler]

\* A fork that is under way is charged for.
BudgetInv ==
    /\ RestartBudget
    /\ pc.watchdog \in {"start", "fork"} =>
          Cardinality(Of(at.watchdog)) <= restart_count[at.watchdog]

\* What was running when the signal came and still is, the handler will come to.
LeftInv == \A p \in upAtSignal : Alive(p) =>
    LET s == proc[p].of IN
    /\ pid[s] = p
    /\ pc.handler \notin {"none", "done"}
    /\ \/ at.handler < s /\ state[s] = "running"
       \/ at.handler = s /\ pc.handler \in {"check", "mark"} /\ state[s] = "running"
       \/ at.handler = s /\ pc.handler \in {"term", "poll", "kill"}

IInv == /\ TypeOK /\ PlaceInv /\ PidInv /\ FreshInv /\ KnownInv /\ StopInv /\ OneInstance
        /\ BudgetInv /\ LeftInv

-----------------------------------------------------------------------------
(* Places and types *)

\* A loop over the services stays inside them and ends at the first.
LEMMA AdvanceStep ==
    ASSUME TypeOK, NEW th \in {"watchdog", "handler"}, NEW again, NEW end, Advance(th, again, end)
    PROVE  /\ pc' = [pc EXCEPT ![th] = IF at[th] < svc_count THEN again ELSE end]
           /\ at' = [at EXCEPT ![th] = IF at[th] < svc_count THEN at[th] + 1 ELSE 1]
           /\ at' \in [main : Services, watchdog : Services, handler : Services]
           /\ at'[th] \in Services
  <1>1. at[th] \in 1..svc_count /\ svc_count \in Nat \ {0}
    BY PMAssumption DEF TypeOK, Services
  <1>2. at' = [at EXCEPT ![th] = IF at[th] < svc_count THEN at[th] + 1 ELSE 1]
    BY DEF Advance
  <1>3. (IF at[th] < svc_count THEN at[th] + 1 ELSE 1) \in Services
    BY <1>1 DEF Services
  <1>4. at' \in [main : Services, watchdog : Services, handler : Services] /\ at'[th] \in Services
    BY <1>2, <1>3 DEF TypeOK
  <1> QED BY <1>2, <1>4 DEF Advance, Goto

\* Every step keeps the types.
LEMMA StepType == IInv /\ [Next]_vars => TypeOK'
  <1> SUFFICES ASSUME IInv, [Next]_vars PROVE TypeOK'
    OBVIOUS
  <1>t. TypeOK /\ PidInv /\ PlaceInv
    BY DEF IInv
  <1>1. ASSUME NEW th \in Threads, StartService(th) PROVE TypeOK'
    BY <1>1, <1>t DEF StartService, Goto, TypeOK, Threads, States
  <1>2. ASSUME NEW th \in Threads, Fork(th) PROVE TypeOK'
    BY <1>2, <1>t DEF Fork, Goto, TypeOK, Threads
  <1>3. ASSUME NEW th \in Threads, ForkError(th) PROVE TypeOK'
    BY <1>3, <1>t, AdvanceStep DEF ForkError, Return, Goto, TypeOK, Threads, States
  <1>4. ASSUME NEW th \in Threads, RecordPid(th) PROVE TypeOK'
    BY <1>4, <1>t DEF RecordPid, Goto, TypeOK, Threads
  <1>5. ASSUME NEW th \in Threads, SetRunning(th) PROVE TypeOK'
    BY <1>5, <1>t, AdvanceStep DEF SetRunning, Return, Goto, TypeOK, Threads, States
  <1>6. CASE MainNext \/ MainWatchdog \/ MainExit
    BY <1>6, <1>t DEF MainNext, MainWatchdog, MainExit, Goto, TypeOK
  <1>7. CASE WatchTop \/ WatchScan \/ WatchFail
    BY <1>7, <1>t DEF WatchTop, WatchScan, WatchFail, Goto, TypeOK, States
  <1>8. CASE WatchSkip \/ WatchHealthy \/ WatchGiveUp
    BY <1>8, <1>t, AdvanceStep DEF WatchSkip, WatchHealthy, WatchGiveUp, TypeOK
  <1>9. CASE WatchReap
    BY <1>9, <1>t DEF WatchReap, Reap, Children, Goto, TypeOK
  <1>10. CASE WatchRestart
    <2>1. restart_count[at.watchdog] + 1 \in 0..MaxRestarts
      BY <1>10, <1>t, PMAssumption DEF WatchRestart, TypeOK
    <2> QED BY <2>1, <1>10, <1>t DEF WatchRestart, Goto, TypeOK
  <1>11. CASE Signal
    BY <1>11, <1>t DEF Signal, Goto, TypeOK
  <1>12. CASE StopSkip \/ StopClear
    BY <1>12, <1>t, AdvanceStep DEF StopSkip, StopClear, TypeOK
  <1>13. CASE StopFound \/ StopMark \/ StopTerm \/ StopGrace \/ StopCall \/ StopStopped
    BY <1>13, <1>t DEF StopFound, StopMark, StopTerm, StopGrace, StopCall, StopStopped, Goto, TypeOK, States
  <1>14. CASE StopPolled \/ StopWait
    BY <1>14, <1>t DEF StopPolled, StopWait, Reap, Children, Goto, TypeOK
  <1>15. CASE StopKill
    BY <1>15, <1>t DEF StopKill, Goto, TypeOK
  <1>16. ASSUME NEW p \in Pids, Exit(p) PROVE TypeOK'
    BY <1>16, <1>t DEF Exit, TypeOK
  <1>17. CASE UNCHANGED vars
    BY <1>17, <1>t DEF vars, TypeOK
  <1> QED BY <1>1, <1>2, <1>3, <1>4, <1>5, <1>6, <1>7, <1>8, <1>9, <1>10, <1>11, <1>12, <1>13,
             <1>14, <1>15, <1>16, <1>17
          DEF Next, Main, Watchdog, Handler, PmStart, Threads

\* Every step keeps the places together.
LEMMA StepPlace == IInv /\ [Next]_vars => PlaceInv'
  <1> SUFFICES ASSUME IInv, [Next]_vars PROVE PlaceInv'
    OBVIOUS
  <1>t. TypeOK /\ PlaceInv
    BY DEF IInv
  <1>1. ASSUME NEW th \in Threads, StartService(th) \/ Fork(th) \/ RecordPid(th) PROVE PlaceInv'
    BY <1>1, <1>t DEF StartService, Fork, RecordPid, Goto, Runs, TypeOK, PlaceInv, Threads
  <1>2. ASSUME NEW th \in Threads, ForkError(th) \/ SetRunning(th) PROVE PlaceInv'
    BY <1>2, <1>t, AdvanceStep
    DEF ForkError, SetRunning, Return, Goto, Runs, TypeOK, PlaceInv, Threads
  <1>3. CASE MainNext \/ MainWatchdog \/ MainExit
    BY <1>3, <1>t DEF MainNext, MainWatchdog, MainExit, Goto, Runs, TypeOK, PlaceInv
  <1>4. CASE WatchTop \/ WatchScan \/ WatchReap \/ WatchFail \/ WatchRestart
    BY <1>4, <1>t DEF WatchTop, WatchScan, WatchReap, WatchFail, WatchRestart, Goto, TypeOK, PlaceInv
  <1>5. CASE WatchSkip \/ WatchHealthy \/ WatchGiveUp
    BY <1>5, <1>t, AdvanceStep DEF WatchSkip, WatchHealthy, WatchGiveUp, TypeOK, PlaceInv
  <1>6. CASE Signal
    BY <1>6, <1>t DEF Signal, Goto, TypeOK, PlaceInv
  <1>7. CASE StopSkip \/ StopClear
    BY <1>7, <1>t, AdvanceStep DEF StopSkip, StopClear, TypeOK, PlaceInv
  <1>8. CASE \/ StopFound \/ StopMark \/ StopTerm \/ StopPolled \/ StopGrace \/ StopKill \/ StopCall
             \/ StopWait \/ StopStopped
    BY <1>8, <1>t DEF StopFound, StopMark, StopTerm, StopPolled, StopGrace, StopKill, StopCall,
                      StopWait, StopStopped, Goto, TypeOK, PlaceInv
  <1>9. ASSUME NEW p \in Pids, Exit(p) PROVE PlaceInv'
    BY <1>9, <1>t DEF Exit, PlaceInv
  <1>10. CASE UNCHANGED vars
    BY <1>10, <1>t DEF vars, PlaceInv
  <1> QED BY <1>1, <1>2, <1>3, <1>4, <1>5, <1>6, <1>7, <1>8, <1>9, <1>10
          DEF Next, Main, Watchdog, Handler, PmStart, Threads

-----------------------------------------------------------------------------
(* Processes *)

\* No process is started; some may end.
NoBirth == \A p \in Pids :
    /\ proc'[p].of = proc[p].of
    /\ proc'[p].status = "alive" => proc[p].status = "alive"
    /\ proc'[p].status = "unused" <=> proc[p].status = "unused"

\* Only fork starts a process.
LEMMA OnlyForkStarts ==
    ASSUME IInv, [Next]_vars
    PROVE  NoBirth \/ \E th \in Threads : Fork(th)
  <1>t. TypeOK
    BY DEF IInv
  <1>1. ASSUME UNCHANGED proc PROVE NoBirth
    BY <1>1 DEF NoBirth
  <1>2. ASSUME NEW p \in Pids, NEW status \in {"zombie", "reaped"}, proc[p].status # "unused",
               proc' = [proc EXCEPT ![p].status = status]
        PROVE  NoBirth
    BY <1>2, <1>t DEF NoBirth, TypeOK
  <1>3. CASE StopKill
    BY <1>3, <1>t DEF StopKill, Children, NoBirth, TypeOK
  <1>4. CASE WatchReap \/ StopPolled \/ StopWait
    <2>1. UNCHANGED proc \/ \E p \in Pids : Zombie(p) /\ Reap(p)
      BY <1>4 DEF WatchReap, StopPolled, StopWait, Children
    <2> QED BY <2>1, <1>1, <1>2 DEF Zombie, Reap
  <1>5. ASSUME NEW p \in Pids, Exit(p) PROVE NoBirth
    BY <1>5, <1>2 DEF Exit, Alive
  <1>6. ASSUME NEW th \in Threads, StartService(th) \/ ForkError(th) \/ RecordPid(th) \/ SetRunning(th)
        PROVE  UNCHANGED proc
    BY <1>6 DEF StartService, ForkError, RecordPid, SetRunning
  <1>7. CASE \/ MainNext \/ MainWatchdog \/ MainExit \/ WatchTop \/ WatchSkip \/ WatchScan
             \/ WatchHealthy \/ WatchFail \/ WatchRestart \/ WatchGiveUp \/ Signal \/ UNCHANGED vars
    BY <1>7, <1>1 DEF MainNext, MainWatchdog, MainExit, WatchTop, WatchSkip, WatchScan,
                      WatchHealthy, WatchFail, WatchRestart, WatchGiveUp, Signal, vars
  <1>8. CASE \/ StopSkip \/ StopFound \/ StopMark \/ StopTerm \/ StopGrace \/ StopCall \/ StopStopped
             \/ StopClear
    BY <1>8, <1>1 DEF StopSkip, StopFound, StopMark, StopTerm, StopGrace, StopCall, StopStopped, StopClear
  <1> QED BY <1>1, <1>3, <1>4, <1>5, <1>6, <1>7, <1>8
          DEF Next, Main, Watchdog, Handler, PmStart, Threads

\* What stays of the processes of a service.
LEMMA NoBirthOf ==
    ASSUME NoBirth
    PROVE  /\ \A s : Of(s)' = Of(s)
           /\ \A p \in Pids : Alive(p)' => Alive(p)
  BY DEF NoBirth, Of, Alive

\* What fork adds.
LEMMA ForkAdds ==
    ASSUME IInv, NEW th \in Threads, Fork(th)
    PROVE  \E p \in Pids :
              /\ proc[p].of = 0 /\ ~Alive(p)
              /\ Of(at[th])' = Of(at[th]) \cup {p}
              /\ \A s \in Services : s # at[th] => Of(s)' = Of(s)
              /\ \A q \in Pids : q # p => (Alive(q)' <=> Alive(q)) /\ proc'[q] = proc[q]
              /\ proc'[p] = [of |-> at[th], status |-> "alive"]
              /\ forked' = [forked EXCEPT ![th] = p]
  <1>t. TypeOK
    BY DEF IInv
  <1>0. at[th] \in Services /\ 0 \notin Services
    BY <1>t DEF TypeOK, Threads, Services
  <1>1. PICK p \in Pids :
           /\ proc[p] = Unused
           /\ proc' = [proc EXCEPT ![p] = [of |-> at[th], status |-> "alive"]]
           /\ forked' = [forked EXCEPT ![th] = p]
    BY DEF Fork
  <1>2. /\ proc'[p] = [of |-> at[th], status |-> "alive"]
        /\ \A q \in Pids : q # p => proc'[q] = proc[q]
    BY <1>1, <1>t DEF TypeOK
  <1>3. proc[p].of = 0 /\ proc[p].status = "unused"
    BY <1>1 DEF Unused
  <1>4. Of(at[th])' = Of(at[th]) \cup {p}
    <2>1. Of(at[th])' = {q \in Pids : proc'[q].of = at'[th]}
      BY DEF Of
    <2>2. at' = at
      BY DEF Fork
    <2> QED BY <2>1, <2>2, <1>2 DEF Of
  <1>5. \A s \in Services : s # at[th] => Of(s)' = Of(s)
    BY <1>0, <1>2, <1>3 DEF Of
  <1> QED BY <1>1, <1>2, <1>3, <1>4, <1>5 DEF Alive

\* A step that is neither Fork nor RecordPid clears pids at most, and leads no thread to
\* write one.
LEMMA OnlyRecordWrites ==
    ASSUME IInv, [Next]_vars, \A th \in Threads : ~Fork(th) /\ ~RecordPid(th)
    PROVE  /\ NoBirth /\ UNCHANGED forked
           /\ \A s \in Services : pid'[s] \in {pid[s], NoPid}
           /\ \A th \in Threads : pc'[th] = "record" => pc[th] = "record" /\ at'[th] = at[th]
  <1>t. TypeOK
    BY DEF IInv
  <1>0. NoBirth
    BY OnlyForkStarts
  <1>1. ASSUME NEW th \in Threads, StartService(th) \/ ForkError(th) \/ SetRunning(th)
        PROVE  /\ UNCHANGED <<forked, pid>>
               /\ \A u \in Threads : pc'[u] = "record" => pc[u] = "record" /\ at'[u] = at[u]
    BY <1>1, <1>t, AdvanceStep
    DEF StartService, ForkError, SetRunning, Return, Goto, TypeOK, Threads
  <1>2. CASE MainNext \/ MainWatchdog \/ MainExit
    BY <1>0, <1>2, <1>t DEF MainNext, MainWatchdog, MainExit, Goto, TypeOK, Threads
  <1>3. CASE WatchTop \/ WatchScan \/ WatchReap \/ WatchFail \/ WatchRestart
    BY <1>0, <1>3, <1>t
    DEF WatchTop, WatchScan, WatchReap, WatchFail, WatchRestart, Goto, TypeOK, Threads
  <1>4. CASE WatchSkip \/ WatchHealthy \/ WatchGiveUp
    BY <1>0, <1>4, <1>t, AdvanceStep DEF WatchSkip, WatchHealthy, WatchGiveUp, TypeOK, Threads
  <1>5. CASE StopSkip \/ StopClear
    BY <1>0, <1>5, <1>t, AdvanceStep DEF StopSkip, StopClear, TypeOK, Threads
  <1>6. CASE \/ StopFound \/ StopMark \/ StopTerm \/ StopPolled \/ StopGrace \/ StopKill \/ StopCall
             \/ StopWait \/ StopStopped \/ Signal
    BY <1>0, <1>6, <1>t DEF StopFound, StopMark, StopTerm, StopPolled, StopGrace, StopKill, StopCall,
                      StopWait, StopStopped, Signal, Goto, TypeOK, Threads
  <1>7. CASE UNCHANGED vars \/ \E p \in Pids : Exit(p)
    BY <1>0, <1>7 DEF Exit, vars
  <1> QED BY <1>0, <1>1, <1>2, <1>3, <1>4, <1>5, <1>6, <1>7
          DEF Next, Main, Watchdog, Handler, PmStart, Threads

\* Every step keeps what the pids name.
LEMMA StepPid == IInv /\ [Next]_vars => PidInv'
  <1> SUFFICES ASSUME IInv, [Next]_vars PROVE PidInv'
    OBVIOUS
  <1>t. TypeOK /\ PidInv
    BY DEF IInv
  <1>0. NoPid \notin Pids /\ 0 \notin Services
    BY PMAssumption DEF NoPid, Services
  <1>1. ASSUME NEW th \in Threads, Fork(th) PROVE PidInv'
    <2>1. PICK p \in Pids :
              /\ proc[p].of = 0 /\ ~Alive(p)
              /\ \A q \in Pids : q # p => proc'[q] = proc[q]
              /\ proc'[p] = [of |-> at[th], status |-> "alive"]
              /\ forked' = [forked EXCEPT ![th] = p]
      BY <1>1, ForkAdds
    <2>2. pc' = [pc EXCEPT ![th] = "record"] /\ UNCHANGED <<pid, at, upAtSignal>> /\ at[th] \in Services
      BY <1>1, <1>t DEF Fork, Goto, TypeOK, Threads
    <2>3. proc[p].status = "unused"
      BY <2>1, <1>t DEF PidInv
    <2>4. \A s \in Services : pid'[s] # NoPid => proc'[pid'[s]].of = s
      BY <2>1, <2>2, <1>0, <1>t DEF PidInv, TypeOK
    <2>5. ASSUME NEW u \in Threads, pc'[u] = "record"
          PROVE  forked'[u] \in Pids /\ proc'[forked'[u]].of = at'[u]
      <3>1. CASE u = th
        BY <3>1, <2>1, <2>2, <1>t DEF TypeOK
      <3>2. CASE u # th
        <4>1. pc[u] = "record" /\ forked'[u] = forked[u] /\ at'[u] = at[u]
          BY <3>2, <2>1, <2>2, <2>5, <1>t DEF TypeOK, Threads
        <4>2. forked[u] \in Pids /\ proc[forked[u]].of = at[u] /\ at[u] # 0
          BY <4>1, <1>t, <1>0 DEF PidInv, TypeOK, Threads
        <4> QED BY <4>1, <4>2, <2>1
      <3> QED BY <3>1, <3>2
    <2>6. \A q \in upAtSignal' : proc'[q].status # "unused"
      BY <2>1, <2>2, <1>t DEF PidInv, TypeOK
    <2>7. \A q \in Pids : proc'[q].status = "unused" <=> proc'[q].of = 0
      BY <2>1, <2>2, <1>0, <1>t DEF PidInv
    <2> QED BY <2>4, <2>5, <2>6, <2>7 DEF PidInv
  <1>2. ASSUME NEW th \in Threads, RecordPid(th) PROVE PidInv'
    <2>1. forked[th] \in Pids /\ proc[forked[th]].of = at[th] /\ at[th] \in Services
      BY <1>2, <1>t DEF RecordPid, PidInv, TypeOK, Threads
    <2>2. \A s \in Services : pid'[s] = IF s = at[th] THEN forked[th] ELSE pid[s]
      BY <1>2, <1>t DEF RecordPid, TypeOK
    <2>3. \A u \in Threads : pc'[u] = "record" => pc[u] = "record" /\ forked'[u] = forked[u]
      BY <1>2, <1>t DEF RecordPid, Goto, TypeOK, Threads
    <2>4. UNCHANGED <<at, proc, upAtSignal>>
      BY <1>2 DEF RecordPid
    <2> QED BY <2>1, <2>2, <2>3, <2>4, <1>t DEF PidInv
  <1>3. ASSUME \A th \in Threads : ~Fork(th) /\ ~RecordPid(th) PROVE PidInv'
    <2>1. /\ NoBirth /\ UNCHANGED forked
          /\ \A s \in Services : pid'[s] \in {pid[s], NoPid}
          /\ \A th \in Threads : pc'[th] = "record" => pc[th] = "record" /\ at'[th] = at[th]
      BY <1>3, OnlyRecordWrites
    <2>2. \A p \in upAtSignal' : p \in Pids /\ proc[p].status # "unused"
      <3>1. upAtSignal' = upAtSignal \/ \A p \in upAtSignal' : p \in Pids /\ Alive(p)
        BY <1>3 DEF Next, Main, Watchdog, Handler, PmStart, StartService, ForkError, SetRunning,
           MainNext, MainWatchdog, MainExit, WatchTop, WatchScan, WatchReap, WatchFail, WatchRestart,
           WatchSkip, WatchHealthy, WatchGiveUp, StopSkip, StopClear, StopFound, StopMark, StopTerm,
           StopPolled, StopGrace, StopKill, StopCall, StopWait, StopStopped, Signal, Exit, vars, Threads
      <3> QED BY <3>1, <1>t DEF Alive, PidInv, TypeOK
    <2>3. \A s \in Services : pid[s] # NoPid => pid[s] \in Pids
      BY <1>t DEF TypeOK
    <2> QED BY <2>1, <2>2, <2>3, <1>t DEF PidInv, NoBirth
  <1> QED BY <1>1, <1>2, <1>3

-----------------------------------------------------------------------------
(* Nobody forks beside a live process *)

\* A dead child of the service the watchdog polls means that none is left alive.
LEMMA ReapedNoneLeft ==
    ASSUME IInv, WatchReap
    PROVE  \A p \in Of(at.watchdog) : ~Alive(p)'
  <1>t. TypeOK /\ PlaceInv /\ KnownInv
    BY DEF IInv
  <1> DEFINE s == at.watchdog
  <1>0. pc.watchdog = "poll" /\ s \in Services /\ WatchMay(s) /\ pc.main \notin {"record"}
    BY <1>t DEF WatchReap, WatchMay, PlaceInv, TypeOK, Services
  <1>1. SUFFICES ASSUME NEW p \in Of(s), Alive(p)' PROVE FALSE
    OBVIOUS
  <1>2. Alive(p) /\ p \in Pids
    <2>1. PICK q \in Pids : proc' = [proc EXCEPT ![q].status = "reaped"]
      BY DEF WatchReap, Reap, Children
    <2>2. p \in Pids
      BY DEF Of
    <2> QED BY <2>1, <2>2, <1>1, <1>t DEF Alive, TypeOK
  <1>3. pid[s] = p
    BY <1>0, <1>1, <1>2, <1>t DEF KnownInv, Threads
  <1>4. p # NoPid
    BY <1>2, PMAssumption DEF NoPid
  <1>5. Zombie(p)
    BY <1>3, <1>4 DEF WatchReap, Children
  <1> QED BY <1>2, <1>5 DEF Alive, Zombie

\* Every step that forks nothing keeps the ground clear for those about to fork.
LEMMA QuietFresh ==
    ASSUME IInv, [Next]_vars, NoBirth, \A th \in Threads : ~Fork(th)
    PROVE  FreshInv'
  <1>t. TypeOK /\ PlaceInv /\ FreshInv
    BY DEF IInv
  <1>o. /\ \A s : Of(s)' = Of(s)
        /\ \A p \in Pids : Alive(p)' => Alive(p)
    BY NoBirthOf
  <1> DEFINE Clear == \A s \in Services :
           s \notin started' \/ (at'.main = s /\ pc'.main \in {"start", "fork"}) =>
           s \notin started \/ (at.main = s /\ pc.main \in {"start", "fork"})
  <1>1. Clear
    <2>1. ASSUME NEW th \in Threads, StartService(th) \/ RecordPid(th) PROVE Clear
      BY <2>1, <1>t DEF StartService, RecordPid, Goto, TypeOK, Threads
    <2>2. ASSUME NEW th \in Threads, ForkError(th) \/ SetRunning(th) PROVE Clear
      BY <2>2, <1>t, AdvanceStep DEF ForkError, SetRunning, Return, Goto, TypeOK, Threads
    <2>3. CASE MainNext \/ MainWatchdog \/ MainExit
      BY <2>3, <1>t DEF MainNext, MainWatchdog, MainExit, IsNext, Goto, TypeOK
    <2>4. CASE WatchTop \/ WatchScan \/ WatchReap \/ WatchFail \/ WatchRestart
      BY <2>4, <1>t DEF WatchTop, WatchScan, WatchReap, WatchFail, WatchRestart, Goto, TypeOK
    <2>5. CASE WatchSkip \/ WatchHealthy \/ WatchGiveUp
      BY <2>5, <1>t, AdvanceStep DEF WatchSkip, WatchHealthy, WatchGiveUp, TypeOK
    <2>6. CASE StopSkip \/ StopClear
      BY <2>6, <1>t, AdvanceStep DEF StopSkip, StopClear, TypeOK
    <2>7. CASE \/ StopFound \/ StopMark \/ StopTerm \/ StopPolled \/ StopGrace \/ StopKill
               \/ StopCall \/ StopWait \/ StopStopped \/ Signal
      BY <2>7, <1>t DEF StopFound, StopMark, StopTerm, StopPolled, StopGrace, StopKill, StopCall,
                        StopWait, StopStopped, Signal, Goto, TypeOK
    <2>8. CASE UNCHANGED vars \/ \E p \in Pids : Exit(p)
      BY <2>8 DEF Exit, vars
    <2> QED BY <2>1, <2>2, <2>3, <2>4, <2>5, <2>6, <2>7, <2>8
            DEF Next, Main, Watchdog, Handler, PmStart, Threads
  <1>2. ASSUME pc'.watchdog \in {"fail", "forget", "start", "fork"}
        PROVE  \/ pc.watchdog \in {"fail", "forget", "start", "fork"} /\ at'.watchdog = at.watchdog
               \/ WatchReap /\ at'.watchdog = at.watchdog
    <2>1. ASSUME NEW th \in Threads, StartService(th) \/ RecordPid(th) PROVE <1>2!2
      BY <2>1, <1>2, <1>t DEF StartService, RecordPid, Goto, TypeOK, Threads
    <2>2. ASSUME NEW th \in Threads, ForkError(th) \/ SetRunning(th) PROVE <1>2!2
      BY <2>2, <1>2, <1>t, AdvanceStep DEF ForkError, SetRunning, Return, Goto, TypeOK, Threads
    <2>3. CASE MainNext \/ MainWatchdog \/ MainExit
      BY <2>3, <1>2, <1>t DEF MainNext, MainWatchdog, MainExit, Goto, TypeOK
    <2>4. CASE WatchTop \/ WatchScan \/ WatchReap \/ WatchFail \/ WatchRestart
      BY <2>4, <1>2, <1>t DEF WatchTop, WatchScan, WatchReap, WatchFail, WatchRestart, Goto, TypeOK
    <2>5. CASE WatchSkip \/ WatchHealthy \/ WatchGiveUp
      BY <2>5, <1>2, <1>t, AdvanceStep DEF WatchSkip, WatchHealthy, WatchGiveUp, TypeOK
    <2>6. CASE StopSkip \/ StopClear
      BY <2>6, <1>2, <1>t, AdvanceStep DEF StopSkip, StopClear, TypeOK
    <2>7. CASE \/ StopFound \/ StopMark \/ StopTerm \/ StopPolled \/ StopGrace \/ StopKill
               \/ StopCall \/ StopWait \/ StopStopped \/ Signal
      BY <2>7, <1>2, <1>t DEF StopFound, StopMark, StopTerm, StopPolled, StopGrace, StopKill,
                        StopCall, StopWait, StopStopped, Signal, Goto, TypeOK
    <2>8. CASE UNCHANGED vars \/ \E p \in Pids : Exit(p)
      BY <2>8, <1>2 DEF Exit, vars
    <2> QED BY <2>1, <2>2, <2>3, <2>4, <2>5, <2>6, <2>7, <2>8
            DEF Next, Main, Watchdog, Handler, PmStart, Threads
  <1> DEFINE Writes == \A th \in Threads : pc'[th] = "record" =>
           pc[th] = "record" /\ at'[th] = at[th] /\ forked'[th] = forked[th]
  <1>3. Writes
    <2>1. ASSUME NEW th \in Threads, RecordPid(th) PROVE Writes
      BY <2>1, <1>t DEF RecordPid, Goto, TypeOK, Threads
    <2> QED BY <2>1, OnlyRecordWrites
  <1>a. FreshInv!1'
    BY <1>1, <1>o, <1>t DEF FreshInv
  <1>b. FreshInv!2'
    <2>1. SUFFICES ASSUME pc'.watchdog \in {"fail", "forget", "start", "fork"},
                          NEW p \in Of(at.watchdog), at'.watchdog = at.watchdog
                   PROVE  ~Alive(p)'
      BY <1>2, <1>o
    <2>2. p \in Pids
      BY DEF Of
    <2> QED BY <2>1, <2>2, <1>2, <1>o, <1>t, ReapedNoneLeft DEF FreshInv
  <1>c. FreshInv!3'
    <2>1. SUFFICES ASSUME NEW th \in Threads, pc'[th] = "record", NEW p \in Of(at[th]), Alive(p)'
                   PROVE  p = forked'[th]
      BY <1>3, <1>o
    <2>2. p \in Pids
      BY DEF Of
    <2> QED BY <2>1, <2>2, <1>3, <1>o, <1>t DEF FreshInv
  <1> QED BY <1>a, <1>b, <1>c DEF FreshInv

\* Every step keeps the ground clear for those about to fork.
LEMMA StepFresh == IInv /\ [Next]_vars => FreshInv'
  <1> SUFFICES ASSUME IInv, [Next]_vars PROVE FreshInv'
    OBVIOUS
  <1>t. TypeOK /\ PlaceInv /\ FreshInv
    BY DEF IInv
  <1>1. ASSUME NEW th \in Threads, Fork(th) PROVE FreshInv'
    <2>1. PICK p \in Pids :
              /\ proc[p].of = 0 /\ ~Alive(p)
              /\ Of(at[th])' = Of(at[th]) \cup {p}
              /\ \A s \in Services : s # at[th] => Of(s)' = Of(s)
              /\ \A q \in Pids : q # p => (Alive(q)' <=> Alive(q)) /\ proc'[q] = proc[q]
              /\ proc'[p] = [of |-> at[th], status |-> "alive"]
              /\ forked' = [forked EXCEPT ![th] = p]
      BY <1>1, ForkAdds
    <2>2. /\ pc[th] = "fork" /\ pc' = [pc EXCEPT ![th] = "record"]
          /\ UNCHANGED <<at, started>> /\ at[th] \in Services
      BY <1>1, <1>t DEF Fork, Goto, TypeOK, Threads
    <2>3. \A q \in Of(at[th]) : ~Alive(q) /\ q \in Pids
      BY <2>2, <1>t DEF FreshInv, TypeOK, Threads, Of
    <2>4. at[th] \in started /\ \A u \in Threads : u # th =>
             pc'[u] \notin {"fail", "forget", "start", "fork", "record"}
      BY <2>2, <1>t DEF PlaceInv, TypeOK, Threads
    <2>a. FreshInv!1'
      BY <2>1, <2>2, <2>4, <1>t DEF FreshInv, TypeOK, Threads
    <2>b. FreshInv!2'
      BY <2>2, <2>4, <1>t DEF TypeOK, Threads
    <2>c. FreshInv!3'
      BY <2>1, <2>2, <2>3, <2>4, <1>t DEF TypeOK, Threads
    <2> QED BY <2>a, <2>b, <2>c DEF FreshInv
  <1>2. ASSUME \A th \in Threads : ~Fork(th) PROVE FreshInv'
    BY <1>2, QuietFresh, OnlyForkStarts
  <1> QED BY <1>1, <1>2

\* Every step keeps the live processes of a service to one.
LEMMA StepOne == IInv /\ [Next]_vars => OneInstance'
  <1> SUFFICES ASSUME IInv, [Next]_vars PROVE OneInstance'
    OBVIOUS
  <1>t. TypeOK /\ FreshInv /\ OneInstance
    BY DEF IInv
  <1>1. ASSUME NEW th \in Threads, Fork(th) PROVE OneInstance'
    <2>1. PICK p \in Pids :
              /\ Of(at[th])' = Of(at[th]) \cup {p}
              /\ \A s \in Services : s # at[th] => Of(s)' = Of(s)
              /\ \A q \in Pids : q # p => (Alive(q)' <=> Alive(q))
              /\ proc[p].of = 0
      BY <1>1, ForkAdds
    <2>2. \A q \in Of(at[th]) : ~Alive(q) /\ q \in Pids
      BY <1>1, <1>t, PMAssumption DEF Fork, FreshInv, TypeOK, Threads, Of
    <2>3. \A s \in Services : p \notin Of(s) /\ Of(s) \subseteq Pids
      BY <2>1 DEF Of, Services
    <2>4. SUFFICES ASSUME NEW s \in Services, NEW q \in Of(s)', NEW r \in Of(s)', Alive(q)', Alive(r)'
                   PROVE  q = r
      BY DEF OneInstance
    <2>5. CASE s = at[th]
      <3>1. Of(s)' = Of(s) \cup {p}
        <4>1. UNCHANGED at
          BY <1>1 DEF Fork
        <4> QED BY <2>5, <2>1, <4>1 DEF Of
      <3> QED BY <3>1, <2>5, <2>1, <2>2, <2>4
    <2>6. CASE s # at[th]
      <3>1. q \in Of(s) /\ r \in Of(s) /\ q # p /\ r # p /\ q \in Pids /\ r \in Pids
        BY <2>6, <2>1, <2>3
      <3> QED BY <3>1, <2>1, <2>4, <1>t DEF OneInstance
    <2> QED BY <2>5, <2>6
  <1>2. ASSUME NoBirth PROVE OneInstance'
    <2>1. \A s : Of(s) \subseteq Pids
      BY DEF Of
    <2> QED BY <1>2, <2>1, <1>t, NoBirthOf DEF OneInstance
  <1> QED BY <1>1, <1>2, OnlyForkStarts

\* A restart is charged when the watchdog leaves for pm_start, and never given back.
LEMMA Charges ==
    ASSUME IInv, [Next]_vars, ~WatchRestart
    PROVE  /\ restart_count' = restart_count
           /\ pc'.watchdog \in {"start", "fork"} =>
                 pc.watchdog \in {"start", "fork"} /\ at'.watchdog = at.watchdog
  <1>t. TypeOK
    BY DEF IInv
  <1>1. ASSUME NEW th \in Threads, StartService(th) \/ RecordPid(th) \/ Fork(th)
        PROVE  /\ restart_count' = restart_count
               /\ pc'.watchdog \in {"start", "fork"} =>
                     pc.watchdog \in {"start", "fork"} /\ at'.watchdog = at.watchdog
    BY <1>1, <1>t DEF StartService, RecordPid, Fork, Goto, TypeOK, Threads
  <1>2. ASSUME NEW th \in Threads, ForkError(th) \/ SetRunning(th)
        PROVE  /\ restart_count' = restart_count
               /\ pc'.watchdog \in {"start", "fork"} =>
                     pc.watchdog \in {"start", "fork"} /\ at'.watchdog = at.watchdog
    BY <1>2, <1>t, AdvanceStep DEF ForkError, SetRunning, Return, Goto, TypeOK, Threads
  <1>3. CASE MainNext \/ MainWatchdog \/ MainExit
    BY <1>3, <1>t DEF MainNext, MainWatchdog, MainExit, Goto, TypeOK
  <1>4. CASE WatchTop \/ WatchScan \/ WatchReap \/ WatchFail
    BY <1>4, <1>t DEF WatchTop, WatchScan, WatchReap, WatchFail, Goto, TypeOK
  <1>5. CASE WatchSkip \/ WatchHealthy \/ WatchGiveUp
    BY <1>5, <1>t, AdvanceStep DEF WatchSkip, WatchHealthy, WatchGiveUp, TypeOK
  <1>6. CASE StopSkip \/ StopClear
    BY <1>6, <1>t, AdvanceStep DEF StopSkip, StopClear, TypeOK
  <1>7. CASE \/ StopFound \/ StopMark \/ StopTerm \/ StopPolled \/ StopGrace \/ StopKill
             \/ StopCall \/ StopWait \/ StopStopped \/ Signal
    BY <1>7, <1>t DEF StopFound, StopMark, StopTerm, StopPolled, StopGrace, StopKill, StopCall,
                      StopWait, StopStopped, Signal, Goto, TypeOK
  <1>8. CASE UNCHANGED vars \/ \E p \in Pids : Exit(p)
    BY <1>8 DEF Exit, vars
  <1> QED BY <1>1, <1>2, <1>3, <1>4, <1>5, <1>6, <1>7, <1>8
          DEF Next, Main, Watchdog, Handler, PmStart, Threads

\* Every step keeps the forks of a service within what it is charged with.
LEMMA StepBudget == IInv /\ [Next]_vars => BudgetInv'
  <1> SUFFICES ASSUME IInv, [Next]_vars PROVE BudgetInv'
    OBVIOUS
  <1>t. TypeOK /\ FreshInv /\ BudgetInv
    BY DEF IInv
  <1>f. \A s : IsFiniteSet(Of(s)) /\ Cardinality(Of(s)) \in Nat
    <2>1. \A s : Of(s) \subseteq Pids
      BY DEF Of
    <2> QED BY <2>1, PMAssumption, FS_Subset, FS_CardinalityType
  <1>n. \A s \in Services : restart_count[s] \in Nat
    BY <1>t, PMAssumption DEF TypeOK
  <1>1. ASSUME NEW th \in Threads, Fork(th) PROVE BudgetInv'
    <2>1. PICK p \in Pids :
              /\ Of(at[th])' = Of(at[th]) \cup {p}
              /\ \A s \in Services : s # at[th] => Of(s)' = Of(s)
      BY <1>1, ForkAdds
    <2>2. /\ pc[th] = "fork" /\ pc' = [pc EXCEPT ![th] = "record"]
          /\ UNCHANGED <<at, restart_count>> /\ at[th] \in Services
      BY <1>1, <1>t DEF Fork, Goto, TypeOK, Threads
    <2>3. Cardinality(Of(at[th])) <= restart_count[at[th]]
      <3>1. CASE th = "main"
        <4>1. Cardinality(Of(at[th])) = 0
          BY <3>1, <2>2, <1>t, FS_EmptySet DEF FreshInv
        <4> QED BY <4>1, <2>2, <1>n
      <3>2. CASE th = "watchdog"
        BY <3>2, <2>2, <1>t DEF BudgetInv
      <3> QED BY <3>1, <3>2 DEF Threads
    <2>4. Cardinality(Of(at[th]) \cup {p}) <= 1 + restart_count[at[th]]
      <3>1. Cardinality(Of(at[th]) \cup {p}) \in {Cardinality(Of(at[th])), Cardinality(Of(at[th])) + 1}
        BY <1>f, FS_AddElement
      <3> QED BY <3>1, <2>2, <2>3, <1>f, <1>n
    <2>5. ASSUME NEW s \in Services PROVE Cardinality(Of(s)') <= 1 + restart_count'[s]
      <3>1. CASE s = at[th]
        BY <3>1, <2>1, <2>2, <2>4
      <3>2. CASE s # at[th]
        BY <3>2, <2>1, <2>2, <1>t DEF BudgetInv, RestartBudget
      <3> QED BY <3>1, <3>2
    <2>6. RestartBudget'
      BY <2>5 DEF RestartBudget
    <2>7. pc'.watchdog \in {"start", "fork"} =>
             Cardinality(Of(at.watchdog)') <= restart_count'[at.watchdog]
      <3>1. SUFFICES ASSUME pc'.watchdog \in {"start", "fork"} PROVE FALSE
        OBVIOUS
      <3>2. th = "main" /\ pc.watchdog # "none"
        BY <3>1, <2>2, <1>t DEF TypeOK, Threads
      <3> QED BY <3>2, <2>2 DEF IInv, PlaceInv
    <2> QED BY <2>2, <2>6, <2>7 DEF BudgetInv
  <1>2. CASE WatchRestart
    <2>1. NoBirth
      BY <1>2 DEF WatchRestart, NoBirth
    <2>2. \A s : Of(s)' = Of(s)
      BY <2>1, NoBirthOf
    <2>3. /\ restart_count' = [restart_count EXCEPT ![at.watchdog] = @ + 1]
          /\ UNCHANGED at /\ at.watchdog \in Services
      BY <1>2, <1>t DEF WatchRestart, TypeOK
    <2>4. \A s \in Services : restart_count[s] <= restart_count'[s]
      BY <2>3, <1>n, <1>t DEF TypeOK
    <2>5. Cardinality(Of(at.watchdog)) <= restart_count'[at.watchdog]
      BY <2>3, <1>n, <1>t DEF BudgetInv, RestartBudget, TypeOK
    <2>6. \A s \in Services : Cardinality(Of(s)) <= 1 + restart_count'[s]
      <3>1. ASSUME NEW s \in Services PROVE restart_count'[s] \in Nat
        BY <2>3, <1>n, <1>t DEF TypeOK
      <3> QED BY <3>1, <2>4, <1>f, <1>n, <1>t DEF BudgetInv, RestartBudget
    <2>7. RestartBudget'
      BY <2>2, <2>6 DEF RestartBudget
    <2>8. (Cardinality(Of(at.watchdog)) <= restart_count[at.watchdog])'
      BY <2>2, <2>3, <2>5
    <2> QED BY <2>7, <2>8 DEF BudgetInv
  <1>3. ASSUME NoBirth, ~WatchRestart PROVE BudgetInv'
    <2>1. \A s : Of(s)' = Of(s)
      BY <1>3, NoBirthOf
    <2>2. /\ restart_count' = restart_count
          /\ pc'.watchdog \in {"start", "fork"} =>
                pc.watchdog \in {"start", "fork"} /\ at'.watchdog = at.watchdog
      BY <1>3, Charges
    <2>3. RestartBudget'
      BY <2>1, <2>2, <1>t DEF BudgetInv, RestartBudget
    <2>4. pc'.watchdog \in {"start", "fork"} =>
             (Cardinality(Of(at.watchdog)) <= restart_count[at.watchdog])'
      BY <2>1, <2>2, <1>t DEF BudgetInv
    <2> QED BY <2>3, <2>4 DEF BudgetInv
  <1> QED BY <1>1, <1>2, <1>3, OnlyForkStarts

-----------------------------------------------------------------------------
(* What the watchdog and the handler know *)

\* The watchdog never gets back a service it has passed.
LEMMA MayShrinks ==
    ASSUME IInv, [Next]_vars, NEW s \in Services, WatchMay(s)'
    PROVE  WatchMay(s)
  <1>t. TypeOK
    BY DEF IInv
  <1>s. s \in Nat /\ svc_count \in Nat /\ s <= svc_count
    BY PMAssumption DEF Services
  <1>1. ASSUME NEW th \in Threads, StartService(th) \/ RecordPid(th) \/ Fork(th) PROVE WatchMay(s)
    BY <1>1, <1>t DEF StartService, RecordPid, Fork, Goto, TypeOK, Threads, WatchMay
  <1>2. ASSUME NEW th \in Threads, ForkError(th) \/ SetRunning(th) PROVE WatchMay(s)
    <2>1. CASE th = "main"
      BY <2>1, <1>2, <1>t DEF ForkError, SetRunning, Return, Goto, TypeOK, WatchMay
    <2>2. CASE th = "watchdog"
      <3>1. /\ pc.watchdog \in {"fork", "run"} /\ running' = running
            /\ pc' = [pc EXCEPT !["watchdog"] = IF at.watchdog < svc_count THEN "scan" ELSE "top"]
            /\ at' = [at EXCEPT !["watchdog"] = IF at.watchdog < svc_count THEN at.watchdog + 1 ELSE 1]
        BY <2>2, <1>2, <1>t, AdvanceStep DEF ForkError, SetRunning, Return
      <3> QED BY <3>1, <1>t, <1>s DEF TypeOK, WatchMay, Services
    <2> QED BY <2>1, <2>2 DEF Threads
  <1>3. CASE MainNext \/ MainWatchdog \/ MainExit
    BY <1>3, <1>t DEF MainNext, MainWatchdog, MainExit, Goto, TypeOK, WatchMay
  <1>4. CASE WatchTop \/ WatchScan \/ WatchReap \/ WatchFail \/ WatchRestart
    BY <1>4, <1>t, <1>s
    DEF WatchTop, WatchScan, WatchReap, WatchFail, WatchRestart, Goto, TypeOK, WatchMay, Services
  <1>5. CASE WatchSkip \/ WatchHealthy \/ WatchGiveUp
    <2>1. /\ pc.watchdog \in {"scan", "poll", "forget"} /\ running' = running
          /\ pc' = [pc EXCEPT !["watchdog"] = IF at.watchdog < svc_count THEN "scan" ELSE "top"]
          /\ at' = [at EXCEPT !["watchdog"] = IF at.watchdog < svc_count THEN at.watchdog + 1 ELSE 1]
      BY <1>5, <1>t, AdvanceStep DEF WatchSkip, WatchHealthy, WatchGiveUp
    <2> QED BY <2>1, <1>t, <1>s DEF TypeOK, WatchMay, Services
  <1>6. CASE StopSkip \/ StopClear
    BY <1>6, <1>t, AdvanceStep DEF StopSkip, StopClear, TypeOK, WatchMay
  <1>7. CASE \/ StopFound \/ StopMark \/ StopTerm \/ StopPolled \/ StopGrace \/ StopKill
             \/ StopCall \/ StopWait \/ StopStopped \/ Signal
    BY <1>7, <1>t DEF StopFound, StopMark, StopTerm, StopPolled, StopGrace, StopKill, StopCall,
                      StopWait, StopStopped, Signal, Goto, TypeOK, WatchMay
  <1>8. CASE UNCHANGED vars \/ \E p \in Pids : Exit(p)
    BY <1>8 DEF Exit, vars, WatchMay
  <1> QED BY <1>1, <1>2, <1>3, <1>4, <1>5, <1>6, <1>7, <1>8
          DEF Next, Main, Watchdog, Handler, PmStart, Threads

\* A pid that is about to be written stays so until it is.
LEMMA RecordStays ==
    ASSUME IInv, [Next]_vars, NEW th \in Threads, pc[th] = "record", ~RecordPid(th)
    PROVE  pc'[th] = "record" /\ at'[th] = at[th] /\ forked'[th] = forked[th]
  <1>t. TypeOK
    BY DEF IInv
  <1>1. ASSUME NEW u \in Threads, StartService(u) \/ Fork(u) \/ RecordPid(u)
        PROVE  pc'[th] = "record" /\ at'[th] = at[th] /\ forked'[th] = forked[th]
    BY <1>1, <1>t DEF StartService, Fork, RecordPid, Goto, TypeOK, Threads
  <1>2. ASSUME NEW u \in Threads, ForkError(u) \/ SetRunning(u)
        PROVE  pc'[th] = "record" /\ at'[th] = at[th] /\ forked'[th] = forked[th]
    BY <1>2, <1>t, AdvanceStep DEF ForkError, SetRunning, Return, Goto, TypeOK, Threads
  <1>3. CASE MainNext \/ MainWatchdog \/ MainExit
    BY <1>3, <1>t DEF IInv, PlaceInv, MainNext, MainWatchdog, MainExit, Goto, TypeOK, Threads
  <1>4. CASE WatchTop \/ WatchScan \/ WatchReap \/ WatchFail \/ WatchRestart
    BY <1>4, <1>t DEF WatchTop, WatchScan, WatchReap, WatchFail, WatchRestart, Goto, TypeOK, Threads
  <1>5. CASE WatchSkip \/ WatchHealthy \/ WatchGiveUp
    BY <1>5, <1>t, AdvanceStep DEF WatchSkip, WatchHealthy, WatchGiveUp, TypeOK, Threads
  <1>6. CASE StopSkip \/ StopClear
    BY <1>6, <1>t, AdvanceStep DEF StopSkip, StopClear, TypeOK, Threads
  <1>7. CASE \/ StopFound \/ StopMark \/ StopTerm \/ StopPolled \/ StopGrace \/ StopKill
             \/ StopCall \/ StopWait \/ StopStopped \/ Signal
    BY <1>7, <1>t DEF StopFound, StopMark, StopTerm, StopPolled, StopGrace, StopKill, StopCall,
                      StopWait, StopStopped, Signal, Goto, TypeOK, Threads
  <1>8. CASE UNCHANGED vars \/ \E p \in Pids : Exit(p)
    BY <1>8 DEF Exit, vars
  <1> QED BY <1>1, <1>2, <1>3, <1>4, <1>5, <1>6, <1>7, <1>8
          DEF Next, Main, Watchdog, Handler, PmStart, Threads

\* Who writes the pid of a service.
LEMMA PidWriters ==
    ASSUME IInv, [Next]_vars, NEW s \in Services, pid'[s] # pid[s]
    PROVE  \/ \E th \in Threads : RecordPid(th) /\ s = at[th]
           \/ (WatchRestart \/ WatchGiveUp) /\ s = at.watchdog
           \/ StopClear /\ s = at.handler
  <1>t. TypeOK
    BY DEF IInv
  <1>1. ASSUME NEW th \in Threads, RecordPid(th) PROVE s = at[th]
    BY <1>1, <1>t DEF RecordPid, TypeOK
  <1>2. ASSUME WatchRestart \/ WatchGiveUp PROVE s = at.watchdog
    BY <1>2, <1>t DEF WatchRestart, WatchGiveUp, TypeOK
  <1>3. ASSUME StopClear PROVE s = at.handler
    BY <1>3, <1>t DEF StopClear, TypeOK
  <1> QED BY <1>1, <1>2, <1>3 DEF Next, Main, Watchdog, Handler, PmStart, StartService, ForkError,
     SetRunning, Fork, MainNext, MainWatchdog, MainExit, WatchTop, WatchScan, WatchReap, WatchFail,
     WatchSkip, WatchHealthy, StopSkip, StopFound, StopMark, StopTerm, StopPolled, StopGrace, StopKill,
     StopCall, StopWait, StopStopped, Signal, Exit, vars, Threads

\* Every step keeps the live processes known.
LEMMA StepKnown == IInv /\ [Next]_vars => KnownInv'
  <1> SUFFICES ASSUME IInv, [Next]_vars, NEW s \in Services, WatchMay(s)', NEW p \in Of(s)', Alive(p)'
               PROVE  \/ pid'[s] = p
                      \/ \E th \in Threads : pc'[th] = "record" /\ at'[th] = s /\ forked'[th] = p
    BY DEF KnownInv
  <1>t. TypeOK /\ PlaceInv /\ FreshInv /\ KnownInv /\ StopInv
    BY DEF IInv
  <1>m. WatchMay(s) /\ p \in Pids
    BY MayShrinks DEF Of
  <1>1. ASSUME p \in Of(s), Alive(p)
        PROVE  \/ pid'[s] = p
               \/ \E th \in Threads : pc'[th] = "record" /\ at'[th] = s /\ forked'[th] = p
    <2>1. ASSUME NEW th \in Threads, RecordPid(th), s = at[th] PROVE pid'[s] = p
      <3>1. p = forked[th]
        BY <1>1, <2>1, <1>t DEF FreshInv, RecordPid
      <3> QED BY <2>1, <3>1, <1>t DEF RecordPid, TypeOK
    <2>2. ASSUME WatchRestart \/ WatchGiveUp, s = at.watchdog PROVE FALSE
      BY <1>1, <2>2, <1>t DEF FreshInv, WatchRestart, WatchGiveUp
    <2>3. ASSUME StopClear, s = at.handler
          PROVE  pc'["main"] = "record" /\ at'["main"] = s /\ forked'["main"] = p
      <3>1. pc.main = "record" /\ at.main = s /\ forked["main"] = p
        BY <1>1, <2>3, <1>t, <1>m DEF StopInv, StopClear
      <3> QED BY <2>3, <3>1, <1>t, AdvanceStep DEF StopClear, TypeOK
    <2>4. CASE pid'[s] = pid[s] /\ ~\E th \in Threads : RecordPid(th) /\ s = at[th]
      <3>1. CASE pid[s] = p
        BY <2>4, <3>1
      <3>2. ASSUME NEW th \in Threads, pc[th] = "record", at[th] = s, forked[th] = p
            PROVE  pc'[th] = "record" /\ at'[th] = s /\ forked'[th] = p
        BY <2>4, <3>2, RecordStays
      <3> QED BY <3>1, <3>2, <1>1, <1>m, <1>t DEF KnownInv
    <2> QED BY <2>1, <2>2, <2>3, <2>4, PidWriters DEF Threads
  <1>2. ASSUME NEW th \in Threads, Fork(th), ~(p \in Of(s) /\ Alive(p))
        PROVE  pc'[th] = "record" /\ at'[th] = s /\ forked'[th] = p
    <2>1. PICK q \in Pids :
              /\ \A r \in Pids : r # q => (Alive(r)' <=> Alive(r)) /\ proc'[r] = proc[r]
              /\ proc'[q] = [of |-> at[th], status |-> "alive"]
              /\ forked' = [forked EXCEPT ![th] = q]
      BY <1>2, ForkAdds
    <2>2. p = q
      <3>1. proc'[p].of = s
        BY DEF Of
      <3> QED BY <3>1, <2>1, <1>2, <1>m DEF Of
    <2>3. at[th] = s
      <3>1. proc'[p].of = s
        BY DEF Of
      <3> QED BY <3>1, <2>1, <2>2
    <2> QED BY <2>1, <2>2, <2>3, <1>2, <1>t DEF Fork, Goto, TypeOK, Threads
  <1>3. ASSUME NoBirth PROVE p \in Of(s) /\ Alive(p)
    BY <1>3, <1>m, NoBirthOf
  <1> QED BY <1>1, <1>2, <1>3, OnlyForkStarts

\* waitpid with the pid of a live child reaps that child or none.
LEMMA ReapsTheOne ==
    ASSUME TypeOK, NEW n, NEW p \in Pids, n = p, Alive(p), Alive(p)',
           LET C == Children(n) IN (\E q \in C : Zombie(q) /\ Reap(q)) \/ (C = {} /\ UNCHANGED proc)
    PROVE  FALSE
  <1>1. Children(n) = {p}
    BY PMAssumption DEF Children, Alive, NoPid
  <1> QED BY <1>1 DEF Alive, Zombie

\* The handler gets to "stopped" through waitpid only, and to "wait" with the pid it read.
LEMMA HandlerMoves ==
    ASSUME IInv, [Next]_vars
    PROVE  /\ pc'.handler \in {"stopped", "clear"} =>
                 /\ at'.handler = at.handler
                 /\ pc.handler \in {"stopped", "clear"} \/ StopPolled \/ StopWait
           /\ pc'.handler = "wait" =>
                 /\ at'.handler = at.handler
                 /\ (pc.handler = "wait" /\ awaited' = awaited) \/ StopCall
  <1>t. TypeOK
    BY DEF IInv
  <1>1. ASSUME NEW th \in Threads, StartService(th) \/ RecordPid(th) \/ Fork(th)
        PROVE  pc'.handler = pc.handler /\ at'.handler = at.handler /\ awaited' = awaited
    BY <1>1, <1>t DEF StartService, RecordPid, Fork, Goto, TypeOK, Threads
  <1>2. ASSUME NEW th \in Threads, ForkError(th) \/ SetRunning(th)
        PROVE  pc'.handler = pc.handler /\ at'.handler = at.handler /\ awaited' = awaited
    BY <1>2, <1>t, AdvanceStep DEF ForkError, SetRunning, Return, Goto, TypeOK, Threads
  <1>3. CASE MainNext \/ MainWatchdog \/ MainExit
    BY <1>3, <1>t DEF MainNext, MainWatchdog, MainExit, Goto, TypeOK
  <1>4. CASE WatchTop \/ WatchScan \/ WatchReap \/ WatchFail \/ WatchRestart
    BY <1>4, <1>t DEF WatchTop, WatchScan, WatchReap, WatchFail, WatchRestart, Goto, TypeOK
  <1>5. CASE WatchSkip \/ WatchHealthy \/ WatchGiveUp
    BY <1>5, <1>t, AdvanceStep DEF WatchSkip, WatchHealthy, WatchGiveUp, TypeOK
  <1>6. CASE StopSkip \/ StopClear
    BY <1>6, <1>t, AdvanceStep DEF StopSkip, StopClear, TypeOK
  <1>7. CASE \/ StopFound \/ StopMark \/ StopTerm \/ StopPolled \/ StopGrace \/ StopKill
             \/ StopCall \/ StopWait \/ StopStopped \/ Signal
    BY <1>7, <1>t DEF StopFound, StopMark, StopTerm, StopPolled, StopGrace, StopKill, StopCall,
                      StopWait, StopStopped, Signal, Goto, TypeOK
  <1>8. CASE UNCHANGED vars \/ \E p \in Pids : Exit(p)
    BY <1>8 DEF Exit, vars
  <1> QED BY <1>1, <1>2, <1>3, <1>4, <1>5, <1>6, <1>7, <1>8
          DEF Next, Main, Watchdog, Handler, PmStart, Threads

\* Every step keeps what the handler may clear.
LEMMA StepStop == IInv /\ [Next]_vars => StopInv'
  <1> SUFFICES ASSUME IInv, [Next]_vars PROVE StopInv'
    OBVIOUS
  <1>t. TypeOK /\ PlaceInv /\ FreshInv /\ KnownInv /\ StopInv
    BY DEF IInv
  <1>h. at.handler \in Services
    BY <1>t DEF TypeOK
  <1>1. ASSUME pc'.handler \in {"stopped", "clear"}, WatchMay(at.handler)',
               NEW p \in Of(at.handler)', Alive(p)'
        PROVE  pc'.main = "record" /\ at'.main = at'.handler /\ forked'["main"] = p
    <2> DEFINE s == at.handler
    <2>1. at'.handler = s /\ (pc.handler \in {"stopped", "clear"} \/ StopPolled \/ StopWait)
      BY <1>1, HandlerMoves
    <2>2. WatchMay(s) /\ p \in Pids /\ ~running
      <3>1. PICK c \in Services : c = at.handler
        BY <1>h
      <3>2. WatchMay(c)'
        BY <2>1, <3>1, <1>1 DEF WatchMay
      <3>3. WatchMay(c)
        BY <3>2, MayShrinks
      <3>4. ~running
        BY <2>1, <1>t DEF PlaceInv, StopPolled, StopWait
      <3> QED BY <3>1, <3>3, <3>4, <1>1 DEF Of
    <2>3. ~Fork("main") /\ ~RecordPid("main")
      BY <2>1 DEF Fork, RecordPid, Runs, StopPolled, StopWait
    <2>4. p \in Of(s) /\ Alive(p)
      <3>1. CASE Fork("watchdog")
        <4>1. PICK q \in Pids :
                 /\ \A r \in Pids : r # q => (Alive(r)' <=> Alive(r)) /\ proc'[r] = proc[r]
                 /\ proc'[q] = [of |-> at.watchdog, status |-> "alive"]
          BY <3>1, ForkAdds DEF Threads
        <4>2. at.watchdog # s
          BY <2>2, <3>1, <1>t DEF WatchMay, Fork, TypeOK, Services
        <4>3. proc'[p].of = s
          BY <1>1, <2>1 DEF Of
        <4> QED BY <4>1, <4>2, <4>3, <2>2, <1>1 DEF Of
      <3>2. CASE NoBirth
        <4>1. proc'[p].of = s
          BY <1>1, <2>1 DEF Of
        <4> QED BY <4>1, <3>2, <2>2, <1>1, NoBirthOf DEF NoBirth, Of
      <3> QED BY <3>1, <3>2, <2>3, OnlyForkStarts DEF Threads
    <2>5. pc.main = "record" /\ at.main = s /\ forked["main"] = p
      <3>1. CASE pc.handler \in {"stopped", "clear"}
        BY <3>1, <2>2, <2>4, <1>t DEF StopInv
      <3>2. CASE StopPolled \/ StopWait
        <4>1. pid[s] # p
          <5>1. SUFFICES ASSUME pid[s] = p PROVE FALSE
            OBVIOUS
          <5>2. CASE StopPolled
            BY <5>1, <5>2, <2>2, <2>4, <1>1, <1>t, ReapsTheOne DEF StopPolled
          <5>3. CASE StopWait
            <6>1. awaited = p
              BY <5>1, <5>3, <2>2, <1>t DEF StopInv, StopWait
            <6> QED BY <6>1, <5>3, <2>2, <2>4, <1>1, <1>t, ReapsTheOne DEF StopWait
          <5> QED BY <3>2, <5>2, <5>3
        <4>2. PICK th \in Threads : pc[th] = "record" /\ at[th] = s /\ forked[th] = p
          BY <4>1, <2>2, <2>4, <1>h, <1>t DEF KnownInv
        <4>3. th # "watchdog"
          BY <4>2, <2>2, <1>h DEF WatchMay, Services
        <4> QED BY <4>2, <4>3 DEF Threads
      <3> QED BY <3>1, <3>2, <2>1
    <2> QED BY <2>1, <2>3, <2>5, RecordStays DEF Threads
  <1>2. ASSUME pc'.handler = "wait", WatchMay(at.handler)'
        PROVE  awaited' = pid'[at'.handler]
    <2> DEFINE s == at.handler
    <2>1. at'.handler = s /\ ((pc.handler = "wait" /\ awaited' = awaited) \/ StopCall)
      BY <1>2, HandlerMoves
    <2>2. WatchMay(s) /\ ~running /\ running' = FALSE
      <3>1. PICK c \in Services : c = at.handler
        BY <1>h
      <3>2. WatchMay(c)'
        BY <2>1, <3>1, <1>2 DEF WatchMay
      <3>3. WatchMay(c)
        BY <3>2, MayShrinks
      <3>4. ~running
        BY <2>1, <1>t DEF PlaceInv, StopCall
      <3>5. running' = FALSE
        BY <1>2, StepPlace, StepType DEF PlaceInv, TypeOK
      <3> QED BY <3>1, <3>3, <3>4, <3>5
    <2>3. CASE StopCall
      BY <2>3, <2>1 DEF StopCall
    <2>4. CASE pc.handler = "wait" /\ awaited' = awaited
      <3>1. awaited = pid[s]
        BY <2>4, <2>2, <1>t DEF StopInv
      <3>2. ~StopClear /\ \A th \in Threads : RecordPid(th) => th = "watchdog"
        BY <2>4 DEF StopClear, RecordPid, Runs, Threads
      <3>3. ~((WatchRestart \/ WatchGiveUp \/ RecordPid("watchdog")) /\ s = at.watchdog)
        BY <2>2, <1>h DEF WatchMay, WatchRestart, WatchGiveUp, RecordPid, Services
      <3>4. pid'[s] = pid[s]
        BY <3>2, <3>3, <1>h, PidWriters
      <3> QED BY <3>1, <3>4, <2>1, <2>4
    <2> QED BY <2>1, <2>3, <2>4
  <1> QED BY <1>1, <1>2 DEF StopInv

-----------------------------------------------------------------------------
(* Nothing is left *)

\* What was running when the signal came keeps its service, and was alive if it is.
LEMMA LeftStays ==
    ASSUME IInv, [Next]_vars, NEW p \in upAtSignal, Alive(p)'
    PROVE  p \in Pids /\ Alive(p) /\ proc'[p].of = proc[p].of /\ proc[p].of \in Services
  <1>t. TypeOK /\ PidInv
    BY DEF IInv
  <1>1. p \in Pids /\ proc[p].status # "unused" /\ proc[p].of \in Services
    BY <1>t DEF TypeOK, PidInv
  <1>2. ASSUME NEW th \in Threads, Fork(th) PROVE Alive(p) /\ proc'[p].of = proc[p].of
    <2>1. PICK q \in Pids :
             /\ proc[q].of = 0
             /\ \A r \in Pids : r # q => (Alive(r)' <=> Alive(r)) /\ proc'[r] = proc[r]
      BY <1>2, ForkAdds
    <2> QED BY <2>1, <1>1 DEF Services
  <1>3. ASSUME NoBirth PROVE Alive(p) /\ proc'[p].of = proc[p].of
    BY <1>1, <1>3, NoBirthOf DEF NoBirth
  <1> QED BY <1>1, <1>2, <1>3, OnlyForkStarts

\* Every step keeps what is left within the handler's reach.
LEMMA StepLeft == IInv /\ [Next]_vars => LeftInv'
  <1> SUFFICES ASSUME IInv, [Next]_vars PROVE LeftInv'
    OBVIOUS
  <1> DEFINE Reach(s, p) ==
         /\ pid[s] = p
         /\ pc.handler \notin {"none", "done"}
         /\ \/ at.handler < s /\ state[s] = "running"
            \/ at.handler = s /\ pc.handler \in {"check", "mark"} /\ state[s] = "running"
            \/ at.handler = s /\ pc.handler \in {"term", "poll", "kill"}
  <1>t. TypeOK /\ PlaceInv /\ PidInv /\ FreshInv /\ LeftInv
    BY DEF IInv
  <1>n. \A s \in Services : s \in Nat /\ 1 <= s /\ s <= svc_count
    BY PMAssumption DEF Services
  <1>1. CASE Signal
    <2>1. /\ pc' = [pc EXCEPT !["handler"] = "check"] /\ UNCHANGED <<at, pid, state, proc>>
          /\ upAtSignal' = {p \in Pids : Alive(p) /\ \E s \in Services : pid[s] = p /\ state[s] = "running"}
          /\ at.handler = 1
      BY <1>1, <1>t DEF Signal, Goto, PlaceInv
    <2>2. SUFFICES ASSUME NEW p \in Pids, NEW s \in Services, pid[s] = p, state[s] = "running"
                   PROVE  proc[p].of = s /\ Reach(s, p)'
      BY <2>1 DEF LeftInv
    <2>3. proc[p].of = s
      BY <2>2, <1>t, PMAssumption DEF PidInv, NoPid
    <2>4. pc'.handler = "check"
      BY <2>1, <1>t DEF TypeOK
    <2> QED BY <2>1, <2>2, <2>3, <2>4, <1>n
  <1>2. ASSUME ~Signal PROVE LeftInv'
    <2>1. upAtSignal' = upAtSignal
      BY <1>2 DEF Next, Main, Watchdog, Handler, PmStart, StartService, Fork, ForkError, RecordPid,
         SetRunning, MainNext, MainWatchdog, MainExit, WatchTop, WatchScan, WatchReap, WatchFail,
         WatchRestart, WatchSkip, WatchHealthy, WatchGiveUp, StopSkip, StopClear, StopFound, StopMark,
         StopTerm, StopPolled, StopGrace, StopKill, StopCall, StopWait, StopStopped, Exit, vars
    <2>2. SUFFICES ASSUME NEW p \in upAtSignal, Alive(p)', NEW s \in Services, s = proc[p].of,
                          p \in Of(s), p \in Pids, Alive(p), Reach(s, p)
                   PROVE  Reach(s, p)'
      <3>1. SUFFICES ASSUME NEW p \in upAtSignal, Alive(p)' PROVE Reach(proc[p].of, p)'
        BY <2>1 DEF LeftInv
      <3>2. p \in Pids /\ Alive(p) /\ proc'[p].of = proc[p].of /\ proc[p].of \in Services
        BY <3>1, LeftStays
      <3>3. Reach(proc[p].of, p)
        BY <3>2, <1>t DEF LeftInv
      <3>4. PICK s \in Services : s = proc[p].of
        BY <3>2
      <3>5. Reach(s, p)'
        BY <2>2, <3>1, <3>2, <3>3, <3>4 DEF Of
      <3> QED BY <3>2, <3>4, <3>5
    <2>3. ASSUME NEW th \in Threads, StartService(th) \/ ForkError(th) PROVE Reach(s, p)'
      <3>1. at[th] # s
        BY <2>2, <2>3, <1>t DEF StartService, ForkError, FreshInv, Threads
      <3>2. pc'.handler = pc.handler /\ at'.handler = at.handler /\ pid' = pid
        BY <2>3, <1>t, AdvanceStep DEF StartService, ForkError, Return, Goto, TypeOK, Threads
      <3>3. state'[s] = state[s]
        BY <3>1, <2>3, <1>t DEF StartService, ForkError, TypeOK
      <3> QED BY <3>2, <3>3, <2>2
    <2>4. ASSUME NEW th \in Threads, Fork(th) PROVE Reach(s, p)'
      BY <2>2, <2>4, <1>t DEF Fork, Goto, TypeOK, Threads
    <2>5. ASSUME NEW th \in Threads, RecordPid(th) PROVE Reach(s, p)'
      <3>1. at[th] = s => p = forked[th]
        BY <2>2, <2>5, <1>t DEF RecordPid, FreshInv
      <3>2. pid'[s] = p
        BY <3>1, <2>2, <2>5, <1>t DEF RecordPid, TypeOK
      <3>3. pc'.handler = pc.handler /\ at' = at /\ state' = state
        BY <2>5, <1>t DEF RecordPid, Goto, TypeOK, Threads
      <3> QED BY <3>2, <3>3, <2>2
    <2>6. ASSUME NEW th \in Threads, SetRunning(th) PROVE Reach(s, p)'
      <3>1. pc'.handler = pc.handler /\ at'.handler = at.handler /\ pid' = pid
        BY <2>6, <1>t, AdvanceStep DEF SetRunning, Return, Goto, TypeOK, Threads
      <3>2. state'[s] \in {state[s], "running"}
        BY <2>6, <1>t DEF SetRunning, TypeOK
      <3> QED BY <3>1, <3>2, <2>2
    <2>7. CASE MainNext \/ MainWatchdog \/ MainExit
      BY <2>7, <2>2, <1>t DEF MainNext, MainWatchdog, MainExit, Goto, TypeOK
    <2>8. CASE WatchTop \/ WatchScan \/ WatchReap
      BY <2>8, <2>2, <1>t DEF WatchTop, WatchScan, WatchReap, Goto, TypeOK
    <2>9. CASE WatchSkip \/ WatchHealthy
      BY <2>9, <2>2, <1>t, AdvanceStep DEF WatchSkip, WatchHealthy, TypeOK
    <2>10. CASE WatchFail \/ WatchRestart \/ WatchGiveUp
      <3>1. at.watchdog # s
        BY <2>2, <2>10, <1>t DEF WatchFail, WatchRestart, WatchGiveUp, FreshInv
      <3>2. pc'.handler = pc.handler /\ at'.handler = at.handler
        BY <2>10, <1>t, AdvanceStep DEF WatchFail, WatchRestart, WatchGiveUp, Goto, TypeOK
      <3>3. state'[s] = state[s] /\ pid'[s] = pid[s]
        BY <3>1, <2>10, <1>t DEF WatchFail, WatchRestart, WatchGiveUp, TypeOK
      <3> QED BY <3>2, <3>3, <2>2
    <2>11. CASE StopSkip \/ StopClear
      <3>1. at.handler < s
        BY <2>2, <2>11 DEF StopSkip, StopClear
      <3>2. at.handler \in Services /\ at.handler < svc_count
        BY <3>1, <1>n, <1>t, PMAssumption DEF TypeOK, Services
      <3>3. pc'.handler = "check" /\ at'.handler = at.handler + 1
        BY <3>2, <2>11, <1>t, AdvanceStep DEF StopSkip, StopClear, TypeOK
      <3>4. state'[s] = state[s] /\ pid'[s] = pid[s]
        BY <3>1, <3>2, <1>n, <2>11, <1>t DEF StopSkip, StopClear, TypeOK
      <3>5. state[s] = "running"
        BY <3>1, <3>2, <1>n, <2>2
      <3> QED BY <3>1, <3>2, <3>3, <3>4, <3>5, <1>n, <2>2
    <2>12. CASE StopFound \/ StopTerm \/ StopGrace
      BY <2>12, <2>2, <1>t DEF StopFound, StopTerm, StopGrace, Goto, TypeOK
    <2>13. CASE StopMark
      <3>1. /\ pc.handler = "mark" /\ pc' = [pc EXCEPT !["handler"] = "term"] /\ UNCHANGED <<pid, at>>
            /\ state' = [state EXCEPT ![at.handler] = "stopping"]
        BY <2>13 DEF StopMark, Goto
      <3>2. CASE at.handler = s
        BY <3>1, <3>2, <2>2, <1>t DEF TypeOK
      <3>3. CASE at.handler # s
        BY <3>1, <3>3, <2>2, <1>t DEF TypeOK
      <3> QED BY <3>2, <3>3
    <2>14. CASE StopPolled
      <3>1. at.handler # s
        BY <2>2, <2>14, <1>t, ReapsTheOne DEF StopPolled
      <3> QED BY <3>1, <2>2, <2>14, <1>t DEF StopPolled, Goto, TypeOK
    <2>15. CASE StopKill
      <3>1. at.handler # s
        <4>1. SUFFICES ASSUME at.handler = s PROVE FALSE
          OBVIOUS
        <4>2. p \in Children(pid[at.handler])
          BY <4>1, <2>2 DEF Children, Alive
        <4>3. proc'[p].status = "zombie"
          BY <4>2, <2>2, <2>15, <1>t DEF StopKill, TypeOK
        <4> QED BY <4>3, <2>2 DEF Alive
      <3> QED BY <3>1, <2>2, <2>15, <1>t DEF StopKill, Goto, TypeOK
    <2>16. CASE StopCall \/ StopWait
      BY <2>16, <2>2, <1>t DEF StopCall, StopWait, Goto, TypeOK
    <2>17. CASE StopStopped
      <3>1. at.handler # s
        BY <2>2, <2>17, <1>n DEF StopStopped
      <3> QED BY <3>1, <2>2, <2>17, <1>t DEF StopStopped, Goto, TypeOK
    <2>18. CASE UNCHANGED vars \/ \E q \in Pids : Exit(q)
      BY <2>18, <2>2 DEF Exit, vars
    <2> QED BY <1>2, <2>3, <2>4, <2>5, <2>6, <2>7, <2>8, <2>9, <2>10, <2>11, <2>12, <2>13, <2>14,
               <2>15, <2>16, <2>17, <2>18
            DEF Next, Main, Watchdog, Handler, PmStart, Threads
  <1> QED BY <1>1, <1>2

-----------------------------------------------------------------------------
(* The theorems *)

\* The manager starts with nothing forked.
LEMMA InitIInv == Init => IInv
  <1> SUFFICES ASSUME Init PROVE IInv
    OBVIOUS
  <1>1. \A s \in Services : s # 0 /\ s \in Nat
    BY DEF Services
  <1>2. 1 \in Services
    BY PMAssumption DEF Services
  <1>3. \A p \in Pids : proc[p].of = 0 /\ proc[p].status = "unused"
    BY DEF Init, Unused
  <1>4. \A s \in Services : Of(s) = {}
    BY <1>1, <1>3 DEF Of
  <1>5. TypeOK
    BY <1>2, PMAssumption DEF Init, TypeOK, Unused, States, Threads
  <1>6. PlaceInv /\ LeftInv /\ StopInv
    BY DEF Init, PlaceInv, LeftInv, StopInv
  <1>7. PidInv
    BY <1>3 DEF Init, PidInv, Threads
  <1>8. FreshInv /\ KnownInv /\ OneInstance
    BY <1>4 DEF Init, FreshInv, KnownInv, OneInstance, Threads
  <1>9. BudgetInv
    <2>1. ASSUME NEW s \in Services PROVE Cardinality(Of(s)) <= 1 + restart_count[s]
      BY <1>4, FS_EmptySet DEF Init
    <2> QED BY <2>1 DEF Init, BudgetInv, RestartBudget
  <1> QED BY <1>5, <1>6, <1>7, <1>8, <1>9 DEF IInv

\* The invariant holds throughout.
THEOREM Invariant == Spec => []IInv
  <1>1. Init => IInv
    BY InitIInv
  <1>2. IInv /\ [Next]_vars => IInv'
    BY StepType, StepPlace, StepPid, StepFresh, StepKnown, StepStop, StepOne, StepBudget, StepLeft
    DEF IInv
  <1> QED BY <1>1, <1>2, PTL DEF Spec

\* The variables keep their types: no pid, place or count is ever out of range.
THEOREM TypeCorrect == Spec => []TypeOK
  <1>1. IInv => TypeOK
    BY DEF IInv
  <1> QED BY <1>1, Invariant, PTL

\* Never two live processes of one service, whatever main, the watchdog and the handler
\* do to its unlocked fields.
THEOREM SingleInstance == Spec => []OneInstance
  <1>1. IInv => OneInstance
    BY DEF IInv
  <1> QED BY <1>1, Invariant, PTL

\* A service is never forked more often than it is charged for.
THEOREM BudgetKept == Spec => []RestartBudget
  <1>1. IInv => RestartBudget
    BY DEF IInv, BudgetInv
  <1> QED BY <1>1, Invariant, PTL

\* When the manager has exited, nothing it had running when the signal came is left.
THEOREM NothingLeft == Spec => []NothingLeftRunning
  <1>1. IInv => NothingLeftRunning
    BY DEF IInv, NothingLeftRunning, LeftInv, PlaceInv
  <1> QED BY <1>1, Invariant, PTL

================================================================================
