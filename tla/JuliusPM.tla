------------------------------- MODULE JuliusPM -------------------------------
(***************************************************************************)
(* The process manager (services/julius_pm/julius_pm.c): main registers    *)
(* the services and starts them in order of priority, a watchdog thread    *)
(* starts a service again when its process has died, and the handler of    *)
(* SIGTERM and SIGINT, which interrupts main wherever it is, stops them    *)
(* all.  pm_start and pm_stop read and write the fields of a service       *)
(* without a lock: pm_lock is only ever taken by pm_register, before the   *)
(* watchdog exists, and by the watchdog, so nobody waits for it and it is  *)
(* left out.  Services are numbered in the order main registers them, all  *)
(* with auto_restart set.                                                  *)
(***************************************************************************)
EXTENDS Integers, FiniteSets

CONSTANTS svc_count,     \* services registered
          Priority1, Priority2, Priority3,
                         \* those registered with each priority; the others have 4
          MaxRestarts,   \* max_restarts
          Pids,          \* bound: processes ever started
          ForkFails      \* the services for which fork may fail

Services == 1..svc_count

ASSUME PMAssumption ==
    /\ svc_count \in Nat \ {0}
    /\ Priority1 \subseteq Services /\ Priority2 \subseteq Services
    /\ Priority3 \subseteq Services
    /\ MaxRestarts \in Nat
    /\ Pids \subseteq Nat \ {0} /\ IsFiniteSet(Pids)
    /\ ForkFails \subseteq Services

NoPid == -1      \* what s->pid holds when there is no process; to kill and waitpid: everyone

VARIABLES state, pid, restart_count,  \* fields of the services
          running,                    \* cleared by the handler
          pc,                         \* where main, the watchdog and the handler are
          at,                         \* the service each of them is at
          forked,                     \* what fork returned to main and the watchdog
          awaited,                    \* the argument of the handler's blocking waitpid
          started,                    \* services main has started
          proc,                       \* the processes: service and status
          upAtSignal                  \* history: processes in charge when the signal came

vars == <<state, pid, restart_count, running, pc, at, forked, awaited, started, proc, upAtSignal>>

Threads == {"main", "watchdog"}
States  == {"stopped", "starting", "running", "stopping", "failed"}
Unused  == [of |-> 0, status |-> "unused"]

TypeOK ==
    /\ state \in [Services -> States]
    /\ pid \in [Services -> Pids \cup {NoPid}]
    /\ restart_count \in [Services -> 0..MaxRestarts]
    /\ running \in BOOLEAN
    /\ pc \in [main : {"next", "start", "fork", "record", "run", "loop", "exited"},
               watchdog : {"none", "top", "scan", "poll", "fail", "forget", "start", "fork",
                           "record", "run"},
               handler : {"none", "check", "mark", "term", "poll", "kill", "call", "wait", "stopped",
                          "clear", "done"}]
    /\ at \in [main : Services, watchdog : Services, handler : Services]
    /\ forked \in [Threads -> Pids \cup {NoPid}]
    /\ awaited \in Pids \cup {NoPid}
    /\ started \subseteq Services
    /\ proc \in [Pids -> [of : Services \cup {0}, status : {"unused", "alive", "zombie", "reaped"}]]
    /\ upAtSignal \subseteq Pids

Init ==
    /\ state = [s \in Services |-> "stopped"]
    /\ pid = [s \in Services |-> NoPid]
    /\ restart_count = [s \in Services |-> 0]
    /\ running = TRUE
    /\ pc = [main |-> "next", watchdog |-> "none", handler |-> "none"]
    /\ at = [main |-> 1, watchdog |-> 1, handler |-> 1]
    /\ forked = [th \in Threads |-> NoPid]
    /\ awaited = NoPid
    /\ started = {}
    /\ proc = [p \in Pids |-> Unused]
    /\ upAtSignal = {}

\* Main stands still while the handler runs on its stack; nothing runs once main
\* has returned.
Runs(th) ==
    /\ pc.main # "exited"
    /\ th = "main" => pc.handler \in {"none", "done"}

Goto(th, l) == pc' = [pc EXCEPT ![th] = l]

\* The loops over all services of the watchdog and of the handler.
Advance(th, again, end) ==
    IF at[th] < svc_count THEN /\ at' = [at EXCEPT ![th] = @ + 1]
                          /\ Goto(th, again)
                     ELSE /\ at' = [at EXCEPT ![th] = 1]
                          /\ Goto(th, end)

Alive(p)  == proc[p].status = "alive"
Zombie(p) == proc[p].status = "zombie"

\* The processes waitpid(n, ...) is about: the child n, or any child.
Children(n) == {p \in Pids : (n = NoPid \/ p = n) /\ proc[p].status \in {"alive", "zombie"}}

Reap(p) == proc' = [proc EXCEPT ![p].status = "reaped"]

-----------------------------------------------------------------------------
(* pm_start *)

\* Where the caller goes on when pm_start returns.
Return(th) ==
    IF th = "main" THEN Goto("main", "next") /\ UNCHANGED at
                   ELSE Advance("watchdog", "scan", "top")

\* A service that is running is left alone; every caller comes with one that is not.
StartService(th) ==
    /\ Runs(th) /\ pc[th] = "start"
    /\ state[at[th]] # "running"
    /\ state' = [state EXCEPT ![at[th]] = "starting"]
    /\ Goto(th, "fork")
    /\ UNCHANGED <<pid, restart_count, running, at, forked, awaited, started, proc, upAtSignal>>

Fork(th) ==
    /\ Runs(th) /\ pc[th] = "fork"
    /\ \E p \in Pids :
          /\ proc[p] = Unused
          /\ \A q \in Pids : proc[q] = Unused => p <= q
          /\ proc' = [proc EXCEPT ![p] = [of |-> at[th], status |-> "alive"]]
          /\ forked' = [forked EXCEPT ![th] = p]
    /\ Goto(th, "record")
    /\ UNCHANGED <<state, pid, restart_count, running, at, awaited, started, upAtSignal>>

\* fork returned -1: the service is given up, and the watchdog passes it over.
ForkError(th) ==
    /\ Runs(th) /\ pc[th] = "fork"
    /\ at[th] \in ForkFails
    /\ state' = [state EXCEPT ![at[th]] = "failed"]
    /\ Return(th)
    /\ UNCHANGED <<pid, restart_count, running, forked, awaited, started, proc, upAtSignal>>

RecordPid(th) ==
    /\ Runs(th) /\ pc[th] = "record"
    /\ pid' = [pid EXCEPT ![at[th]] = forked[th]]
    /\ forked' = [forked EXCEPT ![th] = NoPid]
    /\ Goto(th, "run")
    /\ UNCHANGED <<state, restart_count, running, at, awaited, started, proc, upAtSignal>>

SetRunning(th) ==
    /\ Runs(th) /\ pc[th] = "run"
    /\ state' = [state EXCEPT ![at[th]] = "running"]
    /\ Return(th)
    /\ UNCHANGED <<pid, restart_count, running, forked, awaited, started, proc, upAtSignal>>

-----------------------------------------------------------------------------
(* main *)

Priority(s) == CASE s \in Priority1 -> 1 [] s \in Priority2 -> 2 [] s \in Priority3 -> 3
                 [] OTHER -> 4

\* The service main starts next: lowest priority number first, then in the
\* order of registration.
IsNext(s) ==
    /\ s \notin started
    /\ \A r \in Services \ started :
          Priority(s) < Priority(r) \/ (Priority(s) = Priority(r) /\ s <= r)

MainNext ==
    /\ Runs("main") /\ pc.main = "next"
    /\ \E s \in Services : IsNext(s) /\ at' = [at EXCEPT !["main"] = s] /\ started' = started \cup {s}
    /\ Goto("main", "start")
    /\ UNCHANGED <<state, pid, restart_count, running, forked, awaited, proc, upAtSignal>>

MainWatchdog ==
    /\ Runs("main") /\ pc.main = "next"
    /\ started = Services
    /\ pc' = [pc EXCEPT !["main"] = "loop", !["watchdog"] = "top"]
    /\ UNCHANGED <<state, pid, restart_count, running, at, forked, awaited, started, proc, upAtSignal>>

\* The handler has cut the sleep of main's loop short: main returns, and with it
\* the watchdog, cancelled or not, is gone.
MainExit ==
    /\ Runs("main") /\ pc.main = "loop"
    /\ ~running
    /\ Goto("main", "exited")
    /\ UNCHANGED <<state, pid, restart_count, running, at, forked, awaited, started, proc, upAtSignal>>

-----------------------------------------------------------------------------
(* watchdog_thread *)

WatchTop ==
    /\ Runs("watchdog") /\ pc.watchdog = "top"
    /\ running
    /\ Goto("watchdog", "scan")
    /\ UNCHANGED <<state, pid, restart_count, running, at, forked, awaited, started, proc, upAtSignal>>

WatchSkip ==
    /\ Runs("watchdog") /\ pc.watchdog = "scan"
    /\ state[at.watchdog] # "running"
    /\ Advance("watchdog", "scan", "top")
    /\ UNCHANGED <<state, pid, restart_count, running, forked, awaited, started, proc, upAtSignal>>

WatchScan ==
    /\ Runs("watchdog") /\ pc.watchdog = "scan"
    /\ state[at.watchdog] = "running"
    /\ Goto("watchdog", "poll")
    /\ UNCHANGED <<state, pid, restart_count, running, at, forked, awaited, started, proc, upAtSignal>>

\* Mutant of WatchReap: what waitpid returns is tested with >= 0.
WatchReapAny ==
    /\ Runs("watchdog") /\ pc.watchdog = "poll"
    /\ \E p \in Children(pid[at.watchdog]) : IF Zombie(p) THEN Reap(p) ELSE UNCHANGED proc
    /\ Goto("watchdog", "fail")
    /\ UNCHANGED <<state, pid, restart_count, running, at, forked, awaited, started, upAtSignal>>

\* waitpid(s->pid, ..., WNOHANG) finds a dead process ...
WatchReap ==
    /\ Runs("watchdog") /\ pc.watchdog = "poll"
    /\ \E p \in Children(pid[at.watchdog]) : Zombie(p) /\ Reap(p)
    /\ Goto("watchdog", "fail")
    /\ UNCHANGED <<state, pid, restart_count, running, at, forked, awaited, started, upAtSignal>>

\* ... or none.
WatchHealthy ==
    /\ Runs("watchdog") /\ pc.watchdog = "poll"
    /\ \A p \in Children(pid[at.watchdog]) : ~Zombie(p)
    /\ Advance("watchdog", "scan", "top")
    /\ UNCHANGED <<state, pid, restart_count, running, forked, awaited, started, proc, upAtSignal>>

WatchFail ==
    /\ Runs("watchdog") /\ pc.watchdog = "fail"
    /\ state' = [state EXCEPT ![at.watchdog] = "failed"]
    /\ Goto("watchdog", "forget")
    /\ UNCHANGED <<pid, restart_count, running, at, forked, awaited, started, proc, upAtSignal>>

\* Mutant of WatchRestart: restarts are not counted.
WatchRestartUncounted ==
    /\ Runs("watchdog") /\ pc.watchdog = "forget"
    /\ restart_count[at.watchdog] < MaxRestarts
    /\ pid' = [pid EXCEPT ![at.watchdog] = NoPid]
    /\ Goto("watchdog", "start")
    /\ UNCHANGED <<state, restart_count, running, at, forked, awaited, started, proc, upAtSignal>>

\* Mutant of WatchRestart: the restart is counted and nothing is started.
WatchRestartUnstarted ==
    /\ Runs("watchdog") /\ pc.watchdog = "forget"
    /\ restart_count[at.watchdog] < MaxRestarts
    /\ pid' = [pid EXCEPT ![at.watchdog] = NoPid]
    /\ restart_count' = [restart_count EXCEPT ![at.watchdog] = @ + 1]
    /\ Advance("watchdog", "scan", "top")
    /\ UNCHANGED <<state, running, forked, awaited, started, proc, upAtSignal>>

\* s->pid is cleared, and the service started again after a pause of two
\* seconds, unless that was done max_restarts times already.
WatchRestart ==
    /\ Runs("watchdog") /\ pc.watchdog = "forget"
    /\ restart_count[at.watchdog] < MaxRestarts
    /\ pid' = [pid EXCEPT ![at.watchdog] = NoPid]
    /\ restart_count' = [restart_count EXCEPT ![at.watchdog] = @ + 1]
    /\ Goto("watchdog", "start")
    /\ UNCHANGED <<state, running, at, forked, awaited, started, proc, upAtSignal>>

WatchGiveUp ==
    /\ Runs("watchdog") /\ pc.watchdog = "forget"
    /\ restart_count[at.watchdog] >= MaxRestarts
    /\ pid' = [pid EXCEPT ![at.watchdog] = NoPid]
    /\ Advance("watchdog", "scan", "top")
    /\ UNCHANGED <<state, restart_count, running, forked, awaited, started, proc, upAtSignal>>

-----------------------------------------------------------------------------
(* signal_handler and pm_stop; the signal comes once. *)

Signal ==
    /\ pc.main # "exited" /\ pc.handler = "none"
    /\ running' = FALSE
    /\ Goto("handler", "check")
    /\ upAtSignal' = {p \in Pids : Alive(p) /\ \E s \in Services : pid[s] = p /\ state[s] = "running"}
    /\ UNCHANGED <<state, pid, restart_count, at, forked, awaited, started, proc>>

StopSkip ==
    /\ pc.handler = "check"
    /\ state[at.handler] # "running"
    /\ Advance("handler", "check", "done")
    /\ UNCHANGED <<state, pid, restart_count, running, forked, awaited, started, proc, upAtSignal>>

StopFound ==
    /\ pc.handler = "check"
    /\ state[at.handler] = "running"
    /\ Goto("handler", "mark")
    /\ UNCHANGED <<state, pid, restart_count, running, at, forked, awaited, started, proc, upAtSignal>>

StopMark ==
    /\ pc.handler = "mark"
    /\ state' = [state EXCEPT ![at.handler] = "stopping"]
    /\ Goto("handler", "term")
    /\ UNCHANGED <<pid, restart_count, running, at, forked, awaited, started, proc, upAtSignal>>

\* kill(s->pid, SIGTERM): what it makes a process do, Exit may do at any time.
StopTerm ==
    /\ pc.handler = "term"
    /\ Goto("handler", "poll")
    /\ UNCHANGED <<state, pid, restart_count, running, at, forked, awaited, started, proc, upAtSignal>>

\* waitpid(s->pid, ..., WNOHANG): gone already, or no such child ...
StopPolled ==
    /\ pc.handler = "poll"
    /\ LET C == Children(pid[at.handler]) IN
       \/ \E p \in C : Zombie(p) /\ Reap(p)
       \/ C = {} /\ UNCHANGED proc
    /\ Goto("handler", "stopped")
    /\ UNCHANGED <<state, pid, restart_count, running, at, forked, awaited, started, upAtSignal>>

\* Mutant of StopGrace: the service is taken for stopped after the pause.
StopGraceOnly ==
    /\ pc.handler = "poll"
    /\ LET C == Children(pid[at.handler]) IN C # {} /\ \A p \in C : Alive(p)
    /\ Goto("handler", "stopped")
    /\ UNCHANGED <<state, pid, restart_count, running, at, forked, awaited, started, proc, upAtSignal>>

\* ... or still there: two seconds of grace.
StopGrace ==
    /\ pc.handler = "poll"
    /\ LET C == Children(pid[at.handler]) IN C # {} /\ \A p \in C : Alive(p)
    /\ Goto("handler", "kill")
    /\ UNCHANGED <<state, pid, restart_count, running, at, forked, awaited, started, proc, upAtSignal>>

\* Mutant of StopKill: the grace period ends with a second SIGTERM.
StopKillSoftly ==
    /\ pc.handler = "kill"
    /\ Goto("handler", "call")
    /\ UNCHANGED <<state, pid, restart_count, running, at, forked, awaited, started, proc, upAtSignal>>

\* kill(s->pid, SIGKILL)
StopKill ==
    /\ pc.handler = "kill"
    /\ proc' = [p \in Pids |-> IF p \in Children(pid[at.handler])
                               THEN [proc[p] EXCEPT !.status = "zombie"] ELSE proc[p]]
    /\ Goto("handler", "call")
    /\ UNCHANGED <<state, pid, restart_count, running, at, forked, awaited, started, upAtSignal>>

StopCall ==
    /\ pc.handler = "call"
    /\ awaited' = pid[at.handler]
    /\ Goto("handler", "wait")
    /\ UNCHANGED <<state, pid, restart_count, running, at, forked, started, proc, upAtSignal>>

\* waitpid(s->pid, ..., 0) returns with a dead process or for want of a child.
StopWait ==
    /\ pc.handler = "wait"
    /\ LET C == Children(awaited) IN
       \/ \E p \in C : Zombie(p) /\ Reap(p)
       \/ C = {} /\ UNCHANGED proc
    /\ Goto("handler", "stopped")
    /\ awaited' = NoPid
    /\ UNCHANGED <<state, pid, restart_count, running, at, forked, started, upAtSignal>>

StopStopped ==
    /\ pc.handler = "stopped"
    /\ state' = [state EXCEPT ![at.handler] = "stopped"]
    /\ Goto("handler", "clear")
    /\ UNCHANGED <<pid, restart_count, running, at, forked, awaited, started, proc, upAtSignal>>

StopClear ==
    /\ pc.handler = "clear"
    /\ pid' = [pid EXCEPT ![at.handler] = NoPid]
    /\ Advance("handler", "check", "done")
    /\ UNCHANGED <<state, restart_count, running, forked, awaited, started, proc, upAtSignal>>

-----------------------------------------------------------------------------
\* A process ends: it crashed, its execv failed, or it obeyed SIGTERM.
Exit(p) ==
    /\ Alive(p)
    /\ proc' = [proc EXCEPT ![p].status = "zombie"]
    /\ UNCHANGED <<state, pid, restart_count, running, pc, at, forked, awaited, started, upAtSignal>>

PmStart(th) ==
    StartService(th) \/ Fork(th) \/ ForkError(th) \/ RecordPid(th) \/ SetRunning(th)

Main     == PmStart("main") \/ MainNext \/ MainWatchdog \/ MainExit
Watchdog == PmStart("watchdog") \/ WatchTop \/ WatchSkip \/ WatchScan \/ WatchReap
            \/ WatchHealthy \/ WatchFail \/ WatchRestart \/ WatchGiveUp
Handler  == \/ StopSkip \/ StopFound \/ StopMark \/ StopTerm \/ StopPolled \/ StopGrace
            \/ StopKill \/ StopCall \/ StopWait \/ StopStopped \/ StopClear

Next == Main \/ Watchdog \/ Signal \/ Handler \/ \E p \in Pids : Exit(p)

Spec == Init /\ [][Next]_vars

\* The scheduler runs both threads.  Nothing makes a process exit or a signal come.
FairSpec == Spec /\ WF_vars(Main) /\ WF_vars(Watchdog) /\ WF_vars(Handler)

-----------------------------------------------------------------------------
(* Properties *)

Of(s) == {p \in Pids : proc[p].of = s}

\* Never two live processes of one service: the watchdog, main and the handler
\* share the unlocked fields of a service, and pm_start trusts what they say.
OneInstance ==
    \A s \in Services : \A p, q \in Of(s) : Alive(p) /\ Alive(q) => p = q

\* A service is forked once by main and once for each restart it is charged
\* with, so a crash loop ends after max_restarts whatever the interleaving.
RestartBudget ==
    \A s \in Services : Cardinality(Of(s)) <= 1 + restart_count[s]

\* When the manager has exited, no process it had running when the signal came
\* is left, not even one that ignores SIGTERM.  (A process forked by a pm_start
\* that was under way may be left.)
NothingLeftRunning ==
    pc.main = "exited" => \A p \in upAtSignal : ~Alive(p)

\* A service whose process has died while it had restarts left has a process
\* again, or the manager is told to stop: that the watchdog calls it failed on
\* the way there does not count (watchdog_thread, pm_start).  A service for which
\* fork fails is excepted: it stays failed and is never tried again.
CrashedComesBack ==
    \A s \in Services \ ForkFails :
        (state[s] = "running" /\ restart_count[s] < MaxRestarts /\ ~\E p \in Of(s) : Alive(p))
          ~> (\E p \in Of(s) : Alive(p)) \/ ~running

\* Told to stop, the manager does exit, even when services ignore SIGTERM.  It
\* may hang only if the watchdog, which had just seen the same process die, has
\* changed s->pid between the handler's kill and its waitpid, which then waits for
\* a process that was not told to stop.
ShutdownEnds ==
    ~running ~> pc.main = "exited" \/ (pc.handler = "wait" /\ awaited \notin upAtSignal)
===============================================================================
