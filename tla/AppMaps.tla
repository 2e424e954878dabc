------------------------------- MODULE AppMaps -------------------------------
(***************************************************************************)
(* apps/maps/maps.py.  S starts a scan whether or not one is running: a    *)
(* thread that starts pings in batches and joins every batch.  A ping      *)
(* reads how many hosts there are, for its angle, before it takes the lock *)
(* to add its own.  Only julius_ui has this app, and it sends no           *)
(* MOUSEBUTTONDOWN to apps: of handle_input only the keys are reachable.   *)
(* The progress bar is left out.                                           *)
(***************************************************************************)
EXTENDS AppLists
CONSTANTS Addresses,  \* bound: addresses scanned (254)
          BatchSize   \* pings started before they are joined (20)
VARIABLE s

NoAngle == -1

\* A thread with its pings (see scan).
Scans == [next : Nat \ {0}, batch : Nat, ended : BOOLEAN,
          pings : SUBSET [i : Nat, angle : Nat \cup {NoAngle}]]

Fresh == [hosts |-> <<>>, scanning |-> FALSE, status |-> NoText,
          mode |-> "map", jobs |-> NoJobs, mixed |-> FALSE]

\* scan(): `next` is the address of the next ping, `batch` the pings started
\* since the last join, `pings` those still alive and the angle they read.
scan ==
  /\ CanStart(s)
  /\ s' = [s EXCEPT !.scanning = TRUE, !.hosts = <<>>,
             !.status = "Scanning", !.mixed = @ \/ Running(s) # {},
             !.jobs = Start(s, [next |-> 1, batch |-> 0, pings |-> {}, ended |-> FALSE])]

KeyList == s' = [s EXCEPT !.mode = IF @ = "map" THEN "list" ELSE "map"]

HandleInput == scan \/ KeyList

\* run(): start a ping, or join a full batch
Launch(j) ==
  LET w == s.jobs[j] IN
  \/ /\ w.next <= Addresses /\ w.batch < BatchSize
     /\ s' = [s EXCEPT !.jobs[j] =
                 [w EXCEPT !.next = w.next + 1, !.batch = w.batch + 1,
                           !.pings = w.pings \cup {[i |-> w.next, angle |-> NoAngle]}]]
  \/ /\ w.batch = BatchSize /\ w.pings = {}
     /\ s' = [s EXCEPT !.jobs[j].batch = 0]

\* ping(i): no answer, or an angle; then, under the lock, the new host
ping(j) ==
  \E p \in s.jobs[j].pings :
    LET others == s.jobs[j].pings \ {p} IN
    \/ /\ p.angle = NoAngle
       /\ \E answer \in {{}, {[p EXCEPT !.angle = Len(s.hosts)]}} :
            s' = [s EXCEPT !.jobs[j].pings = others \cup answer]
    \/ /\ p.angle # NoAngle
       /\ s' = [s EXCEPT !.hosts = Append(@, [ip |-> p.i, angle |-> p.angle]),
                         !.jobs[j].pings = others]

\* run(): after the last join the flag and the status, then new angles
Finish(j) ==
  LET w == s.jobs[j] IN
  \/ /\ w.next > Addresses /\ w.pings = {} /\ ~w.ended
     /\ s' = [s EXCEPT !.scanning = FALSE, !.status = "Found", !.jobs[j].ended = TRUE]
  \/ /\ w.ended
     /\ s' = [s EXCEPT !.jobs[j] = Idle,
                       !.hosts = [i \in DOMAIN s.hosts |-> [s.hosts[i] EXCEPT !.angle = i - 1]]]

Work == \E j \in Running(s) : Launch(j) \/ ping(j) \/ Finish(j)

Differ(f(_)) == \A a, b \in DOMAIN s.hosts : a # b => f(s.hosts[a]) # f(s.hosts[b])

\* Unless scans overlapped a host is listed once, and when the scan is over
\* no two of them are drawn on the same ray.
Own == ~s.mixed =>
  /\ Differ(LAMBDA h : h.ip)
  /\ Running(s) = {} => Differ(LAMBDA h : h.angle) /\ ~s.scanning
=============================================================================
