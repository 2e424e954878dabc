---------------------------- MODULE AppNetMapper -----------------------------
(***************************************************************************)
(* apps/netmapper/netmapper.py: one thread pings every address in turn.    *)
(* S is refused while `scanning`, which the thread clears before its last  *)
(* write, so a second scan can start under it.                             *)
(***************************************************************************)
EXTENDS AppLists
CONSTANT LastAddr   \* the last address (254)
VARIABLE s

Fresh == [hosts |-> <<>>, scanning |-> FALSE, status |-> NoText, selected |-> 0,
          scroll |-> 0, progress |-> 0, jobs |-> NoJobs]

\* Mutant of KeyScan: a scan that runs does not keep another from starting.
KeyScan_unguarded ==
  /\ CanStart(s)
  /\ s' = [s EXCEPT !.scanning = TRUE, !.hosts = <<>>, !.progress = 0,
                    !.status = "Scanning", !.jobs = Start(s, 1)]

\* scan(): get_local_ip() never fails; the thread begins at address 1.
KeyScan ==
  /\ ~s.scanning /\ CanStart(s)
  /\ s' = [s EXCEPT !.scanning = TRUE, !.hosts = <<>>, !.progress = 0,
                    !.status = "Scanning", !.jobs = Start(s, 1)]

KeyArrow == s' \in {Down(s, Len(s.hosts)), Up(s)}

HandleInput == KeyScan \/ KeyArrow

\* run(): one address, which may answer
Ping(j) ==
  /\ s.jobs[j] \in 1..LastAddr
  /\ \E up \in BOOLEAN :
       s' = [s EXCEPT !.progress = s.jobs[j], !.jobs[j] = @ + 1,
                      !.hosts = IF up THEN Append(@, s.jobs[j]) ELSE @]

\* run(): past the last address, first the flag, then the status
Finish(j) ==
  \/ /\ s.jobs[j] = LastAddr + 1
     /\ s' = [s EXCEPT !.scanning = FALSE, !.jobs[j] = @ + 1]
  \/ /\ s.jobs[j] = LastAddr + 2
     /\ s' = [s EXCEPT !.status = "Found", !.jobs[j] = Idle]

Work == \E j \in Running(s) : Ping(j) \/ Finish(j)

\* draw()
Shown == Window(Len(s.hosts), s)
SelectionSeen == s.selected < Len(s.hosts) => s.selected \in Shown

\* Every host once, in order, none beyond the address the bar has reached;
\* at most one thread is pinging, and while none is the button works.
Exact ==
  /\ \A a, b \in DOMAIN s.hosts : a < b => s.hosts[a] < s.hosts[b]
  /\ \A a \in DOMAIN s.hosts : s.hosts[a] <= s.progress
  /\ s.scanning <=> Cardinality({j \in Running(s) : s.jobs[j] <= LastAddr + 1}) = 1
=============================================================================
