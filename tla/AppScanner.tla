----------------------------- MODULE AppScanner ------------------------------
(***************************************************************************)
(* apps/scanner/scanner.py: a thread tries the ports of one target.  R and *)
(* a new target start another one while the first still runs; both append  *)
(* to the list of the moment.  `mixed` records that this has happened.     *)
(***************************************************************************)
EXTENDS AppLists
CONSTANTS Targets,  \* addresses a user types
          Ports     \* bound: how many of the fourteen ports are tried
VARIABLE s

\* A thread: its address and the number of the port it tries next.
Scans == [ip : Targets \cup {NoText}, port : Nat \ {0}]

Fresh == [results |-> <<>>, target |-> NoText, typing |-> TRUE, jobs |-> NoJobs,
          mixed |-> FALSE]

\* scan(ip) as called from st
scan(st) == [st EXCEPT !.results = <<>>,
                       !.jobs = Start(st, [ip |-> st.target, port |-> 1]),
                       !.mixed = @ \/ Running(st) # {}]

KeyEnter ==
  /\ s.typing /\ s.target # NoText /\ CanStart(s)
  /\ s' = scan([s EXCEPT !.typing = FALSE])

\* ENTER without a target matches `"" in "0123456789."` or no character.
KeyType == s.typing /\ \E t \in Targets \cup {NoText} : s' = [s EXCEPT !.target = t]

KeyRescan == ~s.typing /\ CanStart(s) /\ s' = scan(s)

HandleInput == KeyEnter \/ KeyType \/ KeyRescan

HandleEsc ==
  /\ ~s.typing
  /\ s' = [s EXCEPT !.typing = TRUE, !.target = NoText, !.results = <<>>,
                    !.mixed = @ \/ Running(s) # {}]

\* run(): one port, open or not; any error counts as closed.
Work ==
  \E j \in Running(s) : LET w == s.jobs[j] IN
    IF w.port > Ports THEN s' = [s EXCEPT !.jobs[j] = Idle]
    ELSE \E open \in BOOLEAN :
           s' = [s EXCEPT !.jobs[j].port = @ + 1,
                   !.results = IF open THEN Append(@, w) ELSE @]

\* Unless two scans ran at once, the list has the target's ports in order.
Own == ~s.mixed => /\ \A i \in DOMAIN s.results : s.results[i].ip = s.target
                   /\ \A i, k \in DOMAIN s.results :
                         i < k => s.results[i].port < s.results[k].port
=============================================================================
