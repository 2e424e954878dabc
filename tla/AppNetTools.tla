----------------------------- MODULE AppNetTools -----------------------------
(***************************************************************************)
(* apps/nettools/nettools.py.  A tool replaces `output` by a new list and  *)
(* a thread adds its lines with `self.output += lines`: it reads the list, *)
(* extends it in place and writes it back, and a list that was replaced in *)
(* between returns.  Lists are objects: `output` names one of s.lists, a   *)
(* list is the sequence of the requests whose lines it has.                *)
(***************************************************************************)
EXTENDS AppLists
CONSTANTS MaxLists,  \* bound: lists made
          Hosts      \* what a user types
VARIABLE s

Tools == <<"Ping", "Traceroute", "DNS Lookup", "My IP", "Interfaces">>
Threaded == {"Ping", "Traceroute"}
NeedsHost == Threaded \cup {"DNS Lookup"}

\* `made` numbers lists, and so requests; `mixed` records that an output was
\* given up, by ESC or by another tool, while its thread was running.
Fresh == [selected |-> 0, output |-> 0, lists |-> [i \in 0..MaxLists |-> <<>>],
          made |-> 0, input |-> NoText, mode |-> "menu", jobs |-> NoJobs, mixed |-> FALSE]

\* A thread: its request, and the list it has read and not written back.
Commands == [request : 1..MaxLists, list : 0..MaxLists]

Tool == Tools[s.selected + 1]
Output == s.lists[s.output]

\* self.output = [...] as assigned from st
NewList(st, lines) ==
  [st EXCEPT !.made = @ + 1, !.output = st.made + 1,
             !.lists[st.made + 1] = lines, !.mixed = @ \/ Running(st) # {}]

KeyArrow ==
  /\ s.mode = "menu"
  /\ \E d \in {1, Len(Tools) - 1} :
       s' = [s EXCEPT !.selected = (@ + d) % Len(Tools)]

\* execute(): My IP and Interfaces answer in the handler itself.
execute ==
  /\ s.mode = "menu"
  /\ \/ /\ Tool \in NeedsHost
        /\ s' = [s EXCEPT !.mode = "input", !.input = NoText]
     \/ /\ Tool \notin NeedsHost /\ s.made < MaxLists
        /\ s' = [NewList(s, <<s.made + 1>>) EXCEPT !.mode = "output"]

\* ENTER without a host types a "\r", which is one.
KeyType == s.mode = "input" /\ \E t \in Hosts \cup {NoText} : s' = [s EXCEPT !.input = t]

\* run_dns() answers in the handler, run_ping() and run_traceroute() do not.
KeyEnter ==
  /\ s.mode = "input" /\ s.input # NoText /\ s.made < MaxLists /\ CanStart(s)
  /\ LET r == s.made + 1
         st == [NewList(s, <<r>>) EXCEPT !.mode = "output"]
     IN  s' = IF Tool \in Threaded
              THEN [st EXCEPT !.jobs = Start(st, [request |-> r, list |-> 0])]
              ELSE st

HandleInput == KeyArrow \/ execute \/ KeyType \/ KeyEnter

HandleEsc ==
  \/ s.mode = "input" /\ s' = [s EXCEPT !.mode = "menu"]
  \/ /\ s.mode = "output" /\ s.made < MaxLists
     /\ s' = [NewList(s, <<>>) EXCEPT !.mode = "menu"]

\* run(): the lines reach the list that was read, then `output` is written.
\* A failed command appends its error to the list of the moment.
Work ==
  \E j \in Running(s) : LET w == s.jobs[j] IN
    \/ /\ w.list = 0
       /\ s' = [s EXCEPT !.lists[s.output] = Append(@, w.request),
                         !.jobs[j].list = s.output]
    \/ /\ w.list = 0
       /\ s' = [s EXCEPT !.lists[s.output] = Append(@, w.request), !.jobs[j] = Idle]
    \/ /\ w.list # 0
       /\ s' = [s EXCEPT !.output = w.list, !.jobs[j] = Idle]

\* draw_menu blits `hint` before it is assigned.
DrawRaises == s.mode = "menu"

\* The screen has lines of one request, unless one was given up early.
Own == s.mode = "output" /\ ~s.mixed => \A i \in DOMAIN Output : Output[i] = s.output
=============================================================================
