----------------------------- MODULE AppProcKill -----------------------------
(***************************************************************************)
(* apps/processkiller/processkiller.py.  A process is whether its name     *)
(* contains what the user filters by; its pid is its place in `procs`.     *)
(***************************************************************************)
EXTENDS AppLists
VARIABLE s

Fresh == [procs |-> <<>>, selected |-> 0, scroll |-> 0, filter |-> NoText,
          mode |-> "list"]

\* What ps can print: it is sorted by load, so any order.
Tables == UNION {[1..n -> BOOLEAN] : n \in 0..MaxItems}

\* refresh(): a new table, or an error that keeps the old one
refresh(st) == {[st EXCEPT !.procs = t] : t \in Tables} \cup {st}

filtered_procs == IF s.filter = NoText THEN s.procs ELSE SelectSeq(s.procs, LAMBDA p : p)

InList == s.mode = "list"

KeyArrow == InList /\ s' \in {Down(s, Len(filtered_procs)), Up(s)}

KeyRefresh == InList /\ s' \in refresh(s)

\* kill() signals the pid the table had and reads the table again.
KeyKill ==
  /\ InList /\ s.selected < Len(filtered_procs)
  /\ s' \in refresh(s)

KeyFilter == InList /\ s' = [s EXCEPT !.mode = "filter", !.filter = NoText]

FilterKey ==
  /\ s.mode = "filter"
  /\ \/ s' = [s EXCEPT !.mode = "list", !.selected = 0, !.scroll = 0]
     \/ \E t \in Texts : s' = [s EXCEPT !.filter = t]

HandleInput == KeyArrow \/ KeyRefresh \/ KeyKill \/ KeyFilter \/ FilterKey

\* ESC cancels the filter and leaves the selection where it was.
HandleEsc == s.mode = "filter" /\ s' = [s EXCEPT !.mode = "list", !.filter = NoText]

\* draw_list()
Shown == Window(Len(filtered_procs), s)
SelectionSeen == s.selected < Len(filtered_procs) => s.selected \in Shown

\* procs[selected] of a table that has become shorter
InputRaises == InList /\ filtered_procs # <<>> /\ s.selected >= Len(filtered_procs)
=============================================================================
