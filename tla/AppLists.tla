------------------------------ MODULE AppLists ------------------------------
(***************************************************************************)
(* What the list screens of the apps share: a cursor `selected` (counted   *)
(* from 0, as in the code), a window of Rows rows that starts at `scroll`, *)
(* the arrow keys that move both, and typed text.  A text is a member of   *)
(* Texts: which characters it has never matters, whether it is empty does. *)
(*                                                                         *)
(* And the threads an app starts for its slow work.  A thread is daemonic  *)
(* and is never joined or cancelled by the app: it goes on when its screen *)
(* is left and dies with the shell.  The attributes it writes are the      *)
(* app's, so two threads of one app write the same ones.  Every step of a  *)
(* thread is one read or write of such an attribute.                       *)
(***************************************************************************)
EXTENDS Integers, Sequences, FiniteSets

CONSTANTS
  Rows,     \* rows a list screen shows (8 to 13 in the apps)
  Texts,    \* what a user can type
  MaxItems, \* bound: entries of a list
  Torn,     \* a file that open(..., "w") has truncated and nothing has filled
  Jobs,     \* bound: the threads one app has at a time
  Idle      \* a slot without a thread

NoText == ""    \* the empty input
CR == "\r"      \* the text ENTER types where the code does not catch it

\* Where the code of a thread can be, in the apps whose threads carry nothing else.
Places == {"new", "ping", "download", "complete", "test", "full", "open", "count", "pop"}

\* The number of entries is at least as large as the window needs to scroll.
ASSUME AppListsAssumption ==
  /\ Rows \in Nat \ {0}
  /\ MaxItems \in Nat
  /\ NoText \in Texts /\ CR \notin Texts
  /\ Jobs \in SUBSET Nat /\ Jobs # {} /\ IsFiniteSet(Jobs)
  /\ Idle \notin Int /\ Idle \notin Places

\* Mutant of Down: the window follows one row late.
Down_late(s, n) ==
  LET sel == IF s.selected < n - 1 THEN s.selected + 1 ELSE s.selected
  IN  [s EXCEPT !.selected = sel,
                !.scroll = IF sel > @ + Rows THEN @ + 1 ELSE @]

\* K_DOWN: the selection moves first, the window follows by one row.
Down(s, n) ==
  LET sel == IF s.selected < n - 1 THEN s.selected + 1 ELSE s.selected
  IN  [s EXCEPT !.selected = sel,
                !.scroll = IF sel >= @ + Rows THEN @ + 1 ELSE @]

\* K_UP
Up(s) ==
  LET sel == IF s.selected > 0 THEN s.selected - 1 ELSE s.selected
  IN  [s EXCEPT !.selected = sel,
                !.scroll = IF sel < @ THEN @ - 1 ELSE @]

\* max(0, selected - 1), after an entry was removed
StepBack(n) == IF n > 0 THEN n - 1 ELSE 0

\* list[i] and list.pop(i) of Python: a negative index counts from the end.
Index(list, i) == IF i < 0 THEN Len(list) + i + 1 ELSE i + 1
HasIndex(list, i) == Index(list, i) \in 1..Len(list)
At(list, i) == list[Index(list, i)]
Pop(list, i) ==
  [k \in 1..(Len(list) - 1) |-> list[IF k < Index(list, i) THEN k ELSE k + 1]]

\* list.insert(i, e) for an i that is in the list or at its end
Insert(list, i, e) ==
  [k \in 1..(Len(list) + 1) |->
     IF k <= i THEN list[k] ELSE IF k = i + 1 THEN e ELSE list[k - 1]]

\* The entries draw_list puts on the screen: list[scroll : scroll + Rows].
Window(n, s) == {i \in s.scroll..(s.scroll + Rows - 1) : i < n}

-----------------------------------------------------------------------------
(* Threads *)

NoJobs == [j \in Jobs |-> Idle]
Running(s) == {j \in Jobs : s.jobs[j] # Idle}

\* Thread(...).start(): the new thread takes a free slot.
CanStart(s) == Running(s) # Jobs
Start(s, worker) ==
  [s.jobs EXCEPT ![CHOOSE j \in Jobs : j \notin Running(s)] = worker]
=============================================================================
