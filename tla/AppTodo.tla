------------------------------ MODULE AppTodo -------------------------------
(***************************************************************************)
(* apps/todo/todo.py: tasks in julius_todo.json, shown through a filter.   *)
(***************************************************************************)
EXTENDS AppLists
VARIABLES s, file

Fresh(f) == [tasks |-> f, selected |-> 0, mode |-> "list", input |-> NoText,
             scroll |-> 0, filter |-> "all"]

save == file' = Torn
Contents == s.tasks

Keeps(task) == \/ s.filter = "all"
               \/ s.filter = "done" /\ task.done
               \/ s.filter = "pending" /\ ~task.done

\* filtered(): the positions in `tasks` of the tasks the filter keeps
filtered == SelectSeq([i \in 1..Len(s.tasks) |-> i],
                      LAMBDA i : Keeps(s.tasks[i]))

InList == s.mode = "list"
Chosen == filtered[s.selected + 1]
CanChoose == InList /\ s.selected < Len(filtered)

KeyArrow ==
  /\ InList
  /\ s' \in {Down(s, Len(filtered)), Up(s)}
  /\ UNCHANGED file

KeyNew ==
  /\ InList /\ Len(s.tasks) < MaxItems
  /\ s' = [s EXCEPT !.mode = "add", !.input = NoText]
  /\ UNCHANGED file

\* Mutant of KeyToggle: the change is not saved.
KeyToggle_unsaved ==
  /\ CanChoose
  /\ s' = [s EXCEPT !.tasks[Chosen].done = ~@]
  /\ UNCHANGED file

\* ENTER marks the chosen task, which may take it out of the filter.
KeyToggle ==
  /\ CanChoose
  /\ s' = [s EXCEPT !.tasks[Chosen].done = ~@]
  /\ save

\* Where tasks.remove(task) finds the task.
FirstLike(task) == CHOOSE i \in DOMAIN s.tasks :
  s.tasks[i] = task /\ \A j \in 1..(i - 1) : s.tasks[j] # task

\* tasks.remove(t) removes the first task equal to the chosen one.
KeyDelete ==
  /\ CanChoose
  /\ s' = [s EXCEPT !.tasks = Pop(@, FirstLike(s.tasks[Chosen]) - 1),
                    !.selected = StepBack(@)]
  /\ save

Cycle == [all |-> "pending", pending |-> "done", done |-> "all"]

KeyFilter ==
  /\ InList
  /\ s' = [s EXCEPT !.filter = Cycle[@], !.selected = 0, !.scroll = 0]
  /\ UNCHANGED file

AddKey ==
  /\ s.mode = "add"
  /\ \/ /\ s.input # NoText
        /\ s' = [s EXCEPT !.mode = "list", !.input = NoText,
                   !.tasks = Append(@, [text |-> s.input, done |-> FALSE])]
        /\ save
     \/ /\ s.input = NoText
        /\ s' = [s EXCEPT !.input = CR]
        /\ UNCHANGED file
     \/ /\ \E t \in Texts : s' = [s EXCEPT !.input = t]
        /\ UNCHANGED file

HandleInput == KeyArrow \/ KeyNew \/ KeyToggle \/ KeyDelete \/ KeyFilter \/ AddKey

HandleEsc ==
  /\ s.mode = "add"
  /\ s' = [s EXCEPT !.mode = "list", !.input = NoText]
  /\ UNCHANGED file

\* `if tasks:` guards an empty list, not a selection past its end.
InputRaises == InList /\ filtered # <<>> /\ s.selected >= Len(filtered)

\* draw_list(): deleting moves the selection up but not the window.
Shown == Window(Len(filtered), s)
SelectionSeen ==
  s.selected < Len(filtered) => s.selected \in Shown \/ s.selected < s.scroll

OnDisk == file = s.tasks
=============================================================================
