------------------------------ MODULE AppNotes ------------------------------
(***************************************************************************)
(* apps/notes/notes.py: notes kept in julius_notes.json.  A note that is   *)
(* edited leaves the list until ESC puts it back at the end.               *)
(***************************************************************************)
EXTENDS AppLists
VARIABLES s, file

Note == [title : Texts \cup {CR}, body : Texts]

\* Notes(): load() reads the file when there is one; the file holds a list.
\* `opened` records that a note has been looked at: the view scrolls with the
\* `scroll` of the list, and leaves it at 0 or where the note was left.
Fresh(f) == [notes |-> f, mode |-> "list", selected |-> 0, editing |-> NoText,
             title |-> NoText, stage |-> "title", scroll |-> 0, opened |-> FALSE]

\* save() truncates the file; the write that fills it is a step of its own.
save == file' = Torn
Contents == s.notes

\* Lines of a body: a non-empty one is longer than the screen.
Lines(body) == IF body = NoText THEN 1 ELSE Rows + 1

InList == s.mode = "list"
InTitle == s.mode = "edit" /\ s.stage = "title"
InBody == s.mode = "edit" /\ s.stage = "body"
InView == s.mode = "view" /\ HasIndex(s.notes, s.selected)

KeyNew ==
  /\ InList /\ Len(s.notes) < MaxItems
  /\ s' = [s EXCEPT !.mode = "edit", !.stage = "title", !.title = NoText,
                    !.editing = NoText]
  /\ UNCHANGED file

KeyArrow ==
  /\ InList
  /\ s' \in {Down(s, Len(s.notes)), Up(s)}
  /\ UNCHANGED file

KeyOpen ==
  /\ InList /\ s.notes # <<>>
  /\ s' = [s EXCEPT !.mode = "view", !.scroll = 0, !.opened = TRUE]
  /\ UNCHANGED file

\* Mutant of KeyDelete: the selection is not moved back.
KeyDelete_stays ==
  /\ InList /\ s.notes # <<>> /\ HasIndex(s.notes, s.selected)
  /\ s' = [s EXCEPT !.notes = Pop(@, s.selected)]
  /\ save

KeyDelete ==
  /\ InList /\ s.notes # <<>>
  /\ s' = [s EXCEPT !.notes = Pop(@, s.selected), !.selected = StepBack(@)]
  /\ save

\* ENTER with no title falls through to `title += event.unicode`.
TitleKey ==
  /\ InTitle
  /\ \/ s.title # NoText /\ s' = [s EXCEPT !.stage = "body"]
     \/ s.title = NoText /\ s' = [s EXCEPT !.title = CR]
     \/ \E t \in Texts : s' = [s EXCEPT !.title = t]
  /\ UNCHANGED file

BodyKey ==
  /\ InBody
  /\ \E t \in Texts : s' = [s EXCEPT !.editing = t]
  /\ UNCHANGED file

ViewArrow ==
  /\ InView
  /\ LET last == Lines(At(s.notes, s.selected).body) - Rows
     IN  s' \in {[s EXCEPT !.scroll = IF @ < last THEN @ + 1 ELSE @],
                 [s EXCEPT !.scroll = StepBack(@)]}
  /\ UNCHANGED file

ViewEdit ==
  /\ InView
  /\ LET note == At(s.notes, s.selected)
     IN  s' = [s EXCEPT !.mode = "edit", !.stage = "body",
                        !.title = note.title, !.editing = note.body,
                        !.notes = Pop(@, s.selected)]
  /\ UNCHANGED file

HandleInput == \/ KeyNew \/ KeyArrow \/ KeyOpen \/ KeyDelete \/ TitleKey
               \/ BodyKey \/ ViewArrow \/ ViewEdit

\* ESC: cancel a title, save a body, leave the view.
HandleEsc ==
  \/ /\ InTitle
     /\ s' = [s EXCEPT !.mode = "list"]
     /\ UNCHANGED file
  \/ /\ InBody
     /\ s' = [s EXCEPT !.mode = "list", !.stage = "title",
                !.notes = Append(@, [title |-> s.title, body |-> s.editing])]
     /\ save
  \/ /\ InView
     /\ s' = [s EXCEPT !.mode = "list", !.scroll = 0]
     /\ UNCHANGED file

\* handle_input indexes the list with `selected` in the view.
InputRaises == s.mode = "view" /\ ~HasIndex(s.notes, s.selected)

\* draw_view blits `hint`, a name it never assigns.
DrawRaises == s.mode = "view"

\* draw_list(): until a note has been opened the selection is not below the
\* window; after that it may be, and D deletes a note that is not shown.
Shown == Window(Len(s.notes), s)
SelectionSeen == InList /\ ~s.opened /\ s.selected < Len(s.notes) =>
                   s.selected \in Shown \/ s.selected < s.scroll

\* The file holds the list, except for the note being edited, which the file
\* still has and the list has not: an edit is written when it is finished.
OnDisk ==
  \/ file = s.notes
  \/ InBody /\ s.selected < Len(file) /\ s.notes = Pop(file, s.selected)
=============================================================================
