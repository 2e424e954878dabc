---------------------------- MODULE AppPasswords ----------------------------
(***************************************************************************)
(* apps/passwords/passwords.py: entries in julius_passwords.json.          *)
(***************************************************************************)
EXTENDS AppLists
VARIABLES s, file

Fields == <<"site", "user", "pass">>
Blank == [k \in {"site", "user", "pass"} |-> NoText]

Fresh(f) == [data |-> f, selected |-> 0, mode |-> "list", scroll |-> 0,
             inputs |-> Blank, stage |-> 1, show |-> FALSE]

save == file' = Torn
Contents == s.data

InList == s.mode = "list"
Field == Fields[s.stage]

KeyArrow ==
  /\ InList
  /\ s' \in {Down(s, Len(s.data)), Up(s)}
  /\ UNCHANGED file

KeyNew ==
  /\ InList /\ Len(s.data) < MaxItems
  /\ s' = [s EXCEPT !.mode = "add", !.stage = 1, !.inputs = Blank]
  /\ UNCHANGED file

KeyView ==
  /\ InList /\ s.data # <<>>
  /\ s' = [s EXCEPT !.mode = "view", !.show = FALSE]
  /\ UNCHANGED file

KeyDelete ==
  /\ InList /\ s.data # <<>> /\ HasIndex(s.data, s.selected)
  /\ s' = [s EXCEPT !.data = Pop(@, s.selected), !.selected = StepBack(@)]
  /\ save

\* ENTER in a form: the next field, or, after the last one, a new entry; an
\* empty field keeps the form where it is.
FormEnter ==
  /\ s.mode = "add" /\ s.inputs[Field] # NoText
  /\ IF s.stage < Len(Fields)
     THEN s' = [s EXCEPT !.stage = @ + 1] /\ UNCHANGED file
     ELSE /\ s' = [s EXCEPT !.data = Append(@, s.inputs), !.mode = "list"]
          /\ save

FormKey ==
  /\ s.mode = "add"
  /\ \E t \in Texts : s' = [s EXCEPT !.inputs[Field] = t]
  /\ UNCHANGED file

\* S shows and H hides the password of the entry in the view.
ViewKey ==
  /\ s.mode = "view"
  /\ s' \in {[s EXCEPT !.show = TRUE], [s EXCEPT !.show = FALSE]}
  /\ UNCHANGED file

HandleInput == \/ KeyArrow \/ KeyNew \/ KeyView \/ KeyDelete \/ FormEnter
               \/ FormKey \/ ViewKey

HandleEsc ==
  /\ s.mode \in {"add", "view"}
  /\ s' = [s EXCEPT !.mode = "list"]
  /\ UNCHANGED file

\* data.pop(selected) in the list, data[selected] in draw_view
InputRaises == InList /\ s.data # <<>> /\ ~HasIndex(s.data, s.selected)
DrawRaises == s.mode = "view" /\ ~HasIndex(s.data, s.selected)

\* draw_list(): deleting moves the selection up but not the window.
Shown == Window(Len(s.data), s)
SelectionSeen == s.selected < Len(s.data) => s.selected \in Shown \/ s.selected < s.scroll

OnDisk == /\ file = s.data
          /\ \A i \in DOMAIN s.data : \A k \in DOMAIN s.data[i] :
                s.data[i][k] # NoText
=============================================================================
