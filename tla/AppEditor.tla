----------------------------- MODULE AppEditor ------------------------------
(***************************************************************************)
(* apps/texteditor/texteditor.py.  A line is its length (every character   *)
(* the same), so a text is a sequence of numbers; the disk maps names to   *)
(* texts.                                                                  *)
(***************************************************************************)
EXTENDS AppLists, Functions
CONSTANTS MaxChars, \* bound: characters of a text
          Missing   \* what the disk has under a name no file has
VARIABLES s, file

Empty == <<0>>   \* [""]

\* `failed` records that the last save of the text lost what the file had.
Fresh == [lines |-> Empty, cursor_x |-> 0, cursor_y |-> 0, scroll |-> 0,
          filename |-> NoText, mode |-> "input_name", modified |-> FALSE,
          failed |-> FALSE]

Row == s.cursor_y + 1
Line(st) == st.lines[st.cursor_y + 1]     \* current_line()
Editing == s.mode = "edit"

insert_char ==
  /\ Editing /\ FoldFunction(+, 0, s.lines) < MaxChars
  /\ s' = [s EXCEPT !.lines[Row] = @ + 1, !.cursor_x = @ + 1,
                    !.modified = TRUE]
  /\ UNCHANGED file

backspace ==
  /\ Editing
  /\ \/ /\ s.cursor_x > 0
        /\ s' = [s EXCEPT !.lines[Row] = @ - 1, !.cursor_x = @ - 1,
                          !.modified = TRUE]
     \/ /\ s.cursor_x = 0 /\ s.cursor_y > 0
        /\ s' = [s EXCEPT !.cursor_x = s.lines[Row - 1],
                          !.lines = Pop([s.lines EXCEPT ![Row - 1] = @ + s.lines[Row]],
                                       s.cursor_y),
                          !.cursor_y = @ - 1, !.modified = TRUE]
  /\ UNCHANGED file

\* Mutant of newline: the text is not marked.
newline_unmarked ==
  /\ Editing /\ Len(s.lines) < MaxItems
  /\ s' = [s EXCEPT !.lines = Insert([@ EXCEPT ![Row] = s.cursor_x], Row,
                                     Line(s) - s.cursor_x),
                    !.cursor_y = @ + 1, !.cursor_x = 0]
  /\ UNCHANGED file

newline ==
  /\ Editing /\ Len(s.lines) < MaxItems
  /\ s' = [s EXCEPT !.lines = Insert([@ EXCEPT ![Row] = s.cursor_x], Row,
                                     Line(s) - s.cursor_x),
                    !.cursor_y = @ + 1, !.cursor_x = 0, !.modified = TRUE]
  /\ UNCHANGED file

\* save() reports an error and keeps `modified`: open() may raise, and write()
\* may when open() has truncated the file already.
save ==
  /\ Editing
  /\ \/ /\ file' = [file EXCEPT ![s.filename] = s.lines]
        /\ s' = [s EXCEPT !.modified = FALSE, !.failed = FALSE]
     \/ UNCHANGED <<s, file>>
     \/ /\ file' = [file EXCEPT ![s.filename] = Empty]
        /\ s' = [s EXCEPT !.failed = TRUE]

\* load(): `modified` and `scroll` stay as the last file left them.
load ==
  /\ s.mode = "input_name" /\ s.filename \in DOMAIN file
  /\ \/ s' = [s EXCEPT !.lines = IF file[s.filename] = Missing THEN Empty
                                 ELSE file[s.filename],
                       !.cursor_x = 0, !.cursor_y = 0, !.mode = "edit", !.failed = FALSE]
     \/ UNCHANGED s
  /\ UNCHANGED file

NameKey ==
  /\ s.mode = "input_name"
  /\ \E t \in DOMAIN file \cup {NoText} : s' = [s EXCEPT !.filename = t]
  /\ UNCHANGED file

Least(a, b) == IF a < b THEN a ELSE b

\* The cursor keys: K_UP and K_DOWN keep the column inside the new line.
KeyArrow ==
  /\ Editing
  /\ \/ s' = [s EXCEPT !.cursor_x = StepBack(@)]
     \/ s' = [s EXCEPT !.cursor_x = Least(Line(s), @ + 1)]
     \/ LET y == StepBack(s.cursor_y) IN
        s' = [s EXCEPT !.cursor_y = y,
                       !.cursor_x = IF s.cursor_y > 0 THEN Least(@, s.lines[y + 1]) ELSE @,
                       !.scroll = IF y < @ THEN @ - 1 ELSE @]
     \/ LET y == Least(s.cursor_y + 1, Len(s.lines) - 1) IN
        s' = [s EXCEPT !.cursor_y = y,
                       !.cursor_x = IF y # s.cursor_y THEN Least(@, s.lines[y + 1]) ELSE @,
                       !.scroll = IF y >= @ + Rows THEN @ + 1 ELSE @]
  /\ UNCHANGED file

HandleInput == insert_char \/ backspace \/ newline \/ save \/ load \/ NameKey \/ KeyArrow

\* ESC leaves the file and what was not saved of it.
HandleEsc ==
  /\ \/ Editing /\ s' = [s EXCEPT !.mode = "input_name", !.filename = NoText,
                           !.lines = Empty, !.cursor_x = 0, !.cursor_y = 0]
     \/ ~Editing /\ s' = [s EXCEPT !.filename = NoText]
  /\ UNCHANGED file

\* handle_input and draw_edit index the text with the cursor.
InputRaises == /\ Editing
               /\ \/ s.cursor_y >= Len(s.lines)
                  \/ s.cursor_x > Line(s)

\* Without the `*` of draw_edit the text on the screen is the file's, unless
\* a save has failed after the truncation: that reports an error, but puts no
\* `*` beside a text that had none.
Saved == Editing /\ ~s.modified /\ ~s.failed =>
           s.lines = IF file[s.filename] = Missing THEN Empty ELSE file[s.filename]
=============================================================================
