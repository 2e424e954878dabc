---------------------------- MODULE AppWakeOnLAN ----------------------------
(***************************************************************************)
(* apps/wakeonlan/wakeonlan.py: devices in julius_wol.json.  The list has  *)
(* no window: it shows the first ten, and K_DOWN on an empty list leaves   *)
(* `selected` at -1.                                                       *)
(***************************************************************************)
EXTENDS AppLists
VARIABLES s, file

Fresh(f) == [devices |-> f, selected |-> 0, mode |-> "list", name_in |-> NoText,
             mac_in |-> NoText, stage |-> "name", status |-> NoText]

save == file' = Torn
Contents == s.devices

InList == s.mode = "list"

KeyArrow ==
  /\ InList
  /\ LET last == Len(s.devices) - 1
     IN  s' \in {[s EXCEPT !.selected = IF @ + 1 < last THEN @ + 1 ELSE last],
                 [s EXCEPT !.selected = StepBack(@)]}
  /\ UNCHANGED file

\* send_magic(): a MAC that is no hex number is reported, nothing is sent.
KeyWake ==
  /\ InList /\ s.devices # <<>> /\ HasIndex(s.devices, s.selected)
  /\ \E r \in {"sent", "error"} : s' = [s EXCEPT !.status = r]
  /\ UNCHANGED file

KeyNew ==
  /\ InList /\ Len(s.devices) < MaxItems
  /\ s' = [s EXCEPT !.mode = "add", !.stage = "name", !.name_in = NoText,
                    !.mac_in = NoText]
  /\ UNCHANGED file

KeyDelete ==
  /\ InList /\ s.devices # <<>> /\ HasIndex(s.devices, s.selected)
  /\ s' = [s EXCEPT !.devices = Pop(@, s.selected), !.selected = StepBack(@)]
  /\ save

NameKey ==
  /\ s.mode = "add" /\ s.stage = "name"
  /\ \/ s.name_in # NoText /\ s' = [s EXCEPT !.stage = "mac"]
     \/ s.name_in = NoText /\ s' = [s EXCEPT !.name_in = CR]
     \/ \E t \in Texts : s' = [s EXCEPT !.name_in = t]
  /\ UNCHANGED file

MacKey ==
  /\ s.mode = "add" /\ s.stage = "mac"
  /\ \/ /\ s.mac_in # NoText
        /\ s' = [s EXCEPT !.mode = "list", !.status = "added",
                   !.devices = Append(@, [name |-> s.name_in, mac |-> s.mac_in])]
        /\ save
     \/ /\ s.mac_in = NoText
        /\ s' = [s EXCEPT !.mac_in = CR]
        /\ UNCHANGED file
     \/ /\ \E t \in Texts : s' = [s EXCEPT !.mac_in = t]
        /\ UNCHANGED file

HandleInput == KeyArrow \/ KeyWake \/ KeyNew \/ KeyDelete \/ NameKey \/ MacKey

HandleEsc ==
  /\ s.mode = "add"
  /\ s' = [s EXCEPT !.mode = "list"]
  /\ UNCHANGED file

InputRaises == InList /\ s.devices # <<>> /\ ~HasIndex(s.devices, s.selected)

OnDisk == file = s.devices
=============================================================================
