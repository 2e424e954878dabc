------------------------------- MODULE AppUSB --------------------------------
(***************************************************************************)
(* apps/usbtools/usbtools.py.  Only the number of devices of the last scan *)
(* matters; what is plugged in changes between scans.                      *)
(***************************************************************************)
EXTENDS AppLists
VARIABLE s

Fresh == [devices |-> 0, selected |-> 0, scroll |-> 0, mode |-> "list",
          details |-> NoText]

InList == s.mode = "list"

KeyArrow == InList /\ s' \in {Down(s, s.devices), Up(s)}

\* scan(): an error empties the list; the selection stays.
KeyScan == InList /\ \E n \in 0..MaxItems : s' = [s EXCEPT !.devices = n]

\* get_details() and get_mounted() show their error as the detail.
KeyDetail ==
  /\ InList
  /\ \/ /\ s.selected < s.devices
        /\ s' = [s EXCEPT !.mode = "detail", !.details = "device"]
     \/ s' = [s EXCEPT !.mode = "detail", !.details = "mounts"]

HandleInput == KeyArrow \/ KeyScan \/ KeyDetail

HandleEsc == s.mode = "detail" /\ s' = [s EXCEPT !.mode = "list"]

\* draw_list()
Shown == Window(s.devices, s)
SelectionSeen == s.selected < s.devices => s.selected \in Shown

InputRaises == InList /\ s.devices > 0 /\ s.selected >= s.devices
=============================================================================
