----------------------------- MODULE AppFirewall -----------------------------
(***************************************************************************)
(* apps/firewall/firewall.py.  `file` is the INPUT chain of the kernel and *)
(* s.rules the copy on the screen; a rule is its target.  Entry i of the   *)
(* copy has the number i, which D hands to iptables.  `drift` records that *)
(* the chain changed, or was changed by us, and was not read since.        *)
(***************************************************************************)
EXTENDS AppLists
VARIABLES s, file

Verdicts == {"ACCEPT", "DROP"}

Fresh == [rules |-> <<>>, selected |-> 0, scroll |-> 0, status |-> NoText,
          mode |-> "list", stage |-> "port", port_in |-> NoText,
          action |-> "ACCEPT", drift |-> TRUE]

InList == s.mode = "list"

\* Mutant of load_rules: three heading lines are skipped instead of two.
load_rules_short(st, chain, changed) ==
  {[st EXCEPT !.rules = SubSeq(chain, 2, Len(chain)), !.status = "loaded",
              !.drift = FALSE],
   [st EXCEPT !.status = "Error", !.drift = @ \/ changed]}

\* load_rules() on st after a change of the chain: iptables may fail, and
\* then the old copy stays.
load_rules(st, chain, changed) ==
  {[st EXCEPT !.rules = chain, !.status = "loaded", !.drift = FALSE],
   [st EXCEPT !.status = "Error", !.drift = @ \/ changed]}

KeyArrow ==
  /\ InList
  /\ s' \in {Down(s, Len(s.rules)), Up(s)}
  /\ UNCHANGED file

KeyLoad ==
  /\ InList
  /\ s' \in load_rules(s, file, FALSE)
  /\ UNCHANGED file

KeyAdd ==
  /\ InList
  /\ s' = [s EXCEPT !.mode = "add", !.stage = "port", !.port_in = NoText,
                    !.action = "ACCEPT"]
  /\ UNCHANGED file

\* delete_rule(): iptables removes by number, or fails and changes nothing.
KeyDelete ==
  /\ InList /\ s.rules # <<>> /\ HasIndex(s.rules, s.selected)
  /\ \/ /\ HasIndex(file, s.selected)
        /\ file' = Pop(file, s.selected)
        /\ s' \in load_rules(s, Pop(file, s.selected), TRUE)
     \/ /\ s' = [s EXCEPT !.status = "Error"]
        /\ UNCHANGED file

After == [port |-> "proto", proto |-> "action"]

\* The form: a port, a protocol (which decides nothing here), an action.
FormKey ==
  /\ s.mode = "add"
  /\ \/ /\ s.stage \in DOMAIN After /\ (s.stage = "port" => s.port_in # NoText)
        /\ s' = [s EXCEPT !.stage = After[@]]
     \/ /\ s.stage = "port"
        /\ \E t \in Texts : s' = [s EXCEPT !.port_in = t]
     \/ /\ s.stage = "action"
        /\ \E a \in Verdicts : s' = [s EXCEPT !.action = a]
  /\ UNCHANGED file

\* add_rule() appends to the chain and reads it again.
FormDone ==
  /\ s.mode = "add" /\ s.stage = "action"
  /\ LET listed == [s EXCEPT !.mode = "list"]
     IN  \/ /\ Len(file) < MaxItems
            /\ file' = Append(file, s.action)
            /\ s' \in load_rules(listed, Append(file, s.action), TRUE)
         \/ /\ s' = [listed EXCEPT !.status = "Error"]
            /\ UNCHANGED file

HandleInput == KeyArrow \/ KeyLoad \/ KeyAdd \/ KeyDelete \/ FormKey \/ FormDone

HandleEsc ==
  /\ s.mode = "add"
  /\ s' = [s EXCEPT !.mode = "list"]
  /\ UNCHANGED file

\* Another program edits the chain (julius_net, a shell).
Outside ==
  /\ \/ \E a \in Verdicts : Len(file) < MaxItems /\ file' = <<a>> \o file
     \/ file # <<>> /\ file' = Tail(file)
  /\ s' = [s EXCEPT !.drift = TRUE]

\* rules[selected] is read outside the try: D on a deleted last row raises.
InputRaises == InList /\ s.rules # <<>> /\ ~HasIndex(s.rules, s.selected)

\* draw_list()
Shown == Window(Len(s.rules), s)
SelectionSeen == s.selected < Len(s.rules) => s.selected \in Shown

\* What is on the screen is what the number of a row deletes.
Current == ~s.drift => s.rules = file
=============================================================================
