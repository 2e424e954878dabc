------------------------------ MODULE JuliusPush ------------------------------
(***************************************************************************)
(* Notifications: the push service (services/julius_push/julius_push.c),   *)
(* one thread per client over an array of the latest notifications, and    *)
(* the notification center of the shell (src/system/notification_center.py)*)
(* which reads the file the service writes, once, when the shell starts,   *)
(* and writes the same file whenever the user reads or clears something.   *)
(*                                                                         *)
(* A notification is its id.  The sections under push_lock neither block   *)
(* nor call out, so each is one step; what the service does with the file  *)
(* outside the lock is several.                                            *)
(***************************************************************************)
EXTENDS Integers, Sequences, SequencesExt

CONSTANTS Clients,      \* connections to the service
          MaxNotifs,    \* MAX_NOTIFS
          MaxId,        \* bound: notifications sent in a behaviour
          Samples,      \* how many the shell shows when there is no file
          Quoted,       \* notifications with a text that is not JSON when printed as it is
          Shell,        \* the notification center as a writer of the file
          Torn, None

ASSUME PushAssumption ==
    /\ MaxNotifs \in Nat \ {0} /\ MaxId \in Nat \ {0}
    /\ Samples \in Nat
    /\ Quoted \subseteq 2..MaxId   \* not in the built-in one, 1
    /\ Shell \notin Clients

VARIABLES notifs,       \* the array: entries beyond notif_count are left over
          notif_count, next_id,
          pc,           \* what each thread is doing
          slot,         \* its pointer n into the array
          buf,          \* what a writer has printed and not flushed yet
          file,         \* /var/run/julius_notifications.json: what json.load makes of it, a
                        \* list or Torn (an error), or None
          shown,        \* the list of the notification center, or None: no shell runs
          read,         \* the ids in it that are marked read
          mine,         \* history: the id each thread gave its notification
          sent,         \* history: the notifications since the last clear
          reused,       \* history: an entry of the array was moved or used again
          doubtful      \* history: two writers had the file open, or one could not write it,
                        \* since it was last right

vars == <<notifs, notif_count, next_id, pc, slot, buf, file, shown, read, mine, sent, reused, doubtful>>

Ids == 1..MaxId
Demo == [i \in 1..Samples |-> -i]   \* demo_notifs(): none of the service's
Slots == 1..MaxNotifs
Writers == Clients \cup {Shell}
Lists == Seq(Ids \cup Range(Demo))

TypeOK ==
    /\ notifs \in [Slots -> 0..MaxId]
    /\ notif_count \in 0..MaxNotifs
    /\ next_id \in 1..(MaxId + 1)
    /\ pc \in [Writers -> {"idle", "sent", "cleared", "open", "printed", "reply"}]
    /\ slot \in [Clients -> 0..MaxNotifs]
    /\ buf \in [Writers -> Lists \cup {Torn}]
    /\ file \in {Torn, None} \/ file \in Lists
    /\ shown = None \/ shown \in Lists
    /\ read \subseteq Ids \cup Range(Demo)
    /\ mine \in [Clients -> 0..MaxId]
    /\ sent \in Seq(Ids)
    /\ reused \in BOOLEAN /\ doubtful \in BOOLEAN

\* The service has started, with its one built-in notification written, or has
\* not been able to write it.
Init ==
    /\ notifs = [i \in Slots |-> IF i = 1 THEN 1 ELSE 0]
    /\ notif_count = 1
    /\ next_id = 2
    /\ pc = [w \in Writers |-> "idle"]
    /\ slot = [c \in Clients |-> 0]
    /\ buf = [w \in Writers |-> <<>>]
    /\ file \in {<<1>>, None}
    /\ shown = None /\ read = {}
    /\ mine = [c \in Clients |-> 0]
    /\ sent = <<1>>
    /\ reused = FALSE /\ doubtful = FALSE

List == SubSeq(notifs, 1, notif_count)

shell == <<shown, read>>
array == <<notifs, notif_count, next_id>>

-----------------------------------------------------------------------------
(* The service *)

\* Mutant of Send: the oldest one makes room without the others moving up.
SendOver(c) ==
    /\ pc[c] = "idle" /\ next_id <= MaxId
    /\ LET full == notif_count >= MaxNotifs
           n == IF full THEN 1 ELSE notif_count + 1
       IN /\ notifs' = [notifs EXCEPT ![n] = next_id]
          /\ notif_count' = IF full THEN notif_count ELSE n
          /\ slot' = [slot EXCEPT ![c] = n]
          /\ reused' = (reused \/ full)
    /\ next_id' = next_id + 1
    /\ mine' = [mine EXCEPT ![c] = next_id]
    /\ sent' = Append(sent, next_id)
    /\ pc' = [pc EXCEPT ![c] = "sent"]
    /\ UNCHANGED <<buf, file, shell, doubtful>>

\* push_send up to the unlock: a full array loses its first entry.
Send(c) ==
    /\ pc[c] = "idle" /\ next_id <= MaxId
    /\ LET full == notif_count >= MaxNotifs
           room == IF full THEN [i \in Slots |-> notifs[IF i < MaxNotifs THEN i + 1 ELSE i]] ELSE notifs
           n == IF full THEN MaxNotifs ELSE notif_count + 1
       IN /\ notifs' = [room EXCEPT ![n] = next_id]
          /\ notif_count' = n
          /\ slot' = [slot EXCEPT ![c] = n]
          /\ reused' = (reused \/ full)
    /\ next_id' = next_id + 1
    /\ mine' = [mine EXCEPT ![c] = next_id]
    /\ sent' = Append(sent, next_id)
    /\ pc' = [pc EXCEPT ![c] = "sent"]
    /\ UNCHANGED <<buf, file, shell, doubtful>>

\* Mutant of Clear: the file is left to the next notification.
ClearArray(c) ==
    /\ pc[c] = "idle"
    /\ notif_count' = 0
    /\ sent' = <<>>
    /\ reused' = TRUE
    /\ UNCHANGED <<notifs, next_id, pc, slot, mine, buf, file, shell, doubtful>>

Clear(c) ==
    /\ pc[c] = "idle"
    /\ notif_count' = 0
    /\ sent' = <<>>
    /\ reused' = TRUE
    /\ slot' = [slot EXCEPT ![c] = 0]
    /\ pc' = [pc EXCEPT ![c] = "cleared"]
    /\ UNCHANGED <<notifs, next_id, mine, buf, file, shell, doubtful>>

Writing(w) == pc[w] \in {"open", "printed"}

\* fopen with "w" empties the file.  A writer that has the file for itself from
\* here to its flush leaves it right again.
Truncate(w) ==
    /\ file' = <<>>
    /\ doubtful' = \E v \in Writers \ {w} : Writing(v)
    /\ pc' = [pc EXCEPT ![w] = "open"]

\* Where push_send and push_clear go on when the file is written.
Written(w) == pc' = [pc EXCEPT ![w] = IF w # Shell /\ slot[w] # 0 THEN "reply" ELSE "idle"]

\* write_notif_file; a file that does not open is left as it is.
OpenFails(c) ==
    /\ pc[c] \in {"sent", "cleared"}
    /\ Written(c)
    /\ doubtful' = TRUE
    /\ UNCHANGED <<array, slot, buf, file, shell, mine, sent, reused>>

Open(c) ==
    /\ pc[c] \in {"sent", "cleared"}
    /\ Truncate(c)
    /\ UNCHANGED <<array, slot, buf, shell, mine, sent, reused>>

\* Nothing in the texts is escaped: one quotation mark, and no entry can be read.
Printed(list) == IF Range(list) \cap Quoted = {} THEN list ELSE Torn

Render(c) ==
    /\ c \in Clients /\ pc[c] = "open"
    /\ buf' = [buf EXCEPT ![c] = Printed(List)]
    /\ pc' = [pc EXCEPT ![c] = "printed"]
    /\ UNCHANGED <<array, slot, file, shell, mine, sent, reused, doubtful>>

\* fclose: the text goes over what is there; where that is longer some of it
\* stays behind.
Flushed(text) == IF file \in {<<>>, text} THEN {text} ELSE {text, Torn}

Flush(w) ==
    /\ pc[w] = "printed"
    /\ file' \in Flushed(buf[w])
    /\ buf' = [buf EXCEPT ![w] = <<>>]
    /\ Written(w)
    /\ UNCHANGED <<array, slot, shell, mine, sent, reused, doubtful>>

\* No room for the text, or for all of it.  The service does not look; in the shell
\* it raises, and nothing catches it.
FlushFails(w) ==
    /\ pc[w] = "printed"
    /\ file' \in {<<>>, Torn}
    /\ buf' = [buf EXCEPT ![w] = <<>>]
    /\ Written(w)
    /\ doubtful' = TRUE
    /\ IF w = Shell THEN shown' = None /\ read' = {} ELSE UNCHANGED shell
    /\ UNCHANGED <<array, slot, mine, sent, reused>>

\* Mutant of Replied: the id of the newest notification.
RepliedLast(c) == notifs[IF notif_count = 0 THEN 1 ELSE notif_count]

\* What the pointer n points at by now.
Replied(c) == notifs[slot[c]]

\* n->id is read when the lock is long gone.
Reply(c) ==
    /\ pc[c] = "reply"
    /\ slot' = [slot EXCEPT ![c] = 0]
    /\ mine' = [mine EXCEPT ![c] = 0]
    /\ pc' = [pc EXCEPT ![c] = "idle"]
    /\ UNCHANGED <<array, buf, file, shell, sent, reused, doubtful>>

-----------------------------------------------------------------------------
(* The notification center *)

\* load, when the shell starts: what does not parse is no notification.
Load ==
    /\ shown = None
    /\ shown' = CASE file = None -> Demo
                  [] file = Torn -> <<>>
                  [] OTHER -> file
    /\ read' = {}
    /\ UNCHANGED <<array, pc, slot, buf, file, mine, sent, reused, doubtful>>

Save(list) ==
    /\ pc[Shell] = "idle"
    /\ file' = <<>>
    /\ doubtful' = TRUE
    /\ buf' = [buf EXCEPT ![Shell] = list]
    /\ pc' = [pc EXCEPT ![Shell] = "printed"]

mark_read(i) ==
    /\ shown # None /\ i \in 1..Len(shown)
    /\ read' = read \cup {shown[i]}
    /\ Save(shown)
    /\ UNCHANGED <<array, slot, shown, mine, sent, reused>>

clear_all ==
    /\ shown # None
    /\ shown' = <<>> /\ read' = {}
    /\ Save(<<>>)
    /\ UNCHANGED <<array, slot, mine, sent, reused>>

\* The shell ends: between two events, or because save cannot open the file.
Stop ==
    /\ shown # None /\ pc[Shell] = "idle"
    /\ shown' = None /\ read' = {}
    /\ UNCHANGED <<array, pc, slot, buf, file, mine, sent, reused, doubtful>>

-----------------------------------------------------------------------------
Service(c) == \/ Send(c) \/ Clear(c) \/ Open(c) \/ OpenFails(c) \/ Render(c)
              \/ Flush(c) \/ FlushFails(c) \/ Reply(c)
Center == Load \/ (\E i \in 1..MaxId : mark_read(i)) \/ clear_all
          \/ Flush(Shell) \/ FlushFails(Shell) \/ Stop

Next == (\E c \in Clients : Service(c)) \/ Center

Spec == Init /\ [][Next]_vars

-----------------------------------------------------------------------------
(* Properties *)

\* The list is the latest notifications since the last clear, oldest first and
\* without a gap, for any interleaving of clients at any fill of the array.
LatestKept ==
    List = SubSeq(sent, 1 + (IF Len(sent) > MaxNotifs THEN Len(sent) - MaxNotifs ELSE 0), Len(sent))

\* Until the array is full or cleared, every client is answered the id of its own
\* notification, although the id is read after the lock was given back.
RepliesOwnId ==
    \A c \in Clients : pc[c] = "reply" /\ ~reused => Replied(c) = mine[c]

\* When all requests are done, and the last of them wrote the file without another
\* writer and without an error, the file is what the service prints of the list: the
\* list itself, or no JSON at all for as long as one entry has a quotation mark.
FileIsList ==
    (\A w \in Writers : pc[w] = "idle") /\ ~doubtful /\ file # None => file = Printed(List)

\* The latest notifications are kept (push_send, push_clear) and, once they have been
\* written by nobody but the service, they are what a shell that starts now loads,
\* or it loads nothing as long as one of them cannot be read back.
ListKept == LatestKept /\ FileIsList
===============================================================================
