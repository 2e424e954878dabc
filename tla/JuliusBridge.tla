---------------------------- MODULE JuliusBridge -----------------------------
(***************************************************************************)
(* What the shell has of the services: system/julius_bridge.py and the     *)
(* status bar's system/julius_status.py.  Two programs bind the socket     *)
(* the bridge connects to, julius_core and julius_ipc; the listener thread *)
(* reconnects after an error, but a connection closed in order ends it.    *)
(* The battery level comes from a file the power manager writes; the       *)
(* requests to the other daemons are made on the shell's only thread.      *)
(***************************************************************************)
EXTENDS Integers, Sequences

CONSTANTS Levels, Default,   \* of the battery; the level shown for want of one
          Topics,            \* what the status bar subscribes to
          MaxUnread,         \* bound: messages sent and not yet read
          Services,          \* daemons that are sent requests
          Torn               \* the state file truncated and not yet written

VARIABLES level, writing, file,   \* the battery, what is to be written, POWER_STATE
          battery_level,          \* shown
          broker,                 \* whose socket the path leads to
          link,                   \* the connection: its peer, or how it was closed
          unread,                 \* what its peer has yet to read: the topic to
                                  \* subscribe to, or {} for an event
          subscribed,             \* the topics its peer sends the events of
          inbox,                  \* an event is there for the listener
          sock,                   \* _ipc_sock is not None
          listener,               \* the thread: "check", "recv" or "ended"
          asked,                  \* the topics subscribe() was called for
          up,                     \* each daemon runs
          call,                   \* the request under way, and the answer on its way
          result,                 \* what the caller was told: {} is False, None or -1
          done,                   \* history: what the daemon did: {} is nothing
          died                    \* history: the daemon went before it had answered

vars == <<level, writing, file, battery_level, broker, link, unread, subscribed, inbox,
          sock, listener, asked, up, call, result, done, died>>
battery == <<level, writing, file, battery_level>>
ipc     == <<broker, link, unread, subscribed, inbox, sock, listener, asked>>
request == <<up, call, result, done, died>>

NoCall == [to |-> {}, get |-> FALSE, pc |-> "idle", reply |-> {}]
Idle   == call.pc = "idle"

Init ==
  /\ level \in Levels /\ writing = Torn /\ file = level /\ battery_level = Default
  /\ broker \in {"none", "core", "ipc"}
  /\ link = broker /\ sock = (broker # "none") /\ unread = <<>>
  /\ subscribed = {} /\ inbox = FALSE
  /\ listener = "check" /\ asked = {}
  /\ up \in [Services -> BOOLEAN]
  /\ call = NoCall /\ result = {} /\ done = {} /\ died = FALSE

-----------------------------------------------------------------------------
(* The battery *)

Charge ==
  /\ \E l \in Levels : level' = l
  /\ UNCHANGED <<writing, file, battery_level, ipc, request>>

\* The power manager has read the level and opens the file ...
Truncate ==
  /\ writing = Torn
  /\ writing' = level /\ file' = Torn
  /\ UNCHANGED <<level, battery_level, ipc, request>>

\* ... and closes it.
Fill ==
  /\ writing # Torn
  /\ file' = writing /\ writing' = Torn
  /\ UNCHANGED <<level, battery_level, ipc, request>>

\* get_battery_level()
Read == IF file = Torn THEN Default ELSE file

\* Mutant of update: the file is read only while the bridge is not connected.
update_offline ==
  /\ Idle /\ ~sock
  /\ battery_level' = Read
  /\ UNCHANGED <<level, writing, file, ipc, request>>

update ==
  /\ Idle
  /\ battery_level' = Read
  /\ UNCHANGED <<level, writing, file, ipc, request>>

-----------------------------------------------------------------------------
(* The event socket *)

\* Another program binds the path; or one that was connected to is gone, and
\* says so differently when it has not read everything.
Bind == \E b \in {"core", "ipc"} :
  /\ broker' = b
  /\ UNCHANGED <<battery, link, unread, subscribed, inbox, sock, listener, asked, request>>

Closed == IF unread # <<>> THEN "reset" ELSE "closed"

Exit == \E b \in {"core", "ipc"} :
  /\ broker' = IF broker = b THEN "none" ELSE broker
  /\ link' = IF link = b THEN Closed ELSE link
  /\ UNCHANGED <<battery, unread, subscribed, inbox, sock, listener, asked, request>>

\* julius_ipc reads 8280 bytes and drops what is not as many: a message of the
\* bridge is 8272 long and is dropped when it is alone; when another one is there,
\* it is accepted and the next ones, now cut at the wrong places, are nonsense.
\* julius_core takes half of one and closes the connection.
PeerReads ==
  /\ link \in {"core", "ipc"} /\ unread # <<>>
  /\ unread' = <<>>
  /\ link' = IF link = "core" THEN "reset" ELSE link
  /\ subscribed' = IF link = "ipc" /\ Len(unread) > 1 THEN subscribed \cup Head(unread)
                                                      ELSE subscribed
  /\ UNCHANGED <<battery, broker, inbox, sock, listener, asked, request>>

\* julius_ipc sends an event, or the retained one, of a topic subscribed to.
Event ==
  /\ link = "ipc" /\ subscribed # {}
  /\ inbox' = TRUE
  /\ UNCHANGED <<battery, broker, link, unread, subscribed, sock, listener, asked, request>>

\* _send_ipc()
send_ipc(message) ==
  /\ Len(unread) < MaxUnread
  /\ sock' = (sock /\ link \in {"core", "ipc"})
  /\ unread' = IF sock' THEN Append(unread, message) ELSE unread

subscribe ==
  /\ Idle
  /\ \E t \in Topics \ asked : asked' = asked \cup {t} /\ send_ipc({t})
  /\ UNCHANGED <<battery, broker, link, subscribed, inbox, listener, request>>

publish ==
  /\ Idle /\ asked = Topics
  /\ send_ipc({})
  /\ UNCHANGED <<battery, broker, link, subscribed, inbox, listener, asked, request>>

\* The top of the listener's loop.  Nothing subscribes again.
Check ==
  /\ listener = "check"
  /\ IF sock THEN listener' = "recv" /\ UNCHANGED <<link, sock, unread, subscribed, inbox>>
             ELSE /\ link' = broker /\ sock' = (broker # "none") /\ unread' = <<>>
                  /\ subscribed' = {} /\ inbox' = FALSE
                  /\ UNCHANGED listener
  /\ UNCHANGED <<battery, broker, asked, request>>

\* An event changes nothing: _handle_message() strips the zeros at the end of its
\* payload, and _on_battery() wants four bytes of it, which no level then has.
Recv ==
  /\ listener = "recv"
  /\ \/ inbox /\ inbox' = FALSE /\ UNCHANGED <<listener, sock>>
     \/ ~inbox /\ link = "closed" /\ listener' = "ended" /\ UNCHANGED <<sock, inbox>>
     \/ ~inbox /\ link = "reset" /\ listener' = "check" /\ sock' = FALSE /\ UNCHANGED inbox
  /\ UNCHANGED <<battery, broker, link, unread, subscribed, asked, request>>

-----------------------------------------------------------------------------
(* Requests: send_notification, check_permission, keychain_save, keychain_get *)

\* What a daemon may do: store or grant what it is asked to, or find a value.  Of the
\* values only those whose first four bytes are zeros are told apart.
Outcomes(get) == {{}} \cup IF get THEN {{"zeros"}, {"value"}} ELSE {{"yes"}}

Call == \E d \in Services :
  /\ Idle
  /\ \E get \in BOOLEAN : call' = [NoCall EXCEPT !.to = {d}, !.get = get, !.pc = "connect"]
  /\ result' = {} /\ done' = {} /\ died' = FALSE
  /\ UNCHANGED <<battery, ipc, up>>

Up == \A d \in call.to : up[d]

\* A refused connection raises, and is answered False, None or -1.
Connect ==
  /\ call.pc = "connect"
  /\ call' = IF Up THEN [call EXCEPT !.pc = "sent"] ELSE NoCall
  /\ UNCHANGED <<battery, ipc, up, result, done, died>>

\* The daemon does what it was asked to, or does not ...
Serve ==
  /\ call.pc = "sent" /\ Up
  /\ \E outcome \in Outcomes(call.get) :
       done' = outcome /\ call' = [call EXCEPT !.pc = "served", !.reply = outcome]
  /\ UNCHANGED <<battery, ipc, up, result, died>>

\* ... and says so.
Reply ==
  /\ call.pc = "served" /\ Up
  /\ call' = [call EXCEPT !.pc = "replied"]
  /\ UNCHANGED <<battery, ipc, up, result, done, died>>

Waiting(d) == d \in call.to /\ call.pc \in {"sent", "served"}

Down(d) ==
  /\ up[d]
  /\ up' = [up EXCEPT ![d] = FALSE]
  /\ call' = IF Waiting(d) THEN [call EXCEPT !.pc = "cut"] ELSE call
  /\ died' = (died \/ Waiting(d))
  /\ UNCHANGED <<battery, ipc, result, done>>

Start(d) ==
  /\ ~up[d]
  /\ up' = [up EXCEPT ![d] = TRUE]
  /\ UNCHANGED <<battery, ipc, call, result, done, died>>

\* keychain_get() takes the first four bytes of the value for its length: no value
\* for zeros, and otherwise what comes after them.
Decoded == IF call.get THEN {"tail" : v \in call.reply \ {"zeros"}} ELSE call.reply

\* Mutant of Answer: an answer that is too short is not looked at.
AnswerShort ==
  /\ call.pc \in {"replied", "cut"}
  /\ result' = IF call.pc = "replied" THEN Decoded ELSE {"yes"}
  /\ call' = NoCall
  /\ UNCHANGED <<battery, ipc, up, done, died>>

\* recv() has the answer, or nothing because the daemon is gone, which unpack() or
\* the test of the length finds out.
Answer ==
  /\ call.pc \in {"replied", "cut"}
  /\ result' = IF call.pc = "replied" THEN Decoded ELSE {}
  /\ call' = NoCall
  /\ UNCHANGED <<battery, ipc, up, done, died>>

Request == Connect \/ Serve \/ Reply \/ Answer

Battery  == Charge \/ Truncate \/ Fill \/ update
Events   == Bind \/ Exit \/ PeerReads \/ Event \/ subscribe \/ publish \/ Check \/ Recv
Requests == Call \/ Request \/ \E d \in Services : Down(d) \/ Start(d)

\* Once the battery's level stays, the level shown is the battery's again and
\* again: whether or not an event ever arrives, whoever binds the socket, and
\* although it shows Default whenever it reads the file torn.
Follows == <>[][level' = level]_level => []<>(battery_level = level)

\* Who is told that it worked, is told the truth; and who is told that it did not,
\* too, if the daemon lived to answer and no value that begins with zeros was found.
Honest ==
  /\ result # {} => done # {}
  /\ Idle /\ ~died /\ result = {} => done \subseteq {"zeros"}
=============================================================================
