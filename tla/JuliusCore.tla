------------------------------ MODULE JuliusCore ------------------------------
(***************************************************************************)
(* The core service (services/julius_core/main.c, ipc.c): one listening    *)
(* socket from which two threads take connections, main to log what comes  *)
(* and the OTA watcher to wait for the signal of an update.  A client      *)
(* sends one message and is closed by whoever took it.                     *)
(*                                                                         *)
(* The power and watchdog threads call ipc_send, which writes to clients[]:*)
(* no code ever puts a descriptor there, so they change nothing and only   *)
(* have to be cancelled at the end.                                        *)
(***************************************************************************)
EXTENDS Integers, Sequences, FiniteSets

CONSTANTS Clients,    \* connections made in a behaviour
          OtaClients, \* those whose message is on the topic OTA; the others send another
          Backlog,    \* IPC_MAX_CLIENTS, the argument of listen
          None

VARIABLES running,    \* cleared by the signal handler
          pc,         \* where main and the OTA watcher are
          fd,         \* the connection each of them has accepted
          queue,      \* the connections the kernel has queued
          client,     \* the clients' side of the connections
          closed,     \* the connections the service has closed
          updates     \* history: connections for which the update client was started

vars == <<running, pc, fd, queue, client, closed, updates>>

Loops == {"main", "ota"}

TypeOK ==
    /\ running \in BOOLEAN
    /\ pc \in [main : {"select", "accept", "read", "sleep", "join", "stopped"},
               ota : {"accept", "read", "update", "sleep", "ended"}]
    /\ fd \in [Loops -> Clients \cup {None}]
    /\ queue \in Seq(Clients) /\ Len(queue) <= Backlog
    /\ client \in [Clients -> {"new", "silent", "sent", "gone"}]
    /\ closed \subseteq Clients /\ updates \subseteq Clients

\* ipc_init has bound the socket and the threads have been created.
Init ==
    /\ running = TRUE
    /\ pc = [main |-> "select", ota |-> "accept"]
    /\ fd = [t \in Loops |-> None]
    /\ queue = <<>>
    /\ client = [c \in Clients |-> "new"]
    /\ closed = {} /\ updates = {}

Go(t, to) == pc' = [pc EXCEPT ![t] = to]

-----------------------------------------------------------------------------
(* Clients *)

\* connect, as long as the backlog has room.
Connect(c) ==
    /\ pc.main # "stopped"
    /\ client[c] = "new" /\ Len(queue) < Backlog
    /\ client' = [client EXCEPT ![c] = "silent"]
    /\ queue' = Append(queue, c)
    /\ UNCHANGED <<running, pc, fd, closed, updates>>

Write(c) ==
    /\ client[c] = "silent"
    /\ client' = [client EXCEPT ![c] = "sent"]
    /\ UNCHANGED <<running, pc, fd, queue, closed, updates>>

HangUp(c) ==
    /\ client[c] = "silent"
    /\ client' = [client EXCEPT ![c] = "gone"]
    /\ UNCHANGED <<running, pc, fd, queue, closed, updates>>

-----------------------------------------------------------------------------
(* Both threads *)

\* accept blocks until there is a connection; a signal does not end it
\* (signal() sets SA_RESTART).
Accept(t) ==
    /\ pc[t] = "accept" /\ queue # <<>>
    /\ fd' = [fd EXCEPT ![t] = Head(queue)]
    /\ queue' = Tail(queue)
    /\ Go(t, "read")
    /\ UNCHANGED <<running, client, closed, updates>>

\* Mutant of Close: a message on another topic leaves the descriptor open.
CloseKnown(t) == closed' = IF client[fd[t]] = "sent" /\ fd[t] \notin OtaClients THEN closed
                           ELSE closed \cup {fd[t]}

Close(t) == closed' = closed \cup {fd[t]}

\* read blocks until the client has sent its message or gone.
Arrived(t) == pc[t] = "read" /\ client[fd[t]] # "silent"

-----------------------------------------------------------------------------
(* main *)

\* select, for at most 100 ms; then a connection is there, or main sleeps.
Select ==
    /\ pc.main = "select"
    /\ Go("main", IF queue # <<>> THEN "accept" ELSE "sleep")
    /\ UNCHANGED <<running, fd, queue, client, closed, updates>>

\* The message is logged, whatever it says.
MainRead ==
    /\ Arrived("main")
    /\ Close("main")
    /\ fd' = [fd EXCEPT !["main"] = None]
    /\ Go("main", "sleep")
    /\ UNCHANGED <<running, queue, client, updates>>

MainLoop ==
    /\ pc.main = "sleep"
    /\ Go("main", IF running THEN "select" ELSE "join")
    /\ UNCHANGED <<running, fd, queue, client, closed, updates>>

\* Mutant of Join: the thread is waited for and not cancelled.
JoinOnly ==
    /\ pc.main = "join" /\ pc.ota = "ended"
    /\ Go("main", "stopped")
    /\ queue' = <<>>
    /\ UNCHANGED <<running, fd, client, closed, updates>>

\* The threads are cancelled wherever they wait, and ipc_destroy closes the
\* socket with what is queued on it.
Join ==
    /\ pc.main = "join"
    /\ pc' = [main |-> "stopped", ota |-> "ended"]
    /\ fd' = [fd EXCEPT !["ota"] = None]
    /\ queue' = <<>>
    /\ UNCHANGED <<running, client, closed, updates>>

-----------------------------------------------------------------------------
(* service_ota_watch *)

Signalled == client[fd["ota"]] = "sent" /\ fd["ota"] \in OtaClients

\* ipc_receive: a message on another topic is dropped.
OtaRead ==
    /\ Arrived("ota")
    /\ Close("ota")
    /\ updates' = IF Signalled THEN updates \cup {fd["ota"]} ELSE updates
    /\ Go("ota", IF Signalled THEN "update" ELSE "sleep")
    /\ fd' = [fd EXCEPT !["ota"] = None]
    /\ UNCHANGED <<running, queue, client>>

\* julius_ota_client ends at once if another one has the port.
OtaDone ==
    /\ pc.ota = "update"
    /\ Go("ota", "sleep")
    /\ UNCHANGED <<running, fd, queue, client, closed, updates>>

OtaLoop ==
    /\ pc.ota = "sleep"
    /\ Go("ota", IF running THEN "accept" ELSE "ended")
    /\ UNCHANGED <<running, fd, queue, client, closed, updates>>

Signal ==
    /\ running
    /\ running' = FALSE
    /\ UNCHANGED <<pc, fd, queue, client, closed, updates>>

-----------------------------------------------------------------------------
Main == Select \/ Accept("main") \/ MainRead \/ MainLoop \/ Join
Ota == Accept("ota") \/ OtaRead \/ OtaLoop

Next ==
    \/ \E c \in Clients : Connect(c) \/ Write(c) \/ HangUp(c)
    \/ Main \/ Ota \/ OtaDone \/ Signal

Spec == Init /\ [][Next]_vars

\* The threads run.
FairSpec == Spec /\ WF_vars(Main) /\ WF_vars(Ota)

\* Clients send their message or go.
Prompt == \A c \in Clients : WF_vars(Write(c) \/ HangUp(c))

PromptSpec == FairSpec /\ Prompt

-----------------------------------------------------------------------------
(* Properties *)

\* A thread that has found a connection and lost it to the other one waits for the
\* next; or for a client that never speaks.
Waits(t) ==
    \/ pc[t] = "accept" /\ queue = <<>>
    \/ pc[t] = "read" /\ client[fd[t]] = "silent"

\* Told to stop, the service stops, however the OTA watcher waits; only main
\* waiting itself can keep it.
ShutdownEnds == ~running ~> pc.main = "stopped" \/ Waits("main")

\* While the service runs, every connection is taken and closed by one thread or
\* the other, if clients do not just stay silent (Prompt).
Served == \A c \in Clients : (client[c] # "new") ~> (c \in closed \/ ~running)

\* An OTA signal starts the update client.
SignalHeeded ==
    \A c \in Clients :
        (c \in OtaClients /\ client[c] = "sent") ~> (c \in updates \/ ~running)
===============================================================================
