------------------------------ MODULE JuliusIPC ------------------------------
(***************************************************************************)
(* The message broker (services/julius_ipc/julius_ipc.c): clients connect  *)
(* to a Unix socket, publish on topics and subscribe to them.  main        *)
(* accepts, a thread per connection serves it, and all threads share the   *)
(* client table and the topic table under ipc_lock.  Messages are written  *)
(* to the subscribers, one after the other, with the lock held.            *)
(*                                                                         *)
(* A connection is used once; its descriptor number is used again by the   *)
(* kernel as soon as it is closed, which is what makes the table delicate. *)
(***************************************************************************)
EXTENDS Integers, Sequences, FiniteSets, SequencesExt

CONSTANTS Conns,       \* connections clients make
          Fds,         \* descriptor numbers the kernel gives out
          Topics,
          MaxClients,  \* IPC_MAX_CLIENTS
          MaxTopics,   \* IPC_MAX_TOPICS: of the topic table, and of a client's list
          Buffer,      \* messages a client's socket buffer holds
          MaxMsgs,     \* bound: messages published in a behaviour
          None

ASSUME IPCAssumption ==
    /\ Fds \subseteq Nat
    /\ MaxClients \in Nat \ {0} /\ MaxTopics \in Nat \ {0}
    /\ Buffer \in Nat \ {0} /\ MaxMsgs \in Nat
    /\ IsFiniteSet(Conns) /\ None \notin Conns
    /\ IsFiniteSet(Topics)

VARIABLES alive,     \* the broker process runs
          desc,      \* descriptor table: the connection behind each number
          pc,        \* the thread of each connection
          fdOf,      \* its local variable fd
          req,       \* the message it has read last
          pos,       \* its position in the delivery loop of ipc_publish
          peerOpen,  \* the client has not closed its end
          inbox,     \* messages written to the client and not read yet
          clients,   \* the client table: fd and subscriptions, and who registered
          known,     \* topics of the topic table
          retained,  \* last message on each of them, 0 for none
          published, \* number of messages published so far
          ipc_lock,  \* the thread that holds the mutex, or None
          asked,     \* history: topics each connection ever subscribed to
          seen       \* history: last message written to each connection on each topic

vars == <<alive, desc, pc, fdOf, req, pos, peerOpen, inbox, clients, known, retained,
          published, ipc_lock, asked, seen>>

Ops == {"publish", "subscribe", "unsubscribe", "short"}
Requests == [op : Ops, topic : Topics, seq : 0..MaxMsgs]
Entries  == [fd : Fds, conn : Conns, subs : Seq(Topics)]
Messages == [topic : Topics, seq : 1..MaxMsgs]

TypeOK ==
    /\ alive \in BOOLEAN
    /\ desc \in [Fds -> Conns \cup {None}]
    /\ pc \in [Conns -> {"none", "starting", "reading", "request", "delivering", "retaining",
                         "leaving", "closing", "done"}]
    /\ fdOf \in [Conns -> Fds \cup {None}]
    /\ req \in [Conns -> Requests \cup {None}]
    /\ pos \in [Conns -> 1..(MaxClients + 1)]
    /\ peerOpen \in [Conns -> BOOLEAN]
    /\ inbox \in [Conns -> Seq(Messages)] /\ \A c \in Conns : Len(inbox[c]) <= Buffer
    /\ clients \in Seq(Entries) /\ Len(clients) <= MaxClients
    /\ known \subseteq Topics /\ Cardinality(known) <= MaxTopics
    /\ retained \in [Topics -> 0..MaxMsgs]
    /\ published \in 0..MaxMsgs
    /\ ipc_lock \in Conns \cup {None}
    /\ asked \in [Conns -> SUBSET Topics]
    /\ seen \in [Conns -> [Topics -> 0..MaxMsgs]]

-----------------------------------------------------------------------------
FreeFds == {f \in Fds : desc[f] = None}
Lowest(S) == CHOOSE f \in S : \A g \in S : f <= g

\* find_client: the positions of the table with that descriptor, the first of
\* which it returns.
EntriesOf(f) == {i \in 1..Len(clients) : clients[i].fd = f}
find_client(f) == Lowest(EntriesOf(f))

Subscribed(e, t) == \E j \in 1..Len(e.subs) : e.subs[j] = t

\* find_or_create_topic: is there an entry for the topic, or room for one?
HasTopic(t) == t \in known \/ Cardinality(known) < MaxTopics

\* Requests to publish that were read and not started yet; only bounds Read.
PendingPublishes == {c \in Conns : pc[c] = "request" /\ req[c].op = "publish"}

Init ==
    /\ alive = TRUE
    /\ desc = [f \in Fds |-> None]
    /\ pc = [c \in Conns |-> "none"]
    /\ fdOf = [c \in Conns |-> None]
    /\ req = [c \in Conns |-> None]
    /\ pos = [c \in Conns |-> 1]
    /\ peerOpen = [c \in Conns |-> FALSE]
    /\ inbox = [c \in Conns |-> <<>>]
    /\ clients = <<>>
    /\ known = {}
    /\ retained = [t \in Topics |-> 0]
    /\ published = 0
    /\ ipc_lock = None
    /\ asked = [c \in Conns |-> {}]
    /\ seen = [c \in Conns |-> [t \in Topics |-> 0]]

tables == <<clients, known, retained, published>>
history == <<asked, seen>>

-----------------------------------------------------------------------------
(* main and client_handler *)

\* A client connects and main accepts; the kernel takes the lowest free number.
Accept(c) ==
    /\ pc[c] = "none"
    /\ FreeFds # {}
    /\ desc' = [desc EXCEPT ![Lowest(FreeFds)] = c]
    /\ fdOf' = [fdOf EXCEPT ![c] = Lowest(FreeFds)]
    /\ peerOpen' = [peerOpen EXCEPT ![c] = TRUE]
    /\ pc' = [pc EXCEPT ![c] = "starting"]
    /\ UNCHANGED <<alive, req, pos, inbox, tables, ipc_lock, history>>

\* The thread enters its client in the table, if there is room; a client over
\* the limit is served all the same.
Register(c) ==
    /\ pc[c] = "starting"
    /\ ipc_lock = None
    /\ clients' = IF Len(clients) < MaxClients
                  THEN Append(clients, [fd |-> fdOf[c], conn |-> c, subs |-> <<>>])
                  ELSE clients
    /\ pc' = [pc EXCEPT ![c] = "reading"]
    /\ UNCHANGED <<alive, desc, fdOf, req, pos, peerOpen, inbox, known, retained, published,
                   ipc_lock, history>>

\* read returns a message the client sent.
Read(c, op, t) ==
    /\ pc[c] = "reading"
    /\ peerOpen[c]
    /\ op = "publish" => published + Cardinality(PendingPublishes) < MaxMsgs
    /\ req' = [req EXCEPT ![c] = [op |-> op, topic |-> t, seq |-> 0]]
    /\ pc' = [pc EXCEPT ![c] = "request"]
    /\ UNCHANGED <<alive, desc, fdOf, pos, peerOpen, inbox, tables, ipc_lock, history>>

\* read returns fewer bytes than a message has: dropped.
Drop(c) ==
    /\ pc[c] = "request"
    /\ req[c].op = "short"
    /\ pc' = [pc EXCEPT ![c] = "reading"]
    /\ req' = [req EXCEPT ![c] = None]
    /\ UNCHANGED <<alive, desc, fdOf, pos, peerOpen, inbox, tables, ipc_lock, history>>

\* read returns 0 once the client has gone.
ReadEOF(c) ==
    /\ pc[c] = "reading"
    /\ ~peerOpen[c]
    /\ pc' = [pc EXCEPT ![c] = "leaving"]
    /\ UNCHANGED <<alive, desc, fdOf, req, pos, peerOpen, inbox, tables, ipc_lock, history>>

-----------------------------------------------------------------------------
(* ipc_publish *)

\* Mutant of PublishStart: the lock is given back before the delivery loop.
PublishUnlocked(c) ==
    /\ pc[c] = "request"
    /\ req[c].op = "publish"
    /\ ipc_lock = None
    /\ published' = published + 1
    /\ req' = [req EXCEPT ![c].seq = published + 1]
    /\ IF HasTopic(req[c].topic)
       THEN /\ known' = known \cup {req[c].topic}
            /\ retained' = [retained EXCEPT ![req[c].topic] = published + 1]
       ELSE UNCHANGED <<known, retained>>
    /\ pos' = [pos EXCEPT ![c] = 1]
    /\ pc' = [pc EXCEPT ![c] = "delivering"]
    /\ UNCHANGED <<alive, desc, fdOf, peerOpen, inbox, clients, ipc_lock, history>>

\* The message becomes the last one of its topic, if the topic has an entry.
PublishStart(c) ==
    /\ pc[c] = "request"
    /\ req[c].op = "publish"
    /\ ipc_lock = None
    /\ ipc_lock' = c
    /\ published' = published + 1
    /\ req' = [req EXCEPT ![c].seq = published + 1]
    /\ IF HasTopic(req[c].topic)
       THEN /\ known' = known \cup {req[c].topic}
            /\ retained' = [retained EXCEPT ![req[c].topic] = published + 1]
       ELSE UNCHANGED <<known, retained>>
    /\ pos' = [pos EXCEPT ![c] = 1]
    /\ pc' = [pc EXCEPT ![c] = "delivering"]
    /\ UNCHANGED <<alive, desc, fdOf, peerOpen, inbox, clients, history>>

\* write on descriptor f of message m.  It waits while the client's buffer is
\* full; on a connection whose client has gone it raises SIGPIPE, which nothing
\* in the broker handles; on a closed descriptor it fails and nobody looks.
Write(f, m) ==
    LET d == desc[f] IN
    \/ /\ d = None
       /\ UNCHANGED <<alive, inbox, seen>>
    \/ /\ d # None
       /\ ~peerOpen[d]
       /\ alive' = FALSE
       /\ UNCHANGED <<inbox, seen>>
    \/ /\ d # None
       /\ peerOpen[d]
       /\ Len(inbox[d]) < Buffer
       /\ inbox' = [inbox EXCEPT ![d] = Append(@, m)]
       /\ seen' = [seen EXCEPT ![d][m.topic] = m.seq]
       /\ UNCHANGED alive

\* One round of the delivery loop.
Deliver(c) ==
    /\ pc[c] = "delivering"
    /\ pos[c] <= Len(clients)
    /\ LET e == clients[pos[c]] IN
       IF Subscribed(e, req[c].topic)
       THEN Write(e.fd, [topic |-> req[c].topic, seq |-> req[c].seq])
       ELSE UNCHANGED <<alive, inbox, seen>>
    /\ pos' = [pos EXCEPT ![c] = @ + 1]
    /\ UNCHANGED <<desc, pc, fdOf, req, peerOpen, tables, ipc_lock, asked>>

PublishEnd(c) ==
    /\ pc[c] = "delivering"
    /\ pos[c] > Len(clients)
    /\ ipc_lock' = None
    /\ pc' = [pc EXCEPT ![c] = "reading"]
    /\ pos' = [pos EXCEPT ![c] = 1]
    /\ req' = [req EXCEPT ![c] = None]
    /\ UNCHANGED <<alive, desc, fdOf, peerOpen, inbox, tables, history>>

-----------------------------------------------------------------------------
(* ipc_subscribe, ipc_unsubscribe *)

CanSubscribe(c) ==
    /\ EntriesOf(fdOf[c]) # {}
    /\ Len(clients[find_client(fdOf[c])].subs) < MaxTopics

\* Mutant of SubscribeIgnored: returns early, still holding the lock.
SubscribeReturns(c) ==
    /\ pc[c] = "request"
    /\ req[c].op = "subscribe"
    /\ ipc_lock = None
    /\ ~CanSubscribe(c)
    /\ ipc_lock' = c
    /\ pc' = [pc EXCEPT ![c] = "reading"]
    /\ req' = [req EXCEPT ![c] = None]
    /\ UNCHANGED <<alive, desc, fdOf, pos, peerOpen, inbox, tables, history>>

\* A client that is not in the table, or whose list is full, is ignored.
SubscribeIgnored(c) ==
    /\ pc[c] = "request"
    /\ req[c].op = "subscribe"
    /\ ipc_lock = None
    /\ ~CanSubscribe(c)
    /\ pc' = [pc EXCEPT ![c] = "reading"]
    /\ req' = [req EXCEPT ![c] = None]
    /\ UNCHANGED <<alive, desc, fdOf, pos, peerOpen, inbox, tables, ipc_lock, history>>

\* Mutant of Subscribe: the retained message is not sent.
SubscribeBare(c) ==
    LET t == req[c].topic IN
    /\ pc[c] = "request"
    /\ req[c].op = "subscribe"
    /\ ipc_lock = None
    /\ CanSubscribe(c)
    /\ clients' = [clients EXCEPT ![find_client(fdOf[c])].subs = Append(@, t)]
    /\ asked' = [asked EXCEPT ![c] = @ \cup {t}]
    /\ known' = IF HasTopic(t) THEN known \cup {t} ELSE known
    /\ pc' = [pc EXCEPT ![c] = "reading"]
    /\ req' = [req EXCEPT ![c] = None]
    /\ UNCHANGED <<alive, desc, fdOf, pos, peerOpen, inbox, retained, published, ipc_lock, seen>>

\* The topic goes to the end of the client's list, even if it is there already,
\* and gets an entry in the topic table.
Subscribe(c) ==
    LET t == req[c].topic IN
    /\ pc[c] = "request"
    /\ req[c].op = "subscribe"
    /\ ipc_lock = None
    /\ CanSubscribe(c)
    /\ clients' = [clients EXCEPT ![find_client(fdOf[c])].subs = Append(@, t)]
    /\ asked' = [asked EXCEPT ![c] = @ \cup {t}]
    /\ known' = IF HasTopic(t) THEN known \cup {t} ELSE known
    /\ IF t \in known /\ retained[t] # 0
       THEN ipc_lock' = c /\ pc' = [pc EXCEPT ![c] = "retaining"] /\ UNCHANGED req
       ELSE /\ pc' = [pc EXCEPT ![c] = "reading"]
            /\ req' = [req EXCEPT ![c] = None]
            /\ UNCHANGED ipc_lock
    /\ UNCHANGED <<alive, desc, fdOf, pos, peerOpen, inbox, retained, published, seen>>

\* Still under the lock, the last message of the topic is sent.
SendRetained(c) ==
    LET t == req[c].topic IN
    /\ pc[c] = "retaining"
    /\ Write(fdOf[c], [topic |-> t, seq |-> retained[t]])
    /\ ipc_lock' = None
    /\ pc' = [pc EXCEPT ![c] = "reading"]
    /\ req' = [req EXCEPT ![c] = None]
    /\ UNCHANGED <<desc, fdOf, pos, peerOpen, tables, asked>>

\* The first occurrence of the topic goes.
Unsubscribe(c) ==
    LET E == EntriesOf(fdOf[c]) IN
    /\ pc[c] = "request"
    /\ req[c].op = "unsubscribe"
    /\ ipc_lock = None
    /\ clients' = IF E = {} THEN clients
                  ELSE [clients EXCEPT ![Lowest(E)].subs = RemoveFirst(@, req[c].topic)]
    /\ pc' = [pc EXCEPT ![c] = "reading"]
    /\ req' = [req EXCEPT ![c] = None]
    /\ UNCHANGED <<alive, desc, fdOf, pos, peerOpen, inbox, known, retained, published,
                   ipc_lock, history>>

-----------------------------------------------------------------------------
(* remove_client *)

\* A client over the limit has no entry: nothing is done, and its descriptor
\* stays open for good.
RemoveUnlisted(c) ==
    /\ pc[c] = "leaving"
    /\ ipc_lock = None
    /\ EntriesOf(fdOf[c]) = {}
    /\ pc' = [pc EXCEPT ![c] = "done"]
    /\ UNCHANGED <<alive, desc, fdOf, req, pos, peerOpen, inbox, tables, ipc_lock, history>>

\* close(fd): main may give the number to a new connection from here on.
RemoveClose(c) ==
    /\ pc[c] = "leaving"
    /\ ipc_lock = None
    /\ EntriesOf(fdOf[c]) # {}
    /\ ipc_lock' = c
    /\ desc' = [desc EXCEPT ![fdOf[c]] = None]
    /\ pc' = [pc EXCEPT ![c] = "closing"]
    /\ UNCHANGED <<alive, fdOf, req, pos, peerOpen, inbox, tables, history>>

\* Mutant of RemoveShift: client_count is not reduced, so the last entry stays.
RemoveShiftUncounted(c) ==
    /\ pc[c] = "closing"
    /\ ipc_lock' = None
    /\ pc' = [pc EXCEPT ![c] = "done"]
    /\ UNCHANGED <<alive, desc, fdOf, req, pos, peerOpen, inbox, tables, history>>

RemoveShift(c) ==
    /\ pc[c] = "closing"
    /\ clients' = RemoveAt(clients, find_client(fdOf[c]))
    /\ ipc_lock' = None
    /\ pc' = [pc EXCEPT ![c] = "done"]
    /\ UNCHANGED <<alive, desc, fdOf, req, pos, peerOpen, inbox, known, retained, published,
                   history>>

-----------------------------------------------------------------------------
(* The clients: JuliusBridge reads what arrives in a thread of its own. *)

PeerRead(c) ==
    /\ peerOpen[c]
    /\ inbox[c] # <<>>
    /\ inbox' = [inbox EXCEPT ![c] = Tail(@)]
    /\ UNCHANGED <<alive, desc, pc, fdOf, req, pos, peerOpen, tables, ipc_lock, history>>

PeerClose(c) ==
    /\ peerOpen[c]
    /\ peerOpen' = [peerOpen EXCEPT ![c] = FALSE]
    /\ inbox' = [inbox EXCEPT ![c] = <<>>]
    /\ UNCHANGED <<alive, desc, pc, fdOf, req, pos, tables, ipc_lock, history>>

Thread(c) ==
    \/ Register(c) \/ Drop(c) \/ ReadEOF(c) \/ PublishStart(c) \/ Deliver(c) \/ PublishEnd(c)
    \/ SubscribeIgnored(c) \/ Subscribe(c) \/ SendRetained(c) \/ Unsubscribe(c)
    \/ RemoveUnlisted(c) \/ RemoveClose(c) \/ RemoveShift(c)

Next ==
    /\ alive
    /\ \E c \in Conns :
          \/ Accept(c) \/ Thread(c) \/ PeerRead(c) \/ PeerClose(c)
          \/ \E op \in Ops, t \in Topics : Read(c, op, t)

Spec == Init /\ [][Next]_vars

\* Threads that can run do run, and a connected client keeps reading.  Nothing
\* makes a client send or leave.
FairSpec ==
    /\ Spec
    /\ \A c \in Conns : WF_vars(alive /\ Thread(c)) /\ WF_vars(alive /\ PeerRead(c))

-----------------------------------------------------------------------------
(* Properties *)

\* The client table never names a descriptor twice, and each descriptor in it is
\* the open one of the connection that registered, except while remove_client is
\* between close and memmove: a number the kernel gives out again in that window
\* is never taken for the old client.
TableMatchesDescriptors ==
    \A i \in 1..Len(clients) :
        LET e == clients[i] IN
        /\ EntriesOf(e.fd) = {i}
        /\ pc[e.conn] = "closing" \/ desc[e.fd] = e.conn

\* No connection is sent a message on a topic it never subscribed to, although
\* messages go out by descriptor number (ipc_publish, ipc_subscribe).
NoMisdelivery ==
    \A c \in Conns : \A k \in 1..Len(inbox[c]) : inbox[c][k].topic \in asked[c]

\* On each topic a connection is sent messages in the order they were published,
\* the retained one of a new subscription included.
OrderedDelivery ==
    [][\A c \in Conns, t \in Topics : seen'[c][t] >= seen[c][t]]_vars

\* Whenever the lock is free, every subscriber in the table whose client is still
\* there has been sent the last message retained on each of its topics: no
\* interleaving of a publish with a subscribe leaves a gap.
SubscribersCurrent ==
    alive /\ ipc_lock = None =>
        \A i \in 1..Len(clients) : \A t \in known :
            LET e == clients[i] IN
            Subscribed(e, t) /\ peerOpen[e.conn] => seen[e.conn][t] >= retained[t]

\* The lock is always given back while clients read what they are sent: the
\* broker never stops with every thread waiting for it.
LockReleased == \A c \in Conns : (ipc_lock = c) ~> (ipc_lock # c \/ ~alive)

-----------------------------------------------------------------------------
(* The inductive invariant behind the safety properties *)

LockInv ==
    \A c \in Conns : ipc_lock = c <=> pc[c] \in {"delivering", "retaining", "closing"}

\* A served connection owns its descriptor until its thread closes it; a thread
\* between close and memmove still has its entry.
FdInv ==
    \A c \in Conns :
        /\ pc[c] \in {"starting", "reading", "request", "delivering", "retaining", "leaving"}
             => fdOf[c] \in Fds /\ desc[fdOf[c]] = c
        /\ pc[c] = "closing" => \E i \in 1..Len(clients) : clients[i].conn = c

TableInv ==
    /\ \A i \in 1..Len(clients) :
          /\ clients[i].fd = fdOf[clients[i].conn]
          /\ pc[clients[i].conn] \in
                {"reading", "request", "delivering", "retaining", "leaving", "closing"}
          /\ \A k \in 1..Len(clients[i].subs) : clients[i].subs[k] \in asked[clients[i].conn]
    /\ \A i, j \in 1..Len(clients) :
          clients[i].fd = clients[j].fd \/ clients[i].conn = clients[j].conn => i = j

\* A publisher under way carries the newest message, and the topic table has it
\* unless the table is full.
RequestInv ==
    /\ \A c \in Conns :
          /\ pc[c] \in {"request", "delivering", "retaining"} => req[c] \in Requests
          /\ pc[c] = "retaining" => req[c].topic \in asked[c] /\ retained[req[c].topic] # 0
          /\ pc[c] = "delivering" =>
                /\ req[c].seq = published /\ published # 0
                /\ IF req[c].topic \in known THEN retained[req[c].topic] = published
                                             ELSE ~HasTopic(req[c].topic)
    /\ published + Cardinality(PendingPublishes) <= MaxMsgs

\* Nothing was ever sent on a topic that can still get an entry.
OrderInv ==
    \A t \in Topics :
        /\ retained[t] <= published
        /\ t \notin known => retained[t] = 0
        /\ \A c \in Conns :
              /\ seen[c][t] <= published
              /\ t \in known => seen[c][t] <= retained[t]
              /\ t \notin known /\ HasTopic(t) => seen[c][t] = 0

\* A subscriber that lacks the retained message is about to be sent it.
CurrentInv ==
    alive => \A i \in 1..Len(clients), t \in known :
        Subscribed(clients[i], t) /\ peerOpen[clients[i].conn] =>
            \/ seen[clients[i].conn][t] >= retained[t]
            \/ \E c \in Conns : pc[c] = "delivering" /\ req[c].topic = t /\ pos[c] <= i
            \/ pc[clients[i].conn] = "retaining" /\ req[clients[i].conn].topic = t

IInv == TypeOK /\ LockInv /\ FdInv /\ TableInv /\ NoMisdelivery /\ RequestInv /\ OrderInv
        /\ CurrentInv
==============================================================================
