------------------------------ MODULE IPCProofs ------------------------------
(***************************************************************************)
(* The safety properties of the broker, for every number of connections,   *)
(* descriptors and topics and every size of the tables.                    *)
(***************************************************************************)
EXTENDS JuliusIPC, SequenceTheorems, FiniteSetTheorems, WellFoundedInduction, TLAPS

-----------------------------------------------------------------------------
(* Sequences, sets and the lowest descriptor *)

\* A non-empty set of numbers has a lowest one: what accept and find_client take.
LEMMA LowestIn ==
    ASSUME NEW S \in SUBSET Nat, S # {}
    PROVE  Lowest(S) \in S
<1>s. S \subseteq Nat
  OBVIOUS
<1>1. \A p, q \in Nat : p < q => <<p, q>> \in OpToRel(<, Nat)
  BY Zenon DEF OpToRel
<1>2. PICK R : IsWellFoundedOn(R, Nat) /\ \A p, q \in Nat : p < q => <<p, q>> \in R
  BY <1>1, NatLessThanWellFounded, Zenon
<1>3. PICK x \in S : \A y \in S : ~(<<y, x>> \in R)
  <2>1. IsWellFoundedOn(R, Nat)
    BY <1>2
  <2>2. \A T : T \subseteq Nat /\ T # {} => \E x \in T : \A y \in T : ~(<<y, x>> \in R)
    BY <2>1, WFMin, Zenon
  <2> QED BY <1>s, <2>2
<1>4. \A y \in S : ~(y < x)
  BY <1>2, <1>3, <1>s, Zenon
<1>5. \A y \in S : x <= y
  BY <1>4, <1>s
<1> QED BY <1>5 DEF Lowest

\* What the memmove of remove_client leaves of the table.
LEMMA RemoveAtProperties ==
    ASSUME NEW S, NEW s \in Seq(S), NEW i \in 1..Len(s)
    PROVE  /\ RemoveAt(s, i) \in Seq(S)
           /\ Len(RemoveAt(s, i)) = Len(s) - 1
           /\ \A j \in 1..(Len(s) - 1) : RemoveAt(s, i)[j] = s[IF j < i THEN j ELSE j + 1]
<1> DEFINE a == SubSeq(s, 1, i - 1)
           b == SubSeq(s, i + 1, Len(s))
<1>1. /\ a \in Seq(S) /\ Len(a) = i - 1
      /\ \A j \in 1..(i - 1) : a[j] = s[j]
  <2>1. \A j \in 1..(i - 1) : s[j] \in S
    OBVIOUS
  <2>2. /\ a \in Seq(S)
        /\ Len(a) = IF 1 <= i - 1 THEN (i - 1) - 1 + 1 ELSE 0
        /\ \A j \in 1..((i - 1) - 1 + 1) : a[j] = s[1 + j - 1]
    BY <2>1, SubSeqProperties
  <2> QED BY <2>2
<1>2. /\ b \in Seq(S) /\ Len(b) = Len(s) - i
      /\ \A j \in 1..(Len(s) - i) : b[j] = s[i + j]
  <2>1. \A j \in (i + 1)..Len(s) : s[j] \in S
    OBVIOUS
  <2>2. /\ b \in Seq(S)
        /\ Len(b) = IF i + 1 <= Len(s) THEN Len(s) - (i + 1) + 1 ELSE 0
        /\ \A j \in 1..(Len(s) - (i + 1) + 1) : b[j] = s[(i + 1) + j - 1]
    BY <2>1, SubSeqProperties
  <2> QED BY <2>2
<1>3. /\ a \o b \in Seq(S)
      /\ Len(a \o b) = Len(a) + Len(b)
      /\ \A j \in 1..(Len(a) + Len(b)) : (a \o b)[j] = IF j <= Len(a) THEN a[j] ELSE b[j - Len(a)]
  BY <1>1, <1>2, ConcatProperties
<1> HIDE DEF a, b
<1>4. \A j \in 1..(Len(s) - 1) : (a \o b)[j] = s[IF j < i THEN j ELSE j + 1]
  BY <1>1, <1>2, <1>3
<1>5. RemoveAt(s, i) = a \o b
  BY DEF RemoveAt, a, b
<1>6. Len(a \o b) = Len(s) - 1
  BY <1>1, <1>2, <1>3
<1> QED BY <1>3, <1>4, <1>5, <1>6

\* Unsubscribing leaves only topics that were in the list.
LEMMA RemoveFirstShrinks ==
    ASSUME NEW S, NEW s \in Seq(S), NEW e
    PROVE  /\ RemoveFirst(s, e) \in Seq(S)
           /\ \A j \in 1..Len(RemoveFirst(s, e)) : \E k \in 1..Len(s) : RemoveFirst(s, e)[j] = s[k]
<1> DEFINE I == {i \in 1..Len(s) : s[i] = e}
<1>1. CASE I = {}
  BY <1>1 DEF RemoveFirst
<1>2. CASE I # {}
  <2>1. SelectInSeq(s, LAMBDA v : v = e) = Min(I)
    BY <1>2 DEF SelectInSeq
  <2>2. Min(I) \in I
    <3>1. Min(I) = Lowest(I)
      BY DEF Min, Lowest
    <3> QED BY <3>1, <1>2, LowestIn
  <2>3. RemoveFirst(s, e) = RemoveAt(s, Min(I))
    BY <1>2, <2>1 DEF RemoveFirst
  <2>4. /\ RemoveAt(s, Min(I)) \in Seq(S)
        /\ Len(RemoveAt(s, Min(I))) = Len(s) - 1
        /\ \A j \in 1..(Len(s) - 1) : RemoveAt(s, Min(I))[j] = s[IF j < Min(I) THEN j ELSE j + 1]
    BY <2>2, RemoveAtProperties, Zenon
  <2> HIDE DEF I
  <2>5. Min(I) \in 1..Len(s)
    BY <2>2 DEF I
  <2> QED BY <2>3, <2>4, <2>5
<1> QED BY <1>1, <1>2

\* The requests to publish that wait are finite in number.
LEMMA PendingFinite ==
    ASSUME TypeOK
    PROVE  /\ IsFiniteSet(PendingPublishes)
           /\ Cardinality(PendingPublishes) \in Nat
           /\ \A P \in SUBSET PendingPublishes : Cardinality(P) \in Nat
                                                 /\ Cardinality(P) <= Cardinality(PendingPublishes)
<1>1. PendingPublishes \in SUBSET Conns
  BY DEF PendingPublishes
<1>2. IsFiniteSet(PendingPublishes)
  BY <1>1, FS_Subset, IPCAssumption
<1>3. ASSUME NEW P \in SUBSET PendingPublishes
      PROVE  Cardinality(P) \in Nat /\ Cardinality(P) <= Cardinality(PendingPublishes)
  BY <1>2, FS_Subset, FS_CardinalityType
<1> QED BY <1>2, <1>3, FS_CardinalityType

\* Requests to publish only ever leave the pending set, except in Read.
LEMMA PendingShrinks ==
    ASSUME TypeOK, published + Cardinality(PendingPublishes) <= MaxMsgs,
           published' = published, PendingPublishes' \subseteq PendingPublishes
    PROVE  published' + Cardinality(PendingPublishes') <= MaxMsgs
<1>1. PendingPublishes' \in SUBSET PendingPublishes
  OBVIOUS
<1>2. /\ Cardinality(PendingPublishes) \in Nat /\ Cardinality(PendingPublishes') \in Nat
      /\ Cardinality(PendingPublishes') <= Cardinality(PendingPublishes)
  BY <1>1, PendingFinite
<1>3. published \in Nat /\ MaxMsgs \in Nat
  BY IPCAssumption DEF TypeOK
<1> QED BY <1>2, <1>3

\* The topic table stays within its size when a topic that has or gets an entry
\* is added.
LEMMA KnownGrows ==
    ASSUME known \subseteq Topics, Cardinality(known) <= MaxTopics, NEW t \in Topics, HasTopic(t)
    PROVE  known \cup {t} \subseteq Topics /\ Cardinality(known \cup {t}) <= MaxTopics
<1>1. IsFiniteSet(known) /\ Cardinality(known) \in Nat
  BY FS_Subset, FS_CardinalityType, IPCAssumption
<1>2. Cardinality(known \cup {t}) = IF t \in known THEN Cardinality(known) ELSE Cardinality(known) + 1
  BY <1>1, FS_AddElement
<1> QED BY <1>1, <1>2, IPCAssumption DEF HasTopic

\* A topic without an entry that can get one could get one before.
LEMMA RoomShrinks ==
    ASSUME known \subseteq known', known' \subseteq Topics
    PROVE  \A u \in Topics : u \notin known' /\ HasTopic(u)' => u \notin known /\ HasTopic(u)
<1>1. IsFiniteSet(known')
  BY FS_Subset, IPCAssumption
<1>2. known \in SUBSET known'
  OBVIOUS
<1>3. IsFiniteSet(known) /\ Cardinality(known) <= Cardinality(known')
  BY <1>1, <1>2, FS_Subset
<1>4. Cardinality(known) \in Nat /\ Cardinality(known') \in Nat
  BY <1>1, <1>3, FS_CardinalityType
<1> QED BY <1>3, <1>4, IPCAssumption DEF HasTopic

\* With the lock free or held by c, which is not closing, the entry of the table
\* with c's descriptor is c's own, and find_client finds it.
LEMMA OwnEntry ==
    ASSUME TypeOK, LockInv, FdInv, TableInv, NEW c \in Conns,
           ipc_lock \in {None, c}, pc[c] \in {"request", "delivering", "retaining", "leaving"},
           EntriesOf(fdOf[c]) # {}
    PROVE  /\ find_client(fdOf[c]) \in 1..Len(clients)
           /\ clients[find_client(fdOf[c])].conn = c
<1>1. PICK i \in 1..Len(clients) : clients[i].fd = fdOf[c]
  BY DEF EntriesOf
<1>2. EntriesOf(fdOf[c]) = {i}
  BY <1>1 DEF EntriesOf, TableInv
<1>3. find_client(fdOf[c]) = i
  BY <1>2, <1>1 DEF find_client, Lowest
<1>4. clients[i] \in Entries
  BY <1>1 DEF TypeOK
<1>5. clients[i].conn \in Conns
  BY <1>4 DEF Entries
<1>6. pc[clients[i].conn] # "closing"
  BY <1>5, IPCAssumption DEF LockInv
<1>7. desc[clients[i].fd] = clients[i].conn
  BY <1>1, <1>5, <1>6 DEF TableInv, FdInv
<1> QED BY <1>1, <1>3, <1>7 DEF FdInv

\* What write keeps, on a descriptor whose connection is d.
LEMMA WriteKeeps ==
    ASSUME TypeOK, NoMisdelivery, OrderInv, NEW f \in Fds, NEW d \in Conns, desc[f] = d,
           NEW t \in Topics, NEW n \in 1..MaxMsgs, Write(f, [topic |-> t, seq |-> n]),
           t \in asked[d], asked' = asked, UNCHANGED <<published, known, retained>>,
           n <= published, t \in known => n <= retained[t], t \notin known => ~HasTopic(t)
    PROVE  /\ alive' \in BOOLEAN
           /\ inbox' \in [Conns -> Seq(Messages)] /\ \A c \in Conns : Len(inbox'[c]) <= Buffer
           /\ seen' \in [Conns -> [Topics -> 0..MaxMsgs]]
           /\ NoMisdelivery'
           /\ OrderInv'
<1> DEFINE m == [topic |-> t, seq |-> n]
<1>1. CASE ~peerOpen[d] /\ alive' = FALSE /\ UNCHANGED <<inbox, seen>>
  <2>1. HasTopic(t)' = HasTopic(t)
    BY DEF HasTopic
  <2> QED BY <1>1 DEF TypeOK, NoMisdelivery, OrderInv, HasTopic
<1>2. CASE /\ peerOpen[d]
           /\ Len(inbox[d]) < Buffer
           /\ inbox' = [inbox EXCEPT ![d] = Append(inbox[d], m)]
           /\ seen' = [seen EXCEPT ![d] = [seen[d] EXCEPT ![t] = n]]
           /\ UNCHANGED alive
  <2>1. m \in Messages /\ inbox[d] \in Seq(Messages)
    BY DEF Messages, TypeOK
  <2> DEFINE q == Append(inbox[d], m)
  <2>2. /\ q \in Seq(Messages) /\ Len(q) = Len(inbox[d]) + 1
        /\ \A k \in 1..Len(inbox[d]) : q[k] = inbox[d][k]
        /\ q[Len(inbox[d]) + 1] = m
    BY <2>1, AppendProperties
  <2>3. /\ inbox' = [inbox EXCEPT ![d] = q]
        /\ seen' = [seen EXCEPT ![d] = [seen[d] EXCEPT ![t] = n]]
    BY <1>2
  <2> HIDE DEF q, m
  <2>4. inbox' \in [Conns -> Seq(Messages)] /\ \A c \in Conns : Len(inbox'[c]) <= Buffer
    BY <1>2, <2>1, <2>2, <2>3, IPCAssumption, SMTT(30) DEF TypeOK
  <2>5. seen' \in [Conns -> [Topics -> 0..MaxMsgs]]
    BY <2>3, IPCAssumption DEF TypeOK
  <2>6. m.topic = t
    BY DEF m
  <2>7. \A k \in 1..Len(q) : q[k].topic \in asked[d]
    BY <2>1, <2>2, <2>6 DEF NoMisdelivery
  <2>8. NoMisdelivery'
    BY <2>3, <2>7 DEF NoMisdelivery, TypeOK
  <2>9. \A c \in Conns, u \in Topics : seen'[c][u] = IF c = d /\ u = t THEN n ELSE seen[c][u]
    BY <2>3 DEF TypeOK
  <2>10. \A u \in Topics : HasTopic(u)' <=> HasTopic(u)
    BY DEF HasTopic
  <2>11. published \in Nat /\ retained[t] \in Nat
    BY IPCAssumption DEF TypeOK
  <2>12. OrderInv'
    BY <2>9, <2>10, <2>11 DEF OrderInv
  <2> QED BY <1>2, <2>4, <2>5, <2>8, <2>12 DEF TypeOK
<1>3. d # None
  BY IPCAssumption
<1> QED BY <1>1, <1>2, <1>3 DEF Write

\* Steps that touch neither the tables nor what was sent, and leave publishers
\* and subscribers under way where they are.
LEMMA CurrentFrame ==
    ASSUME TypeOK, CurrentInv, alive, UNCHANGED <<alive, clients, known, retained, seen>>,
           \A i \in 1..Len(clients) : peerOpen'[clients[i].conn] => peerOpen[clients[i].conn],
           \A d \in Conns : pc[d] \in {"delivering", "retaining"} =>
                                pc'[d] = pc[d] /\ req'[d] = req[d] /\ pos'[d] = pos[d]
    PROVE  CurrentInv'
<1> SUFFICES ASSUME NEW i \in 1..Len(clients), NEW t \in known,
                    Subscribed(clients[i], t), peerOpen[clients[i].conn]
             PROVE  \/ seen[clients[i].conn][t] >= retained[t]
                    \/ \E c \in Conns : pc'[c] = "delivering" /\ req'[c].topic = t /\ pos'[c] <= i
                    \/ pc'[clients[i].conn] = "retaining" /\ req'[clients[i].conn].topic = t
  BY DEF CurrentInv, Subscribed
<1>1. clients[i].conn \in Conns
  <2>1. clients[i] \in Entries
    BY DEF TypeOK
  <2> QED BY <2>1 DEF Entries
<1> QED BY <1>1 DEF CurrentInv

\* With the lock free, nobody is owed a message.
LEMMA CurrentAtRest ==
    ASSUME IInv, alive, ipc_lock = None
    PROVE  \A i \in 1..Len(clients), t \in known :
               Subscribed(clients[i], t) /\ peerOpen[clients[i].conn]
                 => seen[clients[i].conn][t] >= retained[t]
<1> SUFFICES ASSUME NEW i \in 1..Len(clients), NEW t \in known,
                    Subscribed(clients[i], t), peerOpen[clients[i].conn]
             PROVE  seen[clients[i].conn][t] >= retained[t]
  OBVIOUS
<1>1. clients[i].conn \in Conns
  <2>1. clients[i] \in Entries
    BY DEF TypeOK, IInv
  <2> QED BY <2>1 DEF Entries
<1>2. \A c \in Conns : pc[c] \notin {"delivering", "retaining"}
  BY IPCAssumption DEF IInv, LockInv
<1> QED BY <1>1, <1>2 DEF IInv, CurrentInv

-----------------------------------------------------------------------------
(* Every action preserves the invariant *)

\* Accept: the number the kernel takes was nobody's.
LEMMA AcceptStep ==
    ASSUME IInv, alive, NEW c \in Conns, Accept(c)
    PROVE  IInv'
<1> USE IPCAssumption
<1>0. /\ TypeOK /\ LockInv /\ FdInv /\ TableInv
      /\ NoMisdelivery /\ RequestInv /\ OrderInv /\ CurrentInv
  BY DEF IInv
<1>e. \A i \in 1..Len(clients) : /\ clients[i].conn \in Conns /\ clients[i].fd \in Fds
                                  /\ clients[i].subs \in Seq(Topics)
  <2>1. \A i \in 1..Len(clients) : clients[i] \in Entries
    BY <1>0 DEF TypeOK
  <2> QED BY <2>1 DEF Entries
<1> DEFINE f == Lowest(FreeFds)
<1>f. f \in Fds /\ desc[f] = None
  <2>1. FreeFds \in SUBSET Nat /\ FreeFds # {}
    BY DEF FreeFds, Accept
  <2> QED BY <2>1, LowestIn DEF FreeFds
<1>a. /\ pc[c] = "none" /\ pc' = [pc EXCEPT ![c] = "starting"]
      /\ desc' = [desc EXCEPT ![f] = c] /\ fdOf' = [fdOf EXCEPT ![c] = f]
      /\ peerOpen' = [peerOpen EXCEPT ![c] = TRUE]
      /\ UNCHANGED <<alive, req, pos, inbox, clients, known, retained, published, ipc_lock,
                     asked, seen>>
  BY DEF Accept, tables, history
<1>b. \A i \in 1..Len(clients) : clients[i].conn # c
  BY <1>0, <1>a DEF TableInv
<1> HIDE DEF f
<1>1. TypeOK'
  BY <1>0, <1>a, <1>f DEF TypeOK
<1>2. LockInv'
  BY <1>0 DEF Accept, LockInv, TypeOK, tables, history
<1>3. FdInv'
  BY <1>0, <1>a, <1>f DEF TypeOK, FdInv
<1>4. TableInv'
  BY <1>0, <1>a, <1>b, <1>e DEF TypeOK, TableInv
<1>5. NoMisdelivery'
  BY <1>0 DEF Accept, NoMisdelivery, TypeOK, tables, history
<1>6. RequestInv'
  BY <1>0 DEF Accept, LockInv, RequestInv, TypeOK, Requests, HasTopic, PendingPublishes, tables,
     history
<1>7. OrderInv'
  BY <1>0 DEF Accept, OrderInv, RequestInv, TypeOK, HasTopic, tables, history
<1>8. CurrentInv'
  <2>1. \A i \in 1..Len(clients) : peerOpen'[clients[i].conn] => peerOpen[clients[i].conn]
    BY <1>0, <1>a, <1>b, <1>e DEF TypeOK
  <2>2. \A d \in Conns : pc[d] \in {"delivering", "retaining"} =>
                             pc'[d] = pc[d] /\ req'[d] = req[d] /\ pos'[d] = pos[d]
    BY <1>0, <1>a DEF TypeOK
  <2> QED BY <1>0, <1>a, <2>1, <2>2, CurrentFrame
<1> QED BY <1>1, <1>2, <1>3, <1>4, <1>5, <1>6, <1>7, <1>8 DEF IInv

\* Register: no entry has the descriptor of a connection that is not listed yet.
LEMMA RegisterStep ==
    ASSUME IInv, alive, NEW c \in Conns, Register(c)
    PROVE  IInv'
<1> USE IPCAssumption
<1>0. /\ TypeOK /\ LockInv /\ FdInv /\ TableInv
      /\ NoMisdelivery /\ RequestInv /\ OrderInv /\ CurrentInv
  BY DEF IInv
<1>e. \A i \in 1..Len(clients) : /\ clients[i].conn \in Conns /\ clients[i].fd \in Fds
                                  /\ clients[i].subs \in Seq(Topics)
  <2>1. \A i \in 1..Len(clients) : clients[i] \in Entries
    BY <1>0 DEF TypeOK
  <2> QED BY <2>1 DEF Entries
<1> DEFINE e == [fd |-> fdOf[c], conn |-> c, subs |-> <<>>]
<1>a. /\ pc[c] = "starting" /\ pc' = [pc EXCEPT ![c] = "reading"] /\ ipc_lock = None
      /\ UNCHANGED <<alive, desc, fdOf, req, pos, peerOpen, inbox, known, retained, published,
                     ipc_lock, asked, seen>>
  BY DEF Register, history
<1>b. fdOf[c] \in Fds /\ desc[fdOf[c]] = c
  BY <1>0, <1>a DEF FdInv
<1>c. e \in Entries /\ clients \in Seq(Entries)
  BY <1>0, <1>b DEF Entries, TypeOK
<1>d. \/ clients' = clients
      \/ /\ Len(clients) < MaxClients
         /\ clients' \in Seq(Entries) /\ Len(clients') = Len(clients) + 1
         /\ \A i \in 1..Len(clients) : clients'[i] = clients[i]
         /\ clients'[Len(clients) + 1] = e
  <2>1. CASE clients' = clients
    BY <2>1
  <2>2. CASE Len(clients) < MaxClients /\ clients' = Append(clients, e)
    BY <1>c, <2>2, AppendProperties
  <2> QED BY <2>1, <2>2 DEF Register
<1>g. e.fd = fdOf[c] /\ e.conn = c /\ e.subs = <<>>
  OBVIOUS
<1>h. \A i \in 1..Len(clients) : clients[i].conn # c /\ clients[i].fd # fdOf[c]
  <2> TAKE i \in 1..Len(clients)
  <2>1. clients[i].conn # c
    BY <1>0, <1>a DEF TableInv
  <2>2. pc[clients[i].conn] # "closing"
    BY <1>0, <1>a, <1>e DEF LockInv
  <2>3. desc[clients[i].fd] = clients[i].conn
    BY <1>0, <1>e, <2>2 DEF TableInv, FdInv
  <2> QED BY <1>b, <2>1, <2>3
<1>i. Len(clients) \in Nat /\ Len(clients') \in Nat
  BY <1>c, <1>d
<1>j. \A i \in 1..Len(clients) : i \in 1..Len(clients') /\ clients'[i] = clients[i]
  BY <1>d, <1>i
<1>k. \A i \in 1..Len(clients') :
         (i \in 1..Len(clients) /\ clients'[i] = clients[i]) \/ (i = Len(clients) + 1 /\ clients'[i] = e)
  <2>1. CASE clients' = clients
    BY <2>1
  <2>2. CASE Len(clients') = Len(clients) + 1 /\ clients'[Len(clients) + 1] = e
    BY <1>i, <1>j, <2>2
  <2> QED BY <1>d, <2>1, <2>2
<1> HIDE DEF e
<1>1. TypeOK'
  BY <1>0, <1>a, <1>d DEF TypeOK
<1>2. LockInv'
  BY <1>0 DEF Register, LockInv, TypeOK, tables, history
<1>3. FdInv'
  <2>1. \A d \in Conns : pc'[d] = "closing" => \E i \in 1..Len(clients') : clients'[i].conn = d
    <3> SUFFICES ASSUME NEW d \in Conns, pc'[d] = "closing"
                 PROVE  \E i \in 1..Len(clients') : clients'[i].conn = d
      OBVIOUS
    <3>1. PICK i \in 1..Len(clients) : clients[i].conn = d
      BY <1>0, <1>a DEF TypeOK, FdInv
    <3> QED BY <1>j, <3>1
  <2> QED BY <1>0, <1>a, <2>1, ZenonT(30) DEF TypeOK, FdInv
<1>4. TableInv'
  <2>1. CASE clients' = clients
    BY <1>0, <1>a, <1>e, <2>1 DEF TypeOK, TableInv
  <2>2. CASE clients' # clients
    <3>3. ASSUME NEW i \in 1..Len(clients')
          PROVE  /\ clients'[i].fd = fdOf'[clients'[i].conn]
                 /\ pc'[clients'[i].conn] \in
                       {"reading", "request", "delivering", "retaining", "leaving", "closing"}
                 /\ \A k \in 1..Len(clients'[i].subs) :
                       clients'[i].subs[k] \in asked'[clients'[i].conn]
      <4>1. CASE i \in 1..Len(clients) /\ clients'[i] = clients[i]
        <5>1. clients[i].conn # c
          BY <1>h, <4>1
        <5>2. pc'[clients[i].conn] = pc[clients[i].conn]
          BY <1>0, <1>a, <1>e, <4>1, <5>1 DEF TypeOK
        <5> QED BY <1>0, <1>a, <4>1, <5>2 DEF TableInv
      <4>2. CASE clients'[i] = e
        <5>1. pc'[c] = "reading" /\ Len(e.subs) = 0
          BY <1>0, <1>a, <1>g DEF TypeOK
        <5> QED BY <1>a, <1>g, <4>2, <5>1
      <4> QED BY <1>k, <4>1, <4>2
    <3>4. ASSUME NEW i \in 1..Len(clients'), NEW j \in 1..Len(clients'),
                 clients'[i].fd = clients'[j].fd \/ clients'[i].conn = clients'[j].conn
          PROVE  i = j
      BY <1>0, <1>g, <1>h, <1>i, <1>k, <3>4 DEF TableInv
    <3> QED BY <3>3, <3>4 DEF TableInv
  <2> QED BY <2>1, <2>2
<1>5. NoMisdelivery'
  BY <1>0 DEF Register, NoMisdelivery, TypeOK, tables, history
<1>6. RequestInv'
  BY <1>0 DEF Register, LockInv, RequestInv, TypeOK, Requests, HasTopic, PendingPublishes, tables,
     history
<1>7. OrderInv'
  BY <1>0 DEF Register, OrderInv, RequestInv, TypeOK, HasTopic, tables, history
<1>8. CurrentInv'
  <2>1. ASSUME NEW i \in 1..Len(clients'), NEW t \in known, Subscribed(clients'[i], t),
               peerOpen[clients'[i].conn]
        PROVE  seen[clients'[i].conn][t] >= retained[t]
    <3>2. i \in 1..Len(clients) /\ clients'[i] = clients[i]
      BY <1>k, <1>g, <2>1 DEF Subscribed
    <3> QED BY <1>a, <2>1, <3>2, CurrentAtRest
  <2> QED BY <1>a, <2>1 DEF CurrentInv, Subscribed
<1> QED BY <1>1, <1>2, <1>3, <1>4, <1>5, <1>6, <1>7, <1>8 DEF IInv

\* Read: the bound on messages counts the new request.
LEMMA ReadStep ==
    ASSUME IInv, alive, NEW c \in Conns, NEW op \in Ops, NEW t \in Topics, Read(c, op, t)
    PROVE  IInv'
<1> USE IPCAssumption
<1>0. /\ TypeOK /\ LockInv /\ FdInv /\ TableInv
      /\ NoMisdelivery /\ RequestInv /\ OrderInv /\ CurrentInv
  BY DEF IInv
<1> DEFINE r == [op |-> op, topic |-> t, seq |-> 0]
<1>a. /\ pc[c] = "reading" /\ pc' = [pc EXCEPT ![c] = "request"]
      /\ req' = [req EXCEPT ![c] = r]
      /\ op = "publish" => published + Cardinality(PendingPublishes) < MaxMsgs
      /\ UNCHANGED <<alive, desc, fdOf, pos, peerOpen, inbox, clients, known, retained, published,
                     ipc_lock, asked, seen>>
  BY DEF Read, tables, history
<1>b. r \in Requests /\ r.op = op
  BY DEF Requests
<1> HIDE DEF r
<1>1. TypeOK'
  BY <1>0, <1>a, <1>b DEF TypeOK
<1>2. LockInv'
  BY <1>0 DEF Read, LockInv, TypeOK, tables, history
<1>3. FdInv'
  BY <1>0 DEF Read, FdInv, TypeOK, tables, history
<1>4. TableInv'
  BY <1>0, SMTT(30) DEF Read, TableInv, TypeOK, tables, history
<1>5. NoMisdelivery'
  BY <1>0 DEF Read, NoMisdelivery, TypeOK, tables, history
<1>6. RequestInv'
  <2>1. published + Cardinality(PendingPublishes') <= MaxMsgs
    <3>1. IsFiniteSet(PendingPublishes) /\ Cardinality(PendingPublishes) \in Nat /\ published \in Nat
      BY <1>0, PendingFinite DEF TypeOK
    <3>2. CASE op = "publish"
      <4>1. PendingPublishes' \subseteq PendingPublishes \cup {c}
        BY <1>0, <1>a DEF PendingPublishes, TypeOK
      <4>0. /\ IsFiniteSet(PendingPublishes \cup {c})
            /\ Cardinality(PendingPublishes \cup {c}) =
                 IF c \in PendingPublishes THEN Cardinality(PendingPublishes)
                                           ELSE Cardinality(PendingPublishes) + 1
        BY <3>1, FS_AddElement
      <4>2. /\ Cardinality(PendingPublishes \cup {c}) \in Nat
            /\ Cardinality(PendingPublishes \cup {c}) <= Cardinality(PendingPublishes) + 1
        BY <3>1, <4>0
      <4>3. Cardinality(PendingPublishes') \in Nat
            /\ Cardinality(PendingPublishes') <= Cardinality(PendingPublishes \cup {c})
        BY <4>0, <4>1, FS_Subset, FS_CardinalityType
      <4> QED BY <1>a, <3>1, <3>2, <4>2, <4>3
    <3>3. CASE op # "publish"
      <4>1. PendingPublishes' \subseteq PendingPublishes
        BY <1>0, <1>a, <1>b, <3>3 DEF PendingPublishes, TypeOK
      <4> QED BY <1>0, <1>a, <4>1, PendingShrinks DEF RequestInv
    <3> QED BY <3>2, <3>3
  <2>2. \A d \in Conns :
          /\ pc'[d] \in {"request", "delivering", "retaining"} => req'[d] \in Requests
          /\ pc'[d] = "retaining" => req'[d].topic \in asked[d] /\ retained[req'[d].topic] # 0
          /\ pc'[d] = "delivering" =>
                /\ req'[d].seq = published /\ published # 0
                /\ IF req'[d].topic \in known THEN retained[req'[d].topic] = published
                                              ELSE ~HasTopic(req'[d].topic)
    BY <1>0, <1>a, <1>b DEF RequestInv, TypeOK
  <2> QED BY <1>a, <2>1, <2>2 DEF RequestInv, HasTopic
<1>7. OrderInv'
  BY <1>0 DEF Read, OrderInv, RequestInv, TypeOK, HasTopic, tables, history
<1>8. CurrentInv'
  <2>1. \A d \in Conns : pc[d] \in {"delivering", "retaining"} =>
                             pc'[d] = pc[d] /\ req'[d] = req[d] /\ pos'[d] = pos[d]
    BY <1>0, <1>a DEF TypeOK
  <2> QED BY <1>0, <1>a, <2>1, CurrentFrame
<1> QED BY <1>1, <1>2, <1>3, <1>4, <1>5, <1>6, <1>7, <1>8 DEF IInv

\* Drop: only the thread's own state changes.
LEMMA DropStep ==
    ASSUME IInv, alive, NEW c \in Conns, Drop(c)
    PROVE  IInv'
<1> USE IPCAssumption
<1>0. /\ TypeOK /\ LockInv /\ FdInv /\ TableInv
      /\ NoMisdelivery /\ RequestInv /\ OrderInv /\ CurrentInv
  BY DEF IInv
<1>e. \A i \in 1..Len(clients) : /\ clients[i].conn \in Conns /\ clients[i].fd \in Fds
                                  /\ clients[i].subs \in Seq(Topics)
  <2>1. \A i \in 1..Len(clients) : clients[i] \in Entries
    BY <1>0 DEF TypeOK
  <2> QED BY <2>1 DEF Entries
<1>1. TypeOK'
  BY <1>0 DEF Drop, TypeOK, Requests, Entries, Messages, tables, history
<1>2. LockInv'
  BY <1>0 DEF Drop, LockInv, TypeOK, tables, history
<1>3. FdInv'
  BY <1>0 DEF Drop, FdInv, TypeOK, tables, history
<1>4. TableInv'
  BY <1>0 DEF Drop, TableInv, TypeOK, tables, history
<1>5. NoMisdelivery'
  BY <1>0 DEF Drop, NoMisdelivery, TypeOK, tables, history
<1>6. RequestInv'
  BY <1>0 DEF Drop, LockInv, RequestInv, TypeOK, Requests, HasTopic, PendingPublishes, tables, history
<1>7. OrderInv'
  BY <1>0 DEF Drop, OrderInv, RequestInv, TypeOK, HasTopic, tables, history
<1>8. CurrentInv'
  <2>1. /\ UNCHANGED <<alive, clients, known, retained, seen>>
        /\ \A i \in 1..Len(clients) : peerOpen'[clients[i].conn] => peerOpen[clients[i].conn]
    BY <1>0, <1>e DEF Drop, TypeOK, tables, history
  <2>2. \A d \in Conns : pc[d] \in {"delivering", "retaining"} =>
                             pc'[d] = pc[d] /\ req'[d] = req[d] /\ pos'[d] = pos[d]
    BY <1>0 DEF Drop, TypeOK, tables, history
  <2> QED BY <1>0, <2>1, <2>2, CurrentFrame
<1> QED BY <1>1, <1>2, <1>3, <1>4, <1>5, <1>6, <1>7, <1>8 DEF IInv

\* ReadEOF: only the thread's own state changes.
LEMMA ReadEOFStep ==
    ASSUME IInv, alive, NEW c \in Conns, ReadEOF(c)
    PROVE  IInv'
<1> USE IPCAssumption
<1>0. /\ TypeOK /\ LockInv /\ FdInv /\ TableInv
      /\ NoMisdelivery /\ RequestInv /\ OrderInv /\ CurrentInv
  BY DEF IInv
<1>e. \A i \in 1..Len(clients) : /\ clients[i].conn \in Conns /\ clients[i].fd \in Fds
                                  /\ clients[i].subs \in Seq(Topics)
  <2>1. \A i \in 1..Len(clients) : clients[i] \in Entries
    BY <1>0 DEF TypeOK
  <2> QED BY <2>1 DEF Entries
<1>1. TypeOK'
  BY <1>0 DEF ReadEOF, TypeOK, Requests, Entries, Messages, tables, history
<1>2. LockInv'
  BY <1>0 DEF ReadEOF, LockInv, TypeOK, tables, history
<1>3. FdInv'
  BY <1>0 DEF ReadEOF, FdInv, TypeOK, tables, history
<1>4. TableInv'
  BY <1>0 DEF ReadEOF, TableInv, TypeOK, tables, history
<1>5. NoMisdelivery'
  BY <1>0 DEF ReadEOF, NoMisdelivery, TypeOK, tables, history
<1>6. RequestInv'
  BY <1>0 DEF ReadEOF, LockInv, RequestInv, TypeOK, Requests, HasTopic, PendingPublishes, tables,
     history
<1>7. OrderInv'
  BY <1>0 DEF ReadEOF, OrderInv, RequestInv, TypeOK, HasTopic, tables, history
<1>8. CurrentInv'
  <2>1. /\ UNCHANGED <<alive, clients, known, retained, seen>>
        /\ \A i \in 1..Len(clients) : peerOpen'[clients[i].conn] => peerOpen[clients[i].conn]
    BY <1>0, <1>e DEF ReadEOF, TypeOK, tables, history
  <2>2. \A d \in Conns : pc[d] \in {"delivering", "retaining"} =>
                             pc'[d] = pc[d] /\ req'[d] = req[d] /\ pos'[d] = pos[d]
    BY <1>0 DEF ReadEOF, TypeOK, tables, history
  <2> QED BY <1>0, <2>1, <2>2, CurrentFrame
<1> QED BY <1>1, <1>2, <1>3, <1>4, <1>5, <1>6, <1>7, <1>8 DEF IInv

\* PublishStart: every subscriber of the topic is owed the message from here on.
LEMMA PublishStartStep ==
    ASSUME IInv, alive, NEW c \in Conns, PublishStart(c)
    PROVE  IInv'
<1> USE IPCAssumption
<1>0. /\ TypeOK /\ LockInv /\ FdInv /\ TableInv
      /\ NoMisdelivery /\ RequestInv /\ OrderInv /\ CurrentInv
  BY DEF IInv
<1>e. \A i \in 1..Len(clients) : /\ clients[i].conn \in Conns /\ clients[i].fd \in Fds
                                  /\ clients[i].subs \in Seq(Topics)
  <2>1. \A i \in 1..Len(clients) : clients[i] \in Entries
    BY <1>0 DEF TypeOK
  <2> QED BY <2>1 DEF Entries
<1>a. /\ pc[c] = "request" /\ pc' = [pc EXCEPT ![c] = "delivering"] /\ req[c].op = "publish"
      /\ ipc_lock = None /\ ipc_lock' = c
      /\ published' = published + 1 /\ pos' = [pos EXCEPT ![c] = 1]
      /\ UNCHANGED <<alive, desc, fdOf, peerOpen, inbox, clients, asked, seen>>
  BY DEF PublishStart, history
<1>b. req[c] \in Requests
  BY <1>0, <1>a DEF RequestInv
<1>t. PICK t \in Topics : t = req[c].topic
  BY <1>b DEF Requests
<1> DEFINE r == [op |-> req[c].op, topic |-> t, seq |-> published + 1]
<1>p. /\ published \in Nat /\ published + 1 <= MaxMsgs
      /\ published' + Cardinality(PendingPublishes') <= MaxMsgs
  <2>1. IsFiniteSet(PendingPublishes) /\ Cardinality(PendingPublishes) \in Nat /\ published \in Nat
    BY <1>0, PendingFinite DEF TypeOK
  <2>2. c \in PendingPublishes /\ PendingPublishes' \subseteq PendingPublishes \ {c}
    BY <1>0, <1>a DEF PendingPublishes, TypeOK, PublishStart
  <2>3. /\ IsFiniteSet(PendingPublishes \ {c})
        /\ Cardinality(PendingPublishes \ {c}) = Cardinality(PendingPublishes) - 1
    BY <2>1, <2>2, FS_RemoveElement
  <2>4. Cardinality(PendingPublishes \ {c}) \in Nat
    BY <2>3, FS_CardinalityType
  <2>5. /\ Cardinality(PendingPublishes') \in Nat
        /\ Cardinality(PendingPublishes') <= Cardinality(PendingPublishes \ {c})
    BY <2>2, <2>3, FS_Subset, FS_CardinalityType
  <2> QED BY <1>0, <1>a, <2>1, <2>3, <2>4, <2>5 DEF RequestInv
<1>r. req' = [req EXCEPT ![c] = r] /\ r \in Requests /\ r.topic = t /\ r.seq = published + 1
  <2>1. r \in Requests /\ r.topic = t /\ r.seq = published + 1
    BY <1>b, <1>p DEF Requests
  <2>2. [req[c] EXCEPT !.seq = published + 1] = r
    BY <1>b, <1>t DEF Requests
  <2>3. req' = [req EXCEPT ![c] = [req[c] EXCEPT !.seq = published + 1]]
    BY DEF PublishStart
  <2> QED BY <2>1, <2>2, <2>3
<1>k. \/ HasTopic(t) /\ known' = known \cup {t} /\ retained' = [retained EXCEPT ![t] = published + 1]
      \/ ~HasTopic(t) /\ known' = known /\ retained' = retained
  BY <1>t DEF PublishStart
<1>g. known \subseteq known' /\ known' \subseteq Topics /\ Cardinality(known') <= MaxTopics
  BY <1>0, <1>k, KnownGrows DEF TypeOK
<1>n. \A d \in Conns : pc[d] \notin {"delivering", "retaining", "closing"}
  BY <1>0, <1>a DEF LockInv
<1>q. \A d \in Conns : d # c => pc'[d] = pc[d] /\ req'[d] = req[d]
  BY <1>0, <1>a, <1>r DEF TypeOK
<1>s. pc'[c] = "delivering" /\ req'[c] = r /\ pos'[c] = 1
  BY <1>0, <1>a, <1>r DEF TypeOK
<1> HIDE DEF r
<1>1. TypeOK'
  <2>1. retained' \in [Topics -> 0..MaxMsgs]
    <3>1. published + 1 \in 0..MaxMsgs
      BY <1>p
    <3> QED BY <1>0, <1>k, <3>1 DEF TypeOK
  <2> QED BY <1>0, <1>a, <1>p, <1>r, <1>g, <2>1, SMTT(30) DEF TypeOK
<1>2. LockInv'
  BY <1>0, <1>a, <1>n, <1>q, <1>s DEF LockInv
<1>3. FdInv'
  BY <1>0, <1>a, <1>n, <1>q, <1>s DEF FdInv
<1>4. TableInv'
  BY <1>0, <1>a, <1>e, <1>q, <1>s DEF TableInv
<1>5. NoMisdelivery'
  BY <1>0, <1>a DEF NoMisdelivery
<1>6. RequestInv'
  <2>1. IF t \in known' THEN retained'[t] = published + 1 ELSE ~HasTopic(t)'
    BY <1>0, <1>k DEF HasTopic, TypeOK
  <2> QED BY <1>0, <1>a, <1>p, <1>r, <1>n, <1>q, <1>s, <2>1 DEF RequestInv
<1>7. OrderInv'
  <2> SUFFICES ASSUME NEW u \in Topics
               PROVE  /\ retained'[u] <= published'
                      /\ u \notin known' => retained'[u] = 0
                      /\ \A d \in Conns :
                            /\ seen'[d][u] <= published'
                            /\ u \in known' => seen'[d][u] <= retained'[u]
                            /\ u \notin known' /\ HasTopic(u)' => seen'[d][u] = 0
    BY DEF OrderInv
  <2>1. u \notin known' /\ HasTopic(u)' => u \notin known /\ HasTopic(u)
    BY <1>g, RoomShrinks
  <2>2. /\ retained[u] \in Nat /\ retained[u] <= published
        /\ \A d \in Conns : seen[d][u] \in Nat /\ seen[d][u] <= published
    BY <1>0 DEF TypeOK, OrderInv
  <2>3. CASE u = t /\ HasTopic(t)
    <3>1. u \in known' /\ retained'[u] = published + 1
      BY <1>0, <1>k, <2>3 DEF TypeOK
    <3> QED BY <1>a, <1>p, <2>2, <3>1
  <2>4. CASE ~(u = t /\ HasTopic(t))
    <3>1. retained'[u] = retained[u] /\ (u \in known' <=> u \in known)
      BY <1>0, <1>k, <2>4 DEF TypeOK
    <3> QED BY <1>0, <1>a, <1>p, <2>1, <2>2, <3>1 DEF OrderInv
  <2> QED BY <2>3, <2>4
<1>8. CurrentInv'
  <2> SUFFICES ASSUME NEW i \in 1..Len(clients), NEW u \in known',
                      Subscribed(clients[i], u), peerOpen[clients[i].conn]
               PROVE  \/ seen[clients[i].conn][u] >= retained'[u]
                      \/ pc'[c] = "delivering" /\ req'[c].topic = u /\ pos'[c] <= i
    BY <1>a DEF CurrentInv, Subscribed
  <2>1. CASE u = t
    BY <1>r, <1>s, <2>1
  <2>2. CASE u # t
    <3>1. u \in known /\ retained'[u] = retained[u]
      BY <1>0, <1>g, <1>k, <2>2 DEF TypeOK
    <3> QED BY <1>a, <3>1, CurrentAtRest
  <2> QED BY <2>1, <2>2
<1> QED BY <1>1, <1>2, <1>3, <1>4, <1>5, <1>6, <1>7, <1>8 DEF IInv

\* Deliver: the entry in turn is owed nothing more, and its descriptor is its own.
LEMMA DeliverStep ==
    ASSUME IInv, alive, NEW c \in Conns, Deliver(c)
    PROVE  IInv'
<1> USE IPCAssumption
<1>0. /\ TypeOK /\ LockInv /\ FdInv /\ TableInv
      /\ NoMisdelivery /\ RequestInv /\ OrderInv /\ CurrentInv
  BY DEF IInv
<1>e. \A i \in 1..Len(clients) : /\ clients[i].conn \in Conns /\ clients[i].fd \in Fds
                                  /\ clients[i].subs \in Seq(Topics)
  <2>1. \A i \in 1..Len(clients) : clients[i] \in Entries
    BY <1>0 DEF TypeOK
  <2> QED BY <2>1 DEF Entries
<1> DEFINE e == clients[pos[c]]
           t == req[c].topic
           n == req[c].seq
<1>a. /\ pc[c] = "delivering" /\ pos[c] <= Len(clients) /\ pos' = [pos EXCEPT ![c] = @ + 1]
      /\ UNCHANGED <<desc, pc, fdOf, req, peerOpen, clients, known, retained, published, ipc_lock,
                     asked>>
  BY DEF Deliver, tables
<1>b. pos[c] \in 1..Len(clients) /\ ipc_lock = c
  BY <1>0, <1>a DEF TypeOK, LockInv
<1>c. t \in Topics /\ n = published /\ n \in 1..MaxMsgs
  BY <1>0, <1>a DEF RequestInv, Requests, TypeOK
<1>d. e.fd \in Fds /\ e.conn \in Conns /\ desc[e.fd] = e.conn
  <2>1. e.fd \in Fds /\ e.conn \in Conns
    BY <1>b, <1>e
  <2>2. pc[e.conn] # "closing"
    BY <1>0, <1>a, <1>b, <2>1 DEF LockInv
  <2> QED BY <1>0, <1>b, <2>1, <2>2 DEF TableInv, FdInv
<1>f. \/ Subscribed(e, t) /\ Write(e.fd, [topic |-> t, seq |-> n])
      \/ ~Subscribed(e, t) /\ UNCHANGED <<alive, inbox, seen>>
  BY DEF Deliver
<1>g. Subscribed(e, t) => t \in asked[e.conn]
  BY <1>0, <1>b DEF Subscribed, TableInv
<1>h. /\ n <= published
      /\ t \in known => n <= retained[t]
      /\ t \notin known => ~HasTopic(t)
  BY <1>0, <1>a, <1>c DEF RequestInv
<1> HIDE DEF e, t, n
<1>w. /\ alive' \in BOOLEAN
      /\ inbox' \in [Conns -> Seq(Messages)] /\ \A d \in Conns : Len(inbox'[d]) <= Buffer
      /\ seen' \in [Conns -> [Topics -> 0..MaxMsgs]]
      /\ NoMisdelivery'
      /\ OrderInv'
  <2>1. CASE Subscribed(e, t) /\ Write(e.fd, [topic |-> t, seq |-> n])
    BY <1>0, <1>a, <1>c, <1>d, <1>g, <1>h, <2>1, WriteKeeps
  <2>2. CASE UNCHANGED <<alive, inbox, seen>>
    BY <1>0, <1>a, <2>2 DEF TypeOK, NoMisdelivery, OrderInv, HasTopic
  <2> QED BY <1>f, <2>1, <2>2
<1>1. TypeOK'
  <2>1. pos[c] + 1 \in 1..(MaxClients + 1)
    BY <1>0, <1>b DEF TypeOK
  <2>2. pos' \in [Conns -> 1..(MaxClients + 1)]
    BY <1>0, <1>a, <2>1 DEF TypeOK
  <2> QED BY <1>0, <1>a, <1>w, <2>2 DEF TypeOK
<1>2. LockInv'
  BY <1>0 DEF Deliver, LockInv, TypeOK, tables, history
<1>3. FdInv'
  BY <1>0 DEF Deliver, FdInv, TypeOK, tables, history
<1>4. TableInv'
  BY <1>0 DEF Deliver, TableInv, TypeOK, tables, history
<1>5. NoMisdelivery'
  BY <1>w
<1>6. RequestInv'
  BY <1>0 DEF Deliver, LockInv, RequestInv, TypeOK, Requests, HasTopic, PendingPublishes, tables,
     history
<1>7. OrderInv'
  BY <1>w
<1>8. CurrentInv'
  <2> SUFFICES ASSUME alive', NEW i \in 1..Len(clients), NEW u \in known,
                      Subscribed(clients[i], u), peerOpen[clients[i].conn]
               PROVE  \/ seen'[clients[i].conn][u] >= retained[u]
                      \/ u = t /\ pos'[c] <= i
    BY <1>a DEF CurrentInv, Subscribed, t
  <2> DEFINE d == clients[i].conn
  <2>1. d \in Conns /\ u \in Topics /\ retained[u] \in Nat /\ retained[u] <= published
    BY <1>0, <1>e DEF TypeOK, OrderInv
  <2>2. \A x \in Conns : x # c => pc[x] \notin {"delivering", "retaining"}
    BY <1>0, <1>b DEF LockInv
  <2>3. seen[d][u] >= retained[u] \/ (u = t /\ pos[c] <= i)
    <3>1. \/ seen[d][u] >= retained[u]
          \/ \E x \in Conns : pc[x] = "delivering" /\ req[x].topic = u /\ pos[x] <= i
          \/ pc[d] = "retaining" /\ req[d].topic = u
      BY <1>0 DEF CurrentInv
    <3>2. pc[d] # "retaining"
      BY <1>a, <2>1, <2>2
    <3>3. ASSUME NEW x \in Conns, pc[x] = "delivering", req[x].topic = u, pos[x] <= i
          PROVE  u = t /\ pos[c] <= i
      <4>1. x = c
        BY <2>2, <3>3
      <4> QED BY <3>3, <4>1 DEF t
    <3> QED BY <3>1, <3>2, <3>3
  <2>4. \/ UNCHANGED seen /\ ~Subscribed(e, t)
        \/ Subscribed(e, t) /\ seen' = [seen EXCEPT ![e.conn] = [seen[e.conn] EXCEPT ![t] = n]]
    <3>1. CASE ~Subscribed(e, t) /\ UNCHANGED <<alive, inbox, seen>>
      BY <3>1
    <3>2. CASE Subscribed(e, t) /\ Write(e.fd, [topic |-> t, seq |-> n])
      <4>1. e.conn # None
        BY <1>d
      <4> QED BY <1>d, <3>2, <4>1 DEF Write
    <3> QED BY <1>f, <3>1, <3>2
  <2>5. seen[d][u] >= retained[u] => seen'[d][u] >= retained[u]
    <3>1. seen'[d][u] = seen[d][u] \/ seen'[d][u] = published
      <4>1. CASE UNCHANGED seen
        BY <4>1
      <4>2. CASE seen' = [seen EXCEPT ![e.conn] = [seen[e.conn] EXCEPT ![t] = n]]
        <5>1. seen'[d][u] = IF d = e.conn /\ u = t THEN n ELSE seen[d][u]
          BY <1>0, <1>d, <2>1, <4>2 DEF TypeOK
        <5> QED BY <1>c, <5>1
      <4> QED BY <2>4, <4>1, <4>2
    <3> QED BY <1>c, <2>1, <3>1
  <2>6. CASE u = t /\ pos[c] = i
    <3>1. e = clients[i] /\ Subscribed(e, t)
      BY <2>6 DEF e
    <3> QED BY <1>0, <1>c, <1>d, <2>1, <2>4, <2>6, <3>1, SMTT(30) DEF TypeOK
  <2>7. CASE u = t /\ pos[c] < i
    BY <1>0, <1>a, <1>b, <2>7 DEF TypeOK
  <2> QED BY <1>b, <2>3, <2>5, <2>6, <2>7
<1> QED BY <1>1, <1>2, <1>3, <1>4, <1>5, <1>6, <1>7, <1>8 DEF IInv

\* PublishEnd: the loop has passed every entry.
LEMMA PublishEndStep ==
    ASSUME IInv, alive, NEW c \in Conns, PublishEnd(c)
    PROVE  IInv'
<1> USE IPCAssumption
<1>0. /\ TypeOK /\ LockInv /\ FdInv /\ TableInv
      /\ NoMisdelivery /\ RequestInv /\ OrderInv /\ CurrentInv
  BY DEF IInv
<1>e. \A i \in 1..Len(clients) : /\ clients[i].conn \in Conns /\ clients[i].fd \in Fds
                                  /\ clients[i].subs \in Seq(Topics)
  <2>1. \A i \in 1..Len(clients) : clients[i] \in Entries
    BY <1>0 DEF TypeOK
  <2> QED BY <2>1 DEF Entries
<1>a. /\ pc[c] = "delivering" /\ pos[c] > Len(clients) /\ ipc_lock' = None
      /\ pc' = [pc EXCEPT ![c] = "reading"] /\ pos' = [pos EXCEPT ![c] = 1]
      /\ req' = [req EXCEPT ![c] = None]
      /\ UNCHANGED <<alive, desc, fdOf, peerOpen, inbox, clients, known, retained, published,
                     asked, seen>>
  BY DEF PublishEnd, tables, history
<1>1. TypeOK'
  BY <1>0, <1>a DEF TypeOK
<1>2. LockInv'
  BY <1>0 DEF PublishEnd, LockInv, TypeOK, tables, history
<1>3. FdInv'
  BY <1>0 DEF PublishEnd, FdInv, TypeOK, tables, history
<1>4. TableInv'
  BY <1>0 DEF PublishEnd, TableInv, TypeOK, tables, history
<1>5. NoMisdelivery'
  BY <1>0 DEF PublishEnd, NoMisdelivery, TypeOK, tables, history
<1>6. RequestInv'
  BY <1>0 DEF PublishEnd, LockInv, RequestInv, TypeOK, Requests, HasTopic, PendingPublishes, tables,
     history
<1>7. OrderInv'
  BY <1>0 DEF PublishEnd, OrderInv, RequestInv, TypeOK, HasTopic, tables, history
<1>8. CurrentInv'
  <2>1. \A x \in Conns : x # c => pc[x] \notin {"delivering", "retaining"}
    BY <1>0, <1>a DEF LockInv
  <2>2. ASSUME NEW i \in 1..Len(clients), NEW t \in known, Subscribed(clients[i], t),
               peerOpen[clients[i].conn]
        PROVE  seen[clients[i].conn][t] >= retained[t]
    <3>1. ~(pos[c] <= i)
      BY <1>0, <1>a DEF TypeOK
    <3> QED BY <1>0, <1>a, <1>e, <2>1, <2>2, <3>1 DEF CurrentInv
  <2> QED BY <1>a, <2>2 DEF CurrentInv, Subscribed
<1> QED BY <1>1, <1>2, <1>3, <1>4, <1>5, <1>6, <1>7, <1>8 DEF IInv

\* SubscribeIgnored: only the thread's own state changes.
LEMMA SubscribeIgnoredStep ==
    ASSUME IInv, alive, NEW c \in Conns, SubscribeIgnored(c)
    PROVE  IInv'
<1> USE IPCAssumption
<1>0. /\ TypeOK /\ LockInv /\ FdInv /\ TableInv
      /\ NoMisdelivery /\ RequestInv /\ OrderInv /\ CurrentInv
  BY DEF IInv
<1>e. \A i \in 1..Len(clients) : /\ clients[i].conn \in Conns /\ clients[i].fd \in Fds
                                  /\ clients[i].subs \in Seq(Topics)
  <2>1. \A i \in 1..Len(clients) : clients[i] \in Entries
    BY <1>0 DEF TypeOK
  <2> QED BY <2>1 DEF Entries
<1>1. TypeOK'
  BY <1>0 DEF SubscribeIgnored, TypeOK, Requests, Entries, Messages, tables, history
<1>2. LockInv'
  BY <1>0 DEF SubscribeIgnored, LockInv, TypeOK, tables, history
<1>3. FdInv'
  BY <1>0 DEF SubscribeIgnored, FdInv, TypeOK, tables, history
<1>4. TableInv'
  BY <1>0 DEF SubscribeIgnored, TableInv, TypeOK, tables, history
<1>5. NoMisdelivery'
  BY <1>0 DEF SubscribeIgnored, NoMisdelivery, TypeOK, tables, history
<1>6. RequestInv'
  BY <1>0 DEF SubscribeIgnored, LockInv, RequestInv, TypeOK, Requests, HasTopic, PendingPublishes,
     tables, history
<1>7. OrderInv'
  BY <1>0 DEF SubscribeIgnored, OrderInv, RequestInv, TypeOK, HasTopic, tables, history
<1>8. CurrentInv'
  <2>1. /\ UNCHANGED <<alive, clients, known, retained, seen>>
        /\ \A i \in 1..Len(clients) : peerOpen'[clients[i].conn] => peerOpen[clients[i].conn]
    BY <1>0, <1>e DEF SubscribeIgnored, TypeOK, tables, history
  <2>2. \A d \in Conns : pc[d] \in {"delivering", "retaining"} =>
                             pc'[d] = pc[d] /\ req'[d] = req[d] /\ pos'[d] = pos[d]
    BY <1>0 DEF SubscribeIgnored, TypeOK, tables, history
  <2> QED BY <1>0, <2>1, <2>2, CurrentFrame
<1> QED BY <1>1, <1>2, <1>3, <1>4, <1>5, <1>6, <1>7, <1>8 DEF IInv

\* Subscribe: the entry found is the client's own, and it is owed the retained message.
LEMMA SubscribeStep ==
    ASSUME IInv, alive, NEW c \in Conns, Subscribe(c)
    PROVE  IInv'
<1> USE IPCAssumption
<1>0. /\ TypeOK /\ LockInv /\ FdInv /\ TableInv
      /\ NoMisdelivery /\ RequestInv /\ OrderInv /\ CurrentInv
  BY DEF IInv
<1>e. \A i \in 1..Len(clients) : /\ clients[i].conn \in Conns /\ clients[i].fd \in Fds
                                  /\ clients[i].subs \in Seq(Topics)
  <2>1. \A i \in 1..Len(clients) : clients[i] \in Entries
    BY <1>0 DEF TypeOK
  <2> QED BY <2>1 DEF Entries
<1> DEFINE j == find_client(fdOf[c])
<1>b. pc[c] = "request" /\ ipc_lock = None /\ CanSubscribe(c) /\ req[c] \in Requests
  BY <1>0 DEF Subscribe, RequestInv
<1>t. PICK t \in Topics : t = req[c].topic
  BY <1>b DEF Requests
<1>a. /\ clients' = [clients EXCEPT ![j].subs = Append(@, t)]
      /\ asked' = [asked EXCEPT ![c] = @ \cup {t}]
      /\ known' = IF HasTopic(t) THEN known \cup {t} ELSE known
      /\ \/ /\ t \in known /\ retained[t] # 0
            /\ ipc_lock' = c /\ pc' = [pc EXCEPT ![c] = "retaining"] /\ req' = req
         \/ /\ t \notin known \/ retained[t] = 0
            /\ ipc_lock' = ipc_lock /\ pc' = [pc EXCEPT ![c] = "reading"]
            /\ req' = [req EXCEPT ![c] = None]
      /\ UNCHANGED <<alive, desc, fdOf, pos, peerOpen, inbox, retained, published, seen>>
  BY <1>t DEF Subscribe
<1>j. j \in 1..Len(clients) /\ clients[j].conn = c
  BY <1>0, <1>b, OwnEntry DEF CanSubscribe
<1> DEFINE s == Append(clients[j].subs, t)
           e == [fd |-> clients[j].fd, conn |-> c, subs |-> s]
<1>s. /\ s \in Seq(Topics) /\ Len(s) = Len(clients[j].subs) + 1
      /\ \A k \in 1..Len(clients[j].subs) : s[k] = clients[j].subs[k]
      /\ s[Len(clients[j].subs) + 1] = t
  BY <1>e, <1>j, AppendProperties
<1>v. clients' = [clients EXCEPT ![j] = [clients[j] EXCEPT !.subs = s]]
  BY <1>a
<1> HIDE DEF j, s
<1>f. clients' = [clients EXCEPT ![j] = e]
  <2>1. clients[j] \in Entries
    BY <1>0, <1>j DEF TypeOK
  <2>2. [clients[j] EXCEPT !.subs = s] = e
    BY <1>j, <2>1 DEF Entries
  <2> QED BY <1>v, <2>2
<1>g. e \in Entries /\ e.fd = clients[j].fd /\ e.conn = c /\ e.subs = s
  BY <1>e, <1>j, <1>s DEF Entries
<1> HIDE DEF e
<1>h. /\ clients' \in Seq(Entries) /\ Len(clients') = Len(clients)
      /\ \A i \in 1..Len(clients) : clients'[i] = IF i = j THEN e ELSE clients[i]
  BY <1>0, <1>f, <1>g, <1>j, SMTT(30) DEF TypeOK
<1>i. \A k \in 1..Len(s) : s[k] = t \/ \E l \in 1..Len(clients[j].subs) : s[k] = clients[j].subs[l]
  <2>1. Len(clients[j].subs) \in Nat
    BY <1>e, <1>j
  <2> QED BY <1>s, <2>1
<1>k. known \subseteq known' /\ known' \subseteq Topics /\ Cardinality(known') <= MaxTopics
  BY <1>0, <1>a, KnownGrows DEF TypeOK
<1>n. \A d \in Conns : pc[d] \notin {"delivering", "retaining", "closing"}
  BY <1>0, <1>b DEF LockInv
<1>p. /\ \A d \in Conns : d # c => pc'[d] = pc[d] /\ req'[d] = req[d] /\ asked'[d] = asked[d]
      /\ asked'[c] = asked[c] \cup {t}
      /\ \/ t \in known /\ retained[t] # 0 /\ pc'[c] = "retaining" /\ req'[c] = req[c]
         \/ (t \notin known \/ retained[t] = 0) /\ pc'[c] = "reading"
  BY <1>0, <1>a DEF TypeOK
<1>1. TypeOK'
  BY <1>0, <1>a, <1>h, <1>k, ZenonT(30) DEF TypeOK
<1>2. LockInv'
  BY <1>0, SMTT(30) DEF Subscribe, LockInv, TypeOK, tables, history
<1>3. FdInv'
  BY <1>0, <1>a, <1>b, <1>n, <1>p DEF FdInv
<1>4. TableInv'
  <2>1. ASSUME NEW i \in 1..Len(clients')
        PROVE  /\ clients'[i].fd = fdOf'[clients'[i].conn]
               /\ pc'[clients'[i].conn] \in
                     {"reading", "request", "delivering", "retaining", "leaving", "closing"}
               /\ \A k \in 1..Len(clients'[i].subs) :
                     clients'[i].subs[k] \in asked'[clients'[i].conn]
    <3>1. CASE i = j
      <4>1. clients'[i] = e /\ clients[j].fd = fdOf[c]
        BY <1>0, <1>h, <1>j, <3>1 DEF TableInv
      <4>2. \A k \in 1..Len(s) : s[k] \in asked[c] \cup {t}
        BY <1>0, <1>i, <1>j DEF TableInv
      <4> QED BY <1>a, <1>g, <1>p, <4>1, <4>2
    <3>2. CASE i # j
      <4>1. i \in 1..Len(clients) /\ clients'[i] = clients[i]
        BY <1>h, <3>2
      <4>2. clients[i].conn # c
        BY <1>0, <1>j, <3>2, <4>1 DEF TableInv
      <4>3. /\ pc'[clients[i].conn] = pc[clients[i].conn]
            /\ asked'[clients[i].conn] = asked[clients[i].conn] /\ fdOf' = fdOf
        BY <1>a, <1>e, <1>p, <4>1, <4>2
      <4> QED BY <1>0, <4>1, <4>3 DEF TableInv
    <3> QED BY <3>1, <3>2
  <2>2. ASSUME NEW i \in 1..Len(clients'), NEW k \in 1..Len(clients')
        PROVE  clients'[i].fd = clients'[k].fd \/ clients'[i].conn = clients'[k].conn => i = k
    <3>1. \A l \in 1..Len(clients) : clients'[l].fd = clients[l].fd /\ clients'[l].conn = clients[l].conn
      BY <1>g, <1>h, <1>j
    <3> QED BY <1>0, <1>h, <3>1 DEF TableInv
  <2> QED BY <2>1, <2>2 DEF TableInv
<1>5. NoMisdelivery'
  BY <1>0 DEF Subscribe, NoMisdelivery, TypeOK, tables, history
<1>6. RequestInv'
  <2>1. PendingPublishes' \subseteq PendingPublishes
    BY <1>p DEF PendingPublishes
  <2>2. published' + Cardinality(PendingPublishes') <= MaxMsgs
    BY <1>0, <1>a, <2>1, PendingShrinks DEF RequestInv
  <2> QED BY <1>0, <1>a, <1>b, <1>t, <1>n, <1>p, <2>2 DEF RequestInv
<1>7. OrderInv'
  <2>1. \A u \in Topics : u \notin known' /\ HasTopic(u)' => u \notin known /\ HasTopic(u)
    BY <1>k, RoomShrinks
  <2>2. \A u \in Topics : u \in known' /\ u \notin known => HasTopic(u)
    BY <1>a
  <2>3. UNCHANGED <<retained, published, seen>>
    BY <1>a
  <2>4. \A u \in Topics, d \in Conns : seen[d][u] \in Nat /\ retained[u] \in Nat
    BY <1>0 DEF TypeOK
  <2>5. \A u \in known : u \in known'
    BY <1>k
  <2> QED BY <1>0, <2>1, <2>2, <2>3, <2>4, <2>5 DEF OrderInv
<1>8. CurrentInv'
  <2> SUFFICES ASSUME NEW i \in 1..Len(clients), NEW u \in known',
                      Subscribed(clients'[i], u), peerOpen[clients'[i].conn]
               PROVE  \/ seen[clients'[i].conn][u] >= retained[u]
                      \/ pc'[clients'[i].conn] = "retaining" /\ req'[clients'[i].conn].topic = u
    BY <1>a, <1>h DEF CurrentInv, Subscribed
  <2>0. clients'[i].conn = clients[i].conn /\ clients[i].conn \in Conns /\ u \in Topics
    BY <1>e, <1>g, <1>h, <1>j, <1>k
  <2>1. retained[u] \in Nat /\ seen[clients[i].conn][u] \in Nat
    BY <1>0, <2>0, SMTT(30) DEF TypeOK
  <2>2. CASE retained[u] = 0
    BY <2>0, <2>1, <2>2
  <2>3. CASE retained[u] # 0
    <3>1. u \in known
      BY <1>0, <2>0, <2>3 DEF OrderInv
    <3>2. CASE Subscribed(clients[i], u)
      BY <1>b, <2>0, <3>1, <3>2, CurrentAtRest
    <3>3. CASE ~Subscribed(clients[i], u)
      <4>1. i = j
        BY <1>h, <3>3
      <4>2. u = t
        <5>1. PICK k \in 1..Len(s) : s[k] = u
          BY <1>g, <1>h, <4>1 DEF Subscribed
        <5> QED BY <1>i, <3>3, <4>1, <5>1 DEF Subscribed
      <4> QED BY <1>j, <1>p, <1>t, <2>0, <2>3, <3>1, <4>1, <4>2
    <3> QED BY <3>2, <3>3
  <2> QED BY <2>2, <2>3
<1> QED BY <1>1, <1>2, <1>3, <1>4, <1>5, <1>6, <1>7, <1>8 DEF IInv

\* SendRetained: the debt of Subscribe is paid.
LEMMA SendRetainedStep ==
    ASSUME IInv, alive, NEW c \in Conns, SendRetained(c)
    PROVE  IInv'
<1> USE IPCAssumption
<1>0. /\ TypeOK /\ LockInv /\ FdInv /\ TableInv
      /\ NoMisdelivery /\ RequestInv /\ OrderInv /\ CurrentInv
  BY DEF IInv
<1>e. \A i \in 1..Len(clients) : /\ clients[i].conn \in Conns /\ clients[i].fd \in Fds
                                  /\ clients[i].subs \in Seq(Topics)
  <2>1. \A i \in 1..Len(clients) : clients[i] \in Entries
    BY <1>0 DEF TypeOK
  <2> QED BY <2>1 DEF Entries
<1>b. pc[c] = "retaining" /\ req[c] \in Requests
  BY <1>0 DEF SendRetained, RequestInv
<1>t. PICK t \in Topics : t = req[c].topic
  BY <1>b DEF Requests
<1>a. /\ Write(fdOf[c], [topic |-> t, seq |-> retained[t]])
      /\ ipc_lock' = None /\ pc' = [pc EXCEPT ![c] = "reading"] /\ req' = [req EXCEPT ![c] = None]
      /\ UNCHANGED <<desc, fdOf, pos, peerOpen, clients, known, retained, published, asked>>
  BY <1>t DEF SendRetained, tables
<1>f. fdOf[c] \in Fds /\ desc[fdOf[c]] = c
  BY <1>0, <1>b DEF FdInv
<1>g. /\ t \in asked[c] /\ t \in known
      /\ retained[t] \in 1..MaxMsgs /\ retained[t] <= published
  BY <1>0, <1>b, <1>t DEF RequestInv, OrderInv, TypeOK
<1>w. /\ alive' \in BOOLEAN
      /\ inbox' \in [Conns -> Seq(Messages)] /\ \A d \in Conns : Len(inbox'[d]) <= Buffer
      /\ seen' \in [Conns -> [Topics -> 0..MaxMsgs]]
      /\ NoMisdelivery'
      /\ OrderInv'
  <2>1. retained[t] <= retained[t]
    BY <1>g
  <2> QED BY <1>0, <1>a, <1>f, <1>g, <2>1, WriteKeeps
<1>1. TypeOK'
  BY <1>0, <1>a, <1>w DEF TypeOK
<1>2. LockInv'
  BY <1>0 DEF SendRetained, LockInv, TypeOK, tables, history
<1>3. FdInv'
  BY <1>0 DEF SendRetained, FdInv, TypeOK, tables, history
<1>4. TableInv'
  BY <1>0, SMTT(30) DEF SendRetained, TableInv, TypeOK, tables, history
<1>5. NoMisdelivery'
  BY <1>w
<1>6. RequestInv'
  BY <1>0 DEF SendRetained, LockInv, RequestInv, TypeOK, Requests, HasTopic, PendingPublishes,
     tables, history
<1>7. OrderInv'
  BY <1>w
<1>8. CurrentInv'
  <2> SUFFICES ASSUME alive', NEW i \in 1..Len(clients), NEW u \in known,
                      Subscribed(clients[i], u), peerOpen[clients[i].conn]
               PROVE  seen'[clients[i].conn][u] >= retained[u]
    BY <1>a DEF CurrentInv, Subscribed
  <2> DEFINE d == clients[i].conn
  <2>1. d \in Conns /\ u \in Topics /\ retained[u] \in Nat
    BY <1>0, <1>e, SMTT(30) DEF TypeOK
  <2>2. \A x \in Conns : pc[x] # "delivering" /\ (x # c => pc[x] # "retaining")
    BY <1>0, <1>b DEF LockInv
  <2>3. seen[d][u] >= retained[u] \/ (d = c /\ u = t)
    <3>1. \/ seen[d][u] >= retained[u]
          \/ \E x \in Conns : pc[x] = "delivering" /\ req[x].topic = u /\ pos[x] <= i
          \/ pc[d] = "retaining" /\ req[d].topic = u
      BY <1>0 DEF CurrentInv
    <3> QED BY <1>t, <2>1, <2>2, <3>1
  <2>4. \/ seen' = seen /\ ~peerOpen[c]
        \/ seen' = [seen EXCEPT ![c] = [seen[c] EXCEPT ![t] = retained[t]]]
    <3>1. c # None
      OBVIOUS
    <3> QED BY <1>a, <1>f, <3>1 DEF Write
  <2>5. CASE seen' = seen /\ ~peerOpen[c]
    BY <2>3, <2>5
  <2>6. CASE seen' = [seen EXCEPT ![c] = [seen[c] EXCEPT ![t] = retained[t]]]
    <3>1. seen'[d][u] = IF d = c /\ u = t THEN retained[t] ELSE seen[d][u]
      BY <1>0, <2>1, <2>6 DEF TypeOK
    <3> QED BY <2>1, <2>3, <3>1
  <2> QED BY <2>4, <2>5, <2>6
<1> QED BY <1>1, <1>2, <1>3, <1>4, <1>5, <1>6, <1>7, <1>8 DEF IInv

\* Unsubscribe: a shorter list owes less.
LEMMA UnsubscribeStep ==
    ASSUME IInv, alive, NEW c \in Conns, Unsubscribe(c)
    PROVE  IInv'
<1> USE IPCAssumption
<1>0. /\ TypeOK /\ LockInv /\ FdInv /\ TableInv
      /\ NoMisdelivery /\ RequestInv /\ OrderInv /\ CurrentInv
  BY DEF IInv
<1>e. \A i \in 1..Len(clients) : /\ clients[i].conn \in Conns /\ clients[i].fd \in Fds
                                  /\ clients[i].subs \in Seq(Topics)
  <2>1. \A i \in 1..Len(clients) : clients[i] \in Entries
    BY <1>0 DEF TypeOK
  <2> QED BY <2>1 DEF Entries
<1> DEFINE j == find_client(fdOf[c])
<1>b. pc[c] = "request" /\ ipc_lock = None
  BY DEF Unsubscribe
<1>a. /\ pc' = [pc EXCEPT ![c] = "reading"] /\ req' = [req EXCEPT ![c] = None]
      /\ UNCHANGED <<alive, desc, fdOf, pos, peerOpen, inbox, known, retained, published,
                     ipc_lock, asked, seen>>
  BY DEF Unsubscribe, history
<1>d. /\ clients' \in Seq(Entries) /\ Len(clients') = Len(clients)
      /\ \A i \in 1..Len(clients) :
            /\ clients'[i].fd = clients[i].fd /\ clients'[i].conn = clients[i].conn
            /\ \A k \in 1..Len(clients'[i].subs) :
                  \E l \in 1..Len(clients[i].subs) : clients'[i].subs[k] = clients[i].subs[l]
  <2>1. CASE EntriesOf(fdOf[c]) = {}
    <3>1. clients' = clients
      BY <2>1 DEF Unsubscribe
    <3> QED BY <1>0, <3>1 DEF TypeOK
  <2>2. CASE EntriesOf(fdOf[c]) # {}
    <3> DEFINE s == RemoveFirst(clients[j].subs, req[c].topic)
               e == [fd |-> clients[j].fd, conn |-> clients[j].conn, subs |-> s]
    <3>1. j \in 1..Len(clients)
      BY <1>0, <1>b, <2>2, OwnEntry
    <3>2. /\ s \in Seq(Topics)
          /\ \A k \in 1..Len(s) : \E l \in 1..Len(clients[j].subs) : s[k] = clients[j].subs[l]
      BY <1>e, <3>1, RemoveFirstShrinks
    <3>3. clients' = [clients EXCEPT ![j] = [clients[j] EXCEPT !.subs = s]]
      BY <2>2 DEF Unsubscribe, find_client
    <3> HIDE DEF j, s
    <3>4. clients[j] \in Entries
      BY <1>0, <3>1 DEF TypeOK
    <3>5. [clients[j] EXCEPT !.subs = s] = e
      BY <3>4 DEF Entries
    <3>6. e \in Entries /\ e.fd = clients[j].fd /\ e.conn = clients[j].conn /\ e.subs = s
      BY <1>e, <3>1, <3>2 DEF Entries
    <3>8. clients' = [clients EXCEPT ![j] = e]
      BY <3>3, <3>5
    <3> HIDE DEF e
    <3>7. /\ clients' \in Seq(Entries) /\ Len(clients') = Len(clients)
          /\ \A i \in 1..Len(clients) : clients'[i] = IF i = j THEN e ELSE clients[i]
      BY <1>0, <3>1, <3>6, <3>8 DEF TypeOK
    <3>9. ASSUME NEW i \in 1..Len(clients)
          PROVE  /\ clients'[i].fd = clients[i].fd /\ clients'[i].conn = clients[i].conn
                 /\ \A k \in 1..Len(clients'[i].subs) :
                       \E l \in 1..Len(clients[i].subs) : clients'[i].subs[k] = clients[i].subs[l]
      <4>1. CASE i = j
        <5>1. clients'[i] = e /\ clients[i] = clients[j]
          BY <3>7, <4>1
        <5>2. /\ clients'[i].fd = clients[i].fd /\ clients'[i].conn = clients[i].conn
              /\ clients'[i].subs = s
          BY <3>6, <5>1
        <5>3. \A k \in 1..Len(s) : \E l \in 1..Len(clients[i].subs) : s[k] = clients[i].subs[l]
          BY <3>2, <5>1
        <5> QED BY <5>2, <5>3, Zenon
      <4>2. CASE i # j
        BY <3>7, <4>2
      <4> QED BY <4>1, <4>2
    <3> QED BY <3>7, <3>9
  <2> QED BY <2>1, <2>2
<1>p. /\ pc'[c] = "reading"
      /\ \A d \in Conns : d # c => pc'[d] = pc[d] /\ req'[d] = req[d]
  BY <1>0, <1>a DEF TypeOK
<1>1. TypeOK'
  BY <1>0, <1>a, <1>d DEF TypeOK
<1>2. LockInv'
  BY <1>0 DEF Unsubscribe, LockInv, TypeOK, tables, history
<1>3. FdInv'
  BY <1>0, <1>a, <1>b, <1>d, <1>p DEF FdInv
<1>4. TableInv'
  <2>1. ASSUME NEW i \in 1..Len(clients')
        PROVE  /\ clients'[i].fd = fdOf'[clients'[i].conn]
               /\ pc'[clients'[i].conn] \in
                     {"reading", "request", "delivering", "retaining", "leaving", "closing"}
               /\ \A k \in 1..Len(clients'[i].subs) :
                     clients'[i].subs[k] \in asked'[clients'[i].conn]
    <3>1. i \in 1..Len(clients)
      BY <1>d
    <3>2. /\ clients'[i].fd = clients[i].fd /\ clients'[i].conn = clients[i].conn
          /\ \A k \in 1..Len(clients'[i].subs) :
                \E l \in 1..Len(clients[i].subs) : clients'[i].subs[k] = clients[i].subs[l]
      BY <1>d, <3>1
    <3>3. \A k \in 1..Len(clients'[i].subs) : clients'[i].subs[k] \in asked[clients[i].conn]
      BY <1>0, <3>1, <3>2 DEF TableInv
    <3> QED BY <1>0, <1>a, <1>e, <1>p, <3>1, <3>2, <3>3 DEF TableInv
  <2> QED BY <1>0, <1>d, <2>1 DEF TableInv
<1>5. NoMisdelivery'
  BY <1>0 DEF Unsubscribe, NoMisdelivery, TypeOK, tables, history
<1>6. RequestInv'
  BY <1>0 DEF Unsubscribe, LockInv, RequestInv, TypeOK, Requests, HasTopic, PendingPublishes,
     tables, history
<1>7. OrderInv'
  BY <1>0 DEF Unsubscribe, OrderInv, RequestInv, TypeOK, HasTopic, tables, history
<1>8. CurrentInv'
  <2> SUFFICES ASSUME NEW i \in 1..Len(clients), NEW u \in known,
                      Subscribed(clients'[i], u), peerOpen[clients'[i].conn]
               PROVE  seen[clients'[i].conn][u] >= retained[u]
    BY <1>a, <1>d DEF CurrentInv, Subscribed
  <2>1. clients'[i].conn = clients[i].conn /\ Subscribed(clients[i], u)
    <3>1. PICK k \in 1..Len(clients'[i].subs) : clients'[i].subs[k] = u
      BY DEF Subscribed
    <3>2. PICK l \in 1..Len(clients[i].subs) : clients'[i].subs[k] = clients[i].subs[l]
      BY <1>d
    <3> QED BY <1>d, <3>1, <3>2 DEF Subscribed
  <2> QED BY <1>b, <2>1, CurrentAtRest
<1> QED BY <1>1, <1>2, <1>3, <1>4, <1>5, <1>6, <1>7, <1>8 DEF IInv

\* RemoveUnlisted: a thread without an entry ends.
LEMMA RemoveUnlistedStep ==
    ASSUME IInv, alive, NEW c \in Conns, RemoveUnlisted(c)
    PROVE  IInv'
<1> USE IPCAssumption
<1>0. /\ TypeOK /\ LockInv /\ FdInv /\ TableInv
      /\ NoMisdelivery /\ RequestInv /\ OrderInv /\ CurrentInv
  BY DEF IInv
<1>e. \A i \in 1..Len(clients) : /\ clients[i].conn \in Conns /\ clients[i].fd \in Fds
                                  /\ clients[i].subs \in Seq(Topics)
  <2>1. \A i \in 1..Len(clients) : clients[i] \in Entries
    BY <1>0 DEF TypeOK
  <2> QED BY <2>1 DEF Entries
<1>1. TypeOK'
  BY <1>0 DEF RemoveUnlisted, TypeOK, Requests, Entries, Messages, tables, history
<1>2. LockInv'
  BY <1>0 DEF RemoveUnlisted, LockInv, TypeOK, tables, history
<1>3. FdInv'
  BY <1>0 DEF RemoveUnlisted, FdInv, TypeOK, tables, history
<1>4. TableInv'
  <2>1. \A i \in 1..Len(clients) : clients[i].conn # c
    BY <1>0 DEF RemoveUnlisted, EntriesOf, TableInv
  <2> QED BY <1>0, <1>e, <2>1 DEF RemoveUnlisted, TypeOK, TableInv, tables, history
<1>5. NoMisdelivery'
  BY <1>0 DEF RemoveUnlisted, NoMisdelivery, TypeOK, tables, history
<1>6. RequestInv'
  BY <1>0 DEF RemoveUnlisted, LockInv, RequestInv, TypeOK, Requests, HasTopic, PendingPublishes,
     tables, history
<1>7. OrderInv'
  BY <1>0 DEF RemoveUnlisted, OrderInv, RequestInv, TypeOK, HasTopic, tables, history
<1>8. CurrentInv'
  <2>1. /\ UNCHANGED <<alive, clients, known, retained, seen>>
        /\ \A i \in 1..Len(clients) : peerOpen'[clients[i].conn] => peerOpen[clients[i].conn]
    BY <1>0, <1>e DEF RemoveUnlisted, TypeOK, tables, history
  <2>2. \A d \in Conns : pc[d] \in {"delivering", "retaining"} =>
                             pc'[d] = pc[d] /\ req'[d] = req[d] /\ pos'[d] = pos[d]
    BY <1>0 DEF RemoveUnlisted, TypeOK, tables, history
  <2> QED BY <1>0, <2>1, <2>2, CurrentFrame
<1> QED BY <1>1, <1>2, <1>3, <1>4, <1>5, <1>6, <1>7, <1>8 DEF IInv

\* RemoveClose: the entry found is the thread's own.
LEMMA RemoveCloseStep ==
    ASSUME IInv, alive, NEW c \in Conns, RemoveClose(c)
    PROVE  IInv'
<1> USE IPCAssumption
<1>0. /\ TypeOK /\ LockInv /\ FdInv /\ TableInv
      /\ NoMisdelivery /\ RequestInv /\ OrderInv /\ CurrentInv
  BY DEF IInv
<1>e. \A i \in 1..Len(clients) : /\ clients[i].conn \in Conns /\ clients[i].fd \in Fds
                                  /\ clients[i].subs \in Seq(Topics)
  <2>1. \A i \in 1..Len(clients) : clients[i] \in Entries
    BY <1>0 DEF TypeOK
  <2> QED BY <2>1 DEF Entries
<1>1. TypeOK'
  BY <1>0 DEF RemoveClose, TypeOK, Requests, Entries, Messages, tables, history
<1>2. LockInv'
  BY <1>0 DEF RemoveClose, LockInv, TypeOK, tables, history
<1>3. FdInv'
  <2>1. pc[c] = "leaving" /\ ipc_lock = None /\ EntriesOf(fdOf[c]) # {}
    BY DEF RemoveClose
  <2>2. \E i \in 1..Len(clients) : clients[i].conn = c
    BY <1>0, <2>1, OwnEntry
  <2>3. /\ desc' = [desc EXCEPT ![fdOf[c]] = None] /\ pc' = [pc EXCEPT ![c] = "closing"]
        /\ UNCHANGED <<fdOf, clients>>
    BY DEF RemoveClose, tables
  <2> QED BY <1>0, <2>1, <2>2, <2>3 DEF TypeOK, FdInv
<1>4. TableInv'
  BY <1>0 DEF RemoveClose, TableInv, TypeOK, tables, history
<1>5. NoMisdelivery'
  BY <1>0 DEF RemoveClose, NoMisdelivery, TypeOK, tables, history
<1>6. RequestInv'
  BY <1>0 DEF RemoveClose, LockInv, RequestInv, TypeOK, Requests, HasTopic, PendingPublishes,
     tables, history
<1>7. OrderInv'
  BY <1>0 DEF RemoveClose, OrderInv, RequestInv, TypeOK, HasTopic, tables, history
<1>8. CurrentInv'
  <2>1. /\ UNCHANGED <<alive, clients, known, retained, seen>>
        /\ \A i \in 1..Len(clients) : peerOpen'[clients[i].conn] => peerOpen[clients[i].conn]
    BY <1>0, <1>e DEF RemoveClose, TypeOK, tables, history
  <2>2. \A d \in Conns : pc[d] \in {"delivering", "retaining"} =>
                             pc'[d] = pc[d] /\ req'[d] = req[d] /\ pos'[d] = pos[d]
    BY <1>0 DEF RemoveClose, TypeOK, tables, history
  <2> QED BY <1>0, <2>1, <2>2, CurrentFrame
<1> QED BY <1>1, <1>2, <1>3, <1>4, <1>5, <1>6, <1>7, <1>8 DEF IInv

\* RemoveShift: the other entries move down unchanged.
LEMMA RemoveShiftStep ==
    ASSUME IInv, alive, NEW c \in Conns, RemoveShift(c)
    PROVE  IInv'
<1> USE IPCAssumption
<1>0. /\ TypeOK /\ LockInv /\ FdInv /\ TableInv
      /\ NoMisdelivery /\ RequestInv /\ OrderInv /\ CurrentInv
  BY DEF IInv
<1>e. \A i \in 1..Len(clients) : /\ clients[i].conn \in Conns /\ clients[i].fd \in Fds
                                  /\ clients[i].subs \in Seq(Topics)
  <2>1. \A i \in 1..Len(clients) : clients[i] \in Entries
    BY <1>0 DEF TypeOK
  <2> QED BY <2>1 DEF Entries
<1> DEFINE j == find_client(fdOf[c])
<1>a. /\ pc[c] = "closing" /\ pc' = [pc EXCEPT ![c] = "done"] /\ ipc_lock' = None
      /\ clients' = RemoveAt(clients, j)
      /\ UNCHANGED <<alive, desc, fdOf, req, pos, peerOpen, inbox, known, retained, published,
                     asked, seen>>
  BY DEF RemoveShift, history
<1>j. j \in 1..Len(clients) /\ clients[j].conn = c
  <2>1. PICK i \in 1..Len(clients) : clients[i].conn = c
    BY <1>0, <1>a DEF FdInv
  <2>2. clients[i].fd = fdOf[c]
    BY <1>0, <2>1 DEF TableInv
  <2>3. EntriesOf(fdOf[c]) = {i}
    BY <1>0, <2>1, <2>2 DEF EntriesOf, TableInv
  <2>4. j = i
    BY <2>1, <2>3 DEF find_client, Lowest
  <2> QED BY <2>1, <2>4
<1> HIDE DEF j
<1>b. /\ clients' \in Seq(Entries) /\ Len(clients') = Len(clients) - 1
      /\ \A i \in 1..(Len(clients) - 1) : clients'[i] = clients[IF i < j THEN i ELSE i + 1]
  <2>1. clients \in Seq(Entries)
    BY <1>0 DEF TypeOK
  <2> QED BY <1>a, <1>j, <2>1, RemoveAtProperties
<1> DEFINE old(i) == IF i < j THEN i ELSE i + 1
<1>c. \A i \in 1..Len(clients') : /\ old(i) \in 1..Len(clients) /\ old(i) # j
                                  /\ clients'[i] = clients[old(i)]
  <2>1. Len(clients) \in Nat
    BY <1>0 DEF TypeOK
  <2> QED BY <1>b, <1>j, <2>1
<1>d. \A i, k \in 1..Len(clients') : old(i) = old(k) => i = k
  BY <1>j
<1>p. \A d \in Conns : d # c => pc'[d] = pc[d]
  BY <1>0, <1>a DEF TypeOK
<1>q. \A i \in 1..Len(clients) : i # j => clients[i].conn # c
  BY <1>0, <1>j DEF TableInv
<1>l. \A d \in Conns : d # c => pc[d] \notin {"delivering", "retaining", "closing"}
  BY <1>0, <1>a DEF LockInv
<1>m. pc'[c] = "done"
  BY <1>0, <1>a DEF TypeOK
<1>1. TypeOK'
  <2>1. Len(clients') <= MaxClients
    BY <1>0, <1>b DEF TypeOK
  <2> QED BY <1>0, <1>a, <1>b, <2>1 DEF TypeOK
<1>2. LockInv'
  BY <1>0 DEF RemoveShift, LockInv, TypeOK, tables, history
<1>3. FdInv'
  BY <1>0, <1>a, <1>l, <1>m, <1>p DEF FdInv
<1>4. TableInv'
  <2>1. ASSUME NEW i \in 1..Len(clients')
        PROVE  /\ clients'[i].fd = fdOf'[clients'[i].conn]
               /\ pc'[clients'[i].conn] \in
                     {"reading", "request", "delivering", "retaining", "leaving", "closing"}
               /\ \A k \in 1..Len(clients'[i].subs) :
                     clients'[i].subs[k] \in asked'[clients'[i].conn]
    <3> DEFINE o == old(i)
    <3>1. o \in 1..Len(clients) /\ clients'[i] = clients[o] /\ clients[o].conn # c
      BY <1>c, <1>q
    <3> HIDE DEF o
    <3> QED BY <1>0, <1>a, <1>e, <1>p, <3>1 DEF TableInv
  <2>2. ASSUME NEW i \in 1..Len(clients'), NEW k \in 1..Len(clients'),
               clients'[i].fd = clients'[k].fd \/ clients'[i].conn = clients'[k].conn
        PROVE  i = k
    <3>1. old(i) = old(k)
      BY <1>0, <1>c, <2>2, SMTT(30) DEF TableInv
    <3> QED BY <1>d, <3>1
  <2> QED BY <2>1, <2>2 DEF TableInv
<1>5. NoMisdelivery'
  BY <1>0 DEF RemoveShift, NoMisdelivery, TypeOK, tables, history
<1>6. RequestInv'
  BY <1>0 DEF RemoveShift, LockInv, RequestInv, TypeOK, Requests, HasTopic, PendingPublishes,
     tables, history
<1>7. OrderInv'
  BY <1>0 DEF RemoveShift, OrderInv, RequestInv, TypeOK, HasTopic, tables, history
<1>8. CurrentInv'
  <2> SUFFICES ASSUME NEW i \in 1..Len(clients'), NEW u \in known,
                      Subscribed(clients'[i], u), peerOpen[clients'[i].conn]
               PROVE  seen[clients'[i].conn][u] >= retained[u]
    BY <1>a DEF CurrentInv, Subscribed
  <2> DEFINE o == old(i)
  <2>1. o \in 1..Len(clients) /\ clients'[i] = clients[o]
    BY <1>c
  <2> HIDE DEF o
  <2>2. \A d \in Conns : pc[d] \notin {"delivering", "retaining"}
    BY <1>a, <1>l
  <2> QED BY <1>0, <1>e, <2>1, <2>2 DEF CurrentInv
<1> QED BY <1>1, <1>2, <1>3, <1>4, <1>5, <1>6, <1>7, <1>8 DEF IInv

\* PeerRead: a client takes the oldest message.
LEMMA PeerReadStep ==
    ASSUME IInv, alive, NEW c \in Conns, PeerRead(c)
    PROVE  IInv'
<1> USE IPCAssumption
<1>0. /\ TypeOK /\ LockInv /\ FdInv /\ TableInv
      /\ NoMisdelivery /\ RequestInv /\ OrderInv /\ CurrentInv
  BY DEF IInv
<1>e. \A i \in 1..Len(clients) : /\ clients[i].conn \in Conns /\ clients[i].fd \in Fds
                                  /\ clients[i].subs \in Seq(Topics)
  <2>1. \A i \in 1..Len(clients) : clients[i] \in Entries
    BY <1>0 DEF TypeOK
  <2> QED BY <2>1 DEF Entries
<1>1. TypeOK'
  <2>1. inbox[c] \in Seq(Messages) /\ inbox[c] # <<>>
    BY <1>0 DEF PeerRead, TypeOK
  <2>2. Tail(inbox[c]) \in Seq(Messages) /\ Len(Tail(inbox[c])) = Len(inbox[c]) - 1
    BY <2>1, HeadTailProperties
  <2>3. inbox' = [inbox EXCEPT ![c] = Tail(inbox[c])]
    BY DEF PeerRead
  <2>4. inbox' \in [Conns -> Seq(Messages)] /\ \A d \in Conns : Len(inbox'[d]) <= Buffer
    BY <1>0, <2>2, <2>3 DEF TypeOK
  <2> QED BY <1>0, <2>4 DEF PeerRead, TypeOK, tables, history
<1>2. LockInv'
  BY <1>0 DEF PeerRead, LockInv, TypeOK, tables, history
<1>3. FdInv'
  BY <1>0 DEF PeerRead, FdInv, TypeOK, tables, history
<1>4. TableInv'
  BY <1>0 DEF PeerRead, TableInv, TypeOK, tables, history
<1>5. NoMisdelivery'
  BY <1>0 DEF PeerRead, NoMisdelivery, TypeOK, tables, history
<1>6. RequestInv'
  BY <1>0 DEF PeerRead, LockInv, RequestInv, TypeOK, Requests, HasTopic, PendingPublishes, tables,
     history
<1>7. OrderInv'
  BY <1>0 DEF PeerRead, OrderInv, RequestInv, TypeOK, HasTopic, tables, history
<1>8. CurrentInv'
  <2>1. /\ UNCHANGED <<alive, clients, known, retained, seen>>
        /\ \A i \in 1..Len(clients) : peerOpen'[clients[i].conn] => peerOpen[clients[i].conn]
    BY <1>0, <1>e DEF PeerRead, TypeOK, tables, history
  <2>2. \A d \in Conns : pc[d] \in {"delivering", "retaining"} =>
                             pc'[d] = pc[d] /\ req'[d] = req[d] /\ pos'[d] = pos[d]
    BY <1>0 DEF PeerRead, TypeOK, tables, history
  <2> QED BY <1>0, <2>1, <2>2, CurrentFrame
<1> QED BY <1>1, <1>2, <1>3, <1>4, <1>5, <1>6, <1>7, <1>8 DEF IInv

\* PeerClose: a client that has gone is owed nothing.
LEMMA PeerCloseStep ==
    ASSUME IInv, alive, NEW c \in Conns, PeerClose(c)
    PROVE  IInv'
<1> USE IPCAssumption
<1>0. /\ TypeOK /\ LockInv /\ FdInv /\ TableInv
      /\ NoMisdelivery /\ RequestInv /\ OrderInv /\ CurrentInv
  BY DEF IInv
<1>e. \A i \in 1..Len(clients) : /\ clients[i].conn \in Conns /\ clients[i].fd \in Fds
                                  /\ clients[i].subs \in Seq(Topics)
  <2>1. \A i \in 1..Len(clients) : clients[i] \in Entries
    BY <1>0 DEF TypeOK
  <2> QED BY <2>1 DEF Entries
<1>1. TypeOK'
  <2>1. inbox' = [inbox EXCEPT ![c] = <<>>]
    BY DEF PeerClose
  <2>2. inbox' \in [Conns -> Seq(Messages)] /\ \A d \in Conns : Len(inbox'[d]) <= Buffer
    BY <1>0, <2>1 DEF TypeOK
  <2> QED BY <1>0, <2>2 DEF PeerClose, TypeOK, tables, history
<1>2. LockInv'
  BY <1>0 DEF PeerClose, LockInv, TypeOK, tables, history
<1>3. FdInv'
  BY <1>0 DEF PeerClose, FdInv, TypeOK, tables, history
<1>4. TableInv'
  BY <1>0 DEF PeerClose, TableInv, TypeOK, tables, history
<1>5. NoMisdelivery'
  BY <1>0 DEF PeerClose, NoMisdelivery, TypeOK, tables, history
<1>6. RequestInv'
  BY <1>0 DEF PeerClose, LockInv, RequestInv, TypeOK, Requests, HasTopic, PendingPublishes, tables,
     history
<1>7. OrderInv'
  BY <1>0 DEF PeerClose, OrderInv, RequestInv, TypeOK, HasTopic, tables, history
<1>8. CurrentInv'
  <2>1. /\ UNCHANGED <<alive, clients, known, retained, seen>>
        /\ \A i \in 1..Len(clients) : peerOpen'[clients[i].conn] => peerOpen[clients[i].conn]
    BY <1>0, <1>e DEF PeerClose, TypeOK, tables, history
  <2>2. \A d \in Conns : pc[d] \in {"delivering", "retaining"} =>
                             pc'[d] = pc[d] /\ req'[d] = req[d] /\ pos'[d] = pos[d]
    BY <1>0 DEF PeerClose, TypeOK, tables, history
  <2> QED BY <1>0, <2>1, <2>2, CurrentFrame
<1> QED BY <1>1, <1>2, <1>3, <1>4, <1>5, <1>6, <1>7, <1>8 DEF IInv

-----------------------------------------------------------------------------
(* The theorems *)

\* The invariant holds when the broker starts.
LEMMA InitInvariant == Init => IInv
<1> SUFFICES ASSUME Init
             PROVE  IInv
  OBVIOUS
<1> USE IPCAssumption
<1>1. TypeOK
  BY FS_EmptySet DEF Init, TypeOK
<1>2. LockInv /\ FdInv /\ TableInv /\ NoMisdelivery /\ CurrentInv
  BY DEF Init, LockInv, FdInv, TableInv, NoMisdelivery, CurrentInv
<1>3. RequestInv
  <2>1. PendingPublishes = {}
    BY DEF Init, PendingPublishes
  <2> QED BY <2>1, FS_EmptySet DEF Init, RequestInv
<1>4. OrderInv
  BY DEF Init, OrderInv
<1> QED BY <1>1, <1>2, <1>3, <1>4 DEF IInv

\* Every step preserves the invariant.
LEMMA StepInvariant == IInv /\ [Next]_vars => IInv'
<1> SUFFICES ASSUME IInv, [Next]_vars
             PROVE  IInv'
  OBVIOUS
<1>1. CASE UNCHANGED vars
  BY <1>1 DEF IInv, vars, TypeOK, LockInv, FdInv, TableInv, NoMisdelivery, RequestInv, OrderInv,
              CurrentInv, HasTopic, PendingPublishes, Subscribed
<1>2. CASE Next
  <2>1. alive
    BY <1>2 DEF Next
  <2>2. PICK c \in Conns : \/ Accept(c) \/ Thread(c) \/ PeerRead(c) \/ PeerClose(c)
                           \/ \E op \in Ops, t \in Topics : Read(c, op, t)
    BY <1>2 DEF Next
  <2>Accept. CASE Accept(c)
    BY <2>1, <2>Accept, AcceptStep
  <2>PeerRead. CASE PeerRead(c)
    BY <2>1, <2>PeerRead, PeerReadStep
  <2>PeerClose. CASE PeerClose(c)
    BY <2>1, <2>PeerClose, PeerCloseStep
  <2>3. CASE Thread(c)
    BY <2>3, <2>1, RegisterStep, DropStep, ReadEOFStep, PublishStartStep, DeliverStep,
       PublishEndStep, SubscribeIgnoredStep, SubscribeStep, SendRetainedStep, UnsubscribeStep,
       RemoveUnlistedStep, RemoveCloseStep, RemoveShiftStep DEF Thread
  <2>r. CASE \E op \in Ops, t \in Topics : Read(c, op, t)
    BY <2>1, <2>r, ReadStep
  <2> QED BY <2>2, <2>3, <2>Accept, <2>PeerRead, <2>PeerClose, <2>r
<1> QED BY <1>1, <1>2

\* The inductive invariant holds in every behaviour of the broker.
THEOREM Invariant == Spec => []IInv
<1>1. Init => IInv
  BY InitInvariant
<1>2. IInv /\ [Next]_vars => IInv'
  BY StepInvariant
<1> QED BY <1>1, <1>2, PTL DEF Spec

\* The tables of the broker stay within IPC_MAX_CLIENTS and IPC_MAX_TOPICS, and
\* its state well formed.
THEOREM TypeCorrect == Spec => []TypeOK
<1>1. IInv => TypeOK
  BY DEF IInv
<1> QED BY <1>1, Invariant, PTL

\* The client table always matches the descriptor table, however the kernel
\* reuses the numbers remove_client gives back.
THEOREM TableMatches == Spec => []TableMatchesDescriptors
<1>1. IInv => TableMatchesDescriptors
  <2> SUFFICES ASSUME IInv, NEW i \in 1..Len(clients)
               PROVE  /\ EntriesOf(clients[i].fd) = {i}
                      /\ pc[clients[i].conn] = "closing" \/ desc[clients[i].fd] = clients[i].conn
    BY DEF TableMatchesDescriptors
  <2>1. clients[i].conn \in Conns
    <3>1. clients[i] \in Entries
      BY DEF IInv, TypeOK
    <3> QED BY <3>1 DEF Entries
  <2>2. EntriesOf(clients[i].fd) = {i}
    BY DEF IInv, TableInv, EntriesOf
  <2> QED BY <2>1, <2>2 DEF IInv, TableInv, FdInv
<1> QED BY <1>1, Invariant, PTL

\* No client is sent a message on a topic it did not subscribe to.
THEOREM Delivery == Spec => []NoMisdelivery
<1>1. IInv => NoMisdelivery
  BY DEF IInv
<1> QED BY <1>1, Invariant, PTL

\* A subscriber misses no retained message between subscribe and publish.
THEOREM Currency == Spec => []SubscribersCurrent
<1>1. IInv => SubscribersCurrent
  BY CurrentAtRest DEF SubscribersCurrent
<1> QED BY <1>1, Invariant, PTL

\* Every step sends a connection nothing older than what it was sent before.
THEOREM Order == Spec => OrderedDelivery
<1> DEFINE Newer == \A c \in Conns, t \in Topics : seen'[c][t] >= seen[c][t]
<1>1. IInv /\ IInv' /\ [Next]_vars => [Newer]_vars
  <2> SUFFICES ASSUME IInv, IInv', Next
               PROVE  Newer
    OBVIOUS
  <2>0. TypeOK /\ OrderInv /\ RequestInv /\ FdInv /\ LockInv /\ TableInv
    BY DEF IInv
  <2>1. CASE UNCHANGED seen
    BY <2>0, <2>1 DEF TypeOK
  <2>2. ASSUME NEW d \in Conns, NEW t \in Topics, NEW n \in Nat,
               seen' = [seen EXCEPT ![d] = [seen[d] EXCEPT ![t] = n]], seen[d][t] <= n
        PROVE  Newer
    <3>1. \A c \in Conns, u \in Topics :
             seen[c][u] \in Nat /\ seen'[c][u] = IF c = d /\ u = t THEN n ELSE seen[c][u]
      BY <2>0, <2>2, SMTT(30) DEF TypeOK
    <3> QED BY <2>2, <3>1
  <2>3. ASSUME NEW c \in Conns, Deliver(c)
        PROVE  Newer
    <3> DEFINE e == clients[pos[c]]
               m == [topic |-> req[c].topic, seq |-> req[c].seq]
    <3>1. req[c].topic \in Topics /\ req[c].seq = published /\ published \in Nat
      BY <2>0, <2>3, IPCAssumption DEF Deliver, RequestInv, Requests, TypeOK
    <3>2. Write(e.fd, m) \/ UNCHANGED seen
      BY <2>3 DEF Deliver
    <3>3. pos[c] \in 1..Len(clients)
      BY <2>0, <2>3 DEF Deliver, TypeOK
    <3>4. e.fd \in Fds
      <4>1. clients[pos[c]] \in Entries
        BY <2>0, <3>3 DEF TypeOK
      <4> QED BY <4>1 DEF Entries
    <3>5. desc[e.fd] \in Conns \cup {None}
      BY <2>0, <3>4 DEF TypeOK
    <3> HIDE DEF e
    <3>6. UNCHANGED seen \/ /\ desc[e.fd] \in Conns
                            /\ seen' = [seen EXCEPT ![desc[e.fd]] =
                                          [seen[desc[e.fd]] EXCEPT ![req[c].topic] = req[c].seq]]
      BY <3>2, <3>5 DEF Write
    <3> QED BY <2>0, <2>1, <2>2, <3>1, <3>6 DEF OrderInv
  <2>4. ASSUME NEW c \in Conns, SendRetained(c)
        PROVE  Newer
    <3> DEFINE t == req[c].topic
    <3>1. t \in Topics /\ t \in known /\ retained[t] \in Nat
      BY <2>0, <2>4, IPCAssumption DEF SendRetained, RequestInv, Requests, TypeOK, OrderInv
    <3>2. fdOf[c] \in Fds /\ desc[fdOf[c]] = c /\ c # None
      BY <2>0, <2>4, IPCAssumption DEF SendRetained, FdInv
    <3>3. UNCHANGED seen \/ seen' = [seen EXCEPT ![c] = [seen[c] EXCEPT ![t] = retained[t]]]
      BY <2>4, <3>2 DEF SendRetained, Write
    <3> QED BY <2>0, <2>1, <2>2, <3>1, <3>3 DEF OrderInv
  <2>5. ASSUME NEW c \in Conns,
               \/ Accept(c) \/ PeerRead(c) \/ PeerClose(c) \/ Register(c) \/ Drop(c) \/ ReadEOF(c)
               \/ PublishStart(c) \/ PublishEnd(c) \/ SubscribeIgnored(c) \/ Subscribe(c)
               \/ Unsubscribe(c) \/ RemoveUnlisted(c) \/ RemoveClose(c) \/ RemoveShift(c)
               \/ \E op \in Ops, t \in Topics : Read(c, op, t)
        PROVE  UNCHANGED seen
    BY <2>5 DEF Accept, PeerRead, PeerClose, Register, Drop, ReadEOF, PublishStart, PublishEnd,
                SubscribeIgnored, Subscribe, Unsubscribe, RemoveUnlisted, RemoveClose,
                RemoveShift, Read, history
  <2> QED BY <2>1, <2>3, <2>4, <2>5 DEF Next, Thread
<1> QED BY <1>1, Invariant, PTL DEF Spec, OrderedDelivery

==============================================================================
