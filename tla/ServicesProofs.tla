---------------------------- MODULE ServicesProofs ----------------------------
(***************************************************************************)
(* Proofs about the daemons that answer from tables of their own, for any  *)
(* clients, any sizes of the tables and any permissions and keys.          *)
(***************************************************************************)
EXTENDS JuliusServices, SequenceTheorems, FiniteSetTheorems, TLAPS

-----------------------------------------------------------------------------
(* The inductive invariants, one for each daemon *)

\* The array holds the latest of what was sent, entry by entry.
LatestInv ==
    /\ notif_count = IF Len(sent) > MaxNotifs THEN MaxNotifs ELSE Len(sent)
    /\ \A i \in 1..notif_count : notifs[i] = sent[Len(sent) - notif_count + i]

\* From the moment its notification is entered a thread's pointer points at it.
OwnInv == \A c \in Clients :
    /\ pc[c] = "reply" => slot[c] # 0
    /\ slot[c] # 0 /\ ~reused => slot[c] <= notif_count /\ notifs[slot[c]] = mine[c]

\* A thread has changed the list and not opened the file yet.
Pending == \E c \in Clients : pc[c] \in {"sent", "cleared"}

\* A file that nobody else had open is empty while it is written, and then it is what
\* is printed of the list, except of changes that are still to be written.
FileInv == ~doubtful =>
    /\ ~Writing(Shell)
    /\ \A v, w \in Clients : Writing(v) /\ Writing(w) => v = w
    /\ (\E w \in Clients : Writing(w)) => file = <<>>
    /\ ~Pending => /\ \A w \in Clients : pc[w] = "printed" => buf[w] = Printed(List)
                   /\ (\A w \in Clients : ~Writing(w)) => file \in {None, Printed(List)}

PushInv == TypeOK /\ LatestInv /\ OwnInv /\ FileInv

Entries == [perm : Perms, status : {"granted", "denied"}]

\* Only a full table loses a permission, and what it lost is not in it.
PermsInv ==
    /\ perms \in Seq(Entries) /\ Len(perms) <= MaxPerms
    /\ granted \subseteq Perms /\ lost \subseteq Perms
    /\ \A p \in lost : Permissions!Matches(p) = {}
    /\ lost # {} => Len(perms) = MaxPerms
    /\ Permissions!Honest

KeyRecords == [id : Nat, key : Nat]

EnclaveType ==
    /\ keys \in [1..MaxKeys -> KeyRecords] /\ key_count \in 0..MaxKeys
    /\ enclave_lock \subseteq Users
    /\ enclave_pc \in [Users -> {"idle", "key", "id", "count", "answer"}]
    /\ made \in Nat /\ id_out \in [Users -> Nat]

\* One thread at a time makes a key, and there is room for it.
EnclaveLock ==
    /\ \A u \in Users : u \in enclave_lock <=> enclave_pc[u] \in {"key", "id", "count"}
    /\ \A u, v \in enclave_lock : u = v
    /\ enclave_lock # {} => key_count < MaxKeys

\* An entry is complete when it counts, and an id is in the table when it is answered.
EnclaveKeys ==
    /\ \A i \in 1..key_count : keys[i].id = keys[i].key
    /\ \A u \in Users : enclave_pc[u] = "count" =>
          keys[key_count + 1].id = id_out[u] /\ keys[key_count + 1].key = id_out[u]
    /\ \A u \in Users : enclave_pc[u] = "answer" /\ id_out[u] # 0 => Enclave!Found(id_out[u]) # {}
    /\ \A id \in known : Enclave!Found(id) # {}
    /\ \A t \in texts : t.key = t.id /\ Enclave!Found(t.id) # {}

EnclaveInv == EnclaveType /\ EnclaveLock /\ EnclaveKeys

-----------------------------------------------------------------------------
(* The push service *)

\* A writer is a client or the shell, which is no client; a thread's id fits.
LEMMA PushFacts ==
    /\ Shell \in Writers /\ Clients \subseteq Writers /\ Shell \notin Clients
    /\ 1 \in Slots /\ 1 \in Ids /\ Ids \subseteq Nat /\ Slots \subseteq Nat
  BY PushAssumption DEF Writers, Ids, Slots

\* Len(sent) is a number and the list has its first notif_count entries.
LEMMA ListEntries ==
    ASSUME TypeOK, LatestInv
    PROVE  /\ List \in Seq(Ids) /\ Len(List) = notif_count
           /\ \A i \in 1..notif_count : List[i] = notifs[i]
  <1>1. \A i \in 1..notif_count : notifs[i] \in Ids
    <2>1. sent \in Seq(Ids) /\ notif_count \in 0..MaxNotifs
      BY DEF TypeOK
    <2>2. \A i \in 1..notif_count : Len(sent) - notif_count + i \in 1..Len(sent)
      BY <2>1, PushAssumption DEF LatestInv
    <2>3. \A j \in 1..Len(sent) : sent[j] \in Ids
      BY <2>1, ElementOfSeq
    <2> QED BY <2>2, <2>3 DEF LatestInv
  <1>2. /\ SubSeq(notifs, 1, notif_count) \in Seq(Ids)
        /\ Len(SubSeq(notifs, 1, notif_count)) = IF 1 <= notif_count THEN notif_count - 1 + 1 ELSE 0
        /\ \A i \in 1..(notif_count - 1 + 1) : SubSeq(notifs, 1, notif_count)[i] = notifs[1 + i - 1]
    BY <1>1, SubSeqProperties DEF TypeOK
  <1> QED BY <1>2 DEF List, TypeOK

\* The list the service writes is one a file may hold.
LEMMA ListType ==
    ASSUME TypeOK, LatestInv
    PROVE  List \in Lists
  BY ListEntries, SeqMonotonic DEF Lists

\* The service starts with its one notification.
LEMMA InitPush == AllInit => PushInv
  <1> SUFFICES ASSUME AllInit PROVE PushInv
    OBVIOUS
  <1>i. Init
    BY DEF AllInit
  <1>1. sent \in Seq(Ids) /\ Len(sent) = 1 /\ sent[1] = 1
    BY <1>i, PushFacts DEF Init
  <1>2. <<1>> \in Lists /\ <<>> \in Lists
    BY PushFacts DEF Lists
  <1>3. TypeOK
    <2>1. notifs \in [Slots -> 0..MaxId]
      BY <1>i, PushAssumption DEF Init
    <2>2. notif_count \in 0..MaxNotifs /\ next_id \in 1..(MaxId + 1) /\ 0 \in 0..MaxNotifs /\ 0 \in 0..MaxId
      BY <1>i, PushAssumption DEF Init
    <2>3. buf = [w \in Writers |-> <<>>] /\ file \in {<<1>>, None} /\ shown = None /\ read = {}
      BY <1>i DEF Init
    <2> QED BY <2>1, <2>2, <2>3, <1>i, <1>1, <1>2 DEF Init, TypeOK
  <1>4. LatestInv
    BY <1>i, <1>1, PushAssumption DEF Init, LatestInv, Slots
  <1>5. OwnInv
    BY <1>i, PushFacts DEF Init, OwnInv
  <1>6. List = <<1>>
    BY <1>3, <1>4, <1>i, <1>1, ListEntries, PushFacts DEF Init
  <1>7. FileInv
    <2>1. Printed(<<1>>) = <<1>>
      <3>1. Range(<<1>>) = {1} /\ 1 \notin Quoted
        BY PushAssumption DEF Range
      <3> QED BY <3>1 DEF Printed
    <2> QED BY <2>1, <1>i, <1>6, PushFacts DEF Init, FileInv, Writing, Pending
  <1> QED BY <1>3, <1>4, <1>5, <1>7 DEF PushInv

\* Sending: room is made, the entry is entered and the pointer set.
LEMMA SendStep ==
    ASSUME PushInv, NEW c \in Clients, Send(c)
    PROVE  PushInv'
  <1> DEFINE full == notif_count >= MaxNotifs
             room == IF full THEN [i \in Slots |-> notifs[IF i < MaxNotifs THEN i + 1 ELSE i]] ELSE notifs
             n == IF full THEN MaxNotifs ELSE notif_count + 1
  <1>t. TypeOK /\ LatestInv /\ OwnInv /\ FileInv
    BY DEF PushInv
  <1>0. /\ notif_count \in 0..MaxNotifs /\ MaxNotifs \in Nat \ {0} /\ next_id \in 1..MaxId
        /\ notifs \in [Slots -> 0..MaxId] /\ sent \in Seq(Ids) /\ MaxId \in Nat
    BY <1>t, PushAssumption DEF TypeOK, Send
  <1>l. Len(sent) \in Nat /\ notif_count <= Len(sent)
    BY <1>0, <1>t DEF LatestInv
  <1>1. n \in Slots /\ n \in 1..MaxNotifs
    BY <1>0 DEF Slots
  <1>2. room \in [Slots -> 0..MaxId]
    BY <1>0 DEF Slots
  <1>3. /\ notifs' = [room EXCEPT ![n] = next_id] /\ notif_count' = n
        /\ slot' = [slot EXCEPT ![c] = n] /\ reused' = (reused \/ full)
        /\ next_id' = next_id + 1 /\ mine' = [mine EXCEPT ![c] = next_id]
        /\ sent' = Append(sent, next_id) /\ pc' = [pc EXCEPT ![c] = "sent"]
        /\ UNCHANGED <<buf, file, shown, read, doubtful>>
    BY DEF Send, shell
  <1>4. /\ sent' \in Seq(Ids) /\ Len(sent') = Len(sent) + 1
        /\ \A i \in 1..Len(sent) : sent'[i] = sent[i]
        /\ sent'[Len(sent) + 1] = next_id
    BY <1>0, <1>3, AppendProperties DEF Ids
  <1>5. TypeOK'
    BY <1>t, <1>0, <1>1, <1>2, <1>3, <1>4, PushFacts DEF TypeOK
  <1>6. LatestInv'
    <2>1. notif_count' = IF Len(sent') > MaxNotifs THEN MaxNotifs ELSE Len(sent')
      BY <1>t, <1>0, <1>3, <1>4 DEF LatestInv
    <2>2. ASSUME NEW i \in 1..n PROVE notifs'[i] = sent'[Len(sent') - n + i]
      <3>1. CASE i = n
        BY <3>1, <1>0, <1>1, <1>2, <1>3, <1>4
      <3>2. CASE i # n
        <4>1. notifs'[i] = room[i] /\ i \in Slots
          BY <3>2, <1>0, <1>1, <1>2, <1>3 DEF Slots
        <4>2. CASE full
          <5>1. room[i] = notifs[i + 1] /\ i + 1 \in 1..notif_count
            BY <4>1, <4>2, <3>2, <1>0
          <5>2. notifs[i + 1] = sent[Len(sent) - notif_count + (i + 1)]
            BY <5>1, <1>t DEF LatestInv
          <5>3. Len(sent) - notif_count + (i + 1) = Len(sent') - n + i /\ Len(sent') - n + i \in 1..Len(sent)
            <6>1. n = notif_count /\ n \in Nat
              BY <4>2, <1>0
            <6>2. i \in 1..n /\ i + 1 \in 1..n
              BY <5>1, <6>1
            <6>3. Len(sent) \in Nat /\ n <= Len(sent) /\ Len(sent') = Len(sent) + 1
              BY <6>1, <1>l, <1>4
            <6> HIDE DEF n
            <6>4. Len(sent) - n + (i + 1) = Len(sent') - n + i
              BY <6>1, <6>2, <6>3
            <6>5. Len(sent) - n + (i + 1) \in 1..Len(sent)
              BY <6>1, <6>2, <6>3
            <6> QED BY <6>1, <6>4, <6>5
          <5> QED BY <4>1, <5>1, <5>2, <5>3, <1>4
        <4>3. CASE ~full
          <5>1. i \in 1..notif_count /\ room[i] = notifs[i]
            BY <4>3, <3>2, <1>0
          <5>2. Len(sent) - notif_count + i = Len(sent') - n + i /\ Len(sent') - n + i \in 1..Len(sent)
            BY <5>1, <4>3, <1>0, <1>l, <1>4
          <5> QED BY <4>1, <5>1, <5>2, <1>4, <1>t DEF LatestInv
        <4> QED BY <4>2, <4>3
      <3> QED BY <3>1, <3>2
    <2> QED BY <2>1, <2>2, <1>3 DEF LatestInv
  <1>7. OwnInv'
    <2>1. ASSUME NEW d \in Clients PROVE pc'[d] = "reply" => slot'[d] # 0
      BY <1>t, <1>3, <1>1, PushFacts DEF OwnInv, TypeOK, Slots
    <2>2. ASSUME NEW d \in Clients, slot'[d] # 0, ~reused'
          PROVE  slot'[d] <= notif_count' /\ notifs'[slot'[d]] = mine'[d]
      <3>0. /\ ~full /\ ~reused /\ slot \in [Clients -> 0..MaxNotifs]
            /\ mine \in [Clients -> 0..MaxId]
        BY <2>2, <1>3, <1>t DEF TypeOK
      <3>1. CASE d = c
        BY <3>0, <3>1, <1>0, <1>1, <1>2, <1>3
      <3>2. CASE d # c
        <4>1. slot'[d] = slot[d] /\ mine'[d] = mine[d] /\ slot[d] \in 0..MaxNotifs
          BY <3>0, <3>2, <1>3
        <4>2. slot[d] <= notif_count /\ notifs[slot[d]] = mine[d]
          BY <4>1, <2>2, <3>0, <1>t DEF OwnInv
        <4>3. notifs'[slot[d]] = notifs[slot[d]]
          BY <4>1, <4>2, <2>2, <3>0, <1>0, <1>2, <1>3 DEF Slots
        <4> QED BY <4>1, <4>2, <4>3, <3>0, <1>0, <1>3
      <3> QED BY <3>1, <3>2
    <2> QED BY <2>1, <2>2 DEF OwnInv
  <1>8. FileInv'
    <2>1. pc'[c] = "sent" /\ \A w \in Writers : w # c => pc'[w] = pc[w]
      BY <1>3, <1>t, PushFacts DEF TypeOK
    <2>2. pc[c] = "idle"
      BY DEF Send
    <2>3. \A w \in Writers : Writing(w)' <=> Writing(w)
      BY <2>1, <2>2 DEF Writing
    <2>4. Pending'
      BY <2>1 DEF Pending
    <2> QED BY <2>3, <2>4, <1>3, <1>t, PushFacts DEF FileInv
  <1> QED BY <1>5, <1>6, <1>7, <1>8 DEF PushInv

\* Clearing: no pointer points at an entry for which a later request could be answered.
LEMMA ClearStep ==
    ASSUME PushInv, NEW c \in Clients, Clear(c)
    PROVE  PushInv'
  <1>t. TypeOK /\ LatestInv /\ OwnInv /\ FileInv
    BY DEF PushInv
  <1>1. /\ notif_count' = 0 /\ sent' = <<>> /\ reused' = TRUE
        /\ slot' = [slot EXCEPT ![c] = 0] /\ pc' = [pc EXCEPT ![c] = "cleared"]
        /\ pc[c] = "idle"
        /\ UNCHANGED <<notifs, next_id, mine, buf, file, shown, read, doubtful>>
    BY DEF Clear, shell
  <1>2. TypeOK'
    <2>1. slot' \in [Clients -> 0..MaxNotifs] /\ notif_count' \in 0..MaxNotifs
      BY <1>t, <1>1, PushAssumption DEF TypeOK
    <2>2. sent' \in Seq(Ids)
      BY <1>1, EmptySeq
    <2>3. pc' \in [Writers -> {"idle", "sent", "cleared", "open", "printed", "reply"}]
      BY <1>t, <1>1 DEF TypeOK
    <2>4. reused' \in BOOLEAN /\ UNCHANGED <<notifs, next_id, mine, buf, file, shown, read, doubtful>>
      BY <1>1
    <2> QED BY <2>1, <2>2, <2>3, <2>4, <1>t DEF TypeOK
  <1>3. LatestInv'
    BY <1>1, PushAssumption DEF LatestInv
  <1>4. pc'[c] = "cleared" /\ \A w \in Writers : w # c => pc'[w] = pc[w]
    BY <1>1, <1>t, PushFacts DEF TypeOK
  <1>5. OwnInv'
    BY <1>1, <1>4, <1>t, PushFacts DEF OwnInv, TypeOK
  <1>6. \A w \in Writers : Writing(w)' <=> Writing(w)
    BY <1>1, <1>4 DEF Writing
  <1>7. Pending'
    BY <1>4 DEF Pending
  <1>8. FileInv'
    BY <1>1, <1>6, <1>7, <1>t, PushFacts DEF FileInv
  <1> QED BY <1>2, <1>3, <1>5, <1>8 DEF PushInv

\* A step that leaves the array and the history alone keeps the list.
LEMMA SameArray ==
    ASSUME LatestInv, UNCHANGED <<notifs, notif_count, sent>>
    PROVE  LatestInv' /\ List' = List
  BY DEF LatestInv, List

\* Opening the file: whoever else has it open, that is known.
LEMMA OpenStep ==
    ASSUME PushInv, NEW c \in Clients, Open(c)
    PROVE  PushInv'
  <1>t. TypeOK /\ LatestInv /\ OwnInv /\ FileInv
    BY DEF PushInv
  <1>1. /\ file' = <<>> /\ doubtful' = (\E v \in Writers \ {c} : Writing(v))
        /\ pc' = [pc EXCEPT ![c] = "open"] /\ pc[c] \in {"sent", "cleared"}
        /\ UNCHANGED <<notifs, notif_count, next_id, slot, buf, shown, read, mine, sent, reused>>
    BY DEF Open, Truncate, array, shell
  <1>2. pc'[c] = "open" /\ \A w \in Writers : w # c => pc'[w] = pc[w]
    BY <1>1, <1>t, PushFacts DEF TypeOK
  <1>3. TypeOK'
    <2>1. <<>> \in Lists
      BY DEF Lists
    <2> QED BY <1>t, <1>1, <2>1, PushFacts DEF TypeOK
  <1>4. OwnInv'
    BY <1>1, <1>2, <1>t, PushFacts DEF OwnInv
  <1>5. FileInv'
    <2> SUFFICES ASSUME ~doubtful' PROVE FileInv'
      BY DEF FileInv
    <2>1. \A w \in Writers : w # c => ~Writing(w) /\ ~Writing(w)'
      BY <1>1, <1>2 DEF Writing
    <2>2. Writing(c)' /\ pc'[c] # "printed"
      BY <1>2 DEF Writing
    <2> QED BY <2>1, <2>2, <1>1, <1>2, PushFacts DEF FileInv, Writing
  <1> QED BY <1>3, <1>4, <1>5, <1>t, <1>1, SameArray DEF PushInv

\* Printing the list into the buffer of the file.
LEMMA RenderStep ==
    ASSUME PushInv, NEW c \in Clients, Render(c)
    PROVE  PushInv'
  <1>t. TypeOK /\ LatestInv /\ OwnInv /\ FileInv
    BY DEF PushInv
  <1>1. /\ buf' = [buf EXCEPT ![c] = Printed(List)] /\ pc' = [pc EXCEPT ![c] = "printed"] /\ pc[c] = "open"
        /\ UNCHANGED <<notifs, notif_count, next_id, slot, file, shown, read, mine, sent, reused, doubtful>>
    BY DEF Render, array, shell
  <1>2. pc'[c] = "printed" /\ \A w \in Writers : w # c => pc'[w] = pc[w]
    BY <1>1, <1>t, PushFacts DEF TypeOK
  <1>3. buf'[c] = Printed(List) /\ \A w \in Writers : w # c => buf'[w] = buf[w]
    BY <1>1, <1>t, PushFacts DEF TypeOK
  <1>4. TypeOK'
    BY <1>t, <1>1, ListType, PushFacts DEF TypeOK, Printed
  <1>5. OwnInv'
    BY <1>1, <1>2, <1>t, PushFacts DEF OwnInv
  <1>6. FileInv'
    <2>1. \A w \in Writers : Writing(w)' <=> Writing(w)
      BY <1>1, <1>2 DEF Writing
    <2>2. Pending' <=> Pending
      BY <1>1, <1>2, PushFacts DEF Pending
    <2>3. List' = List /\ Printed(List)' = Printed(List)
      BY <1>1, <1>t, SameArray DEF Printed
    <2> QED BY <2>1, <2>2, <2>3, <1>1, <1>2, <1>3, <1>t, PushFacts DEF FileInv
  <1> QED BY <1>4, <1>5, <1>6, <1>t, <1>1, SameArray DEF PushInv

\* The text reaches the file: alone, a writer leaves the list there.
LEMMA FlushStep ==
    ASSUME PushInv, NEW w \in Writers, Flush(w)
    PROVE  PushInv'
  <1>t. TypeOK /\ LatestInv /\ OwnInv /\ FileInv
    BY DEF PushInv
  <1> DEFINE place == IF w # Shell /\ slot[w] # 0 THEN "reply" ELSE "idle"
  <1>1. /\ file' \in Flushed(buf[w]) /\ buf' = [buf EXCEPT ![w] = <<>>]
        /\ pc' = [pc EXCEPT ![w] = place] /\ pc[w] = "printed"
        /\ UNCHANGED <<notifs, notif_count, next_id, slot, shown, read, mine, sent, reused, doubtful>>
    BY DEF Flush, Written, array, shell
  <1>2. pc'[w] = place /\ \A v \in Writers : v # w => pc'[v] = pc[v]
    BY <1>1, <1>t, PushFacts DEF TypeOK
  <1>3. \A v \in Writers : v # w => buf'[v] = buf[v]
    BY <1>1, <1>t, PushFacts DEF TypeOK
  <1>4. TypeOK'
    <2>1. <<>> \in Lists
      BY DEF Lists
    <2>2. file' \in Lists \cup {Torn}
      BY <1>1, <1>t DEF Flushed, TypeOK
    <2> QED BY <2>1, <2>2, <1>t, <1>1 DEF TypeOK
  <1>5. OwnInv'
    <2>1. pc'[w] = "reply" => slot[w] # 0
      BY <1>2
    <2> QED BY <2>1, <1>1, <1>2, <1>t, PushFacts DEF OwnInv
  <1>6. FileInv'
    <2> SUFFICES ASSUME ~doubtful' PROVE FileInv'
      BY DEF FileInv
    <2>0. ~doubtful
      BY <1>1
    <2>1. w # Shell /\ w \in Clients
      BY <2>0, <1>1, <1>t DEF FileInv, Writing, Writers
    <2>2. \A v \in Writers : ~Writing(v)'
      <3>1. \A v \in Clients : Writing(v) => v = w
        BY <2>0, <2>1, <1>1, <1>t DEF FileInv, Writing
      <3>2. \A v \in Writers : v # w => ~Writing(v)
        BY <3>1, <2>0, <1>t DEF FileInv, Writers
      <3> QED BY <3>2, <1>2 DEF Writing
    <2>3. Pending' <=> Pending
      BY <1>1, <1>2, PushFacts DEF Pending
    <2>4. Printed(List)' = Printed(List)
      BY <1>1, <1>t, SameArray DEF Printed
    <2>5. ~Pending => file' = Printed(List)
      <3>1. file = <<>>
        BY <2>0, <2>1, <1>1, <1>t DEF FileInv, Writing
      <3>2. ~Pending => buf[w] = Printed(List)
        BY <2>0, <2>1, <1>1, <1>t DEF FileInv
      <3> QED BY <3>1, <3>2, <1>1 DEF Flushed
    <2>6. \A v \in Writers : pc'[v] # "printed"
      BY <2>2 DEF Writing
    <2> QED BY <2>2, <2>3, <2>4, <2>5, <2>6, PushFacts DEF FileInv
  <1> QED BY <1>4, <1>5, <1>6, <1>t, <1>1, SameArray DEF PushInv

\* A file that does not open, or a text that does not fit: the step leaves the array
\* alone, and the file is known not to be the list.
LEMMA FailStep ==
    ASSUME PushInv, NEW w \in Writers, (w \in Clients /\ OpenFails(w)) \/ FlushFails(w)
    PROVE  PushInv'
  <1>t. TypeOK /\ LatestInv /\ OwnInv /\ FileInv
    BY DEF PushInv
  <1> DEFINE place == IF w # Shell /\ slot[w] # 0 THEN "reply" ELSE "idle"
  <1>1. /\ doubtful' = TRUE /\ pc' = [pc EXCEPT ![w] = place]
        /\ UNCHANGED <<notifs, notif_count, next_id, slot, mine, sent, reused>>
    BY DEF OpenFails, FlushFails, Written, array
  <1>2. pc'[w] = place /\ \A v \in Writers : v # w => pc'[v] = pc[v]
    BY <1>1, <1>t, PushFacts DEF TypeOK
  <1>3. TypeOK'
    <2>1. <<>> \in Lists
      BY DEF Lists
    <2>2. buf' \in [Writers -> Lists \cup {Torn}]
      BY <2>1, <1>t DEF OpenFails, FlushFails, TypeOK
    <2>3. file' \in {Torn, None} \/ file' \in Lists
      BY <2>1, <1>t DEF OpenFails, FlushFails, TypeOK
    <2>4. (shown' = None \/ shown' \in Lists) /\ read' \subseteq Ids \cup Range(Demo)
      BY <1>t DEF OpenFails, FlushFails, TypeOK, shell
    <2> QED BY <2>2, <2>3, <2>4, <1>t, <1>1 DEF TypeOK
  <1>4. OwnInv'
    <2>1. pc'[w] = "reply" => slot[w] # 0
      BY <1>2
    <2> QED BY <2>1, <1>1, <1>2, <1>t, PushFacts DEF OwnInv
  <1> QED BY <1>1, <1>3, <1>4, <1>t, SameArray DEF PushInv, FileInv

\* Answering gives the pointer up.
LEMMA ReplyStep ==
    ASSUME PushInv, NEW c \in Clients, Reply(c)
    PROVE  PushInv'
  <1>t. TypeOK /\ LatestInv /\ OwnInv /\ FileInv
    BY DEF PushInv
  <1>1. /\ slot' = [slot EXCEPT ![c] = 0] /\ mine' = [mine EXCEPT ![c] = 0]
        /\ pc' = [pc EXCEPT ![c] = "idle"] /\ pc[c] = "reply"
        /\ UNCHANGED <<notifs, notif_count, next_id, buf, file, shown, read, sent, reused, doubtful>>
    BY DEF Reply, array, shell
  <1>2. pc'[c] = "idle" /\ \A w \in Writers : w # c => pc'[w] = pc[w]
    BY <1>1, <1>t, PushFacts DEF TypeOK
  <1>3. TypeOK'
    <2>1. slot' \in [Clients -> 0..MaxNotifs] /\ mine' \in [Clients -> 0..MaxId]
      BY <1>t, <1>1, PushAssumption DEF TypeOK
    <2> QED BY <2>1, <1>t, <1>1 DEF TypeOK
  <1>4. OwnInv'
    BY <1>1, <1>2, <1>t, PushFacts DEF OwnInv, TypeOK
  <1>5. FileInv'
    <2>1. \A w \in Writers : (Writing(w)' <=> Writing(w)) /\ (pc'[w] = "printed" <=> pc[w] = "printed")
      BY <1>1, <1>2 DEF Writing
    <2>2. Pending' <=> Pending
      BY <1>1, <1>2, PushFacts DEF Pending
    <2>3. Printed(List)' = Printed(List)
      BY <1>1, <1>t, SameArray DEF Printed
    <2> QED BY <2>1, <2>2, <2>3, <1>1, <1>t, PushFacts DEF FileInv
  <1> QED BY <1>3, <1>4, <1>5, <1>t, <1>1, SameArray DEF PushInv

\* The notification center: what it reads, and that its writes are known.
LEMMA CenterStep ==
    ASSUME PushInv, Load \/ (\E i \in 1..MaxId : mark_read(i)) \/ clear_all \/ Stop
    PROVE  PushInv'
  <1>t. TypeOK /\ LatestInv /\ OwnInv /\ FileInv
    BY DEF PushInv
  <1>a. UNCHANGED <<notifs, notif_count, next_id, slot, mine, sent, reused>>
    BY DEF Load, mark_read, clear_all, Stop, array
  <1>e. <<>> \in Lists /\ Demo \in Lists /\ Range(Demo) \subseteq Ids \cup Range(Demo)
    <2>1. Demo \in Seq(Range(Demo))
      <3>1. Demo \in [1..Samples -> Range(Demo)]
        BY DEF Demo, Range
      <3> QED BY <3>1, PushAssumption
    <2> QED BY <2>1, SeqMonotonic DEF Lists
  <1>1. ASSUME Load \/ Stop PROVE PushInv'
    <2>1. UNCHANGED <<pc, buf, file, doubtful>>
      BY <1>1 DEF Load, Stop
    <2>2. (shown' = None \/ shown' \in Lists) /\ read' = {}
      BY <1>1, <1>e, <1>t DEF Load, Stop, TypeOK
    <2>3. TypeOK'
      BY <2>1, <2>2, <1>a, <1>t DEF TypeOK
    <2>4. OwnInv' /\ FileInv'
      BY <2>1, <1>a, <1>t, SameArray DEF OwnInv, FileInv, Writing, Pending, Printed
    <2> QED BY <2>3, <2>4, <1>a, <1>t, SameArray DEF PushInv
  <1>2. ASSUME NEW list, Save(list), list \in Lists,
               shown' \in Lists, read' \subseteq Ids \cup Range(Demo)
        PROVE  PushInv'
    <2>1. /\ file' = <<>> /\ doubtful' = TRUE /\ pc[Shell] = "idle"
          /\ buf' = [buf EXCEPT ![Shell] = list] /\ pc' = [pc EXCEPT ![Shell] = "printed"]
      BY <1>2 DEF Save
    <2>2. TypeOK'
      BY <2>1, <1>2, <1>a, <1>e, <1>t DEF TypeOK
    <2>3. \A c \in Clients : pc'[c] = pc[c]
      BY <2>1, <1>t, PushFacts DEF TypeOK
    <2>4. OwnInv' /\ FileInv'
      BY <2>1, <2>3, <1>a, <1>t DEF OwnInv, FileInv
    <2> QED BY <2>2, <2>4, <1>a, <1>t, SameArray DEF PushInv
  <1>3. ASSUME NEW i \in 1..MaxId, mark_read(i) PROVE PushInv'
    <2>1. /\ Save(shown) /\ shown' = shown /\ read' = read \cup {shown[i]}
          /\ shown \in Lists /\ i \in 1..Len(shown)
      BY <1>3, <1>t DEF mark_read, TypeOK
    <2>2. shown[i] \in Ids \cup Range(Demo)
      BY <2>1, ElementOfSeq DEF Lists
    <2> QED BY <2>1, <2>2, <1>2, <1>t DEF TypeOK
  <1>4. ASSUME clear_all PROVE PushInv'
    BY <1>4, <1>2, <1>e DEF clear_all
  <1> QED BY <1>1, <1>3, <1>4

\* No step of any daemon breaks the invariant of the push service.
LEMMA StepPush == PushInv /\ [AllNext]_allVars => PushInv'
  <1> SUFFICES ASSUME PushInv, [AllNext]_allVars PROVE PushInv'
    OBVIOUS
  <1>1. CASE UNCHANGED vars
    BY <1>1 DEF vars, PushInv, TypeOK, LatestInv, OwnInv, FileInv, Writing, Pending, List, Printed
  <1>2. CASE Next
    BY <1>2, SendStep, ClearStep, OpenStep, RenderStep, FlushStep, FailStep, ReplyStep, CenterStep, PushFacts
    DEF Next, Service, Center
  <1> QED BY <1>1, <1>2 DEF AllNext, allVars, OnlyPerms, OnlyKeys, OnlyFinger

\* The list the invariant describes entry by entry is the latest of what was sent.
LEMMA LatestFromInv == PushInv => LatestKept
  <1> SUFFICES ASSUME PushInv PROVE LatestKept
    OBVIOUS
  <1> DEFINE first == 1 + (IF Len(sent) > MaxNotifs THEN Len(sent) - MaxNotifs ELSE 0)
             latest == SubSeq(sent, first, Len(sent))
  <1>0. TypeOK /\ LatestInv
    BY DEF PushInv
  <1>1. Len(sent) \in Nat /\ sent \in Seq(Ids) /\ MaxNotifs \in Nat \ {0}
    BY <1>0, PushAssumption DEF TypeOK
  <1>2. first \in Int /\ first >= 1 /\ notif_count = Len(sent) - first + 1 /\ notif_count \in Nat
    BY <1>0, <1>1 DEF LatestInv
  <1>3. \A i \in first..Len(sent) : sent[i] \in Ids
    BY <1>1, <1>2, ElementOfSeq
  <1> HIDE DEF first
  <1>4. /\ latest \in Seq(Ids) /\ Len(latest) = notif_count
        /\ \A i \in 1..notif_count : latest[i] = sent[first + i - 1]
    BY <1>1, <1>2, <1>3, SubSeqProperties
  <1>5. \A i \in 1..notif_count : List[i] = latest[i]
    <2>1. ASSUME NEW i \in 1..notif_count PROVE List[i] = latest[i]
      <3>1. List[i] = sent[Len(sent) - notif_count + i]
        BY <1>0, ListEntries DEF LatestInv
      <3>2. Len(sent) - notif_count + i = first + i - 1
        BY <1>1, <1>2
      <3> QED BY <3>1, <3>2, <1>4
    <2> QED BY <2>1
  <1>6. List = latest
    BY <1>0, <1>4, <1>5, ListEntries, SeqEqual
  <1> QED BY <1>6 DEF LatestKept, first

\* The list of the push service is kept and so is its file (ListKept): the latest
\* notifications in order, whatever the clients do, and in the file when all is
\* done, no two writers had it open at a time and the last could write it - or no
\* JSON at all there, for as long as one of them has a quotation mark.
THEOREM KeepsList == AllSpec => []ListKept
  <1>1. PushInv => ListKept
    <2> SUFFICES ASSUME PushInv PROVE FileIsList
      BY LatestFromInv DEF ListKept
    <2>1. (\A w \in Writers : pc[w] = "idle") => ~Pending /\ \A w \in Clients : ~Writing(w)
      BY PushFacts DEF Pending, Writing
    <2> QED BY <2>1 DEF FileIsList, PushInv, FileInv
  <1> QED BY InitPush, StepPush, <1>1, PTL DEF AllSpec

\* The variables of the push service keep their types: no count passes the array.
THEOREM PushTypes == AllSpec => []TypeOK
  <1>1. PushInv => TypeOK
    BY DEF PushInv
  <1> QED BY InitPush, StepPush, <1>1, PTL DEF AllSpec

-----------------------------------------------------------------------------
(* The first of some indices, which permissions and keys are looked up with *)

\* A non-empty set of numbers has a first one.
LEMMA FirstIn ==
    ASSUME NEW S, S \subseteq Nat, S # {}
    PROVE  \E i \in S : \A j \in S : i <= j
  <1>1. \A p, q \in Nat : p < q => <<p, q>> \in OpToRel(<, Nat)
    BY Zenon DEF OpToRel
  <1>2. PICK R : IsWellFoundedOn(R, Nat) /\ \A p, q \in Nat : p < q => <<p, q>> \in R
    BY <1>1, NatLessThanWellFounded, Zenon
  <1>3. PICK x \in S : \A y \in S : ~(<<y, x>> \in R)
    <2>1. IsWellFoundedOn(R, Nat)
      BY <1>2
    <2>2. \A T : T \subseteq Nat /\ T # {} => \E x \in T : \A y \in T : ~(<<y, x>> \in R)
      BY <2>1, WFMin, Zenon
    <2> QED BY <2>2
  <1>4. \A y \in S : ~(y < x)
    BY <1>2, <1>3, Zenon
  <1>5. \A y \in S : x <= y
    BY <1>4
  <1> QED BY <1>5

\* It is the one the lookups choose.
LEMMA FirstChosen ==
    ASSUME NEW S, S \subseteq Nat, NEW i \in S, \A j \in S : i <= j
    PROVE  (CHOOSE k \in S : \A j \in S : k <= j) = i
  <1>1. \A k \in S : (\A j \in S : k <= j) => k = i
    OBVIOUS
  <1> QED BY <1>1

-----------------------------------------------------------------------------
(* The permissions daemon *)

\* The instance counts with the same operator.
LEMMA SameCount == Permissions!Cardinality(Defaults) = Cardinality(Defaults)
  BY Zenon DEF Permissions!Cardinality, Cardinality, Permissions!IsFiniteSet, IsFiniteSet

\* The order of the defaults is one of all of them.
LEMMA DefaultsInOrder ==
    /\ Cardinality(Defaults) \in Nat
    /\ Permissions!InOrder \in [1..Cardinality(Defaults) -> Defaults]
    /\ \A p \in Defaults : \E i \in 1..Cardinality(Defaults) : Permissions!InOrder[i] = p
  <1>0. IsFiniteSet(Defaults)
    BY ServicesAssumption
  <1>1. Cardinality(Defaults) \in Nat
    BY <1>0, FS_CardinalityType
  <1>2. PICK f \in Bijection(1..Cardinality(Defaults), Defaults) : TRUE
    BY <1>0, <1>1, FS_CardinalityType, Zenon DEF ExistsBijection
  <1>3. /\ f \in [1..Cardinality(Defaults) -> Defaults]
        /\ \A p \in Defaults : \E i \in 1..Cardinality(Defaults) : f[i] = p
    BY <1>2 DEF Bijection, Injection, Surjection
  <1>4. \E g \in [1..Cardinality(Defaults) -> Defaults] :
           \A p \in Defaults : \E i \in 1..Cardinality(Defaults) : g[i] = p
    BY <1>3
  <1> QED BY <1>1, <1>4, SameCount DEF Permissions!InOrder

\* A table of the defaults answers "granted" for just those.
LEMMA DefaultsHonest ==
    ASSUME NEW table, table = Permissions!load_defaults
    PROVE  /\ table \in Seq(Entries) /\ Len(table) = Cardinality(Defaults)
           /\ \A i \in 1..Len(table) : table[i].status = "granted" /\ table[i].perm \in Defaults
           /\ \A p \in Defaults : \E i \in 1..Len(table) : table[i].perm = p
  <1> DEFINE n == Cardinality(Defaults)
  <1>1. /\ n \in Nat /\ Permissions!InOrder \in [1..n -> Defaults]
        /\ \A p \in Defaults : \E i \in 1..n : Permissions!InOrder[i] = p
    BY DefaultsInOrder
  <1> HIDE DEF n
  <1>2. table = [i \in 1..n |-> [perm |-> Permissions!InOrder[i], status |-> "granted"]]
    BY SameCount DEF Permissions!load_defaults, n
  <1>3. table \in [1..n -> Entries]
    BY <1>1, <1>2, ServicesAssumption DEF Entries
  <1>4. table \in Seq(Entries) /\ Len(table) = n
    BY <1>1, <1>3
  <1> QED BY <1>1, <1>2, <1>4 DEF n

\* A table of the defaults, nothing lost: the state at every start.
LEMMA PermsAtStart ==
    /\ Permissions!Init => PermsInv
    /\ Permissions!Restart => PermsInv'
  <1>1. ASSUME NEW table, table = Permissions!load_defaults
        PROVE  /\ table \in Seq(Entries) /\ Len(table) <= MaxPerms
               /\ \A p \in Perms :
                    LET M == {i \in 1..Len(table) : table[i].perm = p} IN
                    (IF M = {} THEN "unknown"
                     ELSE table[CHOOSE i \in M : \A j \in M : i <= j].status) = "granted"
                      <=> p \in Defaults
    <2>1. /\ table \in Seq(Entries) /\ Len(table) = Cardinality(Defaults)
          /\ \A i \in 1..Len(table) : table[i].status = "granted" /\ table[i].perm \in Defaults
          /\ \A p \in Defaults : \E i \in 1..Len(table) : table[i].perm = p
      BY <1>1, DefaultsHonest
    <2>2. Len(table) <= MaxPerms
      BY <2>1, ServicesAssumption
    <2>3. ASSUME NEW p \in Perms, NEW M, M = {i \in 1..Len(table) : table[i].perm = p}
          PROVE  (IF M = {} THEN "unknown"
                  ELSE table[CHOOSE i \in M : \A j \in M : i <= j].status) = "granted"
                   <=> p \in Defaults
      <3>1. CASE M = {}
        BY <2>1, <2>3, <3>1
      <3>2. CASE M # {}
        <4>0. M \subseteq Nat
          BY <2>3
        <4>1. PICK i \in M : \A j \in M : i <= j
          BY <3>2, <4>0, FirstIn
        <4>2. (CHOOSE k \in M : \A j \in M : k <= j) = i
          BY <4>0, <4>1, FirstChosen
        <4>3. table[i].status = "granted" /\ table[i].perm = p /\ p \in Defaults
          BY <2>1, <2>3
        <4> QED BY <3>2, <4>2, <4>3
      <3> QED BY <3>1, <3>2
    <2> QED BY <2>1, <2>2, <2>3
  <1>2. Permissions!Init => PermsInv
    BY <1>1, ServicesAssumption
    DEF Permissions!Init, PermsInv, Permissions!Honest, Permissions!Status, Permissions!Matches
  <1>3. Permissions!Restart => PermsInv'
    BY <1>1, ServicesAssumption
    DEF Permissions!Restart, PermsInv, Permissions!Honest, Permissions!Status, Permissions!Matches
  <1> QED BY <1>2, <1>3

\* While the matches stay, the same entry answers.
LEMMA SameFirst ==
    ASSUME NEW q, Permissions!Matches(q) # {}, Permissions!Matches(q)' = Permissions!Matches(q)
    PROVE  \E i \in Permissions!Matches(q) : /\ Permissions!Status(q) = perms[i].status
                                             /\ Permissions!Status(q)' = perms'[i].status
  <1> DEFINE M == Permissions!Matches(q)
  <1>0. M \subseteq Nat
    BY DEF Permissions!Matches
  <1>1. PICK i \in M : \A j \in M : i <= j
    BY <1>0, FirstIn
  <1>2. (CHOOSE k \in M : \A j \in M : k <= j) = i
    BY <1>0, <1>1, FirstChosen
  <1>3. Permissions!Status(q) = perms[i].status
    BY <1>2 DEF Permissions!Status
  <1>4. (CHOOSE k \in M' : \A j \in M' : k <= j) = i
    BY <1>2
  <1>5. Permissions!Status(q)' = perms'[i].status
    BY <1>4 DEF Permissions!Status
  <1> QED BY <1>3, <1>5

\* A change of the status of the first match is what the next check answers, and
\* nothing else changes.
LEMMA SetFirstStep ==
    ASSUME PermsInv, NEW p \in Perms, NEW status \in {"granted", "denied"},
           Permissions!SetFirst(p, status)
    PROVE  /\ perms' \in Seq(Entries) /\ Len(perms') = Len(perms)
           /\ \A q : Permissions!Matches(q)' = Permissions!Matches(q)
           /\ Permissions!Status(p)' = status
           /\ \A q \in Perms : q # p => Permissions!Status(q)' = Permissions!Status(q)
  <1>0. perms \in Seq(Entries)
    BY DEF PermsInv
  <1>1. PICK i \in Permissions!Matches(p) :
          /\ \A j \in Permissions!Matches(p) : i <= j
          /\ perms' = [perms EXCEPT ![i].status = status]
    BY DEF Permissions!SetFirst
  <1>2. i \in 1..Len(perms) /\ perms[i] \in Entries /\ perms[i].perm = p
    BY <1>0, <1>1, ElementOfSeq DEF Permissions!Matches
  <1>3. /\ perms' \in Seq(Entries) /\ Len(perms') = Len(perms)
        /\ perms'[i] = [perms[i] EXCEPT !.status = status]
        /\ \A j \in 1..Len(perms) : j # i => perms'[j] = perms[j]
    <2>1. [perms[i] EXCEPT !.status = status] \in Entries
      BY <1>2 DEF Entries
    <2>2. perms' = [perms EXCEPT ![i] = [perms[i] EXCEPT !.status = status]]
      BY <1>1
    <2> QED BY <1>0, <1>2, <2>1, <2>2, ExceptSeq
  <1>4. perms'[i].perm = p /\ perms'[i].status = status
    BY <1>2, <1>3 DEF Entries
  <1>5. \A q : Permissions!Matches(q)' = Permissions!Matches(q)
    BY <1>2, <1>3, <1>4 DEF Permissions!Matches
  <1>6. Permissions!Status(p)' = status
    <2>1. Permissions!Matches(p) \subseteq Nat
      BY DEF Permissions!Matches
    <2>2. (CHOOSE k \in Permissions!Matches(p) : \A j \in Permissions!Matches(p) : k <= j) = i
      BY <1>1, <2>1, FirstChosen
    <2> QED BY <1>1, <1>4, <1>5, <2>2 DEF Permissions!Status
  <1>7. ASSUME NEW q \in Perms, q # p
        PROVE  Permissions!Status(q)' = Permissions!Status(q)
    <2>1. CASE Permissions!Matches(q) = {}
      BY <2>1, <1>5 DEF Permissions!Status
    <2>2. CASE Permissions!Matches(q) # {}
      <3>1. PICK first \in Permissions!Matches(q) : Permissions!Status(q) = perms[first].status
                                                /\ Permissions!Status(q)' = perms'[first].status
        BY <2>2, <1>5, SameFirst
      <3>2. first # i /\ first \in 1..Len(perms)
        BY <1>2, <1>7, <3>1 DEF Permissions!Matches
      <3> QED BY <1>3, <3>1, <3>2
    <2> QED BY <2>1, <2>2
  <1> QED BY <1>3, <1>5, <1>6, <1>7

\* A new entry is found, and the entries before it answer as they did.
LEMMA AddStep ==
    ASSUME PermsInv, NEW p \in Perms, Permissions!Matches(p) = {},
           perms' = Append(perms, [perm |-> p, status |-> "granted"])
    PROVE  /\ perms' \in Seq(Entries) /\ Len(perms') = Len(perms) + 1
           /\ Permissions!Status(p)' = "granted"
           /\ \A q \in Perms : q # p => /\ Permissions!Matches(q)' = Permissions!Matches(q)
                                        /\ Permissions!Status(q)' = Permissions!Status(q)
  <1>0. perms \in Seq(Entries) /\ Len(perms) \in Nat
    BY DEF PermsInv
  <1>1. [perm |-> p, status |-> "granted"] \in Entries
    BY DEF Entries
  <1>2. /\ perms' \in Seq(Entries) /\ Len(perms') = Len(perms) + 1
        /\ \A i \in 1..Len(perms) : perms'[i] = perms[i]
        /\ perms'[Len(perms) + 1] = [perm |-> p, status |-> "granted"]
    BY <1>0, <1>1, AppendProperties
  <1>3. Permissions!Matches(p)' = {Len(perms) + 1}
    BY <1>0, <1>2 DEF Permissions!Matches
  <1>4. Permissions!Status(p)' = "granted"
    <2>1. (CHOOSE k \in {Len(perms) + 1} : \A j \in {Len(perms) + 1} : k <= j) = Len(perms) + 1
      BY <1>0, FirstChosen
    <2> QED BY <1>2, <1>3, <2>1 DEF Permissions!Status
  <1>5. ASSUME NEW q \in Perms, q # p
        PROVE  /\ Permissions!Matches(q)' = Permissions!Matches(q)
               /\ Permissions!Status(q)' = Permissions!Status(q)
    <2>1. Permissions!Matches(q)' = Permissions!Matches(q)
      BY <1>0, <1>2, <1>5 DEF Permissions!Matches
    <2>2. CASE Permissions!Matches(q) = {}
      BY <2>1, <2>2 DEF Permissions!Status
    <2>3. CASE Permissions!Matches(q) # {}
      <3>1. PICK first \in Permissions!Matches(q) : Permissions!Status(q) = perms[first].status
                                                /\ Permissions!Status(q)' = perms'[first].status
        BY <2>1, <2>3, SameFirst
      <3> QED BY <1>2, <3>1 DEF Permissions!Matches
    <2> QED BY <2>1, <2>2, <2>3
  <1> QED BY <1>2, <1>4, <1>5

\* A grant is what the next check answers, unless the table had no room for it.
LEMMA GrantStep ==
    ASSUME PermsInv, NEW p \in Perms, Permissions!grant_permission(p)
    PROVE  PermsInv'
  <1>0. granted' = granted \cup {p}
    BY DEF Permissions!grant_permission
  <1>1. CASE Permissions!Matches(p) # {}
    <2>1. Permissions!SetFirst(p, "granted") /\ lost' = lost /\ p \notin lost
      BY <1>1 DEF Permissions!grant_permission, PermsInv
    <2> QED BY <1>0, <2>1, SetFirstStep DEF PermsInv, Permissions!Honest
  <1>2. CASE Permissions!Matches(p) = {} /\ Len(perms) < MaxPerms
    <2>1. perms' = Append(perms, [perm |-> p, status |-> "granted"]) /\ lost' = lost /\ lost = {}
      BY <1>2 DEF Permissions!grant_permission, Permissions!AddGranted, PermsInv
    <2>2. Len(perms') <= MaxPerms
      BY <1>2, <2>1, AddStep, ServicesAssumption DEF PermsInv
    <2> QED BY <1>0, <1>2, <2>1, <2>2, AddStep DEF PermsInv, Permissions!Honest
  <1>3. CASE Permissions!Matches(p) = {} /\ ~(Len(perms) < MaxPerms)
    <2>1. perms' = perms /\ lost' = lost \cup {p}
      BY <1>3 DEF Permissions!grant_permission, Permissions!AddGranted
    <2>2. \A q : /\ Permissions!Matches(q)' = Permissions!Matches(q)
                 /\ Permissions!Status(q)' = Permissions!Status(q)
      BY <2>1 DEF Permissions!Matches, Permissions!Status
    <2>3. Permissions!Status(p) = "unknown"
      BY <1>3 DEF Permissions!Status
    <2>4. Len(perms') = MaxPerms
      BY <1>3, <2>1, ServicesAssumption DEF PermsInv
    <2> QED BY <1>0, <1>3, <2>1, <2>2, <2>3, <2>4 DEF PermsInv, Permissions!Honest
  <1> QED BY <1>1, <1>2, <1>3

\* After a denial no check answers "granted".
LEMMA DenyStep ==
    ASSUME PermsInv, NEW p \in Perms, Permissions!deny_permission(p)
    PROVE  PermsInv'
  <1>0. granted' = granted \ {p} /\ lost' = lost \ {p}
    BY DEF Permissions!deny_permission
  <1>1. CASE Permissions!Matches(p) # {}
    <2>1. Permissions!SetFirst(p, "denied")
      BY <1>1 DEF Permissions!deny_permission
    <2> QED BY <1>0, <2>1, SetFirstStep DEF PermsInv, Permissions!Honest
  <1>2. CASE Permissions!Matches(p) = {}
    <2>1. perms' = perms
      BY <1>2 DEF Permissions!deny_permission
    <2>2. \A q : /\ Permissions!Matches(q)' = Permissions!Matches(q)
                 /\ Permissions!Status(q)' = Permissions!Status(q)
      BY <2>1 DEF Permissions!Matches, Permissions!Status
    <2>3. Permissions!Status(p) = "unknown"
      BY <1>2 DEF Permissions!Status
    <2> QED BY <1>0, <2>1, <2>2, <2>3 DEF PermsInv, Permissions!Honest
  <1> QED BY <1>1, <1>2

\* The invariant of the permissions daemon holds at the start and after every step.
LEMMA PermsAlways ==
    /\ AllInit => PermsInv
    /\ PermsInv /\ [AllNext]_allVars => PermsInv'
  <1>1. ASSUME PermsInv, UNCHANGED permVars PROVE PermsInv'
    <2>1. perms' = perms /\ granted' = granted /\ lost' = lost
      BY <1>1 DEF permVars
    <2>2. \A q : /\ Permissions!Matches(q)' = Permissions!Matches(q)
                 /\ Permissions!Status(q)' = Permissions!Status(q)
      BY <2>1 DEF Permissions!Matches, Permissions!Status
    <2> QED BY <1>1, <2>1, <2>2 DEF PermsInv, Permissions!Honest
  <1>2. ASSUME PermsInv, Permissions!Next PROVE PermsInv'
    BY <1>2, GrantStep, DenyStep, PermsAtStart DEF Permissions!Next
  <1> QED BY <1>1, <1>2, PermsAtStart
          DEF AllInit, AllNext, allVars, OnlyPush, OnlyPerms, OnlyKeys, OnlyFinger

-----------------------------------------------------------------------------
(* The enclave *)

\* No keys, nobody at work: the state at every start.
LEMMA EnclaveAtStart ==
    /\ Enclave!Init => EnclaveInv
    /\ EnclaveInv /\ Enclave!Restart => EnclaveInv'
  <1>1. ASSUME NEW ks, ks = [i \in 1..MaxKeys |-> [id |-> 0, key |-> 0]]
        PROVE  ks \in [1..MaxKeys -> KeyRecords]
    BY <1>1 DEF KeyRecords
  <1>2. ASSUME NEW us, us = [u \in Users |-> "idle"]
        PROVE  /\ us \in [Users -> {"idle", "key", "id", "count", "answer"}]
               /\ \A u \in Users : us[u] = "idle"
    BY <1>2
  <1>3. ASSUME NEW ids, ids = [u \in Users |-> 0]
        PROVE  ids \in [Users -> Nat]
    BY <1>3
  <1>4. 0 \in 0..MaxKeys
    BY ServicesAssumption
  <1>5. Enclave!Init => EnclaveInv
    BY <1>1, <1>2, <1>3, <1>4 DEF Enclave!Init, EnclaveInv, EnclaveType, EnclaveLock, EnclaveKeys
  <1>6. EnclaveInv /\ Enclave!Restart => EnclaveInv'
    BY <1>1, <1>2, <1>3, <1>4 DEF Enclave!Restart, EnclaveInv, EnclaveType, EnclaveLock, EnclaveKeys
  <1> QED BY <1>5, <1>6

\* While the entries that count stay, an id that is found stays found.
LEMMA FoundStays ==
    ASSUME key_count \in Nat, key_count' \in Nat, key_count <= key_count',
           \A i \in 1..key_count : keys'[i] = keys[i]
    PROVE  /\ \A id : Enclave!Found(id) # {} => Enclave!Found(id)' # {}
           /\ \A u \in Users : id_out'[u] = id_out[u] /\ Enclave!Found(id_out[u]) # {}
                                => (Enclave!Found(id_out[u]) # {})'
  BY DEF Enclave!Found

\* The entry behind those that count belongs to who makes a key.
LEMMA MakingStep ==
    ASSUME EnclaveInv, NEW u \in Users,
           \/ Enclave!Keygen(u) \/ Enclave!MakeKey(u) \/ Enclave!MakeId(u) \/ Enclave!Count(u)
    PROVE  EnclaveInv'
  <1>t. EnclaveType /\ EnclaveLock /\ EnclaveKeys
    BY DEF EnclaveInv
  <1>0. MaxKeys \in Nat /\ known' = known /\ texts' = texts
    BY ServicesAssumption DEF Enclave!Keygen, Enclave!MakeKey, Enclave!MakeId, Enclave!Count
  <1>1. CASE Enclave!Keygen(u)
    <2>1. /\ enclave_pc[u] = "idle" /\ enclave_lock = {} /\ key_count < MaxKeys
          /\ enclave_lock' = {u} /\ enclave_pc' = [enclave_pc EXCEPT ![u] = "key"]
          /\ UNCHANGED <<keys, key_count, made, id_out>>
      BY <1>1 DEF Enclave!Keygen, Enclave!Goto
    <2>2. enclave_pc'[u] = "key" /\ \A v \in Users : v # u => enclave_pc'[v] = enclave_pc[v]
      BY <2>1, <1>t DEF EnclaveType
    <2>3. EnclaveType'
      BY <2>1, <1>t DEF EnclaveType
    <2>4. EnclaveLock'
      BY <2>1, <2>2, <1>t DEF EnclaveLock, EnclaveType
    <2>5. EnclaveKeys'
      BY <2>1, <2>2, <1>0, <1>t DEF EnclaveKeys, Enclave!Found
    <2> QED BY <2>3, <2>4, <2>5 DEF EnclaveInv
  <1>2. CASE Enclave!MakeKey(u) \/ Enclave!MakeId(u)
    <2> DEFINE e == keys'[key_count + 1]
               place == IF enclave_pc[u] = "key" THEN "id" ELSE "count"
    <2>1. u \in enclave_lock /\ key_count < MaxKeys /\ key_count \in Nat /\ key_count + 1 \in 1..MaxKeys
      BY <1>2, <1>t, <1>0 DEF Enclave!MakeKey, Enclave!MakeId, EnclaveLock, EnclaveType
    <2>2. /\ enclave_pc[u] \in {"key", "id"} /\ enclave_pc' = [enclave_pc EXCEPT ![u] = place]
          /\ UNCHANGED <<key_count, enclave_lock>>
      BY <1>2 DEF Enclave!MakeKey, Enclave!MakeId, Enclave!Goto
    <2>3. enclave_pc'[u] = place /\ \A v \in Users : v # u => enclave_pc'[v] = enclave_pc[v]
      BY <2>2, <1>t DEF EnclaveType
    <2>4. \A v \in Users : v # u => enclave_pc[v] \notin {"key", "id", "count"}
      BY <2>1, <1>t DEF EnclaveLock
    <2>5. keys' \in [1..MaxKeys -> KeyRecords] /\ \A i \in 1..key_count : keys'[i] = keys[i]
      <3>1. ASSUME NEW r \in KeyRecords, keys' = [keys EXCEPT ![key_count + 1] = r]
            PROVE  keys' \in [1..MaxKeys -> KeyRecords] /\ \A i \in 1..key_count : keys'[i] = keys[i]
        BY <3>1, <2>1, <1>t DEF EnclaveType
      <3>2. keys[key_count + 1] \in KeyRecords
        BY <2>1, <1>t DEF EnclaveType
      <3>3. CASE Enclave!MakeKey(u)
        <4>1. made' \in Nat /\ keys' = [keys EXCEPT ![key_count + 1] = [@ EXCEPT !.key = made']]
          BY <3>3, <1>t DEF Enclave!MakeKey, EnclaveType
        <4>2. [keys[key_count + 1] EXCEPT !.key = made'] \in KeyRecords
          BY <4>1, <3>2 DEF KeyRecords
        <4> QED BY <4>1, <4>2, <3>1
      <3>4. CASE Enclave!MakeId(u)
        <4>1. keys' = [keys EXCEPT ![key_count + 1] = [@ EXCEPT !.id = keys[key_count + 1].key]]
          BY <3>4 DEF Enclave!MakeId
        <4>2. [keys[key_count + 1] EXCEPT !.id = keys[key_count + 1].key] \in KeyRecords
          BY <3>2 DEF KeyRecords
        <4> QED BY <4>1, <4>2, <3>1
      <3> QED BY <1>2, <3>3, <3>4
    <2>6. /\ made' \in Nat /\ id_out' \in [Users -> Nat]
          /\ \A v \in Users : v # u => id_out'[v] = id_out[v]
          /\ enclave_pc'[u] = "count" => e.id = id_out'[u] /\ e.key = id_out'[u]
      <3>1. CASE Enclave!MakeKey(u)
        BY <3>1, <2>3, <1>t DEF Enclave!MakeKey, EnclaveType
      <3>2. CASE Enclave!MakeId(u)
        <4> DEFINE k == keys[key_count + 1].key
        <4>1. /\ keys' = [keys EXCEPT ![key_count + 1] = [@ EXCEPT !.id = k]]
              /\ id_out' = [id_out EXCEPT ![u] = k] /\ made' = made
          BY <3>2 DEF Enclave!MakeId
        <4>2. keys[key_count + 1] \in KeyRecords /\ k \in Nat
          <5>1. keys[key_count + 1] \in KeyRecords
            BY <2>1, <1>t DEF EnclaveType
          <5> QED BY <5>1 DEF KeyRecords
        <4>3. e.id = k /\ e.key = k
          BY <4>1, <4>2, <2>1, <1>t DEF EnclaveType, KeyRecords
        <4> HIDE DEF k
        <4>4. id_out' \in [Users -> Nat] /\ id_out'[u] = k /\ \A v \in Users : v # u => id_out'[v] = id_out[v]
          BY <4>1, <4>2, <1>t DEF EnclaveType
        <4> QED BY <4>1, <4>3, <4>4, <1>t DEF EnclaveType
      <3> QED BY <1>2, <3>1, <3>2
    <2>7. EnclaveType'
      BY <2>2, <2>5, <2>6, <1>t DEF EnclaveType
    <2>8. EnclaveLock'
      BY <2>1, <2>2, <2>3, <1>t DEF EnclaveLock, EnclaveType
    <2>9. EnclaveKeys'
      <3>1. /\ \A id : Enclave!Found(id) # {} => Enclave!Found(id)' # {}
            /\ \A v \in Users : id_out'[v] = id_out[v] /\ Enclave!Found(id_out[v]) # {}
                                 => (Enclave!Found(id_out[v]) # {})'
        BY <2>1, <2>2, <2>5, FoundStays
      <3>2. \A i \in 1..key_count' : keys'[i].id = keys'[i].key
        BY <2>2, <2>5, <1>t DEF EnclaveKeys
      <3>3. \A v \in Users : enclave_pc'[v] = "count" =>
               keys'[key_count' + 1].id = id_out'[v] /\ keys'[key_count' + 1].key = id_out'[v]
        BY <2>2, <2>3, <2>4, <2>6
      <3>4. \A v \in Users : (enclave_pc[v] = "answer" /\ id_out[v] # 0 => Enclave!Found(id_out[v]) # {})'
        BY <2>2, <2>3, <2>6, <3>1, <1>t DEF EnclaveKeys
      <3> QED BY <3>1, <3>2, <3>3, <3>4, <1>0, <1>t DEF EnclaveKeys
    <2> QED BY <2>7, <2>8, <2>9 DEF EnclaveInv
  <1>3. CASE Enclave!Count(u)
    <2>1. u \in enclave_lock /\ key_count < MaxKeys /\ key_count \in Nat
      BY <1>3, <1>t, <1>0 DEF Enclave!Count, EnclaveLock, EnclaveType
    <2>2. /\ enclave_pc[u] = "count" /\ enclave_pc' = [enclave_pc EXCEPT ![u] = "answer"]
          /\ key_count' = key_count + 1 /\ enclave_lock' = enclave_lock \ {u}
          /\ UNCHANGED <<keys, made, id_out>>
      BY <1>3 DEF Enclave!Count, Enclave!Goto
    <2>3. enclave_pc'[u] = "answer" /\ \A v \in Users : v # u => enclave_pc'[v] = enclave_pc[v]
      BY <2>2, <1>t DEF EnclaveType
    <2>4. \A v \in Users : v # u => enclave_pc[v] \notin {"key", "id", "count"}
      BY <2>1, <1>t DEF EnclaveLock
    <2>5. EnclaveType'
      BY <2>1, <2>2, <1>0, <1>t DEF EnclaveType
    <2>6. EnclaveLock'
      <3>1. enclave_lock' = {}
        BY <2>1, <2>2, <1>t DEF EnclaveLock
      <3> QED BY <2>3, <2>4, <3>1 DEF EnclaveLock
    <2>7. EnclaveKeys'
      <3>0. /\ \A id : Enclave!Found(id) # {} => Enclave!Found(id)' # {}
            /\ \A v \in Users : id_out'[v] = id_out[v] /\ Enclave!Found(id_out[v]) # {}
                                 => (Enclave!Found(id_out[v]) # {})'
        BY <2>1, <2>2, FoundStays
      <3>1. keys[key_count + 1].id = id_out[u] /\ keys[key_count + 1].key = id_out[u]
        BY <2>2, <1>t DEF EnclaveKeys
      <3>2. \A i \in 1..key_count' : keys'[i].id = keys'[i].key
        BY <2>1, <2>2, <3>1, <1>t DEF EnclaveKeys
      <3>3. (Enclave!Found(id_out[u]) # {})'
        BY <2>1, <2>2, <3>1 DEF Enclave!Found
      <3>4. \A v \in Users : (enclave_pc[v] = "answer" /\ id_out[v] # 0 => Enclave!Found(id_out[v]) # {})'
        BY <2>2, <2>3, <3>0, <3>3, <1>t DEF EnclaveKeys
      <3>5. \A v \in Users : enclave_pc'[v] # "count"
        BY <2>3, <2>4
      <3> QED BY <3>0, <3>2, <3>4, <3>5, <1>0, <1>t DEF EnclaveKeys
    <2> QED BY <2>5, <2>6, <2>7 DEF EnclaveInv
  <1> QED BY <1>1, <1>2, <1>3

\* Answers and uses of keys, while others make theirs.
LEMMA UsingStep ==
    ASSUME EnclaveInv,
           \/ Enclave!Encrypt
           \/ \E u \in Users : Enclave!KeygenFull(u) \/ Enclave!Answer(u)
    PROVE  EnclaveInv'
  <1>t. EnclaveType /\ EnclaveLock /\ EnclaveKeys
    BY DEF EnclaveInv
  <1>0. UNCHANGED <<keys, key_count, enclave_lock, made>> /\ key_count \in Nat
    BY <1>t, ServicesAssumption DEF Enclave!Encrypt, Enclave!KeygenFull, Enclave!Answer, EnclaveType
  <1>f. \A id : Enclave!Found(id)' = Enclave!Found(id)
    BY <1>0 DEF Enclave!Found
  <1>1. CASE Enclave!Encrypt
    <2>1. PICK id : /\ Enclave!Found(id) # {}
                    /\ texts' = texts \cup {[id |-> id, key |-> Enclave!find_key(id)]}
      BY <1>1 DEF Enclave!Encrypt
    <2>2. Enclave!find_key(id) = id
      <3>1. Enclave!Found(id) \subseteq Nat
        BY DEF Enclave!Found
      <3>2. PICK i \in Enclave!Found(id) : \A j \in Enclave!Found(id) : i <= j
        BY <2>1, <3>1, FirstIn
      <3>3. Enclave!find_key(id) = keys[i].key
        BY <3>1, <3>2, FirstChosen DEF Enclave!find_key
      <3> QED BY <3>2, <3>3, <1>t DEF Enclave!Found, EnclaveKeys
    <2>3. UNCHANGED <<enclave_pc, id_out, known>>
      BY <1>1 DEF Enclave!Encrypt
    <2>4. \A t \in texts' : t.key = t.id /\ Enclave!Found(t.id)' # {}
      BY <2>1, <2>2, <1>f, <1>t DEF EnclaveKeys
    <2>5. EnclaveType' /\ EnclaveLock'
      BY <2>3, <1>0, <1>t DEF EnclaveType, EnclaveLock
    <2>6. EnclaveKeys'
      BY <2>3, <2>4, <1>0, <1>f, <1>t DEF EnclaveKeys
    <2> QED BY <2>5, <2>6 DEF EnclaveInv
  <1>2. ASSUME NEW u \in Users, Enclave!KeygenFull(u) \/ Enclave!Answer(u)
        PROVE  EnclaveInv'
    <2> DEFINE place == IF enclave_pc[u] = "idle" THEN "answer" ELSE "idle"
    <2>1. /\ enclave_pc[u] \in {"idle", "answer"} /\ enclave_pc' = [enclave_pc EXCEPT ![u] = place]
          /\ texts' = texts
      BY <1>2 DEF Enclave!KeygenFull, Enclave!Answer, Enclave!Goto
    <2>2. enclave_pc'[u] = place /\ \A v \in Users : v # u => enclave_pc'[v] = enclave_pc[v]
      BY <2>1, <1>t DEF EnclaveType
    <2>3. /\ id_out' \in [Users -> Nat]
          /\ \A v \in Users : v # u => id_out'[v] = id_out[v]
          /\ place = "answer" => id_out'[u] = 0
      BY <1>2, <1>t DEF Enclave!KeygenFull, Enclave!Answer, EnclaveType
    <2>4. \A id \in known' : Enclave!Found(id) # {}
      BY <1>2, <1>t DEF Enclave!KeygenFull, Enclave!Answer, EnclaveKeys
    <2>5. EnclaveType' /\ EnclaveLock'
      BY <2>1, <2>2, <2>3, <1>0, <1>t DEF EnclaveType, EnclaveLock
    <2>6. EnclaveKeys'
      BY <2>1, <2>2, <2>3, <2>4, <1>0, <1>f, <1>t DEF EnclaveKeys
    <2> QED BY <2>5, <2>6 DEF EnclaveInv
  <1> QED BY <1>1, <1>2

\* The invariant of the enclave holds at the start and after every step.
LEMMA EnclaveAlways ==
    /\ AllInit => EnclaveInv
    /\ EnclaveInv /\ [AllNext]_allVars => EnclaveInv'
  <1>1. ASSUME EnclaveInv, UNCHANGED keyVars PROVE EnclaveInv'
    BY <1>1 DEF keyVars, EnclaveInv, EnclaveType, EnclaveLock, EnclaveKeys, Enclave!Found
  <1>2. ASSUME EnclaveInv, Enclave!Next PROVE EnclaveInv'
    BY <1>2, MakingStep, UsingStep, EnclaveAtStart DEF Enclave!Next, Enclave!Thread
  <1> QED BY <1>1, <1>2, EnclaveAtStart
          DEF AllInit, AllNext, allVars, OnlyPush, OnlyPerms, OnlyKeys, OnlyFinger

\* What a daemon answers is so (RepliesTrue): a client of the push service its own id,
\* while no entry was used again; the last grant or denial, while the table had room;
\* and for every id the enclave answered, the key its texts were encrypted under.
THEOREM AnswersTrue == AllSpec => []RepliesTrue
  <1>1. PushInv => RepliesOwnId
    BY DEF PushInv, OwnInv, RepliesOwnId, Replied
  <1>2. PermsInv => Permissions!Honest
    BY DEF PermsInv
  <1>3. EnclaveInv => Enclave!Honest
    <2> SUFFICES ASSUME EnclaveInv, NEW t \in texts
                 PROVE  Enclave!find_key(t.id) = t.key
      BY DEF EnclaveInv, EnclaveKeys, Enclave!Honest
    <2>1. Enclave!Found(t.id) # {} /\ t.key = t.id /\ Enclave!Found(t.id) \subseteq Nat
      BY DEF EnclaveInv, EnclaveKeys, Enclave!Found
    <2>2. PICK i \in Enclave!Found(t.id) : \A j \in Enclave!Found(t.id) : i <= j
      BY <2>1, FirstIn
    <2>3. Enclave!find_key(t.id) = keys[i].key
      BY <2>1, <2>2, FirstChosen DEF Enclave!find_key
    <2> QED BY <2>1, <2>2, <2>3 DEF EnclaveInv, EnclaveKeys, Enclave!Found
  <1> QED BY InitPush, StepPush, PermsAlways, EnclaveAlways, <1>1, <1>2, <1>3, PTL
          DEF AllSpec, RepliesTrue

===============================================================================
