---------------------------- MODULE KeychainProofs ----------------------------
(***************************************************************************)
(* Proofs about the keychain service, for any clients, names, secrets,     *)
(* capacity and faults.                                                    *)
(***************************************************************************)
EXTENDS JuliusKeychain, WellFoundedInduction, TLAPS

-----------------------------------------------------------------------------
(* Lemmas about the operators *)

\* A non-empty set of slots has a first one.
LEMMA FirstIn ==
    ASSUME NEW S, S \subseteq Nat, S # {}
    PROVE  First(S) \in S /\ \A j \in S : First(S) <= j
  <1>1. \A p, q \in Nat : p < q => <<p, q>> \in OpToRel(<, Nat)
    BY Zenon DEF OpToRel
  <1>2. PICK R : IsWellFoundedOn(R, Nat) /\ \A p, q \in Nat : p < q => <<p, q>> \in R
    BY <1>1, NatLessThanWellFounded, Zenon
  <1>3. PICK x \in S : \A y \in S : ~(<<y, x>> \in R)
    <2>1. IsWellFoundedOn(R, Nat)
      BY <1>2
    <2>2. \A T : T \subseteq Nat /\ T # {} => \E x \in T : \A y \in T : ~(<<y, x>> \in R)
      BY <2>1, WFMin, Zenon
    <2> QED BY <2>2
  <1>4. \A y \in S : ~(y < x)
    BY <1>2, <1>3, Zenon
  <1>5. \A y \in S : x <= y
    BY <1>4
  <1> QED BY <1>5 DEF First

\* kc_find returns the first slot that holds the name; the others hold nothing.
LEMMA FindFirst ==
    ASSUME TypeOK, UniqueNames, NEW n \in Names, SlotsOf(n) # {}
    PROVE  /\ kc_find(n) \in SlotsOf(n) /\ kc_find(n) \in Used /\ kc_find(n) \in Slots
           /\ items[kc_find(n)].name = n
           /\ \A j \in SlotsOf(n) : kc_find(n) <= j
           /\ \A j \in SlotsOf(n) : j # kc_find(n) => items[j].data = Junk
  <1>1. SlotsOf(n) \subseteq Used /\ Used \subseteq Slots /\ Used \subseteq Nat
    BY KeychainAssumption DEF SlotsOf, Used, Slots, TypeOK
  <1>2. kc_find(n) \in SlotsOf(n) /\ \A j \in SlotsOf(n) : kc_find(n) <= j
    BY <1>1, FirstIn DEF kc_find
  <1>3. n # Blank
    BY KeychainAssumption
  <1>4. ASSUME NEW j \in SlotsOf(n), j # kc_find(n) PROVE items[j].data = Junk
    <2>0. kc_find(n) \in Nat /\ j \in Nat /\ kc_find(n) <= j
      BY <1>1, <1>2
    <2>1. kc_find(n) < j
      BY <2>0, <1>4
    <2>2. kc_find(n) \in 1..item_count /\ j \in 1..item_count
      BY <1>1, <1>2 DEF Used
    <2>3. items[kc_find(n)].name = n /\ items[j].name = n
      BY <1>2 DEF SlotsOf
    <2> QED BY <2>1, <2>2, <2>3, <1>3 DEF UniqueNames, OneEach
  <1> QED BY <1>1, <1>2, <1>4 DEF SlotsOf

\* A file that a save was written to, in full or in part, is well-formed; it has the
\* items in memory, each either as it is or with nothing in it; and a name has one item.
Kept(P) ==
    /\ P \in [count : 0..MaxItems, items : [Slots -> Items]]
    /\ P.count = item_count
    /\ \A i \in Used : P.items[i] = items[i] \/ P.items[i].data = Junk
    /\ OneEach(P.count, P.items)

LEMMA PrefixKept ==
    ASSUME TypeOK, UniqueNames, NEW k \in Int
    PROVE  Kept(Prefix(k))
  <1>1. BlankItem \in Items /\ BlankItem.data = Junk /\ BlankItem.name = Blank
    BY DEF BlankItem, Items, Keys
  <1>2. Used \subseteq Slots /\ Used \subseteq Nat
    BY KeychainAssumption DEF Used, Slots, TypeOK
  <1>3. \A i \in Slots : Prefix(k).items[i] = IF i < k /\ i \in Used THEN items[i] ELSE BlankItem
    BY DEF Prefix
  <1>4. Prefix(k).count = item_count
    BY DEF Prefix
  <1>5. Prefix(k) \in [count : 0..MaxItems, items : [Slots -> Items]]
    BY <1>1, <1>2 DEF Prefix, TypeOK
  <1>6. ASSUME NEW i \in Used, NEW j \in Used, i < j, Prefix(k).items[j].name # Blank,
               Prefix(k).items[i].name = Prefix(k).items[j].name
        PROVE  Prefix(k).items[j].data = Junk
    <2>1. Prefix(k).items[j] = items[j] /\ Prefix(k).items[i] = items[i]
      BY <1>1, <1>2, <1>3, <1>6
    <2> QED BY <2>1, <1>6 DEF UniqueNames, OneEach, Used
  <1> QED BY <1>1, <1>2, <1>3, <1>4, <1>5, <1>6 DEF Kept, OneEach, Used

LEMMA TornKept ==
    ASSUME TypeOK, UniqueNames, NEW k \in Used, NEW n \in Remains(items[k].name)
    PROVE  Kept(Torn(k, n))
  <1> DEFINE it == [name |-> n, data |-> Junk, key |-> "zero"]
  <1>1. k \in Slots /\ k \in Int /\ Used \subseteq Slots /\ Used \subseteq Nat
    BY KeychainAssumption DEF Used, Slots, TypeOK
  <1>2. Kept(Prefix(k))
    BY <1>1, PrefixKept
  <1>3. it \in Items
    <2>1. items[k].name \in Names \cup {Blank}
      BY <1>1 DEF TypeOK, Items
    <2> QED BY <2>1, KeychainAssumption DEF Remains, Items, Keys
  <1>4. /\ Torn(k, n).count = item_count
        /\ Torn(k, n).items = [Prefix(k).items EXCEPT ![k] = it]
    BY DEF Torn, Prefix
  <1>5. Torn(k, n) \in [count : 0..MaxItems, items : [Slots -> Items]]
    BY <1>2, <1>3, <1>4 DEF Torn, Kept
  <1>6. /\ Torn(k, n).items[k].data = Junk
        /\ \A i \in Slots : i # k => Torn(k, n).items[i] = Prefix(k).items[i]
    BY <1>1, <1>2, <1>4 DEF Kept
  <1>7. \A i \in Slots : i > k => Prefix(k).items[i].name = Blank
    BY <1>1 DEF Prefix, BlankItem, Slots
  <1>8. ASSUME NEW i \in Used, NEW j \in Used, i < j, Torn(k, n).items[j].name # Blank,
               Torn(k, n).items[i].name = Torn(k, n).items[j].name
        PROVE  Torn(k, n).items[j].data = Junk
    <2>1. CASE j = k
      BY <2>1, <1>6
    <2>2. CASE j > k
      BY <2>2, <1>1, <1>6, <1>7, <1>8
    <2>3. CASE j < k
      <3>1. Torn(k, n).items[i] = Prefix(k).items[i] /\ Torn(k, n).items[j] = Prefix(k).items[j]
        BY <2>3, <1>1, <1>6, <1>8
      <3> QED BY <3>1, <1>2, <1>8 DEF Kept, OneEach, Used, Prefix
    <2> QED BY <2>1, <2>2, <2>3, <1>1
  <1>9. \A i \in Used : Torn(k, n).items[i] = items[i] \/ Torn(k, n).items[i].data = Junk
    BY <1>1, <1>2, <1>6 DEF Kept
  <1> QED BY <1>4, <1>5, <1>8, <1>9 DEF Kept, OneEach, Used

\* Every file a save may leave, and a complete one holds the items in memory.
LEMMA SaveKept ==
    ASSUME TypeOK, UniqueNames
    PROVE  /\ \A P \in Leftovers \cup {Saved} : Kept(P)
           /\ Saved.count = item_count /\ \A i \in Used : Saved.items[i] = items[i]
  <1>1. item_count + 1 \in Int /\ Slots \subseteq Int
    BY DEF TypeOK, Slots
  <1>2. \A P \in Leftovers \cup {Saved} : Kept(P)
    BY <1>1, PrefixKept, TornKept DEF Leftovers, Saved
  <1>3. \A i \in Used : Saved.items[i] = items[i]
    BY KeychainAssumption DEF Saved, Prefix, Used, Slots, TypeOK
  <1> QED BY <1>2, <1>3 DEF Saved, Prefix

-----------------------------------------------------------------------------
(* The inductive invariant *)

\* The service starts in a state of the invariant.
LEMMA InitIInv == Init => IInv
  <1> SUFFICES ASSUME Init PROVE IInv
    OBVIOUS
  <1>1. NoItems \in [Slots -> Items]
    BY DEF NoItems, BlankItem, Items, Keys
  <1>2. NoRequest \in Requests /\ Success \in Responses
    BY KeychainAssumption DEF NoRequest, Requests, Success, Responses
  <1>3. TypeOK
    BY <1>1, <1>2, KeychainAssumption DEF Init, TypeOK, Keys
  <1> QED
    BY <1>3, KeychainAssumption DEF Init, IInv, LockInv, UniqueNames, UniqueOnDisk,
         OneEach, DurableInv, KeyInv, Used

\* What a request asks about, by the operation it carries.
LEMMA RequestNames ==
    ASSUME TypeOK, NEW c \in Clients
    PROVE  /\ req[c].op \in {"add", "get", "delete"} => req[c].name \in Names
           /\ req[c].data \in Data
  BY KeychainAssumption DEF TypeOK, Requests

\* Every step keeps the types.
LEMMA StepType == IInv /\ [Next]_vars => TypeOK'
  <1> SUFFICES ASSUME IInv, [Next]_vars PROVE TypeOK'
    OBVIOUS
  <1>t. TypeOK /\ UniqueNames
    BY DEF IInv
  <1>n. NoItems \in [Slots -> Items] /\ 0 \in 0..MaxItems
    BY KeychainAssumption DEF NoItems, BlankItem, Items, Keys
  <1>r. NoRequest \in Requests /\ Success \in Responses /\ Failure \in Responses
    BY KeychainAssumption DEF NoRequest, Requests, Success, Failure, Responses
  <1>p. \A P \in Leftovers \cup {Saved} : P \in [count : 0..MaxItems, items : [Slots -> Items]]
    BY <1>t, SaveKept DEF Kept
  <1>e. ASSUME NEW c \in Clients, NEW op, NEW r \in Responses,
               NEW next \in {"saving", "unlock"}, Enter(c, op, r, next),
               items' \in [Slots -> Items], item_count' \in 0..MaxItems
        PROVE  TypeOK'
    BY <1>e, <1>t DEF TypeOK, Enter
  <1>i. ASSUME NEW c \in Clients, req[c].op = "add"
        PROVE  [name |-> req[c].name, data |-> req[c].data, key |-> kc_key] \in Items
    BY <1>i, <1>t, RequestNames DEF Items, TypeOK
  <1>1. CASE LoadKey \/ GenerateKey \/ WriteKey
    BY <1>1, <1>t DEF LoadKey, GenerateKey, WriteKey, KeyIn, Keys, TypeOK, clientVars
  <1>2. CASE kc_load
    BY <1>2, <1>t, <1>n DEF kc_load, TypeOK, clientVars
  <1>3. ASSUME Ends, disk' \in [count : 0..MaxItems, items : [Slots -> Items]] PROVE TypeOK'
    BY <1>3, <1>t, <1>n, <1>r DEF Ends, TypeOK, Keys
  <1>3c. CASE Crash
    <2>1. disk' \in [count : 0..MaxItems, items : [Slots -> Items]]
      BY <1>3c, <1>n, <1>p, <1>t DEF Crash, TypeOK
    <2> QED BY <2>1, <1>3, <1>3c DEF Crash
  <1>3l. ASSUME NEW c \in Clients, ListOverruns(c) PROVE TypeOK'
    BY <1>3, <1>3l, <1>t DEF ListOverruns, TypeOK
  <1>4. ASSUME NEW c \in Clients, NEW r \in Requests, Connect(c, r) PROVE TypeOK'
    BY <1>4, <1>t DEF Connect, TypeOK
  <1>5. ASSUME NEW c \in Clients, ShortRead(c) PROVE TypeOK'
    BY <1>5, <1>t, <1>r DEF ShortRead, TypeOK
  <1>6. ASSUME NEW c \in Clients, AddFull(c) PROVE TypeOK'
    BY <1>6, <1>e, <1>r, <1>t DEF AddFull, TypeOK
  <1>7. ASSUME NEW c \in Clients, AddExisting(c) PROVE TypeOK'
    <2>1. items' \in [Slots -> Items]
      BY <1>7, <1>i, <1>t DEF AddExisting, Enter, TypeOK
    <2> QED BY <2>1, <1>7, <1>e, <1>r, <1>t DEF AddExisting, TypeOK
  <1>8. ASSUME NEW c \in Clients, AddNew(c) PROVE TypeOK'
    <2>1. items' \in [Slots -> Items]
      BY <1>8, <1>i, <1>t DEF AddNew, Enter, TypeOK
    <2>2. item_count' \in 0..MaxItems
      BY <1>8, <1>t, KeychainAssumption DEF AddNew, TypeOK
    <2> QED BY <2>1, <2>2, <1>8, <1>e, <1>r DEF AddNew
  <1>9. ASSUME NEW c \in Clients, Get(c) PROVE TypeOK'
    <2> DEFINE it == items[kc_find(req[c].name)]
               ok == SlotsOf(req[c].name) # {} /\ Readable(it, kc_key) /\ it.data # Empty
               r  == IF ok THEN [Success EXCEPT !.data = it.data] ELSE Failure
    <2>1. Enter(c, "get", r, "unlock") /\ UNCHANGED <<items, item_count>>
      BY <1>9 DEF Get
    <2>2. ASSUME ok PROVE it.data \in Data
      <3>1. req[c].name \in Names
        BY <2>1, <1>t, RequestNames DEF Enter
      <3>2. it \in Items
        BY <3>1, <2>2, <1>t, FindFirst DEF TypeOK
      <3> QED BY <3>2, <2>2 DEF Items, Readable
    <2>3. r \in Responses
      BY <2>2, <1>r DEF Success, Responses
    <2> QED BY <2>1, <2>3, <1>e, <1>t DEF TypeOK
  <1>10. ASSUME NEW c \in Clients, DeleteExisting(c) PROVE TypeOK'
    <2>1. PICK i \in SlotsOf(req[c].name) : TRUE
      BY <1>10 DEF DeleteExisting
    <2>2. item_count \in 1..MaxItems
      BY <2>1, <1>t, KeychainAssumption DEF SlotsOf, Used, TypeOK
    <2>3. items' \in [Slots -> Items]
      BY <1>10, <1>t, <2>2, KeychainAssumption DEF DeleteExisting, TypeOK, Slots
    <2>4. item_count' \in 0..MaxItems
      BY <1>10, <2>2, KeychainAssumption DEF DeleteExisting
    <2> QED BY <2>3, <2>4, <1>10, <1>e, <1>r DEF DeleteExisting
  <1>11. ASSUME NEW c \in Clients, DeleteMissing(c) \/ Update(c) PROVE TypeOK'
    BY <1>11, <1>e, <1>r, <1>t DEF DeleteMissing, Update, TypeOK
  <1>12. ASSUME NEW c \in Clients, List(c) PROVE TypeOK'
    <2>1. PICK k \in Fitting :
              Enter(c, "list", [Success EXCEPT !.items = {items[i].name : i \in 1..k},
                                               !.full = (k < item_count)], "unlock")
      BY <1>12 DEF List
    <2>2. {items[i].name : i \in 1..k} \subseteq Names \cup {Blank}
      BY <1>t, KeychainAssumption DEF TypeOK, Fitting, Slots, Items
    <2> DEFINE L == {items[i].name : i \in 1..k}
               full == k < item_count
    <2>3. [Success EXCEPT !.items = L, !.full = full] \in Responses
      <3>1. L \in SUBSET (Names \cup {Blank}) /\ full \in BOOLEAN
        BY <2>2
      <3> HIDE DEF L, full
      <3> QED BY <3>1, <1>r DEF Success, Responses
    <2> QED BY <2>1, <2>3, <1>12, <1>e, <1>t DEF List, TypeOK
  <1>13. ASSUME NEW c \in Clients, SaveOpen(c) \/ SaveWrite(c) PROVE TypeOK'
    <2>1. disk' \in [count : 0..MaxItems, items : [Slots -> Items]]
      BY <1>13, <1>n, <1>p, <1>t DEF SaveOpen, SaveWrite, TypeOK
    <2> QED BY <2>1, <1>13, <1>t DEF SaveOpen, SaveWrite, TypeOK
  <1>14. ASSUME NEW c \in Clients, Unlock(c) \/ Reply(c) PROVE TypeOK'
    BY <1>14, <1>t, <1>r DEF Unlock, Reply, TypeOK
  <1>15. CASE UNCHANGED vars
    BY <1>15, <1>t DEF vars, TypeOK
  <1> QED
    BY <1>1, <1>2, <1>3c, <1>3l, <1>4, <1>5, <1>6, <1>7, <1>8, <1>9, <1>10, <1>11, <1>12,
       <1>13, <1>14, <1>15 DEF Next, Thread

\* Every step keeps the lock with the one thread that is inside.
LEMMA StepLock == IInv /\ [Next]_vars => LockInv'
  <1> SUFFICES ASSUME IInv, [Next]_vars PROVE LockInv'
    OBVIOUS
  <1> USE KeychainAssumption DEF IInv, TypeOK, LockInv
  <1>1. CASE LoadKey \/ GenerateKey \/ WriteKey \/ kc_load
    BY <1>1 DEF LoadKey, GenerateKey, WriteKey, kc_load, clientVars
  <1>2. CASE Ends
    BY <1>2 DEF Ends
  <1>3. ASSUME NEW c \in Clients, NEW r \in Requests, Connect(c, r) PROVE LockInv'
    BY <1>3 DEF Connect
  <1>4. ASSUME NEW c \in Clients, NEW op, NEW r, NEW next \in {"saving", "unlock"},
               Enter(c, op, r, next)
        PROVE  LockInv'
    BY <1>4 DEF Enter
  <1>5. ASSUME NEW c \in Clients, Thread(c) PROVE LockInv'
    <2>1. CASE ShortRead(c)
      BY <2>1 DEF ShortRead
    <2>2. CASE AddFull(c) \/ AddExisting(c) \/ AddNew(c) \/ Get(c) \/ DeleteExisting(c)
               \/ DeleteMissing(c) \/ List(c) \/ Update(c)
      BY <2>2, <1>4 DEF AddFull, AddExisting, AddNew, Get, DeleteExisting, DeleteMissing,
           List, Update
    <2>3. CASE SaveOpen(c) \/ SaveWrite(c)
      BY <2>3 DEF SaveOpen, SaveWrite
    <2>4. CASE Unlock(c) \/ Reply(c)
      BY <2>4 DEF Unlock, Reply
    <2>5. CASE ListOverruns(c)
      BY <2>5, <1>2 DEF ListOverruns
    <2> QED BY <1>5, <2>1, <2>2, <2>3, <2>4, <2>5 DEF Thread
  <1>6. CASE UNCHANGED vars
    BY <1>6 DEF vars
  <1> QED BY <1>1, <1>2, <1>3, <1>5, <1>6 DEF Next, Crash

\* Every step keeps the names in memory unique.
LEMMA StepUnique == IInv /\ [Next]_vars => UniqueNames'
  <1> SUFFICES ASSUME IInv, [Next]_vars PROVE UniqueNames'
    OBVIOUS
  <1>t. TypeOK /\ UniqueNames /\ UniqueOnDisk
    BY DEF IInv
  <1>s. Used \subseteq Slots /\ Used \subseteq Nat /\ item_count \in Nat
    BY <1>t, KeychainAssumption DEF TypeOK, Used, Slots
  <1>u. ASSUME UNCHANGED <<items, item_count>> PROVE UniqueNames'
    BY <1>u, <1>t DEF UniqueNames, OneEach
  <1>1. CASE LoadKey \/ GenerateKey \/ WriteKey
    BY <1>1, <1>u DEF LoadKey, GenerateKey, WriteKey
  <1>2. CASE kc_load
    BY <1>2, <1>t DEF kc_load, UniqueNames, UniqueOnDisk, OneEach
  <1>3. CASE Ends
    BY <1>3 DEF Ends, UniqueNames, OneEach
  <1>4. ASSUME NEW c \in Clients, NEW r \in Requests, Connect(c, r) PROVE UniqueNames'
    BY <1>4, <1>u DEF Connect
  <1>5. ASSUME NEW c \in Clients, AddExisting(c) PROVE UniqueNames'
    <2> DEFINE n  == req[c].name
               k  == kc_find(n)
               it == [name |-> n, data |-> req[c].data, key |-> kc_key]
    <2>1. n \in Names /\ SlotsOf(n) # {}
      BY <1>5, <1>t, RequestNames DEF AddExisting, Enter
    <2>2. k \in Used /\ items[k].name = n /\ \A j \in SlotsOf(n) : k <= j
      BY <2>1, <1>t, FindFirst
    <2>3. items' = [items EXCEPT ![k] = it] /\ item_count' = item_count /\ it.name = n
      BY <1>5 DEF AddExisting
    <2> HIDE DEF k, it, n
    <2>4. \A i \in Used : items'[i].name = items[i].name /\ (i # k => items'[i] = items[i])
      BY <2>2, <2>3, <1>s, <1>t DEF TypeOK
    <2>5. ASSUME NEW i \in Used, NEW j \in Used, i < j, items'[i].name = items'[j].name,
                 items'[i].name # Blank
          PROVE  items'[j].data = Junk
      <3>1. items[i].name = items[j].name /\ items[i].name # Blank
        BY <2>4, <2>5
      <3>2. CASE j = k
        <4>1. i \in SlotsOf(n)
          BY <3>1, <3>2, <2>2 DEF SlotsOf
        <4> QED BY <4>1, <3>2, <2>2, <2>5, <1>s
      <3>3. CASE j # k
        BY <3>1, <3>3, <2>4, <2>5, <1>t DEF UniqueNames, OneEach, Used
      <3> QED BY <3>2, <3>3
    <2> QED BY <2>3, <2>5 DEF UniqueNames, OneEach, Used
  <1>6. ASSUME NEW c \in Clients, AddNew(c) PROVE UniqueNames'
    <2>1. \A i \in Used : items'[i] = items[i] /\ items[i].name # req[c].name
      <3>1. \A i \in Used : i \in Slots /\ i # item_count + 1
        BY <1>s DEF Used
      <3>2. \A i \in Used : items'[i] = items[i]
        BY <3>1, <1>6, <1>t DEF AddNew, TypeOK
      <3>3. \A i \in Used : items[i].name # req[c].name
        BY <1>6 DEF AddNew, SlotsOf
      <3> QED BY <3>2, <3>3
    <2>2. item_count + 1 \in Slots /\ items'[item_count + 1].name = req[c].name
      BY <1>6, <1>t, KeychainAssumption DEF AddNew, TypeOK, Slots
    <2>3. \A i \in 1..(item_count + 1) : i \in Used \/ i = item_count + 1
      BY <1>s DEF Used
    <2>4. ASSUME NEW i \in 1..(item_count + 1), NEW j \in 1..(item_count + 1), i < j,
                 items'[i].name = items'[j].name, items'[i].name # Blank
          PROVE  items'[j].data = Junk
      <3>1. i \in Used
        BY <2>3, <2>4, <1>s
      <3>2. j \in Used
        BY <3>1, <2>1, <2>2, <2>3, <2>4
      <3> QED BY <3>1, <3>2, <2>1, <2>4, <1>t DEF UniqueNames, OneEach, Used
    <2> QED BY <2>4, <1>6 DEF AddNew, UniqueNames, OneEach
  <1>7. ASSUME NEW c \in Clients, DeleteExisting(c) PROVE UniqueNames'
    <2> DEFINE k == kc_find(req[c].name)
               from(i) == IF k <= i THEN i + 1 ELSE i
    <2>1. req[c].name \in Names /\ SlotsOf(req[c].name) # {}
      BY <1>7, <1>t, RequestNames DEF DeleteExisting, Enter
    <2>3. k \in Used /\ k \in Slots
      BY <2>1, <1>t, FindFirst
    <2>4. \A i \in 1..(item_count - 1) : from(i) \in Used /\ items'[i] = items[from(i)]
      BY <2>3, <1>7, <1>t, KeychainAssumption DEF DeleteExisting, TypeOK, Used, Slots
    <2>5. \A i, j \in 1..(item_count - 1) : i < j => from(i) < from(j)
      <3>1. k \in Nat
        BY <2>3, <1>s
      <3> HIDE DEF k
      <3> QED BY <3>1, <1>s
    <2>6. item_count' = item_count - 1
      BY <1>7 DEF DeleteExisting
    <2> HIDE DEF k, from
    <2> QED BY <2>4, <2>5, <2>6, <1>t DEF UniqueNames, OneEach, Used
  <1>8. ASSUME NEW c \in Clients,
               ShortRead(c) \/ AddFull(c) \/ Get(c) \/ DeleteMissing(c) \/ List(c) \/ Update(c)
               \/ SaveOpen(c) \/ SaveWrite(c) \/ Unlock(c) \/ Reply(c)
        PROVE  UniqueNames'
    BY <1>8, <1>u DEF ShortRead, AddFull, Get, DeleteMissing, List, Update, SaveOpen,
         SaveWrite, Unlock, Reply
  <1>9. CASE UNCHANGED vars
    BY <1>9, <1>u DEF vars
  <1> QED BY <1>1, <1>2, <1>3, <1>4, <1>5, <1>6, <1>7, <1>8, <1>9
          DEF Next, Thread, Crash, ListOverruns

\* Every step keeps the names in the database file unique.
LEMMA StepOnDisk == IInv /\ [Next]_vars => UniqueOnDisk'
  <1> SUFFICES ASSUME IInv, [Next]_vars PROVE UniqueOnDisk'
    OBVIOUS
  <1>t. TypeOK /\ UniqueNames /\ UniqueOnDisk
    BY DEF IInv
  <1>u. ASSUME UNCHANGED disk PROVE UniqueOnDisk'
    BY <1>u, <1>t DEF UniqueOnDisk
  <1>n. ASSUME disk' = [count |-> 0, items |-> NoItems] PROVE UniqueOnDisk'
    BY <1>n DEF UniqueOnDisk, OneEach
  <1>p. ASSUME disk' \in Leftovers \cup {Saved} PROVE UniqueOnDisk'
    BY <1>p, <1>t, SaveKept DEF UniqueOnDisk, Kept
  <1>1. CASE Crash
    BY <1>1, <1>u, <1>n, <1>p DEF Crash
  <1>2. ASSUME NEW c \in Clients, SaveOpen(c) PROVE UniqueOnDisk'
    BY <1>2, <1>u, <1>n DEF SaveOpen
  <1>3. ASSUME NEW c \in Clients, SaveWrite(c) PROVE UniqueOnDisk'
    BY <1>3, <1>p DEF SaveWrite
  <1>4. CASE UNCHANGED disk
    BY <1>4, <1>u
  <1>5. ASSUME ~Crash, \A c \in Clients : ~SaveOpen(c) /\ ~SaveWrite(c)
        PROVE  UNCHANGED disk
    <2>1. CASE LoadKey \/ GenerateKey \/ WriteKey \/ kc_load \/ UNCHANGED vars
      BY <2>1 DEF LoadKey, GenerateKey, WriteKey, kc_load, vars
    <2>2. ASSUME NEW c \in Clients, NEW r \in Requests, Connect(c, r) PROVE UNCHANGED disk
      BY <2>2 DEF Connect
    <2>3. ASSUME NEW c \in Clients,
                 ShortRead(c) \/ AddFull(c) \/ AddExisting(c) \/ AddNew(c) \/ Get(c)
                 \/ DeleteExisting(c) \/ DeleteMissing(c) \/ List(c) \/ Update(c)
                 \/ Unlock(c) \/ Reply(c) \/ ListOverruns(c)
          PROVE  UNCHANGED disk
      BY <2>3 DEF ListOverruns, ShortRead, AddFull, AddExisting, AddNew, Get, DeleteExisting,
           DeleteMissing, List, Update, Unlock, Reply, Enter
    <2> QED BY <2>1, <2>2, <2>3, <1>5 DEF Next, Thread
  <1> QED BY <1>1, <1>2, <1>3, <1>4, <1>5

\* Every step keeps the file equal to memory outside the save.
LEMMA StepDurable == IInv /\ [Next]_vars => DurableInv'
  <1> SUFFICES ASSUME IInv, [Next]_vars, Faults \cap {"save", "load"} = {}, proc' = "up",
                      \A c \in Clients : pc'[c] \notin {"saving", "writing"}
               PROVE  (disk.count = item_count /\ \A i \in Used : disk.items[i] = items[i])'
    BY DEF DurableInv
  <1>t. TypeOK /\ LockInv /\ DurableInv /\ UniqueNames
    BY DEF IInv
  <1>f. "save" \notin Faults /\ "load" \notin Faults
    OBVIOUS
  <1>u. ASSUME proc = "up", \A c \in Clients : pc[c] \notin {"saving", "writing"},
               UNCHANGED <<disk, items, item_count>>
        PROVE  (disk.count = item_count /\ \A i \in Used : disk.items[i] = items[i])'
    BY <1>u, <1>t DEF DurableInv, Used
  <1>1. CASE LoadKey \/ GenerateKey \/ WriteKey \/ Ends
    BY <1>1 DEF LoadKey, GenerateKey, WriteKey, Ends
  <1>2. CASE kc_load
    BY <1>2, <1>f DEF kc_load, Used
  <1>3. ASSUME NEW c \in Clients, SaveWrite(c)
        PROVE  (disk.count = item_count /\ \A i \in Used : disk.items[i] = items[i])'
    BY <1>3, <1>f, <1>t, SaveKept DEF SaveWrite, Used
  <1>4. ASSUME NEW c \in Clients, SaveOpen(c) \/ AddExisting(c) \/ AddNew(c) \/ DeleteExisting(c)
        PROVE  FALSE
    BY <1>4, <1>f, <1>t DEF SaveOpen, AddExisting, AddNew, DeleteExisting, Enter, TypeOK
  <1>5. ASSUME NEW c \in Clients,
               (\E r \in Requests : Connect(c, r)) \/ ShortRead(c) \/ AddFull(c) \/ Get(c)
               \/ DeleteMissing(c) \/ List(c) \/ Update(c) \/ Unlock(c) \/ Reply(c)
        PROVE  /\ UNCHANGED <<proc, disk, items, item_count>>
               /\ \A d \in Clients : pc[d] \notin {"saving", "writing"}
    <2>1. UNCHANGED <<proc, disk, items, item_count>>
      BY <1>5 DEF Connect, ShortRead, AddFull, Get, DeleteMissing, List, Update, Unlock, Reply,
           Enter
    <2>2. \A d \in Clients : d # c => pc'[d] = pc[d]
      BY <1>5, <1>t DEF Connect, ShortRead, AddFull, Get, DeleteMissing, List, Update, Unlock,
           Reply, Enter, TypeOK
    <2>3. pc[c] \notin {"saving", "writing"}
      BY <1>5 DEF Connect, ShortRead, AddFull, Get, DeleteMissing, List, Update, Unlock, Reply,
           Enter
    <2> QED BY <2>1, <2>2, <2>3
  <1>6. CASE UNCHANGED vars
    BY <1>6, <1>u DEF vars
  <1> QED BY <1>1, <1>2, <1>3, <1>4, <1>5, <1>6, <1>u DEF Next, Thread, Crash, ListOverruns

\* Every step keeps the key in memory the one the items were encrypted with.
LEMMA StepKey == IInv /\ [Next]_vars => KeyInv'
  <1> SUFFICES ASSUME IInv, [Next]_vars PROVE KeyInv'
    OBVIOUS
  <1>t. TypeOK /\ LockInv /\ KeyInv
    BY DEF IInv
  <1>1. CASE LoadKey \/ GenerateKey \/ WriteKey
    BY <1>1, <1>t DEF LoadKey, GenerateKey, WriteKey, KeyInv, KeyIn, TypeOK, Keys, Used
  <1>2. CASE kc_load
    BY <1>2, <1>t DEF kc_load, KeyInv, KeyIn, Used
  <1>3. CASE Crash
    <2>1. keyFile = "absent" => UNCHANGED disk
      BY <1>3, <1>t DEF Crash, KeyInv, LockInv
    <2> QED BY <2>1, <1>3, <1>t DEF Crash, Ends, KeyInv, TypeOK, LockInv, KeyIn
  <1>3l. ASSUME NEW c \in Clients, ListOverruns(c) PROVE KeyInv'
    BY <1>3l, <1>t DEF ListOverruns, Ends, KeyInv, TypeOK, LockInv, KeyIn
  <1>4. ASSUME proc = "up", UNCHANGED <<proc, keyFile, kc_key>>,
               \A i \in 1..item_count' :
                   \/ items'[i].key = kc_key
                   \/ \E j \in Used : items'[i] = items[j]
        PROVE  KeyInv'
    BY <1>4, <1>t DEF KeyInv, KeyIn, Used
  <1>5. ASSUME NEW c \in Clients, NEW op, NEW r, NEW next, Enter(c, op, r, next)
        PROVE  proc = "up" /\ UNCHANGED <<proc, keyFile, kc_key>>
    BY <1>5, <1>t DEF Enter, LockInv, TypeOK
  <1>6. ASSUME NEW c \in Clients, AddExisting(c) \/ AddNew(c) PROVE KeyInv'
    <2>1. \A i \in 1..item_count' : items'[i].key = kc_key \/ (i \in Used /\ items'[i] = items[i])
      BY <1>6, <1>t, KeychainAssumption DEF AddExisting, AddNew, TypeOK, Used, Slots
    <2> QED BY <2>1, <1>4, <1>5, <1>6 DEF AddExisting, AddNew
  <1>7. ASSUME NEW c \in Clients, DeleteExisting(c) PROVE KeyInv'
    <2>1. \A i \in 1..item_count' : \E j \in Used : items'[i] = items[j]
      <3> SUFFICES ASSUME NEW i \in 1..(item_count - 1)
                   PROVE  \E j \in Used : items'[i] = items[j]
        BY <1>7 DEF DeleteExisting
      <3>1. i \in Slots /\ i \in Used /\ i + 1 \in Used
        BY <1>t, KeychainAssumption DEF TypeOK, Used, Slots
      <3>2. items'[i] = items[i] \/ items'[i] = items[i + 1]
        BY <3>1, <1>7 DEF DeleteExisting
      <3> QED BY <3>1, <3>2
    <2> QED BY <2>1, <1>4, <1>5, <1>7 DEF DeleteExisting
  <1>8. ASSUME NEW c \in Clients,
               (\E r \in Requests : Connect(c, r)) \/ ShortRead(c) \/ AddFull(c) \/ Get(c)
               \/ DeleteMissing(c) \/ List(c) \/ Update(c) \/ SaveOpen(c) \/ SaveWrite(c)
               \/ Unlock(c) \/ Reply(c)
        PROVE  KeyInv'
    <2>1. proc = "up"
      BY <1>8, <1>t DEF LockInv, Connect, ShortRead, AddFull, Get, DeleteMissing, List, Update,
           SaveOpen, SaveWrite, Unlock, Reply, Enter
    <2>2. UNCHANGED <<proc, keyFile, kc_key, items, item_count>>
      BY <1>8 DEF Connect, ShortRead, AddFull, Get, DeleteMissing, List, Update, SaveOpen,
           SaveWrite, Unlock, Reply, Enter
    <2> QED BY <2>1, <2>2, <1>4 DEF Used
  <1>9. CASE UNCHANGED vars
    BY <1>9, <1>t DEF vars, KeyInv, Used
  <1> QED BY <1>1, <1>2, <1>3, <1>3l, <1>6, <1>7, <1>8, <1>9 DEF Next, Thread

\* The invariant holds of every reachable state of the keychain service.
THEOREM Invariant == Spec => []IInv
  <1>1. IInv /\ [Next]_vars => IInv'
    BY StepType, StepLock, StepUnique, StepOnDisk, StepDurable, StepKey DEF IInv
  <1> QED BY InitIInv, <1>1, PTL DEF Spec

\* Memory, database file, lock, key and the threads' requests keep their types.
THEOREM TypeCorrect == Spec => []TypeOK
  BY Invariant, PTL DEF IInv

\* A name never has two items in memory that hold something, and the one that does comes
\* first, so a find, an update or a delete takes the right one.
THEOREM NamesStayUnique == Spec => []UniqueNames
  BY Invariant, PTL DEF IInv

\* Nor has it in what a crash, in the middle of a save or not, left in the file, which the
\* next start loads.
THEOREM DiskStaysUnique == Spec => []UniqueOnDisk
  BY Invariant, PTL DEF IInv

\* Once no request is inside the critical section, its effect is in the file.
THEOREM Durability == Spec => []AcknowledgedIsDurable
  <1>1. IInv => AcknowledgedIsDurable
    BY KeychainAssumption DEF IInv, TypeOK, LockInv, DurableInv, AcknowledgedIsDurable
  <1> QED BY <1>1, Invariant, PTL

\* The next start of the service decrypts with the key this one encrypts with.
THEOREM KeyStability == Spec => []KeySurvivesRestart
  <1>1. IInv => KeySurvivesRestart
    BY DEF IInv, KeyInv, KeySurvivesRestart
  <1> QED BY <1>1, Invariant, PTL

-----------------------------------------------------------------------------
(* Refinement of KeychainStore *)

\* A name reads as the item that carries it and holds something, and as nothing if none
\* does.
LEMMA ContentsAt ==
    ASSUME NEW count \in Nat, NEW its, NEW key, OneEach(count, its), NEW n \in Names
    PROVE  /\ \A i \in 1..count : its[i].name = n /\ its[i].data # Junk
                  => Contents(count, its, key)[n] = View(its[i], key)
           /\ (\A i \in 1..count : its[i].name = n => its[i].data = Junk)
                  => Contents(count, its, key)[n] = None
  <1> DEFINE S == {i \in 1..count : its[i].name = n}
  <1>0. n # Blank
    BY KeychainAssumption
  <1>1. Contents(count, its, key)[n] = IF S # {} THEN View(its[First(S)], key) ELSE None
    BY DEF Contents
  <1>2. S # {} => First(S) \in S /\ \A j \in S : First(S) <= j
    <2>1. S \subseteq Nat
      OBVIOUS
    <2> QED BY <2>1, FirstIn
  <1>3. ASSUME NEW i \in 1..count, its[i].name = n, its[i].data # Junk
        PROVE  Contents(count, its, key)[n] = View(its[i], key)
    <2>1. i \in S
      BY <1>3
    <2>2. First(S) \in 1..count /\ its[First(S)].name = n /\ First(S) <= i
      BY <2>1, <1>2
    <2> HIDE DEF S
    <2>3. ~(First(S) < i)
      BY <2>2, <1>0, <1>3 DEF OneEach
    <2>4. First(S) = i
      BY <2>2, <2>3
    <2> QED BY <2>1, <2>4, <1>1
  <1>4. ASSUME \A i \in 1..count : its[i].name = n => its[i].data = Junk
        PROVE  Contents(count, its, key)[n] = None
    <2>1. CASE S = {}
      BY <2>1, <1>1
    <2>2. CASE S # {}
      <3>1. its[First(S)].data = Junk
        BY <2>2, <1>2, <1>4
      <3> QED BY <3>1, <2>2, <1>1 DEF View, Readable
    <2> QED BY <2>1, <2>2
  <1> QED BY <1>3, <1>4

\* An empty array reads as nothing.
LEMMA ContentsEmpty ==
    ASSUME NEW its, NEW key
    PROVE  Contents(0, its, key) = [n \in Names |-> None]
  BY DEF Contents

\* Under the invariant, whatever a save leaves in the file reads as a part of what
\* memory reads as.
LEMMA LeftoverReads ==
    ASSUME IInv, proc = "up", NEW P \in Leftovers \cup {Saved}
    PROVE  \E S \in SUBSET Names :
              Contents(P.count, P.items, KeyIn(keyFile)) = Store!Restrict(InMemory, S)
  <1> DEFINE m == Contents(P.count, P.items, KeyIn(keyFile))
             S == {n \in Names : m[n] # None}
  <1>1. Kept(P)
    BY SaveKept DEF IInv
  <1>2. OneEach(item_count, items) /\ OneEach(item_count, P.items) /\ item_count \in Nat
    BY <1>1, KeychainAssumption DEF IInv, TypeOK, UniqueNames, Kept
  <1>3. P.count = item_count
    BY <1>1 DEF Kept
  <1>4. \A i \in Used : P.items[i] = items[i] \/ P.items[i].data = Junk
    BY <1>1 DEF Kept
  <1>5. ASSUME NEW n \in Names, m[n] # None PROVE m[n] = InMemory[n]
    <2>1. PICK i \in Used : P.items[i].name = n /\ P.items[i].data # Junk
      BY <1>2, <1>3, <1>5, ContentsAt DEF Used
    <2>2. m[n] = View(P.items[i], KeyIn(keyFile))
      BY <1>2, <1>3, <2>1, ContentsAt DEF Used
    <2>3. Readable(P.items[i], KeyIn(keyFile))
      BY <2>2, <1>5 DEF View
    <2>4. P.items[i] = items[i]
      BY <2>1, <1>4
    <2>5. kc_key = KeyIn(keyFile)
      BY <2>3, <2>4 DEF IInv, KeyInv, Readable
    <2>6. InMemory[n] = View(items[i], kc_key)
      BY <1>2, <2>1, <2>4, ContentsAt DEF InMemory, Used
    <2> QED BY <2>2, <2>4, <2>5, <2>6
  <1>6. m = Store!Restrict(InMemory, S)
    <2>1. ASSUME NEW n \in Names PROVE m[n] = Store!Restrict(InMemory, S)[n]
      BY <1>5 DEF Store!Restrict
    <2> QED BY <2>1 DEF Store!Restrict, Contents
  <1> HIDE DEF m, S
  <1> QED BY <1>6 DEF S, m

\* A change of memory that makes one name read as v and leaves the others alone.
LEMMA ReadsAfter ==
    ASSUME NEW n \in Names, NEW v, proc = "up", proc' = "up",
           InMemory'[n] = v,
           \A x \in Names : x # n => InMemory'[x] = InMemory[x]
    PROVE  InMemory' = [InMemory EXCEPT ![n] = v]
  <1>1. InMemory = [x \in Names |-> InMemory[x]] /\ InMemory' = [x \in Names |-> InMemory'[x]]
    BY DEF InMemory, Contents
  <1> QED BY <1>1

\* Storing an item in memory makes its name read as the new secret.
LEMMA AddReads ==
    ASSUME IInv, IInv', NEW c \in Clients, AddExisting(c) \/ AddNew(c)
    PROVE  InMemory' = [InMemory EXCEPT ![req[c].name] = Store!Visible(req[c].data)]
  <1> DEFINE n  == req[c].name
             it == [name |-> n, data |-> req[c].data, key |-> kc_key]
  <1>1. n \in Names /\ req[c].data \in Data
    BY RequestNames DEF IInv, AddExisting, AddNew, Enter
  <1>2. proc = "up" /\ proc' = "up" /\ kc_key' = kc_key
    BY DEF IInv, TypeOK, LockInv, AddExisting, AddNew, Enter
  <1>3. /\ OneEach(item_count, items) /\ OneEach(item_count', items')
        /\ item_count \in Nat /\ item_count' \in Nat
    BY KeychainAssumption DEF IInv, UniqueNames, OneEach, TypeOK
  <1>4. PICK k \in Slots : /\ items' = [items EXCEPT ![k] = it]
                           /\ k \in 1..item_count'
                           /\ \A i \in 1..item_count' : i # k =>
                                 i \in Used /\ (items[i].name = n => items[i].data = Junk)
                           /\ \A i \in Used : i \in 1..item_count'
                           /\ k \in Used => items[k].name = n
    <2>1. CASE AddExisting(c)
      <3>1. SlotsOf(n) # {}
        BY <2>1 DEF AddExisting
      <3>2. /\ kc_find(n) \in Used /\ kc_find(n) \in Slots /\ items[kc_find(n)].name = n
            /\ \A j \in SlotsOf(n) : j # kc_find(n) => items[j].data = Junk
        BY <3>1, <1>1, FindFirst DEF IInv
      <3>3. items' = [items EXCEPT ![kc_find(n)] = it] /\ item_count' = item_count
        BY <2>1 DEF AddExisting
      <3>4. \A i \in Used : i # kc_find(n) => (items[i].name = n => items[i].data = Junk)
        BY <3>2 DEF SlotsOf
      <3> QED BY <3>2, <3>3, <3>4 DEF Used
    <2>2. CASE AddNew(c)
      <3>1. item_count + 1 \in Slots /\ item_count' = item_count + 1
        BY <2>2, KeychainAssumption DEF AddNew, IInv, TypeOK, Slots
      <3>2. \A i \in Used : items[i].name # n
        BY <2>2 DEF AddNew, SlotsOf
      <3>3. /\ item_count + 1 \in 1..item_count' /\ item_count + 1 \notin Used
            /\ \A i \in 1..item_count' : i # item_count + 1 => i \in Used
            /\ \A i \in Used : i \in 1..item_count'
        BY <3>1 DEF IInv, TypeOK, Used
      <3> QED BY <2>2, <3>1, <3>2, <3>3 DEF AddNew
    <2> QED BY <2>1, <2>2
  <1>5. items'[k] = it /\ \A i \in Slots : i # k => items'[i] = items[i]
    BY <1>4 DEF IInv, TypeOK
  <1>s. \A i \in Used : i \in Slots
    BY KeychainAssumption DEF IInv, TypeOK, Used, Slots
  <1>6. InMemory'[n] = Store!Visible(req[c].data)
    <2>1. InMemory'[n] = View(it, kc_key)
      <3>1. it.name = n /\ it.data # Junk
        BY <1>1, KeychainAssumption
      <3>2. k \in 1..item_count' /\ items'[k] = it
        BY <1>4, <1>5
      <3>3. InMemory' = Contents(item_count', items', kc_key)
        BY <1>2 DEF InMemory
      <3> HIDE DEF it, n
      <3> QED BY <3>1, <3>2, <3>3, <1>1, <1>3, ContentsAt
    <2>2. View(it, kc_key) = Store!Visible(req[c].data)
      BY <1>1, KeychainAssumption DEF View, Readable, Store!Visible
    <2> QED BY <2>1, <2>2
  <1>7. ASSUME NEW x \in Names, x # n PROVE InMemory'[x] = InMemory[x]
    <2>1. CASE \E i \in Used : items[i].name = x /\ items[i].data # Junk
      <3>1. PICK i \in Used : items[i].name = x /\ items[i].data # Junk
        BY <2>1
      <3>2. i # k /\ i \in 1..item_count' /\ items'[i] = items[i]
        BY <3>1, <1>4, <1>5, <1>7, <1>s
      <3>3. InMemory'[x] = View(items[i], kc_key)
        BY <3>1, <3>2, <1>2, <1>3, ContentsAt DEF InMemory
      <3>4. InMemory[x] = View(items[i], kc_key)
        BY <3>1, <1>2, <1>3, ContentsAt DEF InMemory, Used
      <3> QED BY <3>3, <3>4
    <2>2. CASE \A i \in Used : items[i].name = x => items[i].data = Junk
      <3>1. \A i \in 1..item_count' : items'[i].name = x => items'[i].data = Junk
        <4>1. it.name = n
          OBVIOUS
        <4> HIDE DEF it, n
        <4> QED BY <4>1, <2>2, <1>4, <1>5, <1>7, <1>s
      <3>2. InMemory'[x] = None
        BY <3>1, <1>2, <1>3, ContentsAt DEF InMemory
      <3>3. InMemory[x] = None
        BY <2>2, <1>2, <1>3, ContentsAt DEF InMemory, Used
      <3> QED BY <3>2, <3>3
    <2> QED BY <2>1, <2>2
  <1> HIDE DEF n, it
  <1>8. InMemory' = [InMemory EXCEPT ![n] = Store!Visible(req[c].data)]
    BY <1>1, <1>2, <1>6, <1>7, ReadsAfter
  <1> QED BY <1>8 DEF n

\* Removing an item from memory makes its name, and only it, read as nothing.
LEMMA DeleteReads ==
    ASSUME IInv, IInv', NEW c \in Clients, DeleteExisting(c)
    PROVE  InMemory' = [InMemory EXCEPT ![req[c].name] = None]
  <1> DEFINE n == req[c].name
  <1>1. n \in Names
    BY RequestNames DEF IInv, DeleteExisting, Enter
  <1>2. proc = "up" /\ proc' = "up" /\ kc_key' = kc_key
    BY DEF IInv, TypeOK, LockInv, DeleteExisting, Enter
  <1>3. /\ OneEach(item_count, items) /\ OneEach(item_count', items')
        /\ item_count \in Nat /\ item_count' \in Nat
    BY KeychainAssumption DEF IInv, UniqueNames, OneEach, TypeOK
  <1> DEFINE k == kc_find(n)
             from(i) == IF k <= i THEN i + 1 ELSE i
  <1>5. /\ k \in Used /\ k \in Slots /\ items[k].name = n
        /\ \A j \in SlotsOf(n) : j # k => items[j].data = Junk
    BY <1>1, FindFirst DEF IInv, DeleteExisting
  <1>d. /\ item_count' = item_count - 1
        /\ items' = [i \in Slots |-> IF k <= i /\ i < item_count THEN items[i + 1] ELSE items[i]]
    BY DEF DeleteExisting
  <1> HIDE DEF k
  <1>6. \A i \in 1..item_count' : from(i) \in Used /\ from(i) # k /\ items'[i] = items[from(i)]
    BY <1>5, <1>d, KeychainAssumption DEF IInv, TypeOK, Used, Slots
  <1>7. \A j \in Used : j # k => \E i \in 1..item_count' : items'[i] = items[j]
    <2> SUFFICES ASSUME NEW j \in Used, j # k
                 PROVE  \E i \in 1..item_count' : items'[i] = items[j]
      OBVIOUS
    <2>1. item_count' = item_count - 1
      BY <1>d
    <2>2. CASE j < k
      <3>1. j \in 1..item_count' /\ from(j) = j
        BY <2>1, <2>2, <1>5 DEF IInv, TypeOK, Used
      <3> QED BY <3>1, <1>6
    <2>3. CASE j > k
      <3>1. j - 1 \in 1..item_count' /\ from(j - 1) = j
        BY <2>1, <2>3, <1>5 DEF IInv, TypeOK, Used
      <3> QED BY <3>1, <1>6
    <2> QED BY <2>2, <2>3, <1>5 DEF Used, IInv, TypeOK
  <1> HIDE DEF from
  <1>8. \A j \in Used : j # k /\ items[j].name = n => items[j].data = Junk
    BY <1>5 DEF SlotsOf
  <1>9. InMemory'[n] = None
    <2>1. \A i \in 1..item_count' : items'[i].name = n => items'[i].data = Junk
      BY <1>6, <1>8
    <2> QED BY <2>1, <1>1, <1>2, <1>3, ContentsAt DEF InMemory
  <1>10. ASSUME NEW x \in Names, x # n PROVE InMemory'[x] = InMemory[x]
    <2>1. CASE \E j \in Used : items[j].name = x /\ items[j].data # Junk
      <3>1. PICK j \in Used : items[j].name = x /\ items[j].data # Junk
        BY <2>1
      <3>2. PICK i \in 1..item_count' : items'[i] = items[j]
        BY <3>1, <1>5, <1>7, <1>10
      <3>3. InMemory'[x] = View(items[j], kc_key)
        BY <3>1, <3>2, <1>2, <1>3, ContentsAt DEF InMemory
      <3>4. InMemory[x] = View(items[j], kc_key)
        BY <3>1, <1>2, <1>3, ContentsAt DEF InMemory, Used
      <3> QED BY <3>3, <3>4
    <2>2. CASE \A j \in Used : items[j].name = x => items[j].data = Junk
      <3>1. \A i \in 1..item_count' : items'[i].name = x => items'[i].data = Junk
        BY <2>2, <1>6
      <3>2. InMemory'[x] = None /\ InMemory[x] = None
        BY <3>1, <2>2, <1>2, <1>3, ContentsAt DEF InMemory, Used
      <3> QED BY <3>2
    <2> QED BY <2>1, <2>2
  <1> HIDE DEF n
  <1>11. InMemory' = [InMemory EXCEPT ![n] = None]
    BY <1>1, <1>2, <1>9, <1>10, ReadsAfter
  <1> QED BY <1>11 DEF n

\* Every step of the service is a step of the abstract store or changes nothing
\* a client could see.
LEMMA StoreStep ==
    ASSUME IInv, IInv', [Next]_vars
    PROVE  [Store!SNext]_(Store!svars)
  <1>t. TypeOK /\ LockInv /\ KeyInv
    BY DEF IInv
  <1>d. ASSUME UNCHANGED <<disk, keyFile>> PROVE UNCHANGED OnDisk
    BY <1>d DEF OnDisk, Contents, KeyIn, Readable, View, First
  <1>m. ASSUME UNCHANGED <<disk, keyFile, proc, items, item_count, kc_key>>
        PROVE  UNCHANGED <<InMemory, OnDisk>>
    BY <1>m, <1>d DEF InMemory, Contents, Readable, View, First
  <1>z. ASSUME disk.count = 0 PROVE OnDisk = [n \in Names |-> None]
    BY <1>z, ContentsEmpty DEF OnDisk
  <1>z2. ASSUME disk'.count = 0 PROVE OnDisk' = [n \in Names |-> None]
    BY <1>z2, ContentsEmpty DEF OnDisk
  <1>e. \A m : Store!Restrict(m, {}) = [n \in Names |-> None]
    BY DEF Store!Restrict
  <1>f. Store!Success = Success /\ Store!Failure = Failure /\ Store!NoRequest = NoRequest
    BY DEF Store!Success, Store!Failure, Success, Failure, Store!NoRequest, NoRequest
  <1>w. ASSUME NEW c \in Clients, NEW next, pc' = [pc EXCEPT ![c] = next]
        PROVE  Unserved' = [Unserved EXCEPT ![c] = (next = "request")]
    BY <1>w, <1>t DEF Unserved, TypeOK
  <1>v. ASSUME NEW c \in Clients, NEW next, next # "request", pc[c] # "request",
               pc' = [pc EXCEPT ![c] = next]
        PROVE  UNCHANGED Unserved
    BY <1>v, <1>t DEF Unserved, TypeOK
  <1>g. ASSUME NEW c \in Clients, NEW op, NEW r, NEW next \in {"saving", "unlock"},
               Enter(c, op, r, next)
        PROVE  /\ proc = "up" /\ proc' = "up"
               /\ UNCHANGED <<disk, keyFile, kc_key, OnDisk>>
               /\ Store!Take(c, op, r)
    <2>1. proc = "up" /\ proc' = "up" /\ UNCHANGED <<disk, keyFile, kc_key, OnDisk>>
      BY <1>g, <1>t, <1>d DEF Enter, LockInv, TypeOK
    <2>2. Unserved[c] /\ Unserved' = [Unserved EXCEPT ![c] = FALSE]
      BY <1>g, <1>w DEF Enter, Unserved
    <2> QED BY <1>g, <2>1, <2>2 DEF Enter, Store!Take
  <1>1. CASE LoadKey \/ GenerateKey \/ WriteKey
    <2>1. proc # "up" /\ proc' # "up" /\ UNCHANGED <<disk, pc, req, resp>>
      BY <1>1 DEF LoadKey, GenerateKey, WriteKey, clientVars
    <2>2. UNCHANGED OnDisk
      <3>1. CASE LoadKey
        BY <3>1, <1>d DEF LoadKey
      <3>2. CASE GenerateKey \/ WriteKey
        <4>1. disk.count = 0 /\ disk'.count = 0
          BY <3>2, <2>1, <1>t DEF GenerateKey, WriteKey, KeyInv
        <4> QED BY <4>1, <1>z, <1>z2
      <3> QED BY <3>1, <3>2, <1>1
    <2>3. UNCHANGED InMemory
      BY <2>1, <2>2 DEF InMemory
    <2> QED BY <2>1, <2>2, <2>3 DEF Store!svars, Unserved
  <1>2. CASE kc_load
    <2>1. /\ UNCHANGED <<OnDisk, req, resp, Unserved>>
          /\ InMemory = OnDisk /\ kc_key' = kc_key
      BY <1>2, <1>d DEF kc_load, InMemory, clientVars, Unserved
    <2>2. CASE items' = disk.items /\ item_count' = disk.count
      <3>1. InMemory' = Contents(disk.count, disk.items, kc_key)
        BY <1>2, <2>2 DEF kc_load, InMemory
      <3>2. CASE kc_key = KeyIn(keyFile)
        BY <3>1, <3>2, <2>1 DEF OnDisk, Store!svars
      <3>3. CASE kc_key # KeyIn(keyFile)
        <4>1. disk.count = 0
          BY <1>2, <3>3, <1>t DEF kc_load, KeyInv
        <4> QED BY <4>1, <3>1, <2>1, <1>z, ContentsEmpty DEF Store!svars
      <3> QED BY <3>2, <3>3
    <2>3. CASE item_count' = 0
      <3>1. InMemory' = [n \in Names |-> None]
        BY <1>2, <2>3, ContentsEmpty DEF kc_load, InMemory
      <3>2. Store!Forget
        BY <3>1, <2>1 DEF Store!Forget
      <3> QED BY <3>2 DEF Store!SNext
    <2> QED BY <2>2, <2>3, <1>2 DEF kc_load
  <1>3. ASSUME Ends, OnDisk' = OnDisk \/ \E S \in SUBSET Names : OnDisk' = Store!Restrict(InMemory, S)
        PROVE  Store!SNext
    <2>1. /\ InMemory' = OnDisk'
          /\ resp' = [c \in Clients |-> Success] /\ req' = [c \in Clients |-> NoRequest]
          /\ Unserved' = [c \in Clients |-> FALSE]
      BY <1>3 DEF Ends, InMemory, Unserved
    <2>2. Store!Die
      BY <2>1, <1>3, <1>f DEF Store!Die
    <2> QED BY <2>2 DEF Store!SNext
  <1>3c. CASE Crash
    <2>1. CASE UNCHANGED disk
      BY <2>1, <1>3c, <1>d, <1>3 DEF Crash, Ends
    <2>2. CASE disk' = [count |-> 0, items |-> NoItems]
      BY <2>2, <1>3c, <1>z2, <1>e, <1>3 DEF Crash
    <2>3. ASSUME disk' \in Leftovers, NEW c \in Clients, pc[c] = "writing"
          PROVE  \E S \in SUBSET Names : OnDisk' = Store!Restrict(InMemory, S)
      <3>1. proc = "up" /\ keyFile' = keyFile
        BY <2>3, <1>3c, <1>t DEF LockInv, Crash, Ends
      <3>2. OnDisk' = Contents(disk'.count, disk'.items, KeyIn(keyFile))
        BY <3>1 DEF OnDisk
      <3> QED BY <2>3, <3>1, <3>2, LeftoverReads
    <2> QED BY <2>1, <2>2, <2>3, <1>3, <1>3c DEF Crash
  <1>3l. ASSUME NEW c \in Clients, ListOverruns(c) PROVE Store!SNext
    BY <1>3l, <1>d, <1>3 DEF ListOverruns, Ends
  <1>4. ASSUME NEW c \in Clients, NEW r \in Requests, Connect(c, r) PROVE Store!SNext
    <2>1. UNCHANGED <<InMemory, OnDisk>>
      BY <1>4, <1>m DEF Connect
    <2>2. ~Unserved[c] /\ Unserved' = [Unserved EXCEPT ![c] = TRUE]
      BY <1>4, <1>w DEF Connect, Unserved
    <2>3. Store!Ask(c, r)
      BY <1>4, <2>1, <2>2 DEF Connect, Store!Ask
    <2>4. r \in Store!Requests
      BY DEF Store!Requests, Requests
    <2> QED BY <2>3, <2>4 DEF Store!SNext
  <1>5. ASSUME NEW c \in Clients, ShortRead(c) PROVE Store!SNext
    <2>1. UNCHANGED <<InMemory, OnDisk>>
      BY <1>5, <1>m DEF ShortRead
    <2>2. Unserved[c] /\ Unserved' = [Unserved EXCEPT ![c] = FALSE]
      <3>1. pc' = [pc EXCEPT ![c] = "reply"] /\ pc[c] = "request"
        BY <1>5 DEF ShortRead
      <3>2. Unserved' = [Unserved EXCEPT ![c] = ("reply" = "request")]
        BY <3>1, <1>w
      <3>3. ("reply" = "request") = FALSE
        OBVIOUS
      <3> QED BY <3>1, <3>2, <3>3 DEF Unserved
    <2>3. Store!Refuse(c)
      BY <1>5, <2>1, <2>2, <1>f DEF ShortRead, Store!Refuse, Store!Take
    <2> QED BY <2>3 DEF Store!SNext
  <1>6. ASSUME NEW c \in Clients, AddFull(c) \/ Update(c) PROVE Store!SNext
    <2>1. UNCHANGED <<InMemory, OnDisk>>
      BY <1>6, <1>m, <1>g DEF AddFull, Update
    <2>2. Store!Refuse(c) \/ Store!Ignore(c)
      BY <1>6, <2>1, <1>f, <1>g DEF AddFull, Update, Store!Refuse, Store!Ignore
    <2> QED BY <2>2 DEF Store!SNext
  <1>7. ASSUME NEW c \in Clients, AddExisting(c) \/ AddNew(c) PROVE Store!SNext
    <2>1. Store!Take(c, "add", Success)
      BY <1>7, <1>g DEF AddExisting, AddNew
    <2>2. Store!Put(c)
      BY <2>1, <1>7, <1>f, AddReads DEF Store!Put
    <2> QED BY <2>2 DEF Store!SNext
  <1>8. ASSUME NEW c \in Clients, Get(c) PROVE Store!SNext
    <2> DEFINE n  == req[c].name
               it == items[kc_find(n)]
               ok == SlotsOf(n) # {} /\ Readable(it, kc_key) /\ it.data # Empty
               r  == IF ok THEN [Success EXCEPT !.data = it.data] ELSE Failure
    <2>1. Enter(c, "get", r, "unlock") /\ UNCHANGED <<items, item_count>>
      BY <1>8 DEF Get
    <2>2. n \in Names /\ proc = "up" /\ OneEach(item_count, items)
      BY <2>1, <1>g, <1>t, RequestNames DEF Enter, IInv, UniqueNames
    <2>0. item_count \in Nat
      BY <1>t, KeychainAssumption DEF TypeOK
    <2>3. UNCHANGED InMemory /\ Store!Take(c, "get", r)
      BY <2>1, <1>m, <1>g
    <2>4. InMemory[n] = IF ok THEN it.data ELSE None
      <3>1. CASE SlotsOf(n) = {}
        <4>1. \A i \in Used : items[i].name # n
          BY <3>1 DEF SlotsOf
        <4> QED BY <4>1, <3>1, <2>0, <2>2, ContentsAt DEF InMemory, Used
      <3>2. CASE SlotsOf(n) # {}
        <4>1. /\ kc_find(n) \in Used /\ items[kc_find(n)].name = n
              /\ \A j \in SlotsOf(n) : j # kc_find(n) => items[j].data = Junk
          BY <3>2, <2>2, FindFirst DEF IInv
        <4>2. CASE it.data # Junk
          <5>1. InMemory[n] = View(it, kc_key)
            BY <4>1, <4>2, <2>0, <2>2, ContentsAt DEF InMemory, Used
          <5> QED BY <5>1, <3>2 DEF View
        <4>3. CASE it.data = Junk
          <5>1. \A i \in Used : items[i].name = n => items[i].data = Junk
            BY <4>1, <4>3 DEF SlotsOf
          <5>2. InMemory[n] = None
            BY <5>1, <2>0, <2>2, ContentsAt DEF InMemory, Used
          <5> QED BY <5>2, <4>3 DEF Readable
        <4> QED BY <4>2, <4>3
      <3> QED BY <3>1, <3>2
    <2>5. ok => it.data # None
      <3>1. ASSUME ok PROVE it.data # None
        <4>1. it \in Items
          BY <3>1, <2>2, FindFirst DEF IInv, TypeOK
        <4> QED BY <4>1, <3>1, KeychainAssumption DEF Items, Readable
      <3> QED BY <3>1
    <2>6. r = IF InMemory[n] = None THEN Failure ELSE [Success EXCEPT !.data = InMemory[n]]
      <3> HIDE DEF it, ok
      <3> QED BY <2>4, <2>5
    <2> HIDE DEF r
    <2>7. Store!Get(c)
      BY <2>3, <2>6, <1>f DEF Store!Get
    <2> QED BY <2>7 DEF Store!SNext
  <1>9. ASSUME NEW c \in Clients, DeleteExisting(c) PROVE Store!SNext
    <2>1. Store!Take(c, "delete", Success)
      BY <1>9, <1>g DEF DeleteExisting
    <2>2. Store!Delete(c)
      BY <2>1, <1>9, <1>f, DeleteReads DEF Store!Delete
    <2> QED BY <2>2 DEF Store!SNext
  <1>10. ASSUME NEW c \in Clients, DeleteMissing(c) PROVE Store!SNext
    <2>1. UNCHANGED InMemory /\ Store!Take(c, "delete", Success) /\ proc = "up"
      BY <1>10, <1>m, <1>g DEF DeleteMissing
    <2>2. req[c].name \in Names /\ OneEach(item_count, items) /\ item_count \in Nat
      BY <1>10, <1>t, RequestNames, KeychainAssumption
      DEF DeleteMissing, Enter, IInv, UniqueNames, TypeOK
    <2>3. InMemory[req[c].name] = None
      <3>1. \A i \in Used : items[i].name # req[c].name
        BY <1>10 DEF DeleteMissing, SlotsOf
      <3> QED BY <3>1, <2>1, <2>2, ContentsAt DEF InMemory, Used
    <2>4. InMemory' = [InMemory EXCEPT ![req[c].name] = None]
      <3>1. InMemory = [x \in Names |-> InMemory[x]]
        BY <2>1 DEF InMemory, Contents
      <3> QED BY <3>1, <2>1, <2>2, <2>3
    <2>5. Store!Delete(c)
      BY <2>1, <2>4, <1>f DEF Store!Delete
    <2> QED BY <2>5 DEF Store!SNext
  <1>11. ASSUME NEW c \in Clients, List(c) PROVE Store!SNext
    <2>0. PICK k \in Fitting :
              Enter(c, "list", [Success EXCEPT !.items = {items[i].name : i \in 1..k},
                                               !.full = (k < item_count)], "unlock")
      BY <1>11 DEF List
    <2> DEFINE L == {items[i].name : i \in 1..k}
               full == k < item_count
    <2>1. UNCHANGED InMemory /\ Store!Take(c, "list", [Success EXCEPT !.items = L, !.full = full])
      BY <2>0, <1>11, <1>m, <1>g DEF List
    <2>2. proc = "up" /\ OneEach(item_count, items) /\ item_count \in Nat /\ k \in 0..item_count
      BY <2>0, <1>g, <1>t, KeychainAssumption DEF IInv, UniqueNames, TypeOK, Fitting
    <2>3. full \/ \A n \in Names : InMemory[n] # None => n \in L
      <3> SUFFICES ASSUME ~full, NEW n \in Names, n \notin L PROVE InMemory[n] = None
        OBVIOUS
      <3>1. k = item_count
        BY <2>2
      <3>2. \A i \in 1..item_count : items[i].name # n
        BY <3>1
      <3> QED BY <3>2, <2>2, ContentsAt DEF InMemory
    <2>4. L \in SUBSET (Names \cup {Blank}) /\ full \in BOOLEAN
      BY <2>2, <1>t, KeychainAssumption DEF TypeOK, Slots, Items
    <2> HIDE DEF L, full
    <2>5. Store!List(c)
      BY <2>1, <2>3, <2>4, <1>f DEF Store!List
    <2> QED BY <2>5 DEF Store!SNext
  <1>12. ASSUME NEW c \in Clients, SaveOpen(c) \/ SaveWrite(c) PROVE [Store!SNext]_(Store!svars)
    <2>1. proc = "up" /\ UNCHANGED <<proc, keyFile, kc_key, items, item_count, req, resp>>
      BY <1>12, <1>t DEF SaveOpen, SaveWrite, LockInv
    <2>2. UNCHANGED InMemory
      BY <2>1 DEF InMemory, Contents, View, Readable, First
    <2>3. UNCHANGED Unserved
      BY <1>12, <1>v DEF SaveOpen, SaveWrite
    <2>4. CASE UNCHANGED disk
      BY <2>1, <2>2, <2>3, <2>4, <1>d DEF Store!svars
    <2>5. CASE disk' = [count |-> 0, items |-> NoItems]
      <3>1. Store!Save
        BY <2>1, <2>2, <2>3, <2>5, <1>z2, <1>e DEF Store!Save
      <3> QED BY <3>1 DEF Store!SNext
    <2>6. ASSUME disk' \in Leftovers \cup {Saved} PROVE Store!SNext
      <3>1. OnDisk' = Contents(disk'.count, disk'.items, KeyIn(keyFile))
        BY <2>1 DEF OnDisk
      <3>2. Store!Save
        BY <3>1, <2>1, <2>2, <2>3, <2>6, LeftoverReads DEF Store!Save
      <3> QED BY <3>2 DEF Store!SNext
    <2> QED BY <1>12, <2>4, <2>5, <2>6 DEF SaveOpen, SaveWrite
  <1>13. ASSUME NEW c \in Clients, Unlock(c) PROVE UNCHANGED Store!svars
    BY <1>13, <1>m, <1>v DEF Unlock, Store!svars
  <1>14. ASSUME NEW c \in Clients, Reply(c) PROVE Store!SNext
    <2>1. UNCHANGED <<InMemory, OnDisk, Unserved>> /\ ~Unserved[c]
      BY <1>14, <1>m, <1>v DEF Reply, Unserved
    <2>2. Store!Done(c)
      BY <1>14, <2>1, <1>f DEF Reply, Store!Done
    <2> QED BY <2>2 DEF Store!SNext
  <1>15. CASE UNCHANGED vars
    BY <1>15, <1>m DEF vars, Store!svars, Unserved
  <1> QED
    BY <1>1, <1>2, <1>3c, <1>3l, <1>4, <1>5, <1>6, <1>7, <1>8, <1>9, <1>10, <1>11, <1>12, <1>13,
       <1>14, <1>15 DEF Next, Thread

\* The keychain service implements the abstract store: through every interleaving
\* of its threads, every kill in the middle of a save, every file fault and every list
\* that runs past its answer, each request takes effect once on a map whose restarts
\* recover at most what it held.
THEOREM Refinement == Spec => ImplementsStore
  <1>1. Init => Store!SInit
    <2> SUFFICES ASSUME Init PROVE Store!SInit
      OBVIOUS
    <2>1. OnDisk = [n \in Names |-> None] /\ InMemory = OnDisk
      BY ContentsEmpty DEF Init, OnDisk, InMemory
    <2>2. Unserved = [c \in Clients |-> FALSE]
      BY DEF Init, Unserved
    <2> QED BY <2>1, <2>2 DEF Init, Store!SInit, Store!Success, Success, Store!NoRequest, NoRequest
  <1>2. IInv /\ IInv' /\ [Next]_vars => [Store!SNext]_(Store!svars)
    BY StoreStep
  <1> QED BY <1>1, <1>2, Invariant, PTL DEF Spec, ImplementsStore, Store!SSpec
==============================================================================
