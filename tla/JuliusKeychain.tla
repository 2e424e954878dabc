---------------------------- MODULE JuliusKeychain ----------------------------
(***************************************************************************)
(* The keychain service (services/julius_keychain/julius_keychain.c): a    *)
(* thread per connection, all of them working on the static array items    *)
(* under kc_lock, and a database file rewritten from scratch by kc_save on *)
(* every change, together with the key file that kc_init_key leaves        *)
(* behind.  The service may be killed at any point and started again.      *)
(*                                                                         *)
(* A ciphertext is modelled by its plaintext and the key it was made with: *)
(* AES-GCM (external) decrypts it under that key and fails under any other.*)
(* Labels and time stamps are left out: nothing reads them.                *)
(***************************************************************************)
EXTENDS Integers, FiniteSets

CONSTANTS Clients, Names, Data, Empty, None, Blank,
          Junk,      \* contents of an item that was never or only partly written
          Stumps,    \* names that another one becomes when its end is lost
          MaxItems,  \* KC_MAX_ITEMS
          ListRoom,  \* items that fit into an answer however long their names are
          Faults     \* what may go wrong around the service

ASSUME KeychainAssumption ==
    /\ Empty \in Data
    /\ None \notin Data \cup Clients
    /\ Junk \notin Data
    /\ Blank \notin Names
    /\ Stumps \subseteq Names
    /\ MaxItems \in Nat \ {0} /\ ListRoom \in Nat
    /\ Faults \subseteq {"crash", "save", "load", "key"}

VARIABLES proc,       \* the process: down, writing its key, keyed, serving
          keyFile,    \* /etc/julius/keychain.key
          kc_key,     \* the key in memory
          items,      \* the array of items in memory
          item_count,
          disk,       \* /etc/julius/keychain.db
          kc_lock,    \* the thread that holds the mutex, or None
          pc,         \* how far the thread serving each client has come
          req,        \* the request each client sent
          resp        \* the response its thread has worked out

vars == <<proc, keyFile, kc_key, items, item_count, disk, kc_lock, pc, req, resp>>

Slots == 1..MaxItems
Keys  == {"generated", "zero"}
Items == [name : Names \cup {Blank}, data : Data \cup {Junk}, key : Keys]
Requests  == [op : {"add"}, name : Names, data : Data]
             \cup [op : {"get", "delete"}, name : Names, data : {Empty}]
             \cup [op : {"list", "update", "short"}, name : {Blank}, data : {Empty}]
Responses == [status : {0, -1}, data : Data \cup {None},
              items : SUBSET (Names \cup {Blank}), full : BOOLEAN]

NoRequest == [op |-> "short", name |-> Blank, data |-> Empty]
BlankItem == [name |-> Blank, data |-> Junk, key |-> "zero"]
NoItems   == [i \in Slots |-> BlankItem]
Success   == [status |-> 0, data |-> None, items |-> {}, full |-> FALSE]
Failure   == [status |-> -1, data |-> None, items |-> {}, full |-> FALSE]

TypeOK ==
    /\ proc \in {"down", "keygen", "keyed", "up"}
    /\ keyFile \in {"absent", "short", "good"}
    /\ kc_key \in Keys
    /\ items \in [Slots -> Items]
    /\ item_count \in 0..MaxItems
    /\ disk \in [count : 0..MaxItems, items : [Slots -> Items]]
    /\ kc_lock \in Clients \cup {None}
    /\ pc \in [Clients -> {"idle", "request", "saving", "writing", "unlock", "reply"}]
    /\ req \in [Clients -> Requests]
    /\ resp \in [Clients -> Responses]

-----------------------------------------------------------------------------
(* kc_find, kc_decrypt *)

Used == 1..item_count

\* The slots holding an item of that name; kc_find takes the first.
SlotsOf(n) == {i \in Used : items[i].name = n}
First(S) == CHOOSE i \in S : \A j \in S : i <= j
kc_find(n) == First(SlotsOf(n))

Readable(it, key) == it.data # Junk /\ it.key = key

\* The key a start of the service takes from the key file: fread of a file cut
\* short leaves the static, zeroed kc_key.
KeyIn(file) == IF file = "short" THEN "zero" ELSE "generated"

-----------------------------------------------------------------------------
Init ==
    /\ proc = "down"
    /\ keyFile = "absent"
    /\ kc_key = "zero"
    /\ items = NoItems
    /\ item_count = 0
    /\ disk = [count |-> 0, items |-> NoItems]
    /\ kc_lock = None
    /\ pc = [c \in Clients |-> "idle"]
    /\ req = [c \in Clients |-> NoRequest]
    /\ resp = [c \in Clients |-> Success]

clientVars == <<kc_lock, pc, req, resp>>

\* kc_init_key with a key file: what the file holds is the key.
LoadKey ==
    /\ proc = "down"
    /\ keyFile # "absent"
    /\ kc_key' = KeyIn(keyFile)
    /\ proc' = "keyed"
    /\ UNCHANGED <<keyFile, items, item_count, disk, clientVars>>

\* kc_init_key without one: a fresh key in memory and the file opened ...
GenerateKey ==
    /\ proc = "down"
    /\ keyFile = "absent"
    /\ kc_key' = "generated"
    /\ keyFile' = "short"
    /\ proc' = "keygen"
    /\ UNCHANGED <<items, item_count, disk, clientVars>>

\* Mutant of WriteKey: the key is never flushed to the file.
WriteKeyUnflushed ==
    /\ proc = "keygen"
    /\ proc' = "keyed"
    /\ UNCHANGED <<keyFile, kc_key, items, item_count, disk, clientVars>>

\* ... then written.  Nobody looks at what fwrite and fclose return.
WriteKey ==
    /\ proc = "keygen"
    /\ \/ keyFile' = "good"
       \/ "key" \in Faults /\ UNCHANGED keyFile
    /\ proc' = "keyed"
    /\ UNCHANGED <<kc_key, items, item_count, disk, clientVars>>

\* kc_load; a database that cannot be opened is taken for a missing one.
kc_load ==
    /\ proc = "keyed"
    /\ \/ items' = disk.items /\ item_count' = disk.count
       \/ "load" \in Faults /\ items' = NoItems /\ item_count' = 0
    /\ proc' = "up"
    /\ UNCHANGED <<keyFile, kc_key, disk, clientVars>>

\* A client connects and sends its request; main starts a thread for it.
Connect(c, r) ==
    /\ proc = "up"
    /\ pc[c] = "idle"
    /\ req' = [req EXCEPT ![c] = r]
    /\ pc' = [pc EXCEPT ![c] = "request"]
    /\ UNCHANGED <<proc, keyFile, kc_key, items, item_count, disk, kc_lock, resp>>

\* A request that arrives short is refused without taking the lock.
ShortRead(c) ==
    /\ pc[c] = "request"
    /\ req[c].op = "short"
    /\ resp' = [resp EXCEPT ![c] = Failure]
    /\ pc' = [pc EXCEPT ![c] = "reply"]
    /\ UNCHANGED <<proc, keyFile, kc_key, items, item_count, disk, kc_lock, req>>

\* The thread takes kc_lock, enters the case of its operation with response r,
\* and goes on to next: "saving" where the case calls kc_save, else "unlock".
Enter(c, op, r, next) ==
    /\ pc[c] = "request"
    /\ req[c].op = op
    /\ kc_lock = None
    /\ kc_lock' = c
    /\ resp' = [resp EXCEPT ![c] = r]
    /\ pc' = [pc EXCEPT ![c] = next]
    /\ UNCHANGED <<proc, keyFile, kc_key, disk, req>>

\* Mutant of AddFull: the refusal returns without unlocking.
AddFullReturns(c) ==
    /\ item_count >= MaxItems
    /\ Enter(c, "add", Failure, "reply")
    /\ UNCHANGED <<items, item_count>>

\* KC_ADD with no room left, even for an item that exists.
AddFull(c) ==
    /\ item_count >= MaxItems
    /\ Enter(c, "add", Failure, "unlock")
    /\ UNCHANGED <<items, item_count>>

\* KC_ADD of a name that is there: encrypted again in its slot.
AddExisting(c) ==
    /\ item_count < MaxItems
    /\ SlotsOf(req[c].name) # {}
    /\ Enter(c, "add", Success, "saving")
    /\ items' = [items EXCEPT ![kc_find(req[c].name)] =
                   [name |-> req[c].name, data |-> req[c].data, key |-> kc_key]]
    /\ UNCHANGED item_count

\* Mutant of AddNew: appends without looking for the name.
AddNewBlindly(c) ==
    /\ item_count < MaxItems
    /\ Enter(c, "add", Success, "saving")
    /\ items' = [items EXCEPT ![item_count + 1] =
                   [name |-> req[c].name, data |-> req[c].data, key |-> kc_key]]
    /\ item_count' = item_count + 1

\* KC_ADD of a new name: appended.
AddNew(c) ==
    /\ item_count < MaxItems
    /\ SlotsOf(req[c].name) = {}
    /\ Enter(c, "add", Success, "saving")
    /\ items' = [items EXCEPT ![item_count + 1] =
                   [name |-> req[c].name, data |-> req[c].data, key |-> kc_key]]
    /\ item_count' = item_count + 1

\* KC_GET: what decrypts to nothing is reported as a failure.
Get(c) ==
    /\ LET n  == req[c].name
           it == items[kc_find(n)]
           ok == SlotsOf(n) # {} /\ Readable(it, kc_key) /\ it.data # Empty
       IN  Enter(c, "get", IF ok THEN [Success EXCEPT !.data = it.data] ELSE Failure, "unlock")
    /\ UNCHANGED <<items, item_count>>

\* Mutant of DeleteExisting: memmove starts one slot too late.
DeleteShiftsLate(c) ==
    /\ SlotsOf(req[c].name) # {}
    /\ Enter(c, "delete", Success, "saving")
    /\ items' = [i \in Slots |-> IF kc_find(req[c].name) < i /\ i < item_count
                                 THEN items[i + 1] ELSE items[i]]
    /\ item_count' = item_count - 1

\* Mutant of DeleteExisting: the change is not saved.
DeleteUnsaved(c) ==
    /\ SlotsOf(req[c].name) # {}
    /\ Enter(c, "delete", Success, "unlock")
    /\ items' = [i \in Slots |-> IF kc_find(req[c].name) <= i /\ i < item_count
                                 THEN items[i + 1] ELSE items[i]]
    /\ item_count' = item_count - 1

\* KC_DELETE of an item: the rest of the array moves down one slot.
DeleteExisting(c) ==
    /\ SlotsOf(req[c].name) # {}
    /\ Enter(c, "delete", Success, "saving")
    /\ items' = [i \in Slots |-> IF kc_find(req[c].name) <= i /\ i < item_count
                                 THEN items[i + 1] ELSE items[i]]
    /\ item_count' = item_count - 1

\* KC_DELETE of a name that is not there: status is still the 0 of memset, so
\* the "Item not found" branch is never taken.
DeleteMissing(c) ==
    /\ SlotsOf(req[c].name) = {}
    /\ Enter(c, "delete", Success, "unlock")
    /\ UNCHANGED <<items, item_count>>

\* How many lines of a list fit into the answer's items.
Fitting == {k \in 0..item_count : k = item_count \/ k >= ListRoom}

\* KC_LIST names what is in the array, up to where the answer is full.
List(c) ==
    /\ \E k \in Fitting :
          Enter(c, "list", [Success EXCEPT !.items = {items[i].name : i \in 1..k},
                                           !.full = (k < item_count)], "unlock")
    /\ UNCHANGED <<items, item_count>>

\* KC_UPDATE has no case: nothing happens and the response stays zeroed.
Update(c) ==
    /\ Enter(c, "update", Success, "unlock")
    /\ UNCHANGED <<items, item_count>>

-----------------------------------------------------------------------------
(* kc_save: the file is truncated by fopen, then written. *)

\* What the file holds when the items before slot k were written.  The count goes
\* out first.
Prefix(k) ==
    [count |-> item_count,
     items |-> [i \in Slots |-> IF i < k /\ i \in Used THEN items[i] ELSE BlankItem]]

\* What is left of a name when the end of it, or all of it, is lost.
Remains(n) == IF n = Blank THEN {Blank} ELSE {n, Blank} \cup Stumps

\* The same when the item in slot k was written in part.
Torn(k, n) ==
    [Prefix(k) EXCEPT !.items = [@ EXCEPT ![k] = [name |-> n, data |-> Junk, key |-> "zero"]]]

Leftovers == {Prefix(k) : k \in Slots} \cup UNION {{Torn(k, n) : n \in Remains(items[k].name)} : k \in Used}

Saved == Prefix(item_count + 1)

SaveOpen(c) ==
    /\ pc[c] = "saving"
    /\ \/ /\ disk' = [count |-> 0, items |-> NoItems]
          /\ pc' = [pc EXCEPT ![c] = "writing"]
       \/ /\ "save" \in Faults          \* fopen failed: return silently
          /\ pc' = [pc EXCEPT ![c] = "unlock"]
          /\ UNCHANGED disk
    /\ UNCHANGED <<proc, keyFile, kc_key, items, item_count, kc_lock, req, resp>>

SaveWrite(c) ==
    /\ pc[c] = "writing"
    /\ \/ disk' = Saved
       \/ "save" \in Faults /\ disk' \in Leftovers
    /\ pc' = [pc EXCEPT ![c] = "unlock"]
    /\ UNCHANGED <<proc, keyFile, kc_key, items, item_count, kc_lock, req, resp>>

Unlock(c) ==
    /\ pc[c] = "unlock"
    /\ kc_lock' = None
    /\ pc' = [pc EXCEPT ![c] = "reply"]
    /\ UNCHANGED <<proc, keyFile, kc_key, items, item_count, disk, req, resp>>

\* The response is written, the connection closed and the thread ends; the next
\* one starts from a zeroed response.
Reply(c) ==
    /\ pc[c] = "reply"
    /\ pc' = [pc EXCEPT ![c] = "idle"]
    /\ req' = [req EXCEPT ![c] = NoRequest]
    /\ resp' = [resp EXCEPT ![c] = Success]
    /\ UNCHANGED <<proc, keyFile, kc_key, items, item_count, disk, kc_lock>>

\* The process ends: its memory and threads are gone.
Ends ==
    /\ proc' = "down"
    /\ items' = NoItems
    /\ item_count' = 0
    /\ kc_key' = "zero"
    /\ kc_lock' = None
    /\ pc' = [c \in Clients |-> "idle"]
    /\ req' = [c \in Clients |-> NoRequest]
    /\ resp' = [c \in Clients |-> Success]
    /\ UNCHANGED keyFile

\* It is killed, and a file that was being written keeps some prefix of what it should
\* have held.
Crash ==
    /\ "crash" \in Faults
    /\ proc # "down"
    /\ IF \E c \in Clients : pc[c] = "writing"
       THEN disk' \in Leftovers \cup {[count |-> 0, items |-> NoItems]}
       ELSE UNCHANGED disk
    /\ Ends

\* KC_LIST with items left when the answer is full: snprintf is given an offset behind
\* its end and a size that has wrapped around, and writes over the thread's stack.
ListOverruns(c) ==
    /\ pc[c] = "request" /\ req[c].op = "list" /\ kc_lock = None
    /\ \E k \in Fitting : k + 1 < item_count
    /\ Ends
    /\ UNCHANGED disk

Thread(c) ==
    \/ ShortRead(c) \/ AddFull(c) \/ AddExisting(c) \/ AddNew(c) \/ Get(c)
    \/ DeleteExisting(c) \/ DeleteMissing(c) \/ List(c) \/ ListOverruns(c)
    \/ Update(c) \/ SaveOpen(c) \/ SaveWrite(c) \/ Unlock(c) \/ Reply(c)

Next ==
    \/ LoadKey \/ GenerateKey \/ WriteKey \/ kc_load \/ Crash
    \/ \E c \in Clients : Thread(c) \/ \E r \in Requests : Connect(c, r)

Spec == Init /\ [][Next]_vars

\* The scheduler runs every thread that can run.  Acquiring kc_lock is not
\* assumed fair: a pthread mutex promises no order among its waiters.
FairSpec ==
    /\ Spec
    /\ \A c \in Clients : WF_vars(SaveOpen(c)) /\ WF_vars(SaveWrite(c))
                          /\ WF_vars(Unlock(c)) /\ WF_vars(Reply(c))

-----------------------------------------------------------------------------
(* Properties *)

\* A name has one item in memory.  Where a torn save has cut another name down to the
\* same, that one holds nothing and comes later: kc_find then finds the item every
\* earlier request meant, and a delete never uncovers an older secret (kc_find, KC_ADD,
\* KC_DELETE, kc_load).
OneEach(count, its) ==
    \A i, j \in 1..count :
        i < j /\ its[i].name = its[j].name /\ its[i].name # Blank => its[j].data = Junk

UniqueNames == OneEach(item_count, items)

\* The same for the database file, whatever prefix of a save a crash left in it.
UniqueOnDisk == OneEach(disk.count, disk.items)

\* Whenever no thread is inside the critical section, the file holds exactly
\* the items in memory, so what was acknowledged survives a kill at that moment;
\* this needs that opening and writing the file work (kc_save, kc_load).
AcknowledgedIsDurable ==
    /\ Faults \cap {"save", "load"} = {}
    /\ proc = "up"
    /\ kc_lock = None
    => /\ disk.count = item_count
       /\ \A i \in Used : disk.items[i] = items[i]

\* The running service encrypts with the key its next start will decrypt with,
\* even after a kill between creating and writing the key file (kc_init_key);
\* this needs that writing the key file works.
KeySurvivesRestart ==
    "key" \notin Faults /\ proc = "up" => kc_key = KeyIn(keyFile)

\* A thread that took kc_lock gives it back, on every path of handle_kc_request.
LockReleased == \A c \in Clients : kc_lock = c ~> kc_lock # c

-----------------------------------------------------------------------------
(* The inductive invariant behind these properties *)

LockInv ==
    /\ \A c \in Clients : kc_lock = c <=> pc[c] \in {"saving", "writing", "unlock"}
    /\ proc # "up" => \A c \in Clients : pc[c] = "idle"

DurableInv ==
    Faults \cap {"save", "load"} = {} /\ proc = "up"
      /\ (\A c \in Clients : pc[c] \notin {"saving", "writing"})
    => disk.count = item_count /\ \A i \in Used : disk.items[i] = items[i]

\* A key in memory that differs from the one in the file is the one generated
\* by this very run, which then started from an empty database.
KeyInv ==
    /\ keyFile = "absent" => disk.count = 0 /\ proc = "down"
    /\ proc = "keygen" => disk.count = 0 /\ kc_key = "generated" /\ keyFile = "short"
    /\ keyFile = "good" /\ proc # "down" => kc_key = "generated"
    /\ proc \in {"keyed", "up"} /\ "key" \notin Faults => kc_key = KeyIn(keyFile)
    /\ proc = "keyed" /\ kc_key # KeyIn(keyFile) => disk.count = 0
    /\ proc = "up" /\ kc_key # KeyIn(keyFile)
         => \A i \in Used : items[i].key = kc_key \/ items[i].data = Junk

IInv == TypeOK /\ LockInv /\ UniqueNames /\ UniqueOnDisk /\ DurableInv /\ KeyInv

-----------------------------------------------------------------------------
(* What the items read as, and the refinement of KeychainStore *)

\* What reading an item gives.
View(it, key) == IF Readable(it, key) /\ it.data # Empty THEN it.data ELSE None

Contents(count, its, key) ==
    [n \in Names |-> LET S == {i \in 1..count : its[i].name = n}
                     IN IF S # {} THEN View(its[First(S)], key) ELSE None]

OnDisk   == Contents(disk.count, disk.items, KeyIn(keyFile))
InMemory == IF proc = "up" THEN Contents(item_count, items, kc_key) ELSE OnDisk

Unserved == [c \in Clients |-> pc[c] = "request"]

Store == INSTANCE KeychainStore
         WITH store <- InMemory, durable <- OnDisk, ask <- req, waiting <- Unserved, answer <- resp

\* The threads, the array and the rewritten file behave as the map with a
\* durable copy that KeychainStore specifies, through every crash and restart.
ImplementsStore == Store!SSpec

==============================================================================
