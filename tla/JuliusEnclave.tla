---------------------------- MODULE JuliusEnclave ----------------------------
(***************************************************************************)
(* The security enclave (julius_enclave.c).  Each connection is a thread   *)
(* with one request.  Keys are made under enclave_lock and looked up       *)
(* without it; they are never written to a file, so that a restart, of     *)
(* which the clients learn nothing, forgets them.  The key and its id are  *)
(* random: the n-th one made is n.  The master key is read by nobody.      *)
(***************************************************************************)
EXTENDS Integers, FiniteSets

CONSTANTS Users,    \* bound: threads at a time
          MaxKeys,  \* the size of keys[] (256)
          MaxMade   \* bound: keys made

VARIABLES keys, key_count,
          lock,     \* the thread that holds enclave_lock
          pc,       \* what each thread does
          made,     \* keys made
          id_out,   \* the id a thread has copied for its answer, 0 for none
          known,    \* history: ids answered since the start
          texts     \* history: [id, key] of what was encrypted since the start

vars == <<keys, key_count, lock, pc, made, id_out, known, texts>>

Init ==
  /\ keys = [i \in 1..MaxKeys |-> [id |-> 0, key |-> 0]] /\ key_count = 0
  /\ lock = {}
  /\ pc = [u \in Users |-> "idle"] /\ id_out = [u \in Users |-> 0]
  /\ made = 0 /\ known = {} /\ texts = {}

Goto(u, place) == pc' = [pc EXCEPT ![u] = place]

\* enclave_generate_key(): the lock, and the end of the array
Keygen(u) ==
  /\ pc[u] = "idle" /\ lock = {} /\ made < MaxMade /\ key_count < MaxKeys
  /\ lock' = {u} /\ Goto(u, "key")
  /\ UNCHANGED <<keys, key_count, made, id_out, known, texts>>

\* With 256 keys status is -1 and the lock is given back.
KeygenFull(u) ==
  /\ pc[u] = "idle" /\ lock = {} /\ key_count = MaxKeys
  /\ id_out' = [id_out EXCEPT ![u] = 0] /\ Goto(u, "answer")
  /\ UNCHANGED <<keys, key_count, lock, made, known, texts>>

MakeKey(u) ==
  /\ pc[u] = "key"
  /\ made' = made + 1
  /\ keys' = [keys EXCEPT ![key_count + 1].key = made']
  /\ Goto(u, "id")
  /\ UNCHANGED <<key_count, lock, id_out, known, texts>>

MakeId(u) ==
  /\ pc[u] = "id"
  /\ LET k == keys[key_count + 1].key
     IN  /\ keys' = [keys EXCEPT ![key_count + 1].id = k]
         /\ id_out' = [id_out EXCEPT ![u] = k]
  /\ Goto(u, "count")
  /\ UNCHANGED <<key_count, lock, made, known, texts>>

\* Mutant of Count: the lock is given back before the entry counts.
Count_unlocked(u) ==
  /\ \/ /\ pc[u] = "count" /\ lock = {u}
        /\ lock' = {} /\ UNCHANGED <<pc, key_count>>
     \/ /\ pc[u] = "count" /\ lock # {u} /\ key_count < MaxKeys
        /\ key_count' = key_count + 1
        /\ Goto(u, "answer") /\ UNCHANGED lock
  /\ UNCHANGED <<keys, made, id_out, known, texts>>

Count(u) ==
  /\ pc[u] = "count"
  /\ key_count' = key_count + 1
  /\ lock' = lock \ {u} /\ Goto(u, "answer")
  /\ UNCHANGED <<keys, made, id_out, known, texts>>

Answer(u) ==
  /\ pc[u] = "answer"
  /\ known' = IF id_out[u] = 0 THEN known ELSE known \cup {id_out[u]}
  /\ Goto(u, "idle")
  /\ UNCHANGED <<keys, key_count, lock, made, id_out, texts>>

\* find_key(): the first of the entries that count
Found(id) == {i \in 1..key_count : keys[i].id = id}
find_key(id) == keys[CHOOSE i \in Found(id) : \A j \in Found(id) : i <= j].key

\* ENCLAVE_ENCRYPT, with an id of this start or of an earlier one; a text so long
\* that it overwrites its own iv is left out.
Encrypt == \E id \in 1..MaxMade :
  /\ Found(id) # {}
  /\ texts' = texts \cup {[id |-> id, key |-> find_key(id)]}
  /\ UNCHANGED <<keys, key_count, lock, pc, made, id_out, known>>

\* The daemon ends, by a signal or a write to a client that has gone, and starts.
Restart ==
  /\ keys' = [i \in 1..MaxKeys |-> [id |-> 0, key |-> 0]] /\ key_count' = 0
  /\ lock' = {}
  /\ pc' = [u \in Users |-> "idle"] /\ id_out' = [u \in Users |-> 0]
  /\ known' = {} /\ texts' = {}
  /\ UNCHANGED made

Thread(u) == Keygen(u) \/ KeygenFull(u) \/ MakeKey(u) \/ MakeId(u) \/ Count(u) \/ Answer(u)

Next == (\E u \in Users : Thread(u)) \/ Encrypt \/ Restart

\* Until the daemon ends, an id that was answered finds a key, always the same:
\* ENCLAVE_DECRYPT opens what was encrypted under that id.
Honest ==
  /\ \A id \in known : Found(id) # {}
  /\ \A t \in texts : Found(t.id) # {} /\ find_key(t.id) = t.key
=============================================================================
