---------------------------- MODULE KeychainStore ----------------------------
(***************************************************************************)
(* What the keychain service promises its clients: a map from item names   *)
(* (a service/account pair) to secrets, on which every request takes       *)
(* effect once, at one moment between being sent and being answered, and a *)
(* durable copy that a restart may recover only in part.                   *)
(*                                                                         *)
(* A restart never brings back anything but the durable copy or a part of  *)
(* the map as it was when the service died: a secret never shows up under  *)
(* a name it was not stored under, and an overwritten secret comes back    *)
(* only if it was still the durable one.                                   *)
(***************************************************************************)
EXTENDS Integers

CONSTANTS Clients,   \* who sends requests
          Names,     \* service/account pairs clients ask for
          Data,      \* secrets
          Empty,     \* the secret of length zero
          None,      \* no secret
          Blank      \* the empty service/account pair

VARIABLES store,     \* what each name reads as
          durable,   \* what each name would read as after a restart
          ask,       \* the request each client sent
          waiting,   \* it has not taken effect yet
          answer     \* the answer worked out for it

svars == <<store, durable, ask, waiting, answer>>

Requests == [op : {"add"}, name : Names, data : Data]
            \cup [op : {"get", "delete"}, name : Names, data : {Empty}]
            \cup [op : {"list", "update", "short"}, name : {Blank}, data : {Empty}]

NoRequest == [op |-> "short", name |-> Blank, data |-> Empty]
Success   == [status |-> 0, data |-> None, items |-> {}, full |-> FALSE]
Failure   == [status |-> -1, data |-> None, items |-> {}, full |-> FALSE]

\* A secret of length zero cannot be told from a missing one by reading.
Visible(d) == IF d = Empty THEN None ELSE d

Restrict(m, S) == [n \in Names |-> IF n \in S THEN m[n] ELSE None]

SInit ==
    /\ store = [n \in Names |-> None]
    /\ durable = [n \in Names |-> None]
    /\ ask = [c \in Clients |-> NoRequest]
    /\ waiting = [c \in Clients |-> FALSE]
    /\ answer = [c \in Clients |-> Success]

Ask(c, r) ==
    /\ ~waiting[c]
    /\ ask' = [ask EXCEPT ![c] = r]
    /\ waiting' = [waiting EXCEPT ![c] = TRUE]
    /\ UNCHANGED <<store, durable, answer>>

\* The request takes effect and its answer is a.
Take(c, op, a) ==
    /\ waiting[c]
    /\ ask[c].op = op
    /\ waiting' = [waiting EXCEPT ![c] = FALSE]
    /\ answer' = [answer EXCEPT ![c] = a]
    /\ UNCHANGED <<durable, ask>>

Put(c) ==
    /\ Take(c, "add", Success)
    /\ store' = [store EXCEPT ![ask[c].name] = Visible(ask[c].data)]

\* No room, or a request that did not arrive in full.
Refuse(c) ==
    /\ Take(c, "add", Failure) \/ Take(c, "short", Failure)
    /\ UNCHANGED store

Get(c) ==
    /\ Take(c, "get", IF store[ask[c].name] = None
                      THEN Failure
                      ELSE [Success EXCEPT !.data = store[ask[c].name]])
    /\ UNCHANGED store

\* Deleting answers success whether or not there was such an item.
Delete(c) ==
    /\ Take(c, "delete", Success)
    /\ store' = [store EXCEPT ![ask[c].name] = None]

\* A list names at least every item that can be read, or it fills the answer.
List(c) ==
    /\ \E L \in SUBSET (Names \cup {Blank}), full \in BOOLEAN :
          /\ full \/ \A n \in Names : store[n] # None => n \in L
          /\ Take(c, "list", [Success EXCEPT !.items = L, !.full = full])
    /\ UNCHANGED store

\* An operation the service does not handle is answered with success.
Ignore(c) ==
    /\ Take(c, "update", Success)
    /\ UNCHANGED store

\* The answer is delivered and forgotten.
Done(c) ==
    /\ ~waiting[c]
    /\ ask' = [ask EXCEPT ![c] = NoRequest]
    /\ answer' = [answer EXCEPT ![c] = Success]
    /\ UNCHANGED <<store, durable, waiting>>

\* Saving makes the map durable, or a part of it when the save fails.
Save ==
    /\ \E S \in SUBSET Names : durable' = Restrict(store, S)
    /\ UNCHANGED <<store, ask, waiting, answer>>

\* The service dies, perhaps in the middle of a save; requests are dropped.
Die ==
    /\ \/ durable' = durable
       \/ \E S \in SUBSET Names : durable' = Restrict(store, S)
    /\ store' = durable'
    /\ ask' = [c \in Clients |-> NoRequest]
    /\ waiting' = [c \in Clients |-> FALSE]
    /\ answer' = [c \in Clients |-> Success]

\* A start that cannot read the durable copy carries on without it.
Forget ==
    /\ store' = [n \in Names |-> None]
    /\ UNCHANGED <<durable, ask, waiting, answer>>

SNext ==
    \/ \E c \in Clients :
          \/ \E r \in Requests : Ask(c, r)
          \/ Put(c) \/ Refuse(c) \/ Get(c) \/ Delete(c) \/ List(c) \/ Ignore(c) \/ Done(c)
    \/ Save \/ Die \/ Forget

SSpec == SInit /\ [][SNext]_svars
==============================================================================
