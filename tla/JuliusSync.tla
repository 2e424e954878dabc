------------------------------ MODULE JuliusSync ------------------------------
(***************************************************************************)
(* The sync engine (services/julius_sync/julius_sync.c).  Every five       *)
(* minutes, and two seconds after inotify reports a change, trigger_sync   *)
(* starts a thread unless one says that it is syncing; the thread says so  *)
(* only once it runs.  A thread lists the files, sends the list to the     *)
(* server and writes a state file.  Every change adds a file, so that a    *)
(* list is a number of files; the server is the last list it could read.   *)
(***************************************************************************)
EXTENDS Integers

CONSTANTS Threads,      \* bound: sync threads at one time
          MaxChanges,   \* bound: changes to the files
          Rooms,        \* how many entries may fit into the 8192 bytes of a manifest
          MaxFiles      \* SyncFile files[256]

VARIABLES configured,   \* server_ip is not empty
          room,         \* how many do, by the length of the names
          syncing, files_synced,
          pc,           \* what each thread is doing
          list,         \* the files each thread has collected
          watcher,      \* what watch_thread is doing
          inotify,      \* an event is waiting to be read
          local,        \* the changes made to the files so far
          server,       \* the last list the server was sent in full
          state,        \* SYNC_STATE: files and syncing
          buf           \* what each thread is about to write there

vars == <<configured, room, syncing, files_synced, pc, list, watcher, inotify, local, server,
          state, buf>>

States == [files : 0..MaxChanges, syncing : {0, 1}]
Nothing == [files |-> 0, syncing |-> 0]

TypeOK ==
    /\ configured \in BOOLEAN /\ inotify \in BOOLEAN /\ room \in Rooms
    /\ syncing \in {0, 1}
    /\ files_synced \in 0..MaxChanges
    /\ pc \in [Threads -> {"none", "start", "collect", "connect", "send", "complete", "done",
                          "state", "print", "write"}]
    /\ list \in [Threads -> 0..MaxChanges]
    /\ watcher \in {"read", "sleep"}
    /\ local \in 0..MaxChanges /\ server \in 0..MaxChanges
    /\ state \in States /\ buf \in [Threads -> States]

Init ==
    /\ configured \in BOOLEAN /\ room \in Rooms
    /\ syncing = 0 /\ files_synced = 0
    /\ pc = [t \in Threads |-> "none"]
    /\ list = [t \in Threads |-> 0]
    /\ watcher = "read" /\ inotify = FALSE
    /\ local = 0 /\ server = 0
    /\ state = Nothing
    /\ buf = [t \in Threads |-> Nothing]

Go(t, to) == pc' = [pc EXCEPT ![t] = to]

files == <<local, server>>
saved == <<state, buf>>

-----------------------------------------------------------------------------
(* Who calls trigger_sync *)

\* It returns if a thread is syncing (or, in the model, if Threads are busy).
trigger_sync ==
    IF syncing = 1 \/ \A t \in Threads : pc[t] # "none"
    THEN UNCHANGED pc
    ELSE \E t \in Threads : pc[t] = "none" /\ Go(t, "start")

\* Mutant of Periodic: after the first sync only the watcher triggers.
PeriodicFirst ==
    /\ files_synced = 0
    /\ trigger_sync
    /\ UNCHANGED <<configured, room, syncing, files_synced, list, watcher, inotify, files, saved>>

\* main: at the start, and then whenever SYNC_INTERVAL has passed.
Periodic ==
    /\ trigger_sync
    /\ UNCHANGED <<configured, room, syncing, files_synced, list, watcher, inotify, files, saved>>

Change ==
    /\ local < MaxChanges
    /\ local' = local + 1
    /\ inotify' = TRUE
    /\ UNCHANGED <<configured, room, syncing, files_synced, pc, list, watcher, server, saved>>

WatchRead ==
    /\ watcher = "read" /\ inotify
    /\ inotify' = FALSE
    /\ watcher' = "sleep"
    /\ UNCHANGED <<configured, room, syncing, files_synced, pc, list, files, saved>>

WatchTrigger ==
    /\ watcher = "sleep"
    /\ trigger_sync
    /\ watcher' = "read"
    /\ UNCHANGED <<configured, room, syncing, files_synced, list, inotify, files, saved>>

-----------------------------------------------------------------------------
(* sync_thread *)

Start(t) ==
    /\ pc[t] = "start"
    /\ syncing' = IF configured THEN 1 ELSE syncing
    /\ Go(t, IF configured THEN "collect" ELSE "none")
    /\ UNCHANGED <<configured, room, files_synced, list, watcher, inotify, files, saved>>

\* collect_sync_files() stops at the end of its array.
Listed(n) == IF n > MaxFiles THEN MaxFiles ELSE n

Collect(t) ==
    /\ pc[t] = "collect"
    /\ list' = [list EXCEPT ![t] = Listed(local)]
    /\ Go(t, "connect")
    /\ UNCHANGED <<configured, room, syncing, files_synced, watcher, inotify, files, saved>>

Connect(t) ==
    /\ pc[t] = "connect"
    /\ Go(t, "send")
    /\ UNCHANGED <<configured, room, syncing, files_synced, list, watcher, inotify, files, saved>>

\* No socket, or no server.
ConnectFails(t) ==
    /\ pc[t] = "connect"
    /\ Go(t, "done")
    /\ UNCHANGED <<configured, room, syncing, files_synced, list, watcher, inotify, files, saved>>

\* A manifest that is longer than its buffer has lost its end, and is no JSON.  The
\* answer is waited for, for ten seconds, and not looked at.
Send(t) ==
    /\ pc[t] = "send"
    /\ server' = IF list[t] <= room THEN list[t] ELSE server
    /\ Go(t, "complete")
    /\ UNCHANGED <<configured, room, syncing, files_synced, list, watcher, inotify, local, saved>>

\* Nobody looks at what send() returns, nor whether the server was there to read it.
SendLost(t) ==
    /\ pc[t] = "send"
    /\ Go(t, "complete")
    /\ UNCHANGED <<configured, room, syncing, files_synced, list, watcher, inotify, files, saved>>

Complete(t) ==
    /\ pc[t] = "complete"
    /\ files_synced' = list[t]
    /\ Go(t, "done")
    /\ UNCHANGED <<configured, room, syncing, list, watcher, inotify, files, saved>>

Done(t) ==
    /\ pc[t] = "done"
    /\ syncing' = 0
    /\ Go(t, "state")
    /\ UNCHANGED <<configured, room, files_synced, list, watcher, inotify, files, saved>>

\* fopen of the state file empties it ...
OpenState(t) ==
    /\ pc[t] = "state"
    /\ state' = Nothing
    /\ Go(t, "print")
    /\ UNCHANGED <<configured, room, syncing, files_synced, list, watcher, inotify, files, buf>>

\* ... or fails, and leaves what was there.
StateUnopened(t) ==
    /\ pc[t] = "state"
    /\ Go(t, "none")
    /\ list' = [list EXCEPT ![t] = 0]
    /\ UNCHANGED <<configured, room, syncing, files_synced, watcher, inotify, files, saved>>

\* fprintf, without the lock ...
RenderState(t) ==
    /\ pc[t] = "print"
    /\ buf' = [buf EXCEPT ![t] = [files |-> files_synced, syncing |-> syncing]]
    /\ Go(t, "write")
    /\ UNCHANGED <<configured, room, syncing, files_synced, list, watcher, inotify, files, state>>

\* ... and fclose.
WriteState(t) ==
    /\ pc[t] = "write"
    /\ state' = buf[t]
    /\ buf' = [buf EXCEPT ![t] = Nothing]
    /\ Go(t, "none")
    /\ list' = [list EXCEPT ![t] = 0]
    /\ UNCHANGED <<configured, room, syncing, files_synced, watcher, inotify, files>>

-----------------------------------------------------------------------------
Thread(t) ==
    \/ Start(t) \/ Collect(t) \/ Connect(t) \/ ConnectFails(t) \/ Send(t) \/ SendLost(t)
    \/ Complete(t) \/ Done(t) \/ OpenState(t) \/ StateUnopened(t) \/ RenderState(t)
    \/ WriteState(t)

Next == Periodic \/ Change \/ WatchRead \/ WatchTrigger \/ \E t \in Threads : Thread(t)

Spec == Init /\ [][Next]_vars

-----------------------------------------------------------------------------
(* Properties *)

\* The server is told of the last change in the end, as long as the list of the files
\* fits into a manifest; and so is the state file, but for the moments in which it is
\* written, of as many files as a thread can list.  Even of a change that came while a
\* sync was under way, of which inotify's call of trigger_sync started nothing, and
\* although an older thread may send its older list, or write its older state, after a
\* newer one did.
ServerCatchesUp ==
    configured => <>[](/\ local <= room => server = local
                       /\ \/ state.files = Listed(local)
                          \/ state = Nothing /\ \E t \in Threads : pc[t] \in {"print", "write"})
===============================================================================
