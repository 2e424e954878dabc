--------------------------- MODULE JuliusExchange ----------------------------
(***************************************************************************)
(* What talks to others through sockets and threads: the sync engine, file *)
(* drops, Julius Cloud, the core service and the shell's bridge to the     *)
(* services.  They share no state and no lock, so a behaviour runs one of  *)
(* them, part, and leaves the variables of the others as they were.  So do *)
(* the bridge's events and its requests, each together with the battery:   *)
(* all they share is the shell's thread.                                   *)
(***************************************************************************)
EXTENDS Integers, Sequences, SequencesExt, FiniteSets

CONSTANTS Threads, MaxChanges, Rooms, MaxFiles,   \* the sync engine
          Peers, FileNames, Size, Lengths, Nobody,\* drops
          Files, Longest, Runs,                   \* the cloud
          Levels, Default, Topics, MaxUnread, Services, Torn,   \* the bridge
          Clients, OtaClients, Backlog, None      \* the core service

ASSUME ExchangeAssumption ==
    /\ MaxChanges \in Nat /\ MaxFiles \in Nat /\ Rooms \subseteq Nat /\ Rooms # {}
    /\ Size \in Nat \ {0} /\ Lengths \subseteq Nat /\ Nobody \notin Peers
    /\ Longest \in Nat
    /\ Default \in Levels /\ Torn \notin Levels
    /\ OtaClients \subseteq Clients
    /\ Backlog \in Nat \ {0} /\ None \notin Clients

VARIABLES part
VARIABLES configured, room, syncing, files_synced, pc, list, watcher, inotify, local, server,
          state, buf
VARIABLES peer, backlog, conn, received, disk, transfers, refused
VARIABLES server_ip, cloud_syncing, status, run, stored, doubtful
VARIABLES running, core_pc, fd, queue, client, closed, updates
VARIABLES level, writing, file, battery_level, broker, link, unread, subscribed, inbox,
          sock, listener, asked, up, call, result, done, died

syncVars   == <<configured, room, syncing, files_synced, pc, list, watcher, inotify, local,
                server, state, buf>>
dropVars   == <<peer, backlog, conn, received, disk, transfers, refused>>
cloudVars  == <<server_ip, cloud_syncing, status, run, stored, doubtful>>
coreVars   == <<running, core_pc, fd, queue, client, closed, updates>>
bridgeVars == <<level, writing, file, battery_level, broker, link, unread, subscribed,
                inbox, sock, listener, asked, up, call, result, done, died>>
vars == <<part, syncVars, dropVars, cloudVars, coreVars, bridgeVars>>

Sync   == INSTANCE JuliusSync
Drop   == INSTANCE JuliusDrop
Cloud  == INSTANCE JuliusCloud WITH configured <- server_ip, syncing <- cloud_syncing,
                                    local <- stored
Core   == INSTANCE JuliusCore WITH pc <- core_pc
Bridge == INSTANCE JuliusBridge

Init ==
  /\ part \in {"sync", "drop", "cloud", "core", "events", "requests"}
  /\ Drop!Init /\ Core!Init
  /\ IF part = "sync" THEN Sync!Init
     ELSE Sync!Init /\ configured = FALSE /\ room = CHOOSE n \in Rooms : TRUE
  /\ IF part = "cloud" THEN Cloud!Init
     ELSE Cloud!Init /\ server_ip = FALSE /\ stored = [f \in Files |-> <<>>]
  /\ Bridge!Init
  /\ part # "events"   => broker = "none"
  /\ part # "requests" => up = [d \in Services |-> TRUE]
  /\ part \notin {"events", "requests"} => level = Default

OnlySync   == part = "sync" /\ UNCHANGED <<part, dropVars, cloudVars, coreVars, bridgeVars>>
OnlyDrop   == part = "drop" /\ UNCHANGED <<part, syncVars, cloudVars, coreVars, bridgeVars>>
OnlyCloud  == part = "cloud" /\ UNCHANGED <<part, syncVars, dropVars, coreVars, bridgeVars>>
OnlyCore   == part = "core" /\ UNCHANGED <<part, syncVars, dropVars, cloudVars, bridgeVars>>
OnlyBridge == /\ part \in {"events", "requests"}
              /\ UNCHANGED <<part, syncVars, dropVars, cloudVars, coreVars>>

Next == \/ OnlySync /\ Sync!Next
        \/ OnlyDrop /\ Drop!Next
        \/ OnlyCloud /\ Cloud!Next
        \/ OnlyCore /\ Core!Next
        \/ OnlyBridge /\ Bridge!Battery
        \/ OnlyBridge /\ part = "events" /\ Bridge!Events
        \/ OnlyBridge /\ part = "requests" /\ Bridge!Requests

Spec == Init /\ [][Next]_vars

\* The interval passes again and again, the threads and the watcher run; again and again
\* the server can be reached, what is sent arrives, and the state file can be opened.
SyncFairness ==
  /\ WF_vars(OnlySync /\ Sync!Periodic)
  /\ WF_vars(OnlySync /\ Sync!WatchRead)
  /\ WF_vars(OnlySync /\ Sync!WatchTrigger)
  /\ \A t \in Threads : /\ WF_vars(OnlySync /\ Sync!Thread(t))
                        /\ SF_vars(OnlySync /\ Sync!Connect(t))
                        /\ SF_vars(OnlySync /\ Sync!Send(t))
                        /\ SF_vars(OnlySync /\ Sync!OpenState(t))

\* The receiver's thread, a sender that has not vanished, and the cloud's threads run.
TransferFairness ==
  /\ WF_vars(OnlyDrop /\ Drop!Receive)
  /\ \A p \in Peers : WF_vars(OnlyDrop /\ (Drop!Send(p) \/ Drop!Close(p) \/ Drop!SendError(p)))
  /\ \A r \in Runs : WF_vars(OnlyCloud /\ Cloud!Work(r))

\* The core service's two threads run.
CoreFairness ==
  /\ WF_vars(OnlyCore /\ Core!Main)
  /\ WF_vars(OnlyCore /\ Core!Ota)

\* The power manager writes every 30 seconds; what is under way on the shell's
\* thread goes on.  The writes are not timed by the requests, nor the updates, every
\* 5 seconds, by the writes: some write ends while no request is under way, and some
\* update finds the file whole.
BridgeFairness ==
  /\ WF_vars(OnlyBridge /\ Bridge!Truncate)
  /\ WF_vars(OnlyBridge /\ Bridge!Fill)
  /\ SF_vars(OnlyBridge /\ Bridge!Idle /\ Bridge!Fill)
  /\ WF_vars(OnlyBridge /\ part = "requests" /\ Bridge!Request)
  /\ SF_vars(OnlyBridge /\ file # Torn /\ Bridge!update)

FairSpec == Spec /\ SyncFairness /\ TransferFairness /\ CoreFairness /\ BridgeFairness

-----------------------------------------------------------------------------
(* Properties *)

\* In the end the server, and the state file, are told of the last change
\* (sync_thread of julius_sync.c), even of one that came while a sync was under way.
ServerCatchesUp == part = "sync" => Sync!ServerCatchesUp

\* What is recorded as received is on the disk: all that was announced, or all that
\* its sender sent, if that is less, unless another drop of its name came
\* (handle_receive of julius_drop.py); and a file of Julius Cloud is one version,
\* whole, unless its last download was cut off or overlapped another of that file.
FilesWhole == Drop!Whole /\ Cloud!Whole

\* A drop that was sent is recorded in the end, or ends in an error, unless a sender
\* that vanished before its header or without closing holds the only receiver up; and
\* a sync with the cloud ends unless the server closed where a header should come.
TransfersEnd == (part = "drop" => Drop!Arrives) /\ (part = "cloud" => Cloud!Ends)

\* Told to stop, the core service stops, however the OTA watcher waits: only main
\* waiting itself, in accept or in read, can keep it.  And while it runs, every
\* connection is taken and closed by one thread or the other, if clients do not
\* just stay silent.
Prompt == \A c \in Clients : WF_vars(OnlyCore /\ (Core!Write(c) \/ Core!HangUp(c)))
CoreServes ==
  part = "core" => Core!ShutdownEnds /\ (Prompt => Core!Served)

\* Once the battery's level stays, julius_status shows it again and again: whether
\* or not an event ever arrives, whichever program has bound the socket, although
\* the listener may have ended, requests to daemons that die hold the thread, and
\* an update that finds the file torn shows the default.
BatteryFollows == part \in {"events", "requests"} => Bridge!Follows

\* A request that was answered with success was done by its daemon
\* (send_notification, check_permission, keychain_save and keychain_get of the
\* bridge), and one that was answered without was not, unless the daemon died
\* between doing it and saying so, or keychain_get took a value for none.
AnswersHonest == Bridge!Honest
=============================================================================
