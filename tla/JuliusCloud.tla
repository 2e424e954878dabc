----------------------------- MODULE JuliusCloud -----------------------------
(***************************************************************************)
(* Julius Cloud (src/system/julius_cloud.py).  Every tap on Sync Now       *)
(* starts a thread, also while one is running, and two threads may write   *)
(* one file, each at its own offset.  The server is not in the repository: *)
(* it may ask for and offer any files, in another version each time, close *)
(* the connection or not answer for ten seconds, which raises.             *)
(***************************************************************************)
EXTENDS Integers, Sequences

CONSTANTS Files,   \* names
          Longest, \* bound: version v of a file is v chunks long, at most Longest
          Runs     \* bound: sync threads at a time

VARIABLES configured,  \* server_ip
          syncing, status,
          run,         \* each thread: pc, the files to upload and to download, the
                       \* one it is writing, its version and the chunks received
          local,       \* CLOUD_DIR: the version that each chunk of a file is of; a
                       \* missing file has none
          doubtful     \* history: the files whose last download was cut off, or was
                       \* not the only one at its time

vars == <<configured, syncing, status, run, local, doubtful>>

NoRun == [pc |-> "none", need |-> {}, send |-> {}, file |-> {}, version |-> 0, received |-> 0]

Hole == 0
Version(v) == [i \in 1..v |-> v]
Entire(chunks) == chunks = Version(Len(chunks))

Init ==
  /\ configured \in BOOLEAN
  /\ syncing = FALSE /\ status = "Idle"
  /\ run = [r \in Runs |-> NoRun]
  /\ local \in [Files -> {Version(v) : v \in 0..Longest}]
  /\ doubtful = {}

Goto(r, pc) == run' = [run EXCEPT ![r].pc = pc]

\* handle_touch() on Sync Now
sync ==
  /\ \/ /\ ~configured
        /\ status' = "No server" /\ UNCHANGED <<syncing, run>>
     \/ /\ configured
        /\ \E r \in Runs : run[r].pc = "none" /\ Goto(r, "connect")
        /\ syncing' = TRUE /\ status' = "Syncing"
  /\ UNCHANGED <<configured, local, doubtful>>

\* connect, the list of the local files, the manifest
Connect(r) ==
  /\ run[r].pc = "connect"
  /\ Goto(r, "answer")
  /\ UNCHANGED <<configured, syncing, status, local, doubtful>>

\* The server's lists; or it has closed, and the loop reads b"" for ever.
Answer(r) ==
  /\ run[r].pc = "answer"
  /\ \/ \E need, send \in SUBSET Files :
          run' = [run EXCEPT ![r] = [NoRun EXCEPT !.pc = "files", !.need = need, !.send = send]]
     \/ Goto(r, "spin")
  /\ UNCHANGED <<configured, syncing, status, local, doubtful>>

\* A file that was not on the list is passed over.
Upload(r) ==
  /\ run[r].pc = "files"
  /\ \E f \in run[r].need : run' = [run EXCEPT ![r].need = @ \ {f}]
  /\ UNCHANGED <<configured, syncing, status, local, doubtful>>

\* The threads that write file f
Writers(f) == {r \in Runs : run[r].pc = "body" /\ f \in run[r].file}

\* The header of a download: open(fpath, "wb") truncates what was there.
Download(r) ==
  /\ run[r].pc = "files" /\ run[r].need = {} /\ run[r].send # {}
  /\ \/ \E f \in run[r].send, v \in 1..Longest :
          /\ run' = [run EXCEPT ![r] = [@ EXCEPT !.pc = "body", !.file = {f},
                                                !.version = v, !.received = 0]]
          /\ local' = [local EXCEPT ![f] = <<>>]
          /\ doubtful' = IF Writers(f) = {} THEN doubtful \ {f} ELSE doubtful \cup {f}
     \/ Goto(r, "spin") /\ UNCHANGED <<local, doubtful>>
  /\ UNCHANGED <<configured, syncing, status>>

\* A chunk of version v written as the i-th, beyond the end over a hole.
Put(chunks, i, v) ==
  [j \in 1..(IF i > Len(chunks) THEN i ELSE Len(chunks)) |->
     IF j = i THEN v ELSE IF j <= Len(chunks) THEN chunks[j] ELSE Hole]

\* recv() and write() of the next chunk
Body(r) ==
  /\ run[r].pc = "body" /\ run[r].received < run[r].version
  /\ local' = [f \in Files |-> IF f \in run[r].file
                              THEN Put(local[f], run[r].received + 1, run[r].version)
                              ELSE local[f]]
  /\ run' = [run EXCEPT ![r].received = @ + 1]
  /\ UNCHANGED <<configured, syncing, status, doubtful>>

\* Mutant of AllReceived: the last chunk is not waited for.
AllReceived_early(r) == run[r].received + 1 >= run[r].version

AllReceived(r) == run[r].received >= run[r].version

\* The end of the data, or of the connection
Downloaded(r) ==
  /\ run[r].pc = "body"
  /\ run' = [run EXCEPT ![r] = [NoRun EXCEPT !.pc = "files", !.send = run[r].send \ run[r].file]]
  /\ \/ AllReceived(r) /\ UNCHANGED doubtful
     \/ ~AllReceived(r) /\ doubtful' = doubtful \cup run[r].file
  /\ UNCHANGED <<configured, syncing, status, local>>

\* Any exception: a refused connection, a timeout, a file that is gone, a full disk.
Fail(r) ==
  /\ run[r].pc \in {"connect", "answer", "files", "body"}
  /\ status' = "error"
  /\ doubtful' = doubtful \cup run[r].file
  /\ run' = [run EXCEPT ![r] = [NoRun EXCEPT !.pc = "finally"]]
  /\ UNCHANGED <<configured, syncing, local>>

\* save_config(), the list of files on the screen, the status
Complete(r) ==
  /\ run[r].pc = "files" /\ run[r].need = {} /\ run[r].send = {}
  /\ status' = "Synced"
  /\ Goto(r, "finally")
  /\ UNCHANGED <<configured, syncing, local, doubtful>>

Finally(r) ==
  /\ run[r].pc = "finally"
  /\ syncing' = FALSE
  /\ run' = [run EXCEPT ![r] = NoRun]
  /\ UNCHANGED <<configured, status, local, doubtful>>

Work(r) == \/ Connect(r) \/ Answer(r) \/ Upload(r) \/ Download(r) \/ Body(r)
           \/ Downloaded(r) \/ Fail(r) \/ Complete(r) \/ Finally(r)

Next == sync \/ \E r \in Runs : Work(r)

\* A file that nobody writes is one version, from the first chunk to the last, unless
\* its last download was cut off or overlapped another one of the same file: the next
\* download that is alone and comes to its end makes it whole again.
Whole == \A f \in Files \ doubtful : Writers(f) = {} => Entire(local[f])

\* Syncing ends, unless the server closed where a header should come.
Ends == syncing ~> ~syncing \/ \E r \in Runs : run[r].pc = "spin"
=============================================================================
