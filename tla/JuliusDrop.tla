----------------------------- MODULE JuliusDrop ------------------------------
(***************************************************************************)
(* File drops between devices (src/system/julius_drop.py).  One receiver   *)
(* thread takes connections one after the other; every sender is a thread  *)
(* of its own device and may vanish at any step, with a FIN or without.    *)
(* A file is counted in chunks.  Its size is announced before it is read,  *)
(* so that it may have fewer or more of them by then.                      *)
(***************************************************************************)
EXTENDS Integers, Sequences, SequencesExt

CONSTANTS Peers,     \* devices that send one file each
          FileNames, \* what their files are called
          Size,      \* chunks of a file when its size was asked
          Lengths,   \* and when it is read
          Nobody

VARIABLES peer,       \* the sender of each device: where it is, its file, chunks sent
          backlog,    \* connections the kernel holds for accept()
          conn,       \* the connection handle_receive() reads
          received,   \* -1 while it reads the header, then the chunks read
          disk,       \* DROP_DIR: whose data a name has, and how much of it
          transfers,  \* the senders recorded as "received", "done"
          refused     \* the senders whose transfer ended in "Receive error"

vars == <<peer, backlog, conn, received, disk, transfers, refused>>

Header == -1
NoFile == [from |-> Nobody, chunks |-> 0]
Name(p) == peer[p].name

Init ==
  /\ peer = [p \in Peers |-> [pc |-> "idle", name |-> Nobody, sent |-> Header]]
  /\ backlog = <<>> /\ conn = Nobody /\ received = Header
  /\ disk = [n \in FileNames |-> NoFile]
  /\ transfers = <<>> /\ refused = {}

receiver == <<conn, received, disk, transfers, refused>>

\* send(): the file the user picked; connect, then the header and the chunks, then close
Connect(p) ==
  /\ peer[p].pc = "idle"
  /\ \E n \in FileNames : peer' = [peer EXCEPT ![p].pc = "open", ![p].name = n]
  /\ backlog' = Append(backlog, p)
  /\ UNCHANGED receiver

Send(p) ==
  /\ peer[p].pc = "open" /\ \E n \in Lengths : peer[p].sent < n
  /\ peer' = [peer EXCEPT ![p].sent = @ + 1]
  /\ UNCHANGED <<backlog, receiver>>

\* read() returned b"": there is no more of the file, whatever was announced.
Close(p) ==
  /\ peer[p].pc = "open" /\ peer[p].sent \in Lengths
  /\ peer' = [peer EXCEPT ![p].pc = "done"]
  /\ UNCHANGED <<backlog, receiver>>

\* sendall() raises: the receiver has closed the connection.
SendError(p) ==
  /\ peer[p].pc = "open" /\ (Contains(transfers, p) \/ p \in refused)
  /\ peer' = [peer EXCEPT ![p].pc = "error"]
  /\ UNCHANGED <<backlog, receiver>>

\* The device goes: its connection is closed ("cut") or just silent.
Vanish(p) ==
  /\ peer[p].pc = "open"
  /\ \E how \in {"cut", "silent"} : peer' = [peer EXCEPT ![p].pc = how]
  /\ UNCHANGED <<backlog, receiver>>

\* Mutant of Accept: the receiver takes one file and returns.
AcceptOnce ==
  /\ conn = Nobody /\ backlog # <<>> /\ transfers = <<>>
  /\ conn' = Head(backlog) /\ backlog' = Tail(backlog)
  /\ received' = Header
  /\ UNCHANGED <<peer, disk, transfers, refused>>

Accept ==
  /\ conn = Nobody /\ backlog # <<>>
  /\ conn' = Head(backlog) /\ backlog' = Tail(backlog)
  /\ received' = Header
  /\ UNCHANGED <<peer, disk, transfers, refused>>

\* The header has come: the file is opened "wb".  A connection closed before
\* leaves the loop reading b"" for ever.
ReadHeader ==
  /\ conn # Nobody /\ received = Header /\ peer[conn].sent > Header
  /\ received' = 0
  /\ disk' = [disk EXCEPT ![Name(conn)] = [from |-> conn, chunks |-> 0]]
  /\ UNCHANGED <<peer, backlog, conn, transfers, refused>>

ReadChunk ==
  /\ conn # Nobody /\ received \in 0..(Size - 1) /\ peer[conn].sent > received
  /\ received' = received + 1
  /\ disk' = [disk EXCEPT ![Name(conn)].chunks = received + 1]
  /\ UNCHANGED <<peer, backlog, conn, transfers, refused>>

Closed(p) == peer[p].pc \in {"cut", "done"}

\* Mutant of EndOfFile: the last chunk is not waited for.
EndOfFile_early == received >= Size - 1

\* All of it, or the end of a connection that was closed.
EndOfFile == received = Size \/ (Closed(conn) /\ received = peer[conn].sent)

\* Either way the transfer is recorded as done.
Record ==
  /\ conn # Nobody /\ received >= 0 /\ EndOfFile
  /\ transfers' = Append(transfers, conn)
  /\ conn' = Nobody
  /\ UNCHANGED <<peer, backlog, received, disk, refused>>

\* The except path, which records nothing: no JSON, no such keys, an open() that
\* fails (the disk is as it was), a connection that was reset, or a write that fails,
\* here or in the close, with what was buffered.
Raise ==
  /\ conn # Nobody
  /\ \/ /\ received = Header /\ (peer[conn].sent > Header \/ peer[conn].pc = "cut")
        /\ UNCHANGED disk
     \/ /\ received >= 0
        /\ \E n \in 0..received : disk' = [disk EXCEPT ![Name(conn)].chunks = n]
  /\ refused' = refused \cup {conn}
  /\ conn' = Nobody
  /\ UNCHANGED <<peer, backlog, received, transfers>>

Receive == Accept \/ ReadHeader \/ ReadChunk \/ Record \/ Raise

Next == \/ Receive
        \/ \E p \in Peers : Connect(p) \/ Send(p) \/ Close(p) \/ SendError(p) \/ Vanish(p)

\* What holds up the receiver for good: a sender that vanished before its
\* header, or without closing.
Stuck ==
  /\ conn # Nobody
  /\ \/ peer[conn].pc = "silent" /\ received = peer[conn].sent /\ received < Size
     \/ peer[conn].pc = "cut" /\ peer[conn].sent = Header

\* A transfer that is recorded has left on the disk all that was announced, or, where
\* its sender sent less, vanished or not, all that it sent; unless a later drop of the
\* same name is on its way or has come.
Whole ==
  \A i \in DOMAIN transfers : LET p == transfers[i] IN
    \/ /\ disk[Name(p)] = [from |-> p, chunks |-> IF peer[p].sent < Size THEN peer[p].sent
                                                                      ELSE Size]
       /\ peer[p].sent >= Size \/ Closed(p)
    \/ disk[Name(p)].from # p /\ Name(disk[Name(p)].from) = Name(p)

\* What a sender has sent is recorded, or an error was shown for it, unless the
\* receiver is held up: no transfer, whatever became of it, keeps it from the next.
Arrives ==
  \A p \in Peers : peer[p].pc = "done" ~> Contains(transfers, p) \/ p \in refused \/ Stuck
=============================================================================
