------------------------------ MODULE JuliusOTA ------------------------------
(***************************************************************************)
(* The update receiver (services/julius_ota/ota_client.c) and the tool     *)
(* that pushes updates to it (tools/ota_push.sh).  One connection at a     *)
(* time is served: a header, a package of hdr.size bytes, a checksum; then *)
(* the tree /usr/julius is copied to /usr/julius.bak, the package is       *)
(* unpacked over it, and the result is kept or rolled back by commands     *)
(* whose exit status nobody reads.                                         *)
(*                                                                         *)
(* A tree is the version it holds in full, Partial (some files of it, or   *)
(* files of two versions) or Absent.  The power may fail at any step.      *)
(***************************************************************************)
EXTENDS Integers, Sequences, SequencesExt

CONSTANTS Versions,   \* versions there are packages of
          Good,       \* the ones that pass julius_verify_install
          Installed,  \* the version on the device
          Size,       \* chunks a package is sent in
          Senders,    \* who connects: "push" is the tool, "conforming" sends an OTAHeader,
                      \* "stranger" something else
          SameFS,     \* /tmp and /usr/julius are on one file system
          Faults,     \* "power": the power may fail; "disk": a file system may be full;
                      \* "split": a header may arrive in pieces
          MaxPushes, MaxLosses,   \* bounds: connections and power failures in a behaviour
          None, Partial, Absent

ASSUME OTAAssumption ==
    /\ Good \subseteq Versions /\ Installed \in Good
    /\ Size \in Nat \ {0} /\ MaxPushes \in Nat /\ MaxLosses \in Nat
    /\ Senders \subseteq {"push", "conforming", "stranger"}
    /\ SameFS \in BOOLEAN /\ Faults \subseteq {"power", "disk", "split"}
    /\ {None, Partial, Absent} \cap Versions = {} /\ Partial # Absent

VARIABLES pc,         \* where main and apply_update are
          conn,       \* the connection being served: who, the package and key, what was sent
          received,   \* chunks counted by the receive loop
          tmp,        \* UPDATE_PATH: chunks of the package it holds, or None
          package,    \* VERIFIED_PATH: the version packed in it, Partial or None
          tree,       \* /usr/julius
          bak,        \* /usr/julius.bak: its tree and the package in it
          pushes, losses,
          before,     \* history: the tree when apply_update was called
          sound       \* history: nothing in Faults has happened so far

vars == <<pc, conn, received, tmp, package, tree, bak, pushes, losses, before, sound>>

Trees == Versions \cup {Partial, Absent}
NoBackup == [tree |-> Absent, package |-> None]
PartialBackup == [tree |-> Partial, package |-> None]
Connections == [who : Senders, version : Versions, key : BOOLEAN,
                header : BOOLEAN, sent : 0..Size, open : BOOLEAN]

TypeOK ==
    /\ pc \in {"accept", "header", "receive", "backup", "extract", "success", "remove", "restore",
              "ended"}
    /\ conn \in Connections \cup {None}
    /\ received \in 0..Size
    /\ tmp \in 0..Size \cup {None}
    /\ package \in Versions \cup {Partial, None}
    /\ tree \in Trees
    /\ bak \in [tree : Trees, package : Versions \cup {Partial, None}]
    /\ pushes \in 0..MaxPushes /\ losses \in 0..MaxLosses
    /\ before \in Trees /\ sound \in BOOLEAN

Init ==
    /\ pc = "accept"
    /\ conn = None
    /\ received = 0
    /\ tmp = None
    /\ package = None
    /\ tree = Installed
    /\ bak = NoBackup
    /\ pushes = 0 /\ losses = 0
    /\ before = Installed /\ sound = TRUE

disk == <<tmp, package, tree, bak>>
counters == <<pushes, losses>>
history == <<before, sound>>

-----------------------------------------------------------------------------
(* The header: where its fields are, in bytes *)

\* magic, version, admin_key, size, sha256 as OTAHeader declares them ...
OTAHeader == <<16, 32, 256, 4, 32>>

\* ... and as ota_push.sh puts them together.
PushHeader == <<15, 32, 256, 4, 32>>

Layout(who) == IF who = "push" THEN PushHeader ELSE OTAHeader
SizeOf(layout) == FoldLeft(LAMBDA a, b : a + b, 0, layout)
Offset(layout, k) == SizeOf(SubSeq(layout, 1, k - 1))

\* What the receiver takes for admin_key is the key that was sent.
KeyAligned(who) == Offset(Layout(who), 3) = Offset(OTAHeader, 3)

-----------------------------------------------------------------------------
(* The sender *)

Connect(who, v, key) ==
    /\ pc = "accept" /\ conn = None
    /\ pushes < MaxPushes
    /\ pushes' = pushes + 1
    /\ conn' = [who |-> who, version |-> v, key |-> key, header |-> FALSE, sent |-> 0, open |-> TRUE]
    /\ pc' = "header"
    /\ UNCHANGED <<received, disk, losses, history>>

\* The header goes out, then the package.
SendHeader ==
    /\ conn # None /\ conn.open
    /\ ~conn.header
    /\ conn' = [conn EXCEPT !.header = TRUE]
    /\ UNCHANGED <<pc, received, disk, counters, history>>

SendChunk ==
    /\ conn # None /\ conn.open
    /\ conn.header /\ conn.sent < Size
    /\ conn' = [conn EXCEPT !.sent = @ + 1]
    /\ UNCHANGED <<pc, received, disk, counters, history>>

\* It has sent everything, or gives up on the way.
Hangup ==
    /\ conn # None /\ conn.open
    /\ conn' = [conn EXCEPT !.open = FALSE]
    /\ UNCHANGED <<pc, received, disk, counters, history>>

-----------------------------------------------------------------------------
(* main *)

Reject ==
    /\ pc' = "accept"
    /\ conn' = None
    /\ UNCHANGED <<received, disk, counters, before>>

\* The one read of the header, which waits for as long as nothing is sent, returns
\* less than sizeof(OTAHeader): the sender has gone, no more was sent, or not all of
\* it has arrived.
HeaderShort ==
    /\ pc = "header"
    /\ \/ ~conn.header /\ ~conn.open /\ UNCHANGED sound
       \/ conn.header /\ SizeOf(Layout(conn.who)) < SizeOf(OTAHeader) /\ UNCHANGED sound
       \/ conn.header /\ "split" \in Faults /\ sound' = FALSE
    /\ Reject

\* A whole OTAHeader was read, the first bytes of the package in it if the header
\* sent was too short.
HeaderRead ==
    /\ pc = "header" /\ conn.header
    /\ SizeOf(Layout(conn.who)) >= SizeOf(OTAHeader) \/ conn.sent > 0

Admitted == conn.who # "stranger" /\ conn.key /\ KeyAligned(conn.who)

\* Another magic, or verify_admin fails.
HeaderRefused == HeaderRead /\ ~Admitted /\ Reject /\ UNCHANGED sound

\* The package goes to a new file UPDATE_PATH.
HeaderAccepted ==
    /\ HeaderRead /\ Admitted
    /\ pc' = "receive"
    /\ received' = 0
    /\ tmp' = 0
    /\ UNCHANGED <<conn, package, tree, bak, counters, history>>

\* No file UPDATE_PATH can be opened: the first use of the null pointer, in fwrite or
\* fclose, ends the process.  Only the next start of the device brings it back.
HeaderUnstored ==
    /\ HeaderRead /\ Admitted
    /\ "disk" \in Faults
    /\ pc' = "ended"
    /\ conn' = None
    /\ sound' = FALSE
    /\ UNCHANGED <<received, disk, counters, before>>

\* What fwrite could not store is counted all the same.
Receive ==
    /\ pc = "receive"
    /\ received < Size /\ conn.sent > received
    /\ received' = received + 1
    /\ \/ tmp' = tmp + 1 /\ UNCHANGED sound
       \/ "disk" \in Faults /\ UNCHANGED tmp /\ sound' = FALSE
    /\ UNCHANGED <<pc, conn, package, tree, bak, counters, before>>

\* Mutant of ReceiveEnded: the loop ends one chunk early.
ReceiveEndedEarly == received = Size - 1 \/ (conn.sent = received /\ ~conn.open)

\* Mutant of ReceiveEnded: the end of the stream does not end the loop.
ReceivedAll == received = Size

\* hdr.size bytes, or the sender has gone.
ReceiveEnded == received = Size \/ (conn.sent = received /\ ~conn.open)

ChecksumMatches == tmp = Size

\* rename fails across file systems, and for want of a directory to move to.
Rename ==
    /\ pc' = "backup"
    /\ before' = tree
    /\ IF SameFS /\ tree # Absent
       THEN package' = (IF tmp = Size THEN conn.version ELSE Partial) /\ tmp' = None
       ELSE UNCHANGED <<package, tmp>>
    /\ UNCHANGED <<conn, received, tree, bak, counters, sound>>

\* Mutant of ChecksumFailed: the failure is reported and the update goes on.
ChecksumReported == pc = "receive" /\ ReceiveEnded /\ ~ChecksumMatches /\ Rename

ChecksumFailed ==
    /\ pc = "receive" /\ ReceiveEnded
    /\ ~ChecksumMatches
    /\ tmp' = None
    /\ pc' = "accept"
    /\ conn' = None
    /\ UNCHANGED <<received, package, tree, bak, counters, history>>

\* Mutant of ChecksumVerified: the package is left where it was received.
RenameForgotten ==
    /\ pc = "receive" /\ ReceiveEnded
    /\ ChecksumMatches
    /\ pc' = "backup"
    /\ before' = tree
    /\ UNCHANGED <<conn, received, disk, counters, sound>>

ChecksumVerified == pc = "receive" /\ ReceiveEnded /\ ChecksumMatches /\ Rename

-----------------------------------------------------------------------------
(* apply_update *)

\* cp -r: into the backup if there is one already, which changes nothing of it
\* that a later mv or the programs look at.
Backup ==
    /\ pc = "backup"
    /\ \/ /\ bak' = IF bak.tree = Absent THEN [tree |-> tree, package |-> package] ELSE bak
          /\ UNCHANGED sound
       \/ /\ "disk" \in Faults
          /\ bak.tree = Absent /\ tree # Absent
          /\ bak' = PartialBackup
          /\ sound' = FALSE
    /\ pc' = "extract"
    /\ UNCHANGED <<conn, received, tmp, package, tree, counters, before>>

\* tar -xzf: nothing to unpack or nowhere to put it, or all of it ...
Unpacked == IF package = None \/ tree = Absent THEN tree ELSE package

\* ... or as much as fits.
Unpack ==
    \/ tree' = Unpacked /\ UNCHANGED sound
    \/ /\ "disk" \in Faults /\ package # None /\ tree # Absent
       /\ tree' \in {tree, Partial}
       /\ sound' = FALSE

\* External: not in the repository; taken to tell a complete tree that works.
julius_verify_install(t) == t \in Good

\* Mutant of Extract: what does not work is not rolled back.
ExtractOnly ==
    /\ pc = "extract"
    /\ Unpack
    /\ pc' = "success"
    /\ UNCHANGED <<conn, received, tmp, package, bak, counters, before>>

Extract ==
    /\ pc = "extract"
    /\ Unpack
    /\ pc' = IF julius_verify_install(tree') THEN "success" ELSE "remove"
    /\ UNCHANGED <<conn, received, tmp, package, bak, counters, before>>

\* rm -rf /usr/julius
RemoveTree ==
    /\ pc = "remove"
    /\ tree' = Absent
    /\ package' = None
    /\ pc' = "restore"
    /\ UNCHANGED <<conn, received, tmp, bak, counters, history>>

\* mv /usr/julius.bak /usr/julius
Restore ==
    /\ pc = "restore"
    /\ tree' = bak.tree
    /\ package' = bak.package
    /\ bak' = NoBackup
    /\ pc' = "accept"
    /\ conn' = None
    /\ UNCHANGED <<received, tmp, counters, history>>

\* What is in memory and in a tmpfs is gone; julius_init makes an empty
\* /usr/julius where there is none.
Boot(t) ==
    /\ tree' = IF t = Absent THEN Partial ELSE t
    /\ tmp' = IF SameFS THEN tmp ELSE None
    /\ pc' = "accept"
    /\ conn' = None
    /\ received' = 0

\* Mutant of Success: the backup stays.
KeepBackup == pc = "success" /\ Boot(tree) /\ UNCHANGED <<package, bak, counters, history>>

\* rm -rf /usr/julius.bak and reboot
Success ==
    /\ pc = "success"
    /\ bak' = NoBackup
    /\ Boot(tree)
    /\ UNCHANGED <<package, counters, history>>

\* The power fails; a command that was running leaves some of its work.
PowerLoss ==
    /\ "power" \in Faults
    /\ losses < MaxLosses
    /\ losses' = losses + 1
    /\ \/ Boot(tree) /\ UNCHANGED <<package, bak>>
       \/ /\ \/ pc = "backup" /\ bak.tree = Absent /\ tree # Absent
             \/ pc = "success"
          /\ Boot(tree)
          /\ bak' = PartialBackup
          /\ UNCHANGED package
       \/ pc = "extract" /\ package # None /\ Boot(Partial) /\ UNCHANGED <<package, bak>>
       \/ pc = "remove" /\ Boot(Partial) /\ package' \in {package, None} /\ UNCHANGED bak
    /\ sound' = FALSE
    /\ UNCHANGED <<pushes, before>>

Main ==
    \/ HeaderShort \/ HeaderRefused \/ HeaderAccepted \/ HeaderUnstored \/ Receive
    \/ ChecksumFailed \/ ChecksumVerified \/ Backup \/ Extract \/ Success \/ RemoveTree \/ Restore

Next ==
    \/ \E who \in Senders, v \in Versions, key \in BOOLEAN : Connect(who, v, key)
    \/ SendHeader \/ SendChunk \/ Hangup \/ Main \/ PowerLoss

Spec == Init /\ [][Next]_vars

\* The receiver runs; a sender of updates goes on sending until it hangs up
\* (ota_push.sh has a timeout of 30 seconds and closes).  A stranger owes nothing: it
\* may connect and stay silent, and no read of the receiver has a timeout.
Proper == conn # None /\ conn.who # "stranger"

FairSpec ==
    /\ Spec
    /\ WF_vars(Main)
    /\ WF_vars(Proper /\ SendHeader) /\ WF_vars(Proper /\ SendChunk) /\ WF_vars(Proper /\ Hangup)

-----------------------------------------------------------------------------
(* Properties *)

\* What apply_update is about to unpack is the package of this very connection,
\* received whole: never part of one, and never one left by an earlier update
\* that was refused, rolled back or cut off.
OnlyVerifiedApplied ==
    pc \in {"backup", "extract"} => package \in {None, conn.version}

\* Between updates the tree is complete and works, as long as the device has had
\* no fault: an interrupted transfer, a bad checksum and a version that does not
\* work all leave what was there before.
IdleTreeWorks == sound /\ pc = "accept" => tree \in Good

\* When apply_update says that the update was applied, it is the pushed version
\* that is installed.
AppliedIsInstalled == sound /\ pc = "success" => tree = conn.version

\* A rollback brings back the tree that was there when the update began, however
\* many updates were applied, refused or rolled back before.
RollbackRestores == [][sound' /\ pc = "restore" /\ pc' = "accept" => tree' = before]_vars

\* The receiver comes back to accept from every connection but one that stays open
\* without sending anything, which holds it for as long as it likes; and unless the
\* process has ended for want of a file.  No header, checksum, rollback or hang-up in
\* the middle of a package holds it (main).
ListensAgain ==
    (pc # "accept" /\ (Proper \/ (conn # None /\ (conn.header \/ ~conn.open))))
      ~> pc \in {"accept", "ended"}

\* A version that works, sent whole, with an OTAHeader and the right key, is
\* installed.
PushedIsApplied ==
    \A v \in Good :
        (conn # None /\ conn.who = "conforming" /\ conn.version = v /\ conn.key /\ conn.sent = Size)
          ~> tree = v \/ ~sound
==============================================================================
