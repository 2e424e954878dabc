------------------------------- MODULE OTAProofs -------------------------------
(***************************************************************************)
(* The safety properties of the update receiver, for any versions, package *)
(* sizes, senders, file systems and faults, and for any number of          *)
(* connections and power failures.                                         *)
(***************************************************************************)
EXTENDS JuliusOTA, TLAPS

-----------------------------------------------------------------------------
(* The inductive invariant *)

\* A connection is served in every place but accept, while the process is there, and no
\* more is stored than was counted.
ServedInv ==
    /\ pc \notin {"accept", "ended"} => conn \in Connections
    /\ pc = "receive" => tmp \in 0..received

\* No package lies where no tree does: the package is in the tree's directory, and
\* across file systems it never gets there.  What is to be unpacked is new.
PackageInv ==
    /\ tree = Absent => package = None
    /\ bak.tree = Absent => bak.package = None
    /\ ~SameFS => package = None /\ bak.package = None
    /\ pc \in {"backup", "extract"} => package \in {None, conn.version}

\* What the trees are in each place while the device has had no fault.
SoundInv == sound =>
    /\ pc \in {"accept", "header", "receive", "backup"} => tree \in Good /\ bak.tree = Absent
    /\ pc = "backup" => before = tree
    /\ pc = "extract" => bak.tree = tree
    /\ pc \in {"extract", "remove", "restore"} => bak.tree = before /\ before \in Good
    /\ pc = "success" => tree \in Good

\* On one file system an update is of the version that was pushed, across two there is
\* nothing to unpack.
PushedInv == sound =>
    /\ SameFS /\ pc \in {"backup", "extract"} => package = conn.version
    /\ SameFS /\ pc = "success" => tree = conn.version
    /\ ~SameFS /\ pc = "success" => tree = before

IInv == TypeOK /\ ServedInv /\ PackageInv /\ SoundInv /\ PushedInv

\* A working version is a version, and neither of the marks is one.
LEMMA GoodVersions ==
    /\ \A v \in Good : v \in Versions /\ v # Absent /\ v # Partial
    /\ \A v \in Versions : v # Absent /\ v # Partial /\ v # None
  BY OTAAssumption

\* The receiver starts in a state of the invariant.
LEMMA InitIInv == Init => IInv
  BY GoodVersions, OTAAssumption
  DEF Init, IInv, TypeOK, ServedInv, PackageInv, SoundInv, PushedInv, NoBackup, Trees

\* Every step keeps the types.
LEMMA StepType == IInv /\ [Next]_vars => TypeOK' /\ ServedInv'
  <1> SUFFICES ASSUME IInv, [Next]_vars PROVE TypeOK' /\ ServedInv'
    OBVIOUS
  <1>t. TypeOK /\ ServedInv
    BY DEF IInv
  <1>0. /\ Size \in Nat \ {0} /\ 0 \in 0..Size /\ MaxPushes \in Nat /\ MaxLosses \in Nat
        /\ NoBackup \in [tree : Trees, package : Versions \cup {Partial, None}]
        /\ PartialBackup \in [tree : Trees, package : Versions \cup {Partial, None}]
        /\ {Partial, Absent} \subseteq Trees
    BY OTAAssumption DEF NoBackup, PartialBackup, Trees
  <1>1. ASSUME NEW who \in Senders, NEW v \in Versions, NEW key \in BOOLEAN, Connect(who, v, key)
        PROVE  TypeOK' /\ ServedInv'
    <2>1. conn' \in Connections
      BY <1>1, <1>0 DEF Connect, Connections
    <2>2. pushes' \in 0..MaxPushes
      BY <1>1, <1>0, <1>t DEF Connect, TypeOK
    <2> QED BY <2>1, <2>2, <1>1, <1>t DEF Connect, TypeOK, ServedInv, disk, history
  <1>2. CASE SendHeader \/ SendChunk \/ Hangup
    <2>1. conn \in Connections
      BY <1>2, <1>t DEF SendHeader, SendChunk, Hangup, TypeOK
    <2>2. /\ conn.who \in Senders /\ conn.version \in Versions /\ conn.key \in BOOLEAN
          /\ conn.header \in BOOLEAN /\ conn.sent \in 0..Size /\ conn.open \in BOOLEAN
          /\ conn = [who |-> conn.who, version |-> conn.version, key |-> conn.key,
                     header |-> conn.header, sent |-> conn.sent, open |-> conn.open]
      BY <2>1 DEF Connections
    <2>3. \A h \in BOOLEAN, n \in 0..Size, b \in BOOLEAN :
            [who |-> conn.who, version |-> conn.version, key |-> conn.key,
             header |-> h, sent |-> n, open |-> b] \in Connections
      BY <2>2 DEF Connections
    <2>4. conn' \in Connections
      <3>1. CASE SendChunk
        <4>1. conn.sent + 1 \in 0..Size /\ conn' = [conn EXCEPT !.sent = @ + 1]
          BY <3>1, <2>2, <1>0 DEF SendChunk
        <4> QED BY <4>1, <2>2, <2>3
      <3>2. CASE Hangup
        BY <3>2, <2>2, <2>3 DEF Hangup
      <3>3. CASE SendHeader
        BY <3>3, <2>2, <2>3 DEF SendHeader
      <3> QED BY <1>2, <3>1, <3>2, <3>3
    <2> QED BY <2>4, <1>2, <1>t
            DEF SendHeader, SendChunk, Hangup, TypeOK, ServedInv, disk, counters, history
  <1>3. CASE HeaderShort \/ HeaderRefused \/ HeaderUnstored
    BY <1>3, <1>t DEF HeaderUnstored, HeaderShort, HeaderRefused, Reject, TypeOK, ServedInv, disk, counters
  <1>4. CASE HeaderAccepted
    BY <1>4, <1>0, <1>t DEF HeaderAccepted, HeaderRead, TypeOK, ServedInv, counters, history
  <1>5. CASE Receive
    <2>0. /\ pc = "receive" /\ received \in 0..Size /\ received < Size /\ tmp \in 0..received
          /\ received' = received + 1 /\ tmp' \in {tmp, tmp + 1}
      BY <1>5, <1>t DEF Receive, TypeOK, ServedInv
    <2>1. received' \in 0..Size /\ tmp' \in 0..received' /\ sound' \in BOOLEAN
      <3>1. sound' \in BOOLEAN
        BY <1>5, <1>t DEF Receive, TypeOK
      <3> QED BY <2>0, <3>1, <1>0
    <2>2. tmp' \in 0..Size
      BY <2>1, <1>0
    <2> QED BY <2>1, <2>2, <1>5, <1>t DEF Receive, TypeOK, ServedInv, counters
  <1>6. CASE ChecksumFailed
    BY <1>6, <1>t DEF ChecksumFailed, TypeOK, ServedInv, counters, history
  <1>7. CASE ChecksumVerified
    <2>1. conn.version \in Versions
      BY <1>7, <1>t DEF ChecksumVerified, ServedInv, Connections
    <2> QED BY <2>1, <1>7, <1>t
            DEF ChecksumVerified, Rename, ChecksumMatches, TypeOK, ServedInv, counters
  <1>8. CASE Backup
    <2>1. bak' \in [tree : Trees, package : Versions \cup {Partial, None}]
      BY <1>8, <1>0, <1>t DEF Backup, TypeOK
    <2> QED BY <2>1, <1>8, <1>t DEF Backup, TypeOK, ServedInv, counters
  <1>9. CASE Extract
    <2>1. tree' \in Trees /\ sound' \in BOOLEAN
      BY <1>9, <1>0, <1>t DEF Extract, Unpack, Unpacked, TypeOK, Trees
    <2> QED BY <2>1, <1>9, <1>t DEF Extract, TypeOK, ServedInv, counters
  <1>10. CASE Success
    BY <1>10, <1>0, <1>t DEF Success, Boot, TypeOK, ServedInv, counters, history
  <1>11. CASE RemoveTree
    BY <1>11, <1>0, <1>t DEF RemoveTree, TypeOK, ServedInv, counters, history
  <1>12. CASE Restore
    BY <1>12, <1>0, <1>t DEF Restore, TypeOK, ServedInv, counters, history
  <1>13. CASE PowerLoss
    <2>1. losses' \in 0..MaxLosses /\ sound' = FALSE /\ UNCHANGED <<pushes, before>>
      BY <1>13, <1>0, <1>t DEF PowerLoss, TypeOK
    <2>2. \E t \in Trees : Boot(t)
      BY <1>13, <1>0, <1>t DEF PowerLoss, TypeOK
    <2>3. /\ package' \in Versions \cup {Partial, None}
          /\ bak' \in [tree : Trees, package : Versions \cup {Partial, None}]
      BY <1>13, <1>0, <1>t DEF PowerLoss, TypeOK
    <2> QED BY <2>1, <2>2, <2>3, <1>0, <1>t DEF Boot, TypeOK, ServedInv
  <1>14. CASE UNCHANGED vars
    BY <1>14, <1>t DEF vars, TypeOK, ServedInv
  <1> QED BY <1>1, <1>2, <1>3, <1>4, <1>5, <1>6, <1>7, <1>8, <1>9, <1>10, <1>11, <1>12, <1>13,
             <1>14 DEF Next, Main

\* Every step keeps the package where a tree is, and what is unpacked new.
LEMMA StepPackage == IInv /\ [Next]_vars => PackageInv'
  <1> SUFFICES ASSUME IInv, [Next]_vars PROVE PackageInv'
    OBVIOUS
  <1>t. TypeOK /\ ServedInv /\ PackageInv
    BY DEF IInv
  <1>1. ASSUME UNCHANGED <<package, tree, bak>>, pc' \notin {"backup", "extract"}
        PROVE  PackageInv'
    BY <1>1, <1>t DEF PackageInv
  <1>2. ASSUME NEW who \in Senders, NEW v \in Versions, NEW key \in BOOLEAN, Connect(who, v, key)
        PROVE  PackageInv'
    BY <1>2, <1>1 DEF Connect, disk
  <1>3. CASE SendHeader \/ SendChunk \/ Hangup
    <2>1. UNCHANGED <<package, tree, bak, pc>>
      BY <1>3 DEF SendHeader, SendChunk, Hangup, disk
    <2>2. pc \in {"backup", "extract"} => conn'.version = conn.version
      BY <1>3, <1>t DEF SendHeader, SendChunk, Hangup, ServedInv, Connections
    <2> QED BY <2>1, <2>2, <1>t DEF PackageInv
  <1>4. CASE HeaderShort \/ HeaderRefused \/ HeaderAccepted \/ HeaderUnstored \/ Receive \/ ChecksumFailed
    BY <1>4, <1>1 DEF HeaderShort, HeaderRefused, Reject, HeaderAccepted, HeaderUnstored, Receive, ChecksumFailed, disk
  <1>5. CASE ChecksumVerified
    BY <1>5, <1>t DEF ChecksumVerified, Rename, ChecksumMatches, PackageInv
  <1>6. CASE Backup
    <2>1. bak'.tree = Absent => bak'.package = None
      BY <1>6, <1>t, OTAAssumption DEF Backup, PackageInv, PartialBackup
    <2>2. ~SameFS => bak'.package = None
      BY <1>6, <1>t DEF Backup, PackageInv, PartialBackup
    <2> QED BY <2>1, <2>2, <1>6, <1>t DEF Backup, PackageInv
  <1>7. CASE Extract
    <2>1. tree' = Absent => package = None
      BY <1>7, <1>t, GoodVersions, OTAAssumption DEF Extract, Unpack, Unpacked, PackageInv, TypeOK
    <2> QED BY <2>1, <1>7, <1>t DEF Extract, PackageInv
  <1>8. CASE RemoveTree
    BY <1>8, <1>t DEF RemoveTree, PackageInv
  <1>9. CASE Restore
    BY <1>9, <1>t DEF Restore, PackageInv, NoBackup
  <1>10. CASE Success
    BY <1>10, <1>t, OTAAssumption DEF Success, Boot, PackageInv, NoBackup
  <1>11. CASE PowerLoss
    BY <1>11, <1>t, OTAAssumption DEF PowerLoss, Boot, PackageInv, PartialBackup
  <1>12. CASE UNCHANGED vars
    BY <1>12, <1>t DEF vars, PackageInv
  <1> QED BY <1>2, <1>3, <1>4, <1>5, <1>6, <1>7, <1>8, <1>9, <1>10, <1>11, <1>12 DEF Next, Main

\* Without a fault every step keeps a working tree or its backup.
LEMMA StepSound == IInv /\ [Next]_vars => SoundInv' /\ PushedInv'
  <1> SUFFICES ASSUME IInv, [Next]_vars, sound' PROVE SoundInv' /\ PushedInv'
    BY DEF SoundInv, PushedInv
  <1>t. TypeOK /\ ServedInv /\ PackageInv /\ SoundInv /\ PushedInv
    BY DEF IInv
  <1>1. ASSUME NEW who \in Senders, NEW v \in Versions, NEW key \in BOOLEAN, Connect(who, v, key)
        PROVE  SoundInv' /\ PushedInv'
    BY <1>1, <1>t DEF Connect, SoundInv, PushedInv, disk, history
  <1>2. CASE SendHeader \/ SendChunk \/ Hangup
    <2>1. UNCHANGED <<package, tree, bak, pc, before, sound>>
      BY <1>2 DEF SendHeader, SendChunk, Hangup, disk, history
    <2>2. pc \notin {"accept", "ended"} => conn'.version = conn.version
      BY <1>2, <1>t DEF SendHeader, SendChunk, Hangup, ServedInv, Connections
    <2> QED BY <2>1, <2>2, <1>t DEF SoundInv, PushedInv
  <1>3. CASE HeaderShort \/ HeaderRefused \/ HeaderAccepted \/ HeaderUnstored \/ Receive \/ ChecksumFailed
    <2>1. UNCHANGED <<package, tree, bak, before>> /\ sound /\ pc' \in {"accept", "receive"}
      BY <1>3, <1>t DEF HeaderShort, HeaderRefused, Reject, HeaderAccepted, HeaderUnstored, Receive, ChecksumFailed,
                        disk, history
    <2>2. pc \in {"header", "receive"}
      BY <1>3 DEF HeaderShort, HeaderRefused, HeaderRead, HeaderAccepted, HeaderUnstored, Receive, ChecksumFailed
    <2> QED BY <2>1, <2>2, <1>t DEF SoundInv, PushedInv
  <1>4. CASE ChecksumVerified
    <2>1. sound /\ pc = "receive" /\ pc' = "backup" /\ before' = tree /\ UNCHANGED <<tree, bak, conn>>
      BY <1>4 DEF ChecksumVerified, Rename
    <2>2. tree \in Good /\ bak.tree = Absent /\ tree # Absent
      BY <2>1, <1>t, GoodVersions DEF SoundInv
    <2>3. SameFS => package' = conn.version
      BY <1>4, <2>2 DEF ChecksumVerified, Rename, ChecksumMatches
    <2> QED BY <2>1, <2>2, <2>3 DEF SoundInv, PushedInv
  <1>5. CASE Backup
    <2>1. sound /\ pc = "backup" /\ pc' = "extract" /\ UNCHANGED <<tree, conn, package, before>>
      BY <1>5 DEF Backup
    <2>2. bak' = [tree |-> tree, package |-> package]
      BY <1>5, <2>1, <1>t DEF Backup, SoundInv
    <2> QED BY <2>1, <2>2, <1>t DEF SoundInv, PushedInv
  <1>6. CASE Extract
    <2>1. sound /\ pc = "extract" /\ UNCHANGED <<bak, conn, package, before>> /\ tree' = Unpacked
      BY <1>6 DEF Extract, Unpack
    <2>2. pc' = IF tree' \in Good THEN "success" ELSE "remove"
      BY <1>6 DEF Extract, julius_verify_install
    <2>3. SameFS => tree' = conn.version
      <3>1. SameFS => package = conn.version /\ conn.version \in Versions
        BY <2>1, <1>t DEF PushedInv, ServedInv, Connections
      <3>2. tree # Absent
        BY <2>1, <1>t, GoodVersions DEF SoundInv
      <3> QED BY <3>1, <3>2, <2>1, GoodVersions DEF Unpacked
    <2>4. ~SameFS => tree' = before
      BY <2>1, <1>t DEF Unpacked, PackageInv, SoundInv
    <2> QED BY <2>1, <2>2, <2>3, <2>4, <1>t DEF SoundInv, PushedInv
  <1>7. CASE RemoveTree
    BY <1>7, <1>t DEF RemoveTree, SoundInv, PushedInv, history
  <1>8. CASE Restore
    BY <1>8, <1>t DEF Restore, SoundInv, PushedInv, NoBackup, history
  <1>9. CASE Success
    BY <1>9, <1>t, GoodVersions DEF Success, Boot, SoundInv, PushedInv, NoBackup, history
  <1>10. CASE PowerLoss
    BY <1>10 DEF PowerLoss
  <1>11. CASE UNCHANGED vars
    BY <1>11, <1>t DEF vars, SoundInv, PushedInv
  <1> QED BY <1>1, <1>2, <1>3, <1>4, <1>5, <1>6, <1>7, <1>8, <1>9, <1>10, <1>11 DEF Next, Main

-----------------------------------------------------------------------------
(* The theorems *)

\* The inductive invariant holds in every state of every behaviour.
THEOREM Invariant == Spec => []IInv
  <1>1. IInv /\ [Next]_vars => IInv'
    BY StepType, StepPackage, StepSound DEF IInv
  <1> QED BY InitIInv, <1>1, PTL DEF Spec

\* Every variable of the receiver keeps its type; no more chunks are counted than a
\* package has.
THEOREM TypeCorrect == Spec => []TypeOK
  BY Invariant, PTL DEF IInv

\* apply_update unpacks the package of this connection, received whole, or nothing
\* (OnlyVerifiedApplied): also with faults, and when renames across file systems fail.
THEOREM OnlyVerified == Spec => []OnlyVerifiedApplied
  <1>1. IInv => OnlyVerifiedApplied
    BY DEF IInv, PackageInv, OnlyVerifiedApplied
  <1> QED BY Invariant, <1>1, PTL

\* Between updates a device without a fault has a tree that works (IdleTreeWorks).
THEOREM IdleWorks == Spec => []IdleTreeWorks
  <1>1. IInv => IdleTreeWorks
    BY DEF IInv, SoundInv, IdleTreeWorks
  <1> QED BY Invariant, <1>1, PTL

\* An update that is reported as applied is installed (AppliedIsInstalled) where /tmp
\* and /usr/julius are on one file system.  Where they are not, as on a device whose
\* /tmp is a tmpfs, the rename never works: an update that is reported as applied has
\* changed nothing, and the tree is the working one it began with.
THEOREM AppliedInstalled ==
    Spec => /\ [](SameFS => AppliedIsInstalled)
            /\ [](~SameFS /\ sound /\ pc = "success" => tree = before /\ tree \in Good)
  <1>1. IInv => (SameFS => AppliedIsInstalled)
    BY DEF IInv, PushedInv, AppliedIsInstalled
  <1>2. IInv => (~SameFS /\ sound /\ pc = "success" => tree = before /\ tree \in Good)
    BY DEF IInv, PushedInv, SoundInv
  <1> QED BY Invariant, <1>1, <1>2, PTL

\* A rollback brings back the tree the update began with (RollbackRestores).
THEOREM RollbackCorrect == Spec => RollbackRestores
  <1>1. IInv /\ [Next]_vars => [sound' /\ pc = "restore" /\ pc' = "accept" => tree' = before]_vars
    <2> SUFFICES ASSUME IInv, Next, sound', pc = "restore", pc' = "accept"
                 PROVE  tree' = before
      OBVIOUS
    <2>1. Restore
      BY DEF Next, Main, Connect, SendHeader, SendChunk, Hangup, HeaderShort, HeaderRefused, HeaderRead,
             HeaderAccepted, HeaderUnstored, Receive, ChecksumFailed, ChecksumVerified, Backup, Extract, Success,
             RemoveTree, PowerLoss
    <2> QED BY <2>1 DEF Restore, IInv, SoundInv, history
  <1> QED BY Invariant, <1>1, PTL DEF Spec, RollbackRestores
================================================================================
