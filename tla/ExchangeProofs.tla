---------------------------- MODULE ExchangeProofs -----------------------------
(***************************************************************************)
(* The safety properties of file drops, of Julius Cloud and of the         *)
(* bridge's requests, for any devices, files, threads and daemons.         *)
(***************************************************************************)
EXTENDS JuliusExchange, TLAPS

-----------------------------------------------------------------------------
(* The bridge *)

\* The answer on its way is what the daemon did, and only a daemon that died keeps it
\* from the caller; until a request has ended, its caller has been told nothing.
RequestType ==
    /\ call \in [to : SUBSET Services, get : BOOLEAN,
                pc : {"idle", "connect", "sent", "served", "replied", "cut"},
                reply : SUBSET {"yes", "zeros", "value"}]
    /\ result \in SUBSET {"yes", "zeros", "value", "tail"}
    /\ done \in SUBSET {"yes", "zeros", "value"}
    /\ died \in BOOLEAN

AnswerInv ==
    /\ call.pc # "idle" => result = {}
    /\ call.pc \in {"connect", "sent"} => done = {}
    /\ call.pc \in {"served", "replied"} => done = call.reply
    /\ call.pc = "cut" => died
    /\ result # {} => done # {}
    /\ call.pc = "idle" /\ ~died /\ result = {} => done \subseteq {"zeros"}

RequestInv == RequestType /\ AnswerInv

\* Every step of the bridge's requests keeps that.
LEMMA RequestKept == RequestInv /\ Bridge!Requests => RequestInv'
  <1> SUFFICES ASSUME RequestInv, Bridge!Requests PROVE RequestInv'
    OBVIOUS
  <1> USE DEF RequestInv, RequestType, AnswerInv
  <1>1. CASE Bridge!Connect
    BY <1>1 DEF Bridge!Connect, Bridge!NoCall
  <1>2. CASE Bridge!Serve
    <2>1. PICK outcome \in SUBSET {"yes", "zeros", "value"} :
             done' = outcome /\ call' = [call EXCEPT !.pc = "served", !.reply = outcome]
      BY <1>2 DEF Bridge!Serve, Bridge!Outcomes
    <2> QED BY <1>2, <2>1 DEF Bridge!Serve
  <1>3. CASE Bridge!Reply
    BY <1>3 DEF Bridge!Reply
  <1>4. CASE Bridge!Answer
    <2>1. /\ call.pc \in {"replied", "cut"} /\ call' = Bridge!NoCall
          /\ UNCHANGED <<up, done, died>>
          /\ result' = IF call.pc = "replied" THEN Bridge!Decoded ELSE {}
      BY <1>4 DEF Bridge!Answer
    <2>2. /\ Bridge!Decoded \in SUBSET {"yes", "zeros", "value", "tail"}
          /\ Bridge!Decoded # {} => call.reply # {}
          /\ Bridge!Decoded = {} => call.reply \subseteq {"zeros"}
      BY DEF Bridge!Decoded
    <2> QED BY <2>1, <2>2 DEF Bridge!NoCall
  <1>5. CASE Bridge!Call
    <2>1. PICK d \in Services, get \in BOOLEAN :
             call' = [Bridge!NoCall EXCEPT !.to = {d}, !.get = get, !.pc = "connect"]
      BY <1>5 DEF Bridge!Call
    <2>2. result' = {} /\ done' = {} /\ died' = FALSE
      BY <1>5 DEF Bridge!Call
    <2> QED BY <2>1, <2>2 DEF Bridge!NoCall
  <1>6. ASSUME NEW d \in Services, Bridge!Down(d) \/ Bridge!Start(d) PROVE RequestInv'
    BY <1>6 DEF Bridge!Down, Bridge!Start, Bridge!Waiting
  <1> QED BY <1>1, <1>2, <1>3, <1>4, <1>5, <1>6 DEF Bridge!Requests, Bridge!Request

\* The battery's and the event socket's steps leave the requests alone.
LEMMA RequestLeft == RequestInv /\ (Bridge!Battery \/ Bridge!Events) => RequestInv'
  <1> SUFFICES ASSUME RequestInv, Bridge!Battery \/ Bridge!Events PROVE RequestInv'
    OBVIOUS
  <1>1. UNCHANGED Bridge!request
    BY DEF Bridge!Battery, Bridge!Events, Bridge!Charge, Bridge!Truncate, Bridge!Fill,
           Bridge!update, Bridge!Bind, Bridge!Exit, Bridge!PeerReads, Bridge!Event,
           Bridge!subscribe, Bridge!publish, Bridge!Check, Bridge!Recv
  <1> QED BY <1>1 DEF Bridge!request, RequestInv, RequestType, AnswerInv

\* A request that was answered with success was done by its daemon, and one that was
\* answered without was not, unless the daemon died before it answered or the value
\* found begins with zeros (AnswersHonest), whenever the daemons come and go.
THEOREM Honesty == Spec => []AnswersHonest
  <1>1. Init => RequestInv
    <2> SUFFICES ASSUME Init PROVE RequestInv
      OBVIOUS
    <2>1. Bridge!Init
      BY DEF Init
    <2> QED BY <2>1 DEF Bridge!Init, Bridge!NoCall, RequestInv, RequestType, AnswerInv
  <1>2. RequestInv /\ [Next]_vars => RequestInv'
    <2>1. RequestInv /\ UNCHANGED bridgeVars => RequestInv'
      BY DEF RequestInv, RequestType, AnswerInv, bridgeVars
    <2> QED BY <2>1, RequestKept, RequestLeft
            DEF Next, vars, OnlySync, OnlyDrop, OnlyCloud, OnlyCore, OnlyBridge
  <1>3. RequestInv => AnswersHonest
    BY DEF RequestInv, AnswerInv, AnswersHonest, Bridge!Honest, Bridge!Idle
  <1> QED BY <1>1, <1>2, <1>3, PTL DEF Spec

-----------------------------------------------------------------------------
(* Julius Cloud *)

RunType == [pc : {"none", "connect", "answer", "files", "body", "spin", "finally"},
            need : SUBSET Files, send : SUBSET Files, file : SUBSET Files,
            version : Nat, received : Nat]

CloudType ==
    /\ run \in [Runs -> RunType]
    /\ stored \in [Files -> Seq(Nat)]
    /\ doubtful \in SUBSET Files

Writes(r, f) == run[r].pc = "body" /\ f \in run[r].file

\* A thread has received no more than the version it is sent.
ReceivedInv == \A r \in Runs : run[r].pc = "body" => run[r].received <= run[r].version

\* n chunks of version v and no others
Has(chunks, n, v) == Len(chunks) = n /\ \A i \in 1..n : chunks[i] = v

\* A file without doubt has one writer, whose chunks it has, or none and is one version.
FileInv(f) ==
    /\ \A q, r \in Runs : Writes(q, f) /\ Writes(r, f) => q = r
    /\ \A r \in Runs : Writes(r, f) => Has(stored[f], run[r].received, run[r].version)
    /\ (\A r \in Runs : ~Writes(r, f)) => Has(stored[f], Len(stored[f]), Len(stored[f]))

CloudInv == CloudType /\ ReceivedInv /\ \A f \in Files \ doubtful : FileInv(f)

\* One more chunk of the same version is put behind the others.
LEMMA PutNext ==
    ASSUME NEW v \in Nat, NEW n \in Nat, NEW chunks \in Seq(Nat), Has(chunks, n, v)
    PROVE  Has(Cloud!Put(chunks, n + 1, v), n + 1, v)
  <1>1. Cloud!Put(chunks, n + 1, v) = [j \in 1..(n + 1) |-> v]
    <2>1. Cloud!Put(chunks, n + 1, v) =
            [j \in 1..(n + 1) |-> IF j = n + 1 THEN v ELSE IF j <= n THEN chunks[j] ELSE Cloud!Hole]
      BY DEF Cloud!Put, Has
    <2>2. \A j \in 1..(n + 1) : j = n + 1 \/ (j <= n /\ chunks[j] = v)
      BY DEF Has
    <2> QED BY <2>1, <2>2
  <1>2. [j \in 1..(n + 1) |-> v] \in Seq(Nat)
    OBVIOUS
  <1>3. Len([j \in 1..(n + 1) |-> v]) = n + 1
    OBVIOUS
  <1> QED BY <1>1, <1>3 DEF Has

\* Whatever is put where, a file stays a sequence of chunks.
LEMMA PutType ==
    ASSUME NEW v \in Nat, NEW n \in Nat, NEW chunks \in Seq(Nat)
    PROVE  Cloud!Put(chunks, n + 1, v) \in Seq(Nat)
  <1>1. PICK k \in Nat : k = IF n + 1 > Len(chunks) THEN n + 1 ELSE Len(chunks)
    OBVIOUS
  <1>2. Cloud!Put(chunks, n + 1, v) =
          [j \in 1..k |-> IF j = n + 1 THEN v ELSE IF j <= Len(chunks) THEN chunks[j] ELSE 0]
    BY <1>1 DEF Cloud!Put, Cloud!Hole
  <1>3. \A j \in 1..k :
          (IF j = n + 1 THEN v ELSE IF j <= Len(chunks) THEN chunks[j] ELSE 0) \in Nat
    OBVIOUS
  <1> QED BY <1>2, <1>3

\* A step of a thread leaves the other threads alone.
LEMMA CloudKept == CloudInv /\ Cloud!Next => CloudInv'
  <1> SUFFICES ASSUME CloudInv, Cloud!Next PROVE CloudInv'
    OBVIOUS
  <1>t. CloudType
    BY DEF CloudInv
  <1>i. ReceivedInv /\ \A f \in Files \ doubtful : FileInv(f)
    BY DEF CloudInv
  \* A thread that does not write, and will not, goes on.
  <1>1. ASSUME NEW r \in Runs, NEW new \in RunType, run' = [run EXCEPT ![r] = new],
               run[r].pc # "body", new.pc # "body", UNCHANGED <<stored, doubtful>>
        PROVE  CloudInv'
    <2>1. CloudType'
      BY <1>1, <1>t DEF CloudType
    <2>2. \A q \in Runs : q # r => run'[q] = run[q]
      BY <1>1, <1>t DEF CloudType
    <2>3. run'[r] = new
      BY <1>1, <1>t DEF CloudType
    <2>4. \A q \in Runs, f \in Files : Writes(q, f)' <=> Writes(q, f)
      BY <1>1, <2>2, <2>3 DEF Writes
    <2>5. \A q \in Runs, f \in Files : Writes(q, f) => run'[q] = run[q]
      BY <1>1, <2>2 DEF Writes
    <2>6. ReceivedInv'
      BY <1>1, <1>i, <2>2, <2>3 DEF ReceivedInv
    <2>7. \A f \in Files : FileInv(f) => FileInv(f)'
      BY <1>1, <2>4, <2>5 DEF FileInv, Has
    <2> QED BY <1>1, <1>i, <2>1, <2>6, <2>7 DEF CloudInv
  <1>2. CASE Cloud!sync
    <2>1. UNCHANGED <<stored, doubtful>>
      BY <1>2 DEF Cloud!sync
    <2>2. CASE UNCHANGED run
      BY <2>1, <2>2, <1>t, <1>i
         DEF CloudInv, CloudType, ReceivedInv, FileInv, Writes, Has
    <2>3. ASSUME NEW r \in Runs, run[r].pc = "none", run' = [run EXCEPT ![r].pc = "connect"]
          PROVE  CloudInv'
      <3>1. [run[r] EXCEPT !.pc = "connect"] \in RunType
        BY <1>t DEF CloudType, RunType
      <3>2. run' = [run EXCEPT ![r] = [run[r] EXCEPT !.pc = "connect"]]
        BY <2>3
      <3>3. [run[r] EXCEPT !.pc = "connect"].pc = "connect"
        BY <1>t DEF CloudType, RunType
      <3> QED BY <1>1, <2>1, <2>3, <3>1, <3>2, <3>3
    <2> QED BY <1>2, <2>2, <2>3 DEF Cloud!sync, Cloud!Goto
  <1>3. ASSUME NEW r \in Runs, Cloud!Work(r) PROVE CloudInv'
    <2>r. run[r] \in RunType
      BY <1>t DEF CloudType
    <2>g. ASSUME NEW place \in {"answer", "spin", "finally"}, Cloud!Goto(r, place), run[r].pc # "body",
                 UNCHANGED <<stored, doubtful>>
          PROVE  CloudInv'
      <3>1. /\ [run[r] EXCEPT !.pc = place] \in RunType
            /\ [run[r] EXCEPT !.pc = place].pc = place
        BY <2>r DEF RunType
      <3>2. run' = [run EXCEPT ![r] = [run[r] EXCEPT !.pc = place]]
        BY <2>g DEF Cloud!Goto
      <3> QED BY <1>1, <2>g, <3>1, <3>2
    <2>1. CASE Cloud!Connect(r) \/ Cloud!Complete(r)
      <3>1. run[r].pc # "body" /\ UNCHANGED <<stored, doubtful>>
        BY <2>1 DEF Cloud!Connect, Cloud!Complete
      <3> QED BY <2>1, <2>g, <3>1 DEF Cloud!Connect, Cloud!Complete
    <2>2. CASE Cloud!Answer(r)
      <3>1. run[r].pc # "body" /\ UNCHANGED <<stored, doubtful>>
        BY <2>2 DEF Cloud!Answer
      <3>2. ASSUME NEW need \in SUBSET Files, NEW send \in SUBSET Files,
                   run' = [run EXCEPT ![r] = [Cloud!NoRun EXCEPT !.pc = "files", !.need = need,
                                                                 !.send = send]]
            PROVE  CloudInv'
        <4>1. PICK new \in RunType :
                new = [Cloud!NoRun EXCEPT !.pc = "files", !.need = need, !.send = send]
          BY DEF RunType, Cloud!NoRun
        <4>2. new.pc = "files"
          BY <4>1 DEF Cloud!NoRun
        <4> QED BY <1>1, <3>1, <3>2, <4>1, <4>2
      <3> QED BY <2>2, <2>g, <3>1, <3>2 DEF Cloud!Answer
    <2>3. CASE Cloud!Upload(r)
      <3>1. run[r].pc = "files" /\ UNCHANGED <<stored, doubtful>>
        BY <2>3 DEF Cloud!Upload
      <3>2. PICK f \in run[r].need : run' = [run EXCEPT ![r].need = @ \ {f}]
        BY <2>3 DEF Cloud!Upload
      <3>3. PICK new \in RunType : new = [run[r] EXCEPT !.need = @ \ {f}]
        BY <2>r DEF RunType
      <3>4. new.pc = "files" /\ run' = [run EXCEPT ![r] = new]
        BY <3>1, <3>2, <3>3, <2>r DEF RunType
      <3> QED BY <1>1, <3>1, <3>4
    <2>4. CASE Cloud!Finally(r)
      <3>1. run[r].pc # "body" /\ UNCHANGED <<stored, doubtful>>
            /\ run' = [run EXCEPT ![r] = Cloud!NoRun]
        BY <2>4 DEF Cloud!Finally
      <3>2. Cloud!NoRun \in RunType /\ Cloud!NoRun.pc = "none"
        BY DEF Cloud!NoRun, RunType
      <3> QED BY <1>1, <3>1, <3>2
    <2>5. CASE Cloud!Download(r)
      <3>1. run[r].pc = "files"
        BY <2>5 DEF Cloud!Download
      <3>2. ASSUME NEW f \in run[r].send, NEW v \in 1..Longest,
                   run' = [run EXCEPT ![r] = [@ EXCEPT !.pc = "body", !.file = {f},
                                                       !.version = v, !.received = 0]],
                   stored' = [stored EXCEPT ![f] = <<>>],
                   doubtful' = IF Cloud!Writers(f) = {} THEN doubtful \ {f}
                                                        ELSE doubtful \cup {f}
            PROVE  CloudInv'
        <4>1. f \in Files /\ v \in Nat
          BY <2>r, ExchangeAssumption DEF RunType
        <4>2. PICK new \in RunType :
                new = [run[r] EXCEPT !.pc = "body", !.file = {f}, !.version = v, !.received = 0]
          BY <2>r, <4>1 DEF RunType
        <4>3. new.pc = "body" /\ new.file = {f} /\ new.version = v /\ new.received = 0
          BY <4>2, <2>r DEF RunType
        <4>4. /\ run'[r] = new /\ \A q \in Runs : q # r => run'[q] = run[q]
              /\ run' \in [Runs -> RunType]
          BY <3>2, <4>2, <1>t DEF CloudType
        <4>5. /\ stored'[f] = <<>> /\ \A g \in Files : g # f => stored'[g] = stored[g]
              /\ stored' \in [Files -> Seq(Nat)]
          BY <3>2, <4>1, <1>t DEF CloudType
        <4>6. CloudType'
          BY <3>2, <4>1, <4>4, <4>5, <1>t DEF CloudType
        <4>7. ReceivedInv'
          BY <4>1, <4>3, <4>4, <1>i DEF ReceivedInv
        <4>8. ASSUME NEW g \in Files \ doubtful' PROVE FileInv(g)'
          <5>1. CASE g = f
            <6>1. \A q \in Runs : ~Writes(q, f)
              BY <3>2, <4>1, <4>8, <5>1 DEF Cloud!Writers, Writes
            <6>2. \A q \in Runs : Writes(q, f)' => q = r
              BY <4>4, <6>1 DEF Writes
            <6>3. Writes(r, f)'
              BY <4>3, <4>4 DEF Writes
            <6>4. Has(stored'[f], 0, v)
              BY <4>5 DEF Has
            <6> QED BY <5>1, <6>2, <6>3, <6>4, <4>3, <4>4 DEF FileInv
          <5>2. CASE g # f
            <6>1. g \in Files \ doubtful /\ FileInv(g)
              BY <3>2, <4>8, <5>2, <1>i
            <6>2. \A q \in Runs : Writes(q, g)' <=> Writes(q, g)
              BY <3>1, <4>3, <4>4, <5>2 DEF Writes
            <6>3. \A q \in Runs : Writes(q, g) => run'[q] = run[q]
              BY <3>1, <4>4 DEF Writes
            <6>4. stored'[g] = stored[g]
              BY <4>5, <5>2
            <6> QED BY <6>1, <6>2, <6>3, <6>4 DEF FileInv, Has
          <5> QED BY <5>1, <5>2
        <4> QED BY <4>6, <4>7, <4>8 DEF CloudInv
      <3>3. CASE Cloud!Goto(r, "spin") /\ UNCHANGED <<stored, doubtful>>
        BY <2>g, <3>1, <3>3
      <3> QED BY <2>5, <3>2, <3>3 DEF Cloud!Download
    <2>6. CASE Cloud!Body(r)
      <3> DEFINE n == run[r].received
                 v == run[r].version
      <3>1. /\ run[r].pc = "body" /\ n < v /\ n \in Nat /\ v \in Nat
            /\ run' = [run EXCEPT ![r].received = n + 1] /\ UNCHANGED doubtful
            /\ stored' = [f \in Files |-> IF f \in run[r].file THEN Cloud!Put(stored[f], n + 1, v)
                                                              ELSE stored[f]]
        BY <2>6, <2>r DEF Cloud!Body, RunType
      <3>2. PICK new \in RunType : new = [run[r] EXCEPT !.received = n + 1]
        <4>1. PICK m \in Nat : m = n + 1
          BY <3>1
        <4>2. [run[r] EXCEPT !.received = m] \in RunType
          BY <2>r DEF RunType
        <4> QED BY <4>1, <4>2
      <3>3. /\ new.pc = "body" /\ new.file = run[r].file /\ new.version = v
            /\ new.received = n + 1
        BY <3>1, <3>2, <2>r DEF RunType
      <3>4. /\ run'[r] = new /\ \A q \in Runs : q # r => run'[q] = run[q]
            /\ run' \in [Runs -> RunType]
        BY <3>1, <3>2, <1>t DEF CloudType
      <3>5. stored' \in [Files -> Seq(Nat)]
        BY <3>1, <1>t, PutType DEF CloudType
      <3>6. CloudType'
        BY <3>1, <3>4, <3>5, <1>t DEF CloudType
      <3>7. ReceivedInv'
        BY <3>1, <3>3, <3>4, <1>i DEF ReceivedInv
      <3>8. \A q \in Runs, f \in Files : Writes(q, f)' <=> Writes(q, f)
        BY <3>1, <3>3, <3>4 DEF Writes
      <3>9. ASSUME NEW f \in Files \ doubtful' PROVE FileInv(f)'
        <4>1. f \in Files \ doubtful /\ FileInv(f)
          BY <3>1, <3>9, <1>i
        <4>2. CASE Writes(r, f)
          <5>1. Has(stored[f], n, v) /\ stored[f] \in Seq(Nat)
            BY <4>1, <4>2, <1>t DEF FileInv, CloudType
          <5>2. Has(stored'[f], n + 1, v)
            BY <3>1, <4>1, <4>2, <5>1, PutNext DEF Writes
          <5>3. \A q \in Runs : Writes(q, f)' => q = r
            BY <3>8, <4>1, <4>2 DEF FileInv
          <5> QED BY <3>3, <3>4, <3>8, <4>1, <4>2, <5>2, <5>3 DEF FileInv
        <4>3. CASE ~Writes(r, f)
          <5>1. stored'[f] = stored[f]
            BY <3>1, <4>1, <4>3 DEF Writes
          <5>2. \A q \in Runs : Writes(q, f) => run'[q] = run[q]
            BY <3>4, <4>3
          <5> QED BY <3>8, <4>1, <5>1, <5>2 DEF FileInv, Has
        <4> QED BY <4>2, <4>3
      <3> QED BY <3>6, <3>7, <3>9 DEF CloudInv
    <2>7. CASE Cloud!Downloaded(r) \/ Cloud!Fail(r)
      <3>1. PICK new \in RunType : run' = [run EXCEPT ![r] = new] /\ new.pc # "body"
        <4>1. CASE Cloud!Downloaded(r)
          <5>1. PICK rest \in SUBSET Files : rest = run[r].send \ run[r].file
            BY <2>r DEF RunType
          <5>2. PICK new \in RunType : new = [Cloud!NoRun EXCEPT !.pc = "files", !.send = rest]
            BY DEF Cloud!NoRun, RunType
          <5>3. new.pc = "files"
            BY <5>2 DEF Cloud!NoRun
          <5> QED BY <4>1, <5>1, <5>2, <5>3 DEF Cloud!Downloaded
        <4>2. CASE Cloud!Fail(r)
          <5>1. PICK new \in RunType : new = [Cloud!NoRun EXCEPT !.pc = "finally"]
            BY DEF Cloud!NoRun, RunType
          <5>2. new.pc = "finally"
            BY <5>1 DEF Cloud!NoRun
          <5> QED BY <4>2, <5>1, <5>2 DEF Cloud!Fail
        <4> QED BY <2>7, <4>1, <4>2
      <3>2. /\ UNCHANGED stored /\ doubtful \subseteq doubtful' /\ doubtful' \in SUBSET Files
            /\ run[r].pc = "body" => \/ doubtful' = doubtful \cup run[r].file
                                     \/ run[r].received >= run[r].version
        BY <2>7, <2>r, <1>t
           DEF Cloud!Downloaded, Cloud!Fail, Cloud!AllReceived, RunType, CloudType
      <3>3. /\ run'[r] = new /\ \A q \in Runs : q # r => run'[q] = run[q]
            /\ run' \in [Runs -> RunType]
        BY <3>1, <1>t DEF CloudType
      <3>4. CloudType' /\ ReceivedInv'
        BY <3>1, <3>2, <3>3, <1>t, <1>i DEF CloudType, ReceivedInv
      <3>5. \A f \in Files : /\ ~Writes(r, f)'
                             /\ \A q \in Runs : q # r => (Writes(q, f)' <=> Writes(q, f))
        BY <3>1, <3>3 DEF Writes
      <3>6. ASSUME NEW f \in Files \ doubtful' PROVE FileInv(f)'
        <4>1. f \in Files \ doubtful /\ FileInv(f) /\ stored'[f] = stored[f]
          BY <3>2, <3>6, <1>i
        <4>2. CASE Writes(r, f)
          <5>1. run[r].received >= run[r].version /\ run[r].received <= run[r].version
            BY <3>2, <3>6, <4>2, <1>i DEF Writes, ReceivedInv
          <5>2. run[r].received = run[r].version
            BY <5>1, <2>r DEF RunType
          <5>3. Has(stored[f], Len(stored[f]), Len(stored[f]))
            BY <4>1, <4>2, <5>2 DEF FileInv, Has
          <5>4. \A q \in Runs : ~Writes(q, f)'
            BY <3>5, <4>1, <4>2 DEF FileInv
          <5> QED BY <4>1, <5>3, <5>4 DEF FileInv
        <4>3. CASE ~Writes(r, f)
          <5>1. \A q \in Runs : Writes(q, f)' <=> Writes(q, f)
            BY <3>5, <4>1, <4>3
          <5>2. \A q \in Runs : Writes(q, f) => run'[q] = run[q]
            BY <3>3, <4>3
          <5> QED BY <4>1, <5>1, <5>2 DEF FileInv, Has
        <4> QED BY <4>2, <4>3
      <3> QED BY <3>4, <3>6 DEF CloudInv
    <2> QED BY <1>3, <2>1, <2>2, <2>3, <2>4, <2>5, <2>6, <2>7 DEF Cloud!Work
  <1> QED BY <1>2, <1>3 DEF Cloud!Next

-----------------------------------------------------------------------------
(* Drops *)

DropType ==
    /\ peer \in [Peers -> [pc : {"idle", "open", "done", "cut", "silent", "error"},
                           name : FileNames \cup {Nobody}, sent : Nat \cup {-1}]]
    /\ backlog \in Seq(Peers) /\ conn \in Peers \cup {Nobody} /\ received \in -1..Size
    /\ disk \in [FileNames -> [from : Peers \cup {Nobody}, chunks : 0..Size]]
    /\ transfers \in Seq(Peers) /\ refused \in SUBSET Peers

\* A device drops one file: it waits, is read or is recorded, and once.
OnceInv ==
    /\ \A i, j \in 1..Len(backlog) : backlog[i] = backlog[j] => i = j
    /\ \A i \in 1..Len(backlog) : backlog[i] # conn
    /\ \A i \in 1..Len(transfers) :
          transfers[i] # conn /\ \A j \in 1..Len(backlog) : transfers[i] # backlog[j]

\* Who waits, is read or is recorded, or has a file on the disk, has named it.
NamedInv ==
    /\ \A p \in Peers : peer[p].pc # "idle" => peer[p].name \in FileNames
    /\ \A i \in 1..Len(backlog) : peer[backlog[i]].pc # "idle"
    /\ conn # Nobody => peer[conn].pc # "idle"
    /\ \A i \in 1..Len(transfers) : peer[transfers[i]].pc # "idle"
    /\ \A n \in FileNames : disk[n].from # Nobody =>
          peer[disk[n].from].pc # "idle" /\ peer[disk[n].from].name = n

\* What has been read of a drop is on the disk.
ReadInv ==
    conn # Nobody =>
        /\ received <= peer[conn].sent
        /\ received >= 0 => disk[peer[conn].name] = [from |-> conn, chunks |-> received]

\* What the receiver is to have of a drop
Got(p) == IF peer[p].sent < Size THEN peer[p].sent ELSE Size

\* All that was announced has been sent, or nothing more will be.
Sent(p) == peer[p].sent >= Size \/ peer[p].pc \in {"cut", "done"}

\* A file that is recorded is as in Whole, and no empty entry stands for it.
DoneInv ==
    \A i \in 1..Len(transfers) : LET p == transfers[i] IN
        /\ disk[peer[p].name].from # Nobody
        /\ disk[peer[p].name].from = p => disk[peer[p].name].chunks = Got(p) /\ Sent(p)

DropInv == DropType /\ OnceInv /\ NamedInv /\ ReadInv /\ DoneInv

\* A step of a sender: a device goes on, and at most joins the connections.
LEMMA SenderKept ==
    ASSUME DropInv, NEW p \in Peers,
           \/ Drop!Connect(p) \/ Drop!Send(p) \/ Drop!Close(p)
           \/ Drop!SendError(p) \/ Drop!Vanish(p)
    PROVE  DropInv'
  <1>t. DropType /\ OnceInv /\ NamedInv /\ ReadInv /\ DoneInv
    BY DEF DropInv
  <1>r. UNCHANGED <<conn, received, disk, transfers, refused>>
    BY DEF Drop!Connect, Drop!Send, Drop!Close, Drop!SendError, Drop!Vanish, Drop!receiver
  <1>2. CASE Drop!Connect(p)
    <2>1. PICK n \in FileNames : peer' = [peer EXCEPT ![p].pc = "open", ![p].name = n]
      BY <1>2 DEF Drop!Connect
    <2>2. peer[p].pc = "idle" /\ backlog' = Append(backlog, p)
      BY <1>2 DEF Drop!Connect
    <2>3. /\ peer' \in [Peers -> [pc : {"idle", "open", "done", "cut", "silent", "error"},
                                  name : FileNames \cup {Nobody}, sent : Nat \cup {-1}]]
          /\ peer'[p].pc = "open" /\ peer'[p].name = n
          /\ \A q \in Peers : q # p => peer'[q] = peer[q]
      BY <2>1, <1>t DEF DropType
    <2>4. /\ backlog' \in Seq(Peers) /\ Len(backlog') = Len(backlog) + 1
          /\ backlog'[Len(backlog) + 1] = p
          /\ \A i \in 1..Len(backlog) : backlog'[i] = backlog[i] /\ backlog[i] \in Peers
      BY <2>2, <1>t DEF DropType
    <2>5. /\ \A i \in 1..Len(backlog) : backlog[i] # p
          /\ p # conn
          /\ \A i \in 1..Len(transfers) : transfers[i] # p
      BY <2>2, <1>t, ExchangeAssumption DEF NamedInv
    <2>6. DropType'
      BY <2>3, <2>4, <1>r, <1>t DEF DropType
    <2>7. OnceInv'
      <3>1. \A i, j \in 1..Len(backlog') : backlog'[i] = backlog'[j] => i = j
        <4> SUFFICES ASSUME NEW i \in 1..Len(backlog'), NEW j \in 1..Len(backlog'),
                            backlog'[i] = backlog'[j]
                     PROVE  i = j
          OBVIOUS
        <4>1. Len(backlog) \in Nat
          BY <1>t DEF DropType
        <4>2. /\ i \in 1..Len(backlog) \/ i = Len(backlog) + 1
              /\ j \in 1..Len(backlog) \/ j = Len(backlog) + 1
          BY <4>1, <2>4
        <4> QED BY <4>2, <2>4, <2>5, <1>t DEF OnceInv
      <3>2. \A i \in 1..Len(backlog') : i \in 1..Len(backlog) \/ backlog'[i] = p
        <4>1. Len(backlog) \in Nat
          BY <1>t DEF DropType
        <4> QED BY <4>1, <2>4
      <3>3. \A i \in 1..Len(backlog') : backlog'[i] # conn
        BY <3>2, <2>4, <2>5, <1>t DEF OnceInv
      <3>4. \A i \in 1..Len(transfers) :
               transfers[i] # conn /\ \A j \in 1..Len(backlog') : transfers[i] # backlog'[j]
        BY <3>2, <2>4, <2>5, <1>t DEF OnceInv
      <3> QED BY <3>1, <3>3, <3>4, <1>r DEF OnceInv
    <2>8. \A n2 \in FileNames : disk[n2].from # p
      BY <2>2, <1>t, ExchangeAssumption DEF NamedInv
    <2>9. /\ \A i \in 1..Len(transfers) : transfers[i] \in Peers
          /\ \A n2 \in FileNames : disk[n2].from \in Peers \cup {Nobody}
      BY <1>t DEF DropType
    <2>10. NamedInv'
      <3>1. \A q \in Peers : peer'[q].pc # "idle" => peer'[q].name \in FileNames
        BY <2>3, <1>t DEF NamedInv
      <3>3. \A i \in 1..Len(backlog') : peer'[backlog'[i]].pc # "idle"
        <4>1. Len(backlog) \in Nat
          BY <1>t DEF DropType
        <4>2. \A i \in 1..Len(backlog') : i \in 1..Len(backlog) \/ i = Len(backlog) + 1
          BY <4>1, <2>4
        <4>3. \A i \in 1..Len(backlog) : peer'[backlog'[i]].pc # "idle"
          <5> SUFFICES ASSUME NEW i \in 1..Len(backlog) PROVE peer'[backlog'[i]].pc # "idle"
            OBVIOUS
          <5>1. backlog'[i] = backlog[i] /\ backlog[i] \in Peers /\ backlog[i] # p
            BY <2>4, <2>5
          <5>2. peer'[backlog[i]] = peer[backlog[i]]
            BY <5>1, <2>3
          <5>3. peer[backlog[i]].pc # "idle"
            BY <1>t DEF NamedInv
          <5> QED BY <5>1, <5>2, <5>3
        <4> QED BY <4>2, <4>3, <2>3, <2>4
      <3>4. conn # Nobody => peer'[conn].pc # "idle"
        BY <2>3, <2>5, <1>t DEF NamedInv, DropType
      <3>5. \A i \in 1..Len(transfers) : peer'[transfers[i]].pc # "idle"
        BY <2>3, <2>5, <2>9, <1>t DEF NamedInv
      <3>6. \A n2 \in FileNames : disk[n2].from # Nobody =>
               peer'[disk[n2].from].pc # "idle" /\ peer'[disk[n2].from].name = n2
        BY <2>3, <2>8, <2>9, <1>t DEF NamedInv
      <3> QED BY <3>1, <3>3, <3>4, <3>5, <3>6, <1>r DEF NamedInv
    <2>11. ReadInv'
      BY <2>3, <2>5, <1>r, <1>t DEF ReadInv, DropType
    <2>12. DoneInv'
      BY <2>3, <2>5, <2>9, <1>r, <1>t DEF DoneInv, Got, Sent
    <2> QED BY <2>6, <2>7, <2>10, <2>11, <2>12 DEF DropInv
  <1>3. CASE Drop!Send(p) \/ Drop!Close(p) \/ Drop!SendError(p) \/ Drop!Vanish(p)
    <2>1. peer[p].pc = "open" /\ UNCHANGED backlog
      BY <1>3 DEF Drop!Send, Drop!Close, Drop!SendError, Drop!Vanish
    <2>a. peer[p].sent \in Nat \cup {-1} /\ Size \in Nat
      BY <1>t, ExchangeAssumption DEF DropType
    <2>b. \/ peer' = [peer EXCEPT ![p].sent = @ + 1]
          \/ \E how \in {"done", "error", "cut", "silent"} : peer' = [peer EXCEPT ![p].pc = how]
      BY <1>3 DEF Drop!Send, Drop!Close, Drop!SendError, Drop!Vanish
    <2>c. PICK pc2 \in {"open", "done", "cut", "silent", "error"}, sent2 \in Nat \cup {-1} :
             /\ peer' = [peer EXCEPT ![p].pc = pc2, ![p].sent = sent2]
             /\ peer[p].sent <= sent2
      <3>1. CASE peer' = [peer EXCEPT ![p].sent = @ + 1]
        <4>1. peer[p].sent + 1 \in Nat \cup {-1} /\ peer[p].sent <= peer[p].sent + 1
          BY <2>a
        <4>2. peer' = [peer EXCEPT ![p].pc = "open", ![p].sent = peer[p].sent + 1]
          BY <3>1, <2>1, <1>t DEF DropType
        <4> QED BY <4>1, <4>2
      <3>3. ASSUME NEW how \in {"done", "error", "cut", "silent"}, peer' = [peer EXCEPT ![p].pc = how]
            PROVE  /\ peer' = [peer EXCEPT ![p].pc = how, ![p].sent = peer[p].sent]
                   /\ peer[p].sent <= peer[p].sent
        <4>1. peer' = [peer EXCEPT ![p].pc = how, ![p].sent = peer[p].sent]
          BY <3>3, <1>t DEF DropType
        <4>2. peer[p].sent <= peer[p].sent
          BY <2>a
        <4> QED BY <4>1, <4>2
      <3> QED BY <2>a, <2>b, <3>1, <3>3
    <2>d. /\ peer' \in [Peers -> [pc : {"idle", "open", "done", "cut", "silent", "error"},
                                  name : FileNames \cup {Nobody}, sent : Nat \cup {-1}]]
          /\ peer'[p].pc = pc2 /\ peer'[p].sent = sent2 /\ peer'[p].name = peer[p].name
          /\ \A q \in Peers : q # p => peer'[q] = peer[q]
      BY <2>c, <1>t DEF DropType
    <2>2. DropType' /\ OnceInv'
      BY <2>1, <2>d, <1>r, <1>t DEF DropType, OnceInv
    <2>3. ASSUME NEW q \in Peers
          PROVE  /\ peer'[q].name = peer[q].name
                 /\ peer[q].pc # "idle" <=> peer'[q].pc # "idle"
                 /\ peer[q].sent <= peer'[q].sent
                 /\ peer[q].pc \in {"cut", "done"} => peer'[q] = peer[q]
      <3>1. CASE q = p
        BY <3>1, <2>1, <2>c, <2>d
      <3>2. CASE q # p
        <4>1. peer[q].sent \in Int
          BY <1>t DEF DropType
        <4> QED BY <3>2, <4>1, <2>d
      <3> QED BY <3>1, <3>2
    <2>4. /\ \A i \in 1..Len(transfers) : transfers[i] \in Peers
          /\ \A i \in 1..Len(backlog) : backlog[i] \in Peers
          /\ \A n \in FileNames : disk[n].from \in Peers \cup {Nobody}
          /\ conn \in Peers \cup {Nobody}
      BY <1>t DEF DropType
    <2>5. NamedInv'
      BY <2>1, <2>3, <2>4, <1>r, <1>t DEF NamedInv
    <2>6. ReadInv'
      <3>1. conn # Nobody => peer[conn].sent \in Int /\ peer'[conn].sent \in Int /\ received \in Int
        BY <2>d, <2>4, <1>t DEF DropType
      <3> QED BY <2>3, <2>4, <3>1, <1>r, <1>t DEF ReadInv
    <2>7. DoneInv'
      <3>1. ASSUME NEW q \in Peers, Sent(q)
            PROVE  Sent(q)' /\ Got(q)' = Got(q)
        <4>1. peer[q].sent \in Int /\ peer'[q].sent \in Int
          BY <2>d, <1>t DEF DropType
        <4> QED BY <3>1, <4>1, <2>3, <2>a DEF Sent, Got
      <3> QED BY <3>1, <2>3, <2>4, <1>r, <1>t DEF DoneInv
    <2> QED BY <2>2, <2>5, <2>6, <2>7 DEF DropInv
  <1> QED BY <1>2, <1>3

\* A step of the receiver: it takes the next connection, reads on, records the drop, or
\* gives it up.
LEMMA ReceiverKept == DropInv /\ Drop!Receive => DropInv'
  <1> SUFFICES ASSUME DropInv, Drop!Receive PROVE DropInv'
    OBVIOUS
  <1>t. DropType /\ OnceInv /\ NamedInv /\ ReadInv /\ DoneInv
    BY DEF DropInv
  <1>l. /\ Len(backlog) \in Nat /\ Len(transfers) \in Nat
        /\ \A i \in 1..Len(backlog) : backlog[i] \in Peers
        /\ \A i \in 1..Len(transfers) : transfers[i] \in Peers
        /\ \A p \in Peers : p # Nobody
    BY <1>t, ExchangeAssumption DEF DropType
  <1>1. CASE Drop!Accept
    <2>1. /\ conn = Nobody /\ backlog # <<>> /\ received' = -1
          /\ conn' = Head(backlog) /\ backlog' = Tail(backlog)
          /\ UNCHANGED <<peer, disk, transfers, refused>>
      BY <1>1 DEF Drop!Accept, Drop!Header
    <2>2. /\ Len(backlog) >= 1 /\ conn' = backlog[1] /\ conn' \in Peers
          /\ backlog' \in Seq(Peers) /\ Len(backlog') = Len(backlog) - 1
          /\ \A i \in 1..Len(backlog') : backlog'[i] = backlog[i + 1]
      BY <2>1, <1>t DEF DropType
    <2>3. \A i \in 1..Len(backlog') : i + 1 \in 1..Len(backlog) /\ i + 1 # 1
      BY <2>2, <1>l
    <2>4. DropType'
      <3>1. received' \in -1..Size
        BY <2>1, ExchangeAssumption
      <3> QED BY <2>1, <2>2, <3>1, <1>t DEF DropType
    <2>5. OnceInv'
      <3>1. \A i, j \in 1..Len(backlog') : backlog'[i] = backlog'[j] => i = j
        <4> SUFFICES ASSUME NEW i \in 1..Len(backlog'), NEW j \in 1..Len(backlog'),
                            backlog'[i] = backlog'[j]
                     PROVE  i = j
          OBVIOUS
        <4>1. i + 1 = j + 1
          BY <2>2, <2>3, <1>t DEF OnceInv
        <4> QED BY <4>1
      <3>2. \A i \in 1..Len(backlog') : backlog'[i] # conn'
        BY <2>2, <2>3, <1>l, <1>t DEF OnceInv
      <3>3. \A i \in 1..Len(transfers) :
               transfers[i] # conn' /\ \A j \in 1..Len(backlog') : transfers[i] # backlog'[j]
        BY <2>2, <2>3, <1>l, <1>t DEF OnceInv
      <3> QED BY <2>1, <3>1, <3>2, <3>3 DEF OnceInv
    <2>6. NamedInv'
      <3>1. /\ \A i \in 1..Len(backlog') : peer[backlog'[i]].pc # "idle"
            /\ peer[conn'].pc # "idle"
        BY <2>2, <2>3, <1>l, <1>t DEF NamedInv
      <3> QED BY <2>1, <3>1, <1>t DEF NamedInv
    <2>7. ReadInv'
      <3>1. peer[conn'].sent \in Nat \cup {-1}
        BY <2>2, <1>t DEF DropType
      <3> QED BY <2>1, <3>1, ExchangeAssumption DEF ReadInv
    <2>8. DoneInv'
      BY <2>1, <1>t DEF DoneInv, Got, Sent
    <2> QED BY <2>4, <2>5, <2>6, <2>7, <2>8 DEF DropInv
  <1>2. CASE Drop!ReadHeader \/ Drop!ReadChunk
    <2>1. conn \in Peers /\ conn # Nobody /\ UNCHANGED <<peer, backlog, conn, transfers, refused>>
      BY <1>2, <1>t DEF Drop!ReadHeader, Drop!ReadChunk, DropType
    <2>2. /\ peer[conn].sent \in Nat \cup {-1} /\ peer[conn].pc # "idle"
          /\ peer[conn].name \in FileNames
      BY <2>1, <1>t DEF DropType, NamedInv
    <2>3. PICK c \in 0..Size :
             /\ received' = c /\ c <= peer[conn].sent
             /\ disk' = [disk EXCEPT ![peer[conn].name] = [from |-> conn, chunks |-> c]]
      <3>1. CASE Drop!ReadHeader
        <4>1. /\ received' = 0 /\ peer[conn].sent > -1
              /\ disk' = [disk EXCEPT ![peer[conn].name] = [from |-> conn, chunks |-> 0]]
          BY <3>1 DEF Drop!ReadHeader, Drop!Header, Drop!Name
        <4>2. 0 \in 0..Size /\ 0 <= peer[conn].sent
          BY <4>1, <2>2, ExchangeAssumption
        <4> QED BY <4>1, <4>2
      <3>2. CASE Drop!ReadChunk
        <4>1. /\ received \in 0..(Size - 1) /\ peer[conn].sent > received
              /\ received' = received + 1
              /\ disk' = [disk EXCEPT ![peer[conn].name].chunks = received + 1]
          BY <3>2 DEF Drop!ReadChunk, Drop!Name
        <4>2. received + 1 \in 0..Size /\ received + 1 <= peer[conn].sent
          BY <4>1, <2>2, ExchangeAssumption
        <4>3. disk[peer[conn].name] = [from |-> conn, chunks |-> received]
          BY <4>1, <2>1, <1>t DEF ReadInv
        <4>4. disk' = [disk EXCEPT ![peer[conn].name] = [from |-> conn, chunks |-> received + 1]]
          <5>1. received + 1 \in Int
            BY <4>1
          <5>2. PICK n \in FileNames : n = peer[conn].name
            BY <2>2
          <5>3. /\ disk' \in [FileNames -> [from : Peers \cup {Nobody}, chunks : Int]]
                /\ disk'[n].from = disk[n].from /\ disk'[n].chunks = received + 1
                /\ \A m \in FileNames : m # n => disk'[m] = disk[m]
            <6>1. disk \in [FileNames -> [from : Peers \cup {Nobody}, chunks : Int]]
              BY <1>t, ExchangeAssumption DEF DropType
            <6>2. PICK c \in Int : c = received + 1
              BY <5>1
            <6>3. disk' = [disk EXCEPT ![n].chunks = c]
              BY <4>1, <5>2, <6>2
            <6> QED BY <6>1, <6>2, <6>3
          <5>4. disk'[n] = [from |-> conn, chunks |-> received + 1]
            BY <5>2, <5>3, <4>3
          <5>5. disk' = [m \in FileNames |-> IF m = n THEN [from |-> conn, chunks |-> received + 1]
                                             ELSE disk[m]]
            BY <5>3, <5>4
          <5> QED BY <5>2, <5>5, <1>t DEF DropType
        <4> QED BY <4>1, <4>2, <4>4
      <3> QED BY <1>2, <3>1, <3>2
    <2>4. /\ disk' \in [FileNames -> [from : Peers \cup {Nobody}, chunks : 0..Size]]
          /\ disk'[peer[conn].name] = [from |-> conn, chunks |-> c]
          /\ \A n \in FileNames : n # peer[conn].name => disk'[n] = disk[n]
      BY <2>1, <2>2, <2>3, <1>t DEF DropType
    <2>5. DropType' /\ OnceInv'
      <3>1. received' \in -1..Size
        BY <2>3, ExchangeAssumption
      <3> QED BY <2>1, <2>4, <3>1, <1>t DEF DropType, OnceInv
    <2>6. NamedInv'
      <3>1. \A n \in FileNames : disk'[n].from # Nobody =>
               peer[disk'[n].from].pc # "idle" /\ peer[disk'[n].from].name = n
        BY <2>2, <2>4, <1>t DEF NamedInv
      <3> QED BY <2>1, <3>1, <1>t DEF NamedInv
    <2>7. ReadInv'
      BY <2>1, <2>3, <2>4 DEF ReadInv
    <2>8. DoneInv'
      <3>1. ASSUME NEW i \in 1..Len(transfers)
            PROVE  LET p == transfers[i] IN
                   /\ disk'[peer[p].name].from # Nobody
                   /\ disk'[peer[p].name].from = p =>
                         disk'[peer[p].name].chunks = Got(p) /\ Sent(p)
        <4>1. transfers[i] \in Peers /\ transfers[i] # conn
          BY <1>l, <1>t DEF OnceInv
        <4>2. peer[transfers[i]].name \in FileNames
          BY <4>1, <1>t DEF NamedInv
        <4>3. CASE peer[transfers[i]].name = peer[conn].name
          BY <4>1, <4>3, <2>1, <2>4
        <4>4. CASE peer[transfers[i]].name # peer[conn].name
          BY <4>2, <4>4, <2>4, <1>t DEF DoneInv
        <4> QED BY <4>3, <4>4
      <3> QED BY <2>1, <3>1 DEF DoneInv, Got, Sent
    <2> QED BY <2>5, <2>6, <2>7, <2>8 DEF DropInv
  <1>3. CASE Drop!Record
    <2>1. /\ conn \in Peers /\ conn # Nobody /\ received >= 0 /\ conn' = Nobody
          /\ transfers' = Append(transfers, conn)
          /\ UNCHANGED <<peer, backlog, received, disk, refused>>
      BY <1>3, <1>t DEF Drop!Record, DropType
    <2>2. /\ transfers' \in Seq(Peers) /\ Len(transfers') = Len(transfers) + 1
          /\ transfers'[Len(transfers) + 1] = conn
          /\ \A i \in 1..Len(transfers) : transfers'[i] = transfers[i]
      BY <2>1, <1>t DEF DropType
    <2>3. \A i \in 1..Len(transfers') : i \in 1..Len(transfers) \/ transfers'[i] = conn
      BY <2>2, <1>l
    <2>4. DropType'
      BY <2>1, <2>2, <1>t DEF DropType
    <2>5. OnceInv'
      <3>1. \A i \in 1..Len(backlog) : backlog[i] # Nobody
        BY <1>l
      <3>2. \A i \in 1..Len(transfers') :
               transfers'[i] # Nobody /\ \A j \in 1..Len(backlog) : transfers'[i] # backlog[j]
        BY <2>1, <2>2, <2>3, <1>l, <1>t DEF OnceInv
      <3> QED BY <2>1, <3>1, <3>2, <1>t DEF OnceInv
    <2>6. NamedInv'
      <3>1. \A i \in 1..Len(transfers') : peer[transfers'[i]].pc # "idle"
        BY <2>1, <2>2, <2>3, <1>t DEF NamedInv
      <3> QED BY <2>1, <3>1, <1>t DEF NamedInv
    <2>7. ReadInv'
      BY <2>1 DEF ReadInv
    <2>8. DoneInv'
      <3>1. disk[peer[conn].name] = [from |-> conn, chunks |-> received]
        BY <2>1, <1>t DEF ReadInv
      <3>2. received = Got(conn) /\ Sent(conn)
        <4>1. /\ peer[conn].sent \in Int /\ Size \in Nat /\ received \in 0..Size
              /\ received <= peer[conn].sent
          BY <2>1, <1>t, ExchangeAssumption DEF DropType, ReadInv
        <4>2. received = Size \/ (peer[conn].pc \in {"cut", "done"} /\ received = peer[conn].sent)
          BY <1>3 DEF Drop!Record, Drop!EndOfFile, Drop!Closed
        <4> QED BY <4>1, <4>2 DEF Got, Sent
      <3>3. ASSUME NEW i \in 1..Len(transfers')
            PROVE  LET p == transfers'[i] IN
                   /\ disk[peer[p].name].from # Nobody
                   /\ disk[peer[p].name].from = p =>
                         disk[peer[p].name].chunks = Got(p) /\ Sent(p)
        <4>1. CASE i \in 1..Len(transfers)
          BY <4>1, <2>2, <1>t DEF DoneInv
        <4>2. CASE transfers'[i] = conn
          BY <4>2, <2>1, <3>1, <3>2
        <4> QED BY <4>1, <4>2, <2>3
      <3> QED BY <2>1, <3>3 DEF DoneInv, Got, Sent
    <2> QED BY <2>4, <2>5, <2>6, <2>7, <2>8 DEF DropInv
  <1>4. CASE Drop!Raise
    <2>1. /\ conn \in Peers /\ conn # Nobody /\ conn' = Nobody
          /\ refused' = refused \cup {conn}
          /\ UNCHANGED <<peer, backlog, received, transfers>>
      BY <1>4, <1>t DEF Drop!Raise, DropType
    <2>2. peer[conn].name \in FileNames
      BY <2>1, <1>t DEF NamedInv
    <2>3. /\ disk' \in [FileNames -> [from : Peers \cup {Nobody}, chunks : 0..Size]]
          /\ \A n \in FileNames : disk'[n].from = disk[n].from
          /\ \A n \in FileNames : disk[n].from # conn => disk'[n] = disk[n]
      <3>1. CASE UNCHANGED disk
        BY <3>1, <1>t DEF DropType
      <3>2. CASE received >= 0 /\ \E n \in 0..received :
                   disk' = [disk EXCEPT ![peer[conn].name].chunks = n]
        <4>1. PICK n \in 0..Size : disk' = [disk EXCEPT ![peer[conn].name].chunks = n]
          <5>1. received \in -1..Size /\ Size \in Nat
            BY <1>t, ExchangeAssumption DEF DropType
          <5>2. 0..received \subseteq 0..Size
            BY <5>1
          <5> QED BY <3>2, <5>2
        <4>2. disk[peer[conn].name].from = conn
          BY <3>2, <2>1, <1>t DEF ReadInv
        <4>3. /\ disk' \in [FileNames -> [from : Peers \cup {Nobody}, chunks : 0..Size]]
              /\ \A m \in FileNames : disk'[m].from = disk[m].from
              /\ \A m \in FileNames : m # peer[conn].name => disk'[m] = disk[m]
          BY <4>1, <2>2, <1>t DEF DropType
        <4> QED BY <4>2, <4>3
      <3> QED BY <1>4, <3>1, <3>2 DEF Drop!Raise, Drop!Name
    <2>4. DropType'
      BY <2>1, <2>3, <1>t DEF DropType
    <2>5. OnceInv' /\ ReadInv'
      BY <2>1, <1>l, <1>t DEF OnceInv, ReadInv
    <2>6. NamedInv'
      BY <2>1, <2>3, <1>t DEF NamedInv
    <2>7. DoneInv'
      <3>1. ASSUME NEW i \in 1..Len(transfers)
            PROVE  LET p == transfers[i] IN
                   /\ disk'[peer[p].name].from # Nobody
                   /\ disk'[peer[p].name].from = p =>
                         disk'[peer[p].name].chunks = Got(p) /\ Sent(p)
        <4>1. transfers[i] \in Peers /\ transfers[i] # conn
          BY <1>l, <1>t DEF OnceInv
        <4>2. peer[transfers[i]].name \in FileNames
          BY <4>1, <1>t DEF NamedInv
        <4> QED BY <4>1, <4>2, <2>3, <1>t DEF DoneInv
      <3> QED BY <2>1, <3>1 DEF DoneInv, Got, Sent
    <2> QED BY <2>4, <2>5, <2>6, <2>7 DEF DropInv
  <1> QED BY <1>1, <1>2, <1>3, <1>4 DEF Drop!Receive

\* Every step of the drops keeps the invariant.
LEMMA DropKept == DropInv /\ Drop!Next => DropInv'
  BY SenderKept, ReceiverKept DEF Drop!Next

\* What is recorded as received is on the disk, as much of it as was announced and sent,
\* unless another drop of its name came; and a file of the cloud that nobody writes is
\* one version, unless its last download was cut off or overlapped another of that file
\* (FilesWhole).
THEOREM FilesStayWhole == Spec => []FilesWhole
  <1> DEFINE Inv == DropInv /\ CloudInv
  <1>1. Init => Inv
    <2> SUFFICES ASSUME Init PROVE Inv
      OBVIOUS
    <2>1. Drop!Init /\ Cloud!Init
      BY DEF Init
    <2>2. DropInv
      <3>1. /\ peer = [p \in Peers |-> [pc |-> "idle", name |-> Nobody, sent |-> -1]]
            /\ backlog = <<>> /\ conn = Nobody /\ received = -1
            /\ disk = [n \in FileNames |-> [from |-> Nobody, chunks |-> 0]]
            /\ transfers = <<>> /\ refused = {}
        BY <2>1 DEF Drop!Init, Drop!Header, Drop!NoFile
      <3>2. -1 \in -1..Size /\ 0 \in 0..Size
        BY ExchangeAssumption
      <3>3. DropType
        BY <3>1, <3>2 DEF DropType
      <3>4. 1..Len(backlog) = {} /\ 1..Len(transfers) = {}
        BY <3>1
      <3> QED BY <3>1, <3>3, <3>4 DEF DropInv, OnceInv, NamedInv, ReadInv, DoneInv
    <2>3. CloudInv
      <3>1. /\ run = [r \in Runs |-> Cloud!NoRun]
            /\ stored \in [Files -> {Cloud!Version(v) : v \in 0..Longest}] /\ doubtful = {}
        BY <2>1 DEF Cloud!Init
      <3>2. Cloud!NoRun \in RunType /\ Cloud!NoRun.pc = "none"
        BY DEF Cloud!NoRun, RunType
      <3>3. ASSUME NEW v \in 0..Longest
            PROVE  Cloud!Version(v) \in Seq(Nat) /\ Has(Cloud!Version(v), v, v)
        <4>1. v \in Nat
          BY ExchangeAssumption
        <4>2. [i \in 1..v |-> v] \in Seq(Nat) /\ Len([i \in 1..v |-> v]) = v
          BY <4>1
        <4> QED BY <4>2 DEF Cloud!Version, Has
      <3>4. ASSUME NEW f \in Files
            PROVE  stored[f] \in Seq(Nat) /\ Has(stored[f], Len(stored[f]), Len(stored[f]))
        <4>1. PICK v \in 0..Longest : stored[f] = Cloud!Version(v)
          BY <3>1
        <4>2. Len(stored[f]) = v
          BY <4>1, <3>3 DEF Has
        <4> QED BY <3>3, <4>1, <4>2
      <3>5. stored \in [Files -> Seq(Nat)]
        BY <3>1, <3>4
      <3>6. CloudType
        BY <3>1, <3>2, <3>5 DEF CloudType
      <3>7. \A r \in Runs : run[r].pc = "none"
        BY <3>1, <3>2
      <3> QED BY <3>4, <3>6, <3>7 DEF CloudInv, ReceivedInv, FileInv, Writes
    <2> QED BY <2>2, <2>3
  <1>2. Inv /\ [Next]_vars => Inv'
    <2>1. DropInv /\ UNCHANGED dropVars => DropInv'
      BY DEF DropInv, DropType, OnceInv, NamedInv, ReadInv, DoneInv, Got, Sent, dropVars
    <2>2. CloudInv /\ UNCHANGED cloudVars => CloudInv'
      BY DEF CloudInv, CloudType, ReceivedInv, FileInv, Writes, Has, cloudVars
    <2> QED BY <2>1, <2>2, DropKept, CloudKept
            DEF Next, vars, OnlySync, OnlyDrop, OnlyCloud, OnlyCore, OnlyBridge
  <1>3. Inv => FilesWhole
    <2> SUFFICES ASSUME Inv PROVE FilesWhole
      OBVIOUS
    <2>1. Drop!Whole
      <3>1. DropType /\ NamedInv /\ DoneInv
        BY DEF DropInv
      <3>2. ASSUME NEW i \in 1..Len(transfers)
            PROVE  LET p == transfers[i] IN
                   \/ disk[peer[p].name] = [from |-> p, chunks |-> Got(p)] /\ Sent(p)
                   \/ disk[peer[p].name].from # p
                        /\ peer[disk[peer[p].name].from].name = peer[p].name
        <4>1. transfers[i] \in Peers
          BY <3>1 DEF DropType
        <4>2. peer[transfers[i]].name \in FileNames
          BY <3>1, <4>1 DEF NamedInv
        <4>3. disk[peer[transfers[i]].name] \in [from : Peers \cup {Nobody}, chunks : 0..Size]
          BY <3>1, <4>2 DEF DropType
        <4>4. /\ disk[peer[transfers[i]].name].from # Nobody
              /\ disk[peer[transfers[i]].name].from = transfers[i] =>
                    disk[peer[transfers[i]].name].chunks = Got(transfers[i]) /\ Sent(transfers[i])
          BY <3>1 DEF DoneInv
        <4>5. peer[disk[peer[transfers[i]].name].from].name = peer[transfers[i]].name
          BY <3>1, <4>2, <4>4 DEF NamedInv
        <4> QED BY <4>3, <4>4, <4>5
      <3>3. DOMAIN transfers = 1..Len(transfers)
        BY <3>1 DEF DropType
      <3> QED BY <3>2, <3>3 DEF Drop!Whole, Drop!Name, Drop!Closed, Got, Sent
    <2>2. Cloud!Whole
      <3>1. ASSUME NEW f \in Files \ doubtful, Cloud!Writers(f) = {}
            PROVE  Cloud!Entire(stored[f])
        <4>1. stored[f] \in Seq(Nat) /\ Has(stored[f], Len(stored[f]), Len(stored[f]))
          BY <3>1 DEF CloudInv, CloudType, FileInv, Writes, Cloud!Writers
        <4>2. stored[f] = [i \in 1..Len(stored[f]) |-> stored[f][i]]
          BY <4>1
        <4> QED BY <4>1, <4>2 DEF Has, Cloud!Entire, Cloud!Version
      <3> QED BY <3>1 DEF Cloud!Whole
    <2> QED BY <2>1, <2>2 DEF FilesWhole
  <1> QED BY <1>1, <1>2, <1>3, PTL DEF Spec

================================================================================
