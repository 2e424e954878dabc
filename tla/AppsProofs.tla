------------------------------ MODULE AppsProofs -------------------------------
(***************************************************************************)
(* The safety properties of the shells that host the apps, and of the apps *)
(* in them, for any apps, any bounds and any number of recent apps.        *)
(***************************************************************************)
EXTENDS JuliusApps, SequenceTheorems, FiniteSetTheorems, TLAPS

-----------------------------------------------------------------------------
(* The list of recent apps *)

Distinct(s) == \A i, j \in 1..Len(s) : s[i] = s[j] => i = j

\* remove() takes one entry off a list.
LEMMA RemoveAtProperties ==
    ASSUME NEW S, NEW s \in Seq(S), NEW i \in 1..Len(s)
    PROVE  /\ RemoveAt(s, i) \in Seq(S)
           /\ Len(RemoveAt(s, i)) = Len(s) - 1
           /\ \A j \in 1..(Len(s) - 1) : RemoveAt(s, i)[j] = s[IF j < i THEN j ELSE j + 1]
  <1> DEFINE a == SubSeq(s, 1, i - 1)
             b == SubSeq(s, i + 1, Len(s))
  <1>1. /\ a \in Seq(S) /\ Len(a) = i - 1
        /\ \A j \in 1..(i - 1) : a[j] = s[j]
    <2>1. \A j \in 1..(i - 1) : s[j] \in S
      OBVIOUS
    <2>2. /\ a \in Seq(S)
          /\ Len(a) = IF 1 <= i - 1 THEN (i - 1) - 1 + 1 ELSE 0
          /\ \A j \in 1..((i - 1) - 1 + 1) : a[j] = s[1 + j - 1]
      BY <2>1, SubSeqProperties
    <2> QED BY <2>2
  <1>2. /\ b \in Seq(S) /\ Len(b) = Len(s) - i
        /\ \A j \in 1..(Len(s) - i) : b[j] = s[i + j]
    <2>1. \A j \in (i + 1)..Len(s) : s[j] \in S
      OBVIOUS
    <2>2. /\ b \in Seq(S)
          /\ Len(b) = IF i + 1 <= Len(s) THEN Len(s) - (i + 1) + 1 ELSE 0
          /\ \A j \in 1..(Len(s) - (i + 1) + 1) : b[j] = s[(i + 1) + j - 1]
      BY <2>1, SubSeqProperties
    <2> QED BY <2>2
  <1>3. /\ a \o b \in Seq(S)
        /\ Len(a \o b) = Len(a) + Len(b)
        /\ \A j \in 1..(Len(a) + Len(b)) : (a \o b)[j] = IF j <= Len(a) THEN a[j] ELSE b[j - Len(a)]
    BY <1>1, <1>2, ConcatProperties
  <1> HIDE DEF a, b
  <1>4. \A j \in 1..(Len(s) - 1) : (a \o b)[j] = s[IF j < i THEN j ELSE j + 1]
    BY <1>1, <1>2, <1>3
  <1>5. RemoveAt(s, i) = a \o b
    BY DEF RemoveAt, a, b
  <1>6. Len(a \o b) = Len(s) - 1
    BY <1>1, <1>2, <1>3
  <1> QED BY <1>3, <1>4, <1>5, <1>6

\* remove() takes an app off a list that has every app once.
LEMMA RemoveFromDistinct ==
    ASSUME NEW S, NEW s \in Seq(S), Distinct(s), NEW e
    PROVE  /\ RemoveFirst(s, e) \in Seq(S) /\ Distinct(RemoveFirst(s, e))
           /\ Len(RemoveFirst(s, e)) <= Len(s)
           /\ \A i \in 1..Len(RemoveFirst(s, e)) : RemoveFirst(s, e)[i] # e
  <1>1. CASE ~\E i \in 1..Len(s) : s[i] = e
    BY <1>1 DEF RemoveFirst
  <1>2. ASSUME NEW k \in 1..Len(s), s[k] = e PROVE RemoveFirst(s, e) = RemoveAt(s, k)
    <2>1. {i \in 1..Len(s) : s[i] = e} = {k}
      BY <1>2 DEF Distinct
    <2>2. Min({k}) = k
      BY DEF Min
    <2>3. SelectInSeq(s, LAMBDA v : v = e) = k
      BY <2>1, <2>2, Zenon DEF SelectInSeq
    <2> QED BY <1>2, <2>3 DEF RemoveFirst
  <1>3. ASSUME NEW k \in 1..Len(s), s[k] = e
        PROVE  /\ RemoveAt(s, k) \in Seq(S) /\ Distinct(RemoveAt(s, k))
               /\ Len(RemoveAt(s, k)) <= Len(s)
               /\ \A i \in 1..Len(RemoveAt(s, k)) : RemoveAt(s, k)[i] # e
    <2> DEFINE r == RemoveAt(s, k)
    <2>1. /\ r \in Seq(S) /\ Len(r) = Len(s) - 1
          /\ \A j \in 1..(Len(s) - 1) : r[j] = s[IF j < k THEN j ELSE j + 1]
      BY RemoveAtProperties
    <2> HIDE DEF r
    <2>2. ASSUME NEW i \in 1..Len(r) PROVE r[i] # e
      BY <1>3, <2>1 DEF Distinct
    <2>3. ASSUME NEW i \in 1..Len(r), NEW j \in 1..Len(r), r[i] = r[j] PROVE i = j
      <3> DEFINE at(n) == IF n < k THEN n ELSE n + 1
      <3>1. i \in 1..(Len(s) - 1) /\ j \in 1..(Len(s) - 1)
        BY <2>1
      <3>2. r[i] = s[at(i)] /\ r[j] = s[at(j)]
        BY <2>1, <3>1
      <3>3. at(i) \in 1..Len(s) /\ at(j) \in 1..Len(s)
        BY <3>1
      <3>4. at(i) = at(j)
        <4> HIDE DEF at
        <4> QED BY <2>3, <3>2, <3>3 DEF Distinct
      <3> QED BY <3>1, <3>4
    <2>4. Distinct(r)
      BY <2>3 DEF Distinct
    <2> QED BY <2>1, <2>2, <2>4 DEF r
  <1> QED BY <1>1, <1>2, <1>3

\* The front of a list that has every app once does too.
LEMMA FrontDistinct ==
    ASSUME NEW S, NEW s \in Seq(S), Distinct(s), NEW n \in 1..Len(s)
    PROVE  /\ SubSeq(s, 1, n) \in Seq(S) /\ Len(SubSeq(s, 1, n)) = n
           /\ Distinct(SubSeq(s, 1, n)) /\ SubSeq(s, 1, n)[1] = s[1]
  <1>1. \A i \in 1..n : s[i] \in S
    OBVIOUS
  <1>2. /\ SubSeq(s, 1, n) \in Seq(S) /\ Len(SubSeq(s, 1, n)) = n
        /\ \A i \in 1..n : SubSeq(s, 1, n)[i] = s[1 + i - 1]
    BY <1>1, SubSeqProperties
  <1> QED BY <1>2 DEF Distinct

\* What opening an app makes of the list: the app is first, every app is there once,
\* and the list is not too long.
LEMMA OpenApp ==
    ASSUME NEW S, recent_apps \in Seq(S), Distinct(recent_apps), NEW name \in S, open_app(name)
    PROVE  /\ recent_apps' \in Seq(S) /\ Len(recent_apps') \in 1..MaxRecent
           /\ Distinct(recent_apps') /\ recent_apps'[1] = name
  <1> DEFINE rest == RemoveFirst(recent_apps, name)
             moved == <<name>> \o rest
             n == IF Len(moved) > MaxRecent THEN MaxRecent ELSE Len(moved)
  <1>1. rest \in Seq(S) /\ Distinct(rest) /\ \A i \in 1..Len(rest) : rest[i] # name
    BY RemoveFromDistinct
  <1> HIDE DEF rest
  <1>2. /\ moved \in Seq(S) /\ Len(moved) = 1 + Len(rest)
        /\ moved[1] = name /\ \A i \in 2..Len(moved) : moved[i] = rest[i - 1]
    <2>1. <<name>> \in Seq(S) /\ Len(<<name>>) = 1 /\ <<name>>[1] = name
      OBVIOUS
    <2>2. /\ moved \in Seq(S) /\ Len(moved) = 1 + Len(rest)
          /\ \A i \in 1..(1 + Len(rest)) : moved[i] = IF i <= 1 THEN <<name>>[i] ELSE rest[i - 1]
      BY <1>1, <2>1, ConcatProperties
    <2> QED BY <1>1, <2>1, <2>2
  <1> HIDE DEF moved
  <1>3. Distinct(moved)
    <2>1. ASSUME NEW i \in 1..Len(moved), NEW j \in 1..Len(moved), moved[i] = moved[j] PROVE i = j
      <3>1. CASE i = 1 \/ j = 1
        BY <3>1, <2>1, <1>1, <1>2
      <3>2. CASE i # 1 /\ j # 1
        <4>1. Len(rest) \in Nat /\ i - 1 \in 1..Len(rest) /\ j - 1 \in 1..Len(rest)
          BY <3>2, <1>1, <1>2
        <4>2. rest[i - 1] = rest[j - 1]
          BY <3>2, <2>1, <1>2
        <4>3. i - 1 = j - 1
          BY <4>1, <4>2, <1>1 DEF Distinct
        <4> QED BY <4>3
      <3> QED BY <3>1, <3>2
    <2> QED BY <2>1 DEF Distinct
  <1>4. n \in 1..Len(moved) /\ n \in 1..MaxRecent
    BY <1>1, <1>2, AppsAssumption
  <1>5. recent_apps' = SubSeq(moved, 1, n)
    BY DEF open_app, moved, rest
  <1> HIDE DEF n
  <1> QED BY <1>2, <1>3, <1>4, <1>5, FrontDistinct

\* The list is about the apps of the session, and ordered.
RecentsInv == recent_apps \in Seq(Apps) /\ RecentsOrdered

\* What a step does to the shell around an app: nothing, it ends or comes up again, or
\* the app is opened or left.
LEMMA HostSteps ==
    ASSUME [Next]_vars
    PROVE  \/ UNCHANGED host
           \/ Die
           \/ Restart
           \/ \E name \in Apps : TapApp(name) \/ TapRecent(name)
           \/ SwipeUp \/ GoHome
           \/ UNCHANGED <<session, alive, show_recent, recent_apps, st, file>> /\ current_app' = None
  <1>1. CASE Frame
    BY <1>1 DEF Frame
  <1>2. CASE KeyToApp \/ EscToApp \/ ControlCenter \/ Work \/ FinishSave \/ Environment
    BY <1>2 DEF KeyToApp, EscToApp, ControlCenter, Work, FinishSave, Environment
  <1>3. CASE KeyRaises \/ StartProgram \/ SaveFails \/ Stop
    BY <1>3 DEF KeyRaises, StartProgram, SaveFails, Stop
  <1>4. CASE UNCHANGED vars
    BY <1>4 DEF vars, host
  <1> QED BY <1>1, <1>2, <1>3, <1>4 DEF Next

\* Every step keeps the list of recent apps.
LEMMA RecentsKept == RecentsInv /\ [Next]_vars => RecentsInv'
  <1> SUFFICES ASSUME RecentsInv, [Next]_vars PROVE RecentsInv'
    OBVIOUS
  <1>0. recent_apps \in Seq(Apps) /\ Len(recent_apps) <= MaxRecent /\ Distinct(recent_apps)
    BY DEF RecentsInv, RecentsOrdered, Distinct
  <1>1. CASE UNCHANGED host
    BY <1>1 DEF host, RecentsInv, RecentsOrdered, Apps, App, Shell
  <1>2. CASE Die
    <2>1. session' = session /\ current_app' = None /\ recent_apps' = <<>>
      BY <1>2 DEF Die
    <2> QED BY <2>1, AppsAssumption DEF RecentsInv, RecentsOrdered, Apps, App, Shell
  <1>3. CASE Restart
    BY <1>3 DEF Restart, RecentsInv, RecentsOrdered, Apps, App, Shell
  <1>4. ASSUME NEW name \in Apps, open_app(name), session' = session PROVE RecentsInv'
    <2>1. /\ recent_apps' \in Seq(Apps) /\ Len(recent_apps') \in 1..MaxRecent
          /\ Distinct(recent_apps') /\ recent_apps'[1] = name
      BY <1>0, <1>4, OpenApp
    <2>2. current_app' = name /\ show_recent' = FALSE /\ Apps' = Apps
      BY <1>4 DEF open_app, Apps, App
    <2>3. Len(recent_apps') <= MaxRecent /\ recent_apps' # <<>>
      BY <2>1, AppsAssumption
    <2> QED BY <2>1, <2>2, <2>3 DEF RecentsInv, RecentsOrdered, Distinct
  <1>5. ASSUME NEW name \in Apps, TapApp(name) PROVE RecentsInv'
    <2>1. CASE Shell = "run"
      BY <2>1, <1>5, <1>4 DEF TapApp
    <2>2. CASE Shell # "run"
      <3>1. UNCHANGED <<session, show_recent, recent_apps>>
        BY <2>2, <1>5 DEF TapApp
      <3> QED BY <2>2, <3>1 DEF RecentsInv, RecentsOrdered, Apps, App, Shell
    <2> QED BY <2>1, <2>2
  <1>6. ASSUME NEW name \in Apps, TapRecent(name) PROVE RecentsInv'
    BY <1>6, <1>4 DEF TapRecent
  <1>7. CASE \/ SwipeUp \/ GoHome
             \/ UNCHANGED <<session, alive, show_recent, recent_apps, st, file>> /\ current_app' = None
    <2>1. UNCHANGED <<session, recent_apps>> /\ current_app' = None
      BY <1>7 DEF SwipeUp, GoHome
    <2> QED BY <2>1 DEF RecentsInv, RecentsOrdered, Apps, App, Shell
  <1> QED BY <1>1, <1>2, <1>3, <1>5, <1>6, <1>7, HostSteps

\* The recent apps are distinct, not too many, and begin with the open one (RecentsOrdered).
THEOREM RecentsStayOrdered == Spec => []RecentsOrdered
  <1>1. Init => RecentsInv
    BY AppsAssumption DEF Init, RecentsInv, RecentsOrdered
  <1>2. RecentsInv => RecentsOrdered
    BY DEF RecentsInv
  <1> QED BY <1>1, <1>2, RecentsKept, PTL DEF Spec

-----------------------------------------------------------------------------
(* What a step does to the app that is followed *)

\* The app and its file are made by the constructor, or changed by a handler, a drawing,
\* a thread, the control center or another program, or the file is filled or left broken.
LEMMA AppSteps ==
    ASSUME [Next]_vars
    PROVE  /\ session' = session
           /\ \/ UNCHANGED <<st, file, alive>>
              \/ st' = Fresh(App, NoFile(App)) /\ UNCHANGED file /\ ~alive'
              \/ st' = Fresh(App, file) /\ UNCHANGED file /\ Readable
              \/ HandleInput /\ Open /\ UNCHANGED alive
              \/ HandleEsc /\ Open /\ UNCHANGED alive
              \/ App = "Timer" /\ (Timer!Draw \/ Timer!Tick) /\ UNCHANGED <<file, alive>>
              \/ App = "Settings" /\ Settings!ControlTouch /\ InLoop /\ UNCHANGED alive
              \/ App = "Settings" /\ Settings!Popen /\ UNCHANGED <<file, alive>>
              \/ App = "Firewall" /\ Firewall!Outside /\ UNCHANGED alive
              \/ App \in Keepers /\ file' = Contents /\ file = Torn /\ UNCHANGED <<st, alive>>
              \/ App \in Keepers /\ file' = Broken /\ file = Torn /\ UNCHANGED <<st, alive>>
              \/ Work /\ UNCHANGED <<file, alive>>
  <1>1. CASE Frame
    BY <1>1 DEF Frame, host, Die
  <1>2. CASE KeyToApp \/ EscToApp
    BY <1>2 DEF KeyToApp, EscToApp, host, Open, InLoop
  <1>3. CASE ControlCenter
    BY <1>3 DEF ControlCenter, host
  <1>7. CASE Work
    BY <1>7 DEF Work, host
  <1>8. CASE FinishSave \/ SaveFails
    BY <1>8 DEF FinishSave, SaveFails, Die, host
  <1>9. CASE Environment
    BY <1>9 DEF Environment, host
  <1>10. CASE KeyRaises \/ Stop
    BY <1>10 DEF KeyRaises, Stop, Die
  <1>11. CASE StartProgram
    BY <1>11 DEF StartProgram, Starting, Die, host
  <1>4. CASE UNCHANGED vars
    BY <1>4 DEF vars
  <1>5. CASE SwipeUp \/ GoHome \/ \E name \in Apps : TapApp(name) \/ TapRecent(name)
    BY <1>5 DEF SwipeUp, GoHome, TapApp, TapRecent
  <1>6. CASE Restart
    BY <1>6 DEF Restart
  <1> QED
    BY <1>1, <1>2, <1>3, <1>4, <1>5, <1>6, <1>7, <1>8, <1>9, <1>10, <1>11 DEF Next

-----------------------------------------------------------------------------
(* The stopwatch *)

TimerType == [mode : {"menu", "stopwatch", "timer_input", "timer_run"},
              now : Nat, sw_running : BOOLEAN, sw_start : Int, sw_elapsed : Int,
              sw_laps : Seq(Int), tm_input : {"none", "number", "superscript"},
              tm_seconds : Int, tm_start : Nat, tm_running : BOOLEAN, ran : Nat, done : BOOLEAN]

\* The laps are times at which the stopwatch has been.
TimerInv == App = "Timer" => st \in TimerType /\ Timer!Exact

\* A lap of the present time goes to the end of the list.
LEMMA LapAdded ==
    ASSUME NEW laps \in Seq(Int), NEW t \in Int,
           \A i \in DOMAIN laps : laps[i] <= t,
           \A i, j \in DOMAIN laps : i < j => laps[i] <= laps[j]
    PROVE  /\ Append(laps, t) \in Seq(Int)
           /\ \A i \in DOMAIN Append(laps, t) : Append(laps, t)[i] <= t
           /\ \A i, j \in DOMAIN Append(laps, t) : i < j => Append(laps, t)[i] <= Append(laps, t)[j]
  OBVIOUS

\* The clock.
LEMMA NowSet ==
    ASSUME st \in TimerType, NEW n \in Nat, NEW m \in Nat
    PROVE  [st EXCEPT !.now = n, !.ran = m] \in TimerType
  BY DEF TimerType

\* A stopwatch that is stopped.
LEMMA StopSet ==
    ASSUME st \in TimerType, NEW i \in Int, NEW b \in BOOLEAN
    PROVE  [st EXCEPT !.sw_elapsed = i, !.sw_running = b] \in TimerType
  BY DEF TimerType

\* A stopwatch that is started.
LEMMA StartSet ==
    ASSUME st \in TimerType, NEW i \in Int, NEW b \in BOOLEAN
    PROVE  [st EXCEPT !.sw_start = i, !.sw_running = b] \in TimerType
  BY DEF TimerType

\* A stopwatch that starts over.
LEMMA ClearSet ==
    ASSUME st \in TimerType, NEW b \in BOOLEAN, NEW i \in Int, NEW l \in Seq(Int), NEW n \in Nat
    PROVE  [st EXCEPT !.sw_running = b, !.sw_elapsed = i, !.sw_laps = l, !.ran = n] \in TimerType
  BY DEF TimerType

\* A countdown that is started.
LEMMA CountSet ==
    ASSUME st \in TimerType, NEW i \in Int, NEW n \in Nat, NEW b \in BOOLEAN, NEW d \in BOOLEAN
    PROVE  [st EXCEPT !.tm_seconds = i, !.tm_start = n, !.tm_running = b,
                        !.mode = "timer_run", !.done = d] \in TimerType
  BY DEF TimerType

\* A step that adds no lap keeps the laps in order.
LEMMA NoLap ==
    ASSUME st \in TimerType, Timer!Exact, st' \in TimerType,
           st'.sw_laps = st.sw_laps, st'.ran >= st.ran, Timer!elapsed' = st'.ran,
           st'.done => st'.now - st'.tm_start >= st'.tm_seconds
    PROVE  Timer!Exact'
  <1> DEFINE laps == st.sw_laps
  <1>1. st.ran \in Int /\ st'.ran \in Int /\ laps \in Seq(Int)
    BY DEF TimerType
  <1>2. /\ \A i \in DOMAIN laps : laps[i] <= st.ran
        /\ \A i, j \in DOMAIN laps : i < j => laps[i] <= laps[j]
    BY DEF Timer!Exact
  <1> HIDE DEF laps
  <1>3. \A i \in DOMAIN laps : laps[i] <= st'.ran
    BY <1>1, <1>2
  <1> QED BY <1>2, <1>3 DEF Timer!Exact, laps

\* Every step keeps the stopwatch exact.
LEMMA TimerKept == TimerInv /\ [Next]_vars => TimerInv'
  <1> SUFFICES ASSUME TimerInv, [Next]_vars, App = "Timer"
               PROVE  st' \in TimerType /\ Timer!Exact'
    BY AppSteps DEF TimerInv, App
  <1>t. st \in TimerType /\ Timer!Exact
    BY DEF TimerInv
  <1> DEFINE Steady ==
        /\ st' \in TimerType
        /\ st'.sw_laps = st.sw_laps /\ st'.ran >= st.ran /\ Timer!elapsed' = st'.ran
        /\ st'.done => st'.now - st'.tm_start >= st'.tm_seconds
  <1>e. /\ st.sw_elapsed + (IF st.sw_running THEN st.now - st.sw_start ELSE 0) = st.ran
        /\ st.done => st.now - st.tm_start >= st.tm_seconds
    BY <1>t DEF Timer!Exact, Timer!elapsed
  <1>f. /\ st.now \in Nat /\ st.sw_start \in Int /\ st.sw_elapsed \in Int /\ st.ran \in Nat
        /\ st.tm_start \in Nat /\ st.tm_seconds \in Int /\ st.sw_running \in BOOLEAN
    BY <1>t DEF TimerType
  <1>1. CASE UNCHANGED st
    BY <1>1, <1>t DEF Timer!Exact, Timer!elapsed
  <1>2. CASE st' = Timer!Fresh
    BY <1>2 DEF Timer!Fresh, TimerType, Timer!Exact, Timer!elapsed
  <1>3. CASE Timer!MenuKey \/ Timer!HandleEsc
    <2>1. st' \in TimerType
      <3>1. CASE Timer!MenuKey
        BY <3>1, <1>t DEF Timer!MenuKey, TimerType
      <3>2. CASE Timer!HandleEsc
        BY <3>2, <1>t DEF Timer!HandleEsc, TimerType
      <3> QED BY <1>3, <3>1, <3>2
    <2>2. /\ st'.now = st.now /\ st'.sw_running = st.sw_running
          /\ st'.sw_start = st.sw_start /\ st'.sw_elapsed = st.sw_elapsed
          /\ st'.sw_laps = st.sw_laps /\ st'.tm_seconds = st.tm_seconds
          /\ st'.tm_start = st.tm_start /\ st'.ran = st.ran /\ st'.done = st.done
      BY <1>3, <1>t DEF Timer!MenuKey, Timer!HandleEsc, TimerType
    <2>3. Steady
      BY <2>1, <2>2, <1>e, <1>f DEF Timer!elapsed
    <2> QED BY <1>t, <2>3, NoLap
  <1>4. CASE Timer!Tick
    <2>1. st' \in TimerType
      <3>1. PICK n \in Nat, m \in Nat :
                 n = st.now + 1 /\ m = IF st.sw_running THEN st.ran + 1 ELSE st.ran
        BY <1>f
      <3>2. st' = [st EXCEPT !.now = n, !.ran = m]
        BY <1>4, <3>1 DEF Timer!Tick
      <3> QED BY <1>t, <3>2, NowSet, Zenon
    <2>2. /\ st'.sw_running = st.sw_running /\ st'.sw_start = st.sw_start
          /\ st'.sw_elapsed = st.sw_elapsed /\ st'.sw_laps = st.sw_laps
          /\ st'.tm_seconds = st.tm_seconds /\ st'.tm_start = st.tm_start
          /\ st'.done = st.done /\ st'.now = st.now + 1
          /\ st'.ran = (IF st.sw_running THEN st.ran + 1 ELSE st.ran)
      BY <1>4, <1>t DEF Timer!Tick, TimerType
    <2>3. Steady
      BY <2>1, <2>2, <1>e, <1>f DEF Timer!elapsed
    <2> QED BY <1>t, <2>3, NoLap
  <1>5. CASE Timer!StopwatchKey
    <2>0. CASE st' = [st EXCEPT !.sw_elapsed = Timer!elapsed, !.sw_running = FALSE]
      <3>0. Timer!elapsed = st.ran
        BY <1>t DEF Timer!Exact
      <3>1. st' \in TimerType
        <4>1. PICK i \in Int : i = st.ran
          BY <1>f
        <4>2. st' = [st EXCEPT !.sw_elapsed = i, !.sw_running = FALSE]
          BY <2>0, <3>0, <4>1
        <4>3. FALSE \in BOOLEAN
          OBVIOUS
        <4> QED BY <1>t, <4>2, <4>3, StopSet, Zenon
      <3>2. /\ st'.now = st.now /\ st'.sw_start = st.sw_start /\ st'.sw_laps = st.sw_laps
            /\ st'.tm_seconds = st.tm_seconds /\ st'.tm_start = st.tm_start
            /\ st'.ran = st.ran /\ st'.done = st.done /\ st'.sw_running = FALSE
            /\ st'.sw_elapsed = st.ran
        BY <2>0, <3>0, <1>f, <1>t DEF TimerType
      <3>3. Steady
        BY <3>1, <3>2, <1>e, <1>f DEF Timer!elapsed
      <3> QED BY <1>t, <3>3, NoLap
    <2>1. CASE ~st.sw_running /\ st' = [st EXCEPT !.sw_start = st.now, !.sw_running = TRUE]
      <3>1. st' \in TimerType
        <4>1. PICK i \in Int : i = st.now
          BY <1>f
        <4>2. st' = [st EXCEPT !.sw_start = i, !.sw_running = TRUE]
          BY <2>1, <4>1
        <4>3. TRUE \in BOOLEAN
          OBVIOUS
        <4> QED BY <1>t, <4>2, <4>3, StartSet, Zenon
      <3>2. /\ st'.now = st.now /\ st'.sw_elapsed = st.sw_elapsed
            /\ st'.sw_laps = st.sw_laps /\ st'.tm_seconds = st.tm_seconds
            /\ st'.tm_start = st.tm_start /\ st'.ran = st.ran /\ st'.done = st.done
            /\ st'.sw_running = TRUE /\ st'.sw_start = st.now
        BY <2>1, <1>t DEF TimerType
      <3>3. Steady
        BY <2>1, <3>1, <3>2, <1>e, <1>f DEF Timer!elapsed
      <3> QED BY <1>t, <3>3, NoLap
    <2>2. CASE st' = [st EXCEPT !.sw_laps = Append(@, Timer!elapsed)]
      <3>1. Timer!elapsed = st.ran /\ st.ran \in Int /\ st.sw_laps \in Seq(Int)
        BY <1>t DEF TimerType, Timer!Exact
      <3>2. /\ Append(st.sw_laps, st.ran) \in Seq(Int)
            /\ \A i \in DOMAIN Append(st.sw_laps, st.ran) : Append(st.sw_laps, st.ran)[i] <= st.ran
            /\ \A i, j \in DOMAIN Append(st.sw_laps, st.ran) :
                  i < j => Append(st.sw_laps, st.ran)[i] <= Append(st.sw_laps, st.ran)[j]
        BY <3>1, <1>t, LapAdded DEF Timer!Exact
      <3> DEFINE laps == Append(st.sw_laps, st.ran)
      <3>3. st' = [st EXCEPT !.sw_laps = laps] /\ laps \in Seq(Int)
        BY <2>2, <3>1, <3>2
      <3> HIDE DEF laps
      <3>4. st' \in TimerType /\ st'.sw_laps = laps /\ Timer!elapsed' = Timer!elapsed
            /\ st'.ran = st.ran /\ st'.done = st.done /\ st'.now = st.now
            /\ st'.tm_start = st.tm_start /\ st'.tm_seconds = st.tm_seconds
        BY <3>3, <1>t DEF TimerType, Timer!elapsed
      <3> QED BY <3>1, <3>2, <3>4, <1>t DEF Timer!Exact, laps
    <2>3. CASE st' = [st EXCEPT !.sw_running = FALSE, !.sw_elapsed = 0, !.sw_laps = <<>>, !.ran = 0]
      <3>1. st' \in TimerType
        <4>1. FALSE \in BOOLEAN /\ 0 \in Int /\ 0 \in Nat /\ <<>> \in Seq(Int)
          OBVIOUS
        <4> QED BY <1>t, <2>3, <4>1, ClearSet, Zenon
      <3>2. /\ st'.sw_laps = <<>> /\ ~st'.sw_running /\ st'.sw_elapsed = 0 /\ st'.ran = 0
            /\ st'.done = st.done /\ st'.now = st.now /\ st'.tm_start = st.tm_start
            /\ st'.tm_seconds = st.tm_seconds
        BY <2>3, <1>t DEF TimerType
      <3> QED BY <3>1, <3>2, <1>e DEF Timer!Exact, Timer!elapsed
    <2> QED BY <1>5, <2>0, <2>1, <2>2, <2>3 DEF Timer!StopwatchKey
  <1>6. CASE Timer!InputKey
    <2>1. ASSUME NEW t \in {"none", "number", "superscript"}, st' = [st EXCEPT !.tm_input = t]
          PROVE  st' \in TimerType /\ Timer!Exact'
      <3>1. st' \in TimerType
        BY <2>1, <1>t DEF TimerType
      <3>2. /\ st'.now = st.now /\ st'.sw_running = st.sw_running
            /\ st'.sw_start = st.sw_start /\ st'.sw_elapsed = st.sw_elapsed
            /\ st'.sw_laps = st.sw_laps /\ st'.tm_seconds = st.tm_seconds
            /\ st'.tm_start = st.tm_start /\ st'.ran = st.ran /\ st'.done = st.done
        BY <2>1, <1>t DEF TimerType
      <3>3. Steady
        BY <3>1, <3>2, <1>e, <1>f DEF Timer!elapsed
      <3> QED BY <1>t, <3>3, NoLap
    <2>2. ASSUME NEW n \in 0..MaxTime,
                 st' = [st EXCEPT !.tm_seconds = n, !.tm_start = st.now,
                          !.tm_running = TRUE, !.mode = "timer_run", !.done = FALSE]
          PROVE  st' \in TimerType /\ Timer!Exact'
      <3>1. st' \in TimerType
        <4>1. PICK m \in Nat : m = st.now
          BY <1>f
        <4>2. PICK i \in Int : i = n
          BY <2>2
        <4>3. st' = [st EXCEPT !.tm_seconds = i, !.tm_start = m,
                               !.tm_running = TRUE, !.mode = "timer_run", !.done = FALSE]
          BY <2>2, <4>1, <4>2
        <4>4. TRUE \in BOOLEAN /\ FALSE \in BOOLEAN
          OBVIOUS
        <4> QED BY <1>t, <4>3, <4>4, CountSet, Zenon
      <3>2. /\ st'.now = st.now /\ st'.sw_running = st.sw_running
            /\ st'.sw_start = st.sw_start /\ st'.sw_elapsed = st.sw_elapsed
            /\ st'.sw_laps = st.sw_laps /\ st'.ran = st.ran /\ st'.tm_seconds = n
            /\ st'.tm_start = st.now /\ st'.done = FALSE
        BY <2>2, <1>t DEF TimerType
      <3>3. Steady
        BY <3>1, <3>2, <1>e, <1>f DEF Timer!elapsed
      <3> QED BY <1>t, <3>3, NoLap
    <2> QED BY <1>6, <2>1, <2>2 DEF Timer!InputKey
  <1>7. CASE Timer!RunKey
    <2>1. CASE st' = [st EXCEPT !.tm_running = FALSE]
      <3>1. st' \in TimerType
        BY <2>1, <1>t DEF TimerType
      <3>2. /\ st'.now = st.now /\ st'.sw_running = st.sw_running
            /\ st'.sw_start = st.sw_start /\ st'.sw_elapsed = st.sw_elapsed
            /\ st'.sw_laps = st.sw_laps /\ st'.tm_seconds = st.tm_seconds
            /\ st'.tm_start = st.tm_start /\ st'.ran = st.ran /\ st'.done = st.done
        BY <2>1, <1>t DEF TimerType
      <3>3. Steady
        BY <3>1, <3>2, <1>e, <1>f DEF Timer!elapsed
      <3> QED BY <1>t, <3>3, NoLap
    <2>2. CASE st' = [st EXCEPT !.tm_start = st.now, !.tm_running = TRUE, !.done = FALSE]
      <3>1. st' \in TimerType
        BY <2>2, <1>t DEF TimerType
      <3>2. /\ st'.now = st.now /\ st'.sw_running = st.sw_running
            /\ st'.sw_start = st.sw_start /\ st'.sw_elapsed = st.sw_elapsed
            /\ st'.sw_laps = st.sw_laps /\ st'.tm_seconds = st.tm_seconds
            /\ st'.ran = st.ran /\ st'.tm_start = st.now /\ st'.done = FALSE
        BY <2>2, <1>t DEF TimerType
      <3>3. Steady
        BY <3>1, <3>2, <1>e, <1>f DEF Timer!elapsed
      <3> QED BY <1>t, <3>3, NoLap
    <2>3. CASE st' = [st EXCEPT !.tm_running = FALSE, !.tm_start = 0,
                                !.mode = "timer_input", !.tm_input = "none"]
      <3>1. st' \in TimerType
        BY <2>3, <1>t DEF TimerType
      <3>2. /\ st'.now = st.now /\ st'.sw_running = st.sw_running
            /\ st'.sw_start = st.sw_start /\ st'.sw_elapsed = st.sw_elapsed
            /\ st'.sw_laps = st.sw_laps /\ st'.tm_seconds = st.tm_seconds
            /\ st'.ran = st.ran /\ st'.done = st.done /\ st'.tm_start = 0
        BY <2>3, <1>t DEF TimerType
      <3>3. Steady
        BY <3>1, <3>2, <1>e, <1>f DEF Timer!elapsed
      <3> QED BY <1>t, <3>3, NoLap
    <2> QED BY <1>7, <2>1, <2>2, <2>3 DEF Timer!RunKey
  <1>8. CASE Timer!Draw
    <2>0. st.tm_seconds - (st.now - st.tm_start) <= 0
          /\ st' = [st EXCEPT !.tm_running = FALSE, !.done = TRUE]
      BY <1>8 DEF Timer!Draw
    <2>1. st' \in TimerType
      BY <2>0, <1>t DEF TimerType
    <2>2. /\ st'.now = st.now /\ st'.sw_running = st.sw_running
          /\ st'.sw_start = st.sw_start /\ st'.sw_elapsed = st.sw_elapsed
          /\ st'.sw_laps = st.sw_laps /\ st'.tm_seconds = st.tm_seconds
          /\ st'.tm_start = st.tm_start /\ st'.ran = st.ran /\ st'.done = TRUE
      BY <2>0, <1>t DEF TimerType
    <2>3. Steady
      BY <2>0, <2>1, <2>2, <1>e, <1>f DEF Timer!elapsed
    <2> QED BY <1>t, <2>3, NoLap
  <1> QED
    BY <1>1, <1>2, <1>3, <1>4, <1>5, <1>6, <1>7, <1>8, AppSteps
       DEF Fresh, HandleInput, HandleEsc, Work, Timer!HandleInput

\* The stopwatch shows the time it ran, its laps are in order and the countdown does not
\* end early (StopwatchExact).
THEOREM StopwatchTrue == Spec => []StopwatchExact
  <1>1. Init => TimerInv
    BY DEF Init, TimerInv, Fresh, Timer!Fresh, TimerType, Timer!Exact, Timer!elapsed
  <1>2. TimerInv => StopwatchExact
    BY DEF TimerInv, StopwatchExact
  <1> QED BY <1>1, <1>2, TimerKept, PTL DEF Spec

-----------------------------------------------------------------------------
(* Threads of the apps *)

\* A thread that is started takes a slot that was free.
LEMMA ThreadStarts ==
    ASSUME NEW r, CanStart(r), NEW w
    PROVE  \E j \in Jobs : r.jobs[j] = Idle /\ Start(r, w) = [r.jobs EXCEPT ![j] = w]
  <1>1. \E j \in Jobs : j \notin Running(r)
    BY DEF CanStart, Running
  <1> DEFINE free == CHOOSE j \in Jobs : j \notin Running(r)
  <1>2. free \in Jobs /\ free \notin Running(r)
    BY <1>1
  <1>3. r.jobs[free] = Idle
    BY <1>2 DEF Running
  <1>4. Start(r, w) = [r.jobs EXCEPT ![free] = w]
    BY DEF Start
  <1> QED BY <1>2, <1>3, <1>4

\* A set without two elements.
LEMMA AtMostOne ==
    ASSUME NEW S, \A x, y \in S : x = y
    PROVE  Cardinality(S) \in Nat /\ Cardinality(S) <= 1
  <1>1. CASE S = {}
    BY <1>1, FS_EmptySet
  <1>2. ASSUME NEW x \in S PROVE Cardinality(S) = 1
    <2>1. S = {x}
      BY <1>2
    <2> QED BY <2>1, FS_Singleton
  <1> QED BY <1>1, <1>2

-----------------------------------------------------------------------------
(* Speed tests *)

SpeedType ==
    [status : {"idle", "ping", "download", "complete"}, running : BOOLEAN,
     jobs : [Jobs -> {Idle, "new", "ping", "download", "complete"}], twice : BOOLEAN]

\* One thread, and the screen follows it.
SpeedOwn ==
    ~st.twice =>
      /\ \A j, k \in Jobs : st.jobs[j] # Idle /\ st.jobs[k] # Idle => j = k
      /\ \A j \in Jobs : st.jobs[j] \notin {Idle, "new"} => st.running /\ st.status = st.jobs[j]
      /\ (\A j \in Jobs : st.jobs[j] = Idle) => ~st.running

SpeedInv == App = "SpeedTest" => st \in SpeedType /\ SpeedOwn

\* Every step keeps that.
LEMMA SpeedKept == SpeedInv /\ [Next]_vars => SpeedInv'
  <1> SUFFICES ASSUME SpeedInv, [Next]_vars, App = "SpeedTest" PROVE (st \in SpeedType /\ SpeedOwn)'
    BY AppSteps DEF SpeedInv, App
  <1>t. st \in SpeedType /\ SpeedOwn
    BY DEF SpeedInv
  <1>i. Idle \notin {"new", "ping", "download", "complete"}
    BY AppListsAssumption DEF Places
  <1>j. /\ SpeedTest!CanStart(st) <=> CanStart(st)
        /\ SpeedTest!Start(st, "new") = Start(st, "new")
        /\ SpeedTest!Running(st) = {j \in Jobs : st.jobs[j] # Idle}
    BY Zenon DEF SpeedTest!CanStart, CanStart, SpeedTest!Start, Start, SpeedTest!Running, Running
  <1>1. CASE UNCHANGED st
    BY <1>1, <1>t DEF SpeedOwn
  <1>2. CASE st' = SpeedTest!Fresh
    BY <1>2, <1>i DEF SpeedTest!Fresh, SpeedTest!NoJobs, SpeedType, SpeedOwn
  <1>3. CASE SpeedTest!start
    <2>1. /\ ~st.running /\ CanStart(st)
          /\ st' = [st EXCEPT !.jobs = Start(st, "new"),
                              !.twice = st.twice \/ {j \in Jobs : st.jobs[j] # Idle} # {}]
      BY <1>3, <1>j, Zenon DEF SpeedTest!start
    <2>2. PICK j \in Jobs : st.jobs[j] = Idle /\ Start(st, "new") = [st.jobs EXCEPT ![j] = "new"]
      <3>1. PICK r : r = st
        OBVIOUS
      <3> QED BY <3>1, <2>1, ThreadStarts
    <2>3. st' = [st EXCEPT !.jobs = [st.jobs EXCEPT ![j] = "new"],
                           !.twice = st.twice \/ {k \in Jobs : st.jobs[k] # Idle} # {}]
      BY <2>1, <2>2
    <2>4. /\ st' \in SpeedType /\ st'.running = st.running
          /\ st'.jobs = [st.jobs EXCEPT ![j] = "new"]
          /\ ~st'.twice => ~st.twice /\ \A k \in Jobs : st.jobs[k] = Idle
      BY <2>3, <1>t DEF SpeedType
    <2>5. /\ st'.jobs[j] = "new"
          /\ \A k \in Jobs : k # j => st'.jobs[k] = st.jobs[k]
      BY <2>4, <1>t DEF SpeedType
    <2> QED BY <2>1, <2>4, <2>5, <1>i DEF SpeedOwn
  <1>4. CASE SpeedTest!Work
    <2>1. PICK j \in Jobs : /\ st.jobs[j] # Idle
                            /\ IF st.jobs[j] = "complete"
                               THEN st' = [st EXCEPT !.running = FALSE, !.jobs[j] = Idle]
                               ELSE st' = [st EXCEPT !.running = IF st.jobs[j] = "new" THEN TRUE ELSE @,
                                             !.status = SpeedTest!After[st.jobs[j]],
                                             !.jobs[j] = SpeedTest!After[st.jobs[j]]]
      <3>1. PICK j \in SpeedTest!Running(st) : LET pc == st.jobs[j] IN
                                       IF pc = "complete"
                                       THEN st' = [st EXCEPT !.running = FALSE, !.jobs[j] = Idle]
                                       ELSE st' = [st EXCEPT !.running = IF pc = "new" THEN TRUE ELSE @,
                                                     !.status = SpeedTest!After[pc],
                                                     !.jobs[j] = SpeedTest!After[pc]]
        BY <1>4 DEF SpeedTest!Work, SpeedTest!Step
      <3> QED BY <3>1, <1>j
    <2>2. CASE st.jobs[j] = "complete"
      <3>1. /\ st' \in SpeedType /\ ~st'.running /\ st'.twice = st.twice /\ st'.status = st.status
            /\ st'.jobs = [st.jobs EXCEPT ![j] = Idle]
        <4>1. PICK b \in BOOLEAN, pc \in {Idle, "new", "ping", "download", "complete"} :
                 ~b /\ pc = Idle
          OBVIOUS
        <4>2. st' = [st EXCEPT !.running = b, !.jobs[j] = pc]
          BY <2>1, <2>2, <4>1
        <4> QED BY <4>1, <4>2, <1>t DEF SpeedType
      <3> QED BY <2>1, <2>2, <3>1, <1>t DEF SpeedOwn, SpeedType
    <2>3. CASE st.jobs[j] # "complete"
      <3>1. PICK pc \in {"ping", "download", "complete"} : pc = SpeedTest!After[st.jobs[j]]
        BY <2>1, <2>3, <1>t DEF SpeedTest!After, SpeedType
      <3>2. st' = [st EXCEPT !.running = IF st.jobs[j] = "new" THEN TRUE ELSE @,
                             !.status = pc, !.jobs[j] = pc]
        BY <2>1, <2>3, <3>1
      <3>3. /\ st' \in SpeedType /\ st'.twice = st.twice /\ st'.status = pc
            /\ st'.jobs = [st.jobs EXCEPT ![j] = pc]
            /\ st'.running = (st.jobs[j] = "new" \/ st.running)
        BY <3>2, <1>t DEF SpeedType
      <3> QED BY <2>1, <2>3, <3>3, <1>i, <1>t DEF SpeedOwn, SpeedType
    <2> QED BY <2>2, <2>3
  <1> QED BY <1>1, <1>2, <1>3, <1>4, AppSteps
          DEF Fresh, HandleInput, HandleEsc, Work, SpeedTest!HandleInput

-----------------------------------------------------------------------------
(* Lists of the apps *)

\* list.pop(i) leaves the other entries in their order.
LEMMA PopType ==
    ASSUME NEW S, NEW q \in Seq(S), NEW i, HasIndex(q, i), Index(q, i) \in Int
    PROVE  Pop(q, i) \in Seq(S) /\ Len(Pop(q, i)) = Len(q) - 1
  <1>1. Len(q) - 1 \in Nat
    BY DEF HasIndex
  <1>2. \A k \in 1..(Len(q) - 1) : q[IF k < Index(q, i) THEN k ELSE k + 1] \in S
    BY DEF HasIndex
  <1>3. Pop(q, i) \in [1..(Len(q) - 1) -> S]
    BY <1>2 DEF Pop
  <1> QED BY <1>1, <1>3, SeqDef

\* An arrow key moves the selection inside the list, and the window with it.
LEMMA ArrowMoves ==
    ASSUME st.selected \in Nat, st.scroll \in Int, NEW n,
           st' = Down(st, n) \/ st' = Up(st)
    PROVE  \E sel \in Nat, scr \in Int :
             /\ st' = [st EXCEPT !.selected = sel, !.scroll = scr]
             /\ n \in Int => sel < n \/ sel <= st.selected
             /\ 0 <= st.scroll /\ st.selected < st.scroll + Rows => 0 <= scr /\ sel < scr + Rows
             /\ st.scroll <= st.selected /\ st.selected < st.scroll + Rows => scr <= sel
  <1>r. Rows \in Nat \ {0}
    BY AppListsAssumption
  <1>1. CASE st' = Down(st, n)
    <2> DEFINE sel == IF st.selected < n - 1 THEN st.selected + 1 ELSE st.selected
               scr == IF sel >= st.scroll + Rows THEN st.scroll + 1 ELSE st.scroll
    <2>1. st' = [st EXCEPT !.selected = sel, !.scroll = scr]
      BY <1>1, Zenon DEF Down
    <2>2. /\ sel \in Nat /\ scr \in Int
          /\ n \in Int => sel < n \/ sel <= st.selected
          /\ 0 <= st.scroll /\ st.selected < st.scroll + Rows => 0 <= scr /\ sel < scr + Rows
          /\ st.scroll <= st.selected /\ st.selected < st.scroll + Rows => scr <= sel
      BY <1>r
    <2> HIDE DEF sel, scr
    <2> QED BY <2>1, <2>2
  <1>2. CASE st' = Up(st)
    <2> DEFINE sel == IF st.selected > 0 THEN st.selected - 1 ELSE st.selected
               scr == IF sel < st.scroll THEN st.scroll - 1 ELSE st.scroll
    <2>1. st' = [st EXCEPT !.selected = sel, !.scroll = scr]
      BY <1>2, Zenon DEF Up
    <2>2. /\ sel \in Nat /\ scr \in Int
          /\ n \in Int => sel < n \/ sel <= st.selected
          /\ 0 <= st.scroll /\ st.selected < st.scroll + Rows => 0 <= scr /\ sel < scr + Rows
          /\ st.scroll <= st.selected /\ st.selected < st.scroll + Rows => scr <= sel
      BY <1>r
    <2> HIDE DEF sel, scr
    <2> QED BY <2>1, <2>2
  <1> QED BY <1>1, <1>2

-----------------------------------------------------------------------------
(* Notes *)

NotesType ==
    [notes : Seq(Notes!Note), mode : {"list", "edit", "view"}, selected : Nat, editing : Texts,
     title : Texts \cup {CR}, stage : {"title", "body"}, scroll : Int, opened : BOOLEAN]

\* While a note is edited the selection may be behind the list it was taken from.
NotesCursor ==
    /\ IF Notes!InBody THEN st.selected <= Len(st.notes)
       ELSE st.selected < Len(st.notes) \/ st.selected = 0
    /\ st.mode = "view" => st.notes # <<>>

\* Until a note has been opened the window of the list follows the selection.
NotesSeen ==
    ~st.opened => st.mode # "view" /\ 0 <= st.scroll /\ st.selected < st.scroll + Rows

NotesInv == App = "Notes" =>
    /\ st \in NotesType
    /\ file \in {Torn, Broken} \/ file \in Seq(Notes!Note)
    /\ NotesCursor /\ NotesSeen
    /\ alive /\ file \notin {Torn, Broken} => Notes!OnDisk

\* Every step keeps that.
LEMMA NotesKept == NotesInv /\ [Next]_vars => NotesInv'
  <1> SUFFICES ASSUME NotesInv, [Next]_vars, App = "Notes"
               PROVE  /\ (st \in NotesType /\ NotesCursor /\ NotesSeen)'
                      /\ file' \in {Torn, Broken} \/ file' \in Seq(Notes!Note)
                      /\ (alive /\ file \notin {Torn, Broken} => Notes!OnDisk)'
    BY AppSteps DEF NotesInv, App
  <1>t. /\ st \in NotesType /\ NotesCursor /\ NotesSeen
        /\ file \in {Torn, Broken} \/ file \in Seq(Notes!Note)
        /\ alive /\ file \notin {Torn, Broken} => Notes!OnDisk
    BY DEF NotesInv
  <1>p. \A q, i : Notes!Pop(q, i) = Pop(q, i)
    BY Zenon DEF Notes!Pop, Pop, Notes!Index, Index
  <1>n. NoText \in Texts /\ Notes!NoText = NoText /\ Notes!CR = CR
    BY AppListsAssumption DEF Notes!NoText, NoText, Notes!CR, CR
  <1>l. /\ Len(st.notes) \in Nat /\ st.selected \in Nat /\ st.scroll \in Int
        /\ st.opened \in BOOLEAN /\ Rows \in Nat \ {0}
    BY <1>t, AppListsAssumption DEF NotesType
  <1>1. CASE UNCHANGED <<st, file, alive>>
    BY <1>1, <1>t DEF NotesCursor, NotesSeen, Notes!OnDisk, Notes!InBody
  <1>2. ASSUME NEW f \in Seq(Notes!Note), st' = Notes!Fresh(f), UNCHANGED file, alive' => f = file
        PROVE  /\ (st \in NotesType /\ NotesCursor /\ NotesSeen)'
               /\ file' \in {Torn, Broken} \/ file' \in Seq(Notes!Note)
               /\ (alive /\ file \notin {Torn, Broken} => Notes!OnDisk)'
    <2>1. st' = [notes |-> f, mode |-> "list", selected |-> 0, editing |-> NoText,
                 title |-> NoText, stage |-> "title", scroll |-> 0, opened |-> FALSE]
      BY <1>2, <1>n DEF Notes!Fresh
    <2>2. st' \in NotesType
      BY <1>2, <1>n, <2>1 DEF NotesType
    <2>3. st'.notes = f /\ st'.mode = "list" /\ st'.selected = 0 /\ st'.scroll = 0
      BY <2>1
    <2>4. NotesCursor' /\ NotesSeen'
      BY <2>3, <1>l DEF NotesCursor, NotesSeen, Notes!InBody
    <2>5. (alive /\ file \notin {Torn, Broken} => Notes!OnDisk)'
      BY <1>2, <2>3 DEF Notes!OnDisk
    <2> QED BY <1>2, <1>t, <2>2, <2>4, <2>5

  <1>3. CASE Notes!HandleInput /\ alive /\ file # Torn /\ UNCHANGED alive
    <2>0. file = Broken \/ (file \in Seq(Notes!Note) /\ Notes!OnDisk)
      BY <1>3, <1>t
    <2>1. CASE Notes!KeyNew
      <3>1. /\ st.mode = "list" /\ UNCHANGED file
            /\ st' = [st EXCEPT !.mode = "edit", !.stage = "title", !.title = NoText, !.editing = NoText]
        BY <2>1, <1>n DEF Notes!KeyNew, Notes!InList
      <3>2. /\ st' \in NotesType /\ st'.notes = st.notes /\ st'.selected = st.selected
            /\ st'.mode = "edit" /\ st'.stage = "title" /\ st'.scroll = st.scroll /\ st'.opened = st.opened
        BY <3>1, <1>t, <1>n DEF NotesType
      <3> QED BY <3>1, <3>2, <2>0, <1>t DEF NotesCursor, NotesSeen, Notes!InBody, Notes!OnDisk
    <2>2. CASE Notes!KeyArrow
      <3>1. /\ st.mode = "list" /\ UNCHANGED file
            /\ st' \in {Notes!Down(st, Len(st.notes)), Notes!Up(st)}
        BY <2>2 DEF Notes!KeyArrow, Notes!InList
      <3>2. PICK n \in Nat : n = Len(st.notes)
        BY <1>l
      <3>3. st' = Down(st, n) \/ st' = Up(st)
        BY <3>1, <3>2, Zenon DEF Notes!Down, Notes!Up, Down, Up
      <3>4. PICK sel \in Nat, scr \in Int :
               /\ n \in Int => sel < n \/ sel <= st.selected
               /\ st' = [st EXCEPT !.selected = sel, !.scroll = scr]
               /\ 0 <= st.scroll /\ st.selected < st.scroll + Rows => 0 <= scr /\ sel < scr + Rows
        <4>1. st.selected \in Nat /\ st.scroll \in Int
          BY <1>t DEF NotesType
        <4> QED BY <3>3, <4>1, ArrowMoves, Zenon
      <3>5. /\ st' \in NotesType /\ st'.notes = st.notes /\ st'.selected = sel /\ st'.mode = st.mode
            /\ st'.scroll = scr /\ st'.opened = st.opened
        BY <3>4, <1>t DEF NotesType
      <3> QED BY <3>1, <3>2, <3>4, <3>5, <2>0, <1>t, <1>l DEF NotesCursor, NotesSeen, Notes!InBody, Notes!OnDisk
    <2>3. CASE Notes!KeyOpen
      <3>0. PICK n \in Int : n = 0
        OBVIOUS
      <3>1. /\ st.mode = "list" /\ UNCHANGED file /\ st.notes # <<>>
            /\ st' = [st EXCEPT !.mode = "view", !.scroll = n, !.opened = TRUE]
        BY <2>3, <3>0 DEF Notes!KeyOpen, Notes!InList
      <3>2. /\ st' \in NotesType /\ st'.notes = st.notes /\ st'.selected = st.selected
            /\ st'.mode = "view" /\ st'.opened
        BY <3>1, <1>t DEF NotesType
      <3> QED BY <3>1, <3>2, <2>0, <1>t DEF NotesCursor, NotesSeen, Notes!InBody, Notes!OnDisk
    <2>4. CASE Notes!KeyDelete
      <3>1. /\ st.mode = "list" /\ st.notes # <<>> /\ file' = Torn
            /\ st' = [st EXCEPT !.notes = Pop(st.notes, st.selected),
                                !.selected = Notes!StepBack(st.selected)]
        BY <2>4, <1>p, Zenon DEF Notes!KeyDelete, Notes!InList, Notes!save
      <3>2. PICK q \in Seq(Notes!Note), n \in Nat :
               /\ q = Pop(st.notes, st.selected) /\ Len(q) = Len(st.notes) - 1
               /\ n = Notes!StepBack(st.selected) /\ n <= st.selected
               /\ n < st.selected \/ st.selected = 0
        <4>1. HasIndex(st.notes, st.selected) /\ Index(st.notes, st.selected) \in Int
          BY <3>1, <1>t, <1>l DEF NotesCursor, Notes!InBody, HasIndex, Index, NotesType
        <4>2. PICK q \in Seq(Notes!Note), i \in Nat : q = st.notes /\ i = st.selected
          BY <1>t DEF NotesType
        <4>3. Pop(st.notes, st.selected) \in Seq(Notes!Note)
              /\ Len(Pop(st.notes, st.selected)) = Len(st.notes) - 1
          BY <4>1, <4>2, PopType
        <4> QED BY <4>3, <1>l DEF Notes!StepBack
      <3>3. st' = [st EXCEPT !.notes = q, !.selected = n]
        BY <3>1, <3>2
      <3>4. /\ st' \in NotesType /\ st'.notes = q /\ st'.selected = n /\ st'.mode = "list"
            /\ st'.scroll = st.scroll /\ st'.opened = st.opened
        BY <3>1, <3>3, <1>t DEF NotesType
      <3> QED BY <3>1, <3>2, <3>4, <1>t, <1>l DEF NotesCursor, NotesSeen, Notes!InBody
    <2>5. CASE Notes!TitleKey
      <3>1. \/ st' = [st EXCEPT !.stage = "body"]
            \/ \E t \in Texts \cup {CR} : st' = [st EXCEPT !.title = t]
        BY <2>5, <1>n DEF Notes!TitleKey
      <3>2. /\ st' \in NotesType /\ st'.notes = st.notes /\ st'.selected = st.selected
            /\ st'.mode = st.mode /\ st'.scroll = st.scroll /\ st'.opened = st.opened
        BY <3>1, <1>t DEF NotesType
      <3>3. UNCHANGED file /\ st.mode = "edit" /\ st.stage = "title"
        BY <2>5 DEF Notes!TitleKey, Notes!InTitle
      <3> QED BY <3>3, <3>2, <2>0, <1>t, <1>l DEF NotesCursor, NotesSeen, Notes!InBody, Notes!OnDisk
    <2>6. CASE Notes!BodyKey
      <3>1. PICK t \in Texts : st' = [st EXCEPT !.editing = t]
        BY <2>6 DEF Notes!BodyKey
      <3>2. /\ st' \in NotesType /\ st'.notes = st.notes /\ st'.selected = st.selected
            /\ st'.mode = st.mode /\ st'.stage = st.stage
            /\ st'.scroll = st.scroll /\ st'.opened = st.opened
        BY <3>1, <1>t DEF NotesType
      <3>3. UNCHANGED file
        BY <2>6 DEF Notes!BodyKey
      <3> QED BY <3>3, <3>2, <2>0, <1>t, <1>p DEF NotesCursor, NotesSeen, Notes!InBody, Notes!OnDisk
    <2>7. CASE Notes!ViewArrow
      <3>1. st.mode = "view" /\ UNCHANGED file
        BY <2>7 DEF Notes!ViewArrow, Notes!InView
      <3>2. PICK n \in Int : st' = [st EXCEPT !.scroll = n]
        <4>1. PICK last : last = Notes!Lines(Notes!At(st.notes, st.selected).body) - Rows
          OBVIOUS
        <4>2. st' \in {[st EXCEPT !.scroll = IF st.scroll < last THEN st.scroll + 1 ELSE st.scroll],
                       [st EXCEPT !.scroll = Notes!StepBack(st.scroll)]}
          BY <2>7, <4>1, Zenon DEF Notes!ViewArrow
        <4> QED BY <4>2, <1>t DEF Notes!StepBack, NotesType
      <3>3. /\ st' \in NotesType /\ st'.notes = st.notes /\ st'.selected = st.selected
            /\ st'.mode = st.mode /\ st'.opened = st.opened
        BY <3>2, <1>t DEF NotesType
      <3> QED BY <3>1, <3>3, <2>0, <1>t DEF NotesCursor, NotesSeen, Notes!InBody, Notes!OnDisk
    <2>8. CASE Notes!ViewEdit
      <3>1. /\ st.mode = "view" /\ UNCHANGED file /\ Notes!HasIndex(st.notes, st.selected)
            /\ st' = [st EXCEPT !.mode = "edit", !.stage = "body",
                        !.title = Notes!At(st.notes, st.selected).title,
                        !.editing = Notes!At(st.notes, st.selected).body,
                        !.notes = Pop(st.notes, st.selected)]
        BY <2>8, <1>p, Zenon DEF Notes!ViewEdit, Notes!InView
      <3>2. /\ HasIndex(st.notes, st.selected) /\ Index(st.notes, st.selected) \in Int
            /\ st.selected < Len(st.notes)
        BY <3>1, <1>l DEF Notes!HasIndex, Notes!Index, HasIndex, Index
      <3>3. PICK note \in Notes!Note : note = Notes!At(st.notes, st.selected)
        BY <3>1, <1>t DEF Notes!At, Notes!HasIndex, NotesType
      <3>4. PICK q \in Seq(Notes!Note) :
               q = Pop(st.notes, st.selected) /\ Len(q) = Len(st.notes) - 1
        <4>1. PICK r \in Seq(Notes!Note), i \in Nat : r = st.notes /\ i = st.selected
          BY <1>t DEF NotesType
        <4> QED BY <4>1, <3>2, PopType
      <3>5. PICK t \in Texts \cup {CR}, b \in Texts : t = note.title /\ b = note.body
        BY <1>n DEF Notes!Note
      <3>6. st' = [st EXCEPT !.mode = "edit", !.stage = "body", !.title = t, !.editing = b, !.notes = q]
        BY <3>1, <3>3, <3>4, <3>5
      <3>7. /\ st' \in NotesType /\ st'.notes = q /\ st'.selected = st.selected
            /\ st'.mode = "edit" /\ st'.stage = "body" /\ st'.opened
        BY <3>6, <3>1, <1>t DEF NotesType, NotesSeen
      <3>8. file = Broken \/ file = st.notes
        BY <3>1, <2>0 DEF Notes!OnDisk, Notes!InBody
      <3>9. NotesCursor' /\ NotesSeen'
        BY <3>7, <3>4, <3>2, <1>l DEF NotesCursor, NotesSeen, Notes!InBody
      <3>10. file = Broken \/ Notes!OnDisk'
        BY <3>7, <3>8, <3>4, <3>2, <3>1, <1>p DEF Notes!OnDisk, Notes!InBody
      <3> QED BY <3>1, <3>7, <3>9, <3>10, <2>0
    <2> QED BY <1>3, <2>1, <2>2, <2>3, <2>4, <2>5, <2>6, <2>7, <2>8 DEF Notes!HandleInput
  <1>4. CASE Notes!HandleEsc /\ alive /\ file # Torn /\ UNCHANGED alive
    <2>0. file = Broken \/ (file \in Seq(Notes!Note) /\ Notes!OnDisk)
      BY <1>4, <1>t
    <2>1. CASE Notes!InTitle /\ st' = [st EXCEPT !.mode = "list"] /\ UNCHANGED file
      <3>1. /\ st' \in NotesType /\ st'.notes = st.notes /\ st'.selected = st.selected /\ st'.mode = "list"
            /\ st'.scroll = st.scroll /\ st'.opened = st.opened
        BY <2>1, <1>t DEF NotesType
      <3> QED BY <2>1, <3>1, <2>0, <1>t DEF NotesCursor, NotesSeen, Notes!InBody, Notes!OnDisk, Notes!InTitle
    <2>2. CASE /\ Notes!InBody /\ file' = Torn
               /\ st' = [st EXCEPT !.mode = "list", !.stage = "title",
                           !.notes = Append(st.notes, [title |-> st.title, body |-> st.editing])]
      <3>1. PICK q \in Seq(Notes!Note) :
               /\ q = Append(st.notes, [title |-> st.title, body |-> st.editing])
               /\ Len(q) = Len(st.notes) + 1
        <4>1. [title |-> st.title, body |-> st.editing] \in Notes!Note
          BY <1>t, <1>n DEF NotesType, Notes!Note
        <4>2. PICK r \in Seq(Notes!Note), e \in Notes!Note :
                 r = st.notes /\ e = [title |-> st.title, body |-> st.editing]
          BY <4>1, <1>t DEF NotesType
        <4>3. Append(r, e) \in Seq(Notes!Note) /\ Len(Append(r, e)) = Len(r) + 1
          BY AppendProperties
        <4> QED BY <4>2, <4>3
      <3>2. st' = [st EXCEPT !.mode = "list", !.stage = "title", !.notes = q]
        BY <2>2, <3>1
      <3>3. /\ st' \in NotesType /\ st'.notes = q /\ st'.selected = st.selected /\ st'.mode = "list"
            /\ st'.scroll = st.scroll /\ st'.opened = st.opened
        BY <3>2, <1>t DEF NotesType
      <3> QED BY <2>2, <3>1, <3>3, <1>t, <1>l DEF NotesCursor, NotesSeen, Notes!InBody
    <2>3. CASE Notes!InView /\ st' = [st EXCEPT !.mode = "list", !.scroll = 0] /\ UNCHANGED file
      <3>0. PICK n \in Int : n = 0
        OBVIOUS
      <3>1. st' = [st EXCEPT !.mode = "list", !.scroll = n]
        BY <2>3, <3>0
      <3>2. /\ st' \in NotesType /\ st'.notes = st.notes /\ st'.selected = st.selected /\ st'.mode = "list"
            /\ st'.opened = st.opened
        BY <3>1, <1>t DEF NotesType
      <3> QED BY <2>3, <3>2, <2>0, <1>t DEF NotesCursor, NotesSeen, Notes!InBody, Notes!OnDisk, Notes!InView
    <2> QED BY <1>4, <2>1, <2>2, <2>3, Zenon DEF Notes!HandleEsc, Notes!save
  <1>5. CASE (file' = Notes!Contents \/ file' = Broken) /\ UNCHANGED <<st, alive>>
    BY <1>5, <1>t DEF Notes!Contents, NotesType, NotesCursor, NotesSeen, Notes!OnDisk, Notes!InBody
  <1>6. /\ Fresh(App, NoFile(App)) = Notes!Fresh(<<>>) /\ Fresh(App, file) = Notes!Fresh(file)
        /\ HandleInput => Notes!HandleInput
        /\ HandleEsc => Notes!HandleEsc
        /\ Contents = Notes!Contents /\ ~Work
        /\ App # "Timer" /\ App # "Settings" /\ App # "Firewall"
    BY DEF Fresh, NoFile, HandleInput, HandleEsc, Work, Contents
  <1>7. Open => alive /\ file # Torn
    BY DEF Open, InLoop
  <1>8. <<>> \in Seq(Notes!Note)
    OBVIOUS
  <1>9. \/ UNCHANGED <<st, file, alive>>
        \/ st' = Notes!Fresh(<<>>) /\ UNCHANGED file /\ ~alive'
        \/ st' = Notes!Fresh(file) /\ UNCHANGED file /\ Readable
        \/ Notes!HandleInput /\ alive /\ file # Torn /\ UNCHANGED alive
        \/ Notes!HandleEsc /\ alive /\ file # Torn /\ UNCHANGED alive
        \/ (file' = Notes!Contents \/ file' = Broken) /\ UNCHANGED <<st, alive>>
    BY <1>6, <1>7, AppSteps, SMTT(30)
  <1> QED BY <1>1, <1>2, <1>3, <1>4, <1>5, <1>8, <1>9, <1>t DEF Readable

-----------------------------------------------------------------------------
(* Todo *)

\* The window ends below the selection, and the file has the tasks.
TodoInv == App = "Todo" =>
    /\ DOMAIN st = {"tasks", "selected", "mode", "input", "scroll", "filter"}
    /\ st.selected \in Nat /\ st.scroll \in Nat /\ st.selected < st.scroll + Rows
    /\ alive /\ file \notin {Torn, Broken} => file = st.tasks

\* Every step keeps that.
LEMMA TodoKept == TodoInv /\ [Next]_vars => TodoInv'
  <1> DEFINE Shape == DOMAIN st = {"tasks", "selected", "mode", "input", "scroll", "filter"}
             Seen == st.selected \in Nat /\ st.scroll \in Nat /\ st.selected < st.scroll + Rows
             Disk == alive /\ file \notin {Torn, Broken} => file = st.tasks
  <1> SUFFICES ASSUME Shape, Seen, Disk, [Next]_vars, App = "Todo"
               PROVE  Shape' /\ Seen' /\ Disk'
    BY AppSteps DEF TodoInv, App
  <1>r. Rows \in Nat \ {0}
    BY AppListsAssumption
  <1>1. CASE UNCHANGED <<st, file, alive>>
    BY <1>1
  <1>2. ASSUME NEW f, st' = Todo!Fresh(f), UNCHANGED file, alive' => f = file
        PROVE  Shape' /\ Seen' /\ Disk'
    BY <1>2, <1>r DEF Todo!Fresh
  <1>3. CASE Todo!HandleInput /\ alive /\ file # Torn /\ UNCHANGED alive
    <2>1. CASE Todo!KeyArrow
      <3>1. PICK n : n = Len(Todo!filtered)
        OBVIOUS
      <3>2. (st' = Down(st, n) \/ st' = Up(st)) /\ UNCHANGED file
        BY <2>1, <3>1, Zenon DEF Todo!KeyArrow, Todo!Down, Todo!Up, Down, Up
      <3>3. PICK sel \in Nat, scr \in Int :
               /\ st' = [st EXCEPT !.selected = sel, !.scroll = scr]
               /\ 0 <= scr /\ sel < scr + Rows
        <4>1. st.scroll \in Int /\ 0 <= st.scroll
          OBVIOUS
        <4> QED BY <3>2, <4>1, ArrowMoves, Zenon
      <3> QED BY <3>2, <3>3, <1>3
    <2>2. CASE Todo!KeyNew \/ Todo!AddKey
      <3>1. \/ \E q : st' = [st EXCEPT !.mode = "list", !.input = Todo!NoText, !.tasks = q] /\ file' = Torn
            \/ \E t : st' = [st EXCEPT !.input = t] /\ UNCHANGED file
            \/ \E t : st' = [st EXCEPT !.mode = "add", !.input = t] /\ UNCHANGED file
        BY <2>2, Zenon DEF Todo!KeyNew, Todo!AddKey, Todo!save
      <3>2. /\ st'.selected = st.selected /\ st'.scroll = st.scroll /\ Shape'
            /\ file' = Torn \/ (UNCHANGED file /\ st'.tasks = st.tasks)
        <4>1. CASE \E q : st' = [st EXCEPT !.mode = "list", !.input = Todo!NoText, !.tasks = q] /\ file' = Torn
          <5>1. PICK q, t : st' = [st EXCEPT !.mode = "list", !.input = t, !.tasks = q] /\ file' = Torn
            BY <4>1, Zenon
          <5>2. st'.selected = st.selected /\ st'.scroll = st.scroll /\ file' = Torn
            BY <5>1
          <5>3. Shape'
            BY <5>1, Zenon
          <5> QED BY <5>2, <5>3
        <4>2. CASE \E t : st' = [st EXCEPT !.input = t] /\ UNCHANGED file
          BY <4>2
        <4>3. CASE \E t : st' = [st EXCEPT !.mode = "add", !.input = t] /\ UNCHANGED file
          BY <4>3
        <4> QED BY <3>1, <4>1, <4>2, <4>3
      <3> QED BY <3>2, <1>3
    <2>3. CASE Todo!KeyToggle
      <3>1. st'.selected = st.selected /\ st'.scroll = st.scroll /\ Shape' /\ file' = Torn
        BY <2>3 DEF Todo!KeyToggle, Todo!save
      <3> QED BY <3>1
    <2>4. CASE Todo!KeyDelete
      <3>1. st'.selected = Todo!StepBack(st.selected) /\ st'.scroll = st.scroll /\ Shape' /\ file' = Torn
        BY <2>4 DEF Todo!KeyDelete, Todo!save
      <3> QED BY <3>1, <1>r DEF Todo!StepBack
    <2>5. CASE Todo!KeyFilter
      <3>1. st'.selected = 0 /\ st'.scroll = 0 /\ Shape' /\ UNCHANGED file /\ st'.tasks = st.tasks
        BY <2>5 DEF Todo!KeyFilter
      <3> QED BY <3>1, <1>3, <1>r
    <2> QED BY <1>3, <2>1, <2>2, <2>3, <2>4, <2>5 DEF Todo!HandleInput
  <1>4. CASE Todo!HandleEsc /\ alive /\ file # Torn /\ UNCHANGED alive
    <2>1. st'.selected = st.selected /\ st'.scroll = st.scroll /\ Shape' /\ UNCHANGED file /\ st'.tasks = st.tasks
      BY <1>4 DEF Todo!HandleEsc
    <2> QED BY <2>1, <1>4
  <1>5. CASE (file' = Todo!Contents \/ file' = Broken) /\ UNCHANGED <<st, alive>>
    BY <1>5 DEF Todo!Contents
  <1>6. /\ Fresh(App, NoFile(App)) = Todo!Fresh(<<>>) /\ Fresh(App, file) = Todo!Fresh(file)
        /\ HandleInput => Todo!HandleInput
        /\ HandleEsc => Todo!HandleEsc
        /\ Contents = Todo!Contents /\ ~Work
        /\ App # "Timer" /\ App # "Settings" /\ App # "Firewall"
        /\ Open => alive /\ file # Torn
    BY DEF Fresh, NoFile, HandleInput, HandleEsc, Work, Contents, Open, InLoop
  <1> HIDE DEF Shape, Seen, Disk
  <1> QED BY <1>1, <1>2, <1>3, <1>4, <1>5, <1>6, AppSteps

-----------------------------------------------------------------------------
(* Passwords *)

FieldNames == {"site", "user", "pass"}
PasswordEntry == [FieldNames -> Texts \ {NoText}]

PasswordsType ==
    [data : Seq(PasswordEntry), selected : Nat, mode : {"list", "add", "view"}, scroll : Nat,
     inputs : [FieldNames -> Texts], stage : 1..3, show : BOOLEAN]

\* The selection is in the list and not below the window, the fields of a form before
\* the current one are filled, and the file has the entries.
PasswordsInv == App = "Passwords" =>
    /\ st \in PasswordsType
    /\ file \in {Torn, Broken} \/ file \in Seq(PasswordEntry)
    /\ st.selected < Len(st.data) \/ st.selected = 0
    /\ st.selected < st.scroll + Rows
    /\ st.mode = "add" => \A i \in 1..3 : i < st.stage => st.inputs[Passwords!Fields[i]] # NoText
    /\ alive /\ file \notin {Torn, Broken} => file = st.data

\* Every step keeps that.
LEMMA PasswordsKept == PasswordsInv /\ [Next]_vars => PasswordsInv'
  <1> DEFINE Filled == st.mode = "add" =>
                 \A i \in 1..3 : i < st.stage => st.inputs[Passwords!Fields[i]] # NoText
             Seen == /\ st.selected < Len(st.data) \/ st.selected = 0
                     /\ st.selected < st.scroll + Rows
             Disk == /\ file \in {Torn, Broken} \/ file \in Seq(PasswordEntry)
                     /\ alive /\ file \notin {Torn, Broken} => file = st.data
             Inv == st \in PasswordsType /\ Filled /\ Seen /\ Disk
  <1> SUFFICES ASSUME Inv, [Next]_vars, App = "Passwords" PROVE Inv'
    BY AppSteps DEF PasswordsInv, App
  <1>t. st \in PasswordsType
    OBVIOUS
  <1>r. Rows \in Nat \ {0} /\ Len(st.data) \in Nat /\ st.selected \in Nat /\ st.scroll \in Nat
    BY AppListsAssumption DEF PasswordsType
  <1>n. NoText \in Texts /\ Passwords!NoText = NoText
    BY AppListsAssumption DEF Passwords!NoText, NoText
  <1>f. /\ Passwords!Fields[1] = "site" /\ Passwords!Fields[2] = "user" /\ Passwords!Fields[3] = "pass"
        /\ Len(Passwords!Fields) = 3
    BY DEF Passwords!Fields
  <1>d. PICK f \in BOOLEAN, z \in Nat : ~f /\ z = 0
    OBVIOUS
  <1>e. PICK one \in 1..3 : one = 1
    OBVIOUS
  <1>b. PICK blank \in [FieldNames -> Texts] : blank = Passwords!Blank
    BY <1>n, Zenon DEF Passwords!Blank, FieldNames
  <1> HIDE DEF Filled, Seen, Disk
  <1>1. CASE UNCHANGED <<st, file, alive>>
    BY <1>1 DEF Filled, Seen, Disk
  <1>2. ASSUME NEW d \in Seq(PasswordEntry), st' = Passwords!Fresh(d), UNCHANGED file, alive' => d = file
        PROVE  Inv'
    <2>1. st' = [data |-> d, selected |-> z, mode |-> "list", scroll |-> z,
                 inputs |-> blank, stage |-> one, show |-> f]
      BY <1>2, <1>b, <1>d, <1>e DEF Passwords!Fresh
    <2>2. st' \in PasswordsType
      BY <2>1 DEF PasswordsType
    <2>3. st'.data = d /\ st'.mode = "list" /\ st'.selected = 0 /\ st'.scroll = 0
      BY <2>1, <1>d
    <2> QED BY <1>2, <1>r, <2>2, <2>3 DEF Filled, Seen, Disk
  <1>3. CASE Passwords!HandleInput /\ alive /\ file # Torn /\ UNCHANGED alive
    <2>1. CASE Passwords!KeyArrow
      <3>1. PICK n \in Nat : n = Len(st.data)
        BY <1>r
      <3>2. (st' = Down(st, n) \/ st' = Up(st)) /\ UNCHANGED file /\ st.mode = "list"
        BY <2>1, <3>1, Zenon DEF Passwords!KeyArrow, Passwords!Down, Passwords!Up, Down, Up, Passwords!InList
      <3>3. PICK sel \in Nat, scr \in Int :
               /\ st' = [st EXCEPT !.selected = sel, !.scroll = scr]
               /\ n \in Int => sel < n \/ sel <= st.selected
               /\ 0 <= scr /\ sel < scr + Rows
        <4>1. st.scroll \in Int /\ 0 <= st.scroll /\ st.selected < st.scroll + Rows
          BY <1>r DEF Seen
        <4>2. st.selected \in Nat /\ (st' = Down(st, n) \/ st' = Up(st))
          BY <3>2, <1>r
        <4>3. PICK sel \in Nat, scr \in Int :
                 /\ st' = [st EXCEPT !.selected = sel, !.scroll = scr]
                 /\ n \in Int => sel < n \/ sel <= st.selected
                 /\ 0 <= st.scroll /\ st.selected < st.scroll + Rows => 0 <= scr /\ sel < scr + Rows
                 /\ st.scroll <= st.selected /\ st.selected < st.scroll + Rows => scr <= sel
          BY <4>1, <4>2, ArrowMoves, Zenon
        <4>4. 0 <= scr /\ sel < scr + Rows
          BY <4>1, <4>3, Zenon
        <4> QED BY <4>3, <4>4, Zenon
      <3>4. scr \in Nat
        BY <3>3
      <3>5. /\ st' \in PasswordsType /\ st'.data = st.data /\ st'.selected = sel /\ st'.scroll = scr
            /\ st'.mode = "list"
        BY <3>2, <3>3, <3>4, <1>t DEF PasswordsType
      <3> QED BY <3>1, <3>2, <3>3, <3>5, <1>3, <1>r DEF Filled, Seen, Disk
    <2>2. CASE Passwords!KeyNew
      <3>1. st' = [st EXCEPT !.mode = "add", !.stage = one, !.inputs = blank] /\ UNCHANGED file
        BY <2>2, <1>b, <1>d, <1>e DEF Passwords!KeyNew
      <3>2. /\ st' \in PasswordsType /\ st'.data = st.data /\ st'.selected = st.selected
            /\ st'.scroll = st.scroll /\ st'.stage = 1
        BY <3>1, <1>t, <1>e DEF PasswordsType
      <3> QED BY <3>1, <3>2, <1>3 DEF Filled, Seen, Disk
    <2>3. CASE Passwords!KeyView
      <3>1. st' = [st EXCEPT !.mode = "view", !.show = f] /\ UNCHANGED file
        BY <2>3, <1>d DEF Passwords!KeyView
      <3>2. /\ st' \in PasswordsType /\ st'.data = st.data /\ st'.selected = st.selected
            /\ st'.scroll = st.scroll /\ st'.mode = "view"
        BY <3>1, <1>t DEF PasswordsType
      <3> QED BY <3>1, <3>2, <1>3 DEF Filled, Seen, Disk
    <2>4. CASE Passwords!KeyDelete
      <3>1. /\ st.mode = "list" /\ file' = Torn
            /\ st' = [st EXCEPT !.data = Pop(st.data, st.selected),
                                !.selected = Passwords!StepBack(st.selected)]
            /\ HasIndex(st.data, st.selected)
        BY <2>4, Zenon DEF Passwords!KeyDelete, Passwords!InList, Passwords!save, Passwords!Pop, Pop,
                           Passwords!Index, Index, Passwords!HasIndex, HasIndex
      <3>2. PICK q \in Seq(PasswordEntry), n \in Nat :
               /\ q = Pop(st.data, st.selected) /\ Len(q) = Len(st.data) - 1
               /\ n = Passwords!StepBack(st.selected) /\ n <= st.selected
               /\ n < st.selected \/ st.selected = 0
        <4>1. Index(st.data, st.selected) \in Int
          BY <1>r DEF Index
        <4>2. PICK q \in Seq(PasswordEntry), i \in Nat : q = st.data /\ i = st.selected
          BY <1>t DEF PasswordsType
        <4>3. Pop(st.data, st.selected) \in Seq(PasswordEntry)
              /\ Len(Pop(st.data, st.selected)) = Len(st.data) - 1
          BY <3>1, <4>1, <4>2, PopType
        <4> QED BY <4>3, <1>r DEF Passwords!StepBack
      <3>3. st' = [st EXCEPT !.data = q, !.selected = n]
        BY <3>1, <3>2
      <3>4. /\ st' \in PasswordsType /\ st'.data = q /\ st'.selected = n /\ st'.mode = "list"
            /\ st'.scroll = st.scroll
        BY <3>1, <3>3, <1>t DEF PasswordsType
      <3> QED BY <3>1, <3>2, <3>4, <1>r DEF Filled, Seen, Disk
    <2>5. CASE Passwords!FormEnter
      <3>1. CASE st.stage < 3 /\ st' = [st EXCEPT !.stage = @ + 1] /\ UNCHANGED file
        <4>0. PICK n \in 1..3 : n = st.stage + 1
          BY <3>1, <1>t DEF PasswordsType
        <4>4. st' = [st EXCEPT !.stage = n]
          BY <3>1, <4>0
        <4>1. /\ st' \in PasswordsType /\ st'.data = st.data /\ st'.selected = st.selected
              /\ st'.scroll = st.scroll /\ st'.mode = st.mode /\ st'.inputs = st.inputs
              /\ st'.stage = st.stage + 1
          BY <4>4, <4>0, <1>t DEF PasswordsType
        <4>2. st.mode = "add" /\ st.inputs[Passwords!Fields[st.stage]] # NoText /\ st.stage \in Int
          BY <2>5, <1>n, <1>t DEF Passwords!FormEnter, Passwords!Field, PasswordsType
        <4>3. Filled'
          BY <4>1, <4>2 DEF Filled
        <4> QED BY <3>1, <4>1, <4>3, <1>3 DEF Seen, Disk
      <3>2. CASE /\ ~(st.stage < 3) /\ file' = Torn
                 /\ st' = [st EXCEPT !.data = Append(@, st.inputs), !.mode = "list"]
        <4>1. st.stage = 3 /\ st.mode = "add" /\ st.inputs["pass"] # NoText
          BY <2>5, <3>2, <1>n, <1>t, <1>f DEF Passwords!FormEnter, Passwords!Field, PasswordsType
        <4>2. st.inputs["site"] # NoText /\ st.inputs["user"] # NoText
          BY <4>1, <1>f DEF Filled
        <4>3. PICK e \in PasswordEntry : e = st.inputs
          BY <4>1, <4>2, <1>t DEF PasswordEntry, PasswordsType, FieldNames
        <4>4. PICK q \in Seq(PasswordEntry) : q = st.data
          BY <1>t DEF PasswordsType
        <4>5. Append(q, e) \in Seq(PasswordEntry) /\ Len(Append(q, e)) = Len(q) + 1
          BY AppendProperties
        <4>6. PICK r \in Seq(PasswordEntry) : r = Append(q, e)
          BY <4>5
        <4>7. st' = [st EXCEPT !.data = r, !.mode = "list"]
          BY <3>2, <4>3, <4>4, <4>6
        <4>8. /\ st' \in PasswordsType /\ st'.data = r /\ st'.selected = st.selected
              /\ st'.scroll = st.scroll /\ st'.mode = "list"
          BY <4>7, <1>t DEF PasswordsType
        <4> QED BY <3>2, <4>4, <4>5, <4>6, <4>8, <1>r DEF Filled, Seen, Disk
      <3> QED BY <2>5, <3>1, <3>2, <1>f DEF Passwords!FormEnter, Passwords!save
    <2>6. CASE Passwords!FormKey
      <3>1. PICK t \in Texts : st' = [st EXCEPT !.inputs[Passwords!Field] = t] /\ UNCHANGED file
        BY <2>6 DEF Passwords!FormKey
      <3>2. /\ st' \in PasswordsType /\ st'.data = st.data /\ st'.selected = st.selected
            /\ st'.scroll = st.scroll /\ st'.mode = st.mode /\ st'.stage = st.stage
            /\ st'.inputs = [st.inputs EXCEPT ![Passwords!Field] = t]
        BY <3>1, <1>t DEF PasswordsType
      <3>3. \A i \in 1..3 : i < st.stage => st'.inputs[Passwords!Fields[i]] = st.inputs[Passwords!Fields[i]]
        BY <3>2, <1>t, <1>f DEF PasswordsType, Passwords!Field, FieldNames
      <3> QED BY <3>1, <3>2, <3>3, <1>3 DEF Filled, Seen, Disk
    <2>7. CASE Passwords!ViewKey
      <3>1. /\ \E b \in BOOLEAN : st' = [st EXCEPT !.show = b]
            /\ UNCHANGED file
        BY <2>7 DEF Passwords!ViewKey
      <3>2. /\ st' \in PasswordsType /\ st'.data = st.data /\ st'.selected = st.selected
            /\ st'.scroll = st.scroll /\ st'.mode = st.mode /\ st'.stage = st.stage
            /\ st'.inputs = st.inputs
        BY <3>1, <1>t DEF PasswordsType
      <3> QED BY <3>1, <3>2, <1>3 DEF Filled, Seen, Disk
    <2> QED BY <1>3, <2>1, <2>2, <2>3, <2>4, <2>5, <2>6, <2>7 DEF Passwords!HandleInput
  <1>4. CASE Passwords!HandleEsc /\ alive /\ file # Torn /\ UNCHANGED alive
    <2>1. st' = [st EXCEPT !.mode = "list"] /\ UNCHANGED file
      BY <1>4 DEF Passwords!HandleEsc
    <2>2. /\ st' \in PasswordsType /\ st'.data = st.data /\ st'.selected = st.selected
          /\ st'.scroll = st.scroll /\ st'.mode = "list"
      BY <2>1, <1>t DEF PasswordsType
    <2> QED BY <2>1, <2>2, <1>4 DEF Filled, Seen, Disk
  <1>5. CASE (file' = Passwords!Contents \/ file' = Broken) /\ UNCHANGED <<st, alive>>
    BY <1>5, <1>t DEF Passwords!Contents, PasswordsType, Filled, Seen, Disk
  <1>6. /\ Fresh(App, NoFile(App)) = Passwords!Fresh(<<>>) /\ Fresh(App, file) = Passwords!Fresh(file)
        /\ HandleInput => Passwords!HandleInput
        /\ HandleEsc => Passwords!HandleEsc
        /\ Contents = Passwords!Contents /\ ~Work
        /\ App # "Timer" /\ App # "Settings" /\ App # "Firewall"
        /\ Open => alive /\ file # Torn
    BY DEF Fresh, NoFile, HandleInput, HandleEsc, Work, Contents, Open, InLoop
  <1>8. <<>> \in Seq(PasswordEntry) /\ (Readable => file \in Seq(PasswordEntry))
    BY DEF Disk, Readable
  <1>9. \/ UNCHANGED <<st, file, alive>>
        \/ st' = Passwords!Fresh(<<>>) /\ UNCHANGED file /\ ~alive'
        \/ st' = Passwords!Fresh(file) /\ UNCHANGED file /\ Readable
        \/ Passwords!HandleInput /\ alive /\ file # Torn /\ UNCHANGED alive
        \/ Passwords!HandleEsc /\ alive /\ file # Torn /\ UNCHANGED alive
        \/ (file' = Passwords!Contents \/ file' = Broken) /\ UNCHANGED <<st, alive>>
    BY <1>6, AppSteps, Zenon
  <1> HIDE DEF Inv
  <1> QED BY <1>1, <1>2, <1>3, <1>4, <1>5, <1>8, <1>9

-----------------------------------------------------------------------------
(* Lists that nothing is deleted from by the app *)

\* The selection is in the window.
InWindow == /\ st.selected \in Nat /\ st.scroll \in Nat
            /\ st.scroll <= st.selected /\ st.selected < st.scroll + Rows

\* An arrow key keeps it there, and changes nothing else.
LEMMA ArrowInWindow ==
    ASSUME InWindow, {"selected", "scroll"} \subseteq DOMAIN st, NEW n,
           st' = Down(st, n) \/ st' = Up(st)
    PROVE  /\ InWindow' /\ DOMAIN st' = DOMAIN st
           /\ \A f \in DOMAIN st : f \notin {"selected", "scroll"} => st'[f] = st[f]
  <1>1. /\ st.selected \in Nat /\ st.scroll \in Int /\ 0 <= st.scroll
        /\ st.scroll <= st.selected /\ st.selected < st.scroll + Rows
    BY DEF InWindow
  <1>2. PICK sel \in Nat, scr \in Int :
             /\ st' = [st EXCEPT !.selected = sel, !.scroll = scr]
             /\ n \in Int => sel < n \/ sel <= st.selected
             /\ 0 <= st.scroll /\ st.selected < st.scroll + Rows => 0 <= scr /\ sel < scr + Rows
             /\ st.scroll <= st.selected /\ st.selected < st.scroll + Rows => scr <= sel
    BY <1>1, ArrowMoves, Zenon
  <1>3. 0 <= scr /\ sel < scr + Rows /\ scr <= sel
    BY <1>1, <1>2, Zenon
  <1>4. st'.selected = sel /\ st'.scroll = scr /\ DOMAIN st' = DOMAIN st
    BY <1>2
  <1>5. \A f \in DOMAIN st : f \notin {"selected", "scroll"} => st'[f] = st[f]
    BY <1>2
  <1> QED BY <1>3, <1>4, <1>5 DEF InWindow

-----------------------------------------------------------------------------
(* USB tools *)

USBInv == App = "USB" =>
    DOMAIN st = {"devices", "selected", "scroll", "mode", "details"} /\ InWindow

\* Every step keeps the selection in the window.
LEMMA USBKept == USBInv /\ [Next]_vars => USBInv'
  <1> DEFINE Shape == DOMAIN st = {"devices", "selected", "scroll", "mode", "details"}
  <1> SUFFICES ASSUME Shape, InWindow, [Next]_vars, App = "USB" PROVE Shape' /\ InWindow'
    BY AppSteps DEF USBInv, App
  <1>1. CASE UNCHANGED st
    BY <1>1 DEF InWindow
  <1>2. CASE st' = USB!Fresh
    BY <1>2, AppListsAssumption DEF USB!Fresh, InWindow
  <1>3. CASE USB!HandleInput
    <2>1. CASE USB!KeyArrow
      <3>1. PICK n : n = st.devices
        OBVIOUS
      <3>2. st' = Down(st, n) \/ st' = Up(st)
        BY <2>1, <3>1, Zenon DEF USB!KeyArrow, USB!Down, USB!Up, Down, Up
      <3> QED BY <3>2, ArrowInWindow
    <2>2. CASE USB!KeyScan
      BY <2>2 DEF USB!KeyScan, InWindow
    <2>3. CASE USB!KeyDetail
      BY <2>3 DEF USB!KeyDetail, InWindow
    <2> QED BY <1>3, <2>1, <2>2, <2>3 DEF USB!HandleInput
  <1>4. CASE USB!HandleEsc
    BY <1>4 DEF USB!HandleEsc, InWindow
  <1> QED BY <1>1, <1>2, <1>3, <1>4, AppSteps
          DEF Fresh, HandleInput, HandleEsc, Work, Keepers

-----------------------------------------------------------------------------
(* Process killer *)

ProcKillInv == App = "ProcKill" =>
    DOMAIN st = {"procs", "selected", "scroll", "filter", "mode"} /\ InWindow

\* Every step keeps the selection in the window.
LEMMA ProcKillKept == ProcKillInv /\ [Next]_vars => ProcKillInv'
  <1> DEFINE Shape == DOMAIN st = {"procs", "selected", "scroll", "filter", "mode"}
  <1> SUFFICES ASSUME Shape, InWindow, [Next]_vars, App = "ProcKill" PROVE Shape' /\ InWindow'
    BY AppSteps DEF ProcKillInv, App
  <1>1. CASE UNCHANGED st
    BY <1>1 DEF InWindow
  <1>2. CASE st' = ProcKill!Fresh
    BY <1>2, AppListsAssumption DEF ProcKill!Fresh, InWindow
  <1>3. CASE ProcKill!HandleInput
    <2>1. CASE ProcKill!KeyArrow
      <3>1. PICK n : n = Len(ProcKill!filtered_procs)
        OBVIOUS
      <3>2. st' = Down(st, n) \/ st' = Up(st)
        BY <2>1, <3>1, Zenon DEF ProcKill!KeyArrow, ProcKill!Down, ProcKill!Up, Down, Up
      <3> QED BY <3>2, ArrowInWindow
    <2>2. CASE ProcKill!KeyRefresh \/ ProcKill!KeyKill
      <3>1. (\E t \in ProcKill!Tables : st' = [st EXCEPT !.procs = t]) \/ st' = st
        BY <2>2 DEF ProcKill!KeyRefresh, ProcKill!KeyKill, ProcKill!refresh
      <3> QED BY <3>1 DEF InWindow
    <2>3. CASE ProcKill!KeyFilter
      BY <2>3 DEF ProcKill!KeyFilter, InWindow
    <2>4. CASE ProcKill!FilterKey
      <3>1. CASE st' = [st EXCEPT !.mode = "list", !.selected = 0, !.scroll = 0]
        <4>1. st'.selected = 0 /\ st'.scroll = 0 /\ Shape'
          BY <3>1
        <4>2. Rows \in Nat \ {0}
          BY AppListsAssumption
        <4> QED BY <4>1, <4>2 DEF InWindow
      <3>2. CASE \E t : st' = [st EXCEPT !.filter = t]
        BY <3>2 DEF InWindow
      <3> QED BY <2>4, <3>1, <3>2, Zenon DEF ProcKill!FilterKey
    <2> QED BY <1>3, <2>1, <2>2, <2>3, <2>4 DEF ProcKill!HandleInput
  <1>4. CASE ProcKill!HandleEsc
    BY <1>4 DEF ProcKill!HandleEsc, InWindow
  <1> QED BY <1>1, <1>2, <1>3, <1>4, AppSteps
          DEF Fresh, HandleInput, HandleEsc, Work, Keepers

-----------------------------------------------------------------------------
(* Firewall *)

\* The copy on the screen is the chain unless that was changed behind it.
FirewallInv == App = "Firewall" =>
    /\ DOMAIN st = {"rules", "selected", "scroll", "status", "mode", "stage", "port_in", "action", "drift"}
    /\ InWindow
    /\ Firewall!Current

\* Every step keeps that.
LEMMA FirewallKept == FirewallInv /\ [Next]_vars => FirewallInv'
  <1> DEFINE Shape == DOMAIN st = {"rules", "selected", "scroll", "status", "mode", "stage",
                                   "port_in", "action", "drift"}
  <1> SUFFICES ASSUME Shape, InWindow, Firewall!Current, [Next]_vars, App = "Firewall"
               PROVE  Shape' /\ InWindow' /\ Firewall!Current'
    BY AppSteps DEF FirewallInv, App
  <1>1. CASE UNCHANGED <<st, file>>
    BY <1>1 DEF InWindow, Firewall!Current
  <1>2. CASE st' = Firewall!Fresh
    <2>0. PICK t : t = Firewall!NoText
      OBVIOUS
    <2>1. PICK b \in BOOLEAN : b /\ t = Firewall!NoText
      BY <2>0
    <2>2. st' = [rules |-> <<>>, selected |-> 0, scroll |-> 0, status |-> t, mode |-> "list",
                 stage |-> "port", port_in |-> t, action |-> "ACCEPT", drift |-> b]
      BY <1>2, <2>1 DEF Firewall!Fresh
    <2> QED BY <2>1, <2>2, AppListsAssumption DEF InWindow, Firewall!Current
  \* What load_rules leaves, whatever the attributes of the form are.
  <1>l. ASSUME NEW chain, NEW changed \in BOOLEAN, file' = chain, ~changed => UNCHANGED file,
               NEW r, DOMAIN r = DOMAIN st, r.rules = st.rules, r.selected = st.selected,
               r.scroll = st.scroll, r.drift = st.drift, st' \in Firewall!load_rules(r, chain, changed)
        PROVE  Shape' /\ InWindow' /\ Firewall!Current'
    <2>1. CASE st' = [r EXCEPT !.rules = chain, !.status = "loaded", !.drift = FALSE]
      <3>1. st'.rules = chain /\ st'.selected = st.selected /\ st'.scroll = st.scroll /\ Shape'
        BY <2>1, <1>l, Zenon
      <3> QED BY <3>1, <1>l DEF InWindow, Firewall!Current
    <2>2. CASE st' = [r EXCEPT !.status = "Error", !.drift = @ \/ changed]
      <3>1. /\ st'.rules = st.rules /\ st'.selected = st.selected /\ st'.scroll = st.scroll /\ Shape'
            /\ st'.drift = (st.drift \/ changed)
        BY <2>2, <1>l, Zenon
      <3> QED BY <3>1, <1>l DEF InWindow, Firewall!Current
    <2> QED BY <1>l, <2>1, <2>2 DEF Firewall!load_rules
  <1>3. CASE Firewall!HandleInput
    <2>1. CASE Firewall!KeyArrow
      <3>1. PICK n : n = Len(st.rules)
        OBVIOUS
      <3>2. (st' = Down(st, n) \/ st' = Up(st)) /\ UNCHANGED file
        BY <2>1, <3>1, Zenon DEF Firewall!KeyArrow, Firewall!Down, Firewall!Up, Down, Up
      <3>3. /\ InWindow' /\ DOMAIN st' = DOMAIN st
            /\ \A f \in DOMAIN st : f \notin {"selected", "scroll"} => st'[f] = st[f]
        BY <3>2, ArrowInWindow
      <3>4. st'.rules = st.rules /\ st'.drift = st.drift
        BY <3>3
      <3> QED BY <3>2, <3>3, <3>4 DEF Firewall!Current
    <2>2. CASE Firewall!KeyLoad
      <3>1. PICK no \in BOOLEAN : ~no
        OBVIOUS
      <3>2. st' \in Firewall!load_rules(st, file, no) /\ file' = file
        BY <2>2, <3>1 DEF Firewall!KeyLoad
      <3>3. PICK chain, r : chain = file /\ r = st
        OBVIOUS
      <3> QED BY <3>1, <3>2, <3>3, <1>l
    <2>3. CASE Firewall!KeyAdd
      <3>1. /\ st'.rules = st.rules /\ st'.selected = st.selected /\ st'.scroll = st.scroll
            /\ st'.drift = st.drift /\ Shape' /\ UNCHANGED file
        BY <2>3 DEF Firewall!KeyAdd
      <3> QED BY <3>1 DEF InWindow, Firewall!Current
    <2>4. CASE Firewall!KeyDelete
      <3>1. CASE st' = [st EXCEPT !.status = "Error"] /\ UNCHANGED file
        <4>1. /\ st'.rules = st.rules /\ st'.selected = st.selected /\ st'.scroll = st.scroll
              /\ st'.drift = st.drift /\ Shape' /\ UNCHANGED file
          BY <3>1
        <4> QED BY <4>1 DEF InWindow, Firewall!Current
      <3>2. PICK yes \in BOOLEAN : yes
        OBVIOUS
      <3>3. CASE /\ file' = Firewall!Pop(file, st.selected)
                 /\ st' \in Firewall!load_rules(st, Firewall!Pop(file, st.selected), yes)
        <4>1. PICK chain, r : chain = Firewall!Pop(file, st.selected) /\ r = st
          OBVIOUS
        <4> QED BY <3>2, <3>3, <4>1, <1>l
      <3> QED BY <2>4, <3>1, <3>2, <3>3 DEF Firewall!KeyDelete
    <2>5. CASE Firewall!FormKey
      <3>1. /\ UNCHANGED file
            /\ \/ \E t : st' = [st EXCEPT !.stage = t]
               \/ \E t : st' = [st EXCEPT !.port_in = t]
               \/ \E t : st' = [st EXCEPT !.action = t]
        BY <2>5, Zenon DEF Firewall!FormKey
      <3>2. /\ st'.rules = st.rules /\ st'.selected = st.selected /\ st'.scroll = st.scroll
            /\ st'.drift = st.drift /\ Shape' /\ UNCHANGED file
        BY <3>1
      <3> QED BY <3>2 DEF InWindow, Firewall!Current
    <2>6. CASE Firewall!FormDone
      <3> DEFINE listed == [st EXCEPT !.mode = "list"]
      <3>0. /\ DOMAIN listed = DOMAIN st /\ listed.rules = st.rules
            /\ listed.selected = st.selected /\ listed.scroll = st.scroll /\ listed.drift = st.drift
        OBVIOUS
      <3>1. CASE st' = [listed EXCEPT !.status = "Error"] /\ UNCHANGED file
        <4>1. /\ st'.rules = st.rules /\ st'.selected = st.selected /\ st'.scroll = st.scroll
              /\ st'.drift = st.drift /\ Shape' /\ UNCHANGED file
          BY <3>1
        <4> QED BY <4>1 DEF InWindow, Firewall!Current
      <3>2. PICK yes \in BOOLEAN : yes
        OBVIOUS
      <3>3. CASE /\ file' = Append(file, st.action)
                 /\ st' \in Firewall!load_rules(listed, Append(file, st.action), yes)
        <4>1. PICK chain, r : chain = Append(file, st.action) /\ r = listed
          OBVIOUS
        <4> HIDE DEF listed
        <4> QED BY <3>0, <3>2, <3>3, <4>1, <1>l
      <3> QED BY <2>6, <3>1, <3>2, <3>3 DEF Firewall!FormDone
    <2> QED BY <1>3, <2>1, <2>2, <2>3, <2>4, <2>5, <2>6 DEF Firewall!HandleInput
  <1>4. CASE Firewall!HandleEsc
    <2>1. /\ st'.rules = st.rules /\ st'.selected = st.selected /\ st'.scroll = st.scroll
          /\ st'.drift = st.drift /\ Shape' /\ UNCHANGED file
      BY <1>4 DEF Firewall!HandleEsc
    <2> QED BY <2>1 DEF InWindow, Firewall!Current
  <1>5. CASE Firewall!Outside
    <2>1. /\ st'.rules = st.rules /\ st'.selected = st.selected /\ st'.scroll = st.scroll
          /\ st'.drift = TRUE /\ Shape'
      BY <1>5 DEF Firewall!Outside
    <2> QED BY <2>1 DEF InWindow, Firewall!Current
  <1>6. /\ Fresh(App, NoFile(App)) = Firewall!Fresh /\ Fresh(App, file) = Firewall!Fresh
        /\ HandleInput => Firewall!HandleInput
        /\ HandleEsc => Firewall!HandleEsc
        /\ App \notin Keepers /\ ~Work /\ App # "Timer" /\ App # "Settings"
    BY DEF Fresh, HandleInput, HandleEsc, Work, Keepers
  <1> HIDE DEF Shape
  <1> QED BY <1>1, <1>2, <1>3, <1>4, <1>5, <1>6, AppSteps

-----------------------------------------------------------------------------
(* The window of the network mapper *)

NetMapperFields == {"hosts", "scanning", "status", "selected", "scroll", "progress", "jobs"}

NetMapperSeen == App = "NetMapper" => DOMAIN st = NetMapperFields /\ InWindow

\* Every step keeps the selection in the window; a scan takes the hosts away under it.
LEMMA NetMapperWindow == NetMapperSeen /\ [Next]_vars => NetMapperSeen'
  <1> SUFFICES ASSUME DOMAIN st = NetMapperFields, InWindow, [Next]_vars, App = "NetMapper"
               PROVE  DOMAIN st' = NetMapperFields /\ InWindow'
    BY AppSteps DEF NetMapperSeen, App
  <1>1. CASE UNCHANGED st
    BY <1>1 DEF InWindow
  <1>2. CASE st' = NetMapper!Fresh
    BY <1>2, AppListsAssumption DEF NetMapper!Fresh, NetMapperFields, InWindow
  <1>3. CASE NetMapper!KeyArrow
    <2>1. PICK n : n = Len(st.hosts)
      OBVIOUS
    <2>2. st' = Down(st, n) \/ st' = Up(st)
      BY <1>3, <2>1, Zenon DEF NetMapper!KeyArrow, NetMapper!Down, NetMapper!Up, Down, Up
    <2>3. {"selected", "scroll"} \subseteq DOMAIN st
      BY DEF NetMapperFields
    <2> QED BY <2>2, <2>3, ArrowInWindow
  <1>4. CASE NetMapper!KeyScan
    <2>1. \E jobs, z : st' = [st EXCEPT !.scanning = TRUE, !.hosts = <<>>, !.progress = z,
                                        !.status = "Scanning", !.jobs = jobs]
      BY <1>4, Zenon DEF NetMapper!KeyScan
    <2> QED BY <2>1 DEF InWindow, NetMapperFields
  <1>5. CASE NetMapper!Work
    <2>1. \/ \E p, jobs, hosts : st' = [st EXCEPT !.progress = p, !.jobs = jobs, !.hosts = hosts]
          \/ \E b, jobs : st' = [st EXCEPT !.scanning = b, !.jobs = jobs]
          \/ \E jobs : st' = [st EXCEPT !.status = "Found", !.jobs = jobs]
      BY <1>5, Zenon DEF NetMapper!Work, NetMapper!Ping, NetMapper!Finish
    <2> QED BY <2>1 DEF InWindow, NetMapperFields
  <1>6. /\ Fresh(App, NoFile(App)) = NetMapper!Fresh /\ Fresh(App, file) = NetMapper!Fresh
        /\ HandleInput => NetMapper!KeyScan \/ NetMapper!KeyArrow
        /\ Work => NetMapper!Work
        /\ ~HandleEsc
        /\ App \notin Keepers /\ App # "Timer" /\ App # "Settings" /\ App # "Firewall"
    BY DEF Fresh, HandleInput, HandleEsc, Work, Keepers, NetMapper!HandleInput
  <1> QED BY <1>1, <1>2, <1>3, <1>4, <1>5, <1>6, AppSteps, Zenon

-----------------------------------------------------------------------------
(* Wake-on-LAN *)

Device == [name : Texts \cup {CR}, mac : Texts \cup {CR}]

WakeOnLANType ==
    [devices : Seq(Device), selected : Int, mode : {"list", "add"}, name_in : Texts \cup {CR},
     mac_in : Texts \cup {CR}, stage : {"name", "mac"}, status : Texts \cup {"sent", "error", "added"}]

\* K_DOWN on the empty list leaves the selection at -1, which is no row but, once there is one, the
\* last entry; and the file has the devices.
WakeOnLANInv == App = "WakeOnLAN" =>
    /\ st \in WakeOnLANType
    /\ file \in {Torn, Broken} \/ file \in Seq(Device)
    /\ -1 <= st.selected /\ (st.selected < Len(st.devices) \/ st.selected = 0)
    /\ alive /\ file \notin {Torn, Broken} => file = st.devices

\* Every step keeps that.
LEMMA WakeOnLANKept == WakeOnLANInv /\ [Next]_vars => WakeOnLANInv'
  <1> DEFINE Cursor == -1 <= st.selected /\ (st.selected < Len(st.devices) \/ st.selected = 0)
             Disk == /\ file \in {Torn, Broken} \/ file \in Seq(Device)
                     /\ alive /\ file \notin {Torn, Broken} => file = st.devices
             Inv == st \in WakeOnLANType /\ Cursor /\ Disk
  <1> SUFFICES ASSUME Inv, [Next]_vars, App = "WakeOnLAN" PROVE Inv'
    BY AppSteps DEF WakeOnLANInv, App
  <1>t. st \in WakeOnLANType
    OBVIOUS
  <1>l. Len(st.devices) \in Nat /\ st.selected \in Int
    BY DEF WakeOnLANType
  <1>n. /\ NoText \in Texts /\ WakeOnLAN!NoText = NoText /\ WakeOnLAN!CR = CR
    BY AppListsAssumption DEF WakeOnLAN!NoText, NoText, WakeOnLAN!CR, CR
  <1>z. PICK z \in Int : z = 0
    OBVIOUS
  <1> HIDE DEF Cursor, Disk
  <1>1. CASE UNCHANGED <<st, file, alive>>
    BY <1>1 DEF Cursor, Disk
  <1>2. ASSUME NEW d \in Seq(Device), st' = WakeOnLAN!Fresh(d), UNCHANGED file, alive' => d = file
        PROVE  Inv'
    <2>1. st' = [devices |-> d, selected |-> z, mode |-> "list", name_in |-> NoText,
                 mac_in |-> NoText, stage |-> "name", status |-> NoText]
      BY <1>2, <1>z, <1>n DEF WakeOnLAN!Fresh
    <2>2. st' \in WakeOnLANType
      BY <2>1, <1>n DEF WakeOnLANType
    <2>3. st'.devices = d /\ st'.selected = 0
      BY <2>1, <1>z
    <2> QED BY <1>2, <2>2, <2>3 DEF Cursor, Disk
  \* A step that leaves the list, the selection and the file alone.
  <1>s. ASSUME UNCHANGED <<file, alive>>, st' \in WakeOnLANType,
               st'.devices = st.devices, st'.selected = st.selected
        PROVE  Inv'
    BY <1>s DEF Cursor, Disk
  <1>3. CASE WakeOnLAN!HandleInput /\ alive /\ file # Torn /\ UNCHANGED alive
    <2>1. CASE WakeOnLAN!KeyArrow
      <3>1. PICK n \in Int : st' = [st EXCEPT !.selected = n]
                             /\ -1 <= n /\ (n < Len(st.devices) \/ n = 0)
        <4>1. PICK n : /\ st' = [st EXCEPT !.selected = n]
                       /\ \/ n = IF st.selected + 1 < Len(st.devices) - 1 THEN st.selected + 1
                                 ELSE Len(st.devices) - 1
                          \/ n = WakeOnLAN!StepBack(st.selected)
          BY <2>1, Zenon DEF WakeOnLAN!KeyArrow
        <4>2. n \in Int /\ -1 <= n /\ (n < Len(st.devices) \/ n = 0)
          BY <4>1, <1>l DEF WakeOnLAN!StepBack, Cursor
        <4> QED BY <4>1, <4>2
      <3>2. st' \in WakeOnLANType /\ st'.devices = st.devices /\ st'.selected = n
        BY <3>1, <1>t DEF WakeOnLANType
      <3>3. UNCHANGED file
        BY <2>1 DEF WakeOnLAN!KeyArrow
      <3> QED BY <1>3, <3>1, <3>2, <3>3 DEF Cursor, Disk
    <2>2. CASE WakeOnLAN!KeyWake
      <3>1. (\E r \in {"sent", "error"} : st' = [st EXCEPT !.status = r]) /\ UNCHANGED file
        BY <2>2 DEF WakeOnLAN!KeyWake
      <3>2. st' \in WakeOnLANType /\ st'.devices = st.devices /\ st'.selected = st.selected
        BY <3>1, <1>t DEF WakeOnLANType
      <3> QED BY <1>3, <1>s, <3>1, <3>2
    <2>3. CASE WakeOnLAN!KeyNew
      <3>1. /\ st' = [st EXCEPT !.mode = "add", !.stage = "name", !.name_in = NoText, !.mac_in = NoText]
            /\ UNCHANGED file
        BY <2>3, <1>n DEF WakeOnLAN!KeyNew
      <3>2. st' \in WakeOnLANType /\ st'.devices = st.devices /\ st'.selected = st.selected
        BY <3>1, <1>t, <1>n DEF WakeOnLANType
      <3> QED BY <1>3, <1>s, <3>1, <3>2
    <2>4. CASE WakeOnLAN!KeyDelete
      <3>1. /\ file' = Torn /\ HasIndex(st.devices, st.selected)
            /\ st' = [st EXCEPT !.devices = Pop(st.devices, st.selected),
                                !.selected = WakeOnLAN!StepBack(st.selected)]
        BY <2>4, Zenon DEF WakeOnLAN!KeyDelete, WakeOnLAN!save, WakeOnLAN!Pop, Pop,
                           WakeOnLAN!Index, Index, WakeOnLAN!HasIndex, HasIndex
      <3>2. PICK q \in Seq(Device), n \in Int :
               /\ q = Pop(st.devices, st.selected) /\ Len(q) = Len(st.devices) - 1
               /\ n = WakeOnLAN!StepBack(st.selected) /\ 0 <= n
               /\ n = st.selected - 1 \/ n = 0
        <4>1. Index(st.devices, st.selected) \in Int
          BY <1>l DEF Index
        <4>2. PICK q \in Seq(Device), i \in Int : q = st.devices /\ i = st.selected
          BY <1>t DEF WakeOnLANType
        <4>3. Pop(st.devices, st.selected) \in Seq(Device)
              /\ Len(Pop(st.devices, st.selected)) = Len(st.devices) - 1
          BY <3>1, <4>1, <4>2, PopType
        <4> QED BY <4>3, <1>l DEF WakeOnLAN!StepBack
      <3>3. st' = [st EXCEPT !.devices = q, !.selected = n]
        BY <3>1, <3>2
      <3>4. st' \in WakeOnLANType /\ st'.devices = q /\ st'.selected = n
        BY <3>3, <1>t DEF WakeOnLANType
      <3> QED BY <3>1, <3>2, <3>4, <1>l DEF Cursor, Disk
    <2>5. CASE WakeOnLAN!NameKey
      <3>1. /\ UNCHANGED file
            /\ \/ st' = [st EXCEPT !.stage = "mac"]
               \/ \E t \in Texts \cup {CR} : st' = [st EXCEPT !.name_in = t]
        BY <2>5, <1>n DEF WakeOnLAN!NameKey
      <3>2. st' \in WakeOnLANType /\ st'.devices = st.devices /\ st'.selected = st.selected
        BY <3>1, <1>t DEF WakeOnLANType
      <3> QED BY <1>3, <1>s, <3>1, <3>2
    <2>6. CASE WakeOnLAN!MacKey
      <3>1. CASE (\E t \in Texts \cup {CR} : st' = [st EXCEPT !.mac_in = t]) /\ UNCHANGED file
        <4>2. st' \in WakeOnLANType /\ st'.devices = st.devices /\ st'.selected = st.selected
          BY <3>1, <1>t DEF WakeOnLANType
        <4> QED BY <1>3, <1>s, <3>1, <4>2
      <3>2. CASE /\ file' = Torn
                 /\ st' = [st EXCEPT !.mode = "list", !.status = "added",
                             !.devices = Append(st.devices, [name |-> st.name_in, mac |-> st.mac_in])]
        <4>1. PICK d \in Device : d = [name |-> st.name_in, mac |-> st.mac_in]
          BY <1>t DEF WakeOnLANType, Device
        <4>2. PICK q \in Seq(Device) : q = st.devices
          BY <1>t DEF WakeOnLANType
        <4>3. Append(q, d) \in Seq(Device) /\ Len(Append(q, d)) = Len(q) + 1
          BY AppendProperties
        <4>4. PICK r \in Seq(Device) : r = Append(q, d)
          BY <4>3
        <4>5. st' = [st EXCEPT !.mode = "list", !.status = "added", !.devices = r]
          BY <3>2, <4>1, <4>2, <4>4
        <4>6. st' \in WakeOnLANType /\ st'.devices = r /\ st'.selected = st.selected
          BY <4>5, <1>t DEF WakeOnLANType
        <4> QED BY <3>2, <4>2, <4>3, <4>4, <4>6, <1>l DEF Cursor, Disk
      <3>3. \/ (\E t \in Texts \cup {CR} : st' = [st EXCEPT !.mac_in = t]) /\ UNCHANGED file
            \/ /\ file' = Torn
               /\ st' = [st EXCEPT !.mode = "list", !.status = "added",
                             !.devices = Append(st.devices, [name |-> st.name_in, mac |-> st.mac_in])]
        BY <2>6, <1>n, Zenon DEF WakeOnLAN!MacKey, WakeOnLAN!save
      <3> QED BY <3>1, <3>2, <3>3
    <2> QED BY <1>3, <2>1, <2>2, <2>3, <2>4, <2>5, <2>6 DEF WakeOnLAN!HandleInput
  <1>4. CASE WakeOnLAN!HandleEsc /\ UNCHANGED alive
    <2>1. st' = [st EXCEPT !.mode = "list"] /\ UNCHANGED file
      BY <1>4 DEF WakeOnLAN!HandleEsc
    <2>2. st' \in WakeOnLANType /\ st'.devices = st.devices /\ st'.selected = st.selected
      BY <2>1, <1>t DEF WakeOnLANType
    <2> QED BY <1>4, <1>s, <2>1, <2>2
  <1>5. CASE (file' = WakeOnLAN!Contents \/ file' = Broken) /\ UNCHANGED <<st, alive>>
    BY <1>5, <1>t DEF WakeOnLAN!Contents, WakeOnLANType, Cursor, Disk
  <1>6. /\ Fresh(App, NoFile(App)) = WakeOnLAN!Fresh(<<>>) /\ Fresh(App, file) = WakeOnLAN!Fresh(file)
        /\ HandleInput => WakeOnLAN!HandleInput
        /\ HandleEsc => WakeOnLAN!HandleEsc
        /\ Contents = WakeOnLAN!Contents /\ ~Work
        /\ App # "Timer" /\ App # "Settings" /\ App # "Firewall"
        /\ Open => alive /\ file # Torn
    BY DEF Fresh, NoFile, HandleInput, HandleEsc, Work, Contents, Open, InLoop
  <1>8. <<>> \in Seq(Device) /\ (Readable => file \in Seq(Device))
    BY DEF Disk, Readable
  <1>9. \/ UNCHANGED <<st, file, alive>>
        \/ st' = WakeOnLAN!Fresh(<<>>) /\ UNCHANGED file /\ ~alive'
        \/ st' = WakeOnLAN!Fresh(file) /\ UNCHANGED file /\ Readable
        \/ WakeOnLAN!HandleInput /\ alive /\ file # Torn /\ UNCHANGED alive
        \/ WakeOnLAN!HandleEsc /\ UNCHANGED alive
        \/ (file' = WakeOnLAN!Contents \/ file' = Broken) /\ UNCHANGED <<st, alive>>
    BY <1>6, AppSteps, Zenon
  <1> HIDE DEF Inv
  <1> QED BY <1>1, <1>2, <1>3, <1>4, <1>5, <1>8, <1>9

-----------------------------------------------------------------------------
(* Settings *)

SettingsInv == App = "Settings" =>
    DOMAIN st = {"cfg", "slider", "popen"} /\ (alive /\ file \notin {Torn, Broken} => Settings!OnDisk)

\* Whatever a step does to the settings, it writes them.
LEMMA SettingsKept == SettingsInv /\ [Next]_vars => SettingsInv'
  <1> DEFINE Shape == DOMAIN st = {"cfg", "slider", "popen"}
             Disk == alive /\ file \notin {Torn, Broken} => Settings!OnDisk
  <1> SUFFICES ASSUME Shape, Disk, [Next]_vars, App = "Settings" PROVE Shape' /\ Disk'
    BY AppSteps DEF SettingsInv, App
  <1>1. CASE UNCHANGED <<st, file, alive>>
    BY <1>1 DEF Settings!OnDisk
  <1>2. ASSUME NEW f, st' = Settings!Fresh(f), UNCHANGED file, alive' => f = file
        PROVE  Shape' /\ Disk'
    <2>1. PICK c, no : /\ c = (IF f = <<>> THEN Settings!DefaultSettings ELSE f)
                       /\ st' = [cfg |-> c, slider |-> c.brightness, popen |-> no]
      BY <1>2, Zenon DEF Settings!Fresh
    <2>2. Shape' /\ st'.cfg = c
      BY <2>1
    <2> QED BY <1>2, <2>1, <2>2 DEF Settings!OnDisk
  <1>3. CASE (Settings!HandleInput \/ Settings!ControlTouch) /\ UNCHANGED alive
    <2>1. file' = Torn /\ DOMAIN st' = DOMAIN st
      BY <1>3 DEF Settings!HandleInput, Settings!ControlTouch, Settings!SwitchTap, Settings!SliderTap,
                  Settings!toggle_wifi, Settings!toggle_airplane, Settings!toggle_other,
                  Settings!Brightness, Settings!save
    <2> QED BY <2>1
  <1>4. CASE Settings!Popen /\ UNCHANGED <<file, alive>>
    <2>1. PICK no : st' = [st EXCEPT !.popen = no]
      BY <1>4 DEF Settings!Popen
    <2> QED BY <1>4, <2>1 DEF Settings!OnDisk
  <1>5. CASE (file' = Settings!Contents \/ file' = Broken) /\ UNCHANGED <<st, alive>>
    BY <1>5 DEF Settings!Contents, Settings!OnDisk
  <1>6. /\ Fresh(App, NoFile(App)) = Settings!Fresh(<<>>) /\ Fresh(App, file) = Settings!Fresh(file)
        /\ HandleInput => Settings!HandleInput
        /\ ~HandleEsc /\ Contents = Settings!Contents /\ ~Work
        /\ App # "Timer" /\ App # "Firewall"
    BY DEF Fresh, NoFile, HandleInput, HandleEsc, Work, Contents
  <1>9. \/ UNCHANGED <<st, file, alive>>
        \/ st' = Settings!Fresh(<<>>) /\ UNCHANGED file /\ ~alive'
        \/ st' = Settings!Fresh(file) /\ UNCHANGED file
        \/ (Settings!HandleInput \/ Settings!ControlTouch) /\ UNCHANGED alive
        \/ Settings!Popen /\ UNCHANGED <<file, alive>>
        \/ (file' = Settings!Contents \/ file' = Broken) /\ UNCHANGED <<st, alive>>
    BY <1>6, AppSteps, Zenon
  <1> HIDE DEF Shape, Disk
  <1> QED BY <1>1, <1>2, <1>3, <1>4, <1>5, <1>9

-----------------------------------------------------------------------------
(* The text editor *)

\* A text has a line at least.
Written == {q \in Seq(Nat) : q # <<>>}

EditorType ==
    [lines : Written, cursor_x : Nat, cursor_y : Nat, scroll : Int, filename : Texts,
     mode : {"input_name", "edit"}, modified : BOOLEAN, failed : BOOLEAN]

EditorCursor == st.cursor_y < Len(st.lines) /\ st.cursor_x <= st.lines[st.cursor_y + 1]

EditorDisk ==
    /\ file \in [Texts \ {NoText} -> Written \cup {Missing}]
    /\ st.mode = "edit" => st.filename # NoText
    /\ Editor!Saved

\* The cursor is in the text, and the text is the file's unless it is marked.
EditorInv == App = "Editor" => st \in EditorType /\ EditorCursor /\ EditorDisk

\* A line has a length.
LEMMA LineTyped ==
    ASSUME NEW q \in Written
    PROVE  Len(q) \in Nat \ {0} /\ \A j \in 1..Len(q) : q[j] \in Nat
  BY DEF Written

\* A line of the text is changed.
LEMMA LineSet ==
    ASSUME NEW q \in Written, NEW i \in 1..Len(q), NEW n \in Nat
    PROVE  /\ [q EXCEPT ![i] = n] \in Written /\ Len([q EXCEPT ![i] = n]) = Len(q)
           /\ [q EXCEPT ![i] = n][i] = n
           /\ \A j \in 1..Len(q) : j # i => [q EXCEPT ![i] = n][j] = q[j]
  BY DEF Written

\* A line is added behind line i.
LEMMA LineInserted ==
    ASSUME NEW q \in Written, NEW i \in 1..Len(q), NEW n \in Nat
    PROVE  Insert(q, i, n) \in Written /\ Len(Insert(q, i, n)) = Len(q) + 1
  <1>1. Len(q) \in Nat
    BY DEF Written
  <1>2. \A k \in 1..(Len(q) + 1) :
            (IF k <= i THEN q[k] ELSE IF k = i + 1 THEN n ELSE q[k - 1]) \in Nat
    BY DEF Written
  <1>3. Insert(q, i, n) \in [1..(Len(q) + 1) -> Nat]
    BY <1>2 DEF Insert
  <1>4. Len(q) + 1 \in Nat
    BY <1>1
  <1>5. Insert(q, i, n) \in Seq(Nat) /\ Len(Insert(q, i, n)) = Len(q) + 1
    BY <1>3, <1>4, SeqDef
  <1> QED BY <1>1, <1>5 DEF Written

\* The line below line i is joined to it.
LEMMA LineRemoved ==
    ASSUME NEW q \in Written, NEW i \in Nat, 0 < i, i < Len(q)
    PROVE  /\ Pop(q, i) \in Written /\ Len(Pop(q, i)) = Len(q) - 1
           /\ Pop(q, i)[i] = q[i]
  <1>1. Index(q, i) = i + 1 /\ Index(q, i) \in Int /\ HasIndex(q, i) /\ Len(q) \in Nat
    BY DEF Index, HasIndex, Written
  <1>2. PICK S : S = Nat
    OBVIOUS
  <1>3. q \in Seq(S)
    BY <1>2 DEF Written
  <1>4. Pop(q, i) \in Seq(S) /\ Len(Pop(q, i)) = Len(q) - 1
    BY <1>1, <1>3, PopType
  <1>5. Pop(q, i)[i] = q[i]
    BY <1>1 DEF Pop
  <1>6. Pop(q, i) # <<>>
    BY <1>1, <1>4
  <1> QED BY <1>2, <1>4, <1>5, <1>6 DEF Written

\* Every step keeps that.
LEMMA EditorKept == EditorInv /\ [Next]_vars => EditorInv'
  <1> DEFINE Inv == st \in EditorType /\ EditorCursor /\ EditorDisk
  <1> SUFFICES ASSUME Inv, [Next]_vars, App = "Editor" PROVE Inv'
    BY AppSteps DEF EditorInv, App
  <1>t. /\ st \in EditorType /\ EditorCursor /\ EditorDisk
        /\ file \in [Texts \ {NoText} -> Written \cup {Missing}]
    BY DEF EditorDisk
  <1>n. NoText \in Texts /\ Editor!NoText = NoText
    BY AppListsAssumption DEF Editor!NoText, NoText
  <1>z. PICK z \in Nat : z = 0
    OBVIOUS
  <1>f. PICK no \in BOOLEAN : ~no
    OBVIOUS
  <1>y. PICK yes \in BOOLEAN : yes
    OBVIOUS
  <1>e. PICK empty \in Written : empty = <<0>>
    <2>1. <<z>> \in Seq(Nat) /\ <<z>> # <<>>
      OBVIOUS
    <2>2. <<z>> = <<0>>
      BY <1>z
    <2> QED BY <2>1, <2>2 DEF Written
  <1>p. \A q, i, n : Editor!Pop(q, i) = Pop(q, i) /\ Editor!Insert(q, i, n) = Insert(q, i, n)
    BY Zenon DEF Editor!Pop, Pop, Editor!Index, Index, Editor!Insert, Insert
  <1>q. PICK q \in Written, x \in Nat, y \in Nat, i \in Nat, c \in Int :
             /\ q = st.lines /\ x = st.cursor_x /\ y = st.cursor_y /\ i = y + 1 /\ i \in 1..Len(q) /\ c = st.scroll
             /\ Len(q) \in Nat /\ y < Len(q) /\ x <= q[i] /\ q[i] \in Nat /\ i = Editor!Row
             /\ \A j \in 1..Len(q) : q[j] \in Nat
    <2>1. PICK q \in Written, x \in Nat, y \in Nat, c \in Int :
               q = st.lines /\ x = st.cursor_x /\ y = st.cursor_y /\ c = st.scroll
      BY <1>t DEF EditorType
    <2>2. /\ y < Len(q) /\ x <= q[y + 1] /\ q \in Seq(Nat)
      BY <1>t, <2>1 DEF EditorCursor, Written
    <2>3. y + 1 \in 1..Len(q) /\ Len(q) \in Nat
      BY <2>2
    <2>4. q[y + 1] \in Nat
      BY <2>2, <2>3
    <2>5. y + 1 = Editor!Row /\ y + 1 \in Nat
      BY <2>1 DEF Editor!Row
    <2>6. \A j \in 1..Len(q) : q[j] \in Nat
      BY <2>2
    <2>7. PICK i \in Nat : i = y + 1
      BY <2>5
    <2> QED BY <2>1, <2>2, <2>3, <2>4, <2>5, <2>6, <2>7
  <1>k. /\ i = y + 1 /\ y < Len(q) /\ Len(q) \in Nat /\ y \in Nat
        /\ x \in Nat /\ q[i] \in Nat /\ x <= q[i]
    BY <1>q, Zenon
  \* A text that is marked.
  <1>m. ASSUME NEW l \in Written, NEW a \in Nat, NEW b \in Nat, b < Len(l), a <= l[b + 1],
               st' = [st EXCEPT !.lines = l, !.cursor_x = a, !.cursor_y = b, !.modified = yes],
               UNCHANGED file
        PROVE  Inv'
    <2>1. /\ st' \in EditorType /\ st'.lines = l /\ st'.cursor_x = a /\ st'.cursor_y = b
          /\ st'.modified /\ st'.mode = st.mode /\ st'.filename = st.filename
      BY <1>m, <1>t, <1>y DEF EditorType
    <2> QED BY <2>1, <1>m, <1>t DEF EditorCursor, EditorDisk, Editor!Saved, Editor!Editing
  \* The text and the name as they were.
  <1>c. ASSUME NEW a \in Nat, NEW b \in Nat, NEW d \in Int, b < Len(q), a <= q[b + 1],
               st' = [st EXCEPT !.cursor_x = a, !.cursor_y = b, !.scroll = d],
               UNCHANGED file
        PROVE  Inv'
    <2>1. /\ st' \in EditorType /\ st'.lines = st.lines /\ st'.cursor_x = a /\ st'.cursor_y = b
          /\ st'.modified = st.modified /\ st'.mode = st.mode /\ st'.filename = st.filename
          /\ st'.failed = st.failed
      BY <1>c, <1>t DEF EditorType
    <2> QED BY <2>1, <1>c, <1>t, <1>q DEF EditorCursor, EditorDisk, Editor!Saved, Editor!Editing
  <1>1. CASE UNCHANGED <<st, file>>
    BY <1>1 DEF EditorCursor, EditorDisk, Editor!Saved, Editor!Editing
  <1>2. CASE st' = Editor!Fresh /\ UNCHANGED file
    <2>1. st' = [lines |-> empty, cursor_x |-> z, cursor_y |-> z, scroll |-> z,
                 filename |-> NoText, mode |-> "input_name", modified |-> no, failed |-> no]
      BY <1>2, <1>e, <1>z, <1>f, <1>n DEF Editor!Fresh, Editor!Empty
    <2>2. st' \in EditorType
      BY <2>1, <1>n DEF EditorType
    <2>3. /\ st'.lines = <<0>> /\ st'.cursor_x = 0 /\ st'.cursor_y = 0 /\ st'.mode = "input_name"
      BY <2>1, <1>e, <1>z
    <2> QED BY <1>2, <1>t, <2>2, <2>3 DEF EditorCursor, EditorDisk, Editor!Saved, Editor!Editing
  <1>3. CASE Editor!insert_char
    <2>1. PICK n \in Nat, a \in Nat : n = q[i] + 1 /\ a = x + 1
      BY <1>q
    <2>2. PICK l \in Written : l = [q EXCEPT ![i] = n] /\ Len(l) = Len(q) /\ l[i] = n
      <3>1. i \in 1..Len(q)
        BY <1>q
      <3>2. LET l == [q EXCEPT ![i] = n] IN l \in Written /\ Len(l) = Len(q) /\ l[i] = n
        BY <3>1, LineSet
      <3> QED BY <3>2
    <2>3. /\ st' = [st EXCEPT !.lines[i] = q[i] + 1, !.cursor_x = x + 1, !.modified = TRUE]
          /\ UNCHANGED file
      BY <1>3, <1>q DEF Editor!insert_char
    <2>4. st' = [st EXCEPT !.lines = l, !.cursor_x = a, !.cursor_y = y, !.modified = yes]
      BY <2>1, <2>2, <2>3, <1>y, <1>q, <1>t DEF EditorType
    <2>5. y < Len(l)
      <3>1. Len(l) = Len(q)
        BY <2>2, Zenon
      <3> QED BY <1>k, <3>1
    <2>6. a <= l[y + 1]
      <3>1. l[y + 1] = n
        BY <1>k, <2>2
      <3>2. a <= n
        BY <1>k, <2>1
      <3> QED BY <3>1, <3>2, Zenon
    <2> QED BY <1>m, <2>3, <2>4, <2>5, <2>6
  <1>4. CASE Editor!backspace
    <2>0. UNCHANGED file
      BY <1>4 DEF Editor!backspace
    <2>1. CASE x > 0 /\ st' = [st EXCEPT !.lines[i] = q[i] - 1, !.cursor_x = x - 1, !.modified = TRUE]
      <3>1. PICK n \in Nat, a \in Nat : n = q[i] - 1 /\ a = x - 1
        BY <1>q, <2>1
      <3>2. PICK l \in Written : l = [q EXCEPT ![i] = n] /\ Len(l) = Len(q) /\ l[i] = n
        <4>1. i \in 1..Len(q)
          BY <1>q
        <4>2. LET l == [q EXCEPT ![i] = n] IN l \in Written /\ Len(l) = Len(q) /\ l[i] = n
          BY <4>1, LineSet
        <4> QED BY <4>2
      <3>4. st' = [st EXCEPT !.lines = l, !.cursor_x = a, !.cursor_y = y, !.modified = yes]
        BY <2>1, <3>1, <3>2, <1>y, <1>q, <1>t DEF EditorType
      <3>5. y < Len(l)
        <4>1. Len(l) = Len(q)
          BY <3>2, Zenon
        <4> QED BY <1>k, <4>1
      <3>6. a <= l[y + 1]
        <4>1. l[y + 1] = n
          BY <1>k, <3>2
        <4>2. a <= n
          BY <1>k, <3>1
        <4> QED BY <4>1, <4>2, Zenon
      <3> QED BY <1>m, <2>0, <3>4, <3>5, <3>6
    <2>2. CASE /\ y > 0
               /\ st' = [st EXCEPT !.cursor_x = q[i - 1],
                                   !.lines = Pop([q EXCEPT ![i - 1] = q[i - 1] + q[i]], y),
                                   !.cursor_y = y - 1, !.modified = TRUE]
      <3>1. PICK n \in Nat, a \in Nat, b \in Nat :
                 n = q[i - 1] + q[i] /\ a = q[i - 1] /\ b = y - 1 /\ a <= n
        <4>0. y > 0
          BY <2>2, Zenon
        <4>1. i - 1 \in 1..Len(q) /\ y - 1 \in Nat
          BY <1>k, <4>0
        <4>2. q[i - 1] \in Nat /\ q[i] \in Nat
          BY <4>1, <1>q
        <4>3. q[i - 1] + q[i] \in Nat /\ q[i - 1] <= q[i - 1] + q[i]
          BY <4>2
        <4> QED BY <4>1, <4>2, <4>3
      <3>2. PICK k \in 1..Len(q) : k = i - 1 /\ k = y
        <4>1. y > 0
          BY <2>2, Zenon
        <4> QED BY <1>k, <4>1
      <3>3. PICK l \in Written : l = [q EXCEPT ![k] = n] /\ Len(l) = Len(q) /\ l[k] = n
        <4>1. k \in 1..Len(q)
          BY <3>2
        <4>2. /\ [q EXCEPT ![k] = n] \in Written /\ Len([q EXCEPT ![k] = n]) = Len(q)
              /\ [q EXCEPT ![k] = n][k] = n
          BY <4>1, <1>q, LineSet
        <4> QED BY <4>2, Zenon
      <3>4. PICK m \in Written : m = Pop(l, y) /\ Len(m) = Len(l) - 1 /\ m[y] = l[y]
        <4>0. y > 0 /\ Len(l) = Len(q)
          BY <2>2, <3>3, Zenon
        <4>1. y \in Nat /\ 0 < y /\ y < Len(l)
          BY <1>k, <4>0
        <4> QED BY <4>1, LineRemoved, Zenon
      <3>5. /\ st' = [st EXCEPT !.lines = m, !.cursor_x = a, !.cursor_y = b, !.modified = yes]
        BY <2>2, <3>1, <3>2, <3>3, <3>4, <1>y
      <3>6. b < Len(m) /\ a <= m[b + 1]
        <4>1. b < Len(m) /\ b + 1 = y
          <5>1. b = y - 1
            BY <3>1, Zenon
          <5>2. Len(l) = Len(q)
            BY <3>3, Zenon
          <5>3. Len(m) = Len(l) - 1
            BY <3>4, Zenon
          <5> QED BY <1>k, <5>1, <5>2, <5>3
        <4>2. m[b + 1] = n
          BY <4>1, <3>2, <3>3, <3>4
        <4>3. a <= n
          BY <3>1, Zenon
        <4> QED BY <4>1, <4>2, <4>3, Zenon
      <3> QED BY <1>m, <2>0, <3>5, <3>6
    <2>3. CASE st.cursor_x > 0 /\ st' = [st EXCEPT !.lines[Editor!Row] = @ - 1, !.cursor_x = @ - 1,
                                                   !.modified = TRUE]
      BY <2>1, <2>3, <1>q
    <2>4. CASE /\ st.cursor_y > 0
               /\ st' = [st EXCEPT !.cursor_x = st.lines[Editor!Row - 1],
                                   !.lines = Editor!Pop([st.lines EXCEPT ![Editor!Row - 1] =
                                                           @ + st.lines[Editor!Row]], st.cursor_y),
                                   !.cursor_y = @ - 1, !.modified = TRUE]
      <3>1. PICK l : l = [q EXCEPT ![i - 1] = @ + q[i]]
        OBVIOUS
      <3>2. l = [st.lines EXCEPT ![Editor!Row - 1] = @ + st.lines[Editor!Row]]
        BY <3>1, <1>q
      <3>3. Editor!Pop(l, st.cursor_y) = Pop(l, y)
        BY <1>p, <1>q
      <3>4. PICK m : m = Pop(l, y)
        OBVIOUS
      <3>5. st' = [st EXCEPT !.cursor_x = q[i - 1], !.lines = m, !.cursor_y = y - 1, !.modified = TRUE]
        BY <2>4, <3>2, <3>3, <3>4, <1>q
      <3>6. l = [q EXCEPT ![i - 1] = q[i - 1] + q[i]]
        BY <3>1
      <3> QED BY <2>2, <2>4, <3>4, <3>5, <3>6, <1>q
    <2> QED BY <1>4, <2>3, <2>4, Zenon DEF Editor!backspace
  <1>5. CASE Editor!newline
    <2>1. PICK n \in Nat, b \in Nat : n = q[i] - x /\ b = y + 1
      BY <1>q
    <2>2. PICK l \in Written : l = [q EXCEPT ![i] = x] /\ Len(l) = Len(q)
      <3>1. i \in 1..Len(q)
        BY <1>q
      <3>2. LET l == [q EXCEPT ![i] = x] IN l \in Written /\ Len(l) = Len(q) /\ l[i] = x
        BY <3>1, LineSet
      <3> QED BY <3>2
    <2>3. PICK m \in Written : m = Insert(l, i, n) /\ Len(m) = Len(l) + 1
      BY <2>2, <1>q, LineInserted
    <2>4. /\ st' = [st EXCEPT !.lines = Insert([q EXCEPT ![i] = x], i, q[i] - x),
                              !.cursor_y = y + 1, !.cursor_x = 0, !.modified = TRUE]
          /\ UNCHANGED file
      BY <1>5, <1>p, <1>q DEF Editor!newline, Editor!Line
    <2>5. st' = [st EXCEPT !.lines = m, !.cursor_x = z, !.cursor_y = b, !.modified = yes]
      BY <2>1, <2>2, <2>3, <2>4, <1>y, <1>z
    <2>6. b < Len(m) /\ m[b + 1] \in Nat /\ z <= m[b + 1]
      <3>1. b < Len(m)
        BY <2>1, <2>2, <2>3, <1>q
      <3>2. b + 1 \in 1..Len(m)
        BY <3>1, LineTyped
      <3>3. m[b + 1] \in Nat
        BY <3>2, LineTyped
      <3> QED BY <3>1, <3>3, <1>z
    <2> QED BY <1>m, <2>4, <2>5, <2>6
  <1>6. CASE Editor!save
    <2>1. CASE UNCHANGED <<st, file>>
      BY <2>1, <1>1
    <2>2. CASE /\ st.mode = "edit"
               /\ file' = [file EXCEPT ![st.filename] = st.lines]
               /\ st' = [st EXCEPT !.modified = FALSE, !.failed = FALSE]
      <3>1. /\ st' \in EditorType /\ st'.lines = st.lines /\ st'.cursor_x = st.cursor_x
            /\ st'.cursor_y = st.cursor_y /\ st'.mode = st.mode /\ st'.filename = st.filename
        <4>1. st' = [st EXCEPT !.modified = no, !.failed = no]
          BY <2>2, <1>f
        <4> QED BY <4>1, <1>t DEF EditorType
      <3>2. PICK t \in Texts \ {NoText} : t = st.filename
        BY <2>2, <1>t DEF EditorDisk, EditorType
      <3>3. file' = [file EXCEPT ![t] = q]
        BY <2>2, <3>2, <1>q
      <3>4. file' \in [Texts \ {NoText} -> Written \cup {Missing}] /\ file'[t] = q
        BY <3>3, <1>t
      <3>5. q # Missing
        BY AppsAssumption DEF Written
      <3> QED BY <2>2, <3>1, <3>2, <3>4, <3>5, <1>q, <1>t
              DEF EditorCursor, EditorDisk, Editor!Saved, Editor!Editing
    <2>3. CASE /\ st.mode = "edit"
               /\ file' = [file EXCEPT ![st.filename] = empty]
               /\ st' = [st EXCEPT !.failed = yes]
      <3>1. /\ st' \in EditorType /\ st'.lines = st.lines /\ st'.cursor_x = st.cursor_x
            /\ st'.cursor_y = st.cursor_y /\ st'.mode = st.mode /\ st'.filename = st.filename
            /\ st'.failed
        BY <2>3, <1>t, <1>y DEF EditorType
      <3>2. file' \in [Texts \ {NoText} -> Written \cup {Missing}]
        BY <2>3, <1>t
      <3> QED BY <3>1, <3>2, <1>t DEF EditorCursor, EditorDisk, Editor!Saved
    <2> QED BY <1>6, <2>1, <2>2, <2>3, <1>e, <1>y DEF Editor!save, Editor!Editing, Editor!Empty
  <1>7. CASE Editor!load
    <2>1. CASE UNCHANGED <<st, file>>
      BY <2>1, <1>1
    <2>2. CASE /\ st.filename \in DOMAIN file /\ UNCHANGED file
               /\ st' = [st EXCEPT !.lines = IF file[st.filename] = Missing THEN <<0>>
                                             ELSE file[st.filename],
                                   !.cursor_x = 0, !.cursor_y = 0, !.mode = "edit", !.failed = FALSE]
      <3>1. PICK t \in Texts \ {NoText} : t = st.filename
        BY <2>2, <1>t
      <3>2. PICK l \in Written : l = IF file[t] = Missing THEN <<0>> ELSE file[t]
        BY <1>t, <1>e
      <3>3. st' = [st EXCEPT !.lines = l, !.cursor_x = z, !.cursor_y = z, !.mode = "edit", !.failed = no]
        BY <2>2, <3>1, <3>2, <1>z, <1>f
      <3>4. /\ st' \in EditorType /\ st'.lines = l /\ st'.cursor_x = 0 /\ st'.cursor_y = 0
            /\ st'.filename = t
        BY <3>1, <3>3, <1>t, <1>z DEF EditorType
      <3>5. 0 < Len(l) /\ l[1] \in Nat
        BY DEF Written
      <3> QED BY <2>2, <3>1, <3>2, <3>4, <3>5, <1>t
              DEF EditorCursor, EditorDisk, Editor!Saved, Editor!Editing, Editor!Empty
    <2> QED BY <1>7, <2>1, <2>2 DEF Editor!load, Editor!Empty
  <1>8. CASE Editor!NameKey
    <2>1. PICK t \in Texts : st' = [st EXCEPT !.filename = t]
      BY <1>8, <1>t, <1>n DEF Editor!NameKey
    <2>2. UNCHANGED file /\ st.mode = "input_name"
      BY <1>8 DEF Editor!NameKey
    <2>3. /\ st' \in EditorType /\ st'.lines = st.lines /\ st'.cursor_x = st.cursor_x
          /\ st'.cursor_y = st.cursor_y /\ st'.mode = st.mode
      BY <2>1, <1>t DEF EditorType
    <2> QED BY <2>2, <2>3, <1>t DEF EditorCursor, EditorDisk, Editor!Saved, Editor!Editing
  <1>9. CASE Editor!KeyArrow
    <2>1. PICK a, b, d :
             /\ st' = [st EXCEPT !.cursor_x = a, !.cursor_y = b, !.scroll = d]
             /\ \/ a = Editor!StepBack(x) /\ b = y /\ d = c
                \/ a = Editor!Least(q[i], x + 1) /\ b = y /\ d = c
                \/ /\ b = Editor!StepBack(y) /\ d = IF b < c THEN c - 1 ELSE c
                   /\ a = IF y > 0 THEN Editor!Least(x, q[b + 1]) ELSE x
                \/ /\ b = Editor!Least(y + 1, Len(q) - 1) /\ d = IF b >= c + Rows THEN c + 1 ELSE c
                   /\ a = IF b # y THEN Editor!Least(x, q[b + 1]) ELSE x
      <3>1. CASE st' = [st EXCEPT !.cursor_x = Editor!StepBack(@)]
        <4>1. PICK a : a = Editor!StepBack(x)
          OBVIOUS
        <4>2. st' = [st EXCEPT !.cursor_x = a, !.cursor_y = y, !.scroll = c]
          BY <3>1, <4>1, <1>q, <1>t DEF EditorType
        <4> QED BY <4>1, <4>2
      <3>2. CASE st' = [st EXCEPT !.cursor_x = Editor!Least(q[i], @ + 1)]
        <4>1. PICK a : a = Editor!Least(q[i], x + 1)
          OBVIOUS
        <4>2. st' = [st EXCEPT !.cursor_x = a, !.cursor_y = y, !.scroll = c]
          BY <3>2, <4>1, <1>q, <1>t DEF EditorType
        <4> QED BY <4>1, <4>2
      <3>3. ASSUME NEW b, b = Editor!StepBack(y),
                   st' = [st EXCEPT !.cursor_y = b,
                       !.cursor_x = IF y > 0 THEN Editor!Least(@, q[b + 1]) ELSE @,
                       !.scroll = IF b < @ THEN @ - 1 ELSE @]
            PROVE  \E a, d : /\ st' = [st EXCEPT !.cursor_x = a, !.cursor_y = b, !.scroll = d]
                             /\ d = IF b < c THEN c - 1 ELSE c
                             /\ a = IF y > 0 THEN Editor!Least(x, q[b + 1]) ELSE x
        <4>1. PICK a, d : /\ d = IF b < c THEN c - 1 ELSE c
                          /\ a = IF y > 0 THEN Editor!Least(x, q[b + 1]) ELSE x
          OBVIOUS
        <4>2. st' = [st EXCEPT !.cursor_x = a, !.cursor_y = b, !.scroll = d]
          BY <3>3, <4>1, <1>q, <1>t DEF EditorType
        <4> QED BY <4>1, <4>2
      <3>4. ASSUME NEW b, b = Editor!Least(y + 1, Len(q) - 1),
                   st' = [st EXCEPT !.cursor_y = b,
                       !.cursor_x = IF b # y THEN Editor!Least(@, q[b + 1]) ELSE @,
                       !.scroll = IF b >= @ + Rows THEN @ + 1 ELSE @]
            PROVE  \E a, d : /\ st' = [st EXCEPT !.cursor_x = a, !.cursor_y = b, !.scroll = d]
                             /\ d = IF b >= c + Rows THEN c + 1 ELSE c
                             /\ a = IF b # y THEN Editor!Least(x, q[b + 1]) ELSE x
        <4>1. PICK a, d : /\ d = IF b >= c + Rows THEN c + 1 ELSE c
                          /\ a = IF b # y THEN Editor!Least(x, q[b + 1]) ELSE x
          OBVIOUS
        <4>2. st' = [st EXCEPT !.cursor_x = a, !.cursor_y = b, !.scroll = d]
          BY <3>4, <4>1, <1>q, <1>t DEF EditorType
        <4> QED BY <4>1, <4>2
      <3>5. st.lines = q /\ st.cursor_x = x /\ st.cursor_y = y /\ Editor!Line(st) = q[i]
        BY <1>q DEF Editor!Line
      <3>6. \/ st' = [st EXCEPT !.cursor_x = Editor!StepBack(@)]
            \/ st' = [st EXCEPT !.cursor_x = Editor!Least(q[i], @ + 1)]
            \/ \E b : /\ b = Editor!StepBack(y)
                      /\ st' = [st EXCEPT !.cursor_y = b,
                                  !.cursor_x = IF y > 0 THEN Editor!Least(@, q[b + 1]) ELSE @,
                                  !.scroll = IF b < @ THEN @ - 1 ELSE @]
            \/ \E b : /\ b = Editor!Least(y + 1, Len(q) - 1)
                      /\ st' = [st EXCEPT !.cursor_y = b,
                                  !.cursor_x = IF b # y THEN Editor!Least(@, q[b + 1]) ELSE @,
                                  !.scroll = IF b >= @ + Rows THEN @ + 1 ELSE @]
        BY <1>9, <3>5, Zenon DEF Editor!KeyArrow
      <3>7. CASE \E b : /\ b = Editor!StepBack(y)
                        /\ st' = [st EXCEPT !.cursor_y = b,
                                  !.cursor_x = IF y > 0 THEN Editor!Least(@, q[b + 1]) ELSE @,
                                  !.scroll = IF b < @ THEN @ - 1 ELSE @]
        <4>1. PICK b : /\ b = Editor!StepBack(y)
                       /\ st' = [st EXCEPT !.cursor_y = b,
                                  !.cursor_x = IF y > 0 THEN Editor!Least(@, q[b + 1]) ELSE @,
                                  !.scroll = IF b < @ THEN @ - 1 ELSE @]
          BY <3>7, Zenon
        <4>2. PICK a, d : /\ st' = [st EXCEPT !.cursor_x = a, !.cursor_y = b, !.scroll = d]
                          /\ d = IF b < c THEN c - 1 ELSE c
                          /\ a = IF y > 0 THEN Editor!Least(x, q[b + 1]) ELSE x
          BY <3>3, <4>1, Zenon
        <4> QED BY <4>1, <4>2, Zenon
      <3>8. CASE \E b : /\ b = Editor!Least(y + 1, Len(q) - 1)
                        /\ st' = [st EXCEPT !.cursor_y = b,
                                  !.cursor_x = IF b # y THEN Editor!Least(@, q[b + 1]) ELSE @,
                                  !.scroll = IF b >= @ + Rows THEN @ + 1 ELSE @]
        BY <3>4, <3>8, Zenon
      <3> QED BY <3>1, <3>2, <3>6, <3>7, <3>8, Zenon
    <2>2. /\ b \in Nat /\ b < Len(q) /\ d \in Int
      <3>1. Rows \in Nat /\ x + 1 \in Nat /\ Len(q) - 1 \in Nat
        BY <1>q, AppListsAssumption
      <3>2. b \in Nat /\ b < Len(q)
        BY <2>1, <1>q DEF Editor!StepBack, Editor!Least
      <3>3. d \in Int
        BY <2>1, <3>1, <3>2
      <3> QED BY <3>2, <3>3
    <2>3. q[b + 1] \in Nat
      BY <2>2, <1>q
    <2>4. a \in Nat /\ a <= q[b + 1]
      <3>0. x \in Nat /\ x <= q[y + 1]
        BY <1>q
      <3>1. CASE a = Editor!StepBack(x) /\ b = y
        BY <2>3, <3>0, <3>1 DEF Editor!StepBack
      <3>2. CASE a = Editor!Least(q[i], x + 1) /\ b = y
        <4>1. q[b + 1] = q[i] /\ q[i] \in Nat /\ x + 1 \in Nat /\ x <= q[i]
          BY <3>2, <1>q
        <4> QED BY <3>2, <4>1 DEF Editor!Least
      <3>3. CASE b = y /\ a = x
        BY <3>3, <1>q
      <3>4. CASE a = Editor!Least(x, q[b + 1])
        BY <3>4, <2>3, <1>q DEF Editor!Least
      <3>5. y > 0 \/ Editor!StepBack(y) = y
        BY <1>q DEF Editor!StepBack
      <3> QED BY <2>1, <3>1, <3>2, <3>3, <3>4, <3>5
    <2>5. UNCHANGED file
      BY <1>9 DEF Editor!KeyArrow
    <2> QED BY <1>c, <2>1, <2>2, <2>4, <2>5
  <1>10. CASE Editor!HandleEsc
    <2>1. CASE st' = [st EXCEPT !.mode = "input_name", !.filename = NoText,
                                !.lines = empty, !.cursor_x = z, !.cursor_y = z]
      <3>1. /\ st' \in EditorType /\ st'.lines = <<0>> /\ st'.cursor_x = 0
            /\ st'.cursor_y = 0 /\ st'.mode = "input_name"
        BY <2>1, <1>t, <1>e, <1>z, <1>n DEF EditorType
      <3>2. UNCHANGED file
        BY <1>10 DEF Editor!HandleEsc
      <3> QED BY <3>1, <3>2, <1>t DEF EditorCursor, EditorDisk, Editor!Saved, Editor!Editing
    <2>2. CASE st.mode # "edit" /\ st' = [st EXCEPT !.filename = NoText]
      <3>1. /\ st' \in EditorType /\ st'.lines = st.lines /\ st'.cursor_x = st.cursor_x
            /\ st'.cursor_y = st.cursor_y /\ st'.mode = st.mode
        BY <2>2, <1>t, <1>n DEF EditorType
      <3>2. UNCHANGED file
        BY <1>10 DEF Editor!HandleEsc
      <3> QED BY <2>2, <3>1, <3>2, <1>t DEF EditorCursor, EditorDisk, Editor!Saved, Editor!Editing
    <2> QED BY <1>10, <2>1, <2>2, <1>n, <1>e, <1>z DEF Editor!HandleEsc, Editor!Empty, Editor!Editing
  <1>11. /\ Fresh(App, NoFile(App)) = Editor!Fresh /\ Fresh(App, file) = Editor!Fresh
         /\ HandleInput => Editor!HandleInput
         /\ HandleEsc => Editor!HandleEsc
         /\ App \notin Keepers /\ ~Work /\ App # "Timer" /\ App # "Settings" /\ App # "Firewall"
    BY DEF Fresh, HandleInput, HandleEsc, Work, Keepers
  <1>12. \/ UNCHANGED <<st, file>>
         \/ st' = Editor!Fresh /\ UNCHANGED file
         \/ Editor!HandleInput
         \/ Editor!HandleEsc
    BY <1>11, AppSteps, Zenon
  <1> HIDE DEF Inv
  <1> QED BY <1>1, <1>2, <1>3, <1>4, <1>5, <1>6, <1>7, <1>8, <1>9, <1>10, <1>12
          DEF Editor!HandleInput

-----------------------------------------------------------------------------
(* All list screens, the editor and the settings together *)

ListsInv ==
    /\ NotesInv /\ TodoInv /\ PasswordsInv /\ WakeOnLANInv /\ EditorInv /\ SettingsInv
    /\ FirewallInv /\ ProcKillInv /\ USBInv /\ NetMapperSeen

\* The shells begin with it.
LEMMA ListsInit == Init => ListsInv
  <1> SUFFICES ASSUME Init PROVE ListsInv
    OBVIOUS
  <1>r. Rows \in Nat \ {0}
    BY AppListsAssumption
  <1>z. PICK z \in Nat, one \in 1..3 : z = 0 /\ one = 1
    OBVIOUS
  <1>f. PICK no \in BOOLEAN : ~no
    OBVIOUS
  <1>i. file = NoFile(App) /\ st = Fresh(App, file)
    BY DEF Init
  <1>1. ASSUME App = "Notes" PROVE NotesInv
    <2>1. st = Notes!Fresh(<<>>) /\ file = <<>>
      BY <1>1, <1>i DEF Fresh, NoFile
    <2>2. NoText \in Texts /\ Notes!NoText = NoText
      BY AppListsAssumption DEF Notes!NoText, NoText
    <2>3. st = [notes |-> <<>>, mode |-> "list", selected |-> z, editing |-> NoText,
                title |-> NoText, stage |-> "title", scroll |-> z, opened |-> no]
      BY <2>1, <2>2, <1>z, <1>f DEF Notes!Fresh
    <2>4. st \in NotesType
      BY <2>2, <2>3 DEF NotesType
    <2>5. st.notes = <<>> /\ st.mode = "list" /\ st.selected = 0 /\ st.scroll = 0
      BY <2>3, <1>z
    <2> QED BY <2>1, <2>4, <2>5, <1>r DEF NotesInv, NotesCursor, NotesSeen, Notes!InBody, Notes!OnDisk
  <1>2. ASSUME App = "Todo" PROVE TodoInv
    <2>1. st = Todo!Fresh(<<>>) /\ file = <<>>
      BY <1>2, <1>i DEF Fresh, NoFile
    <2> QED BY <2>1, <1>r DEF Todo!Fresh, TodoInv
  <1>3. ASSUME App = "Passwords" PROVE PasswordsInv
    <2>1. st = Passwords!Fresh(<<>>) /\ file = <<>>
      BY <1>3, <1>i DEF Fresh, NoFile
    <2>2. NoText \in Texts /\ Passwords!NoText = NoText
      BY AppListsAssumption DEF Passwords!NoText, NoText
    <2>3. PICK blank \in [FieldNames -> Texts] : blank = Passwords!Blank
      BY <2>2, Zenon DEF Passwords!Blank, FieldNames
    <2>4. st = [data |-> <<>>, selected |-> z, mode |-> "list", scroll |-> z,
                inputs |-> blank, stage |-> one, show |-> no]
      BY <2>1, <2>3, <1>z, <1>f DEF Passwords!Fresh
    <2>5. st \in PasswordsType
      BY <2>4 DEF PasswordsType
    <2>6. st.data = <<>> /\ st.mode = "list" /\ st.selected = 0 /\ st.scroll = 0
      BY <2>4, <1>z
    <2> QED BY <2>1, <2>5, <2>6, <1>r DEF PasswordsInv
  <1>4. ASSUME App = "WakeOnLAN" PROVE WakeOnLANInv
    <2>1. st = WakeOnLAN!Fresh(<<>>) /\ file = <<>>
      BY <1>4, <1>i DEF Fresh, NoFile
    <2>2. NoText \in Texts /\ WakeOnLAN!NoText = NoText
      BY AppListsAssumption DEF WakeOnLAN!NoText, NoText
    <2>3. st = [devices |-> <<>>, selected |-> z, mode |-> "list", name_in |-> NoText,
                mac_in |-> NoText, stage |-> "name", status |-> NoText]
      BY <2>1, <2>2, <1>z DEF WakeOnLAN!Fresh
    <2>4. st \in WakeOnLANType
      BY <2>2, <2>3 DEF WakeOnLANType
    <2>5. st.devices = <<>> /\ st.selected = 0
      BY <2>3, <1>z
    <2> QED BY <2>1, <2>4, <2>5 DEF WakeOnLANInv
  <1>5. ASSUME App = "Editor" PROVE EditorInv
    <2>1. st = Editor!Fresh /\ file = [t \in Texts \ {NoText} |-> Missing]
      BY <1>5, <1>i DEF Fresh, NoFile
    <2>2. NoText \in Texts /\ Editor!NoText = NoText
      BY AppListsAssumption DEF Editor!NoText, NoText
    <2>3. PICK empty \in Written : empty = <<0>>
      <3>1. <<z>> \in Seq(Nat) /\ <<z>> # <<>>
        OBVIOUS
      <3>2. <<z>> = <<0>>
        BY <1>z
      <3> QED BY <3>1, <3>2 DEF Written
    <2>4. st = [lines |-> empty, cursor_x |-> z, cursor_y |-> z, scroll |-> z,
                filename |-> NoText, mode |-> "input_name", modified |-> no, failed |-> no]
      BY <2>1, <2>2, <2>3, <1>z, <1>f DEF Editor!Fresh, Editor!Empty
    <2>5. st \in EditorType
      BY <2>2, <2>4 DEF EditorType
    <2>6. st.lines = <<0>> /\ st.cursor_x = 0 /\ st.cursor_y = 0 /\ st.mode = "input_name"
      BY <2>3, <2>4, <1>z
    <2>7. file \in [Texts \ {NoText} -> Written \cup {Missing}]
      BY <2>1
    <2> QED BY <2>5, <2>6, <2>7
            DEF EditorInv, EditorCursor, EditorDisk, Editor!Saved, Editor!Editing
  <1>6. ASSUME App = "Settings" PROVE SettingsInv
    <2>1. st = Settings!Fresh(<<>>) /\ file = <<>>
      BY <1>6, <1>i DEF Fresh, NoFile
    <2> QED BY <2>1 DEF Settings!Fresh, SettingsInv, Settings!OnDisk
  <1>7. ASSUME App = "Firewall" PROVE FirewallInv
    <2>1. st = Firewall!Fresh
      BY <1>7, <1>i DEF Fresh
    <2>0. PICK t : t = Firewall!NoText
      OBVIOUS
    <2>2. PICK b \in BOOLEAN : b /\ t = Firewall!NoText
      BY <2>0
    <2>3. st = [rules |-> <<>>, selected |-> 0, scroll |-> 0, status |-> t, mode |-> "list",
                stage |-> "port", port_in |-> t, action |-> "ACCEPT", drift |-> b]
      BY <2>1, <2>2 DEF Firewall!Fresh
    <2> QED BY <2>2, <2>3, <1>r DEF FirewallInv, InWindow, Firewall!Current
  <1>8. ASSUME App = "ProcKill" PROVE ProcKillInv
    BY <1>8, <1>i, <1>r DEF Fresh, ProcKill!Fresh, ProcKillInv, InWindow
  <1>9. ASSUME App = "USB" PROVE USBInv
    BY <1>9, <1>i, <1>r DEF Fresh, USB!Fresh, USBInv, InWindow
  <1>10. ASSUME App = "NetMapper" PROVE NetMapperSeen
    BY <1>10, <1>i, <1>r DEF Fresh, NetMapper!Fresh, NetMapperSeen, NetMapperFields, InWindow
  <1> QED
    BY <1>1, <1>2, <1>3, <1>4, <1>5, <1>6, <1>7, <1>8, <1>9, <1>10
    DEF ListsInv, NotesInv, TodoInv, PasswordsInv, WakeOnLANInv, EditorInv, SettingsInv,
        FirewallInv, ProcKillInv, USBInv, NetMapperSeen

\* And every step keeps it.
LEMMA ListsKept == ListsInv /\ [Next]_vars => ListsInv'
  BY NotesKept, TodoKept, PasswordsKept, WakeOnLANKept, EditorKept, SettingsKept, FirewallKept,
     ProcKillKept, USBKept, NetMapperWindow, Zenon DEF ListsInv

\* In every state that can be reached the selection of a list screen is a row of
\* its window, or above it after a deletion (of Notes until a note has been
\* opened, of Wake-on-LAN never said), and no key of Notes, Passwords,
\* Wake-on-LAN or the editor indexes outside its list or text (SelectionSound).
THEOREM SelectionStaysSound == Spec => []SelectionSound
  <1>1. ListsInv => SelectionSound
    <2> SUFFICES ASSUME ListsInv PROVE SelectionSound
      OBVIOUS
    <2>0. App = "Notes" => Notes!SelectionSeen
      BY AppListsAssumption DEF ListsInv, NotesInv, NotesType, NotesSeen, Notes!SelectionSeen, Notes!Shown, Notes!Window
    <2>1. App = "Notes" => ~Notes!InputRaises
      BY DEF ListsInv, NotesInv, NotesType, NotesCursor, Notes!InBody, Notes!InputRaises,
             Notes!HasIndex, Notes!Index
    <2>2. App = "Passwords" => ~Passwords!InputRaises /\ Passwords!SelectionSeen
      <3> SUFFICES ASSUME App = "Passwords" PROVE ~Passwords!InputRaises /\ Passwords!SelectionSeen
        OBVIOUS
      <3>1. /\ st.selected \in Nat /\ st.scroll \in Nat /\ Len(st.data) \in Nat /\ st.data \in Seq(PasswordEntry)
            /\ st.selected < Len(st.data) \/ st.selected = 0
            /\ st.selected < st.scroll + Rows
        BY DEF ListsInv, PasswordsInv, PasswordsType
      <3>2. ~Passwords!InputRaises
        BY <3>1 DEF Passwords!InputRaises, Passwords!HasIndex, Passwords!Index
      <3>3. Passwords!SelectionSeen
        BY <3>1, AppListsAssumption DEF Passwords!SelectionSeen, Passwords!Shown, Passwords!Window
      <3> QED BY <3>2, <3>3
    <2>3. App = "WakeOnLAN" => ~WakeOnLAN!InputRaises
      <3> SUFFICES ASSUME App = "WakeOnLAN", st.devices # <<>>
                   PROVE  WakeOnLAN!HasIndex(st.devices, st.selected)
        BY DEF WakeOnLAN!InputRaises
      <3>1. /\ st.selected \in Int /\ st.devices \in Seq(Device)
            /\ -1 <= st.selected /\ (st.selected < Len(st.devices) \/ st.selected = 0)
        BY DEF ListsInv, WakeOnLANInv, WakeOnLANType
      <3>2. Len(st.devices) \in Nat \ {0}
        BY <3>1
      <3> QED BY <3>1, <3>2 DEF WakeOnLAN!HasIndex, WakeOnLAN!Index
    <2>4. App = "Editor" => ~Editor!InputRaises
      <3> SUFFICES ASSUME App = "Editor" PROVE ~Editor!InputRaises
        OBVIOUS
      <3>1. st \in EditorType /\ st.cursor_y < Len(st.lines) /\ st.cursor_x <= st.lines[st.cursor_y + 1]
        BY DEF ListsInv, EditorInv, EditorCursor
      <3>2. st.cursor_y \in Nat /\ st.cursor_x \in Nat /\ st.lines \in Written
        BY <3>1 DEF EditorType
      <3>3. Len(st.lines) \in Nat /\ st.lines[st.cursor_y + 1] \in Nat
        BY <3>1, <3>2 DEF Written
      <3> QED BY <3>1, <3>2, <3>3 DEF Editor!InputRaises, Editor!Line
    <2>5. App = "Todo" => Todo!SelectionSeen
      BY AppListsAssumption DEF ListsInv, TodoInv, Todo!SelectionSeen, Todo!Shown, Todo!Window
    <2>6. App = "Firewall" => Firewall!SelectionSeen
      BY AppListsAssumption DEF ListsInv, FirewallInv, InWindow, Firewall!SelectionSeen, Firewall!Shown, Firewall!Window
    <2>7. App = "ProcKill" => ProcKill!SelectionSeen
      BY AppListsAssumption DEF ListsInv, ProcKillInv, InWindow, ProcKill!SelectionSeen, ProcKill!Shown, ProcKill!Window
    <2>8. App = "USB" => USB!SelectionSeen
      BY AppListsAssumption DEF ListsInv, USBInv, InWindow, USB!SelectionSeen, USB!Shown, USB!Window
    <2>9. App = "NetMapper" => NetMapper!SelectionSeen
      BY AppListsAssumption DEF ListsInv, NetMapperSeen, InWindow, NetMapper!SelectionSeen, NetMapper!Shown, NetMapper!Window
    <2> QED BY <2>0, <2>1, <2>2, <2>3, <2>4, <2>5, <2>6, <2>7, <2>8, <2>9 DEF SelectionSound, InputRaises
  <1> QED BY <1>1, ListsInit, ListsKept, PTL DEF Spec

\* Whenever the loop of a shell runs, the file has the entries of the list
\* screens and the settings in use, but for a note that is being edited, and
\* the editor's unmarked text is the file's, unless the last write of it has
\* failed (EntriesOnDisk).
THEOREM EntriesStayOnDisk == Spec => []EntriesOnDisk
  <1>1. ListsInv => EntriesOnDisk
    <2> SUFFICES ASSUME ListsInv, InLoop, file # Broken PROVE EntriesOnDisk
      BY DEF EntriesOnDisk
    <2>1. alive /\ file \notin {Torn, Broken}
      BY DEF InLoop
    <2>2. /\ App = "Notes" => Notes!OnDisk
          /\ App = "Settings" => Settings!OnDisk
          /\ App = "Editor" => Editor!Saved
      BY <2>1 DEF ListsInv, NotesInv, SettingsInv, EditorInv, EditorDisk
    <2>3. App = "Todo" => Todo!OnDisk
      BY <2>1 DEF ListsInv, TodoInv, Todo!OnDisk
    <2>4. App = "WakeOnLAN" => WakeOnLAN!OnDisk
      BY <2>1 DEF ListsInv, WakeOnLANInv, WakeOnLAN!OnDisk
    <2>5. App = "Passwords" => Passwords!OnDisk
      <3> SUFFICES ASSUME App = "Passwords" PROVE Passwords!OnDisk
        OBVIOUS
      <3>1. file = st.data /\ st.data \in Seq(PasswordEntry)
        BY <2>1 DEF ListsInv, PasswordsInv, PasswordsType
      <3>2. \A i \in DOMAIN st.data : st.data[i] \in PasswordEntry
        BY <3>1
      <3>3. Passwords!NoText = NoText
        BY DEF Passwords!NoText, NoText
      <3> QED BY <3>1, <3>2, <3>3 DEF Passwords!OnDisk, PasswordEntry
    <2> QED BY <2>2, <2>3, <2>4, <2>5 DEF EntriesOnDisk
  <1> QED BY <1>1, ListsInit, ListsKept, PTL DEF Spec

-----------------------------------------------------------------------------
(* Threads that are about to drop what they added *)

Held(f, P) == Cardinality({k \in Jobs : f[k] \in P})

\* One thread goes to place w: how many are at the places of P.
LEMMA HeldMoves ==
    ASSUME NEW f, f \in [Jobs -> Places \cup {Idle}], NEW P, NEW j \in Jobs, NEW w
    PROVE  /\ Held(f, P) \in Nat /\ Held([f EXCEPT ![j] = w], P) \in Nat
           /\ (f[j] \in P <=> w \in P) => Held([f EXCEPT ![j] = w], P) = Held(f, P)
           /\ f[j] \notin P /\ w \in P => Held([f EXCEPT ![j] = w], P) = Held(f, P) + 1
           /\ f[j] \in P /\ w \notin P => Held([f EXCEPT ![j] = w], P) = Held(f, P) - 1
  <1> DEFINE A == {k \in Jobs : f[k] \in P}
             g == [f EXCEPT ![j] = w]
             B == {k \in Jobs : g[k] \in P}
  <1>1. IsFiniteSet(A) /\ IsFiniteSet(B)
    <2>1. IsFiniteSet(Jobs) /\ A \subseteq Jobs /\ B \subseteq Jobs
      BY AppListsAssumption
    <2> QED BY <2>1, FS_Subset
  <1>2. Cardinality(A) \in Nat /\ Cardinality(B) \in Nat
    BY <1>1, FS_CardinalityType
  <1>3. g[j] = w /\ \A k \in Jobs : k # j => g[k] = f[k]
    OBVIOUS
  <1>4. (f[j] \in P <=> w \in P) => B = A
    BY <1>3
  <1>5. f[j] \notin P /\ w \in P => B = A \cup {j} /\ j \notin A
    BY <1>3
  <1>6. f[j] \in P /\ w \notin P => B = A \ {j} /\ j \in A
    BY <1>3
  <1>7. j \notin A => Cardinality(A \cup {j}) = Cardinality(A) + 1
    BY <1>1, FS_AddElement
  <1>8. j \in A => Cardinality(A \ {j}) = Cardinality(A) - 1
    BY <1>1, FS_RemoveElement
  <1>9. Held(f, P) = Cardinality(A) /\ Held([f EXCEPT ![j] = w], P) = Cardinality(B)
    BY DEF Held
  <1> HIDE DEF A, B, g
  <1> QED BY <1>2, <1>4, <1>5, <1>6, <1>7, <1>8, <1>9

\* Before any thread is started none is anywhere.
LEMMA HeldNone == ASSUME NEW P, Idle \notin P PROVE Held(NoJobs, P) = 0
  <1>1. {k \in Jobs : NoJobs[k] \in P} = {}
    BY DEF NoJobs
  <1> QED BY <1>1, FS_EmptySet DEF Held

-----------------------------------------------------------------------------
(* Network monitor *)

NetMonInv == App = "NetMon" =>
    /\ DOMAIN st = {"running", "status", "history", "jobs"}
    /\ st.history \in Nat /\ st.jobs \in [Jobs -> Places \cup {Idle}]
    /\ st.history <= MaxHistory + Held(st.jobs, {"full"})

\* Every step keeps the samples within the limit.
LEMMA NetMonKept == NetMonInv /\ [Next]_vars => NetMonInv'
  <1> DEFINE Shape == DOMAIN st = {"running", "status", "history", "jobs"}
             Typed == st.history \in Nat /\ st.jobs \in [Jobs -> Places \cup {Idle}]
             Few == st.history <= MaxHistory + Held(st.jobs, {"full"})
  <1> SUFFICES ASSUME Shape, Typed, Few, [Next]_vars, App = "NetMon" PROVE Shape' /\ Typed' /\ Few'
    BY AppSteps DEF NetMonInv, App
  <1>t. Typed /\ Few
    OBVIOUS
  <1>p. Idle \notin Places /\ {"new", "test", "full"} \subseteq Places
    BY AppListsAssumption DEF Places
  <1>m. MaxHistory \in Nat
    BY AppsAssumption
  <1>j. /\ NetMon!CanStart(st) <=> CanStart(st)
        /\ NetMon!Start(st, "new") = Start(st, "new")
        /\ NetMon!Running(st) = {j \in Jobs : st.jobs[j] # Idle}
        /\ NetMon!NoJobs = NoJobs
    BY Zenon DEF NetMon!CanStart, CanStart, NetMon!Start, Start, NetMon!Running, Running, NetMon!NoJobs, NoJobs
  <1> HIDE DEF Typed, Few
  \* One thread moves, and the samples with it.
  <1>s. ASSUME NEW j \in Jobs, NEW w \in Places \cup {Idle}, NEW h \in Nat,
               st'.jobs = [st.jobs EXCEPT ![j] = w], st'.history = h,
               \/ h = st.history /\ st.jobs[j] # "full" /\ w # "full"
               \/ h = st.history + 1 /\ st.jobs[j] # "full" /\ w = "full"
               \/ h = NetMon!Trim(st.history) /\ st.jobs[j] = "full" /\ w # "full"
        PROVE  Typed' /\ Few'
    <2>1. PICK f : f = st.jobs
      OBVIOUS
    <2>2. f \in [Jobs -> Places \cup {Idle}]
      BY <1>t, <2>1 DEF Typed
    <2>3. Typed'
      BY <1>s, <2>1, <2>2 DEF Typed
    <2>4. PICK n \in Nat : n = Held(f, {"full"})
      BY <2>2, HeldMoves, Zenon
    <2>5. PICK m : m = Held([f EXCEPT ![j] = w], {"full"})
      OBVIOUS
    <2>6. /\ m \in Nat
          /\ (f[j] \in {"full"} <=> w \in {"full"}) => m = n
          /\ f[j] \notin {"full"} /\ w \in {"full"} => m = n + 1
          /\ f[j] \in {"full"} /\ w \notin {"full"} => m = n - 1
      <3>1. PICK P : P = {"full"}
        OBVIOUS
      <3>2. /\ Held(f, P) \in Nat /\ Held([f EXCEPT ![j] = w], P) \in Nat
            /\ (f[j] \in P <=> w \in P) => Held([f EXCEPT ![j] = w], P) = Held(f, P)
            /\ f[j] \notin P /\ w \in P => Held([f EXCEPT ![j] = w], P) = Held(f, P) + 1
            /\ f[j] \in P /\ w \notin P => Held([f EXCEPT ![j] = w], P) = Held(f, P) - 1
        BY <2>2, HeldMoves, Zenon
      <3>3. m = Held([f EXCEPT ![j] = w], P) /\ n = Held(f, P)
        BY <2>4, <2>5, <3>1
      <3> QED BY <3>1, <3>2, <3>3, Zenon
    <2>7. st.history <= MaxHistory + n /\ st.history \in Nat
      BY <1>t, <2>1, <2>4 DEF Few, Typed
    <2>8. h <= MaxHistory + m
      BY <1>s, <1>m, <2>1, <2>6, <2>7 DEF NetMon!Trim
    <2> QED BY <1>s, <2>1, <2>3, <2>5, <2>8 DEF Few
  <1>1. CASE UNCHANGED st
    BY <1>1, <1>t DEF Typed, Few
  <1>2. CASE st' = NetMon!Fresh
    <2>1. PICK z \in Nat : z = 0 /\ \E no, t : st' = [running |-> no, status |-> t, history |-> z, jobs |-> NoJobs]
      BY <1>2, <1>j DEF NetMon!Fresh
    <2>2. Shape' /\ st'.history = 0 /\ st'.jobs = NoJobs
      BY <2>1
    <2>3. NoJobs \in [Jobs -> Places \cup {Idle}]
      BY DEF NoJobs
    <2>4. Held(NoJobs, {"full"}) = 0
      BY <1>p, HeldNone
    <2> QED BY <1>m, <2>2, <2>3, <2>4 DEF Typed, Few
  <1>3. CASE NetMon!start
    <2>1. CanStart(st) /\ st' = [st EXCEPT !.jobs = Start(st, "new")]
      BY <1>3, <1>j, Zenon DEF NetMon!start
    <2>2. PICK j \in Jobs : st.jobs[j] = Idle /\ Start(st, "new") = [st.jobs EXCEPT ![j] = "new"]
      <3>1. PICK r : r = st
        OBVIOUS
      <3> QED BY <3>1, <2>1, ThreadStarts
    <2>3. Shape' /\ st'.history = st.history /\ st'.jobs = [st.jobs EXCEPT ![j] = "new"]
      BY <2>1, <2>2
    <2>4. "new" \in Places \cup {Idle} /\ st.history \in Nat /\ st.jobs[j] # "full"
      BY <1>p, <1>t, <2>2 DEF Typed
    <2> QED BY <1>s, <2>3, <2>4
  <1>4. CASE NetMon!stop
    <2>1. Shape' /\ st'.history = st.history /\ st'.jobs = st.jobs
      BY <1>4 DEF NetMon!stop
    <2> QED BY <1>t, <2>1 DEF Typed, Few
  <1>5. CASE NetMon!Work
    <2>1. PICK j \in Jobs : NetMon!monitor(j)
      BY <1>5, <1>j DEF NetMon!Work
    <2>h. st.history \in Nat /\ NetMon!Trim(st.history) \in Nat /\ st.history + 1 \in Nat
      BY <1>t, <1>m DEF Typed, NetMon!Trim
    <2>2. CASE /\ st.jobs[j] = "new"
               /\ st' = [st EXCEPT !.running = TRUE, !.status = "Monitoring", !.jobs[j] = "test"]
      <3>1. Shape' /\ st'.history = st.history /\ st'.jobs = [st.jobs EXCEPT ![j] = "test"]
        BY <2>2
      <3> QED BY <1>s, <1>p, <2>2, <2>h, <3>1
    <2>3. CASE st.jobs[j] = "test" /\ st' = [st EXCEPT !.history = @ + 1, !.jobs[j] = "full"]
      <3>1. Shape' /\ st'.history = st.history + 1 /\ st'.jobs = [st.jobs EXCEPT ![j] = "full"]
        BY <2>3
      <3> QED BY <1>s, <1>p, <2>3, <2>h, <3>1
    <2>4. CASE st.jobs[j] = "test" /\ st' = [st EXCEPT !.jobs[j] = Idle]
      <3>1. Shape' /\ st'.history = st.history /\ st'.jobs = [st.jobs EXCEPT ![j] = Idle]
        BY <2>4
      <3> QED BY <1>s, <1>p, <2>4, <2>h, <3>1
    <2>5. CASE st.jobs[j] = "full" /\ st' = [st EXCEPT !.history = NetMon!Trim(@), !.jobs[j] = "test"]
      <3>1. Shape' /\ st'.history = NetMon!Trim(st.history) /\ st'.jobs = [st.jobs EXCEPT ![j] = "test"]
        BY <2>5
      <3> QED BY <1>s, <1>p, <2>5, <2>h, <3>1
    <2> QED BY <2>1, <2>2, <2>3, <2>4, <2>5, Zenon DEF NetMon!monitor
  <1>6. /\ Fresh(App, NoFile(App)) = NetMon!Fresh /\ Fresh(App, file) = NetMon!Fresh
        /\ HandleInput => NetMon!start \/ NetMon!stop
        /\ Work => NetMon!Work
        /\ ~HandleEsc
        /\ App \notin Keepers /\ App # "Timer" /\ App # "Settings" /\ App # "Firewall"
    BY DEF Fresh, HandleInput, HandleEsc, Work, Keepers, NetMon!HandleInput
  <1>7. UNCHANGED st \/ st' = NetMon!Fresh \/ NetMon!start \/ NetMon!stop \/ NetMon!Work
    BY <1>6, AppSteps, Zenon
  <1> HIDE DEF Shape
  <1> QED BY <1>1, <1>2, <1>3, <1>4, <1>5, <1>7

-----------------------------------------------------------------------------
(* Packet analyzer *)

Dropping == {"count", "pop"}

PacketsInv == App = "Packets" =>
    /\ DOMAIN st = {"running", "status", "packets", "jobs"}
    /\ st.packets \in Nat /\ st.jobs \in [Jobs -> Places \cup {Idle}]
    /\ st.packets <= MaxPackets + Held(st.jobs, Dropping)

\* Every step keeps the packets within the limit, however many threads add them.
LEMMA PacketsKept == PacketsInv /\ [Next]_vars => PacketsInv'
  <1> DEFINE Shape == DOMAIN st = {"running", "status", "packets", "jobs"}
             Typed == st.packets \in Nat /\ st.jobs \in [Jobs -> Places \cup {Idle}]
             Few == st.packets <= MaxPackets + Held(st.jobs, Dropping)
  <1> SUFFICES ASSUME Shape, Typed, Few, [Next]_vars, App = "Packets" PROVE Shape' /\ Typed' /\ Few'
    BY AppSteps DEF PacketsInv, App
  <1>t. Typed /\ Few
    OBVIOUS
  <1>p. Idle \notin Places /\ {"open", "test", "count", "pop"} \subseteq Places
    BY AppListsAssumption DEF Places
  <1>q. /\ {"count", "pop"} \subseteq Dropping /\ Idle \notin Dropping
        /\ "open" \notin Dropping /\ "test" \notin Dropping
    BY <1>p DEF Dropping
  <1>m. MaxPackets \in Nat
    BY AppsAssumption
  <1>j. /\ Packets!CanStart(st) <=> CanStart(st)
        /\ Packets!Start(st, "open") = Start(st, "open")
        /\ Packets!Running(st) = {j \in Jobs : st.jobs[j] # Idle}
        /\ Packets!NoJobs = NoJobs
    BY Zenon DEF Packets!CanStart, CanStart, Packets!Start, Start, Packets!Running, Running,
                 Packets!NoJobs, NoJobs
  <1> HIDE DEF Typed, Few
  \* One thread moves, and the packets with it.
  <1>s. ASSUME NEW j \in Jobs, NEW w \in Places \cup {Idle}, NEW h \in Nat,
               st'.jobs = [st.jobs EXCEPT ![j] = w], st'.packets = h,
               \/ h = st.packets /\ (st.jobs[j] \in Dropping => w \in Dropping \/ h <= MaxPackets)
               \/ h = st.packets + 1 /\ st.jobs[j] \notin Dropping /\ w \in Dropping
               \/ h = st.packets - 1
        PROVE  Typed' /\ Few'
    <2>1. PICK f : f = st.jobs
      OBVIOUS
    <2>2. f \in [Jobs -> Places \cup {Idle}]
      BY <1>t, <2>1 DEF Typed
    <2>3. Typed'
      BY <1>s, <2>1, <2>2 DEF Typed
    <2>4. PICK n, m : n = Held(f, Dropping) /\ m = Held([f EXCEPT ![j] = w], Dropping)
      OBVIOUS
    <2>5. PICK P : P = Dropping
      OBVIOUS
    <2>6. /\ Held(f, P) \in Nat /\ Held([f EXCEPT ![j] = w], P) \in Nat
          /\ (f[j] \in P <=> w \in P) => Held([f EXCEPT ![j] = w], P) = Held(f, P)
          /\ f[j] \notin P /\ w \in P => Held([f EXCEPT ![j] = w], P) = Held(f, P) + 1
          /\ f[j] \in P /\ w \notin P => Held([f EXCEPT ![j] = w], P) = Held(f, P) - 1
      BY <2>2, HeldMoves, Zenon
    <2>7. /\ n \in Nat /\ m \in Nat
          /\ (f[j] \in P <=> w \in P) => m = n
          /\ f[j] \notin P /\ w \in P => m = n + 1
          /\ f[j] \in P /\ w \notin P => m = n - 1
      BY <2>4, <2>5, <2>6, Zenon
    <2>8. st.packets <= MaxPackets + n /\ st.packets \in Nat
      BY <1>t, <2>1, <2>4 DEF Few, Typed
    <2>9. h <= MaxPackets + m
      BY <1>s, <1>m, <2>1, <2>5, <2>7, <2>8
    <2> QED BY <1>s, <2>1, <2>3, <2>4, <2>9 DEF Few
  <1>1. CASE UNCHANGED st
    BY <1>1, <1>t DEF Typed, Few
  <1>2. CASE st' = Packets!Fresh
    <2>1. PICK z \in Nat : z = 0 /\ \E no, t : st' = [running |-> no, status |-> t, packets |-> z, jobs |-> NoJobs]
      BY <1>2, <1>j DEF Packets!Fresh
    <2>2. Shape' /\ st'.packets = 0 /\ st'.jobs = NoJobs
      BY <2>1
    <2>3. NoJobs \in [Jobs -> Places \cup {Idle}]
      BY DEF NoJobs
    <2>4. Held(NoJobs, Dropping) = 0
      BY <1>q, HeldNone
    <2> QED BY <1>m, <2>2, <2>3, <2>4 DEF Typed, Few
  <1>3. CASE Packets!start
    <2>1. CanStart(st) /\ \E yes : st' = [st EXCEPT !.running = yes, !.status = "Capturing", !.jobs = Start(st, "open")]
      BY <1>3, <1>j, Zenon DEF Packets!start
    <2>2. PICK j \in Jobs : st.jobs[j] = Idle /\ Start(st, "open") = [st.jobs EXCEPT ![j] = "open"]
      <3>1. PICK r : r = st
        OBVIOUS
      <3> QED BY <3>1, <2>1, ThreadStarts
    <2>3. Shape' /\ st'.packets = st.packets /\ st'.jobs = [st.jobs EXCEPT ![j] = "open"]
      BY <2>1, <2>2
    <2>4. "open" \in Places \cup {Idle} /\ st.packets \in Nat /\ st.jobs[j] \notin Dropping
      BY <1>p, <1>q, <1>t, <2>2 DEF Typed
    <2> QED BY <1>s, <2>3, <2>4
  <1>4. CASE Packets!stop
    <2>1. Shape' /\ st'.packets = st.packets /\ st'.jobs = st.jobs
      BY <1>4 DEF Packets!stop
    <2> QED BY <1>t, <2>1 DEF Typed, Few
  <1>5. CASE Packets!clear
    <2>1. Shape' /\ st'.packets = 0 /\ st'.jobs = st.jobs
      BY <1>5 DEF Packets!clear
    <2>2. PICK f, n : f = st.jobs /\ n = Held(f, Dropping)
      OBVIOUS
    <2>3. n \in Nat
      <3>1. PICK j : j \in Jobs
        BY AppListsAssumption
      <3>2. f \in [Jobs -> Places \cup {Idle}]
        BY <1>t, <2>2 DEF Typed
      <3> QED BY <2>2, <3>1, <3>2, HeldMoves, Zenon
    <2>4. 0 <= MaxPackets + n
      BY <1>m, <2>3
    <2> QED BY <1>t, <2>1, <2>2, <2>4 DEF Typed, Few
  <1>6. CASE Packets!Work
    <2>1. PICK j \in Jobs : Packets!capture(j)
      BY <1>6, <1>j DEF Packets!Work
    <2>h. st.packets \in Nat
      BY <1>t DEF Typed
    <2>2. CASE \E no : st' = [st EXCEPT !.status = "Error", !.running = no, !.jobs[j] = Idle]
               /\ (st.jobs[j] \in Dropping => st.packets <= MaxPackets)
      <3>1. Shape' /\ st'.packets = st.packets /\ st'.jobs = [st.jobs EXCEPT ![j] = Idle]
        BY <2>2
      <3> QED BY <1>s, <1>p, <2>2, <2>h, <3>1
    <2>3. CASE st.jobs[j] \notin Dropping /\ st' = [st EXCEPT !.jobs[j] = "test"]
      <3>1. Shape' /\ st'.packets = st.packets /\ st'.jobs = [st.jobs EXCEPT ![j] = "test"]
        BY <2>3
      <3> QED BY <1>s, <1>p, <2>3, <2>h, <3>1
    <2>4. CASE st.jobs[j] \notin Dropping /\ st' = [st EXCEPT !.jobs[j] = Idle]
      <3>1. Shape' /\ st'.packets = st.packets /\ st'.jobs = [st.jobs EXCEPT ![j] = Idle]
        BY <2>4
      <3> QED BY <1>s, <1>p, <2>4, <2>h, <3>1
    <2>5. CASE st.jobs[j] \notin Dropping /\ st' = [st EXCEPT !.packets = @ + 1, !.jobs[j] = "count"]
      <3>1. Shape' /\ st'.packets = st.packets + 1 /\ st'.jobs = [st.jobs EXCEPT ![j] = "count"]
        BY <2>5
      <3>2. st.packets + 1 \in Nat
        BY <2>h
      <3> QED BY <1>s, <1>p, <1>q, <2>5, <3>1, <3>2
    <2>6. CASE st' = [st EXCEPT !.jobs[j] = IF st.packets > MaxPackets THEN "pop" ELSE "test"]
      <3>1. PICK w : w = IF st.packets > MaxPackets THEN "pop" ELSE "test"
        OBVIOUS
      <3>2. Shape' /\ st'.packets = st.packets /\ st'.jobs = [st.jobs EXCEPT ![j] = w]
        BY <2>6, <3>1
      <3>3. w \in Places /\ (w \in Dropping \/ st.packets <= MaxPackets)
        BY <3>1, <1>p, <1>q, <1>m, <2>h
      <3> QED BY <1>s, <2>h, <3>2, <3>3
    <2>7. CASE st.packets > 0 /\ st' = [st EXCEPT !.packets = @ - 1, !.jobs[j] = "test"]
      <3>1. Shape' /\ st'.packets = st.packets - 1 /\ st'.jobs = [st.jobs EXCEPT ![j] = "test"]
        BY <2>7
      <3>2. st.packets - 1 \in Nat
        BY <2>h, <2>7
      <3> QED BY <1>s, <1>p, <3>1, <3>2
    <2>8. CASE UNCHANGED st
      BY <2>8, <1>1
    <2>9. /\ st.jobs[j] \in {"open", "test"} => st.jobs[j] \notin Dropping
          /\ ~(st.packets > 0) => st.packets <= MaxPackets
      BY <2>h, <1>m DEF Dropping
    <2> QED BY <2>1, <2>2, <2>3, <2>4, <2>5, <2>6, <2>7, <2>8, <2>9 DEF Packets!capture
  <1>7. /\ Fresh(App, NoFile(App)) = Packets!Fresh /\ Fresh(App, file) = Packets!Fresh
        /\ HandleInput => Packets!start \/ Packets!stop \/ Packets!clear
        /\ Work => Packets!Work
        /\ ~HandleEsc
        /\ App \notin Keepers /\ App # "Timer" /\ App # "Settings" /\ App # "Firewall"
    BY DEF Fresh, HandleInput, HandleEsc, Work, Keepers, Packets!HandleInput
  <1>8. \/ UNCHANGED st \/ st' = Packets!Fresh
        \/ Packets!start \/ Packets!stop \/ Packets!clear \/ Packets!Work
    BY <1>7, AppSteps, Zenon
  <1> HIDE DEF Shape
  <1> QED BY <1>1, <1>2, <1>3, <1>4, <1>5, <1>6, <1>8

-----------------------------------------------------------------------------
(* Weather *)

NoThread == \A j \in Jobs : st.jobs[j] = Idle

WeatherFields == {"city", "data", "mode", "input", "status", "loading", "jobs", "mixed"}

WeatherTyped ==
    /\ DOMAIN st = WeatherFields
    /\ st.city \in Cities \cup {NoText} /\ st.input \in Cities \cup {NoText}
    /\ st.loading \in BOOLEAN /\ st.mixed \in BOOLEAN
    /\ st.jobs \in [Jobs -> Weather!Fetches \cup {Idle}]

\* There is data before there is a view.
WeatherData ==
    /\ st.mode = "view" => st.data # Weather!NoData
    /\ \A j \in Jobs : st.jobs[j] # Idle /\ st.jobs[j].pc = "view" => st.data # Weather!NoData

\* Unless fetches overlapped there is at most one, which is of the city.
WeatherOne == ~st.mixed =>
    /\ \A j, k \in Jobs : st.jobs[j] # Idle /\ st.jobs[k] # Idle => j = k
    /\ \A j \in Jobs : st.jobs[j] # Idle => st.loading /\ st.jobs[j].city = st.city
    /\ \A j \in Jobs : st.jobs[j] # Idle /\ st.jobs[j].pc = "view" => st.data = st.city
    /\ NoThread => ~st.loading
    /\ st.mode = "view" => st.data = st.city

WeatherInv == App = "Weather" => WeatherTyped /\ WeatherData /\ WeatherOne

\* Every step keeps that.
LEMMA WeatherKept == WeatherInv /\ [Next]_vars => WeatherInv'
  <1> DEFINE Inv == WeatherTyped /\ WeatherData /\ WeatherOne
             C == Cities \cup {NoText}
  <1> SUFFICES ASSUME Inv, [Next]_vars, App = "Weather" PROVE Inv'
    BY AppSteps DEF WeatherInv, App
  <1>t. WeatherTyped /\ WeatherData /\ WeatherOne
    OBVIOUS
  <1>n. Weather!NoText = NoText /\ Weather!NoJobs = NoJobs
    BY Zenon DEF Weather!NoText, NoText, Weather!NoJobs, NoJobs
  <1>i. Idle \notin Weather!Fetches /\ \A c \in C : c # Weather!NoData
    <2>1. Weather!NoData # NoText
      BY DEF Weather!NoData, NoText
    <2> QED BY <2>1, AppsAssumption
  <1>j. /\ \A r : Weather!CanStart(r) <=> CanStart(r)
        /\ \A r, w : Weather!Start(r, w) = Start(r, w)
        /\ \A r : Weather!Running(r) = {j \in Jobs : r.jobs[j] # Idle}
    BY Zenon DEF Weather!CanStart, CanStart, Weather!Start, Start, Weather!Running, Running
  <1>1. CASE UNCHANGED st
    BY <1>1, <1>t DEF WeatherTyped, WeatherData, WeatherOne, NoThread
  <1>2. CASE st' = Weather!Fresh
    <2>0. PICK d : d = Weather!NoData
      OBVIOUS
    <2>1. PICK no \in BOOLEAN, t \in C : ~no /\ t = NoText /\ d = Weather!NoData
      BY <2>0
    <2>2. st' = [city |-> t, data |-> d, mode |-> "input", input |-> t, status |-> t,
                 loading |-> no, jobs |-> NoJobs, mixed |-> no]
      BY <1>2, <1>n, <2>1 DEF Weather!Fresh
    <2>3. NoJobs \in [Jobs -> Weather!Fetches \cup {Idle}] /\ \A j \in Jobs : NoJobs[j] = Idle
      BY DEF NoJobs
    <2>4. /\ DOMAIN st' = WeatherFields /\ st'.city = t /\ st'.input = t /\ st'.mode = "input"
          /\ st'.loading = no /\ st'.mixed = no /\ st'.jobs = NoJobs
      BY <2>2 DEF WeatherFields
    <2> QED BY <2>1, <2>3, <2>4 DEF WeatherTyped, WeatherData, WeatherOne, NoThread
  \* A fetch, of the city r has.
  <1>f. ASSUME NEW r, DOMAIN r = WeatherFields, r.jobs = st.jobs, r.data = st.data, r.mode = st.mode,
               r.input = st.input, r.mixed = st.mixed, r.city \in C,
               r.city = st.city \/ st.mode = "input", CanStart(r), st' = Weather!fetch(r)
        PROVE  Inv'
    <2>1. PICK w \in Weather!Fetches : w = [city |-> r.city, pc |-> "get"]
      BY <1>f DEF Weather!Fetches, Weather!NoText, NoText
    <2>2. PICK j \in Jobs : st.jobs[j] = Idle /\ Start(r, w) = [st.jobs EXCEPT ![j] = w]
      <3>1. PICK j \in Jobs : r.jobs[j] = Idle /\ Start(r, w) = [r.jobs EXCEPT ![j] = w]
        BY <1>f, ThreadStarts
      <3> QED BY <3>1, <1>f
    <2>3. PICK g \in [Jobs -> Weather!Fetches \cup {Idle}] :
               g = [st.jobs EXCEPT ![j] = w] /\ g[j] = w /\ \A k \in Jobs : k # j => g[k] = st.jobs[k]
      <3>1. PICK f, S : f = st.jobs /\ S = Weather!Fetches \cup {Idle}
        OBVIOUS
      <3>2. f \in [Jobs -> S] /\ w \in S
        BY <1>t, <3>1 DEF WeatherTyped
      <3>3. /\ [f EXCEPT ![j] = w] \in [Jobs -> S]
            /\ [f EXCEPT ![j] = w][j] = w
            /\ \A k \in Jobs : k # j => [f EXCEPT ![j] = w][k] = f[k]
        BY <3>2
      <3> QED BY <3>1, <3>3
    <2>4. PICK yes \in BOOLEAN, m \in BOOLEAN : yes /\ m = (st.mixed \/ ~NoThread)
      BY <1>t DEF WeatherTyped
    <2>5. Weather!Running(r) # {} <=> ~NoThread
      BY <1>f, <1>j DEF NoThread
    <2>6. st' = [r EXCEPT !.loading = yes, !.status = "Fetching", !.jobs = g, !.mixed = m]
      <3>1. Weather!Start(r, [city |-> r.city, pc |-> "get"]) = g
        BY <1>j, <2>1, <2>2, <2>3
      <3>2. m = (r.mixed \/ Weather!Running(r) # {})
        BY <1>f, <2>4, <2>5
      <3> QED BY <1>f, <2>4, <3>1, <3>2, Zenon DEF Weather!fetch
    <2>7. /\ DOMAIN st' = WeatherFields /\ st'.city = r.city /\ st'.input = st.input /\ st'.mode = st.mode
          /\ st'.data = st.data /\ st'.loading = yes /\ st'.mixed = m /\ st'.jobs = g
      BY <1>f, <2>6 DEF WeatherFields
    <2>8. w.city = r.city /\ w.pc = "get"
      BY <2>1
    <2>9. WeatherTyped'
      BY <1>f, <1>t, <2>7 DEF WeatherTyped
    <2>10. WeatherData'
      BY <1>t, <2>3, <2>7, <2>8 DEF WeatherData
    <2>11. WeatherOne'
      <3> SUFFICES ASSUME ~m PROVE WeatherOne'
        BY <2>7 DEF WeatherOne
      <3>1. \A k \in Jobs : st.jobs[k] = Idle
        BY <2>4 DEF NoThread
      <3>2. st.mode = "view" => st.data = r.city
        BY <1>f, <1>t, <2>4 DEF WeatherOne
      <3>3. g[j] # Idle /\ \A k \in Jobs : g[k] # Idle => k = j
        BY <1>i, <2>3, <3>1
      <3> QED BY <2>3, <2>4, <2>7, <2>8, <3>2, <3>3 DEF WeatherOne, NoThread
    <2> QED BY <2>9, <2>10, <2>11
  <1>3. CASE Weather!KeyEnter
    <2>1. PICK r : r = [st EXCEPT !.city = st.input]
      OBVIOUS
    <2>2. st.mode = "input" /\ CanStart(st) /\ st' = Weather!fetch(r)
      BY <1>3, <1>j, <2>1, Zenon DEF Weather!KeyEnter
    <2>3. /\ DOMAIN r = WeatherFields /\ r.jobs = st.jobs /\ r.data = st.data /\ r.mode = st.mode
          /\ r.input = st.input /\ r.mixed = st.mixed /\ r.city \in C
      BY <1>t, <2>1 DEF WeatherTyped, WeatherFields
    <2>4. CanStart(r)
      BY <2>2, <2>3 DEF CanStart, Running
    <2> QED BY <1>f, <2>2, <2>3, <2>4
  <1>4. CASE Weather!KeyRefresh
    <2>1. PICK r : r = st
      OBVIOUS
    <2>2. CanStart(r) /\ st' = Weather!fetch(r)
      BY <1>4, <1>j, <2>1, Zenon DEF Weather!KeyRefresh
    <2>3. /\ DOMAIN r = WeatherFields /\ r.jobs = st.jobs /\ r.data = st.data /\ r.mode = st.mode
          /\ r.input = st.input /\ r.mixed = st.mixed /\ r.city \in C /\ r.city = st.city
      BY <1>t, <2>1 DEF WeatherTyped
    <2> QED BY <1>f, <2>2, <2>3
  <1>5. CASE Weather!KeyType \/ Weather!HandleEsc
    <2>1. \E t \in C : st' = [st EXCEPT !.input = t] \/ st' = [st EXCEPT !.mode = "input", !.input = t]
      BY <1>5, <1>n DEF Weather!KeyType, Weather!HandleEsc
    <2>2. /\ DOMAIN st' = WeatherFields /\ st'.city = st.city /\ st'.input \in C
          /\ st'.mode = st.mode \/ st'.mode = "input"
          /\ st'.data = st.data /\ st'.loading = st.loading /\ st'.mixed = st.mixed /\ st'.jobs = st.jobs
      BY <1>t, <2>1 DEF WeatherTyped, WeatherFields
    <2> QED BY <1>t, <2>2 DEF WeatherTyped, WeatherData, WeatherOne, NoThread
  <1>6. CASE Weather!Work
    <2>1. PICK j \in Jobs : /\ st.jobs[j] # Idle
            /\ \/ /\ st.jobs[j].pc = "get"
                  /\ \/ st' = [st EXCEPT !.data = st.jobs[j].city, !.jobs[j].pc = "view"]
                     \/ st' = [st EXCEPT !.status = "Error", !.jobs[j].pc = "input"]
               \/ /\ st.jobs[j].pc \in {"view", "input"}
                  /\ st' = [st EXCEPT !.mode = st.jobs[j].pc, !.jobs[j].pc = "last",
                              !.status = IF st.jobs[j].pc = "view" THEN "Done" ELSE @]
               \/ /\ st.jobs[j].pc = "last"
                  /\ st' = [st EXCEPT !.loading = FALSE, !.jobs[j] = Idle]
      <3>1. PICK j \in Weather!Running(st) :
               \/ /\ st.jobs[j].pc = "get"
                  /\ \/ st' = [st EXCEPT !.data = st.jobs[j].city, !.jobs[j].pc = "view"]
                     \/ st' = [st EXCEPT !.status = "Error", !.jobs[j].pc = "input"]
               \/ /\ st.jobs[j].pc \in {"view", "input"}
                  /\ st' = [st EXCEPT !.mode = st.jobs[j].pc, !.jobs[j].pc = "last",
                              !.status = IF st.jobs[j].pc = "view" THEN "Done" ELSE @]
               \/ /\ st.jobs[j].pc = "last"
                  /\ st' = [st EXCEPT !.loading = FALSE, !.jobs[j] = Idle]
        BY <1>6, Zenon DEF Weather!Work
      <3>2. j \in Jobs /\ st.jobs[j] # Idle
        BY <1>j
      <3> QED BY <3>1, <3>2, Zenon
    <2>2. PICK v \in Weather!Fetches : v = st.jobs[j]
      BY <1>t, <2>1 DEF WeatherTyped
    <2>3. v.city \in C
      BY <1>n DEF Weather!Fetches
    \* The thread goes on.
    <2>s. ASSUME NEW pc \in {"view", "input", "last"},
                 DOMAIN st' = WeatherFields, st'.city = st.city, st'.input = st.input,
                 st'.loading = st.loading, st'.mixed = st.mixed,
                 st'.jobs = [st.jobs EXCEPT ![j] = [v EXCEPT !.pc = pc]],
                 \/ pc = "view" /\ st'.data = v.city /\ st'.mode = st.mode
                 \/ pc = "input" /\ st'.data = st.data /\ st'.mode = st.mode
                 \/ pc = "last" /\ st'.data = st.data /\ st'.mode = v.pc
          PROVE  Inv'
      <3>1. PICK w \in Weather!Fetches : w = [v EXCEPT !.pc = pc] /\ w.city = v.city /\ w.pc = pc
        <4>1. [v EXCEPT !.pc = pc] \in Weather!Fetches
          BY DEF Weather!Fetches
        <4>2. [v EXCEPT !.pc = pc].city = v.city /\ [v EXCEPT !.pc = pc].pc = pc
          BY DEF Weather!Fetches
        <4> QED BY <4>1, <4>2
      <3>2. PICK g \in [Jobs -> Weather!Fetches \cup {Idle}] :
                 g = [st.jobs EXCEPT ![j] = w] /\ g[j] = w /\ \A k \in Jobs : k # j => g[k] = st.jobs[k]
        <4>1. PICK f, S : f = st.jobs /\ S = Weather!Fetches \cup {Idle}
          OBVIOUS
        <4>2. f \in [Jobs -> S] /\ w \in S
          BY <1>t, <4>1 DEF WeatherTyped
        <4>3. /\ [f EXCEPT ![j] = w] \in [Jobs -> S]
              /\ [f EXCEPT ![j] = w][j] = w
              /\ \A k \in Jobs : k # j => [f EXCEPT ![j] = w][k] = f[k]
          BY <4>2
        <4> QED BY <4>1, <4>3
      <3>3. st'.jobs = g
        BY <2>s, <3>1, <3>2
      <3>4. WeatherTyped'
        BY <2>s, <1>t, <3>3 DEF WeatherTyped
      <3>5. WeatherData'
        BY <2>s, <2>1, <2>2, <2>3, <1>t, <1>i, <3>1, <3>2, <3>3 DEF WeatherData
      <3>6. WeatherOne'
        BY <2>s, <2>1, <2>2, <1>t, <1>i, <3>1, <3>2, <3>3 DEF WeatherOne, NoThread
      <3> QED BY <3>4, <3>5, <3>6
    <2>4. CASE st' = [st EXCEPT !.data = st.jobs[j].city, !.jobs[j].pc = "view"]
      <3>1. /\ DOMAIN st' = WeatherFields /\ st'.city = st.city /\ st'.input = st.input
            /\ st'.loading = st.loading /\ st'.mixed = st.mixed
            /\ st'.jobs = [st.jobs EXCEPT ![j] = [v EXCEPT !.pc = "view"]]
            /\ st'.data = v.city /\ st'.mode = st.mode
        BY <1>t, <2>2, <2>4 DEF WeatherTyped, WeatherFields
      <3> QED BY <2>s, <3>1
    <2>5. CASE st' = [st EXCEPT !.status = "Error", !.jobs[j].pc = "input"]
      <3>1. /\ DOMAIN st' = WeatherFields /\ st'.city = st.city /\ st'.input = st.input
            /\ st'.loading = st.loading /\ st'.mixed = st.mixed
            /\ st'.jobs = [st.jobs EXCEPT ![j] = [v EXCEPT !.pc = "input"]]
            /\ st'.data = st.data /\ st'.mode = st.mode
        BY <1>t, <2>2, <2>5 DEF WeatherTyped, WeatherFields
      <3> QED BY <2>s, <3>1
    <2>6. CASE st' = [st EXCEPT !.mode = st.jobs[j].pc, !.jobs[j].pc = "last",
                                !.status = IF st.jobs[j].pc = "view" THEN "Done" ELSE @]
      <3>1. /\ DOMAIN st' = WeatherFields /\ st'.city = st.city /\ st'.input = st.input
            /\ st'.loading = st.loading /\ st'.mixed = st.mixed
            /\ st'.jobs = [st.jobs EXCEPT ![j] = [v EXCEPT !.pc = "last"]]
            /\ st'.data = st.data /\ st'.mode = v.pc
        BY <1>t, <2>2, <2>6 DEF WeatherTyped, WeatherFields
      <3> QED BY <2>s, <3>1
    <2>7. CASE st' = [st EXCEPT !.loading = FALSE, !.jobs[j] = Idle]
      <3>1. PICK no \in BOOLEAN : ~no /\ st' = [st EXCEPT !.loading = no, !.jobs[j] = Idle]
        BY <2>7
      <3>2. PICK g \in [Jobs -> Weather!Fetches \cup {Idle}] :
                 g = [st.jobs EXCEPT ![j] = Idle] /\ g[j] = Idle /\ \A k \in Jobs : k # j => g[k] = st.jobs[k]
        <4>1. PICK f, S : f = st.jobs /\ S = Weather!Fetches \cup {Idle}
          OBVIOUS
        <4>2. f \in [Jobs -> S] /\ Idle \in S
          BY <1>t, <4>1 DEF WeatherTyped
        <4>3. /\ [f EXCEPT ![j] = Idle] \in [Jobs -> S]
              /\ [f EXCEPT ![j] = Idle][j] = Idle
              /\ \A k \in Jobs : k # j => [f EXCEPT ![j] = Idle][k] = f[k]
          BY <4>2
        <4> QED BY <4>1, <4>3
      <3>3. /\ DOMAIN st' = WeatherFields /\ st'.city = st.city /\ st'.input = st.input
            /\ st'.loading = no /\ st'.mixed = st.mixed /\ st'.jobs = g
            /\ st'.data = st.data /\ st'.mode = st.mode
        BY <1>t, <3>1, <3>2 DEF WeatherTyped, WeatherFields
      <3>4. WeatherTyped' /\ WeatherData'
        BY <1>t, <3>2, <3>3 DEF WeatherTyped, WeatherData
      <3>5. WeatherOne'
        BY <1>t, <2>1, <3>1, <3>2, <3>3 DEF WeatherOne, NoThread
      <3> QED BY <3>4, <3>5
    <2> QED BY <2>1, <2>4, <2>5, <2>6, <2>7
  <1>7. /\ Fresh(App, NoFile(App)) = Weather!Fresh /\ Fresh(App, file) = Weather!Fresh
        /\ HandleInput => Weather!KeyEnter \/ Weather!KeyType \/ Weather!KeyRefresh
        /\ HandleEsc => Weather!HandleEsc
        /\ Work => Weather!Work
        /\ App \notin Keepers /\ App # "Timer" /\ App # "Settings" /\ App # "Firewall"
    BY DEF Fresh, HandleInput, HandleEsc, Work, Keepers, Weather!HandleInput
  <1>8. \/ UNCHANGED st \/ st' = Weather!Fresh \/ Weather!KeyEnter \/ Weather!KeyType
        \/ Weather!KeyRefresh \/ Weather!HandleEsc \/ Weather!Work
    BY <1>7, AppSteps, Zenon
  <1> HIDE DEF Inv
  <1> QED BY <1>1, <1>2, <1>3, <1>4, <1>5, <1>6, <1>8

-----------------------------------------------------------------------------
(* Port scanner *)

ScannerFields == {"results", "target", "typing", "jobs", "mixed"}

ScannerTyped ==
    /\ DOMAIN st = ScannerFields
    /\ st.target \in Targets \cup {NoText} /\ st.typing \in BOOLEAN /\ st.mixed \in BOOLEAN
    /\ st.jobs \in [Jobs -> Scanner!Scans \cup {Idle}]
    /\ st.results \in Seq(Scanner!Scans)

\* Unless scans overlapped there is at most one, of the target on the screen,
\* and the list has ports before its own.
ScannerOne == ~st.mixed =>
    /\ \A j, k \in Jobs : st.jobs[j] # Idle /\ st.jobs[k] # Idle => j = k
    /\ st.typing => st.results = <<>> /\ NoThread
    /\ \A j \in Jobs : st.jobs[j] # Idle =>
          /\ st.jobs[j].ip = st.target
          /\ \A i \in DOMAIN st.results : st.results[i].port < st.jobs[j].port
    /\ Scanner!Own

ScannerInv == App = "Scanner" => ScannerTyped /\ ScannerOne

\* A port is added to the list of the ports before it.
LEMMA PortAdded ==
    ASSUME NEW q \in Seq(Scanner!Scans), NEW w \in Scanner!Scans,
           \A i \in DOMAIN q : q[i].ip = w.ip /\ q[i].port < w.port,
           \A i, k \in DOMAIN q : i < k => q[i].port < q[k].port
    PROVE  /\ \A i \in DOMAIN Append(q, w) : Append(q, w)[i].ip = w.ip /\ Append(q, w)[i].port < w.port + 1
           /\ \A i, k \in DOMAIN Append(q, w) : i < k => Append(q, w)[i].port < Append(q, w)[k].port
  <1>1. Append(q, w) \in Seq(Scanner!Scans) /\ DOMAIN Append(q, w) = 1..(Len(q) + 1) /\ Len(q) \in Nat
    OBVIOUS
  <1>2. \A i \in 1..Len(q) : Append(q, w)[i] = q[i] /\ q[i] \in Scanner!Scans
    OBVIOUS
  <1>3. Append(q, w)[Len(q) + 1] = w
    OBVIOUS
  <1>4. \A x \in Scanner!Scans : x.port \in Nat
    BY DEF Scanner!Scans
  <1>5. \A i \in 1..(Len(q) + 1) : i \in 1..Len(q) \/ i = Len(q) + 1
    BY <1>1
  <1>6. PICK a : a = Append(q, w)
    OBVIOUS
  <1>7. /\ DOMAIN a = 1..(Len(q) + 1) /\ DOMAIN q = 1..Len(q) /\ a[Len(q) + 1] = w
        /\ \A i \in 1..Len(q) : a[i] = q[i]
    BY <1>1, <1>2, <1>3, <1>6
  <1>8. \A i \in DOMAIN a : a[i].ip = w.ip /\ a[i].port < w.port + 1
    BY <1>2, <1>4, <1>5, <1>7
  <1>9. \A i, k \in DOMAIN a : i < k => a[i].port < a[k].port
    <2> SUFFICES ASSUME NEW i \in DOMAIN a, NEW k \in DOMAIN a, i < k PROVE a[i].port < a[k].port
      OBVIOUS
    <2>1. i \in 1..Len(q)
      BY <1>1, <1>7
    <2>2. CASE k \in 1..Len(q)
      BY <1>7, <2>1, <2>2
    <2>3. CASE k = Len(q) + 1
      BY <1>7, <2>1, <2>3
    <2> QED BY <1>5, <1>7, <2>2, <2>3
  <1> QED BY <1>6, <1>8, <1>9

\* Every step keeps that.
LEMMA ScannerKept == ScannerInv /\ [Next]_vars => ScannerInv'
  <1> DEFINE Inv == ScannerTyped /\ ScannerOne
             C == Targets \cup {NoText}
             T == Scanner!Scans \cup {Idle}
  <1> SUFFICES ASSUME Inv, [Next]_vars, App = "Scanner" PROVE Inv'
    BY AppSteps DEF ScannerInv, App
  <1>t. ScannerTyped /\ ScannerOne
    OBVIOUS
  <1>n. Scanner!NoText = NoText /\ Scanner!NoJobs = NoJobs
    BY Zenon DEF Scanner!NoText, NoText, Scanner!NoJobs, NoJobs
  <1>i. Idle \notin Scanner!Scans
    BY AppsAssumption
  <1>j. /\ \A r : Scanner!CanStart(r) <=> CanStart(r)
        /\ \A r, w : Scanner!Start(r, w) = Start(r, w)
        /\ \A r : Scanner!Running(r) = {j \in Jobs : r.jobs[j] # Idle}
    BY Zenon DEF Scanner!CanStart, CanStart, Scanner!Start, Start, Scanner!Running, Running
  \* What the threads are when thread j becomes w.
  <1> DEFINE Settable(j, w) == \E g \in [Jobs -> T] :
                 g = [st.jobs EXCEPT ![j] = w] /\ g[j] = w /\ \A k \in Jobs : k # j => g[k] = st.jobs[k]
  <1>g. ASSUME NEW j \in Jobs, NEW w \in T
        PROVE  Settable(j, w)
    <2>1. PICK f : f = st.jobs
      OBVIOUS
    <2>2. f \in [Jobs -> T]
      BY <1>t, <2>1 DEF ScannerTyped
    <2>3. /\ [f EXCEPT ![j] = w] \in [Jobs -> T] /\ [f EXCEPT ![j] = w][j] = w
          /\ \A k \in Jobs : k # j => [f EXCEPT ![j] = w][k] = f[k]
      BY <2>2
    <2> QED BY <2>1, <2>3
  <1>1. CASE UNCHANGED st
    BY <1>1, <1>t DEF ScannerTyped, ScannerOne, Scanner!Own, NoThread
  <1>2. CASE st' = Scanner!Fresh
    <2>1. PICK no \in BOOLEAN, yes \in BOOLEAN, t \in C : ~no /\ yes /\ t = NoText
      OBVIOUS
    <2>2. st' = [results |-> <<>>, target |-> t, typing |-> yes, jobs |-> NoJobs, mixed |-> no]
      BY <1>2, <1>n, <2>1 DEF Scanner!Fresh
    <2>3. NoJobs \in [Jobs -> T] /\ \A j \in Jobs : NoJobs[j] = Idle
      BY DEF NoJobs
    <2>4. /\ DOMAIN st' = ScannerFields /\ st'.target = t /\ st'.typing = yes
          /\ st'.mixed = no /\ st'.jobs = NoJobs /\ st'.results = <<>>
      BY <2>2 DEF ScannerFields
    <2>5. <<>> \in Seq(Scanner!Scans) /\ DOMAIN <<>> = {}
      OBVIOUS
    <2>6. ScannerTyped'
      BY <2>3, <2>4, <2>5 DEF ScannerTyped
    <2>7. ScannerOne'
      BY <2>3, <2>4, <2>5 DEF ScannerOne, Scanner!Own, NoThread
    <2> QED BY <2>6, <2>7
  \* A scan, of the target r has.
  <1>f. ASSUME NEW r, DOMAIN r = ScannerFields, r.jobs = st.jobs, r.mixed = st.mixed,
               r.target = st.target, r.typing = FALSE, CanStart(r), st' = Scanner!scan(r)
        PROVE  Inv'
    <2>1. PICK w \in Scanner!Scans, one \in Nat \ {0} :
               one = 1 /\ w = [ip |-> r.target, port |-> one] /\ w.ip = r.target /\ w.port = 1
      <3>1. PICK one \in Nat \ {0} : one = 1
        OBVIOUS
      <3>2. r.target \in C
        BY <1>f, <1>t DEF ScannerTyped
      <3>3. [ip |-> r.target, port |-> one] \in Scanner!Scans
        BY <1>n, <3>2 DEF Scanner!Scans
      <3> QED BY <3>1, <3>3
    <2>2. PICK j \in Jobs : st.jobs[j] = Idle /\ Start(r, w) = [st.jobs EXCEPT ![j] = w]
      <3>1. PICK j \in Jobs : r.jobs[j] = Idle /\ Start(r, w) = [r.jobs EXCEPT ![j] = w]
        BY <1>f, ThreadStarts
      <3> QED BY <3>1, <1>f
    <2>3. PICK g \in [Jobs -> T] : g = [st.jobs EXCEPT ![j] = w] /\ g[j] = w
                                   /\ \A k \in Jobs : k # j => g[k] = st.jobs[k]
      BY <1>g
    <2>4. PICK m \in BOOLEAN : m = (st.mixed \/ ~NoThread)
      BY <1>t DEF ScannerTyped
    <2>5. Scanner!Running(r) # {} <=> ~NoThread
      BY <1>f, <1>j DEF NoThread
    <2>6. st' = [r EXCEPT !.results = <<>>, !.jobs = g, !.mixed = m]
      <3>1. Scanner!Start(r, [ip |-> r.target, port |-> 1]) = g
        BY <1>j, <2>1, <2>2, <2>3
      <3>2. m = (r.mixed \/ Scanner!Running(r) # {})
        BY <1>f, <2>4, <2>5
      <3> QED BY <1>f, <2>4, <3>1, <3>2, Zenon DEF Scanner!scan
    <2>7. /\ DOMAIN st' = ScannerFields /\ st'.target = st.target /\ st'.typing = r.typing
          /\ st'.results = <<>> /\ st'.mixed = m /\ st'.jobs = g
      BY <1>f, <2>6 DEF ScannerFields
    <2>8. <<>> \in Seq(Scanner!Scans) /\ DOMAIN <<>> = {}
      OBVIOUS
    <2>9. ScannerTyped'
      BY <1>f, <1>t, <2>7, <2>8 DEF ScannerTyped
    <2>10. ScannerOne'
      <3> SUFFICES ASSUME ~m PROVE ScannerOne'
        BY <2>7 DEF ScannerOne
      <3>1. \A k \in Jobs : st.jobs[k] = Idle
        BY <2>4 DEF NoThread
      <3>2. g[j] # Idle /\ \A k \in Jobs : g[k] # Idle => k = j
        BY <1>i, <2>3, <3>1
      <3> QED BY <1>f, <2>1, <2>3, <2>7, <2>8, <3>2 DEF ScannerOne, Scanner!Own, NoThread
    <2> QED BY <2>9, <2>10
  <1>3. CASE Scanner!KeyEnter
    <2>1. PICK r, no : ~no /\ no \in BOOLEAN /\ r = [st EXCEPT !.typing = no]
      OBVIOUS
    <2>2. CanStart(st) /\ st' = Scanner!scan(r)
      <3>1. CanStart(st) /\ st' = Scanner!scan([st EXCEPT !.typing = FALSE])
        BY <1>3, <1>j, Zenon DEF Scanner!KeyEnter
      <3>2. r = [st EXCEPT !.typing = FALSE]
        BY <2>1
      <3> QED BY <3>1, <3>2, Zenon
    <2>3. /\ DOMAIN r = ScannerFields /\ r.jobs = st.jobs /\ r.mixed = st.mixed
          /\ r.target = st.target /\ r.typing = no
      BY <1>t, <2>1 DEF ScannerTyped, ScannerFields
    <2>4. CanStart(r) /\ r.typing = FALSE
      BY <2>1, <2>2, <2>3 DEF CanStart, Running
    <2> QED BY <1>f, <2>2, <2>3, <2>4
  <1>4. CASE Scanner!KeyRescan
    <2>1. PICK r : r = st
      OBVIOUS
    <2>2. CanStart(r) /\ st' = Scanner!scan(r) /\ ~st.typing
      BY <1>4, <1>j, <2>1, Zenon DEF Scanner!KeyRescan
    <2>3. /\ DOMAIN r = ScannerFields /\ r.jobs = st.jobs /\ r.mixed = st.mixed
          /\ r.target = st.target /\ r.typing = FALSE
      BY <1>t, <2>1, <2>2 DEF ScannerTyped
    <2> QED BY <1>f, <2>2, <2>3
  <1>5. CASE Scanner!KeyType
    <2>1. st.typing /\ \E t \in C : st' = [st EXCEPT !.target = t]
      BY <1>5, <1>n DEF Scanner!KeyType
    <2>2. /\ DOMAIN st' = ScannerFields /\ st'.target \in C /\ st'.typing = st.typing
          /\ st'.mixed = st.mixed /\ st'.jobs = st.jobs /\ st'.results = st.results
      BY <1>t, <2>1 DEF ScannerTyped, ScannerFields
    <2>3. ScannerTyped'
      BY <1>t, <2>2 DEF ScannerTyped
    <2>4. ScannerOne'
      BY <1>t, <2>1, <2>2 DEF ScannerOne, Scanner!Own, NoThread
    <2> QED BY <2>3, <2>4
  <1>6. CASE Scanner!HandleEsc
    <2>1. PICK m \in BOOLEAN, yes \in BOOLEAN, t \in C : m = (st.mixed \/ ~NoThread) /\ yes /\ t = NoText
      BY <1>t DEF ScannerTyped
    <2>2. Scanner!Running(st) # {} <=> ~NoThread
      BY <1>j DEF NoThread
    <2>3. st' = [st EXCEPT !.typing = yes, !.target = t, !.results = <<>>, !.mixed = m]
      <3>1. st' = [st EXCEPT !.typing = TRUE, !.target = NoText, !.results = <<>>,
                             !.mixed = st.mixed \/ Scanner!Running(st) # {}]
        BY <1>6, <1>n DEF Scanner!HandleEsc
      <3> QED BY <2>1, <2>2, <3>1
    <2>4. /\ DOMAIN st' = ScannerFields /\ st'.target = t /\ st'.typing = yes
          /\ st'.mixed = m /\ st'.jobs = st.jobs /\ st'.results = <<>>
      BY <1>t, <2>3 DEF ScannerTyped, ScannerFields
    <2>5. <<>> \in Seq(Scanner!Scans) /\ DOMAIN <<>> = {}
      OBVIOUS
    <2>6. ScannerTyped'
      BY <1>t, <2>4, <2>5 DEF ScannerTyped
    <2>7. ScannerOne'
      BY <1>t, <2>1, <2>4, <2>5 DEF ScannerOne, Scanner!Own, NoThread
    <2> QED BY <2>6, <2>7
  <1>7. CASE Scanner!Work
    <2>1. PICK j \in Jobs : /\ st.jobs[j] # Idle
            /\ IF st.jobs[j].port > Ports THEN st' = [st EXCEPT !.jobs[j] = Idle]
               ELSE \E open \in BOOLEAN :
                      st' = [st EXCEPT !.jobs[j].port = @ + 1,
                              !.results = IF open THEN Append(@, st.jobs[j]) ELSE @]
      <3>1. PICK j \in Scanner!Running(st) :
               IF st.jobs[j].port > Ports THEN st' = [st EXCEPT !.jobs[j] = Idle]
               ELSE \E open \in BOOLEAN :
                      st' = [st EXCEPT !.jobs[j].port = @ + 1,
                              !.results = IF open THEN Append(@, st.jobs[j]) ELSE @]
        BY <1>7, Zenon DEF Scanner!Work
      <3>2. j \in Jobs /\ st.jobs[j] # Idle
        BY <1>j
      <3> QED BY <3>1, <3>2, Zenon
    <2>2. PICK v \in Scanner!Scans : v = st.jobs[j]
      BY <1>t, <2>1 DEF ScannerTyped
    <2>3. CASE st' = [st EXCEPT !.jobs[j] = Idle]
      <3>1. PICK g \in [Jobs -> T] : g = [st.jobs EXCEPT ![j] = Idle] /\ g[j] = Idle
                                     /\ \A k \in Jobs : k # j => g[k] = st.jobs[k]
        <4>1. Idle \in T
          OBVIOUS
        <4> HIDE DEF T, Settable
        <4>2. Settable(j, Idle)
          BY <4>1, <1>g
        <4> QED BY <4>2, Zenon DEF Settable
      <3>2. /\ DOMAIN st' = ScannerFields /\ st'.target = st.target /\ st'.typing = st.typing
            /\ st'.mixed = st.mixed /\ st'.jobs = g /\ st'.results = st.results
        BY <1>t, <2>3, <3>1 DEF ScannerTyped, ScannerFields
      <3>3. ScannerTyped'
        BY <1>t, <3>2 DEF ScannerTyped
      <3>4. ScannerOne'
        BY <1>t, <2>1, <3>1, <3>2 DEF ScannerOne, Scanner!Own, NoThread
      <3> QED BY <3>3, <3>4
    <2>4. ASSUME NEW open \in BOOLEAN,
                 st' = [st EXCEPT !.jobs[j].port = @ + 1,
                          !.results = IF open THEN Append(@, st.jobs[j]) ELSE @]
          PROVE  Inv'
      <3>1. PICK n \in Nat \ {0} : n = v.port + 1
        BY DEF Scanner!Scans
      <3>2. PICK w \in Scanner!Scans : w = [v EXCEPT !.port = n] /\ w.ip = v.ip /\ w.port = n
        <4>1. [v EXCEPT !.port = n] \in Scanner!Scans
          BY DEF Scanner!Scans
        <4>2. [v EXCEPT !.port = n].ip = v.ip /\ [v EXCEPT !.port = n].port = n
          BY DEF Scanner!Scans
        <4> QED BY <4>1, <4>2
      <3>3. PICK g \in [Jobs -> T] : g = [st.jobs EXCEPT ![j] = w] /\ g[j] = w
                                     /\ \A k \in Jobs : k # j => g[k] = st.jobs[k]
        BY <1>g
      <3>4. PICK q \in Seq(Scanner!Scans) : q = st.results
        BY <1>t DEF ScannerTyped
      <3>5. PICK a \in Seq(Scanner!Scans) : a = IF open THEN Append(q, v) ELSE q
        <4>1. Append(q, v) \in Seq(Scanner!Scans)
          BY AppendProperties
        <4> QED BY <4>1
      <3>6. st' = [st EXCEPT !.jobs = g, !.results = a]
        BY <2>4, <2>2, <3>1, <3>2, <3>3, <3>4, <3>5
      <3>7. /\ DOMAIN st' = ScannerFields /\ st'.target = st.target /\ st'.typing = st.typing
            /\ st'.mixed = st.mixed /\ st'.jobs = g /\ st'.results = a
        BY <1>t, <3>6 DEF ScannerTyped, ScannerFields
      <3>8. ScannerTyped'
        BY <1>t, <3>7 DEF ScannerTyped
      <3>9. ScannerOne'
        <4> SUFFICES ASSUME ~st.mixed PROVE ScannerOne'
          BY <3>7 DEF ScannerOne
        <4>1. /\ v.ip = st.target /\ ~st.typing
              /\ \A k \in Jobs : st.jobs[k] # Idle => k = j
              /\ \A i \in DOMAIN q : q[i].ip = v.ip /\ q[i].port < v.port
              /\ \A i, k \in DOMAIN q : i < k => q[i].port < q[k].port
          BY <1>t, <2>1, <2>2, <3>4 DEF ScannerOne, Scanner!Own, NoThread
        <4>2. v.port \in Nat /\ \A i \in DOMAIN q : q[i].port \in Nat
          <5>1. \A i \in DOMAIN q : q[i] \in Scanner!Scans
            OBVIOUS
          <5>2. \A x \in Scanner!Scans : x.port \in Nat
            BY DEF Scanner!Scans
          <5> QED BY <5>1, <5>2
        <4>3. /\ \A i \in DOMAIN a : a[i].ip = v.ip /\ a[i].port < v.port + 1
              /\ \A i, k \in DOMAIN a : i < k => a[i].port < a[k].port
          <5>1. CASE ~open
            BY <4>1, <4>2, <5>1, <3>5
          <5>2. CASE open
            <6>1. /\ \A i \in DOMAIN Append(q, v) : Append(q, v)[i].ip = v.ip /\ Append(q, v)[i].port < v.port + 1
                  /\ \A i, k \in DOMAIN Append(q, v) : i < k => Append(q, v)[i].port < Append(q, v)[k].port
              BY <4>1, PortAdded
            <6> QED BY <5>2, <6>1, <3>5
          <5> QED BY <5>1, <5>2
        <4> QED BY <3>1, <3>2, <3>3, <3>7, <4>1, <4>3 DEF ScannerOne, Scanner!Own, NoThread
      <3> QED BY <3>8, <3>9
    <2> QED BY <2>1, <2>3, <2>4
  <1>8. /\ Fresh(App, NoFile(App)) = Scanner!Fresh /\ Fresh(App, file) = Scanner!Fresh
        /\ HandleInput => Scanner!KeyEnter \/ Scanner!KeyType \/ Scanner!KeyRescan
        /\ HandleEsc => Scanner!HandleEsc
        /\ Work => Scanner!Work
        /\ App \notin Keepers /\ App # "Timer" /\ App # "Settings" /\ App # "Firewall"
    BY DEF Fresh, HandleInput, HandleEsc, Work, Keepers, Scanner!HandleInput
  <1>9. \/ UNCHANGED st \/ st' = Scanner!Fresh \/ Scanner!KeyEnter \/ Scanner!KeyType
        \/ Scanner!KeyRescan \/ Scanner!HandleEsc \/ Scanner!Work
    BY <1>8, AppSteps, Zenon
  <1> HIDE DEF Inv
  <1> QED BY <1>1, <1>2, <1>3, <1>4, <1>5, <1>6, <1>7, <1>9

-----------------------------------------------------------------------------
(* Network tools *)

NetToolsFields == {"selected", "output", "lists", "made", "input", "mode", "jobs", "mixed"}

NetToolsTyped ==
    /\ DOMAIN st = NetToolsFields
    /\ st.made \in 0..MaxLists /\ st.output \in 0..MaxLists /\ st.mixed \in BOOLEAN
    /\ st.lists \in [0..MaxLists -> Seq(1..MaxLists)]
    /\ st.jobs \in [Jobs -> NetTools!Commands \cup {Idle}]

\* Unless an output was given up there is at most one thread, which writes the
\* list on the screen and has read no other.
NetToolsOne == ~st.mixed =>
    /\ \A j, k \in Jobs : st.jobs[j] # Idle /\ st.jobs[k] # Idle => j = k
    /\ \A j \in Jobs : st.jobs[j] # Idle =>
          st.jobs[j].request = st.output /\ st.jobs[j].list \in {0, st.output}
    /\ st.mode = "output" => st.output # 0
    /\ st.output # 0 => \A i \in DOMAIN st.lists[st.output] : st.lists[st.output][i] = st.output

NetToolsInv == App = "NetTools" => NetToolsTyped /\ NetToolsOne

\* Every step keeps that.
LEMMA NetToolsKept == NetToolsInv /\ [Next]_vars => NetToolsInv'
  <1> DEFINE Inv == NetToolsTyped /\ NetToolsOne
             N == 0..MaxLists
             L == Seq(1..MaxLists)
             T == NetTools!Commands \cup {Idle}
  <1> SUFFICES ASSUME Inv, [Next]_vars, App = "NetTools" PROVE Inv'
    BY AppSteps DEF NetToolsInv, App
  <1>t. NetToolsTyped /\ NetToolsOne
    OBVIOUS
  <1>n. NetTools!NoJobs = NoJobs
    BY Zenon DEF NetTools!NoJobs, NoJobs
  <1>i. Idle \notin NetTools!Commands /\ MaxLists \in Nat
    BY AppsAssumption
  <1>j. /\ \A r : NetTools!CanStart(r) <=> CanStart(r)
        /\ \A r, w : NetTools!Start(r, w) = Start(r, w)
        /\ \A r : NetTools!Running(r) = {j \in Jobs : r.jobs[j] # Idle}
    BY Zenon DEF NetTools!CanStart, CanStart, NetTools!Start, Start, NetTools!Running, Running
  \* What the threads are when thread j becomes w.
  <1> DEFINE Settable(j, w) == \E g \in [Jobs -> T] :
                 g = [st.jobs EXCEPT ![j] = w] /\ g[j] = w /\ \A k \in Jobs : k # j => g[k] = st.jobs[k]
  <1>g. ASSUME NEW j \in Jobs, NEW w \in T
        PROVE  Settable(j, w)
    <2>1. PICK f : f = st.jobs
      OBVIOUS
    <2>2. f \in [Jobs -> T]
      BY <1>t, <2>1 DEF NetToolsTyped
    <2>3. /\ [f EXCEPT ![j] = w] \in [Jobs -> T] /\ [f EXCEPT ![j] = w][j] = w
          /\ \A k \in Jobs : k # j => [f EXCEPT ![j] = w][k] = f[k]
      BY <2>2
    <2> QED BY <2>1, <2>3
  \* And the lists when list i becomes q.
  <1>l. ASSUME NEW i \in N, NEW q \in L
        PROVE  \E h \in [N -> L] : h = [st.lists EXCEPT ![i] = q] /\ h[i] = q
    <2>1. PICK f : f = st.lists
      OBVIOUS
    <2>2. f \in [N -> L]
      BY <1>t, <2>1 DEF NetToolsTyped
    <2>3. [f EXCEPT ![i] = q] \in [N -> L] /\ [f EXCEPT ![i] = q][i] = q
      BY <2>2
    <2> QED BY <2>1, <2>3
  <1>1. CASE UNCHANGED st
    BY <1>1, <1>t DEF NetToolsTyped, NetToolsOne
  \* A step that leaves the lists and the threads alone and opens no output.
  <1>u. ASSUME DOMAIN st' = NetToolsFields, st'.made = st.made, st'.output = st.output,
               st'.lists = st.lists, st'.jobs = st.jobs, st'.mixed = st.mixed,
               st'.mode = st.mode \/ st'.mode # "output"
        PROVE  Inv'
    BY <1>u, <1>t DEF NetToolsTyped, NetToolsOne
  <1>2. CASE st' = NetTools!Fresh
    <2>0. PICK t : t = NetTools!NoText
      OBVIOUS
    <2>1. PICK no \in BOOLEAN, z \in N, e \in [N -> L] :
               ~no /\ z = 0 /\ e = [i \in N |-> <<>>] /\ t = NetTools!NoText
      <3>1. [i \in N |-> <<>>] \in [N -> L] /\ 0 \in N
        BY <1>i
      <3> QED BY <2>0, <3>1
    <2>2. st' = [selected |-> z, output |-> z, lists |-> e, made |-> z, input |-> t,
                 mode |-> "menu", jobs |-> NoJobs, mixed |-> no]
      BY <1>2, <1>n, <2>1 DEF NetTools!Fresh
    <2>3. NoJobs \in [Jobs -> T] /\ \A j \in Jobs : NoJobs[j] = Idle
      BY DEF NoJobs
    <2>4. /\ DOMAIN st' = NetToolsFields /\ st'.made = z /\ st'.output = z /\ st'.lists = e
          /\ st'.mixed = no /\ st'.jobs = NoJobs /\ st'.mode = "menu"
      BY <2>2 DEF NetToolsFields
    <2>5. NetToolsTyped'
      BY <2>3, <2>4 DEF NetToolsTyped
    <2>6. NetToolsOne'
      BY <2>1, <2>3, <2>4 DEF NetToolsOne
    <2> QED BY <2>5, <2>6
  \* A new list, which may get a thread; its lines are of its own request.
  <1>f. ASSUME NEW q \in L, st.made < MaxLists, \A i \in DOMAIN q : q[i] = st.made + 1,
               NEW h, h = [st.lists EXCEPT ![st.made + 1] = q],
               DOMAIN st' = NetToolsFields, st'.made = st.made + 1, st'.output = st.made + 1,
               st'.lists = h, st'.mixed = (st.mixed \/ ~NoThread),
               \/ st'.jobs = st.jobs
               \/ \E j \in Jobs : /\ st.jobs[j] = Idle
                                  /\ st'.jobs = [st.jobs EXCEPT ![j] = [request |-> st.made + 1, list |-> 0]]
        PROVE  Inv'
    <2>1. PICK r \in 1..MaxLists, z \in N : r = st.made + 1 /\ z = 0
      BY <1>f, <1>t, <1>i DEF NetToolsTyped
    <2>2. h \in [N -> L] /\ h[r] = q
      <3>1. r \in N
        BY <1>i
      <3>2. PICK x \in [N -> L] : x = [st.lists EXCEPT ![r] = q] /\ x[r] = q
        BY <1>l, <3>1
      <3> QED BY <1>f, <2>1, <3>2
    <2>3. PICK w \in T : w = [request |-> r, list |-> z] /\ w.request = r /\ w.list = z
      <3>1. [request |-> r, list |-> z] \in NetTools!Commands
        BY DEF NetTools!Commands
      <3> QED BY <3>1
    <2>4. /\ st'.jobs \in [Jobs -> T]
          /\ NoThread => /\ \A j, k \in Jobs : st'.jobs[j] # Idle /\ st'.jobs[k] # Idle => j = k
                         /\ \A j \in Jobs : st'.jobs[j] # Idle => st'.jobs[j] = w
      <3>1. CASE st'.jobs = st.jobs
        BY <1>t, <3>1 DEF NetToolsTyped, NoThread
      <3>2. ASSUME NEW j \in Jobs,
                   st'.jobs = [st.jobs EXCEPT ![j] = [request |-> st.made + 1, list |-> 0]]
            PROVE  /\ st'.jobs \in [Jobs -> T]
                   /\ NoThread => \A k \in Jobs : st'.jobs[k] # Idle => k = j /\ st'.jobs[k] = w
        <4>1. PICK g \in [Jobs -> T] : g = [st.jobs EXCEPT ![j] = w] /\ g[j] = w
                                       /\ \A k \in Jobs : k # j => g[k] = st.jobs[k]
          <5>1. j \in Jobs /\ w \in T
            OBVIOUS
          <5> HIDE DEF T, Settable
          <5>2. Settable(j, w)
            BY <5>1, <1>g
          <5> QED BY <5>2, Zenon DEF Settable
        <4>2. st'.jobs = g
          BY <3>2, <4>1, <2>1, <2>3
        <4> QED BY <4>1, <4>2 DEF NoThread
      <3> QED BY <1>f, <3>1, <3>2
    <2>5. st.made + 1 \in N
      BY <2>1, <1>i
    <2>6. NetToolsTyped'
      BY <1>f, <1>t, <2>2, <2>4, <2>5 DEF NetToolsTyped
    <2>7. NetToolsOne'
      <3> SUFFICES ASSUME NoThread PROVE NetToolsOne'
        BY <1>f DEF NetToolsOne
      <3>1. st'.output = r /\ r # 0 /\ st'.lists[r] = q /\ \A i \in DOMAIN q : q[i] = r
        BY <1>f, <2>1, <2>2
      <3>2. \A j \in Jobs : st'.jobs[j] # Idle => st'.jobs[j].request = r /\ st'.jobs[j].list = 0
        BY <2>1, <2>3, <2>4
      <3> QED BY <2>4, <3>1, <3>2 DEF NetToolsOne
    <2> QED BY <2>6, <2>7
  \* What NewList makes of st.
  <1>m. ASSUME NEW q, NEW r, r = NetTools!NewList(st, q)
        PROVE  /\ DOMAIN r = NetToolsFields /\ r.made = st.made + 1 /\ r.output = st.made + 1
               /\ r.lists = [st.lists EXCEPT ![st.made + 1] = q]
               /\ r.mixed = (st.mixed \/ ~NoThread) /\ r.jobs = st.jobs
    <2>1. PICK m \in BOOLEAN : m = (st.mixed \/ ~NoThread)
      BY <1>t DEF NetToolsTyped
    <2>2. NetTools!Running(st) # {} <=> ~NoThread
      BY <1>j DEF NoThread
    <2>3. PICK n, h : n = st.made + 1 /\ h = [st.lists EXCEPT ![st.made + 1] = q]
      OBVIOUS
    <2>4. r = [st EXCEPT !.made = n, !.output = n, !.lists = h, !.mixed = m]
      <3>1. r = [st EXCEPT !.made = @ + 1, !.output = st.made + 1,
                           !.lists[st.made + 1] = q, !.mixed = @ \/ NetTools!Running(st) # {}]
        BY <1>m, Zenon DEF NetTools!NewList
      <3> QED BY <1>t, <2>1, <2>2, <2>3, <3>1 DEF NetToolsTyped
    <2> QED BY <1>t, <2>1, <2>3, <2>4 DEF NetToolsTyped, NetToolsFields
  <1>o. /\ <<>> \in L
        /\ st.made < MaxLists => <<st.made + 1>> \in L /\ \A i \in DOMAIN <<st.made + 1>> : <<st.made + 1>>[i] = st.made + 1
    <2>1. st.made < MaxLists => st.made + 1 \in 1..MaxLists
      BY <1>t, <1>i DEF NetToolsTyped
    <2>2. PICK x : x = st.made + 1
      OBVIOUS
    <2>3. x \in 1..MaxLists => <<x>> \in L
      OBVIOUS
    <2> QED BY <2>1, <2>2, <2>3
  <1>3. CASE NetTools!KeyArrow \/ NetTools!KeyType
    <2>1. (\E x : st' = [st EXCEPT !.selected = x]) \/ \E x : st' = [st EXCEPT !.input = x]
      BY <1>3, Zenon DEF NetTools!KeyArrow, NetTools!KeyType
    <2> QED BY <1>t, <1>u, <2>1 DEF NetToolsTyped, NetToolsFields
  <1>4. CASE NetTools!execute
    <2>1. CASE \E x : st' = [st EXCEPT !.mode = "input", !.input = x]
      BY <1>t, <1>u, <2>1 DEF NetToolsTyped, NetToolsFields
    <2>2. CASE st.made < MaxLists /\ st' = [NetTools!NewList(st, <<st.made + 1>>) EXCEPT !.mode = "output"]
      <3>1. PICK q \in L : q = <<st.made + 1>>
        BY <1>o, <2>2
      <3>2. PICK r : r = NetTools!NewList(st, q)
        OBVIOUS
      <3>3. /\ DOMAIN r = NetToolsFields /\ r.made = st.made + 1 /\ r.output = st.made + 1
            /\ r.lists = [st.lists EXCEPT ![st.made + 1] = q]
            /\ r.mixed = (st.mixed \/ ~NoThread) /\ r.jobs = st.jobs
        BY <1>m, <3>2
      <3>4. st' = [r EXCEPT !.mode = "output"]
        BY <2>2, <3>1, <3>2
      <3>5. /\ DOMAIN st' = NetToolsFields /\ st'.made = r.made /\ st'.output = r.output
            /\ st'.lists = r.lists /\ st'.mixed = r.mixed /\ st'.jobs = r.jobs
        BY <3>3, <3>4 DEF NetToolsFields
      <3>6. \A i \in DOMAIN q : q[i] = st.made + 1
        BY <1>o, <2>2, <3>1
      <3>7. PICK h : h = [st.lists EXCEPT ![st.made + 1] = q]
        OBVIOUS
      <3> QED BY <1>f, <2>2, <3>3, <3>5, <3>6, <3>7
    <2> QED BY <1>4, <2>1, <2>2, Zenon DEF NetTools!execute
  <1>5. CASE NetTools!KeyEnter
    <2>0. PICK r : r = NetTools!NewList(st, <<st.made + 1>>)
      OBVIOUS
    <2>1. PICK q \in L : q = <<st.made + 1>> /\ st.made < MaxLists /\ CanStart(st)
                         /\ r = NetTools!NewList(st, q)
      BY <2>0, <1>5, <1>o, <1>j DEF NetTools!KeyEnter
    <2>2. PICK s : s = [r EXCEPT !.mode = "output"]
      OBVIOUS
    <2>3. \/ st' = s
          \/ st' = [s EXCEPT !.jobs = NetTools!Start(s, [request |-> st.made + 1, list |-> 0])]
      <3>1. s = [NetTools!NewList(st, <<st.made + 1>>) EXCEPT !.mode = "output"]
        BY <2>1, <2>2
      <3> QED BY <1>5, <3>1 DEF NetTools!KeyEnter
    <2>4. /\ DOMAIN r = NetToolsFields /\ r.made = st.made + 1 /\ r.output = st.made + 1
          /\ r.lists = [st.lists EXCEPT ![st.made + 1] = q]
          /\ r.mixed = (st.mixed \/ ~NoThread) /\ r.jobs = st.jobs
      BY <1>m, <2>1
    <2>5. /\ DOMAIN s = NetToolsFields /\ s.made = r.made /\ s.output = r.output
          /\ s.lists = r.lists /\ s.mixed = r.mixed /\ s.jobs = r.jobs
      BY <2>2, <2>4 DEF NetToolsFields
    <2>6. PICK h : h = [st.lists EXCEPT ![st.made + 1] = q]
      OBVIOUS
    <2>7. \A i \in DOMAIN q : q[i] = st.made + 1
      BY <1>o, <2>1
    <2>8. CASE st' = s
      BY <1>f, <2>1, <2>4, <2>5, <2>6, <2>7, <2>8
    <2>9. CASE st' = [s EXCEPT !.jobs = NetTools!Start(s, [request |-> st.made + 1, list |-> 0])]
      <3>1. PICK w : w = [request |-> st.made + 1, list |-> 0]
        OBVIOUS
      <3>2. CanStart(s)
        BY <2>1, <2>4, <2>5 DEF CanStart, Running
      <3>3. PICK j \in Jobs : s.jobs[j] = Idle /\ Start(s, w) = [s.jobs EXCEPT ![j] = w]
        BY <3>2, ThreadStarts
      <3>4. PICK g : g = [st.jobs EXCEPT ![j] = w]
        OBVIOUS
      <3>5. st.jobs[j] = Idle /\ st' = [s EXCEPT !.jobs = g]
        BY <1>j, <2>4, <2>5, <2>9, <3>1, <3>3, <3>4
      <3>6. /\ DOMAIN st' = NetToolsFields /\ st'.made = r.made /\ st'.output = r.output
            /\ st'.lists = r.lists /\ st'.mixed = r.mixed /\ st'.jobs = g
        BY <2>5, <3>5 DEF NetToolsFields
      <3>7. \E k \in Jobs : /\ st.jobs[k] = Idle
                            /\ st'.jobs = [st.jobs EXCEPT ![k] = [request |-> st.made + 1, list |-> 0]]
        BY <3>1, <3>4, <3>5, <3>6
      <3> QED BY <1>f, <2>1, <2>4, <2>6, <2>7, <3>6, <3>7
    <2> QED BY <2>3, <2>8, <2>9
  <1>6. CASE NetTools!HandleEsc
    <2>1. CASE st' = [st EXCEPT !.mode = "menu"]
      BY <1>t, <1>u, <2>1 DEF NetToolsTyped, NetToolsFields
    <2>2. CASE st.made < MaxLists /\ st' = [NetTools!NewList(st, <<>>) EXCEPT !.mode = "menu"]
      <3>1. PICK q \in L : q = <<>>
        BY <1>o
      <3>2. PICK r : r = NetTools!NewList(st, q)
        OBVIOUS
      <3>3. /\ DOMAIN r = NetToolsFields /\ r.made = st.made + 1 /\ r.output = st.made + 1
            /\ r.lists = [st.lists EXCEPT ![st.made + 1] = q]
            /\ r.mixed = (st.mixed \/ ~NoThread) /\ r.jobs = st.jobs
        BY <1>m, <3>2
      <3>4. st' = [r EXCEPT !.mode = "menu"]
        BY <2>2, <3>1, <3>2
      <3>5. /\ DOMAIN st' = NetToolsFields /\ st'.made = r.made /\ st'.output = r.output
            /\ st'.lists = r.lists /\ st'.mixed = r.mixed /\ st'.jobs = r.jobs
        BY <3>3, <3>4 DEF NetToolsFields
      <3>6. \A i \in DOMAIN q : q[i] = st.made + 1
        BY <3>1
      <3>7. PICK h : h = [st.lists EXCEPT ![st.made + 1] = q]
        OBVIOUS
      <3> QED BY <1>f, <2>2, <3>3, <3>5, <3>6, <3>7
    <2> QED BY <1>6, <2>1, <2>2 DEF NetTools!HandleEsc
  <1>7. CASE NetTools!Work
    <2>1. PICK j \in Jobs : /\ st.jobs[j] # Idle
            /\ \/ /\ st.jobs[j].list = 0
                  /\ st' = [st EXCEPT !.lists[st.output] = Append(@, st.jobs[j].request),
                                      !.jobs[j].list = st.output]
               \/ /\ st.jobs[j].list = 0
                  /\ st' = [st EXCEPT !.lists[st.output] = Append(@, st.jobs[j].request),
                                      !.jobs[j] = Idle]
               \/ /\ st.jobs[j].list # 0
                  /\ st' = [st EXCEPT !.output = st.jobs[j].list, !.jobs[j] = Idle]
      <3>1. PICK j \in NetTools!Running(st) :
               \/ /\ st.jobs[j].list = 0
                  /\ st' = [st EXCEPT !.lists[st.output] = Append(@, st.jobs[j].request),
                                      !.jobs[j].list = st.output]
               \/ /\ st.jobs[j].list = 0
                  /\ st' = [st EXCEPT !.lists[st.output] = Append(@, st.jobs[j].request),
                                      !.jobs[j] = Idle]
               \/ /\ st.jobs[j].list # 0
                  /\ st' = [st EXCEPT !.output = st.jobs[j].list, !.jobs[j] = Idle]
        BY <1>7, Zenon DEF NetTools!Work
      <3>2. j \in Jobs /\ st.jobs[j] # Idle
        BY <1>j
      <3> QED BY <3>1, <3>2, Zenon
    <2>2. PICK v \in NetTools!Commands, o \in N : v = st.jobs[j] /\ o = st.output
      BY <1>t, <2>1 DEF NetToolsTyped
    <2>3. v.request \in 1..MaxLists /\ v.list \in N
      BY DEF NetTools!Commands
    \* Thread j becomes w, its line in the list on the screen.
    <2>s. ASSUME NEW w \in T, w = Idle \/ (w.request = v.request /\ w.list = o),
                 NEW q \in L, q = Append(st.lists[o], v.request),
                 st' = [st EXCEPT !.lists[o] = q, !.jobs[j] = w]
          PROVE  Inv'
      <3>1. PICK g \in [Jobs -> T] : g = [st.jobs EXCEPT ![j] = w] /\ g[j] = w
                                     /\ \A k \in Jobs : k # j => g[k] = st.jobs[k]
        <4>1. j \in Jobs /\ w \in T
          OBVIOUS
        <4> HIDE DEF T, Settable
        <4>2. Settable(j, w)
          BY <4>1, <1>g
        <4> QED BY <4>2, Zenon DEF Settable
      <3>2. PICK h \in [N -> L] : h = [st.lists EXCEPT ![o] = q] /\ h[o] = q
        BY <1>l
      <3>3. st' = [st EXCEPT !.lists = h, !.jobs = g]
        BY <2>s, <3>1, <3>2
      <3>4. /\ DOMAIN st' = NetToolsFields /\ st'.made = st.made /\ st'.output = o
            /\ st'.lists = h /\ st'.mixed = st.mixed /\ st'.jobs = g /\ st'.mode = st.mode
        BY <1>t, <2>2, <3>3 DEF NetToolsTyped, NetToolsFields
      <3>5. NetToolsTyped'
        BY <1>t, <3>4 DEF NetToolsTyped
      <3>6. NetToolsOne'
        <4> SUFFICES ASSUME ~st.mixed PROVE NetToolsOne'
          BY <3>4 DEF NetToolsOne
        <4>1. v.request = o /\ o # 0 /\ \A k \in Jobs : st.jobs[k] # Idle => k = j
          BY <1>t, <2>1, <2>2, <2>3 DEF NetToolsOne
        <4>2. PICK p \in L : p = st.lists[o]
          BY <1>t DEF NetToolsTyped
        <4>3. \A i \in DOMAIN p : p[i] = o
          BY <1>t, <2>2, <4>1, <4>2 DEF NetToolsOne
        <4>4. \A i \in DOMAIN q : q[i] = o
          <5>1. q = Append(p, o)
            BY <2>s, <4>1, <4>2
          <5> QED BY <4>3, <5>1
        <4>5. \A k \in Jobs : g[k] # Idle => k = j /\ g[k] = w
          BY <3>1, <4>1
        <4>6. \A k, l \in Jobs : g[k] # Idle /\ g[l] # Idle => k = l
          BY <4>5
        <4>7. \A k \in Jobs : g[k] # Idle => g[k].request = o /\ g[k].list \in {0, o}
          BY <2>s, <4>1, <4>5
        <4>8. \A i \in DOMAIN h[o] : h[o][i] = o
          BY <3>2, <4>4
        <4> QED BY <3>4, <4>1, <4>6, <4>7, <4>8 DEF NetToolsOne
      <3> QED BY <3>5, <3>6
    <2>4. PICK q \in L : q = Append(st.lists[o], v.request)
      <3>1. PICK p \in L : p = st.lists[o]
        BY <1>t DEF NetToolsTyped
      <3>2. PICK S : S = 1..MaxLists
        OBVIOUS
      <3>3. p \in Seq(S) /\ v.request \in S
        BY <2>3, <3>2
      <3>4. Append(p, v.request) \in Seq(S)
        BY <3>3, AppendProperties
      <3> QED BY <3>1, <3>2, <3>4
    <2>5. CASE st' = [st EXCEPT !.lists[st.output] = Append(@, st.jobs[j].request), !.jobs[j].list = st.output]
      <3>1. PICK w \in NetTools!Commands : w = [v EXCEPT !.list = o] /\ w.request = v.request /\ w.list = o
        <4>1. [v EXCEPT !.list = o] \in NetTools!Commands
          BY DEF NetTools!Commands
        <4>2. [v EXCEPT !.list = o].request = v.request /\ [v EXCEPT !.list = o].list = o
          BY DEF NetTools!Commands
        <4> QED BY <4>1, <4>2
      <3>2. st' = [st EXCEPT !.lists[o] = q, !.jobs[j] = w]
        BY <2>2, <2>4, <2>5, <3>1
      <3>3. w \in T /\ (w = Idle \/ (w.request = v.request /\ w.list = o))
        BY <3>1
      <3> QED BY <2>s, <2>4, <3>2, <3>3
    <2>6. CASE st' = [st EXCEPT !.lists[st.output] = Append(@, st.jobs[j].request), !.jobs[j] = Idle]
      <3>1. PICK w \in T : w = Idle
        OBVIOUS
      <3>2. st' = [st EXCEPT !.lists[o] = q, !.jobs[j] = w]
        BY <2>2, <2>4, <2>6, <3>1
      <3>3. w \in T /\ (w = Idle \/ (w.request = v.request /\ w.list = o))
        BY <3>1
      <3> QED BY <2>s, <2>4, <3>2, <3>3
    <2>7. CASE st.jobs[j].list # 0 /\ st' = [st EXCEPT !.output = st.jobs[j].list, !.jobs[j] = Idle]
      <3>1. PICK g \in [Jobs -> T] : g = [st.jobs EXCEPT ![j] = Idle] /\ g[j] = Idle
                                     /\ \A k \in Jobs : k # j => g[k] = st.jobs[k]
        <4>1. Idle \in T
          OBVIOUS
        <4> HIDE DEF T, Settable
        <4>2. Settable(j, Idle)
          BY <4>1, <1>g
        <4> QED BY <4>2, Zenon DEF Settable
      <3>2. PICK x \in N : x = v.list
        BY <2>3
      <3>3. st' = [st EXCEPT !.output = x, !.jobs = g]
        BY <2>2, <2>7, <3>1, <3>2
      <3>4. /\ DOMAIN st' = NetToolsFields /\ st'.made = st.made /\ st'.output = x
            /\ st'.lists = st.lists /\ st'.mixed = st.mixed /\ st'.jobs = g /\ st'.mode = st.mode
        BY <1>t, <3>3 DEF NetToolsTyped, NetToolsFields
      <3>5. NetToolsTyped'
        BY <1>t, <3>4 DEF NetToolsTyped
      <3>6. NetToolsOne'
        <4> SUFFICES ASSUME ~st.mixed PROVE NetToolsOne'
          BY <3>4 DEF NetToolsOne
        <4>1. x = o /\ \A k \in Jobs : st.jobs[k] # Idle => k = j
          BY <1>t, <2>1, <2>2, <2>7, <3>2 DEF NetToolsOne
        <4>2. \A k \in Jobs : g[k] = Idle
          BY <3>1, <4>1
        <4> QED BY <1>t, <2>2, <3>4, <4>1, <4>2 DEF NetToolsOne
      <3> QED BY <3>5, <3>6
    <2> QED BY <2>1, <2>5, <2>6, <2>7
  <1>8. /\ Fresh(App, NoFile(App)) = NetTools!Fresh /\ Fresh(App, file) = NetTools!Fresh
        /\ HandleInput => NetTools!KeyArrow \/ NetTools!execute \/ NetTools!KeyType \/ NetTools!KeyEnter
        /\ HandleEsc => NetTools!HandleEsc
        /\ Work => NetTools!Work
        /\ App \notin Keepers /\ App # "Timer" /\ App # "Settings" /\ App # "Firewall"
    BY DEF Fresh, HandleInput, HandleEsc, Work, Keepers, NetTools!HandleInput
  <1>9. \/ UNCHANGED st \/ st' = NetTools!Fresh \/ NetTools!KeyArrow \/ NetTools!execute
        \/ NetTools!KeyType \/ NetTools!KeyEnter \/ NetTools!HandleEsc \/ NetTools!Work
    BY <1>8, AppSteps, Zenon
  <1> HIDE DEF Inv
  <1> QED BY <1>1, <1>2, <1>3, <1>4, <1>5, <1>6, <1>7, <1>9

-----------------------------------------------------------------------------
(* The hosts of the network mapper *)

Pinging(j) == st.jobs[j] # Idle /\ st.jobs[j] <= LastAddr + 1

NetMapperTyped ==
    /\ DOMAIN st = NetMapperFields
    /\ st.scanning \in BOOLEAN /\ st.progress \in Nat
    /\ st.jobs \in [Jobs -> Nat \cup {Idle}]
    /\ st.hosts \in Seq(Nat)

\* There is one thread that pings, past the address on the bar, exactly while
\* `scanning`; others have only their last write left.  Hosts are in order.
NetMapperOne ==
    /\ \A j, k \in Jobs : Pinging(j) /\ Pinging(k) => j = k
    /\ \A j \in Jobs : Pinging(j) => st.scanning /\ st.progress = st.jobs[j] - 1
    /\ st.scanning => \E j \in Jobs : Pinging(j)
    /\ \A a, b \in DOMAIN st.hosts : a < b => st.hosts[a] < st.hosts[b]
    /\ \A a \in DOMAIN st.hosts : st.hosts[a] <= st.progress

NetMapperInv == App = "NetMapper" => NetMapperTyped /\ NetMapperOne

\* A host is added to the list of the hosts before it.
LEMMA HostAdded ==
    ASSUME NEW q \in Seq(Nat), NEW n \in Nat,
           \A a \in DOMAIN q : q[a] < n,
           \A a, b \in DOMAIN q : a < b => q[a] < q[b]
    PROVE  /\ \A a \in DOMAIN Append(q, n) : Append(q, n)[a] <= n
           /\ \A a, b \in DOMAIN Append(q, n) : a < b => Append(q, n)[a] < Append(q, n)[b]
  <1>1. DOMAIN Append(q, n) = 1..(Len(q) + 1) /\ DOMAIN q = 1..Len(q) /\ Len(q) \in Nat
    OBVIOUS
  <1>2. \A a \in 1..Len(q) : Append(q, n)[a] = q[a] /\ q[a] \in Nat
    OBVIOUS
  <1>3. Append(q, n)[Len(q) + 1] = n
    OBVIOUS
  <1>4. PICK p : p = Append(q, n)
    OBVIOUS
  <1>5. /\ DOMAIN p = 1..(Len(q) + 1) /\ p[Len(q) + 1] = n
        /\ \A a \in 1..Len(q) : p[a] = q[a] /\ q[a] \in Nat
    BY <1>1, <1>2, <1>3, <1>4
  <1>6. \A a \in 1..(Len(q) + 1) : a \in 1..Len(q) \/ a = Len(q) + 1
    BY <1>1
  <1>7. \A a \in DOMAIN p : p[a] <= n
    BY <1>1, <1>5, <1>6
  <1>8. \A a, b \in DOMAIN p : a < b => p[a] < p[b]
    <2> SUFFICES ASSUME NEW a \in DOMAIN p, NEW b \in DOMAIN p, a < b PROVE p[a] < p[b]
      OBVIOUS
    <2>1. a \in 1..Len(q)
      BY <1>1, <1>5
    <2>2. CASE b \in 1..Len(q)
      BY <1>1, <1>5, <2>1, <2>2
    <2>3. CASE b = Len(q) + 1
      BY <1>1, <1>5, <2>1, <2>3
    <2> QED BY <1>5, <1>6, <2>2, <2>3
  <1> QED BY <1>4, <1>7, <1>8

\* Every step keeps that.
LEMMA NetMapperKept == NetMapperInv /\ [Next]_vars => NetMapperInv'
  <1> DEFINE Inv == NetMapperTyped /\ NetMapperOne
             T == Nat \cup {Idle}
  <1> SUFFICES ASSUME Inv, [Next]_vars, App = "NetMapper" PROVE Inv'
    BY AppSteps DEF NetMapperInv, App
  <1>t. NetMapperTyped /\ NetMapperOne
    OBVIOUS
  <1>n. NetMapper!NoText = NoText /\ NetMapper!NoJobs = NoJobs
    BY Zenon DEF NetMapper!NoText, NoText, NetMapper!NoJobs, NoJobs
  <1>i. Idle \notin Int /\ LastAddr \in Nat
    BY AppListsAssumption, AppsAssumption
  <1>j. /\ \A r : NetMapper!CanStart(r) <=> CanStart(r)
        /\ \A r, w : NetMapper!Start(r, w) = Start(r, w)
        /\ \A r : NetMapper!Running(r) = {j \in Jobs : r.jobs[j] # Idle}
    BY Zenon DEF NetMapper!CanStart, CanStart, NetMapper!Start, Start, NetMapper!Running, Running
  \* What the threads are when thread j becomes w.
  <1> DEFINE Settable(j, w) == \E g \in [Jobs -> T] :
                 g = [st.jobs EXCEPT ![j] = w] /\ g[j] = w /\ \A k \in Jobs : k # j => g[k] = st.jobs[k]
  <1>g. ASSUME NEW j \in Jobs, NEW w \in T
        PROVE  Settable(j, w)
    <2>1. PICK f : f = st.jobs
      OBVIOUS
    <2>2. f \in [Jobs -> T]
      BY <1>t, <2>1 DEF NetMapperTyped
    <2>3. /\ [f EXCEPT ![j] = w] \in [Jobs -> T] /\ [f EXCEPT ![j] = w][j] = w
          /\ \A k \in Jobs : k # j => [f EXCEPT ![j] = w][k] = f[k]
      BY <2>2
    <2> QED BY <2>1, <2>3
  <1>1. CASE UNCHANGED st
    BY <1>1, <1>t DEF NetMapperTyped, NetMapperOne, Pinging
  <1>2. CASE st' = NetMapper!Fresh
    <2>1. PICK no \in BOOLEAN, z \in Nat : ~no /\ z = 0
      OBVIOUS
    <2>2. st' = [hosts |-> <<>>, scanning |-> no, status |-> NoText, selected |-> z,
                 scroll |-> z, progress |-> z, jobs |-> NoJobs]
      BY <1>2, <1>n, <2>1 DEF NetMapper!Fresh
    <2>3. NoJobs \in [Jobs -> T] /\ \A j \in Jobs : NoJobs[j] = Idle
      BY DEF NoJobs
    <2>4. /\ DOMAIN st' = NetMapperFields /\ st'.scanning = no /\ st'.progress = z
          /\ st'.jobs = NoJobs /\ st'.hosts = <<>>
      BY <2>2 DEF NetMapperFields
    <2>5. <<>> \in Seq(Nat) /\ DOMAIN <<>> = {}
      OBVIOUS
    <2>6. NetMapperTyped'
      BY <2>3, <2>4, <2>5 DEF NetMapperTyped
    <2>7. NetMapperOne'
      BY <2>1, <2>3, <2>4, <2>5 DEF NetMapperOne, Pinging
    <2> QED BY <2>6, <2>7
  <1>3. CASE NetMapper!KeyArrow
    <2>1. \E n, m : st' = [st EXCEPT !.selected = n, !.scroll = m]
      <3>1. st' \in {NetMapper!Down(st, Len(st.hosts)), NetMapper!Up(st)}
        BY <1>3, Zenon DEF NetMapper!KeyArrow
      <3> QED BY <3>1 DEF NetMapper!Down, NetMapper!Up
    <2>2. /\ DOMAIN st' = NetMapperFields /\ st'.scanning = st.scanning /\ st'.progress = st.progress
          /\ st'.jobs = st.jobs /\ st'.hosts = st.hosts
      BY <1>t, <2>1 DEF NetMapperTyped, NetMapperFields
    <2>3. NetMapperTyped'
      BY <1>t, <2>2 DEF NetMapperTyped
    <2>4. NetMapperOne'
      BY <1>t, <2>2 DEF NetMapperOne, Pinging
    <2> QED BY <2>3, <2>4
  <1>4. CASE NetMapper!KeyScan
    <2>1. PICK yes \in BOOLEAN, z \in Nat, one \in Nat : yes /\ z = 0 /\ one = 1
      OBVIOUS
    <2>2. CanStart(st) /\ ~st.scanning
      BY <1>4, <1>j, Zenon DEF NetMapper!KeyScan
    <2>3. PICK j \in Jobs : st.jobs[j] = Idle /\ Start(st, one) = [st.jobs EXCEPT ![j] = one]
      BY <2>2, ThreadStarts
    <2>4. PICK g \in [Jobs -> T] : g = [st.jobs EXCEPT ![j] = one] /\ g[j] = one
                                   /\ \A k \in Jobs : k # j => g[k] = st.jobs[k]
      BY <1>g
    <2>5. st' = [st EXCEPT !.scanning = yes, !.hosts = <<>>, !.progress = z,
                           !.status = "Scanning", !.jobs = g]
      <3>1. st' = [st EXCEPT !.scanning = TRUE, !.hosts = <<>>, !.progress = 0,
                             !.status = "Scanning", !.jobs = NetMapper!Start(st, 1)]
        BY <1>4, Zenon DEF NetMapper!KeyScan
      <3>2. NetMapper!Start(st, 1) = g
        BY <1>j, <2>1, <2>3, <2>4
      <3> QED BY <2>1, <3>1, <3>2
    <2>6. /\ DOMAIN st' = NetMapperFields /\ st'.scanning = yes /\ st'.progress = z
          /\ st'.jobs = g /\ st'.hosts = <<>>
      BY <1>t, <2>5 DEF NetMapperTyped, NetMapperFields
    <2>7. <<>> \in Seq(Nat) /\ DOMAIN <<>> = {}
      OBVIOUS
    <2>8. NetMapperTyped'
      BY <2>6, <2>7 DEF NetMapperTyped
    <2>9. NetMapperOne'
      <3>1. \A k \in Jobs : ~Pinging(k)
        BY <1>t, <2>2 DEF NetMapperOne
      <3>2. g[j] # Idle /\ g[j] = 1 /\ g[j] <= LastAddr + 1
        BY <1>i, <2>1, <2>4
      <3>3. \A k \in Jobs : k # j => ~(g[k] # Idle /\ g[k] <= LastAddr + 1)
        BY <2>4, <3>1 DEF Pinging
      <3> QED BY <2>1, <2>6, <2>7, <3>2, <3>3 DEF NetMapperOne, Pinging
    <2> QED BY <2>8, <2>9
  <1>5. CASE NetMapper!Work
    <2>1. PICK j \in Jobs :
            /\ st.jobs[j] # Idle
            /\ \/ /\ st.jobs[j] \in 1..LastAddr
                  /\ \E up \in BOOLEAN :
                       st' = [st EXCEPT !.progress = st.jobs[j], !.jobs[j] = @ + 1,
                                        !.hosts = IF up THEN Append(@, st.jobs[j]) ELSE @]
               \/ /\ st.jobs[j] = LastAddr + 1
                  /\ st' = [st EXCEPT !.scanning = FALSE, !.jobs[j] = @ + 1]
               \/ /\ st.jobs[j] = LastAddr + 2
                  /\ st' = [st EXCEPT !.status = "Found", !.jobs[j] = Idle]
      <3>1. PICK j \in NetMapper!Running(st) :
               \/ /\ st.jobs[j] \in 1..LastAddr
                  /\ \E up \in BOOLEAN :
                       st' = [st EXCEPT !.progress = st.jobs[j], !.jobs[j] = @ + 1,
                                        !.hosts = IF up THEN Append(@, st.jobs[j]) ELSE @]
               \/ /\ st.jobs[j] = LastAddr + 1
                  /\ st' = [st EXCEPT !.scanning = FALSE, !.jobs[j] = @ + 1]
               \/ /\ st.jobs[j] = LastAddr + 2
                  /\ st' = [st EXCEPT !.status = "Found", !.jobs[j] = Idle]
        BY <1>5, Zenon DEF NetMapper!Work, NetMapper!Ping, NetMapper!Finish
      <3>2. j \in Jobs /\ st.jobs[j] # Idle
        BY <1>j
      <3> QED BY <3>1, <3>2, Zenon
    <2>2. PICK v \in Nat : v = st.jobs[j]
      BY <1>t, <2>1 DEF NetMapperTyped
    <2>3. PICK w \in Nat : w = v + 1
      OBVIOUS
    <2>p. Pinging(j) <=> v <= LastAddr + 1
      <3>1. st.jobs[j] # Idle
        BY <2>1
      <3> QED BY <2>2, <3>1 DEF Pinging
    <2>4. PICK g \in [Jobs -> T] : g = [st.jobs EXCEPT ![j] = w] /\ g[j] = w
                                   /\ \A k \in Jobs : k # j => g[k] = st.jobs[k]
      BY <1>g
    <2>5. ASSUME v \in 1..LastAddr, NEW up \in BOOLEAN,
                 st' = [st EXCEPT !.progress = st.jobs[j], !.jobs[j] = @ + 1,
                                  !.hosts = IF up THEN Append(@, st.jobs[j]) ELSE @]
          PROVE  Inv'
      <3>1. PICK q \in Seq(Nat) : q = st.hosts
        BY <1>t DEF NetMapperTyped
      <3>2. PICK a \in Seq(Nat) : a = IF up THEN Append(q, v) ELSE q
        <4>1. Append(q, v) \in Seq(Nat)
          BY AppendProperties
        <4> QED BY <4>1
      <3>3. st' = [st EXCEPT !.progress = v, !.jobs = g, !.hosts = a]
        BY <2>2, <2>3, <2>4, <2>5, <3>1, <3>2
      <3>4. /\ DOMAIN st' = NetMapperFields /\ st'.scanning = st.scanning /\ st'.progress = v
            /\ st'.jobs = g /\ st'.hosts = a
        BY <1>t, <3>3 DEF NetMapperTyped, NetMapperFields
      <3>5. NetMapperTyped'
        BY <1>t, <3>4 DEF NetMapperTyped
      <3>6. Pinging(j) /\ st.scanning /\ st.progress = v - 1 /\ \A k \in Jobs : Pinging(k) => k = j
        <4>1. Pinging(j)
          BY <1>i, <2>p, <2>5
        <4> QED BY <4>1, <1>t, <2>2 DEF NetMapperOne
      <3>7. \A k \in DOMAIN q : q[k] < v /\ q[k] \in Nat
        <4>1. \A k \in DOMAIN q : q[k] <= v - 1
          BY <1>t, <3>1, <3>6 DEF NetMapperOne
        <4>2. \A k \in DOMAIN q : q[k] \in Nat
          OBVIOUS
        <4> QED BY <4>1, <4>2
      <3>8. \A k, l \in DOMAIN q : k < l => q[k] < q[l]
        BY <1>t, <3>1 DEF NetMapperOne
      <3>9. /\ \A k \in DOMAIN a : a[k] <= v
            /\ \A k, l \in DOMAIN a : k < l => a[k] < a[l]
        <4>1. CASE ~up
          BY <3>2, <3>7, <3>8, <4>1
        <4>2. CASE up
          <5>1. /\ \A k \in DOMAIN Append(q, v) : Append(q, v)[k] <= v
                /\ \A k, l \in DOMAIN Append(q, v) : k < l => Append(q, v)[k] < Append(q, v)[l]
            BY <3>7, <3>8, HostAdded
          <5> QED BY <3>2, <4>2, <5>1
        <4> QED BY <4>1, <4>2
      <3>10. g[j] # Idle /\ g[j] = v + 1 /\ g[j] <= LastAddr + 1
        BY <1>i, <2>3, <2>4, <2>5
      <3>11. \A k \in Jobs : k # j => ~(g[k] # Idle /\ g[k] <= LastAddr + 1)
        BY <2>4, <3>6 DEF Pinging
      <3>12. NetMapperOne'
        BY <3>4, <3>6, <3>9, <3>10, <3>11 DEF NetMapperOne, Pinging
      <3> QED BY <3>5, <3>12
    <2>6. CASE v = LastAddr + 1 /\ st' = [st EXCEPT !.scanning = FALSE, !.jobs[j] = @ + 1]
      <3>1. PICK no \in BOOLEAN : ~no
        OBVIOUS
      <3>2. st' = [st EXCEPT !.scanning = no, !.jobs = g]
        BY <2>2, <2>3, <2>4, <2>6, <3>1
      <3>3. /\ DOMAIN st' = NetMapperFields /\ st'.scanning = no /\ st'.progress = st.progress
            /\ st'.jobs = g /\ st'.hosts = st.hosts
        BY <1>t, <3>2 DEF NetMapperTyped, NetMapperFields
      <3>4. NetMapperTyped'
        BY <1>t, <3>3 DEF NetMapperTyped
      <3>5. \A k \in Jobs : ~(g[k] # Idle /\ g[k] <= LastAddr + 1)
        <4>1. Pinging(j)
          BY <1>i, <2>p, <2>6
        <4>2. \A k \in Jobs : Pinging(k) => k = j
          BY <1>t, <4>1 DEF NetMapperOne
        <4>3. g[j] = LastAddr + 2
          BY <1>i, <2>3, <2>4, <2>6
        <4> QED BY <1>i, <2>4, <4>2, <4>3 DEF Pinging
      <3>6. NetMapperOne'
        BY <1>t, <3>1, <3>3, <3>5 DEF NetMapperOne, Pinging
      <3> QED BY <3>4, <3>6
    <2>7. CASE v = LastAddr + 2 /\ st' = [st EXCEPT !.status = "Found", !.jobs[j] = Idle]
      <3>1. PICK f \in [Jobs -> T] : f = [st.jobs EXCEPT ![j] = Idle] /\ f[j] = Idle
                                     /\ \A k \in Jobs : k # j => f[k] = st.jobs[k]
        <4>1. PICK idle \in T : idle = Idle
          OBVIOUS
        <4>2. \E f \in [Jobs -> T] : f = [st.jobs EXCEPT ![j] = idle] /\ f[j] = idle
                                     /\ \A k \in Jobs : k # j => f[k] = st.jobs[k]
          BY <1>g
        <4> QED BY <4>1, <4>2
      <3>2. /\ DOMAIN st' = NetMapperFields /\ st'.scanning = st.scanning /\ st'.progress = st.progress
            /\ st'.jobs = f /\ st'.hosts = st.hosts
        BY <1>t, <2>7, <3>1 DEF NetMapperTyped, NetMapperFields
      <3>3. NetMapperTyped'
        BY <1>t, <3>2 DEF NetMapperTyped
      <3>n. ~Pinging(j)
        BY <1>i, <2>p, <2>7
      <3>4. \A k \in Jobs : (f[k] # Idle /\ f[k] <= LastAddr + 1) <=> Pinging(k)
        BY <3>1, <3>n DEF Pinging
      <3>5. \A k \in Jobs : Pinging(k) => f[k] = st.jobs[k]
        <4> HIDE DEF Pinging
        <4> QED BY <3>1, <3>n
      <3>6. NetMapperOne'
        <4>1. \A k \in Jobs : Pinging(k)' <=> Pinging(k)
          BY <3>2, <3>4 DEF Pinging
        <4> HIDE DEF Pinging
        <4> QED BY <1>t, <3>2, <3>5, <4>1 DEF NetMapperOne
      <3> QED BY <3>3, <3>6
    <2> QED BY <2>1, <2>2, <2>5, <2>6, <2>7
  <1>8. /\ Fresh(App, NoFile(App)) = NetMapper!Fresh /\ Fresh(App, file) = NetMapper!Fresh
        /\ HandleInput => NetMapper!KeyScan \/ NetMapper!KeyArrow
        /\ Work => NetMapper!Work
        /\ ~HandleEsc
        /\ App \notin Keepers /\ App # "Timer" /\ App # "Settings" /\ App # "Firewall"
    BY DEF Fresh, HandleInput, HandleEsc, Work, Keepers, NetMapper!HandleInput
  <1>9. \/ UNCHANGED st \/ st' = NetMapper!Fresh \/ NetMapper!KeyScan \/ NetMapper!KeyArrow \/ NetMapper!Work
    BY <1>8, AppSteps, Zenon
  <1> HIDE DEF Inv
  <1> QED BY <1>1, <1>2, <1>3, <1>4, <1>5, <1>9

-----------------------------------------------------------------------------
(* Maps *)

MapsFields == {"hosts", "scanning", "status", "mode", "jobs", "mixed"}
Drawn == [ip : Nat, angle : Nat]
Probes == [i : Nat, angle : Nat \cup {Maps!NoAngle}]

MapsTyped ==
    /\ DOMAIN st = MapsFields
    /\ st.scanning \in BOOLEAN /\ st.mixed \in BOOLEAN
    /\ st.jobs \in [Jobs -> Maps!Scans \cup {Idle}]
    /\ st.hosts \in Seq(Drawn)

OncePerAddress(q) == \A a, b \in DOMAIN q : a # b => q[a].ip # q[b].ip
OncePerRay(q) == \A a, b \in DOMAIN q : a # b => q[a].angle # q[b].angle

\* Scan w has one ping for an address, which is not yet in the list q, and
\* none has been sent past the address `next`.
Ahead(w, q) ==
    /\ \A i \in DOMAIN q : q[i].ip < w.next
    /\ \A p \in w.pings : p.i < w.next /\ \A i \in DOMAIN q : q[i].ip # p.i
    /\ \A p, r \in w.pings : p.i = r.i => p = r
    /\ w.ended => w.pings = {} /\ w.next > Addresses

\* Unless scans overlapped.
MapsOne == ~st.mixed =>
    /\ \A j, k \in Jobs : st.jobs[j] # Idle /\ st.jobs[k] # Idle => j = k
    /\ \A j \in Jobs : st.jobs[j] # Idle =>
          Ahead(st.jobs[j], st.hosts) /\ (st.jobs[j].ended => ~st.scanning)
    /\ NoThread => ~st.scanning /\ OncePerRay(st.hosts)
    /\ OncePerAddress(st.hosts)

MapsInv == App = "Maps" => MapsTyped /\ MapsOne

\* An answer becomes a host of the list.
LEMMA HostDrawn ==
    ASSUME NEW q \in Seq(Drawn), NEW h \in Drawn, OncePerAddress(q),
           \A i \in DOMAIN q : q[i].ip # h.ip
    PROVE  /\ Append(q, h) \in Seq(Drawn)
           /\ OncePerAddress(Append(q, h))
           /\ \A i \in DOMAIN Append(q, h) : (\E k \in DOMAIN q : Append(q, h)[i] = q[k]) \/ Append(q, h)[i] = h
  <1>1. Append(q, h) \in Seq(Drawn) /\ DOMAIN Append(q, h) = 1..(Len(q) + 1) /\ DOMAIN q = 1..Len(q) /\ Len(q) \in Nat
    OBVIOUS
  <1>2. \A i \in 1..Len(q) : Append(q, h)[i] = q[i]
    OBVIOUS
  <1>3. Append(q, h)[Len(q) + 1] = h
    OBVIOUS
  <1>4. PICK a : a = Append(q, h)
    OBVIOUS
  <1>5. /\ DOMAIN a = 1..(Len(q) + 1) /\ a[Len(q) + 1] = h
        /\ \A i \in 1..Len(q) : a[i] = q[i]
    BY <1>1, <1>2, <1>3, <1>4
  <1>6. \A i \in 1..(Len(q) + 1) : i \in 1..Len(q) \/ i = Len(q) + 1
    BY <1>1
  <1>7. \A i \in DOMAIN a : (\E k \in DOMAIN q : a[i] = q[k]) \/ a[i] = h
    BY <1>1, <1>5, <1>6
  <1>8. OncePerAddress(a)
    <2> SUFFICES ASSUME NEW i \in DOMAIN a, NEW k \in DOMAIN a, i # k PROVE a[i].ip # a[k].ip
      BY DEF OncePerAddress
    <2>1. CASE i \in 1..Len(q) /\ k \in 1..Len(q)
      BY <1>1, <1>5, <2>1 DEF OncePerAddress
    <2>2. CASE i \in 1..Len(q) /\ k = Len(q) + 1
      BY <1>1, <1>5, <2>2
    <2>3. CASE i = Len(q) + 1 /\ k \in 1..Len(q)
      BY <1>1, <1>5, <2>3
    <2> QED BY <1>5, <1>6, <2>1, <2>2, <2>3
  <1> QED BY <1>1, <1>4, <1>7, <1>8

\* After a scan a host is drawn on the ray of its place in the list.
LEMMA HostsSpread ==
    ASSUME NEW q \in Seq(Drawn)
    PROVE  \E r \in Seq(Drawn) : /\ r = [i \in DOMAIN q |-> [q[i] EXCEPT !.angle = i - 1]]
                                 /\ OncePerAddress(q) => OncePerAddress(r)
                                 /\ OncePerRay(r)
  <1> DEFINE spread(i) == [q[i] EXCEPT !.angle = i - 1]
             r == [i \in DOMAIN q |-> spread(i)]
  <1>1. DOMAIN q = 1..Len(q) /\ Len(q) \in Nat
    OBVIOUS
  <1>2. \A i \in 1..Len(q) : spread(i) \in Drawn /\ spread(i).ip = q[i].ip /\ spread(i).angle = i - 1
    <2> SUFFICES ASSUME NEW i \in 1..Len(q)
                 PROVE  spread(i) \in Drawn /\ spread(i).ip = q[i].ip /\ spread(i).angle = i - 1
      OBVIOUS
    <2>1. PICK h \in Drawn : h = q[i]
      BY <1>1
    <2>2. PICK n \in Nat : n = i - 1
      BY <1>1
    <2>3. spread(i) = [h EXCEPT !.angle = n]
      BY <2>1, <2>2
    <2>4. [h EXCEPT !.angle = n] \in Drawn
      BY DEF Drawn
    <2>5. [h EXCEPT !.angle = n].ip = h.ip /\ [h EXCEPT !.angle = n].angle = n
      BY DEF Drawn
    <2> HIDE DEF spread
    <2> QED BY <2>1, <2>2, <2>3, <2>4, <2>5
  <1> HIDE DEF spread
  <1>3. r \in [1..Len(q) -> Drawn] /\ DOMAIN r = 1..Len(q) /\ \A i \in 1..Len(q) : r[i] = spread(i)
    BY <1>1, <1>2
  <1> HIDE DEF r
  <1>4. r \in Seq(Drawn)
    BY <1>1, <1>3, SeqDef
  <1>5. (OncePerAddress(q) => OncePerAddress(r)) /\ OncePerRay(r)
    <2>1. \A i \in 1..Len(q) : r[i].ip = q[i].ip /\ r[i].angle = i - 1
      BY <1>2, <1>3
    <2>2. PICK x : x = r
      OBVIOUS
    <2>3. DOMAIN x = 1..Len(q) /\ \A i \in 1..Len(q) : x[i].ip = q[i].ip /\ x[i].angle = i - 1
      BY <1>3, <2>1, <2>2
    <2>4. OncePerAddress(q) => OncePerAddress(x)
      BY <1>1, <2>3 DEF OncePerAddress
    <2>5. OncePerRay(x)
      BY <1>1, <2>3 DEF OncePerRay
    <2> QED BY <2>2, <2>4, <2>5
  <1> QED BY <1>4, <1>5 DEF r, spread

\* Every step keeps that.
LEMMA MapsKept == MapsInv /\ [Next]_vars => MapsInv'
  <1> DEFINE Inv == MapsTyped /\ MapsOne
             T == Maps!Scans \cup {Idle}
  <1> SUFFICES ASSUME Inv, [Next]_vars, App = "Maps" PROVE Inv'
    BY AppSteps DEF MapsInv, App
  <1>t. MapsTyped /\ MapsOne
    OBVIOUS
  <1>n. Maps!NoText = NoText /\ Maps!NoJobs = NoJobs
    BY Zenon DEF Maps!NoText, NoText, Maps!NoJobs, NoJobs
  <1>i. Idle \notin Maps!Scans /\ Addresses \in Nat
    BY AppsAssumption
  <1>s. \A w \in Maps!Scans : /\ w.next \in Nat \ {0} /\ w.batch \in Nat /\ w.ended \in BOOLEAN
                              /\ w.pings \in SUBSET Probes
    BY DEF Maps!Scans, Probes
  <1>p. ASSUME NEW w \in Maps!Scans, NEW ps \in SUBSET Probes
        PROVE  \E v \in Maps!Scans : /\ v = [w EXCEPT !.pings = ps] /\ v.pings = ps
                                     /\ v.next = w.next /\ v.ended = w.ended
    <2>1. [w EXCEPT !.pings = ps] \in Maps!Scans
      BY DEF Maps!Scans, Probes
    <2>2. /\ [w EXCEPT !.pings = ps].pings = ps /\ [w EXCEPT !.pings = ps].next = w.next
          /\ [w EXCEPT !.pings = ps].ended = w.ended
      BY DEF Maps!Scans
    <2> QED BY <2>1, <2>2
  <1>a. Maps!NoAngle \notin Nat
    BY DEF Maps!NoAngle
  <1>j. /\ \A r : Maps!CanStart(r) <=> CanStart(r)
        /\ \A r, w : Maps!Start(r, w) = Start(r, w)
        /\ \A r : Maps!Running(r) = {j \in Jobs : r.jobs[j] # Idle}
    BY Zenon DEF Maps!CanStart, CanStart, Maps!Start, Start, Maps!Running, Running
  \* What the threads are when thread j becomes w.
  <1> DEFINE Settable(j, w) == \E g \in [Jobs -> T] :
                 g = [st.jobs EXCEPT ![j] = w] /\ g[j] = w /\ \A k \in Jobs : k # j => g[k] = st.jobs[k]
  <1>g. ASSUME NEW j \in Jobs, NEW w \in T
        PROVE  Settable(j, w)
    <2>1. PICK f : f = st.jobs
      OBVIOUS
    <2>2. f \in [Jobs -> T]
      BY <1>t, <2>1 DEF MapsTyped
    <2>3. /\ [f EXCEPT ![j] = w] \in [Jobs -> T] /\ [f EXCEPT ![j] = w][j] = w
          /\ \A k \in Jobs : k # j => [f EXCEPT ![j] = w][k] = f[k]
      BY <2>2
    <2> QED BY <2>1, <2>3
  <1>1. CASE UNCHANGED st
    BY <1>1, <1>t DEF MapsTyped, MapsOne, NoThread
  <1>2. CASE st' = Maps!Fresh
    <2>1. PICK no \in BOOLEAN : ~no
      OBVIOUS
    <2>2. st' = [hosts |-> <<>>, scanning |-> no, status |-> NoText,
                 mode |-> "map", jobs |-> NoJobs, mixed |-> no]
      BY <1>2, <1>n, <2>1 DEF Maps!Fresh
    <2>3. NoJobs \in [Jobs -> T] /\ \A j \in Jobs : NoJobs[j] = Idle
      BY DEF NoJobs
    <2>4. /\ DOMAIN st' = MapsFields /\ st'.scanning = no /\ st'.mixed = no
          /\ st'.jobs = NoJobs /\ st'.hosts = <<>>
      BY <2>2 DEF MapsFields
    <2>5. <<>> \in Seq(Drawn) /\ DOMAIN <<>> = {}
      OBVIOUS
    <2>6. MapsTyped'
      BY <2>3, <2>4, <2>5 DEF MapsTyped
    <2>7. MapsOne'
      BY <2>1, <2>3, <2>4, <2>5 DEF MapsOne, NoThread, OncePerAddress, OncePerRay
    <2> QED BY <2>6, <2>7
  <1>3. CASE Maps!KeyList
    <2>1. \E m : st' = [st EXCEPT !.mode = m]
      BY <1>3 DEF Maps!KeyList
    <2>2. /\ DOMAIN st' = MapsFields /\ st'.scanning = st.scanning /\ st'.mixed = st.mixed
          /\ st'.jobs = st.jobs /\ st'.hosts = st.hosts
      BY <1>t, <2>1 DEF MapsTyped, MapsFields
    <2>3. MapsTyped'
      BY <1>t, <2>2 DEF MapsTyped
    <2>4. MapsOne'
      BY <1>t, <2>2 DEF MapsOne, NoThread
    <2> QED BY <2>3, <2>4
  <1>4. CASE Maps!scan
    <2>1. PICK w \in Maps!Scans : /\ w = [next |-> 1, batch |-> 0, pings |-> {}, ended |-> FALSE]
                                  /\ w.next = 1 /\ w.pings = {} /\ ~w.ended
      <3>1. PICK one \in Nat \ {0}, z \in Nat, no \in BOOLEAN, ps \in SUBSET Probes :
                 one = 1 /\ z = 0 /\ ~no /\ ps = {}
        <4>1. {} \in SUBSET Probes
          OBVIOUS
        <4>2. 1 \in Nat \ {0} /\ 0 \in Nat
          OBVIOUS
        <4>3. FALSE \in BOOLEAN
          OBVIOUS
        <4> QED BY <4>1, <4>2, <4>3, Zenon
      <3>2. [next |-> one, batch |-> z, pings |-> ps, ended |-> no] \in Maps!Scans
        BY DEF Maps!Scans, Probes
      <3>3. [next |-> one, batch |-> z, pings |-> ps, ended |-> no] = [next |-> 1, batch |-> 0, pings |-> {}, ended |-> FALSE]
        BY <3>1
      <3> QED BY <3>1, <3>2, <3>3
    <2>2. PICK m \in BOOLEAN, yes \in BOOLEAN : m = (st.mixed \/ ~NoThread) /\ yes
      BY <1>t DEF MapsTyped
    <2>3. Maps!Running(st) # {} <=> ~NoThread
      BY <1>j DEF NoThread
    <2>4. CanStart(st)
      BY <1>4, <1>j, Zenon DEF Maps!scan
    <2>5. PICK j \in Jobs : st.jobs[j] = Idle /\ Start(st, w) = [st.jobs EXCEPT ![j] = w]
      BY <2>4, ThreadStarts
    <2>6. PICK g \in [Jobs -> T] : g = [st.jobs EXCEPT ![j] = w] /\ g[j] = w
                                   /\ \A k \in Jobs : k # j => g[k] = st.jobs[k]
      BY <1>g
    <2>7. st' = [st EXCEPT !.scanning = yes, !.hosts = <<>>, !.status = "Scanning",
                           !.mixed = m, !.jobs = g]
      <3>1. st' = [st EXCEPT !.scanning = TRUE, !.hosts = <<>>, !.status = "Scanning",
                             !.mixed = st.mixed \/ Maps!Running(st) # {},
                             !.jobs = Maps!Start(st, [next |-> 1, batch |-> 0, pings |-> {}, ended |-> FALSE])]
        BY <1>4 DEF Maps!scan
      <3>2. Maps!Start(st, [next |-> 1, batch |-> 0, pings |-> {}, ended |-> FALSE]) = g
        BY <1>j, <2>1, <2>5, <2>6
      <3> QED BY <2>2, <2>3, <3>1, <3>2
    <2>8. /\ DOMAIN st' = MapsFields /\ st'.scanning = yes /\ st'.mixed = m
          /\ st'.jobs = g /\ st'.hosts = <<>>
      BY <1>t, <2>7 DEF MapsTyped, MapsFields
    <2>9. <<>> \in Seq(Drawn) /\ DOMAIN <<>> = {}
      OBVIOUS
    <2>10. MapsTyped'
      BY <2>8, <2>9 DEF MapsTyped
    <2>11. MapsOne'
      <3> SUFFICES ASSUME ~m PROVE MapsOne'
        BY <2>8 DEF MapsOne
      <3>1. \A k \in Jobs : st.jobs[k] = Idle
        BY <2>2 DEF NoThread
      <3>2. g[j] # Idle /\ \A k \in Jobs : g[k] # Idle => k = j
        BY <1>i, <2>6, <3>1
      <3>3. Ahead(w, <<>>) /\ OncePerAddress(<<>>)
        BY <2>1, <2>9 DEF Ahead, OncePerAddress
      <3> QED BY <2>1, <2>6, <2>8, <3>2, <3>3 DEF MapsOne, NoThread
    <2> QED BY <2>10, <2>11
  <1>5. CASE Maps!Work
    <2>1. PICK j \in Jobs : st.jobs[j] # Idle /\ (Maps!Launch(j) \/ Maps!ping(j) \/ Maps!Finish(j))
      <3>1. PICK j \in Maps!Running(st) : Maps!Launch(j) \/ Maps!ping(j) \/ Maps!Finish(j)
        BY <1>5, Zenon DEF Maps!Work
      <3>2. j \in Jobs /\ st.jobs[j] # Idle
        BY <1>j
      <3> QED BY <3>1, <3>2, Zenon
    <2>2. PICK v \in Maps!Scans, q \in Seq(Drawn) : v = st.jobs[j] /\ q = st.hosts
      BY <1>t, <2>1 DEF MapsTyped
    <2>3. ~st.mixed => /\ \A k \in Jobs : st.jobs[k] # Idle => k = j
                       /\ Ahead(v, q) /\ (v.ended => ~st.scanning) /\ OncePerAddress(q)
      BY <1>t, <2>1, <2>2 DEF MapsOne
    \* Scan j becomes w, the list a.
    <2>s. ASSUME NEW w \in Maps!Scans, NEW a \in Seq(Drawn), NEW b \in BOOLEAN,
                 st' = [st EXCEPT !.jobs[j] = w, !.hosts = a, !.scanning = b],
                 ~st.mixed => Ahead(w, a) /\ OncePerAddress(a) /\ (w.ended => ~b)
          PROVE  Inv'
      <3>1. PICK g \in [Jobs -> T] : g = [st.jobs EXCEPT ![j] = w] /\ g[j] = w
                                     /\ \A k \in Jobs : k # j => g[k] = st.jobs[k]
        BY <1>g
      <3>2. st' = [st EXCEPT !.jobs = g, !.hosts = a, !.scanning = b]
        BY <2>s, <3>1
      <3>3. /\ DOMAIN st' = MapsFields /\ st'.scanning = b /\ st'.mixed = st.mixed
            /\ st'.jobs = g /\ st'.hosts = a
        BY <1>t, <3>2 DEF MapsTyped, MapsFields
      <3>4. MapsTyped'
        BY <1>t, <3>3 DEF MapsTyped
      <3>5. MapsOne'
        <4> SUFFICES ASSUME ~st.mixed PROVE MapsOne'
          BY <3>3 DEF MapsOne
        <4>1. g[j] # Idle /\ \A k \in Jobs : g[k] # Idle => k = j
          BY <1>i, <2>3, <3>1
        <4> QED BY <2>s, <3>1, <3>3, <4>1 DEF MapsOne, NoThread
      <3> QED BY <3>4, <3>5
    <2>c. PICK b \in BOOLEAN, no \in BOOLEAN : b = st.scanning /\ ~no
      BY <1>t DEF MapsTyped
    <2>v. v.next \in Nat \ {0} /\ v.batch \in Nat /\ v.ended \in BOOLEAN /\ v.pings \in SUBSET Probes
      BY <1>s
    <2>4. CASE Maps!Launch(j)
      <3>1. CASE /\ v.next <= Addresses
                 /\ st' = [st EXCEPT !.jobs[j] =
                             [v EXCEPT !.next = v.next + 1, !.batch = v.batch + 1,
                                       !.pings = v.pings \cup {[i |-> v.next, angle |-> Maps!NoAngle]}]]
        <4>1. PICK n \in Nat \ {0}, c \in Nat, p \in Probes, ps \in SUBSET Probes :
                   /\ n = v.next + 1 /\ c = v.batch + 1 /\ p = [i |-> v.next, angle |-> Maps!NoAngle]
                   /\ ps = v.pings \cup {p} /\ p.i = v.next
          <5>1. PICK n \in Nat \ {0}, c \in Nat, m \in Nat, x \in Nat \cup {Maps!NoAngle} :
                     n = v.next + 1 /\ c = v.batch + 1 /\ m = v.next /\ x = Maps!NoAngle
            BY <2>v
          <5>2. [i |-> m, angle |-> x] \in Probes
            BY DEF Probes
          <5>3. PICK p \in Probes : p = [i |-> m, angle |-> x] /\ p.i = m
            BY <5>2
          <5>4. v.pings \cup {p} \in SUBSET Probes
            BY <2>v
          <5> QED BY <5>1, <5>3, <5>4
        <4>2. PICK w \in Maps!Scans : /\ w = [v EXCEPT !.next = n, !.batch = c, !.pings = ps]
                                      /\ w.next = n /\ w.pings = ps /\ w.ended = v.ended
          <5>1. [v EXCEPT !.next = n, !.batch = c, !.pings = ps] \in Maps!Scans
            BY DEF Maps!Scans, Probes
          <5>2. /\ [v EXCEPT !.next = n, !.batch = c, !.pings = ps].next = n
                /\ [v EXCEPT !.next = n, !.batch = c, !.pings = ps].pings = ps
                /\ [v EXCEPT !.next = n, !.batch = c, !.pings = ps].ended = v.ended
            BY DEF Maps!Scans
          <5> QED BY <5>1, <5>2
        <4>3. st' = [st EXCEPT !.jobs[j] = w, !.hosts = q, !.scanning = b]
          <5>1. st' = [st EXCEPT !.jobs[j] = w]
            BY <3>1, <4>1, <4>2
          <5>2. {"jobs", "hosts", "scanning"} \subseteq DOMAIN st
            BY <1>t DEF MapsTyped, MapsFields
          <5> QED BY <5>1, <5>2, <2>2, <2>c
        <4>4. ~st.mixed => Ahead(w, q) /\ OncePerAddress(q) /\ (w.ended => ~b)
          <5> SUFFICES ASSUME ~st.mixed PROVE Ahead(w, q)
            BY <2>3, <2>c, <4>2
          <5>1. Ahead(v, q)
            BY <2>3
          <5>2. ~w.ended
            BY <1>i, <2>v, <3>1, <4>2, <5>1 DEF Ahead
          <5>3. \A i \in DOMAIN q : q[i].ip \in Nat
            <6>1. \A h \in Drawn : h.ip \in Nat
              BY DEF Drawn
            <6>2. \A i \in DOMAIN q : q[i] \in Drawn
              OBVIOUS
            <6> QED BY <6>1, <6>2
          <5>4. \A r \in v.pings : r.i \in Nat
            BY <2>v DEF Probes
          <5>5. \A r \in ps : r \in v.pings \/ r = p
            BY <4>1
          <5>6. \A i \in DOMAIN q : q[i].ip < n /\ q[i].ip # p.i
            BY <2>v, <4>1, <5>1, <5>3 DEF Ahead
          <5>7. \A r \in v.pings : r.i < n /\ r.i # p.i
            BY <2>v, <4>1, <5>1, <5>4 DEF Ahead
          <5>8. p.i < n
            BY <2>v, <4>1
          <5> QED BY <4>2, <5>1, <5>2, <5>5, <5>6, <5>7, <5>8 DEF Ahead
        <4> QED BY <2>s, <4>3, <4>4
      <3>2. CASE st' = [st EXCEPT !.jobs[j].batch = 0]
        <4>1. PICK z \in Nat : z = 0
          OBVIOUS
        <4>2. PICK w \in Maps!Scans : /\ w = [v EXCEPT !.batch = z]
                                      /\ w.next = v.next /\ w.pings = v.pings /\ w.ended = v.ended
          <5>1. [v EXCEPT !.batch = z] \in Maps!Scans
            BY DEF Maps!Scans
          <5>2. /\ [v EXCEPT !.batch = z].next = v.next /\ [v EXCEPT !.batch = z].pings = v.pings
                /\ [v EXCEPT !.batch = z].ended = v.ended
            BY DEF Maps!Scans
          <5> QED BY <5>1, <5>2
        <4>3. st' = [st EXCEPT !.jobs[j] = w, !.hosts = q, !.scanning = b]
          <5>1. st' = [st EXCEPT !.jobs[j] = w]
            BY <2>2, <3>2, <4>1, <4>2
          <5>2. {"jobs", "hosts", "scanning"} \subseteq DOMAIN st
            BY <1>t DEF MapsTyped, MapsFields
          <5> QED BY <5>1, <5>2, <2>2, <2>c
        <4>4. ~st.mixed => Ahead(w, q) /\ OncePerAddress(q) /\ (w.ended => ~b)
          BY <2>3, <2>c, <4>2 DEF Ahead
        <4> QED BY <2>s, <4>3, <4>4
      <3> QED BY <2>2, <2>4, <3>1, <3>2, Zenon DEF Maps!Launch
    <2>5. CASE Maps!ping(j)
      <3>1. PICK p \in v.pings :
              \/ /\ p.angle = Maps!NoAngle
                 /\ \E answer \in {{}, {[p EXCEPT !.angle = Len(q)]}} :
                      st' = [st EXCEPT !.jobs[j].pings = (v.pings \ {p}) \cup answer]
              \/ /\ p.angle # Maps!NoAngle
                 /\ st' = [st EXCEPT !.hosts = Append(@, [ip |-> p.i, angle |-> p.angle]),
                                     !.jobs[j].pings = v.pings \ {p}]
        BY <2>2, <2>5, Zenon DEF Maps!ping
      <3>p. p \in Probes /\ p.i \in Nat /\ p.angle \in Nat \cup {Maps!NoAngle}
        <4>1. p \in Probes
          BY <2>v
        <4> QED BY <4>1 DEF Probes
      <3>2. ASSUME NEW answer \in {{}, {[p EXCEPT !.angle = Len(q)]}},
                   st' = [st EXCEPT !.jobs[j].pings = (v.pings \ {p}) \cup answer]
            PROVE  Inv'
        <4>1. PICK n \in Nat : n = Len(q)
          OBVIOUS
        <4>2. PICK x \in Probes : x = [p EXCEPT !.angle = n] /\ x.i = p.i
          <5>1. [p EXCEPT !.angle = n] \in Probes /\ [p EXCEPT !.angle = n].i = p.i
            BY <3>p DEF Probes
          <5> QED BY <5>1
        <4>3. answer = {} \/ answer = {x}
          BY <3>2, <4>1, <4>2
        <4>4. PICK ps \in SUBSET Probes : ps = (v.pings \ {p}) \cup answer
          BY <2>v, <4>3
        <4>5. PICK w \in Maps!Scans : /\ w = [v EXCEPT !.pings = ps] /\ w.pings = ps
                                      /\ w.next = v.next /\ w.ended = v.ended
          BY <1>p
        <4>6. st' = [st EXCEPT !.jobs[j] = w, !.hosts = q, !.scanning = b]
          <5>1. st' = [st EXCEPT !.jobs[j] = w]
            BY <2>2, <3>2, <4>4, <4>5
          <5>2. {"jobs", "hosts", "scanning"} \subseteq DOMAIN st
            BY <1>t DEF MapsTyped, MapsFields
          <5> QED BY <5>1, <5>2, <2>2, <2>c
        <4>7. ~st.mixed => Ahead(w, q) /\ OncePerAddress(q) /\ (w.ended => ~b)
          <5> SUFFICES ASSUME ~st.mixed PROVE Ahead(w, q)
            BY <2>3, <2>c, <4>5
          <5>1. Ahead(v, q)
            BY <2>3
          <5>2. \A r \in ps : (r \in v.pings /\ r # p) \/ (r = x)
            BY <4>3, <4>4
          <5>3. \A r \in ps : \E o \in v.pings : r.i = o.i /\ (r # x => r = o) /\ (r = x => o = p)
            BY <4>2, <5>2
          <5>4. \A r, o \in ps : r.i = o.i => r = o
            BY <4>2, <5>1, <5>2 DEF Ahead
          <5>5. ~v.ended
            BY <5>1, <3>1 DEF Ahead
          <5> QED BY <4>5, <5>1, <5>3, <5>4, <5>5 DEF Ahead
        <4> QED BY <2>s, <4>6, <4>7
      <3>3. CASE /\ p.angle # Maps!NoAngle
                 /\ st' = [st EXCEPT !.hosts = Append(@, [ip |-> p.i, angle |-> p.angle]),
                                     !.jobs[j].pings = v.pings \ {p}]
        <4>1. PICK h \in Drawn : h = [ip |-> p.i, angle |-> p.angle] /\ h.ip = p.i
          <5>1. p.i \in Nat /\ p.angle \in Nat
            BY <3>p, <3>3
          <5>2. [ip |-> p.i, angle |-> p.angle] \in Drawn
            BY <5>1 DEF Drawn
          <5> QED BY <5>2
        <4>2. PICK ps \in SUBSET Probes : ps = v.pings \ {p}
          BY <2>v
        <4>3. PICK w \in Maps!Scans : /\ w = [v EXCEPT !.pings = ps] /\ w.pings = ps
                                      /\ w.next = v.next /\ w.ended = v.ended
          BY <1>p
        <4>4. PICK a \in Seq(Drawn) : a = Append(q, h)
          <5>1. Append(q, h) \in Seq(Drawn)
            BY AppendProperties
          <5> QED BY <5>1
        <4>5. st' = [st EXCEPT !.jobs[j] = w, !.hosts = a, !.scanning = b]
          <5>1. st' = [st EXCEPT !.hosts = a, !.jobs[j] = w]
            BY <2>2, <3>3, <4>1, <4>2, <4>3, <4>4
          <5>2. {"jobs", "hosts", "scanning"} \subseteq DOMAIN st
            BY <1>t DEF MapsTyped, MapsFields
          <5> QED BY <5>1, <5>2, <2>2, <2>c
        <4>6. ~st.mixed => Ahead(w, a) /\ OncePerAddress(a) /\ (w.ended => ~b)
          <5> SUFFICES ASSUME ~st.mixed PROVE Ahead(w, a) /\ OncePerAddress(a)
            BY <2>3, <2>c, <4>3
          <5>1. Ahead(v, q) /\ OncePerAddress(q)
            BY <2>3
          <5>2. \A i \in DOMAIN q : q[i].ip # h.ip
            BY <4>1, <5>1 DEF Ahead
          <5>3. /\ OncePerAddress(a)
                /\ \A i \in DOMAIN a : (\E k \in DOMAIN q : a[i] = q[k]) \/ a[i] = h
            BY <4>4, <5>1, <5>2, HostDrawn
          <5>4. h.ip < v.next /\ \A r \in ps : r.i # h.ip
            BY <4>1, <4>2, <5>1 DEF Ahead
          <5>5. ~v.ended
            BY <5>1, <3>1 DEF Ahead
          <5> QED BY <4>2, <4>3, <5>1, <5>3, <5>4, <5>5 DEF Ahead
        <4> QED BY <2>s, <4>5, <4>6
      <3> QED BY <3>1, <3>2, <3>3
    <2>6. CASE Maps!Finish(j)
      <3>1. CASE /\ v.next > Addresses /\ v.pings = {}
                 /\ st' = [st EXCEPT !.scanning = FALSE, !.status = "Found", !.jobs[j].ended = TRUE]
        <4>1. PICK yes \in BOOLEAN : yes
          OBVIOUS
        <4>2. PICK w \in Maps!Scans : /\ w = [v EXCEPT !.ended = yes]
                                      /\ w.next = v.next /\ w.pings = v.pings /\ w.ended = yes
          <5>1. [v EXCEPT !.ended = yes] \in Maps!Scans
            BY DEF Maps!Scans
          <5>2. /\ [v EXCEPT !.ended = yes].next = v.next /\ [v EXCEPT !.ended = yes].pings = v.pings
                /\ [v EXCEPT !.ended = yes].ended = yes
            BY DEF Maps!Scans
          <5> QED BY <5>1, <5>2
        <4>3. PICK g \in [Jobs -> T] : g = [st.jobs EXCEPT ![j] = w] /\ g[j] = w
                                       /\ \A k \in Jobs : k # j => g[k] = st.jobs[k]
          BY <1>g
        <4>4. st' = [st EXCEPT !.scanning = no, !.status = "Found", !.jobs = g]
          BY <2>2, <2>c, <3>1, <4>1, <4>2, <4>3
        <4>5. /\ DOMAIN st' = MapsFields /\ st'.scanning = no /\ st'.mixed = st.mixed
              /\ st'.jobs = g /\ st'.hosts = st.hosts
          BY <1>t, <4>4 DEF MapsTyped, MapsFields
        <4>6. MapsTyped'
          BY <1>t, <4>5 DEF MapsTyped
        <4>7. MapsOne'
          <5> SUFFICES ASSUME ~st.mixed PROVE MapsOne'
            BY <4>5 DEF MapsOne
          <5>1. g[j] # Idle /\ \A k \in Jobs : g[k] # Idle => k = j
            BY <1>i, <2>3, <4>3
          <5>2. Ahead(w, q)
            BY <2>3, <3>1, <4>2 DEF Ahead
          <5> QED BY <2>2, <2>3, <2>c, <4>3, <4>5, <5>1, <5>2 DEF MapsOne, NoThread
        <4> QED BY <4>6, <4>7
      <3>2. CASE /\ v.ended
                 /\ st' = [st EXCEPT !.jobs[j] = Idle,
                             !.hosts = [i \in DOMAIN st.hosts |-> [st.hosts[i] EXCEPT !.angle = i - 1]]]
        <4>1. PICK g \in [Jobs -> T] : g = [st.jobs EXCEPT ![j] = Idle] /\ g[j] = Idle
                                       /\ \A k \in Jobs : k # j => g[k] = st.jobs[k]
          <5>1. Idle \in T
            OBVIOUS
          <5> HIDE DEF T, Settable
          <5>2. Settable(j, Idle)
            BY <5>1, <1>g
          <5> QED BY <5>2, Zenon DEF Settable
        <4>2. PICK a : a = [i \in DOMAIN q |-> [q[i] EXCEPT !.angle = i - 1]]
          OBVIOUS
        <4>3. st' = [st EXCEPT !.jobs = g, !.hosts = a]
          BY <2>2, <3>2, <4>1, <4>2
        <4>4. /\ DOMAIN st' = MapsFields /\ st'.scanning = st.scanning /\ st'.mixed = st.mixed
              /\ st'.jobs = g /\ st'.hosts = a
          BY <1>t, <4>3 DEF MapsTyped, MapsFields
        <4>5. a \in Seq(Drawn) /\ (OncePerAddress(q) => OncePerAddress(a) /\ OncePerRay(a))
          BY <4>2, HostsSpread
        <4>6. MapsTyped'
          BY <1>t, <4>4, <4>5 DEF MapsTyped
        <4>7. MapsOne'
          <5> SUFFICES ASSUME ~st.mixed PROVE MapsOne'
            BY <4>4 DEF MapsOne
          <5>1. \A k \in Jobs : g[k] = Idle
            BY <2>3, <4>1
          <5> QED BY <2>3, <3>2, <4>4, <4>5, <5>1 DEF MapsOne, NoThread
        <4> QED BY <4>6, <4>7
      <3> QED BY <2>2, <2>6, <3>1, <3>2, Zenon DEF Maps!Finish
    <2> QED BY <2>1, <2>4, <2>5, <2>6
  <1>8. /\ Fresh(App, NoFile(App)) = Maps!Fresh /\ Fresh(App, file) = Maps!Fresh
        /\ HandleInput => Maps!scan \/ Maps!KeyList
        /\ Work => Maps!Work
        /\ ~HandleEsc
        /\ App \notin Keepers /\ App # "Timer" /\ App # "Settings" /\ App # "Firewall"
    BY DEF Fresh, HandleInput, HandleEsc, Work, Keepers, Maps!HandleInput
  <1>9. UNCHANGED st \/ st' = Maps!Fresh \/ Maps!scan \/ Maps!KeyList \/ Maps!Work
    BY <1>8, AppSteps, Zenon
  <1> HIDE DEF Inv
  <1> QED BY <1>1, <1>2, <1>3, <1>4, <1>5, <1>9

-----------------------------------------------------------------------------
(* The screens of the apps with threads, and of the firewall *)

ResultsInv ==
    /\ SpeedInv /\ NetMonInv /\ PacketsInv /\ WeatherInv /\ ScannerInv
    /\ NetToolsInv /\ MapsInv /\ NetMapperInv /\ FirewallInv

\* The shells begin with it.
LEMMA ResultsInit == Init => ResultsInv
  <1> SUFFICES ASSUME Init PROVE ResultsInv
    OBVIOUS
  <1>i. file = NoFile(App) /\ st = Fresh(App, file)
    BY DEF Init
  <1>p. Idle \notin Places /\ "full" \in Places /\ {"count", "pop"} \subseteq Places
    BY AppListsAssumption DEF Places
  <1>m. MaxHistory \in Nat /\ MaxPackets \in Nat /\ MaxLists \in Nat
    BY AppsAssumption
  <1>j. /\ \A j \in Jobs : NoJobs[j] = Idle
        /\ NoJobs \in [Jobs -> {Idle, "new", "ping", "download", "complete"}]
        /\ NoJobs \in [Jobs -> Places \cup {Idle}]
        /\ NoJobs \in [Jobs -> Weather!Fetches \cup {Idle}]
        /\ NoJobs \in [Jobs -> Scanner!Scans \cup {Idle}]
        /\ NoJobs \in [Jobs -> NetTools!Commands \cup {Idle}]
        /\ NoJobs \in [Jobs -> Maps!Scans \cup {Idle}]
        /\ NoJobs \in [Jobs -> Nat \cup {Idle}]
    BY DEF NoJobs
  <1>z. PICK no \in BOOLEAN, yes \in BOOLEAN, z \in Nat : ~no /\ yes /\ z = 0
    OBVIOUS
  <1>1. ASSUME App = "SpeedTest" PROVE SpeedInv
    <2>1. st = SpeedTest!Fresh
      BY <1>1, <1>i DEF Fresh
    <2>2. SpeedTest!NoJobs = NoJobs
      BY Zenon DEF SpeedTest!NoJobs, NoJobs
    <2>3. st = [status |-> "idle", running |-> no, jobs |-> NoJobs, twice |-> no]
      BY <2>1, <2>2, <1>z DEF SpeedTest!Fresh
    <2> QED BY <2>3, <1>j, <1>z DEF SpeedInv, SpeedType, SpeedOwn
  <1>2. ASSUME App = "NetMon" PROVE NetMonInv
    <2>1. st = NetMon!Fresh
      BY <1>2, <1>i DEF Fresh
    <2>2. NetMon!NoJobs = NoJobs
      BY Zenon DEF NetMon!NoJobs, NoJobs
    <2>3. \E t : st = [running |-> no, status |-> t, history |-> z, jobs |-> NoJobs]
      BY <2>1, <2>2, <1>z DEF NetMon!Fresh
    <2>4. DOMAIN st = {"running", "status", "history", "jobs"} /\ st.history = 0 /\ st.jobs = NoJobs
      BY <2>3, <1>z
    <2>5. Held(NoJobs, {"full"}) = 0
      BY <1>p, HeldNone
    <2> QED BY <1>j, <1>m, <2>4, <2>5 DEF NetMonInv
  <1>3. ASSUME App = "Packets" PROVE PacketsInv
    <2>1. st = Packets!Fresh
      BY <1>3, <1>i DEF Fresh
    <2>2. Packets!NoJobs = NoJobs
      BY Zenon DEF Packets!NoJobs, NoJobs
    <2>3. \E t : st = [running |-> no, status |-> t, packets |-> z, jobs |-> NoJobs]
      BY <2>1, <2>2, <1>z DEF Packets!Fresh
    <2>4. DOMAIN st = {"running", "status", "packets", "jobs"} /\ st.packets = 0 /\ st.jobs = NoJobs
      BY <2>3, <1>z
    <2>5. Held(NoJobs, Dropping) = 0
      BY <1>p, HeldNone DEF Dropping
    <2> QED BY <1>j, <1>m, <2>4, <2>5 DEF PacketsInv
  <1>4. ASSUME App = "Weather" PROVE WeatherInv
    <2>1. st = Weather!Fresh
      BY <1>4, <1>i DEF Fresh
    <2>2. Weather!NoText = NoText /\ Weather!NoJobs = NoJobs
      BY Zenon DEF Weather!NoText, NoText, Weather!NoJobs, NoJobs
    <2>0. PICK d : d = Weather!NoData
      OBVIOUS
    <2>3. PICK t \in Cities \cup {NoText} : t = NoText /\ d = Weather!NoData
      BY <2>0
    <2>4. st = [city |-> t, data |-> d, mode |-> "input", input |-> t, status |-> t,
                loading |-> no, jobs |-> NoJobs, mixed |-> no]
      BY <2>1, <2>2, <2>3, <1>z DEF Weather!Fresh
    <2>5. /\ DOMAIN st = WeatherFields /\ st.city = t /\ st.input = t /\ st.mode = "input"
          /\ st.loading = no /\ st.mixed = no /\ st.jobs = NoJobs
      BY <2>4 DEF WeatherFields
    <2>6. WeatherTyped
      BY <1>j, <2>5 DEF WeatherTyped
    <2>7. WeatherData /\ WeatherOne
      BY <1>j, <1>z, <2>5 DEF WeatherData, WeatherOne, NoThread
    <2> QED BY <2>6, <2>7 DEF WeatherInv
  <1>5. ASSUME App = "Scanner" PROVE ScannerInv
    <2>1. st = Scanner!Fresh
      BY <1>5, <1>i DEF Fresh
    <2>2. Scanner!NoText = NoText /\ Scanner!NoJobs = NoJobs
      BY Zenon DEF Scanner!NoText, NoText, Scanner!NoJobs, NoJobs
    <2>3. PICK t \in Targets \cup {NoText} : t = NoText
      OBVIOUS
    <2>4. st = [results |-> <<>>, target |-> t, typing |-> yes, jobs |-> NoJobs, mixed |-> no]
      BY <2>1, <2>2, <2>3, <1>z DEF Scanner!Fresh
    <2>5. /\ DOMAIN st = ScannerFields /\ st.target = t /\ st.typing = yes
          /\ st.mixed = no /\ st.jobs = NoJobs /\ st.results = <<>>
      BY <2>4 DEF ScannerFields
    <2>6. <<>> \in Seq(Scanner!Scans) /\ DOMAIN <<>> = {}
      OBVIOUS
    <2>7. ScannerTyped
      BY <1>j, <2>5, <2>6 DEF ScannerTyped
    <2>8. ScannerOne
      BY <1>j, <2>5, <2>6 DEF ScannerOne, Scanner!Own, NoThread
    <2> QED BY <2>7, <2>8 DEF ScannerInv
  <1>6. ASSUME App = "NetTools" PROVE NetToolsInv
    <2> DEFINE N == 0..MaxLists
               L == Seq(1..MaxLists)
    <2>1. st = NetTools!Fresh
      BY <1>6, <1>i DEF Fresh
    <2>2. NetTools!NoJobs = NoJobs
      BY Zenon DEF NetTools!NoJobs, NoJobs
    <2>0. PICK t : t = NetTools!NoText
      OBVIOUS
    <2>3. PICK n \in N, e \in [N -> L] :
               n = 0 /\ e = [i \in N |-> <<>>] /\ t = NetTools!NoText
      <3>1. [i \in N |-> <<>>] \in [N -> L] /\ 0 \in N
        BY <1>m
      <3> QED BY <2>0, <3>1
    <2>4. st = [selected |-> n, output |-> n, lists |-> e, made |-> n, input |-> t,
                mode |-> "menu", jobs |-> NoJobs, mixed |-> no]
      BY <2>1, <2>2, <2>3, <1>z DEF NetTools!Fresh
    <2>5. /\ DOMAIN st = NetToolsFields /\ st.made = n /\ st.output = n /\ st.lists = e
          /\ st.mixed = no /\ st.jobs = NoJobs /\ st.mode = "menu"
      BY <2>4 DEF NetToolsFields
    <2>6. NetToolsTyped
      BY <1>j, <2>5 DEF NetToolsTyped
    <2>7. NetToolsOne
      BY <2>3, <1>j, <2>5 DEF NetToolsOne
    <2> QED BY <2>6, <2>7 DEF NetToolsInv
  <1>7. ASSUME App = "Maps" PROVE MapsInv
    <2>1. st = Maps!Fresh
      BY <1>7, <1>i DEF Fresh
    <2>2. Maps!NoJobs = NoJobs
      BY Zenon DEF Maps!NoJobs, NoJobs
    <2>3. \E t : st = [hosts |-> <<>>, scanning |-> no, status |-> t,
                       mode |-> "map", jobs |-> NoJobs, mixed |-> no]
      BY <2>1, <2>2, <1>z DEF Maps!Fresh
    <2>4. /\ DOMAIN st = MapsFields /\ st.scanning = no /\ st.mixed = no
          /\ st.jobs = NoJobs /\ st.hosts = <<>>
      BY <2>3 DEF MapsFields
    <2>5. <<>> \in Seq(Drawn) /\ DOMAIN <<>> = {}
      OBVIOUS
    <2>6. MapsTyped
      BY <1>j, <2>4, <2>5 DEF MapsTyped
    <2>7. MapsOne
      BY <1>j, <1>z, <2>4, <2>5 DEF MapsOne, NoThread, OncePerAddress, OncePerRay
    <2> QED BY <2>6, <2>7 DEF MapsInv
  <1>8. ASSUME App = "NetMapper" PROVE NetMapperInv
    <2>1. st = NetMapper!Fresh
      BY <1>8, <1>i DEF Fresh
    <2>2. NetMapper!NoJobs = NoJobs
      BY Zenon DEF NetMapper!NoJobs, NoJobs
    <2>3. \E t : st = [hosts |-> <<>>, scanning |-> no, status |-> t, selected |-> z,
                       scroll |-> z, progress |-> z, jobs |-> NoJobs]
      BY <2>1, <2>2, <1>z DEF NetMapper!Fresh
    <2>4. /\ DOMAIN st = NetMapperFields /\ st.scanning = no /\ st.progress = z
          /\ st.jobs = NoJobs /\ st.hosts = <<>>
      BY <2>3 DEF NetMapperFields
    <2>5. <<>> \in Seq(Nat) /\ DOMAIN <<>> = {}
      OBVIOUS
    <2>6. NetMapperTyped
      BY <1>j, <2>4, <2>5 DEF NetMapperTyped
    <2>7. NetMapperOne
      BY <1>j, <1>z, <2>4, <2>5 DEF NetMapperOne, Pinging
    <2> QED BY <2>6, <2>7 DEF NetMapperInv
  <1>9. FirewallInv
    BY ListsInit DEF ListsInv
  <1> QED
    BY <1>1, <1>2, <1>3, <1>4, <1>5, <1>6, <1>7, <1>8, <1>9
    DEF ResultsInv, SpeedInv, NetMonInv, PacketsInv, WeatherInv, ScannerInv, NetToolsInv,
        MapsInv, NetMapperInv

\* And every step keeps it.
LEMMA ResultsKept == ResultsInv /\ [Next]_vars => ResultsInv'
  BY SpeedKept, NetMonKept, PacketsKept, WeatherKept, ScannerKept, NetToolsKept, MapsKept,
     NetMapperKept, FirewallKept, Zenon DEF ResultsInv

\* A screen has the results of its own request, once each, unless two requests
\* overlapped; sample and packet lists stay bounded, whatever number of threads
\* fill them; and the firewall shows the rules it deletes (ResultsOwn).
THEOREM ResultsStayOwn == Spec => []ResultsOwn
  <1>1. ResultsInv => ResultsOwn
    <2> SUFFICES ASSUME ResultsInv PROVE ResultsOwn
      OBVIOUS
    <2>c. \A S : /\ SpeedTest!Cardinality(S) = Cardinality(S)
                 /\ NetMon!Cardinality(S) = Cardinality(S)
                 /\ Packets!Cardinality(S) = Cardinality(S)
                 /\ NetMapper!Cardinality(S) = Cardinality(S)
      BY Zenon DEF Cardinality, SpeedTest!Cardinality, NetMon!Cardinality,
                   Packets!Cardinality, NetMapper!Cardinality
    <2>1. ASSUME App = "SpeedTest" PROVE SpeedTest!Own
      <3>1. st \in SpeedType /\ SpeedOwn
        BY <2>1 DEF ResultsInv, SpeedInv
      <3>2. SpeedTest!Running(st) = {j \in Jobs : st.jobs[j] # Idle}
        BY Zenon DEF SpeedTest!Running
      <3> SUFFICES ASSUME ~st.twice PROVE SpeedTest!Own
        BY DEF SpeedTest!Own
      <3>3. \A x, y \in SpeedTest!Running(st) : x = y
        BY <3>1, <3>2 DEF SpeedOwn
      <3>4. Cardinality(SpeedTest!Running(st)) <= 1
        <4>1. PICK S : S = SpeedTest!Running(st)
          OBVIOUS
        <4> QED BY <3>3, <4>1, AtMostOne
      <3>5. \A j \in SpeedTest!Running(st) : st.jobs[j] # "new" => st.running /\ st.status = st.jobs[j]
        BY <3>1, <3>2 DEF SpeedOwn
      <3>6. SpeedTest!Running(st) = {} => ~st.running
        BY <3>1, <3>2 DEF SpeedOwn
      <3> QED BY <2>c, <3>4, <3>5, <3>6, Zenon DEF SpeedTest!Own
    <2>2. ASSUME App = "NetMon" PROVE NetMon!Bounded
      <3>1. Held(st.jobs, {"full"}) = Cardinality({j \in Jobs : st.jobs[j] = "full"})
        <4>1. {k \in Jobs : st.jobs[k] \in {"full"}} = {j \in Jobs : st.jobs[j] = "full"}
          OBVIOUS
        <4> QED BY <4>1 DEF Held
      <3>2. st.history <= MaxHistory + Held(st.jobs, {"full"})
        BY <2>2, Zenon DEF ResultsInv, NetMonInv
      <3> QED BY <2>c, <3>1, <3>2, Zenon DEF NetMon!Bounded
    <2>3. ASSUME App = "Packets" PROVE Packets!Bounded
      <3>1. st.packets <= MaxPackets + Held(st.jobs, Dropping)
        BY <2>3, Zenon DEF ResultsInv, PacketsInv
      <3>2. Held(st.jobs, Dropping) = Cardinality({j \in Jobs : st.jobs[j] \in {"count", "pop"}})
        BY Zenon DEF Held, Dropping
      <3> QED BY <2>c, <3>1, <3>2, Zenon DEF Packets!Bounded
    <2>4. ASSUME App = "Weather" PROVE Weather!Own
      <3>1. WeatherTyped /\ WeatherData /\ WeatherOne
        BY <2>4 DEF ResultsInv, WeatherInv
      <3>2. Weather!Running(st) = {j \in Jobs : st.jobs[j] # Idle}
        BY Zenon DEF Weather!Running
      <3> QED BY <3>1, <3>2 DEF Weather!Own, WeatherTyped, WeatherData, WeatherOne, NoThread
    <2>5. ASSUME App = "Scanner" PROVE Scanner!Own
      BY <2>5 DEF ResultsInv, ScannerInv, ScannerOne, Scanner!Own
    <2>6. ASSUME App = "NetTools" PROVE NetTools!Own
      BY <2>6 DEF ResultsInv, NetToolsInv, NetToolsOne, NetTools!Own, NetTools!Output
    <2>7. ASSUME App = "Maps" PROVE Maps!Own
      <3>1. MapsTyped /\ MapsOne
        BY <2>7 DEF ResultsInv, MapsInv
      <3>2. Maps!Running(st) = {j \in Jobs : st.jobs[j] # Idle}
        BY Zenon DEF Maps!Running
      <3> QED BY <3>1, <3>2 DEF Maps!Own, Maps!Differ, MapsOne, OncePerAddress, OncePerRay, NoThread
    <2>8. ASSUME App = "NetMapper" PROVE NetMapper!Exact
      <3>1. NetMapperTyped /\ NetMapperOne
        BY <2>8 DEF ResultsInv, NetMapperInv
      <3>2. PICK S : S = {j \in NetMapper!Running(st) : st.jobs[j] <= LastAddr + 1}
        OBVIOUS
      <3>3. S = {j \in Jobs : Pinging(j)}
        BY <3>2 DEF NetMapper!Running, Pinging
      <3>4. st.scanning <=> Cardinality(S) = 1
        <4>1. CASE ~st.scanning
          <5>1. S = {}
            BY <3>1, <3>3, <4>1 DEF NetMapperOne
          <5> QED BY <4>1, <5>1, FS_EmptySet
        <4>2. CASE st.scanning
          <5>1. PICK j \in S : S = {j}
            BY <3>1, <3>3, <4>2 DEF NetMapperOne
          <5> QED BY <4>2, <5>1, FS_Singleton
        <4> QED BY <3>1, <4>1, <4>2 DEF NetMapperTyped
      <3>5. /\ \A a, b \in DOMAIN st.hosts : a < b => st.hosts[a] < st.hosts[b]
            /\ \A a \in DOMAIN st.hosts : st.hosts[a] <= st.progress
        BY <3>1, Zenon DEF NetMapperOne
      <3> QED BY <2>c, <3>2, <3>4, <3>5, Zenon DEF NetMapper!Exact
    <2>9. ASSUME App = "Firewall" PROVE Firewall!Current
      BY <2>9 DEF ResultsInv, FirewallInv
    <2> QED BY <2>1, <2>2, <2>3, <2>4, <2>5, <2>6, <2>7, <2>8, <2>9 DEF ResultsOwn
  <1> QED BY <1>1, ResultsInit, ResultsKept, PTL DEF Spec

==============================================================================
