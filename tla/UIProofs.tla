------------------------------- MODULE UIProofs --------------------------------
(***************************************************************************)
(* The safety properties of the shell, for any apps, icons and searches    *)
(* and any number of recent apps, rows and events between two drawings.    *)
(***************************************************************************)
EXTENDS JuliusUI, SequenceTheorems, TLAPS

-----------------------------------------------------------------------------
(* The inductive invariant *)

\* The overlays that belong to the home screen lie over no other.
HomeInv == shown \cap {"switcher", "cc", "notif", "spotlight"} # {} => screen = "home"

IInv == TypeOK /\ ShellConsistent /\ HomeInv

-----------------------------------------------------------------------------
(* The list of recent apps *)

Distinct(s) == \A i, j \in 1..Len(s) : s[i] = s[j] => i = j

\* A list without its i-th entry.
LEMMA RemoveAtProperties ==
    ASSUME NEW S, NEW s \in Seq(S), NEW i \in 1..Len(s)
    PROVE  /\ RemoveAt(s, i) \in Seq(S)
           /\ Len(RemoveAt(s, i)) = Len(s) - 1
           /\ \A j \in 1..(Len(s) - 1) : RemoveAt(s, i)[j] = s[IF j < i THEN j ELSE j + 1]
  <1> DEFINE a == SubSeq(s, 1, i - 1)
             b == SubSeq(s, i + 1, Len(s))
  <1>1. /\ a \in Seq(S) /\ Len(a) = i - 1
        /\ \A j \in 1..(i - 1) : a[j] = s[j]
    <2>1. \A j \in 1..(i - 1) : s[j] \in S
      OBVIOUS
    <2>2. /\ a \in Seq(S)
          /\ Len(a) = IF 1 <= i - 1 THEN (i - 1) - 1 + 1 ELSE 0
          /\ \A j \in 1..((i - 1) - 1 + 1) : a[j] = s[1 + j - 1]
      BY <2>1, SubSeqProperties
    <2> QED BY <2>2
  <1>2. /\ b \in Seq(S) /\ Len(b) = Len(s) - i
        /\ \A j \in 1..(Len(s) - i) : b[j] = s[i + j]
    <2>1. \A j \in (i + 1)..Len(s) : s[j] \in S
      OBVIOUS
    <2>2. /\ b \in Seq(S)
          /\ Len(b) = IF i + 1 <= Len(s) THEN Len(s) - (i + 1) + 1 ELSE 0
          /\ \A j \in 1..(Len(s) - (i + 1) + 1) : b[j] = s[(i + 1) + j - 1]
      BY <2>1, SubSeqProperties
    <2> QED BY <2>2
  <1>3. /\ a \o b \in Seq(S)
        /\ Len(a \o b) = Len(a) + Len(b)
        /\ \A j \in 1..(Len(a) + Len(b)) : (a \o b)[j] = IF j <= Len(a) THEN a[j] ELSE b[j - Len(a)]
    BY <1>1, <1>2, ConcatProperties
  <1> HIDE DEF a, b
  <1>4. \A j \in 1..(Len(s) - 1) : (a \o b)[j] = s[IF j < i THEN j ELSE j + 1]
    BY <1>1, <1>2, <1>3
  <1>5. RemoveAt(s, i) = a \o b
    BY DEF RemoveAt, a, b
  <1>6. Len(a \o b) = Len(s) - 1
    BY <1>1, <1>2, <1>3
  <1> QED BY <1>3, <1>4, <1>5, <1>6

\* remove() takes an app off a list that has every app once.
LEMMA RemoveFromDistinct ==
    ASSUME NEW S, NEW s \in Seq(S), Distinct(s), NEW e
    PROVE  /\ RemoveFirst(s, e) \in Seq(S) /\ Distinct(RemoveFirst(s, e))
           /\ Len(RemoveFirst(s, e)) <= Len(s)
           /\ \A i \in 1..Len(RemoveFirst(s, e)) : RemoveFirst(s, e)[i] # e
  <1>1. CASE ~\E i \in 1..Len(s) : s[i] = e
    BY <1>1 DEF RemoveFirst
  <1>2. ASSUME NEW k \in 1..Len(s), s[k] = e PROVE RemoveFirst(s, e) = RemoveAt(s, k)
    <2>1. {i \in 1..Len(s) : s[i] = e} = {k}
      BY <1>2 DEF Distinct
    <2>2. Min({k}) = k
      BY DEF Min
    <2>3. SelectInSeq(s, LAMBDA v : v = e) = k
      BY <2>1, <2>2, Zenon DEF SelectInSeq
    <2> QED BY <1>2, <2>3 DEF RemoveFirst
  <1>3. ASSUME NEW k \in 1..Len(s), s[k] = e
        PROVE  /\ RemoveAt(s, k) \in Seq(S) /\ Distinct(RemoveAt(s, k))
               /\ Len(RemoveAt(s, k)) <= Len(s)
               /\ \A i \in 1..Len(RemoveAt(s, k)) : RemoveAt(s, k)[i] # e
    <2> DEFINE r == RemoveAt(s, k)
    <2>1. /\ r \in Seq(S) /\ Len(r) = Len(s) - 1
          /\ \A j \in 1..(Len(s) - 1) : r[j] = s[IF j < k THEN j ELSE j + 1]
      BY RemoveAtProperties
    <2> HIDE DEF r
    <2>2. ASSUME NEW i \in 1..Len(r) PROVE r[i] # e
      BY <1>3, <2>1 DEF Distinct
    <2>3. ASSUME NEW i \in 1..Len(r), NEW j \in 1..Len(r), r[i] = r[j] PROVE i = j
      BY <2>1, <2>3 DEF Distinct
    <2>4. Distinct(r)
      BY <2>3 DEF Distinct
    <2> QED BY <2>1, <2>2, <2>4 DEF r
  <1> QED BY <1>1, <1>2, <1>3

\* The front of a list that has every app once does too.
LEMMA FrontDistinct ==
    ASSUME NEW S, NEW s \in Seq(S), Distinct(s), NEW n \in 1..Len(s)
    PROVE  /\ SubSeq(s, 1, n) \in Seq(S) /\ Len(SubSeq(s, 1, n)) = n
           /\ Distinct(SubSeq(s, 1, n)) /\ SubSeq(s, 1, n)[1] = s[1]
  <1>1. \A i \in 1..n : s[i] \in S
    OBVIOUS
  <1>2. /\ SubSeq(s, 1, n) \in Seq(S) /\ Len(SubSeq(s, 1, n)) = n
        /\ \A i \in 1..n : SubSeq(s, 1, n)[i] = s[1 + i - 1]
    BY <1>1, SubSeqProperties
  <1> QED BY <1>2 DEF Distinct

\* What opening an app makes of the list: the app is first, every app is there once,
\* and the list is not too long.
LEMMA AddRecent ==
    ASSUME recent \in Seq(Apps), Distinct(recent), NEW name \in Apps
    PROVE  /\ add_recent(name) \in Seq(Apps) /\ Len(add_recent(name)) \in 1..MaxRecent
           /\ Distinct(add_recent(name)) /\ add_recent(name)[1] = name
  <1> DEFINE rest == RemoveFirst(recent, name)
             moved == <<name>> \o rest
             n == IF Len(moved) > MaxRecent THEN MaxRecent ELSE Len(moved)
  <1>1. rest \in Seq(Apps) /\ Distinct(rest) /\ \A i \in 1..Len(rest) : rest[i] # name
    BY RemoveFromDistinct
  <1> HIDE DEF rest
  <1>2. /\ moved \in Seq(Apps) /\ Len(moved) = 1 + Len(rest)
        /\ moved[1] = name /\ \A i \in 2..Len(moved) : moved[i] = rest[i - 1]
    <2>1. <<name>> \in Seq(Apps) /\ Len(<<name>>) = 1 /\ <<name>>[1] = name
      OBVIOUS
    <2>2. /\ moved \in Seq(Apps) /\ Len(moved) = 1 + Len(rest)
          /\ \A i \in 1..(1 + Len(rest)) : moved[i] = IF i <= 1 THEN <<name>>[i] ELSE rest[i - 1]
      BY <1>1, <2>1, ConcatProperties
    <2> QED BY <1>1, <2>1, <2>2
  <1> HIDE DEF moved
  <1>3. Distinct(moved)
    <2>1. ASSUME NEW i \in 1..Len(moved), NEW j \in 1..Len(moved), moved[i] = moved[j] PROVE i = j
      <3>1. CASE i = 1 \/ j = 1
        BY <3>1, <2>1, <1>1, <1>2
      <3>2. CASE i # 1 /\ j # 1
        <4>1. Len(rest) \in Nat /\ i - 1 \in 1..Len(rest) /\ j - 1 \in 1..Len(rest)
          BY <3>2, <1>1, <1>2
        <4>2. rest[i - 1] = rest[j - 1]
          BY <3>2, <2>1, <1>2
        <4>3. i - 1 = j - 1
          BY <4>1, <4>2, <1>1 DEF Distinct
        <4> QED BY <4>3
      <3> QED BY <3>1, <3>2
    <2> QED BY <2>1 DEF Distinct
  <1>4. n \in 1..Len(moved) /\ n \in 1..MaxRecent
    BY <1>1, <1>2, UIAssumption
  <1>5. add_recent(name) = SubSeq(moved, 1, n)
    BY DEF add_recent, moved, rest
  <1> HIDE DEF n
  <1> QED BY <1>2, <1>3, <1>4, <1>5, FrontDistinct

-----------------------------------------------------------------------------
(* Touches *)

\* A touch that comes to a screen finds no overlay over it.
LEMMA TouchScreen ==
    ASSUME IInv, NEW r \in {"lock", "home", "app", "settings"}, Touch(r)
    PROVE  shown = {} /\ screen = r /\ Event /\ UNCHANGED <<drawn, selected>>
  BY DEF IInv, TypeOK, Touch, Receives, First, Overlays, Panels

\* A touch that comes to an overlay finds it alone.
LEMMA TouchOverlay ==
    ASSUME IInv, NEW o \in Overlays, Touch(o)
    PROVE  shown = {o} /\ Event /\ UNCHANGED <<drawn, selected>>
  BY DEF IInv, TypeOK, Touch, Receives, First, Overlays, Panels, ShellConsistent

\* Every event counts.
LEMMA EventCounts ==
    ASSUME IInv, Event
    PROVE  pending' \in 0..Batch /\ process = "running"
  BY UIAssumption DEF IInv, TypeOK, Event

\* Opening an app, a panel or the settings from the home screen, with nothing left over it.
LEMMA OpenApp ==
    ASSUME IInv, screen # "app", NEW name, NEW flags, flags = {},
           NEW views \in SUBSET Overlays, open_app(name, flags, views)
    PROVE  /\ screen' \in {"home", "app", "settings", screen} /\ current_app' \in Apps \cup {None}
           /\ recent' \in Seq(Apps) /\ Len(recent') <= MaxRecent
           /\ shown' \subseteq Overlays /\ visible' \subseteq Overlays
           /\ UNCHANGED <<swipe_count, current_page, settings_scroll>>
           /\ ShellConsistent' /\ HomeInv'
  <1>t. TypeOK /\ ShellConsistent /\ current_app = None /\ "Settings" \notin Apps
    BY UIAssumption DEF IInv, ShellConsistent
  <1>d. Distinct(recent) /\ recent \in Seq(Apps)
    BY <1>t DEF ShellConsistent, Distinct, TypeOK
  <1>1. /\ shown' = {name} \cap Panels /\ visible' = views \cup ({name} \cap Panels)
        /\ UNCHANGED <<swipe_count, current_page, settings_scroll>>
    BY DEF open_app
  <1>2. shown' \subseteq Overlays /\ visible' \subseteq Overlays
    BY <1>1 DEF Overlays
  <1>3. HomeInv' /\ \A o, p \in shown' : o = p
    BY <1>1 DEF HomeInv, Panels
  <1>4. CASE name \in Apps
    <2>1. screen' = "app" /\ current_app' = name /\ recent' = add_recent(name)
      BY <1>4, <1>t DEF open_app
    <2>2. /\ recent' \in Seq(Apps) /\ Len(recent') \in 1..MaxRecent
          /\ Distinct(recent') /\ recent'[1] = name
      BY <1>4, <1>d, <2>1, AddRecent
    <2>3. Len(recent') <= MaxRecent /\ recent' # <<>> /\ Head(recent') = name
      BY <2>2, UIAssumption
    <2>4. name # None
      BY <1>4, UIAssumption
    <2>5. ShellConsistent'
      BY <1>3, <2>1, <2>2, <2>3, <2>4 DEF ShellConsistent, Distinct
    <2> QED BY <1>1, <1>2, <1>3, <1>4, <2>1, <2>2, <2>3, <2>5
  <1>5. CASE name \notin Apps
    <2>1. screen' \in {"settings", screen} /\ current_app' = None /\ recent' = recent
      BY <1>5, <1>t DEF open_app
    <2>2. ShellConsistent'
      BY <1>3, <1>t, <2>1 DEF ShellConsistent
    <2> QED BY <1>1, <1>2, <1>3, <1>t, <2>1, <2>2 DEF TypeOK
  <1> QED BY <1>4, <1>5

\* A step that leaves the screen, the app and the list and sets no flag keeps them
\* consistent.
LEMMA QuietShell ==
    ASSUME IInv, UNCHANGED <<screen, current_app, recent>>, shown' \subseteq shown
    PROVE  ShellConsistent' /\ HomeInv' /\ (screen = "lock" => screen' = "lock" /\ recent' = recent)
  BY DEF IInv, ShellConsistent, HomeInv

\* What a step may do: keep the invariant, and on a locked device open nothing.
Kept == IInv' /\ (screen = "lock" => screen' \in {"lock", "home"} /\ recent' = recent)

\* The switcher.
LEMMA SwitcherKept ==
    ASSUME IInv, NEW g \in Gestures,
           SwitcherSwipe(g) \/ \E name \in Apps : SwitcherClose(g, name) \/ SwitcherOpen(g, name)
    PROVE  Kept
  <1>1. /\ shown = {"switcher"} /\ Event /\ UNCHANGED <<drawn, selected, results>>
        /\ process' \in {process, "crashed"}
    <2>1. Touch("switcher") /\ UNCHANGED results /\ process' \in {process, "crashed"}
      BY DEF SwitcherSwipe, SwitcherClose, SwitcherOpen, HitsCard
    <2> QED BY <2>1, TouchOverlay DEF Overlays
  <1>2. pending' \in 0..Batch /\ process = "running" /\ screen = "home"
    BY <1>1, EventCounts DEF IInv, HomeInv
  <1>t. TypeOK /\ ShellConsistent
    BY DEF IInv
  <1>3. CASE SwitcherSwipe(g)
    <2>1. UNCHANGED <<place, recent>> /\ shown' \subseteq shown /\ visible' \subseteq visible
      BY <1>3 DEF SwitcherSwipe
    <2>2. TypeOK'
      BY <2>1, <1>1, <1>2, <1>t DEF TypeOK, place, drawn
    <2> QED BY <2>1, <2>2, QuietShell DEF Kept, IInv, place
  <1>4. ASSUME NEW name \in Apps, SwitcherClose(g, name) PROVE Kept
    <2>1. UNCHANGED place /\ shown' \subseteq shown /\ visible' \subseteq visible
          /\ recent' \in {recent, RemoveFirst(recent, name)}
      BY <1>4 DEF SwitcherClose
    <2>2. Distinct(recent) /\ recent \in Seq(Apps) /\ Len(recent) <= MaxRecent
      BY <1>t DEF ShellConsistent, Distinct, TypeOK
    <2>3. /\ RemoveFirst(recent, name) \in Seq(Apps) /\ Distinct(RemoveFirst(recent, name))
          /\ Len(RemoveFirst(recent, name)) <= Len(recent)
      BY <2>2, RemoveFromDistinct
    <2>4. recent' \in Seq(Apps) /\ Distinct(recent') /\ Len(recent') <= MaxRecent
      BY <2>1, <2>2, <2>3, UIAssumption
    <2>5. TypeOK'
      BY <2>1, <2>4, <1>1, <1>2, <1>t DEF TypeOK, place, drawn
    <2>6. ShellConsistent' /\ HomeInv'
      BY <2>1, <2>4, <1>1, <1>2, <1>t DEF ShellConsistent, HomeInv, Distinct, place
    <2> QED BY <2>5, <2>6, <1>2 DEF Kept, IInv
  <1>5. ASSUME NEW name \in Apps, SwitcherOpen(g, name) PROVE Kept
    <2>1. CASE "down" \in g
      <3>1. UNCHANGED <<place, recent>> /\ shown' \subseteq shown /\ visible' \subseteq visible
        BY <2>1, <1>5 DEF SwitcherOpen
      <3>2. TypeOK'
        BY <3>1, <1>1, <1>2, <1>t DEF TypeOK, place, drawn
      <3> QED BY <3>1, <3>2, QuietShell DEF Kept, IInv, place
    <2>2. CASE "down" \notin g
      <3>1. open_app(name, shown \ {"switcher"}, visible \ {"switcher"}) /\ shown \ {"switcher"} = {}
        BY <2>2, <1>5, <1>1 DEF SwitcherOpen
      <3>2. visible \ {"switcher"} \in SUBSET Overlays
        BY <1>t DEF TypeOK
      <3>3. /\ screen' \in {"home", "app", "settings", screen} /\ current_app' \in Apps \cup {None}
            /\ recent' \in Seq(Apps) /\ Len(recent') <= MaxRecent
            /\ shown' \subseteq Overlays /\ visible' \subseteq Overlays
            /\ UNCHANGED <<swipe_count, current_page, settings_scroll>>
            /\ ShellConsistent' /\ HomeInv'
        BY <3>1, <3>2, <1>2, OpenApp
      <3>4. TypeOK'
        BY <3>3, <1>1, <1>2, <1>t DEF TypeOK, drawn
      <3> QED BY <3>3, <3>4, <1>2 DEF Kept, IInv
    <2> QED BY <2>1, <2>2
  <1> QED BY <1>3, <1>4, <1>5

\* The control center, the notifications and the panels.
LEMMA OverlayKept ==
    ASSUME IInv, NEW g \in Gestures,
           \/ PanelTouch(g)
           \/ \E hit \in {"above", "wifi", "panel"} : ControlTouch(g, hit)
           \/ \E b \in BOOLEAN : NotifTouch(g, b) \/ SpotlightMiss(b)
    PROVE  Kept
  <1>t. TypeOK
    BY DEF IInv
  <1>1. /\ Event /\ UNCHANGED <<drawn, selected, results, place, recent>>
        /\ shown' \subseteq shown /\ visible' \subseteq visible /\ process' \in {process, "crashed"}
    <2>1. CASE PanelTouch(g)
      <3>1. PICK p \in Panels : /\ Touch(p) /\ UNCHANGED <<place, recent, results, process>>
                                /\ shown' \subseteq shown /\ visible' \subseteq visible
        BY <2>1 DEF PanelTouch
      <3> QED BY <3>1, TouchOverlay DEF Overlays
    <2>2. ASSUME NEW hit \in {"above", "wifi", "panel"}, ControlTouch(g, hit) PROVE <1>1
      BY <2>2, TouchOverlay DEF ControlTouch, Overlays
    <2>3. ASSUME NEW b \in BOOLEAN, NotifTouch(g, b) \/ SpotlightMiss(b) PROVE <1>1
      BY <2>3, TouchOverlay DEF NotifTouch, SpotlightMiss, Overlays
    <2> QED BY <2>1, <2>2, <2>3
  <1>2. TypeOK'
    BY <1>1, <1>t, EventCounts DEF TypeOK, place, drawn
  <1> QED BY <1>1, <1>2, QuietShell DEF Kept, IInv, place

\* What choosing a result of the search does.
LEMMA ChooseKept ==
    ASSUME IInv, shown = {"spotlight"}, Event, UNCHANGED <<drawn, selected, results, process>>,
           NEW res, Choose(res)
    PROVE  Kept
  <1>t. TypeOK
    BY DEF IInv
  <1>1. screen = "home" /\ pending' \in 0..Batch
    BY EventCounts DEF IInv, HomeInv
  <1>2. CASE res = Command
    <2>1. UNCHANGED <<place, recent, shown, visible>>
      BY <1>2 DEF Choose
    <2>2. TypeOK'
      BY <2>1, <1>1, <1>t DEF TypeOK, place, drawn
    <2> QED BY <2>1, <2>2, QuietShell DEF Kept, IInv, place
  <1>3. CASE res # Command
    <2>1. open_app(res, shown \ {"spotlight"}, visible) /\ shown \ {"spotlight"} = {}
      BY <1>3 DEF Choose
    <2>2. visible \in SUBSET Overlays
      BY <1>t DEF TypeOK
    <2>3. /\ screen' \in {"home", "app", "settings", screen} /\ current_app' \in Apps \cup {None}
          /\ recent' \in Seq(Apps) /\ Len(recent') <= MaxRecent
          /\ shown' \subseteq Overlays /\ visible' \subseteq Overlays
          /\ UNCHANGED <<swipe_count, current_page, settings_scroll>>
          /\ ShellConsistent' /\ HomeInv'
      BY <2>1, <2>2, <1>1, OpenApp
    <2>4. TypeOK'
      BY <2>3, <1>1, <1>t DEF TypeOK, drawn
    <2> QED BY <2>3, <2>4, <1>1 DEF Kept, IInv
  <1> QED BY <1>2, <1>3

\* The screens.
LEMMA ScreenKept ==
    ASSUME IInv, NEW g \in Gestures, ScreenTouch(g)
    PROVE  Kept
  <1>t. TypeOK /\ ShellConsistent
    BY DEF IInv
  <1>p. Event => pending' \in 0..Batch
    BY EventCounts
  <1>1. CASE LockTouch(g)
    <2>1. shown = {} /\ screen = "lock" /\ Event /\ UNCHANGED <<drawn, selected>>
      BY <1>1, TouchScreen DEF LockTouch
    <2>2. /\ screen' \in {"lock", "home"} /\ swipe_count' \in 0..1
          /\ UNCHANGED <<current_app, current_page, settings_scroll, recent, shown, visible, results,
                         process>>
      <3>1. swipe_count \in 0..1
        BY <1>t DEF TypeOK
      <3>2. CASE "left" \in g
        BY <3>1, <3>2, <2>1, <1>1 DEF LockTouch
      <3>3. CASE "left" \notin g
        BY <3>1, <3>3, <2>1, <1>1 DEF LockTouch
      <3> QED BY <3>2, <3>3
    <2>3. TypeOK'
      BY <2>1, <2>2, <1>p, <1>t DEF TypeOK, drawn
    <2> QED BY <2>1, <2>2, <2>3, <1>t DEF Kept, IInv, ShellConsistent, HomeInv
  <1>2. ASSUME NEW o \in Overlays, Shows(o), results' \in {results, <<>>} PROVE Kept
    <2>1. shown = {} /\ screen = "home" /\ Event /\ UNCHANGED <<drawn, selected>>
      BY <1>2, TouchScreen DEF Shows
    <2>2. shown' = {o} /\ visible' = visible \cup {o} /\ UNCHANGED <<place, recent, process>>
      BY <1>2, <2>1 DEF Shows
    <2>3. results' \in Searches
      BY <1>2, <1>t, UIAssumption DEF TypeOK
    <2>4. TypeOK'
      BY <2>1, <2>2, <2>3, <1>p, <1>t DEF TypeOK, drawn, place
    <2>5. ShellConsistent' /\ HomeInv'
      BY <2>1, <2>2, <1>t DEF ShellConsistent, HomeInv, place
    <2> QED BY <2>1, <2>4, <2>5 DEF Kept, IInv
  <1>3. ASSUME NEW edge \in BOOLEAN, HomeLock(g, edge) PROVE Kept
    <2>1. shown = {} /\ screen = "home" /\ Event /\ UNCHANGED <<drawn, selected>>
      BY <1>3, TouchScreen DEF HomeLock
    <2>2. /\ screen' = "lock" /\ swipe_count' = 0
          /\ UNCHANGED <<current_app, current_page, settings_scroll, recent, shown, visible, results,
                         process>>
      BY <1>3 DEF HomeLock
    <2>3. TypeOK'
      BY <2>1, <2>2, <1>p, <1>t DEF TypeOK, drawn
    <2> QED BY <2>1, <2>2, <2>3, <1>t DEF Kept, IInv, ShellConsistent, HomeInv
  <1>4. CASE TurnPage(g)
    <2>1. shown = {} /\ screen = "home" /\ Event /\ UNCHANGED <<drawn, selected>>
      BY <1>4, TouchScreen DEF TurnPage
    <2>2. /\ current_page' \in 0..1
          /\ UNCHANGED <<screen, swipe_count, current_app, settings_scroll, recent, shown, visible,
                         results, process>>
      BY <1>4 DEF TurnPage
    <2>3. TypeOK'
      BY <2>1, <2>2, <1>p, <1>t DEF TypeOK, drawn
    <2> QED BY <2>2, <2>3, QuietShell DEF Kept, IInv
  <1>5. ASSUME NEW name \in Names, TapIcon(name) PROVE Kept
    <2>1. shown = {} /\ screen = "home" /\ Event /\ UNCHANGED <<drawn, selected>>
      BY <1>5, TouchScreen DEF TapIcon
    <2>2. open_app(name, shown, visible) /\ UNCHANGED <<results, process>> /\ visible \in SUBSET Overlays
      BY <1>5, <1>t DEF TapIcon, TypeOK
    <2>3. /\ screen' \in {"home", "app", "settings", screen} /\ current_app' \in Apps \cup {None}
          /\ recent' \in Seq(Apps) /\ Len(recent') <= MaxRecent
          /\ shown' \subseteq Overlays /\ visible' \subseteq Overlays
          /\ UNCHANGED <<swipe_count, current_page, settings_scroll>>
          /\ ShellConsistent' /\ HomeInv'
      BY <2>1, <2>2, OpenApp
    <2>4. TypeOK'
      BY <2>1, <2>2, <2>3, <1>p, <1>t DEF TypeOK, drawn
    <2> QED BY <2>1, <2>3, <2>4 DEF Kept, IInv
  <1>6. ASSUME NEW edge \in BOOLEAN, AppTouch(g, edge) PROVE Kept
    <2>1. shown = {} /\ screen = "app" /\ Event /\ UNCHANGED <<drawn, selected>>
      BY <1>6, TouchScreen DEF AppTouch
    <2>2. /\ screen' = "home" /\ current_app' = None
          /\ UNCHANGED <<swipe_count, current_page, settings_scroll, recent, shown, visible, results,
                         process>>
      BY <1>6 DEF AppTouch
    <2>3. TypeOK'
      BY <2>1, <2>2, <1>p, <1>t DEF TypeOK, drawn
    <2> QED BY <2>1, <2>2, <2>3, <1>t DEF Kept, IInv, ShellConsistent, HomeInv
  <1>7. CASE SettingsTouch(g)
    <2>1. shown = {} /\ screen = "settings" /\ Event /\ UNCHANGED <<drawn, selected>>
      BY <1>7, TouchScreen DEF SettingsTouch
    <2>2. settings_scroll' \in 0..MaxScroll
      BY <1>7, <1>t, UIAssumption DEF SettingsTouch, SettingsScroll, TypeOK
    <2>3. /\ screen' \in {"home", "settings"}
          /\ UNCHANGED <<swipe_count, current_app, current_page, recent, shown, visible, results, process>>
      BY <1>7, <2>1 DEF SettingsTouch
    <2>4. TypeOK'
      BY <2>1, <2>2, <2>3, <1>p, <1>t DEF TypeOK, drawn
    <2> QED BY <2>1, <2>3, <2>4, <1>t DEF Kept, IInv, ShellConsistent, HomeInv
  <1>8. ASSUME NEW edge \in BOOLEAN,
               \/ ShowNotif(g, edge) \/ ShowControl(g, edge) \/ ShowSwitcher(g, edge)
               \/ ShowSpotlight(g, edge)
        PROVE  Kept
    BY <1>2, <1>8 DEF ShowNotif, ShowControl, ShowSwitcher, ShowSpotlight, Overlays
  <1> QED BY <1>1, <1>3, <1>4, <1>5, <1>6, <1>7, <1>8 DEF ScreenTouch

-----------------------------------------------------------------------------
(* Keys, the wheel and drawing *)

\* The keys of the search.
LEMMA SearchKept ==
    ASSUME IInv,
           \/ \E g \in Gestures, res \in Names \cup {Command} : SpotlightHit(res)
           \/ \E char \in BOOLEAN : SpotlightType(char)
           \/ \E d \in {-1, 1} : SpotlightArrow(d)
           \/ SpotlightReturn
    PROVE  Kept
  <1>t. TypeOK /\ ShellConsistent
    BY DEF IInv
  <1>r. \A r \in Searches : Len(r) \in Nat
    BY UIAssumption
  <1>1. ASSUME NEW res, SpotlightHit(res) PROVE Kept
    <2>1. shown = {"spotlight"} /\ Event /\ UNCHANGED <<drawn, selected>>
      BY <1>1, TouchOverlay DEF SpotlightHit, Overlays
    <2>2. Choose(res) /\ UNCHANGED <<results, process>>
      BY <1>1 DEF SpotlightHit
    <2> QED BY <2>1, <2>2, ChooseKept
  <1>2. CASE SpotlightReturn
    <2>1. shown = {"spotlight"}
      BY <1>2, <1>t DEF SpotlightReturn, ShellConsistent
    <2>2. Event /\ UNCHANGED <<drawn, selected, results, process>>
      BY <1>2 DEF SpotlightReturn, Key, search
    <2>3. Choose(results[IF selected = -1 THEN Len(results) ELSE selected + 1])
      BY <1>2 DEF SpotlightReturn
    <2> QED BY <2>1, <2>2, <2>3, ChooseKept
  <1>3. ASSUME NEW char \in BOOLEAN, SpotlightType(char) PROVE Kept
    <2>1. /\ Event /\ UNCHANGED <<drawn, place, recent, shown, visible, process>>
          /\ results' \in Searches /\ selected' \in {0, selected}
      BY <1>3 DEF SpotlightType, Key, SearchAgain
    <2>2. \E r \in Searches : selected' \in {-1, 0} \cup 0..(Len(r) - 1)
      BY <2>1, <1>t DEF TypeOK
    <2>3. TypeOK'
      BY <2>1, <2>2, <1>t, EventCounts DEF TypeOK, drawn, place
    <2> QED BY <2>1, <2>3, QuietShell DEF Kept, IInv, place
  <1>4. ASSUME NEW d \in {-1, 1}, SpotlightArrow(d) PROVE Kept
    <2>1. /\ Event /\ UNCHANGED <<drawn, place, recent, shown, visible, results, process>>
          /\ selected' = IF d = 1
                         THEN IF selected + 1 < Len(results) - 1 THEN selected + 1 ELSE Len(results) - 1
                         ELSE IF selected - 1 > 0 THEN selected - 1 ELSE 0
      BY <1>4 DEF SpotlightArrow, Key
    <2>2. PICK r \in Searches : selected \in {-1, 0} \cup 0..(Len(r) - 1)
      BY <1>t DEF TypeOK
    <2>3. Len(r) \in Nat /\ Len(results) \in Nat /\ results \in Searches
      BY <1>r, <1>t DEF TypeOK
    <2>4. \E q \in Searches : selected' \in {-1, 0} \cup 0..(Len(q) - 1)
      <3>1. CASE d = 1
        BY <3>1, <2>1, <2>2, <2>3
      <3>2. CASE d # 1
        BY <3>2, <2>1, <2>2, <2>3
      <3> QED BY <3>1, <3>2
    <2>5. TypeOK'
      BY <2>1, <2>4, <1>t, EventCounts DEF TypeOK, drawn, place
    <2> QED BY <2>1, <2>5, QuietShell DEF Kept, IInv, place
  <1> QED BY <1>1, <1>2, <1>3, <1>4

\* Escape.
LEMMA EscapeKept == IInv /\ Escape => Kept
  <1> SUFFICES ASSUME IInv, Escape PROVE Kept
    OBVIOUS
  <1>t. TypeOK /\ ShellConsistent /\ HomeInv
    BY DEF IInv
  <1>1. /\ Event /\ UNCHANGED <<drawn, recent, search, process>>
        /\ \/ UNCHANGED <<shown, visible, place>>
           \/ \E o \in Overlays : EscapeOverlay(o)
           \/ shown \subseteq Panels /\ EscapeScreen
    BY <1>t, Zenon DEF Escape, Key, Overlays, Panels, TypeOK
  <1>2. pending' \in 0..Batch
    BY <1>1, EventCounts
  <1>3. CASE UNCHANGED <<shown, visible, place>> \/ \E o \in Overlays : EscapeOverlay(o)
    <2>1. UNCHANGED place /\ shown' \subseteq shown /\ visible' \subseteq visible
      BY <1>3 DEF EscapeOverlay
    <2>2. TypeOK'
      BY <2>1, <1>1, <1>2, <1>t DEF TypeOK, drawn, place, search
    <2> QED BY <2>1, <2>2, <1>1, QuietShell DEF Kept, IInv, place
  <1>4. CASE shown \subseteq Panels /\ EscapeScreen
    <2>1. /\ UNCHANGED <<shown, visible, current_page, settings_scroll>> /\ swipe_count' \in {swipe_count, 0}
          /\ screen' \in {"home", "lock"} /\ current_app' = None
          /\ screen = "lock" => screen' = "lock"
      BY <1>4, <1>t DEF EscapeScreen, TypeOK, ShellConsistent
    <2>2. TypeOK'
      BY <2>1, <1>1, <1>2, <1>t DEF TypeOK, drawn, search
    <2>3. ShellConsistent'
      BY <2>1, <1>1, <1>t DEF ShellConsistent
    <2>4. HomeInv'
      BY <2>1, <1>4 DEF HomeInv, Panels
    <2> QED BY <2>1, <2>2, <2>3, <2>4, <1>1 DEF Kept, IInv
  <1> QED BY <1>1, <1>3, <1>4

\* The wheel, the end and the drawing of a frame.
LEMMA FrameKept ==
    ASSUME IInv, (\E y \in {-1, 1} : Wheel(y)) \/ Quit \/ Draw
    PROVE  Kept
  <1>t. TypeOK
    BY DEF IInv
  <1>1. ASSUME NEW y \in {-1, 1}, Wheel(y) PROVE Kept
    <2>1. settings_scroll' \in 0..MaxScroll
      BY <1>1, <1>t, UIAssumption DEF Wheel, SettingsScroll, TypeOK
    <2>2. TypeOK'
      BY <2>1, <1>1, <1>t, EventCounts DEF Wheel, TypeOK, drawn, search
    <2> QED BY <2>2, <1>1, QuietShell DEF Wheel, Kept, IInv
  <1>2. CASE Quit
    <2>1. TypeOK'
      BY <1>2, <1>t, EventCounts DEF Quit, TypeOK, drawn, search, place
    <2> QED BY <2>1, <1>2, QuietShell DEF Quit, Kept, IInv, place
  <1>3. CASE Draw
    <2>1. card_rects' = None \/ card_rects' \in Seq(Apps)
      BY <1>3, <1>t DEF Draw, DrawSwitcher, TypeOK
    <2>2. result_rects' = None \/ result_rects' \in Seq(Names \cup {Command})
      <3> DEFINE n == IF Len(results) > MaxRows THEN MaxRows ELSE Len(results)
                 front == SubSeq(results, 1, n)
      <3>1. results \in Seq(Names \cup {Command})
        BY <1>t, UIAssumption DEF TypeOK
      <3>2. n \in Nat /\ n <= Len(results)
        BY <3>1, UIAssumption
      <3>3. \A i \in 1..n : results[i] \in Names \cup {Command}
        BY <3>1, <3>2
      <3> HIDE DEF n
      <3>4. front \in Seq(Names \cup {Command})
        BY <3>2, <3>3, SubSeqProperties
      <3>5. result_rects' \in {front, result_rects}
        BY <1>3 DEF Draw, DrawSpotlight, n
      <3> QED BY <3>4, <3>5, <1>t DEF TypeOK
    <2>3. toggle_rects' \in BOOLEAN
      BY <1>3, <1>t DEF Draw, DrawControl, TypeOK
    <2>4. pending' \in 0..Batch
      BY <1>3, UIAssumption DEF Draw
    <2>5. TypeOK'
      BY <2>1, <2>2, <2>3, <2>4, <1>3, <1>t DEF Draw, TypeOK, search, place
    <2> QED BY <2>5, <1>3, QuietShell DEF Draw, Kept, IInv, place
  <1> QED BY <1>1, <1>2, <1>3

-----------------------------------------------------------------------------
(* The theorems *)

\* The shell starts on the lock screen with nothing over it.
LEMMA InitIInv == Init => IInv
  <1> SUFFICES ASSUME Init PROVE IInv
    OBVIOUS
  <1>1. <<>> \in Seq(Apps) /\ Len(<<>>) = 0 /\ <<>> \in Searches
    BY UIAssumption
  <1>2. TypeOK
    <2>1. \E r \in Searches : selected \in {-1, 0} \cup 0..(Len(r) - 1)
      BY <1>1 DEF Init
    <2>2. 0 \in 0..MaxScroll /\ 0 \in 0..Batch /\ 0 \in 0..1 /\ Len(recent) <= MaxRecent
      BY <1>1, UIAssumption DEF Init
    <2> QED BY <1>1, <2>1, <2>2 DEF Init, TypeOK
  <1> QED BY <1>1, <1>2 DEF Init, IInv, ShellConsistent, HomeInv

\* Every step keeps the invariant and opens nothing on a locked device.
LEMMA StepKept == IInv /\ [Next]_vars => Kept
  <1> SUFFICES ASSUME IInv, [Next]_vars PROVE Kept
    OBVIOUS
  <1>1. ASSUME NEW g \in Gestures, OverlayTouch(g) PROVE Kept
    BY <1>1, SwitcherKept, OverlayKept, SearchKept DEF OverlayTouch
  <1>2. ASSUME NEW g \in Gestures, ScreenTouch(g) PROVE Kept
    BY <1>2, ScreenKept
  <1>3. CASE Keyboard
    BY <1>3, SearchKept, EscapeKept DEF Keyboard
  <1>4. CASE (\E y \in {-1, 1} : Wheel(y)) \/ Quit \/ Draw
    BY <1>4, FrameKept
  <1>5. CASE UNCHANGED vars
    <2>1. TypeOK'
      BY <1>5 DEF IInv, TypeOK, vars
    <2> QED BY <2>1, <1>5, QuietShell DEF Kept, IInv, vars
  <1> QED BY <1>1, <1>2, <1>3, <1>4, <1>5 DEF Next

\* The invariant holds throughout.
THEOREM Invariant == Spec => []IInv
  <1>1. Init => IInv
    BY InitIInv
  <1>2. IInv /\ [Next]_vars => IInv'
    BY StepKept DEF Kept
  <1> QED BY <1>1, <1>2, PTL DEF Spec

\* The variables keep their types: no page, scroll or selection is ever out of range.
THEOREM TypeCorrect == Spec => []TypeOK
  <1>1. IInv => TypeOK
    BY DEF IInv
  <1> QED BY <1>1, Invariant, PTL

\* The shell's flags, names and lists say the same thing: one overlay at most receives
\* events, the app screen has its app, the switcher lists every app once and the one in
\* use first.
THEOREM Consistent == Spec => []ShellConsistent
  <1>1. IInv => ShellConsistent
    BY DEF IInv
  <1> QED BY <1>1, Invariant, PTL

\* Nothing is opened on a locked device, whatever lies over the lock screen.
THEOREM NothingOpensLocked == Spec => LockHolds
  <1>1. IInv /\ [Next]_vars =>
           [screen = "lock" => screen' \in {"lock", "home"} /\ recent' = recent]_vars
    BY StepKept DEF Kept
  <1> QED BY <1>1, Invariant, PTL DEF Spec, LockHolds

================================================================================
