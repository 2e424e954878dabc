----------------------------- MODULE JuliusApps ------------------------------
(***************************************************************************)
(* The apps inside the three shells that host them: run.py, the older      *)
(* launcher/launcher.py and julius_ui.py.  A shell makes every app when it *)
(* starts, hands keys to the one that is open, draws it once a frame, and  *)
(* leaves its threads alone when it is closed.  The shells differ in what  *)
(* they do with ESC and with an exception, and that decides what a slip of *)
(* an app costs: an error on the screen, the way home, or the shell.       *)
(*                                                                         *)
(* Apps share no state, so a session follows one app (session.app) in one  *)
(* shell; session.others are apps that are only opened and closed.  An app *)
(* is looked at in the shell where it can do most, and in another one if   *)
(* its draw() or handle_input() raises there.                              *)
(***************************************************************************)
EXTENDS AppLists, SequencesExt

CONSTANTS RunApps, LauncherApps, UIApps,   \* the apps looked at in each shell
          PlainApps,   \* apps that are only opened and closed, in run.py
          MaxRecent,   \* recent_apps kept (6)
          None,        \* no app is open
          MaxChars, Missing, MaxTime, MaxLaps, LastAddr, Targets, Ports, Cities,
          MaxLists, Hosts, MaxHistory, MaxPackets, Addresses, BatchSize, Percents,
          Broken       \* a file that is no JSON, and that nothing is writing

In(shell, apps) == [shell : {shell}, app : apps, others : {{}}]

\* A shell, the app that is followed, and others.
Sessions == In("run", RunApps) \cup In("launcher", LauncherApps) \cup In("ui", UIApps)
            \cup [shell : {"run"}, app : PlainApps, others : {PlainApps}]

VARIABLES session,
          alive,        \* the shell's process
          current_app, show_recent, recent_apps,
          st,           \* the attributes of session.app
          file          \* its file, or what stands for one (a disk, a chain)

vars == <<session, alive, current_app, show_recent, recent_apps, st, file>>
host == <<session, alive, current_app, show_recent, recent_apps>>

Notes == INSTANCE AppNotes WITH s <- st
Todo == INSTANCE AppTodo WITH s <- st
Passwords == INSTANCE AppPasswords WITH s <- st
WakeOnLAN == INSTANCE AppWakeOnLAN WITH s <- st
Editor == INSTANCE AppEditor WITH s <- st
Firewall == INSTANCE AppFirewall WITH s <- st
Timer == INSTANCE AppTimer WITH s <- st
ProcKill == INSTANCE AppProcKill WITH s <- st
USB == INSTANCE AppUSB WITH s <- st
NetMapper == INSTANCE AppNetMapper WITH s <- st
Scanner == INSTANCE AppScanner WITH s <- st
Weather == INSTANCE AppWeather WITH s <- st
NetTools == INSTANCE AppNetTools WITH s <- st
SpeedTest == INSTANCE AppSpeedTest WITH s <- st
NetMon == INSTANCE AppNetMonitor WITH s <- st
Packets == INSTANCE AppPackets WITH s <- st
Maps == INSTANCE AppMaps WITH s <- st
Settings == INSTANCE AppSettings WITH s <- st

\* A text that is missing is no text, no weather is of no city, a slot without a thread has none.
ASSUME AppsAssumption ==
  /\ MaxRecent \in Nat \ {0}
  /\ {MaxHistory, MaxPackets, LastAddr, Ports, MaxLists, Addresses, BatchSize} \subseteq Nat
  /\ Missing \notin Seq(Nat)
  /\ Broken # Torn
  /\ Weather!NoData \notin Cities
  /\ Idle \notin Weather!Fetches \cup Scanner!Scans \cup NetTools!Commands \cup Maps!Scans

App == session.app
Shell == session.shell
Apps == {App} \cup session.others

\* The apps that keep their entries in a JSON file.
Keepers == {"Notes", "Todo", "Passwords", "WakeOnLAN", "Settings"}

\* app_instances: what the constructor makes of the file f
Fresh(app, f) ==
  CASE app = "Notes" -> Notes!Fresh(f)
    [] app = "Todo" -> Todo!Fresh(f)
    [] app = "Passwords" -> Passwords!Fresh(f)
    [] app = "WakeOnLAN" -> WakeOnLAN!Fresh(f)
    [] app = "Editor" -> Editor!Fresh
    [] app = "Firewall" -> Firewall!Fresh
    [] app = "Timer" -> Timer!Fresh
    [] app = "ProcKill" -> ProcKill!Fresh
    [] app = "USB" -> USB!Fresh
    [] app = "NetMapper" -> NetMapper!Fresh
    [] app = "Scanner" -> Scanner!Fresh
    [] app = "Weather" -> Weather!Fresh
    [] app = "NetTools" -> NetTools!Fresh
    [] app = "SpeedTest" -> SpeedTest!Fresh
    [] app = "NetMon" -> NetMon!Fresh
    [] app = "Packets" -> Packets!Fresh
    [] app = "Maps" -> Maps!Fresh
    [] app = "Settings" -> Settings!Fresh(f)
    [] OTHER -> <<>>

\* No file yet: load() answers [].  The editor finds no file under any name.
NoFile(app) == IF app = "Editor" THEN [t \in Texts \ {NoText} |-> Missing] ELSE <<>>

\* What save() writes, a step after it has truncated the file.
Contents == CASE App = "Notes" -> Notes!Contents
              [] App = "Todo" -> Todo!Contents
              [] App = "Passwords" -> Passwords!Contents
              [] App = "WakeOnLAN" -> WakeOnLAN!Contents
              [] App = "Settings" -> Settings!Contents

HandleInput ==
  \/ App = "Notes" /\ Notes!HandleInput
  \/ App = "Todo" /\ Todo!HandleInput
  \/ App = "Passwords" /\ Passwords!HandleInput
  \/ App = "WakeOnLAN" /\ WakeOnLAN!HandleInput
  \/ App = "Editor" /\ Editor!HandleInput
  \/ App = "Firewall" /\ Firewall!HandleInput
  \/ App = "Settings" /\ Settings!HandleInput
  \/ /\ \/ App = "Timer" /\ Timer!HandleInput
        \/ App = "ProcKill" /\ ProcKill!HandleInput
        \/ App = "USB" /\ USB!HandleInput
        \/ App = "NetMapper" /\ NetMapper!HandleInput
        \/ App = "Scanner" /\ Scanner!HandleInput
        \/ App = "Weather" /\ Weather!HandleInput
        \/ App = "NetTools" /\ NetTools!HandleInput
        \/ App = "SpeedTest" /\ SpeedTest!HandleInput
        \/ App = "NetMon" /\ NetMon!HandleInput
        \/ App = "Packets" /\ Packets!HandleInput
        \/ App = "Maps" /\ Maps!HandleInput
     /\ UNCHANGED file

HandleEsc ==
  \/ App = "Notes" /\ Notes!HandleEsc
  \/ App = "Todo" /\ Todo!HandleEsc
  \/ App = "Passwords" /\ Passwords!HandleEsc
  \/ App = "WakeOnLAN" /\ WakeOnLAN!HandleEsc
  \/ App = "Editor" /\ Editor!HandleEsc
  \/ App = "Firewall" /\ Firewall!HandleEsc
  \/ /\ \/ App = "Timer" /\ Timer!HandleEsc
        \/ App = "ProcKill" /\ ProcKill!HandleEsc
        \/ App = "USB" /\ USB!HandleEsc
        \/ App = "Scanner" /\ Scanner!HandleEsc
        \/ App = "Weather" /\ Weather!HandleEsc
        \/ App = "NetTools" /\ NetTools!HandleEsc
     /\ UNCHANGED file

\* Some key makes handle_input raise, as the app stands.
InputRaises ==
  CASE App = "Notes" -> Notes!InputRaises
    [] App = "Todo" -> Todo!InputRaises
    [] App = "Passwords" -> Passwords!InputRaises
    [] App = "WakeOnLAN" -> WakeOnLAN!InputRaises
    [] App = "Editor" -> Editor!InputRaises
    [] App = "Firewall" -> Firewall!InputRaises
    [] App = "Timer" -> Timer!InputRaises
    [] App = "ProcKill" -> ProcKill!InputRaises
    [] App = "USB" -> USB!InputRaises
    [] OTHER -> FALSE

DrawRaises ==
  CASE App = "Notes" -> Notes!DrawRaises
    [] App = "Passwords" -> Passwords!DrawRaises
    [] App = "NetTools" -> NetTools!DrawRaises
    [] App = "NetMon" -> NetMon!DrawRaises
    [] OTHER -> FALSE

Work ==
  /\ alive
  /\ \/ App = "NetMapper" /\ NetMapper!Work
     \/ App = "Scanner" /\ Scanner!Work
     \/ App = "Weather" /\ Weather!Work
     \/ App = "NetTools" /\ NetTools!Work
     \/ App = "SpeedTest" /\ SpeedTest!Work
     \/ App = "NetMon" /\ NetMon!Work
     \/ App = "Packets" /\ Packets!Work
     \/ App = "Maps" /\ Maps!Work
  /\ UNCHANGED <<host, file>>

-----------------------------------------------------------------------------
(* The loop of a shell: one thread, which is inside save() while the file  *)
(* is Torn, and still in the control center while that starts a program.   *)

Starting == App = "Settings" /\ st.popen
InLoop == alive /\ file # Torn /\ ~Starting
Open == InLoop /\ current_app = App

\* The process ends, and with it everything but the file.
Die ==
  /\ alive' = FALSE
  /\ current_app' = None /\ show_recent' = FALSE /\ recent_apps' = <<>>
  /\ st' = Fresh(App, NoFile(App))
  /\ UNCHANGED <<session, file>>

\* Mutant of open_app: the list is cut before the name goes in.
open_app_late_cut(name) ==
  /\ current_app' = name
  /\ show_recent' = FALSE
  /\ LET rest == RemoveFirst(recent_apps, name)
     IN  recent_apps' = <<name>> \o SubSeq(rest, 1, IF Len(rest) > MaxRecent THEN MaxRecent ELSE Len(rest))

\* open_app() of run.py
open_app(name) ==
  /\ current_app' = name
  /\ show_recent' = FALSE
  /\ LET moved == <<name>> \o RemoveFirst(recent_apps, name)
     IN  recent_apps' = SubSeq(moved, 1,
                               IF Len(moved) > MaxRecent THEN MaxRecent ELSE Len(moved))

\* A tap on a card of the launcher; what julius_ui keeps of it is in JuliusUI.
TapApp(name) ==
  /\ InLoop /\ current_app = None /\ ~show_recent
  /\ IF Shell = "run" THEN open_app(name)
     ELSE current_app' = name /\ UNCHANGED <<show_recent, recent_apps>>
  /\ UNCHANGED <<session, alive, st, file>>

TapRecent(name) ==
  /\ InLoop /\ show_recent /\ Contains(recent_apps, name)
  /\ open_app(name)
  /\ UNCHANGED <<session, alive, st, file>>

SwipeUp ==
  /\ InLoop /\ Shell = "run"
  /\ show_recent' = TRUE /\ current_app' = None
  /\ UNCHANGED <<session, alive, recent_apps, st, file>>

\* Swipes down and right in run.py, ESC in the other two.
GoHome ==
  /\ InLoop
  /\ current_app' = None /\ show_recent' = FALSE
  /\ UNCHANGED <<session, alive, recent_apps, st, file>>

KeyToApp == Open /\ HandleInput /\ UNCHANGED host

\* Only run.py sends ESC to the app.
EscToApp == Open /\ Shell = "run" /\ HandleEsc /\ UNCHANGED host

\* julius_ui catches what handle_input raises, the others do not.
KeyRaises == Open /\ InputRaises /\ Shell # "ui" /\ Die

\* A frame that changes something: the countdown that ends, or a draw() that
\* raises.  run.py goes home, the launcher ends, julius_ui shows the error.
Frame ==
  /\ Open
  /\ \/ /\ App = "Timer" /\ Timer!Draw
        /\ UNCHANGED <<host, file>>
     \/ /\ DrawRaises /\ Shell = "run"
        /\ current_app' = None
        /\ UNCHANGED <<session, alive, show_recent, recent_apps, st, file>>
     \/ DrawRaises /\ Shell = "launcher" /\ Die

FinishSave ==
  /\ alive /\ file = Torn /\ App \in Keepers
  /\ file' = Contents
  /\ UNCHANGED <<host, st>>

\* The write raises, of a full disk say.  julius_ui goes on if it was an app
\* that saved; its own settings and the other two shells have no handler.
SaveFails ==
  /\ alive /\ file = Torn /\ App \in Keepers
  /\ IF Shell = "ui" /\ App # "Settings" THEN file' = Broken /\ UNCHANGED <<host, st>>
     ELSE Die

\* The control center may lie over any screen; nothing catches what it raises.
ControlCenter ==
  /\ App = "Settings" /\ InLoop
  /\ Settings!ControlTouch
  /\ UNCHANGED host

StartProgram ==
  /\ alive /\ file # Torn /\ Starting
  /\ \/ Settings!Popen /\ UNCHANGED <<host, file>>
     \/ Die

\* The window is closed, the process killed, the power lost.
Stop == alive /\ Die

\* A file that is no JSON makes the constructor raise: no shell comes up.
Readable == file \notin {Torn, Broken}
Restart ==
  /\ ~alive /\ Readable
  /\ alive' = TRUE
  /\ st' = Fresh(App, file)
  /\ UNCHANGED <<session, current_app, show_recent, recent_apps, file>>

\* Time, and what other programs do.
Environment ==
  \/ App = "Timer" /\ alive /\ Timer!Tick /\ UNCHANGED <<host, file>>
  \/ App = "Firewall" /\ alive /\ Firewall!Outside /\ UNCHANGED host

Init ==
  /\ session \in Sessions
  /\ alive = TRUE /\ current_app = None /\ show_recent = FALSE /\ recent_apps = <<>>
  /\ file = NoFile(App)
  /\ st = Fresh(App, file)

Next ==
  \/ \E name \in Apps : TapApp(name) \/ TapRecent(name)
  \/ SwipeUp \/ GoHome \/ KeyToApp \/ EscToApp \/ KeyRaises
  \/ ControlCenter \/ StartProgram \/ Frame \/ Work \/ FinishSave \/ SaveFails \/ Stop \/ Restart
  \/ Environment

\* Threads run as long as the shell does, and what they wait for has an end,
\* except for the download of the speed test.
Timely == Work /\ (App = "SpeedTest" => SpeedTest!Prompt)
Spec == Init /\ [][Next]_vars /\ WF_vars(Timely)

-----------------------------------------------------------------------------
(* Properties *)

\* In these four apps no key ever finds an index outside its list or text:
\* deleting, editing and leaving keep `selected` and the cursor inside.  And
\* on six list screens the selected entry, the one a key acts on, is shown;
\* after a deletion it may be above the window, never below it.  Of Notes this
\* is said only until a note has been opened, after which it is not so; and
\* not at all of WakeOnLAN, which shows its first ten devices whatever is
\* selected.
SelectionSound ==
  /\ App \in {"Notes", "Passwords", "WakeOnLAN", "Editor"} => ~InputRaises
  /\ CASE App = "Notes" -> Notes!SelectionSeen
       [] App = "Todo" -> Todo!SelectionSeen
       [] App = "Passwords" -> Passwords!SelectionSeen
       [] App = "Firewall" -> Firewall!SelectionSeen
       [] App = "ProcKill" -> ProcKill!SelectionSeen
       [] App = "USB" -> USB!SelectionSeen
       [] App = "NetMapper" -> NetMapper!SelectionSeen
       [] OTHER -> TRUE

\* A key of the hint line never ends the shell: what the Todo screen says of
\* its own keys ("N=add ENTER=done D=del F=filter"); it does not hold there.
NoKeyEndsShell == Open => ~InputRaises

\* Whenever the loop runs, the file has every entry the app has, so that a
\* stop now loses nothing but an edit that was not finished; and the editor
\* shows no text as saved that is not the file's.  A write that fails excepts
\* the app until the next one that does not, or the editor until it loads.
EntriesOnDisk ==
  InLoop /\ file # Broken =>
    CASE App = "Notes" -> Notes!OnDisk
      [] App = "Todo" -> Todo!OnDisk
      [] App = "Passwords" -> Passwords!OnDisk
      [] App = "WakeOnLAN" -> WakeOnLAN!OnDisk
      [] App = "Settings" -> Settings!OnDisk
      [] App = "Editor" -> Editor!Saved
      [] OTHER -> TRUE

\* However it is stopped and started, the stopwatch shows the time it ran;
\* laps are in order; a countdown does not say DONE! early.
StopwatchExact == App = "Timer" => Timer!Exact

\* A screen has the results of its own request, once each, unless a second
\* request was made before the first had ended; however many threads fill
\* them, the sample and packet lists stay bounded; and the rule a row of the
\* firewall shows is the rule its number deletes, unless another program
\* edited the chain or iptables could not list it.
ResultsOwn ==
  CASE App = "NetMapper" -> NetMapper!Exact
    [] App = "Scanner" -> Scanner!Own
    [] App = "Weather" -> Weather!Own
    [] App = "NetTools" -> NetTools!Own
    [] App = "SpeedTest" -> SpeedTest!Own
    [] App = "Maps" -> Maps!Own
    [] App = "NetMon" -> NetMon!Bounded
    [] App = "Packets" -> Packets!Bounded
    [] App = "Firewall" -> Firewall!Current
    [] OTHER -> TRUE

\* The list of recent apps has no app twice, is not too long, and begins
\* with the app that is open.
RecentsOrdered ==
  /\ Len(recent_apps) <= MaxRecent
  /\ \A i, j \in DOMAIN recent_apps : i # j => recent_apps[i] # recent_apps[j]
  /\ Shell = "run" /\ current_app # None =>
       recent_apps # <<>> /\ recent_apps[1] = current_app /\ ~show_recent

\* A scan, fetch or test that is announced ends, or it is a speed test whose
\* download the server never ends; once a monitor or a capture stays stopped,
\* its threads end.
Announced == CASE App \in {"NetMapper", "Maps"} -> st.scanning
               [] App = "Weather" -> st.loading
               [] App = "SpeedTest" -> st.running
               [] OTHER -> FALSE
Looping == App \in {"NetMon", "Packets"} /\ Running(st) # {}
Stopped == App \in {"NetMon", "Packets"} => ~st.running
WorkersSettle ==
  /\ alive /\ Announced ~> ~alive \/ ~Announced \/ [](App = "SpeedTest" /\ SpeedTest!Downloading)
  /\ <>[](alive /\ Stopped) => <>[]~Looping
=============================================================================
