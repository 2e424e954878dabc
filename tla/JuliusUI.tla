------------------------------- MODULE JuliusUI -------------------------------
(***************************************************************************)
(* The shell of the device (src/julius_ui.py): four screens, overlays that *)
(* slide over them, and one loop that takes the events of a frame and then *)
(* draws.  An overlay is kept in two places: the shell's flag show_x says  *)
(* who receives touches and keys, the overlay's own visible says whether   *)
(* it draws and reacts.  What a touch hits is decided by the rectangles of *)
(* the last drawing (app_switcher.py, spotlight.py, control_center.py),    *)
(* which may be older than the state they are applied to.                  *)
(*                                                                         *)
(* A touch is the set of the conditions that hold of it (is_tap,           *)
(* is_swipe_left, ...) and what it ends on.  The settings themselves (cfg)  *)
(* decide nothing here and are left out, and so is the folder overlay,     *)
(* which no code opens.                                                    *)
(***************************************************************************)
EXTENDS Integers, Sequences, SequencesExt

CONSTANTS Apps,        \* the keys of app_instances
          Page,        \* the page of every icon, 0 or 1
          Dock,        \* DOCK_NAMES
          Searches,    \* what queries may find: sequences of names and Command
          MaxRecent,   \* recent apps kept (8)
          MaxRows,     \* search results drawn (8)
          MaxScroll,   \* settings_scroll at its limit (500), in wheel clicks
          Batch,       \* bound: events between two drawings
          Command,     \* a result that is no app: a command or a setting
          None

Panels == {"AI", "Drop", "Cloud"}
Names == Apps \cup Panels \cup {"Settings"}

ASSUME UIAssumption ==
    /\ Page \in [Names -> 0..1] /\ Dock \subseteq Names
    /\ Searches \subseteq Seq(Names \cup {Command}) /\ <<>> \in Searches
    /\ MaxRecent \in Nat \ {0} /\ MaxRows \in Nat \ {0}
    /\ MaxScroll \in Nat /\ Batch \in Nat \ {0}
    /\ None \notin Apps /\ Command \notin Names
    /\ Apps \cap (Panels \cup {"Settings"}) = {}

VARIABLES screen,            \* state
          swipe_count, current_app, current_page, settings_scroll,
          shown,             \* the overlays whose show_x is set
          visible,           \* the overlays whose visible is set
          recent,            \* app_switcher.recent
          card_rects,        \* the apps whose cards are drawn; None: no drawing yet
          results, selected, \* spotlight
          result_rects,      \* the results that are drawn; None: no drawing yet
          toggle_rects,      \* whether the control center was ever drawn
          pending,           \* events since the last drawing
          process            \* "running", "quit" or "crashed": an exception left the loop

vars == <<screen, swipe_count, current_app, current_page, settings_scroll, shown, visible,
          recent, card_rects, results, selected, result_rects, toggle_rects, pending, process>>

Overlays == {"switcher", "cc", "notif", "spotlight"} \cup Panels

TypeOK ==
    /\ screen \in {"lock", "home", "app", "settings"}
    /\ swipe_count \in 0..1
    /\ current_app \in Apps \cup {None}
    /\ current_page \in 0..1
    /\ settings_scroll \in 0..MaxScroll
    /\ shown \subseteq Overlays /\ visible \subseteq Overlays
    /\ recent \in Seq(Apps) /\ Len(recent) <= MaxRecent
    /\ card_rects = None \/ card_rects \in Seq(Apps)
    /\ results \in Searches
    /\ \E r \in Searches : selected \in {-1, 0} \cup 0..(Len(r) - 1)
    /\ result_rects = None \/ result_rects \in Seq(Names \cup {Command})
    /\ toggle_rects \in BOOLEAN
    /\ pending \in 0..Batch
    /\ process \in {"running", "quit", "crashed"}

Init ==
    /\ screen = "lock"
    /\ swipe_count = 0
    /\ current_app = None
    /\ current_page = 0
    /\ settings_scroll = 0
    /\ shown = {} /\ visible = {}
    /\ recent = <<>>
    /\ card_rects = None
    /\ results = <<>> /\ selected = 0
    /\ result_rects = None
    /\ toggle_rects = FALSE
    /\ pending = 0
    /\ process = "running"

-----------------------------------------------------------------------------
(* Touches and who receives them *)

\* The thresholds leave a diagonal swipe up and sideways both.
Gestures == {{}, {"tap"}, {"left"}, {"right"}, {"down"}, {"up"}, {"up", "left"}, {"up", "right"}}

TouchOrder == <<"switcher", "cc", "notif", "spotlight", "AI", "Drop", "Cloud">>

\* o is the first of the overlays in order whose flag is set.
First(order, o) ==
    \E i \in DOMAIN order :
        order[i] = o /\ o \in shown /\ \A j \in 1..(i - 1) : order[j] \notin shown

\* The first overlay whose flag is set takes the touch, else the screen.
Receives(r) == IF shown = {} THEN r = screen ELSE First(TouchOrder, r)

drawn == <<card_rects, result_rects, toggle_rects>>
search == <<results, selected>>
place == <<screen, swipe_count, current_app, current_page, settings_scroll>>

\* One event of the loop.
Event ==
    /\ process = "running"
    /\ pending < Batch
    /\ pending' = pending + 1

Touch(r) == Event /\ Receives(r) /\ UNCHANGED <<drawn, selected>>

-----------------------------------------------------------------------------
(* open_app *)

\* Mutant of add_recent: an app that is listed already keeps its place.
add_recent_once(name) ==
    IF Contains(recent, name) THEN recent
    ELSE SubSeq(<<name>> \o recent, 1, IF Len(recent) < MaxRecent THEN Len(recent) + 1 ELSE MaxRecent)

add_recent(name) ==
    LET moved == <<name>> \o RemoveFirst(recent, name)
    IN SubSeq(moved, 1, IF Len(moved) > MaxRecent THEN MaxRecent ELSE Len(moved))

\* flags and views are shown and visible as the caller leaves them.
open_app(name, flags, views) ==
    /\ screen' = IF name = "Settings" THEN "settings"
                 ELSE IF name \in Apps THEN "app" ELSE screen
    /\ current_app' = IF name \in Apps THEN name ELSE current_app
    /\ recent' = IF name \in Apps THEN add_recent(name) ELSE recent
    /\ shown' = flags \cup ({name} \cap Panels)
    /\ visible' = views \cup ({name} \cap Panels)
    /\ UNCHANGED <<swipe_count, current_page, settings_scroll>>

-----------------------------------------------------------------------------
(* The app switcher *)

\* Sideways, or on no card: only a swipe down does something.
SwitcherSwipe(g) ==
    /\ Touch("switcher")
    /\ shown' = IF "down" \in g THEN shown \ {"switcher"} ELSE shown
    /\ visible' = IF "down" \in g THEN visible \ {"switcher"} ELSE visible
    /\ UNCHANGED <<place, recent, results, process>>

HitsCard(g, name) ==
    /\ Touch("switcher") /\ "switcher" \in visible
    /\ g \cap {"left", "right"} = {}
    /\ card_rects # None /\ Contains(card_rects, name)

\* On the x of a card: list.remove raises ValueError if the app is not there
\* any more.
SwitcherClose(g, name) ==
    /\ HitsCard(g, name)
    /\ IF Contains(recent, name)
       THEN /\ recent' = RemoveFirst(recent, name)
            /\ shown' = IF "down" \in g THEN shown \ {"switcher"} ELSE shown
            /\ visible' = IF "down" \in g THEN visible \ {"switcher"} ELSE visible
            /\ UNCHANGED process
       ELSE process' = "crashed" /\ UNCHANGED <<recent, shown, visible>>
    /\ UNCHANGED <<place, results>>

\* On a card.
SwitcherOpen(g, name) ==
    /\ HitsCard(g, name)
    /\ IF "down" \in g
       THEN /\ shown' = shown \ {"switcher"}
            /\ visible' = visible \ {"switcher"}
            /\ UNCHANGED <<place, recent>>
       ELSE open_app(name, shown \ {"switcher"}, visible \ {"switcher"})
    /\ UNCHANGED <<results, process>>

-----------------------------------------------------------------------------
(* Control center, notifications, search, panels *)

\* Above the panel the control center hides itself and the flag stays; on the
\* panel it needs the rectangles of a drawing, and on the Wi-Fi switch a program
\* the device may not have.  The swipe down is looked at after.
ControlTouch(g, hit) ==
    /\ Touch("cc")
    /\ IF "cc" \in visible /\ (hit = "wifi" \/ (hit = "panel" /\ ~toggle_rects))
       THEN process' = "crashed" /\ UNCHANGED <<shown, visible>>
       ELSE /\ shown' = IF "down" \in g THEN shown \ {"cc"} ELSE shown
            /\ visible' = IF hit = "above" \/ "down" \in g THEN visible \ {"cc"} ELSE visible
            /\ UNCHANGED process
    /\ UNCHANGED <<place, recent, results>>

\* Below the panel the notification center hides itself and the flag stays.
NotifTouch(g, below) ==
    /\ Touch("notif")
    /\ shown' = IF "up" \in g THEN shown \ {"notif"} ELSE shown
    /\ visible' = IF below \/ "up" \in g THEN visible \ {"notif"} ELSE visible
    /\ UNCHANGED <<place, recent, results, process>>

\* Mutant of Choose: the search stays open.
ChooseAndStay(res) ==
    IF res = Command
    THEN UNCHANGED <<place, recent, shown, visible>>
    ELSE open_app(res, shown, visible)

\* A result opens if it is an app, and the shell only takes its flag back.
Choose(res) ==
    IF res = Command
    THEN UNCHANGED <<place, recent, shown, visible>>
    ELSE open_app(res, shown \ {"spotlight"}, visible)

\* On a result of the last drawing that had any.
SpotlightHit(res) ==
    /\ Touch("spotlight") /\ "spotlight" \in visible
    /\ result_rects # None /\ Contains(result_rects, res)
    /\ Choose(res)
    /\ UNCHANGED <<results, process>>

\* On nothing; outside, the search hides itself and the flag stays.
SpotlightMiss(outside) ==
    /\ Touch("spotlight")
    /\ visible' = IF outside THEN visible \ {"spotlight"} ELSE visible
    /\ UNCHANGED <<place, recent, shown, results, process>>

PanelTouch(g) ==
    \E p \in Panels :
        /\ Touch(p)
        /\ shown' = IF g \cap {"right", "down"} # {} THEN shown \ {p} ELSE shown
        /\ visible' = IF g \cap {"right", "down"} # {} THEN visible \ {p} ELSE visible
        /\ UNCHANGED <<place, recent, results, process>>

-----------------------------------------------------------------------------
(* The screens *)

LockTouch(g) ==
    /\ Touch("lock")
    /\ LET unlocks == "left" \in g /\ swipe_count + 1 >= 2
       IN /\ screen' = IF unlocks THEN "home" ELSE screen
          /\ swipe_count' = IF unlocks THEN 0
                            ELSE IF "left" \in g THEN swipe_count + 1 ELSE swipe_count
    /\ UNCHANGED <<current_app, current_page, settings_scroll, recent, shown, visible, results, process>>

Shows(o) ==
    /\ Touch("home")
    /\ shown' = shown \cup {o}
    /\ visible' = visible \cup {o}
    /\ UNCHANGED <<place, recent, process>>

ShowNotif(g, from_top) == "down" \in g /\ from_top /\ Shows("notif") /\ UNCHANGED results

ShowControl(g, from_bottom) == "up" \in g /\ from_bottom /\ Shows("cc") /\ UNCHANGED results

\* A slow swipe up, from above the dock.
ShowSwitcher(g, from_bottom) == "up" \in g /\ ~from_bottom /\ Shows("switcher") /\ UNCHANGED results

\* A quick one.
ShowSpotlight(g, from_bottom) == "up" \in g /\ ~from_bottom /\ Shows("spotlight") /\ results' = <<>>

HomeLock(g, from_top) ==
    /\ Touch("home")
    /\ "down" \in g /\ ~from_top
    /\ screen' = "lock"
    /\ swipe_count' = 0
    /\ UNCHANGED <<current_app, current_page, settings_scroll, recent, shown, visible, results, process>>

TurnPage(g) ==
    /\ Touch("home")
    /\ "up" \notin g
    /\ \/ "left" \in g /\ current_page = 0
       \/ "right" \in g /\ current_page = 1
    /\ current_page' = 1 - current_page
    /\ UNCHANGED <<screen, swipe_count, current_app, settings_scroll, recent, shown, visible, results, process>>

get_tapped_app == {a \in Names : Page[a] = current_page} \cup Dock

TapIcon(name) ==
    /\ Touch("home")
    /\ name \in get_tapped_app
    /\ open_app(name, shown, visible)
    /\ UNCHANGED <<results, process>>

\* Mutant of AppTouch: the app stays the current one.
AppTouchKeeps(g, from_top) ==
    /\ Touch("app")
    /\ "right" \in g \/ ("down" \in g /\ from_top)
    /\ screen' = "home"
    /\ UNCHANGED <<swipe_count, current_app, current_page, settings_scroll, recent, shown, visible, results, process>>

\* Other touches are the app's.
AppTouch(g, from_top) ==
    /\ Touch("app")
    /\ "right" \in g \/ ("down" \in g /\ from_top)
    /\ screen' = "home"
    /\ current_app' = None
    /\ UNCHANGED <<swipe_count, current_page, settings_scroll, recent, shown, visible, results, process>>

SettingsScroll(n) ==
    settings_scroll' = IF settings_scroll + n > MaxScroll THEN MaxScroll
                       ELSE IF settings_scroll + n < 0 THEN 0 ELSE settings_scroll + n

\* A swipe up moves as far as two clicks of the wheel.
SettingsTouch(g) ==
    /\ Touch("settings")
    /\ IF g \cap {"right", "down"} # {}
       THEN screen' = "home" /\ UNCHANGED settings_scroll
       ELSE "up" \in g /\ SettingsScroll(2) /\ UNCHANGED screen
    /\ UNCHANGED <<swipe_count, current_app, current_page, recent, shown, visible, results, process>>

\* The wheel asks for the screen only, not for overlays.
Wheel(y) ==
    /\ Event
    /\ screen = "settings"
    /\ SettingsScroll(-y)
    /\ UNCHANGED <<screen, swipe_count, current_app, current_page, recent, shown, visible, drawn, search, process>>

-----------------------------------------------------------------------------
(* Keys *)

Key == Event /\ UNCHANGED drawn

\* search, for a new query.
SearchAgain == results' \in Searches

\* A character or a backspace: the query finds something else.  Only a character
\* puts the selection back to the first result.
SpotlightType(char) ==
    /\ Key
    /\ {"spotlight"} \subseteq shown \cap visible
    /\ SearchAgain
    /\ selected' = IF char THEN 0 ELSE selected
    /\ UNCHANGED <<place, recent, shown, visible, process>>

\* The arrows; an empty list takes the selection to -1.
SpotlightArrow(d) ==
    /\ Key
    /\ {"spotlight"} \subseteq shown \cap visible
    /\ selected' = IF d = 1
                   THEN IF selected + 1 < Len(results) - 1 THEN selected + 1 ELSE Len(results) - 1
                   ELSE IF selected - 1 > 0 THEN selected - 1 ELSE 0
    /\ UNCHANGED <<place, recent, shown, visible, results, process>>

\* Return: results[selected], where -1 is the last one.
SpotlightReturn ==
    /\ Key
    /\ {"spotlight"} \subseteq shown \cap visible
    /\ results # <<>> /\ selected < Len(results)
    /\ Choose(results[IF selected = -1 THEN Len(results) ELSE selected + 1])
    /\ UNCHANGED <<search, process>>

\* Escape goes to the search, then to the assistant, then to the first of the
\* overlays it knows (Drop and Cloud are not among them), then to the screen.
EscapeOrder == <<"switcher", "cc", "notif">>

EscapeOverlay(o) ==
    /\ shown' = shown \ {o}
    /\ visible' = visible \ {o}
    /\ UNCHANGED place

EscapeScreen ==
    /\ screen' = CASE screen \in {"app", "settings"} -> "home"
                   [] screen \in {"home", "lock"} -> "lock"
    /\ current_app' = IF screen = "app" THEN None ELSE current_app
    /\ swipe_count' = IF screen = "home" THEN 0 ELSE swipe_count
    /\ UNCHANGED <<shown, visible, current_page, settings_scroll>>

\* Mutant of Escape: the screen is left before the overlay on it.
EscapeScreenFirst ==
    /\ Key
    /\ IF shown \cap {"spotlight", "AI"} # {}
       THEN \E o \in shown \cap {"spotlight", "AI"} : EscapeOverlay(o)
       ELSE EscapeScreen
    /\ UNCHANGED <<recent, search, process>>

\* Mutant of Escape: on the lock screen it forgets a swipe.
EscapeForgets ==
    /\ Key
    /\ IF screen = "lock" /\ shown = {}
       THEN /\ swipe_count' = 0
            /\ UNCHANGED <<screen, current_app, current_page, settings_scroll, shown, visible>>
       ELSE IF shown = {} THEN EscapeScreen ELSE UNCHANGED <<place, shown, visible>>
    /\ UNCHANGED <<recent, search, process>>

Escape ==
    /\ Key
    /\ CASE "spotlight" \in shown ->
              IF "spotlight" \in visible THEN EscapeOverlay("spotlight")
              ELSE UNCHANGED <<shown, visible, place>>
         [] "spotlight" \notin shown /\ "AI" \in shown -> EscapeOverlay("AI")
         [] shown \cap {"spotlight", "AI"} = {} /\ shown \cap {"switcher", "cc", "notif"} # {} ->
              \E o \in shown : First(EscapeOrder, o) /\ EscapeOverlay(o)
         [] OTHER -> EscapeScreen
    /\ UNCHANGED <<recent, search, process>>

Quit ==
    /\ Event
    /\ process' = "quit"
    /\ UNCHANGED <<place, recent, shown, visible, drawn, search>>

-----------------------------------------------------------------------------
(* Drawing *)

\* An overlay draws if both say so, and keeps its old rectangles when it has
\* nothing to list.
Draws(o) == o \in shown \cap visible

DrawSwitcher == card_rects' = IF Draws("switcher") /\ recent # <<>> THEN recent ELSE card_rects

DrawSpotlight ==
    result_rects' = IF Draws("spotlight") /\ results # <<>>
                    THEN SubSeq(results, 1, IF Len(results) > MaxRows THEN MaxRows ELSE Len(results))
                    ELSE result_rects

DrawControl == toggle_rects' = (toggle_rects \/ Draws("cc"))

Draw ==
    /\ process = "running" /\ pending > 0
    /\ pending' = 0
    /\ DrawSwitcher /\ DrawSpotlight /\ DrawControl
    /\ UNCHANGED <<place, recent, shown, visible, search, process>>

-----------------------------------------------------------------------------
OverlayTouch(g) ==
    \/ SwitcherSwipe(g) \/ PanelTouch(g)
    \/ \E name \in Apps : SwitcherClose(g, name) \/ SwitcherOpen(g, name)
    \/ \E hit \in {"above", "wifi", "panel"} : ControlTouch(g, hit)
    \/ \E b \in BOOLEAN : NotifTouch(g, b) \/ SpotlightMiss(b)
    \/ \E res \in Names \cup {Command} : SpotlightHit(res)

ScreenTouch(g) ==
    \/ LockTouch(g) \/ TurnPage(g) \/ SettingsTouch(g)
    \/ \E edge \in BOOLEAN :
          \/ ShowNotif(g, edge) \/ ShowControl(g, edge) \/ ShowSwitcher(g, edge)
          \/ ShowSpotlight(g, edge) \/ HomeLock(g, edge) \/ AppTouch(g, edge)
    \/ g = {"tap"} /\ \E name \in Names : TapIcon(name)

Keyboard ==
    \/ \E char \in BOOLEAN : SpotlightType(char)
    \/ \E d \in {-1, 1} : SpotlightArrow(d)
    \/ SpotlightReturn \/ Escape

Next ==
    \/ \E g \in Gestures : OverlayTouch(g) \/ ScreenTouch(g)
    \/ Keyboard
    \/ \E y \in {-1, 1} : Wheel(y)
    \/ Quit \/ Draw

Spec == Init /\ [][Next]_vars

\* The loop draws, and a user who wants to get home tries Escape and swipes to the
\* left and to the right again and again.
FairSpec ==
    /\ Spec /\ WF_vars(Draw) /\ SF_vars(Escape)
    /\ \A d \in {"left", "right"} : SF_vars(OverlayTouch({d}) \/ ScreenTouch({d}))

-----------------------------------------------------------------------------
(* Properties *)

\* The shell's several flags, names and lists say the same thing, whatever was
\* opened from where, closed and drawn before: at most one overlay receives events;
\* the app screen, and no other, has an app to draw; the switcher lists every app
\* once, and the one in use first.
ShellConsistent ==
    /\ \A o, p \in shown : o = p
    /\ screen = "app" <=> current_app # None
    /\ \A i, j \in 1..Len(recent) : recent[i] = recent[j] => i = j
    /\ screen = "app" => recent # <<>> /\ Head(recent) = current_app

\* Nothing is opened on a locked device: the lock screen is left for the home
\* screen only, although Drop and Cloud may still be lying over it.
LockHolds == [][screen = "lock" => screen' \in {"lock", "home"} /\ recent' = recent]_vars

\* The search has hidden itself and the shell still sends it every event.
Stuck == "spotlight" \in shown \ visible

\* Wherever the user is, he can get back to a home screen with nothing over it,
\* except from a search that has hidden itself, unless the shell has ended.
HomeAgain ==
    (process = "running") ~> (screen = "home" /\ shown = {}) \/ Stuck \/ process # "running"
===============================================================================
