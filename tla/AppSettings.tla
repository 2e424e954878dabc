---------------------------- MODULE AppSettings -----------------------------
(***************************************************************************)
(* The settings of julius_ui.py: one dictionary cfg, changed by the        *)
(* settings screen and by the control center, and written to               *)
(* julius_settings.json after every change.  The switches that neither     *)
(* treats in a way of its own are one here, hotspot.                       *)
(***************************************************************************)
EXTENDS AppLists
CONSTANT Percents   \* positions of a slider; the first start has 100
VARIABLES s, file

Switches == {"wifi", "bluetooth", "airplane", "hotspot"}

DefaultSettings == [wifi |-> TRUE, bluetooth |-> TRUE, airplane |-> FALSE, hotspot |-> FALSE,
                    brightness |-> 100]

\* load_settings(), and the level the control center starts with
Fresh(f) == LET c == IF f = <<>> THEN DefaultSettings ELSE f
            IN  [cfg |-> c, slider |-> c.brightness, popen |-> FALSE]

save == file' = Torn
Contents == s.cfg

\* handle_settings_tap(): a switch, also of a row that is not on the screen.  After
\* the saving a bridge that is connected is told of Wi-Fi (JuliusBridge).
SwitchTap == \E key \in Switches : s' = [s EXCEPT !.cfg[key] = ~@] /\ save

\* Its slider; the one of the control center stays where it was.
SliderTap == \E v \in Percents : s' = [s EXCEPT !.cfg.brightness = v] /\ save

HandleInput == SwitchTap \/ SliderTap

-----------------------------------------------------------------------------
(* ControlCenter.handle_touch() *)

\* Mutant of toggle_wifi: only the program is started.
toggle_wifi_unsaved ==
  s' = [s EXCEPT !.cfg.wifi = ~@, !.popen = TRUE] /\ UNCHANGED file

toggle_wifi == s' = [s EXCEPT !.cfg.wifi = ~@, !.popen = TRUE] /\ save

toggle_airplane ==
  LET on == ~s.cfg.airplane
  IN  /\ s' = [s EXCEPT !.cfg.airplane = on, !.cfg.wifi = ~on /\ @,
                        !.cfg.bluetooth = ~on /\ @]
      /\ save

toggle_other == \E key \in {"bluetooth", "hotspot"} : s' = [s EXCEPT !.cfg[key] = ~@] /\ save

Brightness == \E v \in Percents : s' = [s EXCEPT !.slider = v, !.cfg.brightness = v] /\ save

ControlTouch == toggle_wifi \/ toggle_airplane \/ toggle_other \/ Brightness

\* Once the file is written, toggle_wifi starts a program that the repository
\* does not have; if the device has none either, Popen raises.
Popen == s.popen /\ s' = [s EXCEPT !.popen = FALSE]

\* The file has the settings in use.
OnDisk == file = s.cfg \/ (file = <<>> /\ s.cfg = DefaultSettings)
=============================================================================
