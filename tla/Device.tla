-------------------------------- MODULE Device --------------------------------
(***************************************************************************)
(* The board: the settings, the tasks that change them, and the display on *)
(* loopTask, with the resets that start all of it again (main.cpp). The    *)
(* display reads its two times from the settings; they are fixed here. The *)
(* reset's effects on the attack log and on WiFi are modelled with those.  *)
(***************************************************************************)
EXTENDS Settings, DisplayPanel

CONSTANTS Setups   \* boards: whether there is a display, its times, how much happens to it

ASSUME SetupsAssumption ==
    Setups \subseteq [fitted : BOOLEAN, icon : Nat, on : Nat, stages : Nat, presses : Nat, edits : Nat, cuts : Nat]

VARIABLE fitted   \* HONEYMIRE_DISPLAY_DRIVER is not 0

vars == <<fitted, settings, panel>>

Init ==
    /\ SettingsStart /\ PanelStarts
    /\ \E s \in Setups : /\ fitted = s.fitted /\ iconFor = s.icon /\ onFor = s.on /\ stages = s.stages
                         /\ presses = s.presses /\ edits = s.edits /\ cuts = s.cuts

\* ESP.restart(), at the end of restart_with.
Restart == Resets /\ SettingsRestart /\ UNCHANGED cuts /\ PanelRestarts /\ UNCHANGED fitted

PowerCut == PowerFails /\ SettingsRestart /\ PanelRestarts /\ UNCHANGED fitted

\* Once setup() is over, the display's calls come from all tasks;
\* without a display they are stubs.
Shows == fitted /\ up /\ PanelStep /\ UNCHANGED <<fitted, settings>>

Next == (SettingsStep /\ UNCHANGED <<fitted, panel>>) \/ Shows \/ Restart \/ PowerCut

Spec == Init /\ [][Next]_vars

\* Whoever edits and saves in between, the settings survive a restart and leave
\* a way to watch the board.
SettingsKept == SettingsOK /\ SavedIsLive /\ WebOffHasReporter

===============================================================================
