----------------------------- MODULE DisplayPanel -----------------------------
(***************************************************************************)
(* The display (display.cpp): sessions stage an attack icon from their own *)
(* tasks, loop() draws it, the WiFi manager announces a status, a button   *)
(* wakes the panel, and deadlines on millis() dim it. What is drawn is cut *)
(* down to which picture it is.                                            *)
(***************************************************************************)
EXTENDS Integers, FiniteSetsExt

CONSTANTS Kinds,      \* AttackKind without None
          Logo,       \* ticks the boot logo is held
          Debounce,   \* ticks a button state must have lasted
          MaxLag,     \* ticks loop() may be late
          PanelWrap,  \* ticks until millis() starts again at 0
          MaxNow      \* bound

ASSUME PanelAssumption ==
    /\ {Debounce, MaxLag, MaxNow} \subseteq Nat /\ {Logo, PanelWrap} \subseteq Nat \ {0}
    /\ {"none", "logo", "blank", "status"} \cap Kinds = {}

VARIABLES now,            \* ticks since the start
          lit, litAt, onUntil, \* on_; history: when it was last asked for; on_until_ms_
          icon, iconUntil, \* attack_kind_, attack_until_ms_
          shown, have,    \* the picture; have_status_
          released, btnAt, button, \* btn_last_state_, btn_last_change_; the button is down
          pending, taken, \* pending_attack_; loop()'s copy of it
          dpc, lag,       \* where loop() is; ticks since its last pass
          owed, owedAt,   \* history: the attack staged last and not drawn, and since when;
          raced,          \* it was staged between loop()'s read and its clear
          iconFor, onFor, \* attack_icon_seconds, display_on_seconds
          stages, presses \* bounds: attacks and button changes to come

screen == <<lit, litAt, onUntil, icon, iconUntil, shown, have>>
keys   == <<released, btnAt, button>>
requests == <<pending, taken, owed, owedAt, raced>>
panel  == <<now, screen, keys, requests, dpc, lag, iconFor, onFor, stages, presses>>

Millis == now % PanelWrap
Stamp(t) == t % PanelWrap
SameEpoch(t) == t \div PanelWrap = now \div PanelWrap

\* begin() and showBootLogo().
PanelStarts ==
    /\ now = 0 /\ lit = TRUE /\ litAt = 0 /\ onUntil = Logo
    /\ icon = "none" /\ iconUntil = 0 /\ shown = "logo" /\ have = FALSE
    /\ released = TRUE /\ btnAt = 0 /\ button = FALSE
    /\ pending = "none" /\ taken = "none" /\ owed = "none" /\ owedAt = 0 /\ raced = FALSE
    /\ dpc = "read" /\ lag = 0

PanelRestarts ==
    /\ now' = 0 /\ lit' = TRUE /\ litAt' = 0 /\ onUntil' = Logo
    /\ icon' = "none" /\ iconUntil' = 0 /\ shown' = "logo" /\ have' = FALSE
    /\ released' = TRUE /\ btnAt' = 0 /\ UNCHANGED button
    /\ pending' = "none" /\ taken' = "none" /\ owed' = "none" /\ owedAt' = 0 /\ raced' = FALSE
    /\ dpc' = "read" /\ lag' = 0
    /\ UNCHANGED <<iconFor, onFor, stages, presses>>

(***************************************************************************)
(* The other tasks.                                                        *)
(***************************************************************************)
\* showAttack, by any session, wherever loop() is.
ShowAttack(k) ==
    /\ stages > 0 /\ stages' = stages - 1
    /\ pending' = k
    /\ owed' = k /\ owedAt' = now /\ raced' = (dpc = "clear")
    /\ UNCHANGED <<now, screen, keys, taken, dpc, lag, iconFor, onFor, presses>>

\* showStatus when a station is tried, on the dashboard's task too.
ShowStatus ==
    /\ have' = TRUE /\ shown' = IF lit THEN "status" ELSE shown
    /\ UNCHANGED <<now, lit, litAt, onUntil, icon, iconUntil, keys, requests, dpc, lag,
                   iconFor, onFor, stages, presses>>

\* showStatus and wakeFromButton, when the station is online or the portal up.
Announce ==
    /\ dpc = "read"
    /\ have' = TRUE /\ shown' = "status" /\ lit' = TRUE /\ litAt' = now /\ onUntil' = now + onFor
    /\ UNCHANGED <<now, icon, iconUntil, keys, requests, dpc, lag, iconFor, onFor, stages,
                   presses>>

Press == /\ presses > 0 /\ presses' = presses - 1 /\ button' = ~button
         /\ UNCHANGED <<now, screen, released, btnAt, requests, dpc, lag, iconFor, onFor, stages>>

(***************************************************************************)
(* loop().                                                                 *)
(***************************************************************************)
\* Slip: an icon on the panel is not interrupted.
ReadPatiently ==
    /\ dpc = "read"
    /\ taken' = IF icon = "none" THEN pending ELSE "none"
    /\ dpc' = IF taken' = "none" THEN "rest" ELSE "clear"
    /\ UNCHANGED <<now, screen, keys, pending, owed, owedAt, raced, lag, iconFor, onFor, stages,
                   presses>>
\* The staged attack is read,
Read ==
    /\ dpc = "read" /\ taken' = pending
    /\ dpc' = IF pending = "none" THEN "rest" ELSE "clear"
    /\ UNCHANGED <<now, screen, keys, pending, owed, owedAt, raced, lag, iconFor, onFor, stages,
                   presses>>

LitFor == Min({iconFor, onFor})

\* cleared, and drawn (renderAttack_). The clear also takes away what was
\* staged since the read: that one stays owed.
Flash ==
    /\ dpc = "clear" /\ dpc' = "rest"
    /\ pending' = "none" /\ taken' = "none" /\ owed' = IF raced THEN owed ELSE "none"
    /\ icon' = taken /\ shown' = taken /\ lit' = TRUE /\ litAt' = now
    /\ iconUntil' = now + iconFor /\ onUntil' = now + LitFor
    /\ UNCHANGED <<now, have, keys, owedAt, raced, lag, iconFor, onFor, stages, presses>>

\* The button has changed and the last change is old enough.
Changed == button = released /\ (now - btnAt) % PanelWrap > Debounce
Woken == Changed /\ button

\* The button, then the icon's deadline, then the panel's; a woken panel without
\* a status shows what it showed.
Rest ==
    LET awake   == lit \/ Woken
        picture == IF Woken /\ have THEN "status" ELSE shown
        until   == IF Woken THEN now + onFor ELSE onUntil
        over    == awake /\ icon # "none" /\ Millis >= Stamp(iconUntil)
        dim     == awake /\ Millis >= Stamp(until)
    IN  /\ dpc = "rest" /\ dpc' = "read" /\ lag' = 0
        /\ released' = IF Changed THEN ~button ELSE released
        /\ btnAt' = IF Changed THEN now ELSE btnAt
        /\ litAt' = IF Woken THEN now ELSE litAt
        /\ onUntil' = until /\ lit' = (awake /\ ~dim)
        /\ icon' = IF over \/ dim THEN "none" ELSE icon
        /\ shown' = CASE dim -> "blank" [] over /\ ~dim /\ have -> "status" [] OTHER -> picture
        /\ UNCHANGED <<now, have, iconUntil, button, requests, iconFor, onFor, stages, presses>>

Loop == Read \/ Flash \/ Rest

\* A pass takes less than a tick; the next may be late.
PanelTick == /\ now < MaxNow /\ dpc = "read" /\ lag <= MaxLag
             /\ now' = now + 1 /\ lag' = lag + 1
             /\ UNCHANGED <<screen, keys, requests, dpc, iconFor, onFor, stages, presses>>

PanelStep == \/ \E k \in Kinds : ShowAttack(k)
             \/ ShowStatus \/ Announce \/ Press \/ Loop \/ PanelTick

(***************************************************************************)
(* Properties.                                                             *)
(***************************************************************************)
PanelOK ==
    /\ now \in Nat /\ raced \in BOOLEAN /\ lit \in BOOLEAN /\ have \in BOOLEAN /\ released \in BOOLEAN /\ button \in BOOLEAN
    /\ {icon, pending, taken, owed} \subseteq Kinds \cup {"none"}
    /\ shown \in Kinds \cup {"logo", "blank", "status"}
    /\ dpc \in {"read", "clear", "rest"} /\ lag \in 0..MaxLag + 1
    /\ {litAt, onUntil, iconUntil, btnAt, owedAt} \subseteq Nat

\* An attack that is staged is drawn in loop()'s next pass, whatever the panel
\* shows, unless a later one takes its place. The exception is the one staged
\* between loop()'s read and its clear of the request: the clear takes it away
\* and it is never drawn (showAttack, loop).
AttackDrawn == owed # "none" => raced \/ (owed \in {pending, taken} /\ now - owedAt <= MaxLag + 1)

\* The panel is on for no longer than display_on_seconds after the last attack,
\* status or button, until the clock wraps ("hard ceiling", display.h:38).
GoesDark == lit => now - litAt <= Max({onFor, Logo}) + MaxLag \/ ~SameEpoch(litAt)

\* The panel serves: attacks come up, but for those staged within a pass, and
\* it goes down.
PanelServes == PanelOK /\ AttackDrawn /\ GoesDark

===============================================================================
