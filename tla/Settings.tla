------------------------------- MODULE Settings -------------------------------
(***************************************************************************)
(* The settings (config.cpp) and their two writers, the serial menu on     *)
(* loopTask and the dashboard's forms on the AsyncTCP task; the start that *)
(* reads them (main.cpp) and the counters a restart leaves                 *)
(* (restart_reason.cpp). Five of the settings stand for all: the           *)
(* network, the host name, the dashboard, and the switch and the key of    *)
(* one reporter; each is set or not. Keys are saved one by one.            *)
(***************************************************************************)
EXTENDS Integers, Sequences, FiniteSets, FiniteSetsExt

CONSTANTS LoopReasons   \* reasons for which loopTask restarts the board

Keys == <<"ssid", "host", "web", "en", "key">>   \* in the order save() writes them
Names == {"ssid", "host", "web", "en", "key"}
Defaults == [ssid |-> FALSE, host |-> TRUE, web |-> TRUE, en |-> FALSE, key |-> FALSE]
Writers == {"loop", "async"}
Portal == "portal_saved"
Reasons == LoopReasons \cup {Portal}

ASSUME SettingsAssumption == Portal \notin LoopReasons /\ IsFiniteSet(LoopReasons)

VARIABLES live, nvs,      \* cfg_; the keys in flash
          up, web,        \* setup() is over; it started the web server
          at, key, buf,   \* per writer: its step; which key it saves; the value it read for it
          wasOn, posted, then, \* the form: old_web; its fields; what follows its save
          why, count, total, was, \* per writer: its reason to restart; the counters; the total it read
          stale,          \* history: keys saved with a value that had changed meanwhile
          excused,        \* history: why there may be neither dashboard nor reporter
          torn,           \* history: restarts counted for their reason only
          edits, cuts     \* bounds: operations and power cuts to come

config   == <<live, nvs>>
form     == <<wasOn, posted, then>>
writing  == <<at, key, buf, form>>
counters == <<why, count, total, was, torn>>
settings == <<config, up, web, writing, counters, stale, excused, edits, cuts>>

\* intel_any_active; DShield does not count.
Active(c) == c.en /\ c.key

Dark(c) == ~c.web /\ ~Active(c)

\* load(): a key that is not there keeps its default.
Loaded(stored) == [k \in Names |-> IF k \in DOMAIN stored THEN stored[k] ELSE Defaults[k]]

SettingsStart ==
    /\ live = Defaults /\ nvs = <<>> /\ up = FALSE /\ web = FALSE
    /\ at = [w \in Writers |-> IF w = "loop" THEN "save" ELSE "idle"] \* the first start writes defaults
    /\ key = [w \in Writers |-> 1] /\ buf = [w \in Writers |-> <<>>]
    /\ wasOn = FALSE /\ posted = Defaults /\ then = "idle" /\ why = [w \in Writers |-> Portal]
    /\ count = [r \in Reasons |-> 0] /\ total = 0 /\ was = [w \in Writers |-> 0]
    /\ stale = {} /\ excused = FALSE /\ torn = 0

\* From the reset to the end of ConfigStore::begin; whoever was counting a
\* restart has done half of it.
Uncounted == {w \in Writers : at[w] \in {"total", "sum"}}
Halfway == stale # {} \/ \E w \in Writers : at[w] \in {"form", "gate", "save"}
SettingsRestart ==
    /\ live' = Loaded(nvs) /\ up' = FALSE /\ web' = FALSE
    /\ at' = [w \in Writers |-> IF w = "loop" /\ "host" \notin DOMAIN nvs THEN "save" ELSE "idle"]
    /\ key' = [w \in Writers |-> 1] /\ buf' = [w \in Writers |-> <<>>]
    /\ stale' = {} /\ torn' = torn + Cardinality(Uncounted)
    /\ excused' = (excused \/ (Dark(live') /\ Halfway))
    /\ UNCHANGED <<nvs, form, why, count, total, was, edits>>

\* The rest of setup(): without network there is the portal, which needs the
\* dashboard, and so does a board without a reporter.
Setup ==
    /\ ~up /\ at["loop"] = "idle" /\ up' = TRUE
    /\ web' = (live.web \/ ~live.ssid \/ ~Active(live))
    /\ UNCHANGED <<config, writing, counters, stale, excused, edits, cuts>>

(***************************************************************************)
(* save(), by either writer.                                               *)
(***************************************************************************)
Step(w, s) == at' = [at EXCEPT ![w] = s]
Saves(w) == Step(w, "save")

\* The value of the next key is read from cfg_,
ReadKey(w) ==
    /\ at[w] = "save" /\ buf[w] = <<>>
    /\ buf' = [buf EXCEPT ![w] = <<live[Keys[key[w]]]>>]
    /\ UNCHANGED <<config, up, web, at, key, form, counters, stale, excused, edits, cuts>>

NextKey(i) == IF i = Len(Keys) THEN 1 ELSE i + 1

\* and written; the other writer may have changed it. What the portal saved is
\* followed by a restart.
PutKey(w) ==
    LET k == Keys[key[w]]
    IN  /\ at[w] = "save" /\ buf[w] # <<>>
        /\ nvs' = [n \in DOMAIN nvs \cup {k} |-> IF n = k THEN buf[w][1] ELSE nvs[n]]
        /\ stale' = IF buf[w][1] = live[k] THEN stale \ {k} ELSE stale \cup {k}
        /\ buf' = [buf EXCEPT ![w] = <<>>]
        /\ key' = [key EXCEPT ![w] = NextKey(key[w])]
        /\ at' = IF key[w] < Len(Keys) THEN at
                 ELSE [at EXCEPT ![w] = IF w = "async" THEN then ELSE "idle"]
        /\ UNCHANGED <<live, up, web, form, counters, excused, edits, cuts>>

(***************************************************************************)
(* The serial menu.                                                        *)
(***************************************************************************)
\* One of the operator's operations, while the writer has nothing else to do.
Operates(w) == up /\ at[w] = "idle" /\ edits > 0 /\ edits' = edits - 1

\* apply_pending_: a reporter is switched on and off by its key; '5', and the
\* settings not told apart, save what is there.
MenuSet ==
    /\ Operates("loop")
    /\ \E v \in BOOLEAN : \/ live' = [live EXCEPT !.ssid = v]
                          \/ live' = [live EXCEPT !.key = v, !.en = v]
                          \/ UNCHANGED live
    /\ excused' = (excused \/ Dark(live'))
    /\ Saves("loop")
    /\ UNCHANGED <<nvs, up, web, key, buf, form, counters, stale, cuts>>

\* 'w': switching off is refused without a reporter; the test comes first.
MenuWeb ==
    /\ Operates("loop")
    /\ IF live.web THEN /\ Step("loop", IF Active(live) THEN "off" ELSE "idle") /\ UNCHANGED live
       ELSE live' = [live EXCEPT !.web = TRUE] /\ Saves("loop")
    /\ UNCHANGED <<nvs, up, web, key, buf, form, counters, stale, excused, cuts>>
MenuWebOff ==
    /\ at["loop"] = "off" /\ Saves("loop")
    /\ live' = [live EXCEPT !.web = FALSE]
    /\ excused' = (excused \/ Dark(live'))
    /\ UNCHANGED <<nvs, up, web, key, buf, form, counters, stale, edits, cuts>>

\* reset(): the keys go, then the defaults are saved.
MenuReset ==
    /\ Operates("loop") /\ nvs' = <<>> /\ Step("loop", "reset defaults")
    /\ UNCHANGED <<live, up, web, key, buf, form, counters, stale, excused, cuts>>
MenuDefaults ==
    /\ at["loop"] = "reset defaults" /\ live' = Defaults /\ Saves("loop")
    /\ UNCHANGED <<nvs, up, web, key, buf, form, counters, stale, excused, edits, cuts>>

Menu == MenuSet \/ MenuWeb \/ MenuWebOff \/ MenuReset \/ MenuDefaults

(***************************************************************************)
(* The dashboard's form and the portal's (web_dashboard.cpp). A field that *)
(* is not posted keeps its value, as does one that is posted unchanged.    *)
(***************************************************************************)
\* The fields up to web_enabled are applied,
FormFirst ==
    /\ Operates("async") /\ web /\ Step("async", "form") /\ then' = "idle" /\ wasOn' = live.web
    /\ \E s, v, e, k \in BOOLEAN :
         /\ posted' = [posted EXCEPT !.en = e, !.key = k]
         /\ live' = [live EXCEPT !.ssid = s, !.web = v]
    /\ UNCHANGED <<nvs, up, web, key, buf, counters, stale, excused, cuts>>

\* then the others,
FormRest ==
    /\ at["async"] = "form" /\ Step("async", "gate")
    /\ live' = [live EXCEPT !.en = posted.en, !.key = posted.key]
    /\ UNCHANGED <<nvs, up, web, key, buf, form, counters, stale, excused, edits, cuts>>

\* Slip: only a switch that is on is tested.
RefusesUnkeyed == ~live.web /\ wasOn /\ ~live.en
\* then the switch is tested, and refused without a reporter. A dashboard that
\* was off already, and still runs, is not tested.
Refuses == Dark(live) /\ wasOn
FormGate ==
    /\ at["async"] = "gate" /\ Saves("async")
    /\ live' = [live EXCEPT !.web = live.web \/ Refuses]
    /\ excused' = (excused \/ (Dark(live') /\ ~wasOn))
    /\ UNCHANGED <<nvs, up, web, key, buf, form, counters, stale, edits, cuts>>

\* portal_save: the network is set and the board restarts when the answer is out.
PortalSave ==
    /\ Operates("async") /\ web /\ Saves("async") /\ then' = "count"
    /\ live' = [live EXCEPT !.ssid = TRUE]
    /\ why' = [why EXCEPT !["async"] = Portal]
    /\ UNCHANGED <<nvs, up, web, key, buf, wasOn, posted, count, total, was, torn, stale, excused, cuts>>

Dashboard == FormFirst \/ FormRest \/ FormGate \/ PortalSave

(***************************************************************************)
(* restart_with, on the task that asks for the restart.                    *)
(***************************************************************************)
\* loopTask gives up on the network or on the heap.
GiveUp ==
    /\ Operates("loop") /\ Step("loop", "count")
    /\ \E r \in LoopReasons : why' = [why EXCEPT !["loop"] = r]
    /\ UNCHANGED <<config, up, web, key, buf, form, count, total, was, torn, stale, excused, cuts>>

\* The reason is counted,
CountReason(w) ==
    /\ at[w] = "count" /\ Step(w, "total")
    /\ count' = [count EXCEPT ![why[w]] = @ + 1]
    /\ UNCHANGED <<config, up, web, key, buf, form, why, total, was, torn, stale, excused, edits, cuts>>

ReadTotal(w) ==
    /\ at[w] = "total" /\ Step(w, "sum") /\ was' = [was EXCEPT ![w] = total]
    /\ UNCHANGED <<config, up, web, key, buf, form, why, count, total, torn, stale, excused, edits, cuts>>

\* Slip: the total counts its own way.
SumOfReadTwice(w) == was[w] + 2
SumOf(w) == was[w] + 1
\* and the total; the other task may have written it since it was read.
PutTotal(w) ==
    /\ at[w] = "sum" /\ Step(w, "reset") /\ total' = SumOf(w)
    /\ torn' = torn + (total - was[w])
    /\ UNCHANGED <<config, up, web, key, buf, form, why, count, was, stale, excused, edits, cuts>>

Resets == \E w \in Writers : at[w] = "reset"
PowerFails == cuts > 0 /\ cuts' = cuts - 1

SettingsStep == \/ Setup \/ Menu \/ Dashboard \/ GiveUp
                \/ \E w \in Writers : \/ ReadKey(w) \/ PutKey(w)
                                      \/ CountReason(w) \/ ReadTotal(w) \/ PutTotal(w)

(***************************************************************************)
(* Properties.                                                             *)
(***************************************************************************)
SettingsOK ==
    /\ DOMAIN live = Names /\ DOMAIN nvs \subseteq Names
    /\ up \in BOOLEAN /\ web \in BOOLEAN /\ wasOn \in BOOLEAN /\ excused \in BOOLEAN
    /\ \A w \in Writers : /\ at[w] \in {"idle", "save", "off", "reset defaults", "form", "gate",
                                         "count", "total", "sum", "reset"}
                          /\ key[w] \in DOMAIN Keys /\ Len(buf[w]) <= 1 /\ why[w] \in Reasons
    /\ stale \subseteq Names /\ {total, torn} \subseteq Nat

Settled == up /\ \A w \in Writers : at[w] = "idle"

\* When nobody is changing or saving settings, a restart would bring back the
\* settings that are in force, but for a key one task wrote over the other's
\* newer value (ConfigStore::save, handle_config_post, apply_pending_).
SavedIsLive == Settled => \A k \in Names \ stale : Loaded(nvs)[k] = live[k]

\* The dashboard is not switched off on a board without a reporter, by whichever
\* way (config.h:149-151), unless the reporter went after it, or during the
\* test, or a power cut left half a save.
WebOffHasReporter == Settled /\ Dark(live) => excused

\* The restarts counted by reason add up to the total, but for those a power
\* cut or the other task's restart came between (restart_with).
TallyHolds ==
    MapThenSumSet(LAMBDA r : count[r], Reasons) = total + torn + Cardinality(Uncounted)

===============================================================================
