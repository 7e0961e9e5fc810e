----------------------------- MODULE DeviceProofs -----------------------------
(***************************************************************************)
(* The settings survive whatever their two writers and the resets do, for  *)
(* any number of operations, restarts and power cuts; the restarts are all *)
(* in the counters; and the display wakes and sleeps when it should, for   *)
(* any durations, under a clock that wraps.                                *)
(***************************************************************************)
EXTENDS Device, FiniteSetTheorems, NaturalsInduction, WellFoundedInduction, TLAPS

(* The steps of Device as the settings see them.                           *)
LEMMA Steps == [Next]_vars => SettingsStep \/ SettingsRestart \/ UNCHANGED settings
<1> SUFFICES ASSUME [Next]_vars
             PROVE  SettingsStep \/ SettingsRestart \/ UNCHANGED settings
  OBVIOUS
<1>1. CASE Next
  BY <1>1 DEF Next, Shows, Restart, PowerCut
<1>2. CASE UNCHANGED vars
  BY <1>2 DEF vars
<1> QED BY <1>1, <1>2

(* The keys by their place.                                                *)
LEMMA KeysAre ==
    /\ DOMAIN Keys = 1 .. 5 /\ Len(Keys) = 5
    /\ Keys[1] = "ssid" /\ Keys[2] = "host" /\ Keys[3] = "web"
    /\ Keys[4] = "en" /\ Keys[5] = "key"
  BY DEF Keys

LEMMA KeysAreNames ==
    /\ \A i \in 1 .. 5 : Keys[i] \in Names
    /\ \A k \in Names : \E i \in 1 .. 5 : Keys[i] = k
<1>1. \A i \in 1 .. 5 : i = 1 \/ i = 2 \/ i = 3 \/ i = 4 \/ i = 5
  OBVIOUS
<1>2. \A i \in 1 .. 5 : Keys[i] \in Names
  BY <1>1, KeysAre DEF Names
<1>3. \A k \in Names : \E i \in 1 .. 5 : Keys[i] = k
  <2> SUFFICES ASSUME NEW k \in Names PROVE \E i \in 1 .. 5 : Keys[i] = k
    OBVIOUS
  <2>1. 1 \in 1 .. 5 /\ 2 \in 1 .. 5 /\ 3 \in 1 .. 5 /\ 4 \in 1 .. 5 /\ 5 \in 1 .. 5
    OBVIOUS
  <2> QED BY <2>1, KeysAre DEF Names
<1> QED BY <1>2, <1>3

LEMMA NextPlace ==
    ASSUME NEW a \in 1 .. 5, NEW i \in a .. 5, i # a
    PROVE  a < Len(Keys) /\ NextKey(a) = a + 1 /\ i \in a + 1 .. 5
<1>1. a < 5 /\ i \in a + 1 .. 5
  OBVIOUS
<1>2. Len(Keys) = 5
  BY KeysAre
<1> QED BY <1>1, <1>2 DEF NextKey

LEMMA DefaultsAre ==
    /\ Defaults \in [Names -> BOOLEAN]
    /\ Defaults["ssid"] = FALSE /\ Defaults["host"] = TRUE /\ Defaults["web"] = TRUE
    /\ Defaults["en"] = FALSE /\ Defaults["key"] = FALSE
<1>1. /\ Defaults["ssid"] = FALSE /\ Defaults["host"] = TRUE /\ Defaults["web"] = TRUE
      /\ Defaults["en"] = FALSE /\ Defaults["key"] = FALSE
  BY DEF Defaults
<1>2. Defaults = [k \in Names |-> Defaults[k]]
  BY DEF Defaults, Names
<1>3. \A k \in Names : Defaults[k] \in BOOLEAN
  BY <1>1 DEF Names
<1> QED BY <1>1, <1>2, <1>3

(***************************************************************************)
(* Types.                                                                  *)
(***************************************************************************)

(* Where the two writers may stand.                                        *)
MayStand(w) ==
    {"idle", "save", "count", "total", "sum", "reset"}
        \cup (IF w = "loop" THEN {"off", "reset defaults"} ELSE {"form", "gate"})

(* A writer that is not saving has nothing read and starts at the first    *)
(* key.                                                                    *)
PlacesOK ==
    /\ DOMAIN at = Writers /\ DOMAIN key = Writers /\ DOMAIN buf = Writers
    /\ \A w \in Writers : at[w] \in MayStand(w)
    /\ \A w \in Writers : key[w] \in 1 .. 5
    /\ \A w \in Writers : buf[w] = <<>> \/ \E v \in BOOLEAN : buf[w] = <<v>>
    /\ \A w \in Writers : at[w] # "save" => key[w] = 1 /\ buf[w] = <<>>
    /\ then \in {"idle", "count"}

ValuesOK ==
    /\ live \in [Names -> BOOLEAN] /\ posted \in [Names -> BOOLEAN]
    /\ DOMAIN nvs \subseteq Names /\ \A k \in DOMAIN nvs : nvs[k] \in BOOLEAN
    /\ stale \subseteq Names

SwitchesOK == up \in BOOLEAN /\ web \in BOOLEAN /\ wasOn \in BOOLEAN /\ excused \in BOOLEAN

LEMMA LoadedIs ==
    ASSUME ValuesOK
    PROVE  /\ Loaded(nvs) \in [Names -> BOOLEAN]
           /\ \A k \in Names :
                  Loaded(nvs)[k] = IF k \in DOMAIN nvs THEN nvs[k] ELSE Defaults[k]
  BY DefaultsAre DEF ValuesOK, Loaded

LEMMA ValuesInit == Init => ValuesOK
<1> SUFFICES ASSUME Init PROVE ValuesOK
  OBVIOUS
<1>1. live = Defaults /\ posted = Defaults /\ nvs = <<>> /\ stale = {}
  BY DEF Init, SettingsStart
<1>2. DOMAIN <<>> = {}
  OBVIOUS
<1> QED BY <1>1, <1>2, DefaultsAre DEF ValuesOK

LEMMA ValuesStep == ValuesOK /\ PlacesOK /\ [Next]_vars => ValuesOK'
<1> SUFFICES ASSUME ValuesOK, PlacesOK, [Next]_vars PROVE ValuesOK'
  OBVIOUS
<1> USE DEF config, form, writing, counters
<1>1. CASE Setup
  BY <1>1 DEF Setup, ValuesOK
<1>2. CASE MenuSet
  <2>1. PICK v \in BOOLEAN : \/ live' = [live EXCEPT !.ssid = v]
                             \/ live' = [live EXCEPT !.key = v, !.en = v]
                             \/ live' = live
    BY <1>2 DEF MenuSet
  <2>2. live' \in [Names -> BOOLEAN]
    BY <2>1 DEF ValuesOK
  <2> QED BY <1>2, <2>2 DEF MenuSet, ValuesOK
<1>3. CASE MenuWeb \/ MenuWebOff
  <2>1. live' \in [Names -> BOOLEAN]
    BY <1>3 DEF MenuWeb, MenuWebOff, ValuesOK
  <2> QED BY <1>3, <2>1 DEF MenuWeb, MenuWebOff, ValuesOK
<1>4. CASE MenuReset
  <2>1. nvs' = <<>> /\ UNCHANGED <<live, posted, stale>>
    BY <1>4 DEF MenuReset
  <2>2. DOMAIN <<>> = {}
    OBVIOUS
  <2> QED BY <2>1, <2>2 DEF ValuesOK
<1>5. CASE MenuDefaults
  BY <1>5, DefaultsAre DEF MenuDefaults, ValuesOK
<1>6. CASE FormFirst
  <2>1. live' \in [Names -> BOOLEAN] /\ posted' \in [Names -> BOOLEAN]
    BY <1>6 DEF FormFirst, ValuesOK
  <2> QED BY <1>6, <2>1 DEF FormFirst, ValuesOK
<1>7. CASE FormRest
  <2>1. posted["en"] \in BOOLEAN /\ posted["key"] \in BOOLEAN
    BY DEF ValuesOK, Names
  <2>2. live' \in [Names -> BOOLEAN]
    BY <1>7, <2>1 DEF FormRest, ValuesOK
  <2> QED BY <1>7, <2>2 DEF FormRest, ValuesOK
<1>8. CASE FormGate
  <2>1. (live.web \/ Refuses) \in BOOLEAN
    OBVIOUS
  <2>2. live' \in [Names -> BOOLEAN]
    BY <1>8, <2>1 DEF FormGate, ValuesOK
  <2> QED BY <1>8, <2>2 DEF FormGate, ValuesOK
<1>9. CASE PortalSave
  <2>1. live' \in [Names -> BOOLEAN]
    BY <1>9 DEF PortalSave, ValuesOK
  <2> QED BY <1>9, <2>1 DEF PortalSave, ValuesOK
<1>10. CASE GiveUp
  BY <1>10 DEF GiveUp, ValuesOK
<1>11. ASSUME NEW w \in Writers, ReadKey(w) PROVE ValuesOK'
  BY <1>11 DEF ReadKey, ValuesOK
<1>12. ASSUME NEW w \in Writers, PutKey(w) PROVE ValuesOK'
  <2> DEFINE n == Keys[key[w]]
  <2>1. n \in Names
    BY KeysAreNames DEF PlacesOK
  <2>2. buf[w][1] \in BOOLEAN
    BY <1>12 DEF PutKey, PlacesOK
  <2>3. /\ nvs' = [m \in DOMAIN nvs \cup {n} |-> IF m = n THEN buf[w][1] ELSE nvs[m]]
        /\ stale' \in {stale \ {n}, stale \cup {n}}
        /\ UNCHANGED <<live, posted>>
    BY <1>12 DEF PutKey
  <2> HIDE DEF n
  <2> QED BY <2>1, <2>2, <2>3 DEF ValuesOK
<1>13. ASSUME NEW w \in Writers, CountReason(w) \/ ReadTotal(w) \/ PutTotal(w) PROVE ValuesOK'
  BY <1>13 DEF CountReason, ReadTotal, PutTotal, ValuesOK
<1>14. CASE SettingsRestart
  BY <1>14, LoadedIs DEF SettingsRestart, ValuesOK
<1>15. CASE UNCHANGED settings
  BY <1>15 DEF settings, ValuesOK
<1> QED
  BY Steps, <1>1, <1>2, <1>3, <1>4, <1>5, <1>6, <1>7, <1>8, <1>9, <1>10, <1>11, <1>12,
     <1>13, <1>14, <1>15 DEF SettingsStep, Menu, Dashboard

LEMMA PlacesInit == Init => PlacesOK
<1> SUFFICES ASSUME Init PROVE PlacesOK
  OBVIOUS
<1>1. /\ at = [w \in Writers |-> IF w = "loop" THEN "save" ELSE "idle"]
      /\ key = [w \in Writers |-> 1] /\ buf = [w \in Writers |-> <<>>] /\ then = "idle"
  BY DEF Init, SettingsStart
<1> QED BY <1>1 DEF PlacesOK, MayStand

(* One writer takes a step that reads and writes no key.                   *)
LEMMA PlacesMove ==
    ASSUME PlacesOK, NEW w \in Writers, NEW s \in MayStand(w), Step(w, s),
           at[w] # "save", then' \in {"idle", "count"}, UNCHANGED <<key, buf>>
    PROVE  PlacesOK'
  BY DEF Step, PlacesOK

LEMMA PlacesStep == ValuesOK /\ PlacesOK /\ [Next]_vars => PlacesOK'
<1> SUFFICES ASSUME ValuesOK, PlacesOK, [Next]_vars PROVE PlacesOK'
  OBVIOUS
<1> USE DEF config, form, writing, counters
<1>0. /\ "loop" \in Writers /\ "async" \in Writers
      /\ \A w \in Writers : {"idle", "save", "count", "total", "sum", "reset"} \subseteq MayStand(w)
      /\ {"off", "reset defaults"} \subseteq MayStand("loop")
      /\ {"form", "gate"} \subseteq MayStand("async")
  BY DEF Writers, MayStand
<1>1. CASE Setup
  BY <1>1 DEF Setup, PlacesOK
<1>2. CASE MenuSet
  BY <1>2, <1>0, PlacesMove DEF MenuSet, Operates, Saves, PlacesOK
<1>3. CASE MenuWeb
  <2>1. \E s \in MayStand("loop") : Step("loop", s)
    BY <1>3, <1>0 DEF MenuWeb, Saves
  <2> QED BY <1>3, <1>0, <2>1, PlacesMove DEF MenuWeb, Operates, PlacesOK
<1>4. CASE MenuWebOff
  BY <1>4, <1>0, PlacesMove DEF MenuWebOff, Saves, PlacesOK
<1>5. CASE MenuReset
  BY <1>5, <1>0, PlacesMove DEF MenuReset, Operates, PlacesOK
<1>6. CASE MenuDefaults
  BY <1>6, <1>0, PlacesMove DEF MenuDefaults, Saves, PlacesOK
<1>7. CASE FormFirst
  BY <1>7, <1>0, PlacesMove DEF FormFirst, Operates
<1>8. CASE FormRest
  BY <1>8, <1>0, PlacesMove DEF FormRest, PlacesOK
<1>9. CASE FormGate
  BY <1>9, <1>0, PlacesMove DEF FormGate, Saves, PlacesOK
<1>10. CASE PortalSave
  BY <1>10, <1>0, PlacesMove DEF PortalSave, Operates, Saves
<1>11. CASE GiveUp
  BY <1>11, <1>0, PlacesMove DEF GiveUp, Operates, PlacesOK
<1>12. ASSUME NEW w \in Writers, ReadKey(w) PROVE PlacesOK'
  <2> DEFINE v == live[Keys[key[w]]]
  <2>1. buf' = [buf EXCEPT ![w] = <<v>>] /\ at[w] = "save" /\ UNCHANGED <<at, key, then>>
    BY <1>12 DEF ReadKey
  <2>2. v \in BOOLEAN
    BY KeysAreNames DEF PlacesOK, ValuesOK
  <2> HIDE DEF v
  <2> QED BY <2>1, <2>2 DEF PlacesOK
<1>13. ASSUME NEW w \in Writers, PutKey(w) PROVE PlacesOK'
  <2>1. key[w] \in 1 .. 5 /\ then \in {"idle", "count"} /\ at[w] = "save"
    BY <1>13 DEF PutKey, PlacesOK
  <2>2. buf' = [buf EXCEPT ![w] = <<>>] /\ then' = then
    BY <1>13 DEF PutKey
  <2>3. /\ at' = IF key[w] < Len(Keys) THEN at
                 ELSE [at EXCEPT ![w] = IF w = "async" THEN then ELSE "idle"]
        /\ key' = [key EXCEPT ![w] = NextKey(key[w])]
    BY <1>13 DEF PutKey
  <2>4. CASE key[w] < 5
    <3>0. key[w] < Len(Keys) /\ NextKey(key[w]) = key[w] + 1
      BY <2>1, <2>4, KeysAre DEF NextKey
    <3>1. key' = [key EXCEPT ![w] = key[w] + 1] /\ at' = at
      BY <2>3, <3>0
    <3>2. key[w] + 1 \in 1 .. 5
      BY <2>1, <2>4
    <3> QED BY <2>1, <2>2, <3>1, <3>2 DEF PlacesOK
  <2>5. CASE key[w] = 5
    <3>0. ~(key[w] < Len(Keys)) /\ NextKey(key[w]) = 1
      BY <2>5, KeysAre DEF NextKey
    <3>1. PICK s \in {"idle", "count"} : at' = [at EXCEPT ![w] = s]
      <4>1. (IF w = "async" THEN then ELSE "idle") \in {"idle", "count"}
        BY <2>1
      <4> QED BY <2>3, <3>0, <4>1
    <3>2. key' = [key EXCEPT ![w] = 1]
      BY <2>3, <3>0
    <3>3. 1 \in 1 .. 5
      OBVIOUS
    <3> QED BY <1>0, <2>1, <2>2, <3>1, <3>2, <3>3 DEF PlacesOK
  <2> QED BY <2>1, <2>4, <2>5
<1>14. ASSUME NEW w \in Writers, CountReason(w) \/ ReadTotal(w) \/ PutTotal(w) PROVE PlacesOK'
  <2>1. \E s \in {"total", "sum", "reset"} : Step(w, s)
    BY <1>14 DEF CountReason, ReadTotal, PutTotal
  <2>2. at[w] # "save" /\ UNCHANGED <<key, buf, then>>
    BY <1>14 DEF CountReason, ReadTotal, PutTotal
  <2> QED BY <1>0, <2>1, <2>2, PlacesMove DEF PlacesOK
<1>15. CASE SettingsRestart
  <2>1. PICK s \in {"save", "idle"} :
               at' = [w \in Writers |-> IF w = "loop" THEN s ELSE "idle"]
    <3>1. CASE "host" \in DOMAIN nvs
      <4>1. at' = [w \in Writers |-> IF w = "loop" THEN "idle" ELSE "idle"]
        BY <1>15, <3>1 DEF SettingsRestart
      <4> QED BY <4>1
    <3>2. CASE "host" \notin DOMAIN nvs
      <4>1. at' = [w \in Writers |-> IF w = "loop" THEN "save" ELSE "idle"]
        BY <1>15, <3>2 DEF SettingsRestart
      <4> QED BY <4>1
    <3> QED BY <3>1, <3>2
  <2>2. /\ key' = [w \in Writers |-> 1] /\ buf' = [w \in Writers |-> <<>>]
        /\ then' = then
    BY <1>15 DEF SettingsRestart
  <2>3. \A w \in Writers : at'[w] \in {"save", "idle"}
    BY <2>1
  <2>4. 1 \in 1 .. 5
    OBVIOUS
  <2>5. \A w \in Writers : at'[w] \in MayStand(w)
    BY <2>3, <1>0
  <2> QED BY <2>1, <2>2, <2>4, <2>5 DEF PlacesOK
<1>16. CASE UNCHANGED settings
  BY <1>16 DEF settings, PlacesOK
<1> QED
  BY Steps, <1>1, <1>2, <1>3, <1>4, <1>5, <1>6, <1>7, <1>8, <1>9, <1>10, <1>11, <1>12,
     <1>13, <1>14, <1>15, <1>16 DEF SettingsStep, Menu, Dashboard

LEMMA SwitchesInit == Init => SwitchesOK
  BY DEF Init, SettingsStart, SwitchesOK

LEMMA SwitchesStep == ValuesOK /\ SwitchesOK /\ [Next]_vars => SwitchesOK'
<1> SUFFICES ASSUME ValuesOK, SwitchesOK, [Next]_vars PROVE SwitchesOK'
  OBVIOUS
<1> USE DEF SwitchesOK, config, form, writing, counters
<1>1. live.web \in BOOLEAN /\ Dark(live) \in BOOLEAN
  BY DEF ValuesOK, Names, Dark
<1>2. CASE Setup
  <2>1. (live.web \/ ~live.ssid \/ ~Active(live)) \in BOOLEAN
    OBVIOUS
  <2> QED BY <1>2, <2>1 DEF Setup
<1>3. CASE Menu
  <2>1. (excused \/ Dark(live')) \in BOOLEAN
    OBVIOUS
  <2> QED BY <1>3, <2>1 DEF Menu, MenuSet, MenuWeb, MenuWebOff, MenuReset, MenuDefaults
<1>4. CASE Dashboard
  <2>1. (excused \/ (Dark(live') /\ ~wasOn)) \in BOOLEAN
    OBVIOUS
  <2> QED BY <1>1, <1>4, <2>1 DEF Dashboard, FormFirst, FormRest, FormGate, PortalSave
<1>5. CASE GiveUp
  BY <1>5 DEF GiveUp
<1>6. ASSUME NEW w \in Writers, ReadKey(w) \/ PutKey(w) PROVE SwitchesOK'
  BY <1>6 DEF ReadKey, PutKey
<1>7. ASSUME NEW w \in Writers, CountReason(w) \/ ReadTotal(w) \/ PutTotal(w)
      PROVE  SwitchesOK'
  BY <1>7 DEF CountReason, ReadTotal, PutTotal
<1>8. CASE SettingsRestart
  <2>1. (excused \/ (Dark(live') /\ Halfway)) \in BOOLEAN
    OBVIOUS
  <2> QED BY <1>8, <2>1 DEF SettingsRestart
<1>9. CASE UNCHANGED settings
  BY <1>9 DEF settings
<1> QED
  BY Steps, <1>2, <1>3, <1>4, <1>5, <1>6, <1>7, <1>8, <1>9 DEF SettingsStep

(***************************************************************************)
(* What is in flash is what is in force.                                   *)
(***************************************************************************)

(* A restart would bring the value of k back.                              *)
Kept(k) == Loaded(nvs)[k] = live[k]

(* A writer has still to save k; a reset has removed it already.           *)
Coming(w, k) ==
    \/ at[w] \in {"form", "gate"}
    \/ at[w] = "reset defaults" /\ k \notin DOMAIN nvs
    \/ at[w] = "save" /\ \E i \in key[w] .. 5 : Keys[i] = k

KeepInv == \A k \in Names \ stale : Kept(k) \/ \E w \in Writers : Coming(w, k)

(* A save that begins saves every key.                                     *)
LEMMA AllComing ==
    ASSUME NEW k \in Names, NEW w \in Writers, at[w] = "save", key[w] = 1
    PROVE  Coming(w, k)
  BY KeysAreNames DEF Coming

(* A step that begins, or continues to, a save.                            *)
LEMMA KeepWhenComing ==
    ASSUME NEW w \in Writers, at'[w] \in {"form", "gate"} \/ (at'[w] = "save" /\ key'[w] = 1)
    PROVE  KeepInv'
<1>1. \A k \in Names : Coming(w, k)'
  BY KeysAreNames DEF Coming
<1> QED BY <1>1 DEF KeepInv

(* A step that leaves the values alone, of a writer that saves nothing.    *)
LEMMA KeepMoves ==
    ASSUME PlacesOK, KeepInv, NEW w \in Writers,
           at[w] \notin {"form", "gate", "reset defaults", "save"},
           NEW s, Step(w, s), UNCHANGED <<live, nvs, stale, key>>
    PROVE  KeepInv'
<1>1. \A k \in Names : Kept(k)' = Kept(k)
  BY DEF Kept, Loaded
<1>2. \A k \in Names : \A v \in Writers : Coming(v, k) => Coming(v, k)'
  <2> SUFFICES ASSUME NEW k \in Names, NEW v \in Writers, Coming(v, k) PROVE Coming(v, k)'
    OBVIOUS
  <2>1. v # w
    BY DEF Coming
  <2>2. at'[v] = at[v] /\ key'[v] = key[v] /\ nvs' = nvs
    BY <2>1 DEF Step, PlacesOK
  <2> QED BY <2>2 DEF Coming
<1> QED BY <1>1, <1>2 DEF KeepInv

LEMMA KeepInit == Init => KeepInv
<1> SUFFICES ASSUME Init PROVE KeepInv
  OBVIOUS
<1>1. "loop" \in Writers /\ at["loop"] = "save" /\ key["loop"] = 1
  BY DEF Init, SettingsStart, Writers
<1> QED BY <1>1, AllComing DEF KeepInv

(* One key is written: it is as it is in force, or stale.                  *)
LEMMA KeepPut ==
    ASSUME ValuesOK, PlacesOK, KeepInv, NEW w \in Writers, PutKey(w)
    PROVE  KeepInv'
<1> DEFINE b == buf[w][1]
<1>0. PICK n \in Names : n = Keys[key[w]]
  BY KeysAreNames DEF PlacesOK
<1>1. /\ nvs' = [m \in DOMAIN nvs \cup {n} |-> IF m = n THEN b ELSE nvs[m]]
      /\ stale' = IF b = live[n] THEN stale \ {n} ELSE stale \cup {n}
      /\ live' = live /\ at[w] = "save"
  BY <1>0 DEF PutKey, config
<1>2. /\ at' = IF key[w] < Len(Keys) THEN at
               ELSE [at EXCEPT ![w] = IF w = "async" THEN then ELSE "idle"]
      /\ key' = [key EXCEPT ![w] = NextKey(key[w])]
  BY DEF PutKey
<1>3. key[w] \in 1 .. 5
  BY DEF PlacesOK
<1>4. \A k \in Names \ {n} : Kept(k) => Kept(k)'
  <2> HIDE DEF b
  <2> QED BY <1>1, LoadedIs, DefaultsAre DEF Kept, Loaded, ValuesOK
<1>5. n \notin stale' => Kept(n)'
  <2> HIDE DEF b
  <2>1. Loaded(nvs')[n] = b
    BY <1>1, <1>3 DEF Loaded
  <2> QED BY <1>1, <2>1 DEF Kept
<1>6. \A k \in Names \ {n} : \A v \in Writers : Coming(v, k) => Coming(v, k)'
  <2> SUFFICES ASSUME NEW k \in Names \ {n}, NEW v \in Writers, Coming(v, k)
               PROVE  Coming(v, k)'
    OBVIOUS
  <2>1. k \notin DOMAIN nvs => k \notin DOMAIN nvs'
    <3> HIDE DEF b
    <3> QED BY <1>1
  <2>2. CASE v # w
    <3>1. at'[v] = at[v] /\ key'[v] = key[v]
      BY <1>2, <2>2 DEF PlacesOK
    <3> QED BY <2>1, <3>1 DEF Coming
  <2>3. CASE v = w
    <3>1. PICK i \in key[w] .. 5 : Keys[i] = k
      BY <1>1, <2>3 DEF Coming
    <3>2. i # key[w]
      BY <1>0, <3>1
    <3>3. key[w] < Len(Keys) /\ NextKey(key[w]) = key[w] + 1 /\ i \in key[w] + 1 .. 5
      BY <1>3, <3>2, NextPlace
    <3>4. at' = at /\ key'[w] = key[w] + 1
      BY <1>2, <3>3 DEF PlacesOK
    <3> QED BY <1>1, <2>3, <3>1, <3>3, <3>4 DEF Coming
  <2> QED BY <2>2, <2>3
<1>7. \A k \in Names \ {n} : k \notin stale' => k \notin stale
  <2> HIDE DEF b
  <2> QED BY <1>1
<1> HIDE DEF b
<1> QED
  <2> SUFFICES ASSUME NEW k \in Names, k \notin stale'
               PROVE  Kept(k)' \/ \E v \in Writers : Coming(v, k)'
    BY DEF KeepInv
  <2>1. CASE k = n
    BY <1>5, <2>1
  <2>2. CASE k # n
    BY <1>4, <1>6, <1>7, <2>2 DEF KeepInv
  <2> QED BY <2>1, <2>2

LEMMA KeepStep == ValuesOK /\ PlacesOK /\ KeepInv /\ [Next]_vars => KeepInv'
<1> SUFFICES ASSUME ValuesOK, PlacesOK, KeepInv, [Next]_vars PROVE KeepInv'
  OBVIOUS
<1> USE DEF config, form, writing, counters
<1>0. "loop" \in Writers /\ "async" \in Writers /\ DOMAIN at = Writers /\ DOMAIN key = Writers
  BY DEF Writers, PlacesOK
<1>1. CASE Setup
  BY <1>1 DEF Setup, KeepInv, Kept, Coming, Loaded
<1>2. CASE MenuSet
  <2>1. at'["loop"] = "save" /\ key'["loop"] = 1
    BY <1>0, <1>2 DEF MenuSet, Operates, Saves, Step, PlacesOK
  <2> QED BY <1>0, <2>1, KeepWhenComing
<1>3. CASE MenuWeb
  <2>1. CASE live.web
    <3>1. \E s \in {"off", "idle"} : Step("loop", s)
      BY <1>3, <2>1 DEF MenuWeb
    <3>2. at["loop"] = "idle" /\ UNCHANGED <<live, nvs, stale, key>>
      BY <1>3, <2>1 DEF MenuWeb, Operates
    <3> QED BY <1>0, <3>1, <3>2, KeepMoves
  <2>2. CASE ~live.web
    <3>1. at'["loop"] = "save" /\ key'["loop"] = 1
      BY <1>0, <1>3, <2>2 DEF MenuWeb, Operates, Saves, Step, PlacesOK
    <3> QED BY <1>0, <3>1, KeepWhenComing
  <2> QED BY <2>1, <2>2
<1>4. CASE MenuWebOff
  <2>1. at'["loop"] = "save" /\ key'["loop"] = 1
    BY <1>0, <1>4 DEF MenuWebOff, Saves, Step, PlacesOK
  <2> QED BY <1>0, <2>1, KeepWhenComing
<1>5. CASE MenuReset
  <2>1. at'["loop"] = "reset defaults" /\ nvs' = <<>>
    BY <1>0, <1>5 DEF MenuReset, Step
  <2>2. DOMAIN <<>> = {}
    OBVIOUS
  <2>3. DOMAIN nvs' = {}
    BY <2>1, <2>2
  <2>4. \A k \in Names : Coming("loop", k)'
    BY <2>1, <2>3 DEF Coming
  <2> QED BY <1>0, <2>4 DEF KeepInv
<1>6. CASE MenuDefaults
  <2>1. at'["loop"] = "save" /\ key'["loop"] = 1
    BY <1>0, <1>6 DEF MenuDefaults, Saves, Step, PlacesOK
  <2> QED BY <1>0, <2>1, KeepWhenComing
<1>7. CASE FormFirst
  <2>1. at'["async"] = "form"
    BY <1>0, <1>7 DEF FormFirst, Step
  <2> QED BY <1>0, <2>1, KeepWhenComing
<1>8. CASE FormRest
  <2>1. at'["async"] = "gate"
    BY <1>0, <1>8 DEF FormRest, Step
  <2> QED BY <1>0, <2>1, KeepWhenComing
<1>9. CASE FormGate
  <2>1. at'["async"] = "save" /\ key'["async"] = 1
    BY <1>0, <1>9 DEF FormGate, Saves, Step, PlacesOK
  <2> QED BY <1>0, <2>1, KeepWhenComing
<1>10. CASE PortalSave
  <2>1. at'["async"] = "save" /\ key'["async"] = 1
    BY <1>0, <1>10 DEF PortalSave, Operates, Saves, Step, PlacesOK
  <2> QED BY <1>0, <2>1, KeepWhenComing
<1>11. CASE GiveUp
  <2>1. /\ at["loop"] = "idle" /\ Step("loop", "count")
        /\ UNCHANGED <<live, nvs, stale, key>>
    BY <1>11 DEF GiveUp, Operates
  <2> QED BY <1>0, <2>1, KeepMoves
<1>12. ASSUME NEW w \in Writers, ReadKey(w) PROVE KeepInv'
  <2>1. UNCHANGED <<live, nvs, stale, at, key>>
    BY <1>12 DEF ReadKey
  <2> QED BY <2>1 DEF KeepInv, Kept, Coming, Loaded
<1>13. ASSUME NEW w \in Writers, PutKey(w) PROVE KeepInv'
  BY <1>13, KeepPut
<1>14. ASSUME NEW w \in Writers, CountReason(w) \/ ReadTotal(w) \/ PutTotal(w) PROVE KeepInv'
  <2>1. /\ at[w] \in {"count", "total", "sum"}
        /\ \E s \in {"total", "sum", "reset"} : Step(w, s)
        /\ UNCHANGED <<live, nvs, stale, key>>
    BY <1>14 DEF CountReason, ReadTotal, PutTotal
  <2> QED BY <2>1, KeepMoves
<1>15. CASE SettingsRestart
  <2>1. live' = Loaded(nvs) /\ nvs' = nvs
    BY <1>15 DEF SettingsRestart
  <2>2. \A k \in Names : Kept(k)'
    BY <2>1 DEF Kept, Loaded
  <2> QED BY <2>2 DEF KeepInv
<1>16. CASE UNCHANGED settings
  BY <1>16 DEF settings, KeepInv, Kept, Coming, Loaded
<1> QED
  BY Steps, <1>1, <1>2, <1>3, <1>4, <1>5, <1>6, <1>7, <1>8, <1>9, <1>10, <1>11, <1>12,
     <1>13, <1>14, <1>15, <1>16 DEF SettingsStep, Menu, Dashboard

(***************************************************************************)
(* No board is switched dark.                                              *)
(***************************************************************************)

(* There is neither dashboard nor reporter only with an excuse, or while   *)
(* the form is between its fields and its test.                            *)
DarkInv == Dark(live) => excused \/ at["async"] \in {"form", "gate"}

(* After a reset has removed the keys, the other writer puts the switch    *)
(* back only together with the reporter.                                   *)
Reporter == {"en", "key"}

ResetInv ==
    at["loop"] = "reset defaults" /\ "web" \in DOMAIN nvs =>
        \A k \in Reporter : k \in DOMAIN nvs \/ Coming("async", k)

LEMMA DarkIs ==
    ASSUME NEW c
    PROVE  Dark(c) <=> ~c["web"] /\ ~(c["en"] /\ c["key"])
  BY DEF Dark, Active

LEMMA ReporterFollows ==
    /\ Reporter \subseteq Names
    /\ \A i \in 1 .. 5, k \in Reporter :
           Keys[i] = "web" => \E j \in i .. 5 : Keys[j] = k
<1>1. Reporter \subseteq Names
  BY DEF Reporter, Names
<1>2. \A i \in 1 .. 5 : Keys[i] = "web" => i = 3
  <2> SUFFICES ASSUME NEW i \in 1 .. 5, Keys[i] = "web" PROVE i = 3
    OBVIOUS
  <2>1. i = 1 \/ i = 2 \/ i = 3 \/ i = 4 \/ i = 5
    OBVIOUS
  <2> QED BY <2>1, KeysAre
<1>3. 4 \in 3 .. 5 /\ 5 \in 3 .. 5
  OBVIOUS
<1>4. \A k \in Reporter : Keys[4] = k \/ Keys[5] = k
  BY KeysAre DEF Reporter
<1> QED BY <1>1, <1>2, <1>3, <1>4

LEMMA DarkInit == Init => DarkInv
  BY DefaultsAre, DarkIs DEF Init, SettingsStart, DarkInv

(* What a reset would read is dark only if what is in force is.            *)
LEMMA LoadedDark ==
    ASSUME ValuesOK, PlacesOK, KeepInv, ResetInv, ~Halfway, Dark(Loaded(nvs))
    PROVE  Dark(live) /\ at["async"] \notin {"form", "gate"}
<1>1. stale = {} /\ \A w \in Writers : at[w] \notin {"form", "gate", "save"}
  BY DEF Halfway
<1>2. at["async"] \notin {"form", "gate", "save", "reset defaults"}
  BY <1>1 DEF PlacesOK, MayStand, Writers
<1>3. \A k \in Names : Kept(k) \/ (at["loop"] = "reset defaults" /\ k \notin DOMAIN nvs)
  BY <1>1, <1>2 DEF KeepInv, Coming, Writers
<1>4. "web" \in Names /\ "en" \in Names /\ "key" \in Names
  BY DEF Names
<1>6. Kept("web") /\ Kept("en") /\ Kept("key")
  <2>1. CASE at["loop"] # "reset defaults"
    BY <1>3, <1>4, <2>1
  <2>2. CASE at["loop"] = "reset defaults"
    <3>1. Loaded(nvs)["web"] # TRUE
      BY DarkIs
    <3>2. "web" \in DOMAIN nvs
      BY <1>4, <3>1, LoadedIs, DefaultsAre
    <3>3. "en" \in DOMAIN nvs /\ "key" \in DOMAIN nvs
      BY <1>2, <2>2, <3>2 DEF ResetInv, Coming, Reporter
    <3> QED BY <1>3, <1>4, <3>2, <3>3
  <2> QED BY <2>1, <2>2
<1>7. /\ Loaded(nvs)["web"] = live["web"] /\ Loaded(nvs)["en"] = live["en"]
      /\ Loaded(nvs)["key"] = live["key"]
  BY <1>6 DEF Kept
<1>8. Dark(live)
  <2>1. ~Loaded(nvs)["web"] /\ ~(Loaded(nvs)["en"] /\ Loaded(nvs)["key"])
    BY DarkIs
  <2>2. ~live["web"] /\ ~(live["en"] /\ live["key"])
    BY <1>7, <2>1
  <2> QED BY <2>2, DarkIs
<1> QED BY <1>2, <1>8

LEMMA DarkStep ==
    ValuesOK /\ PlacesOK /\ KeepInv /\ ResetInv /\ DarkInv /\ [Next]_vars => DarkInv'
<1> SUFFICES ASSUME ValuesOK, PlacesOK, KeepInv, ResetInv, DarkInv, [Next]_vars PROVE DarkInv'
  OBVIOUS
<1> USE DEF config, form, writing, counters
<1>0. /\ DOMAIN at = Writers /\ "async" \in Writers /\ "loop" \in Writers
      /\ at["loop"] \notin {"form", "gate"} /\ DOMAIN live = Names /\ DOMAIN posted = Names
      /\ {"ssid", "web", "en", "key"} \subseteq Names
  BY DEF Writers, PlacesOK, MayStand, ValuesOK, Names
<1>1. CASE Setup
  BY <1>1 DEF Setup, DarkInv
<1>2. CASE MenuSet
  BY <1>2 DEF MenuSet, DarkInv
<1>3. CASE MenuWeb
  <2>1. at'["async"] = at["async"] /\ excused' = excused
    BY <1>0, <1>3 DEF MenuWeb, Saves, Step
  <2>2. live' = live \/ live' = [live EXCEPT !.web = TRUE]
    BY <1>3 DEF MenuWeb
  <2>3. Dark(live') => Dark(live)
    <3>1. CASE live' = live
      BY <3>1
    <3>2. CASE live' = [live EXCEPT !.web = TRUE]
      BY <1>0, <3>2, DarkIs
    <3> QED BY <2>2, <3>1, <3>2
  <2> QED BY <2>1, <2>3 DEF DarkInv
<1>4. CASE MenuWebOff
  BY <1>4 DEF MenuWebOff, DarkInv
<1>5. CASE MenuReset
  <2>1. at'["async"] = at["async"] /\ excused' = excused /\ live' = live
    BY <1>0, <1>5 DEF MenuReset, Step
  <2> QED BY <2>1 DEF DarkInv
<1>6. CASE MenuDefaults
  <2>1. ~Dark(live')
    BY <1>6, DefaultsAre, DarkIs DEF MenuDefaults
  <2> QED BY <2>1 DEF DarkInv
<1>7. CASE FormFirst
  <2>1. at'["async"] = "form"
    BY <1>0, <1>7 DEF FormFirst, Step
  <2> QED BY <2>1 DEF DarkInv
<1>8. CASE FormRest
  <2>1. at'["async"] = "gate"
    BY <1>0, <1>8 DEF FormRest, Step
  <2> QED BY <2>1 DEF DarkInv
<1>9. CASE FormGate
  <2>1. live' = [live EXCEPT !.web = live.web \/ Refuses]
    BY <1>9 DEF FormGate
  <2>2. live'["web"] = (live["web"] \/ Refuses) /\ live'["en"] = live["en"] /\ live'["key"] = live["key"]
    BY <1>0, <2>1
  <2>3. Dark(live') => Dark(live) /\ ~Refuses
    BY <2>2, DarkIs
  <2>4. Dark(live') => ~wasOn
    BY <2>3 DEF Refuses
  <2>5. excused' = (excused \/ (Dark(live') /\ ~wasOn))
    BY <1>9 DEF FormGate
  <2> QED BY <2>4, <2>5 DEF DarkInv
<1>10. CASE PortalSave
  <2>1. live' = [live EXCEPT !.ssid = TRUE] /\ excused' = excused /\ at["async"] = "idle"
    BY <1>10 DEF PortalSave, Operates
  <2>2. Dark(live') => Dark(live)
    BY <1>0, <2>1, DarkIs
  <2> QED BY <2>1, <2>2 DEF DarkInv
<1>11. CASE GiveUp
  <2>1. at'["async"] = at["async"] /\ excused' = excused /\ live' = live
    BY <1>0, <1>11 DEF GiveUp, Step
  <2> QED BY <2>1 DEF DarkInv
<1>12. ASSUME NEW w \in Writers, ReadKey(w) PROVE DarkInv'
  BY <1>12 DEF ReadKey, DarkInv
<1>13. ASSUME NEW w \in Writers, PutKey(w) PROVE DarkInv'
  <2>1. /\ at[w] = "save" /\ excused' = excused /\ live' = live
        /\ at' = IF key[w] < Len(Keys) THEN at
                 ELSE [at EXCEPT ![w] = IF w = "async" THEN then ELSE "idle"]
    BY <1>13 DEF PutKey
  <2>2. at["async"] \in {"form", "gate"} => at'["async"] = at["async"]
    <3> SUFFICES ASSUME at["async"] \in {"form", "gate"} PROVE at'["async"] = at["async"]
      OBVIOUS
    <3>1. w # "async"
      BY <2>1
    <3> QED BY <1>0, <2>1, <3>1
  <2> QED BY <2>1, <2>2 DEF DarkInv
<1>14. ASSUME NEW w \in Writers, CountReason(w) \/ ReadTotal(w) \/ PutTotal(w) PROVE DarkInv'
  <2>1. /\ at[w] \in {"count", "total", "sum"} /\ excused' = excused /\ live' = live
        /\ \E s \in {"total", "sum", "reset"} : at' = [at EXCEPT ![w] = s]
    BY <1>14 DEF CountReason, ReadTotal, PutTotal, Step
  <2>2. at["async"] \in {"form", "gate"} => at'["async"] = at["async"]
    BY <1>0, <2>1
  <2> QED BY <2>1, <2>2 DEF DarkInv
<1>15. CASE SettingsRestart
  <2>1. /\ live' = Loaded(nvs) /\ excused' = (excused \/ (Dark(live') /\ Halfway))
    BY <1>15 DEF SettingsRestart
  <2>2. CASE Halfway
    BY <2>1, <2>2 DEF DarkInv
  <2>3. CASE ~Halfway
    BY <2>1, <2>3, LoadedDark DEF DarkInv
  <2> QED BY <2>2, <2>3
<1>16. CASE UNCHANGED settings
  BY <1>16 DEF settings, DarkInv
<1> QED
  BY Steps, <1>1, <1>2, <1>3, <1>4, <1>5, <1>6, <1>7, <1>8, <1>9, <1>10, <1>11, <1>12,
     <1>13, <1>14, <1>15, <1>16 DEF SettingsStep, Menu, Dashboard

LEMMA ResetStep ==
    ValuesOK /\ PlacesOK /\ ResetInv /\ [Next]_vars => ResetInv'
<1> SUFFICES ASSUME ValuesOK, PlacesOK, ResetInv, [Next]_vars PROVE ResetInv'
  OBVIOUS
<1> USE DEF config, form, writing, counters
<1>0. /\ DOMAIN at = Writers /\ DOMAIN key = Writers /\ "async" \in Writers /\ "loop" \in Writers
      /\ at["async"] # "reset defaults"
  BY DEF Writers, PlacesOK, MayStand
<1>a. ASSUME at'["loop"] # "reset defaults" PROVE ResetInv'
  BY <1>a DEF ResetInv
<1>b. ASSUME at'["async"] \in {"form", "gate"} \/ (at'["async"] = "save" /\ key'["async"] = 1)
      PROVE  ResetInv'
  <2>1. \A k \in Names : Coming("async", k)'
    BY <1>b, KeysAreNames DEF Coming
  <2> QED BY <2>1, ReporterFollows DEF ResetInv
<1>c. ASSUME NEW w \in Writers, at[w] \in {"idle", "count", "total", "sum"}, UNCHANGED <<nvs, key>>,
             NEW s \in {"off", "idle", "count", "total", "sum", "reset"}, Step(w, s)
      PROVE  ResetInv'
  <2>1. at'["loop"] = "reset defaults" => at["loop"] = "reset defaults"
    BY <1>0, <1>c DEF Step
  <2>2. \A k : Coming("async", k) => Coming("async", k)'
    BY <1>0, <1>c DEF Step, Coming
  <2> QED BY <1>c, <2>1, <2>2 DEF ResetInv
<1>1. CASE Setup
  BY <1>1 DEF Setup, ResetInv, Coming
<1>2. CASE MenuSet \/ MenuWebOff \/ MenuDefaults
  <2>1. at'["loop"] = "save"
    BY <1>0, <1>2 DEF MenuSet, MenuWebOff, MenuDefaults, Saves, Step
  <2> QED BY <1>a, <2>1
<1>3. CASE MenuWeb
  <2>1. at'["loop"] \in {"off", "idle", "save"}
    BY <1>0, <1>3 DEF MenuWeb, Saves, Step
  <2> QED BY <1>a, <2>1
<1>4. CASE MenuReset
  <2>1. nvs' = <<>>
    BY <1>4 DEF MenuReset
  <2>2. DOMAIN <<>> = {}
    OBVIOUS
  <2> QED BY <2>1, <2>2 DEF ResetInv
<1>5. CASE FormFirst \/ FormRest
  <2>1. at'["async"] \in {"form", "gate"}
    BY <1>0, <1>5 DEF FormFirst, FormRest, Step
  <2> QED BY <1>b, <2>1
<1>6. CASE FormGate \/ PortalSave
  <2>1. at["async"] # "save" /\ at'["async"] = "save" /\ key' = key
    BY <1>0, <1>6 DEF FormGate, PortalSave, Operates, Saves, Step
  <2> QED BY <1>0, <1>b, <2>1 DEF PlacesOK
<1>7. CASE GiveUp
  <2>1. at["loop"] = "idle" /\ Step("loop", "count") /\ UNCHANGED <<nvs, key>>
    BY <1>7 DEF GiveUp, Operates
  <2> QED BY <1>0, <1>c, <2>1
<1>8. ASSUME NEW w \in Writers, ReadKey(w) PROVE ResetInv'
  <2>1. UNCHANGED <<nvs, at, key>>
    BY <1>8 DEF ReadKey
  <2> QED BY <2>1 DEF ResetInv, Coming
<1>9. ASSUME NEW w \in Writers, PutKey(w) PROVE ResetInv'
  <2>0. PICK n \in Names : n = Keys[key[w]]
    BY KeysAreNames DEF PlacesOK
  <2> DEFINE b == buf[w][1]
  <2>1. nvs' = [m \in DOMAIN nvs \cup {n} |-> IF m = n THEN b ELSE nvs[m]] /\ at[w] = "save"
    BY <1>9, <2>0 DEF PutKey
  <2>2. /\ at' = IF key[w] < Len(Keys) THEN at
                 ELSE [at EXCEPT ![w] = IF w = "async" THEN then ELSE "idle"]
        /\ key' = [key EXCEPT ![w] = NextKey(key[w])]
    BY <1>9 DEF PutKey
  <2>3. key[w] \in 1 .. 5
    BY DEF PlacesOK
  <2> HIDE DEF b
  <2>4. DOMAIN nvs' = DOMAIN nvs \cup {n}
    BY <2>1
  <2>5. CASE w = "loop"
    <3>1. at'["loop"] # "reset defaults"
      BY <1>0, <2>1, <2>2, <2>5
    <3> QED BY <1>a, <3>1
  <2>6. CASE w = "async"
    <3> SUFFICES ASSUME at'["loop"] = "reset defaults", "web" \in DOMAIN nvs',
                        NEW k \in Reporter, k \notin DOMAIN nvs'
                 PROVE  Coming("async", k)'
      BY DEF ResetInv
    <3>1. at["loop"] = "reset defaults" /\ k # n /\ k \notin DOMAIN nvs
      BY <1>0, <2>2, <2>4, <2>6
    <3>2. \E i \in key[w] .. 5 : Keys[i] = k
      <4>1. CASE "web" \in DOMAIN nvs
        BY <2>1, <2>6, <3>1, <4>1 DEF ResetInv, Coming
      <4>2. CASE "web" \notin DOMAIN nvs
        <5>1. n = "web"
          BY <2>4, <4>2
        <5> QED BY <2>0, <2>3, <5>1, ReporterFollows
      <4> QED BY <4>1, <4>2
    <3>3. PICK i \in key[w] .. 5 : Keys[i] = k
      BY <3>2
    <3>4. i # key[w]
      BY <2>0, <3>1, <3>3
    <3>5. key[w] < Len(Keys) /\ NextKey(key[w]) = key[w] + 1 /\ i \in key[w] + 1 .. 5
      BY <2>3, <3>4, NextPlace
    <3>6. at' = at /\ key'[w] = key[w] + 1
      BY <1>0, <2>2, <3>5
    <3> QED BY <2>1, <2>6, <3>3, <3>5, <3>6 DEF Coming
  <2> QED BY <2>5, <2>6 DEF Writers
<1>10. ASSUME NEW w \in Writers, CountReason(w) \/ ReadTotal(w) \/ PutTotal(w) PROVE ResetInv'
  <2>1. /\ at[w] \in {"count", "total", "sum"} /\ UNCHANGED <<nvs, key>>
        /\ \E s \in {"total", "sum", "reset"} : Step(w, s)
    BY <1>10 DEF CountReason, ReadTotal, PutTotal
  <2> QED BY <1>c, <2>1
<1>11. CASE SettingsRestart
  <2>1. at'["loop"] \in {"save", "idle"}
    BY <1>0, <1>11 DEF SettingsRestart
  <2> QED BY <1>a, <2>1
<1>12. CASE UNCHANGED settings
  BY <1>12 DEF settings, ResetInv, Coming
<1> QED
  BY Steps, <1>1, <1>2, <1>3, <1>4, <1>5, <1>6, <1>7, <1>8, <1>9, <1>10, <1>11, <1>12
     DEF SettingsStep, Menu, Dashboard

(***************************************************************************)
(* The counters.                                                           *)
(***************************************************************************)

(* A total that was read is the total, or one less once the other writer   *)
(* has counted; a writer that has counted waits for the reset.             *)
Reads(w) == was[w] = total \/ (was[w] + 1 = total /\ \E v \in Writers : at[v] = "reset")

TotalsOK ==
    /\ total \in Nat /\ torn \in Nat
    /\ DOMAIN was = Writers /\ DOMAIN why = Writers
    /\ \A w \in Writers : was[w] \in Nat /\ why[w] \in Reasons
    /\ \A w \in Writers : at[w] = "sum" => Reads(w)

LEMMA UncountedFinite == IsFiniteSet(Uncounted)
<1>1. IsFiniteSet(Writers)
  <2>1. IsFiniteSet({} \cup {"loop"})
    BY FS_EmptySet, FS_AddElement
  <2>2. IsFiniteSet(({} \cup {"loop"}) \cup {"async"})
    BY <2>1, FS_AddElement
  <2>3. Writers = ({} \cup {"loop"}) \cup {"async"}
    BY DEF Writers
  <2> QED BY <2>2, <2>3
<1>2. Uncounted \subseteq Writers
  BY DEF Uncounted
<1> QED BY <1>1, <1>2, FS_Subset

LEMMA UncountedCard == Cardinality(Uncounted) \in Nat
BY UncountedFinite, FS_CardinalityType

LEMMA TotalsInit == Init => TotalsOK
<1> SUFFICES ASSUME Init PROVE TotalsOK
  OBVIOUS
<1>1. /\ at = [w \in Writers |-> IF w = "loop" THEN "save" ELSE "idle"]
      /\ why = [w \in Writers |-> Portal] /\ total = 0 /\ torn = 0
      /\ was = [w \in Writers |-> 0]
  BY DEF Init, SettingsStart
<1>2. \A w \in Writers : at[w] # "sum"
  BY <1>1
<1>3. Portal \in Reasons
  BY DEF Reasons
<1> QED BY <1>1, <1>2, <1>3 DEF TotalsOK

(* A step that counts nothing.                                             *)
LEMMA TotalsMove ==
    ASSUME TotalsOK, UNCHANGED <<total, torn, was>>,
           DOMAIN why' = Writers, \A w \in Writers : why'[w] \in Reasons,
           \A w \in Writers : /\ at'[w] = "sum" => at[w] = "sum"
                              /\ at[w] = "reset" => at'[w] = "reset"
    PROVE  TotalsOK'
<1>1. \A w \in Writers : Reads(w) => Reads(w)'
  BY DEF Reads
<1> QED BY <1>1 DEF TotalsOK

LEMMA TotalsStep == PlacesOK /\ TotalsOK /\ [Next]_vars => TotalsOK'
<1> SUFFICES ASSUME PlacesOK, TotalsOK, [Next]_vars PROVE TotalsOK'
  OBVIOUS
<1> USE DEF config, form, writing, counters
<1>0. DOMAIN at = Writers /\ "loop" \in Writers /\ "async" \in Writers
  BY DEF PlacesOK, Writers
<1>1. ASSUME NEW w \in Writers, at[w] # "reset", NEW s, s # "sum", Step(w, s),
             UNCHANGED <<why, total, torn, was>>
      PROVE  TotalsOK'
  <2>1. \A v \in Writers : at'[v] = "sum" => at[v] = "sum"
    BY <1>0, <1>1 DEF Step
  <2>2. \A v \in Writers : at[v] = "reset" => at'[v] = "reset"
    BY <1>0, <1>1 DEF Step
  <2> QED BY <1>1, <2>1, <2>2, TotalsMove DEF TotalsOK
<1>2. ASSUME UNCHANGED <<at, why, total, torn, was>> PROVE TotalsOK'
  BY <1>2 DEF TotalsOK, Reads
<1>3. CASE Setup
  BY <1>2, <1>3 DEF Setup
<1>4. CASE Menu
  <2>1. \E s \in {"save", "off", "idle", "reset defaults"} : Step("loop", s)
    BY <1>4 DEF Menu, MenuSet, MenuWeb, MenuWebOff, MenuReset, MenuDefaults, Saves
  <2>2. at["loop"] # "reset" /\ UNCHANGED <<why, total, torn, was>>
    BY <1>4 DEF Menu, MenuSet, MenuWeb, MenuWebOff, MenuReset, MenuDefaults, Operates
  <2> QED BY <1>0, <1>1, <2>1, <2>2
<1>5. CASE FormFirst \/ FormRest \/ FormGate
  <2>1. \E s \in {"form", "gate", "save"} : Step("async", s)
    BY <1>5 DEF FormFirst, FormRest, FormGate, Saves
  <2>2. at["async"] # "reset" /\ UNCHANGED <<why, total, torn, was>>
    BY <1>5 DEF FormFirst, FormRest, FormGate, Operates
  <2> QED BY <1>0, <1>1, <2>1, <2>2
<1>6. ASSUME NEW w \in Writers, NEW r \in Reasons, NEW s \in {"save", "count"}, at[w] = "idle",
             Step(w, s), why' = [why EXCEPT ![w] = r], UNCHANGED <<total, torn, was>>
      PROVE  TotalsOK'
  <2>1. \A v \in Writers : at'[v] = "sum" => at[v] = "sum"
    BY <1>0, <1>6 DEF Step
  <2>2. \A v \in Writers : at[v] = "reset" => at'[v] = "reset"
    BY <1>0, <1>6 DEF Step
  <2>3. DOMAIN why' = Writers /\ \A v \in Writers : why'[v] \in Reasons
    BY <1>6 DEF TotalsOK
  <2> QED BY <1>6, <2>1, <2>2, <2>3, TotalsMove
<1>7. CASE PortalSave
  <2>1. Portal \in Reasons
    BY DEF Reasons
  <2> QED BY <1>0, <1>6, <1>7, <2>1 DEF PortalSave, Operates, Saves
<1>8. CASE GiveUp
  <2>1. PICK r \in LoopReasons : why' = [why EXCEPT !["loop"] = r]
    BY <1>8 DEF GiveUp
  <2>2. r \in Reasons
    BY DEF Reasons
  <2>3. at["loop"] = "idle" /\ Step("loop", "count") /\ UNCHANGED <<total, torn, was>>
    BY <1>8 DEF GiveUp, Operates
  <2> QED BY <1>0, <1>6, <2>1, <2>2, <2>3
<1>9. ASSUME NEW w \in Writers, ReadKey(w) PROVE TotalsOK'
  BY <1>2, <1>9 DEF ReadKey
<1>10. ASSUME NEW w \in Writers, PutKey(w) PROVE TotalsOK'
  <2>1. /\ at[w] = "save" /\ UNCHANGED <<why, total, torn, was>>
        /\ at' = IF key[w] < Len(Keys) THEN at
                 ELSE [at EXCEPT ![w] = IF w = "async" THEN then ELSE "idle"]
    BY <1>10 DEF PutKey
  <2>2. CASE at' = at
    BY <1>2, <2>1, <2>2
  <2>3. CASE at' = [at EXCEPT ![w] = IF w = "async" THEN then ELSE "idle"]
    <3>1. (IF w = "async" THEN then ELSE "idle") # "sum"
      BY DEF PlacesOK
    <3> QED BY <1>1, <2>1, <2>3, <3>1 DEF Step
  <2> QED BY <2>1, <2>2, <2>3
<1>11. ASSUME NEW w \in Writers, CountReason(w) PROVE TotalsOK'
  BY <1>1, <1>11 DEF CountReason
<1>12. ASSUME NEW w \in Writers, ReadTotal(w) PROVE TotalsOK'
  <2>1. /\ at[w] = "total" /\ at' = [at EXCEPT ![w] = "sum"]
        /\ was' = [was EXCEPT ![w] = total] /\ UNCHANGED <<why, total, torn>>
    BY <1>12 DEF ReadTotal, Step
  <2>2. \A v \in Writers : at[v] = "reset" => at'[v] = "reset"
    BY <1>0, <2>1
  <2>3. \A v \in Writers \ {w} : at'[v] = at[v] /\ was'[v] = was[v]
    BY <1>0, <2>1 DEF TotalsOK
  <2>4. was'[w] = total
    BY <2>1 DEF TotalsOK
  <2>5. \A v \in Writers : at'[v] = "sum" => Reads(v)'
    <3> SUFFICES ASSUME NEW v \in Writers, at'[v] = "sum" PROVE Reads(v)'
      OBVIOUS
    <3>1. CASE v = w
      BY <2>1, <2>4, <3>1 DEF Reads
    <3>2. CASE v # w
      <4>1. Reads(v)
        BY <2>3, <3>2 DEF TotalsOK
      <4> QED BY <2>1, <2>2, <2>3, <3>2, <4>1 DEF Reads
    <3> QED BY <3>1, <3>2
  <2>6. DOMAIN was' = Writers /\ \A v \in Writers : was'[v] \in Nat
    BY <2>1, <2>3, <2>4 DEF TotalsOK
  <2> QED BY <2>1, <2>5, <2>6 DEF TotalsOK
<1>13. ASSUME NEW w \in Writers, PutTotal(w) PROVE TotalsOK'
  <2>1. /\ at[w] = "sum" /\ at' = [at EXCEPT ![w] = "reset"]
        /\ total' = was[w] + 1 /\ torn' = torn + (total - was[w])
        /\ UNCHANGED <<why, was>>
    BY <1>13 DEF PutTotal, Step, SumOf
  <2>2. was[w] \in Nat /\ total \in Nat /\ torn \in Nat
    BY DEF TotalsOK
  <2>3. was[w] = total \/ was[w] + 1 = total
    BY <2>1 DEF TotalsOK, Reads
  <2>4. total' \in Nat /\ torn' \in Nat
    BY <2>1, <2>2, <2>3
  <2>5. at'[w] = "reset"
    BY <1>0, <2>1
  <2>6. \A v \in Writers : at'[v] = "sum" => Reads(v)'
    <3> SUFFICES ASSUME NEW v \in Writers, at'[v] = "sum" PROVE Reads(v)'
      OBVIOUS
    <3>1. v # w /\ at[v] = "sum"
      BY <1>0, <2>1, <2>5
    <3>2. \A u \in Writers : u = v \/ u = w
      BY <3>1 DEF Writers
    <3>3. \A u \in Writers : at[u] # "reset"
      BY <2>1, <3>1, <3>2
    <3>4. was[v] = total /\ was[w] = total
      BY <2>1, <3>1, <3>3 DEF TotalsOK, Reads
    <3> QED BY <2>1, <2>5, <3>4 DEF Reads
  <2> QED BY <2>1, <2>4, <2>6 DEF TotalsOK
<1>14. CASE SettingsRestart
  <2>1. at'["loop"] # "sum" /\ at'["async"] # "sum"
    BY <1>0, <1>14 DEF SettingsRestart
  <2>2. torn' = torn + Cardinality(Uncounted) /\ UNCHANGED <<why, total, was>>
    BY <1>14 DEF SettingsRestart
  <2>3. \A v \in Writers : at'[v] # "sum"
    BY <2>1 DEF Writers
  <2>4. torn' \in Nat
    BY <2>2, UncountedCard DEF TotalsOK
  <2> QED BY <2>2, <2>3, <2>4 DEF TotalsOK
<1>15. CASE UNCHANGED settings
  BY <1>2, <1>15 DEF settings
<1> QED
  BY Steps, <1>3, <1>4, <1>5, <1>7, <1>8, <1>9, <1>10, <1>11, <1>12, <1>13, <1>14, <1>15
     DEF SettingsStep, Dashboard

(***************************************************************************)
(* Theorems.                                                               *)
(***************************************************************************)

Inv ==
    /\ ValuesOK /\ PlacesOK /\ SwitchesOK /\ TotalsOK
    /\ KeepInv /\ ResetInv /\ DarkInv

LEMMA ResetInit == Init => ResetInv
<1> SUFFICES ASSUME Init PROVE ResetInv
  OBVIOUS
<1>1. at["loop"] = "save"
  BY DEF Init, SettingsStart, Writers
<1> QED BY <1>1 DEF ResetInv

LEMMA InvHolds == Spec => []Inv
<1>1. Init => Inv
  BY ValuesInit, PlacesInit, SwitchesInit, TotalsInit, KeepInit, ResetInit, DarkInit DEF Inv
<1>2. Inv /\ [Next]_vars => Inv'
  BY ValuesStep, PlacesStep, SwitchesStep, TotalsStep, KeepStep, ResetStep, DarkStep DEF Inv
<1> QED BY <1>1, <1>2, PTL DEF Spec

LEMMA InvKeeps == Inv => SettingsKept
<1> SUFFICES ASSUME Inv PROVE SettingsKept
  OBVIOUS
<1>1. SettingsOK
  <2>1. DOMAIN live = Names /\ DOMAIN nvs \subseteq Names /\ stale \subseteq Names
    BY DEF Inv, ValuesOK
  <2>2. up \in BOOLEAN /\ web \in BOOLEAN /\ wasOn \in BOOLEAN /\ excused \in BOOLEAN
    BY DEF Inv, SwitchesOK
  <2>3. {total, torn} \subseteq Nat /\ \A w \in Writers : why[w] \in Reasons
    BY DEF Inv, TotalsOK
  <2>4. \A w \in Writers : at[w] \in {"idle", "save", "off", "reset defaults", "form", "gate",
                                      "count", "total", "sum", "reset"}
    BY DEF Inv, PlacesOK, MayStand
  <2>5. \A w \in Writers : key[w] \in DOMAIN Keys
    BY KeysAre DEF Inv, PlacesOK
  <2>6. \A w \in Writers : Len(buf[w]) <= 1
    <3> SUFFICES ASSUME NEW w \in Writers PROVE Len(buf[w]) <= 1
      OBVIOUS
    <3>1. PICK v : buf[w] = <<>> \/ buf[w] = <<v>>
      BY DEF Inv, PlacesOK
    <3>2. CASE buf[w] = <<>>
      BY <3>2
    <3>3. CASE buf[w] = <<v>>
      BY <3>3
    <3> QED BY <3>1, <3>2, <3>3
  <2> QED BY <2>1, <2>2, <2>3, <2>4, <2>5, <2>6 DEF SettingsOK
<1>2. SavedIsLive
  <2> SUFFICES ASSUME Settled, NEW k \in Names \ stale PROVE Kept(k)
    BY DEF SavedIsLive, Kept
  <2>1. \A w \in Writers : ~Coming(w, k)
    BY DEF Settled, Coming
  <2> QED BY <2>1 DEF Inv, KeepInv
<1>3. WebOffHasReporter
  <2>1. "async" \in Writers
    BY DEF Writers
  <2> QED BY <2>1 DEF Inv, DarkInv, WebOffHasReporter, Settled
<1> QED BY <1>1, <1>2, <1>3 DEF SettingsKept

(* Whoever edits and saves in between, and wherever restarts and power     *)
(* cuts fall: when both writers rest, a restart would bring back what is   *)
(* in force, but for a key one task wrote over the other's newer value,    *)
(* and no board was left without dashboard and reporter but by the named   *)
(* ways (ConfigStore::save, handle_config_post, apply_pending_).           *)
THEOREM SettingsSurvive == Spec => []SettingsKept
  BY InvHolds, InvKeeps, PTL

(***************************************************************************)
(* The display.                                                            *)
(***************************************************************************)

(* Quotient and remainder put a number together again.                     *)
LEMMA DivMod ==
    ASSUME NEW n \in Nat, NEW w \in Nat \ {0}
    PROVE  /\ n \div w \in Int /\ n % w \in 0 .. (w - 1)
           /\ n = w * (n \div w) + (n % w)
OBVIOUS

(* The clock's turns come in order.                                        *)
LEMMA TurnsInOrder ==
    ASSUME NEW a \in Nat, NEW b \in Nat, NEW w \in Nat \ {0}, a <= b
    PROVE  a \div w <= b \div w
<1> DEFINE p == a \div w
           q == b \div w
           r == a % w
           s == b % w
<1>1. /\ p \in Int /\ q \in Int /\ r \in 0 .. (w - 1) /\ s \in 0 .. (w - 1)
      /\ a = w * p + r /\ b = w * q + s
  BY DivMod
<1> HIDE DEF p, q, r, s
<1>2. ASSUME q < p PROVE FALSE
  <2>1. w * (q + 1) <= w * p
    BY <1>1, <1>2
  <2>2. w * (q + 1) = w * q + w
    BY <1>1
  <2> QED BY <1>1, <2>1, <2>2
<1>3. p <= q
  BY <1>1, <1>2
<1> QED BY <1>3 DEF p, q

(* What shows later in the present turn, or belongs to a later turn, is    *)
(* still to come.                                                          *)
LEMMA ShowsLater ==
    ASSUME NEW t \in Nat, NEW u \in Nat, NEW w \in Nat \ {0},
           t \div w <= u \div w, t % w < u % w
    PROVE  t < u
<1> DEFINE p == t \div w
           q == u \div w
           r == t % w
           s == u % w
<1>1. /\ p \in Int /\ q \in Int /\ r \in Int /\ s \in Int
      /\ t = w * p + r /\ u = w * q + s
  BY DivMod
<1>2. p <= q /\ r < s
  OBVIOUS
<1> HIDE DEF p, q, r, s
<1>3. w * p <= w * q /\ w * p \in Int /\ w * q \in Int
  BY <1>1, <1>2
<1> QED BY <1>1, <1>2, <1>3

(* The larger and the smaller of two numbers.                              *)
LEMMA MaxMin ==
    ASSUME NEW a \in Nat, NEW b \in Nat
    PROVE  /\ Max({a, b}) \in Nat /\ a <= Max({a, b}) /\ b <= Max({a, b})
           /\ Min({a, b}) \in Nat /\ Min({a, b}) <= a /\ Min({a, b}) <= b
<1>1. \E x \in {a, b} : \A y \in {a, b} : x >= y
  <2>1. CASE a >= b
    BY <2>1
  <2>2. CASE ~ (a >= b)
    BY <2>2
  <2> QED BY <2>1, <2>2
<1>2. \E x \in {a, b} : \A y \in {a, b} : x <= y
  <2>1. CASE a <= b
    BY <2>1
  <2>2. CASE ~ (a <= b)
    BY <2>2
  <2> QED BY <2>1, <2>2
<1>3. Max({a, b}) \in {a, b} /\ \A y \in {a, b} : Max({a, b}) >= y
  BY <1>1 DEF Max
<1>4. Min({a, b}) \in {a, b} /\ \A y \in {a, b} : Min({a, b}) <= y
  BY <1>2 DEF Min
<1> QED BY <1>3, <1>4

(* The longest the panel is lit for after it was asked for.                *)
Longest == Max({onFor, Logo})

(* A staged attack is where loop() will find it, and as old as the time    *)
(* since loop()'s last pass, unless it came between the read and the clear *)
(* of one.                                                                 *)
StagedOK ==
    /\ dpc = "clear" => taken # "none"
    /\ dpc = "clear" /\ ~raced => owed \in {"none", taken}
    /\ dpc # "clear" /\ ~raced => owed \in {"none", pending}
    /\ owed # "none" /\ ~raced => owedAt <= now /\ now <= owedAt + lag
    /\ dpc = "rest" /\ owed # "none" /\ ~raced => owedAt = now

(* The deadline of a lit panel is no more than Longest after it was asked  *)
(* for, and loop() has not passed it in the same turn of the clock.        *)
LitOK ==
    lit => /\ litAt <= now /\ litAt <= onUntil /\ onUntil <= litAt + Longest
           /\ SameEpoch(litAt) => now + 1 <= litAt + Longest + lag

PanelInv == PanelOK /\ iconFor \in Nat /\ onFor \in Nat /\ StagedOK /\ LitOK

(* The bound on a panel that is lit.                                       *)
LEMMA LongestIs ==
    ASSUME onFor \in Nat
    PROVE  Longest \in Nat \ {0} /\ onFor <= Longest /\ Logo <= Longest
<1>1. Logo \in Nat \ {0}
  BY PanelAssumption
<1> QED BY <1>1, MaxMin DEF Longest

(* What the display may be in, one conjunct at a time.                     *)
LEMMA PanelTypes ==
    ASSUME PanelInv
    PROVE  /\ now \in Nat /\ litAt \in Nat /\ onUntil \in Nat /\ iconUntil \in Nat
           /\ btnAt \in Nat /\ owedAt \in Nat /\ iconFor \in Nat /\ onFor \in Nat
           /\ lag \in Nat /\ lag <= MaxLag + 1 /\ MaxLag \in Nat
           /\ PanelWrap \in Nat \ {0} /\ Logo \in Nat \ {0}
           /\ lit \in BOOLEAN /\ have \in BOOLEAN /\ released \in BOOLEAN /\ button \in BOOLEAN
           /\ icon \in Kinds \cup {"none"} /\ pending \in Kinds \cup {"none"}
           /\ taken \in Kinds \cup {"none"} /\ owed \in Kinds \cup {"none"}
           /\ shown \in Kinds \cup {"logo", "blank", "status"}
           /\ dpc \in {"read", "clear", "rest"} /\ raced \in BOOLEAN
<1>1. MaxLag \in Nat /\ PanelWrap \in Nat \ {0} /\ Logo \in Nat \ {0}
  BY PanelAssumption
<1>2. lag \in Nat /\ lag <= MaxLag + 1
  BY <1>1 DEF PanelInv, PanelOK
<1> QED BY <1>1, <1>2 DEF PanelInv, PanelOK

(* The display starts well, at a power-up and at every restart.            *)
LEMMA PanelBegins ==
    ASSUME PanelStarts, iconFor \in Nat, onFor \in Nat, button \in BOOLEAN
    PROVE  PanelInv
<1>1. MaxLag \in Nat /\ PanelWrap \in Nat \ {0} /\ Logo \in Nat \ {0}
  BY PanelAssumption
<1>2. PanelOK
  <2>1. /\ lit \in BOOLEAN /\ have \in BOOLEAN /\ released \in BOOLEAN
        /\ button \in BOOLEAN /\ raced \in BOOLEAN
    BY Zenon DEF PanelStarts
  <2>2. /\ {icon, pending, taken, owed} \subseteq Kinds \cup {"none"}
        /\ shown \in Kinds \cup {"logo", "blank", "status"}
        /\ dpc \in {"read", "clear", "rest"}
    BY DEF PanelStarts
  <2>3. now \in Nat /\ lag \in 0..MaxLag + 1
    BY <1>1 DEF PanelStarts
  <2>4. {litAt, onUntil, iconUntil, btnAt, owedAt} \subseteq Nat
    BY <1>1 DEF PanelStarts
  <2> QED BY <2>1, <2>2, <2>3, <2>4 DEF PanelOK
<1>3. StagedOK
  BY DEF PanelStarts, StagedOK
<1>4. LitOK
  <2>1. litAt = 0 /\ now = 0 /\ onUntil = Logo /\ lag = 0
    BY DEF PanelStarts
  <2>2. Longest \in Nat \ {0} /\ Logo <= Longest
    BY LongestIs
  <2> QED BY <1>1, <2>1, <2>2 DEF LitOK
<1> QED BY <1>2, <1>3, <1>4 DEF PanelInv

(* The same of the state after a restart; what was configured stays.       *)
LEMMA PanelBeginsAgain ==
    ASSUME PanelRestarts, iconFor \in Nat, onFor \in Nat, button \in BOOLEAN
    PROVE  PanelInv'
<1>1. MaxLag \in Nat /\ PanelWrap \in Nat \ {0} /\ Logo \in Nat \ {0}
  BY PanelAssumption
<1>2. PanelOK'
  <2>1. /\ lit' \in BOOLEAN /\ have' \in BOOLEAN /\ released' \in BOOLEAN
        /\ button' \in BOOLEAN /\ raced' \in BOOLEAN
    BY Zenon DEF PanelRestarts
  <2>2. /\ {icon', pending', taken', owed'} \subseteq Kinds \cup {"none"}
        /\ shown' \in Kinds \cup {"logo", "blank", "status"}
        /\ dpc' \in {"read", "clear", "rest"}
    BY DEF PanelRestarts
  <2>3. now' \in Nat /\ lag' \in 0..MaxLag + 1
    BY <1>1 DEF PanelRestarts
  <2>4. {litAt', onUntil', iconUntil', btnAt', owedAt'} \subseteq Nat
    BY <1>1 DEF PanelRestarts
  <2> QED BY <2>1, <2>2, <2>3, <2>4 DEF PanelOK
<1>3. StagedOK'
  BY DEF PanelRestarts, StagedOK
<1>4. LitOK'
  <2>1. litAt' = 0 /\ now' = 0 /\ onUntil' = Logo /\ lag' = 0 /\ onFor' = onFor
    BY DEF PanelRestarts
  <2>2. Longest \in Nat \ {0} /\ Logo <= Longest
    BY LongestIs
  <2>3. Longest' = Longest
    BY <2>1 DEF Longest
  <2> QED BY <1>1, <2>1, <2>2, <2>3 DEF LitOK
<1>5. iconFor' \in Nat /\ onFor' \in Nat
  BY DEF PanelRestarts
<1> QED BY <1>2, <1>3, <1>4, <1>5 DEF PanelInv

(* A step that leaves the panel's deadline and the clock alone.            *)
LEMMA LitKept ==
    ASSUME PanelInv, UNCHANGED <<now, lit, litAt, onUntil, lag, onFor>>
    PROVE  LitOK'
BY DEF PanelInv, LitOK, Longest, SameEpoch

(* A step that asks for the panel now.                                     *)
LEMMA LitNow ==
    ASSUME PanelInv, litAt' = now, now' = now, onFor' = onFor, NEW d \in Nat, d <= onFor,
           onUntil' = now + d, lag' \in Nat
    PROVE  LitOK'
<1>1. now \in Nat /\ onFor \in Nat
  BY PanelTypes
<1>2. Longest \in Nat \ {0} /\ onFor <= Longest
  BY <1>1, LongestIs
<1>3. Longest' = Longest
  BY DEF Longest
<1> DEFINE m == Longest
           l == lag'
<1>4. /\ now <= now /\ now <= now + d /\ now + d <= now + m
      /\ now + 1 <= now + m + l
  <2>1. m \in Nat \ {0} /\ onFor <= m /\ l \in Nat
    BY <1>2
  <2> HIDE DEF m, l
  <2> QED BY <1>1, <2>1
<1> QED BY <1>3, <1>4 DEF LitOK

(* The sessions, the WiFi manager and the button.                          *)
LEMMA OthersPanel ==
    ASSUME PanelInv, (\E k \in Kinds : ShowAttack(k)) \/ ShowStatus \/ Announce \/ Press
    PROVE  PanelInv'
<1>0. "none" \notin Kinds
  BY PanelAssumption
<1>1. ASSUME NEW k \in Kinds, ShowAttack(k) PROVE PanelInv'
  <2>1. PanelOK'
    <3>1. raced' \in BOOLEAN /\ owed' \in Kinds \cup {"none"} /\ owedAt' \in Nat
      BY <1>1, PanelTypes DEF ShowAttack
    <3> QED BY <1>1, <3>1, PanelTypes DEF ShowAttack, PanelInv, PanelOK, screen, keys
  <2>2. StagedOK'
    <3>1. /\ pending' = k /\ owed' = k /\ raced' = (dpc = "clear")
          /\ owedAt' = now /\ now' = now /\ dpc' = dpc /\ taken' = taken /\ lag' = lag
      BY <1>1 DEF ShowAttack
    <3>2. now <= now + lag
      BY PanelTypes
    <3>3. dpc = "clear" => taken # "none"
      BY DEF StagedOK, PanelInv
    <3>4. ~raced' => dpc' # "clear"
      BY <3>1
    <3>5. /\ owedAt' <= now' /\ now' <= owedAt' + lag' /\ owedAt' = now'
          /\ now' \in Nat /\ pending' = owed'
      BY <3>1, <3>2, PanelTypes
    <3>6. dpc' = "clear" => taken' # "none"
      BY <3>1, <3>3
    <3> QED BY <3>4, <3>5, <3>6 DEF StagedOK
  <2>3. LitOK'
    BY <1>1, LitKept DEF ShowAttack, screen
  <2>4. iconFor' \in Nat /\ onFor' \in Nat
    BY <1>1, PanelTypes DEF ShowAttack
  <2> QED BY <2>1, <2>2, <2>3, <2>4 DEF PanelInv
<1>2. CASE ShowStatus
  <2>1. PanelOK'
    BY <1>2, PanelTypes DEF ShowStatus, PanelInv, PanelOK, keys, requests
  <2>2. StagedOK'
    BY <1>2 DEF ShowStatus, PanelInv, StagedOK, requests
  <2>3. LitOK'
    BY <1>2, LitKept DEF ShowStatus
  <2>4. iconFor' \in Nat /\ onFor' \in Nat
    BY <1>2, PanelTypes DEF ShowStatus
  <2> QED BY <2>1, <2>2, <2>3, <2>4 DEF PanelInv
<1>3. CASE Announce
  <2>1. PanelOK'
    <3>1. now + onFor \in Nat
      BY PanelTypes
    <3> QED BY <1>3, <3>1, PanelTypes DEF Announce, PanelInv, PanelOK, keys, requests
  <2>2. StagedOK'
    BY <1>3 DEF Announce, PanelInv, StagedOK, requests
  <2>3. LitOK'
    <3>1. litAt' = now /\ now' = now /\ onFor' = onFor /\ onUntil' = now + onFor /\ lag' = lag
      BY <1>3 DEF Announce
    <3>2. onFor \in Nat /\ onFor <= onFor /\ lag' \in Nat
      BY <3>1, PanelTypes
    <3> QED BY <3>1, <3>2, LitNow
  <2>4. iconFor' \in Nat /\ onFor' \in Nat
    BY <1>3, PanelTypes DEF Announce
  <2> QED BY <2>1, <2>2, <2>3, <2>4 DEF PanelInv
<1>4. CASE Press
  <2>1. PanelOK'
    BY <1>4, PanelTypes DEF Press, PanelInv, PanelOK, screen, requests
  <2>2. StagedOK'
    BY <1>4 DEF Press, PanelInv, StagedOK, requests
  <2>3. LitOK'
    BY <1>4, LitKept DEF Press, screen
  <2>4. iconFor' \in Nat /\ onFor' \in Nat
    BY <1>4, PanelTypes DEF Press
  <2> QED BY <2>1, <2>2, <2>3, <2>4 DEF PanelInv
<1> QED BY <1>1, <1>2, <1>3, <1>4

(* loop().                                                                 *)
LEMMA LoopPanel == ASSUME PanelInv, Loop PROVE PanelInv'
<1>1. CASE Read
  <2>1. PanelOK'
    BY <1>1, PanelTypes DEF Read, PanelInv, PanelOK, screen, keys
  <2>2. StagedOK'
    BY <1>1 DEF Read, PanelInv, StagedOK
  <2>3. LitOK'
    BY <1>1, LitKept DEF Read, screen
  <2>4. iconFor' \in Nat /\ onFor' \in Nat
    BY <1>1, PanelTypes DEF Read
  <2> QED BY <2>1, <2>2, <2>3, <2>4 DEF PanelInv
<1>2. CASE Flash
  <2>1. LitFor \in Nat /\ LitFor <= onFor
    BY PanelTypes, MaxMin DEF LitFor
  <2>2. now + LitFor \in Nat /\ now + iconFor \in Nat
    BY <2>1, PanelTypes
  <2>3. taken \in Kinds
    BY <1>2, PanelTypes DEF Flash, PanelInv, StagedOK
  <2>4. PanelOK'
    <3>1. /\ lit' \in BOOLEAN /\ have' \in BOOLEAN /\ released' \in BOOLEAN /\ button' \in BOOLEAN
          /\ raced' \in BOOLEAN
      BY <1>2, PanelTypes, Zenon DEF Flash, keys
    <3>2. /\ {icon', pending', taken', owed'} \subseteq Kinds \cup {"none"}
          /\ shown' \in Kinds \cup {"logo", "blank", "status"}
          /\ dpc' \in {"read", "clear", "rest"}
      BY <1>2, <2>3, PanelTypes DEF Flash
    <3>3. now' \in Nat /\ lag' \in 0..MaxLag + 1
      BY <1>2 DEF Flash, PanelInv, PanelOK
    <3>4. {litAt', onUntil', iconUntil', btnAt', owedAt'} \subseteq Nat
      BY <1>2, <2>2, PanelTypes DEF Flash, keys
    <3> QED BY <3>1, <3>2, <3>3, <3>4 DEF PanelOK
  <2>5. StagedOK'
    BY <1>2 DEF Flash, StagedOK
  <2>6. LitOK'
    <3>1. litAt' = now /\ now' = now /\ onFor' = onFor /\ onUntil' = now + LitFor /\ lag' = lag
      BY <1>2 DEF Flash
    <3>2. lag' \in Nat
      BY <3>1, PanelTypes
    <3> QED BY <2>1, <3>1, <3>2, LitNow
  <2>7. iconFor' \in Nat /\ onFor' \in Nat
    BY <1>2, PanelTypes DEF Flash
  <2> QED BY <2>4, <2>5, <2>6, <2>7 DEF PanelInv
<1>3. CASE Rest
  <2> DEFINE until == IF Woken THEN now + onFor ELSE onUntil
             awake == lit \/ Woken
             over == awake /\ icon # "none" /\ Millis >= Stamp(iconUntil)
             dim == awake /\ Millis >= Stamp(until)
             picture == IF Woken /\ have THEN "status" ELSE shown
  <2>1. /\ dpc = "rest" /\ dpc' = "read" /\ lag' = 0 /\ now' = now
        /\ litAt' = (IF Woken THEN now ELSE litAt)
        /\ onUntil' = until /\ lit' = (awake /\ ~dim)
        /\ UNCHANGED <<have, iconUntil, button, pending, taken, owed, owedAt, raced, iconFor,
                       onFor>>
    BY <1>3 DEF Rest, requests
  <2>2. until \in Nat
    BY PanelTypes
  <2>3. PanelOK'
    <3>1. /\ lit' \in BOOLEAN /\ have' \in BOOLEAN /\ released' \in BOOLEAN /\ button' \in BOOLEAN
          /\ raced' \in BOOLEAN
      <4>1. released' = IF Changed THEN ~button ELSE released
        BY <1>3 DEF Rest
      <4>2. released' \in BOOLEAN
        BY <4>1, PanelTypes
      <4> HIDE DEF dim, awake
      <4>3. lit' \in BOOLEAN
        BY <2>1, Zenon
      <4> QED BY <2>1, <4>2, <4>3, PanelTypes
    <3>2. /\ {icon', pending', taken', owed'} \subseteq Kinds \cup {"none"}
          /\ dpc' \in {"read", "clear", "rest"}
      <4>1. icon' \in {icon, "none"}
        BY <1>3 DEF Rest
      <4> QED BY <2>1, <4>1, PanelTypes
    <3>3. shown' \in Kinds \cup {"logo", "blank", "status"}
      <4>1. shown' = CASE dim -> "blank" [] over /\ ~dim /\ have -> "status"
                       [] OTHER -> picture
        BY <1>3 DEF Rest
      <4>2. picture \in Kinds \cup {"logo", "blank", "status"}
        BY PanelTypes
      <4> HIDE DEF dim, over, picture
      <4>3. CASE dim
        <5>1. ~ (over /\ ~dim /\ have)
          BY <4>3
        <5> QED BY <4>1, <4>3, <5>1
      <4>4. CASE ~dim /\ over /\ have
        BY <4>1, <4>4
      <4>5. CASE ~dim /\ ~(over /\ have)
        BY <4>1, <4>2, <4>5
      <4> QED BY <4>3, <4>4, <4>5
    <3>4. now' \in Nat /\ lag' \in 0..MaxLag + 1
      <4>1. MaxLag \in Nat
        BY PanelTypes
      <4> QED BY <2>1, <4>1, PanelTypes
    <3>5. {litAt', onUntil', iconUntil', btnAt', owedAt'} \subseteq Nat
      <4>1. btnAt' \in {now, btnAt}
        BY <1>3 DEF Rest
      <4>2. litAt' \in {now, litAt}
        BY <2>1
      <4> HIDE DEF until
      <4> QED BY <2>1, <2>2, <4>1, <4>2, PanelTypes
    <3> QED BY <3>1, <3>2, <3>3, <3>4, <3>5 DEF PanelOK
  <2>4. StagedOK'
    <3>1. now <= now + 0 /\ now <= now
      BY PanelTypes
    <3> QED BY <2>1, <3>1 DEF PanelInv, StagedOK
  <2>5. LitOK'
    <3>1. CASE Woken
      <4>1. litAt' = now /\ onUntil' = now + onFor
        BY <2>1, <3>1
      <4>2. onFor \in Nat /\ onFor <= onFor /\ lag' \in Nat
        BY <2>1, PanelTypes
      <4> QED BY <2>1, <4>1, <4>2, LitNow
    <3>2. CASE ~Woken
      <4>1. litAt' = litAt /\ onUntil' = onUntil
        BY <2>1, <3>2
      <4>2. SUFFICES ASSUME lit'
                     PROVE  /\ litAt <= now /\ litAt <= onUntil /\ onUntil <= litAt + Longest
                            /\ SameEpoch(litAt) => now + 1 <= litAt + Longest + 0
        <5>1. Longest' = Longest /\ SameEpoch(litAt)' = SameEpoch(litAt)
          BY <2>1, <4>1 DEF Longest, SameEpoch
        <5> QED BY <2>1, <4>1, <5>1 DEF LitOK, SameEpoch
      <4>3. lit /\ ~ (Millis >= Stamp(onUntil))
        BY <2>1, <3>2, <4>2
      <4>4. litAt <= now /\ litAt <= onUntil /\ onUntil <= litAt + Longest
        BY <4>3 DEF PanelInv, LitOK
      <4>5. ASSUME SameEpoch(litAt) PROVE now + 1 <= litAt + Longest + 0
        <5>1. now \div PanelWrap <= onUntil \div PanelWrap
          <6>1. litAt \div PanelWrap <= onUntil \div PanelWrap
            BY <4>4, PanelTypes, TurnsInOrder
          <6> QED BY <4>5, <6>1 DEF SameEpoch
        <5>2. now % PanelWrap < onUntil % PanelWrap
          <6>1. now % PanelWrap \in Int /\ onUntil % PanelWrap \in Int
            BY PanelTypes
          <6> QED BY <4>3, <6>1 DEF Millis, Stamp
        <5>3. now < onUntil
          BY <5>1, <5>2, PanelTypes, ShowsLater
        <5>4. Longest \in Nat
          BY PanelTypes, LongestIs
        <5> QED BY <4>4, <5>3, <5>4, PanelTypes
      <4> QED BY <4>4, <4>5
    <3> QED BY <3>1, <3>2
  <2>6. iconFor' \in Nat /\ onFor' \in Nat
    BY <2>1, PanelTypes
  <2> QED BY <2>3, <2>4, <2>5, <2>6 DEF PanelInv
<1> QED BY <1>1, <1>2, <1>3 DEF Loop

(* The clock.                                                              *)
LEMMA TickPanel == ASSUME PanelInv, PanelTick PROVE PanelInv'
<1>1. /\ now' = now + 1 /\ lag' = lag + 1 /\ lag <= MaxLag /\ dpc = "read"
      /\ UNCHANGED <<dpc, pending, taken, owed, owedAt, raced, lit, litAt, onUntil, onFor, iconFor>>
  BY DEF PanelTick, screen, requests
<1>2. /\ now \in Nat /\ lag \in Nat /\ MaxLag \in Nat /\ litAt \in Nat /\ onUntil \in Nat
      /\ owedAt \in Nat /\ PanelWrap \in Nat \ {0} /\ onFor \in Nat
  BY PanelTypes
<1>3. PanelOK'
  <2>1. lag' \in 0..MaxLag + 1 /\ now' \in Nat
    BY <1>1, <1>2
  <2> QED BY <2>1, PanelTypes DEF PanelTick, PanelInv, PanelOK, screen, keys, requests
<1>4. StagedOK'
  <2>1. owed # "none" /\ ~raced => owedAt <= now + 1 /\ now + 1 <= owedAt + (lag + 1)
    BY <1>2 DEF PanelInv, StagedOK
  <2> QED BY <1>1, <2>1 DEF PanelInv, StagedOK
<1>5. LitOK'
  <2> SUFFICES ASSUME lit PROVE
          /\ litAt <= now + 1 /\ litAt <= onUntil /\ onUntil <= litAt + Longest
          /\ litAt \div PanelWrap = (now + 1) \div PanelWrap
               => (now + 1) + 1 <= litAt + Longest + (lag + 1)
    <3>1. Longest' = Longest
      BY <1>1 DEF Longest
    <3> QED BY <1>1, <3>1 DEF LitOK, SameEpoch
  <2>1. litAt <= now /\ litAt <= onUntil /\ onUntil <= litAt + Longest
    BY DEF PanelInv, LitOK
  <2>2. ASSUME litAt \div PanelWrap = (now + 1) \div PanelWrap
        PROVE  (now + 1) + 1 <= litAt + Longest + (lag + 1)
    <3>1. litAt \div PanelWrap <= now \div PanelWrap
      BY <1>2, <2>1, TurnsInOrder
    <3>2. now \div PanelWrap <= (now + 1) \div PanelWrap
      <4>1. now + 1 \in Nat /\ now <= now + 1
        BY <1>2
      <4> QED BY <1>2, <4>1, TurnsInOrder
    <3>3. litAt \div PanelWrap \in Int /\ now \div PanelWrap \in Int
      BY <1>2, DivMod
    <3>4. SameEpoch(litAt)
      BY <2>2, <3>1, <3>2, <3>3 DEF SameEpoch
    <3>5. now + 1 <= litAt + Longest + lag
      BY <3>4 DEF PanelInv, LitOK
    <3>6. Longest \in Nat
      BY <1>2, LongestIs
    <3> QED BY <1>2, <3>5, <3>6
  <2>3. litAt <= now + 1
    BY <1>2, <2>1
  <2> QED BY <2>1, <2>2, <2>3
<1>6. iconFor' \in Nat /\ onFor' \in Nat
  BY <1>1, PanelTypes
<1> QED BY <1>3, <1>4, <1>5, <1>6 DEF PanelInv

(* An attack that is staged is on the panel after loop()'s next pass       *)
(* unless a later one takes its place or it was staged between the pass's  *)
(* read of the request and its clear, which loses it; and the panel is on  *)
(* for no longer than display_on_seconds after it was asked for until the  *)
(* clock wraps, whatever the sessions, the WiFi manager, the button and    *)
(* the restarts do (showAttack, loop, display.h:38).                       *)
THEOREM DisplayServes == Spec => []PanelServes
<1>1. Init => PanelInv
  <2> SUFFICES ASSUME Init PROVE PanelInv
    OBVIOUS
  <2>1. PanelStarts /\ iconFor \in Nat /\ onFor \in Nat
    BY SetupsAssumption DEF Init
  <2>2. button \in BOOLEAN
    BY <2>1 DEF PanelStarts
  <2> QED BY <2>1, <2>2, PanelBegins
<1>2. PanelInv /\ [Next]_vars => PanelInv'
  <2> SUFFICES ASSUME PanelInv, [Next]_vars PROVE PanelInv'
    OBVIOUS
  <2>1. CASE UNCHANGED panel
    <3>1. UNCHANGED <<now, lit, litAt, onUntil, icon, iconUntil, shown, have, released,
                      btnAt, button, pending, taken, owed, owedAt, raced, dpc, lag, iconFor,
                      onFor>>
      BY <2>1 DEF panel, screen, keys, requests
    <3>2. PanelOK' /\ iconFor' \in Nat /\ onFor' \in Nat
      BY <3>1 DEF PanelInv, PanelOK
    <3>3. StagedOK'
      BY <3>1 DEF PanelInv, StagedOK
    <3> QED BY <3>1, <3>2, <3>3, LitKept DEF PanelInv
  <2>2. CASE PanelStep
    BY <2>2, OthersPanel, LoopPanel, TickPanel DEF PanelStep
  <2>3. CASE PanelRestarts
    BY <2>3, PanelBeginsAgain, PanelTypes
  <2> QED BY <2>1, <2>2, <2>3 DEF Next, Shows, Restart, PowerCut, vars
<1>3. PanelInv => PanelServes
  <2> SUFFICES ASSUME PanelInv PROVE PanelServes
    OBVIOUS
  <2>1. PanelOK
    BY DEF PanelInv
  <2>2. AttackDrawn
    <3> SUFFICES ASSUME owed # "none", ~raced
                 PROVE  owed \in {pending, taken} /\ now - owedAt <= MaxLag + 1
      BY DEF AttackDrawn
    <3>1. owed \in {pending, taken} /\ now <= owedAt + lag
      BY DEF PanelInv, StagedOK
    <3> QED BY <3>1, PanelTypes
  <2>3. GoesDark
    <3> SUFFICES ASSUME lit, SameEpoch(litAt) PROVE now - litAt <= Longest + MaxLag
      BY DEF GoesDark, Longest
    <3>1. now + 1 <= litAt + Longest + lag
      BY DEF PanelInv, LitOK
    <3>2. Longest \in Nat
      BY PanelTypes, LongestIs
    <3> QED BY <3>1, <3>2, PanelTypes
  <2> QED BY <2>1, <2>2, <2>3 DEF PanelServes
<1> QED BY <1>1, <1>2, <1>3, PTL DEF Spec

(***************************************************************************)
(* The counters of the restarts. The sum over the reasons is a fold: a     *)
(* function on the subsets, chosen among those that satisfy its equation.  *)
(***************************************************************************)
Chosen(s) == CHOOSE x \in s : TRUE
Sums(f, S, it) ==
    it = [s \in SUBSET S |-> IF s = {} THEN 0 ELSE f[Chosen(s)] + it[s \ {Chosen(s)}]]
SumOver(f, S) == CHOOSE it : Sums(f, S, it)

(* A set of natural numbers has a least one.                               *)
LEMMA LeastNatural ==
    ASSUME NEW S \in SUBSET Nat, S # {}
    PROVE  \E x \in S : \A y \in S : x <= y
<1> DEFINE R == OpToRel(<, Nat)
<1>1. IsWellFoundedOn(R, Nat)
  BY NatLessThanWellFounded
<1>2. PICK x \in S : \A y \in S : ~ (<<y, x>> \in R)
  <2> HIDE DEF R
  <2> QED BY <1>1, WFMin
<1>3. \A y \in S : ~ (y < x)
  BY <1>2 DEF OpToRel
<1> QED BY <1>3

(* A set without the element chosen from it is one smaller.                *)
LEMMA OneLess ==
    ASSUME NEW S, IsFiniteSet(S), NEW s \in SUBSET S, s # {}
    PROVE  /\ Chosen(s) \in s /\ Chosen(s) \in S /\ s \ {Chosen(s)} \in SUBSET S
           /\ IsFiniteSet(s) /\ Cardinality(s) \in Nat
           /\ Cardinality(s \ {Chosen(s)}) = Cardinality(s) - 1
           /\ Cardinality(s \ {Chosen(s)}) \in Nat
<1>1. Chosen(s) \in s
  BY DEF Chosen
<1>2. IsFiniteSet(s)
  BY FS_Subset
<1>3. IsFiniteSet(s \ {Chosen(s)}) /\ Cardinality(s \ {Chosen(s)}) = Cardinality(s) - 1
  BY <1>1, <1>2, FS_RemoveElement
<1> QED BY <1>1, <1>2, <1>3, FS_CardinalityType

(* Such a function exists: built up by the size of the subsets.            *)
LEMMA SumsExist ==
    ASSUME NEW S, IsFiniteSet(S), NEW f
    PROVE  Sums(f, S, SumOver(f, S))
<1> DEFINE Below(n) == {s \in SUBSET S : Cardinality(s) <= n}
           At(g, s) == IF s = {} THEN 0 ELSE f[Chosen(s)] + g[s \ {Chosen(s)}]
           UpTo(n) == \E g : g = [s \in Below(n) |-> At(g, s)]
           C == {n \in Nat : ~UpTo(n)}
<1>1. UpTo(0)
  <2> DEFINE g == [s \in Below(0) |-> 0]
  <2>1. ASSUME NEW s \in Below(0) PROVE s = {}
    <3>1. s \in SUBSET S /\ Cardinality(s) <= 0
      OBVIOUS
    <3>2. IsFiniteSet(s) /\ Cardinality(s) \in Nat
      BY <3>1, FS_Subset, FS_CardinalityType
    <3>3. Cardinality(s) = 0
      BY <3>1, <3>2
    <3> QED BY <3>2, <3>3, FS_EmptySet
  <2>2. \A s \in Below(0) : At(g, s) = 0
    <3> HIDE DEF Below
    <3> QED BY <2>1
  <2>3. g = [s \in Below(0) |-> At(g, s)]
    <3> HIDE DEF At, Below
    <3> QED BY <2>2
  <2> QED BY <2>3
<1>2. ASSUME NEW n \in Nat, UpTo(n) PROVE UpTo(n + 1)
  <2>1. PICK g : g = [s \in Below(n) |-> At(g, s)]
    BY <1>2
  <2> DEFINE h == [s \in Below(n + 1) |-> At(g, s)]
  <2>2. ASSUME NEW s \in Below(n) PROVE s \in Below(n + 1) /\ h[s] = g[s]
    <3>1. s \in Below(n + 1)
      <4>1. s \in SUBSET S /\ Cardinality(s) <= n
        OBVIOUS
      <4>2. Cardinality(s) \in Nat
        BY <4>1, FS_Subset, FS_CardinalityType
      <4> QED BY <4>1, <4>2
    <3>2. g[s] = At(g, s)
      <4> HIDE DEF At, Below
      <4> QED BY <2>1
    <3>3. h[s] = At(g, s)
      <4> HIDE DEF At, Below
      <4> QED BY <3>1
    <3> QED BY <3>1, <3>2, <3>3
  <2>3. ASSUME NEW s \in Below(n + 1) PROVE At(h, s) = At(g, s)
    <3>1. CASE s = {}
      BY <3>1
    <3>2. CASE s # {}
      <4> DEFINE t == s \ {Chosen(s)}
      <4>1. s \in SUBSET S /\ Cardinality(s) <= n + 1
        OBVIOUS
      <4>2. t \in SUBSET S /\ Cardinality(t) = Cardinality(s) - 1 /\ Cardinality(s) \in Nat
        BY <3>2, <4>1, OneLess
      <4>3. Cardinality(t) <= n
        BY <4>1, <4>2
      <4>4. t \in Below(n)
        <5> HIDE DEF t
        <5> QED BY <4>2, <4>3
      <4>5. h[t] = g[t]
        <5> HIDE DEF t, h, Below
        <5> QED BY <2>2, <4>4
      <4> QED
        <5> HIDE DEF h, Below
        <5> QED BY <3>2, <4>5
    <3> QED BY <3>1, <3>2
  <2>4. h = [s \in Below(n + 1) |-> At(h, s)]
    <3> HIDE DEF At, Below
    <3> QED BY <2>3
  <2> QED
    <3> HIDE DEF h, At, Below
    <3> QED BY <2>4
<1>3. \A n \in Nat : UpTo(n)
  <2> SUFFICES ASSUME C # {} PROVE FALSE
    <3> HIDE DEF UpTo
    <3> QED OBVIOUS
  <2> HIDE DEF UpTo
  <2>1. PICK n \in C : \A m \in C : n <= m
    BY LeastNatural
  <2>2. n \in Nat /\ ~UpTo(n)
    BY <2>1
  <2>3. n # 0
    BY <1>1, <2>2
  <2>4. n - 1 \in Nat /\ ~(n <= n - 1)
    BY <2>2, <2>3
  <2>5. UpTo(n - 1)
    BY <2>1, <2>4
  <2>6. UpTo((n - 1) + 1)
    BY <1>2, <2>4, <2>5
  <2>7. (n - 1) + 1 = n
    BY <2>2
  <2> QED BY <2>2, <2>6, <2>7
<1>4. Below(Cardinality(S)) = SUBSET S
  BY FS_Subset
<1>5. Cardinality(S) \in Nat
  BY FS_CardinalityType
<1>6. PICK g : g = [s \in Below(Cardinality(S)) |-> At(g, s)]
  <2> HIDE DEF Below, At
  <2> QED BY <1>3, <1>5
<1>7. g = [s \in SUBSET S |-> At(g, s)]
  <2> HIDE DEF Below, At
  <2> QED BY <1>4, <1>6
<1>8. Sums(f, S, g)
  BY <1>7 DEF Sums
<1> QED
  <2> HIDE DEF Below, At, UpTo, C
  <2> QED BY <1>8, Zenon DEF SumOver

(* Its equation, one subset at a time.                                     *)
LEMMA SumAt ==
    ASSUME NEW S, IsFiniteSet(S), NEW f, NEW s \in SUBSET S
    PROVE  SumOver(f, S)[s] = IF s = {} THEN 0
                              ELSE f[Chosen(s)] + SumOver(f, S)[s \ {Chosen(s)}]
<1> DEFINE it == SumOver(f, S)
<1>1. Sums(f, S, it)
  BY SumsExist
<1> HIDE DEF it
<1>2. it = [t \in SUBSET S |-> IF t = {} THEN 0 ELSE f[Chosen(t)] + it[t \ {Chosen(t)}]]
  BY <1>1 DEF Sums
<1>3. it[s] = IF s = {} THEN 0 ELSE f[Chosen(s)] + it[s \ {Chosen(s)}]
  BY <1>2
<1> QED BY <1>3 DEF it

(* The sum of zeros is 0.                                                  *)
LEMMA SumOfZeros ==
    ASSUME NEW S, IsFiniteSet(S), NEW f, \A x \in S : f[x] = 0
    PROVE  SumOver(f, S)[S] = 0
<1> DEFINE it == SumOver(f, S)
           C == {n \in Nat : \E s \in SUBSET S : Cardinality(s) = n /\ it[s] # 0}
<1>1. C = {}
  <2> SUFFICES ASSUME C # {} PROVE FALSE
    OBVIOUS
  <2> HIDE DEF it
  <2>1. PICK n \in C : \A m \in C : n <= m
    BY LeastNatural
  <2>2. PICK s \in SUBSET S : Cardinality(s) = n /\ it[s] # 0
    BY <2>1
  <2>3. it[s] = IF s = {} THEN 0 ELSE f[Chosen(s)] + it[s \ {Chosen(s)}]
    BY SumAt DEF it
  <2>4. s # {}
    BY <2>2, <2>3
  <2> DEFINE t == s \ {Chosen(s)}
  <2>5. /\ Chosen(s) \in S /\ t \in SUBSET S /\ Cardinality(s) \in Nat
        /\ Cardinality(t) = Cardinality(s) - 1 /\ Cardinality(t) \in Nat
    BY <2>4, OneLess
  <2>6. it[s] = f[Chosen(s)] + it[t]
    BY <2>3, <2>4
  <2> HIDE DEF t
  <2>7. it[t] # 0
    BY <2>2, <2>5, <2>6
  <2>8. Cardinality(t) \in C
    BY <2>5, <2>7
  <2>9. n <= Cardinality(t)
    <3> HIDE DEF C
    <3> QED BY <2>1, <2>8
  <2> QED
    <3> HIDE DEF C
    <3> QED BY <2>2, <2>5, <2>9
<1>2. Cardinality(S) \in Nat
  BY FS_CardinalityType
<1> QED
  <2> HIDE DEF it
  <2>1. it[S] = 0
    BY <1>1, <1>2
  <2> QED BY <2>1 DEF it

(* The sum of numbers is a number, and one more of one is one more.        *)
LEMMA SumCounts ==
    ASSUME NEW S, IsFiniteSet(S), NEW f \in [S -> Int], NEW r \in S
    PROVE  /\ SumOver(f, S)[S] \in Int
           /\ SumOver([f EXCEPT ![r] = @ + 1], S)[S] = SumOver(f, S)[S] + 1
<1> DEFINE g == [f EXCEPT ![r] = @ + 1]
           i == SumOver(f, S)
           j == SumOver(g, S)
           Fits(s) == i[s] \in Int /\ j[s] = i[s] + (IF r \in s THEN 1 ELSE 0)
           C == {n \in Nat : \E s \in SUBSET S : Cardinality(s) = n /\ ~Fits(s)}
<1>1. ASSUME NEW x \in S PROVE f[x] \in Int /\ g[x] = f[x] + (IF x = r THEN 1 ELSE 0)
  OBVIOUS
<1>2. ASSUME NEW s \in SUBSET S
      PROVE  /\ i[s] = IF s = {} THEN 0 ELSE f[Chosen(s)] + i[s \ {Chosen(s)}]
             /\ j[s] = IF s = {} THEN 0 ELSE g[Chosen(s)] + j[s \ {Chosen(s)}]
  <2> HIDE DEF g
  <2> QED BY SumAt
<1> HIDE DEF i, j, g
<1>3. C = {}
  <2> SUFFICES ASSUME C # {} PROVE FALSE
    OBVIOUS
  <2>1. PICK n \in C : \A m \in C : n <= m
    BY LeastNatural
  <2>2. PICK s \in SUBSET S : Cardinality(s) = n /\ ~Fits(s)
    BY <2>1
  <2>3. s # {}
    <3> SUFFICES ASSUME s = {} PROVE Fits(s)
      BY <2>2
    <3>1. i[s] = 0 /\ j[s] = 0 /\ ~(r \in s)
      BY <1>2
    <3> QED BY <3>1
  <2> DEFINE t == s \ {Chosen(s)}
             c == Chosen(s)
  <2>4. /\ c \in s /\ c \in S /\ t \in SUBSET S /\ Cardinality(s) \in Nat
        /\ Cardinality(t) = Cardinality(s) - 1 /\ Cardinality(t) \in Nat
    BY <2>3, OneLess
  <2>5. i[s] = f[c] + i[t] /\ j[s] = g[c] + j[t]
    BY <1>2, <2>3
  <2>6. f[c] \in Int /\ g[c] = f[c] + (IF c = r THEN 1 ELSE 0)
    BY <1>1, <2>4
  <2>7. r \in s <=> (r \in t \/ c = r)
    BY <2>4
  <2>8. ~(c \in t)
    OBVIOUS
  <2> HIDE DEF t, c
  <2>9. ~Fits(t)
    <3> SUFFICES ASSUME Fits(t) PROVE Fits(s)
      BY <2>2
    <3>1. i[t] \in Int /\ j[t] = i[t] + (IF r \in t THEN 1 ELSE 0)
      OBVIOUS
    <3>2. CASE c = r
      <4>1. r \in s /\ ~(r \in t)
        BY <2>7, <2>8, <3>2
      <4> QED BY <2>5, <2>6, <3>1, <3>2, <4>1
    <3>3. CASE c # r
      <4>1. CASE r \in t
        BY <2>5, <2>6, <2>7, <3>1, <3>3, <4>1
      <4>2. CASE ~(r \in t)
        BY <2>5, <2>6, <2>7, <3>1, <3>3, <4>2
      <4> QED BY <4>1, <4>2
    <3> QED BY <3>2, <3>3
  <2>10. Cardinality(t) \in C
    <3> HIDE DEF Fits
    <3> QED BY <2>4, <2>9
  <2>11. n <= Cardinality(t)
    <3> HIDE DEF C
    <3> QED BY <2>1, <2>10
  <2> QED
    <3> HIDE DEF C
    <3> QED BY <2>2, <2>4, <2>11
<1>4. Cardinality(S) \in Nat
  BY FS_CardinalityType
<1>5. Fits(S)
  <2> HIDE DEF Fits
  <2> QED BY <1>3, <1>4
<1>6. i[S] \in Int /\ j[S] = i[S] + 1
  BY <1>5
<1> QED BY <1>6 DEF i, j, g

(* The run's sum is that function's value.                                 *)
LEMMA CountsAre ==
    MapThenSumSet(LAMBDA r : count[r], Reasons) = SumOver(count, Reasons)[Reasons]
BY DEF MapThenSumSet, MapThenFoldSet, SumOver, Sums, Chosen

(* There are finitely many reasons, and as many writers in between.        *)
LEMMA ReasonsFinite == IsFiniteSet(Reasons)
<1>1. IsFiniteSet(LoopReasons)
  BY SettingsAssumption
<1> QED BY <1>1, FS_AddElement DEF Reasons

(* The invariant, in terms of the function.                                *)
Counted == SumOver(count, Reasons)[Reasons]
TallyInv ==
    /\ count \in [Reasons -> Int]
    /\ Counted \in Int
    /\ Counted = total + torn + Cardinality(Uncounted)

LEMMA TallyIs == TallyInv => TallyHolds
BY CountsAre DEF TallyInv, Counted, TallyHolds

LEMMA TallyInit == Init => TallyInv
<1> SUFFICES ASSUME Init PROVE TallyInv
  OBVIOUS
<1>1. count = [r \in Reasons |-> 0] /\ total = 0 /\ torn = 0
  BY DEF Init, SettingsStart
<1>2. at = [w \in Writers |-> IF w = "loop" THEN "save" ELSE "idle"]
  BY DEF Init, SettingsStart
<1>3. Uncounted = {}
  BY <1>2 DEF Uncounted
<1>4. Cardinality(Uncounted) = 0
  BY <1>3, FS_EmptySet
<1>5. \A r \in Reasons : count[r] = 0
  BY <1>1
<1>6. Counted = 0
  BY <1>5, ReasonsFinite, SumOfZeros DEF Counted
<1>7. count \in [Reasons -> Int]
  BY <1>1
<1> QED BY <1>1, <1>4, <1>6, <1>7 DEF TallyInv

(* A step of which no counter and no place in the counting is touched.     *)
LEMMA TallyStays ==
    ASSUME TallyInv, UNCHANGED <<count, total, torn>>, Uncounted' = Uncounted
    PROVE  TallyInv'
BY DEF TallyInv, Counted

(* The writers between their reason and the total, around a step of one.   *)
LEMMA UncountedMoves ==
    ASSUME PlacesOK, NEW w \in Writers, NEW s, at' = [at EXCEPT ![w] = s]
    PROVE  Uncounted' = IF s \in {"total", "sum"} THEN Uncounted \cup {w} ELSE Uncounted \ {w}
<1>1. DOMAIN at = Writers
  BY DEF PlacesOK
<1>2. \A v \in Writers : at'[v] = IF v = w THEN s ELSE at[v]
  BY <1>1
<1> QED BY <1>2 DEF Uncounted

(* One more or one fewer of them.                                          *)
LEMMA UncountedGrows ==
    ASSUME NEW w
    PROVE  /\ w \notin Uncounted => Cardinality(Uncounted \cup {w}) = Cardinality(Uncounted) + 1
           /\ w \in Uncounted => Cardinality(Uncounted \ {w}) = Cardinality(Uncounted) - 1
<1>1. IsFiniteSet(Uncounted)
  BY UncountedFinite
<1> QED BY <1>1, FS_AddElement, FS_RemoveElement

LEMMA TallyStep == PlacesOK /\ TotalsOK /\ TallyInv /\ [Next]_vars => TallyInv'
<1> SUFFICES ASSUME PlacesOK, TotalsOK, TallyInv, [Next]_vars PROVE TallyInv'
  OBVIOUS
<1> USE DEF config, form, writing, counters
<1>0. DOMAIN at = Writers /\ "loop" \in Writers /\ "async" \in Writers
  BY DEF PlacesOK, Writers
<1>1. ASSUME NEW w \in Writers, at[w] \notin {"total", "sum"}, NEW s, s \notin {"total", "sum"},
             Step(w, s), UNCHANGED <<count, total, torn>>
      PROVE  TallyInv'
  <2>1. Uncounted' = Uncounted \ {w}
    BY <1>1, UncountedMoves DEF Step
  <2>2. w \notin Uncounted
    BY <1>1 DEF Uncounted
  <2>3. Uncounted' = Uncounted
    BY <2>1, <2>2
  <2> QED BY <1>1, <2>3, TallyStays
<1>2. ASSUME UNCHANGED <<at, count, total, torn>> PROVE TallyInv'
  <2>1. Uncounted' = Uncounted
    BY <1>2 DEF Uncounted
  <2> QED BY <1>2, <2>1, TallyStays
<1>3. CASE Setup
  BY <1>2, <1>3 DEF Setup
<1>4. CASE Menu
  <2>1. \E s \in {"save", "off", "idle", "reset defaults"} : Step("loop", s)
    BY <1>4 DEF Menu, MenuSet, MenuWeb, MenuWebOff, MenuReset, MenuDefaults, Saves
  <2>2. at["loop"] \notin {"total", "sum"} /\ UNCHANGED <<count, total, torn>>
    BY <1>4 DEF Menu, MenuSet, MenuWeb, MenuWebOff, MenuReset, MenuDefaults, Operates
  <2> QED BY <1>0, <1>1, <2>1, <2>2
<1>5. CASE FormFirst \/ FormRest \/ FormGate
  <2>1. \E s \in {"form", "gate", "save"} : Step("async", s)
    BY <1>5 DEF FormFirst, FormRest, FormGate, Saves
  <2>2. at["async"] \notin {"total", "sum"} /\ UNCHANGED <<count, total, torn>>
    BY <1>5 DEF FormFirst, FormRest, FormGate, Operates
  <2> QED BY <1>0, <1>1, <2>1, <2>2
<1>6. CASE PortalSave
  <2>1. Step("async", "save") /\ at["async"] = "idle" /\ UNCHANGED <<count, total, torn>>
    BY <1>6 DEF PortalSave, Operates, Saves
  <2> QED BY <1>0, <1>1, <2>1
<1>7. CASE GiveUp
  <2>1. Step("loop", "count") /\ at["loop"] = "idle" /\ UNCHANGED <<count, total, torn>>
    BY <1>7 DEF GiveUp, Operates
  <2> QED BY <1>0, <1>1, <2>1
<1>8. ASSUME NEW w \in Writers, ReadKey(w) PROVE TallyInv'
  BY <1>2, <1>8 DEF ReadKey
<1>9. ASSUME NEW w \in Writers, PutKey(w) PROVE TallyInv'
  <2>1. /\ at[w] = "save" /\ UNCHANGED <<count, total, torn>>
        /\ at' = IF key[w] < Len(Keys) THEN at
                 ELSE [at EXCEPT ![w] = IF w = "async" THEN then ELSE "idle"]
    BY <1>9 DEF PutKey
  <2>2. CASE at' = at
    BY <1>2, <2>1, <2>2
  <2>3. CASE at' = [at EXCEPT ![w] = IF w = "async" THEN then ELSE "idle"]
    <3>1. (IF w = "async" THEN then ELSE "idle") \notin {"total", "sum"}
      BY DEF PlacesOK
    <3> QED BY <1>1, <2>1, <2>3, <3>1 DEF Step
  <2> QED BY <2>1, <2>2, <2>3
<1>10. ASSUME NEW w \in Writers, CountReason(w) PROVE TallyInv'
  <2>1. /\ at[w] = "count" /\ at' = [at EXCEPT ![w] = "total"]
        /\ count' = [count EXCEPT ![why[w]] = @ + 1] /\ UNCHANGED <<total, torn>>
    BY <1>10 DEF CountReason, Step
  <2>2. why[w] \in Reasons /\ total \in Nat /\ torn \in Nat
    BY DEF TotalsOK
  <2>3. count \in [Reasons -> Int]
    BY DEF TallyInv
  <2>4. Counted' = Counted + 1
    BY <2>1, <2>2, <2>3, ReasonsFinite, SumCounts DEF Counted
  <2>5. w \notin Uncounted /\ Uncounted' = Uncounted \cup {w}
    BY <2>1, UncountedMoves DEF Uncounted
  <2>6. Cardinality(Uncounted') = Cardinality(Uncounted) + 1
    BY <2>5, UncountedGrows
  <2>7. count' \in [Reasons -> Int]
    BY <2>1, <2>2, <2>3
  <2> DEFINE u == Cardinality(Uncounted)
             v == Cardinality(Uncounted')
             n == Counted
             m == Counted'
  <2>8. n \in Int /\ n = total + torn + u /\ u \in Nat
    BY UncountedCard DEF TallyInv
  <2>9. m \in Int /\ m = total' + torn' + v
    <3>1. m = n + 1 /\ v = u + 1 /\ total' = total /\ torn' = torn
      BY <2>1, <2>4, <2>6
    <3> HIDE DEF u, v, n, m
    <3> QED BY <2>2, <2>8, <3>1
  <2> QED BY <2>7, <2>9 DEF TallyInv
<1>11. ASSUME NEW w \in Writers, ReadTotal(w) PROVE TallyInv'
  <2>1. /\ at[w] = "total" /\ at' = [at EXCEPT ![w] = "sum"]
        /\ UNCHANGED <<count, total, torn>>
    BY <1>11 DEF ReadTotal, Step
  <2>2. w \in Uncounted /\ Uncounted' = Uncounted \cup {w}
    BY <2>1, UncountedMoves DEF Uncounted
  <2>3. Uncounted' = Uncounted
    BY <2>2
  <2> QED BY <2>1, <2>3, TallyStays
<1>12. ASSUME NEW w \in Writers, PutTotal(w) PROVE TallyInv'
  <2>1. /\ at[w] = "sum" /\ at' = [at EXCEPT ![w] = "reset"]
        /\ total' = was[w] + 1 /\ torn' = torn + (total - was[w]) /\ UNCHANGED count
    BY <1>12 DEF PutTotal, Step, SumOf
  <2>2. was[w] \in Nat /\ total \in Nat /\ torn \in Nat
    BY DEF TotalsOK
  <2>3. total' + torn' = total + torn + 1
    BY <2>1, <2>2
  <2>4. w \in Uncounted /\ Uncounted' = Uncounted \ {w}
    BY <2>1, UncountedMoves DEF Uncounted
  <2>5. Cardinality(Uncounted') = Cardinality(Uncounted) - 1
    BY <2>4, UncountedGrows
  <2>6. Counted' = Counted
    BY <2>1 DEF Counted
  <2> DEFINE u == Cardinality(Uncounted)
             v == Cardinality(Uncounted')
             n == Counted
             t == total'
             k == torn'
  <2>7. n \in Int /\ n = total + torn + u /\ u \in Nat
    BY UncountedCard DEF TallyInv
  <2>8. n = t + k + v
    <3>1. v = u - 1 /\ t + k = total + torn + 1
      BY <2>3, <2>5
    <3>2. t \in Int /\ k \in Int
      BY <2>1, <2>2
    <3> HIDE DEF u, v, n, t, k
    <3> QED BY <2>2, <2>7, <3>1, <3>2
  <2> QED BY <2>1, <2>6, <2>7, <2>8 DEF TallyInv
<1>13. CASE SettingsRestart
  <2>1. at'["loop"] \notin {"total", "sum"} /\ at'["async"] \notin {"total", "sum"}
    BY <1>0, <1>13 DEF SettingsRestart
  <2>2. torn' = torn + Cardinality(Uncounted) /\ UNCHANGED <<count, total>>
    BY <1>13 DEF SettingsRestart
  <2>3. Uncounted' = {}
    BY <2>1 DEF Uncounted, Writers
  <2>4. Cardinality(Uncounted') = 0
    BY <2>3, FS_EmptySet
  <2>5. Counted' = Counted
    BY <2>2 DEF Counted
  <2> DEFINE u == Cardinality(Uncounted)
             v == Cardinality(Uncounted')
             n == Counted
  <2>6. n \in Int /\ n = total + torn + u /\ u \in Nat /\ total \in Nat /\ torn \in Nat
    BY UncountedCard DEF TallyInv, TotalsOK
  <2>7. n = total' + torn' + v
    <3>1. v = 0 /\ torn' = torn + u /\ total' = total
      BY <2>2, <2>4
    <3> HIDE DEF u, v, n
    <3> QED BY <2>6, <3>1
  <2> QED BY <2>2, <2>5, <2>6, <2>7 DEF TallyInv
<1>14. CASE UNCHANGED settings
  BY <1>2, <1>14 DEF settings
<1> QED
  BY Steps, <1>3, <1>4, <1>5, <1>6, <1>7, <1>8, <1>9, <1>10, <1>11, <1>12, <1>13, <1>14
     DEF SettingsStep, Dashboard

(* Wherever a power cut or the other task's restart falls: the restarts    *)
(* counted by reason are the total, those lost to such an overlap, and     *)
(* those still being counted (restart_with).                               *)
THEOREM TallyIsKept == Spec => []TallyHolds
<1>1. Init => TallyInv
  BY TallyInit
<1>2. Inv /\ TallyInv /\ [Next]_vars => TallyInv'
  BY TallyStep DEF Inv
<1> QED BY <1>1, <1>2, InvHolds, TallyIs, PTL DEF Spec
=============================================================================
