---------------------------- MODULE IntelReporter ----------------------------
(***************************************************************************)
(* The intel task (intel.cpp, geoip.cpp): it takes the ids of finished     *)
(* attacks from a queue, looks the address up, tells the services that are *)
(* switched on, one after the other, writes the entry back, and sends the  *)
(* DShield batch. The log it reads is cut down to an address and the marks *)
(* of an entry (AttackLog has the rest); the services answer as they like. *)
(***************************************************************************)
EXTENDS DnsCache, HubEvents

CONSTANTS Ips,           \* addresses
          Setups,        \* bounds: what is switched on, which addresses are local, attacks, faults
          Names,         \* pulse names the operator may configure
          QueueLen,      \* of s_q
          CdMax,         \* kCdMax
          GeoMax,        \* kGeoCacheMax
          PendingMax,    \* kDshieldPendingMax
          LogCap,        \* entries the log keeps
          AbuseCd, OtxCd, DshieldCd,  \* cooldowns per address
          DshieldGap,    \* kDshieldMinIntervalMs
          Backoff,       \* kOtxCreateBackoffSec
          Casts, Budgets, \* transcripts on file; what the heap leaves for events
          HubHad,        \* possible sets of ids the hub has from before the flash was erased
          MaxNow         \* bound

Stages == <<"geoip", "abuse", "otx", "dshield", "hub">>
Services == ToSet(Stages)
Limited == {"abuse", "otx", "dshield"}   \* the services with a cooldown table
Period == [abuse |-> AbuseCd, otx |-> OtxCd, dshield |-> DshieldCd]

ASSUME IntelAssumption ==
    /\ Setups \subseteq [on : SUBSET Services, lan : SUBSET Ips, attacks : Nat, faults : Nat]
    /\ Services \subseteq Hosts
    /\ CdMax \in Nat \ {0} /\ GeoMax \in Nat \ {0} /\ PendingMax \in Nat \ {0}
    /\ \A s \in Limited : Period[s] \in Nat \ {0}
    /\ DshieldGap \in Nat \ {0} /\ DshieldGap < Wrap /\ Backoff \in Nat
    /\ QueueLen \in Nat /\ LogCap \in Nat \ {0} /\ Names # {}
    /\ \A ids \in HubHad : ids \subseteq Nat /\ IsFiniteSet(ids)
    /\ Casts \subseteq Seq(Recorded) /\ Budgets \subseteq Nat \ {0}

VARIABLES on, lan,    \* the services switched on; the addresses of the local network
          name,       \* cfg.otx_pulse_name
          log,        \* entries by id: address and marks
          nextId,     \* next_id_
          queue,      \* s_q
          pc, hand,   \* where the task is; the entry it works on
          cd,         \* s_cd_*: per service, when which address was told
          geo,        \* s_geo_cache: when which address was last used
          ram, nvs,   \* the pulse in memory and in flash: id (0 for "") and name
          failedAt,   \* when a creation failed last, or 0: s_otx_create_backoff_until
          pending, marks, \* s_dshield_pending; sent_ids not marked yet
          window,     \* what s_dshield_next_ms is counted from
          hub,        \* ids the hub has rows for
          upload,     \* history: the transcript reported last, and what was made of it
          alive,      \* pulses that exist at OTX
          created, excused, \* history: pulses created; creations that had a cause
          told,       \* history: per service, when it last acknowledged which address
          kept,       \* history: [s, id] of the acknowledged reports, less what a restart lost
          posted,     \* history: time of the last DShield request, 0 for none
          owed,       \* history: addresses silenced for DShield and not sent yet
          leaked,     \* history: local addresses DShield was told under an id of their own
          stale,      \* history: ids of the batch, or on the way there, that a clear has freed
          healed,     \* history: the hub said how far it is; since then no id was given up,
                      \* nor one that a clear had freed reported
          attacks, faults \* bounds: attacks to come; restarts, clears, renames, deleted pulses

opts   == <<on, lan>>
task   == <<pc, hand, queue>>
otx    == <<ram, nvs, failedAt, alive, created, excused>>
batch  == <<pending, marks, window, posted, owed, leaked, stale>>
hubs   == <<hub, upload, healed>>
bounds == <<attacks, faults>>
vars   == <<clock, dns, opts, name, log, nextId, task, cd, geo, otx, batch, hubs, told, kept, bounds>>

None == <<>>
NoPulse == [pid |-> 0, name |-> "none"]

Init == /\ now = 1 /\ bootAt = 1 /\ dns = None
        /\ name = CHOOSE n \in Names : TRUE
        /\ log = None /\ nextId = 1 /\ queue = <<>> /\ pc = "idle" /\ hand = None
        /\ cd = [s \in Limited |-> None] /\ geo = None
        /\ ram = NoPulse /\ nvs = NoPulse /\ failedAt = 0
        /\ alive = {} /\ created = 0 /\ excused = 0
        /\ pending = <<>> /\ marks = <<>> /\ window = 1 /\ posted = 0 /\ owed = {} /\ leaked = {} /\ stale = {}
        /\ hub \in HubHad /\ upload = <<>> /\ healed = FALSE
        /\ told = [s \in Limited |-> None] /\ kept = {}
        /\ \E s \in Setups : on = s.on /\ lan = s.lan /\ attacks = s.attacks /\ faults = s.faults

(***************************************************************************)
(* The log, as the task sees it.                                           *)
(***************************************************************************)
OnLog(id) == id \in DOMAIN log
AddressOf(ids) == {log[id].ip : id \in ids \cap DOMAIN log}

\* An entry that is put in may push another one out.
Put(id, entry) ==
    \E out \in {{}} \cup {{o} : o \in DOMAIN log \ {id}} :
        /\ out = {} <=> Cardinality(DOMAIN log \cup {id}) <= LogCap
        /\ log' = [i \in (DOMAIN log \cup {id}) \ out |-> IF i = id THEN entry ELSE log[i]]
        /\ owed' = owed \ {log[o].ip : o \in {o \in ToSet(pending) \cap DOMAIN log :
                              o \in out \/ (o = id /\ log[o].ip # entry.ip)}}

\* A session ends: its entry is logged and its id queued, if there is room.
Capture(ip) ==
    /\ attacks > 0 /\ attacks' = attacks - 1
    /\ Put(nextId, [ip |-> ip, marks |-> {}])
    /\ queue' = IF Len(queue) < QueueLen THEN Append(queue, nextId) ELSE queue
    /\ nextId' = nextId + 1
    /\ kept' = {k \in kept : k.id # nextId}
    /\ UNCHANGED <<clock, dns, opts, name, pc, hand, cd, geo, otx, pending, marks, window, posted,
                   leaked, stale, hubs, told, faults>>

\* One of the few disturbances of a behaviour.
Disturbed == faults > 0 /\ faults' = faults - 1

\* clearAll(), which the task does not hear of; ids start again at 1.
Clear ==
    /\ Disturbed
    /\ log' = None /\ nextId' = 1 /\ kept' = {} /\ healed' = FALSE
    /\ owed' = owed \ AddressOf(ToSet(pending))
    /\ stale' = ToSet(pending) \cup ToSet(queue) \cup (IF hand = None THEN {} ELSE {hand.id})
    /\ UNCHANGED <<clock, dns, opts, name, task, cd, geo, otx, pending, marks, window, posted,
                   leaked, hub, upload, told, attacks>>

(***************************************************************************)
(* Tables, gates and cooldowns.                                            *)
(***************************************************************************)
\* Slip: an address that is there already is not refreshed.
InsertedOnce(table, cap, ip) ==
    LET oldest == {v \in DOMAIN table : \A u \in DOMAIN table : Stamp(table[v]) <= Stamp(table[u])}
        outs == IF Cardinality(DOMAIN table) < cap THEN {{}} ELSE {{v} : v \in oldest}
    IN  IF ip \in DOMAIN table THEN {table}
        ELSE {[x \in (DOMAIN table \ out) \cup {ip} |-> IF x = ip THEN now ELSE table[x]] : out \in outs}
\* The address, now; of a full table the entry with the smallest stamp goes.
Inserted(table, cap, ip) ==
    LET oldest == {v \in DOMAIN table : \A u \in DOMAIN table : Stamp(table[v]) <= Stamp(table[u])}
        outs == IF ip \in DOMAIN table \/ Cardinality(DOMAIN table) < cap THEN {{}}
                ELSE {{v} : v \in oldest}
    IN  {[x \in (DOMAIN table \ out) \cup {ip} |-> IF x = ip THEN now ELSE table[x]] : out \in outs}

\* !cooldown_check_: seconds start again at 0 with millis(), the difference does not.
Cooling(s, ip) ==
    /\ ip \in DOMAIN cd[s]
    /\ Millis >= Stamp(cd[s][ip]) /\ Millis - Stamp(cd[s][ip]) < Period[s]

\* cooldown_commit_; an address the table forgets is not held against it.
Commit(s) == \E table \in Inserted(cd[s], CdMax, hand.ip) : cd' = [cd EXCEPT ![s] = table]

\* The gates of a request: online for long enough, the name resolved, heap.
Reach(s, go) ==
    \/ ~go /\ UNCHANGED dns
    \/ \E answers \in BOOLEAN : Resolve(s, answers) /\ (go => Resolved(s, answers))

Wanted(s) == s \notin hand.marks
\* What is reported: not the local network, and not again within the cooldown.
Public(s) == Wanted(s) /\ hand.ip \notin lan /\ ~Cooling(s, hand.ip)

\* The stage after number n of those that are switched on.
StageAfter(n) ==
    LET later == {m \in DOMAIN Stages : m > n /\ Stages[m] \in on}
    IN  IF later = {} THEN "update" ELSE Stages[Min(later)]

Mark(s) == /\ hand' = [hand EXCEPT !.marks = @ \cup {s}]
           /\ kept' = kept \cup {[s |-> s, id |-> hand.id]}

Acknowledged(s) == /\ Mark(s) /\ Commit(s)
                   /\ told' = [told EXCEPT ![s] =
                         [ip \in (DOMAIN @ \cap DOMAIN cd'[s]) \cup {hand.ip} |->
                            IF ip = hand.ip THEN now ELSE @[ip]]]

(***************************************************************************)
(* The task's steps.                                                       *)
(***************************************************************************)
\* Slip: an id that is not on the log stays in the queue.
TakeKnownId ==
    /\ pc = "idle" /\ queue # <<>>
    /\ IF OnLog(Head(queue))
       THEN /\ hand' = [id |-> Head(queue), ip |-> log[Head(queue)].ip, marks |-> log[Head(queue)].marks]
            /\ pc' = StageAfter(0) /\ queue' = Tail(queue)
       ELSE pc' = "drain" /\ UNCHANGED <<hand, queue>>
    /\ UNCHANGED <<clock, dns, opts, name, log, nextId, cd, geo, otx, batch, hubs, told, kept, bounds>>
\* The next id, and a copy of its entry.
TakeId ==
    /\ pc = "idle" /\ queue # <<>> /\ queue' = Tail(queue)
    /\ IF OnLog(Head(queue))
       THEN /\ hand' = [id |-> Head(queue), ip |-> log[Head(queue)].ip, marks |-> log[Head(queue)].marks]
            /\ pc' = StageAfter(0)
       ELSE pc' = "drain" /\ UNCHANGED hand
    /\ UNCHANGED <<clock, dns, opts, name, log, nextId, cd, geo, otx, batch, hubs, told, kept, bounds>>

\* The receive times out; without a batch there is nothing more to see.
TimeOut ==
    /\ pc = "idle" /\ queue = <<>> /\ pending # <<>> /\ pc' = "drain"
    /\ UNCHANGED <<clock, dns, opts, name, log, nextId, hand, queue, cd, geo, otx, batch, hubs, told,
                   kept, bounds>>

\* geoip_lookup: out of the cache, or from the service.
GeoIp ==
    /\ pc = "geoip" /\ pc' = StageAfter(1)
    /\ \/ ~Wanted("geoip") /\ UNCHANGED <<dns, hand, kept, geo>>
       \/ /\ Wanted("geoip") /\ hand.ip \in DOMAIN geo
          /\ Mark("geoip") /\ geo' = [geo EXCEPT ![hand.ip] = now] /\ UNCHANGED dns
       \/ /\ Wanted("geoip") /\ hand.ip \notin DOMAIN geo
          /\ \E go, found \in BOOLEAN :
                /\ Reach("geoip", go)
                /\ IF go /\ found THEN Mark("geoip") /\ geo' \in Inserted(geo, GeoMax, hand.ip)
                   ELSE UNCHANGED <<hand, kept, geo>>
    /\ UNCHANGED <<clock, opts, name, log, nextId, queue, cd, otx, batch, hubs, told, bounds>>

\* intel_report_abuseipdb
Abuse ==
    /\ pc = "abuse" /\ pc' = StageAfter(2)
    /\ \/ ~Public("abuse") /\ UNCHANGED <<dns, hand, kept, cd, told>>
       \/ /\ Public("abuse")
          /\ \E go, taken \in BOOLEAN :
                /\ Reach("abuse", go)
                /\ IF go /\ taken THEN Acknowledged("abuse")
                   ELSE UNCHANGED <<hand, kept, cd, told>>
    /\ UNCHANGED <<clock, opts, name, log, nextId, queue, geo, otx, batch, hubs, bounds>>

\* Slip: what an earlier start saved is not read.
LoadedFromMemory == ram
\* otx_load_cache_
Loaded == IF ram.pid # 0 THEN ram ELSE nvs
\* The seconds of the backoff are counted past where the clock starts again.
BackingOff == failedAt # 0 /\ Millis < Stamp(failedAt) + Backoff

\* otx_create_pulse_: an answer that is lost leaves a pulse nobody knows of.
Create ==
    \/ /\ created' = created + 1 /\ alive' = alive \cup {created'}
       /\ nvs' = [nvs EXCEPT !.pid = created'] /\ pc' = "save"
       /\ UNCHANGED <<failedAt, excused>>
    \/ /\ created' = created + 1 /\ alive' = alive \cup {created'} /\ excused' = excused + 1
       /\ failedAt' = now /\ pc' = StageAfter(3) /\ UNCHANGED nvs
    \/ failedAt' = now /\ pc' = StageAfter(3) /\ UNCHANGED <<created, alive, excused, nvs>>

\* otx_ensure_pulse_
Ensure ==
    CASE Loaded.pid # 0 /\ Loaded.name = name ->
            pc' = "patch" /\ UNCHANGED <<nvs, failedAt, alive, created, excused>>
      [] ~(Loaded.pid # 0 /\ Loaded.name = name) /\ BackingOff ->
            pc' = StageAfter(3) /\ UNCHANGED <<nvs, failedAt, alive, created, excused>>
      [] OTHER -> Create

\* intel_report_otx, up to the first of the two writes of a new pulse.
Otx ==
    /\ pc = "otx"
    /\ \/ ~Public("otx") /\ pc' = StageAfter(3) /\ UNCHANGED <<dns, otx>>
       \/ /\ Public("otx")
          /\ \E go \in BOOLEAN :
                /\ Reach("otx", go)
                /\ IF go THEN ram' = Loaded /\ Ensure
                   ELSE pc' = StageAfter(3) /\ UNCHANGED otx
    /\ UNCHANGED <<clock, opts, name, log, nextId, hand, queue, cd, geo, batch, hubs, told, kept, bounds>>

\* otx_save_cache_, the second write: of a new pulse, or of none.
Save ==
    /\ pc = "save"
    /\ nvs' = [nvs EXCEPT !.name = IF nvs.pid = 0 THEN "none" ELSE name]
    /\ ram' = nvs'
    /\ pc' = IF nvs.pid = 0 THEN StageAfter(3) ELSE "patch"
    /\ UNCHANGED <<clock, dns, opts, name, log, nextId, hand, queue, cd, geo, failedAt, alive, created,
                   excused, batch, hubs, told, kept, bounds>>

\* The indicator is added, not added, or the pulse is gone and forgotten.
Patch ==
    /\ pc = "patch"
    /\ IF ram.pid \in alive
       THEN /\ Acknowledged("otx") \/ UNCHANGED <<hand, kept, cd, told>>
            /\ pc' = StageAfter(3) /\ UNCHANGED <<nvs, excused>>
       ELSE /\ nvs' = [nvs EXCEPT !.pid = 0] /\ pc' = "save" /\ excused' = excused + 1
            /\ UNCHANGED <<hand, kept, cd, told>>
    /\ UNCHANGED <<clock, dns, opts, name, log, nextId, queue, geo, ram, failedAt, alive, created, batch,
                   hubs, bounds>>

Full == Len(pending) >= PendingMax

\* intel_report_dshield: the id joins the batch, a full batch loses its oldest.
Dshield ==
    /\ pc = "dshield" /\ pc' = StageAfter(4)
    /\ IF Public("dshield")
       THEN LET gone == IF Full THEN {Head(pending)} ELSE {}
            IN  /\ pending' = Append(IF Full THEN Tail(pending) ELSE pending, hand.id)
                /\ Commit("dshield")
                /\ owed' = (owed \ AddressOf(gone)) \cup {hand.ip}
       ELSE UNCHANGED <<pending, cd, owed>>
    /\ UNCHANGED <<clock, dns, opts, name, log, nextId, hand, queue, geo, otx, marks, window, posted,
                   leaked, stale, hubs, told, kept, bounds>>

\* The session in the report: no recording, no heap for it, or what fits.
Session ==
    \/ upload' = <<>>
    \/ \E cast \in Casts, budget \in Budgets :
          LET built == Build(cast, budget)
          IN  upload' = <<[cast |-> cast, budget |-> budget, events |-> built.events,
                           truncated |-> built.truncated]>>

\* Slip: the counter is put where the hub is, not past it.
BumpToMax(told_by) == IF told_by > nextId THEN told_by ELSE nextId
\* bumpNextIdAtLeast
Bump(told_by) == IF told_by + 1 > nextId THEN told_by + 1 ELSE nextId

\* intel_report_hub: taken, with or without saying how far the hub is; taken
\* but the answer lost; refused for good; not taken.
Hub ==
    /\ pc = "hub" /\ pc' = "update"
    /\ \E go \in BOOLEAN, code \in {"2xx", "lost", "4xx", "other"}, says \in BOOLEAN :
          LET rows == hub \cup {hand.id}
          IN  /\ go => Wanted("hub")
              /\ IF Wanted("hub") THEN Reach("hub", go) ELSE UNCHANGED dns
              /\ ~go => code = "other"
              /\ says => code = "2xx"
              /\ hub' = IF code \in {"2xx", "lost"} THEN rows ELSE hub
              /\ nextId' = IF says THEN Bump(Max(rows)) ELSE nextId
              /\ healed' = (says \/ (healed /\ (hub' = hub \/ hand.id \notin stale)))
              /\ IF code \in {"2xx", "4xx"} THEN Mark("hub") ELSE UNCHANGED <<hand, kept>>
              /\ IF go THEN Session ELSE upload' = <<>>
    /\ UNCHANGED <<clock, opts, name, log, queue, cd, geo, otx, batch, told, bounds>>

\* g_attack_log.update(e): also puts back an entry that is gone.
Update ==
    /\ pc = "update" /\ pc' = "drain" /\ hand' = None /\ upload' = <<>>
    /\ Put(hand.id, [ip |-> hand.ip, marks |-> hand.marks])
    /\ UNCHANGED <<clock, dns, opts, name, nextId, queue, cd, geo, otx, pending, marks, window, posted,
                   leaked, stale, hub, healed, told, kept, bounds>>

\* s_dshield_pending.clear()
Drop == pending' = <<>> /\ stale' = stale \cap ToSet(queue)

Due == "dshield" \in on /\ pending # <<>> /\ Millis >= Stamp(window + DshieldGap)

\* Slip: the batch is dropped with the failure.
PostAndDrop(ids) ==
    /\ posted' = now /\ window' = now
    /\ leaked' = leaked \cup (AddressOf(ToSet(ids) \ stale) \cap lan)
    /\ \/ /\ marks' = ids /\ pc' = "mark" /\ owed' = owed \ AddressOf(ToSet(ids))
          /\ kept' = kept \cup [s : {"dshield"}, id : ToSet(ids)] /\ UNCHANGED <<pending, stale>>
       \/ pc' = "idle" /\ Drop /\ UNCHANGED <<marks, owed, kept>>
\* One bulk request for the entries still on the log.
Post(ids) ==
    /\ posted' = now /\ window' = now
    /\ leaked' = leaked \cup (AddressOf(ToSet(ids) \ stale) \cap lan)
    /\ \/ /\ marks' = ids /\ pc' = "mark" /\ owed' = owed \ AddressOf(ToSet(ids))
          /\ kept' = kept \cup [s : {"dshield"}, id : ToSet(ids)]
       \/ pc' = "idle" /\ UNCHANGED <<marks, owed, kept>>
    /\ UNCHANGED <<pending, stale>>

\* sent_ids: what is left of the batch, in its order, without the entries that
\* are no longer on the log.
Sendable ==
    LET upto[n \in 0 .. Len(pending)] ==
          IF n = 0 THEN <<>>
          ELSE IF OnLog(pending[n]) THEN Append(upto[n - 1], pending[n]) ELSE upto[n - 1]
    IN  upto[Len(pending)]

\* intel_dshield_drain_
Drain ==
    /\ pc = "drain"
    /\ \/ ~Due /\ pc' = "idle" /\ UNCHANGED <<dns, batch, kept>>
       \/ /\ Due
          /\ \E go \in BOOLEAN :
                /\ Reach("dshield", go)
                /\ CASE ~go -> pc' = "idle" /\ UNCHANGED <<batch, kept>>
                     [] go /\ Sendable = <<>> ->
                          /\ pc' = "idle" /\ Drop
                          /\ UNCHANGED <<marks, window, posted, owed, leaked, kept>>
                     [] OTHER -> Post(Sendable)
    /\ UNCHANGED <<clock, opts, name, log, nextId, hand, queue, cd, geo, otx, hubs, told, bounds>>

\* Slip: the rest of the batch is left unmarked.
MarkFirstOnly ==
    /\ pc = "mark" /\ pc' = "idle" /\ marks' = <<>> /\ Drop
    /\ IF OnLog(Head(marks))
       THEN Put(Head(marks), [log[Head(marks)] EXCEPT !.marks = @ \cup {"dshield"}])
       ELSE UNCHANGED <<log, owed>>
    /\ UNCHANGED <<clock, dns, opts, name, nextId, hand, queue, cd, geo, otx, window, posted, leaked,
                   hubs, told, kept, bounds>>
\* After a success each entry is read again and marked; then the batch is dropped.
MarkSent ==
    /\ pc = "mark" /\ marks' = Tail(marks)
    /\ IF OnLog(Head(marks))
       THEN Put(Head(marks), [log[Head(marks)] EXCEPT !.marks = @ \cup {"dshield"}])
       ELSE UNCHANGED <<log, owed>>
    /\ IF Len(marks) = 1 THEN pc' = "idle" /\ Drop ELSE UNCHANGED <<pc, pending, stale>>
    /\ UNCHANGED <<clock, dns, opts, name, nextId, hand, queue, cd, geo, otx, window, posted, leaked,
                   hubs, told, kept, bounds>>

(***************************************************************************)
(* Everything else.                                                        *)
(***************************************************************************)
\* A request takes less than a tick.
Tick == /\ now < MaxNow /\ pc \notin {"save", "patch"} /\ now' = now + 1
        /\ UNCHANGED <<bootAt, dns, opts, name, log, nextId, task, cd, geo, otx, batch, hubs, told, kept,
                       bounds>>

\* The operator renames the pulse in the settings.
Rename == /\ "otx" \in on /\ name' \in Names \ {name} /\ Disturbed /\ excused' = excused + 1
          /\ UNCHANGED <<clock, dns, opts, log, nextId, task, cd, geo, ram, nvs, failedAt, alive, created,
                         batch, hubs, told, kept, attacks>>

\* Somebody deletes a pulse at OTX.
PulseDeleted == /\ Disturbed /\ \E p \in alive : alive' = alive \ {p}
                /\ UNCHANGED <<clock, dns, opts, name, log, nextId, task, cd, geo, ram, nvs, failedAt,
                               created, excused, batch, hubs, told, kept, attacks>>

\* begin() finds of the log what the persister had written: some entries not
\* at all, some without the marks they got last.
Reloaded ==
    \E ids \in SUBSET DOMAIN log : \E m \in [ids -> SUBSET UNION {log[i].marks : i \in ids}] :
        /\ \A i \in ids : m[i] \subseteq log[i].marks
        /\ log' = [i \in ids |-> [ip |-> log[i].ip, marks |-> m[i]]]

\* All that is not in flash is gone; the counter may fall back to an older
\* shadow of it, but not below an id on file.
Reboot ==
    /\ Disturbed
    /\ now' = now /\ bootAt' = now /\ dns' = None
    /\ Reloaded
    /\ \E last \in 0..nextId - 1 : nextId' = Max({last} \cup DOMAIN log') + 1
    /\ healed' = (healed /\ nextId' >= nextId)
    /\ queue' = <<>> /\ pc' = "idle" /\ hand' = None /\ cd' = [s \in Limited |-> None] /\ geo' = None
    /\ ram' = NoPulse /\ failedAt' = 0 /\ excused' = excused + (IF pc = "save" THEN 1 ELSE 0)
    /\ pending' = <<>> /\ marks' = <<>> /\ window' = now /\ owed' = {} /\ stale' = {} /\ upload' = <<>>
    /\ told' = [s \in Limited |-> None]
    /\ kept' = {k \in kept : k.id \in DOMAIN log' => k.s \in log'[k.id].marks}
    /\ UNCHANGED <<opts, name, nvs, alive, created, posted, leaked, hub, attacks>>

TaskStep == \/ TakeId \/ TimeOut \/ GeoIp \/ Abuse \/ Otx \/ Save \/ Patch \/ Dshield \/ Hub \/ Update
            \/ Drain \/ MarkSent

Next == \/ TaskStep
        \/ \E ip \in Ips : Capture(ip)
        \/ Clear \/ Tick \/ Rename \/ PulseDeleted \/ Reboot

Spec == Init /\ [][Next]_vars

\* Every request of the task has a timeout, and the task loops for ever.
FairSpec == Spec /\ WF_vars(TaskStep)

(***************************************************************************)
(* Properties.                                                             *)
(***************************************************************************)
\* The tables, the batch and the queue keep within their sizes.
TypeOK ==
    /\ DnsOK /\ now \in Nat /\ bootAt \in 1..now
    /\ on \subseteq Services /\ name \in Names /\ nextId \in Nat
    /\ DOMAIN log \subseteq Nat /\ Cardinality(DOMAIN log) <= LogCap
    /\ \A i \in DOMAIN log : log[i].ip \in Ips /\ log[i].marks \subseteq Services
    /\ queue \in Seq(Nat) /\ Len(queue) <= QueueLen
    /\ hand # None => hand.ip \in Ips /\ hand.marks \subseteq Services
    /\ pc \in {"idle", "save", "patch", "update", "drain", "mark"} \cup Services
    /\ \A s \in Limited : DOMAIN cd[s] \subseteq Ips /\ Cardinality(DOMAIN cd[s]) <= CdMax
    /\ DOMAIN geo \subseteq Ips /\ Cardinality(DOMAIN geo) <= GeoMax
    /\ ram.pid \in 0..created /\ nvs.pid \in 0..created /\ {ram.name, nvs.name} \subseteq Names \cup {"none"}
    /\ failedAt \in 0..now /\ window \in bootAt..now /\ posted \in 0..now
    /\ Len(pending) <= PendingMax /\ ToSet(pending) \subseteq Nat /\ ToSet(marks) \subseteq Nat
    /\ hub \subseteq Nat /\ healed \in BOOLEAN

\* A service is not told of an address again within its cooldown, unless the
\* table had to forget the address, or the clock wrapped or stopped in
\* between (cooldown_check_, cooldown_commit_).
ReportsSpaced ==
    [][\A s \in {"abuse", "otx"} : \A ip \in DOMAIN told[s] \cap DOMAIN told'[s] :
          told'[s][ip] # told[s][ip] /\ SameEpoch(told[s][ip])
             => told'[s][ip] - told[s][ip] >= Period[s]]_vars

\* DShield is asked at most once in thirty minutes, and not in the first
\* thirty after a start, failures and restarts included; the last half hour
\* before the clock wraps is left out (intel_dshield_drain_, s_dshield_next_ms).
DshieldSpaced ==
    [][posted' # posted => \A t \in {posted, bootAt} \ {0} :
          now - t >= DshieldGap \/ (t >= bootAt /\ Stamp(t) + DshieldGap >= Wrap)
            \/ ~SameEpoch(Max({t, bootAt}))]_vars

\* An address that DShield's cooldown silences is in the batch until DShield
\* has taken it, unless the batch or the log had no room for it or the log was
\* cleared (intel_report_dshield, intel_dshield_drain_).
BatchKeepsOwed ==
    owed \subseteq AddressOf(ToSet(pending))
                 \cup (IF hand # None /\ hand.id \in ToSet(pending) THEN {hand.ip} ELSE {})

\* What a service has acknowledged, its entry shows as soon as the task is done
\* with the entry, whatever was captured, evicted or put back meanwhile. A restart
\* may lose a mark that the persister had not written; one it brings back stays.
MarksKept ==
    \A k \in kept : \/ ~OnLog(k.id)
                    \/ hand # None /\ hand.id = k.id
                    \/ k.s = "dshield" /\ k.id \in ToSet(marks)
                    \/ k.s \in log[k.id].marks

\* There is one pulse, however often the board starts; a second one takes a
\* lost answer, a deleted pulse, another name, or a restart between the two
\* writes of the first (otx_ensure_pulse_, otx_save_cache_).
OnePulse == created <= 1 + excused

\* Once the hub has said how far it is, no attack gets an id the hub holds a
\* row for, until a clear gives ids up, or an attack is reported under an id
\* that one gave up (bumpNextIdAtLeast).
HubHeals == healed => \A id \in hub : nextId > id

\* The events of a report are the beginning of the recording, whole unless the
\* report says it is cut; within every limit, one event for each turn.
UploadFaithful ==
    \A n \in DOMAIN upload :
        Faithful(upload[n].cast, upload[n].budget, upload[n].events, upload[n].truncated)

\* Whatever the services, the resolver and the heap do, the task comes back to
\* the queue and empties it: no stage, retry or batch keeps it (intelTask_).
QueueEmpties == []<>(pc = "idle" /\ queue = <<>>)

\* DShield is never told of an address of the local network under the id of the
\* attack it came with (intel_ip_is_private); under an id that a clear freed while
\* the task had it, queued, in hand or in the batch, it may be, for
\* intel_dshield_drain_ looks it up again.
NoLanLeaves == leaked = {}

\* Every interval on the wrapping clock is kept: reports, batches, names.
IntervalsKept == ReportsSpaced /\ DshieldSpaced /\ []AnswerFresh

\* DShield is told of what it is owed, and of nothing else.
DshieldTold == BatchKeepsOwed /\ NoLanLeaves

\* The task's tables keep their sizes, and the log shows what was acknowledged,
\* but for what a restart lost.
BooksKept == TypeOK /\ MarksKept

===============================================================================
