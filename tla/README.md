# HoneyMire: specifications

TLA+ models of HoneyMire, the Telnet and SSH honeypot for ESP32 boards whose
source is in `src/` of the repository (line numbers below are of the files in
`src/`). The models cover what a unit test hardly reaches: several FreeRTOS
tasks and AsyncTCP callbacks that share objects, restarts between two flash
writes, full queues, and a 32-bit millisecond clock.

A module `M.tla` is the specification, `MCM.tla` with `MCM<Case>.cfg` its
instances for TLC, `MProofs.tla` its theorems. A definition whose comment starts
with *Slip* is the definition after it with one plausible bug; it is used
nowhere, and exists so that anyone can swap it in and see which property
notices.

    tlc -config MCAttackLogCrash.cfg MCAttackLog
    tlapm AttackLogProofs.tla

## 1. The system

| Part | State | Operations | Talks to |
|---|---|---|---|
| Telnet sessions (`telnet_honeypot.cpp`) | session objects, registry, `s_active`, job queue, zombies | accept, data, disconnect, worker jobs, reaper | gate, attack log, recorder, shell; AsyncTCP calls it back |
| Telnet outbound ring (same file) | `out_buf`, `out_dropped` | `tn_send`, `tn_pump_out_` | AsyncTCP |
| Telnet line editor (same file) | line, IAC state | bytes in, lines out | shell |
| SSH sessions (`ssh_honeypot.cpp`) | host key, one session | keygen, listener, auth, shell | gate, attack log, recorder |
| Attacker gate (`attacker_gate.cpp`) | ring of addresses and stamps, counters | `admit`, `touch`, gauges | both listeners |
| Attack log (`attack_log.cpp`) | cache, `next_id_`, `dirty_`, append-only file, NVS shadow, persist queue | `nextId`, `append`, `update`, `getById`, `clearAll`, `bumpNextIdAtLeast`, `begin`, persister task | sessions, intel, dashboard |
| Intel reporters (`intel.cpp`) | report queue, cooldown tables, DShield batch, hub | enqueue, report, drain | attack log, DNS, network |
| Session storage (`storage.cpp`) | files of recordings | quota, trim, clear | recorders, dashboard |
| Recorders (`recorder.h`, `asciinema.cpp`, `transcript.cpp`) | an open file, a budget | begin, event, finish | storage |
| Fake shell (`fake_shell.cpp`) | directory, session files, command log | execute a line | sessions |
| Attack classifier (`attack_classifier.cpp`) | none | summary to tags | sessions |
| GeoIP, DNS caches | fixed tables | lookup | intel, sessions |
| WiFi manager (`wifi_manager.cpp`) | mode, retries, backoff, health stamp, event flags | begin, loop, event handler, reconnect, force portal | main loop, display, restart |
| Main loop (`main.cpp`) | start flags, health counters | setup, loop | everything |
| Restart bookkeeping (`restart_reason.cpp`) | NVS counters, RTC breadcrumb | log, restart | main loop, WiFi, portal |
| Configuration, serial menu, dashboard settings | `g_config`, its NVS keys, menu state | load, save, reset, edit | WiFi, display, main loop |
| Display (`display.cpp`) | staged attack, status, timers | notify, loop | sessions, WiFi |
| Web dashboard (`web_dashboard.cpp`) | none of its own | render, clear, settings | attack log, storage |

The tasks are: the AsyncTCP task (Telnet callbacks, dashboard handlers), the
Telnet worker, the SSH listener, the intel task, the log persister, the WiFi
event task, and `loopTask` (reaper, WiFi, display, serial menu). AsyncTCP runs
on either core (`platformio.ini:35`).

What is hard, and what makes each part correct:

- *Attack log.* Ids are allocated when a client connects and used minutes
  later; the counter reaches flash only when the persister next runs. Restart,
  clear, the hub's bump and a full queue fall anywhere in between. Correct: an
  id names one attack; what is cached is on the file or something will still
  write it; flushed ids are never reused; cache and file stay bounded.
- *Telnet sessions.* A session ends by disconnect, by its own exit, by the
  reaper, or never as far as AsyncTCP says; the object is deleted by whichever
  task wins. Correct: it is logged once, its slot is given back once, nobody
  touches it after it is freed, everything it ran is counted.
- *Outbound ring.* Two tasks fill and drain it with the mutex dropped during
  the network call. Correct: the wire is the accepted bytes in order.
- *Attacker gate.* Check and record are separate critical sections, stamps are
  a wrapping clock, the ring is small. Correct: who is kept out, and how long.
- *Intel.* Queue of eight; entries read before a request and written after it;
  cooldowns committed before a report succeeds; a pulse whose id is saved in two
  writes; a hub that pushes the id counter. Correct: no address is silenced
  unsent, none is reported twice in its cooldown, what was acknowledged stays
  marked, one pulse.
- *SSH.* One slot, a client that may stop answering in every phase, a host key
  made by another task. Correct: the slot comes free, every client is logged
  once and handed on after it is logged, a shell takes a password.
- *Fake shell, classifier.* Chains, pipes, scripts and nested shells over one
  list of files. Correct: what runs is what a shell would run, limits hold, a
  payload leaves its trail and its label.
- *WiFi.* Flags set by one task and consumed by another, timeouts that
  compete (retry budget, portal, outage reboot). Correct: it leaves every state
  it should leave, and settles online.
- *Storage.* The quota counts bytes while sessions write and a clear deletes.
  Correct: nothing open is removed, the oldest goes first, the quota is met.
- *Settings, restarts, display.* Two tasks save one object key by key; counters
  are separate flash writes; a flag is cleared by one task while another sets
  it. Correct: flash and memory agree once everybody is done, a board is never
  switched dark, the tally adds up, the attack is drawn and the panel dims.

`PROJECT.json` lists the hazards at their lines, with the properties about each.
Some of them the code does not withstand: there the property names what goes wrong,
and shows that nothing else does (the list in section 3).

## 2. What is modelled

### AttackLog

`attack_log.cpp` whole, with the writers' side of the sessions, the intel task
and the dashboard's clear. Each region under `mtx_` is one action, each file or
NVS call the persister makes without it another:

| Code | Action |
|---|---|
| `nextId` | `NextId` |
| `append`, its `enqueuePersist_` | `AppendEntry`, `Enqueue` |
| `getById`, `update` of the intel task, `bumpNextIdAtLeast` | `IntelGet`, `UpdateEntry`, `BumpNextIdAtLeast` |
| `clearAll`, then `storage_clear_history` | `ClearAll`, `StorageClearHistory` |
| persister: receive, append, decide, rewrite, NVS | `Receive`, `WakeIdle`, `AppendOpen`, `AppendClose`, `Check`, `RewriteOpen/Close/Reset`, `FlushShadow` |
| power loss at any point, then `begin` | `Reboot` |

An entry is its number (order of connection), its id and its revision; JSON is
left out. A file or NVS call may go wrong (`Fault`, at most `MaxFaults`). An open
that fails is noticed; what the writes and the close after it return is not
looked at, in an append (234-237) or in a rewrite (252-259), whose counters are
reset whatever was written. So a fault in `AppendClose` may lose the line, leave a
piece of it (`scrap`, which makes the next line unreadable too), or commit what
the handle saw at its open (`view`) over a clear's truncation; a fault in
`RewriteClose` may leave any part of the snapshot on the file. The attacks whose
lines went that way are in `torn`. `putUInt`'s result is not looked at either.
`begin`'s loop over the file is stated by what it leaves (`Deduped`, `IdFloor`),
not by its iterations, and its own reads do not fail. `raced`, `dropped`,
`truncated` and `torn` are history variables for the properties.

### TelnetSession

The lifetime of a session across three tasks: `async` (AsyncTCP), `worker`
(`tn_worker_task`), `loop` (`telnet_reap`). A step is a stretch of code that
touches shared state once, so the gap between `tn_finalize`'s test of
`finalized` (`OnDisconnect`) and its store (`Mark`) is there, and so is the one
between `s_active_dec_` and the gauge's store (`Dec`, `LoadActive`,
`StoreGauge`). Every queue-full fallback is an alternative of its action
(`OnShellLine`, `SendFinal`, `ReapFinalize`, `ReapClose`). `Forensics`, `Free`,
`Park`, `Dec` are shared by the tasks that finalize.

AsyncTCP is external, and modelled from how the code guards against it: a
connection is up until somebody closes it, a disconnect callback may come at any
time after that, more than once (`MaxDiscs`) or never (`Vanish`). The registry
and the zombie list are sets; a connection refused at the cap leaves no state and
is left out.

A zombie's five minutes (`Age`) may pass whatever AsyncTCP and the worker still
hold of it. They may also pass at once: `zombie_sweep_` subtracts the stamp from
the time that `telnet_reap` read at its beginning (840), so a session parked while
the pass is on its way can have the later stamp; the unsigned difference wraps and
the sweep deletes the session in that same pass (`Park`). A session deleted while
a task, a job other than `K_CLOSE` or a callback still holds it is `hasty`. The
steps after that go on as if the object were there, and every property leaves such
a session out by name, as it does those in `contended` and, where it matters,
`inlined`.

### TelnetOutBuf

`tn_send` and `tn_pump_out_` from two tasks, bytes numbered in the order they
were offered. AsyncTCP is external and accepts any prefix.

### AttackerGate

`admit` and `touch` of two listeners, eviction, and `millis()` as time modulo
`Wrap`. Connections kept out change nothing; an empty address is always
admitted and never recorded (`attacker_gate.cpp:8,21`), so it has no part; the
per-protocol totals are plain counters and are left out.

### WifiManager

`wifi_loop` run by `loopTask`, the WiFi event handler, and the commands of the
serial menu and the dashboard's two forms. A pass is a read of the driver's
status (`LoopTop`), one branch (`SeeEvent`, `GoOnline`, `Retry`, `GiveUp`,
`BackOff`, `WaitSta`, `SeeStatus`, `StayOnline`, `StayAp`, `LeaveAp`), perhaps a
probe, and `OutageCheck`; a driver event (`GotIp`, `LinkDown`) falls between any
two of them. `start_ap_` and `wifi_try_sta` are the operators `StartAp` and
`TryStaAfter`; what three branches do when they give a link up is `Retire`.

Stamps are kept as the time since them, as the code does where it subtracts. The
retry's deadline it compares as a number (`wifi_manager.cpp:309`): around the wrap
of `millis()` a retry comes at once or a round later, and that is not modelled. A
good network lets the station in within an attempt (`Prompt`), keeps it
and answers the probe; a bad one does anything, a lost link without its event
included (`LinkDownMissed`). The uptime stamp and the logged disconnect reason
feed other parts and the log, and are left out.

### SshSession

The listener task (`pc`) and the host-key task (`keygen`), with one session
`ses` at a time. The listener waits for WiFi, the key and the switch
(`WaitWifi`, `WaitKey`, `WaitEnabled`), binds, and at each `accept` passes the
gates; a session goes through `Admit`, `Kex`, the authentication loop
(`AuthPassword`, `AuthPubkey`, `Denied`, `AuthSilent`, `AuthDone`), the channel
(`OpenChannel`, `StartShell`, `RunExec`, `ShellInput`) and the end that all
phases share: `CloseCast`, `AppendEntry`, `Enqueue`, `FreeSession`. A client
sends any message libssh would deliver, falls silent or hangs up, or is `endless`: it
never runs out of messages that change nothing. Thresholds and switches may change
under it. What the code does not try again is modelled as it is: the key task may
not be created, and its flag stays set (`unborn`, `ssh_honeypot.cpp:542`); the
bind may fail for any reason, or the listener's own task not be created, and there
is no listener until the next start (`dead`, 567-571). The intel task's queue has
`QueueLen` places, shared with the Telnet side (`waiting`, `IntelQueue`); an id that
meets a full queue is dropped (`intel.cpp:1205-1208`) and recorded in
`lost.dropped`. A power cut takes what was in RAM and may leave a torn key file.

### SessionStore

Recordings and their sidecars as files with a size; recorders that append while
`mtx`-free code reads the directory. A quota pass lists the directory, then
removes one recording (`drop`) and its sidecar (`side`) at a time; LittleFS
refuses to remove an open file. `Clear` is `storage_clear_history`. A listing
with its sizes is one step. A file's place in the order is the name's, whose
stamp before NTP sorts oldest (`storage.cpp:66`). `storage_trim_sessions` has no
caller and is left out.

### FakeShell, ShellDisk, AttackClassifier

A line is a sequence of segments with separators, chosen one at a time, which
comes to the same as parsing them first because a segment's text depends on no
earlier one. `frames` is the stack of scripts and nested shells. A segment is
run, skipped by `&&` or `||`, or dropped. Commands are cut down to what they do
to the files, the exit status, the events and the counters; a file is its path, its
origin and its mode. An event is in `told` once it is handed to `logEvent_`, which
drops it in silence without a path or a file that opens (1054, 1075): what the
session's event file holds is not modelled. The classifier finds a download or a
chmod by needles in the raw line (`attack_classifier.cpp:79-80`), which a second
blank, a tab or quotes defeat: a command leaves its mark in the history only if it
is spelled that way, and `ghost.exotic` says that one was not. Beside the code runs
a shell that gets the same lines and the same statuses from the commands: it has a
status of its own in each chain (`real`), skips a pipeline as one (`pipe`) and does
not run what it cannot redirect (`Fails`). Where it ran something else than the
code, its status may be any (`astray`). `ShellDisk` is the abstract specification, a map from names
to files, and `DiskIsAMap` the refinement: every step of the list of files that
the shell keeps is a step of the map, until a copy or rename lands on a taken
name. `AttackClassifier` is the decision list of `classify_attack` over what a
summary says, and `LoaderRecognised` evaluates it on every session the model
runs. `ghost`, `differs` and the shell's fields of a frame are history.

### IntelReporter, HubEvents, DnsCache

One loop of `intelTask_`: take an id, look the address up (`geo`), each enabled
service in the code's order, write back (`save`, `patch`, `update`), then the
DShield drain. A service's step is its gates, its name look-up (`DnsCache`), its
request with every outcome (sent, refused, answer lost) and its cooldown. The
attack log appears as the captured entries with their marks. A restart loses any
part of them that the persister had not written, entries and marks alike, and the
id counter falls back to some older shadow, though not below an id on file
(`Reboot`, `Reloaded`); that an evicted entry may come back with them is
`AttackLog`'s subject. `HubEvents` states
how a recording becomes the events of an upload, under all three limits. Time is
in half hours; a request takes less than one. The enabled services and whether
an attacker is local are fixed for a behaviour.

### Settings, DisplayPanel, Device

`Settings` has the two writers, `loop` (menu, planned restarts) and `async`
(dashboard, portal), each at a step of its own; `save()` reads and puts one key
at a time (`ReadKey`, `PutKey`), and `restart_with` counts, reads and writes
(`CountReason`, `ReadTotal`, `PutTotal`). Five settings stand for all: network,
host name (the one whose absence means a first start), dashboard, and one
reporter's switch and key. `DisplayPanel` has `loop()` in three steps, `Read`,
`Flash`, `Rest`, with the other tasks' calls between them; both drivers have the
same state machine. An attack staged between the first two is taken away by the
second's clear; `raced` says so of the one staged last. `Device` composes the two with the resets: `Restart` ends a
planned restart, `PowerCut` comes at any step. A failing `Preferences.begin`, and
requests the portal serves between its answer and its restart, are left out.

## 3. What is checked

TLC finishes each run without an error.

| Run | Shows |
|---|---|
| `MCAttackLogCrash` | restarts and a flash call that fails, or goes wrong unnoticed: ids stay unique, cached revisions stay covered but for the ways out named below, flushed ids stay consumed; the shadow catches up and a cached attack reaches the file |
| `MCAttackLogGrowth` | a clear in two halves or a flash call that goes wrong between any steps, or six attacks: compaction bounds the file, the cache grows within its cap |
| `MCTelnetSessionLifecycle` | two sessions, two slots, a queue of one: slots, single logging, no dangling owner but for the sessions named below |
| `MCTelnetSessionShell` | lines of one session: they run from the first, in order and without a gap, and all that ran is logged; a quiet session is logged and its slot given back |
| `MCTelnetOutBufStream` | the wire is what the ring took while drains do not overlap, and all of it reaches a peer that stays |
| `MCAttackerGateWindow` | who is kept out and for how long; sessions per burst |
| `MCWifiManagerPolicy` | no fresh link is dropped, the device is never for good without link and portal, leaves the portal, settles online |
| `MCSshSessionServe` | two clients, each perhaps endless, a full intel queue, a key, a task or a bind that may fail, a power cut: every client logged once and, but for the ids a full queue refused, handed on in order, recordings closed first, shells earned; the slot comes free of every client that stops talking, and the listener listens in the end unless a step that is not retried failed |
| `MCSessionStoreQuota` | two sessions with sidecars, a quota of two files or three units, clears, a download or a power cut: oldest first, nothing open, nothing needless, met again in the end |
| `MCFakeShellLines` | four segments of any commands on one line or three on two: chains run what a shell runs, limits hold, payloads are handed to the log and labelled, the files implement a map |
| `MCIntelReporterTask` | each service alone with up to three attacks or a disturbance and two, two services with a small name cache, five with one attack: spacing, marks, batch, pulse, ids, faithful uploads, and an empty queue in the end |
| `MCDeviceBoards` | a headless board whose settings two tasks save while it restarts or loses power, and two boards with a display under a wrapping clock: flash agrees with memory, no board is switched dark, the tally adds up, attacks are drawn unless staged within a pass, the panel dims |

Where one state space answers several related questions, the run checks one
property with named parts:

| Property | Parts |
|---|---|
| `FlashCatchesUp` | `ShadowCatchesUp`, `EventuallyOnFile` |
| `HandOver` | `QueuedInOrder`, `ClosedBeforeLogged` |
| `ListenerServes` | `KeyWhole`, `SlotComesFree`, `ListensInTheEnd` |
| `NeverStranded` | `PortalOrLink`, `LeavesPortal` |
| `FilesFit` | `TypeOK`, `OpenFilesStay`, `NoOrphans` |
| `QuotaFair` | `QuotaMet`, `OldestFirst`, `NothingNeedless` |
| `FilesHold` | `TypeOK`, `LimitsHold`, `ImageStays` |
| `PayloadTold` | `PayloadTrail`, `LoaderRecognised` |
| `BooksKept` | `TypeOK`, `MarksKept` |
| `DshieldTold` | `BatchKeepsOwed`, `NoLanLeaves` |
| `IntervalsKept` | `ReportsSpaced`, `DshieldSpaced`, `AnswerFresh` |
| `SettingsKept` | `SettingsOK`, `SavedIsLive`, `WebOffHasReporter` |
| `PanelServes` | `PanelOK`, `AttackDrawn`, `GoesDark` |

Several safety properties exempt one case by name, a race or a fallback in which
the code does not keep the property, and say that nothing *else* goes wrong:

- `CoveredUnlessRacedAndDropped` has three ways out. `raced \cap dropped`: an
  append in the window of a rewrite whose notification the full queue also refused
  stays in RAM until something else marks the log dirty (`attack_log.cpp:262-274`).
  `truncated`: its line came between the two halves of a clear. `torn`: its line
  was lost by a write or close that went wrong after a good open, in an append
  (234-237) or in a rewrite (252-265), which nobody notices. `EventuallyOnFile`
  exempts the same, and `ShadowCatchesUp` a `putUInt` that failed unnoticed.
- `contended`: the reaper claims a session between `tn_finalize`'s test and
  store of `finalized`; it is finalized twice (`telnet_honeypot.cpp:529-533`).
- `hasty`: the sweep deletes a zombie that AsyncTCP, a job or a task still holds
  (`telnet_honeypot.cpp:245`), after five minutes that were not long enough or, by
  the wrapped difference, in the pass that parks it. From then on the code reads
  freed memory, and nothing is claimed of that session; of the slots and of
  quietness nothing at all.
- `inlined`: a disconnect that finds the queue full runs forensics and deletes
  the session on the AsyncTCP task while its lines may be queued (543-549).
- `overlapped`: two drains of a ring send the same head and the second removal
  takes bytes that were never sent (299-306).
- `GrowsWithinCap` exempts a boot, which may load more entries than the cap.
- `ShadowCatchesUp`, a part of `FlashCatchesUp`, is checked without clears, after which the persister's own
  high-water mark keeps the shadow behind (`attack_log.cpp:205-207`, 364).
- The gate's properties speak of the time before `millis()` wraps; after it the
  newest address is the one evicted, and a stamp a whole round old keeps its
  address out again (`attacker_gate.cpp:13,31`).
- After the clock wraps, the newest entry is the one evicted from the tables of
  the intel task and the GeoIP cache; a wrap can block DShield, the OTX backoff
  or a negative name for a whole round (49.7 days), and lets DShield send early
  in the last half hour before it. `ReportsSpaced`, `DshieldSpaced` and
  `AnswerFresh` say so.
- `OnePulse` allows another pulse for a lost answer, a deletion, a new name, or
  a restart between the two writes. The default `otx_pulse_id` is a fixed id
  (`config.h:103`), with which nothing is created; the model takes it as empty.
- `KeyWhole` exempts a key file that a failed export or a power cut left torn:
  only its existence is looked at (`ssh_honeypot.cpp:79`). With it every later
  bind fails, one of the ways to `NoListener`.
- `ListensInTheEnd` exempts, for the boot in which it happens, a key that could not
  be made or whose task could not be created (`NoKey`, `ssh_honeypot.cpp:542`), and
  a listener whose task was not created or whose bind failed (`NoListener`,
  567-571). Nothing tries these again, so a bind that fails once leaves the device
  without SSH until it restarts.
- `SlotComesFree` exempts a client that never stops sending (`endless`): only
  silence is bounded (`ssh_honeypot.cpp:288`).
- `QueuedInOrder` exempts the ids that met a full queue, and those a power cut took.
- `RunsLikeBash` exempts four things the code does unlike a shell, and what comes
  after each until both have run a segment again: what a skipped segment is piped
  into runs (`fake_shell.cpp:1141-1151`); so does a command whose redirection
  cannot be opened (1166); a dropped segment is dropped with its separator, which
  leaves the rest of its chain unjudged; and a script on a session's last line is
  not run. The exemptions are as wide as the difference: `cat /none && x | true &&
  d` runs `d` here and not in a shell, and is not judged.
- `PayloadTrail` is about what was handed to `logEvent_`, not about what its file
  holds. `LoaderRecognised` exempts a session with a download or a `chmod` that the
  needles miss, and one whose history or summary has lost lines.
- `AttackDrawn` exempts the attack staged between `loop()`'s read and its clear of
  `pending_attack_`: it is lost (`display.cpp:159-162`).
- `MarksKept` says nothing of the marks a restart finds unwritten: `kept` drops
  them, and goes on with those that came back.
- `DiskIsAMap` stops at a copy or rename onto a taken name: both files stay and
  the older one is found (`fake_shell.cpp:2790`).
- `SavedIsLive` exempts a key that one task read, the other changed and saved,
  and the first then wrote (`config.cpp:119`): the newer value is in force and
  the older one comes back at the next start.
- `WebOffHasReporter` exempts a reporter removed after the switch, during the
  menu's test, or by a power cut that left half a save; `setup()` then starts the
  dashboard all the same (`main.cpp:143`).
- `TallyHolds` counts as `torn` what a power cut, or a restart of the other task,
  left uncounted between the two writes.
- `BurstBounded` is about how many sessions begin, not one: both listeners may
  admit an address before either records it.
- `SettlesOnline` exempts an outage check that reads `millis()` before and
  `s_last_healthy` after a `GOT_IP` on the other task: the unsigned difference
  is then near 2^32 and the device reboots (`wifi_manager.cpp:427`).

**Where the code and its comments part.** Found while modelling; the properties
above exempt or state them.

- An id handed out since the persister's last pass is handed out again after a
  restart, though ids are "permanently consumed" (`attack_log.cpp:24-25`, 189).
- The intel task's `update()` puts an attack back that a clear has just removed
  (`web_dashboard.cpp:620-622`, `attack_log.cpp:295`).
- The reaper can come between the test and the store of `finalized`
  (`telnet_honeypot.cpp:836-838`, 529).
- A zombie's grace is "long enough that AsyncTCP has definitely cleaned up its side"
  (`telnet_honeypot.cpp:209-210`, 926-929), but a session whose
  `finalized_at_ms` is later than the `now` of the pass (840) is deleted in it with
  no grace: `now - finalized_at_ms` wraps (245).
- `showAttack` is "Safe to call from any task" (`display.h:16`); an attack staged
  between `loop()`'s read and its clear is never drawn (`display.cpp:159-162`).
- A rewrite that could not write is taken for one that did: `dirty_` and
  `appends_since_compact_` are reset all the same (`attack_log.cpp:260-264`), though
  the log is said to be flushed "once heap recovers" (217).
- Loader sessions are recognised by `chmod 777` and `wget ` as typed; the shell runs
  them with any white space (`attack_classifier.cpp:79-80`, `fake_shell.cpp:739-769`).
- A connected device whose gateway does not answer the probe reboots after the
  outage limit, with `wifi_probe_kick` off (`wifi_manager.cpp:421-422`, 427,
  `config.h:70-71`): only an answered probe refreshes the stamp (366-368).
- An id that waits in DShield's batch may, after a clear, name another attack,
  a local one included (`intel.cpp:1116`). One batch may name an address twice:
  the cooldown is 15 minutes, the interval 30 (1048-1050).
- `bumpNextIdAtLeast`'s comment has the persister wake about five seconds later;
  it polls every thirty.
- `busybox sh -c 'foo'` says "sh: applet not found" (`fake_shell.cpp:1225-1227`
  says otherwise); `fake_shell.h:78-81` speaks of the tail of the history where
  the summary keeps its beginning.
- The portal's web server is decided on once, in `setup()`: a device that falls
  back to the portal later, with the dashboard off, has no page there
  (`main.cpp:133-137`).
- `showStatus` draws on the AsyncTCP task when the form reconnects the WiFi
  (`display.h:17-20`), and each attack re-arms the "hard ceiling".

**Bounds.** Code values are small already or reduced so that their limit is
reached: the cache of 100 entries to 1, the queues of 8 to 1-2, slots to 1-2, the
16 KB ring to 3 bytes with chunks of 2, the gate's 16 slots to 2 for 3 addresses
(one more than fits), the clock to a few ticks more than the cooldown. `MaxAtt`,
`MaxRev`, `MaxId`, `MaxBoots`, `MaxClears`, `MaxFaults`, `MaxLines`, `MaxDiscs`,
`MaxOffered`, `MaxTime`, `MaxOps`, `MaxSegments`, `MaxNow`, `left`, `edits`,
`cuts`, `stages`, `presses` bound a behaviour's length only. Every
property is about at most two attacks, sessions, drains or addresses and one
full queue, and each bound lets one more than that happen. The WiFi timers keep
the order of the code's values: two attempts with their backoff (7 ticks) end
before the outage limit (11), as six attempts with theirs (168 s) end before 180
s; the passes that notice a timeout late take the rest. With a limit of the
budget or less `PortalOrLink` fails. The intel task's instances are a list of
setups, each with room for the case it is about; a wrap, a cooldown and an
eviction fall within its clock. The display's clock wraps once, after every
deadline has been reached. Runs whose behaviours end at a bound, or with the
session, turn deadlock checking off, and only those. Sessions and addresses are
interchangeable, and safety runs with several use that as symmetry.

**Fairness.** `AttackLog!FairSpec`: the persister's loop and the 50 ms wait in
`xQueueSend` go on, because FreeRTOS schedules every ready task; connections,
replies, clears and restarts are the environment's. `TelnetSession!FairSpec`:
the same for steps the three tasks have begun and the worker's queue; no
callback is assumed, which is the point of `QuietIsFinalized`.
`TelnetOutBuf!RingFairSpec`: AsyncTCP's poll callback (684-713) keeps trying, a
begun drain ends, and a peer that stays acknowledges (strong fairness of a
non-empty `add`). `WifiManager!FairSpec`: `loopTask` runs, time passes (strong,
because an attempt on a good network holds it for a moment), the driver ends a
disconnect it was asked for, a network that is good again and again lets the
station in, and the dashboard's reply ends. The network itself is free.
`SshSession!FairSpec`: the key task and the listener run, a wait for a silent
client included, which libssh ends; clients owe nothing, not even to stop sending. `SessionStore!FairSpec`:
`setup()`, the persister and a begun clear go on (strong for `setup()`'s pass,
which waits for the mutex), sessions and downloads end. `IntelReporter!FairSpec`:
`intelTask_` runs; its requests end because they have timeouts.

## 4. What is proved

For every value of the constants, with the assumptions named in the modules.

| Theorem | Statement |
|---|---|
| `AttackLogProofs!TypeCorrect` | `Spec => []TypeOK` |
| `AttackLogProofs!IdsUnique` | `Spec => []UniqueIds` |
| `AttackLogProofs!FlushedStaysConsumed` | `Spec => FlushedIdsConsumed` |
| `AttackLogProofs!GrowthIsCapped` | `Spec => GrowsWithinCap` |
| `AttackLogProofs!FileStaysShort` | `Spec => []FileBounded` |
| `AttackLogProofs!CacheIsCovered` | `Spec => []CoveredUnlessRacedAndDropped` |
| `SshProofs!SshTypeCorrect` | `Spec => []TypeOK` |
| `SshProofs!ShellsAreEarned` | `Spec => []ShellEarned` |
| `SshProofs!ClientsAreLogged` | `Spec => []EveryClientLogged` |
| `SshProofs!EntriesAreHandedOver` | `Spec => []HandOver` |
| `SshProofs!AnnouncedKeysAreWhole` | `Spec => []KeyWhole` |
| `SshProofs!GateTypeCorrect` | `GateSpec => []GateTypeOK`, wrap or no wrap |
| `SshProofs!GateShutsOnlyInWindow` | `GateSpec => []ShutOnlyInWindow`, if `MaxTime < Wrap` |
| `SshProofs!GateHoldsThroughWindow` | `GateSpec => []HoldsThroughWindow`, if `MaxTime < Wrap` |
| `SshProofs!BurstsAreBounded` | `GateSpec => []BurstBounded`, if `MaxTime < Wrap` |
| `TelnetProofs!SessionTypeCorrect` | `Spec => []TypeOK` |
| `TelnetProofs!SessionsLoggedOnce` | `Spec => []LoggedOnce` |
| `TelnetProofs!SlotsAreAccounted` | `Spec => []SlotsAccounted` |
| `TelnetProofs!CommandsAreComplete` | `Spec => []CommandsComplete` |
| `TelnetProofs!NothingDangles` | `Spec => []NoDangling` |
| `TelnetProofs!RingBounded` | `RingSpec => []RingOK` |
| `TelnetProofs!StreamStaysIntact` | `RingSpec => [](StreamIntact /\ HeadInHand)` |
| `WifiManagerProofs!WifiTypeCorrect` | `Spec => []TypeOK` |
| `WifiManagerProofs!LinksDropOnlyWhenLost` | `Spec => DropsOnlyLostLinks` |
| `DeviceProofs!SettingsSurvive` | `Spec => []SettingsKept` |
| `DeviceProofs!DisplayServes` | `Spec => []PanelServes` |
| `DeviceProofs!TallyIsKept` | `Spec => []TallyHolds` |
| `SessionStoreProofs!RecordingsFit` | `Spec => []FilesFit` |
| `SessionStoreProofs!QuotaIsFair` | `Spec => QuotaFair` |
| `IntelReporterProofs!ReporterTypeCorrect` | `Spec => []TypeOK` |
| `IntelReporterProofs!BooksAreKept` | `Spec => []BooksKept` |
| `IntelReporterProofs!DshieldIsTold` | `Spec => []DshieldTold` |
| `IntelReporterProofs!PulsesAreAccounted` | `Spec => []OnePulse` |
| `IntelReporterProofs!HubHealsIds` | `Spec => []HubHeals` |
| `IntelReporterProofs!IntervalsAreKept` | `Spec => IntervalsKept` |
| `IntelReporterProofs!UploadsAreFaithful` | `Spec => []UploadFaithful` |
| `FakeShellProofs!FilesStayInBounds` | `Spec => []FilesHold` |
| `FakeShellProofs!ChainsRunLikeBash` | `Spec => []RunsLikeBash` |
| `FakeShellProofs!PayloadsAreTold` | `Spec => []PayloadTold` |
| `FakeShellProofs!FilesAreAMap` | `Spec => DiskIsAMap`, the refinement of `ShellDisk` |

*AttackLog.* `UniqueIds` speaks of every place an id still lives (cache, file,
rewrite snapshot, both hands, open sessions); stated over all of them it is
inductive with `TypeOK`. The step that needs care is `Reboot`: every loaded
entry is a line of the file, and `IdFloor` is above every line. For the shadow,
`CountersOrdered` adds that NVS never exceeds the counter, nor the persister's
local copies of it. `FileBounded` needs a balance, `LinesAccounted`: the lines on
the file and those on their way to it (`InFlight`: in the queue, in the
persister's hand, held by a task that waits in `xQueueSend`) are at most `Slack`
more than the count `sinceCompact` that triggers a rewrite, and `Slack` is the
cap, the queue and one line per task. `CoverInv` follows a cached revision
through a rewrite: the entry under an id is the *first* one in the cache
(`Found`), and it is what a restart would load from the file, or a compaction is
due, or the change was made during a rewrite and is still being notified, or was
dropped, or its line was lost to a clear or a write nobody looked at
(`FoundCovered`, `Lost`); an append's handle saw the file as it is, unless a clear
emptied it since (`ViewFresh`); a rewrite starts only when it is due, and what it
writes is what was found, but for changes since its snapshot (`SnapFresh`). With
fewer lines than the snapshot the missing ones are in `torn`, and what is left
still has for each id only its revision of the snapshot.

*TelnetOutBuf* (in `TelnetProofs`, beside the sessions that own the ring).
`StreamIntact` alone is not inductive: the bytes removed must be the bytes sent. `StreamInv` adds `OneDrain` (without an overlap at most one task
is in a drain) and `HeadInHand` (it holds the ring's head).

*AttackerGate* (in `SshProofs`, beside the listener that asks it). Before the first wrap a stamp is a time. `RingInv` adds
`InThePast` (no stamp in the future), `SlotsTell` (a slot's stamp is its
address's last touch) and `RingOrdered` (an address seen and not in the ring is
older than every slot, so as many others as there are slots were seen since;
this is where the cardinality argument is). `BurstInv` counts the listeners that
are still holding an admission from before the first touch. The hypothesis
`MaxTime < Wrap` is the first 49.7 days of uptime; without it the eviction of the
numerically smallest stamp, and with it the theorems, fail.

*SshSession.* A shell needs `EarnedInv`: accepted means that a password was
tried. `EveryClientLogged` and `HandOver` follow from `BookInv`, in two parts:
`PhaseOK` (the session being served has the last id, and is in the log and in
the intel queue only in the phases that put it there) and `BooksOK` (both books
increase, the ids given out are the logged, the lost and the served one, and an id
logged and not queued is served, lost, or met a full queue). `KeyInv`: a torn key file is being written, or is in `lost.torn`.

*TelnetSession.* The invariants speak of sessions outside `contended` and `hasty`,
and from `SeatInv` on outside `inlined` too (`Regular`), one layer on the other. `OwnedInv`: at most one task or job owns the claim of a session.
`PlaceInv`: where in the code a task that holds one may stand. `SlotInv`:
`active` is the cardinality of `Holders`, and a live session that nobody has
claimed is registered; a session about to be registered holds a slot outside the
registry, so that by cardinality there is room. `SeatInv` adds which
job, list or task a session not finalized inline has at each point of its end.
`OrderInv`: the lines that ran are the first ones typed, without a gap, before
what is being executed, which comes before what is queued, and once logged nothing
runs. `TidyInv`: memory is freed only when the
connection has ended and the last line has left the queue, or by a sweep that
found the session forgotten; the other sweeps are what `hasty` is.

*WifiManager.* `Fresh`: a link that is up has no disconnect flag, and a
connection that nobody lost has its link and, while a pass looks at it, a status
read when it was up. The types need `OneBehind`: the clock is at most one tick
ahead of the outage check.

*Device.* `KeepInv`: a key not in `stale` is the same in flash and in force, or a
writer is on its way to saving it (`Coming`). A reset in its two steps needs
`ResetInv`: if the other writer has put the dashboard's switch back, it puts back
the reporter too, or has; with both, what a restart in between loads is dark only
if what is in force is (`LoadedDark`). `TotalsOK` is what keeps the counters
natural numbers with two tasks counting.

*DisplayPanel.* `StagedOK`: an attack that is owed to the panel is where `loop()`
will find it, or in its hand, and no older than the last pass, unless it was staged
between a pass's read and its clear. `LitOK`: the
deadline of a lit panel is no further off than the longest time it was asked for,
and `loop()` has not passed it in the same round of the clock; the logo's time is
not zero (`main.cpp:113` asks for 2000 ms).

*The tally.* `TallyHolds` compares a total with a sum over the reasons, a fold
over a finite set. The proof states the sum as a function on subsets, shows by
the size of the set that it exists, and then follows a single count. `TallyInv`
is the balance: the sum is the total, what a power cut tore off, and the writers
whose total is still to be written.

*SessionStore.* `FitInv` is inductive for what fits together: only sessions with
a key have files (`HaveKeys`), open files are there, and a recorder's buffer is
within what it was given. For a pass, `PassInv`: the list is in order, without
doubles, and `total` is its sum (`ListOK`); what was skipped is listed or new
(`LeftListed`); a victim is dealt with before its sidecar's turn (`VictimDealt`);
a file not touched since the listing has the size listed (`SizesKept`), and only a
clear takes what is listed (`StillThere`). The attempt to prove `NothingNeedless`
as it first stood failed, and the failing step was real: a sidecar whose
recording is open is removed in the recording's turn, the session logs and makes
it anew, and in the sidecar's own turn it goes a second time, because `total`
still counts what it held at the listing (`storage.cpp:114-127`). `Regardless`
now names that case. The run's two records a behaviour never reach it, four with
one session do; the theorem covers every bound.

*IntelReporter.* `HandKnows`: the entry in hand knows every acknowledgement, which
is what a write-back of the whole entry needs in order to lose no mark; what a
restart loses it takes out of `kept` (`ReloadedIs`: what it finds is a part of the
log, so sizes hold). `OwedInv`:
an address DShield is owed is in the batch, by the log or by the entry in hand,
and nothing is owed while the batch is marked.
`LeakInv` is about ids no clear has freed (those not in `stale`): they are below
the counter, so nobody else gets them, the entry in hand has the address the log
has under its id, and the batch has no local one. `update()` puts an entry back without raising the counter
(`attack_log.cpp:295`), so after a clear an id in hand may exceed it; `stale` and
`healed` are what the properties exempt for it. `PulseInv` follows the pulse's id
through its two writes: a pulse created and not saved is excused. For the
intervals, `SpacedInv` says that the cooldown table has the last report of
every address whose report is on the books, and `WindowInv` that DShield's stamp
is its last post since the boot; the rest is arithmetic modulo `Wrap`.
`Sendable`, what of a batch is still on the log, is a recursive function, shown to
exist by the least-number principle.

*HubEvents.* `Kept` is the invariant of the loop over a recording, read one line
at a time (`ReadKeeps`): the lines there were so far are what is sent followed by
what is pending, or the report is cut, for want of an event (`MaxEvents` are full,
so nothing comes after the gap) or of budget (the loop has stopped). An event that
ends within a turn had no room for the line that follows it, and for the last one
that line is at the head of what is pending (`PendingFits`). `total` counts at least
what is sent and pending; a dropped event's bytes stay in it. The last flush turns
`Kept` into `Faithful` (`FlushGives`, `GivenIsFaithful`). `Build`, `Sent`, `Bytes`
and `ToTell` are recursive functions over a sequence; `Recursion` shows that each
exists, `Alike` that it gives one answer, `UpTo` carries `Kept` along them.

*FakeShell.* What a command does is told once, in `Made`: every file after it comes
from one before it or from nothing, and a new address, a new mode, a new name each
left their trace (in the log, in the line's marks, in `named`); `Paid` adds that
what ran was one of the files that may be executed. `FilesHold` needs `ImageInv`
of *every* file that has a directory's name, not of the first: a rename takes the
first away and the next one counts. `RunsLikeBash` needs `Honest`: in every chain
the shell follows, its status and the code's are one, unless it is astray, which is
where a skipped segment must not touch the status. For `PayloadTold`, `TrailInv` says of each file what the
property says of each payload, and `RecordInv` the same of the history as long as
no more lines came than it keeps and every command was spelled as the needles are. `DiskIsAMap` needs that no two files have one
name (`DiskInv`), which is what a copy onto a taken name ends; each command is then
matched with an operation of `ShellDisk` (`Moves`). What `Resolve` and `Without`
make of a path and of the files is by recursion over a sequence: `Recursion` shows
that such a function exists, `UpTo` carries an invariant along it.

**Model-checked only.** Liveness, which the prover does not support under
fairness: every safety property and every refinement a run checks has a theorem.
The type invariants of AttackLog, AttackerGate, TelnetOutBuf, SshSession,
TelnetSession and WifiManager are proved and no longer checked by a run. No
module uses a RECURSIVE operator.

**Assumptions.** Those on constants are bounds that are natural numbers, and not
zero where the code divides by, waits for or indexes with them; that the sets of
tasks, sessions and restart reasons are finite; and that names for "none" are not
in the sets they stand outside of; for the shell, that the
names paths are made of (`Parts`) include those of the image's directories and not
`..`, that arguments and redirections are made of them, and that the names of scripts are among them; for the uploads, that a
recording is a sequence of lines and a budget not zero. TLC evaluates them in every run.

## 5. Not modelled, and the plan

Left out for good: text (HTML, JSON, banners, bitmaps, shell output), the
cryptography of the SSH library, telnet personas, build files. The telnet line
editor turns bytes into lines within one callback and shares nothing;
TelnetSession starts at its lines. Crontab and the environment of the fake shell
are per-session text. The dashboard's login and rendering change no state.

Next:

1. `Honeypot`: `TelnetSession` and `SshSession` composed with `AttackLog` and
   the gate.
2. `IdSpace`, an abstract id allocator, implemented by `AttackLog` while it is
   not cleared, with the step simulation proved.
