------------------------------ MODULE AttackLog ------------------------------
(***************************************************************************)
(* The attack log (src/src/attack_log.cpp): an in-RAM cache of the most    *)
(* recent attacks, an append-only file of their revisions, an NVS shadow   *)
(* of the id counter and the one low-priority task that does all the I/O.  *)
(*                                                                         *)
(* Session tasks allocate an id when a client connects and append the      *)
(* finished attack later; the intel task reads an entry, spends seconds on *)
(* the network and writes it back; the dashboard may clear everything; the *)
(* device may restart between any two steps.  Every region the code runs   *)
(* under the log's mutex is one action, and so is every file or NVS call   *)
(* the persister makes without it.                                         *)
(*                                                                         *)
(* An attack is its number `att` in order of connection (a name the code   *)
(* does not have), the id the log gave it, and the revision of its record: *)
(* 1 as appended, one more after each update.                              *)
(***************************************************************************)
EXTENDS Integers, Sequences, FiniteSets

CONSTANTS
    Finishers,      \* tasks that finalize sessions (Telnet worker, SSH task)
    Intel,          \* the intel task
    MaxSessions,    \* sessions alive at once (TN_MAX Telnet ones and one SSH)
    Cap,            \* max_attack_entries, with the code's default for 0
    QueueLen,       \* kPersistQueueLen
    AppendCompactN, \* compaction threshold while dirty_
    UpdateCompactN, \* compaction threshold otherwise
    MaxAtt,         \* bound: attacks in a behaviour
    MaxRev,         \* bound: revisions of one attack
    MaxId,          \* bound: highest value of next_id_
    MaxBoots,       \* bound: restarts
    MaxClears,      \* bound: dashboard clears
    MaxFaults       \* bound: file or NVS calls that go wrong

ASSUME LogAssumption ==
    /\ Intel \notin Finishers /\ IsFiniteSet(Finishers)
    /\ MaxSessions \in Nat \ {0}
    /\ Cap \in Nat \ {0}
    /\ QueueLen \in Nat \ {0}
    /\ AppendCompactN \in Nat \ {0}
    /\ UpdateCompactN \in Nat /\ UpdateCompactN >= AppendCompactN
    /\ {MaxAtt, MaxRev, MaxId, MaxBoots, MaxClears, MaxFaults} \subseteq Nat

Tasks == Finishers \cup {Intel}

Entry == [att : Nat, id : Nat, rev : Nat]

VARIABLES
    (* shared, under mtx_ *)
    entries,        \* newest first
    nextId,         \* next_id_
    dirty,          \* dirty_
    sinceCompact,   \* appends_since_compact_
    (* queue and flash *)
    queue,          \* persist_q_: ids
    file,           \* lines of /attacks/log.jsonl, oldest first
    scrap,          \* a line cut short on file: "none", "inside" or at the "end"
    shadow,         \* NVS alog/nid, 0 when absent
    (* the persister task's locals *)
    pc,
    hand,           \* entry snapshot to append: {} or {e}
    view,           \* the file as the handle of an append found it
    snap,           \* entries snapshot to rewrite
    curNext,        \* cur_next_id
    lastPersisted,  \* last_persisted_next_id
    (* the other tasks' locals *)
    held,           \* sessions with an id that have not finalized
    pend,           \* task -> id it is about to enqueue, 0 for none
    todo,           \* ids the intel task still has to look at
    intelHand,      \* the copy the intel task works on: {} or {e}
    clearing,       \* the dashboard's clear has its second half to do
    (* history and bounds *)
    atts,           \* attacks so far
    raced,          \* attacks changed between a rewrite's snapshot and its reset
    dropped,        \* attacks whose notification was dropped
    truncated,      \* attacks whose line the clear's second half removed
    torn,           \* attacks whose line a write lost unnoticed
    boots, clears, faults

shared    == <<entries, nextId, dirty, sinceCompact>>
flash     == <<file, scrap, shadow>>
persister == <<pc, hand, view, snap, curNext, lastPersisted>>
producers == <<held, pend, todo, intelHand, clearing>>
history   == <<atts, raced, dropped, truncated, torn>>
bounds    == <<boots, clears, faults>>

vars == <<shared, queue, flash, persister, producers, history, bounds>>

Elems(s) == {s[i] : i \in DOMAIN s}

Lookup(id) == {i \in DOMAIN entries : entries[i].id = id}

(* The first match of the linear scans in getById, update and the          *)
(* persister.                                                              *)
FirstMatch(id) == CHOOSE i \in Lookup(id) : \A j \in Lookup(id) : i <= j

(* Slip: the cap is off by one.                                           *)
EnforceCap_OffByOne(s) == SubSeq(s, 1, IF Len(s) > Cap + 1 THEN Cap + 1 ELSE Len(s))

(* enforceCap_: truncate the oldest tail.                                  *)
EnforceCap(s) == SubSeq(s, 1, IF Len(s) > Cap THEN Cap ELSE Len(s))

(* A rewrite is in flight from its snapshot to the reset of the counters.  *)
Rewriting == pc \in {"open", "write", "reset"}

Race(a) == IF Rewriting THEN raced \cup {a} ELSE raced

Fault == faults < MaxFaults /\ faults' = faults + 1

(* An open for writing leaves an empty file.                               *)
Emptied == file' = <<>> /\ scrap' = "none"

(***************************************************************************)
(* begin(): what is loaded from a file f.                                  *)
(***************************************************************************)

FirstLine(f, id) ==
    CHOOSE i \in DOMAIN f : f[i].id = id /\ \A j \in 1 .. i - 1 : f[j].id # id

LastLine(f, id) ==
    CHOOSE i \in DOMAIN f : f[i].id = id /\ \A j \in i + 1 .. Len(f) : f[j].id # id

FileIds(f) == {f[i].id : i \in DOMAIN f}

(* s holds the latest revision of every id in f once, the id that appeared *)
(* first last.                                                             *)
Deduped(f, s) ==
    /\ \A i \in DOMAIN s : s[i] = f[LastLine(f, s[i].id)]
    /\ \A i, j \in DOMAIN s :
         i < j => FirstLine(f, s[i].id) > FirstLine(f, s[j].id)

(* Slip: the shadow is not consulted.                                      *)
IdFloor_NoShadow == {1} \cup {file[i].id + 1 : i \in DOMAIN file}

(* Slip: the counter restarts at the last id instead of after it.          *)
IdFloor_LastId == {1, shadow} \cup {file[i].id : i \in DOMAIN file}

(* The counter values begin() takes the maximum of.                        *)
IdFloor == {1, shadow} \cup {file[i].id + 1 : i \in DOMAIN file}

-----------------------------------------------------------------------------
Init ==
    /\ entries = <<>> /\ nextId = 1 /\ dirty = FALSE /\ sinceCompact = 0
    /\ queue = <<>> /\ file = <<>> /\ scrap = "none" /\ shadow = 0
    /\ pc = "wait" /\ hand = {} /\ view = <<>> /\ snap = <<>>
    /\ curNext = 0 /\ lastPersisted = 0
    /\ held = {} /\ pend = [t \in Tasks |-> 0] /\ todo = {} /\ intelHand = {}
    /\ clearing = FALSE
    /\ atts = 0 /\ raced = {} /\ dropped = {}
    /\ truncated = {} /\ torn = {}
    /\ boots = 0 /\ clears = 0 /\ faults = 0

(***************************************************************************)
(* Session tasks.                                                          *)
(***************************************************************************)

(* nextId() when a client connects; the shadow is left to the persister.   *)
NextId ==
    /\ Cardinality(held) < MaxSessions
    /\ atts < MaxAtt /\ nextId < MaxId                      \* bounds
    /\ nextId' = nextId + 1
    /\ atts' = atts + 1
    /\ held' = held \cup {[att |-> atts + 1, id |-> nextId]}
    /\ UNCHANGED <<entries, dirty, sinceCompact, queue, flash, persister,
                   pend, todo, intelHand, clearing, raced, dropped,
                   truncated, torn, bounds>>

(* append(): the locked half.                                              *)
AppendEntry(t, h) ==
    /\ pend[t] = 0
    /\ held' = held \ {h}
    /\ entries' = EnforceCap(<<[att |-> h.att, id |-> h.id, rev |-> 1]>> \o entries)
    /\ sinceCompact' = sinceCompact + 1
    /\ pend' = [pend EXCEPT ![t] = h.id]
    /\ todo' = todo \cup {h.id}
    /\ raced' = Race(h.att)
    /\ UNCHANGED <<nextId, dirty, queue, flash, persister, intelHand,
                   clearing, atts, dropped, truncated, torn, bounds>>

(* enqueuePersist_(): a full queue drops the notification after 50 ms.     *)
Enqueue(t) ==
    /\ pend[t] # 0
    /\ pend' = [pend EXCEPT ![t] = 0]
    /\ \/ /\ Len(queue) < QueueLen
          /\ queue' = Append(queue, pend[t])
          /\ UNCHANGED dropped
       \/ /\ Len(queue) >= QueueLen
          /\ dropped' = dropped \cup {entries[i].att : i \in Lookup(pend[t])}
          /\ UNCHANGED queue
    /\ UNCHANGED <<shared, flash, persister, held, todo, intelHand,
                   clearing, atts, raced, truncated, torn, bounds>>

(***************************************************************************)
(* The intel task: getById, seconds of network, update.                    *)
(***************************************************************************)

IntelGet(id) ==
    /\ pend[Intel] = 0 /\ intelHand = {}
    /\ \A i \in Lookup(id) : entries[i].rev < MaxRev    \* bound
    /\ intelHand' = IF Lookup(id) = {} THEN {} ELSE {entries[FirstMatch(id)]}
    /\ todo' = todo \ {id}
    /\ UNCHANGED <<shared, queue, flash, persister, held, pend, clearing,
                   history, bounds>>

(* The hub's reply may raise the counter while the entry is being reported. *)
BumpNextIdAtLeast(n) ==
    /\ intelHand # {}
    /\ n > nextId
    /\ nextId' = n
    /\ UNCHANGED <<entries, dirty, sinceCompact, queue, flash, persister,
                   producers, history, bounds>>

(* update(): the locked half.  An id queued for DShield is looked at again. *)
UpdateEntry(e, again) ==
    /\ again => e.rev + 1 < MaxRev                        \* bound
    /\ LET new == [e EXCEPT !.rev = @ + 1]
       IN /\ entries' = IF Lookup(e.id) # {}
                        THEN [entries EXCEPT ![FirstMatch(e.id)] = new]
                        ELSE EnforceCap(<<new>> \o entries)
          /\ raced' = Race(e.att)
    /\ dirty' = TRUE
    /\ sinceCompact' = sinceCompact + 1
    /\ pend' = [pend EXCEPT ![Intel] = e.id]
    /\ intelHand' = {}
    /\ todo' = IF again THEN todo \cup {e.id} ELSE todo
    /\ UNCHANGED <<nextId, queue, flash, persister, held, clearing,
                   atts, dropped, truncated, torn, bounds>>

(***************************************************************************)
(* The dashboard's clear: clearAll(), one region under the mutex with its  *)
(* flash calls, then storage_clear_history(), which deletes the recordings *)
(* and truncates the file once more without the mutex.                     *)
(***************************************************************************)

ClearAll ==
    /\ ~clearing /\ clears < MaxClears
    /\ clearing' = TRUE
    /\ clears' = clears + 1
    /\ entries' = <<>> /\ nextId' = 1 /\ dirty' = FALSE /\ sinceCompact' = 0
    /\ \/ Emptied /\ shadow' = 1 /\ UNCHANGED faults
       \/ Fault /\ Emptied /\ UNCHANGED shadow
       \/ Fault /\ shadow' = 1 /\ UNCHANGED <<file, scrap>>
    /\ UNCHANGED <<queue, persister, held, pend, todo, intelHand, atts, raced,
                   dropped, truncated, torn, boots>>

StorageClearHistory ==
    /\ clearing
    /\ clearing' = FALSE
    /\ \/ /\ Emptied
          /\ truncated' = truncated \cup {e.att : e \in Elems(file)}
          /\ UNCHANGED faults
       \/ Fault /\ UNCHANGED <<file, scrap, truncated>>
    /\ UNCHANGED <<shared, queue, shadow, persister, held, pend, todo,
                   intelHand, atts, raced, dropped, torn, boots, clears>>

(***************************************************************************)
(* The persister task, one action per locked region or flash call.         *)
(***************************************************************************)

(* Slip: the received id is forgotten before its entry is appended.        *)
Receive_NoAppend ==
    /\ pc = "wait"
    /\ queue # <<>>
    /\ queue' = Tail(queue)
    /\ pc' = "check"
    /\ UNCHANGED <<shared, flash, hand, view, snap, curNext, lastPersisted,
                   producers, history, bounds>>

(* Wake on a queued id and snapshot its entry, or on the 30 s timeout.     *)
Receive ==
    /\ pc = "wait"
    /\ queue # <<>>
    /\ queue' = Tail(queue)
    /\ LET id == Head(queue)
       IN IF Lookup(id) = {}
          THEN pc' = "check" /\ UNCHANGED hand
          ELSE pc' = "append" /\ hand' = {entries[FirstMatch(id)]}
    /\ UNCHANGED <<shared, flash, view, snap, curNext, lastPersisted, producers,
                   history, bounds>>

WakeIdle ==
    /\ pc = "wait"
    /\ queue = <<>>
    /\ pc' = "check"
    /\ UNCHANGED <<shared, queue, flash, hand, view, snap, curNext,
                   lastPersisted, producers, history, bounds>>

(* Slip: a failed append does not mark the log dirty.                      *)
AppendOpen_NotDirty ==
    /\ pc = "append"
    /\ \/ pc' = "appending" /\ view' = file /\ UNCHANGED <<hand, faults>>
       \/ Fault /\ pc' = "check" /\ hand' = {} /\ UNCHANGED view
    /\ UNCHANGED <<shared, queue, flash, snap, curNext, lastPersisted, producers,
                   history, boots, clears>>

(* persistAppend_(): low heap or a failed open only marks the log dirty.   *)
AppendOpen ==
    /\ pc = "append"
    /\ \/ pc' = "appending" /\ view' = file /\ UNCHANGED <<dirty, hand, faults>>
       \/ Fault /\ dirty' = TRUE /\ pc' = "check" /\ hand' = {} /\ UNCHANGED view
    /\ UNCHANGED <<entries, nextId, sinceCompact, queue, flash, snap, curNext,
                   lastPersisted, producers, history, boots, clears>>

(* The line is lost and nobody is told: the results of the writes and of   *)
(* the close are not looked at.                                            *)
LoseLine(e) == torn' = torn \cup {e.att}

(* The line goes out and the close commits it.  Behind a line cut short it *)
(* is unreadable like that one.  A write that fails unnoticed loses it,    *)
(* perhaps half-way; and LittleFS, external, may commit what the handle    *)
(* saw before a clear truncated the file, with the line or without.        *)
AppendClose(e) ==
    /\ pc = "appending"
    /\ \/ /\ scrap # "end"
          /\ file' = Append(file, e) /\ UNCHANGED <<scrap, torn, faults>>
       \/ /\ scrap = "end"
          /\ scrap' = "inside" /\ LoseLine(e) /\ UNCHANGED <<file, faults>>
       \/ /\ Fault
          /\ LoseLine(e) /\ file' \in {file, view} /\ scrap' \in {scrap, "end"}
       \/ Fault /\ file' = Append(view, e) /\ UNCHANGED <<scrap, torn>>
    /\ hand' = {} /\ view' = <<>>
    /\ pc' = "check"
    /\ UNCHANGED <<shared, queue, shadow, snap, curNext, lastPersisted, producers,
                   atts, raced, dropped, truncated, boots, clears>>

(* Slip: only a dirty log is ever compacted.                               *)
Check_OnlyDirty ==
    /\ pc = "check"
    /\ curNext' = nextId
    /\ IF dirty /\ sinceCompact >= AppendCompactN
       THEN pc' = "open" /\ snap' = entries
       ELSE pc' = "nvs" /\ UNCHANGED snap
    /\ UNCHANGED <<shared, queue, flash, hand, view, lastPersisted, producers,
                   history, bounds>>

(* The compaction decision and the snapshots, under the mutex.             *)
Check ==
    /\ pc = "check"
    /\ curNext' = nextId
    /\ IF sinceCompact >= (IF dirty THEN AppendCompactN ELSE UpdateCompactN)
       THEN pc' = "open" /\ snap' = entries
       ELSE pc' = "nvs" /\ UNCHANGED snap
    /\ UNCHANGED <<shared, queue, flash, hand, view, lastPersisted, producers,
                   history, bounds>>

(* rewriteAllSnapshot_(): open for writing truncates ...                   *)
RewriteOpen ==
    /\ pc = "open"
    /\ \/ pc' = "write" /\ Emptied /\ UNCHANGED <<snap, faults>>
       \/ Fault /\ pc' = "nvs" /\ snap' = <<>> /\ UNCHANGED <<file, scrap>>
    /\ UNCHANGED <<shared, queue, shadow, hand, view, curNext, lastPersisted,
                   producers, history, boots, clears>>

(* ... the snapshot goes out oldest first and the close commits it, or     *)
(* what of it was written: neither result is looked at ...                 *)
RewriteClose ==
    /\ pc = "write"
    /\ \/ /\ file' = [i \in 1 .. Len(snap) |-> snap[Len(snap) + 1 - i]]
          /\ UNCHANGED <<scrap, torn, faults>>
       \/ /\ Fault
          /\ \E n \in 0 .. Len(snap) : \E g \in [1 .. n -> 1 .. Len(snap)] :
               /\ \A i, j \in 1 .. n : i < j => g[i] > g[j]
               /\ file' = [i \in 1 .. n |-> snap[g[i]]]
               /\ torn' = torn \cup {snap[i].att :
                            i \in {k \in DOMAIN snap : \A j \in 1 .. n : g[j] # k}}
          /\ scrap' \in {"none", "inside", "end"}
    /\ snap' = <<>>
    /\ pc' = "reset"
    /\ UNCHANGED <<shared, queue, shadow, hand, view, curNext, lastPersisted,
                   producers, atts, raced, dropped, truncated, boots, clears>>

(* ... and the counters are reset under the mutex, whatever was written.   *)
RewriteReset ==
    /\ pc = "reset"
    /\ dirty' = FALSE /\ sinceCompact' = 0
    /\ pc' = "nvs"
    /\ UNCHANGED <<entries, nextId, queue, flash, hand, view, snap, curNext,
                   lastPersisted, producers, history, bounds>>

(* The shadow is written only when this task's high-water mark grew; the   *)
(* result of putUInt is not looked at.                                     *)
FlushShadow ==
    /\ pc = "nvs"
    /\ pc' = "wait"
    /\ \/ /\ curNext > lastPersisted
          /\ shadow' = curNext /\ lastPersisted' = curNext
          /\ UNCHANGED faults
       \/ /\ curNext > lastPersisted
          /\ Fault
          /\ lastPersisted' \in {lastPersisted, curNext} /\ UNCHANGED shadow
       \/ /\ curNext <= lastPersisted
          /\ UNCHANGED <<shadow, lastPersisted, faults>>
    /\ UNCHANGED <<shared, queue, file, scrap, hand, view, snap, curNext,
                   producers, history, boots, clears>>

(***************************************************************************)
(* A restart at any point, and begin(), whose own reads do not fail.       *)
(***************************************************************************)

Reboot ==
    /\ boots < MaxBoots
    /\ boots' = boots + 1
    /\ \E s \in [1 .. Cardinality(FileIds(file)) -> Elems(file)] :
         /\ Deduped(file, s)
         /\ entries' = s
         /\ dirty' = (Len(file) > Len(s) \/ scrap # "none")
    /\ \E n \in IdFloor : (\A m \in IdFloor : m <= n) /\ nextId' = n
    /\ sinceCompact' = 0
    /\ queue' = <<>> /\ pc' = "wait" /\ hand' = {} /\ view' = <<>> /\ snap' = <<>>
    /\ curNext' = 0 /\ lastPersisted' = 0
    /\ held' = {} /\ pend' = [t \in Tasks |-> 0] /\ todo' = {} /\ intelHand' = {}
    /\ clearing' = FALSE /\ raced' = {} /\ dropped' = {} /\ truncated' = {}
    /\ torn' = {}
    /\ UNCHANGED <<flash, atts, clears, faults>>

-----------------------------------------------------------------------------
Session == NextId \/ \E t \in Finishers, h \in held : AppendEntry(t, h)

IntelStep ==
    \/ \E id \in todo : IntelGet(id)
    \/ \E n \in 1 .. MaxId : BumpNextIdAtLeast(n)
    \/ \E e \in intelHand, again \in BOOLEAN : UpdateEntry(e, again)

PersistTaskRun ==
    \/ Receive \/ WakeIdle \/ AppendOpen \/ (\E e \in hand : AppendClose(e))
    \/ Check \/ RewriteOpen \/ RewriteClose \/ RewriteReset \/ FlushShadow

Next ==
    \/ Session
    \/ \E t \in Tasks : Enqueue(t)
    \/ IntelStep
    \/ ClearAll \/ StorageClearHistory
    \/ PersistTaskRun
    \/ Reboot

Spec == Init /\ [][Next]_vars

(* The scheduler runs every task that is ready: the persister's loop and   *)
(* the bounded wait in xQueueSend go on; connections, network replies,     *)
(* clears and restarts are the environment's.                              *)
FairSpec ==
    /\ Spec
    /\ WF_vars(PersistTaskRun)
    /\ \A t \in Tasks : WF_vars(Enqueue(t))

-----------------------------------------------------------------------------
SharedType ==
    /\ entries \in Seq(Entry) /\ nextId \in Nat \ {0}
    /\ dirty \in BOOLEAN /\ sinceCompact \in Nat

QueueType == queue \in Seq(Nat) /\ Len(queue) <= QueueLen

FlashType ==
    file \in Seq(Entry) /\ shadow \in Nat /\ scrap \in {"none", "inside", "end"}

PersisterType ==
    /\ pc \in {"wait", "append", "appending", "check", "open", "write", "reset",
               "nvs"}
    /\ hand \in SUBSET Entry /\ view \in Seq(Entry) /\ snap \in Seq(Entry)
    /\ curNext \in Nat /\ lastPersisted \in Nat

ProducersType ==
    /\ held \in SUBSET [att : Nat, id : Nat]
    /\ pend \in [Tasks -> Nat]
    /\ todo \in SUBSET Nat /\ intelHand \in SUBSET Entry
    /\ clearing \in BOOLEAN

HistoryType ==
    /\ atts \in Nat
    /\ raced \in SUBSET Nat /\ dropped \in SUBSET Nat
    /\ truncated \in SUBSET Nat /\ torn \in SUBSET Nat

BoundsType == boots \in Nat /\ clears \in Nat /\ faults \in Nat

(* Every variable has the type its declaration says, and the persist queue *)
(* holds at most kPersistQueueLen ids (attack_log.cpp:32, 268-275).        *)
TypeOK ==
    /\ SharedType /\ QueueType /\ FlashType /\ PersisterType
    /\ ProducersType /\ HistoryType /\ BoundsType

(* Everything that still carries an attack's id, in RAM or on flash.       *)
Carriers ==
    Elems(entries) \cup Elems(file) \cup Elems(view) \cup Elems(snap)
        \cup hand \cup held \cup intelHand

(***************************************************************************)
(* Safety.                                                                 *)
(***************************************************************************)

(* As long as nobody cleared the log, an id names one attack wherever it   *)
(* still appears, and the counter is above all of them: sessions that      *)
(* interleave, a restart that loads the file (attack_log.cpp:116-185) and  *)
(* the hub's bump never give a second attack the id of a surviving one.    *)
UniqueIds ==
    clears = 0 =>
        /\ \A x \in Carriers : x.id < nextId
        /\ \A x, y \in Carriers : x.id = y.id => x.att = y.att

(* What begin() would put in the cache for an id.                          *)
Recovered(id) == {file[i] : i \in {j \in DOMAIN file : j = LastLine(file, id)}}

OnFile(e) == e.id \in FileIds(file) /\ Recovered(e.id) = {e}

Notified(id) ==
    \/ \E i \in DOMAIN queue : queue[i] = id
    \/ \E t \in Tasks : pend[t] = id
    \/ \E e \in hand : e.id = id /\ e \in Elems(entries)

(* A later compaction will still rewrite the cache.                        *)
CompactionDue == dirty \/ sinceCompact > 0

Covered(e) == OnFile(e) \/ Notified(e.id) \/ CompactionDue

(* Every cached revision is on the file as the one a restart would load,   *)
(* or something will still write it: a notification on its way, the entry  *)
(* in the persister's hand, or a compaction that is due.  The ways out are *)
(* a change that fell in the window of a rewrite and whose notification    *)
(* was dropped as well (attack_log.cpp:246-285, 311-365), a line persisted *)
(* between the two halves of a clear (web_dashboard.cpp:774-775), and a    *)
(* write that went wrong and was not looked at, in an append or a rewrite  *)
(* (233-236, 253-259).  Entries that share an id, which takes a clear      *)
(* while a session is open, are left out: the code finds the newest.       *)
CoveredUnlessRacedAndDropped ==
    \A e \in Elems(entries) :
        Cardinality(Lookup(e.id)) = 1 =>
            Covered(e) \/ e.att \in (raced \cap dropped) \cup truncated \cup torn

(* Once the counter value reached NVS no attack gets an id below it again, *)
(* whatever restarts: the shadow never shrinks and the counter never falls *)
(* below it, until a clear resets both (attack_log.cpp:164-171, 362-368).  *)
FlushedIdsConsumed ==
    [][clears' = 0 => shadow' >= shadow /\ nextId' >= shadow]_vars

(* The cache outgrows its cap only by loading a file at boot: no append or *)
(* update leaves more than Cap entries (attack_log.cpp:240-304).           *)
GrowsWithinCap ==
    [][Len(entries') > Len(entries) => Len(entries') <= Cap \/ boots' > boots]_vars

(* Between two restarts without a fault, compaction keeps the file short:  *)
(* the last snapshot, what was already on its way to the persister when    *)
(* the counters were reset, and fewer than a threshold of new lines.       *)
FileBounded ==
    boots = 0 /\ faults = 0 =>
        Len(file) <= Cap + QueueLen + Cardinality(Tasks) + UpdateCompactN

(***************************************************************************)
(* Liveness, under FairSpec.                                               *)
(***************************************************************************)

(* The persister brings the shadow up to every value the counter takes,    *)
(* unless a restart or a clear lowers the counter first, or a putUInt that *)
(* failed was taken for a success (attack_log.cpp:205-207, 359-369).       *)
ShadowCatchesUp ==
    \A n \in 1 .. MaxId :
        (nextId = n)
          ~> (shadow >= n \/ nextId < n \/ (faults > 0 /\ lastPersisted >= n))

(* A finalized attack reaches the file unless it leaves the cache first, a *)
(* fault or a dropped notification leaves it to a later compaction, a      *)
(* write lost it unnoticed, or the device restarts                         *)
(* (attack_log.cpp:268-285, 311-333).                                      *)
EventuallyOnFile ==
    \A a \in 1 .. MaxAtt :
        (\E e \in Elems(entries) : e.att = a)
          ~> \/ \E l \in Elems(file) : l.att = a
             \/ \A e \in Elems(entries) : e.att # a
             \/ CompactionDue /\ (faults > 0 \/ a \in dropped)
             \/ a \in raced \cap dropped
             \/ a \in torn

(* Flash catches up with the cache and the counter: the two above, under   *)
(* one schedule (attack_log.cpp:300-369).                                  *)
FlashCatchesUp == ShadowCatchesUp /\ EventuallyOnFile

=============================================================================
