-------------------------- MODULE AttackLogProofs --------------------------
(***************************************************************************)
(* Type correctness of AttackLog, the uniqueness of ids, the durability of *)
(* flushed ids, the cap on growth, the length of the file and the coverage *)
(* of the cache, for every value of the constants.                         *)
(***************************************************************************)
EXTENDS AttackLog, SequenceTheorems, FiniteSetTheorems, WellFoundedInduction, TLAPS

(***************************************************************************)
(* Sequences.                                                              *)
(***************************************************************************)

(* Every nonempty set of naturals has a least element.                     *)
LEMMA LeastNatural ==
    ASSUME NEW S \in SUBSET Nat, S # {}
    PROVE  \E x \in S : \A y \in S : x <= y
<1> DEFINE R == OpToRel(<, Nat)
<1>1. IsWellFoundedOn(R, Nat)
  BY NatLessThanWellFounded
<1>2. PICK x \in S : \A y \in S : ~ (<<y, x>> \in R)
  <2> HIDE DEF R
  <2> QED BY <1>1, WFMin
<1>3. \A y \in S : ~ (y < x)
  BY <1>2 DEF OpToRel
<1> QED BY <1>3

(* A scan for a cached id stops at an entry of that id.                    *)
LEMMA FirstMatchFound ==
    ASSUME TypeOK, NEW id, Lookup(id) # {}
    PROVE  /\ FirstMatch(id) \in DOMAIN entries
           /\ entries[FirstMatch(id)].id = id
           /\ entries[FirstMatch(id)] \in Elems(entries)
<1>1. Lookup(id) \subseteq Nat
  BY DEF Lookup, TypeOK, SharedType
<1>2. \E i \in Lookup(id) : \A j \in Lookup(id) : i <= j
  BY <1>1, LeastNatural
<1>3. FirstMatch(id) \in Lookup(id)
  BY <1>2 DEF FirstMatch
<1> QED BY <1>3 DEF Lookup, Elems

(* The empty sequence is a sequence of entries.                            *)
LEMMA NoEntries == <<>> \in Seq(Entry)
BY EmptySeq

(* The elements of a sequence over S are in S.                             *)
LEMMA ElemsInType ==
    ASSUME NEW S, NEW s \in Seq(S)
    PROVE  Elems(s) \subseteq S
BY DEF Elems

(* Truncating to the cap keeps the type, invents nothing and respects it.  *)
LEMMA CapProperties ==
    ASSUME NEW S, NEW s \in Seq(S)
    PROVE  /\ EnforceCap(s) \in Seq(S)
           /\ Elems(EnforceCap(s)) \subseteq Elems(s)
           /\ Len(EnforceCap(s)) <= Cap
<1> DEFINE n == IF Len(s) > Cap THEN Cap ELSE Len(s)
<1>1. n \in Int /\ n <= Len(s) /\ n <= Cap /\ n >= 0
  BY LogAssumption
<1>2. \A i \in 1 .. n : s[i] \in S
  BY <1>1
<1>3. /\ SubSeq(s, 1, n) \in Seq(S)
      /\ Len(SubSeq(s, 1, n)) = IF 1 <= n THEN n - 1 + 1 ELSE 0
      /\ \A i \in 1 .. n - 1 + 1 : SubSeq(s, 1, n)[i] = s[1 + i - 1]
  <2> HIDE DEF n
  <2> QED BY <1>1, <1>2, SubSeqProperties
<1>4. EnforceCap(s) = SubSeq(s, 1, n)
  BY DEF EnforceCap
<1> HIDE DEF n
<1>5. Len(SubSeq(s, 1, n)) = n
  BY <1>1, <1>3
<1>6. ASSUME NEW x \in Elems(SubSeq(s, 1, n)) PROVE x \in Elems(s)
  <2>1. PICK i \in 1 .. n : x = SubSeq(s, 1, n)[i]
    BY <1>3, <1>5 DEF Elems
  <2>2. i \in 1 .. Len(s) /\ x = s[i]
    BY <1>1, <1>3, <2>1
  <2> QED BY <2>2 DEF Elems
<1> QED BY <1>1, <1>3, <1>4, <1>5, <1>6

(* So does inserting at the front under the cap, apart from the new entry. *)
LEMMA PushProperties ==
    ASSUME NEW S, NEW s \in Seq(S), NEW e \in S
    PROVE  LET p == EnforceCap(<<e>> \o s)
           IN  /\ p \in Seq(S)
               /\ Elems(p) \subseteq {e} \cup Elems(s)
               /\ Len(p) <= Cap
<1>1. <<e>> \in Seq(S) /\ Len(<<e>>) = 1 /\ <<e>>[1] = e
  OBVIOUS
<1>2. /\ <<e>> \o s \in Seq(S)
      /\ Len(<<e>> \o s) = 1 + Len(s)
      /\ \A i \in 1 .. 1 + Len(s) :
           (<<e>> \o s)[i] = IF i <= 1 THEN <<e>>[i] ELSE s[i - 1]
  BY <1>1, ConcatProperties
<1>3. ASSUME NEW x \in Elems(<<e>> \o s) PROVE x \in {e} \cup Elems(s)
  <2>1. PICK i \in 1 .. 1 + Len(s) : x = (<<e>> \o s)[i]
    BY <1>2 DEF Elems
  <2>2. CASE i = 1
    BY <1>1, <1>2, <2>1, <2>2
  <2>3. CASE i # 1
    <3>1. i - 1 \in DOMAIN s /\ x = s[i - 1]
      BY <1>2, <2>1, <2>3
    <3> QED BY <3>1 DEF Elems
  <2> QED BY <2>2, <2>3
<1> QED BY <1>2, <1>3, CapProperties

(* Replacing or adding one element adds nothing else.                      *)
LEMMA ElemsExcept ==
    ASSUME NEW S, NEW s \in Seq(S), NEW i \in DOMAIN s, NEW e \in S
    PROVE  /\ [s EXCEPT ![i] = e] \in Seq(S)
           /\ Elems([s EXCEPT ![i] = e]) \subseteq {e} \cup Elems(s)
           /\ Len([s EXCEPT ![i] = e]) = Len(s)
BY ExceptSeq DEF Elems

(* Appending adds one element.                                             *)
LEMMA ElemsAppend ==
    ASSUME NEW S, NEW s \in Seq(S), NEW e \in S
    PROVE  /\ Append(s, e) \in Seq(S)
           /\ Elems(Append(s, e)) \subseteq {e} \cup Elems(s)
BY DEF Elems

(* The order of a snapshot is reversed on file, its elements are the same. *)
LEMMA ElemsReversed ==
    ASSUME NEW S, NEW s \in Seq(S)
    PROVE  LET r == [i \in 1 .. Len(s) |-> s[Len(s) + 1 - i]]
           IN  r \in Seq(S) /\ Elems(r) \subseteq Elems(s)
BY DEF Elems

(* Nor does a rewrite that wrote only some of them add anything.           *)
LEMMA ElemsKept ==
    ASSUME NEW S, NEW s \in Seq(S), NEW n \in Nat, NEW g \in [1 .. n -> 1 .. Len(s)]
    PROVE  LET r == [i \in 1 .. n |-> s[g[i]]]
           IN  r \in Seq(S) /\ Elems(r) \subseteq Elems(s)
BY DEF Elems

(* What begin() loads is a sequence of lines of the file.                  *)
LEMMA LoadedFromFile ==
    ASSUME TypeOK, NEW s \in [1 .. Cardinality(FileIds(file)) -> Elems(file)]
    PROVE  s \in Seq(Entry) /\ Elems(s) \subseteq Elems(file)
<1> DEFINE idAt == [i \in DOMAIN file |-> file[i].id]
<1>1. IsFiniteSet(DOMAIN file)
  BY FS_Interval DEF TypeOK, FlashType
<1>2. idAt \in Surjection(DOMAIN file, FileIds(file))
  BY DEF Surjection, FileIds
<1>3. Cardinality(FileIds(file)) \in Nat
  BY <1>1, <1>2, FS_Surjection, FS_CardinalityType
<1>4. Elems(file) \subseteq Entry
  BY ElemsInType DEF TypeOK, FlashType
<1> QED BY <1>3, <1>4 DEF Elems

(* IdFloor is a set of naturals with 1 in it.                              *)
LEMMA IdFloorType == TypeOK => IdFloor \subseteq Nat /\ 1 \in IdFloor
<1> SUFFICES ASSUME TypeOK PROVE IdFloor \subseteq Nat /\ 1 \in IdFloor
  OBVIOUS
<1>1. \A i \in DOMAIN file : file[i].id \in Nat
  <2>1. file \in Seq(Entry)
    BY DEF TypeOK, FlashType
  <2>2. \A i \in DOMAIN file : file[i] \in Entry
    BY <2>1
  <2> QED BY <2>2 DEF Entry
<1>2. shadow \in Nat
  BY DEF TypeOK, FlashType
<1> QED BY <1>1, <1>2 DEF IdFloor

(***************************************************************************)
(* Type correctness.                                                       *)
(***************************************************************************)

(* The initial state is well typed.                                        *)
LEMMA InitType == Init => TypeOK
<1> SUFFICES ASSUME Init PROVE TypeOK
  OBVIOUS
<1>1. SharedType
  <2>1. entries = <<>> /\ nextId = 1 /\ dirty = FALSE /\ sinceCompact = 0
    BY DEF Init
  <2>2. entries \in Seq(Entry)
    BY <2>1, NoEntries, Zenon
  <2>3. nextId \in Nat \ {0} /\ sinceCompact \in Nat
    BY <2>1
  <2>4. dirty \in BOOLEAN
    BY <2>1, Zenon
  <2> QED BY <2>2, <2>3, <2>4 DEF SharedType
<1>4. FlashType
  BY NoEntries DEF Init, FlashType
<1>5. PersisterType
  BY NoEntries DEF Init, PersisterType
<1>2. QueueType
  BY LogAssumption DEF Init, QueueType
<1>3. ProducersType /\ HistoryType /\ BoundsType
  BY DEF Init, ProducersType, HistoryType, BoundsType
<1> QED BY <1>1, <1>2, <1>3, <1>4, <1>5 DEF TypeOK

(* A group of variables a step leaves alone keeps its type.                *)
LEMMA GroupsUnchanged ==
    ASSUME TypeOK
    PROVE  /\ UNCHANGED shared => SharedType'
           /\ UNCHANGED queue => QueueType'
           /\ UNCHANGED flash => FlashType'
           /\ UNCHANGED persister => PersisterType'
           /\ UNCHANGED producers => ProducersType'
           /\ UNCHANGED history => HistoryType'
           /\ UNCHANGED bounds => BoundsType'
<1>1. UNCHANGED shared => SharedType'
  BY DEF TypeOK, SharedType, shared
<1>2. UNCHANGED queue => QueueType'
  BY DEF TypeOK, QueueType
<1>3. UNCHANGED flash => FlashType'
  BY DEF TypeOK, FlashType, flash
<1>4. UNCHANGED persister => PersisterType'
  BY DEF TypeOK, PersisterType, persister
<1>5. UNCHANGED producers => ProducersType'
  BY DEF TypeOK, ProducersType, producers
<1>6. UNCHANGED history => HistoryType'
  BY DEF TypeOK, HistoryType, history
<1>7. UNCHANGED bounds => BoundsType'
  BY DEF TypeOK, BoundsType, bounds
<1> QED BY <1>1, <1>2, <1>3, <1>4, <1>5, <1>6, <1>7

(* A failing call only moves the bound that counts them.                   *)
LEMMA FaultType ==
    ASSUME TypeOK, UNCHANGED <<boots, clears>>, UNCHANGED faults \/ Fault
    PROVE  BoundsType'
BY DEF TypeOK, BoundsType, Fault

(* A session's steps keep the types.                                       *)
LEMMA SessionType == ASSUME TypeOK, Session PROVE TypeOK'
<1>1. CASE NextId
  <2>1. [att |-> atts + 1, id |-> nextId] \in [att : Nat, id : Nat]
    BY DEF TypeOK, SharedType, HistoryType
  <2>2. SharedType'
    BY <1>1 DEF NextId, TypeOK, SharedType
  <2>3. ProducersType'
    BY <1>1, <2>1 DEF NextId, TypeOK, ProducersType
  <2>4. HistoryType'
    BY <1>1 DEF NextId, TypeOK, HistoryType, SharedType
  <2>5. UNCHANGED <<queue, flash, persister, bounds>>
    BY <1>1 DEF NextId
  <2> QED BY <2>2, <2>3, <2>4, <2>5, GroupsUnchanged DEF TypeOK
<1>2. ASSUME NEW t \in Finishers, NEW h \in held, AppendEntry(t, h) PROVE TypeOK'
  <2>1. h.att \in Nat /\ h.id \in Nat
    BY DEF TypeOK, ProducersType
  <2>2. [att |-> h.att, id |-> h.id, rev |-> 1] \in Entry
    BY <2>1 DEF Entry
  <2>3. SharedType'
    <3>1. entries' \in Seq(Entry)
      BY <1>2, <2>2, PushProperties DEF AppendEntry, TypeOK, SharedType
    <3> QED BY <1>2, <3>1 DEF AppendEntry, TypeOK, SharedType
  <2>4. HistoryType'
    BY <1>2, <2>1 DEF AppendEntry, TypeOK, HistoryType, Race
  <2>5. ProducersType'
    BY <1>2, <2>1 DEF AppendEntry, TypeOK, ProducersType
  <2>6. UNCHANGED <<queue, flash, persister, bounds>>
    BY <1>2 DEF AppendEntry
  <2> QED BY <2>3, <2>4, <2>5, <2>6, GroupsUnchanged DEF TypeOK
<1> QED BY <1>1, <1>2 DEF Session

(* So does a notification, which never overfills the queue.                *)
LEMMA EnqueueType == ASSUME TypeOK, NEW t \in Tasks, Enqueue(t) PROVE TypeOK'
<1>1. pend[t] \in Nat
  BY DEF TypeOK, ProducersType
<1>2. ProducersType'
  BY DEF Enqueue, TypeOK, ProducersType
<1>3. QueueType'
  <2>1. CASE Len(queue) < QueueLen /\ queue' = Append(queue, pend[t])
    BY <1>1, <2>1, LogAssumption DEF TypeOK, QueueType
  <2>2. CASE UNCHANGED queue
    BY <2>2, GroupsUnchanged
  <2> QED BY <2>1, <2>2 DEF Enqueue
<1>4. HistoryType'
  <2>1. \A i \in Lookup(pend[t]) : entries[i] \in Entry
    BY DEF Lookup, TypeOK, SharedType
  <2>2. {entries[i].att : i \in Lookup(pend[t])} \subseteq Nat
    BY <2>1 DEF Entry
  <2> QED BY <2>2 DEF Enqueue, TypeOK, HistoryType
<1>5. UNCHANGED <<shared, flash, persister, bounds>>
  BY DEF Enqueue
<1> QED BY <1>2, <1>3, <1>4, <1>5, GroupsUnchanged DEF TypeOK

(* So do the intel task's steps.                                           *)
LEMMA IntelType == ASSUME TypeOK, IntelStep PROVE TypeOK'
<1>0. entries \in Seq(Entry) /\ intelHand \subseteq Entry
  BY DEF TypeOK, SharedType, ProducersType
<1>1. ASSUME NEW id \in todo, IntelGet(id) PROVE TypeOK'
  <2>1. Lookup(id) # {} => entries[FirstMatch(id)] \in Entry
    BY <1>0, FirstMatchFound, ElemsInType
  <2>2. ProducersType'
    BY <1>1, <2>1 DEF IntelGet, TypeOK, ProducersType
  <2>3. UNCHANGED <<shared, queue, flash, persister, history, bounds>>
    BY <1>1 DEF IntelGet
  <2> QED BY <2>2, <2>3, GroupsUnchanged DEF TypeOK
<1>2. ASSUME NEW n \in 1 .. MaxId, BumpNextIdAtLeast(n) PROVE TypeOK'
  <2>1. SharedType'
    BY <1>2, LogAssumption DEF BumpNextIdAtLeast, TypeOK, SharedType
  <2>2. UNCHANGED <<queue, flash, persister, producers, history, bounds>>
    BY <1>2 DEF BumpNextIdAtLeast
  <2> QED BY <2>1, <2>2, GroupsUnchanged DEF TypeOK
<1>3. ASSUME NEW e \in intelHand, NEW again \in BOOLEAN, UpdateEntry(e, again)
      PROVE TypeOK'
  <2> DEFINE new == [e EXCEPT !.rev = @ + 1]
  <2>1. e \in Entry /\ new \in Entry /\ e.id \in Nat /\ e.att \in Nat
    BY <1>0 DEF Entry
  <2> HIDE DEF new
  <2>2. entries' = IF Lookup(e.id) # {}
                   THEN [entries EXCEPT ![FirstMatch(e.id)] = new]
                   ELSE EnforceCap(<<new>> \o entries)
    BY <1>3 DEF UpdateEntry, new
  <2>3. entries' \in Seq(Entry)
    <3>1. CASE Lookup(e.id) # {}
      BY <1>0, <2>1, <2>2, <3>1, FirstMatchFound, ElemsExcept
    <3>2. CASE Lookup(e.id) = {}
      BY <1>0, <2>1, <2>2, <3>2, PushProperties
    <3> QED BY <3>1, <3>2
  <2>4. SharedType'
    BY <1>3, <2>3 DEF UpdateEntry, TypeOK, SharedType
  <2>5. HistoryType'
    BY <1>3, <2>1 DEF UpdateEntry, TypeOK, HistoryType, Race
  <2>6. ProducersType'
    BY <1>3, <2>1 DEF UpdateEntry, TypeOK, ProducersType, Tasks
  <2>7. UNCHANGED <<queue, flash, persister, bounds>>
    BY <1>3 DEF UpdateEntry
  <2> QED BY <2>4, <2>5, <2>6, <2>7, GroupsUnchanged DEF TypeOK
<1> QED BY <1>1, <1>2, <1>3 DEF IntelStep

(* So do both halves of a clear.                                           *)
LEMMA ClearType ==
    ASSUME TypeOK, ClearAll \/ StorageClearHistory PROVE TypeOK'
<1>1. Elems(entries) \subseteq Entry /\ Elems(file) \subseteq Entry
  BY ElemsInType DEF TypeOK, SharedType, FlashType
<1>2. /\ {e.att : e \in Elems(entries)} \subseteq Nat
      /\ {e.att : e \in Elems(file)} \subseteq Nat
  BY <1>1 DEF Entry
<1>3. CASE ClearAll
  <2>0. entries' = <<>> /\ nextId' = 1 /\ dirty' = FALSE /\ sinceCompact' = 0
    BY <1>3 DEF ClearAll
  <2>1. SharedType'
    <3>1. entries' \in Seq(Entry)
      BY <2>0, NoEntries, Zenon
    <3>2. nextId' \in Nat \ {0} /\ sinceCompact' \in Nat
      BY <2>0
    <3>3. dirty' \in BOOLEAN
      BY <2>0, Zenon
    <3> QED BY <3>1, <3>2, <3>3 DEF SharedType
  <2>2. FlashType'
    <3>1. /\ file' = <<>> \/ file' = file
          /\ scrap' = "none" \/ scrap' = scrap
          /\ shadow' = 1 \/ shadow' = shadow
      BY <1>3, Zenon DEF ClearAll, Emptied
    <3>2. file' \in Seq(Entry)
      BY <3>1, NoEntries, Zenon DEF TypeOK, FlashType
    <3> QED BY <3>1, <3>2 DEF TypeOK, FlashType
  <2>3. HistoryType'
    BY <1>2, <1>3 DEF ClearAll, TypeOK, HistoryType
  <2>4. ProducersType'
    BY <1>3 DEF ClearAll, TypeOK, ProducersType
  <2>5. BoundsType'
    BY <1>3 DEF ClearAll, TypeOK, BoundsType, Fault
  <2>6. UNCHANGED <<queue, persister>>
    BY <1>3 DEF ClearAll
  <2> QED BY <2>1, <2>2, <2>3, <2>4, <2>5, <2>6, GroupsUnchanged DEF TypeOK
<1>4. CASE StorageClearHistory
  <2>1. FlashType'
    BY <1>4, NoEntries DEF StorageClearHistory, Emptied, TypeOK, FlashType
  <2>2. HistoryType'
    BY <1>2, <1>4 DEF StorageClearHistory, TypeOK, HistoryType
  <2>3. ProducersType'
    BY <1>4 DEF StorageClearHistory, TypeOK, ProducersType
  <2>4. BoundsType'
    BY <1>4, FaultType DEF StorageClearHistory
  <2>5. UNCHANGED <<shared, queue, persister>>
    BY <1>4 DEF StorageClearHistory
  <2> QED BY <2>1, <2>2, <2>3, <2>4, <2>5, GroupsUnchanged DEF TypeOK
<1> QED BY <1>3, <1>4

(* So do the persister's steps.                                            *)
LEMMA PersistType == ASSUME TypeOK, PersistTaskRun PROVE TypeOK'
<1>1. CASE Receive
  <2>1. QueueType'
    BY <1>1, LogAssumption DEF Receive, TypeOK, QueueType
  <2>2. Lookup(Head(queue)) # {} => entries[FirstMatch(Head(queue))] \in Entry
    BY FirstMatchFound, ElemsInType DEF TypeOK, SharedType
  <2>3. PersisterType'
    BY <1>1, <2>2 DEF Receive, TypeOK, PersisterType
  <2>4. UNCHANGED <<shared, flash, producers, history, bounds>>
    BY <1>1 DEF Receive
  <2> QED BY <2>1, <2>3, <2>4, GroupsUnchanged DEF TypeOK
<1>2. CASE WakeIdle
  <2>1. PersisterType'
    BY <1>2 DEF WakeIdle, TypeOK, PersisterType
  <2>2. UNCHANGED <<shared, queue, flash, producers, history, bounds>>
    BY <1>2 DEF WakeIdle
  <2> QED BY <2>1, <2>2, GroupsUnchanged DEF TypeOK
<1>3. ASSUME NEW e \in hand, AppendClose(e) PROVE TypeOK'
  <2>1. e \in Entry /\ file \in Seq(Entry) /\ view \in Seq(Entry)
    BY DEF TypeOK, PersisterType, FlashType
  <2>2. FlashType'
    <3>1. file' \in {file, view, Append(file, e), Append(view, e)}
      BY <1>3 DEF AppendClose
    <3>2. file' \in Seq(Entry)
      BY <2>1, <3>1, ElemsAppend
    <3>3. scrap' \in {"none", "inside", "end"}
      BY <1>3 DEF AppendClose, TypeOK, FlashType
    <3>4. shadow' \in Nat
      BY <1>3 DEF AppendClose, TypeOK, FlashType
    <3> QED BY <3>2, <3>3, <3>4 DEF FlashType
  <2>3. PersisterType'
    BY <1>3, NoEntries DEF AppendClose, TypeOK, PersisterType
  <2>4. HistoryType'
    <3>1. e.att \in Nat
      BY <2>1 DEF Entry
    <3>2. torn' = torn \/ torn' = torn \cup {e.att}
      BY <1>3 DEF AppendClose, LoseLine
    <3>3. UNCHANGED <<atts, raced, dropped, truncated>>
      BY <1>3 DEF AppendClose
    <3> QED BY <3>1, <3>2, <3>3 DEF TypeOK, HistoryType
  <2>5. BoundsType'
    BY <1>3, FaultType DEF AppendClose
  <2>6. UNCHANGED <<shared, queue, producers>>
    BY <1>3 DEF AppendClose
  <2> QED BY <2>2, <2>3, <2>4, <2>5, <2>6, GroupsUnchanged DEF TypeOK
<1>9. CASE AppendOpen
  <2>1. SharedType'
    BY <1>9 DEF AppendOpen, TypeOK, SharedType
  <2>2. PersisterType'
    BY <1>9 DEF AppendOpen, TypeOK, PersisterType, FlashType
  <2>3. BoundsType'
    BY <1>9, FaultType DEF AppendOpen
  <2>4. UNCHANGED <<queue, flash, producers, history>>
    BY <1>9 DEF AppendOpen
  <2> QED BY <2>1, <2>2, <2>3, <2>4, GroupsUnchanged DEF TypeOK
<1>4. CASE Check
  <2>1. PersisterType'
    BY <1>4 DEF Check, TypeOK, PersisterType, SharedType
  <2>2. UNCHANGED <<shared, queue, flash, producers, history, bounds>>
    BY <1>4 DEF Check
  <2> QED BY <2>1, <2>2, GroupsUnchanged DEF TypeOK
<1>5. CASE RewriteOpen
  <2>1. PersisterType'
    BY <1>5, NoEntries DEF RewriteOpen, TypeOK, PersisterType
  <2>2. FlashType'
    BY <1>5, NoEntries DEF RewriteOpen, Emptied, TypeOK, FlashType
  <2>3. BoundsType'
    BY <1>5, FaultType DEF RewriteOpen
  <2>4. UNCHANGED <<shared, queue, producers, history>>
    BY <1>5 DEF RewriteOpen
  <2> QED BY <2>1, <2>2, <2>3, <2>4, GroupsUnchanged DEF TypeOK
<1>6. CASE RewriteClose
  <2>1. snap \in Seq(Entry) /\ torn \in SUBSET Nat
    BY DEF TypeOK, PersisterType, HistoryType
  <2>2. \/ /\ file' = [i \in 1 .. Len(snap) |-> snap[Len(snap) + 1 - i]]
           /\ torn' = torn
        \/ \E n \in 0 .. Len(snap) : \E g \in [1 .. n -> 1 .. Len(snap)] :
             /\ file' = [i \in 1 .. n |-> snap[g[i]]]
             /\ torn' = torn \cup {snap[i].att :
                          i \in {k \in DOMAIN snap : \A j \in 1 .. n : g[j] # k}}
    BY <1>6 DEF RewriteClose
  <2>3. file' \in Seq(Entry) /\ torn' \in SUBSET Nat
    <3>1. CASE file' = [i \in 1 .. Len(snap) |-> snap[Len(snap) + 1 - i]] /\ torn' = torn
      BY <2>1, <3>1, ElemsReversed
    <3>2. ASSUME NEW n \in 0 .. Len(snap), NEW g \in [1 .. n -> 1 .. Len(snap)],
                 file' = [i \in 1 .. n |-> snap[g[i]]],
                 torn' = torn \cup {snap[i].att :
                           i \in {k \in DOMAIN snap : \A j \in 1 .. n : g[j] # k}}
          PROVE  file' \in Seq(Entry) /\ torn' \in SUBSET Nat
      <4>1. n \in Nat
        OBVIOUS
      <4>2. file' \in Seq(Entry)
        BY <2>1, <3>2, <4>1, ElemsKept
      <4>3. \A i \in DOMAIN snap : snap[i] \in Entry
        BY <2>1
      <4>4. \A i \in DOMAIN snap : snap[i].att \in Nat
        BY <4>3 DEF Entry
      <4>5. torn' \in SUBSET Nat
        BY <2>1, <3>2, <4>4
      <4> QED BY <4>2, <4>5
    <3> QED BY <2>2, <3>1, <3>2
  <2>4. FlashType'
    BY <1>6, <2>3 DEF RewriteClose, TypeOK, FlashType
  <2>5. HistoryType'
    BY <1>6, <2>3 DEF RewriteClose, TypeOK, HistoryType
  <2>6. PersisterType'
    BY <1>6, NoEntries DEF RewriteClose, TypeOK, PersisterType
  <2>7. BoundsType'
    BY <1>6, FaultType DEF RewriteClose
  <2>8. UNCHANGED <<shared, queue, producers>>
    BY <1>6 DEF RewriteClose
  <2> QED BY <2>4, <2>5, <2>6, <2>7, <2>8, GroupsUnchanged DEF TypeOK
<1>7. CASE RewriteReset
  <2>1. SharedType'
    BY <1>7 DEF RewriteReset, TypeOK, SharedType
  <2>2. PersisterType'
    BY <1>7 DEF RewriteReset, TypeOK, PersisterType
  <2>3. UNCHANGED <<queue, flash, producers, history, bounds>>
    BY <1>7 DEF RewriteReset
  <2> QED BY <2>1, <2>2, <2>3, GroupsUnchanged DEF TypeOK
<1>8. CASE FlushShadow
  <2>1. FlashType'
    BY <1>8 DEF FlushShadow, TypeOK, FlashType, PersisterType
  <2>2. PersisterType'
    BY <1>8 DEF FlushShadow, TypeOK, PersisterType
  <2>3. BoundsType'
    BY <1>8, FaultType DEF FlushShadow
  <2>4. UNCHANGED <<shared, queue, producers, history>>
    BY <1>8 DEF FlushShadow
  <2> QED BY <2>1, <2>2, <2>3, <2>4, GroupsUnchanged DEF TypeOK
<1> QED BY <1>1, <1>2, <1>3, <1>4, <1>5, <1>6, <1>7, <1>8, <1>9 DEF PersistTaskRun

(* So does a restart.                                                      *)
LEMMA RebootType == ASSUME TypeOK, Reboot PROVE TypeOK'
<1>1. SharedType'
  <2>1. entries' \in Seq(Entry) /\ dirty' \in BOOLEAN
    BY LoadedFromFile DEF Reboot
  <2>2. nextId' \in Nat \ {0}
    BY IdFloorType DEF Reboot
  <2> QED BY <2>1, <2>2 DEF Reboot, SharedType
<1>2. QueueType'
  BY LogAssumption DEF Reboot, QueueType
<1>3. PersisterType' /\ ProducersType'
  BY NoEntries DEF Reboot, PersisterType, ProducersType
<1>4. HistoryType' /\ BoundsType'
  BY DEF Reboot, TypeOK, HistoryType, BoundsType
<1>5. UNCHANGED flash
  BY DEF Reboot
<1> QED BY <1>1, <1>2, <1>3, <1>4, <1>5, GroupsUnchanged DEF TypeOK

(* So does every step.                                                     *)
LEMMA NextType == TypeOK /\ [Next]_vars => TypeOK'
<1> SUFFICES ASSUME TypeOK, [Next]_vars PROVE TypeOK'
  OBVIOUS
<1>1. CASE UNCHANGED vars
  BY <1>1, GroupsUnchanged DEF TypeOK, vars
<1>2. CASE Next
  BY <1>2, SessionType, EnqueueType, IntelType, ClearType, PersistType, RebootType
     DEF Next
<1> QED BY <1>1, <1>2

(* Every state of every behaviour is well typed, and the queue never holds *)
(* more than kPersistQueueLen ids (attack_log.cpp:32, 268-275).            *)
THEOREM TypeCorrect == Spec => []TypeOK
BY InitType, NextType, PTL DEF Spec

(***************************************************************************)
(* Uniqueness of ids.                                                      *)
(***************************************************************************)

(* Every carrier has a natural number for an id.                           *)
LEMMA CarrierType == TypeOK => \A x \in Carriers : x.id \in Nat
<1> SUFFICES ASSUME TypeOK PROVE \A x \in Carriers : x.id \in Nat
  OBVIOUS
<1>1. /\ Elems(entries) \subseteq Entry /\ Elems(file) \subseteq Entry
      /\ Elems(snap) \subseteq Entry /\ Elems(view) \subseteq Entry
  BY ElemsInType DEF TypeOK, SharedType, FlashType, PersisterType
<1>2. /\ hand \subseteq Entry /\ intelHand \subseteq Entry
      /\ held \subseteq [att : Nat, id : Nat]
  BY DEF TypeOK, PersisterType, ProducersType
<1> QED BY <1>1, <1>2 DEF Carriers, Entry

(* The empty sequence has no elements.                                     *)
LEMMA NoElems == Elems(<<>>) = {}
BY DEF Elems

(* A step that gives no carrier a new id and attack, and does not lower    *)
(* the counter, keeps ids unique.                                          *)
LEMMA CarriersKept ==
    ASSUME TypeOK, UniqueIds, clears \in Nat, clears' \in Nat, clears <= clears',
           nextId' \in Nat, nextId <= nextId',
           \A x \in Carriers' : \E y \in Carriers : x.id = y.id /\ x.att = y.att
    PROVE  UniqueIds'
<1> SUFFICES ASSUME clears' = 0
             PROVE  /\ \A x \in Carriers' : x.id < nextId'
                    /\ \A x, y \in Carriers' : x.id = y.id => x.att = y.att
  BY DEF UniqueIds
<1>1. clears = 0
  OBVIOUS
<1>2. nextId \in Nat
  BY DEF TypeOK, SharedType
<1>3. ASSUME NEW x \in Carriers' PROVE x.id < nextId'
  <2>1. PICK y \in Carriers : x.id = y.id
    OBVIOUS
  <2>2. y.id < nextId /\ y.id \in Nat
    BY <1>1, CarrierType DEF UniqueIds
  <2> QED BY <1>2, <2>1, <2>2
<1>4. ASSUME NEW x \in Carriers', NEW y \in Carriers', x.id = y.id
      PROVE  x.att = y.att
  <2>1. PICK u \in Carriers : x.id = u.id /\ x.att = u.att
    OBVIOUS
  <2>2. PICK v \in Carriers : y.id = v.id /\ y.att = v.att
    OBVIOUS
  <2>3. u.id = v.id
    BY <1>4, <2>1, <2>2
  <2>4. u.att = v.att
    BY <1>1, <2>3 DEF UniqueIds
  <2> QED BY <2>1, <2>2, <2>4
<1> QED BY <1>3, <1>4

(* The new session's id is the counter, above every carrier.               *)
LEMMA NextIdUnique == ASSUME TypeOK, UniqueIds, NextId PROVE UniqueIds'
<1> DEFINE h == [att |-> atts + 1, id |-> nextId]
<1> SUFFICES ASSUME clears' = 0
             PROVE  /\ \A x \in Carriers' : x.id < nextId'
                    /\ \A x, y \in Carriers' : x.id = y.id => x.att = y.att
  BY DEF UniqueIds
<1>1. Carriers' = Carriers \cup {h}
  BY DEF NextId, Carriers, flash, persister, Elems
<1>2. h.id = nextId
  OBVIOUS
<1> HIDE DEF h
<1>3. \A x \in Carriers : x.id < nextId /\ x.id \in Nat
  BY CarrierType DEF UniqueIds, NextId, bounds
<1>4. nextId \in Nat /\ nextId' = nextId + 1
  BY DEF NextId, TypeOK, SharedType
<1>5. \A x \in Carriers' : x.id < nextId'
  BY <1>1, <1>2, <1>3, <1>4
<1>6. \A x \in Carriers : x.id # h.id
  BY <1>2, <1>3, <1>4
<1>7. \A x, y \in Carriers : x.id = y.id => x.att = y.att
  BY DEF UniqueIds, NextId, bounds
<1> QED BY <1>1, <1>5, <1>6, <1>7

(* begin() keeps no carrier but the lines of the file, and sets the        *)
(* counter above all of them.                                              *)
LEMMA RebootUnique == ASSUME TypeOK, UniqueIds, Reboot PROVE UniqueIds'
<1> SUFFICES ASSUME clears' = 0
             PROVE  /\ \A x \in Carriers' : x.id < nextId'
                    /\ \A x, y \in Carriers' : x.id = y.id => x.att = y.att
  BY DEF UniqueIds
<1>1. Elems(entries') \subseteq Elems(file)
  BY LoadedFromFile DEF Reboot
<1>2. /\ file' = file /\ view' = <<>> /\ snap' = <<>> /\ hand' = {} /\ held' = {}
      /\ intelHand' = {} /\ clears = 0
  BY DEF Reboot, flash
<1>3. Carriers' \subseteq Elems(file)
  BY <1>1, <1>2, NoElems DEF Carriers, Elems
<1>4. Elems(file) \subseteq Carriers
  BY DEF Carriers
<1>5. nextId' \in Nat /\ \A m \in IdFloor : m <= nextId'
  BY IdFloorType DEF Reboot
<1>6. ASSUME NEW x \in Elems(file) PROVE x.id < nextId'
  <2>1. x.id + 1 \in IdFloor
    BY DEF Elems, IdFloor
  <2>2. x.id \in Nat
    BY <1>4, CarrierType
  <2> QED BY <1>5, <2>1, <2>2
<1>7. \A x, y \in Elems(file) : x.id = y.id => x.att = y.att
  BY <1>2, <1>4 DEF UniqueIds
<1> QED BY <1>3, <1>6, <1>7

(* The clear counter never shrinks.                                        *)
LEMMA ClearsGrow ==
    ASSUME TypeOK, Next
    PROVE  clears \in Nat /\ clears' \in Nat /\ clears <= clears'
<1>1. clears \in Nat
  BY DEF TypeOK, BoundsType
<1>2. clears' = clears \/ clears' = clears + 1
  BY DEF Next, Session, NextId, AppendEntry, Enqueue, IntelStep, IntelGet,
         BumpNextIdAtLeast, UpdateEntry, ClearAll, StorageClearHistory,
         PersistTaskRun, Receive, WakeIdle, AppendOpen, AppendClose, Check, RewriteOpen,
         RewriteClose, RewriteReset, FlushShadow, Reboot, bounds
<1> QED BY <1>1, <1>2

(* A carrier's id and attack come from a carrier before the step, but for  *)
(* the new session's.                                                      *)
Follows == \A x \in Carriers' : \E y \in Carriers : x.id = y.id /\ x.att = y.att

(* Every step but a connection: no other action makes up an id.            *)
LEMMA CarriersFollow == ASSUME TypeOK, Next, ~ NextId PROVE Follows
<1>0. /\ entries \in Seq(Entry) /\ nextId \in Nat /\ file \in Seq(Entry)
      /\ snap \in Seq(Entry) /\ view \in Seq(Entry) /\ intelHand \subseteq Entry
      /\ hand \subseteq Entry
  BY DEF TypeOK, SharedType, FlashType, PersisterType, ProducersType
<1>2. ASSUME Carriers' \subseteq Carriers PROVE Follows
  BY <1>2 DEF Follows
<1>4. ASSUME NEW t \in Finishers, NEW h \in held, AppendEntry(t, h) PROVE Follows
  <2> DEFINE e == [att |-> h.att, id |-> h.id, rev |-> 1]
  <2>1. e \in Entry
    BY DEF Entry, TypeOK, ProducersType
  <2>2. Elems(entries') \subseteq {e} \cup Elems(entries)
    <3>1. entries' = EnforceCap(<<e>> \o entries)
      BY <1>4 DEF AppendEntry
    <3> HIDE DEF e
    <3> QED BY <1>0, <2>1, <3>1, PushProperties
  <2>3. Carriers' \subseteq {e} \cup Carriers
    BY <1>4, <2>2 DEF AppendEntry, Carriers, flash, persister, Elems
  <2>4. h \in Carriers /\ e.id = h.id /\ e.att = h.att
    BY DEF Carriers
  <2> HIDE DEF e
  <2> QED BY <2>3, <2>4 DEF Follows
<1>5. ASSUME NEW t \in Tasks, Enqueue(t) PROVE Follows
  BY <1>2, <1>5 DEF Enqueue, Carriers, shared, flash, persister, Elems
<1>6. ASSUME NEW id \in todo, IntelGet(id) PROVE Follows
  <2>1. intelHand' \subseteq Elems(entries)
    BY <1>6, FirstMatchFound DEF IntelGet
  <2> QED BY <1>2, <1>6, <2>1 DEF IntelGet, Carriers, shared, flash, persister, Elems
<1>7. ASSUME NEW n \in 1 .. MaxId, BumpNextIdAtLeast(n) PROVE Follows
  <2>1. Carriers' = Carriers
    BY <1>7 DEF BumpNextIdAtLeast, Carriers, flash, persister, producers, Elems
  <2> QED BY <1>2, <2>1
<1>8. ASSUME NEW e \in intelHand, NEW again \in BOOLEAN, UpdateEntry(e, again)
      PROVE  Follows
  <2> DEFINE new == [e EXCEPT !.rev = @ + 1]
  <2>0. e \in Entry
    BY <1>0
  <2>1. new \in Entry /\ new.id = e.id /\ new.att = e.att
    BY <2>0 DEF Entry
  <2>2. entries' = IF Lookup(e.id) # {}
                   THEN [entries EXCEPT ![FirstMatch(e.id)] = new]
                   ELSE EnforceCap(<<new>> \o entries)
    BY <1>8 DEF UpdateEntry
  <2> HIDE DEF new
  <2>3. Elems(entries') \subseteq {new} \cup Elems(entries)
    <3>1. CASE Lookup(e.id) # {}
      BY <1>0, <2>1, <2>2, <3>1, FirstMatchFound, ElemsExcept
    <3>2. CASE Lookup(e.id) = {}
      BY <1>0, <2>1, <2>2, <3>2, PushProperties
    <3> QED BY <3>1, <3>2
  <2>4. Carriers' \subseteq {new} \cup Carriers
    BY <1>8, <2>3 DEF UpdateEntry, Carriers, flash, persister, Elems
  <2>5. e \in Carriers
    BY DEF Carriers
  <2> QED BY <2>1, <2>4, <2>5 DEF Follows
<1>9. CASE ClearAll
  <2>1. entries' = <<>> /\ (file' = <<>> \/ file' = file)
    BY <1>9, Zenon DEF ClearAll, Emptied
  <2>2. Elems(entries') \subseteq Elems(entries) /\ Elems(file') \subseteq Elems(file)
    BY <2>1, NoElems DEF Elems
  <2> QED BY <1>2, <1>9, <2>2 DEF ClearAll, Carriers, persister, Elems
<1>10. CASE StorageClearHistory
  <2>1. Elems(file') \subseteq Elems(file)
    BY <1>10, NoElems DEF StorageClearHistory, Emptied, Elems
  <2> QED BY <1>2, <1>10, <2>1
          DEF StorageClearHistory, Carriers, shared, persister, Elems
<1>11. CASE Receive
  <2>1. hand' \subseteq hand \cup Elems(entries)
    BY <1>11, FirstMatchFound DEF Receive
  <2> QED BY <1>2, <1>11, <2>1 DEF Receive, Carriers, shared, flash, producers, Elems
<1>12. CASE WakeIdle
  BY <1>2, <1>12 DEF WakeIdle, Carriers, shared, flash, producers, Elems
<1>13. ASSUME NEW e \in hand, AppendClose(e) PROVE Follows
  <2>1. file' \in {file, view, Append(file, e), Append(view, e)}
    BY <1>13 DEF AppendClose
  <2>2. Elems(file') \subseteq {e} \cup Elems(file) \cup Elems(view)
    <3>1. e \in Entry
      BY <1>0
    <3>2. /\ Elems(Append(file, e)) \subseteq {e} \cup Elems(file)
          /\ Elems(Append(view, e)) \subseteq {e} \cup Elems(view)
      BY <1>0, <3>1, ElemsAppend
    <3> QED BY <2>1, <3>2
  <2>3. view' = <<>> /\ hand' = {}
    BY <1>13 DEF AppendClose
  <2>4. Elems(view') = {}
    BY <2>3, NoElems
  <2>5. UNCHANGED <<entries, snap, held, intelHand>>
    BY <1>13 DEF AppendClose, shared, producers
  <2>6. Elems(entries') = Elems(entries) /\ Elems(snap') = Elems(snap)
    BY <2>5
  <2>7. Carriers' \subseteq Carriers
    BY <2>2, <2>3, <2>4, <2>5, <2>6 DEF Carriers
  <2> QED BY <1>2, <2>7
<1>20. CASE AppendOpen
  <2>1. Elems(view') \subseteq Elems(view) \cup Elems(file) /\ hand' \subseteq hand
    BY <1>20 DEF AppendOpen, Elems
  <2> QED BY <1>2, <1>20, <2>1 DEF AppendOpen, Carriers, flash, producers, Elems
<1>14. CASE Check
  <2>1. Elems(snap') \subseteq Elems(snap) \cup Elems(entries)
    BY <1>14 DEF Check, Elems
  <2> QED BY <1>2, <1>14, <2>1 DEF Check, Carriers, shared, flash, producers, Elems
<1>15. CASE RewriteOpen
  <2>1. Elems(file') \subseteq Elems(file) /\ Elems(snap') \subseteq Elems(snap)
    BY <1>15, NoElems DEF RewriteOpen, Emptied, Elems
  <2> QED BY <1>2, <1>15, <2>1 DEF RewriteOpen, Carriers, shared, producers, Elems
<1>16. CASE RewriteClose
  <2>1. Elems(file') \subseteq Elems(snap)
    <3>1. \/ file' = [i \in 1 .. Len(snap) |-> snap[Len(snap) + 1 - i]]
          \/ \E n \in 0 .. Len(snap) : \E g \in [1 .. n -> 1 .. Len(snap)] :
               file' = [i \in 1 .. n |-> snap[g[i]]]
      BY <1>16 DEF RewriteClose
    <3>2. CASE file' = [i \in 1 .. Len(snap) |-> snap[Len(snap) + 1 - i]]
      BY <1>0, <3>2, ElemsReversed
    <3>3. ASSUME NEW n \in 0 .. Len(snap), NEW g \in [1 .. n -> 1 .. Len(snap)],
                 file' = [i \in 1 .. n |-> snap[g[i]]]
          PROVE  Elems(file') \subseteq Elems(snap)
      <4>1. n \in Nat
        OBVIOUS
      <4> DEFINE r == [i \in 1 .. n |-> snap[g[i]]]
      <4>2. snap \in Seq(Entry)
        BY <1>0
      <4>3. Elems(r) \subseteq Elems(snap)
        <5>1. DOMAIN r = 1 .. n /\ \A i \in 1 .. n : r[i] = snap[g[i]]
          OBVIOUS
        <5>2. \A i \in 1 .. n : g[i] \in DOMAIN snap
          BY <4>2
        <5> HIDE DEF r
        <5> QED BY <5>1, <5>2 DEF Elems
      <4>4. file' = r
        BY <3>3
      <4> HIDE DEF r
      <4> QED BY <4>3, <4>4
    <3> QED BY <3>1, <3>2, <3>3
  <2>2. Elems(snap') = {}
    BY <1>16, NoElems DEF RewriteClose
  <2> QED BY <1>2, <1>16, <2>1, <2>2 DEF RewriteClose, Carriers, shared, producers, Elems
<1>17. CASE RewriteReset
  BY <1>2, <1>17 DEF RewriteReset, Carriers, flash, producers, Elems
<1>18. CASE FlushShadow
  BY <1>2, <1>18 DEF FlushShadow, Carriers, shared, producers, Elems
<1>19. CASE Reboot
  <2>1. Elems(entries') \subseteq Elems(file)
    BY <1>19, LoadedFromFile DEF Reboot
  <2>2. /\ file' = file /\ view' = <<>> /\ snap' = <<>> /\ hand' = {}
        /\ held' = {} /\ intelHand' = {}
    BY <1>19 DEF Reboot, flash
  <2> QED BY <1>2, <2>1, <2>2, NoElems DEF Carriers, Elems
<1> QED BY <1>4, <1>5, <1>6, <1>7, <1>8, <1>9, <1>10, <1>11, <1>12, <1>13,
           <1>14, <1>15, <1>16, <1>17, <1>18, <1>19, <1>20
        DEF Next, Session, IntelStep, PersistTaskRun

(* Every step keeps ids unique.                                            *)
LEMMA StepUnique == ASSUME TypeOK, UniqueIds, Next PROVE UniqueIds'
<1>0. nextId \in Nat
  BY DEF TypeOK, SharedType
<1>1. CASE NextId
  BY <1>1, NextIdUnique
<1>2. CASE ClearAll
  <2>1. clears' # 0
    BY <1>2 DEF ClearAll, TypeOK, BoundsType
  <2> QED BY <2>1 DEF UniqueIds
<1>3. CASE Reboot
  BY <1>3, RebootUnique
<1>4. CASE ~ NextId /\ ~ ClearAll /\ ~ Reboot
  <2>1. Follows
    BY <1>4, CarriersFollow
  <2>2. nextId' = nextId \/ \E n \in 1 .. MaxId : BumpNextIdAtLeast(n)
    BY <1>4 DEF Next, Session, AppendEntry, Enqueue, IntelStep, IntelGet, UpdateEntry,
       StorageClearHistory, PersistTaskRun, Receive, WakeIdle, AppendOpen, AppendClose, Check,
       RewriteOpen, RewriteClose, RewriteReset, FlushShadow, shared
  <2>3. nextId' \in Nat /\ nextId <= nextId'
    BY <1>0, <2>2, LogAssumption DEF BumpNextIdAtLeast
  <2> QED BY <2>1, <2>3, ClearsGrow, CarriersKept DEF Follows
<1> QED BY <1>1, <1>2, <1>3, <1>4

(* Without a clear, an id names one attack wherever it appears and the     *)
(* counter is above it, through restarts, failed flash calls and the hub's *)
(* bumps (attack_log.cpp:116-196).                                         *)
THEOREM IdsUnique == Spec => []UniqueIds
<1>1. Init => UniqueIds
  BY NoElems DEF Init, UniqueIds, Carriers
<1>2. TypeOK /\ UniqueIds /\ [Next]_vars => UniqueIds'
  <2>1. ASSUME UniqueIds, UNCHANGED vars PROVE UniqueIds'
    BY <2>1 DEF vars, shared, flash, persister, producers, history, bounds,
                UniqueIds, Carriers, Elems
  <2> QED BY <2>1, StepUnique
<1> QED BY <1>1, <1>2, TypeCorrect, PTL DEF Spec

(***************************************************************************)
(* Durability of the flushed counter.                                      *)
(***************************************************************************)

(* Without a clear, the shadow and the value the persister carries never   *)
(* run ahead of the counter, and the persister carries one that is not     *)
(* behind the shadow when it comes to flush it.                            *)
CountersOrdered ==
    clears = 0 =>
        /\ shadow <= nextId /\ curNext <= nextId
        /\ pc \in {"open", "write", "reset", "nvs"} => shadow <= curNext

(* A step keeps the order, and neither lowers the shadow nor takes the     *)
(* counter below it.                                                       *)
LEMMA StepFlushed ==
    ASSUME TypeOK, CountersOrdered, Next, clears' = 0
    PROVE  CountersOrdered' /\ shadow' >= shadow /\ nextId' >= shadow
<1>1. /\ nextId \in Nat /\ shadow \in Nat /\ curNext \in Nat
      /\ lastPersisted \in Nat
  BY DEF TypeOK, SharedType, FlashType, PersisterType
<1>2. clears = 0
  BY ClearsGrow
<1>3. /\ shadow <= nextId /\ curNext <= nextId
      /\ pc \in {"open", "write", "reset", "nvs"} => shadow <= curNext
  BY <1>2 DEF CountersOrdered
<1>4. ASSUME UNCHANGED <<nextId, flash, persister>>
      PROVE  CountersOrdered' /\ shadow' >= shadow /\ nextId' >= shadow
  BY <1>1, <1>3, <1>4 DEF CountersOrdered, flash, persister
<1>5. CASE Session
  <2>1. CASE NextId
    BY <1>1, <1>3, <2>1 DEF NextId, CountersOrdered, flash, persister
  <2>2. ASSUME NEW t \in Finishers, NEW h \in held, AppendEntry(t, h)
        PROVE  UNCHANGED <<nextId, flash, persister>>
    BY <2>2 DEF AppendEntry
  <2> QED BY <1>4, <1>5, <2>1, <2>2 DEF Session
<1>6. ASSUME NEW t \in Tasks, Enqueue(t) PROVE UNCHANGED <<nextId, flash, persister>>
  BY <1>6 DEF Enqueue, shared
<1>7. CASE IntelStep
  <2>1. ASSUME NEW n \in 1 .. MaxId, BumpNextIdAtLeast(n)
        PROVE  CountersOrdered' /\ shadow' >= shadow /\ nextId' >= shadow
    <3>1. nextId' \in Nat /\ nextId' >= nextId
      BY <1>1, <2>1, LogAssumption DEF BumpNextIdAtLeast
    <3> QED BY <1>1, <1>3, <2>1, <3>1
            DEF BumpNextIdAtLeast, CountersOrdered, flash, persister
  <2>2. ASSUME NEW id \in todo, IntelGet(id)
        PROVE  UNCHANGED <<nextId, flash, persister>>
    BY <2>2 DEF IntelGet, shared
  <2>3. ASSUME NEW e \in intelHand, NEW again \in BOOLEAN, UpdateEntry(e, again)
        PROVE  UNCHANGED <<nextId, flash, persister>>
    BY <2>3 DEF UpdateEntry
  <2> QED BY <1>4, <1>7, <2>1, <2>2, <2>3 DEF IntelStep
<1>8. ~ ClearAll
  BY <1>1, <1>2 DEF ClearAll
<1>9. CASE StorageClearHistory
  BY <1>1, <1>3, <1>9 DEF StorageClearHistory, CountersOrdered, shared, persister
<1>10. CASE PersistTaskRun
  <2>1. CASE Receive
    BY <1>1, <1>3, <2>1 DEF Receive, CountersOrdered, shared, flash
  <2>2. CASE WakeIdle
    BY <1>1, <1>3, <2>2 DEF WakeIdle, CountersOrdered, shared, flash
  <2>3. ASSUME AppendOpen \/ \E e \in hand : AppendClose(e)
        PROVE  CountersOrdered' /\ shadow' >= shadow /\ nextId' >= shadow
    <3>1. /\ UNCHANGED <<nextId, shadow, curNext>>
          /\ pc' \in {"appending", "check"}
      BY <2>3 DEF AppendOpen, AppendClose, shared, flash
    <3> QED BY <1>1, <1>3, <3>1 DEF CountersOrdered
  <2>4. CASE Check
    BY <1>1, <1>3, <2>4 DEF Check, CountersOrdered, shared, flash
  <2>5. CASE RewriteOpen
    BY <1>1, <1>3, <2>5 DEF RewriteOpen, CountersOrdered, shared
  <2>6. CASE RewriteClose
    BY <1>1, <1>3, <2>6 DEF RewriteClose, CountersOrdered, shared
  <2>7. CASE RewriteReset
    BY <1>1, <1>3, <2>7 DEF RewriteReset, CountersOrdered, flash
  <2>8. CASE FlushShadow
    <3>1. /\ shadow' = shadow \/ shadow' = curNext
          /\ pc = "nvs" /\ pc' = "wait" /\ curNext' = curNext /\ nextId' = nextId
      BY <2>8 DEF FlushShadow, shared
    <3> QED BY <1>1, <1>3, <3>1 DEF CountersOrdered
  <2> QED BY <1>10, <2>1, <2>2, <2>3, <2>4, <2>5, <2>6, <2>7, <2>8 DEF PersistTaskRun
<1>11. CASE Reboot
  <2>1. shadow \in IdFloor
    BY DEF IdFloor
  <2>2. nextId' \in Nat /\ shadow <= nextId'
    BY <1>1, <1>11, <2>1, IdFloorType DEF Reboot
  <2>3. shadow' = shadow /\ curNext' = 0 /\ pc' = "wait"
    BY <1>11 DEF Reboot, flash
  <2> QED BY <1>1, <2>2, <2>3 DEF CountersOrdered
<1> QED BY <1>4, <1>5, <1>6, <1>7, <1>8, <1>9, <1>10, <1>11 DEF Next

(* Once a counter value reached NVS, no restart hands out an id below it   *)
(* again (attack_log.cpp:164-171, 362-368), as long as nobody clears.      *)
THEOREM FlushedStaysConsumed == Spec => FlushedIdsConsumed
<1> DEFINE Kept == clears' = 0 => shadow' >= shadow /\ nextId' >= shadow
<1>1. Init => CountersOrdered
  BY DEF Init, CountersOrdered
<1>2. TypeOK /\ CountersOrdered /\ [Next]_vars => CountersOrdered'
  <2>1. ASSUME CountersOrdered, UNCHANGED vars PROVE CountersOrdered'
    BY <2>1 DEF vars, shared, flash, persister, bounds, CountersOrdered
  <2>2. ASSUME clears' # 0 PROVE CountersOrdered'
    BY <2>2 DEF CountersOrdered
  <2> QED BY <2>1, <2>2, StepFlushed
<1>3. TypeOK /\ CountersOrdered /\ [Next]_vars => [Kept]_vars
  BY StepFlushed
<1> QED BY <1>1, <1>2, <1>3, TypeCorrect, PTL DEF Spec, FlushedIdsConsumed

(***************************************************************************)
(* The cap.                                                                *)
(***************************************************************************)

(* Only begin() lets the cache grow past the cap: append and update cut    *)
(* what they insert (attack_log.cpp:240-244, 277-304).                     *)
THEOREM GrowthIsCapped == Spec => GrowsWithinCap
<1> DEFINE Capped == Len(entries') > Len(entries) => Len(entries') <= Cap \/ boots' > boots
<1>1. TypeOK /\ [Next]_vars => [Capped]_vars
  <2> SUFFICES ASSUME TypeOK, Next PROVE Capped
    OBVIOUS
  <2>1. entries \in Seq(Entry) /\ Len(entries) \in Nat /\ boots \in Nat
    BY DEF TypeOK, SharedType, BoundsType
  <2>2. UNCHANGED entries => Capped
    BY <2>1
  <2>3. ASSUME NEW t \in Finishers, NEW h \in held, AppendEntry(t, h) PROVE Capped
    <3>1. [att |-> h.att, id |-> h.id, rev |-> 1] \in Entry
      BY DEF Entry, TypeOK, ProducersType
    <3> QED BY <2>1, <2>3, <3>1, PushProperties DEF AppendEntry
  <2>4. ASSUME NEW e \in intelHand, NEW again \in BOOLEAN, UpdateEntry(e, again)
        PROVE  Capped
    <3> DEFINE new == [e EXCEPT !.rev = @ + 1]
    <3>1. e \in Entry
      BY DEF TypeOK, ProducersType
    <3>2. new \in Entry
      BY <3>1 DEF Entry
    <3>3. entries' = IF Lookup(e.id) # {}
                     THEN [entries EXCEPT ![FirstMatch(e.id)] = new]
                     ELSE EnforceCap(<<new>> \o entries)
      BY <2>4 DEF UpdateEntry
    <3> HIDE DEF new
    <3>4. CASE Lookup(e.id) # {}
      <4>1. Len(entries') = Len(entries)
        BY <2>1, <3>2, <3>3, <3>4, FirstMatchFound, ElemsExcept
      <4> QED BY <2>1, <4>1
    <3>5. CASE Lookup(e.id) = {}
      BY <2>1, <3>2, <3>3, <3>5, PushProperties
    <3> QED BY <3>4, <3>5
  <2>5. CASE ClearAll
    <3>1. Len(entries') = 0
      BY <2>5 DEF ClearAll
    <3> QED BY <2>1, <3>1
  <2>6. CASE Reboot
    <3>1. boots' > boots
      BY <2>1, <2>6 DEF Reboot
    <3> QED BY <3>1
  <2> HIDE DEF Capped
  <2>7. CASE NextId \/ StorageClearHistory \/ \E t \in Tasks : Enqueue(t)
    BY <2>2, <2>7 DEF NextId, StorageClearHistory, Enqueue, shared
  <2>8. CASE PersistTaskRun
    BY <2>2, <2>8 DEF PersistTaskRun, Receive, WakeIdle, AppendOpen, AppendClose, Check,
       RewriteOpen, RewriteClose, RewriteReset, FlushShadow, shared
  <2>9. CASE IntelStep
    BY <2>2, <2>4, <2>9 DEF IntelStep, IntelGet, BumpNextIdAtLeast, shared
  <2> QED BY <2>3, <2>5, <2>6, <2>7, <2>8, <2>9 DEF Next, Session
<1> QED BY <1>1, TypeCorrect, PTL DEF Spec, GrowsWithinCap

(***************************************************************************)
(* The length of the file.                                                 *)
(***************************************************************************)

(* Tasks between their locked half and the notification.                   *)
Notifying == {t \in Tasks : pend[t] # 0}

(* What the persister may still append without another change of the log.  *)
InFlight == Len(queue) + Cardinality(Notifying) + Cardinality(hand)

(* The lines a compaction can leave behind, and those it can find on their *)
(* way.                                                                    *)
Slack == Cap + QueueLen + Cardinality(Tasks)

(* The persister holds one entry while it appends and none otherwise.      *)
OneInHand == IF pc \in {"append", "appending"} THEN \E e \in Entry : hand = {e} ELSE hand = {}

(* So the hand holds one entry or none.                                    *)
HandCounted ==
    Cardinality(hand) = IF pc \in {"append", "appending"} THEN 1 ELSE 0

(* The cache and its snapshots respect the cap; every line and every       *)
(* notification since the last reset was counted as a change; and the file *)
(* is at the threshold only between an append and the compaction decision. *)
LinesAccounted ==
    /\ Len(entries) <= Cap /\ Len(snap) <= Cap
    /\ Len(file) + InFlight <= Slack + sinceCompact
    /\ Len(file) <= Slack + UpdateCompactN
    /\ pc \in {"nvs", "wait", "append", "appending"} => Len(file) < Slack + UpdateCompactN
    /\ pc = "reset" => Len(file) <= Cap

(* What holds until a restart or a fault.                                  *)
FileInv == boots = 0 /\ faults = 0 => LinesAccounted

(* There are finitely many tasks.                                          *)
LEMMA TasksFinite == IsFiniteSet(Tasks) /\ Cardinality(Tasks) \in Nat
<1>1. IsFiniteSet(Tasks)
  BY LogAssumption, FS_AddElement DEF Tasks
<1> QED BY <1>1, FS_CardinalityType

(* The tasks about to notify are counted, and one task changes the count   *)
(* by one at most.                                                         *)
LEMMA NotifyingCount ==
    ASSUME NEW p \in [Tasks -> Nat]
    PROVE  LET n == Cardinality({t \in Tasks : p[t] # 0})
           IN  /\ n \in Nat /\ n <= Cardinality(Tasks)
               /\ \A t \in Tasks, v \in Nat :
                    LET m == Cardinality({u \in Tasks : [p EXCEPT ![t] = v][u] # 0})
                    IN  m \in Nat /\ m <= n + 1 /\ (v = 0 /\ p[t] # 0 => m = n - 1)
<1> DEFINE N == {t \in Tasks : p[t] # 0}
<1>1. IsFiniteSet(N) /\ Cardinality(N) <= Cardinality(Tasks)
  BY TasksFinite, FS_Subset
<1>2. Cardinality(N) \in Nat
  BY <1>1, FS_CardinalityType
<1>3. ASSUME NEW t \in Tasks, NEW v \in Nat
      PROVE  LET m == Cardinality({u \in Tasks : [p EXCEPT ![t] = v][u] # 0})
             IN  m \in Nat /\ m <= Cardinality(N) + 1
                 /\ (v = 0 /\ p[t] # 0 => m = Cardinality(N) - 1)
  <2> DEFINE M == {u \in Tasks : [p EXCEPT ![t] = v][u] # 0}
  <2>1. M \subseteq N \cup {t}
    OBVIOUS
  <2>2. IsFiniteSet(N \cup {t}) /\ Cardinality(N \cup {t}) <= Cardinality(N) + 1
    BY <1>1, <1>2, FS_AddElement
  <2>3. v = 0 => M = N \ {t}
    OBVIOUS
  <2>4. p[t] # 0 => t \in N
    OBVIOUS
  <2> HIDE DEF M, N
  <2>5. IsFiniteSet(M) /\ Cardinality(M) <= Cardinality(N \cup {t})
    BY <2>1, <2>2, FS_Subset
  <2>6. Cardinality(M) \in Nat /\ Cardinality(N \cup {t}) \in Nat
    BY <2>2, <2>5, FS_CardinalityType
  <2>7. t \in N => Cardinality(N \ {t}) = Cardinality(N) - 1
    BY <1>1, FS_RemoveElement
  <2>8. /\ Cardinality(M) \in Nat /\ Cardinality(M) <= Cardinality(N) + 1
        /\ v = 0 /\ p[t] # 0 => Cardinality(M) = Cardinality(N) - 1
    BY <1>2, <2>2, <2>3, <2>4, <2>5, <2>6, <2>7
  <2> QED BY <2>8 DEF M
<1> QED BY <1>1, <1>2, <1>3 DEF N

(* The lengths and counts the invariant adds up.                           *)
CountsTyped ==
    /\ Len(queue) \in Nat /\ Len(queue) <= QueueLen
    /\ Len(file) \in Nat /\ Len(entries) \in Nat /\ Len(snap) \in Nat
    /\ sinceCompact \in Nat
    /\ Cardinality(Notifying) \in Nat
    /\ Cardinality(Notifying) <= Cardinality(Tasks)

(* They are naturals, within the queue and the tasks.                      *)
LEMMA CountTypes == TypeOK => CountsTyped
<1> SUFFICES ASSUME TypeOK PROVE CountsTyped
  OBVIOUS
<1>1. /\ Len(queue) \in Nat /\ Len(queue) <= QueueLen
      /\ Len(file) \in Nat /\ Len(entries) \in Nat /\ Len(snap) \in Nat
      /\ sinceCompact \in Nat
  BY DEF TypeOK, QueueType, FlashType, SharedType, PersisterType
<1>2. /\ Cardinality(Notifying) \in Nat
      /\ Cardinality(Notifying) <= Cardinality(Tasks)
  <2>1. pend \in [Tasks -> Nat]
    BY DEF TypeOK, ProducersType
  <2> QED BY <2>1, NotifyingCount DEF Notifying
<1> QED BY <1>1, <1>2 DEF CountsTyped

(* The slack is room for a snapshot and everything on its way.             *)
LEMMA SlackType ==
    /\ Slack \in Nat /\ Cap \in Nat /\ QueueLen \in Nat /\ Cardinality(Tasks) \in Nat
    /\ Slack = Cap + QueueLen + Cardinality(Tasks)
    /\ Cap < Slack /\ QueueLen + Cardinality(Tasks) < Slack
    /\ UpdateCompactN \in Nat \ {0}
<1>1. UpdateCompactN \in Nat \ {0} /\ Cap \in Nat \ {0} /\ QueueLen \in Nat \ {0}
  BY LogAssumption
<1> QED BY <1>1, TasksFinite DEF Slack

(* A step of the other tasks: the file is left alone or emptied, and what  *)
(* it sends towards the persister it counts as a change.                   *)
LEMMA LinesKept ==
    ASSUME TypeOK, TypeOK', HandCounted, LinesAccounted, UNCHANGED <<pc, snap, hand>>,
           Len(entries') <= Cap, Len(file') <= Len(file),
           Len(queue') + Cardinality(Notifying') + sinceCompact
             <= Len(queue) + Cardinality(Notifying) + sinceCompact'
    PROVE  LinesAccounted'
<1>0. pc' = pc /\ snap' = snap /\ hand' = hand
  OBVIOUS
<1>1. CountsTyped
  BY CountTypes
<1>2. CountsTyped'
  BY CountTypes, PTL
<1>3. Cardinality(hand') = Cardinality(hand)
  BY <1>0
<1>4. Cardinality(hand) \in Nat
  <2>1. Cardinality(hand) = 0 \/ Cardinality(hand) = 1
    BY DEF HandCounted
  <2> QED BY <2>1
<1>n. /\ Len(queue) \in Nat /\ Len(file) \in Nat /\ sinceCompact \in Nat
      /\ Cardinality(Notifying) \in Nat
      /\ Len(queue') \in Nat /\ Len(file') \in Nat /\ sinceCompact' \in Nat
      /\ Cardinality(Notifying') \in Nat
      /\ Slack \in Nat /\ UpdateCompactN \in Nat
  BY <1>1, <1>2, SlackType DEF CountsTyped
<1>5. Len(file') + InFlight' <= Slack + sinceCompact'
  <2> DEFINE a == Len(queue) + Cardinality(Notifying)
             b == Len(queue') + Cardinality(Notifying')
             h == Cardinality(hand)
             c == sinceCompact
             d == sinceCompact'
             k == Slack
             l == Len(file)
             m == Len(file')
  <2>1. /\ a \in Nat /\ b \in Nat /\ h \in Nat /\ c \in Nat /\ d \in Nat
        /\ k \in Nat /\ l \in Nat /\ m \in Nat
    BY <1>n, <1>4
  <2>2. InFlight = a + h /\ InFlight' = b + h
    BY <1>3 DEF InFlight
  <2>3. b + c <= a + d /\ m <= l
    OBVIOUS
  <2>4. l + (a + h) <= k + c
    BY <2>2 DEF LinesAccounted
  <2>5. m + (b + h) <= k + d
    <3> HIDE DEF a, b, c, d, h, k, l, m
    <3> QED BY <2>1, <2>3, <2>4
  <2> QED BY <2>2, <2>5
<1>6. /\ Len(file') <= Slack + UpdateCompactN
      /\ pc \in {"nvs", "wait", "append", "appending"} => Len(file') < Slack + UpdateCompactN
      /\ pc = "reset" => Len(file') <= Cap
  <2> DEFINE l == Len(file)
             m == Len(file')
             k == Slack
  <2>1. /\ l <= k + UpdateCompactN
        /\ pc \in {"nvs", "wait", "append", "appending"} => l < k + UpdateCompactN
        /\ pc = "reset" => l <= Cap
    BY DEF LinesAccounted
  <2>2. l \in Nat /\ m \in Nat /\ k \in Nat /\ UpdateCompactN \in Nat /\ Cap \in Nat
    BY <1>n, SlackType
  <2>3. m <= l
    OBVIOUS
  <2> HIDE DEF l, m, k
  <2>4. m <= k + UpdateCompactN
    BY <2>1, <2>2, <2>3
  <2>5. l < k + UpdateCompactN => m < k + UpdateCompactN
    BY <2>2, <2>3
  <2>6. l <= Cap => m <= Cap
    BY <2>2, <2>3
  <2> QED BY <2>1, <2>4, <2>5, <2>6 DEF l, m, k
<1>7. pc' \in {"nvs", "wait", "append", "appending"} => Len(file') < Slack + UpdateCompactN
  BY <1>0, <1>6
<1>8. pc' = "reset" => Len(file') <= Cap
  BY <1>0, <1>6
<1>9. Len(entries') <= Cap /\ Len(snap') <= Cap
  BY <1>0 DEF LinesAccounted
<1>10. Slack' = Slack
  BY DEF Slack
<1> QED BY <1>5, <1>6, <1>7, <1>8, <1>9, <1>10 DEF LinesAccounted

(* What is in flight fits the queue, the tasks and the persister's hand.   *)
InFlightFits ==
    /\ InFlight \in Nat
    /\ InFlight <= QueueLen + Cardinality(Tasks) + 1
    /\ pc \notin {"append", "appending"} => InFlight <= QueueLen + Cardinality(Tasks)

(* It does, by the types and the counts.                                   *)
LEMMA InFlightBound == TypeOK /\ HandCounted => InFlightFits
<1> SUFFICES ASSUME TypeOK, HandCounted PROVE InFlightFits
  OBVIOUS
<1> DEFINE q == Len(queue)
           w == Cardinality(Notifying)
           h == Cardinality(hand)
           t == Cardinality(Tasks)
<1>1. /\ q \in Nat /\ w \in Nat /\ t \in Nat /\ q <= QueueLen /\ w <= t
      /\ QueueLen \in Nat
  BY CountTypes, SlackType DEF CountsTyped
<1>2. /\ h = 0 \/ h = 1
      /\ pc \notin {"append", "appending"} => h = 0
  BY DEF HandCounted
<1>3. InFlight = q + w + h
  BY DEF InFlight
<1>4. q + w + h \in Nat /\ q + w + h <= QueueLen + t + 1
  <2> HIDE DEF q, w, h, t
  <2> QED BY <1>1, <1>2
<1>5. h = 0 => q + w + h <= QueueLen + t
  <2> HIDE DEF q, w, h, t
  <2> QED BY <1>1
<1> QED BY <1>2, <1>3, <1>4, <1>5 DEF InFlightFits

(* The persister changes its hand only as it enters or leaves the append.  *)
LEMMA StepHand == ASSUME TypeOK, OneInHand, Next PROVE OneInHand'
<1>1. ASSUME UNCHANGED <<pc, hand>> PROVE OneInHand'
  BY <1>1 DEF OneInHand
<1>2. CASE Session \/ (\E t \in Tasks : Enqueue(t)) \/ IntelStep \/ ClearAll
           \/ StorageClearHistory
  BY <1>1, <1>2 DEF Session, NextId, AppendEntry, Enqueue, IntelStep, IntelGet,
     BumpNextIdAtLeast, UpdateEntry, ClearAll, StorageClearHistory, persister
<1>3. CASE PersistTaskRun
  <2>1. CASE Receive
    <3>1. pc = "wait" /\ hand' \in SUBSET Entry
      BY <2>1, PersistType, <1>3 DEF Receive, TypeOK, PersisterType
    <3>2. \/ pc' = "check" /\ hand' = hand
          \/ pc' = "append" /\ \E x : hand' = {x}
      BY <2>1, Zenon DEF Receive
    <3> QED BY <3>1, <3>2 DEF OneInHand
  <2>2. CASE WakeIdle
    BY <2>2 DEF WakeIdle, OneInHand
  <2>3. ASSUME AppendOpen \/ \E e \in hand : AppendClose(e) PROVE OneInHand'
    BY <2>3 DEF AppendOpen, AppendClose, OneInHand
  <2>4. CASE Check
    BY <2>4 DEF Check, OneInHand
  <2>5. CASE RewriteOpen
    BY <2>5 DEF RewriteOpen, OneInHand
  <2>6. CASE RewriteClose
    BY <2>6 DEF RewriteClose, OneInHand
  <2>7. CASE RewriteReset
    BY <2>7 DEF RewriteReset, OneInHand
  <2>8. CASE FlushShadow
    BY <2>8 DEF FlushShadow, OneInHand
  <2> QED BY <1>3, <2>1, <2>2, <2>3, <2>4, <2>5, <2>6, <2>7, <2>8 DEF PersistTaskRun
<1>4. CASE Reboot
  BY <1>4 DEF Reboot, OneInHand
<1> QED BY <1>2, <1>3, <1>4 DEF Next

(* The persister works on one entry at a time (attack_log.cpp:311-333).    *)
LEMMA HandHolds == Spec => []OneInHand
<1>1. Init => OneInHand
  BY DEF Init, OneInHand
<1>2. TypeOK /\ OneInHand /\ [Next]_vars => OneInHand'
  <2>1. ASSUME OneInHand, UNCHANGED vars PROVE OneInHand'
    BY <2>1 DEF vars, persister, OneInHand
  <2> QED BY <2>1, StepHand
<1> QED BY <1>1, <1>2, TypeCorrect, PTL DEF Spec

(* One entry or none, counted.                                             *)
LEMMA HandCount == OneInHand => HandCounted
BY FS_EmptySet, FS_Singleton DEF OneInHand, HandCounted

(* The persister's steps, when no flash call fails.                        *)
LEMMA PersistLines ==
    ASSUME TypeOK, TypeOK', HandCounted, HandCounted', LinesAccounted,
           PersistTaskRun, faults' = faults
    PROVE  LinesAccounted'
<1> DEFINE l == Len(file)
           m == Len(file')
           q == Len(queue)
           r == Len(queue')
           w == Cardinality(Notifying)
           h == Cardinality(hand)
           g == Cardinality(hand')
           c == sinceCompact
           d == sinceCompact'
           k == Slack
           u == UpdateCompactN
           i == InFlight
           j == InFlight'
           n == QueueLen + Cardinality(Tasks)
<1>1. /\ l \in Nat /\ m \in Nat /\ q \in Nat /\ r \in Nat /\ w \in Nat
      /\ c \in Nat /\ d \in Nat /\ k \in Nat /\ u \in Nat /\ 1 <= u /\ n \in Nat
      /\ Cap \in Nat /\ k = Cap + n
  <2>1. CountsTyped /\ CountsTyped'
    BY CountTypes, PTL
  <2>2. /\ l \in Nat /\ m \in Nat /\ q \in Nat /\ r \in Nat /\ w \in Nat
        /\ c \in Nat /\ d \in Nat
    BY <2>1 DEF CountsTyped
  <2> HIDE DEF l, m, q, r, w, c, d
  <2>3. k \in Nat /\ u \in Nat /\ 1 <= u /\ Cap \in Nat
    BY SlackType
  <2>4. n \in Nat /\ k = Cap + n
    BY SlackType
  <2> QED BY <2>2, <2>3, <2>4
<1>2. /\ h \in Nat /\ g \in Nat
      /\ pc \in {"append", "appending"} => h = 1
      /\ pc \notin {"append", "appending"} => h = 0
      /\ pc' \in {"append", "appending"} => g = 1
      /\ pc' \notin {"append", "appending"} => g = 0
  BY DEF HandCounted
<1>3. /\ i \in Nat /\ j \in Nat
      /\ i <= n + 1 /\ j <= n + 1
      /\ pc \notin {"append", "appending"} => i <= n
      /\ pc' \notin {"append", "appending"} => j <= n
  <2>1. InFlightFits /\ InFlightFits'
    BY InFlightBound, PTL
  <2> QED BY <2>1 DEF InFlightFits
<1>4. i = q + w + h
  BY DEF InFlight
<1>5. Notifying' = Notifying => j = r + w + g
  BY DEF InFlight
<1>6. /\ Len(entries) <= Cap /\ Len(snap) <= Cap
      /\ l + i <= k + c
      /\ l <= k + u
      /\ pc \in {"nvs", "wait", "append", "appending"} => l < k + u
      /\ pc = "reset" => l <= Cap
  BY DEF LinesAccounted
<1>7. ~ Fault
  <2>1. faults \in Nat
    BY DEF TypeOK, BoundsType
  <2> QED BY <2>1 DEF Fault
<1>8. SUFFICES /\ Len(entries') <= Cap /\ Len(snap') <= Cap
               /\ m + j <= k + d
               /\ m <= k + u
               /\ pc' \in {"nvs", "wait", "append", "appending"} => m < k + u
               /\ pc' = "reset" => m <= Cap
  BY DEF LinesAccounted, Slack
<1>9. Len(<<>>) = 0 /\ 0 <= Cap
  BY <1>1
<1>10. CASE Receive
  <2>1. /\ pc = "wait" /\ pc' \in {"check", "append"}
        /\ queue # <<>> /\ queue' = Tail(queue)
    BY <1>10 DEF Receive
  <2>2. /\ entries' = entries /\ snap' = snap /\ file' = file /\ d = c
        /\ Notifying' = Notifying
    BY <1>10 DEF Receive, shared, flash, producers, Notifying
  <2>3. r = q - 1
    <3>1. queue \in Seq(Nat)
      BY DEF TypeOK, QueueType
    <3> QED BY <2>1, <3>1
  <2>4. m = l
    BY <2>2
  <2>5. m + j <= k + d /\ m < k + u
    <3>1. /\ j = r + w + g /\ g <= 1 /\ h = 0 /\ l < k + u
      BY <1>2, <1>5, <1>6, <2>1, <2>2
    <3> HIDE DEF l, m, q, r, w, h, g, c, d, k, u, i, j, n
    <3> QED BY <1>1, <1>2, <1>3, <1>4, <1>6, <2>2, <2>3, <2>4, <3>1
  <2>6. m <= k + u
    <3> HIDE DEF m, k, u
    <3> QED BY <1>1, <2>5
  <2> QED BY <1>6, <2>1, <2>2, <2>5, <2>6
<1>11. CASE WakeIdle \/ FlushShadow
  <2>1. /\ pc' \in {"check", "wait"} /\ pc \in {"wait", "nvs"}
        /\ entries' = entries /\ snap' = snap /\ file' = file /\ d = c
        /\ Notifying' = Notifying /\ queue' = queue
    BY <1>11 DEF WakeIdle, FlushShadow, shared, flash, producers, Notifying
  <2>2. m = l /\ r = q /\ g = 0 /\ h = 0
    BY <1>2, <2>1
  <2>3. m + j <= k + d /\ m < k + u
    BY <1>4, <1>5, <1>6, <2>1, <2>2
  <2>4. m <= k + u
    <3> HIDE DEF m, k, u
    <3> QED BY <1>1, <2>3
  <2> QED BY <1>6, <2>1, <2>3, <2>4
<1>12. ASSUME NEW e \in hand, AppendClose(e)
       PROVE  /\ Len(entries') <= Cap /\ Len(snap') <= Cap
              /\ m + j <= k + d
              /\ m <= k + u
              /\ pc' \in {"nvs", "wait", "append", "appending"} => m < k + u
              /\ pc' = "reset" => m <= Cap
  <2>1. /\ pc = "appending" /\ pc' = "check"
        /\ file' = Append(file, e) \/ file' = file
        /\ entries' = entries /\ snap' = snap /\ d = c
        /\ Notifying' = Notifying /\ queue' = queue
    BY <1>7, <1>12 DEF AppendClose, shared, producers, Notifying
  <2>2. m = l + 1 \/ m = l
    <3>1. file \in Seq(Entry)
      BY DEF TypeOK, FlashType
    <3> QED BY <2>1, <3>1
  <2>3. r = q /\ h = 1 /\ g = 0 /\ l < k + u /\ j = r + w + g
    BY <1>2, <1>5, <1>6, <2>1
  <2>4. m + j <= k + d /\ m <= k + u
    <3> HIDE DEF l, m, q, r, w, h, g, c, d, k, u, i, j, n
    <3> QED BY <1>1, <1>2, <1>3, <1>4, <1>6, <2>1, <2>2, <2>3
  <2> QED BY <1>6, <2>1, <2>4
<1>17. CASE AppendOpen
  <2>1. /\ pc = "append" /\ pc' = "appending" /\ file' = file
        /\ entries' = entries /\ snap' = snap /\ d = c
        /\ Notifying' = Notifying /\ queue' = queue
    BY <1>7, <1>17 DEF AppendOpen, flash, producers, Notifying
  <2>2. m = l /\ r = q /\ h = 1 /\ g = 1 /\ l < k + u /\ j = r + w + g
    BY <1>2, <1>5, <1>6, <2>1
  <2>3. m + j <= k + d /\ m <= k + u /\ m < k + u
    <3> HIDE DEF l, m, q, r, w, h, g, c, d, k, u, i, j, n
    <3> QED BY <1>1, <1>4, <1>6, <2>1, <2>2
  <2> QED BY <1>6, <2>1, <2>3
<1>13. CASE Check
  <2>1. /\ file' = file /\ queue' = queue /\ d = c /\ entries' = entries
        /\ Notifying' = Notifying /\ pc = "check"
        /\ snap' = entries \/ snap' = snap
    BY <1>13 DEF Check, shared, flash, producers, Notifying
  <2>2. \/ pc' = "open"
        \/ pc' = "nvs" /\ ~ (c >= IF dirty THEN AppendCompactN ELSE UpdateCompactN)
    BY <1>13 DEF Check
  <2>3. pc' = "nvs" => c < u
    <3>1. AppendCompactN \in Nat /\ AppendCompactN <= u
      BY LogAssumption
    <3>2. CASE dirty
      BY <1>1, <2>2, <3>1, <3>2
    <3>3. CASE ~ dirty
      BY <1>1, <2>2, <3>3
    <3> QED BY <3>2, <3>3
  <2>4. m = l /\ j = i
    BY <1>2, <1>4, <1>5, <2>1, <2>2
  <2>5. m + j <= k + d /\ m <= k + u
    BY <1>6, <2>1, <2>4
  <2>6. c < u => m < k + u
    <3> HIDE DEF l, m, q, r, w, h, g, c, d, k, u, i, j, n
    <3> QED BY <1>1, <1>3, <1>6, <2>4
  <2> QED BY <1>6, <2>1, <2>2, <2>3, <2>5, <2>6
<1>14. CASE RewriteOpen
  <2>1. /\ pc = "open" /\ pc' = "write" /\ file' = <<>> /\ snap' = snap
        /\ entries' = entries /\ d = c /\ Notifying' = Notifying /\ queue' = queue
    BY <1>7, <1>14 DEF RewriteOpen, Emptied, shared, producers, Notifying
  <2>2. m = 0 /\ j = i
    BY <1>2, <1>4, <1>5, <1>9, <2>1
  <2>3. m + j <= k + d /\ m <= k + u
    <3> HIDE DEF l, m, q, r, w, h, g, c, d, k, u, i, j, n
    <3> QED BY <1>1, <1>3, <1>6, <2>1, <2>2
  <2> QED BY <1>6, <2>1, <2>3
<1>15. CASE RewriteClose
  <2>1. /\ pc = "write" /\ pc' = "reset" /\ snap' = <<>>
        /\ file' = [x \in 1 .. Len(snap) |-> snap[Len(snap) + 1 - x]]
        /\ entries' = entries /\ d = c /\ Notifying' = Notifying /\ queue' = queue
    BY <1>7, <1>15 DEF RewriteClose, shared, producers, Notifying
  <2>2. m = Len(snap)
    <3>1. Len(snap) \in Nat
      BY DEF TypeOK, PersisterType
    <3> QED BY <2>1, <3>1
  <2>3. m <= Cap /\ j = i /\ i <= n
    BY <1>2, <1>3, <1>4, <1>5, <1>6, <2>1, <2>2
  <2>4. m + j <= k + d /\ m <= k + u
    <3> HIDE DEF l, m, q, r, w, h, g, c, d, k, u, i, j, n
    <3> QED BY <1>1, <1>3, <2>3
  <2> QED BY <1>6, <1>9, <2>1, <2>3, <2>4
<1>16. CASE RewriteReset
  <2>1. /\ pc = "reset" /\ pc' = "nvs" /\ snap' = snap /\ file' = file
        /\ entries' = entries /\ d = 0 /\ Notifying' = Notifying /\ queue' = queue
    BY <1>16 DEF RewriteReset, flash, producers, Notifying
  <2>2. m = l /\ l <= Cap /\ j = i /\ i <= n
    BY <1>2, <1>3, <1>4, <1>5, <1>6, <2>1
  <2>3. m + j <= k + d /\ m <= k + u
    <3> HIDE DEF l, m, q, r, w, h, g, c, d, k, u, i, j, n
    <3> QED BY <1>1, <1>3, <2>1, <2>2
  <2>4. m < k + u
    <3> HIDE DEF l, m, q, r, w, h, g, c, d, k, u, i, j, n
    <3> QED BY <1>1, <2>2
  <2> QED BY <1>6, <2>1, <2>3, <2>4
<1> QED BY <1>10, <1>11, <1>12, <1>13, <1>14, <1>15, <1>16, <1>17 DEF PersistTaskRun

(* The other tasks' steps.                                                 *)
LEMMA OthersLines ==
    ASSUME TypeOK, TypeOK', HandCounted, LinesAccounted, faults' = faults,
           Session \/ (\E t \in Tasks : Enqueue(t)) \/ IntelStep \/ ClearAll
             \/ StorageClearHistory
    PROVE  LinesAccounted'
<1> DEFINE s == Len(queue) + Cardinality(Notifying) + sinceCompact'
           r == Len(queue') + Cardinality(Notifying') + sinceCompact
<1>1. /\ Len(queue) \in Nat /\ Cardinality(Notifying) \in Nat /\ sinceCompact \in Nat
      /\ Len(file) \in Nat
  BY CountTypes DEF CountsTyped
<1>2. /\ Len(entries) <= Cap /\ Len(snap) <= Cap
  BY DEF LinesAccounted
<1>3. Len(<<>>) = 0 /\ 0 <= Cap
  BY LogAssumption
<1>4. ~ Fault
  BY DEF TypeOK, BoundsType, Fault
<1>5. pend \in [Tasks -> Nat] /\ entries \in Seq(Entry) /\ Intel \in Tasks
  BY DEF TypeOK, ProducersType, SharedType, Tasks
<1>6. ASSUME NEW t \in Tasks, NEW v \in Nat, pend' = [pend EXCEPT ![t] = v]
      PROVE  /\ Cardinality(Notifying') \in Nat
             /\ Cardinality(Notifying') <= Cardinality(Notifying) + 1
             /\ v = 0 /\ pend[t] # 0
                  => Cardinality(Notifying') = Cardinality(Notifying) - 1
  <2>1. /\ Notifying' = {u \in Tasks : [pend EXCEPT ![t] = v][u] # 0}
        /\ Notifying = {u \in Tasks : pend[u] # 0}
    BY <1>6 DEF Notifying
  <2>2. LET m == Cardinality({u \in Tasks : [pend EXCEPT ![t] = v][u] # 0})
            n == Cardinality({u \in Tasks : pend[u] # 0})
        IN  m \in Nat /\ m <= n + 1 /\ (v = 0 /\ pend[t] # 0 => m = n - 1)
    BY <1>5, NotifyingCount
  <2> QED BY <2>1, <2>2
<1>7. ASSUME UNCHANGED <<entries, sinceCompact, queue, persister, pend>>,
             Len(file') <= Len(file)
      PROVE  LinesAccounted'
  <2>1. Notifying' = Notifying
    BY <1>7 DEF Notifying
  <2>2. r <= s
    BY <1>1, <1>7, <2>1
  <2>3. UNCHANGED <<pc, snap, hand>> /\ entries' = entries
    BY <1>7 DEF persister
  <2> QED BY <1>2, <1>7, <2>2, <2>3, LinesKept
<1>8. CASE NextId
  BY <1>1, <1>7, <1>8 DEF NextId, flash
<1>9. ASSUME NEW t \in Finishers, NEW h \in held, AppendEntry(t, h)
      PROVE  LinesAccounted'
  <2> DEFINE e == [att |-> h.att, id |-> h.id, rev |-> 1]
  <2>1. e \in Entry /\ h.id \in Nat /\ t \in Tasks
    BY DEF Entry, TypeOK, ProducersType, Tasks
  <2>2. Len(entries') <= Cap
    BY <1>5, <1>9, <2>1, PushProperties DEF AppendEntry
  <2>3. Cardinality(Notifying') \in Nat
        /\ Cardinality(Notifying') <= Cardinality(Notifying) + 1
    BY <1>6, <1>9, <2>1 DEF AppendEntry
  <2>4. queue' = queue /\ sinceCompact' = sinceCompact + 1 /\ file' = file
        /\ UNCHANGED <<pc, snap, hand>>
    BY <1>9 DEF AppendEntry, flash, persister
  <2>5. r <= s
    BY <1>1, <2>3, <2>4
  <2>6. Len(file') <= Len(file)
    BY <1>1, <2>4
  <2> QED BY <2>2, <2>4, <2>5, <2>6, LinesKept
<1>10. ASSUME NEW t \in Tasks, Enqueue(t) PROVE LinesAccounted'
  <2>1. Cardinality(Notifying') \in Nat
        /\ Cardinality(Notifying') = Cardinality(Notifying) - 1
    BY <1>6, <1>10 DEF Enqueue
  <2>2. Len(queue') \in Nat /\ Len(queue') <= Len(queue) + 1
    <3>1. queue \in Seq(Nat) /\ pend[t] \in Nat
      BY <1>5 DEF TypeOK, QueueType
    <3>2. queue' = Append(queue, pend[t]) \/ queue' = queue
      BY <1>10 DEF Enqueue
    <3> QED BY <1>1, <3>1, <3>2
  <2>3. sinceCompact' = sinceCompact /\ file' = file /\ entries' = entries
        /\ UNCHANGED <<pc, snap, hand>>
    BY <1>10 DEF Enqueue, shared, flash, persister
  <2>4. r <= s
    BY <1>1, <2>1, <2>2, <2>3
  <2>5. Len(file') <= Len(file) /\ Len(entries') <= Cap
    BY <1>1, <1>2, <2>3
  <2> QED BY <2>3, <2>4, <2>5, LinesKept
<1>11. ASSUME NEW id \in todo, IntelGet(id) PROVE LinesAccounted'
  BY <1>1, <1>7, <1>11 DEF IntelGet, shared, flash
<1>12. ASSUME NEW n \in 1 .. MaxId, BumpNextIdAtLeast(n) PROVE LinesAccounted'
  BY <1>1, <1>7, <1>12 DEF BumpNextIdAtLeast, flash, producers
<1>13. ASSUME NEW e \in intelHand, NEW again \in BOOLEAN, UpdateEntry(e, again)
       PROVE  LinesAccounted'
  <2> DEFINE new == [e EXCEPT !.rev = @ + 1]
  <2>1. e \in Entry
    BY DEF TypeOK, ProducersType
  <2>2. new \in Entry /\ e.id \in Nat
    BY <2>1 DEF Entry
  <2>3. entries' = IF Lookup(e.id) # {}
                   THEN [entries EXCEPT ![FirstMatch(e.id)] = new]
                   ELSE EnforceCap(<<new>> \o entries)
    BY <1>13 DEF UpdateEntry
  <2> HIDE DEF new
  <2>4. Len(entries') <= Cap
    <3>1. CASE Lookup(e.id) # {}
      BY <1>2, <1>5, <2>2, <2>3, <3>1, FirstMatchFound, ElemsExcept
    <3>2. CASE Lookup(e.id) = {}
      BY <1>5, <2>2, <2>3, <3>2, PushProperties
    <3> QED BY <3>1, <3>2
  <2>5. Cardinality(Notifying') \in Nat
        /\ Cardinality(Notifying') <= Cardinality(Notifying) + 1
    BY <1>5, <1>6, <1>13, <2>2 DEF UpdateEntry
  <2>6. queue' = queue /\ sinceCompact' = sinceCompact + 1 /\ file' = file
        /\ UNCHANGED <<pc, snap, hand>>
    BY <1>13 DEF UpdateEntry, flash, persister
  <2>7. r <= s
    BY <1>1, <2>5, <2>6
  <2>8. Len(file') <= Len(file)
    BY <1>1, <2>6
  <2> QED BY <2>4, <2>6, <2>7, <2>8, LinesKept
<1>14. CASE ClearAll
  <2>1. /\ entries' = <<>> /\ file' = <<>> /\ sinceCompact' = 0 /\ queue' = queue
        /\ pend' = pend /\ snap' = snap /\ pc' = pc /\ hand' = hand
    BY <1>4, <1>14 DEF ClearAll, Emptied, persister
  <2> DEFINE i == InFlight
             n == QueueLen + Cardinality(Tasks)
             k == Slack
             u == UpdateCompactN
  <2>2. InFlight' = InFlight
    BY <2>1 DEF InFlight, Notifying
  <2>3. i \in Nat /\ i <= n + 1 /\ n \in Nat /\ k = Cap + n /\ Cap \in Nat /\ 1 <= Cap
        /\ u \in Nat /\ 1 <= u
    BY InFlightBound, SlackType, LogAssumption DEF InFlightFits
  <2>4. 0 + i <= k + 0 /\ 0 <= k + u /\ 0 < k + u
    <3> HIDE DEF i, n, k, u
    <3> QED BY <2>3
  <2>5. Slack' = Slack
    BY DEF Slack
  <2> QED BY <1>2, <1>3, <2>1, <2>2, <2>4, <2>5 DEF LinesAccounted
<1>15. CASE StorageClearHistory
  <2>1. file' = <<>>
    BY <1>4, <1>15 DEF StorageClearHistory, Emptied
  <2>2. Len(file') <= Len(file)
    BY <1>1, <1>3, <2>1
  <2> QED BY <1>7, <1>15, <2>2 DEF StorageClearHistory, shared
<1> QED BY <1>8, <1>9, <1>10, <1>11, <1>12, <1>13, <1>14, <1>15 DEF Session, IntelStep

(* Between two restarts without a fault, compaction keeps the file short:  *)
(* a snapshot, what was on its way to the persister at the reset, and      *)
(* fewer than a threshold of new lines (attack_log.cpp:246-285, 300-365).  *)
THEOREM FileStaysShort == Spec => []FileBounded
<1>1. Init => FileInv
  <2> SUFFICES ASSUME Init PROVE FileInv
    OBVIOUS
  <2>1. /\ entries = <<>> /\ snap = <<>> /\ file = <<>> /\ queue = <<>> /\ pc = "wait"
        /\ hand = {} /\ sinceCompact = 0 /\ pend = [t \in Tasks |-> 0]
    BY DEF Init
  <2>2. Notifying = {}
    BY <2>1 DEF Notifying
  <2>3. Cardinality({}) = 0 /\ Len(<<>>) = 0
    BY FS_EmptySet
  <2>4. InFlight = 0
    BY <2>1, <2>2, <2>3 DEF InFlight
  <2>5. 0 <= Cap /\ 0 + 0 <= Slack + 0 /\ 0 <= Slack + UpdateCompactN
        /\ 0 < Slack + UpdateCompactN
    BY SlackType
  <2> QED BY <2>1, <2>3, <2>4, <2>5 DEF FileInv, LinesAccounted
<1>2. TypeOK /\ OneInHand /\ OneInHand' /\ FileInv /\ [Next]_vars => FileInv'
  <2> SUFFICES ASSUME TypeOK, OneInHand, OneInHand', FileInv, [Next]_vars PROVE FileInv'
    OBVIOUS
  <2>1. TypeOK'
    BY NextType
  <2>2. CASE UNCHANGED vars
    BY <2>2 DEF vars, shared, flash, persister, producers, history, bounds, FileInv,
       LinesAccounted, InFlight, Notifying, Slack
  <2>3. CASE Next
    <3>1. HandCounted /\ HandCounted'
      BY HandCount, PTL
    <3>2. SUFFICES ASSUME boots' = 0, faults' = 0 PROVE LinesAccounted'
      BY DEF FileInv
    <3>3. ~ Reboot
      BY <3>2 DEF Reboot, TypeOK, BoundsType
    <3>4. /\ boots \in Nat /\ faults \in Nat
          /\ boots' = boots \/ boots' = boots + 1
          /\ faults' = faults \/ faults' = faults + 1
      <4>1. boots \in Nat /\ faults \in Nat
        BY DEF TypeOK, BoundsType
      <4> QED BY <2>3, <4>1
          DEF Next, Session, NextId, AppendEntry, Enqueue, IntelStep, IntelGet,
              BumpNextIdAtLeast, UpdateEntry, ClearAll, StorageClearHistory, Fault,
              PersistTaskRun, Receive, WakeIdle, AppendOpen, AppendClose, Check, RewriteOpen,
              RewriteClose, RewriteReset, FlushShadow, Reboot, bounds
    <3>5. boots = 0 /\ faults = 0
      BY <3>2, <3>4
    <3>6. LinesAccounted /\ faults' = faults
      BY <3>2, <3>5 DEF FileInv
    <3> QED BY <2>1, <2>3, <3>1, <3>3, <3>6, OthersLines, PersistLines DEF Next
  <2> QED BY <2>2, <2>3
<1>3. FileInv => FileBounded
  BY DEF FileInv, LinesAccounted, FileBounded, Slack
<1> QED BY <1>1, <1>2, <1>3, TypeCorrect, HandHolds, PTL DEF Spec

(***************************************************************************)
(* The coverage of the cache.                                              *)
(***************************************************************************)

(* The entries a scan of s for their id returns.                           *)
Found(s) == {s[i] : i \in {j \in DOMAIN s : \A k \in 1 .. j - 1 : s[k].id # s[j].id}}

(* The lines of f begin() loads: the last one of their id.                 *)
Latest(f) ==
    {f[i] : i \in {j \in DOMAIN f : \A k \in j + 1 .. Len(f) : f[k].id # f[j].id}}

(* Every id of a file has a last line.                                     *)
LEMMA LastLineFound ==
    ASSUME NEW f \in Seq(Entry), NEW id \in FileIds(f)
    PROVE  /\ LastLine(f, id) \in DOMAIN f
           /\ f[LastLine(f, id)].id = id
           /\ \A j \in LastLine(f, id) + 1 .. Len(f) : f[j].id # id
           /\ f[LastLine(f, id)] \in Latest(f)
<1> DEFINE D == {Len(f) - i : i \in {j \in DOMAIN f : f[j].id = id}}
<1>1. D \in SUBSET Nat /\ D # {}
  BY DEF FileIds
<1>2. PICK d \in D : \A e \in D : d <= e
  <2> HIDE DEF D
  <2> QED BY <1>1, LeastNatural
<1>3. PICK i \in DOMAIN f : d = Len(f) - i /\ f[i].id = id
  OBVIOUS
<1>4. ASSUME NEW j \in i + 1 .. Len(f) PROVE f[j].id # id
  <2>1. j \in DOMAIN f /\ Len(f) - j < Len(f) - i
    BY <1>3
  <2>2. ASSUME f[j].id = id PROVE FALSE
    <3>1. Len(f) - j \in D
      BY <2>1, <2>2
    <3>2. d <= Len(f) - j
      BY <1>2, <3>1
    <3> QED BY <1>3, <2>1, <3>2
  <2> QED BY <2>2
<1>5. \E x \in DOMAIN f : f[x].id = id /\ \A j \in x + 1 .. Len(f) : f[j].id # id
  BY <1>3, <1>4
<1>6. /\ LastLine(f, id) \in DOMAIN f
      /\ f[LastLine(f, id)].id = id
      /\ \A j \in LastLine(f, id) + 1 .. Len(f) : f[j].id # id
  BY <1>5 DEF LastLine
<1>7. f[LastLine(f, id)] \in Latest(f)
  <2> HIDE DEF D
  <2> QED BY <1>6 DEF Latest
<1> QED BY <1>6, <1>7

(* An entry is on file when it is the last line of its id.                 *)
LEMMA OnFileMeansLatest ==
    ASSUME NEW f \in Seq(Entry), NEW e
    PROVE  (/\ e.id \in FileIds(f)
            /\ {f[i] : i \in {j \in DOMAIN f : j = LastLine(f, e.id)}} = {e})
             <=> e \in Latest(f)
<1>1. ASSUME e.id \in FileIds(f),
             {f[i] : i \in {j \in DOMAIN f : j = LastLine(f, e.id)}} = {e}
      PROVE  e \in Latest(f)
  <2>1. e = f[LastLine(f, e.id)]
    BY <1>1, LastLineFound
  <2> QED BY <1>1, <2>1, LastLineFound
<1>2. ASSUME e \in Latest(f)
      PROVE  /\ e.id \in FileIds(f)
             /\ {f[i] : i \in {j \in DOMAIN f : j = LastLine(f, e.id)}} = {e}
  <2>1. PICK i \in DOMAIN f : e = f[i] /\ \A k \in i + 1 .. Len(f) : f[k].id # e.id
    BY <1>2 DEF Latest
  <2>2. e.id \in FileIds(f)
    BY <2>1 DEF FileIds
  <2> DEFINE l == LastLine(f, e.id)
  <2>3. l \in DOMAIN f /\ f[l].id = e.id /\ \A k \in l + 1 .. Len(f) : f[k].id # e.id
    BY <2>2, LastLineFound
  <2>4. l = i
    <3> HIDE DEF l
    <3>1. i \in 1 .. Len(f) /\ l \in 1 .. Len(f)
      BY <2>1, <2>3
    <3>2. ~ (i < l)
      BY <2>1, <2>3, <3>1
    <3>3. ~ (l < i)
      BY <2>1, <2>3, <3>1
    <3> QED BY <3>1, <3>2, <3>3
  <2>5. {f[x] : x \in {j \in DOMAIN f : j = l}} = {f[i]}
    BY <2>1, <2>4
  <2> QED BY <2>1, <2>2, <2>5
<1> QED BY <1>1, <1>2

(* A line appended is the latest of its id, and hides no other.            *)
LEMMA LatestAppended ==
    ASSUME NEW f \in Seq(Entry), NEW e \in Entry
    PROVE  /\ e \in Latest(Append(f, e))
           /\ \A x \in Latest(f) : x.id # e.id => x \in Latest(Append(f, e))
<1> DEFINE g == Append(f, e)
<1>1. /\ g \in Seq(Entry) /\ Len(g) = Len(f) + 1 /\ DOMAIN g = 1 .. Len(f) + 1
      /\ g[Len(f) + 1] = e /\ \A i \in 1 .. Len(f) : g[i] = f[i]
      /\ Len(f) \in Nat /\ DOMAIN f = 1 .. Len(f)
  OBVIOUS
<1> HIDE DEF g
<1>2. e \in Latest(g)
  <2>1. Len(f) + 1 \in DOMAIN g
    BY <1>1
  <2>2. \A k \in (Len(f) + 1) + 1 .. Len(g) : g[k].id # g[Len(f) + 1].id
    BY <1>1
  <2> QED BY <1>1, <2>1, <2>2 DEF Latest
<1>3. ASSUME NEW x \in Latest(f), x.id # e.id PROVE x \in Latest(g)
  <2>1. PICK i \in DOMAIN f : x = f[i] /\ \A k \in i + 1 .. Len(f) : f[k].id # x.id
    BY DEF Latest
  <2>2. i \in DOMAIN g /\ g[i] = x
    BY <1>1, <2>1
  <2>3. ASSUME NEW k \in i + 1 .. Len(g) PROVE g[k].id # g[i].id
    <3>1. k \in i + 1 .. Len(f) \/ k = Len(f) + 1
      BY <1>1, <2>1
    <3>2. k \in i + 1 .. Len(f) => g[k] = f[k]
      BY <1>1, <2>1
    <3> QED BY <1>1, <1>3, <2>1, <2>2, <3>1, <3>2
  <2> QED BY <2>2, <2>3 DEF Latest
<1> QED BY <1>2, <1>3 DEF g

(* Written oldest first, what a scan of a snapshot finds is what is loaded.*)
LEMMA FoundReversed ==
    ASSUME NEW s \in Seq(Entry)
    PROVE  Found(s) \subseteq Latest([i \in 1 .. Len(s) |-> s[Len(s) + 1 - i]])
<1> DEFINE r == [i \in 1 .. Len(s) |-> s[Len(s) + 1 - i]]
           n == Len(s)
<1>1. n \in Nat /\ DOMAIN s = 1 .. n /\ DOMAIN r = 1 .. n /\ Len(r) = n
  OBVIOUS
<1>2. \A i \in 1 .. n : r[i] = s[n + 1 - i]
  OBVIOUS
<1> HIDE DEF r, n
<1> SUFFICES ASSUME NEW e \in Found(s) PROVE e \in Latest(r)
  BY DEF r, n
<1>3. PICK i \in DOMAIN s : e = s[i] /\ \A k \in 1 .. i - 1 : s[k].id # e.id
  BY DEF Found
<1>4. /\ n + 1 - i \in DOMAIN r /\ n + 1 - (n + 1 - i) = i
  BY <1>1, <1>3
<1>5. r[n + 1 - i] = e
  BY <1>1, <1>2, <1>3, <1>4
<1>6. ASSUME NEW k \in (n + 1 - i) + 1 .. Len(r) PROVE r[k].id # r[n + 1 - i].id
  <2>1. k \in 1 .. n /\ n + 1 - k \in 1 .. i - 1
    BY <1>1, <1>3
  <2> QED BY <1>2, <1>3, <1>5, <2>1
<1> QED BY <1>4, <1>5, <1>6 DEF Latest

(* When a rewrite wrote only some of the lines, what a scan finds is what  *)
(* is loaded, or it is not among them.                                     *)
LEMMA FoundKept ==
    ASSUME NEW s \in Seq(Entry), NEW n \in 0 .. Len(s),
           NEW g \in [1 .. n -> 1 .. Len(s)],
           \A i, j \in 1 .. n : i < j => g[i] > g[j]
    PROVE  \A e \in Found(s) :
              \/ e \in Latest([i \in 1 .. n |-> s[g[i]]])
              \/ e.att \in {s[i].att : i \in {k \in DOMAIN s : \A j \in 1 .. n : g[j] # k}}
<1> DEFINE r == [i \in 1 .. n |-> s[g[i]]]
<1>1. n \in Nat /\ DOMAIN s = 1 .. Len(s) /\ DOMAIN r = 1 .. n /\ Len(r) = n
  OBVIOUS
<1>2. \A i \in 1 .. n : r[i] = s[g[i]]
  OBVIOUS
<1> HIDE DEF r
<1> SUFFICES ASSUME NEW e \in Found(s)
             PROVE  \/ e \in Latest(r)
                    \/ e.att \in {s[i].att :
                                  i \in {k \in DOMAIN s : \A j \in 1 .. n : g[j] # k}}
  BY DEF r
<1>3. PICK i \in DOMAIN s : e = s[i] /\ \A k \in 1 .. i - 1 : s[k].id # e.id
  BY DEF Found
<1>4. CASE \A j \in 1 .. n : g[j] # i
  BY <1>3, <1>4
<1>5. ASSUME NEW j \in 1 .. n, g[j] = i PROVE e \in Latest(r)
  <2>1. j \in DOMAIN r /\ r[j] = e
    BY <1>1, <1>2, <1>3, <1>5
  <2>2. ASSUME NEW k \in j + 1 .. Len(r) PROVE r[k].id # r[j].id
    <3>1. k \in 1 .. n /\ j < k
      BY <1>1
    <3>2. g[k] \in 1 .. Len(s) /\ g[k] < i
      BY <1>5, <3>1
    <3>3. g[k] \in 1 .. i - 1
      BY <1>1, <1>3, <3>2
    <3> QED BY <1>2, <1>3, <2>1, <3>1, <3>3
  <2> QED BY <2>1, <2>2 DEF Latest
<1> QED BY <1>4, <1>5

(* What is found or loaded is in the sequence.                             *)
LEMMA FoundInElems == \A s : Found(s) \subseteq Elems(s) /\ Latest(s) \subseteq Elems(s)
BY DEF Found, Latest, Elems

(* A scan finds one entry of an id.                                        *)
LEMMA FoundOnce ==
    ASSUME NEW s \in Seq(Entry), NEW x \in Found(s), NEW y \in Found(s), x.id = y.id
    PROVE  x = y
<1>1. PICK i \in DOMAIN s : x = s[i] /\ \A k \in 1 .. i - 1 : s[k].id # x.id
  BY DEF Found
<1>2. PICK j \in DOMAIN s : y = s[j] /\ \A k \in 1 .. j - 1 : s[k].id # y.id
  BY DEF Found
<1>3. i \in 1 .. Len(s) /\ j \in 1 .. Len(s)
  OBVIOUS
<1>4. ~ (i < j) /\ ~ (j < i)
  BY <1>1, <1>2, <1>3
<1>5. i = j
  BY <1>3, <1>4
<1> QED BY <1>1, <1>2, <1>5

(* An entry inserted at the front is found before any other of its id, and *)
(* cutting the tail hides nothing that is left.                            *)
LEMMA FoundPushed ==
    ASSUME NEW s \in Seq(Entry), NEW n \in Entry
    PROVE  Found(EnforceCap(<<n>> \o s)) \subseteq {n} \cup Found(s)
<1> DEFINE p == <<n>> \o s
           c == IF Len(p) > Cap THEN Cap ELSE Len(p)
           q == SubSeq(p, 1, c)
<1>1. /\ p \in Seq(Entry) /\ Len(p) = Len(s) + 1 /\ p[1] = n
      /\ \A i \in 2 .. Len(s) + 1 : p[i] = s[i - 1]
      /\ Len(s) \in Nat /\ DOMAIN s = 1 .. Len(s)
  OBVIOUS
<1>2. c \in Nat /\ c <= Len(p)
  BY <1>1, LogAssumption
<1>3. Len(q) = c /\ DOMAIN q = 1 .. c /\ \A i \in 1 .. c : q[i] = p[i]
  <2> HIDE DEF p, c
  <2> QED BY <1>1, <1>2
<1>4. EnforceCap(p) = q
  BY DEF EnforceCap
<1> HIDE DEF p, q, c
<1> SUFFICES ASSUME NEW e \in Found(q), e # n PROVE e \in Found(s)
  BY <1>4 DEF p
<1>5. PICK i \in DOMAIN q : e = q[i] /\ \A k \in 1 .. i - 1 : q[k].id # e.id
  BY DEF Found
<1>6. i \in 2 .. Len(s) + 1
  <2>1. i \in 1 .. c /\ i # 1
    BY <1>1, <1>3, <1>5
  <2> QED BY <1>1, <1>2, <2>1
<1>7. i - 1 \in DOMAIN s /\ s[i - 1] = e
  <2>1. e = p[i]
    BY <1>3, <1>5
  <2> QED BY <1>1, <1>6, <2>1
<1>8. ASSUME NEW k \in 1 .. (i - 1) - 1 PROVE s[k].id # s[i - 1].id
  <2>1. k + 1 \in 2 .. Len(s) + 1 /\ k + 1 \in 1 .. i - 1 /\ k + 1 \in 1 .. c
    BY <1>1, <1>2, <1>3, <1>5, <1>6
  <2>2. q[k + 1] = p[k + 1] /\ p[k + 1] = s[(k + 1) - 1]
    BY <1>1, <1>3, <2>1
  <2>3. (k + 1) - 1 = k
    OBVIOUS
  <2> QED BY <1>5, <1>7, <2>1, <2>2, <2>3
<1> QED BY <1>7, <1>8 DEF Found

(* Writing an entry over one of its id hides none of the others.           *)
LEMMA FoundReplaced ==
    ASSUME NEW s \in Seq(Entry), NEW i \in DOMAIN s, NEW n \in Entry, s[i].id = n.id
    PROVE  Found([s EXCEPT ![i] = n]) \subseteq {n} \cup Found(s)
<1> DEFINE r == [s EXCEPT ![i] = n]
<1>1. /\ DOMAIN r = DOMAIN s /\ r[i] = n
      /\ \A j \in DOMAIN s : j # i => r[j] = s[j]
      /\ \A j \in DOMAIN s : r[j].id = s[j].id
      /\ Len(s) \in Nat /\ DOMAIN s = 1 .. Len(s)
  OBVIOUS
<1> HIDE DEF r
<1> SUFFICES ASSUME NEW e \in Found(r), e # n PROVE e \in Found(s)
  BY DEF r
<1>2. PICK j \in DOMAIN s : e = r[j] /\ \A k \in 1 .. j - 1 : r[k].id # e.id
  BY <1>1 DEF Found
<1>3. s[j] = e
  BY <1>1, <1>2
<1>4. ASSUME NEW k \in 1 .. j - 1 PROVE s[k].id # s[j].id
  <2>1. k \in DOMAIN s
    BY <1>1
  <2> QED BY <1>1, <1>2, <1>3, <2>1
<1> QED BY <1>3, <1>4 DEF Found

(* The first match of an id is what a scan for it finds.                   *)
LEMMA FirstMatchIsFound ==
    ASSUME TypeOK, NEW id, Lookup(id) # {}
    PROVE  /\ entries[FirstMatch(id)] \in Found(entries)
           /\ entries[FirstMatch(id)].id = id
<1>1. Lookup(id) \subseteq Nat
  BY DEF Lookup, TypeOK, SharedType
<1>2. \E i \in Lookup(id) : \A j \in Lookup(id) : i <= j
  BY <1>1, LeastNatural
<1> DEFINE f == FirstMatch(id)
<1>3. f \in Lookup(id) /\ \A j \in Lookup(id) : f <= j
  BY <1>2 DEF FirstMatch
<1>4. f \in DOMAIN entries /\ entries[f].id = id
  BY <1>3 DEF Lookup
<1> HIDE DEF f
<1>5. DOMAIN entries = 1 .. Len(entries) /\ Len(entries) \in Nat
  BY DEF TypeOK, SharedType
<1>6. ASSUME NEW k \in 1 .. f - 1 PROVE entries[k].id # entries[f].id
  <2>1. k \in DOMAIN entries /\ ~ (f <= k)
    BY <1>4, <1>5
  <2> QED BY <1>3, <1>4, <2>1 DEF Lookup
<1>7. entries[f] \in Found(entries)
  BY <1>4, <1>6 DEF Found
<1> QED BY <1>4, <1>7 DEF f

(* So is an entry that is the only one of its id.                          *)
LEMMA OnlyMatchIsFound ==
    ASSUME TypeOK, NEW e \in Elems(entries), Cardinality(Lookup(e.id)) = 1
    PROVE  e \in Found(entries)
<1>1. DOMAIN entries = 1 .. Len(entries) /\ Len(entries) \in Nat
  BY DEF TypeOK, SharedType
<1>2. IsFiniteSet(Lookup(e.id))
  <2>1. IsFiniteSet(DOMAIN entries)
    BY <1>1, FS_Interval
  <2>2. Lookup(e.id) \subseteq DOMAIN entries
    BY DEF Lookup
  <2> QED BY <2>1, <2>2, FS_Subset
<1>3. PICK i : Lookup(e.id) = {i}
  BY <1>2, FS_Singleton
<1>4. PICK j \in DOMAIN entries : e = entries[j]
  BY DEF Elems
<1>5. j \in Lookup(e.id)
  BY <1>4 DEF Lookup
<1>6. ASSUME NEW k \in 1 .. j - 1 PROVE entries[k].id # entries[j].id
  <2>1. k \in DOMAIN entries /\ k # j
    BY <1>1, <1>4
  <2>2. k \notin Lookup(e.id)
    BY <1>3, <1>5, <2>1
  <2> QED BY <1>4, <2>1, <2>2 DEF Lookup
<1> QED BY <1>4, <1>6 DEF Found

(* Everything begin() loads is the latest line of its id.                  *)
LEMMA LoadedIsLatest ==
    ASSUME NEW f \in Seq(Entry), NEW s, Elems(s) \subseteq Elems(f), Deduped(f, s)
    PROVE  Elems(s) \subseteq Latest(f)
<1> SUFFICES ASSUME NEW i \in DOMAIN s PROVE s[i] \in Latest(f)
  BY DEF Elems
<1>1. s[i] = f[LastLine(f, s[i].id)]
  BY DEF Deduped
<1>2. s[i].id \in FileIds(f)
  BY DEF Elems, FileIds
<1> QED BY <1>1, <1>2, LastLineFound

(* No attack has id 0, which is how the model says that a task has nothing *)
(* to notify; and the intel task takes an entry with nothing to notify.    *)
IdsInUse ==
    /\ \A x \in Carriers : x.id # 0
    /\ intelHand # {} => pend[Intel] = 0

(* Both hold in every state: ids come from next_id_, which begins at 1, and *)
(* the intel task notifies before it takes the next entry                  *)
(* (attack_log.cpp:187-196, intel.cpp:1111-1180).                          *)
LEMMA IdsStayInUse == Spec => []IdsInUse
<1>1. Init => IdsInUse
  BY NoElems DEF Init, IdsInUse, Carriers
<1>2. TypeOK /\ IdsInUse /\ [Next]_vars => IdsInUse'
  <2> SUFFICES ASSUME TypeOK, IdsInUse, [Next]_vars PROVE IdsInUse'
    OBVIOUS
  <2>1. CASE UNCHANGED vars
    BY <2>1 DEF vars, shared, flash, persister, producers, history, bounds,
                IdsInUse, Carriers, Elems
  <2>2. CASE Next
    <3>1. \A x \in Carriers' : x.id # 0
      <4>1. CASE NextId
        <5>1. Carriers' \subseteq Carriers \cup {[att |-> atts + 1, id |-> nextId]}
          BY <4>1 DEF NextId, Carriers, flash, persister, Elems
        <5>2. nextId # 0
          BY DEF TypeOK, SharedType
        <5> QED BY <5>1, <5>2 DEF IdsInUse
      <4>2. CASE ~ NextId
        BY <2>2, <4>2, CarriersFollow DEF Follows, IdsInUse
      <4> QED BY <4>1, <4>2
    <3>2. intelHand' # {} => pend'[Intel] = 0
      <4>1. pend \in [Tasks -> Nat] /\ Intel \in Tasks
        BY DEF TypeOK, ProducersType, Tasks
      <4>2. ASSUME UNCHANGED <<pend, intelHand>> PROVE intelHand' # {} => pend'[Intel] = 0
        BY <4>2 DEF IdsInUse
      <4>3. ASSUME NEW t \in Finishers, NEW h \in held, AppendEntry(t, h)
            PROVE  intelHand' # {} => pend'[Intel] = 0
        BY <4>1, <4>3, LogAssumption DEF AppendEntry, IdsInUse
      <4>4. ASSUME NEW t \in Tasks, Enqueue(t)
            PROVE  intelHand' # {} => pend'[Intel] = 0
        BY <4>1, <4>4 DEF Enqueue, IdsInUse
      <4>5. ASSUME NEW id \in todo, IntelGet(id)
            PROVE  intelHand' # {} => pend'[Intel] = 0
        BY <4>5 DEF IntelGet
      <4>6. ASSUME NEW e \in intelHand, NEW again \in BOOLEAN, UpdateEntry(e, again)
            PROVE  intelHand' # {} => pend'[Intel] = 0
        BY <4>6 DEF UpdateEntry
      <4>7. CASE NextId \/ (\E n \in 1 .. MaxId : BumpNextIdAtLeast(n)) \/ ClearAll
                 \/ StorageClearHistory \/ PersistTaskRun
        BY <4>2, <4>7 DEF NextId, BumpNextIdAtLeast, ClearAll, StorageClearHistory,
           PersistTaskRun, Receive, WakeIdle, AppendOpen, AppendClose, Check, RewriteOpen,
           RewriteClose, RewriteReset, FlushShadow, producers
      <4>8. CASE Reboot
        BY <4>8 DEF Reboot
      <4> QED BY <2>2, <4>3, <4>4, <4>5, <4>6, <4>7, <4>8 DEF Next, Session, IntelStep
    <3> QED BY <3>1, <3>2 DEF IdsInUse
  <2> QED BY <2>1, <2>2
<1> QED BY <1>1, <1>2, TypeCorrect, PTL DEF Spec

(* A change a rewrite missed is still being notified, or was dropped.      *)
Excused(e) == e.att \in raced /\ (Notified(e.id) \/ e.att \in dropped)

(* Attacks whose line a clear took or a write lost.                        *)
Lost == truncated \cup torn

(* What a scan finds for an id is what a restart would load, unless a      *)
(* compaction is due.                                                      *)
FoundCovered ==
    \A e \in Found(entries) :
        e \in Latest(file) \/ CompactionDue \/ e.att \in Lost \/ Excused(e)

(* What the persister is about to append is still what a scan finds, and a *)
(* rewrite only starts when it is due: or else the log has changed since,  *)
(* and a compaction is due, or it was cleared.                             *)
HandFresh ==
    pc \in {"append", "appending"} =>
        CompactionDue \/ entries = <<>> \/ hand \subseteq Found(entries)

(* The handle of an append saw the file, unless a clear emptied it since.  *)
ViewFresh == pc = "appending" => view = file \/ file = <<>>

RewriteDue == pc \in {"open", "write", "reset"} => CompactionDue \/ entries = <<>>

(* What a rewrite is about to write, or has written, is what a scan finds, *)
(* but for changes since the snapshot.                                     *)
SnapFresh ==
    pc \in {"open", "write"} => \A e \in Found(entries) : e \in Found(snap) \/ Excused(e)

RewriteFresh ==
    pc = "reset" =>
        \A e \in Found(entries) : e \in Latest(file) \/ e.att \in Lost \/ Excused(e)

CoverInv ==
    FoundCovered /\ HandFresh /\ ViewFresh /\ RewriteDue /\ SnapFresh /\ RewriteFresh

(* Nothing is found in an empty cache.                                     *)
LEMMA NoneFound == Found(<<>>) = {}
BY DEF Found

(* A step that leaves the log alone keeps what it still owes excused.      *)
LEMMA CoverKept ==
    ASSUME CoverInv,
           UNCHANGED <<entries, dirty, sinceCompact, file, pc, hand, view, snap, raced,
                       truncated, torn>>,
           \A e \in Found(entries) : Excused(e) => Excused(e)'
    PROVE  CoverInv'
<1>1. CompactionDue' = CompactionDue
  BY DEF CompactionDue
<1>2. FoundCovered' /\ HandFresh' /\ ViewFresh' /\ RewriteDue'
  BY <1>1 DEF CoverInv, FoundCovered, HandFresh, ViewFresh, RewriteDue, Lost
<1>3. SnapFresh' /\ RewriteFresh'
  BY DEF CoverInv, SnapFresh, RewriteFresh, Lost
<1> QED BY <1>2, <1>3 DEF CoverInv

(* A change of the log makes a compaction due, and if a rewrite missed it  *)
(* the task that made it is about to notify.                               *)
LEMMA ChangeCovered ==
    ASSUME TypeOK, IdsInUse, OneInHand, CoverInv, sinceCompact' > 0,
           NEW t \in Tasks, NEW n \in Entry, pend[t] = 0,
           pend' = [pend EXCEPT ![t] = n.id], raced' = Race(n.att),
           Found(entries') \subseteq {n} \cup Found(entries),
           UNCHANGED <<queue, file, pc, hand, view, snap, dropped, truncated, torn>>
    PROVE  CoverInv'
<1>1. CompactionDue'
  BY DEF CompactionDue
<1>2. FoundCovered' /\ HandFresh' /\ ViewFresh' /\ RewriteDue'
  BY <1>1 DEF CoverInv, FoundCovered, HandFresh, ViewFresh, RewriteDue
<1>3. pend \in [Tasks -> Nat]
  BY DEF TypeOK, ProducersType
<1>4. ASSUME Rewriting, NEW e \in Found(entries), Excused(e) PROVE Excused(e)'
  <2>1. e.id # 0
    BY FoundInElems DEF IdsInUse, Carriers
  <2>2. hand = {}
    BY <1>4 DEF Rewriting, OneInHand
  <2>3. Notified(e.id) => Notified(e.id)'
    <3>1. ASSUME NEW u \in Tasks, pend[u] = e.id PROVE pend'[u] = e.id
      BY <1>3, <2>1, <3>1
    <3> QED BY <2>2, <3>1 DEF Notified
  <2>4. raced \subseteq raced'
    BY DEF Race
  <2> QED BY <1>4, <2>3, <2>4 DEF Excused
<1>5. Rewriting => Excused(n)'
  <2>1. pend'[t] = n.id
    BY <1>3
  <2> QED BY <2>1 DEF Race, Excused, Notified
<1>6. SnapFresh'
  BY <1>4, <1>5 DEF CoverInv, SnapFresh, Rewriting
<1>7. RewriteFresh'
  BY <1>4, <1>5 DEF CoverInv, RewriteFresh, Rewriting, Lost
<1> QED BY <1>2, <1>6, <1>7 DEF CoverInv

(* The sessions' and the intel task's steps.                               *)
LEMMA ProducersCover ==
    ASSUME TypeOK, IdsInUse, OneInHand, CoverInv, Session \/ IntelStep
    PROVE  CoverInv'
<1>0. /\ entries \in Seq(Entry) /\ sinceCompact \in Nat /\ intelHand \subseteq Entry
      /\ Intel \in Tasks
  BY DEF TypeOK, SharedType, ProducersType, Tasks
<1>1. CASE NextId \/ (\E id \in todo : IntelGet(id))
           \/ (\E n \in 1 .. MaxId : BumpNextIdAtLeast(n))
  <2>1. UNCHANGED <<entries, dirty, sinceCompact, queue, file, pc, hand, view, snap,
                    pend, raced, dropped, truncated, torn>>
    BY <1>1 DEF NextId, IntelGet, BumpNextIdAtLeast, shared, flash, persister,
       producers, history
  <2>2. \A e : Excused(e) => Excused(e)'
    BY <2>1 DEF Excused, Notified, Elems
  <2> QED BY <2>1, <2>2, CoverKept
<1>2. ASSUME NEW t \in Finishers, NEW h \in held, AppendEntry(t, h) PROVE CoverInv'
  <2> DEFINE n == [att |-> h.att, id |-> h.id, rev |-> 1]
  <2>1. n \in Entry /\ n.id = h.id /\ n.att = h.att /\ t \in Tasks
    BY DEF Entry, TypeOK, ProducersType, Tasks
  <2>2. /\ pend[t] = 0 /\ pend' = [pend EXCEPT ![t] = h.id] /\ raced' = Race(h.att)
        /\ entries' = EnforceCap(<<n>> \o entries)
        /\ sinceCompact' = sinceCompact + 1
        /\ UNCHANGED <<queue, file, pc, hand, view, snap, dropped, truncated, torn>>
    BY <1>2 DEF AppendEntry, flash, persister
  <2> HIDE DEF n
  <2>3. Found(entries') \subseteq {n} \cup Found(entries)
    BY <1>0, <2>1, <2>2, FoundPushed
  <2>4. sinceCompact' > 0
    BY <1>0, <2>2
  <2> QED BY <2>1, <2>2, <2>3, <2>4, ChangeCovered
<1>3. ASSUME NEW e \in intelHand, NEW again \in BOOLEAN, UpdateEntry(e, again)
      PROVE  CoverInv'
  <2> DEFINE n == [e EXCEPT !.rev = @ + 1]
  <2>0. e \in Entry
    BY <1>0
  <2>1. n \in Entry /\ n.id = e.id /\ n.att = e.att
    BY <2>0 DEF Entry
  <2>2. /\ pend' = [pend EXCEPT ![Intel] = e.id] /\ raced' = Race(e.att)
        /\ entries' = IF Lookup(e.id) # {}
                      THEN [entries EXCEPT ![FirstMatch(e.id)] = n]
                      ELSE EnforceCap(<<n>> \o entries)
        /\ sinceCompact' = sinceCompact + 1
        /\ UNCHANGED <<queue, file, pc, hand, view, snap, dropped, truncated, torn>>
    BY <1>3 DEF UpdateEntry, flash, persister
  <2> HIDE DEF n
  <2>3. Found(entries') \subseteq {n} \cup Found(entries)
    <3>1. CASE Lookup(e.id) # {}
      BY <1>0, <2>1, <2>2, <3>1, FirstMatchFound, FoundReplaced
    <3>2. CASE Lookup(e.id) = {}
      BY <1>0, <2>1, <2>2, <3>2, FoundPushed
    <3> QED BY <3>1, <3>2
  <2>4. sinceCompact' > 0
    BY <1>0, <2>2
  <2>5. pend[Intel] = 0
    BY DEF IdsInUse
  <2> QED BY <1>0, <2>1, <2>2, <2>3, <2>4, <2>5, ChangeCovered
<1> QED BY <1>1, <1>2, <1>3 DEF Session, IntelStep

(* A notification reaches the queue, or is dropped and remembered.         *)
LEMMA EnqueueCover ==
    ASSUME TypeOK, CoverInv, NEW t \in Tasks, Enqueue(t)
    PROVE  CoverInv'
<1>0. pend \in [Tasks -> Nat] /\ queue \in Seq(Nat) /\ pend[t] \in Nat
  BY DEF TypeOK, ProducersType, QueueType
<1>1. /\ UNCHANGED <<entries, dirty, sinceCompact, file, pc, hand, view, snap, raced,
                       truncated, torn>>
      /\ pend' = [pend EXCEPT ![t] = 0]
      /\ \/ queue' = Append(queue, pend[t]) /\ dropped' = dropped
         \/ /\ queue' = queue
            /\ dropped' = dropped \cup {entries[i].att : i \in Lookup(pend[t])}
  BY DEF Enqueue, shared, flash, persister
<1>2. ASSUME NEW e \in Found(entries), Excused(e) PROVE Excused(e)'
  <2>1. e \in Elems(entries)
    BY FoundInElems
  <2>2. dropped \subseteq dropped'
    BY <1>1
  <2>3. CASE pend[t] = e.id
    <3>1. CASE queue' = Append(queue, pend[t])
      <4>1. Len(queue) + 1 \in DOMAIN queue' /\ queue'[Len(queue) + 1] = e.id
        BY <1>0, <2>3, <3>1
      <4> QED BY <1>1, <1>2, <4>1 DEF Excused, Notified
    <3>2. CASE dropped' = dropped \cup {entries[i].att : i \in Lookup(pend[t])}
      <4>1. e.att \in dropped'
        BY <2>1, <2>3, <3>2 DEF Elems, Lookup
      <4> QED BY <1>1, <1>2, <4>1 DEF Excused
    <3> QED BY <1>1, <3>1, <3>2
  <2>4. CASE pend[t] # e.id
    <3>1. ASSUME NEW u \in Tasks, pend[u] = e.id PROVE pend'[u] = e.id
      BY <1>0, <1>1, <2>4, <3>1
    <3>2. ASSUME NEW i \in DOMAIN queue, queue[i] = e.id
          PROVE  i \in DOMAIN queue' /\ queue'[i] = e.id
      <4>1. CASE queue' = Append(queue, pend[t])
        BY <1>0, <3>2, <4>1
      <4>2. CASE queue' = queue
        BY <3>2, <4>2
      <4> QED BY <1>1, <4>1, <4>2
    <3>3. UNCHANGED <<hand, Elems(entries), raced>>
      BY <1>1 DEF Elems
    <3>4. Notified(e.id) => Notified(e.id)'
      BY <3>1, <3>2, <3>3 DEF Notified
    <3> QED BY <1>2, <2>2, <3>3, <3>4 DEF Excused
  <2> QED BY <2>3, <2>4
<1> QED BY <1>1, <1>2, CoverKept

(* The two halves of a clear: the first leaves nothing to cover, the       *)
(* second takes the lines written in between.                              *)
LEMMA ClearCover ==
    ASSUME TypeOK, CoverInv, ClearAll \/ StorageClearHistory
    PROVE  CoverInv'
<1>1. CASE ClearAll
  <2>1. /\ entries' = <<>> /\ pc' = pc /\ view' = view
        /\ file' = <<>> \/ file' = file
    BY <1>1 DEF ClearAll, Emptied, persister
  <2>2. Found(entries') = {}
    BY <2>1, NoneFound
  <2>3. ViewFresh'
    BY <2>1 DEF CoverInv, ViewFresh
  <2> QED BY <2>1, <2>2, <2>3 DEF CoverInv, FoundCovered, HandFresh, RewriteDue,
          SnapFresh, RewriteFresh
<1>2. CASE StorageClearHistory
  <2>1. UNCHANGED <<entries, dirty, sinceCompact, queue, pc, hand, view, snap, pend,
                    raced, dropped, torn>>
    BY <1>2 DEF StorageClearHistory, shared, persister
  <2>2. \A e : Excused(e) => Excused(e)'
    BY <2>1 DEF Excused, Notified, Elems
  <2>3. CASE file' = file /\ truncated' = truncated
    BY <2>1, <2>2, <2>3, CoverKept
  <2>4. CASE file' = <<>> /\ truncated' = truncated \cup {e.att : e \in Elems(file)}
    <3>1. \A e \in Latest(file) : e.att \in Lost'
      BY <2>4, FoundInElems DEF Lost
    <3>2. Lost \subseteq Lost'
      BY <2>1, <2>4 DEF Lost
    <3>3. CompactionDue' = CompactionDue
      BY <2>1 DEF CompactionDue
    <3>4. FoundCovered'
      BY <2>1, <2>2, <3>1, <3>2, <3>3 DEF CoverInv, FoundCovered
    <3>5. HandFresh' /\ ViewFresh' /\ RewriteDue'
      BY <2>1, <2>4, <3>3 DEF CoverInv, HandFresh, ViewFresh, RewriteDue
    <3>6. SnapFresh'
      BY <2>1, <2>2 DEF CoverInv, SnapFresh
    <3>7. RewriteFresh'
      BY <2>1, <2>2, <3>1, <3>2 DEF CoverInv, RewriteFresh
    <3> QED BY <3>4, <3>5, <3>6, <3>7 DEF CoverInv
  <2>5. \/ file' = file /\ truncated' = truncated
        \/ file' = <<>> /\ truncated' = truncated \cup {e.att : e \in Elems(file)}
    BY <1>2 DEF StorageClearHistory, Emptied
  <2> QED BY <2>3, <2>4, <2>5
<1> QED BY <1>1, <1>2

(* The persister's steps.                                                  *)
LEMMA PersisterCover ==
    ASSUME TypeOK, OneInHand, CoverInv, PersistTaskRun
    PROVE  CoverInv'
<1>0. /\ entries \in Seq(Entry) /\ file \in Seq(Entry) /\ snap \in Seq(Entry)
      /\ view \in Seq(Entry)
      /\ sinceCompact \in Nat /\ dirty \in BOOLEAN /\ queue \in Seq(Nat)
  BY DEF TypeOK, SharedType, FlashType, PersisterType, QueueType
<1>1. CASE Receive
  <2>1. /\ pc = "wait" /\ queue # <<>> /\ queue' = Tail(queue)
        /\ pc' \in {"check", "append"}
        /\ UNCHANGED <<entries, dirty, sinceCompact, file, snap, pend, raced, dropped,
                       truncated, torn>>
    BY <1>1 DEF Receive, shared, flash, producers, history
  <2>2. hand = {}
    BY <2>1 DEF OneInHand
  <2> DEFINE id == Head(queue)
             f == entries[FirstMatch(id)]
  <2>3. \/ Lookup(id) = {} /\ pc' = "check" /\ hand' = {}
        \/ Lookup(id) # {} /\ pc' = "append" /\ hand' = {f}
    BY <1>1, <2>2 DEF Receive
  <2>4. Lookup(id) # {} => f \in Found(entries) /\ f.id = id
    BY FirstMatchIsFound
  <2> HIDE DEF f
  <2>5. ASSUME NEW e \in Found(entries), Excused(e) PROVE Excused(e)'
    <3>0. e \in Elems(entries)
      BY FoundInElems
    <3>1. ASSUME NEW i \in DOMAIN queue, queue[i] = e.id PROVE Notified(e.id)'
      <4>1. CASE i = 1
        <5>1. id = e.id
          BY <1>0, <3>1, <4>1
        <5> HIDE DEF id
        <5>2. Lookup(id) # {}
          BY <3>0, <5>1 DEF Elems, Lookup
        <5>3. f \in hand' /\ f.id = e.id /\ f \in Elems(entries')
          BY <2>1, <2>3, <2>4, <5>1, <5>2, FoundInElems DEF Elems
        <5> QED BY <5>3 DEF Notified
      <4>2. CASE i # 1
        <5>1. i - 1 \in DOMAIN queue' /\ queue'[i - 1] = e.id
          BY <1>0, <2>1, <3>1, <4>2
        <5> QED BY <5>1 DEF Notified
      <4> QED BY <4>1, <4>2
    <3>2. ASSUME NEW u \in Tasks, pend[u] = e.id PROVE Notified(e.id)'
      BY <2>1, <3>2 DEF Notified
    <3>3. Notified(e.id) => Notified(e.id)'
      BY <2>2, <3>1, <3>2 DEF Notified
    <3> QED BY <2>1, <2>5, <3>3 DEF Excused
  <2>6. CompactionDue' = CompactionDue
    BY <2>1 DEF CompactionDue
  <2>7. FoundCovered'
    BY <2>1, <2>5, <2>6 DEF CoverInv, FoundCovered, Lost
  <2>8. HandFresh'
    BY <2>1, <2>3, <2>4 DEF HandFresh
  <2>9. ViewFresh' /\ RewriteDue' /\ SnapFresh' /\ RewriteFresh'
    BY <2>1 DEF ViewFresh, RewriteDue, SnapFresh, RewriteFresh
  <2> QED BY <2>7, <2>8, <2>9 DEF CoverInv
<1>2. CASE WakeIdle \/ FlushShadow
  <2>1. /\ pc' \in {"wait", "check"}
        /\ UNCHANGED <<entries, dirty, sinceCompact, queue, file, hand, pend, raced,
                       dropped, truncated, torn>>
    BY <1>2 DEF WakeIdle, FlushShadow, shared, flash, producers, history
  <2>2. \A e : Excused(e)' = Excused(e)
    BY <2>1 DEF Excused, Notified, Elems
  <2>3. CompactionDue' = CompactionDue
    BY <2>1 DEF CompactionDue
  <2>4. FoundCovered'
    BY <2>1, <2>2, <2>3 DEF CoverInv, FoundCovered, Lost
  <2>5. HandFresh' /\ ViewFresh' /\ RewriteDue' /\ SnapFresh' /\ RewriteFresh'
    BY <2>1 DEF HandFresh, ViewFresh, RewriteDue, SnapFresh, RewriteFresh
  <2> QED BY <2>4, <2>5 DEF CoverInv
<1>3. CASE AppendOpen
  <2>1. /\ pc = "append"
        /\ UNCHANGED <<entries, sinceCompact, queue, file, pend, raced, dropped,
                       truncated, torn>>
        /\ \/ pc' = "appending" /\ view' = file /\ UNCHANGED <<hand, dirty>>
           \/ pc' = "check" /\ dirty' = TRUE
    BY <1>3 DEF AppendOpen, flash, producers, history
  <2>2. CASE CompactionDue'
    BY <2>1, <2>2 DEF CoverInv, FoundCovered, HandFresh, ViewFresh, RewriteDue,
       SnapFresh, RewriteFresh
  <2>3. CASE ~ CompactionDue'
    <3>1. pc' = "appending" /\ view' = file /\ UNCHANGED <<hand, dirty>>
      BY <2>1, <2>3 DEF CompactionDue
    <3>2. CompactionDue' = CompactionDue
      BY <2>1, <3>1 DEF CompactionDue
    <3>3. \A e : Excused(e)' = Excused(e)
      BY <2>1, <3>1 DEF Excused, Notified, Elems
    <3>4. FoundCovered'
      BY <2>1, <3>2, <3>3 DEF CoverInv, FoundCovered, Lost
    <3>5. HandFresh' /\ ViewFresh'
      BY <2>1, <3>1, <3>2 DEF CoverInv, HandFresh, ViewFresh
    <3>6. RewriteDue' /\ SnapFresh' /\ RewriteFresh'
      BY <3>1 DEF RewriteDue, SnapFresh, RewriteFresh
    <3> QED BY <3>4, <3>5, <3>6 DEF CoverInv
  <2> QED BY <2>2, <2>3
<1>8. ASSUME NEW e \in hand, AppendClose(e) PROVE CoverInv'
  <2>1. /\ pc = "appending" /\ pc' = "check" /\ hand' = {}
        /\ UNCHANGED <<entries, dirty, sinceCompact, queue, pend, raced, dropped,
                       truncated>>
        /\ \/ file' \in {Append(file, e), Append(view, e)} /\ torn' = torn
           \/ file' \in {file, view} /\ torn' = torn \cup {e.att}
    BY <1>8 DEF AppendClose, LoseLine, shared, producers
  <2>2. hand = {e} /\ e \in Entry
    BY <2>1 DEF OneInHand
  <2>3. Lost \subseteq Lost'
    BY <2>1 DEF Lost
  <2>4. CompactionDue' = CompactionDue
    BY <2>1 DEF CompactionDue
  <2>5. view = file \/ Latest(file) = {}
    BY <2>1 DEF CoverInv, ViewFresh, Latest
  <2>6. /\ e \in Latest(file') \/ e.att \in Lost'
        /\ \A x \in Latest(file) : x.id # e.id => x \in Latest(file')
    <3>1. CASE file' \in {Append(file, e), Append(view, e)}
      <4>1. /\ e \in Latest(file')
            /\ file' = Append(file, e) =>
                 \A x \in Latest(file) : x.id # e.id => x \in Latest(file')
        BY <1>0, <2>2, <3>1, LatestAppended
      <4>2. CASE file' = Append(file, e)
        BY <4>1, <4>2
      <4>3. CASE file' = Append(view, e)
        BY <2>5, <4>1, <4>3
      <4> QED BY <3>1, <4>2, <4>3
    <3>2. CASE file' \in {file, view} /\ torn' = torn \cup {e.att}
      <4>1. e.att \in Lost'
        BY <3>2 DEF Lost
      <4>2. file' = file \/ Latest(file) = {}
        BY <2>5, <3>2
      <4> QED BY <4>1, <4>2
    <3> QED BY <2>1, <3>1, <3>2
  <2>7. CASE CompactionDue
    BY <2>1, <2>4, <2>7 DEF CoverInv, FoundCovered, HandFresh, ViewFresh, RewriteDue,
       SnapFresh, RewriteFresh
  <2>8. CASE ~ CompactionDue
    <3>1. entries = <<>> \/ e \in Found(entries)
      BY <2>1, <2>2, <2>8 DEF CoverInv, HandFresh
    <3>2. ASSUME NEW x \in Found(entries'), x \notin Latest(file'), x.att \notin Lost'
          PROVE  Excused(x)'
      <4>1. x \in Found(entries) /\ e \in Found(entries)
        BY <2>1, <3>1, NoneFound
      <4>2. x.id # e.id
        BY <1>0, <2>6, <3>2, <4>1, FoundOnce
      <4>3. x \notin Latest(file) /\ x.att \notin Lost
        BY <2>3, <2>6, <3>2, <4>2
      <4>4. Excused(x)
        BY <2>8, <4>1, <4>3 DEF CoverInv, FoundCovered
      <4>5. Notified(x.id) => Notified(x.id)'
        BY <2>1, <2>2, <4>2 DEF Notified
      <4> QED BY <2>1, <4>4, <4>5 DEF Excused
    <3>3. FoundCovered'
      BY <3>2 DEF FoundCovered
    <3> QED BY <2>1, <3>3 DEF CoverInv, HandFresh, ViewFresh, RewriteDue, SnapFresh,
            RewriteFresh
  <2> QED BY <2>7, <2>8
<1>4. CASE Check
  <2>1. /\ pc = "check"
        /\ UNCHANGED <<entries, dirty, sinceCompact, queue, file, hand, pend, raced,
                       dropped, truncated, torn>>
    BY <1>4 DEF Check, shared, flash, producers, history
  <2>2. \/ pc' = "nvs"
        \/ /\ pc' = "open" /\ snap' = entries
           /\ sinceCompact >= IF dirty THEN AppendCompactN ELSE UpdateCompactN
    BY <1>4 DEF Check
  <2>3. \A e : Excused(e)' = Excused(e)
    BY <2>1 DEF Excused, Notified, Elems
  <2>4. CompactionDue' = CompactionDue
    BY <2>1 DEF CompactionDue
  <2>5. FoundCovered'
    BY <2>1, <2>3, <2>4 DEF CoverInv, FoundCovered, Lost
  <2>6. pc' = "open" => CompactionDue
    <3>1. AppendCompactN \in Nat \ {0} /\ UpdateCompactN \in Nat \ {0}
      BY LogAssumption
    <3>2. CASE dirty
      BY <3>2 DEF CompactionDue
    <3>3. CASE ~ dirty
      BY <1>0, <2>2, <3>1, <3>3 DEF CompactionDue
    <3> QED BY <3>2, <3>3
  <2>7. HandFresh' /\ ViewFresh' /\ RewriteDue' /\ SnapFresh' /\ RewriteFresh'
    BY <2>1, <2>2, <2>4, <2>6
       DEF HandFresh, ViewFresh, RewriteDue, SnapFresh, RewriteFresh
  <2> QED BY <2>5, <2>7 DEF CoverInv
<1>5. CASE RewriteOpen
  <2>1. /\ pc = "open"
        /\ UNCHANGED <<entries, dirty, sinceCompact, queue, hand, pend, raced, dropped,
                       truncated, torn>>
        /\ \/ pc' = "write" /\ snap' = snap
           \/ pc' = "nvs" /\ file' = file
    BY <1>5 DEF RewriteOpen, shared, producers, history
  <2>2. \A e : Excused(e)' = Excused(e)
    BY <2>1 DEF Excused, Notified, Elems
  <2>3. CompactionDue' = CompactionDue
    BY <2>1 DEF CompactionDue
  <2>4. RewriteDue'
    BY <2>1, <2>3 DEF CoverInv, RewriteDue
  <2>5. FoundCovered'
    BY <2>1, <2>3, NoneFound DEF CoverInv, RewriteDue, FoundCovered
  <2>6. HandFresh' /\ ViewFresh' /\ SnapFresh' /\ RewriteFresh'
    BY <2>1, <2>2 DEF CoverInv, HandFresh, ViewFresh, SnapFresh, RewriteFresh
  <2> QED BY <2>4, <2>5, <2>6 DEF CoverInv
<1>6. CASE RewriteClose
  <2>1. /\ pc = "write" /\ pc' = "reset"
        /\ UNCHANGED <<entries, dirty, sinceCompact, queue, hand, pend, raced, dropped,
                       truncated>>
    BY <1>6 DEF RewriteClose, shared, producers
  <2>2. \A e : Excused(e)' = Excused(e)
    BY <2>1 DEF Excused, Notified, Elems
  <2>3. CompactionDue' = CompactionDue
    BY <2>1 DEF CompactionDue
  <2>4. RewriteDue'
    BY <2>1, <2>3 DEF CoverInv, RewriteDue
  <2>5. FoundCovered'
    BY <2>1, <2>3, NoneFound DEF CoverInv, RewriteDue, FoundCovered
  <2>6. \A e \in Found(snap) : e \in Latest(file') \/ e.att \in Lost'
    <3>1. CASE file' = [i \in 1 .. Len(snap) |-> snap[Len(snap) + 1 - i]]
      BY <1>0, <3>1, FoundReversed
    <3>2. ASSUME NEW n \in 0 .. Len(snap), NEW g \in [1 .. n -> 1 .. Len(snap)],
                 \A i, j \in 1 .. n : i < j => g[i] > g[j],
                 file' = [i \in 1 .. n |-> snap[g[i]]],
                 torn' = torn \cup {snap[i].att :
                           i \in {k \in DOMAIN snap : \A j \in 1 .. n : g[j] # k}}
          PROVE  \A e \in Found(snap) : e \in Latest(file') \/ e.att \in Lost'
      BY <1>0, <3>2, FoundKept DEF Lost
    <3>3. \/ file' = [i \in 1 .. Len(snap) |-> snap[Len(snap) + 1 - i]]
          \/ \E n \in 0 .. Len(snap) : \E g \in [1 .. n -> 1 .. Len(snap)] :
               /\ \A i, j \in 1 .. n : i < j => g[i] > g[j]
               /\ file' = [i \in 1 .. n |-> snap[g[i]]]
               /\ torn' = torn \cup {snap[i].att :
                            i \in {k \in DOMAIN snap : \A j \in 1 .. n : g[j] # k}}
      BY <1>6 DEF RewriteClose
    <3> QED BY <3>1, <3>2, <3>3
  <2>7. RewriteFresh'
    BY <2>1, <2>2, <2>6 DEF CoverInv, SnapFresh, RewriteFresh
  <2>8. HandFresh' /\ ViewFresh' /\ SnapFresh'
    BY <2>1 DEF HandFresh, ViewFresh, SnapFresh
  <2> QED BY <2>4, <2>5, <2>7, <2>8 DEF CoverInv
<1>7. CASE RewriteReset
  <2>1. /\ pc = "reset" /\ pc' = "nvs"
        /\ UNCHANGED <<entries, queue, file, hand, pend, raced, dropped, truncated,
                       torn>>
    BY <1>7 DEF RewriteReset, flash, producers, history
  <2>2. \A e : Excused(e)' = Excused(e)
    BY <2>1 DEF Excused, Notified, Elems
  <2>3. FoundCovered'
    BY <2>1, <2>2 DEF CoverInv, RewriteFresh, FoundCovered, Lost
  <2>4. HandFresh' /\ ViewFresh' /\ RewriteDue' /\ SnapFresh' /\ RewriteFresh'
    BY <2>1 DEF HandFresh, ViewFresh, RewriteDue, SnapFresh, RewriteFresh
  <2> QED BY <2>3, <2>4 DEF CoverInv
<1> QED BY <1>1, <1>2, <1>3, <1>4, <1>5, <1>6, <1>7, <1>8 DEF PersistTaskRun

(* begin() loads the latest lines.                                         *)
LEMMA RebootCover == ASSUME TypeOK, Reboot PROVE CoverInv'
<1>0. file \in Seq(Entry)
  BY DEF TypeOK, FlashType
<1>1. Elems(entries') \subseteq Latest(file)
  <2>1. PICK s \in [1 .. Cardinality(FileIds(file)) -> Elems(file)] :
               Deduped(file, s) /\ entries' = s
    BY DEF Reboot
  <2> QED BY <1>0, <2>1, LoadedFromFile, LoadedIsLatest
<1>2. file' = file /\ pc' = "wait"
  BY DEF Reboot, flash
<1>3. FoundCovered'
  <2>1. Found(entries') \subseteq Latest(file')
    BY <1>1, <1>2, FoundInElems
  <2> QED BY <2>1 DEF FoundCovered
<1> QED BY <1>2, <1>3 DEF CoverInv, HandFresh, ViewFresh, RewriteDue, SnapFresh,
       RewriteFresh

(* Every cached revision that is the only one of its id is on the file as  *)
(* the one a restart would load, or something will still write it, unless  *)
(* a rewrite missed its last change and the notification was dropped too,  *)
(* its line fell between the two halves of a clear, or a write of it went  *)
(* wrong and was not looked at                                             *)
(* (attack_log.cpp:233-285, 311-365, web_dashboard.cpp:774-775).           *)
THEOREM CacheIsCovered == Spec => []CoveredUnlessRacedAndDropped
<1>1. Init => CoverInv
  <2> SUFFICES ASSUME Init PROVE CoverInv
    OBVIOUS
  <2>1. entries = <<>> /\ pc = "wait"
    BY DEF Init
  <2> QED BY <2>1, NoneFound DEF CoverInv, FoundCovered, HandFresh, ViewFresh,
          RewriteDue, SnapFresh, RewriteFresh
<1>2. TypeOK /\ OneInHand /\ IdsInUse /\ CoverInv /\ [Next]_vars => CoverInv'
  <2>1. ASSUME CoverInv, UNCHANGED vars PROVE CoverInv'
    <3>1. /\ UNCHANGED <<entries, dirty, sinceCompact, file, pc, hand, view, snap,
                         raced, truncated, torn>>
          /\ UNCHANGED <<queue, pend, dropped>>
      BY <2>1 DEF vars, shared, flash, persister, producers, history
    <3>2. \A e : Excused(e) => Excused(e)'
      BY <3>1 DEF Excused, Notified, Elems
    <3> QED BY <2>1, <3>1, <3>2, CoverKept
  <2> QED BY <2>1, ProducersCover, EnqueueCover, ClearCover, PersisterCover, RebootCover
          DEF Next
<1>3. TypeOK /\ CoverInv => CoveredUnlessRacedAndDropped
  <2> SUFFICES ASSUME TypeOK, CoverInv, NEW e \in Elems(entries),
                      Cardinality(Lookup(e.id)) = 1
               PROVE  Covered(e) \/ e.att \in (raced \cap dropped) \cup truncated \cup torn
    BY DEF CoveredUnlessRacedAndDropped
  <2>1. e \in Found(entries)
    BY OnlyMatchIsFound
  <2>2. e \in Latest(file) => OnFile(e)
    <3>1. file \in Seq(Entry)
      BY DEF TypeOK, FlashType
    <3> QED BY <3>1, OnFileMeansLatest DEF OnFile, Recovered
  <2> QED BY <2>1, <2>2 DEF CoverInv, FoundCovered, Covered, Excused, Lost
<1> QED BY <1>1, <1>2, <1>3, TypeCorrect, HandHolds, IdsStayInUse, PTL DEF Spec
=============================================================================
