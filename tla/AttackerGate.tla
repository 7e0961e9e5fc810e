---------------------------- MODULE AttackerGate ----------------------------
(***************************************************************************)
(* The gate against repeat connections (src/src/attacker_gate.cpp): a ring *)
(* of recently seen addresses with the millis() of their last session.     *)
(*                                                                         *)
(* The Telnet and the SSH listener use it alike: admit() when a connection *)
(* arrives, touch() when its session begins.  Each holds the lock; nothing *)
(* holds it in between.  millis() is the time modulo Wrap (2^32 ms).  An   *)
(* empty address is always admitted and never recorded, so it has no part. *)
(***************************************************************************)
EXTENDS Integers, FiniteSets

CONSTANTS
    Ips,            \* peer addresses
    NoIp,           \* the empty string of an unused slot
    Listeners,      \* tasks that accept connections
    Capped,         \* those with a session cap behind the gate (Telnet)
    Slots,          \* kSlots
    Cooldown,       \* kCooldownMs
    Wrap,           \* 2^32
    MaxTime         \* bound: time since boot

ASSUME GateAssumption ==
    /\ IsFiniteSet(Ips) /\ NoIp \notin Ips
    /\ IsFiniteSet(Listeners) /\ Capped \subseteq Listeners
    /\ Slots \in Nat \ {0}
    /\ Cooldown \in Nat \ {0} /\ Wrap \in Nat /\ Cooldown < Wrap
    /\ MaxTime \in Nat

VARIABLES
    ip, lastMs,     \* slots_[i].ip and .last_ms
    pending,        \* listener -> address admitted and not touched yet
    now,            \* time since boot
    seen,           \* history: address -> time of its last touch, 0 for never
    burst           \* history: address -> sessions begun since it was last
                    \* let in with no cooldown running

gatevars == <<ip, lastMs, pending, now, seen, burst>>

Slot == 1 .. Slots

Millis == now % Wrap

(* Unsigned 32-bit subtraction from millis().                              *)
Since(ms) == (Millis - ms) % Wrap

(* Slip: the window is closed at its end.                                  *)
CoolingDown_Closed(a) ==
    \E i \in Slot : ip[i] = a /\ lastMs[i] # 0 /\ Since(lastMs[i]) <= Cooldown

(* admit() answers FALSE.                                                  *)
CoolingDown(a) ==
    \E i \in Slot : ip[i] = a /\ lastMs[i] # 0 /\ Since(lastMs[i]) < Cooldown

(* The first of the slots with the smallest stamp: stamps are compared as  *)
(* numbers, with no regard to a wrap.                                      *)
Oldest ==
    CHOOSE i \in Slot :
        \A j \in Slot : lastMs[i] < lastMs[j] \/ (lastMs[i] = lastMs[j] /\ i <= j)

(* Slip: touch() evicts the newest.                                        *)
SlotFor_Newest(a) ==
    IF \E i \in Slot : ip[i] = a THEN CHOOSE i \in Slot : ip[i] = a
    ELSE CHOOSE i \in Slot : \A j \in Slot : lastMs[i] >= lastMs[j]

(* The slot touch() stamps.                                                *)
SlotFor(a) ==
    IF \E i \in Slot : ip[i] = a
    THEN CHOOSE i \in Slot : ip[i] = a /\ \A j \in Slot : ip[j] = a => i <= j
    ELSE Oldest

GateInit ==
    /\ ip = [i \in Slot |-> NoIp] /\ lastMs = [i \in Slot |-> 0]
    /\ pending = [l \in Listeners |-> NoIp]
    /\ now = 1
    /\ seen = [a \in Ips |-> 0]
    /\ burst = [a \in Ips |-> 0]

(* Slip: the answer of admit() is not looked at.                           *)
LetIn_Unchecked(l, a) ==
    /\ pending[l] = NoIp
    /\ pending' = [pending EXCEPT ![l] = a]
    /\ UNCHANGED <<ip, lastMs, now, seen, burst>>

(* A connection arrives and admit() lets it in; one it keeps out is closed *)
(* and changes nothing.                                                    *)
LetIn(l, a) ==
    /\ pending[l] = NoIp
    /\ ~CoolingDown(a)
    /\ pending' = [pending EXCEPT ![l] = a]
    /\ UNCHANGED <<ip, lastMs, now, seen, burst>>

(* touch() when the session begins.                                        *)
Touch(l) ==
    LET a == pending[l]
        i == SlotFor(a)
    IN  /\ a # NoIp
        /\ ip' = [ip EXCEPT ![i] = a]
        /\ lastMs' = [lastMs EXCEPT ![i] = Millis]
        /\ pending' = [pending EXCEPT ![l] = NoIp]
        /\ seen' = [seen EXCEPT ![a] = now]
        /\ burst' = [burst EXCEPT ![a] = IF CoolingDown(a) THEN @ + 1 ELSE 1]
        /\ UNCHANGED now

(* The Telnet listener finds all its sessions taken and closes the         *)
(* admitted connection without a touch.                                    *)
TurnAway(l) ==
    /\ l \in Capped /\ pending[l] # NoIp
    /\ pending' = [pending EXCEPT ![l] = NoIp]
    /\ UNCHANGED <<ip, lastMs, now, seen, burst>>

Tick ==
    /\ now < MaxTime
    /\ now' = now + 1
    /\ UNCHANGED <<ip, lastMs, pending, seen, burst>>

GateNext ==
    \/ \E l \in Listeners, a \in Ips : LetIn(l, a)
    \/ \E l \in Listeners : Touch(l)
    \/ \E l \in Listeners : TurnAway(l)
    \/ Tick

GateSpec == GateInit /\ [][GateNext]_gatevars

-----------------------------------------------------------------------------
(* An address has at most one slot.                                        *)
OneSlotPerIp ==
    \A i, j \in Slot : ip[i] = ip[j] /\ ip[i] # NoIp => i = j

(* Types of the state, and that no address takes two slots of the ring.    *)
GateTypeOK ==
    /\ ip \in [Slot -> Ips \cup {NoIp}]
    /\ lastMs \in [Slot -> Nat] /\ \A i \in Slot : lastMs[i] < Wrap
    /\ pending \in [Listeners -> Ips \cup {NoIp}]
    /\ now \in Nat
    /\ seen \in [Ips -> Nat] /\ burst \in [Ips -> Nat]
    /\ OneSlotPerIp

(* admit() keeps an address out only within Cooldown of a session of its   *)
(* own: eviction and slot reuse never charge one address with another's    *)
(* stamp.                                                                  *)
ShutOnlyInWindow ==
    \A a \in Ips : CoolingDown(a) => seen[a] # 0 /\ now - seen[a] < Cooldown

(* The other addresses seen no earlier than a.                             *)
SeenSince(a) == {b \in Ips \ {a} : seen[b] >= seen[a]}

(* admit() keeps an address out through its whole cooldown unless as many  *)
(* other addresses as the ring has slots were seen since: touch() evicts   *)
(* the one that has been away longest.                                     *)
HoldsThroughWindow ==
    \A a \in Ips :
        /\ seen[a] # 0 /\ now - seen[a] < Cooldown
        /\ Cardinality(SeenSince(a)) < Slots
        => CoolingDown(a)

(* admit() and touch() are two critical sections, so several listeners can *)
(* let the same address in before one touches it; after the first touch no *)
(* more do, so a burst has at most one session per listener.               *)
BurstBounded == \A a \in Ips : burst[a] <= Cardinality(Listeners)

=============================================================================
