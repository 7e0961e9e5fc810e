---------------------------- MODULE TelnetOutBuf ----------------------------
(***************************************************************************)
(* The outbound ring of one Telnet session (tn_send and tn_pump_out_ in    *)
(* src/src/telnet_honeypot.cpp).  The AsyncTCP task and the worker both    *)
(* append to it and both drain it: a drain copies the head under the       *)
(* mutex, hands it to AsyncTCP without it, and takes it again to remove    *)
(* what was accepted.                                                      *)
(*                                                                         *)
(* Bytes are numbered in the order they were offered.  External: AsyncTCP  *)
(* accepts any prefix of what it is handed, or nothing.                    *)
(***************************************************************************)
EXTENDS Integers, Sequences

CONSTANTS
    Cap,            \* kTnOutboundCap
    Chunk,          \* sizeof(tmp)
    MaxSend,        \* bound: bytes in one tn_send
    MaxOffered      \* bound: bytes in a behaviour

ASSUME RingAssumption ==
    {Cap, Chunk, MaxSend} \subseteq Nat \ {0} /\ MaxOffered \in Nat

Drainers == {"async", "worker"}

VARIABLES
    outBuf,         \* out_buf
    outDropped,     \* out_dropped
    connected,      \* client->connected()
    drain,          \* task -> "idle", "add" or "remove"
    tmp,            \* task -> the bytes copied, then the ones accepted
    wire,           \* bytes AsyncTCP accepted
    offered,        \* bytes offered so far
    accepted,       \* bytes the ring took, in order
    overlapped      \* a drain began while the other task's was under way

ring == <<outBuf, outDropped, connected, drain, tmp, wire, offered, accepted, overlapped>>

Prefix(s, n) == SubSeq(s, 1, n)
Rest(s, n)   == SubSeq(s, n + 1, Len(s))

Fresh(n) == [i \in 1 .. n |-> offered + i]

RingInit ==
    /\ outBuf = <<>> /\ outDropped = 0 /\ connected = TRUE
    /\ drain = [t \in Drainers |-> "idle"] /\ tmp = [t \in Drainers |-> <<>>]
    /\ wire = <<>> /\ offered = 0 /\ accepted = <<>> /\ overlapped = FALSE

(* tn_send: the part that fits is appended, the rest is dropped.           *)
Send(t, n) ==
    /\ drain[t] = "idle"
    /\ offered + n <= MaxOffered                            \* bound
    /\ LET room == Cap - Len(outBuf)
           take == IF n < room THEN n ELSE room
       IN /\ outBuf' = outBuf \o Fresh(take)
          /\ accepted' = accepted \o Fresh(take)
          /\ outDropped' = outDropped + (n - take)
    /\ offered' = offered + n
    /\ UNCHANGED <<connected, drain, tmp, wire, overlapped>>

(* Slip: a drain waits for a full chunk.                                   *)
Snapshot_FullChunk(t, n) ==
    /\ drain[t] = "idle" /\ connected
    /\ n <= Len(outBuf) /\ n = Chunk
    /\ tmp' = [tmp EXCEPT ![t] = Prefix(outBuf, n)]
    /\ drain' = [drain EXCEPT ![t] = "add"]
    /\ overlapped' = (overlapped \/ \E u \in Drainers : drain[u] # "idle")
    /\ UNCHANGED <<outBuf, outDropped, connected, wire, offered, accepted>>

(* tn_pump_out_: as much of the head as space() and tmp allow.             *)
Snapshot(t, n) ==
    /\ drain[t] = "idle" /\ connected
    /\ n <= Len(outBuf) /\ n <= Chunk
    /\ tmp' = [tmp EXCEPT ![t] = Prefix(outBuf, n)]
    /\ drain' = [drain EXCEPT ![t] = "add"]
    /\ overlapped' = (overlapped \/ \E u \in Drainers : drain[u] # "idle")
    /\ UNCHANGED <<outBuf, outDropped, connected, wire, offered, accepted>>

(* client->add accepts n bytes of the copy; with none the drain is over.   *)
Add(t, n) ==
    /\ drain[t] = "add"
    /\ n <= Len(tmp[t]) /\ (n > 0 => connected)
    /\ wire' = wire \o Prefix(tmp[t], n)
    /\ tmp' = [tmp EXCEPT ![t] = Prefix(@, n)]
    /\ drain' = [drain EXCEPT ![t] = IF n = 0 THEN "idle" ELSE "remove"]
    /\ UNCHANGED <<outBuf, outDropped, connected, offered, accepted, overlapped>>

(* Slip: the whole copy is removed, not what was accepted.                 *)
Remove_Chunk(t) ==
    /\ drain[t] = "remove"
    /\ outBuf' = IF Len(outBuf) >= Chunk THEN Rest(outBuf, Chunk) ELSE <<>>
    /\ tmp' = [tmp EXCEPT ![t] = <<>>]
    /\ drain' = [drain EXCEPT ![t] = "idle"]
    /\ UNCHANGED <<outDropped, connected, wire, offered, accepted, overlapped>>

(* The head of the ring is removed, as long as what was accepted.          *)
Remove(t) ==
    /\ drain[t] = "remove"
    /\ LET n == Len(tmp[t])
       IN outBuf' = IF Len(outBuf) >= n THEN Rest(outBuf, n) ELSE <<>>
    /\ tmp' = [tmp EXCEPT ![t] = <<>>]
    /\ drain' = [drain EXCEPT ![t] = "idle"]
    /\ UNCHANGED <<outDropped, connected, wire, offered, accepted, overlapped>>

(* A drain that finds the peer gone empties the ring.                      *)
Clear(t) ==
    /\ drain[t] = "idle" /\ ~connected
    /\ outBuf' = <<>>
    /\ UNCHANGED <<outDropped, connected, drain, tmp, wire, offered, accepted, overlapped>>

Disconnect ==
    /\ connected
    /\ connected' = FALSE
    /\ UNCHANGED <<outBuf, outDropped, drain, tmp, wire, offered, accepted, overlapped>>

Drain(t) ==
    \/ \E n \in 1 .. Chunk : Snapshot(t, n)
    \/ \E n \in 0 .. Chunk : Add(t, n)
    \/ Remove(t)
    \/ Clear(t)

RingNext ==
    \/ \E t \in Drainers : Drain(t) \/ \E n \in 1 .. MaxSend : Send(t, n)
    \/ Disconnect

RingSpec == RingInit /\ [][RingNext]_ring

(* AsyncTCP polls every second, so its drain goes on; a drain that was     *)
(* begun is finished; and the peer acknowledges, so AsyncTCP does not      *)
(* refuse for ever.                                                        *)
RingFairSpec ==
    /\ RingSpec
    /\ WF_ring(\E n \in 1 .. Chunk : Snapshot("async", n))
    /\ \A t \in Drainers :
         /\ WF_ring(Remove(t))
         /\ WF_ring(\E n \in 0 .. Chunk : Add(t, n))
         /\ SF_ring(\E n \in 1 .. Chunk : Add(t, n))

-----------------------------------------------------------------------------
(* The ring never holds more than kTnOutboundCap bytes (318-333), whatever *)
(* the two tasks do to it, and a drain's copy never more than tmp.         *)
RingOK ==
    /\ outBuf \in Seq(Nat) /\ Len(outBuf) <= Cap
    /\ outDropped \in Nat /\ connected \in BOOLEAN
    /\ drain \in [Drainers -> {"idle", "add", "remove"}]
    /\ tmp \in [Drainers -> Seq(Nat)] /\ \A t \in Drainers : Len(tmp[t]) <= Chunk
    /\ wire \in Seq(Nat) /\ accepted \in Seq(Nat)
    /\ offered \in Nat /\ overlapped \in BOOLEAN

(* Bytes on the wire that are still at the head of the ring.               *)
Unremoved ==
    IF drain["async"] = "remove" THEN Len(tmp["async"])
    ELSE IF drain["worker"] = "remove" THEN Len(tmp["worker"])
    ELSE 0

(* While the peer is there and drains did not overlap, the wire followed   *)
(* by the ring is what the ring took, byte by byte: nothing is sent twice, *)
(* skipped or reordered, although add() runs without the mutex (277-308);  *)
(* and every byte that is missing was counted as dropped (318-333).        *)
StreamIntact ==
    connected /\ ~overlapped =>
        /\ wire \o Rest(outBuf, Unremoved) = accepted
        /\ Len(accepted) + outDropped = offered

(* A drain under way has the head of the ring in hand, unless another one  *)
(* overlapped it or the peer left.                                         *)
HeadInHand ==
    connected /\ ~overlapped =>
        \A t \in Drainers :
            drain[t] # "idle" =>
                Len(outBuf) >= Len(tmp[t]) /\ Prefix(outBuf, Len(tmp[t])) = tmp[t]

(* Under RingFairSpec, every byte the ring takes reaches the wire, unless  *)
(* the peer leaves or drains overlap (277-308, 684-713).                   *)
Drained ==
    \A b \in 1 .. MaxOffered :
        (\E i \in DOMAIN outBuf : outBuf[i] = b)
          ~> (\E i \in DOMAIN wire : wire[i] = b) \/ ~connected \/ overlapped

=============================================================================
