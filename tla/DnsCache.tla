------------------------------- MODULE DnsCache -------------------------------
(***************************************************************************)
(* The name cache in front of every outbound request (dns_cache.cpp), and  *)
(* the 32-bit clock it and the reporters read. A slot keeps when it was    *)
(* filled; what the code stores, an expiry time, follows from that.        *)
(***************************************************************************)
EXTENDS Naturals, FiniteSetsExt

CONSTANTS Hosts,
          Slots,      \* kSlots
          PositiveTtl, NegativeTtl,
          Wrap        \* ticks until millis() starts again at 0

ASSUME DnsAssumption ==
    /\ Slots \in Nat \ {0} /\ PositiveTtl \in Nat \ {0} /\ NegativeTtl \in Nat \ {0}
    /\ Wrap \in Nat /\ PositiveTtl < Wrap /\ NegativeTtl < Wrap

VARIABLES now, bootAt, \* true time in ticks, and when the board started
          dns          \* s_slots by host: when it was asked, whether it resolved

clock == <<now, bootAt>>

(***************************************************************************)
(* millis(): what it shows at a true time of this boot.                    *)
(***************************************************************************)
Stamp(t) == (t - bootAt) % Wrap
Millis == Stamp(now)

\* No wrap between then and now.
SameEpoch(t) == (t - bootAt) \div Wrap = (now - bootAt) \div Wrap

\* A deadline as the code compares it; 0 stands for no deadline.
Before(deadline) == deadline # 0 /\ Millis < deadline

Expires(host)   == IF dns[host].ok THEN Stamp(dns[host].at + PositiveTtl) ELSE 0
FailUntil(host) == IF dns[host].ok THEN 0 ELSE Stamp(dns[host].at + NegativeTtl)

Cached(host)     == host \in DOMAIN dns /\ Before(Expires(host))
Suppressed(host) == host \in DOMAIN dns /\ Before(FailUntil(host))

Staleness(host) == Max({Expires(host), FailUntil(host)})

\* claim_slot_: its own, an empty one, or the one that expires first.
Victims(host) ==
    IF host \in DOMAIN dns \/ Cardinality(DOMAIN dns) < Slots THEN {{}}
    ELSE {{v} : v \in {v \in DOMAIN dns : \A u \in DOMAIN dns : Staleness(v) <= Staleness(u)}}

\* dns_cache_resolve: the resolver is only asked when the table does not know.
Resolve(host, answers) ==
    IF Cached(host) \/ Suppressed(host) THEN UNCHANGED dns
    ELSE \E out \in Victims(host) :
            dns' = [h \in (DOMAIN dns \ out) \cup {host} |->
                      IF h = host THEN [at |-> now, ok |-> answers] ELSE dns[h]]

\* What it returns.
Resolved(host, answers) == Cached(host) \/ (~Suppressed(host) /\ answers)

DnsOK == /\ DOMAIN dns \subseteq Hosts /\ Cardinality(DOMAIN dns) <= Slots
         /\ \A h \in DOMAIN dns : dns[h].at \in bootAt..now /\ dns[h].ok \in BOOLEAN

\* Until the clock wraps, an answer is used for no longer than its time to
\* live, and a failure keeps nobody from asking again for longer than its own,
\* whatever was evicted and asked again in between (dns_cache_resolve).
AnswerFresh ==
    \A h \in DOMAIN dns : SameEpoch(dns[h].at) =>
        /\ Cached(h) => now - dns[h].at < PositiveTtl
        /\ Suppressed(h) => now - dns[h].at < NegativeTtl

===============================================================================
