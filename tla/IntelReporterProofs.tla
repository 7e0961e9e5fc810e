-------------------------- MODULE IntelReporterProofs --------------------------
(***************************************************************************)
(* The bookkeeping of the intel task, for every value of the constants:    *)
(* what the services acknowledged stays marked, DShield's batch keeps what *)
(* it owes and leaks nothing, pulses are accounted for, the hub heals the  *)
(* ids, and every interval on the wrapping clock is kept.                  *)
(***************************************************************************)
EXTENDS IntelReporter, FiniteSetTheorems, WellFoundedInduction, SequenceTheorems, TLAPS

(***************************************************************************)
(* Arithmetic: the clock that wraps.                                       *)
(***************************************************************************)

(* Quotient and remainder put a number together again.                     *)
LEMMA DivMod ==
    ASSUME NEW n \in Nat, NEW w \in Nat \ {0}
    PROVE  /\ n \div w \in Nat /\ n % w \in 0 .. (w - 1)
           /\ n = w * (n \div w) + (n % w)
<1>1. n % w \in 0 .. (w - 1)
  OBVIOUS
<1>2. n \div w \in Int /\ n = w * (n \div w) + (n % w)
  OBVIOUS
<1>3. n \div w >= 0
  <2> DEFINE q == n \div w
             r == n % w
  <2>1. q \in Int /\ r \in 0 .. (w - 1) /\ n = w * q + r
    BY <1>1, <1>2
  <2> HIDE DEF q, r
  <2>2. q >= 0
    <3> SUFFICES ASSUME q <= -1 PROVE FALSE
      BY <2>1
    <3>1. w * q <= -w
      BY <2>1
    <3> QED BY <2>1, <3>1
  <2> QED BY <2>2 DEF q
<1> QED BY <1>1, <1>2, <1>3

(* and they are the only ones.                                             *)
LEMMA ModIs ==
    ASSUME NEW w \in Nat \ {0}, NEW q \in Nat, NEW r \in 0 .. (w - 1)
    PROVE  (w * q + r) % w = r
OBVIOUS
LEMMA DivIs ==
    ASSUME NEW w \in Nat \ {0}, NEW q \in Nat, NEW r \in 0 .. (w - 1)
    PROVE  (w * q + r) \div w = q
OBVIOUS

(* A sum shows as the sum of what is shown, or wraps once.                 *)
LEMMA ModOfSum ==
    ASSUME NEW a \in Nat, NEW g \in Nat, NEW w \in Nat \ {0}, g < w
    PROVE  (a + g) % w = IF (a % w) + g < w THEN (a % w) + g ELSE (a % w) + g - w
<1> DEFINE q == a \div w
           r == a % w
<1>1. q \in Nat /\ r \in 0 .. (w - 1) /\ a = w * q + r
  BY DivMod
<1> HIDE DEF q, r
<1>2. CASE r + g < w
  <2>1. a + g = w * q + (r + g) /\ r + g \in 0 .. (w - 1)
    BY <1>1, <1>2
  <2>2. (a + g) % w = r + g
    BY <2>1, <1>1, ModIs
  <2> QED BY <1>2, <2>2 DEF r
<1>3. CASE ~(r + g < w)
  <2>1. /\ a + g = w * (q + 1) + (r + g - w)
        /\ r + g - w \in 0 .. (w - 1) /\ q + 1 \in Nat
    <3>1. w * (q + 1) = w * q + w
      BY <1>1
    <3> QED BY <1>1, <1>3, <3>1
  <2>2. (a + g) % w = r + g - w
    BY <2>1, ModIs
  <2> QED BY <1>3, <2>2 DEF r
<1> QED BY <1>2, <1>3

(* Within one turn of the clock differences are what they are.             *)
LEMMA SameTurn ==
    ASSUME NEW a \in Nat, NEW b \in Nat, NEW w \in Nat \ {0}, a \div w = b \div w
    PROVE  b - a = (b % w) - (a % w)
<1> DEFINE q == a \div w
<1>1. /\ q \in Nat /\ a % w \in 0 .. (w - 1) /\ a = w * q + (a % w)
      /\ b % w \in 0 .. (w - 1) /\ b = w * q + (b % w)
  BY DivMod
<1> DEFINE ra == a % w
           rb == b % w
<1> HIDE DEF q, ra, rb
<1>2. ra \in Int /\ rb \in Int /\ w * q \in Int /\ a = w * q + ra /\ b = w * q + rb
  BY <1>1 DEF ra, rb
<1>3. b - a = rb - ra
  BY <1>2
<1> QED BY <1>3 DEF ra, rb

(* The first turn.                                                         *)
LEMMA FirstTurn ==
    ASSUME NEW a \in Nat, NEW w \in Nat \ {0}
    PROVE  /\ a < w => a % w = a
           /\ a \div w = 0 => a < w
           /\ 0 \div w = 0 /\ 0 % w = 0
<1>1. /\ a \div w \in Nat /\ a % w \in 0 .. (w - 1)
      /\ a = w * (a \div w) + (a % w)
  BY DivMod
<1>2. a < w => a % w = a
  OBVIOUS
<1>3. a \div w = 0 => a < w
  BY <1>1
<1>4. 0 \div w = 0 /\ 0 % w = 0
  OBVIOUS
<1> QED BY <1>2, <1>3, <1>4

(***************************************************************************)
(* Sets and sequences.                                                     *)
(***************************************************************************)

(* Every nonempty set of naturals has a least element.                     *)
LEMMA LeastNatural ==
    ASSUME NEW S \in SUBSET Nat, S # {}
    PROVE  \E x \in S : \A y \in S : x <= y
<1> DEFINE R == OpToRel(<, Nat)
<1>1. IsWellFoundedOn(R, Nat)
  BY NatLessThanWellFounded
<1>2. PICK x \in S : \A y \in S : ~ (<<y, x>> \in R)
  <2> HIDE DEF R
  <2> QED BY <1>1, WFMin
<1>3. \A y \in S : ~ (y < x)
  BY <1>2 DEF OpToRel
<1> QED BY <1>3

(* A set that has 0 and, with each number, the next one has all of them.   *)
LEMMA UpTo ==
    ASSUME NEW L \in Nat, NEW S, 0 \in S, \A n \in 1 .. L : n - 1 \in S => n \in S
    PROVE  \A n \in 0 .. L : n \in S
<1> DEFINE Bad == {n \in 0 .. L : n \notin S}
<1> SUFFICES ASSUME Bad # {} PROVE FALSE
  OBVIOUS
<1>1. PICK n \in Bad : \A k \in Bad : n <= k
  <2>1. Bad \in SUBSET Nat
    OBVIOUS
  <2> HIDE DEF Bad
  <2> QED BY <2>1, LeastNatural
<1>2. n \in 1 .. L /\ n - 1 \in 0 .. L /\ n \notin S
  BY <1>1
<1>3. n - 1 \in S
  BY <1>1, <1>2
<1> QED BY <1>2, <1>3

(* f starts at x0 and goes on as G says.                                   *)
Follows(f, L, X, x0, G) ==
    f \in [0 .. L -> X] /\ f[0] = x0 /\ \A n \in 1 .. L : f[n] = G[<<n, f[n - 1]>>]

(* A function that is defined by recursion, with a step that stays in a    *)
(* set, exists.                                                            *)
LEMMA Recursion ==
    ASSUME NEW L \in Nat, NEW X, NEW x0 \in X, NEW G \in [(1 .. L) \X X -> X]
    PROVE  \E f : Follows(f, L, X, x0, G)
<1> DEFINE Upto(k, f) == /\ f \in [0 .. k -> X] /\ f[0] = x0
                         /\ \A n \in 1 .. k : f[n] = G[<<n, f[n - 1]>>]
           S == {k \in 0 .. L : \E f : Upto(k, f)}
<1>1. 0 \in S
  <2>1. Upto(0, [n \in 0 .. 0 |-> x0])
    OBVIOUS
  <2>2. \E f : Upto(0, f)
    <3> HIDE DEF Upto
    <3> QED BY <2>1
  <2>3. 0 \in 0 .. L
    OBVIOUS
  <2> HIDE DEF Upto
  <2> QED BY <2>2, <2>3
<1>2. ASSUME NEW k \in 1 .. L, k - 1 \in S PROVE k \in S
  <2>1. PICK f : /\ f \in [0 .. k - 1 -> X] /\ f[0] = x0
                 /\ \A n \in 1 .. k - 1 : f[n] = G[<<n, f[n - 1]>>]
    BY <1>2
  <2>2. k - 1 \in 0 .. k - 1
    OBVIOUS
  <2>3. f[k - 1] \in X
    BY <2>1, <2>2
  <2> DEFINE y == G[<<k, f[k - 1]>>]
  <2>4. y \in X
    BY <2>3
  <2> HIDE DEF y
  <2> DEFINE g == [n \in 0 .. k |-> IF n = k THEN y ELSE f[n]]
  <2>5. \A n \in 0 .. k : n # k => n \in 0 .. k - 1
    OBVIOUS
  <2>6. g \in [0 .. k -> X]
    BY <2>1, <2>4, <2>5
  <2>7. /\ k \in 0 .. k /\ 0 \in 0 .. k /\ k # 0
        /\ \A n \in 1 .. k : n \in 0 .. k /\ n - 1 \in 0 .. k /\ n - 1 # k
        /\ \A n \in 1 .. k : n # k => n \in 1 .. k - 1
    OBVIOUS
  <2>8. g[0] = x0 /\ g[k] = y /\ \A n \in 0 .. k : n # k => g[n] = f[n]
    BY <2>1, <2>7
  <2> HIDE DEF g
  <2>9. ASSUME NEW n \in 1 .. k PROVE g[n] = G[<<n, g[n - 1]>>]
    <3>1. g[n - 1] = f[n - 1]
      BY <2>7, <2>8
    <3>2. CASE n = k
      BY <2>8, <3>1, <3>2 DEF y
    <3>3. CASE n # k
      <4>1. g[n] = f[n] /\ f[n] = G[<<n, f[n - 1]>>]
        BY <2>1, <2>7, <2>8, <3>3
      <4> QED BY <3>1, <4>1
    <3> QED BY <3>2, <3>3
  <2>10. Upto(k, g)
    BY <2>6, <2>8, <2>9
  <2>11. \E h : Upto(k, h)
    <3> HIDE DEF Upto
    <3> QED BY <2>10
  <2>12. k \in 0 .. L
    OBVIOUS
  <2> HIDE DEF Upto
  <2> QED BY <2>11, <2>12
<1>3. L \in S
  <2> HIDE DEF S
  <2> QED BY <1>1, <1>2, UpTo
<1>4. PICK f : Upto(L, f)
  BY <1>3
<1>5. Follows(f, L, X, x0, G)
  BY <1>4 DEF Follows
<1> QED BY <1>5

(* Two functions that start alike and go on alike are alike.               *)
GoAlike(f, g, L) ==
    f[0] = g[0] /\ \A n \in 1 .. L : f[n - 1] = g[n - 1] => f[n] = g[n]
LEMMA Alike ==
    ASSUME NEW L \in Nat, NEW f, NEW g, GoAlike(f, g, L)
    PROVE  \A n \in 0 .. L : f[n] = g[n]
<1> DEFINE S == {n \in 0 .. L : f[n] = g[n]}
<1>1. 0 \in S
  BY DEF GoAlike
<1>2. \A n \in 1 .. L : n - 1 \in S => n \in S
  BY DEF GoAlike
<1>3. \A n \in 0 .. L : n \in S
  <2> HIDE DEF S
  <2> QED BY <1>1, <1>2, UpTo
<1> QED BY <1>3

(* Max of a finite set of naturals is in it and above all of it.           *)
LEMMA MaxIsMax ==
    ASSUME NEW S \in SUBSET Nat, S # {}, IsFiniteSet(S)
    PROVE  Max(S) \in S /\ \A y \in S : Max(S) >= y
<1> DEFINE Bad(T) == T # {} /\ IsFiniteSet(T) /\ ~(\E x \in T : \A y \in T : x >= y)
           C == {n \in Nat : \E T \in SUBSET Nat : Bad(T) /\ Cardinality(T) = n}
<1>1. C = {}
  <2> SUFFICES ASSUME C # {} PROVE FALSE
    OBVIOUS
  <2>1. PICK n \in C : \A m \in C : n <= m
    BY LeastNatural
  <2>2. PICK T \in SUBSET Nat : Bad(T) /\ Cardinality(T) = n
    BY <2>1
  <2>3. PICK t \in T : TRUE
    BY <2>2
  <2> DEFINE R == T \ {t}
  <2>4. IsFiniteSet(R) /\ Cardinality(R) = n - 1 /\ R \in SUBSET Nat
    BY <2>2, <2>3, FS_RemoveElement
  <2>5. Cardinality(R) \in Nat
    BY <2>4, FS_CardinalityType
  <2>6. ~Bad(R)
    <3> SUFFICES ASSUME Bad(R) PROVE FALSE
      OBVIOUS
    <3>1. Cardinality(R) \in C
      BY <2>4, <2>5
    <3>2. n \in Nat /\ n <= Cardinality(R) /\ Cardinality(R) = n - 1
      <4>1. n \in Nat
        BY <2>1
      <4>2. n <= Cardinality(R)
        <5> HIDE DEF C, R
        <5> QED BY <2>1, <3>1
      <4> QED BY <2>4, <4>1, <4>2
    <3> QED
      <4> HIDE DEF C, R, Bad
      <4> QED BY <3>2
  <2>7. CASE R = {}
    <3>1. \A y \in T : y = t
      BY <2>7
    <3> QED BY <2>2, <2>3, <3>1
  <2>8. CASE R # {}
    <3>1. PICK m \in R : \A y \in R : m >= y
      BY <2>4, <2>6, <2>8
    <3> DEFINE b == IF m >= t THEN m ELSE t
    <3>2. b \in T /\ \A y \in T : b >= y
      BY <2>3, <2>4, <3>1
    <3> QED BY <2>2, <3>2
  <2> QED BY <2>7, <2>8
<1>2. ~Bad(S)
  <2>1. Cardinality(S) \in Nat
    BY FS_CardinalityType
  <2> QED BY <1>1, <2>1
<1>3. \E x \in S : \A y \in S : x >= y
  BY <1>2
<1> QED BY <1>3 DEF Max

(* Min of a set of naturals is in it.                                      *)
LEMMA MinIsIn == ASSUME NEW S \in SUBSET Nat, S # {} PROVE Min(S) \in S
BY LeastNatural DEF Min

(* Replacing a member of a full set, or adding to one with room.           *)
LEMMA ReplaceKeepsBound ==
    ASSUME NEW S, IsFiniteSet(S), NEW x, NEW out, NEW n \in Nat, Cardinality(S) <= n,
           \/ out = {} /\ (x \in S \/ Cardinality(S) < n)
           \/ \E v \in S : out = {v}
    PROVE  IsFiniteSet((S \ out) \cup {x}) /\ Cardinality((S \ out) \cup {x}) <= n
<1>1. Cardinality(S) \in Nat
  BY FS_CardinalityType
<1>2. CASE out = {} /\ x \in S
  <2>1. (S \ out) \cup {x} = S
    BY <1>2
  <2> QED BY <2>1
<1>3. CASE out = {} /\ Cardinality(S) < n
  <2>1. (S \ out) \cup {x} = S \cup {x}
    BY <1>3
  <2>2. /\ IsFiniteSet(S \cup {x})
        /\ Cardinality(S \cup {x}) = Cardinality(S) \/ Cardinality(S \cup {x}) = Cardinality(S) + 1
    BY FS_AddElement
  <2> QED BY <1>1, <1>3, <2>1, <2>2
<1>4. ASSUME NEW v \in S, out = {v} PROVE IsFiniteSet((S \ out) \cup {x}) /\ Cardinality((S \ out) \cup {x}) <= n
  <2>1. IsFiniteSet(S \ {v}) /\ Cardinality(S \ {v}) = Cardinality(S) - 1
    BY <1>4, FS_RemoveElement
  <2>2. /\ IsFiniteSet((S \ {v}) \cup {x})
        /\ Cardinality((S \ {v}) \cup {x}) = Cardinality(S \ {v}) \/ Cardinality((S \ {v}) \cup {x}) = Cardinality(S \ {v}) + 1
    BY FS_AddElement, <2>1
  <2>3. Cardinality((S \ {v}) \cup {x}) <= n
    BY <1>1, <2>1, <2>2
  <2> QED BY <1>4, <2>2, <2>3
<1> QED BY <1>2, <1>3, <1>4

(* What ToSet makes of the empty sequence and of the pieces of one.        *)
LEMMA ToSetOfPieces ==
    /\ ToSet(<<>>) = {}
    /\ \A s \in Seq(Nat) : /\ ToSet(s) \in SUBSET Nat
                           /\ s # <<>> => /\ Head(s) \in ToSet(s) /\ Tail(s) \in Seq(Nat)
                                          /\ ToSet(Tail(s)) \subseteq ToSet(s)
                                          /\ ToSet(s) = ToSet(Tail(s)) \cup {Head(s)}
                                          /\ Len(s) = 1 <=> Tail(s) = <<>>
                                          /\ Len(Tail(s)) = Len(s) - 1
    /\ \A s \in Seq(Nat), e \in Nat : /\ Append(s, e) \in Seq(Nat)
                                      /\ ToSet(Append(s, e)) = ToSet(s) \cup {e}
                                      /\ Len(Append(s, e)) = Len(s) + 1
<1>1. ToSet(<<>>) = {}
  BY DEF ToSet
<1>2. ASSUME NEW s \in Seq(Nat), s # <<>>
      PROVE  /\ Head(s) \in ToSet(s) /\ Tail(s) \in Seq(Nat)
             /\ ToSet(Tail(s)) \subseteq ToSet(s)
             /\ ToSet(s) = ToSet(Tail(s)) \cup {Head(s)}
             /\ Len(s) = 1 <=> Tail(s) = <<>>
             /\ Len(Tail(s)) = Len(s) - 1
  <2>1. /\ Tail(s) \in Seq(Nat) /\ Len(Tail(s)) = Len(s) - 1 /\ Len(s) \in Nat \ {0}
        /\ \A i \in 1 .. Len(Tail(s)) : Tail(s)[i] = s[i + 1]
        /\ Head(s) = s[1] /\ DOMAIN s = 1 .. Len(s) /\ DOMAIN Tail(s) = 1 .. Len(Tail(s))
    BY <1>2, HeadTailProperties, LenProperties
  <2>2. Head(s) \in ToSet(s)
    BY <2>1 DEF ToSet
  <2>3. ToSet(Tail(s)) \subseteq ToSet(s)
    <3> SUFFICES ASSUME NEW x \in ToSet(Tail(s)) PROVE x \in ToSet(s)
      OBVIOUS
    <3>1. PICK i \in 1 .. Len(Tail(s)) : x = s[i + 1]
      BY <2>1 DEF ToSet
    <3>2. i + 1 \in DOMAIN s
      BY <2>1, <3>1
    <3> QED BY <3>1, <3>2 DEF ToSet
  <2>4. ASSUME NEW x \in ToSet(s) PROVE x \in ToSet(Tail(s)) \cup {Head(s)}
    <3>1. PICK i \in 1 .. Len(s) : x = s[i]
      BY <2>1 DEF ToSet
    <3>2. CASE i = 1
      BY <2>1, <3>1, <3>2
    <3>3. CASE i # 1
      <4>1. i - 1 \in 1 .. Len(Tail(s)) /\ i = (i - 1) + 1
        BY <2>1, <3>1, <3>3
      <4>2. Tail(s)[i - 1] = x
        BY <2>1, <3>1, <4>1
      <4> QED BY <2>1, <4>1, <4>2 DEF ToSet
    <3> QED BY <3>2, <3>3
  <2>5. Len(s) = 1 <=> Tail(s) = <<>>
    <3>1. Len(Tail(s)) = 0 <=> Tail(s) = <<>>
      BY <2>1, EmptySeq
    <3> QED BY <2>1, <3>1
  <2> QED BY <2>1, <2>2, <2>3, <2>4, <2>5
<1>3. ASSUME NEW s \in Seq(Nat), NEW e \in Nat
      PROVE  /\ Append(s, e) \in Seq(Nat)
             /\ ToSet(Append(s, e)) = ToSet(s) \cup {e}
             /\ Len(Append(s, e)) = Len(s) + 1
  <2>1. /\ Append(s, e) \in Seq(Nat) /\ Len(Append(s, e)) = Len(s) + 1
        /\ \A i \in 1 .. Len(s) : Append(s, e)[i] = s[i]
        /\ Append(s, e)[Len(s) + 1] = e
        /\ DOMAIN s = 1 .. Len(s) /\ DOMAIN Append(s, e) = 1 .. Len(s) + 1 /\ Len(s) \in Nat
    BY AppendProperties, LenProperties
  <2>2. DOMAIN Append(s, e) = (1 .. Len(s)) \cup {Len(s) + 1}
    BY <2>1
  <2>3. ToSet(Append(s, e)) = ToSet(s) \cup {e}
    BY <2>1, <2>2 DEF ToSet
  <2> QED BY <2>1, <2>3
<1>4. ASSUME NEW s \in Seq(Nat) PROVE ToSet(s) \in SUBSET Nat
  BY LenProperties DEF ToSet
<1> QED BY <1>1, <1>2, <1>3, <1>4

(***************************************************************************)
(* What each action leaves alone.                                          *)
(***************************************************************************)

LEMMA TakeIdFrame ==
    TakeId => UNCHANGED <<now, bootAt, dns, on, lan, name, log, nextId, cd, geo, ram,
                          nvs, failedAt, alive, created, excused, pending, marks,
                          window, posted, owed, leaked, stale, hub, upload, healed,
                          told, kept, attacks, faults>>
BY DEF TakeId, clock, opts, task, otx, batch, hubs, bounds
LEMMA TimeOutFrame ==
    TimeOut => UNCHANGED <<now, bootAt, dns, on, lan, name, log, nextId, queue, hand, cd,
                           geo, ram, nvs, failedAt, alive, created, excused, pending,
                           marks, window, posted, owed, leaked, stale, hub, upload,
                           healed, told, kept, attacks, faults>>
BY DEF TimeOut, clock, opts, task, otx, batch, hubs, bounds
LEMMA GeoIpFrame ==
    GeoIp => UNCHANGED <<now, bootAt, on, lan, name, log, nextId, queue, cd, ram, nvs,
                         failedAt, alive, created, excused, pending, marks, window,
                         posted, owed, leaked, stale, hub, upload, healed, told,
                         attacks, faults>>
BY DEF GeoIp, Reach, Resolve, Mark, clock, opts, task, otx, batch, hubs, bounds
LEMMA AbuseFrame ==
    Abuse => UNCHANGED <<now, bootAt, on, lan, name, log, nextId, queue, geo, ram, nvs,
                         failedAt, alive, created, excused, pending, marks, window,
                         posted, owed, leaked, stale, hub, upload, healed, attacks,
                         faults>>
BY DEF Abuse, Acknowledged, Mark, Commit, clock, opts, task, otx, batch, hubs, bounds
LEMMA OtxFrame ==
    Otx => UNCHANGED <<now, bootAt, on, lan, name, log, nextId, queue, hand, cd, geo,
                       pending, marks, window, posted, owed, leaked, stale, hub,
                       upload, healed, told, kept, attacks, faults>>
BY DEF Otx, Ensure, Create, Reach, Resolve, otx, clock, opts, task, otx, batch, hubs, bounds
LEMMA SaveFrame ==
    Save => UNCHANGED <<now, bootAt, dns, on, lan, name, log, nextId, queue, hand, cd,
                        geo, failedAt, alive, created, excused, pending, marks,
                        window, posted, owed, leaked, stale, hub, upload, healed,
                        told, kept, attacks, faults>>
BY DEF Save, clock, opts, task, otx, batch, hubs, bounds
LEMMA PatchFrame ==
    Patch => UNCHANGED <<now, bootAt, dns, on, lan, name, log, nextId, queue, geo, ram,
                         failedAt, alive, created, pending, marks, window, posted,
                         owed, leaked, stale, hub, upload, healed, attacks, faults>>
BY DEF Patch, Acknowledged, Mark, Commit, clock, opts, task, otx, batch, hubs, bounds
LEMMA DshieldFrame ==
    Dshield => UNCHANGED <<now, bootAt, dns, on, lan, name, log, nextId, queue, hand,
                           geo, ram, nvs, failedAt, alive, created, excused, marks,
                           window, posted, leaked, stale, hub, upload, healed, told,
                           kept, attacks, faults>>
BY DEF Dshield, clock, opts, task, otx, batch, hubs, bounds
LEMMA HubFrame ==
    Hub => UNCHANGED <<now, bootAt, on, lan, name, log, queue, cd, geo, ram, nvs,
                       failedAt, alive, created, excused, pending, marks, window,
                       posted, owed, leaked, stale, told, attacks, faults>>
BY DEF Hub, Mark, clock, opts, task, otx, batch, hubs, bounds
LEMMA UpdateFrame ==
    Update => UNCHANGED <<now, bootAt, dns, on, lan, name, nextId, queue, cd, geo, ram,
                          nvs, failedAt, alive, created, excused, pending, marks,
                          window, posted, leaked, stale, hub, healed, told, kept,
                          attacks, faults>>
BY DEF Update, Put, clock, opts, task, otx, batch, hubs, bounds
LEMMA DrainFrame ==
    Drain => UNCHANGED <<now, bootAt, on, lan, name, log, nextId, queue, hand, cd, geo,
                         ram, nvs, failedAt, alive, created, excused, hub, upload,
                         healed, told, attacks, faults>>
BY DEF Drain, Post, Drop, clock, opts, task, otx, batch, hubs, bounds
LEMMA MarkSentFrame ==
    MarkSent => UNCHANGED <<now, bootAt, dns, on, lan, name, nextId, queue, hand, cd, geo,
                            ram, nvs, failedAt, alive, created, excused, window, posted,
                            leaked, hub, upload, healed, told, kept, attacks, faults>>
BY DEF MarkSent, Put, Drop, clock, opts, task, otx, batch, hubs, bounds
LEMMA CaptureFrame ==
    ASSUME NEW ip \in Ips, Capture(ip)
    PROVE  UNCHANGED <<now, bootAt, dns, on, lan, name, pc, hand, cd, geo, ram, nvs,
                         failedAt, alive, created, excused, pending, marks, window,
                         posted, leaked, stale, hub, upload, healed, told, faults>>
BY DEF Capture, Put, clock, opts, otx, hubs
LEMMA ClearFrame ==
    Clear => UNCHANGED <<now, bootAt, dns, on, lan, name, queue, pc, hand, cd, geo,
                         ram, nvs, failedAt, alive, created, excused, pending, marks,
                         window, posted, leaked, hub, upload, told, attacks>>
BY DEF Clear, clock, opts, task, otx, batch, hubs, bounds
LEMMA TickFrame ==
    Tick => UNCHANGED <<bootAt, dns, on, lan, name, log, nextId, queue, pc, hand, cd,
                        geo, ram, nvs, failedAt, alive, created, excused, pending,
                        marks, window, posted, owed, leaked, stale, hub, upload,
                        healed, told, kept, attacks, faults>>
BY DEF Tick, clock, opts, task, otx, batch, hubs, bounds
LEMMA RenameFrame ==
    Rename => UNCHANGED <<now, bootAt, dns, on, lan, log, nextId, queue, pc, hand, cd,
                          geo, ram, nvs, failedAt, alive, created, pending, marks,
                          window, posted, owed, leaked, stale, hub, upload, healed,
                          told, kept, attacks>>
BY DEF Rename, clock, opts, task, otx, batch, hubs, bounds
LEMMA PulseDeletedFrame ==
    PulseDeleted => UNCHANGED <<now, bootAt, dns, on, lan, name, log, nextId, queue, pc, hand,
                                cd, geo, ram, nvs, failedAt, created, excused, pending, marks,
                                window, posted, owed, leaked, stale, hub, upload, healed,
                                told, kept, attacks>>
BY DEF PulseDeleted, clock, opts, task, otx, batch, hubs, bounds
LEMMA RebootFrame ==
    Reboot => UNCHANGED <<on, lan, name, nvs, alive, created, posted, leaked, hub,
                          attacks, now>>
BY DEF Reboot, clock, opts, task, otx, batch, hubs, bounds

(***************************************************************************)
(* The model's operators.                                                  *)
(***************************************************************************)

LEMMA ServicesAre == Services = {"geoip", "abuse", "otx", "dshield", "hub"}
<1>1. DOMAIN Stages = 1 .. 5
  BY DEF Stages
<1>2. 1 .. 5 = {1, 2, 3, 4, 5}
  OBVIOUS
<1>3. /\ Stages[1] = "geoip" /\ Stages[2] = "abuse" /\ Stages[3] = "otx"
      /\ Stages[4] = "dshield" /\ Stages[5] = "hub"
  BY DEF Stages
<1> QED BY <1>1, <1>2, <1>3 DEF Services, ToSet

(* After a stage comes another one, or the entry goes back to the log.     *)
LEMMA StageAfterIs == \A n : StageAfter(n) \in Services \cup {"update"}
<1> SUFFICES ASSUME NEW n PROVE StageAfter(n) \in Services \cup {"update"}
  OBVIOUS
<1> DEFINE later == {m \in DOMAIN Stages : m > n /\ Stages[m] \in on}
<1>1. CASE later = {}
  BY <1>1 DEF StageAfter
<1>2. CASE later # {}
  <2>1. DOMAIN Stages = 1 .. 5
    BY DEF Stages
  <2>2. later \in SUBSET Nat
    BY <2>1
  <2>3. Min(later) \in later
    BY <1>2, <2>2, MinIsIn
  <2>4. Stages[Min(later)] \in Services
    BY <2>3 DEF Services, ToSet
  <2> QED BY <1>2, <2>4 DEF StageAfter
<1> QED BY <1>1, <1>2

(* The ids that are sent: those of the batch whose entries are on the log. *)
LEMMA SendableIs ==
    ASSUME pending \in Seq(Nat)
    PROVE  /\ Sendable \in Seq(Nat)
           /\ ToSet(Sendable) = {id \in ToSet(pending) : OnLog(id)}
<1> DEFINE L == Len(pending)
           Next1(f, n) == IF OnLog(pending[n]) THEN Append(f[n - 1], pending[n]) ELSE f[n - 1]
           Upto(f, k) == /\ f = [n \in 0 .. k |-> f[n]]
                         /\ f[0] = <<>>
                         /\ \A n \in 1 .. k : f[n] = Next1(f, n)
<1>1. L \in Nat /\ DOMAIN pending = 1 .. L /\ \A n \in 1 .. L : pending[n] \in Nat
  BY LenProperties
<1>2. \A k \in 0 .. L : \E f : Upto(f, k)
  <2> DEFINE Bad == {k \in 0 .. L : ~(\E f : Upto(f, k))}
  <2> SUFFICES ASSUME Bad # {} PROVE FALSE
    OBVIOUS
  <2>1. PICK k \in Bad : \A j \in Bad : k <= j
    <3>1. Bad \in SUBSET Nat
      BY <1>1
    <3> QED BY <3>1, LeastNatural
  <2>2. k # 0
    <3>1. Upto([n \in 0 .. 0 |-> <<>>], 0)
      OBVIOUS
    <3> QED BY <2>1, <3>1
  <2>3. k \in 1 .. L /\ k - 1 \in 0 .. L
    BY <1>1, <2>1, <2>2
  <2>4. PICK f : Upto(f, k - 1)
    BY <2>1, <2>3
  <2> DEFINE g == [n \in 0 .. k |-> IF n = k THEN Next1(f, k) ELSE f[n]]
  <2>5. Upto(g, k)
    <3>1. g[0] = <<>> /\ g = [n \in 0 .. k |-> g[n]]
      BY <2>3, <2>4
    <3>2. ASSUME NEW n \in 1 .. k PROVE g[n] = Next1(g, n)
      <4>1. n - 1 \in 0 .. k /\ n - 1 # k /\ g[n - 1] = f[n - 1]
        BY <2>3
      <4>2. CASE n = k
        BY <2>3, <4>1, <4>2
      <4>3. CASE n # k
        <5>1. n \in 1 .. k - 1 /\ g[n] = f[n]
          BY <2>3, <4>3
        <5> QED BY <2>4, <4>1, <5>1
      <4> QED BY <4>2, <4>3
    <3> QED BY <3>1, <3>2
  <2> QED BY <2>1, <2>5
<1> DEFINE F == CHOOSE f : f = [n \in 0 .. L |-> IF n = 0 THEN <<>> ELSE Next1(f, n)]
<1>3. F = [n \in 0 .. L |-> IF n = 0 THEN <<>> ELSE Next1(F, n)]
  <2>1. PICK f : Upto(f, L)
    BY <1>1, <1>2
  <2>2. f = [n \in 0 .. L |-> IF n = 0 THEN <<>> ELSE Next1(f, n)]
    <3>1. \A n \in 0 .. L : f[n] = IF n = 0 THEN <<>> ELSE Next1(f, n)
      <4> SUFFICES ASSUME NEW n \in 0 .. L PROVE f[n] = IF n = 0 THEN <<>> ELSE Next1(f, n)
        OBVIOUS
      <4>1. CASE n = 0
        BY <2>1, <4>1
      <4>2. CASE n # 0
        <5>1. n \in 1 .. L
          BY <1>1, <4>2
        <5> HIDE DEF Next1
        <5> QED BY <2>1, <4>2, <5>1
      <4> QED BY <4>1, <4>2
    <3> QED BY <2>1, <3>1
  <2> QED BY <2>2
<1>4. Sendable = F[L]
  BY DEF Sendable
<1> HIDE DEF F
<1> DEFINE Told(k) == /\ F[k] \in Seq(Nat)
                      /\ \A x : x \in ToSet(F[k]) <=> \E j \in 1 .. k : x = pending[j] /\ OnLog(x)
<1>5. \A k \in 0 .. L : Told(k)
  <2> DEFINE Bad == {k \in 0 .. L : ~Told(k)}
  <2> SUFFICES ASSUME Bad # {} PROVE FALSE
    OBVIOUS
  <2>1. PICK k \in Bad : \A j \in Bad : k <= j
    <3>1. Bad \in SUBSET Nat
      BY <1>1
    <3> QED BY <3>1, LeastNatural
  <2>2. k # 0
    <3>1. F[0] = <<>>
      BY <1>1, <1>3
    <3>2. Told(0)
      BY <3>1, ToSetOfPieces
    <3> QED BY <2>1, <3>2
  <2>3. k \in 1 .. L /\ k - 1 \in 0 .. L
    BY <1>1, <2>1, <2>2
  <2>4. Told(k - 1)
    <3> HIDE DEF Told
    <3> QED BY <1>1, <2>1, <2>3
  <2>5. F[k] = Next1(F, k)
    <3>1. k \in 0 .. L
      BY <2>3
    <3> HIDE DEF Next1, L
    <3> QED BY <1>3, <2>2, <3>1
  <2>6. pending[k] \in Nat
    BY <1>1, <2>3
  <2>7. \A j : j \in 1 .. k <=> j \in 1 .. (k - 1) \/ j = k
    BY <2>3
  <2>8. CASE OnLog(pending[k])
    <3>1. F[k] = Append(F[k - 1], pending[k])
      BY <2>5, <2>8
    <3>2. F[k] \in Seq(Nat) /\ ToSet(F[k]) = ToSet(F[k - 1]) \cup {pending[k]}
      BY <2>4, <2>6, <3>1, ToSetOfPieces
    <3>3. Told(k)
      BY <2>4, <2>7, <2>8, <3>2
    <3> QED BY <2>1, <3>3
  <2>9. CASE ~OnLog(pending[k])
    <3>1. F[k] = F[k - 1]
      BY <2>5, <2>9
    <3>2. Told(k)
      BY <2>4, <2>7, <2>9, <3>1
    <3> QED BY <2>1, <3>2
  <2> QED BY <2>8, <2>9
<1>6. Told(L)
  <2>1. L \in 0 .. L
    BY <1>1
  <2> HIDE DEF Told, L
  <2> QED BY <1>5, <2>1
<1> QED BY <1>1, <1>4, <1>6 DEF ToSet

(* What an insertion into a table makes of it.                             *)
LEMMA InsertedIs ==
    ASSUME NEW table, IsFiniteSet(DOMAIN table), NEW cap \in Nat \ {0},
           Cardinality(DOMAIN table) <= cap, NEW ip, NEW t \in Inserted(table, cap, ip)
    PROVE  /\ DOMAIN t \subseteq DOMAIN table \cup {ip} /\ ip \in DOMAIN t /\ t[ip] = now
           /\ \A x \in DOMAIN t : x # ip => t[x] = table[x]
           /\ IsFiniteSet(DOMAIN t) /\ Cardinality(DOMAIN t) <= cap
<1> DEFINE oldest == {v \in DOMAIN table : \A u \in DOMAIN table : Stamp(table[v]) <= Stamp(table[u])}
           Outs == IF ip \in DOMAIN table \/ Cardinality(DOMAIN table) < cap THEN {{}}
                   ELSE {{v} : v \in oldest}
<1>1. PICK out \in Outs :
         t = [x \in (DOMAIN table \ out) \cup {ip} |-> IF x = ip THEN now ELSE table[x]]
  BY DEF Inserted
<1>2. \/ out = {} /\ (ip \in DOMAIN table \/ Cardinality(DOMAIN table) < cap)
      \/ \E v \in DOMAIN table : out = {v}
  BY <1>1
<1>3. DOMAIN t = (DOMAIN table \ out) \cup {ip}
  BY <1>1
<1>4. IsFiniteSet(DOMAIN t) /\ Cardinality(DOMAIN t) <= cap
  <2> HIDE DEF Outs, oldest
  <2>1. /\ IsFiniteSet((DOMAIN table \ out) \cup {ip})
        /\ Cardinality((DOMAIN table \ out) \cup {ip}) <= cap
    BY <1>2, ReplaceKeepsBound
  <2> QED BY <1>3, <2>1
<1> QED BY <1>1, <1>3, <1>4

(***************************************************************************)
(* Types.                                                                  *)
(***************************************************************************)

(* Where the task holds no entry.                                          *)
Resting == {"idle", "drain", "mark"}
Places == {"idle", "save", "patch", "update", "drain", "mark"} \cup Services
Entry == [id : Nat, ip : Ips, marks : SUBSET Services]
Logged == [ip : Ips, marks : SUBSET Services]
Pulse == [pid : Nat, name : Names \cup {"none"}]

OptsOK  == on \subseteq Services /\ lan \subseteq Ips /\ name \in Names
ClockOK == now \in Nat /\ bootAt \in 1 .. now /\ DnsOK /\ IsFiniteSet(DOMAIN dns)
LogOK   == /\ log = [i \in DOMAIN log |-> log[i]] /\ IsFiniteSet(DOMAIN log)
           /\ DOMAIN log \in SUBSET Nat /\ Cardinality(DOMAIN log) <= LogCap
           /\ \A i \in DOMAIN log : log[i] \in Logged
QueueOK == queue \in Seq(Nat) /\ Len(queue) <= QueueLen
HandOK  == /\ pc \in Places
           /\ pc \in Resting => hand = None
           /\ pc \notin Resting => hand \in Entry
CdOK    == /\ DOMAIN cd = Limited
           /\ \A s \in Limited : /\ DOMAIN cd[s] \subseteq Ips /\ IsFiniteSet(DOMAIN cd[s])
                                 /\ Cardinality(DOMAIN cd[s]) <= CdMax
                                 /\ \A ip \in DOMAIN cd[s] : cd[s][ip] \in bootAt .. now
GeoOK   == DOMAIN geo \subseteq Ips /\ IsFiniteSet(DOMAIN geo) /\ Cardinality(DOMAIN geo) <= GeoMax
OtxOK   == /\ created \in Nat /\ excused \in Nat /\ failedAt \in 0 .. now
           /\ ram \in Pulse /\ nvs \in Pulse /\ ram.pid <= created /\ nvs.pid <= created
BatchOK == /\ pending \in Seq(Nat) /\ Len(pending) <= PendingMax
           /\ marks \in Seq(Nat) /\ (pc = "mark" <=> marks # <<>>)
           /\ window \in bootAt .. now /\ posted \in 0 .. now
HubOK   == hub \in SUBSET Nat /\ IsFiniteSet(hub) /\ healed \in BOOLEAN /\ nextId \in Nat

TypeInv == /\ OptsOK /\ ClockOK /\ LogOK /\ QueueOK /\ HandOK
           /\ CdOK /\ GeoOK /\ OtxOK /\ BatchOK /\ HubOK

(* An entry in hand is no empty hand.                                      *)
LEMMA EntryIsSome == \A e \in Entry : e # None
<1> SUFFICES ASSUME NEW e \in Entry PROVE e # None
  OBVIOUS
<1>1. DOMAIN e = {"id", "ip", "marks"}
  BY DEF Entry
<1>2. DOMAIN <<>> = {}
  OBVIOUS
<1> QED BY <1>1, <1>2 DEF None

(* The type invariant of the module follows.                               *)
LEMMA TypeInvIsEnough == TypeInv => TypeOK
<1> SUFFICES ASSUME TypeInv PROVE TypeOK
  OBVIOUS
<1> USE DEF TypeInv
<1>1. DnsOK /\ now \in Nat /\ bootAt \in 1 .. now
  BY DEF ClockOK
<1>2. on \subseteq Services /\ name \in Names /\ nextId \in Nat
  BY DEF OptsOK, HubOK
<1>3. /\ DOMAIN log \subseteq Nat /\ Cardinality(DOMAIN log) <= LogCap
      /\ \A i \in DOMAIN log : log[i].ip \in Ips /\ log[i].marks \subseteq Services
  BY DEF LogOK, Logged
<1>4. queue \in Seq(Nat) /\ Len(queue) <= QueueLen
  BY DEF QueueOK
<1>5. /\ hand # None => hand.ip \in Ips /\ hand.marks \subseteq Services
      /\ pc \in {"idle", "save", "patch", "update", "drain", "mark"} \cup Services
  BY DEF HandOK, Entry, Places
<1>6. /\ \A s \in Limited : DOMAIN cd[s] \subseteq Ips /\ Cardinality(DOMAIN cd[s]) <= CdMax
      /\ DOMAIN geo \subseteq Ips /\ Cardinality(DOMAIN geo) <= GeoMax
  BY DEF CdOK, GeoOK
<1>7. ram.pid \in 0 .. created /\ nvs.pid \in 0 .. created /\ failedAt \in 0 .. now
  BY DEF OtxOK, Pulse
<1>8. {ram.name, nvs.name} \subseteq Names \cup {"none"}
  BY DEF OtxOK, Pulse
<1>9. window \in bootAt .. now /\ posted \in 0 .. now /\ Len(pending) <= PendingMax
  BY DEF BatchOK
<1>10. ToSet(pending) \subseteq Nat /\ ToSet(marks) \subseteq Nat
  BY ToSetOfPieces DEF BatchOK
<1>11. hub \subseteq Nat /\ healed \in BOOLEAN
  BY DEF HubOK
<1> QED BY <1>1, <1>2, <1>3, <1>4, <1>5, <1>6, <1>7, <1>8, <1>9, <1>10, <1>11 DEF TypeOK

(* What putting an entry into the log does to the log, and to what is owed. *)
LEMMA PutIs ==
    ASSUME LogOK, NEW id \in Nat, NEW entry \in Logged, Put(id, entry)
    PROVE  /\ LogOK'
           /\ id \in DOMAIN log' /\ log'[id] = entry /\ DOMAIN log' \subseteq DOMAIN log \cup {id}
           /\ \A i \in DOMAIN log' : i # id => log'[i] = log[i]
           /\ owed' \subseteq owed
           /\ \A i \in ToSet(pending) \cap DOMAIN log :
                 log[i].ip \in owed' => i \in DOMAIN log' /\ log'[i].ip = log[i].ip
<1>1. PICK out \in {{}} \cup {{o} : o \in DOMAIN log \ {id}} :
        /\ out = {} <=> Cardinality(DOMAIN log \cup {id}) <= LogCap
        /\ log' = [i \in (DOMAIN log \cup {id}) \ out |-> IF i = id THEN entry ELSE log[i]]
        /\ owed' = owed \ {log[o].ip : o \in {o \in ToSet(pending) \cap DOMAIN log :
                              o \in out \/ (o = id /\ log[o].ip # entry.ip)}}
  BY DEF Put
<1>2. id \notin out
  BY <1>1
<1>3. DOMAIN log' = (DOMAIN log \cup {id}) \ out
  BY <1>1
<1>4. /\ id \in DOMAIN log' /\ log'[id] = entry
      /\ \A i \in DOMAIN log' : i # id => log'[i] = log[i]
      /\ DOMAIN log' \subseteq DOMAIN log \cup {id}
  BY <1>1, <1>2, <1>3
<1>5. IsFiniteSet(DOMAIN log') /\ Cardinality(DOMAIN log') <= LogCap
  <2> DEFINE D == DOMAIN log \cup {id}
  <2>1. /\ Cardinality(D) \in {Cardinality(DOMAIN log), Cardinality(DOMAIN log) + 1}
        /\ Cardinality(DOMAIN log) \in Nat /\ Cardinality(DOMAIN log) <= LogCap /\ IsFiniteSet(D)
    BY FS_AddElement, FS_CardinalityType DEF LogOK
  <2>2. CASE out = {}
    <3>1. DOMAIN log' = D
      BY <1>3, <2>2
    <3> QED BY <1>1, <2>1, <2>2, <3>1
  <2>3. CASE out # {}
    <3>1. PICK o \in DOMAIN log \ {id} : out = {o}
      BY <1>1, <2>3
    <3>2. o \in D
      OBVIOUS
    <3>3. IsFiniteSet(D \ {o}) /\ Cardinality(D \ {o}) = Cardinality(D) - 1
      <4> HIDE DEF D
      <4> QED BY <2>1, <3>2, FS_RemoveElement
    <3>4. Cardinality(D \ {o}) <= LogCap
      <4> HIDE DEF D
      <4> QED BY <2>1, <3>3, IntelAssumption
    <3> QED BY <1>3, <3>1, <3>3, <3>4
  <2> QED BY <2>2, <2>3
<1>6. LogOK'
  <2>1. log' = [i \in DOMAIN log' |-> log'[i]]
    BY <1>1
  <2>2. DOMAIN log' \in SUBSET Nat /\ \A i \in DOMAIN log' : log'[i] \in Logged
    BY <1>4 DEF LogOK
  <2> QED BY <1>5, <2>1, <2>2 DEF LogOK
<1>7. ASSUME NEW i \in ToSet(pending) \cap DOMAIN log, log[i].ip \in owed'
      PROVE  i \in DOMAIN log' /\ log'[i].ip = log[i].ip
  <2>1. i \notin out /\ (i = id => log[i].ip = entry.ip)
    BY <1>1, <1>7
  <2> QED BY <1>3, <1>4, <2>1
<1>8. owed' \subseteq owed
  BY <1>1
<1> QED BY <1>4, <1>6, <1>7, <1>8

(* The name cache keeps its shape whatever is asked.                       *)
LEMMA ReachIs ==
    ASSUME ClockOK, NEW s \in Services, NEW go, Reach(s, go)
    PROVE  /\ \A h \in DOMAIN dns' : dns'[h].at \in bootAt .. now /\ dns'[h].ok \in BOOLEAN
           /\ DOMAIN dns' \subseteq Hosts /\ IsFiniteSet(DOMAIN dns')
           /\ Cardinality(DOMAIN dns') <= Slots
<1>1. CASE UNCHANGED dns
  BY <1>1 DEF ClockOK, DnsOK
<1>2. CASE ~(UNCHANGED dns)
  <2>1. PICK answers \in BOOLEAN : Resolve(s, answers)
    BY <1>2 DEF Reach
  <2>2. PICK out \in Victims(s) :
           dns' = [h \in (DOMAIN dns \ out) \cup {s} |->
                      IF h = s THEN [at |-> now, ok |-> answers] ELSE dns[h]]
    BY <1>2, <2>1 DEF Resolve
  <2>3. \/ out = {} /\ (s \in DOMAIN dns \/ Cardinality(DOMAIN dns) < Slots)
        \/ \E v \in DOMAIN dns : out = {v}
    BY <2>2 DEF Victims
  <2>4. DOMAIN dns' = (DOMAIN dns \ out) \cup {s}
    BY <2>2
  <2>5. /\ IsFiniteSet((DOMAIN dns \ out) \cup {s})
        /\ Cardinality((DOMAIN dns \ out) \cup {s}) <= Slots
    BY <2>3, ReplaceKeepsBound, DnsAssumption DEF ClockOK, DnsOK
  <2>6. s \in Hosts
    BY IntelAssumption
  <2>7. DOMAIN dns' \subseteq Hosts
    BY <2>4, <2>6 DEF ClockOK, DnsOK
  <2>8. ASSUME NEW h \in DOMAIN dns' PROVE dns'[h].at \in bootAt .. now /\ dns'[h].ok \in BOOLEAN
    <3>1. CASE h = s
      <4>1. dns'[h] = [at |-> now, ok |-> answers]
        BY <2>2, <2>4, <3>1
      <4>2. now \in bootAt .. now
        BY DEF ClockOK
      <4> QED BY <4>1, <4>2
    <3>2. CASE h # s
      <4>1. h \in DOMAIN dns /\ dns'[h] = dns[h]
        BY <2>2, <2>4, <3>2
      <4> QED BY <4>1 DEF ClockOK, DnsOK
    <3> QED BY <3>1, <3>2
  <2> QED BY <2>4, <2>5, <2>7, <2>8
<1> QED BY <1>1, <1>2

(* An entry in hand that is marked is an entry in hand.                    *)
LEMMA MarkedIs ==
    ASSUME NEW h \in Entry, NEW s \in Services
    PROVE  LET m == [h EXCEPT !.marks = @ \cup {s}]
           IN  m \in Entry /\ m.id = h.id /\ m.ip = h.ip /\ m.marks = h.marks \cup {s}
BY DEF Entry

(* The places after a stage are places where an entry is in hand.          *)
LEMMA BusyAfter == \A n : StageAfter(n) \in Places /\ StageAfter(n) \notin Resting
BY StageAfterIs, ServicesAre DEF Places, Resting

(***************************************************************************)
(* The types are kept.                                                     *)
(***************************************************************************)
LEMMA TypeInit == Init => TypeInv
<1> SUFFICES ASSUME Init PROVE TypeInv
  OBVIOUS
<1> USE DEF Init
<1>0. /\ DOMAIN <<>> = {} /\ IsFiniteSet({}) /\ Cardinality({}) = 0 /\ <<>> \in Seq(Nat) /\ Len(<<>>) = 0
      /\ 0 <= LogCap /\ 0 <= QueueLen /\ 0 <= CdMax /\ 0 <= GeoMax /\ 0 <= Slots /\ 0 <= PendingMax
  BY FS_EmptySet, IntelAssumption, DnsAssumption
<1>1. OptsOK
  <2>1. name \in Names
    BY IntelAssumption
  <2>2. PICK s \in Setups : on = s.on /\ lan = s.lan
    OBVIOUS
  <2>3. s \in [on : SUBSET Services, lan : SUBSET Ips, attacks : Nat, faults : Nat]
    BY IntelAssumption
  <2> QED BY <2>1, <2>2, <2>3 DEF OptsOK
<1>2. ClockOK
  BY <1>0 DEF ClockOK, DnsOK, None
<1>3. LogOK
  <2>1. log = [i \in DOMAIN log |-> log[i]]
    BY <1>0 DEF None
  <2> QED BY <1>0, <2>1 DEF LogOK, None
<1>4. QueueOK /\ HandOK
  BY <1>0 DEF QueueOK, HandOK, Places, Resting
<1>5. CdOK /\ GeoOK
  BY <1>0 DEF CdOK, GeoOK, None
<1>6. OtxOK
  BY DEF OtxOK, Pulse, NoPulse
<1>7. BatchOK
  BY <1>0 DEF BatchOK
<1>8. HubOK
  BY IntelAssumption DEF HubOK
<1> QED BY <1>1, <1>2, <1>3, <1>4, <1>5, <1>6, <1>7, <1>8 DEF TypeInv

LEMMA OptsStep == TypeInv /\ [Next]_vars => OptsOK'
<1> SUFFICES ASSUME TypeInv, [Next]_vars PROVE OptsOK'
  OBVIOUS
<1> USE DEF TypeInv, OptsOK
<1>1. CASE UNCHANGED vars
  BY <1>1 DEF vars, opts
<1>2. CASE Rename
  BY <1>2, RenameFrame DEF Rename
<1>3. ASSUME NEW ip \in Ips, Capture(ip) PROVE OptsOK'
  BY <1>3, CaptureFrame
<1> QED BY <1>1, <1>2, <1>3, TakeIdFrame, TimeOutFrame, GeoIpFrame, AbuseFrame, OtxFrame, SaveFrame,
           PatchFrame, DshieldFrame, HubFrame, UpdateFrame, DrainFrame, MarkSentFrame, ClearFrame,
           TickFrame, PulseDeletedFrame, RebootFrame DEF Next, TaskStep

LEMMA ClockStep == TypeInv /\ [Next]_vars => ClockOK' /\ ((bootAt' = bootAt /\ now' >= now) \/ Reboot)
<1> SUFFICES ASSUME TypeInv, [Next]_vars
             PROVE  ClockOK' /\ ((bootAt' = bootAt /\ now' >= now) \/ Reboot)
  OBVIOUS
<1> USE DEF TypeInv
<1>0. now \in Nat /\ bootAt \in 1 .. now
  BY DEF ClockOK
<1>1. CASE UNCHANGED <<now, bootAt, dns>>
  <2>1. ClockOK'
    BY <1>1 DEF ClockOK, DnsOK
  <2> QED BY <1>0, <1>1, <2>1
<1>2. ASSUME NEW s \in Services, NEW go, Reach(s, go), UNCHANGED <<now, bootAt>>
      PROVE  ClockOK' /\ (bootAt' = bootAt /\ now' >= now)
  BY <1>0, <1>2, ReachIs DEF ClockOK, DnsOK
<1>3. CASE GeoIp
  BY <1>1, <1>2, <1>3, GeoIpFrame, ServicesAre DEF GeoIp
<1>4. CASE Abuse
  BY <1>1, <1>2, <1>4, AbuseFrame, ServicesAre DEF Abuse
<1>5. CASE Otx
  BY <1>1, <1>2, <1>5, OtxFrame, ServicesAre DEF Otx
<1>6. CASE Hub
  BY <1>1, <1>2, <1>6, HubFrame, ServicesAre DEF Hub
<1>7. CASE Drain
  BY <1>1, <1>2, <1>7, DrainFrame, ServicesAre DEF Drain
<1>8. CASE Tick
  <2>1. now' = now + 1 /\ UNCHANGED <<bootAt, dns>>
    BY <1>8 DEF Tick
  <2>2. \A h \in DOMAIN dns : dns[h].at \in bootAt .. now + 1
    BY <1>0 DEF ClockOK, DnsOK
  <2>3. DnsOK'
    BY <2>1, <2>2 DEF ClockOK, DnsOK
  <2> QED BY <1>0, <2>1, <2>3 DEF ClockOK
<1>9. CASE Reboot
  <2>1. now' = now /\ bootAt' = now /\ dns' = None
    BY <1>9 DEF Reboot
  <2>2. DOMAIN <<>> = {} /\ IsFiniteSet({}) /\ Cardinality({}) = 0
    BY FS_EmptySet
  <2>3. DnsOK' /\ IsFiniteSet(DOMAIN dns')
    BY <2>1, <2>2, DnsAssumption DEF DnsOK, None
  <2> QED BY <1>0, <1>9, <2>1, <2>3 DEF ClockOK
<1>10. CASE UNCHANGED vars
  BY <1>1, <1>10 DEF vars, clock
<1>11. ASSUME NEW ip \in Ips, Capture(ip) PROVE UNCHANGED <<now, bootAt, dns>>
  BY <1>11, CaptureFrame
<1> QED BY <1>1, <1>3, <1>4, <1>5, <1>6, <1>7, <1>8, <1>9, <1>10, <1>11, TakeIdFrame, TimeOutFrame,
           SaveFrame, PatchFrame, DshieldFrame, UpdateFrame, MarkSentFrame, ClearFrame, RenameFrame,
           PulseDeletedFrame DEF Next, TaskStep

(* What a restart finds of the log is a part of it.                        *)
LEMMA ReloadedIs ==
    ASSUME LogOK, Reloaded
    PROVE  LogOK' /\ DOMAIN log' \subseteq DOMAIN log
<1>0. PICK ids \in SUBSET DOMAIN log : \E m \in [ids -> SUBSET UNION {log[i].marks : i \in ids}] :
        /\ \A i \in ids : m[i] \subseteq log[i].marks
        /\ log' = [i \in ids |-> [ip |-> log[i].ip, marks |-> m[i]]]
  BY DEF Reloaded
<1>1. PICK m \in [ids -> SUBSET UNION {log[i].marks : i \in ids}] :
        /\ \A i \in ids : m[i] \subseteq log[i].marks
        /\ log' = [i \in ids |-> [ip |-> log[i].ip, marks |-> m[i]]]
  BY <1>0
<1>2. /\ DOMAIN log' = ids
      /\ \A i \in ids : log'[i] = [ip |-> log[i].ip, marks |-> m[i]]
      /\ log' = [i \in DOMAIN log' |-> log'[i]]
  BY <1>1
<1>3. IsFiniteSet(ids) /\ Cardinality(ids) <= Cardinality(DOMAIN log)
  BY FS_Subset DEF LogOK
<1>4. Cardinality(ids) \in Nat /\ Cardinality(DOMAIN log) \in Nat
  BY <1>3, FS_CardinalityType DEF LogOK
<1>5. Cardinality(ids) <= LogCap
  BY <1>3, <1>4, IntelAssumption DEF LogOK
<1>6. \A i \in ids : log'[i] \in Logged
  <2>1. \A i \in ids : log[i] \in Logged
    BY DEF LogOK
  <2> QED BY <1>1, <1>2, <2>1 DEF Logged
<1>7. DOMAIN log \in SUBSET Nat
  BY DEF LogOK
<1> QED BY <1>2, <1>3, <1>5, <1>6, <1>7 DEF LogOK

LEMMA LogStep == TypeInv /\ [Next]_vars => LogOK'
<1> SUFFICES ASSUME TypeInv, [Next]_vars PROVE LogOK'
  OBVIOUS
<1> USE DEF TypeInv
<1>1. CASE UNCHANGED log
  BY <1>1 DEF LogOK
<1>2. ASSUME NEW ip \in Ips, Capture(ip) PROVE LogOK'
  <2>1. Put(nextId, [ip |-> ip, marks |-> {}])
    BY <1>2 DEF Capture
  <2>2. nextId \in Nat /\ [ip |-> ip, marks |-> {}] \in Logged
    BY DEF HubOK, Logged
  <2> QED BY <2>1, <2>2, PutIs
<1>3. CASE Clear
  <2>1. log' = <<>>
    BY <1>3 DEF Clear, None
  <2>2. DOMAIN <<>> = {} /\ IsFiniteSet({}) /\ Cardinality({}) = 0
    BY FS_EmptySet
  <2>3. log' = [i \in DOMAIN log' |-> log'[i]]
    BY <2>1, <2>2
  <2> QED BY <2>1, <2>2, <2>3, IntelAssumption DEF LogOK
<1>4. CASE Update
  <2>1. Put(hand.id, [ip |-> hand.ip, marks |-> hand.marks])
    BY <1>4 DEF Update
  <2>2. hand \in Entry
    BY <1>4 DEF Update, HandOK, Resting
  <2>3. hand.id \in Nat /\ [ip |-> hand.ip, marks |-> hand.marks] \in Logged
    BY <2>2 DEF Entry, Logged
  <2> QED BY <2>1, <2>3, PutIs
<1>5. CASE MarkSent
  <2>1. marks \in Seq(Nat) /\ marks # <<>>
    BY <1>5 DEF MarkSent, BatchOK
  <2>2. Head(marks) \in Nat
    BY <2>1, ToSetOfPieces
  <2>3. CASE OnLog(Head(marks))
    <3>1. Put(Head(marks), [log[Head(marks)] EXCEPT !.marks = @ \cup {"dshield"}])
      BY <1>5, <2>3 DEF MarkSent
    <3>2. [log[Head(marks)] EXCEPT !.marks = @ \cup {"dshield"}] \in Logged
      BY <2>3, ServicesAre DEF OnLog, LogOK, Logged
    <3> QED BY <2>2, <3>1, <3>2, PutIs
  <2>4. CASE ~OnLog(Head(marks))
    BY <1>1, <1>5, <2>4 DEF MarkSent
  <2> QED BY <2>3, <2>4
<1>6. CASE UNCHANGED vars
  BY <1>1, <1>6 DEF vars
<1>7. CASE Reboot
  BY <1>7, ReloadedIs DEF Reboot
<1> QED BY <1>1, <1>2, <1>3, <1>4, <1>5, <1>6, <1>7, TakeIdFrame, TimeOutFrame, GeoIpFrame, AbuseFrame, OtxFrame,
           SaveFrame, PatchFrame, DshieldFrame, HubFrame, DrainFrame, TickFrame, RenameFrame,
           PulseDeletedFrame DEF Next, TaskStep

LEMMA QueueStep == TypeInv /\ [Next]_vars => QueueOK'
<1> SUFFICES ASSUME TypeInv, [Next]_vars PROVE QueueOK'
  OBVIOUS
<1> USE DEF TypeInv
<1>1. CASE UNCHANGED queue
  BY <1>1 DEF QueueOK
<1>2. ASSUME NEW ip \in Ips, Capture(ip) PROVE QueueOK'
  <2>1. queue' = IF Len(queue) < QueueLen THEN Append(queue, nextId) ELSE queue
    BY <1>2 DEF Capture
  <2>2. /\ nextId \in Nat /\ queue \in Seq(Nat) /\ Len(queue) <= QueueLen
        /\ Len(queue) \in Nat /\ QueueLen \in Nat
    BY LenProperties, IntelAssumption DEF HubOK, QueueOK
  <2>3. Append(queue, nextId) \in Seq(Nat) /\ Len(Append(queue, nextId)) = Len(queue) + 1
    BY <2>2, ToSetOfPieces
  <2> QED BY <2>1, <2>2, <2>3 DEF QueueOK
<1>3. CASE TakeId
  <2>1. queue \in Seq(Nat) /\ queue # <<>> /\ queue' = Tail(queue)
    BY <1>3 DEF TakeId, QueueOK
  <2>2. Tail(queue) \in Seq(Nat) /\ Len(Tail(queue)) = Len(queue) - 1 /\ Len(queue) \in Nat
    BY <2>1, ToSetOfPieces, LenProperties
  <2> QED BY <2>1, <2>2, IntelAssumption DEF QueueOK
<1>4. CASE Reboot
  <2>1. queue' = <<>> /\ <<>> \in Seq(Nat) /\ Len(<<>>) = 0
    BY <1>4 DEF Reboot
  <2> QED BY <2>1, IntelAssumption DEF QueueOK
<1>5. CASE UNCHANGED vars
  BY <1>1, <1>5 DEF vars, task
<1> QED BY <1>1, <1>2, <1>3, <1>4, <1>5, TimeOutFrame, GeoIpFrame, AbuseFrame, OtxFrame, SaveFrame,
           PatchFrame, DshieldFrame, HubFrame, UpdateFrame, DrainFrame, MarkSentFrame, ClearFrame,
           TickFrame, RenameFrame, PulseDeletedFrame DEF Next, TaskStep

(* A stage leaves the entry in hand, or marks it.                          *)
Handled(s) == \/ UNCHANGED <<hand, kept>>
              \/ Mark(s)

LEMMA StageHands ==
    ASSUME TypeInv
    PROVE  /\ GeoIp => pc = "geoip" /\ pc' = StageAfter(1) /\ Handled("geoip")
           /\ Abuse => pc = "abuse" /\ pc' = StageAfter(2) /\ Handled("abuse")
           /\ Otx => pc = "otx" /\ pc' \in {"save", "patch", StageAfter(3)} /\ UNCHANGED <<hand, kept>>
           /\ Save => pc = "save" /\ pc' \in {"patch", StageAfter(3)} /\ UNCHANGED <<hand, kept>>
           /\ Patch => pc = "patch" /\ pc' \in {"save", StageAfter(3)} /\ Handled("otx")
           /\ Dshield => pc = "dshield" /\ pc' = StageAfter(4) /\ UNCHANGED <<hand, kept>>
           /\ Hub => pc = "hub" /\ pc' = "update" /\ Handled("hub")
<1>1. ASSUME GeoIp PROVE pc = "geoip" /\ pc' = StageAfter(1) /\ Handled("geoip")
  BY <1>1 DEF GeoIp, Handled
<1>2. ASSUME Abuse PROVE pc = "abuse" /\ pc' = StageAfter(2) /\ Handled("abuse")
  BY <1>2 DEF Abuse, Acknowledged, Handled
<1>3. ASSUME Otx PROVE pc = "otx" /\ pc' \in {"save", "patch", StageAfter(3)} /\ UNCHANGED <<hand, kept>>
  BY <1>3 DEF Otx, Ensure, Create
<1>4. ASSUME Save PROVE pc = "save" /\ pc' \in {"patch", StageAfter(3)} /\ UNCHANGED <<hand, kept>>
  BY <1>4 DEF Save
<1>5. ASSUME Patch PROVE pc = "patch" /\ pc' \in {"save", StageAfter(3)} /\ Handled("otx")
  BY <1>5 DEF Patch, Acknowledged, Handled
<1>6. ASSUME Dshield PROVE pc = "dshield" /\ pc' = StageAfter(4) /\ UNCHANGED <<hand, kept>>
  BY <1>6 DEF Dshield
<1>7. ASSUME Hub PROVE pc = "hub" /\ pc' = "update" /\ Handled("hub")
  BY <1>7 DEF Hub, Handled
<1> QED BY <1>1, <1>2, <1>3, <1>4, <1>5, <1>6, <1>7

LEMMA HandleKeeps ==
    ASSUME TypeInv, pc \notin Resting, NEW s \in Services, Handled(s)
    PROVE  hand' \in Entry /\ hand'.id = hand.id /\ hand'.ip = hand.ip
<1>1. hand \in Entry
  BY DEF TypeInv, HandOK
<1>2. CASE UNCHANGED <<hand, kept>>
  BY <1>1, <1>2
<1>3. CASE Mark(s)
  BY <1>1, <1>3, MarkedIs DEF Mark
<1> QED BY <1>2, <1>3 DEF Handled

LEMMA HandStep == TypeInv /\ [Next]_vars => HandOK'
<1> SUFFICES ASSUME TypeInv, [Next]_vars PROVE HandOK'
  OBVIOUS
<1>0. pc \in Places /\ (pc \in Resting => hand = None) /\ (pc \notin Resting => hand \in Entry)
  BY DEF TypeInv, HandOK
<1>1. CASE UNCHANGED <<pc, hand>>
  BY <1>0, <1>1 DEF HandOK
<1>2. ASSUME pc \notin Resting, NEW s \in Services, Handled(s), pc' \in Places \ Resting PROVE HandOK'
  BY <1>2, HandleKeeps DEF HandOK
<1>3. {"save", "patch", "update"} \subseteq Places \ Resting /\ {"geoip", "abuse", "otx", "dshield", "hub"} \subseteq Places \ Resting
  BY ServicesAre DEF Places, Resting
<1>4. \A n : StageAfter(n) \in Places \ Resting
  BY BusyAfter
<1>5. CASE GeoIp
  BY <1>2, <1>3, <1>4, <1>5, StageHands, ServicesAre
<1>6. CASE Abuse
  BY <1>2, <1>3, <1>4, <1>6, StageHands, ServicesAre
<1>7. CASE Otx
  <2>1. pc = "otx" /\ pc' \in {"save", "patch", StageAfter(3)} /\ Handled("otx")
    BY <1>7, StageHands DEF Handled
  <2> QED BY <1>2, <1>3, <1>4, <2>1, ServicesAre
<1>8. CASE Save
  <2>1. pc = "save" /\ pc' \in {"patch", StageAfter(3)} /\ Handled("otx")
    BY <1>8, StageHands DEF Handled
  <2> QED BY <1>2, <1>3, <1>4, <2>1, ServicesAre
<1>9. CASE Patch
  BY <1>2, <1>3, <1>4, <1>9, StageHands, ServicesAre
<1>10. CASE Dshield
  <2>1. pc = "dshield" /\ pc' = StageAfter(4) /\ Handled("dshield")
    BY <1>10, StageHands DEF Handled
  <2> QED BY <1>2, <1>3, <1>4, <2>1, ServicesAre
<1>11. CASE Hub
  BY <1>2, <1>3, <1>4, <1>11, StageHands, ServicesAre
<1>12. CASE TakeId
  <2>1. pc = "idle" /\ queue # <<>>
    BY <1>12 DEF TakeId
  <2>2. CASE OnLog(Head(queue))
    <3>1. /\ hand' = [id |-> Head(queue), ip |-> log[Head(queue)].ip, marks |-> log[Head(queue)].marks]
          /\ pc' = StageAfter(0)
      BY <1>12, <2>2 DEF TakeId
    <3>2. log[Head(queue)] \in Logged
      BY <2>2 DEF OnLog, TypeInv, LogOK
    <3>3. Head(queue) \in Nat
      BY <2>1, ToSetOfPieces DEF TypeInv, QueueOK
    <3>4. hand' \in Entry
      BY <3>1, <3>2, <3>3 DEF Logged, Entry
    <3> QED BY <1>4, <3>1, <3>4 DEF HandOK
  <2>3. CASE ~OnLog(Head(queue))
    <3>1. pc' = "drain" /\ hand' = None
      BY <1>0, <1>12, <2>1, <2>3 DEF TakeId, Resting
    <3> QED BY <3>1 DEF HandOK, Places, Resting
  <2> QED BY <2>2, <2>3
<1>13. CASE TimeOut
  BY <1>0, <1>13, TimeOutFrame DEF TimeOut, HandOK, Places, Resting
<1>14. CASE Update
  BY <1>14 DEF Update, HandOK, Places, Resting
<1>15. CASE Drain
  BY <1>0, <1>15, DrainFrame DEF Drain, Post, HandOK, Places, Resting
<1>16. CASE MarkSent
  BY <1>0, <1>16, MarkSentFrame DEF MarkSent, HandOK, Places, Resting
<1>17. CASE Reboot
  BY <1>17 DEF Reboot, HandOK, Places, Resting
<1>18. CASE UNCHANGED vars
  BY <1>1, <1>18 DEF vars, task
<1>19. ASSUME NEW ip \in Ips, Capture(ip) PROVE HandOK'
  BY <1>1, <1>19, CaptureFrame
<1> QED BY <1>1, <1>5, <1>6, <1>7, <1>8, <1>9, <1>10, <1>11, <1>12, <1>13, <1>14, <1>15, <1>16, <1>17, <1>18,
           <1>19, ClearFrame, TickFrame, RenameFrame, PulseDeletedFrame DEF Next, TaskStep

(* What a cooldown entry does to the tables.                               *)
LEMMA CommitIs ==
    ASSUME TypeInv, NEW s \in Limited, hand \in Entry, Commit(s), UNCHANGED <<now, bootAt>>
    PROVE  /\ CdOK'
           /\ hand.ip \in DOMAIN cd'[s] /\ cd'[s][hand.ip] = now
           /\ \A x \in DOMAIN cd'[s] : x # hand.ip => x \in DOMAIN cd[s] /\ cd'[s][x] = cd[s][x]
           /\ \A u \in Limited : u # s => cd'[u] = cd[u]
<1>1. PICK t \in Inserted(cd[s], CdMax, hand.ip) : cd' = [cd EXCEPT ![s] = t]
  BY DEF Commit
<1>2. /\ DOMAIN cd = Limited
      /\ \A u \in Limited : /\ DOMAIN cd[u] \subseteq Ips /\ IsFiniteSet(DOMAIN cd[u])
                            /\ Cardinality(DOMAIN cd[u]) <= CdMax
                            /\ \A ip \in DOMAIN cd[u] : cd[u][ip] \in bootAt .. now
  BY DEF TypeInv, CdOK
<1>3. CdMax \in Nat \ {0}
  BY IntelAssumption
<1>4. /\ DOMAIN t \subseteq DOMAIN cd[s] \cup {hand.ip} /\ hand.ip \in DOMAIN t /\ t[hand.ip] = now
      /\ \A x \in DOMAIN t : x # hand.ip => t[x] = cd[s][x]
      /\ IsFiniteSet(DOMAIN t) /\ Cardinality(DOMAIN t) <= CdMax
  BY <1>1, <1>2, <1>3, InsertedIs
<1>5. DOMAIN cd' = Limited /\ cd'[s] = t /\ \A u \in Limited : u # s => cd'[u] = cd[u]
  BY <1>1, <1>2
<1>6. hand.ip \in Ips /\ now \in bootAt .. now
  BY DEF Entry, TypeInv, ClockOK
<1>7. DOMAIN t \subseteq Ips /\ \A ip \in DOMAIN t : t[ip] \in bootAt .. now
  BY <1>2, <1>4, <1>6
<1>8. CdOK'
  <2>1. ASSUME NEW u \in Limited
        PROVE  /\ DOMAIN cd'[u] \subseteq Ips /\ IsFiniteSet(DOMAIN cd'[u])
               /\ Cardinality(DOMAIN cd'[u]) <= CdMax
               /\ \A ip \in DOMAIN cd'[u] : cd'[u][ip] \in bootAt' .. now'
    <3>1. CASE u = s
      BY <1>4, <1>5, <1>7, <3>1
    <3>2. CASE u # s
      BY <1>2, <1>5, <3>2
    <3> QED BY <3>1, <3>2
  <2> QED BY <1>5, <2>1 DEF CdOK
<1> QED BY <1>4, <1>5, <1>8

LEMMA CdStep == TypeInv /\ [Next]_vars => CdOK'
<1> SUFFICES ASSUME TypeInv, [Next]_vars PROVE CdOK'
  OBVIOUS
<1>0. now \in Nat /\ bootAt \in 1 .. now /\ now' \in Nat /\ CdOK
  BY ClockStep DEF TypeInv, ClockOK
<1>1. CASE UNCHANGED <<now, bootAt, cd>>
  BY <1>0, <1>1 DEF CdOK
<1>2. CASE Abuse
  <2>1. CASE Acknowledged("abuse")
    <3>1. hand \in Entry /\ "abuse" \in Limited
      BY <1>2 DEF Abuse, Limited, TypeInv, HandOK, Resting
    <3> QED BY <1>2, <2>1, <3>1, AbuseFrame, CommitIs DEF Acknowledged
  <2>2. CASE UNCHANGED cd
    BY <1>1, <1>2, <2>2, AbuseFrame
  <2> QED BY <1>2, <2>1, <2>2 DEF Abuse
<1>3. CASE Patch
  <2>1. CASE Acknowledged("otx")
    <3>1. hand \in Entry /\ "otx" \in Limited
      BY <1>3 DEF Patch, Limited, TypeInv, HandOK, Resting
    <3> QED BY <1>3, <2>1, <3>1, PatchFrame, CommitIs DEF Acknowledged
  <2>2. CASE UNCHANGED cd
    BY <1>1, <1>3, <2>2, PatchFrame
  <2> QED BY <1>3, <2>1, <2>2 DEF Patch
<1>4. CASE Dshield
  <2>1. CASE Commit("dshield")
    <3>1. hand \in Entry /\ "dshield" \in Limited
      BY <1>4 DEF Dshield, Limited, TypeInv, HandOK, Resting
    <3> QED BY <1>4, <2>1, <3>1, DshieldFrame, CommitIs
  <2>2. CASE UNCHANGED cd
    BY <1>1, <1>4, <2>2, DshieldFrame
  <2> QED BY <1>4, <2>1, <2>2 DEF Dshield
<1>5. CASE Tick
  <2>1. now' = now + 1 /\ UNCHANGED <<bootAt, cd>>
    BY <1>5, TickFrame DEF Tick
  <2>2. \A x \in bootAt .. now : x \in bootAt' .. now'
    BY <1>0, <2>1
  <2> QED BY <1>0, <2>1, <2>2 DEF CdOK
<1>6. CASE Reboot
  <2>1. cd' = [s \in Limited |-> <<>>]
    BY <1>6 DEF Reboot, None
  <2>2. DOMAIN <<>> = {} /\ IsFiniteSet({}) /\ Cardinality({}) = 0 /\ 0 <= CdMax
    BY FS_EmptySet, IntelAssumption
  <2>3. DOMAIN cd' = Limited /\ \A s \in Limited : DOMAIN cd'[s] = {}
    BY <2>1, <2>2
  <2> QED BY <2>2, <2>3 DEF CdOK
<1>7. CASE UNCHANGED vars
  BY <1>1, <1>7 DEF vars, clock
<1>8. ASSUME NEW ip \in Ips, Capture(ip) PROVE CdOK'
  BY <1>1, <1>8, CaptureFrame
<1> QED BY <1>1, <1>2, <1>3, <1>4, <1>5, <1>6, <1>7, <1>8, TakeIdFrame, TimeOutFrame, GeoIpFrame, OtxFrame,
           SaveFrame, HubFrame, UpdateFrame, DrainFrame, MarkSentFrame, ClearFrame, RenameFrame,
           PulseDeletedFrame DEF Next, TaskStep

LEMMA GeoStep == TypeInv /\ [Next]_vars => GeoOK'
<1> SUFFICES ASSUME TypeInv, [Next]_vars PROVE GeoOK'
  OBVIOUS
<1>0. GeoOK
  BY DEF TypeInv
<1>1. CASE UNCHANGED geo
  BY <1>0, <1>1 DEF GeoOK
<1>2. CASE GeoIp
  <2>1. CASE geo' = [geo EXCEPT ![hand.ip] = now]
    BY <1>0, <2>1 DEF GeoOK
  <2>2. CASE geo' \in Inserted(geo, GeoMax, hand.ip)
    <3>1. hand.ip \in Ips
      BY <1>2 DEF GeoIp, TypeInv, HandOK, Resting, Entry
    <3>2. /\ DOMAIN geo' \subseteq DOMAIN geo \cup {hand.ip}
          /\ IsFiniteSet(DOMAIN geo') /\ Cardinality(DOMAIN geo') <= GeoMax
      BY <1>0, <2>2, InsertedIs, IntelAssumption DEF GeoOK
    <3> QED BY <1>0, <3>1, <3>2 DEF GeoOK
  <2> QED BY <1>1, <1>2, <2>1, <2>2 DEF GeoIp
<1>3. CASE Reboot
  <2>1. geo' = <<>>
    BY <1>3 DEF Reboot, None
  <2>2. DOMAIN <<>> = {} /\ IsFiniteSet({}) /\ Cardinality({}) = 0 /\ 0 <= GeoMax
    BY FS_EmptySet, IntelAssumption
  <2> QED BY <2>1, <2>2 DEF GeoOK
<1>4. CASE UNCHANGED vars
  BY <1>1, <1>4 DEF vars
<1>5. ASSUME NEW ip \in Ips, Capture(ip) PROVE GeoOK'
  BY <1>1, <1>5, CaptureFrame
<1> QED BY <1>1, <1>2, <1>3, <1>4, <1>5, TakeIdFrame, TimeOutFrame, AbuseFrame, OtxFrame, SaveFrame,
           PatchFrame, DshieldFrame, HubFrame, UpdateFrame, DrainFrame, MarkSentFrame, ClearFrame,
           TickFrame, RenameFrame, PulseDeletedFrame DEF Next, TaskStep

LEMMA OtxStep == TypeInv /\ [Next]_vars => OtxOK'
<1> SUFFICES ASSUME TypeInv, [Next]_vars PROVE OtxOK'
  OBVIOUS
<1>0. /\ created \in Nat /\ excused \in Nat /\ failedAt \in 0 .. now /\ now \in Nat
      /\ ram \in Pulse /\ nvs \in Pulse /\ ram.pid <= created /\ nvs.pid <= created
      /\ name \in Names
  BY DEF TypeInv, OtxOK, OptsOK, ClockOK
<1>1. CASE UNCHANGED <<now, ram, nvs, failedAt, created, excused>>
  BY <1>0, <1>1 DEF OtxOK
<1>2. CASE Otx
  <2>1. CASE UNCHANGED otx
    BY <1>1, <1>2, <2>1, OtxFrame DEF otx
  <2>2. CASE ram' = Loaded /\ Ensure
    <3>1. ram' \in Pulse /\ ram'.pid <= created /\ now' = now /\ now \in 0 .. now
      BY <1>0, <1>2, <2>2, OtxFrame DEF Loaded
    <3>2. CASE UNCHANGED <<nvs, failedAt, alive, created, excused>>
      BY <1>0, <3>1, <3>2 DEF OtxOK
    <3>3. CASE Create
      <4>1. CASE /\ created' = created + 1 /\ nvs' = [nvs EXCEPT !.pid = created']
                 /\ UNCHANGED <<failedAt, excused>>
        <5>1. nvs' \in Pulse /\ nvs'.pid = created'
          BY <1>0, <4>1 DEF Pulse
        <5>2. ram'.pid \in Nat
          BY <3>1 DEF Pulse
        <5> QED BY <1>0, <3>1, <4>1, <5>1, <5>2 DEF OtxOK
      <4>2. CASE /\ created' = created + 1 /\ excused' = excused + 1 /\ failedAt' = now /\ UNCHANGED nvs
        <5>1. ram'.pid \in Nat /\ nvs.pid \in Nat
          BY <1>0, <3>1 DEF Pulse
        <5> QED BY <1>0, <3>1, <4>2, <5>1 DEF OtxOK
      <4>3. CASE failedAt' = now /\ UNCHANGED <<created, excused, nvs>>
        BY <1>0, <3>1, <4>3 DEF OtxOK
      <4> QED BY <3>3, <4>1, <4>2, <4>3 DEF Create
    <3> QED BY <2>2, <3>2, <3>3 DEF Ensure
  <2> QED BY <1>2, <2>1, <2>2 DEF Otx
<1>3. CASE Save
  <2>1. /\ nvs' = [nvs EXCEPT !.name = IF nvs.pid = 0 THEN "none" ELSE name] /\ ram' = nvs'
        /\ UNCHANGED <<now, failedAt, created, excused>>
    BY <1>3, SaveFrame DEF Save
  <2>2. nvs' \in Pulse /\ nvs'.pid = nvs.pid
    BY <1>0, <2>1 DEF Pulse
  <2> QED BY <1>0, <2>1, <2>2 DEF OtxOK
<1>4. CASE Patch
  <2>1. CASE UNCHANGED <<nvs, excused>>
    BY <1>1, <1>4, <2>1, PatchFrame
  <2>2. CASE nvs' = [nvs EXCEPT !.pid = 0] /\ excused' = excused + 1
    <3>1. nvs' \in Pulse /\ nvs'.pid = 0
      BY <1>0, <2>2 DEF Pulse
    <3> QED BY <1>0, <1>4, <2>2, <3>1, PatchFrame DEF OtxOK
  <2> QED BY <1>4, <2>1, <2>2 DEF Patch
<1>5. CASE Tick
  BY <1>0, <1>5, TickFrame DEF Tick, OtxOK
<1>6. CASE Rename
  BY <1>0, <1>6, RenameFrame DEF Rename, OtxOK
<1>7. CASE Reboot
  <2>1. /\ ram' = NoPulse /\ failedAt' = 0 /\ now' = now /\ UNCHANGED <<nvs, created>>
        /\ excused' = excused + (IF pc = "save" THEN 1 ELSE 0)
    BY <1>7 DEF Reboot
  <2>2. NoPulse \in Pulse /\ NoPulse.pid = 0
    BY DEF NoPulse, Pulse
  <2>3. excused' \in Nat
    BY <1>0, <2>1
  <2> QED BY <1>0, <2>1, <2>2, <2>3 DEF OtxOK
<1>8. CASE UNCHANGED vars
  BY <1>1, <1>8 DEF vars, clock, otx
<1>9. ASSUME NEW ip \in Ips, Capture(ip) PROVE OtxOK'
  BY <1>1, <1>9, CaptureFrame
<1> QED BY <1>1, <1>2, <1>3, <1>4, <1>5, <1>6, <1>7, <1>8, <1>9, TakeIdFrame, TimeOutFrame, GeoIpFrame,
           AbuseFrame, DshieldFrame, HubFrame, UpdateFrame, DrainFrame, MarkSentFrame, ClearFrame,
           PulseDeletedFrame DEF Next, TaskStep

(* Entries are marked only after a request, and only then is there a list. *)
LEMMA PcMoves ==
    ASSUME TypeInv,
           TakeId \/ TimeOut \/ GeoIp \/ Abuse \/ Otx \/ Save \/ Patch \/ Dshield \/ Hub \/ Update
    PROVE  pc # "mark" /\ pc' # "mark"
<1>1. \A n : StageAfter(n) # "mark"
  BY BusyAfter DEF Resting
<1>2. CASE TakeId
  BY <1>1, <1>2 DEF TakeId
<1>3. CASE TimeOut
  BY <1>3 DEF TimeOut
<1>4. CASE Update
  BY <1>4 DEF Update
<1>5. CASE GeoIp \/ Abuse \/ Otx \/ Save \/ Patch \/ Dshield \/ Hub
  BY <1>1, <1>5, StageHands
<1> QED BY <1>2, <1>3, <1>4, <1>5

LEMMA DrainSends ==
    ASSUME TypeInv, Drain
    PROVE  \/ UNCHANGED batch /\ pc' = "idle" /\ UNCHANGED kept
           \/ /\ Sendable = <<>> /\ pc' = "idle" /\ Drop /\ Due
              /\ UNCHANGED <<marks, window, posted, owed, leaked, kept>>
           \/ Sendable # <<>> /\ Post(Sendable) /\ Due
BY DEF Drain

LEMMA BatchStep == TypeInv /\ [Next]_vars => BatchOK'
<1> SUFFICES ASSUME TypeInv, [Next]_vars PROVE BatchOK'
  OBVIOUS
<1>0. /\ pending \in Seq(Nat) /\ Len(pending) <= PendingMax
      /\ marks \in Seq(Nat) /\ (pc = "mark" <=> marks # <<>>)
      /\ window \in bootAt .. now /\ posted \in 0 .. now
      /\ now \in Nat /\ bootAt \in 1 .. now
  BY DEF TypeInv, BatchOK, ClockOK
<1>a. PendingMax \in Nat \ {0} /\ <<>> \in Seq(Nat) /\ Len(<<>>) = 0 /\ Len(pending) \in Nat
  BY <1>0, IntelAssumption, LenProperties
<1>1. CASE UNCHANGED <<now, bootAt, pending, marks, window, posted>> /\ (pc' = "mark" <=> pc = "mark")
  BY <1>0, <1>1 DEF BatchOK
<1>2. CASE Dshield
  <2>1. /\ UNCHANGED <<now, bootAt, marks, window, posted>> /\ pc # "mark" /\ pc' # "mark"
    BY <1>2, DshieldFrame, PcMoves
  <2>2. CASE UNCHANGED pending
    BY <1>1, <2>1, <2>2
  <2>3. CASE pending' = Append(IF Full THEN Tail(pending) ELSE pending, hand.id)
    <3>1. hand.id \in Nat
      BY <1>2 DEF Dshield, TypeInv, HandOK, Resting, Entry
    <3>2. CASE Full
      <4>1. Len(pending) >= PendingMax /\ pending # <<>>
        BY <1>a, <3>2 DEF Full
      <4>2. Tail(pending) \in Seq(Nat) /\ Len(Tail(pending)) = Len(pending) - 1
        BY <1>0, <4>1, ToSetOfPieces
      <4>3. /\ pending' \in Seq(Nat) /\ Len(pending') = Len(pending)
        BY <1>a, <2>3, <3>1, <3>2, <4>2, ToSetOfPieces
      <4> QED BY <1>0, <2>1, <4>3 DEF BatchOK
    <3>3. CASE ~Full
      <4>1. pending' \in Seq(Nat) /\ Len(pending') = Len(pending) + 1
        BY <1>0, <2>3, <3>1, <3>3, ToSetOfPieces
      <4>2. Len(pending') <= PendingMax
        BY <1>a, <3>3, <4>1 DEF Full
      <4> QED BY <1>0, <2>1, <4>1, <4>2 DEF BatchOK
    <3> QED BY <3>2, <3>3
  <2> QED BY <1>2, <2>2, <2>3 DEF Dshield
<1>3. CASE Drain
  <2>1. UNCHANGED <<now, bootAt>> /\ pc = "drain"
    BY <1>3, DrainFrame DEF Drain
  <2>2. CASE UNCHANGED batch /\ pc' = "idle"
    BY <1>1, <2>1, <2>2 DEF batch
  <2>3. CASE Sendable = <<>> /\ pc' = "idle" /\ Drop /\ UNCHANGED <<marks, window, posted>>
    BY <1>0, <1>a, <2>1, <2>3 DEF Drop, BatchOK
  <2>4. CASE Sendable # <<>> /\ Post(Sendable)
    <3>1. Sendable \in Seq(Nat)
      BY <1>0, SendableIs
    <3>2. /\ posted' = now /\ window' = now /\ UNCHANGED pending
          /\ (marks' = Sendable /\ pc' = "mark") \/ (pc' = "idle" /\ UNCHANGED marks)
      BY <2>4 DEF Post
    <3>3. marks' \in Seq(Nat) /\ (pc' = "mark" <=> marks' # <<>>)
      BY <1>0, <2>1, <2>4, <3>1, <3>2
    <3>4. window' \in bootAt' .. now' /\ posted' \in 0 .. now'
      BY <1>0, <2>1, <3>2
    <3> QED BY <1>0, <3>2, <3>3, <3>4 DEF BatchOK
  <2> QED BY <1>3, <2>2, <2>3, <2>4, DrainSends
<1>4. CASE MarkSent
  <2>1. /\ UNCHANGED <<now, bootAt, window, posted>> /\ pc = "mark" /\ marks' = Tail(marks)
        /\ \/ Len(marks) = 1 /\ pc' = "idle" /\ pending' = <<>>
           \/ Len(marks) # 1 /\ pc' = pc /\ pending' = pending
    BY <1>4, MarkSentFrame DEF MarkSent, Drop
  <2>2. marks' \in Seq(Nat) /\ (Len(marks) = 1 <=> marks' = <<>>)
    BY <1>0, <2>1, ToSetOfPieces
  <2> QED BY <1>0, <1>a, <2>1, <2>2 DEF BatchOK
<1>5. CASE Tick
  <2>1. now' = now + 1 /\ UNCHANGED <<bootAt, pending, marks, window, posted, pc>>
    BY <1>5, TickFrame DEF Tick
  <2> QED BY <1>0, <2>1 DEF BatchOK
<1>6. CASE Reboot
  <2>1. /\ now' = now /\ bootAt' = now /\ window' = now /\ posted' = posted
        /\ pending' = <<>> /\ marks' = <<>> /\ pc' = "idle"
    BY <1>6 DEF Reboot
  <2> QED BY <1>0, <1>a, <2>1 DEF BatchOK
<1>7. CASE UNCHANGED vars
  BY <1>1, <1>7 DEF vars, clock, batch, task
<1>8. ASSUME NEW ip \in Ips, Capture(ip) PROVE BatchOK'
  BY <1>1, <1>8, CaptureFrame
<1> QED BY <1>1, <1>2, <1>3, <1>4, <1>5, <1>6, <1>7, <1>8, PcMoves, TakeIdFrame, TimeOutFrame, GeoIpFrame,
           AbuseFrame, OtxFrame, SaveFrame, PatchFrame, HubFrame, UpdateFrame, ClearFrame,
           RenameFrame, PulseDeletedFrame DEF Next, TaskStep

(* A report to the hub, and where it leaves the counter.                   *)
LEMMA HubIs ==
    ASSUME TypeInv, Hub
    PROVE  /\ hand \in Entry /\ pc = "hub" /\ nextId' \in Nat /\ nextId' >= nextId
           /\ hub' \in {hub, hub \cup {hand.id}}
           /\ \/ healed' = (healed /\ (hub' = hub \/ hand.id \notin stale)) /\ nextId' = nextId
              \/ healed' = TRUE /\ \A id \in hub \cup {hand.id} : nextId' > id
<1>1. pc = "hub" /\ hand \in Entry /\ hand.id \in Nat
  BY DEF Hub, TypeInv, HandOK, Resting, Entry
<1>2. nextId \in Nat /\ healed \in BOOLEAN /\ hub \in SUBSET Nat /\ IsFiniteSet(hub)
  BY DEF TypeInv, HubOK
<1> DEFINE rows == hub \cup {hand.id}
<1>3. rows \in SUBSET Nat /\ rows # {} /\ IsFiniteSet(rows)
  BY <1>1, <1>2, FS_AddElement
<1>4. Max(rows) \in Nat /\ \A id \in rows : Max(rows) >= id
  <2> HIDE DEF rows
  <2> QED BY <1>3, MaxIsMax
<1>5. /\ Bump(Max(rows)) \in Nat /\ Bump(Max(rows)) >= nextId
      /\ \A id \in rows : Bump(Max(rows)) > id
  <2>1. PICK m \in Nat : m = Max(rows)
    BY <1>4
  <2>2. \A id \in rows : id \in Nat /\ m >= id
    BY <1>3, <1>4, <2>1
  <2>3. Bump(m) \in Nat /\ Bump(m) >= nextId /\ Bump(m) > m
    BY <1>2 DEF Bump
  <2>4. \A id \in rows : Bump(m) > id
    <3> HIDE DEF rows
    <3> QED BY <2>2, <2>3
  <2> QED BY <2>1, <2>3, <2>4
<1>6. PICK go \in BOOLEAN, code \in {"2xx", "lost", "4xx", "other"}, says \in BOOLEAN :
        /\ hub' = IF code \in {"2xx", "lost"} THEN hub \cup {hand.id} ELSE hub
        /\ nextId' = IF says THEN Bump(Max(hub \cup {hand.id})) ELSE nextId
        /\ healed' = (says \/ (healed /\ (hub' = hub \/ hand.id \notin stale)))
  <2> HIDE DEF rows
  <2> QED BY DEF Hub
<1>7. CASE says
  BY <1>1, <1>2, <1>5, <1>6, <1>7
<1>8. CASE ~says
  BY <1>1, <1>2, <1>6, <1>8
<1> QED BY <1>7, <1>8

LEMMA HubStep == TypeInv /\ [Next]_vars => HubOK'
<1> SUFFICES ASSUME TypeInv, [Next]_vars PROVE HubOK'
  OBVIOUS
<1>0. hub \in SUBSET Nat /\ IsFiniteSet(hub) /\ healed \in BOOLEAN /\ nextId \in Nat
  BY DEF TypeInv, HubOK
<1>1. CASE UNCHANGED <<hub, healed, nextId>>
  BY <1>0, <1>1 DEF HubOK
<1>2. CASE Hub
  <2>1. hand.id \in Nat /\ nextId' \in Nat /\ hub' \in {hub, hub \cup {hand.id}} /\ healed' \in BOOLEAN
    BY <1>0, <1>2, HubIs DEF Entry
  <2>2. IsFiniteSet(hub \cup {hand.id})
    BY <1>0, FS_AddElement
  <2> QED BY <1>0, <2>1, <2>2 DEF HubOK
<1>3. ASSUME NEW ip \in Ips, Capture(ip) PROVE HubOK'
  BY <1>0, <1>3, CaptureFrame DEF Capture, HubOK
<1>4. CASE Clear
  BY <1>0, <1>4, ClearFrame DEF Clear, HubOK
<1>5. CASE Reboot
  <2>1. PICK last \in 0..nextId - 1 : nextId' = Max({last} \cup DOMAIN log') + 1
    BY <1>5 DEF Reboot
  <2>2. healed' = (healed /\ nextId' >= nextId) /\ hub' = hub
    BY <1>5 DEF Reboot
  <2>3. healed' \in BOOLEAN
    BY <1>0, <2>2
  <2>4. DOMAIN log' \in SUBSET Nat /\ IsFiniteSet(DOMAIN log')
    <3>1. DOMAIN log' \subseteq DOMAIN log
      BY <1>5, ReloadedIs DEF Reboot, TypeInv
    <3> QED BY <3>1, FS_Subset DEF TypeInv, LogOK
  <2>5. IsFiniteSet({last} \cup DOMAIN log')
    BY <2>4, FS_Singleton, FS_Union
  <2>6. last \in Nat
    BY <1>0
  <2>7. Max({last} \cup DOMAIN log') \in Nat
    BY <2>4, <2>5, <2>6, MaxIsMax
  <2>8. nextId' \in Nat
    BY <2>1, <2>7
  <2> QED BY <1>0, <2>2, <2>3, <2>8 DEF HubOK
<1>6. CASE UNCHANGED vars
  BY <1>1, <1>6 DEF vars, hubs
<1> QED BY <1>1, <1>2, <1>3, <1>4, <1>5, <1>6, TakeIdFrame, TimeOutFrame, GeoIpFrame, AbuseFrame,
           OtxFrame, SaveFrame, PatchFrame, DshieldFrame, UpdateFrame, DrainFrame, MarkSentFrame,
           TickFrame, RenameFrame, PulseDeletedFrame DEF Next, TaskStep

LEMMA TypeStep == TypeInv /\ [Next]_vars => TypeInv'
BY OptsStep, ClockStep, LogStep, QueueStep, HandStep, CdStep, GeoStep, OtxStep, BatchStep, HubStep
   DEF TypeInv

LEMMA TypesHold == Spec => []TypeInv
BY TypeInit, TypeStep, PTL DEF Spec

(* The table sizes, the batch, the flash and the clock: the module's type   *)
(* invariant, whatever the services, the resolver and the operator do.      *)
THEOREM ReporterTypeCorrect == Spec => []TypeOK
BY TypesHold, TypeInvIsEnough, PTL

(***************************************************************************)
(* What was acknowledged stays marked. The entry in hand knows more than   *)
(* the log does, until it is written back.                                 *)
(***************************************************************************)
HandKnows == hand # None => \A k \in kept : k.id = hand.id => k.s \in hand.marks
MarksInv  == MarksKept /\ HandKnows

LEMMA MarksInit == Init => MarksInv
BY DEF Init, MarksInv, MarksKept, HandKnows

LEMMA MarksStep == TypeInv /\ TypeInv' /\ MarksInv /\ [Next]_vars => MarksInv'
<1> SUFFICES ASSUME TypeInv, TypeInv', MarksInv, [Next]_vars PROVE MarksInv'
  OBVIOUS
<1>0. /\ pc \in Resting => hand = None
      /\ pc \notin Resting => hand \in Entry
      /\ marks \in Seq(Nat) /\ (pc = "mark" <=> marks # <<>>)
      /\ LogOK /\ nextId \in Nat /\ queue \in Seq(Nat)
  BY DEF TypeInv, HandOK, BatchOK, HubOK, QueueOK
<1>a. \A k \in kept : \/ ~OnLog(k.id)
                      \/ hand # None /\ hand.id = k.id
                      \/ k.s = "dshield" /\ k.id \in ToSet(marks)
                      \/ k.s \in log[k.id].marks
  BY DEF MarksInv, MarksKept
<1>b. hand # None => \A k \in kept : k.id = hand.id => k.s \in hand.marks
  BY DEF MarksInv, HandKnows
<1>1. CASE UNCHANGED <<kept, log, hand, marks>>
  BY <1>a, <1>b, <1>1 DEF MarksInv, MarksKept, HandKnows, OnLog
<1>2. ASSUME pc \notin Resting, NEW s \in Services, Handled(s), UNCHANGED <<log, marks>>
      PROVE  MarksInv'
  <2>1. hand \in Entry /\ hand # None
    BY <1>0, <1>2, EntryIsSome
  <2>2. CASE UNCHANGED <<hand, kept>>
    BY <1>1, <1>2, <2>2
  <2>3. CASE Mark(s)
    <3>1. /\ hand' \in Entry /\ hand'.id = hand.id /\ hand'.marks = hand.marks \cup {s} /\ hand' # None
          /\ kept' = kept \cup {[s |-> s, id |-> hand.id]}
      BY <2>1, <2>3, MarkedIs, EntryIsSome DEF Mark
    <3>2. HandKnows'
      <4>1. ASSUME NEW k \in kept', k.id = hand'.id PROVE k.s \in hand'.marks
        <5>1. CASE k \in kept
          BY <1>b, <2>1, <3>1, <4>1, <5>1
        <5>2. CASE k = [s |-> s, id |-> hand.id]
          BY <3>1, <5>2
        <5> QED BY <3>1, <5>1, <5>2
      <4> QED BY <4>1 DEF HandKnows
    <3>3. MarksKept'
      <4>1. ASSUME NEW k \in kept'
            PROVE  \/ ~(k.id \in DOMAIN log)
                   \/ hand' # None /\ hand'.id = k.id
                   \/ k.s = "dshield" /\ k.id \in ToSet(marks)
                   \/ k.s \in log[k.id].marks
        <5>1. CASE k \in kept
          BY <1>a, <3>1, <5>1 DEF OnLog
        <5>2. CASE k = [s |-> s, id |-> hand.id]
          BY <3>1, <5>2
        <5> QED BY <3>1, <5>1, <5>2
      <4> QED BY <1>2, <4>1 DEF MarksKept, OnLog
    <3> QED BY <3>2, <3>3 DEF MarksInv
  <2> QED BY <1>2, <2>2, <2>3 DEF Handled
<1>3. CASE TakeId
  <2>1. pc = "idle" /\ hand = None /\ marks = <<>> /\ UNCHANGED <<kept, log, marks>> /\ ToSet(marks) = {}
    BY <1>0, <1>3, TakeIdFrame, ToSetOfPieces DEF TakeId, Resting
  <2>2. CASE OnLog(Head(queue))
    <3>1. hand' = [id |-> Head(queue), ip |-> log[Head(queue)].ip, marks |-> log[Head(queue)].marks]
      BY <1>3, <2>2 DEF TakeId
    <3>2. HandKnows'
      BY <1>a, <2>1, <2>2, <3>1 DEF HandKnows
    <3>3. MarksKept'
      BY <1>a, <2>1 DEF MarksKept, OnLog
    <3> QED BY <3>2, <3>3 DEF MarksInv
  <2>3. CASE ~OnLog(Head(queue))
    BY <1>1, <1>3, <2>1, <2>3 DEF TakeId
  <2> QED BY <2>2, <2>3
<1>4. CASE Update
  <2>1. /\ hand \in Entry /\ hand # None /\ hand' = None /\ UNCHANGED <<kept, marks>>
        /\ Put(hand.id, [ip |-> hand.ip, marks |-> hand.marks])
    BY <1>0, <1>4, UpdateFrame, EntryIsSome DEF Update, Resting
  <2>2. hand.id \in Nat /\ [ip |-> hand.ip, marks |-> hand.marks] \in Logged
    BY <2>1 DEF Entry, Logged
  <2>3. /\ log'[hand.id] = [ip |-> hand.ip, marks |-> hand.marks]
        /\ DOMAIN log' \subseteq DOMAIN log \cup {hand.id}
        /\ \A i \in DOMAIN log' : i # hand.id => log'[i] = log[i]
    BY <1>0, <2>1, <2>2, PutIs
  <2>4. ASSUME NEW k \in kept, k.id \in DOMAIN log'
        PROVE  (k.s = "dshield" /\ k.id \in ToSet(marks)) \/ k.s \in log'[k.id].marks
    <3>1. CASE k.id = hand.id
      BY <1>b, <2>1, <2>3, <3>1
    <3>2. CASE k.id # hand.id
      <4>1. k.id \in DOMAIN log /\ log'[k.id] = log[k.id]
        BY <2>3, <2>4, <3>2
      <4> QED BY <1>a, <3>2, <4>1 DEF OnLog
    <3> QED BY <3>1, <3>2
  <2>5. MarksKept'
    BY <2>1, <2>4 DEF MarksKept, OnLog
  <2> QED BY <2>1, <2>5 DEF MarksInv, HandKnows
<1>5. CASE Drain
  <2>1. pc = "drain" /\ hand = None /\ hand' = None /\ UNCHANGED log /\ marks = <<>> /\ ToSet(marks) = {}
    BY <1>0, <1>5, DrainFrame, ToSetOfPieces DEF Drain, Resting
  <2>2. CASE UNCHANGED <<marks, kept>>
    BY <1>1, <2>1, <2>2
  <2>3. CASE marks' = Sendable /\ kept' = kept \cup [s : {"dshield"}, id : ToSet(Sendable)]
    <3>1. ASSUME NEW k \in kept'
          PROVE  \/ k.id \notin DOMAIN log
                 \/ k.s = "dshield" /\ k.id \in ToSet(Sendable)
                 \/ k.s \in log[k.id].marks
      <4>1. CASE k \in kept
        BY <1>a, <2>1, <4>1 DEF OnLog
      <4>2. CASE k \in [s : {"dshield"}, id : ToSet(Sendable)]
        BY <4>2
      <4> QED BY <2>3, <4>1, <4>2
    <3>2. MarksKept'
      BY <2>1, <2>3, <3>1 DEF MarksKept, OnLog
    <3> QED BY <2>1, <3>2 DEF MarksInv, HandKnows
  <2>4. UNCHANGED <<marks, kept>> \/ (marks' = Sendable /\ kept' = kept \cup [s : {"dshield"}, id : ToSet(Sendable)])
    BY <1>5, DrainSends DEF Post, batch
  <2> QED BY <2>2, <2>3, <2>4
<1>6. CASE MarkSent
  <2>1. /\ marks # <<>> /\ hand = None /\ hand' = None /\ UNCHANGED kept /\ marks' = Tail(marks)
    BY <1>0, <1>6, MarkSentFrame DEF MarkSent, Resting
  <2>2. Head(marks) \in Nat /\ ToSet(marks) = ToSet(marks') \cup {Head(marks)}
    BY <1>0, <2>1, ToSetOfPieces
  <2> DEFINE h == Head(marks)
  <2>3. CASE OnLog(h)
    <3>1. Put(h, [log[h] EXCEPT !.marks = @ \cup {"dshield"}])
      BY <1>6, <2>3 DEF MarkSent
    <3>2. [log[h] EXCEPT !.marks = @ \cup {"dshield"}] \in Logged /\ log[h] \in Logged
      BY <1>0, <2>3, ServicesAre DEF OnLog, LogOK, Logged
    <3>3. [log[h] EXCEPT !.marks = @ \cup {"dshield"}].marks = log[h].marks \cup {"dshield"}
      BY <3>2 DEF Logged
    <3>4. /\ log'[h].marks = log[h].marks \cup {"dshield"}
          /\ DOMAIN log' \subseteq DOMAIN log \cup {h}
          /\ \A i \in DOMAIN log' : i # h => log'[i] = log[i]
      <4> DEFINE e == [log[h] EXCEPT !.marks = @ \cup {"dshield"}]
      <4>1. e \in Logged /\ Put(h, e) /\ e.marks = log[h].marks \cup {"dshield"} /\ h \in Nat
        BY <2>2, <3>1, <3>2, <3>3
      <4> HIDE DEF e, h
      <4> QED BY <1>0, <4>1, PutIs
    <3>5. ASSUME NEW k \in kept, k.id \in DOMAIN log'
          PROVE  (k.s = "dshield" /\ k.id \in ToSet(marks')) \/ k.s \in log'[k.id].marks
      <4>1. k.id \in DOMAIN log
        BY <2>3, <3>4, <3>5 DEF OnLog
      <4>2. (k.s = "dshield" /\ k.id \in ToSet(marks)) \/ k.s \in log[k.id].marks
        BY <1>a, <2>1, <4>1 DEF OnLog
      <4>3. CASE k.id = h
        BY <3>4, <4>2, <4>3
      <4>4. CASE k.id # h
        BY <2>2, <3>4, <3>5, <4>2, <4>4
      <4> QED BY <4>3, <4>4
    <3>6. MarksKept'
      BY <2>1, <3>5 DEF MarksKept, OnLog
    <3> QED BY <2>1, <3>6 DEF MarksInv, HandKnows
  <2>4. CASE ~OnLog(h)
    <3>1. UNCHANGED log
      BY <1>6, <2>4 DEF MarkSent
    <3>2. MarksKept'
      BY <1>a, <2>1, <2>2, <2>4, <3>1 DEF MarksKept, OnLog
    <3> QED BY <2>1, <3>2 DEF MarksInv, HandKnows
  <2> QED BY <2>3, <2>4
<1>7. ASSUME NEW ip \in Ips, Capture(ip) PROVE MarksInv'
  <2>1. /\ Put(nextId, [ip |-> ip, marks |-> {}]) /\ kept' = {k \in kept : k.id # nextId}
        /\ UNCHANGED <<hand, marks>>
    BY <1>7, CaptureFrame DEF Capture
  <2>2. [ip |-> ip, marks |-> {}] \in Logged
    BY DEF Logged
  <2>3. /\ DOMAIN log' \subseteq DOMAIN log \cup {nextId}
        /\ \A i \in DOMAIN log' : i # nextId => log'[i] = log[i]
    BY <1>0, <2>1, <2>2, PutIs
  <2>4. MarksKept'
    BY <1>a, <2>1, <2>3 DEF MarksKept, OnLog
  <2>5. HandKnows'
    BY <1>b, <2>1 DEF HandKnows
  <2> QED BY <2>4, <2>5 DEF MarksInv
<1>8. CASE Clear
  BY <1>8 DEF Clear, MarksInv, MarksKept, HandKnows
<1>9. CASE Reboot
  <2>1. /\ hand' = None
        /\ kept' = {k \in kept : k.id \in DOMAIN log' => k.s \in log'[k.id].marks}
    BY <1>9 DEF Reboot
  <2>2. MarksKept'
    BY <2>1 DEF MarksKept, OnLog
  <2> QED BY <2>1, <2>2 DEF MarksInv, HandKnows
<1>10. CASE GeoIp
  BY <1>2, <1>10, StageHands, GeoIpFrame, ServicesAre DEF Resting
<1>11. CASE Abuse
  BY <1>2, <1>11, StageHands, AbuseFrame, ServicesAre DEF Resting
<1>12. CASE Patch
  BY <1>2, <1>12, StageHands, PatchFrame, ServicesAre DEF Resting
<1>13. CASE Hub
  BY <1>2, <1>13, StageHands, HubFrame, ServicesAre DEF Resting
<1>14. CASE UNCHANGED vars
  BY <1>1, <1>14 DEF vars, task, batch
<1> QED BY <1>1, <1>3, <1>4, <1>5, <1>6, <1>7, <1>8, <1>9, <1>10, <1>11, <1>12, <1>13, <1>14, TimeOutFrame,
           OtxFrame, SaveFrame, DshieldFrame, TickFrame, RenameFrame, PulseDeletedFrame DEF Next, TaskStep

(* What a service has acknowledged is marked on its entry once the task is  *)
(* done with it, and the books keep within their sizes: intelTask_ writes   *)
(* an entry back after every stage has run, whatever came in between. What  *)
(* a restart finds unwritten is lost; what it finds marked stays so.        *)
THEOREM BooksAreKept == Spec => []BooksKept
<1>1. Spec => []MarksInv
  BY TypesHold, MarksInit, MarksStep, PTL DEF Spec
<1>2. MarksInv => MarksKept
  BY DEF MarksInv
<1>3. TypeOK /\ MarksKept => BooksKept
  BY DEF BooksKept
<1> QED BY <1>1, <1>2, <1>3, ReporterTypeCorrect, PTL

(***************************************************************************)
(* The batch keeps what DShield is owed. Between a successful request and  *)
(* the last mark nothing is owed, for the batch is dropped then.           *)
(***************************************************************************)
Settled == pc = "mark" => owed = {}
OwedInv == BatchKeepsOwed /\ Settled

(* Where an address that is owed is to be found.                           *)
InBatch(x) == \E o \in ToSet(pending) \cap DOMAIN log : log[o].ip = x
InHand(x)  == hand # None /\ hand.id \in ToSet(pending) /\ hand.ip = x

LEMMA OwedIs == BatchKeepsOwed <=> \A x \in owed : InBatch(x) \/ InHand(x)
BY DEF BatchKeepsOwed, InBatch, InHand, AddressOf

LEMMA OwedInit == Init => OwedInv
BY DEF Init, OwedInv, BatchKeepsOwed, Settled

LEMMA OwedStep == TypeInv /\ TypeInv' /\ OwedInv /\ [Next]_vars => OwedInv'
<1> SUFFICES ASSUME TypeInv, TypeInv', OwedInv, [Next]_vars PROVE OwedInv'
  OBVIOUS
<1>0. /\ pc \in Resting => hand = None
      /\ pc \notin Resting => hand \in Entry
      /\ marks \in Seq(Nat) /\ (pc = "mark" <=> marks # <<>>)
      /\ LogOK /\ nextId \in Nat /\ queue \in Seq(Nat) /\ pending \in Seq(Nat)
  BY DEF TypeInv, HandOK, BatchOK, HubOK, QueueOK
<1>a. /\ \A x \in owed : InBatch(x) \/ InHand(x)
      /\ pc = "mark" => owed = {}
  BY OwedIs DEF OwedInv, Settled
<1>b. (\A x \in owed' : InBatch(x)' \/ InHand(x)') /\ (pc' = "mark" => owed' = {}) => OwedInv'
  BY DEF OwedInv, Settled, BatchKeepsOwed, InBatch, InHand, AddressOf
<1>1. CASE UNCHANGED <<owed, pending, log, hand, pc>>
  BY <1>1 DEF OwedInv, BatchKeepsOwed, Settled, AddressOf
<1>2. ASSUME pc \notin Resting, NEW s \in Services, Handled(s), UNCHANGED <<owed, pending, log>>, pc' # "mark"
      PROVE  OwedInv'
  <2>1. hand' \in Entry /\ hand'.id = hand.id /\ hand'.ip = hand.ip /\ hand' # None
    BY <1>2, HandleKeeps, EntryIsSome
  <2>2. \A x \in owed' : InBatch(x)' \/ InHand(x)'
    BY <1>a, <1>2, <2>1 DEF InBatch, InHand
  <2> QED BY <1>b, <1>2, <2>2
<1>3. CASE TakeId \/ TimeOut
  <2>1. hand = None /\ UNCHANGED <<owed, pending, log>> /\ pc' # "mark"
    BY <1>0, <1>3, PcMoves, TakeIdFrame, TimeOutFrame DEF TakeId, TimeOut, Resting
  <2>2. \A x \in owed' : InBatch(x)'
    BY <1>a, <2>1 DEF InBatch, InHand
  <2> QED BY <1>b, <2>1, <2>2
<1>4. CASE Dshield
  <2>1. pc = "dshield" /\ hand \in Entry /\ hand # None /\ UNCHANGED <<log, hand>> /\ pc' # "mark"
    BY <1>0, <1>4, PcMoves, DshieldFrame, EntryIsSome DEF Dshield, Resting
  <2>2. CASE UNCHANGED <<owed, pending>>
    <3>1. \A x \in owed' : InBatch(x)' \/ InHand(x)'
      BY <1>a, <2>1, <2>2 DEF InBatch, InHand
    <3> QED BY <1>b, <2>1, <3>1
  <2>3. CASE /\ pending' = Append(IF Full THEN Tail(pending) ELSE pending, hand.id)
             /\ owed' = (owed \ AddressOf(IF Full THEN {Head(pending)} ELSE {})) \cup {hand.ip}
    <3>1. hand.id \in Nat
      BY <2>1 DEF Entry
    <3>2. hand.id \in ToSet(pending') /\ \A o \in ToSet(pending) : o \in ToSet(pending') \/ (Full /\ o = Head(pending))
      <4>1. CASE Full
        <5>1. pending # <<>>
          BY <4>1, IntelAssumption DEF Full
        <5>2. Tail(pending) \in Seq(Nat) /\ ToSet(pending) = ToSet(Tail(pending)) \cup {Head(pending)}
          BY <1>0, <5>1, ToSetOfPieces
        <5>3. ToSet(pending') = ToSet(Tail(pending)) \cup {hand.id}
          BY <2>3, <3>1, <4>1, <5>2, ToSetOfPieces
        <5> QED BY <4>1, <5>2, <5>3
      <4>2. CASE ~Full
        BY <1>0, <2>3, <3>1, <4>2, ToSetOfPieces
      <4> QED BY <4>1, <4>2
    <3>3. ASSUME NEW x \in owed' PROVE InBatch(x)' \/ InHand(x)'
      <4>1. CASE x = hand.ip
        BY <2>1, <3>2, <4>1 DEF InHand
      <4>2. CASE x # hand.ip
        <5>1. x \in owed /\ ~InHand(x)
          BY <2>3, <3>3, <4>2 DEF InHand
        <5>2. PICK o \in ToSet(pending) \cap DOMAIN log : log[o].ip = x
          BY <1>a, <5>1 DEF InBatch
        <5>3. ~(Full /\ o = Head(pending))
          BY <2>3, <3>3, <4>2, <5>2 DEF AddressOf
        <5> QED BY <2>1, <3>2, <5>2, <5>3 DEF InBatch
      <4> QED BY <4>1, <4>2
    <3> QED BY <1>b, <2>1, <3>3
  <2> QED BY <1>4, <2>2, <2>3 DEF Dshield
<1>5. ASSUME NEW id \in Nat, NEW entry \in Logged, Put(id, entry), UNCHANGED pending,
             hand' = hand \/ (hand' = None /\ (hand # None => hand.id = id /\ hand.ip = entry.ip)),
             pc' = "mark" => pc = "mark"
      PROVE  OwedInv'
  <2>1. /\ id \in DOMAIN log' /\ log'[id] = entry /\ owed' \subseteq owed
        /\ \A i \in ToSet(pending) \cap DOMAIN log :
              log[i].ip \in owed' => i \in DOMAIN log' /\ log'[i].ip = log[i].ip
    BY <1>0, <1>5, PutIs
  <2>2. ASSUME NEW x \in owed' PROVE InBatch(x)' \/ InHand(x)'
    <3>1. CASE InBatch(x)
      <4>1. PICK o \in ToSet(pending) \cap DOMAIN log : log[o].ip = x
        BY <3>1 DEF InBatch
      <4>2. o \in DOMAIN log' /\ log'[o].ip = x
        BY <2>1, <2>2, <4>1
      <4> QED BY <1>5, <4>1, <4>2 DEF InBatch
    <3>2. CASE InHand(x)
      <4>1. CASE hand' = hand
        BY <1>5, <3>2, <4>1 DEF InHand
      <4>2. CASE hand.id = id /\ hand.ip = entry.ip
        BY <1>5, <2>1, <3>2, <4>2 DEF InHand, InBatch
      <4> QED BY <1>5, <3>2, <4>1, <4>2 DEF InHand
    <3> QED BY <1>a, <2>1, <2>2, <3>1, <3>2
  <2> QED BY <1>a, <1>b, <1>5, <2>1, <2>2
<1>6. CASE Update
  <2>1. /\ hand \in Entry /\ hand' = None /\ UNCHANGED pending /\ pc' # "mark"
        /\ Put(hand.id, [ip |-> hand.ip, marks |-> hand.marks])
    BY <1>0, <1>6, UpdateFrame DEF Update, Resting
  <2>2. hand.id \in Nat /\ [ip |-> hand.ip, marks |-> hand.marks] \in Logged
    BY <2>1 DEF Entry, Logged
  <2> QED BY <1>5, <2>1, <2>2
<1>7. CASE Drain
  <2>1. pc = "drain" /\ hand = None /\ hand' = None /\ UNCHANGED log
    BY <1>0, <1>7, DrainFrame DEF Drain, Resting
  <2>2. \A x \in owed : InBatch(x)
    BY <1>a, <2>1 DEF InHand
  <2>3. ToSet(Sendable) = {id \in ToSet(pending) : OnLog(id)}
    BY <1>0, SendableIs
  <2>4. CASE UNCHANGED <<owed, pending>> /\ pc' = "idle"
    <3>1. \A x \in owed' : InBatch(x)'
      BY <2>1, <2>2, <2>4 DEF InBatch
    <3> QED BY <1>b, <2>4, <3>1
  <2>5. CASE Sendable = <<>> /\ UNCHANGED owed
    <3>1. owed = {}
      BY <2>2, <2>3, <2>5, ToSetOfPieces DEF InBatch, OnLog
    <3> QED BY <1>b, <2>5, <3>1
  <2>6. CASE UNCHANGED pending /\ owed' = owed \ AddressOf(ToSet(Sendable))
    <3>1. owed' = {}
      <4>1. ASSUME NEW x \in owed PROVE x \in AddressOf(ToSet(Sendable))
        BY <2>2, <2>3, <4>1 DEF InBatch, OnLog, AddressOf
      <4> QED BY <2>6, <4>1
    <3> QED BY <1>b, <3>1
  <2>7. \/ UNCHANGED <<owed, pending>> /\ pc' = "idle"
        \/ Sendable = <<>> /\ UNCHANGED owed
        \/ UNCHANGED pending /\ owed' = owed \ AddressOf(ToSet(Sendable))
    BY <1>7, DrainSends DEF Post, batch
  <2> QED BY <2>4, <2>5, <2>6, <2>7
<1>8. CASE MarkSent
  <2>1. owed = {} /\ pc = "mark"
    BY <1>a, <1>8 DEF MarkSent
  <2>2. owed' \subseteq owed
    <3>1. CASE OnLog(Head(marks))
      BY <1>8, <3>1 DEF MarkSent, Put
    <3>2. CASE ~OnLog(Head(marks))
      BY <1>8, <3>2 DEF MarkSent
    <3> QED BY <3>1, <3>2
  <2> QED BY <1>b, <2>1, <2>2
<1>9. ASSUME NEW ip \in Ips, Capture(ip) PROVE OwedInv'
  <2>1. Put(nextId, [ip |-> ip, marks |-> {}]) /\ UNCHANGED <<hand, pending, pc>>
    BY <1>9, CaptureFrame DEF Capture
  <2>2. [ip |-> ip, marks |-> {}] \in Logged
    BY DEF Logged
  <2> QED BY <1>0, <1>5, <2>1, <2>2
<1>10. CASE Clear
  <2>1. owed' = owed \ AddressOf(ToSet(pending)) /\ UNCHANGED <<hand, pending, pc>>
    BY <1>10, ClearFrame DEF Clear
  <2>2. ASSUME NEW x \in owed' PROVE InHand(x)'
    <3>1. x \in owed /\ ~InBatch(x)
      BY <2>1, <2>2 DEF InBatch, AddressOf
    <3> QED BY <1>a, <2>1, <3>1 DEF InHand
  <2> QED BY <1>a, <1>b, <2>1, <2>2
<1>11. CASE Reboot
  BY <1>b, <1>11 DEF Reboot
<1>12. CASE GeoIp
  BY <1>2, <1>12, StageHands, PcMoves, GeoIpFrame, ServicesAre DEF Resting
<1>13. CASE Abuse
  BY <1>2, <1>13, StageHands, PcMoves, AbuseFrame, ServicesAre DEF Resting
<1>14. CASE Otx
  <2>1. pc = "otx" /\ Handled("otx")
    BY <1>14, StageHands DEF Handled
  <2> QED BY <1>2, <1>14, <2>1, PcMoves, OtxFrame, ServicesAre DEF Resting
<1>15. CASE Save
  <2>1. pc = "save" /\ Handled("otx")
    BY <1>15, StageHands DEF Handled
  <2> QED BY <1>2, <1>15, <2>1, PcMoves, SaveFrame, ServicesAre DEF Resting
<1>16. CASE Patch
  BY <1>2, <1>16, StageHands, PcMoves, PatchFrame, ServicesAre DEF Resting
<1>17. CASE Hub
  BY <1>2, <1>17, StageHands, PcMoves, HubFrame, ServicesAre DEF Resting
<1>18. CASE UNCHANGED vars
  BY <1>1, <1>18 DEF vars, task, batch
<1> QED BY <1>1, <1>3, <1>4, <1>6, <1>7, <1>8, <1>9, <1>10, <1>11, <1>12, <1>13, <1>14, <1>15, <1>16, <1>17,
           <1>18, TickFrame, RenameFrame, PulseDeletedFrame DEF Next, TaskStep

(***************************************************************************)
(* No local address leaves under its own id. An id of the task's that no   *)
(* clear has freed was given out and is not given out again; the entry in  *)
(* hand is what the log has under it, and the batch has no local address.  *)
(***************************************************************************)
OnTheWay == ToSet(pending) \cup ToSet(queue) \cup (IF hand = None THEN {} ELSE {hand.id})
IdsTaken == \A id \in OnTheWay \ stale : id < nextId
HandTrue == hand # None /\ hand.id \notin stale /\ OnLog(hand.id) => log[hand.id].ip = hand.ip
BatchPublic == \A id \in ToSet(pending) \ stale : /\ OnLog(id) => log[id].ip \notin lan
                                                  /\ hand # None /\ hand.id = id => hand.ip \notin lan
LeakInv == NoLanLeaves /\ IdsTaken /\ HandTrue /\ BatchPublic

LEMMA LeakInit == Init => LeakInv
<1> SUFFICES ASSUME Init PROVE LeakInv
  OBVIOUS
<1>1. ToSet(pending) = {} /\ ToSet(queue) = {} /\ hand = None /\ leaked = {}
  BY ToSetOfPieces DEF Init
<1> QED BY <1>1 DEF LeakInv, NoLanLeaves, IdsTaken, HandTrue, BatchPublic, OnTheWay

LEMMA LeakStep == TypeInv /\ TypeInv' /\ LeakInv /\ [Next]_vars => LeakInv'
<1> SUFFICES ASSUME TypeInv, TypeInv', LeakInv, [Next]_vars PROVE LeakInv'
  OBVIOUS
<1>0. /\ pc \in Resting => hand = None
      /\ pc \notin Resting => hand \in Entry
      /\ marks \in Seq(Nat) /\ (pc = "mark" <=> marks # <<>>)
      /\ LogOK /\ nextId \in Nat /\ queue \in Seq(Nat) /\ pending \in Seq(Nat)
  BY DEF TypeInv, HandOK, BatchOK, HubOK, QueueOK
<1>a. /\ leaked = {}
      /\ \A id \in ToSet(pending) \ stale : id < nextId
      /\ \A id \in ToSet(queue) \ stale : id < nextId
      /\ hand # None /\ hand.id \notin stale => hand.id < nextId
      /\ hand # None /\ hand.id \notin stale /\ OnLog(hand.id) => log[hand.id].ip = hand.ip
      /\ \A id \in ToSet(pending) \ stale : OnLog(id) => log[id].ip \notin lan
      /\ hand # None /\ hand.id \in ToSet(pending) \ stale => hand.ip \notin lan
  BY DEF LeakInv, NoLanLeaves, IdsTaken, HandTrue, BatchPublic, OnTheWay
<1>b. /\ leaked' = {}
      /\ \A id \in ToSet(pending') \ stale' : id < nextId'
      /\ \A id \in ToSet(queue') \ stale' : id < nextId'
      /\ hand' # None /\ hand'.id \notin stale' => hand'.id < nextId'
      /\ hand' # None /\ hand'.id \notin stale' /\ hand'.id \in DOMAIN log' => log'[hand'.id].ip = hand'.ip
      /\ \A id \in ToSet(pending') \ stale' : id \in DOMAIN log' => log'[id].ip \notin lan'
      /\ hand' # None /\ hand'.id \in ToSet(pending') \ stale' => hand'.ip \notin lan'
      => LeakInv'
  BY DEF LeakInv, NoLanLeaves, IdsTaken, HandTrue, BatchPublic, OnTheWay, OnLog
<1>c. \A s \in Seq(Nat) : ToSet(s) \in SUBSET Nat
  BY ToSetOfPieces
<1>1. CASE UNCHANGED <<lan, log, nextId, queue, hand, pending, stale, leaked>>
  BY <1>a, <1>b, <1>1 DEF OnLog
<1>2. ASSUME pc \notin Resting, NEW s \in Services, Handled(s),
             UNCHANGED <<lan, log, queue, pending, stale, leaked>>, nextId' >= nextId, nextId' \in Nat
      PROVE  LeakInv'
  <2>1. hand' \in Entry /\ hand'.id = hand.id /\ hand'.ip = hand.ip /\ hand' # None /\ hand # None /\ hand.id \in Nat
    BY <1>0, <1>2, HandleKeeps, EntryIsSome DEF Entry
  <2>2. \A id \in Nat : id < nextId => id < nextId'
    BY <1>0, <1>2
  <2> QED BY <1>0, <1>a, <1>b, <1>c, <1>2, <2>1, <2>2 DEF OnLog
<1>3. CASE TakeId
  <2>1. /\ hand = None /\ queue # <<>> /\ queue' = Tail(queue)
        /\ UNCHANGED <<lan, log, nextId, pending, stale, leaked>>
    BY <1>0, <1>3, TakeIdFrame DEF TakeId, Resting
  <2>2. Head(queue) \in ToSet(queue) /\ ToSet(queue') \subseteq ToSet(queue)
    BY <1>0, <2>1, ToSetOfPieces
  <2>3. CASE OnLog(Head(queue))
    <3>1. hand' = [id |-> Head(queue), ip |-> log[Head(queue)].ip, marks |-> log[Head(queue)].marks]
      BY <1>3, <2>3 DEF TakeId
    <3>2. hand'.id = Head(queue) /\ hand'.ip = log[Head(queue)].ip
      BY <3>1
    <3> QED BY <1>a, <1>b, <2>1, <2>2, <2>3, <3>2 DEF OnLog
  <2>4. CASE ~OnLog(Head(queue))
    <3>1. hand' = None
      BY <1>3, <2>1, <2>4 DEF TakeId
    <3> QED BY <1>a, <1>b, <2>1, <2>2, <3>1 DEF OnLog
  <2> QED BY <2>3, <2>4
<1>4. CASE Dshield
  <2>1. /\ pc = "dshield" /\ hand \in Entry /\ hand # None
        /\ UNCHANGED <<lan, log, nextId, queue, hand, stale, leaked>>
    BY <1>0, <1>4, DshieldFrame, EntryIsSome DEF Dshield, Resting
  <2>2. CASE UNCHANGED pending
    BY <1>1, <2>1, <2>2
  <2>3. CASE /\ pending' = Append(IF Full THEN Tail(pending) ELSE pending, hand.id)
             /\ hand.ip \notin lan
    <3>1. hand.id \in Nat
      BY <2>1 DEF Entry
    <3>2. ToSet(pending') \subseteq ToSet(pending) \cup {hand.id}
      <4>1. CASE Full
        <5>1. pending # <<>>
          BY <4>1, IntelAssumption DEF Full
        <5>2. Tail(pending) \in Seq(Nat) /\ ToSet(Tail(pending)) \subseteq ToSet(pending)
          BY <1>0, <5>1, ToSetOfPieces
        <5>3. ToSet(pending') = ToSet(Tail(pending)) \cup {hand.id}
          BY <2>3, <3>1, <4>1, <5>2, ToSetOfPieces
        <5> QED BY <5>2, <5>3
      <4>2. CASE ~Full
        BY <1>0, <2>3, <3>1, <4>2, ToSetOfPieces
      <4> QED BY <4>1, <4>2
    <3> QED BY <1>a, <1>b, <2>1, <2>3, <3>2 DEF OnLog
  <2> QED BY <1>4, <2>2, <2>3 DEF Dshield, Public
<1>5. CASE Update
  <2>1. /\ hand \in Entry /\ hand # None /\ hand' = None
        /\ UNCHANGED <<lan, nextId, queue, pending, stale, leaked>>
        /\ Put(hand.id, [ip |-> hand.ip, marks |-> hand.marks])
    BY <1>0, <1>5, UpdateFrame, EntryIsSome DEF Update, Resting
  <2>2. hand.id \in Nat /\ [ip |-> hand.ip, marks |-> hand.marks] \in Logged
    BY <2>1 DEF Entry, Logged
  <2>3. /\ log'[hand.id].ip = hand.ip /\ DOMAIN log' \subseteq DOMAIN log \cup {hand.id}
        /\ \A i \in DOMAIN log' : i # hand.id => log'[i] = log[i]
    BY <1>0, <2>1, <2>2, PutIs
  <2>4. ASSUME NEW id \in ToSet(pending) \ stale, id \in DOMAIN log' PROVE log'[id].ip \notin lan
    <3>1. CASE id = hand.id
      BY <1>a, <2>1, <2>3, <2>4, <3>1
    <3>2. CASE id # hand.id
      BY <1>a, <2>3, <2>4, <3>2 DEF OnLog
    <3> QED BY <3>1, <3>2
  <2> QED BY <1>a, <1>b, <2>1, <2>4
<1>6. CASE Drain
  <2>1. /\ hand = None /\ UNCHANGED <<lan, log, nextId, queue, hand>>
    BY <1>0, <1>6, DrainFrame DEF Drain, Resting
  <2>2. CASE UNCHANGED <<pending, stale, leaked>>
    BY <1>1, <2>1, <2>2
  <2>3. CASE Drop /\ UNCHANGED leaked
    <3>1. ToSet(pending') = {} /\ stale' = stale \cap ToSet(queue)
      BY <2>3, ToSetOfPieces DEF Drop
    <3> QED BY <1>a, <1>b, <2>1, <2>3, <3>1
  <2>4. CASE Post(Sendable)
    <3>1. leaked' = leaked \cup (AddressOf(ToSet(Sendable) \ stale) \cap lan) /\ UNCHANGED <<pending, stale>>
      BY <2>4 DEF Post
    <3>2. ToSet(Sendable) \subseteq ToSet(pending)
      BY <1>0, SendableIs
    <3>3. AddressOf(ToSet(Sendable) \ stale) \cap lan = {}
      BY <1>a, <3>2 DEF AddressOf, OnLog
    <3>4. UNCHANGED leaked
      BY <3>1, <3>3
    <3> QED BY <1>1, <2>1, <3>1, <3>4
  <2> QED BY <1>6, <2>2, <2>3, <2>4, DrainSends DEF batch
<1>7. CASE MarkSent
  <2>1. /\ hand = None /\ hand' = None /\ UNCHANGED <<lan, nextId, queue, leaked>> /\ marks # <<>>
    BY <1>0, <1>7, MarkSentFrame DEF MarkSent, Resting
  <2>2. \A id \in DOMAIN log' : id \in DOMAIN log /\ log'[id].ip = log[id].ip
    <3> DEFINE h == Head(marks)
    <3>1. CASE OnLog(h)
      <4> DEFINE e == [log[h] EXCEPT !.marks = @ \cup {"dshield"}]
      <4>1. h \in Nat
        BY <1>0, <2>1, ToSetOfPieces
      <4>2. e \in Logged /\ e.ip = log[h].ip
        BY <1>0, <3>1, ServicesAre DEF OnLog, LogOK, Logged
      <4>3. Put(h, e)
        BY <1>7, <3>1 DEF MarkSent
      <4> HIDE DEF h, e
      <4>4. /\ DOMAIN log' \subseteq DOMAIN log \cup {h} /\ log'[h] = e
            /\ \A i \in DOMAIN log' : i # h => log'[i] = log[i]
        BY <1>0, <4>1, <4>2, <4>3, PutIs
      <4> QED BY <3>1, <4>2, <4>4 DEF OnLog
    <3>2. CASE ~OnLog(h)
      BY <1>7, <3>2 DEF MarkSent
    <3> QED BY <3>1, <3>2
  <2>3. CASE UNCHANGED <<pending, stale>>
    BY <1>a, <1>b, <2>1, <2>2, <2>3 DEF OnLog
  <2>4. CASE Drop
    <3>1. ToSet(pending') = {} /\ stale' = stale \cap ToSet(queue)
      BY <2>4, ToSetOfPieces DEF Drop
    <3> QED BY <1>a, <1>b, <2>1, <3>1
  <2> QED BY <1>7, <2>3, <2>4 DEF MarkSent
<1>8. ASSUME NEW ip \in Ips, Capture(ip) PROVE LeakInv'
  <2>1. /\ Put(nextId, [ip |-> ip, marks |-> {}]) /\ UNCHANGED <<lan, hand, pending, stale, leaked>>
        /\ queue' = (IF Len(queue) < QueueLen THEN Append(queue, nextId) ELSE queue)
        /\ nextId' = nextId + 1
    BY <1>8, CaptureFrame DEF Capture
  <2>2. [ip |-> ip, marks |-> {}] \in Logged
    BY DEF Logged
  <2>3. /\ DOMAIN log' \subseteq DOMAIN log \cup {nextId}
        /\ \A i \in DOMAIN log' : i # nextId => log'[i] = log[i]
    BY <1>0, <2>1, <2>2, PutIs
  <2>4. ToSet(queue') \subseteq ToSet(queue) \cup {nextId}
    BY <1>0, <2>1, ToSetOfPieces
  <2>5. \A id \in Nat : id < nextId => id < nextId' /\ id # nextId
    BY <1>0, <2>1
  <2>6. nextId < nextId'
    BY <1>0, <2>1
  <2>7. hand # None => hand.id \in Nat
    BY <1>0 DEF Entry
  <2>8. /\ \A id \in ToSet(pending') \ stale' : id < nextId'
        /\ \A id \in ToSet(queue') \ stale' : id < nextId'
        /\ hand' # None /\ hand'.id \notin stale' => hand'.id < nextId'
    BY <1>0, <1>a, <1>c, <2>1, <2>4, <2>5, <2>6, <2>7
  <2>9. hand' # None /\ hand'.id \notin stale' /\ hand'.id \in DOMAIN log' => log'[hand'.id].ip = hand'.ip
    BY <1>a, <2>1, <2>3, <2>5, <2>7 DEF OnLog
  <2>10. \A id \in ToSet(pending') \ stale' : id \in DOMAIN log' => log'[id].ip \notin lan'
    BY <1>0, <1>a, <1>c, <2>1, <2>3, <2>5 DEF OnLog
  <2> QED BY <1>a, <1>b, <2>1, <2>8, <2>9, <2>10
<1>9. CASE Clear
  <2>1. /\ log' = None /\ nextId' = 1 /\ UNCHANGED <<lan, hand, queue, pending, leaked>>
        /\ stale' = ToSet(pending) \cup ToSet(queue) \cup (IF hand = None THEN {} ELSE {hand.id})
    BY <1>9, ClearFrame DEF Clear
  <2> QED BY <1>a, <1>b, <2>1
<1>10. CASE Reboot
  <2>1. queue' = <<>> /\ pending' = <<>> /\ hand' = None /\ UNCHANGED <<lan, leaked>> /\ ToSet(<<>>) = {}
    BY <1>10, RebootFrame, ToSetOfPieces DEF Reboot
  <2> QED BY <1>a, <1>b, <2>1
<1>11. nextId >= nextId
  BY <1>0
<1>12. CASE GeoIp
  BY <1>0, <1>2, <1>11, <1>12, StageHands, GeoIpFrame, ServicesAre DEF Resting
<1>13. CASE Abuse
  BY <1>0, <1>2, <1>11, <1>13, StageHands, AbuseFrame, ServicesAre DEF Resting
<1>14. CASE Patch
  BY <1>0, <1>2, <1>11, <1>14, StageHands, PatchFrame, ServicesAre DEF Resting
<1>15. CASE Hub
  BY <1>2, <1>15, StageHands, HubFrame, HubIs, ServicesAre DEF Resting
<1>16. CASE UNCHANGED vars
  BY <1>1, <1>16 DEF vars, opts, task, batch
<1> QED BY <1>1, <1>3, <1>4, <1>5, <1>6, <1>7, <1>8, <1>9, <1>10, <1>12, <1>13, <1>14, <1>15, <1>16,
           TimeOutFrame, OtxFrame, SaveFrame, TickFrame, RenameFrame, PulseDeletedFrame DEF Next, TaskStep

(* DShield is told of what it is owed and of nothing else: an address its  *)
(* cooldown silences is in the batch or in hand until a request has taken  *)
(* it, and none of the local network is sent (intel_report_dshield,        *)
(* intel_dshield_drain_).                                                  *)
THEOREM DshieldIsTold == Spec => []DshieldTold
<1>1. Spec => []OwedInv
  BY TypesHold, OwedInit, OwedStep, PTL DEF Spec
<1>2. Spec => []LeakInv
  BY TypesHold, LeakInit, LeakStep, PTL DEF Spec
<1>3. OwedInv /\ LeakInv => DshieldTold
  BY DEF OwedInv, LeakInv, DshieldTold
<1> QED BY <1>1, <1>2, <1>3, PTL


(***************************************************************************)
(* Pulses are accounted for. Memory holds what the flash holds, except     *)
(* between the two writes of a pulse; a pulse is known when the next       *)
(* report would find it under the configured name, or is about to.         *)
(***************************************************************************)
InStep     == ram.pid # 0 /\ pc # "save" => ram = nvs
Known      == nvs.pid # 0 /\ (nvs.name = name \/ pc = "save")
PulseBooks == /\ Known => created <= excused + 1
              /\ ~Known => created <= excused
PulseInv   == InStep /\ PulseBooks

LEMMA PulseInit == Init => PulseInv
BY DEF Init, PulseInv, InStep, PulseBooks, Known, NoPulse

LEMMA PulseStep == TypeInv /\ PulseInv /\ [Next]_vars => PulseInv'
<1> SUFFICES ASSUME TypeInv, PulseInv, [Next]_vars PROVE PulseInv'
  OBVIOUS
<1>0. /\ created \in Nat /\ excused \in Nat /\ ram \in Pulse /\ nvs \in Pulse
      /\ created <= excused + 1
  BY DEF TypeInv, OtxOK, PulseInv, PulseBooks
<1>a. \A n : StageAfter(n) # "save"
  BY StageAfterIs, ServicesAre
<1>1. CASE UNCHANGED <<ram, nvs, name, created, excused>> /\ (pc' = "save" <=> pc = "save")
  BY <1>1 DEF PulseInv, InStep, PulseBooks, Known
<1>2. CASE Otx
  <2>1. pc = "otx" /\ UNCHANGED name
    BY <1>2, OtxFrame DEF Otx
  <2>2. CASE UNCHANGED otx /\ pc' = StageAfter(3)
    BY <1>1, <1>a, <2>1, <2>2 DEF otx
  <2>3. CASE ram' = Loaded /\ Ensure
    <3>1. Loaded = nvs
      BY <2>1 DEF PulseInv, InStep, Loaded
    <3>2. Known <=> nvs.pid # 0 /\ nvs.name = name
      BY <2>1 DEF Known
    <3>3. CASE UNCHANGED <<nvs, created, excused>> /\ pc' # "save"
      BY <2>1, <2>3, <3>1, <3>3 DEF PulseInv, InStep, PulseBooks, Known
    <3>4. CASE Create /\ ~Known
      <4>1. created <= excused
        BY <3>4 DEF PulseInv, PulseBooks
      <4>2. CASE /\ created' = created + 1 /\ nvs' = [nvs EXCEPT !.pid = created'] /\ pc' = "save"
                 /\ UNCHANGED excused
        <5>1. nvs'.pid = created' /\ created' # 0 /\ created' <= excused' + 1
          BY <1>0, <4>1, <4>2 DEF Pulse
        <5>2. Known'
          BY <4>2, <5>1 DEF Known
        <5> QED BY <4>2, <5>1, <5>2 DEF PulseInv, InStep, PulseBooks
      <4>3. CASE created' = created + 1 /\ excused' = excused + 1 /\ pc' = StageAfter(3) /\ UNCHANGED nvs
        <5>1. created' <= excused' /\ created' <= excused' + 1
          BY <1>0, <4>1, <4>3
        <5>2. ram' = nvs'
          BY <2>3, <3>1, <4>3
        <5> QED BY <5>1, <5>2 DEF PulseInv, InStep, PulseBooks
      <4>4. CASE UNCHANGED <<created, excused, nvs>> /\ pc' = StageAfter(3)
        BY <1>a, <3>3, <4>4
      <4> QED BY <3>4, <4>2, <4>3, <4>4 DEF Create
    <3> QED BY <1>a, <2>3, <3>1, <3>2, <3>3, <3>4 DEF Ensure
  <2> QED BY <1>2, <2>2, <2>3 DEF Otx
<1>3. CASE Save
  <2>1. /\ pc = "save" /\ nvs' = [nvs EXCEPT !.name = IF nvs.pid = 0 THEN "none" ELSE name]
        /\ ram' = nvs' /\ UNCHANGED <<name, created, excused>> /\ pc' # "save"
    BY <1>3, <1>a, SaveFrame DEF Save
  <2>2. nvs'.pid = nvs.pid /\ (nvs.pid # 0 => nvs'.name = name)
    BY <1>0, <2>1 DEF Pulse
  <2>3. Known' <=> Known
    BY <2>1, <2>2 DEF Known
  <2> QED BY <2>1, <2>3 DEF PulseInv, InStep, PulseBooks
<1>4. CASE Patch
  <2>1. pc = "patch" /\ UNCHANGED <<ram, name, created>>
    BY <1>4, PatchFrame DEF Patch
  <2>2. CASE UNCHANGED <<nvs, excused>> /\ pc' = StageAfter(3)
    BY <1>1, <1>a, <2>1, <2>2
  <2>3. CASE nvs' = [nvs EXCEPT !.pid = 0] /\ pc' = "save" /\ excused' = excused + 1
    <3>1. nvs'.pid = 0 /\ created' <= excused'
      BY <1>0, <2>1, <2>3 DEF Pulse
    <3> QED BY <2>3, <3>1 DEF PulseInv, InStep, PulseBooks, Known
  <2> QED BY <1>4, <2>2, <2>3 DEF Patch
<1>5. CASE Rename
  <2>1. excused' = excused + 1 /\ UNCHANGED <<ram, nvs, created, pc>>
    BY <1>5, RenameFrame DEF Rename
  <2>2. created' <= excused' /\ created' <= excused' + 1
    BY <1>0, <2>1
  <2>3. InStep'
    BY <2>1 DEF PulseInv, InStep
  <2> QED BY <2>2, <2>3 DEF PulseInv, PulseBooks
<1>6. CASE Reboot
  <2>1. /\ ram' = NoPulse /\ pc' = "idle" /\ UNCHANGED <<nvs, name, created>>
        /\ excused' = excused + (IF pc = "save" THEN 1 ELSE 0)
    BY <1>6, RebootFrame DEF Reboot
  <2>2. InStep'
    BY <2>1 DEF InStep, NoPulse
  <2>3. CASE pc = "save"
    <3>1. created' <= excused' /\ created' <= excused' + 1
      BY <1>0, <2>1, <2>3
    <3> QED BY <2>2, <3>1 DEF PulseInv, PulseBooks
  <2>4. CASE pc # "save"
    <3>1. UNCHANGED excused
      BY <1>0, <2>1, <2>4
    <3> QED BY <2>1, <2>2, <2>4, <3>1 DEF PulseInv, PulseBooks, Known
  <2> QED BY <2>3, <2>4
<1>7. CASE UNCHANGED vars
  BY <1>1, <1>7 DEF vars, otx, task
<1>8. ASSUME NEW ip \in Ips, Capture(ip) PROVE PulseInv'
  BY <1>1, <1>8, CaptureFrame
<1>9. CASE TakeId \/ TimeOut \/ GeoIp \/ Abuse \/ Dshield \/ Hub \/ Update \/ Drain \/ MarkSent
  <2>1. pc # "save" /\ pc' # "save"
    <3>1. CASE TakeId \/ TimeOut \/ Update
      BY <1>a, <3>1 DEF TakeId, TimeOut, Update
    <3>2. CASE GeoIp \/ Abuse \/ Dshield \/ Hub
      BY <1>a, <3>2 DEF GeoIp, Abuse, Dshield, Hub
    <3>3. CASE Drain
      BY <3>3, DrainSends DEF Drain, Post
    <3>4. CASE MarkSent
      BY <3>4 DEF MarkSent
    <3> QED BY <1>9, <3>1, <3>2, <3>3, <3>4
  <2> QED BY <1>1, <1>9, <2>1, TakeIdFrame, TimeOutFrame, GeoIpFrame, AbuseFrame, DshieldFrame, HubFrame,
             UpdateFrame, DrainFrame, MarkSentFrame
<1> QED BY <1>1, <1>2, <1>3, <1>4, <1>5, <1>6, <1>7, <1>8, <1>9, ClearFrame, TickFrame, PulseDeletedFrame
   DEF Next, TaskStep

(* However often the board starts, whatever answers are lost and whenever  *)
(* the power fails, a second pulse has a cause (otx_ensure_pulse_,         *)
(* otx_create_pulse_, otx_save_cache_).                                    *)
THEOREM PulsesAreAccounted == Spec => []OnePulse
<1>1. Spec => []PulseInv
  BY TypesHold, PulseInit, PulseStep, PTL DEF Spec
<1>2. TypeInv /\ PulseInv => OnePulse
  <2>1. TypeInv /\ PulseInv => created <= excused + 1 /\ created \in Nat /\ excused \in Nat
    BY DEF TypeInv, OtxOK, PulseInv, PulseBooks
  <2> QED BY <2>1 DEF OnePulse
<1> QED BY <1>1, <1>2, TypesHold, PTL

(***************************************************************************)
(* The hub heals the ids: from its answer on, the counter is past every    *)
(* row, because what the task still has to report was given out below it.  *)
(***************************************************************************)
LEMMA HealStep == TypeInv /\ LeakInv /\ HubHeals /\ [Next]_vars => HubHeals'
<1> SUFFICES ASSUME TypeInv, LeakInv, HubHeals, [Next]_vars PROVE HubHeals'
  OBVIOUS
<1>0. nextId \in Nat /\ hub \in SUBSET Nat
  BY DEF TypeInv, HubOK
<1>1. CASE UNCHANGED <<hub, healed, nextId>>
  BY <1>1 DEF HubHeals
<1>2. CASE Hub
  <2>1. /\ hand \in Entry /\ hand # None /\ nextId' \in Nat
        /\ hub' \in {hub, hub \cup {hand.id}}
        /\ \/ healed' = (healed /\ (hub' = hub \/ hand.id \notin stale)) /\ nextId' = nextId
           \/ healed' = TRUE /\ \A id \in hub \cup {hand.id} : nextId' > id
    BY <1>2, HubIs, EntryIsSome
  <2>2. hand.id \in Nat
    BY <2>1 DEF Entry
  <2>3. hand.id \notin stale => nextId > hand.id
    <3>1. hand.id \notin stale => hand.id < nextId
      BY <2>1 DEF LeakInv, IdsTaken, OnTheWay
    <3> QED BY <1>0, <2>2, <3>1
  <2>4. CASE healed' = TRUE /\ \A id \in hub \cup {hand.id} : nextId' > id
    BY <2>1, <2>4 DEF HubHeals
  <2>5. CASE healed' = (healed /\ (hub' = hub \/ hand.id \notin stale)) /\ nextId' = nextId
    BY <2>1, <2>3, <2>5 DEF HubHeals
  <2> QED BY <2>1, <2>4, <2>5
<1>3. ASSUME NEW ip \in Ips, Capture(ip) PROVE HubHeals'
  <2>1. nextId' = nextId + 1 /\ UNCHANGED <<hub, healed>>
    BY <1>3, CaptureFrame DEF Capture
  <2>2. \A id \in Nat : nextId > id => nextId' > id
    BY <1>0, <2>1
  <2> QED BY <1>0, <2>1, <2>2 DEF HubHeals
<1>4. CASE Clear
  BY <1>4 DEF Clear, HubHeals
<1>5. CASE Reboot
  <2>1. healed' = (healed /\ nextId' >= nextId) /\ UNCHANGED hub
    BY <1>5, RebootFrame DEF Reboot
  <2>2. nextId' \in Nat
    BY HubStep DEF HubOK
  <2>3. nextId' >= nextId => \A id \in Nat : nextId > id => nextId' > id
    BY <1>0, <2>2
  <2> QED BY <1>0, <2>1, <2>3 DEF HubHeals
<1>6. CASE UNCHANGED vars
  BY <1>1, <1>6 DEF vars, hubs
<1> QED BY <1>1, <1>2, <1>3, <1>4, <1>5, <1>6, TakeIdFrame, TimeOutFrame, GeoIpFrame, AbuseFrame,
           OtxFrame, SaveFrame, PatchFrame, DshieldFrame, UpdateFrame, DrainFrame, MarkSentFrame,
           TickFrame, RenameFrame, PulseDeletedFrame DEF Next, TaskStep

(* After the hub has answered, no attack gets an id it has a row for,      *)
(* evictions and late reports included, until a clear or a restart takes   *)
(* the counter back (bumpNextIdAtLeast).                                   *)
THEOREM HubHealsIds == Spec => []HubHeals
<1>1. Init => HubHeals
  BY DEF Init, HubHeals
<1>2. Spec => []LeakInv
  BY TypesHold, LeakInit, LeakStep, PTL DEF Spec
<1> QED BY <1>1, <1>2, HealStep, TypesHold, PTL DEF Spec

(***************************************************************************)
(* The clock that starts again at zero: what the millisecond counter shows *)
(* is the time since the start, as long as it has not wrapped in between.  *)
(***************************************************************************)
LEMMA WrapIs == Wrap \in Nat \ {0}
BY DnsAssumption

(* Millis and a stamp of this boot lie as far apart as their times.        *)
LEMMA SameEpochIs ==
    ASSUME now \in Nat, bootAt \in 1 .. now, NEW t \in bootAt .. now, SameEpoch(t)
    PROVE  /\ Millis - Stamp(t) = now - t
           /\ Stamp(t) \in Nat /\ Millis \in Nat /\ Stamp(t) < Wrap /\ Millis < Wrap
<1> DEFINE a == t - bootAt
           n == now - bootAt
<1>1. a \in Nat /\ n \in Nat /\ n - a = now - t
  OBVIOUS
<1>2. a \div Wrap = n \div Wrap
  BY DEF SameEpoch
<1>3. n - a = (n % Wrap) - (a % Wrap)
  <2> HIDE DEF a, n
  <2> QED BY <1>1, <1>2, WrapIs, SameTurn
<1>4. a % Wrap \in 0 .. (Wrap - 1) /\ n % Wrap \in 0 .. (Wrap - 1)
  <2> HIDE DEF a, n
  <2> QED BY <1>1, WrapIs, DivMod
<1>5. Stamp(t) = a % Wrap /\ Millis = n % Wrap
  BY DEF Stamp, Millis
<1> HIDE DEF a, n
<1>6. Millis - Stamp(t) = now - t
  BY <1>1, <1>3, <1>5
<1> QED BY <1>4, <1>5, <1>6, WrapIs

(* A deadline shows where it is, or wraps below what it is counted from.   *)
LEMMA DeadlineIs ==
    ASSUME now \in Nat, bootAt \in 1 .. now, NEW t \in bootAt .. now, NEW g \in Nat, g < Wrap
    PROVE  Stamp(t + g) = IF Stamp(t) + g < Wrap THEN Stamp(t) + g ELSE Stamp(t) + g - Wrap
<1> DEFINE a == t - bootAt
<1>1. a \in Nat /\ (t + g) - bootAt = a + g
  OBVIOUS
<1>2. (a + g) % Wrap = IF (a % Wrap) + g < Wrap THEN (a % Wrap) + g ELSE (a % Wrap) + g - Wrap
  <2> HIDE DEF a
  <2> QED BY <1>1, WrapIs, ModOfSum
<1>3. Stamp(t) = a % Wrap /\ Stamp(t + g) = (a + g) % Wrap
  BY <1>1 DEF Stamp
<1> HIDE DEF a
<1> QED BY <1>2, <1>3

(* Before the counter wraps for the first time.                            *)
LEMMA BeforeWrap ==
    ASSUME now \in Nat, bootAt \in 1 .. now, SameEpoch(bootAt) \/ now - bootAt < Wrap
    PROVE  Millis = now - bootAt /\ now - bootAt < Wrap /\ Stamp(bootAt) = 0
<1> DEFINE n == now - bootAt
<1>1. n \in Nat /\ bootAt - bootAt = 0
  OBVIOUS
<1>2. n < Wrap
  <2>1. CASE SameEpoch(bootAt)
    <3>1. 0 \div Wrap = n \div Wrap
      BY <1>1, <2>1 DEF SameEpoch
    <3> HIDE DEF n
    <3> QED BY <1>1, <3>1, WrapIs, FirstTurn
  <2>2. CASE now - bootAt < Wrap
    BY <2>2
  <2> QED BY <2>1, <2>2
<1>3. n % Wrap = n /\ 0 % Wrap = 0
  <2> HIDE DEF n
  <2> QED BY <1>1, <1>2, WrapIs, FirstTurn
<1> QED BY <1>1, <1>2, <1>3 DEF Stamp, Millis

(* An answer of the name cache is fresh: by the shape of the clock alone.  *)
LEMMA FreshFromClock == ClockOK => AnswerFresh
<1> SUFFICES ASSUME ClockOK, NEW h \in DOMAIN dns, SameEpoch(dns[h].at)
             PROVE  /\ Cached(h) => now - dns[h].at < PositiveTtl
                    /\ Suppressed(h) => now - dns[h].at < NegativeTtl
  BY DEF AnswerFresh
<1> DEFINE t == dns[h].at
<1>1. now \in Nat /\ bootAt \in 1 .. now /\ t \in bootAt .. now
  BY DEF ClockOK, DnsOK
<1>2. /\ Millis - Stamp(t) = now - t
      /\ Stamp(t) \in Nat /\ Millis \in Nat /\ Stamp(t) < Wrap /\ Millis < Wrap
  <2> HIDE DEF t
  <2>1. SameEpoch(t)
    BY DEF t
  <2> QED BY <1>1, <2>1, SameEpochIs
<1>3. ASSUME NEW g \in Nat, g < Wrap, Millis < Stamp(t + g) PROVE now - t < g
  <2> HIDE DEF t
  <2>1. Stamp(t + g) = IF Stamp(t) + g < Wrap THEN Stamp(t) + g ELSE Stamp(t) + g - Wrap
    BY <1>1, <1>3, DeadlineIs
  <2>2. now - t \in Int
    BY <1>1
  <2> DEFINE m == Millis
             s == Stamp(t)
             d == now - t
  <2>3. m - s = d /\ m \in Nat /\ s \in Nat /\ d \in Int
        /\ m < (IF s + g < Wrap THEN s + g ELSE s + g - Wrap)
    BY <1>2, <1>3, <2>1, <2>2
  <2> HIDE DEF m, s, d
  <2>4. d < g
    BY <1>3, <2>3, WrapIs
  <2> QED BY <2>4 DEF d
<1>4. Cached(h) => Millis < Stamp(t + PositiveTtl)
  BY DEF Cached, Before, Expires
<1>5. Suppressed(h) => Millis < Stamp(t + NegativeTtl)
  BY DEF Suppressed, Before, FailUntil
<1> QED BY <1>3, <1>4, <1>5, DnsAssumption

(***************************************************************************)
(* A service is not told again too soon. What it was told is what the      *)
(* table says, as long as the table has the address; a request for a pulse *)
(* is under way only while the address is not cooling.                     *)
(***************************************************************************)
ToldIsCd == /\ DOMAIN told = Limited
            /\ \A s \in {"abuse", "otx"} : \A ip \in DOMAIN told[s] :
                  ip \in DOMAIN cd[s] /\ cd[s][ip] = told[s][ip]
Asked    == pc \in {"save", "patch"} => ~Cooling("otx", hand.ip)
SpacedInv == ToldIsCd /\ Asked

LEMMA SpacedInit == Init => SpacedInv
<1> SUFFICES ASSUME Init PROVE SpacedInv
  OBVIOUS
<1>1. DOMAIN <<>> = {}
  OBVIOUS
<1>2. told = [s \in Limited |-> <<>>] /\ pc = "idle"
  BY DEF Init, None
<1>3. \A s \in {"abuse", "otx"} : DOMAIN told[s] = {}
  BY <1>1, <1>2 DEF Limited
<1> QED BY <1>2, <1>3 DEF SpacedInv, ToldIsCd, Asked

(* An acknowledged report, in the table and in the history.                *)
LEMMA AcknowledgedIs ==
    ASSUME TypeInv, ToldIsCd, NEW s \in {"abuse", "otx"}, hand \in Entry, Acknowledged(s),
           UNCHANGED <<now, bootAt>>
    PROVE  /\ ToldIsCd'
           /\ \A u \in {"abuse", "otx"} : \A ip \in DOMAIN told[u] \cap DOMAIN told'[u] :
                 told'[u][ip] # told[u][ip] => u = s /\ ip = hand.ip /\ told'[u][ip] = now
<1>1. Commit(s) /\ s \in Limited
  BY DEF Acknowledged, Limited
<1>2. /\ hand.ip \in DOMAIN cd'[s] /\ cd'[s][hand.ip] = now
      /\ \A x \in DOMAIN cd'[s] : x # hand.ip => x \in DOMAIN cd[s] /\ cd'[s][x] = cd[s][x]
      /\ \A u \in Limited : u # s => cd'[u] = cd[u]
  BY <1>1, CommitIs
<1> DEFINE row == [ip \in (DOMAIN told[s] \cap DOMAIN cd'[s]) \cup {hand.ip} |->
                      IF ip = hand.ip THEN now ELSE told[s][ip]]
<1>3. told' = [told EXCEPT ![s] = row]
  BY DEF Acknowledged
<1>4. /\ DOMAIN row = (DOMAIN told[s] \cap DOMAIN cd'[s]) \cup {hand.ip}
      /\ row[hand.ip] = now /\ \A ip \in DOMAIN row : ip # hand.ip => row[ip] = told[s][ip]
  OBVIOUS
<1> HIDE DEF row
<1>5. DOMAIN told' = Limited /\ told'[s] = row /\ \A u \in Limited : u # s => told'[u] = told[u]
  BY <1>1, <1>3 DEF ToldIsCd
<1>6. ASSUME NEW u \in {"abuse", "otx"}, NEW ip \in DOMAIN told'[u]
      PROVE  ip \in DOMAIN cd'[u] /\ cd'[u][ip] = told'[u][ip]
  <2>1. u \in Limited
    BY DEF Limited
  <2>2. CASE u # s
    BY <1>2, <1>5, <1>6, <2>1, <2>2 DEF ToldIsCd
  <2>3. CASE u = s /\ ip = hand.ip
    BY <1>2, <1>4, <1>5, <2>3
  <2>4. CASE u = s /\ ip # hand.ip
    <3>1. ip \in DOMAIN row /\ ip \in DOMAIN told[s] /\ ip \in DOMAIN cd'[s] /\ row[ip] = told[s][ip]
      BY <1>4, <1>5, <1>6, <2>4
    <3>2. cd'[s][ip] = cd[s][ip] /\ cd[s][ip] = told[s][ip]
      BY <1>2, <2>4, <3>1 DEF ToldIsCd
    <3> QED BY <1>5, <2>4, <3>1, <3>2
  <2> QED BY <2>2, <2>3, <2>4
<1>7. ASSUME NEW u \in {"abuse", "otx"}, NEW ip \in DOMAIN told[u] \cap DOMAIN told'[u],
             told'[u][ip] # told[u][ip]
      PROVE  u = s /\ ip = hand.ip /\ told'[u][ip] = now
  <2>1. u \in Limited
    BY DEF Limited
  <2>2. u = s
    BY <1>5, <1>7, <2>1
  <2>3. ip = hand.ip
    BY <1>4, <1>5, <1>7, <2>2
  <2> QED BY <1>4, <1>5, <2>2, <2>3
<1> QED BY <1>5, <1>6, <1>7 DEF ToldIsCd

LEMMA SpacedStep == TypeInv /\ SpacedInv /\ [Next]_vars => SpacedInv'
<1> SUFFICES ASSUME TypeInv, SpacedInv, [Next]_vars PROVE SpacedInv'
  OBVIOUS
<1>0. /\ pc \notin Resting => hand \in Entry
      /\ ToldIsCd /\ (pc \in {"save", "patch"} => ~Cooling("otx", hand.ip))
  BY DEF TypeInv, HandOK, SpacedInv, Asked
<1>a. \A n : StageAfter(n) \notin {"save", "patch"}
  BY StageAfterIs, ServicesAre
<1>1. CASE UNCHANGED <<now, bootAt, cd, told, pc, hand>>
  BY <1>1 DEF SpacedInv, ToldIsCd, Asked, Cooling, Millis, Stamp
<1>2. CASE UNCHANGED <<cd, told>> /\ pc' \notin {"save", "patch"}
  BY <1>2 DEF SpacedInv, ToldIsCd, Asked
<1>3. CASE Abuse
  <2>1. /\ pc = "abuse" /\ pc' \notin {"save", "patch"} /\ UNCHANGED <<now, bootAt>>
        /\ Acknowledged("abuse") \/ UNCHANGED <<cd, told>>
    BY <1>3, <1>a, AbuseFrame DEF Abuse
  <2>2. CASE Acknowledged("abuse")
    <3>1. hand \in Entry
      BY <1>0, <2>1 DEF Resting
    <3>2. ToldIsCd'
      BY <1>0, <2>1, <2>2, <3>1, AcknowledgedIs
    <3> QED BY <2>1, <3>2 DEF SpacedInv, Asked
  <2> QED BY <1>2, <2>1, <2>2
<1>4. CASE Otx
  <2>1. UNCHANGED <<now, bootAt, cd, told, hand>>
    BY <1>4, OtxFrame
  <2>2. CASE Public("otx")
    <3>1. ~Cooling("otx", hand.ip)
      BY <2>2 DEF Public
    <3> QED BY <2>1, <3>1 DEF SpacedInv, ToldIsCd, Asked, Cooling, Millis, Stamp
  <2>3. CASE ~Public("otx")
    BY <1>2, <1>4, <1>a, <2>1, <2>3 DEF Otx
  <2> QED BY <2>2, <2>3
<1>5. CASE Save
  <2>1. UNCHANGED <<now, bootAt, cd, told, hand>> /\ pc = "save"
    BY <1>5, SaveFrame DEF Save
  <2> QED BY <1>0, <2>1 DEF SpacedInv, ToldIsCd, Asked, Cooling, Millis, Stamp
<1>6. CASE Patch
  <2>1. pc = "patch" /\ UNCHANGED <<now, bootAt>>
    BY <1>6, PatchFrame DEF Patch
  <2>2. CASE Acknowledged("otx") /\ pc' = StageAfter(3)
    <3>1. hand \in Entry
      BY <1>0, <2>1 DEF Resting
    <3>2. ToldIsCd'
      BY <1>0, <2>1, <2>2, <3>1, AcknowledgedIs
    <3> QED BY <1>a, <2>2, <3>2 DEF SpacedInv, Asked
  <2>3. CASE UNCHANGED <<hand, kept, cd, told>>
    BY <1>0, <2>1, <2>3 DEF SpacedInv, ToldIsCd, Asked, Cooling, Millis, Stamp
  <2> QED BY <1>6, <2>2, <2>3 DEF Patch
<1>7. CASE Dshield
  <2>1. pc = "dshield" /\ pc' \notin {"save", "patch"} /\ UNCHANGED <<now, bootAt, told>>
    BY <1>7, <1>a, DshieldFrame DEF Dshield
  <2>2. CASE Commit("dshield")
    <3>1. hand \in Entry /\ "dshield" \in Limited
      BY <1>0, <2>1 DEF Resting, Limited
    <3>2. \A u \in Limited : u # "dshield" => cd'[u] = cd[u]
      BY <2>1, <2>2, <3>1, CommitIs
    <3>3. cd'["abuse"] = cd["abuse"] /\ cd'["otx"] = cd["otx"]
      BY <3>2 DEF Limited
    <3> QED BY <1>0, <2>1, <3>3 DEF SpacedInv, ToldIsCd, Asked
  <2>3. CASE UNCHANGED cd
    BY <1>2, <2>1, <2>3
  <2> QED BY <1>7, <2>2, <2>3 DEF Dshield
<1>8. CASE Tick
  <2>1. UNCHANGED <<cd, told, pc>> /\ pc \notin {"save", "patch"}
    BY <1>8, TickFrame DEF Tick
  <2> QED BY <1>2, <2>1
<1>9. CASE Reboot
  <2>1. told' = [s \in Limited |-> <<>>] /\ pc' = "idle" /\ DOMAIN <<>> = {}
    BY <1>9 DEF Reboot, None
  <2>2. DOMAIN told' = Limited /\ \A s \in {"abuse", "otx"} : DOMAIN told'[s] = {}
    BY <2>1 DEF Limited
  <2> QED BY <2>1, <2>2 DEF SpacedInv, ToldIsCd, Asked
<1>10. CASE TakeId \/ TimeOut \/ GeoIp \/ Hub \/ Update \/ Drain \/ MarkSent
  <2>1. pc' \notin {"save", "patch"}
    <3>1. CASE TakeId \/ TimeOut \/ Update
      BY <1>a, <3>1 DEF TakeId, TimeOut, Update
    <3>2. CASE GeoIp \/ Hub
      BY <1>a, <3>2 DEF GeoIp, Hub
    <3>3. CASE Drain
      BY <3>3, DrainSends DEF Drain, Post
    <3>4. CASE MarkSent
      BY <3>4 DEF MarkSent
    <3> QED BY <1>10, <3>1, <3>2, <3>3, <3>4
  <2> QED BY <1>2, <1>10, <2>1, TakeIdFrame, TimeOutFrame, GeoIpFrame, HubFrame, UpdateFrame, DrainFrame,
             MarkSentFrame
<1>11. CASE UNCHANGED vars
  BY <1>1, <1>11 DEF vars, clock, task
<1>12. ASSUME NEW ip \in Ips, Capture(ip) PROVE SpacedInv'
  BY <1>1, <1>12, CaptureFrame
<1> QED BY <1>1, <1>3, <1>4, <1>5, <1>6, <1>7, <1>8, <1>9, <1>10, <1>11, <1>12, ClearFrame, RenameFrame,
           PulseDeletedFrame DEF Next, TaskStep

(* What is not cooling, within one turn of the clock, is old enough.       *)
LEMMA NotCooling ==
    ASSUME TypeInv, NEW s \in Limited, NEW ip \in DOMAIN cd[s], ~Cooling(s, ip), SameEpoch(cd[s][ip])
    PROVE  now - cd[s][ip] >= Period[s]
<1> DEFINE t == cd[s][ip]
<1>1. now \in Nat /\ bootAt \in 1 .. now /\ t \in bootAt .. now
  BY DEF TypeInv, ClockOK, CdOK
<1>2. Millis - Stamp(t) = now - t /\ Stamp(t) \in Nat /\ Millis \in Nat
  <2> HIDE DEF t
  <2>1. SameEpoch(t)
    BY DEF t
  <2> QED BY <1>1, <2>1, SameEpochIs
<1>3. ~(Millis >= Stamp(t) /\ Millis - Stamp(t) < Period[s])
  BY DEF Cooling
<1>4. Period[s] \in Nat
  BY IntelAssumption
<1> HIDE DEF t
<1> DEFINE m == Millis
           st == Stamp(t)
           p == Period[s]
<1>5. m \in Nat /\ st \in Nat /\ p \in Nat /\ m - st = now - t /\ ~(m >= st /\ m - st < p)
  BY <1>2, <1>3, <1>4
<1> HIDE DEF m, st, p
<1>6. now - t >= p
  BY <1>1, <1>5
<1> QED BY <1>6 DEF t, p

(* One step keeps the cooldown between two reports of an address.          *)
LEMMA ReportStep ==
    ASSUME TypeInv, SpacedInv, [Next]_vars, NEW s \in {"abuse", "otx"},
           NEW ip \in DOMAIN told[s] \cap DOMAIN told'[s],
           told'[s][ip] # told[s][ip], SameEpoch(told[s][ip])
    PROVE  told'[s][ip] - told[s][ip] >= Period[s]
<1>0. s \in Limited /\ ip \in DOMAIN cd[s] /\ cd[s][ip] = told[s][ip]
  BY DEF SpacedInv, ToldIsCd, Limited
<1>1. ASSUME told'[s][ip] = now, ~Cooling(s, ip) PROVE told'[s][ip] - told[s][ip] >= Period[s]
  BY <1>0, <1>1, NotCooling
<1>2. CASE Abuse
  <2>1. /\ Acknowledged("abuse") /\ Public("abuse") /\ hand \in Entry /\ UNCHANGED <<now, bootAt>>
    <3>1. pc = "abuse" /\ UNCHANGED <<now, bootAt>>
      BY <1>2, AbuseFrame DEF Abuse
    <3>2. hand \in Entry
      BY <3>1 DEF TypeInv, HandOK, Resting
    <3>3. told' # told
      OBVIOUS
    <3> QED BY <1>2, <3>1, <3>2, <3>3 DEF Abuse
  <2>2. s = "abuse" /\ ip = hand.ip /\ told'[s][ip] = now
    BY <2>1, AcknowledgedIs DEF SpacedInv
  <2> QED BY <1>1, <2>1, <2>2 DEF Public
<1>3. CASE Patch
  <2>1. /\ Acknowledged("otx") /\ pc = "patch" /\ hand \in Entry /\ UNCHANGED <<now, bootAt>>
    <3>1. pc = "patch" /\ UNCHANGED <<now, bootAt>>
      BY <1>3, PatchFrame DEF Patch
    <3>2. hand \in Entry
      BY <3>1 DEF TypeInv, HandOK, Resting
    <3>3. told' # told
      OBVIOUS
    <3> QED BY <1>3, <3>1, <3>2, <3>3 DEF Patch
  <2>2. s = "otx" /\ ip = hand.ip /\ told'[s][ip] = now
    BY <2>1, AcknowledgedIs DEF SpacedInv
  <2> QED BY <1>1, <2>1, <2>2 DEF SpacedInv, Asked
<1>4. CASE UNCHANGED told
  BY <1>4
<1>5. CASE Reboot
  <2>1. told' = [u \in Limited |-> <<>>] /\ DOMAIN <<>> = {}
    BY <1>5 DEF Reboot, None
  <2>2. DOMAIN told'[s] = {}
    BY <1>0, <2>1
  <2> QED BY <2>2
<1>6. CASE UNCHANGED vars
  BY <1>4, <1>6 DEF vars
<1>7. ASSUME NEW a \in Ips, Capture(a) PROVE UNCHANGED told
  BY <1>7 DEF Capture
<1> QED BY <1>2, <1>3, <1>4, <1>5, <1>6, <1>7, TakeIdFrame, TimeOutFrame, GeoIpFrame, OtxFrame, SaveFrame,
           DshieldFrame, HubFrame, UpdateFrame, DrainFrame, MarkSentFrame, ClearFrame, TickFrame,
           RenameFrame, PulseDeletedFrame DEF Next, TaskStep

(***************************************************************************)
(* The batch goes out once in a window. The window is counted from the     *)
(* last request of this start, or from the start, and the first request    *)
(* of a start comes when the first window is over.                         *)
(***************************************************************************)
WindowInv == /\ posted >= bootAt => window = posted
             /\ posted < bootAt => window = bootAt
             /\ posted > bootAt /\ posted - bootAt < Wrap => posted - bootAt >= DshieldGap

(* Before the counter wraps, what is due is a whole window after the start. *)
LEMMA DueSinceStart ==
    ASSUME TypeInv, WindowInv, Due, SameEpoch(bootAt) \/ now - bootAt < Wrap
    PROVE  now - bootAt >= DshieldGap
<1>1. /\ now \in Nat /\ bootAt \in 1 .. now /\ posted \in 0 .. now
      /\ DshieldGap \in Nat /\ DshieldGap < Wrap
  BY IntelAssumption DEF TypeInv, ClockOK, BatchOK
<1>2. Millis = now - bootAt /\ now - bootAt < Wrap /\ Stamp(bootAt) = 0
  BY <1>1, BeforeWrap
<1>3. CASE posted > bootAt
  BY <1>1, <1>2, <1>3, WrapIs DEF WindowInv
<1>4. CASE ~(posted > bootAt)
  <2>1. window = bootAt
    BY <1>1, <1>4 DEF WindowInv
  <2>2. bootAt \in bootAt .. now
    BY <1>1
  <2>3. Stamp(bootAt + DshieldGap) = IF Stamp(bootAt) + DshieldGap < Wrap
                                     THEN Stamp(bootAt) + DshieldGap ELSE Stamp(bootAt) + DshieldGap - Wrap
    BY <1>1, <2>2, DeadlineIs
  <2>4. Stamp(bootAt + DshieldGap) = DshieldGap
    BY <1>1, <1>2, <2>3, WrapIs
  <2>5. Millis >= Stamp(bootAt + DshieldGap)
    BY <2>1 DEF Due
  <2> QED BY <1>2, <2>4, <2>5
<1> QED BY <1>3, <1>4

LEMMA WindowInit == Init => WindowInv
BY DEF Init, WindowInv

(* When a request is made, the clock and the batch are as they were.       *)
LEMMA PostedMoves ==
    ASSUME TypeInv, [Next]_vars
    PROVE  \/ UNCHANGED <<bootAt, window, posted>>
           \/ Due /\ posted' = now /\ window' = now /\ UNCHANGED <<now, bootAt>>
           \/ Reboot
<1>1. CASE Drain
  <2>1. UNCHANGED <<now, bootAt>>
    BY <1>1, DrainFrame
  <2> QED BY <1>1, <2>1, DrainSends DEF Post, batch
<1>2. ASSUME NEW ip \in Ips, Capture(ip) PROVE UNCHANGED <<bootAt, window, posted>>
  BY <1>2, CaptureFrame
<1>3. CASE UNCHANGED vars
  BY <1>3 DEF vars, clock, batch
<1> QED BY <1>1, <1>2, <1>3, TakeIdFrame, TimeOutFrame, GeoIpFrame, AbuseFrame, OtxFrame, SaveFrame,
           PatchFrame, DshieldFrame, HubFrame, UpdateFrame, MarkSentFrame, ClearFrame, TickFrame,
           RenameFrame, PulseDeletedFrame DEF Next, TaskStep

LEMMA WindowStep == TypeInv /\ WindowInv /\ [Next]_vars => WindowInv'
<1> SUFFICES ASSUME TypeInv, WindowInv, [Next]_vars PROVE WindowInv'
  OBVIOUS
<1>0. now \in Nat /\ bootAt \in 1 .. now /\ posted \in 0 .. now
  BY DEF TypeInv, ClockOK, BatchOK
<1>1. CASE UNCHANGED <<bootAt, window, posted>>
  BY <1>1 DEF WindowInv
<1>2. CASE Due /\ posted' = now /\ window' = now /\ UNCHANGED <<now, bootAt>>
  <2>1. now - bootAt < Wrap => now - bootAt >= DshieldGap
    BY <1>2, DueSinceStart
  <2> QED BY <1>0, <1>2, <2>1 DEF WindowInv
<1>3. CASE Reboot
  <2>1. bootAt' = now /\ window' = now /\ UNCHANGED posted
    BY <1>3, RebootFrame DEF Reboot
  <2> QED BY <1>0, <2>1 DEF WindowInv
<1> QED BY <1>1, <1>2, <1>3, PostedMoves

LEMMA MaxOfTwo == ASSUME NEW a \in Int, NEW b \in Int PROVE Max({a, b}) = IF a >= b THEN a ELSE b
<1>1. CASE a >= b
  <2>1. \A x \in {a, b} : (\A y \in {a, b} : x >= y) <=> x = a
    BY <1>1
  <2> QED BY <1>1, <2>1 DEF Max
<1>2. CASE ~(a >= b)
  <2>1. \A x \in {a, b} : (\A y \in {a, b} : x >= y) <=> x = b
    BY <1>2
  <2> QED BY <1>2, <2>1 DEF Max
<1> QED BY <1>1, <1>2

(* One request keeps its distance from the last one and from the start.    *)
LEMMA RequestStep ==
    ASSUME TypeInv, WindowInv, [Next]_vars, posted' # posted, NEW t \in {posted, bootAt} \ {0}
    PROVE  \/ now - t >= DshieldGap
           \/ t >= bootAt /\ Stamp(t) + DshieldGap >= Wrap
           \/ ~SameEpoch(Max({t, bootAt}))
<1>0. /\ now \in Nat /\ bootAt \in 1 .. now /\ posted \in 0 .. now
      /\ DshieldGap \in Nat /\ DshieldGap < Wrap
  BY IntelAssumption DEF TypeInv, ClockOK, BatchOK
<1>1. Due
  <2>1. ~Reboot
    BY RebootFrame
  <2> QED BY <2>1, PostedMoves
<1>2. Max({t, bootAt}) = IF t >= bootAt THEN t ELSE bootAt
  BY <1>0, MaxOfTwo
<1>3. CASE t <= bootAt
  <2>1. Max({t, bootAt}) = bootAt
    BY <1>0, <1>2, <1>3
  <2>2. SameEpoch(bootAt) => now - bootAt >= DshieldGap
    BY <1>1, DueSinceStart
  <2>3. SameEpoch(bootAt) => now - t >= DshieldGap
    BY <1>0, <1>3, <2>2
  <2> QED BY <2>1, <2>3
<1>4. CASE t > bootAt
  <2>1. t = posted /\ window = t /\ t \in bootAt .. now /\ t >= bootAt
    BY <1>0, <1>4 DEF WindowInv
  <2>2. Max({t, bootAt}) = t
    BY <1>2, <2>1
  <2>3. ASSUME SameEpoch(t), ~(Stamp(t) + DshieldGap >= Wrap) PROVE now - t >= DshieldGap
    <3>1. Millis - Stamp(t) = now - t /\ Stamp(t) \in Nat /\ Millis \in Nat
      BY <1>0, <2>1, <2>3, SameEpochIs
    <3>2. Stamp(t + DshieldGap) = IF Stamp(t) + DshieldGap < Wrap
                                  THEN Stamp(t) + DshieldGap ELSE Stamp(t) + DshieldGap - Wrap
      BY <1>0, <2>1, DeadlineIs
    <3>3. Millis >= Stamp(t + DshieldGap)
      BY <1>1, <2>1 DEF Due
    <3> DEFINE m == Millis
               s == Stamp(t)
               d == now - t
               e == Stamp(t + DshieldGap)
    <3>4. /\ m \in Nat /\ s \in Nat /\ m - s = d /\ m >= e /\ ~(s + DshieldGap >= Wrap)
          /\ e = IF s + DshieldGap < Wrap THEN s + DshieldGap ELSE s + DshieldGap - Wrap
      BY <2>3, <3>1, <3>2, <3>3
    <3> HIDE DEF m, s, d, e
    <3>5. d >= DshieldGap
      BY <1>0, <3>4, WrapIs
    <3> QED BY <3>5 DEF d
  <2> QED BY <2>1, <2>2, <2>3
<1> QED BY <1>0, <1>3, <1>4

(* No service is told of an address again within its cooldown, DShield is  *)
(* asked at most once in a window and not in the first after a start, and  *)
(* a cached name is no older than it may be, on a clock that wraps         *)
(* (cooldown_check_, intel_dshield_drain_, dns_cache_resolve).             *)
THEOREM IntervalsAreKept == Spec => IntervalsKept
<1>1. Spec => []SpacedInv
  BY TypesHold, SpacedInit, SpacedStep, PTL DEF Spec
<1>2. Spec => []WindowInv
  BY TypesHold, WindowInit, WindowStep, PTL DEF Spec
<1>3. TypeInv /\ SpacedInv /\ [Next]_vars =>
        [\A s \in {"abuse", "otx"} : \A ip \in DOMAIN told[s] \cap DOMAIN told'[s] :
            told'[s][ip] # told[s][ip] /\ SameEpoch(told[s][ip])
               => told'[s][ip] - told[s][ip] >= Period[s]]_vars
  BY ReportStep
<1>4. TypeInv /\ WindowInv /\ [Next]_vars =>
        [posted' # posted => \A t \in {posted, bootAt} \ {0} :
            now - t >= DshieldGap \/ (t >= bootAt /\ Stamp(t) + DshieldGap >= Wrap)
              \/ ~SameEpoch(Max({t, bootAt}))]_vars
  BY RequestStep
<1>5. TypeInv => AnswerFresh
  BY FreshFromClock DEF TypeInv
<1>6. Spec => ReportsSpaced
  BY <1>1, <1>3, TypesHold, PTL DEF Spec, ReportsSpaced
<1>7. Spec => DshieldSpaced
  BY <1>2, <1>4, TypesHold, PTL DEF Spec, DshieldSpaced
<1>8. Spec => []AnswerFresh
  BY <1>5, TypesHold, PTL
<1> QED BY <1>6, <1>7, <1>8 DEF IntervalsKept

(***************************************************************************)
(* The events of a report: what the recursive functions of HubEvents give. *)
(***************************************************************************)

(* A recording, its line numbers, and an event of it.                      *)
Recording == Seq(Recorded)
Lines(cast) == 1 .. Len(cast)
Event(cast) == [k : {"i", "o"}, d : Seq(Lines(cast))]

(* f[n] is what the first n events send.                                   *)
SentBy(cast, events, f) ==
    /\ f \in [0 .. Len(events) -> Seq(Lines(cast))] /\ f[0] = <<>>
    /\ \A n \in 1 .. Len(events) : f[n] = f[n - 1] \o events[n].d

LEMMA SentIs ==
    ASSUME NEW cast \in Recording, NEW events \in Seq(Event(cast))
    PROVE  \E f : SentBy(cast, events, f) /\ Sent(events) = f[Len(events)]
<1> DEFINE L == Len(events)
           X == Seq(Lines(cast))
           Step(n, x) == x \o events[n].d
           F == CHOOSE f : f = [n \in 0 .. L |-> IF n = 0 THEN <<>> ELSE Step(n, f[n - 1])]
<1>1. Sent(events) = F[L]
  BY DEF Sent
<1>2. L \in Nat /\ \A n \in 1 .. L : events[n].d \in Seq(Lines(cast))
  <2>1. Len(events) \in Nat /\ \A n \in 1 .. Len(events) : events[n] \in Event(cast)
    BY LenProperties, ElementOfSeq
  <2>2. \A e \in Event(cast) : e.d \in Seq(Lines(cast))
    BY DEF Event
  <2> HIDE DEF F
  <2> QED BY <2>1, <2>2
<1>3. ASSUME NEW n \in 1 .. L, NEW x \in X PROVE Step(n, x) \in X
  BY <1>2, ConcatProperties
<1>4. <<>> \in X
  OBVIOUS
<1> HIDE DEF L, X, Step
<1>5. F = [n \in 0 .. L |-> IF n = 0 THEN <<>> ELSE Step(n, F[n - 1])] /\ F \in [0 .. L -> X]
  <2> DEFINE G == [t \in (1 .. L) \X X |-> Step(t[1], t[2])]
             e == <<>>
  <2>1. \A n \in 1 .. L, x \in X : G[<<n, x>>] = Step(n, x)
    OBVIOUS
  <2>2. G \in [(1 .. L) \X X -> X]
    BY <1>3
  <2> HIDE DEF G
  <2>3. L \in Nat /\ e \in X
    BY <1>2, <1>4
  <2> HIDE DEF e
  <2>4. PICK f : Follows(f, L, X, e, G)
    BY <2>2, <2>3, Recursion
  <2>5. /\ f \in [0 .. L -> X] /\ f[0] = <<>>
        /\ \A n \in 1 .. L : f[n] = G[<<n, f[n - 1]>>]
    BY <2>4 DEF Follows, e
  <2>6. ASSUME NEW n \in 0 .. L, n # 0 PROVE f[n] = Step(n, f[n - 1])
    <3>1. n \in 1 .. L /\ n - 1 \in 0 .. L
      BY <2>3, <2>6
    <3> QED BY <2>1, <2>5, <3>1
  <2>7. f = [n \in 0 .. L |-> IF n = 0 THEN <<>> ELSE Step(n, f[n - 1])]
    BY <2>5, <2>6
  <2>8. F = [n \in 0 .. L |-> IF n = 0 THEN <<>> ELSE Step(n, F[n - 1])]
    BY <2>7
  <2> HIDE DEF F
  <2>9. F[0] = f[0]
    BY <2>3, <2>5, <2>8
  <2>10. \A n \in 1 .. L : F[n - 1] = f[n - 1] => F[n] = f[n]
    BY <2>3, <2>6, <2>8
  <2>11. \A n \in 0 .. L : F[n] = f[n]
    <3>1. L \in Nat /\ GoAlike(F, f, L)
      BY <2>3, <2>9, <2>10 DEF GoAlike
    <3> QED BY <3>1, Alike
  <2> QED BY <2>5, <2>8, <2>11
<1> HIDE DEF F
<1>6. F[0] = <<>> /\ \A n \in 1 .. L : F[n] = Step(n, F[n - 1])
  BY <1>2, <1>5
<1>7. SentBy(cast, events, F)
  BY <1>5, <1>6 DEF SentBy, L, X, Step
<1> QED BY <1>1, <1>7 DEF L

(* So nothing is sent by no events, and an event more adds its lines.      *)
LEMMA SentGrows ==
    ASSUME NEW cast \in Recording, NEW events \in Seq(Event(cast))
    PROVE  /\ Sent(events) \in Seq(Lines(cast))
           /\ events = <<>> => Sent(events) = <<>>
           /\ \A e \in Event(cast) : Sent(Append(events, e)) = Sent(events) \o e.d
<1>1. PICK f : SentBy(cast, events, f) /\ Sent(events) = f[Len(events)]
  BY SentIs
<1>2. Len(events) \in Nat
  BY LenProperties
<1>3. Sent(events) \in Seq(Lines(cast))
  <2>1. Len(events) \in 0 .. Len(events)
    BY <1>2
  <2> QED BY <1>1, <2>1 DEF SentBy
<1>4. events = <<>> => Sent(events) = <<>>
  BY <1>1 DEF SentBy
<1>5. ASSUME NEW e \in Event(cast) PROVE Sent(Append(events, e)) = Sent(events) \o e.d
  <2> DEFINE more == Append(events, e)
  <2>1. /\ more \in Seq(Event(cast)) /\ Len(more) = Len(events) + 1
        /\ \A i \in 1 .. Len(events) : more[i] = events[i]
        /\ more[Len(events) + 1] = e
    BY AppendProperties
  <2> HIDE DEF more
  <2>2. PICK g : SentBy(cast, more, g) /\ Sent(more) = g[Len(more)]
    BY <2>1, SentIs
  <2>3. f[0] = g[0]
    BY <1>1, <2>2 DEF SentBy
  <2>4. \A n \in 1 .. Len(events) : f[n] = f[n - 1] \o events[n].d
    BY <1>1 DEF SentBy
  <2>5. \A n \in 1 .. Len(events) + 1 : g[n] = g[n - 1] \o more[n].d
    BY <2>1, <2>2 DEF SentBy
  <2>6. ASSUME NEW n \in 1 .. Len(events), f[n - 1] = g[n - 1] PROVE f[n] = g[n]
    <3>1. n \in 1 .. Len(events) + 1 /\ more[n] = events[n]
      BY <1>2, <2>1
    <3>2. f[n] = f[n - 1] \o events[n].d /\ g[n] = g[n - 1] \o more[n].d
      BY <2>4, <2>5, <3>1
    <3> QED BY <2>6, <3>1, <3>2
  <2>7. \A n \in 0 .. Len(events) : f[n] = g[n]
    <3> DEFINE L == Len(events)
    <3>1. L \in Nat /\ GoAlike(f, g, L)
      BY <1>2, <2>3, <2>6 DEF GoAlike
    <3> HIDE DEF L
    <3>2. \A n \in 0 .. L : f[n] = g[n]
      BY <3>1, Alike
    <3> QED BY <3>2 DEF L
  <2>8. f[Len(events)] = g[Len(events)]
    BY <1>2, <2>7
  <2>9. g[Len(events) + 1] = g[Len(events)] \o e.d
    <3> DEFINE k == Len(events) + 1
    <3>1. k \in 1 .. Len(events) + 1 /\ k - 1 = Len(events) /\ more[k] = e
      BY <1>2, <2>1
    <3> HIDE DEF k
    <3>2. g[k] = g[k - 1] \o more[k].d
      BY <2>5, <3>1
    <3>3. g[k] = g[Len(events)] \o e.d
      BY <3>1, <3>2
    <3> QED BY <3>3 DEF k
  <2> QED BY <1>1, <2>1, <2>2, <2>8, <2>9 DEF more
<1> QED BY <1>3, <1>4, <1>5

(* f[n] is the size of the first n lines.                                  *)
SizedBy(cast, lines, f) ==
    /\ f \in [0 .. Len(lines) -> Nat] /\ f[0] = 0
    /\ \A n \in 1 .. Len(lines) : f[n] = f[n - 1] + cast[lines[n]].len

LEMMA BytesIs ==
    ASSUME NEW cast \in Recording, NEW lines \in Seq(Lines(cast))
    PROVE  \E f : SizedBy(cast, lines, f) /\ Bytes(cast, lines) = f[Len(lines)]
<1> DEFINE L == Len(lines)
           Step(n, x) == x + cast[lines[n]].len
           F == CHOOSE f : f = [n \in 0 .. L |-> IF n = 0 THEN 0 ELSE Step(n, f[n - 1])]
<1>1. Bytes(cast, lines) = F[L]
  BY DEF Bytes
<1>2. L \in Nat /\ \A n \in 1 .. L : cast[lines[n]].len \in Nat
  <2>1. L \in Nat /\ \A n \in 1 .. L : lines[n] \in 1 .. Len(cast)
    BY LenProperties, ElementOfSeq DEF Lines
  <2>2. \A i \in 1 .. Len(cast) : cast[i] \in Recorded
    BY ElementOfSeq DEF Recording
  <2> QED BY <2>1, <2>2 DEF Recorded
<1>3. ASSUME NEW n \in 1 .. L, NEW x \in Nat PROVE Step(n, x) \in Nat
  BY <1>2
<1> HIDE DEF L, Step
<1>5. F = [n \in 0 .. L |-> IF n = 0 THEN 0 ELSE Step(n, F[n - 1])] /\ F \in [0 .. L -> Nat]
  <2> DEFINE G == [t \in (1 .. L) \X Nat |-> Step(t[1], t[2])]
  <2>1. \A n \in 1 .. L, x \in Nat : G[<<n, x>>] = Step(n, x)
    OBVIOUS
  <2>2. G \in [(1 .. L) \X Nat -> Nat]
    BY <1>3
  <2> HIDE DEF G
  <2>3. L \in Nat /\ 0 \in Nat
    BY <1>2
  <2>4. PICK f : Follows(f, L, Nat, 0, G)
    BY <2>2, <2>3, Recursion
  <2>5. /\ f \in [0 .. L -> Nat] /\ f[0] = 0
        /\ \A n \in 1 .. L : f[n] = G[<<n, f[n - 1]>>]
    BY <2>4 DEF Follows
  <2>6. ASSUME NEW n \in 0 .. L, n # 0 PROVE f[n] = Step(n, f[n - 1])
    <3>1. n \in 1 .. L /\ n - 1 \in 0 .. L
      BY <2>3, <2>6
    <3> QED BY <2>1, <2>5, <3>1
  <2>7. f = [n \in 0 .. L |-> IF n = 0 THEN 0 ELSE Step(n, f[n - 1])]
    BY <2>5, <2>6
  <2>8. F = [n \in 0 .. L |-> IF n = 0 THEN 0 ELSE Step(n, F[n - 1])]
    BY <2>7
  <2> HIDE DEF F
  <2>9. F[0] = f[0]
    BY <2>3, <2>5, <2>8
  <2>10. \A n \in 1 .. L : F[n - 1] = f[n - 1] => F[n] = f[n]
    BY <2>3, <2>6, <2>8
  <2>11. \A n \in 0 .. L : F[n] = f[n]
    <3>1. L \in Nat /\ GoAlike(F, f, L)
      BY <2>3, <2>9, <2>10 DEF GoAlike
    <3> QED BY <3>1, Alike
  <2> QED BY <2>5, <2>8, <2>11
<1> HIDE DEF F
<1>6. F[0] = 0 /\ \A n \in 1 .. L : F[n] = Step(n, F[n - 1])
  BY <1>2, <1>5
<1>7. SizedBy(cast, lines, F)
  BY <1>5, <1>6 DEF SizedBy, L, Step
<1> QED BY <1>1, <1>7 DEF L

(* So no lines have no bytes, and sizes add up.                            *)
LEMMA BytesAdd ==
    ASSUME NEW cast \in Recording, NEW s \in Seq(Lines(cast)), NEW t \in Seq(Lines(cast))
    PROVE  /\ Bytes(cast, s) \in Nat
           /\ s = <<>> => Bytes(cast, s) = 0
           /\ Bytes(cast, s \o t) = Bytes(cast, s) + Bytes(cast, t)
<1>1. PICK f : SizedBy(cast, s, f) /\ Bytes(cast, s) = f[Len(s)]
  BY BytesIs
<1>2. PICK g : SizedBy(cast, t, g) /\ Bytes(cast, t) = g[Len(t)]
  BY BytesIs
<1>3. /\ s \o t \in Seq(Lines(cast)) /\ Len(s \o t) = Len(s) + Len(t)
      /\ Len(s) \in Nat /\ Len(t) \in Nat
      /\ \A i \in 1 .. Len(s) : (s \o t)[i] = s[i]
      /\ \A i \in 1 .. Len(t) : (s \o t)[Len(s) + i] = t[i]
  BY ConcatProperties, LenProperties
<1> DEFINE u == s \o t
           a == Len(s)
           b == Len(t)
<1>4. PICK h : SizedBy(cast, u, h) /\ Bytes(cast, u) = h[Len(u)]
  BY <1>3, BytesIs
<1>5. /\ f \in [0 .. a -> Nat] /\ f[0] = 0
      /\ \A n \in 1 .. a : f[n] = f[n - 1] + cast[s[n]].len
  BY <1>1 DEF SizedBy
<1>6. /\ g \in [0 .. b -> Nat] /\ g[0] = 0
      /\ \A n \in 1 .. b : g[n] = g[n - 1] + cast[t[n]].len
  BY <1>2 DEF SizedBy
<1>7. /\ h \in [0 .. a + b -> Nat] /\ h[0] = 0
      /\ \A n \in 1 .. a + b : h[n] = h[n - 1] + cast[u[n]].len
  BY <1>3, <1>4 DEF SizedBy
<1>8. /\ a \in Nat /\ b \in Nat /\ Len(u) = a + b
      /\ \A i \in 1 .. a : u[i] = s[i]
      /\ \A i \in 1 .. b : u[a + i] = t[i]
  BY <1>3
<1> HIDE DEF u, a, b
<1>9. h[a] = f[a]
  <2>1. ASSUME NEW n \in 1 .. a, h[n - 1] = f[n - 1] PROVE h[n] = f[n]
    <3>0. a \in Nat /\ b \in Nat
      BY <1>8
    <3>1. n \in 1 .. a + b /\ u[n] = s[n]
      BY <1>8, <3>0
    <3>2. f[n] = f[n - 1] + cast[s[n]].len /\ h[n] = h[n - 1] + cast[u[n]].len
      BY <1>5, <1>7, <3>1
    <3> QED BY <2>1, <3>1, <3>2
  <2>2. h[0] = f[0] /\ a \in Nat
    <3>1. h[0] = 0 /\ f[0] = 0
      BY <1>5, <1>7
    <3> QED BY <1>8, <3>1
  <2>3. \A n \in 0 .. a : h[n] = f[n]
    <3>1. a \in Nat /\ GoAlike(h, f, a)
      BY <2>1, <2>2 DEF GoAlike
    <3> QED BY <3>1, Alike
  <2> QED BY <1>8, <2>3
<1>10. h[a + b] = f[a] + g[b]
  <2> DEFINE S == {n \in 0 .. b : h[a + n] = f[a] + g[n]}
  <2>1. 0 \in S
    BY <1>5, <1>6, <1>8, <1>9
  <2>2. ASSUME NEW n \in 1 .. b, n - 1 \in S PROVE n \in S
    <3> DEFINE c == cast[t[n]].len
    <3>0. h[a + (n - 1)] = f[a] + g[n - 1]
      BY <2>2
    <3>1. a + n \in 1 .. a + b /\ (a + n) - 1 = a + (n - 1) /\ n - 1 \in 0 .. b /\ n \in 0 .. b
          /\ u[a + n] = t[n]
      BY <1>8
    <3>2. h[a + n] = h[a + (n - 1)] + c
      <4>1. h[a + n] = h[(a + n) - 1] + cast[u[a + n]].len
        BY <1>7, <3>1
      <4> QED BY <3>1, <4>1
    <3>3. g[n] = g[n - 1] + c
      BY <1>6
    <3>4. c \in Nat
      <4>1. t[n] \in 1 .. Len(cast)
        BY ElementOfSeq DEF b, Lines
      <4>2. cast[t[n]] \in Recorded
        BY <4>1, ElementOfSeq DEF Recording
      <4> QED BY <4>2 DEF Recorded
    <3>5. f[a] \in Nat /\ g[n - 1] \in Nat
      BY <1>5, <1>6, <1>8, <3>1
    <3> HIDE DEF c
    <3>6. h[a + n] = f[a] + g[n]
      BY <3>0, <3>2, <3>3, <3>4, <3>5
    <3> QED BY <3>1, <3>6
  <2>3. \A n \in 0 .. b : n \in S
    <3> HIDE DEF S
    <3> QED BY <1>8, <2>1, <2>2, UpTo
  <2> QED BY <1>8, <2>3
<1>11. Bytes(cast, s) \in Nat /\ (s = <<>> => Bytes(cast, s) = 0)
  <2>1. s = <<>> => a = 0
    BY DEF a
  <2> QED BY <1>1, <1>5, <1>8, <2>1 DEF a
<1>12. Bytes(cast, u) = Bytes(cast, s) + Bytes(cast, t)
  BY <1>1, <1>2, <1>4, <1>8, <1>10 DEF a, b
<1> QED BY <1>11, <1>12 DEF u

(* A line more adds its own.                                               *)
LEMMA BytesGrow ==
    ASSUME NEW cast \in Recording, NEW s \in Seq(Lines(cast)), NEW n \in Lines(cast)
    PROVE  /\ Bytes(cast, <<n>>) = cast[n].len
           /\ Bytes(cast, Append(s, n)) = Bytes(cast, s) + cast[n].len
<1>1. <<n>> \in Seq(Lines(cast)) /\ Len(<<n>>) = 1 /\ <<n>>[1] = n
  OBVIOUS
<1>2. Bytes(cast, <<n>>) = cast[n].len
  <2>1. PICK f : SizedBy(cast, <<n>>, f) /\ Bytes(cast, <<n>>) = f[Len(<<n>>)]
    BY <1>1, BytesIs
  <2>2. cast[n].len \in Nat
    <3>1. cast[n] \in Recorded
      BY ElementOfSeq DEF Recording, Lines
    <3> QED BY <3>1 DEF Recorded
  <2>3. f[0] = 0 /\ \A i \in 1 .. 1 : f[i] = f[i - 1] + cast[<<n>>[i]].len
    BY <1>1, <2>1 DEF SizedBy
  <2>4. f[1] = f[1 - 1] + cast[<<n>>[1]].len
    BY <2>3
  <2>5. f[1] = 0 + cast[n].len
    BY <1>1, <2>3, <2>4
  <2> QED BY <1>1, <2>1, <2>2, <2>5
<1>3. Append(s, n) = s \o <<n>>
  BY AppendIsConcat
<1>4. Bytes(cast, s \o <<n>>) = Bytes(cast, s) + Bytes(cast, <<n>>)
  BY <1>1, BytesAdd
<1> QED BY <1>2, <1>3, <1>4
(***************************************************************************)
(* The loop of hub_build_events_, one line after the other.                *)
(***************************************************************************)
Built(cast) ==
    [events : Seq(Event(cast)), pending : Seq(Lines(cast)), k : {"i", "o", "none"},
     len : Nat, total : Nat, truncated : BOOLEAN, stop : BOOLEAN]

(* An event is lines of one turn; one of the same direction as the next    *)
(* one had no room for its first line.                                     *)
OneTurn(cast, e) ==
    /\ e.d # <<>> /\ Bytes(cast, e.d) <= MaxEventBytes
    /\ \A i \in 1 .. Len(e.d) : cast[e.d[i]].k = e.k
Turned(cast, e, k, n) == e.k = k => Bytes(cast, e.d) + cast[n].len > MaxEventBytes

EventsFit(cast, events) ==
    /\ Len(events) <= MaxEvents
    /\ \A n \in 1 .. Len(events) : OneTurn(cast, events[n])
    /\ \A n \in 1 .. Len(events) - 1 :
          Turned(cast, events[n], events[n + 1].k, Head(events[n + 1].d))

(* What is pending is an event to be.                                      *)
ToBe(b) == [k |-> b.k, d |-> b.pending]
PendingFits(cast, b) ==
    /\ b.len = Bytes(cast, b.pending)
    /\ b.pending = <<>> => b.k = "none" /\ b.events = <<>>
    /\ b.pending # <<>> => b.len > 0 /\ b.k # "none" /\ OneTurn(cast, ToBe(b))
    /\ b.pending # <<>> /\ b.events # <<>> /\ Len(b.events) < MaxEvents
         => Turned(cast, b.events[Len(b.events)], b.k, Head(b.pending))

(* No byte is counted less than once.                                      *)
Counted(cast, budget, b) ==
    Bytes(cast, Sent(b.events)) + b.len <= b.total /\ b.total <= budget

(* Of the lines t there were so far, all are sent or pending, or the report *)
(* is cut: for want of an event, with nothing to come after it, or of      *)
(* budget.                                                                 *)
Longer(cast, t, s) == \E u \in Seq(Lines(cast)) : u # <<>> /\ t = s \o u
Whole(cast, b, t) ==
    /\ ~b.truncated => ~b.stop /\ t = Sent(b.events) \o b.pending
    /\ b.truncated => \/ Len(b.events) = MaxEvents /\ Longer(cast, t, Sent(b.events))
                      \/ b.stop /\ Longer(cast, t, Sent(b.events) \o b.pending)

Kept(cast, budget, b, t) ==
    /\ b \in Built(cast) /\ t \in Seq(Lines(cast))
    /\ EventsFit(cast, b.events) /\ PendingFits(cast, b)
    /\ Counted(cast, budget, b) /\ Whole(cast, b, t)

(* A pending event, flushed.                                               *)
LEMMA FlushIs ==
    ASSUME NEW cast, NEW b \in Built(cast), b.len # 0 => b.k # "none"
    PROVE  /\ b.len = 0 => Flush(b) = b
           /\ b.len # 0 =>
                /\ Flush(b) \in Built(cast)
                /\ Flush(b).pending = <<>> /\ Flush(b).k = "none" /\ Flush(b).len = 0
                /\ Flush(b).total = b.total /\ Flush(b).stop = b.stop
                /\ Flush(b).truncated <=> b.truncated \/ ~(Len(b.events) < MaxEvents)
                /\ Flush(b).events = IF Len(b.events) < MaxEvents
                                     THEN Append(b.events, ToBe(b)) ELSE b.events
<1>1. CASE b.len = 0
  BY <1>1 DEF Flush
<1>2. CASE b.len # 0
  <2>1. /\ b.events \in Seq(Event(cast)) /\ b.pending \in Seq(Lines(cast))
        /\ b.k \in {"i", "o"} /\ b.truncated \in BOOLEAN
    BY <1>2 DEF Built
  <2>2. Len(b.events) \in Nat /\ MaxEvents \in Nat
    BY <2>1, LenProperties, EventsAssumption
  <2>3. ToBe(b) \in Event(cast)
    BY <2>1 DEF ToBe, Event
  <2>4. Append(b.events, ToBe(b)) \in Seq(Event(cast))
    BY <2>1, <2>3, AppendProperties
  <2> DEFINE full == Len(b.events) >= MaxEvents
             cut == b.truncated \/ full
             evs == IF full THEN b.events ELSE Append(b.events, ToBe(b))
             x == [b EXCEPT !.pending = <<>>, !.k = "none", !.len = 0,
                            !.truncated = cut, !.events = evs]
  <2>5. Flush(b) = x
    BY <1>2 DEF Flush, ToBe
  <2>6. full <=> ~(Len(b.events) < MaxEvents)
    BY <2>2
  <2>7. evs \in Seq(Event(cast)) /\ cut \in BOOLEAN
    BY <2>1, <2>4
  <2>8. evs = IF Len(b.events) < MaxEvents THEN Append(b.events, ToBe(b)) ELSE b.events
    BY <2>6
  <2>9. cut <=> b.truncated \/ ~(Len(b.events) < MaxEvents)
    BY <2>6
  <2> HIDE DEF full, cut, evs
  <2>10. /\ x.pending = <<>> /\ x.k = "none" /\ x.len = 0 /\ x.total = b.total /\ x.stop = b.stop
         /\ x.events = evs
    BY DEF Built
  <2>12. x \in Built(cast)
    <3>1. <<>> \in Seq(Lines(cast)) /\ "none" \in {"i", "o", "none"} /\ 0 \in Nat
      OBVIOUS
    <3>2. b \in Built(cast)
      OBVIOUS
    <3> QED BY <2>7, <3>1, <3>2, Zenon DEF Built
  <2>11. x.truncated <=> cut
    <3>1. "truncated" \in DOMAIN b
      BY DEF Built
    <3> QED BY <3>1, Zenon
  <2> HIDE DEF x
  <2> QED BY <1>2, <2>5, <2>8, <2>9, <2>10, <2>11, <2>12
<1> QED BY <1>1, <1>2

(* Whether a line is added to what is pending.                             *)
Joins(cast, b, n) ==
    b.pending = <<>> \/ (b.k = cast[n].k /\ b.len + cast[n].len <= MaxEventBytes)

(* What a line that parses and fits the budget does.                       *)
LEMMA ExtendIs ==
    ASSUME NEW cast \in Recording, NEW b \in Built(cast), PendingFits(cast, b),
           NEW n \in Lines(cast), Parses(cast[n])
    PROVE  LET x == Extend(b, cast, n) IN
           /\ x \in Built(cast) /\ x.k = cast[n].k /\ x.stop = b.stop
           /\ x.total = b.total + cast[n].len
           /\ Joins(cast, b, n) =>
                /\ x.events = b.events /\ (x.truncated <=> b.truncated)
                /\ x.pending = Append(b.pending, n) /\ x.len = b.len + cast[n].len
           /\ ~Joins(cast, b, n) =>
                /\ x.pending = <<n>> /\ x.len = cast[n].len
                /\ x.truncated <=> b.truncated \/ ~(Len(b.events) < MaxEvents)
                /\ x.events = IF Len(b.events) < MaxEvents
                              THEN Append(b.events, ToBe(b)) ELSE b.events
<1> DEFINE line == cast[n]
           turned == IF b.k \notin {"none", line.k} THEN Flush(b) ELSE b
           room == IF turned.len + line.len > MaxEventBytes THEN Flush(turned) ELSE turned
           x == [room EXCEPT !.pending = Append(@, n), !.k = line.k,
                             !.len = @ + line.len, !.total = @ + line.len]
<1>1. Extend(b, cast, n) = x
  BY DEF Extend
<1>2. line.k \in {"i", "o"} /\ line.len \in Nat /\ line.len <= MaxEventBytes
  <2>1. line \in Recorded
    BY ElementOfSeq DEF Recording, Lines
  <2>2. line.len \in Nat
    BY <2>1 DEF Recorded
  <2>3. line.k \in {"i", "o"} /\ line.len < LineMax
    BY DEF Parses
  <2>4. LineMax \in Nat /\ MaxEventBytes \in Nat /\ LineMax <= MaxEventBytes
    BY EventsAssumption
  <2> HIDE DEF line
  <2> QED BY <2>2, <2>3, <2>4
<1> HIDE DEF line
<1>3. MaxEventBytes \in Nat /\ b.len \in Nat
  BY EventsAssumption DEF Built
<1>4. /\ b.pending = <<>> => b.len = 0 /\ b.k = "none"
      /\ b.pending # <<>> => b.len > 0 /\ b.k # "none"
  <2>1. b.pending \in Seq(Lines(cast))
    BY DEF Built
  <2>2. b.pending = <<>> => b.len = 0
    BY <2>1, BytesAdd DEF PendingFits
  <2> QED BY <2>2 DEF PendingFits
<1>5. b.len # 0 => b.k # "none"
  BY <1>4
<1>6. Joins(cast, b, n) => room = b
  <2> SUFFICES ASSUME Joins(cast, b, n) PROVE room = b
    OBVIOUS
  <2>1. turned = b
    BY <1>4 DEF Joins, line
  <2>2. b.len + line.len <= MaxEventBytes
    BY <1>2, <1>3, <1>4 DEF Joins, line
  <2>3. ~(b.len + line.len > MaxEventBytes)
    BY <1>2, <1>3, <2>2
  <2> QED BY <2>1, <2>3
<1>7. ~Joins(cast, b, n) => b.len # 0 /\ room = Flush(b)
  <2> SUFFICES ASSUME ~Joins(cast, b, n) PROVE b.len # 0 /\ room = Flush(b)
    OBVIOUS
  <2>1. b.len > 0 /\ b.len # 0 /\ b.k # "none"
    BY <1>3, <1>4 DEF Joins
  <2>2. CASE b.k = line.k
    <3>1. turned = b
      BY <2>2
    <3>2. b.len + line.len > MaxEventBytes
      BY <1>2, <1>3, <2>2 DEF Joins, line
    <3> QED BY <2>1, <3>1, <3>2
  <2>3. CASE b.k # line.k
    <3>1. turned = Flush(b)
      BY <2>1, <2>3
    <3>2. turned.len = 0
      BY <1>5, <2>1, <3>1, FlushIs
    <3>3. ~(turned.len + line.len > MaxEventBytes)
      BY <1>2, <1>3, <3>2
    <3> QED BY <2>1, <3>1, <3>3
  <2> QED BY <2>2, <2>3
<1> HIDE DEF turned, room
<1>8. /\ room \in Built(cast) /\ room.total = b.total /\ room.stop = b.stop
      /\ Joins(cast, b, n) =>
           /\ room.events = b.events /\ (room.truncated <=> b.truncated)
           /\ room.pending = b.pending /\ room.len = b.len
      /\ ~Joins(cast, b, n) =>
           /\ room.pending = <<>> /\ room.len = 0
           /\ room.truncated <=> b.truncated \/ ~(Len(b.events) < MaxEvents)
           /\ room.events = IF Len(b.events) < MaxEvents
                            THEN Append(b.events, ToBe(b)) ELSE b.events
  <2>1. CASE Joins(cast, b, n)
    BY <1>6, <2>1
  <2>2. CASE ~Joins(cast, b, n)
    BY <1>5, <1>7, <2>2, FlushIs
  <2> QED BY <2>1, <2>2
<1>9. /\ x.k = line.k /\ x.stop = room.stop /\ x.total = room.total + line.len
      /\ x.events = room.events
      /\ x.pending = Append(room.pending, n) /\ x.len = room.len + line.len
  BY <1>8 DEF Built
<1>10. x.truncated <=> room.truncated
  <2>1. "truncated" \in DOMAIN room
    BY <1>8 DEF Built
  <2> QED BY <2>1
<1>11. x \in Built(cast)
  <2>1. Append(room.pending, n) \in Seq(Lines(cast))
    BY <1>8, AppendProperties DEF Built
  <2>2. room.len + line.len \in Nat /\ room.total + line.len \in Nat
    BY <1>2, <1>8 DEF Built
  <2> QED BY <1>2, <1>8, <2>1, <2>2 DEF Built
<1>12. Append(<<>>, n) = <<n>> /\ 0 + line.len = line.len
  BY <1>2
<1> HIDE DEF x
<1>13. x.total = b.total + line.len
  BY <1>8, <1>9
<1>14. ASSUME Joins(cast, b, n)
       PROVE  /\ x.events = b.events /\ (x.truncated <=> b.truncated)
              /\ x.pending = Append(b.pending, n) /\ x.len = b.len + line.len
  BY <1>8, <1>9, <1>10, <1>14
<1>15. ASSUME ~Joins(cast, b, n)
       PROVE  /\ x.pending = <<n>> /\ x.len = line.len
              /\ x.truncated <=> b.truncated \/ ~(Len(b.events) < MaxEvents)
              /\ x.events = IF Len(b.events) < MaxEvents
                            THEN Append(b.events, ToBe(b)) ELSE b.events
  BY <1>8, <1>9, <1>10, <1>12, <1>15
<1>16. x.k = line.k /\ x.stop = b.stop
  BY <1>8, <1>9
<1> QED BY <1>1, <1>11, <1>13, <1>14, <1>15, <1>16 DEF line

(* One more event.                                                         *)
LEMMA EventsGrow ==
    ASSUME NEW cast \in Recording, NEW events \in Seq(Event(cast)), EventsFit(cast, events),
           NEW e \in Event(cast), OneTurn(cast, e), Len(events) < MaxEvents,
           events # <<>> => Turned(cast, events[Len(events)], e.k, Head(e.d))
    PROVE  EventsFit(cast, Append(events, e))
<1> DEFINE more == Append(events, e)
           L == Len(events)
<1>1. /\ Len(more) = L + 1 /\ L \in Nat /\ MaxEvents \in Nat
      /\ \A i \in 1 .. L : more[i] = events[i]
      /\ more[L + 1] = e
      /\ events # <<>> <=> L # 0
  <2>1. events = <<>> <=> L = 0
    BY EmptySeq, LenProperties
  <2> QED BY <2>1, AppendProperties, LenProperties, EventsAssumption
<1>2. L < MaxEvents /\ \A n \in 1 .. L : OneTurn(cast, events[n])
  BY DEF EventsFit
<1>3. \A n \in 1 .. L - 1 : Turned(cast, events[n], events[n + 1].k, Head(events[n + 1].d))
  BY DEF EventsFit
<1>4. L # 0 => Turned(cast, events[L], e.k, Head(e.d))
  BY <1>1
<1> HIDE DEF more, L
<1>5. ASSUME NEW n \in 1 .. L + 1 PROVE OneTurn(cast, more[n])
  <2>1. CASE n = L + 1
    BY <1>1, <2>1
  <2>2. CASE n # L + 1
    <3>1. n \in 1 .. L
      BY <1>1, <2>2
    <3> QED BY <1>1, <1>2, <3>1
  <2> QED BY <2>1, <2>2
<1>6. ASSUME NEW n \in 1 .. L
      PROVE  Turned(cast, more[n], more[n + 1].k, Head(more[n + 1].d))
  <2>1. CASE n = L
    <3>1. more[n] = events[L] /\ more[n + 1] = e /\ L # 0
      BY <1>1, <2>1
    <3> QED BY <1>4, <3>1
  <2>2. CASE n # L
    <3>1. n \in 1 .. L - 1 /\ n + 1 \in 1 .. L
      BY <1>1, <2>2
    <3>2. more[n] = events[n] /\ more[n + 1] = events[n + 1]
      BY <1>1, <3>1
    <3> QED BY <1>3, <3>1, <3>2
  <2> QED BY <2>1, <2>2
<1>7. Len(more) <= MaxEvents /\ Len(more) - 1 = L
  BY <1>1, <1>2
<1> QED BY <1>1, <1>5, <1>6, <1>7 DEF EventsFit, more
(* What is longer stays so.                                                *)
LEMMA LongerStill ==
    ASSUME NEW cast, NEW s \in Seq(Lines(cast)), NEW t \in Seq(Lines(cast)),
           NEW n \in Lines(cast)
    PROVE  /\ t = s => Longer(cast, Append(t, n), s)
           /\ Longer(cast, t, s) => Longer(cast, Append(t, n), s)
<1>1. <<n>> \in Seq(Lines(cast)) /\ <<n>> # <<>>
  OBVIOUS
<1>2. Append(t, n) = t \o <<n>>
  BY AppendIsConcat
<1>3. t = s => Longer(cast, Append(t, n), s)
  BY <1>1, <1>2 DEF Longer
<1>4. ASSUME NEW u \in Seq(Lines(cast)), u # <<>>, t = s \o u
      PROVE  Longer(cast, Append(t, n), s)
  <2>1. (s \o u) \o <<n>> = s \o (u \o <<n>>)
    BY <1>1, ConcatAssociative
  <2>2. u \o <<n>> \in Seq(Lines(cast)) /\ u \o <<n>> # <<>>
    BY <1>1, <1>4, ConcatProperties, ConcatEqualIffEmpty
  <2> DEFINE w == u \o <<n>>
  <2>3. w \in Seq(Lines(cast)) /\ w # <<>> /\ Append(t, n) = s \o w
    BY <1>2, <1>4, <2>1, <2>2
  <2> QED BY <2>3 DEF Longer
<1>5. Longer(cast, t, s) => Longer(cast, Append(t, n), s)
  BY <1>4 DEF Longer
<1> QED BY <1>3, <1>5

LEMMA ReadKeeps ==
    ASSUME NEW cast \in Recording, NEW budget \in Nat, NEW b, NEW t,
           Kept(cast, budget, b, t), NEW n \in Lines(cast)
    PROVE  Kept(cast, budget, Read(b, cast, n, budget),
                IF Parses(cast[n]) THEN Append(t, n) ELSE t)
<1> DEFINE line == cast[n]
           more == Append(t, n)
           sent == Sent(b.events)
<1>1. b \in Built(cast) /\ t \in Seq(Lines(cast)) /\ more \in Seq(Lines(cast))
  BY AppendProperties DEF Kept
<1>2. EventsFit(cast, b.events) /\ PendingFits(cast, b) /\ Counted(cast, budget, b) /\ Whole(cast, b, t)
  BY DEF Kept
<1>3. /\ b.events \in Seq(Event(cast)) /\ b.pending \in Seq(Lines(cast))
      /\ b.len \in Nat /\ b.total \in Nat /\ Len(b.events) \in Nat
      /\ b.truncated \in BOOLEAN /\ b.stop \in BOOLEAN
  BY <1>1, LenProperties DEF Built
<1>4. sent \in Seq(Lines(cast)) /\ sent \o b.pending \in Seq(Lines(cast))
  BY <1>3, SentGrows, ConcatProperties
<1>5. Bytes(cast, sent) \in Nat
  BY <1>4, BytesAdd
<1>6. line.len \in Nat /\ MaxEvents \in Nat /\ MaxEventBytes \in Nat /\ LineMax \in Nat
      /\ LineMax <= MaxEventBytes
  <2>1. line \in Recorded
    BY ElementOfSeq DEF Recording, Lines
  <2>2. line.len \in Nat
    BY <2>1 DEF Recorded
  <2> HIDE DEF line
  <2> QED BY <2>2, EventsAssumption
<1> HIDE DEF sent, more
<1>7. CASE ~Parses(line)
  BY <1>7 DEF Read, line
<1>8. CASE Parses(line) /\ b.stop
  <2>1. b.truncated
    BY <1>2, <1>8 DEF Whole
  <2>2. Whole(cast, b, more)
    BY <1>2, <1>1, <1>4, <2>1, LongerStill DEF Whole, sent, more
  <2>3. Read(b, cast, n, budget) = b
    BY <1>8 DEF Read
  <2> QED BY <1>1, <1>2, <1>8, <2>2, <2>3 DEF Kept, more, line
<1>9. CASE Parses(line) /\ ~b.stop /\ b.total + line.len > budget
  <2> DEFINE x == [b EXCEPT !.truncated = TRUE, !.stop = TRUE]
  <2>1. Read(b, cast, n, budget) = x
    BY <1>9 DEF Read, line
  <2>2. x.events = b.events /\ x.pending = b.pending /\ x.k = b.k /\ x.len = b.len /\ x.total = b.total
    BY <1>1 DEF Built
  <2>3. x.truncated /\ x.stop
    BY <1>1 DEF Built
  <2>4. x \in Built(cast)
    <3>1. TRUE \in BOOLEAN
      OBVIOUS
    <3> QED BY <1>1, <3>1, Zenon DEF Built
  <2> HIDE DEF x
  <2>5. EventsFit(cast, x.events) /\ PendingFits(cast, x) /\ Counted(cast, budget, x)
    BY <1>2, <2>2 DEF PendingFits, Counted, ToBe
  <2>8. Whole(cast, x, more)
    <3>1. CASE b.truncated
      <4>1. Len(b.events) = MaxEvents /\ Longer(cast, t, sent)
        BY <1>2, <1>9, <3>1 DEF Whole, sent
      <4>2. Longer(cast, more, sent)
        BY <1>1, <1>4, <4>1, LongerStill DEF more
      <4> QED BY <2>2, <2>3, <4>1, <4>2 DEF Whole, sent
    <3>2. CASE ~b.truncated
      <4>1. t = sent \o b.pending
        BY <1>2, <3>2 DEF Whole, sent
      <4>2. Longer(cast, more, sent \o b.pending)
        BY <1>1, <1>4, <4>1, LongerStill DEF more
      <4> QED BY <2>2, <2>3, <4>2 DEF Whole, sent
    <3> QED BY <3>1, <3>2
  <2> QED BY <1>1, <1>9, <2>1, <2>4, <2>5, <2>8 DEF Kept, more, line
<1>10. CASE Parses(line) /\ ~b.stop /\ ~(b.total + line.len > budget)
  <2> DEFINE x == Extend(b, cast, n)
  <2>1. Read(b, cast, n, budget) = x
    BY <1>10 DEF Read, line
  <2>2. Parses(cast[n])
    BY <1>10 DEF line
  <2>3. /\ x \in Built(cast) /\ x.k = line.k /\ x.stop = b.stop /\ x.total = b.total + line.len
        /\ Joins(cast, b, n) =>
             /\ x.events = b.events /\ (x.truncated <=> b.truncated)
             /\ x.pending = Append(b.pending, n) /\ x.len = b.len + line.len
        /\ ~Joins(cast, b, n) =>
             /\ x.pending = <<n>> /\ x.len = line.len
             /\ x.truncated <=> b.truncated \/ ~(Len(b.events) < MaxEvents)
             /\ x.events = IF Len(b.events) < MaxEvents
                           THEN Append(b.events, ToBe(b)) ELSE b.events
    BY <1>1, <1>2, <2>2, ExtendIs DEF line
  <2> HIDE DEF x
  <2>4. b.total + line.len <= budget
    BY <1>3, <1>6, <1>10
  <2>5. /\ line.k \in {"i", "o"} /\ line.len > 0 /\ line.len <= MaxEventBytes
    <3>1. line.k \in {"i", "o"} /\ line.len > 0 /\ line.len < LineMax
      BY <1>10 DEF Parses
    <3> HIDE DEF line
    <3> QED BY <1>6, <3>1
  <2>6. b.truncated => Len(b.events) = MaxEvents /\ Longer(cast, t, sent)
    BY <1>2, <1>10 DEF Whole, sent
  <2>7. ~b.truncated => t = sent \o b.pending
    BY <1>2 DEF Whole, sent
  <2>8. Longer(cast, t, sent) => Longer(cast, more, sent)
    BY <1>1, <1>4, LongerStill DEF more
  <2>9. b.len = Bytes(cast, b.pending)
    BY <1>2 DEF PendingFits
  <2>10. <<n>> \in Seq(Lines(cast)) /\ Len(<<n>>) = 1 /\ <<n>>[1] = n /\ <<n>> # <<>> /\ Head(<<n>>) = n
    OBVIOUS
  <2>11. more = t \o <<n>>
    BY <1>1, AppendIsConcat DEF more
  <2>12. (sent \o b.pending) \o <<n>> = sent \o (b.pending \o <<n>>)
    <3> DEFINE p == b.pending
               q == <<n>>
               S == Lines(cast)
    <3>1. sent \in Seq(S) /\ p \in Seq(S) /\ q \in Seq(S)
      BY <1>3, <1>4, <2>10
    <3> HIDE DEF p, q, S
    <3>2. (sent \o p) \o q = sent \o (p \o q)
      BY <3>1, ConcatAssociative
    <3> QED BY <3>2 DEF p, q
  <2>13. Bytes(cast, <<n>>) = line.len
    BY <1>3, BytesGrow DEF line
  <2>14. Bytes(cast, sent) + b.len <= b.total
    BY <1>2 DEF Counted, sent
  <2>15. CASE Joins(cast, b, n)
    <3> DEFINE p == Append(b.pending, n)
    <3>1. /\ x.events = b.events /\ (x.truncated <=> b.truncated)
          /\ x.pending = p /\ x.len = b.len + line.len
      BY <2>3, <2>15
    <3>2. p = b.pending \o <<n>> /\ Bytes(cast, p) = b.len + line.len
      BY <1>3, <2>9, AppendIsConcat, BytesGrow DEF line
    <3>3. /\ p \in Seq(Lines(cast)) /\ p # <<>> /\ Len(p) = Len(b.pending) + 1
          /\ \A i \in 1 .. Len(b.pending) : p[i] = b.pending[i]
          /\ p[Len(b.pending) + 1] = n
          /\ Head(p) = IF b.pending = <<>> THEN n ELSE Head(b.pending)
          /\ Len(b.pending) \in Nat
          /\ b.pending = <<>> => Len(b.pending) = 0
      BY <1>3, AppendProperties, HeadTailAppend, LenProperties
    <3> HIDE DEF p
    <3>4. b.pending = <<>> => b.len = 0 /\ b.events = <<>>
      BY <1>2, <1>3, <2>9, BytesAdd DEF PendingFits
    <3>5. b.pending # <<>> => /\ b.k = line.k /\ b.len + line.len <= MaxEventBytes
                              /\ \A i \in 1 .. Len(b.pending) : cast[b.pending[i]].k = b.k
      BY <1>2, <2>15 DEF Joins, PendingFits, OneTurn, ToBe, line
    <3>6. OneTurn(cast, ToBe(x))
      <4>1. Bytes(cast, p) <= MaxEventBytes
        BY <1>6, <2>5, <3>2, <3>4, <3>5
      <4>2. ASSUME NEW i \in 1 .. Len(p) PROVE cast[p[i]].k = line.k
        <5>1. CASE i = Len(b.pending) + 1
          BY <3>3, <5>1 DEF line
        <5>2. CASE i # Len(b.pending) + 1
          <6>1. i \in 1 .. Len(b.pending)
            BY <3>3, <5>2
          <6>2. b.pending # <<>>
            BY <3>3, <6>1
          <6> QED BY <3>3, <3>5, <6>1, <6>2
        <5> QED BY <5>1, <5>2
      <4> QED BY <2>3, <3>1, <3>3, <4>1, <4>2 DEF OneTurn, ToBe
    <3>7. PendingFits(cast, x)
      <4>1. x.len = Bytes(cast, x.pending)
        BY <3>1, <3>2
      <4>2. x.pending # <<>> /\ x.len > 0 /\ x.k # "none"
        BY <1>3, <1>6, <2>3, <2>5, <3>1, <3>3
      <4>3. ASSUME x.events # <<>>, Len(x.events) < MaxEvents
            PROVE  Turned(cast, x.events[Len(x.events)], x.k, Head(x.pending))
        <5>1. b.events # <<>> /\ b.pending # <<>> /\ Len(b.events) < MaxEvents
          BY <3>1, <3>4, <4>3
        <5>2. Turned(cast, b.events[Len(b.events)], b.k, Head(b.pending))
          BY <1>2, <5>1 DEF PendingFits
        <5>3. x.k = b.k /\ Head(x.pending) = Head(b.pending)
          BY <2>3, <3>1, <3>3, <3>5, <5>1
        <5> QED BY <3>1, <5>2, <5>3
      <4> QED BY <3>6, <4>1, <4>2, <4>3 DEF PendingFits
    <3>8. Counted(cast, budget, x)
      <4>1. Bytes(cast, sent) + (b.len + line.len) <= b.total + line.len
        BY <1>3, <1>5, <1>6, <2>14
      <4> QED BY <2>3, <2>4, <3>1, <4>1 DEF Counted, sent
    <3>9. Whole(cast, x, more)
      <4>1. ~b.truncated => more = sent \o p
        BY <2>7, <2>11, <2>12, <3>2
      <4>2. b.truncated => Len(b.events) = MaxEvents /\ Longer(cast, more, sent)
        BY <2>6, <2>8
      <4>3. ~x.stop
        BY <1>10, <2>3
      <4> QED BY <3>1, <4>1, <4>2, <4>3 DEF Whole, sent
    <3>10. EventsFit(cast, x.events)
      BY <1>2, <3>1
    <3> QED BY <1>1, <1>10, <2>1, <2>3, <3>7, <3>8, <3>9, <3>10 DEF Kept, more, line
  <2>16. CASE ~Joins(cast, b, n)
    <3> DEFINE e == ToBe(b)
    <3>1. /\ x.pending = <<n>> /\ x.len = line.len
          /\ x.truncated <=> b.truncated \/ ~(Len(b.events) < MaxEvents)
          /\ x.events = IF Len(b.events) < MaxEvents THEN Append(b.events, e) ELSE b.events
      BY <2>3, <2>16
    <3>2. b.pending # <<>> /\ b.k # "none" /\ OneTurn(cast, e)
      BY <1>2, <2>16 DEF Joins, PendingFits
    <3>3. Turned(cast, e, line.k, n)
      <4>1. b.k = line.k => ~(b.len + line.len <= MaxEventBytes)
        BY <2>16 DEF Joins, line
      <4>2. b.k = line.k => b.len + line.len > MaxEventBytes
        BY <1>3, <1>6, <4>1
      <4> QED BY <2>9, <4>2 DEF Turned, ToBe, line
    <3>4. e \in Event(cast) /\ e.d = b.pending /\ e.k = b.k
      BY <1>1, <3>2 DEF ToBe, Event, Built
    <3>5. OneTurn(cast, ToBe(x))
      <4>1. \A i \in 1 .. 1 : cast[<<n>>[i]].k = line.k
        BY <2>10 DEF line
      <4>2. Bytes(cast, <<n>>) <= MaxEventBytes
        BY <2>5, <2>13
      <4> QED BY <2>3, <2>10, <3>1, <4>1, <4>2 DEF OneTurn, ToBe
    <3>6. x.len = Bytes(cast, x.pending) /\ x.pending # <<>> /\ x.len > 0 /\ x.k # "none"
      BY <2>3, <2>5, <2>10, <2>13, <3>1
    <3> HIDE DEF e
    <3>7. CASE Len(b.events) < MaxEvents
      <4> DEFINE evs == Append(b.events, e)
      <4>1. x.events = evs /\ (x.truncated <=> b.truncated)
        BY <3>1, <3>7
      <4>2. EventsFit(cast, evs)
        <5>1. b.events # <<>> => Turned(cast, b.events[Len(b.events)], e.k, Head(e.d))
          BY <1>2, <3>2, <3>4, <3>7 DEF PendingFits
        <5> QED BY <1>2, <1>3, <3>2, <3>4, <3>7, <5>1, EventsGrow
      <4>3. Len(evs) = Len(b.events) + 1 /\ evs[Len(b.events) + 1] = e
        BY <1>3, <3>4, AppendProperties
      <4>4. Sent(evs) = sent \o b.pending
        BY <1>3, <3>4, SentGrows DEF sent
      <4>5. Bytes(cast, Sent(evs)) = Bytes(cast, sent) + b.len
        BY <1>3, <1>4, <2>9, <4>4, BytesAdd
      <4> HIDE DEF evs
      <4>6. PendingFits(cast, x)
        <5>1. evs[Len(evs)] = e
          BY <4>3
        <5>2. Turned(cast, x.events[Len(x.events)], x.k, Head(x.pending))
          BY <2>3, <2>10, <3>1, <3>3, <4>1, <5>1
        <5> QED BY <3>5, <3>6, <5>2 DEF PendingFits
      <4>7. Counted(cast, budget, x)
        <5>1. (Bytes(cast, sent) + b.len) + line.len <= b.total + line.len
          BY <1>3, <1>5, <1>6, <2>14
        <5> QED BY <2>3, <2>4, <3>1, <4>1, <4>5, <5>1 DEF Counted
      <4>8. ~b.truncated
        BY <1>3, <1>6, <2>6, <3>7
      <4>9. more = Sent(evs) \o <<n>>
        BY <2>7, <2>11, <4>4, <4>8
      <4>10. Whole(cast, x, more)
        <5>1. ~x.truncated /\ ~x.stop
          BY <1>10, <2>3, <4>1, <4>8
        <5> QED BY <3>1, <4>1, <4>9, <5>1 DEF Whole
      <4> QED BY <1>1, <1>10, <2>1, <2>3, <4>1, <4>2, <4>6, <4>7, <4>10 DEF Kept, more, line
    <3>8. CASE ~(Len(b.events) < MaxEvents)
      <4>1. x.events = b.events /\ x.truncated
        BY <3>1, <3>8
      <4>2. Len(b.events) = MaxEvents
        BY <1>2, <1>3, <1>6, <3>8 DEF EventsFit
      <4>3. PendingFits(cast, x)
        BY <3>5, <3>6, <3>8, <4>1 DEF PendingFits
      <4>4. Counted(cast, budget, x)
        <5>1. Bytes(cast, sent) + line.len <= b.total + line.len
          BY <1>3, <1>5, <1>6, <2>14
        <5> QED BY <2>3, <2>4, <3>1, <4>1, <5>1 DEF Counted, sent
      <4>5. Longer(cast, more, sent)
        <5>1. CASE b.truncated
          BY <2>6, <2>8, <5>1
        <5>2. CASE ~b.truncated
          <6>1. Longer(cast, t, sent)
            BY <1>3, <2>7, <3>2, <5>2 DEF Longer
          <6> QED BY <2>8, <6>1
        <5> QED BY <5>1, <5>2
      <4>6. Whole(cast, x, more)
        BY <4>1, <4>2, <4>5 DEF Whole, sent
      <4> QED BY <1>1, <1>2, <1>10, <2>1, <2>3, <4>1, <4>3, <4>4, <4>6 DEF Kept, more, line
    <3> QED BY <3>7, <3>8
  <2> QED BY <2>15, <2>16
<1> QED BY <1>7, <1>8, <1>9, <1>10
(* Before the first line there is nothing.                                 *)
LEMMA StartKept ==
    ASSUME NEW cast \in Recording, NEW budget \in Nat
    PROVE  Kept(cast, budget, Start, <<>>)
<1>1. Start \in Built(cast) /\ <<>> \in Seq(Lines(cast))
  BY DEF Start, Built
<1>2. /\ Start.events = <<>> /\ Start.pending = <<>> /\ Start.len = 0 /\ Start.k = "none"
      /\ Start.total = 0 /\ ~Start.truncated /\ ~Start.stop
  BY DEF Start
<1>3. <<>> \in Seq(Event(cast)) /\ Len(<<>>) = 0
  OBVIOUS
<1>4. Sent(<<>>) = <<>> /\ Bytes(cast, <<>>) = 0
  BY <1>1, <1>3, SentGrows, BytesAdd
<1>5. EventsFit(cast, <<>>)
  <2>1. 0 <= MaxEvents /\ 1 .. 0 = {} /\ 1 .. (0 - 1) = {}
    BY EventsAssumption
  <2> QED BY <1>3, <2>1 DEF EventsFit
<1>6. PendingFits(cast, Start)
  BY <1>2, <1>4 DEF PendingFits
<1>7. Counted(cast, budget, Start)
  BY <1>2, <1>4 DEF Counted
<1>8. <<>> \o <<>> = <<>>
  BY <1>1, ConcatEmptySeq
<1>9. Whole(cast, Start, <<>>)
  BY <1>2, <1>4, <1>8 DEF Whole
<1> QED BY <1>1, <1>2, <1>5, <1>6, <1>7, <1>9 DEF Kept

(* What the report is given, t being the lines there were to tell.         *)
Given(cast, budget, events, cut, t) ==
    /\ events \in Seq(Event(cast)) /\ EventsFit(cast, events)
    /\ Bytes(cast, Sent(events)) <= budget
    /\ ~cut => t = Sent(events)
    /\ cut => Longer(cast, t, Sent(events))

(* The last flush: what is pending is sent, or the report is cut.          *)
LEMMA FlushGives ==
    ASSUME NEW cast \in Recording, NEW budget \in Nat, NEW b, NEW t,
           Kept(cast, budget, b, t)
    PROVE  Given(cast, budget, Flush(b).events, Flush(b).truncated, t)
<1> DEFINE sent == Sent(b.events)
           x == Flush(b)
<1>1. b \in Built(cast) /\ t \in Seq(Lines(cast)) /\ EventsFit(cast, b.events)
      /\ PendingFits(cast, b) /\ Counted(cast, budget, b) /\ Whole(cast, b, t)
  BY DEF Kept
<1>2. /\ b.events \in Seq(Event(cast)) /\ b.pending \in Seq(Lines(cast))
      /\ b.len \in Nat /\ b.total \in Nat /\ Len(b.events) \in Nat
      /\ b.truncated \in BOOLEAN /\ MaxEvents \in Nat
  BY <1>1, LenProperties, EventsAssumption DEF Built
<1>3. sent \in Seq(Lines(cast)) /\ Bytes(cast, sent) \in Nat
  BY <1>2, SentGrows, BytesAdd
<1>4. b.len = Bytes(cast, b.pending) /\ (b.pending = <<>> => b.len = 0)
      /\ (b.pending # <<>> => b.len # 0 /\ b.k # "none" /\ OneTurn(cast, ToBe(b)))
  <2>1. b.pending = <<>> => b.len = 0
    BY <1>1, <1>2, BytesAdd DEF PendingFits
  <2>2. b.pending # <<>> => b.len > 0 /\ b.k # "none" /\ OneTurn(cast, ToBe(b))
    BY <1>1 DEF PendingFits
  <2>3. b.len = Bytes(cast, b.pending)
    BY <1>1 DEF PendingFits
  <2> QED BY <1>2, <2>1, <2>2, <2>3
<1>5. b.len # 0 => b.k # "none"
  BY <1>4
<1>6. /\ Bytes(cast, sent) + b.len <= budget
      /\ ~b.truncated => t = sent \o b.pending
      /\ b.truncated => \/ Len(b.events) = MaxEvents /\ Longer(cast, t, sent)
                        \/ Longer(cast, t, sent \o b.pending)
  <2>1. Bytes(cast, sent) + b.len <= b.total /\ b.total <= budget
    BY <1>1 DEF Counted
  <2>2. Bytes(cast, sent) + b.len <= budget
    BY <1>2, <1>3, <2>1
  <2>3. /\ ~b.truncated => t = sent \o b.pending
        /\ b.truncated => \/ Len(b.events) = MaxEvents /\ Longer(cast, t, sent)
                          \/ Longer(cast, t, sent \o b.pending)
    BY <1>1 DEF Whole, sent
  <2> QED BY <2>2, <2>3
<1> HIDE DEF sent, x
<1>7. ASSUME NEW u \in Seq(Lines(cast)), NEW v \in Seq(Lines(cast)), v # <<>>
      PROVE  u \o v # <<>> /\ u \o v \in Seq(Lines(cast))
  BY <1>7, ConcatProperties, ConcatEqualIffEmpty
<1>8. Longer(cast, t, sent \o b.pending) => Longer(cast, t, sent)
  <2> SUFFICES ASSUME NEW u \in Seq(Lines(cast)), u # <<>>, t = (sent \o b.pending) \o u
               PROVE  Longer(cast, t, sent)
    BY DEF Longer
  <2> DEFINE p == b.pending
             S == Lines(cast)
  <2>1. sent \in Seq(S) /\ p \in Seq(S) /\ u \in Seq(S)
    BY <1>2, <1>3
  <2>2. p \o u # <<>> /\ p \o u \in Seq(S)
    BY <1>2, <1>7
  <2> HIDE DEF p, S
  <2>3. (sent \o p) \o u = sent \o (p \o u)
    BY <2>1, ConcatAssociative
  <2>4. t = sent \o (p \o u)
    BY <2>3 DEF p
  <2>5. Longer(cast, t, sent)
    BY <2>2, <2>4 DEF Longer, S
  <2> QED BY <2>5
<1>9. CASE b.pending = <<>>
  <2>1. x = b
    BY <1>1, <1>4, <1>5, <1>9, FlushIs DEF x
  <2>2. sent \o b.pending = sent
    BY <1>3, <1>9, ConcatEmptySeq
  <2>3. b.truncated => Longer(cast, t, sent)
    BY <1>6, <1>8
  <2>4. ~b.truncated => t = sent
    BY <1>6, <2>2
  <2>5. Bytes(cast, sent) <= budget
    BY <1>2, <1>3, <1>6
  <2> QED BY <1>1, <1>2, <2>1, <2>3, <2>4, <2>5 DEF Given, sent, x
<1>10. CASE b.pending # <<>>
  <2>1. b.len # 0
    BY <1>4, <1>10
  <2>2. /\ x.truncated <=> b.truncated \/ ~(Len(b.events) < MaxEvents)
        /\ x.events = IF Len(b.events) < MaxEvents
                      THEN Append(b.events, ToBe(b)) ELSE b.events
    BY <1>1, <1>5, <2>1, FlushIs DEF x
  <2>3. ToBe(b) \in Event(cast) /\ ToBe(b).d = b.pending /\ ToBe(b).k = b.k
    BY <1>1, <1>4, <1>10 DEF ToBe, Event, Built
  <2>4. CASE Len(b.events) < MaxEvents
    <3> DEFINE evs == Append(b.events, ToBe(b))
    <3>1. x.events = evs /\ (x.truncated <=> b.truncated)
      BY <2>2, <2>4
    <3>2. EventsFit(cast, evs)
      <4>1. b.events # <<>> => Turned(cast, b.events[Len(b.events)], ToBe(b).k, Head(ToBe(b).d))
        BY <1>1, <1>10, <2>3, <2>4 DEF PendingFits
      <4> QED BY <1>1, <1>2, <1>4, <1>10, <2>3, <2>4, <4>1, EventsGrow
    <3>3. evs \in Seq(Event(cast))
      BY <1>2, <2>3, AppendProperties
    <3>4. Sent(evs) = sent \o b.pending
      BY <1>2, <2>3, SentGrows DEF sent
    <3>5. Bytes(cast, Sent(evs)) <= budget
      BY <1>2, <1>3, <1>4, <1>6, <3>4, BytesAdd
    <3>6. b.truncated => Longer(cast, t, Sent(evs))
      <4>1. Len(b.events) # MaxEvents
        BY <1>2, <2>4
      <4> QED BY <1>6, <3>4, <4>1
    <3>7. ~b.truncated => t = Sent(evs)
      BY <1>6, <3>4
    <3> HIDE DEF evs
    <3> QED BY <3>1, <3>2, <3>3, <3>5, <3>6, <3>7 DEF Given, x
  <2>5. CASE ~(Len(b.events) < MaxEvents)
    <3>1. x.events = b.events /\ x.truncated
      BY <2>2, <2>5
    <3>2. Longer(cast, t, sent)
      <4>1. ~b.truncated => Longer(cast, t, sent)
        BY <1>2, <1>6, <1>10 DEF Longer
      <4> QED BY <1>6, <1>8, <4>1
    <3>3. Bytes(cast, sent) <= budget
      BY <1>2, <1>3, <1>6
    <3> QED BY <1>1, <1>2, <3>1, <3>2, <3>3 DEF Given, sent, x
  <2> QED BY <2>4, <2>5
<1> QED BY <1>9, <1>10

(* That is what the hub may rely on.                                       *)
LEMMA GivenIsFaithful ==
    ASSUME NEW cast \in Recording, NEW budget \in Nat, NEW events, NEW cut,
           ToTell(cast) \in Seq(Lines(cast)), Given(cast, budget, events, cut, ToTell(cast))
    PROVE  Faithful(cast, budget, events, cut)
<1> DEFINE t == ToTell(cast)
           s == Sent(events)
<1>1. /\ events \in Seq(Event(cast)) /\ EventsFit(cast, events)
      /\ Bytes(cast, s) <= budget
      /\ ~cut => t = s
      /\ cut => Longer(cast, t, s)
  BY DEF Given
<1>2. s \in Seq(Lines(cast)) /\ t \in Seq(Lines(cast))
  BY <1>1, SentGrows
<1>3. Longer(cast, t, s) => t # s
  <2> SUFFICES ASSUME NEW u \in Seq(Lines(cast)), u # <<>>, t = s \o u PROVE t # s
    BY DEF Longer
  <2> HIDE DEF s, t
  <2> QED BY <1>2, ConcatEqualIffEmpty
<1>4. \/ t = s
      \/ Longer(cast, t, s)
  BY <1>1
<1>5. IsPrefix(s, t)
  <2>1. PICK u \in Seq(Lines(cast)) : t = s \o u
    <3>1. <<>> \in Seq(Lines(cast)) /\ s \o <<>> = s
      BY <1>2, ConcatEmptySeq
    <3>2. t = s => \E u \in Seq(Lines(cast)) : t = s \o u
      BY <3>1
    <3> QED BY <1>4, <3>2 DEF Longer
  <2> HIDE DEF s, t
  <2> DEFINE m == Len(s)
  <2>2. /\ m \in Nat /\ Len(u) \in Nat /\ Len(t) = m + Len(u)
        /\ \A i \in 1 .. m + Len(u) : t[i] = IF i <= m THEN s[i] ELSE u[i - m]
    BY <1>2, <2>1, ConcatProperties, LenProperties
  <2>3. \A i \in 1 .. m : t[i] = s[i]
    BY <2>2
  <2>4. \A i \in 1 .. m : s[i] \in Lines(cast) /\ t[i] \in Lines(cast)
    BY <1>2, <2>3, ElementOfSeq
  <2>5. 1 <= m + 1 /\ m <= Len(t)
    BY <2>2
  <2>6. SubSeq(s, 1, m) = s
    BY <1>2, SubSeqFull
  <2>7. /\ SubSeq(t, 1, m) \in Seq(Lines(cast)) /\ Len(SubSeq(t, 1, m)) = m
        /\ \A i \in 1 .. m : SubSeq(t, 1, m)[i] = t[i]
    <3> DEFINE w == [i \in 1 .. m |-> t[i]]
    <3>1. SubSeq(t, 1, m) = w
      BY <2>2
    <3>2. w \in Seq(Lines(cast)) /\ Len(w) = m
      BY <2>2, <2>4
    <3> QED BY <3>1, <3>2
  <2>8. SubSeq(t, 1, m) = s
    <3> DEFINE w == SubSeq(t, 1, m)
    <3>1. w \in Seq(Lines(cast)) /\ Len(w) = Len(s) /\ \A i \in 1 .. Len(s) : w[i] = s[i]
      BY <2>3, <2>7
    <3> HIDE DEF w
    <3>2. w = s
      BY <1>2, <3>1, SeqEqual
    <3> QED BY <3>2 DEF w
  <2> QED BY <2>5, <2>6, <2>8 DEF IsPrefix, m
<1>6. cut <=> s # t
  BY <1>1, <1>3
<1>7. Len(events) <= MaxEvents
  BY <1>1 DEF EventsFit
<1>8. Len(events) \in Nat /\ DOMAIN events = 1 .. Len(events)
  BY <1>1, LenProperties
<1>9. ASSUME NEW n \in DOMAIN events
      PROVE  /\ events[n].d # <<>>
             /\ \A l \in ToSet(events[n].d) : cast[l].k = events[n].k
             /\ Bytes(cast, events[n].d) <= MaxEventBytes
  <2> DEFINE e == events[n]
  <2>1. OneTurn(cast, e)
    BY <1>1, <1>8 DEF EventsFit
  <2>2. e \in Event(cast)
    BY <1>1, <1>8, ElementOfSeq
  <2> HIDE DEF e
  <2>3. DOMAIN e.d = 1 .. Len(e.d)
    <3>1. e.d \in Seq(Lines(cast))
      BY <2>2 DEF Event
    <3> QED BY <3>1, LenProperties
  <2>4. \A l \in ToSet(e.d) : cast[l].k = e.k
    BY <2>1, <2>3 DEF OneTurn, ToSet
  <2> QED BY <2>1, <2>4 DEF OneTurn, e
<1>10. \A n \in 1 .. Len(events) - 1 :
          events[n].k = events[n + 1].k =>
              Bytes(cast, events[n].d) + cast[Head(events[n + 1].d)].len > MaxEventBytes
  BY <1>1 DEF EventsFit, Turned
<1> QED BY <1>1, <1>5, <1>6, <1>7, <1>9, <1>10 DEF Faithful

(* f[n] is the lines to tell among the first n.                            *)
ToldBy(cast, f) ==
    /\ f \in [0 .. Len(cast) -> Seq(Lines(cast))] /\ f[0] = <<>>
    /\ \A n \in 1 .. Len(cast) :
          f[n] = IF Parses(cast[n]) THEN Append(f[n - 1], n) ELSE f[n - 1]

LEMMA ToldIs ==
    ASSUME NEW cast \in Recording
    PROVE  \E f : ToldBy(cast, f) /\ ToTell(cast) = f[Len(cast)]
<1> DEFINE L == Len(cast)
           X == Seq(Lines(cast))
           Step(n, x) == IF Parses(cast[n]) THEN Append(x, n) ELSE x
           F == CHOOSE f : f = [n \in 0 .. L |-> IF n = 0 THEN <<>> ELSE Step(n, f[n - 1])]
<1>1. ToTell(cast) = F[L]
  BY DEF ToTell
<1>2. L \in Nat
  BY LenProperties DEF Recording
<1>3. ASSUME NEW n \in 1 .. L, NEW x \in X PROVE Step(n, x) \in X
  <2>1. n \in Lines(cast)
    BY DEF Lines
  <2> QED BY <2>1, AppendProperties
<1>4. <<>> \in X
  OBVIOUS
<1> HIDE DEF L, X, Step
<1>5. F = [n \in 0 .. L |-> IF n = 0 THEN <<>> ELSE Step(n, F[n - 1])] /\ F \in [0 .. L -> X]
  <2> DEFINE G == [t \in (1 .. L) \X X |-> Step(t[1], t[2])]
             e == <<>>
  <2>1. \A n \in 1 .. L, x \in X : G[<<n, x>>] = Step(n, x)
    OBVIOUS
  <2>2. G \in [(1 .. L) \X X -> X]
    BY <1>3
  <2> HIDE DEF G
  <2>3. L \in Nat /\ e \in X
    BY <1>2, <1>4
  <2> HIDE DEF e
  <2>4. PICK f : Follows(f, L, X, e, G)
    BY <2>2, <2>3, Recursion
  <2>5. /\ f \in [0 .. L -> X] /\ f[0] = <<>>
        /\ \A n \in 1 .. L : f[n] = G[<<n, f[n - 1]>>]
    BY <2>4 DEF Follows, e
  <2>6. ASSUME NEW n \in 0 .. L, n # 0 PROVE f[n] = Step(n, f[n - 1])
    <3>1. n \in 1 .. L /\ n - 1 \in 0 .. L
      BY <2>3, <2>6
    <3> QED BY <2>1, <2>5, <3>1
  <2>7. f = [n \in 0 .. L |-> IF n = 0 THEN <<>> ELSE Step(n, f[n - 1])]
    BY <2>5, <2>6
  <2>8. F = [n \in 0 .. L |-> IF n = 0 THEN <<>> ELSE Step(n, F[n - 1])]
    BY <2>7
  <2> HIDE DEF F
  <2>9. F[0] = f[0]
    BY <2>3, <2>5, <2>8
  <2>10. \A n \in 1 .. L : F[n - 1] = f[n - 1] => F[n] = f[n]
    BY <2>3, <2>6, <2>8
  <2>11. \A n \in 0 .. L : F[n] = f[n]
    <3>1. L \in Nat /\ GoAlike(F, f, L)
      BY <2>3, <2>9, <2>10 DEF GoAlike
    <3> QED BY <3>1, Alike
  <2> QED BY <2>5, <2>8, <2>11
<1> HIDE DEF F
<1>6. F[0] = <<>> /\ \A n \in 1 .. L : F[n] = Step(n, F[n - 1])
  BY <1>2, <1>5
<1>7. ToldBy(cast, F)
  BY <1>5, <1>6 DEF ToldBy, L, X, Step
<1> QED BY <1>1, <1>7 DEF L

(* For every recording and every budget the events are faithful.           *)
LEMMA BuildIsFaithful ==
    ASSUME NEW cast \in Recording, NEW budget \in Nat
    PROVE  Faithful(cast, budget, Build(cast, budget).events, Build(cast, budget).truncated)
<1> DEFINE L == Len(cast)
           X == {b \in Built(cast) : \E t : Kept(cast, budget, b, t)}
           Step(n, b) == Read(b, cast, n, budget)
           F == CHOOSE f : f = [n \in 0 .. L |-> IF n = 0 THEN Start ELSE Step(n, f[n - 1])]
<1>1. Build(cast, budget) = Flush(F[L])
  BY DEF Build
<1>2. L \in Nat
  BY LenProperties DEF Recording
<1>3. ASSUME NEW n \in 1 .. L, NEW b \in X PROVE Step(n, b) \in X
  <2>1. n \in Lines(cast)
    BY DEF Lines
  <2>2. PICK t : Kept(cast, budget, b, t)
    OBVIOUS
  <2> DEFINE y == Read(b, cast, n, budget)
             u == IF Parses(cast[n]) THEN Append(t, n) ELSE t
  <2>3. Kept(cast, budget, y, u)
    BY <2>1, <2>2, ReadKeeps
  <2> HIDE DEF y, u
  <2>4. y \in Built(cast)
    BY <2>3 DEF Kept
  <2> QED BY <2>3, <2>4 DEF y
<1>4. Start \in X
  <2>1. Kept(cast, budget, Start, <<>>)
    BY StartKept
  <2>2. Start \in Built(cast)
    BY <2>1 DEF Kept
  <2> QED BY <2>1, <2>2
<1> HIDE DEF L, X, Step
<1>5. F = [n \in 0 .. L |-> IF n = 0 THEN Start ELSE Step(n, F[n - 1])]
  <2> DEFINE G == [t \in (1 .. L) \X X |-> Step(t[1], t[2])]
  <2>1. \A n \in 1 .. L, x \in X : G[<<n, x>>] = Step(n, x)
    OBVIOUS
  <2>2. G \in [(1 .. L) \X X -> X]
    BY <1>3
  <2> HIDE DEF G
  <2>4. PICK f : Follows(f, L, X, Start, G)
    BY <1>2, <1>4, <2>2, Recursion
  <2>5. /\ f \in [0 .. L -> X] /\ f[0] = Start
        /\ \A n \in 1 .. L : f[n] = G[<<n, f[n - 1]>>]
    BY <2>4 DEF Follows
  <2>6. ASSUME NEW n \in 0 .. L, n # 0 PROVE f[n] = Step(n, f[n - 1])
    <3>1. n \in 1 .. L /\ n - 1 \in 0 .. L
      BY <1>2, <2>6
    <3> QED BY <2>1, <2>5, <3>1
  <2>7. f = [n \in 0 .. L |-> IF n = 0 THEN Start ELSE Step(n, f[n - 1])]
    BY <2>5, <2>6
  <2> QED BY <2>7
<1> HIDE DEF F
<1>6. F[0] = Start /\ \A n \in 1 .. L : F[n] = Read(F[n - 1], cast, n, budget)
  BY <1>2, <1>5 DEF Step
<1>7. PICK f : ToldBy(cast, f) /\ ToTell(cast) = f[Len(cast)]
  BY ToldIs
<1> DEFINE S == {n \in 0 .. L : Kept(cast, budget, F[n], f[n])}
<1>8. 0 \in S
  BY <1>2, <1>6, <1>7, StartKept DEF ToldBy
<1>9. ASSUME NEW n \in 1 .. L, n - 1 \in S PROVE n \in S
  <2>1. n \in Lines(cast) /\ n \in 0 .. L
    BY <1>2 DEF Lines, L
  <2>2. Kept(cast, budget, F[n - 1], f[n - 1])
    BY <1>9
  <2>3. f[n] = IF Parses(cast[n]) THEN Append(f[n - 1], n) ELSE f[n - 1]
    BY <1>7 DEF ToldBy, L
  <2>4. Kept(cast, budget, Read(F[n - 1], cast, n, budget),
             IF Parses(cast[n]) THEN Append(f[n - 1], n) ELSE f[n - 1])
    BY <2>1, <2>2, ReadKeeps
  <2>5. Kept(cast, budget, F[n], f[n])
    BY <1>6, <2>3, <2>4
  <2> QED BY <2>1, <2>5
<1>10. Kept(cast, budget, F[L], ToTell(cast))
  <2>1. \A n \in 0 .. L : n \in S
    <3> HIDE DEF S
    <3> QED BY <1>2, <1>8, <1>9, UpTo
  <2>2. L \in S
    BY <1>2, <2>1
  <2> QED BY <1>7, <2>2 DEF L
<1>11. ToTell(cast) \in Seq(Lines(cast))
  BY <1>10 DEF Kept
<1>12. Given(cast, budget, Build(cast, budget).events, Build(cast, budget).truncated, ToTell(cast))
  BY <1>1, <1>10, FlushGives
<1> QED BY <1>11, <1>12, GivenIsFaithful

(* What is on its way to the hub is faithful.                              *)
LEMMA UploadStep == UploadFaithful /\ [Next]_vars => UploadFaithful'
<1> SUFFICES ASSUME UploadFaithful, [Next]_vars PROVE UploadFaithful'
  OBVIOUS
<1>1. ASSUME upload' = <<>> PROVE UploadFaithful'
  <2>1. DOMAIN <<>> = {}
    OBVIOUS
  <2> QED BY <1>1, <2>1 DEF UploadFaithful
<1>2. CASE UNCHANGED upload
  BY <1>2 DEF UploadFaithful
<1>3. ASSUME Session PROVE UploadFaithful'
  <2>1. CASE upload' = <<>>
    BY <1>1, <2>1
  <2>2. ASSUME NEW cast \in Casts, NEW budget \in Budgets,
               upload' = <<[cast |-> cast, budget |-> budget,
                            events |-> Build(cast, budget).events,
                            truncated |-> Build(cast, budget).truncated]>>
        PROVE  UploadFaithful'
    <3>1. cast \in Recording /\ budget \in Nat
      BY IntelAssumption DEF Recording
    <3>2. Faithful(cast, budget, Build(cast, budget).events, Build(cast, budget).truncated)
      BY <3>1, BuildIsFaithful
    <3> DEFINE r == [cast |-> cast, budget |-> budget, events |-> Build(cast, budget).events,
                     truncated |-> Build(cast, budget).truncated]
    <3>3. Faithful(r.cast, r.budget, r.events, r.truncated)
      BY <3>2
    <3> HIDE DEF r
    <3>4. DOMAIN <<r>> = {1} /\ <<r>>[1] = r
      OBVIOUS
    <3>5. upload' = <<r>>
      BY <2>2 DEF r
    <3> QED BY <3>3, <3>4, <3>5 DEF UploadFaithful
  <2> QED BY <1>3, <2>1, <2>2 DEF Session
<1>4. CASE Hub
  <2>1. Session \/ upload' = <<>>
    BY <1>4 DEF Hub
  <2> QED BY <1>1, <1>3, <2>1
<1>5. CASE Update
  BY <1>1, <1>5 DEF Update
<1>6. CASE Reboot
  BY <1>1, <1>6 DEF Reboot
<1>7. CASE UNCHANGED vars
  BY <1>2, <1>7 DEF vars, hubs
<1> QED BY <1>2, <1>4, <1>5, <1>6, <1>7, TakeIdFrame, TimeOutFrame, GeoIpFrame, AbuseFrame,
           OtxFrame, SaveFrame, PatchFrame, DshieldFrame, DrainFrame, MarkSentFrame,
           CaptureFrame, ClearFrame, TickFrame, RenameFrame, PulseDeletedFrame DEF Next, TaskStep

(* The events of a report are the beginning of the recording, whole unless *)
(* the report says it is cut, within every limit and one for each turn,    *)
(* whatever the recording and the budget (hub_build_events_).              *)
THEOREM UploadsAreFaithful == Spec => []UploadFaithful
<1>1. Init => UploadFaithful
  <2>1. DOMAIN <<>> = {}
    OBVIOUS
  <2> QED BY <2>1 DEF Init, UploadFaithful
<1> QED BY <1>1, UploadStep, PTL DEF Spec
===============================================================================
