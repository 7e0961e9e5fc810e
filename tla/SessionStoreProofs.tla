------------------------- MODULE SessionStoreProofs -------------------------
(***************************************************************************)
(* The recordings fit together, and a pass of the quota is fair, for any   *)
(* number of sessions, limits and interleaving of recorders, readers,      *)
(* clears and restarts.                                                    *)
(***************************************************************************)
EXTENDS SessionStore, Integers, FiniteSetTheorems, NaturalsInduction, WellFoundedInduction, TLAPS

(***************************************************************************)
(* Sums. The sum of a set is a fold: a function on its subsets, chosen     *)
(* among those that satisfy its equation.                                  *)
(***************************************************************************)
Chosen(s) == CHOOSE x \in s : TRUE
Sums(f, S, it) ==
    it = [s \in SUBSET S |-> IF s = {} THEN 0 ELSE f[Chosen(s)] + it[s \ {Chosen(s)}]]
SumOver(f, S) == CHOOSE it : Sums(f, S, it)

(* A set of natural numbers has a least one.                               *)
LEMMA LeastNatural ==
    ASSUME NEW S \in SUBSET Nat, S # {}
    PROVE  \E x \in S : \A y \in S : x <= y
<1> DEFINE R == OpToRel(<, Nat)
<1>1. IsWellFoundedOn(R, Nat)
  BY NatLessThanWellFounded
<1>2. PICK x \in S : \A y \in S : ~ (<<y, x>> \in R)
  <2> HIDE DEF R
  <2> QED BY <1>1, WFMin
<1>3. \A y \in S : ~ (y < x)
  BY <1>2 DEF OpToRel
<1> QED BY <1>3

(* A set without the element chosen from it is one smaller.                *)
LEMMA OneLess ==
    ASSUME NEW S, IsFiniteSet(S), NEW s \in SUBSET S, s # {}
    PROVE  /\ Chosen(s) \in s /\ Chosen(s) \in S /\ s \ {Chosen(s)} \in SUBSET S
           /\ IsFiniteSet(s) /\ Cardinality(s) \in Nat
           /\ Cardinality(s \ {Chosen(s)}) = Cardinality(s) - 1
           /\ Cardinality(s \ {Chosen(s)}) \in Nat
<1>1. Chosen(s) \in s
  BY DEF Chosen
<1>2. IsFiniteSet(s)
  BY FS_Subset
<1>3. IsFiniteSet(s \ {Chosen(s)}) /\ Cardinality(s \ {Chosen(s)}) = Cardinality(s) - 1
  BY <1>1, <1>2, FS_RemoveElement
<1> QED BY <1>1, <1>2, <1>3, FS_CardinalityType

(* Such a function exists: built up by the size of the subsets.            *)
LEMMA SumsExist ==
    ASSUME NEW S, IsFiniteSet(S), NEW f
    PROVE  Sums(f, S, SumOver(f, S))
<1> DEFINE Below(n) == {s \in SUBSET S : Cardinality(s) <= n}
           At(g, s) == IF s = {} THEN 0 ELSE f[Chosen(s)] + g[s \ {Chosen(s)}]
           UpTo(n) == \E g : g = [s \in Below(n) |-> At(g, s)]
           C == {n \in Nat : ~UpTo(n)}
<1>1. UpTo(0)
  <2> DEFINE g == [s \in Below(0) |-> 0]
  <2>1. ASSUME NEW s \in Below(0) PROVE s = {}
    <3>1. s \in SUBSET S /\ Cardinality(s) <= 0
      OBVIOUS
    <3>2. IsFiniteSet(s) /\ Cardinality(s) \in Nat
      BY <3>1, FS_Subset, FS_CardinalityType
    <3>3. Cardinality(s) = 0
      BY <3>1, <3>2
    <3> QED BY <3>2, <3>3, FS_EmptySet
  <2>2. \A s \in Below(0) : At(g, s) = 0
    <3> HIDE DEF Below
    <3> QED BY <2>1
  <2>3. g = [s \in Below(0) |-> At(g, s)]
    <3> HIDE DEF At, Below
    <3> QED BY <2>2
  <2> QED BY <2>3
<1>2. ASSUME NEW n \in Nat, UpTo(n) PROVE UpTo(n + 1)
  <2>1. PICK g : g = [s \in Below(n) |-> At(g, s)]
    BY <1>2
  <2> DEFINE h == [s \in Below(n + 1) |-> At(g, s)]
  <2>2. ASSUME NEW s \in Below(n) PROVE s \in Below(n + 1) /\ h[s] = g[s]
    <3>1. s \in Below(n + 1)
      <4>1. s \in SUBSET S /\ Cardinality(s) <= n
        OBVIOUS
      <4>2. Cardinality(s) \in Nat
        BY <4>1, FS_Subset, FS_CardinalityType
      <4> QED BY <4>1, <4>2
    <3>2. g[s] = At(g, s)
      <4> HIDE DEF At, Below
      <4> QED BY <2>1
    <3>3. h[s] = At(g, s)
      <4> HIDE DEF At, Below
      <4> QED BY <3>1
    <3> QED BY <3>1, <3>2, <3>3
  <2>3. ASSUME NEW s \in Below(n + 1) PROVE At(h, s) = At(g, s)
    <3>1. CASE s = {}
      BY <3>1
    <3>2. CASE s # {}
      <4> DEFINE t == s \ {Chosen(s)}
      <4>1. s \in SUBSET S /\ Cardinality(s) <= n + 1
        OBVIOUS
      <4>2. t \in SUBSET S /\ Cardinality(t) = Cardinality(s) - 1 /\ Cardinality(s) \in Nat
        BY <3>2, <4>1, OneLess
      <4>3. Cardinality(t) <= n
        BY <4>1, <4>2
      <4>4. t \in Below(n)
        <5> HIDE DEF t
        <5> QED BY <4>2, <4>3
      <4>5. h[t] = g[t]
        <5> HIDE DEF t, h, Below
        <5> QED BY <2>2, <4>4
      <4> QED
        <5> HIDE DEF h, Below
        <5> QED BY <3>2, <4>5
    <3> QED BY <3>1, <3>2
  <2>4. h = [s \in Below(n + 1) |-> At(h, s)]
    <3> HIDE DEF At, Below
    <3> QED BY <2>3
  <2> QED
    <3> HIDE DEF h, At, Below
    <3> QED BY <2>4
<1>3. \A n \in Nat : UpTo(n)
  <2> SUFFICES ASSUME C # {} PROVE FALSE
    <3> HIDE DEF UpTo
    <3> QED OBVIOUS
  <2> HIDE DEF UpTo
  <2>1. PICK n \in C : \A m \in C : n <= m
    BY LeastNatural
  <2>2. n \in Nat /\ ~UpTo(n)
    BY <2>1
  <2>3. n # 0
    BY <1>1, <2>2
  <2>4. n - 1 \in Nat /\ ~(n <= n - 1)
    BY <2>2, <2>3
  <2>5. UpTo(n - 1)
    BY <2>1, <2>4
  <2>6. UpTo((n - 1) + 1)
    BY <1>2, <2>4, <2>5
  <2>7. (n - 1) + 1 = n
    BY <2>2
  <2> QED BY <2>2, <2>6, <2>7
<1>4. Below(Cardinality(S)) = SUBSET S
  BY FS_Subset
<1>5. Cardinality(S) \in Nat
  BY FS_CardinalityType
<1>6. PICK g : g = [s \in Below(Cardinality(S)) |-> At(g, s)]
  <2> HIDE DEF Below, At
  <2> QED BY <1>3, <1>5
<1>7. g = [s \in SUBSET S |-> At(g, s)]
  <2> HIDE DEF Below, At
  <2> QED BY <1>4, <1>6
<1>8. Sums(f, S, g)
  BY <1>7 DEF Sums
<1> QED
  <2> HIDE DEF Below, At, UpTo, C
  <2> QED BY <1>8, Zenon DEF SumOver

(* Its equation, one subset at a time.                                     *)
LEMMA SumAt ==
    ASSUME NEW S, IsFiniteSet(S), NEW f, NEW s \in SUBSET S
    PROVE  SumOver(f, S)[s] = IF s = {} THEN 0
                              ELSE f[Chosen(s)] + SumOver(f, S)[s \ {Chosen(s)}]
<1> DEFINE it == SumOver(f, S)
<1>1. Sums(f, S, it)
  BY SumsExist
<1> HIDE DEF it
<1>2. it = [t \in SUBSET S |-> IF t = {} THEN 0 ELSE f[Chosen(t)] + it[t \ {Chosen(t)}]]
  BY <1>1 DEF Sums
<1>3. it[s] = IF s = {} THEN 0 ELSE f[Chosen(s)] + it[s \ {Chosen(s)}]
  BY <1>2
<1> QED BY <1>3 DEF it

(* Max of a finite set of naturals is in it and above all of it.           *)
LEMMA MaxIsMax ==
    ASSUME NEW S \in SUBSET Nat, S # {}, IsFiniteSet(S)
    PROVE  Max(S) \in S /\ \A y \in S : Max(S) >= y
<1> DEFINE Bad(T) == T # {} /\ IsFiniteSet(T) /\ ~(\E x \in T : \A y \in T : x >= y)
           C == {n \in Nat : \E T \in SUBSET Nat : Bad(T) /\ Cardinality(T) = n}
<1>1. C = {}
  <2> SUFFICES ASSUME C # {} PROVE FALSE
    OBVIOUS
  <2>1. PICK n \in C : \A m \in C : n <= m
    BY LeastNatural
  <2>2. PICK T \in SUBSET Nat : Bad(T) /\ Cardinality(T) = n
    BY <2>1
  <2>3. PICK t \in T : TRUE
    BY <2>2
  <2> DEFINE R == T \ {t}
  <2>4. IsFiniteSet(R) /\ Cardinality(R) = n - 1 /\ R \in SUBSET Nat
    BY <2>2, <2>3, FS_RemoveElement
  <2>5. Cardinality(R) \in Nat
    BY <2>4, FS_CardinalityType
  <2>6. ~Bad(R)
    <3> SUFFICES ASSUME Bad(R) PROVE FALSE
      OBVIOUS
    <3>1. Cardinality(R) \in C
      BY <2>4, <2>5
    <3>2. n \in Nat /\ n <= Cardinality(R) /\ Cardinality(R) = n - 1
      <4>1. n \in Nat
        BY <2>1
      <4>2. n <= Cardinality(R)
        <5> HIDE DEF C, R
        <5> QED BY <2>1, <3>1
      <4> QED BY <2>4, <4>1, <4>2
    <3> QED
      <4> HIDE DEF C, R, Bad
      <4> QED BY <3>2
  <2>7. CASE R = {}
    <3>1. \A y \in T : y = t
      BY <2>7
    <3> QED BY <2>2, <2>3, <3>1
  <2>8. CASE R # {}
    <3>1. PICK m \in R : \A y \in R : m >= y
      BY <2>4, <2>6, <2>8
    <3> DEFINE b == IF m >= t THEN m ELSE t
    <3>2. b \in T /\ \A y \in T : b >= y
      BY <2>3, <2>4, <3>1
    <3> QED BY <2>2, <3>2
  <2> QED BY <2>7, <2>8
<1>2. ~Bad(S)
  <2>1. Cardinality(S) \in Nat
    BY FS_CardinalityType
  <2> QED BY <1>1, <2>1
<1>3. \E x \in S : \A y \in S : x >= y
  BY <1>2
<1> QED BY <1>3 DEF Max

(* The sum, and what it is in the model.                                   *)
Total(f, S) == SumOver(f, S)[S]

LEMMA TotalIs == ASSUME NEW f, NEW S PROVE MapThenSumSet(LAMBDA n : f[n], S) = Total(f, S)
BY DEF MapThenSumSet, MapThenFoldSet, Total, SumOver, Sums, Chosen

(* A sum is that of its set and values, whatever they are part of.         *)
LEMMA SumAgrees ==
    ASSUME NEW S, IsFiniteSet(S), NEW T, IsFiniteSet(T), NEW f, NEW g,
           NEW U \in SUBSET (S \cap T), \A x \in U : f[x] = g[x]
    PROVE  SumOver(f, S)[U] = SumOver(g, T)[U]
<1> DEFINE i == SumOver(f, S)
           j == SumOver(g, T)
           C == {n \in Nat : \E s \in SUBSET U : Cardinality(s) = n /\ i[s] # j[s]}
<1>1. ASSUME NEW s \in SUBSET U
      PROVE  /\ i[s] = IF s = {} THEN 0 ELSE f[Chosen(s)] + i[s \ {Chosen(s)}]
             /\ j[s] = IF s = {} THEN 0 ELSE g[Chosen(s)] + j[s \ {Chosen(s)}]
  <2>1. s \in SUBSET S /\ s \in SUBSET T
    OBVIOUS
  <2> QED BY <2>1, SumAt
<1> HIDE DEF i, j
<1>2. IsFiniteSet(U) /\ Cardinality(U) \in Nat
  BY FS_Subset, FS_CardinalityType
<1>3. C = {}
  <2> SUFFICES ASSUME C # {} PROVE FALSE
    OBVIOUS
  <2>1. PICK n \in C : \A m \in C : n <= m
    BY LeastNatural
  <2>2. PICK s \in SUBSET U : Cardinality(s) = n /\ i[s] # j[s]
    BY <2>1
  <2>3. s # {}
    BY <1>1, <2>2
  <2> DEFINE t == s \ {Chosen(s)}
             c == Chosen(s)
  <2>4. /\ c \in U /\ t \in SUBSET U /\ Cardinality(s) \in Nat
        /\ Cardinality(t) = Cardinality(s) - 1 /\ Cardinality(t) \in Nat
    BY <1>2, <2>3, OneLess
  <2>5. i[s] = f[c] + i[t] /\ j[s] = g[c] + j[t]
    BY <1>1, <2>3
  <2> HIDE DEF t, c
  <2>6. i[t] # j[t]
    BY <2>2, <2>4, <2>5
  <2>7. Cardinality(t) \in C
    BY <2>4, <2>6
  <2>8. n <= Cardinality(t)
    <3> HIDE DEF C
    <3> QED BY <2>1, <2>7
  <2> QED
    <3> HIDE DEF C
    <3> QED BY <2>2, <2>4, <2>8
<1>4. i[U] = j[U]
  BY <1>2, <1>3
<1> QED BY <1>4 DEF i, j

LEMMA TotalAgrees ==
    ASSUME NEW S, IsFiniteSet(S), NEW f, NEW g, \A x \in S : f[x] = g[x]
    PROVE  Total(f, S) = Total(g, S)
BY SumAgrees DEF Total

LEMMA TotalOfNone == ASSUME NEW f PROVE Total(f, {}) = 0
BY SumAt, FS_EmptySet DEF Total

(* The element the fold takes first, split off.                            *)
LEMMA TotalChosen ==
    ASSUME NEW S, IsFiniteSet(S), NEW f, S # {}
    PROVE  Total(f, S) = f[Chosen(S)] + Total(f, S \ {Chosen(S)})
<1> DEFINE T == S \ {Chosen(S)}
<1>1. T \in SUBSET S /\ IsFiniteSet(T)
  BY FS_Subset
<1>2. SumOver(f, S)[S] = f[Chosen(S)] + SumOver(f, S)[T]
  BY SumAt
<1>3. SumOver(f, S)[T] = SumOver(f, T)[T]
  <2> HIDE DEF T
  <2> QED BY <1>1, SumAgrees
<1> QED BY <1>2, <1>3 DEF Total

(* A sum of integers is one.                                               *)
LEMMA TotalType ==
    ASSUME NEW S, IsFiniteSet(S), NEW f, \A x \in S : f[x] \in Int
    PROVE  Total(f, S) \in Int
<1> DEFINE C == {n \in Nat : \E s \in SUBSET S : Cardinality(s) = n /\ Total(f, s) \notin Int}
<1>1. C = {}
  <2> SUFFICES ASSUME C # {} PROVE FALSE
    OBVIOUS
  <2>1. PICK n \in C : \A m \in C : n <= m
    BY LeastNatural
  <2>2. PICK s \in SUBSET S : Cardinality(s) = n /\ Total(f, s) \notin Int
    BY <2>1
  <2>3. s # {}
    BY <2>2, TotalOfNone
  <2> DEFINE t == s \ {Chosen(s)}
             c == Chosen(s)
  <2>4. /\ c \in S /\ t \in SUBSET S /\ Cardinality(s) \in Nat /\ IsFiniteSet(s)
        /\ Cardinality(t) = Cardinality(s) - 1 /\ Cardinality(t) \in Nat
    BY <2>3, OneLess
  <2>5. Total(f, s) = f[c] + Total(f, t)
    BY <2>3, <2>4, TotalChosen
  <2> HIDE DEF t, c
  <2>6. Total(f, t) \notin Int
    BY <2>2, <2>4, <2>5
  <2>7. Cardinality(t) \in C
    BY <2>4, <2>6
  <2>8. n <= Cardinality(t)
    <3> HIDE DEF C
    <3> QED BY <2>1, <2>7
  <2> QED
    <3> HIDE DEF C
    <3> QED BY <2>2, <2>4, <2>8
<1>2. Cardinality(S) \in Nat
  BY FS_CardinalityType
<1> QED BY <1>1, <1>2

(* Any element can be split off.                                           *)
LEMMA TotalSplit ==
    ASSUME NEW S, IsFiniteSet(S), NEW f, \A x \in S : f[x] \in Int, NEW r \in S
    PROVE  Total(f, S) = f[r] + Total(f, S \ {r})
<1> DEFINE Good(s) == \A x \in s : Total(f, s) = f[x] + Total(f, s \ {x})
           C == {n \in Nat : \E s \in SUBSET S : Cardinality(s) = n /\ ~Good(s)}
<1>0. ASSUME NEW s \in SUBSET S PROVE IsFiniteSet(s) /\ Cardinality(s) \in Nat /\ Total(f, s) \in Int
  <2>1. IsFiniteSet(s)
    BY FS_Subset
  <2> QED BY <2>1, FS_CardinalityType, TotalType
<1>1. C = {}
  <2> SUFFICES ASSUME C # {} PROVE FALSE
    OBVIOUS
  <2>1. PICK n \in C : \A m \in C : n <= m
    BY LeastNatural
  <2>2. PICK s \in SUBSET S : Cardinality(s) = n /\ ~Good(s)
    BY <2>1
  <2>3. PICK x \in s : Total(f, s) # f[x] + Total(f, s \ {x})
    BY <2>2
  <2>4. ASSUME NEW t \in SUBSET S, Cardinality(t) < n PROVE Good(t)
    <3> SUFFICES ASSUME ~Good(t) PROVE FALSE
      OBVIOUS
    <3>1. Cardinality(t) \in C
      <4> HIDE DEF Good
      <4> QED BY <1>0
    <3>2. n <= Cardinality(t)
      <4> HIDE DEF C
      <4> QED BY <2>1, <3>1
    <3>3. n \in Nat /\ Cardinality(t) \in Nat
      BY <2>1, <1>0
    <3> QED BY <2>4, <3>2, <3>3
  <2> HIDE DEF C
  <2> DEFINE c == Chosen(s)
             t == s \ {c}
             u == s \ {x}
             v == s \ {c, x}
  <2>5. c \in s /\ c # x
    <3>1. c \in s
      BY <2>3 DEF Chosen
    <3>2. Total(f, s) = f[c] + Total(f, s \ {c})
      BY <1>0, <2>3, TotalChosen
    <3> QED BY <2>3, <3>1, <3>2
  <2>6. /\ Cardinality(t) = Cardinality(s) - 1 /\ Cardinality(u) = Cardinality(s) - 1
        /\ Cardinality(s) \in Nat
    BY <1>0, <2>3, <2>5, FS_RemoveElement
  <2>7. Total(f, s) = f[c] + Total(f, t)
    BY <1>0, <2>3, TotalChosen
  <2> HIDE DEF c
  <2>8. Total(f, t) = f[x] + Total(f, v)
    <3>1. Good(t)
      BY <2>2, <2>4, <2>6
    <3>2. x \in t /\ t \ {x} = v
      BY <2>3, <2>5
    <3> QED BY <3>1, <3>2
  <2>9. Total(f, u) = f[c] + Total(f, v)
    <3>1. Good(u)
      BY <2>2, <2>4, <2>6
    <3>2. c \in u /\ u \ {c} = v
      BY <2>3, <2>5
    <3> QED BY <3>1, <3>2
  <2>10. f[c] \in Int /\ f[x] \in Int /\ Total(f, v) \in Int
    BY <1>0, <2>3, <2>5
  <2>11. Total(f, s) # f[x] + Total(f, u)
    BY <2>3
  <2> HIDE DEF t, u, v
  <2> QED BY <2>7, <2>8, <2>9, <2>10, <2>11
<1>2. Good(S)
  <2> HIDE DEF Good
  <2> QED BY <1>0, <1>1
<1> QED BY <1>2

(* More of at least as much is at least as much.                           *)
LEMMA TotalGrows ==
    ASSUME NEW T, IsFiniteSet(T), NEW S \in SUBSET T, NEW f, NEW g,
           \A x \in T : g[x] \in Nat, \A x \in S : f[x] \in Nat /\ f[x] <= g[x]
    PROVE  Total(f, S) <= Total(g, T)
<1> DEFINE Below(t) == Total(f, S \cap t) <= Total(g, t)
           C == {n \in Nat : \E t \in SUBSET T : Cardinality(t) = n /\ ~Below(t)}
<1>0. ASSUME NEW t \in SUBSET T
      PROVE  /\ IsFiniteSet(t) /\ Cardinality(t) \in Nat /\ IsFiniteSet(S \cap t)
             /\ Total(g, t) \in Int /\ Total(f, S \cap t) \in Int
  <2>1. IsFiniteSet(t) /\ IsFiniteSet(S \cap t)
    BY FS_Subset
  <2> QED BY <2>1, FS_CardinalityType, TotalType
<1>1. C = {}
  <2> SUFFICES ASSUME C # {} PROVE FALSE
    OBVIOUS
  <2>1. PICK n \in C : \A m \in C : n <= m
    BY LeastNatural
  <2>2. PICK s \in SUBSET T : Cardinality(s) = n /\ ~Below(s)
    BY <2>1
  <2>3. s # {}
    <3> SUFFICES ASSUME s = {} PROVE FALSE
      OBVIOUS
    <3>1. S \cap s = {}
      OBVIOUS
    <3> QED BY <2>2, <3>1, TotalOfNone
  <2>4. PICK x \in s : TRUE
    BY <2>3
  <2> DEFINE t == s \ {x}
             a == Total(f, S \cap t)
             b == Total(g, t)
             p == Total(f, S \cap s)
             q == Total(g, s)
  <2>5. Cardinality(t) = Cardinality(s) - 1 /\ Cardinality(s) \in Nat /\ Cardinality(t) \in Nat
    BY <1>0, <2>4, FS_RemoveElement
  <2>6. Below(t)
    <3> SUFFICES ASSUME ~Below(t) PROVE FALSE
      OBVIOUS
    <3>1. Cardinality(t) \in C
      <4> HIDE DEF Below
      <4> QED BY <2>2, <2>5
    <3>2. n <= Cardinality(t)
      <4> HIDE DEF C
      <4> QED BY <2>1, <3>1
    <3>3. n \in Nat /\ Cardinality(t) = n - 1
      BY <2>2, <2>5
    <3> HIDE DEF C, t, Below
    <3> QED BY <3>2, <3>3
  <2>7. q = g[x] + b /\ g[x] \in Nat
    <3>1. IsFiniteSet(s) /\ x \in s /\ x \in T
      BY <1>0, <2>4
    <3>2. \A y \in s : g[y] \in Int
      OBVIOUS
    <3>3. Total(g, s) = g[x] + Total(g, s \ {x})
      BY <3>1, <3>2, TotalSplit
    <3> QED BY <3>1, <3>3
  <2>8. a \in Int /\ b \in Int /\ p \in Int /\ q \in Int
    BY <1>0, <2>2
  <2>9. a <= b /\ ~(p <= q)
    BY <2>2, <2>6
  <2>10. CASE x \in S
    <3>1. x \in S \cap s /\ (S \cap s) \ {x} = S \cap t
      BY <2>4, <2>10
    <3>2. p = f[x] + a
      <4>1. IsFiniteSet(S \cap s) /\ \A y \in S \cap s : f[y] \in Int
        BY <1>0
      <4>2. Total(f, S \cap s) = f[x] + Total(f, (S \cap s) \ {x})
        BY <3>1, <4>1, TotalSplit
      <4> QED BY <3>1, <4>2
    <3>3. f[x] \in Nat /\ f[x] <= g[x]
      BY <2>10
    <3> HIDE DEF t, a, b, p, q
    <3> QED BY <2>7, <2>8, <2>9, <3>2, <3>3
  <2>11. CASE x \notin S
    <3>1. S \cap s = S \cap t
      BY <2>4, <2>11
    <3>2. p = a
      BY <3>1
    <3> HIDE DEF t, a, b, p, q
    <3> QED BY <2>7, <2>8, <2>9, <3>2
  <2> QED BY <2>10, <2>11
<1>2. Cardinality(T) \in Nat /\ S \cap T = S
  BY FS_CardinalityType
<1>3. Below(T)
  <2> HIDE DEF Below
  <2> QED BY <1>1, <1>2
<1> QED BY <1>2, <1>3

(***************************************************************************)
(* Listings.                                                               *)
(***************************************************************************)

(* storage_list_dir gives every file once, newest name first.              *)
LEMMA ListDirIs ==
    ASSUME IsFiniteSet(DOMAIN files), \A n \in DOMAIN files : Rank(n) \in Nat,
           \A m, n \in DOMAIN files : Rank(m) = Rank(n) => m = n
    PROVE  /\ ListDir \in Seq(DOMAIN files)
           /\ \A i, j \in DOMAIN ListDir : i < j => Rank(ListDir[i]) > Rank(ListDir[j])
           /\ \A n \in DOMAIN files : \E i \in DOMAIN ListDir : ListDir[i] = n
<1> DEFINE F == DOMAIN files
           N == Cardinality(F)
           place == [n \in F |-> Cardinality(Newer(n))]
<1>1. N \in Nat /\ DOMAIN ListDir = 1..N
  BY FS_CardinalityType DEF ListDir
<1>2. ASSUME NEW n \in F
      PROVE  /\ IsFiniteSet(Newer(n)) /\ Newer(n) \in SUBSET F /\ n \in Newer(n)
             /\ Cardinality(Newer(n)) \in 1..N
  <2>1. Newer(n) \in SUBSET F /\ n \in Newer(n)
    BY DEF Newer
  <2>2. IsFiniteSet(Newer(n)) /\ Cardinality(Newer(n)) <= N
    BY <2>1, FS_Subset
  <2>3. Cardinality(Newer(n)) \in Nat /\ Cardinality(Newer(n)) # 0
    BY <2>1, <2>2, FS_CardinalityType, FS_EmptySet
  <2> QED BY <1>1, <2>1, <2>2, <2>3
<1>3. ASSUME NEW m \in F, NEW n \in F, Rank(m) >= Rank(n)
      PROVE  place[m] <= place[n]
  <2>1. Newer(m) \in SUBSET Newer(n)
    BY <1>3 DEF Newer
  <2>2. Cardinality(Newer(m)) <= Cardinality(Newer(n))
    BY <1>2, <2>1, FS_Subset
  <2> QED BY <2>2
<1>4. \A m, n \in F : Rank(m) = Rank(n) => m = n
  OBVIOUS
<1>5. ASSUME NEW m \in F, NEW n \in F, place[m] = place[n] PROVE m = n
  <2>1. ASSUME NEW x \in F, NEW y \in F, place[x] = place[y], Rank(x) < Rank(y) PROVE FALSE
    <3>1. Newer(y) \in SUBSET Newer(x) /\ x \notin Newer(y)
      BY <2>1 DEF Newer
    <3>2. Newer(x) = Newer(y)
      BY <1>2, <2>1, <3>1, FS_Subset
    <3> QED BY <1>2, <3>1, <3>2
  <2>2. Rank(m) = Rank(n) \/ Rank(m) < Rank(n) \/ Rank(n) < Rank(m)
    OBVIOUS
  <2> QED BY <1>4, <1>5, <2>1, <2>2
<1>6. place \in Surjection(F, 1..N)
  <2>1. place \in [F -> 1..N]
    BY <1>2
  <2>2. place \in Injection(F, 1..N)
    <3> HIDE DEF place
    <3> QED BY <1>5, <2>1 DEF Injection, IsInjective
  <2>3. IsFiniteSet(1..N) /\ Cardinality(1..N) = N
    BY <1>1, FS_Interval
  <2> HIDE DEF place
  <2> QED BY <2>2, <2>3, FS_Injection
<1>7. ASSUME NEW i \in 1..N PROVE ListDir[i] \in F /\ place[ListDir[i]] = i
  <2>1. \E n \in F : place[n] = i
    <3> HIDE DEF place
    <3> QED BY <1>6 DEF Surjection
  <2>2. \E n \in F : Cardinality(Newer(n)) = i
    BY <2>1
  <2>3. ListDir[i] = CHOOSE n \in F : Cardinality(Newer(n)) = i
    BY DEF ListDir
  <2> QED BY <2>2, <2>3
<1>8. ListDir \in Seq(F)
  <2>1. ListDir \in [1..N -> F]
    BY <1>7 DEF ListDir
  <2> QED BY <1>1, <2>1
<1>9. ASSUME NEW i \in 1..N, NEW j \in 1..N, i < j
      PROVE  Rank(ListDir[i]) > Rank(ListDir[j])
  <2> DEFINE m == ListDir[i]
             n == ListDir[j]
  <2>1. m \in F /\ n \in F /\ place[m] = i /\ place[n] = j
    BY <1>7
  <2> HIDE DEF m, n, place
  <2>2. ~(Rank(n) >= Rank(m))
    BY <1>3, <1>9, <2>1
  <2>3. Rank(m) \in Nat /\ Rank(n) \in Nat
    BY <2>1
  <2>4. Rank(m) > Rank(n)
    BY <2>2, <2>3
  <2> QED BY <2>4 DEF m, n
<1>10. ASSUME NEW n \in F PROVE \E i \in 1..N : ListDir[i] = n
  <2>1. place[n] \in 1..N
    BY <1>2
  <2> HIDE DEF place
  <2>2. place[ListDir[place[n]]] = place[n] /\ ListDir[place[n]] \in F
    BY <1>7, <2>1
  <2> QED BY <1>5, <2>1, <2>2
<1> QED BY <1>1, <1>8, <1>9, <1>10

(* The names a list of a pass still has, and the sizes it read.            *)
NamesOf(L) == {L[i].name : i \in DOMAIN L}
SizeOf(L)  == [n \in NamesOf(L) |-> L[CHOOSE i \in DOMAIN L : L[i].name = n].sz]
Entries    == [name : Names, sz : Nat]
Distinct(L) == \A i, j \in DOMAIN L : L[i].name = L[j].name => i = j

LEMMA SizeIs ==
    ASSUME NEW L, Distinct(L), NEW i \in DOMAIN L
    PROVE  L[i].name \in NamesOf(L) /\ SizeOf(L)[L[i].name] = L[i].sz
<1>1. L[i].name \in NamesOf(L)
  BY DEF NamesOf
<1>2. \A j \in DOMAIN L : L[j].name = L[i].name => j = i
  BY DEF Distinct
<1>3. (CHOOSE j \in DOMAIN L : L[j].name = L[i].name) = i
  BY <1>2
<1> QED BY <1>1, <1>3 DEF SizeOf

(* A list without double names has as many names as places.                *)
LEMMA NamesCounted ==
    ASSUME NEW L \in Seq(Entries), Distinct(L)
    PROVE  IsFiniteSet(NamesOf(L)) /\ Cardinality(NamesOf(L)) = Len(L)
<1> DEFINE f == [i \in 1..Len(L) |-> L[i].name]
<1>1. Len(L) \in Nat /\ DOMAIN L = 1..Len(L)
  OBVIOUS
<1>2. f \in [1..Len(L) -> NamesOf(L)]
  BY <1>1 DEF NamesOf
<1>3. f \in Surjection(1..Len(L), NamesOf(L))
  <2>1. \A n \in NamesOf(L) : \E i \in 1..Len(L) : f[i] = n
    BY <1>1 DEF NamesOf
  <2> HIDE DEF f
  <2> QED BY <1>2, <2>1 DEF Surjection
<1>4. f \in Injection(1..Len(L), NamesOf(L))
  <2>1. \A i, j \in 1..Len(L) : f[i] = f[j] => i = j
    BY <1>1 DEF Distinct
  <2> HIDE DEF f
  <2> QED BY <1>2, <2>1 DEF Injection, IsInjective
<1>5. IsFiniteSet(1..Len(L)) /\ Cardinality(1..Len(L)) = Len(L)
  BY <1>1, FS_Interval
<1> HIDE DEF f
<1>6. ExistsBijection(1..Len(L), NamesOf(L))
  BY <1>3, <1>4 DEF ExistsBijection, Bijection
<1> QED BY <1>5, <1>6, FS_Bijection

LEMMA NamesAre ==
    ASSUME NEW L \in Seq(Entries)
    PROVE  /\ NamesOf(L) \subseteq Names
           /\ \A n \in NamesOf(L) : SizeOf(L)[n] \in Nat
<1>1. \A i \in DOMAIN L : L[i].name \in Names /\ L[i].sz \in Nat
  <2>1. \A i \in DOMAIN L : L[i] \in Entries
    OBVIOUS
  <2> QED BY <2>1 DEF Entries
<1>2. \A n \in NamesOf(L) : \E i \in DOMAIN L : L[i].name = n
  BY DEF NamesOf
<1>3. \A n \in NamesOf(L) : (CHOOSE i \in DOMAIN L : L[i].name = n) \in DOMAIN L
  BY <1>2
<1> QED BY <1>1, <1>2, <1>3 DEF SizeOf

(* Taking the last entry off a list.                                       *)
LEMMA Pops ==
    ASSUME NEW L \in Seq(Entries), Distinct(L), L # <<>>
    PROVE  /\ Front(L) \in Seq(Entries) /\ Len(Front(L)) = Len(L) - 1
           /\ DOMAIN Front(L) = 1..(Len(L) - 1) /\ Len(L) \in DOMAIN L
           /\ \A i \in 1..(Len(L) - 1) : i \in DOMAIN L /\ Front(L)[i] = L[i]
           /\ Distinct(Front(L)) /\ Last(L) \in Entries
           /\ Last(L).name \in NamesOf(L) /\ SizeOf(L)[Last(L).name] = Last(L).sz
           /\ NamesOf(Front(L)) = NamesOf(L) \ {Last(L).name}
           /\ \A n \in NamesOf(Front(L)) : SizeOf(Front(L))[n] = SizeOf(L)[n]
<1> DEFINE K == Front(L)
           n == Len(L)
<1>1. n \in Nat \ {0} /\ DOMAIN L = 1..n /\ \A i \in 1..n : L[i] \in Entries
  OBVIOUS
<1>2. /\ K \in Seq(Entries) /\ Len(K) = n - 1 /\ DOMAIN K = 1..(n - 1)
      /\ \A i \in 1..(n - 1) : K[i] = L[i]
  <2>1. K = SubSeq(L, 1, n - 1)
    BY DEF Front
  <2>2. K = [i \in 1..(n - 1) |-> L[i]]
    BY <1>1, <2>1
  <2>3. K \in [1..(n - 1) -> Entries]
    BY <1>1, <2>2
  <2> HIDE DEF K
  <2>4. n - 1 \in Nat
    BY <1>1
  <2> HIDE DEF n
  <2> QED BY <2>2, <2>3, <2>4
<1>3. Last(L) = L[n] /\ n \in DOMAIN L
  BY <1>1 DEF Last
<1>4. \A i \in 1..(n - 1) : i \in DOMAIN L /\ i # n
  <2> HIDE DEF n
  <2> QED BY <1>1
<1> HIDE DEF K
<1>5. Distinct(K)
  BY <1>2, <1>4 DEF Distinct
<1>6. L[n].name \in NamesOf(L) /\ SizeOf(L)[L[n].name] = L[n].sz
  BY <1>3, SizeIs
<1>7. NamesOf(K) = NamesOf(L) \ {L[n].name}
  <2>1. ASSUME NEW i \in DOMAIN K
        PROVE  K[i].name \in NamesOf(L) /\ K[i].name # L[n].name
    <3>1. i \in DOMAIN L /\ i # n /\ K[i] = L[i]
      BY <1>2, <1>4
    <3> QED BY <1>3, <3>1 DEF Distinct, NamesOf
  <2>2. ASSUME NEW i \in DOMAIN L, L[i].name # L[n].name
        PROVE  \E j \in DOMAIN K : K[j].name = L[i].name
    <3>1. i \in 1..(n - 1)
      BY <1>1, <2>2
    <3> QED BY <1>2, <3>1
  <2> QED BY <2>1, <2>2 DEF NamesOf
<1>8. ASSUME NEW m \in NamesOf(K) PROVE SizeOf(K)[m] = SizeOf(L)[m]
  <2>1. PICK i \in DOMAIN K : K[i].name = m
    BY DEF NamesOf
  <2>2. i \in DOMAIN L /\ K[i] = L[i]
    BY <1>2, <1>4
  <2>3. SizeOf(K)[m] = K[i].sz
    BY <1>5, <2>1, SizeIs
  <2>4. SizeOf(L)[m] = L[i].sz
    BY <2>1, <2>2, SizeIs
  <2> QED BY <2>2, <2>3, <2>4
<1> QED BY <1>1, <1>2, <1>3, <1>4, <1>5, <1>6, <1>7, <1>8 DEF K

(***************************************************************************)
(* Types.                                                                  *)
(***************************************************************************)
Notes  == [fresh : SUBSET Names, kept : SUBSET Names, cleared : BOOLEAN, excused : SUBSET Sess]
Passes == [who : {"none", "main", "persister"}, pc : {"off", "drop", "side"},
           all : Seq(Entries), total : Nat]
Recs   == [phase : {"none", "open", "done"}, buf : Nat]

TypeInv ==
    /\ DOMAIN files \subseteq Names /\ \A n \in DOMAIN files : files[n] \in Nat
    /\ key \in [Sess -> Nat] /\ rec \in [Sess -> Recs]
    /\ reading \subseteq Names /\ up \in BOOLEAN
    /\ pass \in Passes /\ clr \in Seq(Names)
    /\ left \in [recs : Nat, events : Nat] /\ note \in Notes
    /\ pass.pc = "side" => pass.all # <<>>

LEMMA NamesFinite == IsFiniteSet(Names)
<1> DEFINE P == Sess \X {"cast", "side"}
           f == [p \in P |-> [ses |-> p[1], kind |-> p[2]]]
<1>1. IsFiniteSet({"cast", "side"})
  <2>1. IsFiniteSet({"cast"} \cup {"side"})
    BY FS_Singleton, FS_AddElement
  <2>2. {"cast"} \cup {"side"} = {"cast", "side"}
    OBVIOUS
  <2> QED BY <2>1, <2>2
<1>2. IsFiniteSet(P)
  BY <1>1, StoreAssumption, FS_Product
<1>3. f \in Surjection(P, Names)
  <2>1. f \in [P -> Names]
    BY DEF Names
  <2>2. ASSUME NEW n \in Names PROVE \E p \in P : f[p] = n
    <3>1. <<n.ses, n.kind>> \in P /\ n = [ses |-> n.ses, kind |-> n.kind]
      BY DEF Names
    <3> QED BY <3>1
  <2> HIDE DEF f
  <2> QED BY <2>1, <2>2 DEF Surjection
<1> QED BY <1>2, <1>3, FS_Surjection

LEMMA FilesFinite ==
    ASSUME TypeInv
    PROVE  /\ IsFiniteSet(DOMAIN files) /\ Cardinality(DOMAIN files) \in Nat
           /\ \A S \in SUBSET DOMAIN files :
                 IsFiniteSet(S) /\ Cardinality(S) \in Nat /\ Bytes(S) = Total(files, S)
                 /\ Bytes(S) \in Nat
<1>1. DOMAIN files \in SUBSET Names
  BY DEF TypeInv
<1>2. ASSUME NEW S \in SUBSET DOMAIN files
      PROVE  /\ IsFiniteSet(S) /\ Cardinality(S) \in Nat
             /\ Bytes(S) = Total(files, S) /\ Bytes(S) \in Nat
  <2>1. IsFiniteSet(S)
    BY <1>1, NamesFinite, FS_Subset
  <2>2. Bytes(S) = Total(files, S)
    BY TotalIs DEF Bytes
  <2>3. \A n \in S : files[n] \in Nat
    BY DEF TypeInv
  <2>4. Total(files, S) \in Int
    BY <2>1, <2>3, TotalType
  <2>5. Total(files, {}) <= Total(files, S)
    BY <2>1, <2>3, TotalGrows
  <2>6. Total(files, S) \in Nat
    BY <2>4, <2>5, TotalOfNone
  <2> QED BY <2>1, <2>2, <2>6, FS_CardinalityType
<1> QED BY <1>2

(* What writing to a file, and removing one, make of the directory.        *)
LEMMA GrowIs ==
    ASSUME TypeInv, NEW n \in Names, NEW k \in Nat, files' = Grow(n, k)
    PROVE  /\ DOMAIN files' = DOMAIN files \cup {n}
           /\ \A m \in DOMAIN files : m # n => files'[m] = files[m]
           /\ \A m \in DOMAIN files' : files'[m] \in Nat
           /\ \A m \in DOMAIN files : files[m] <= files'[m]
<1>1. DOMAIN files' = DOMAIN files \cup {n}
  BY DEF Grow
<1>2. \A m \in DOMAIN files : m # n => files'[m] = files[m]
  BY DEF Grow
<1>3. \A m \in DOMAIN files : files[m] \in Nat
  BY DEF TypeInv
<1>4. files'[n] = k + (IF n \in DOMAIN files THEN files[n] ELSE 0)
  BY DEF Grow
<1>5. files'[n] \in Nat /\ (n \in DOMAIN files => files[n] <= files'[n])
  <2>1. CASE n \in DOMAIN files
    BY <1>3, <1>4, <2>1
  <2>2. CASE n \notin DOMAIN files
    BY <1>4, <2>2
  <2> QED BY <2>1, <2>2
<1>6. ASSUME NEW m \in DOMAIN files PROVE files[m] <= files'[m] /\ files'[m] \in Nat
  <2>1. CASE m = n
    BY <1>5, <2>1
  <2>2. CASE m # n
    <3>1. files'[m] = files[m] /\ files[m] \in Nat
      BY <1>2, <1>3, <2>2
    <3> DEFINE a == files[m]
               b == files'[m]
    <3> HIDE DEF a, b
    <3>2. b = a /\ a \in Nat
      BY <3>1 DEF a, b
    <3>3. a <= b /\ b \in Nat
      BY <3>2
    <3> QED BY <3>3 DEF a, b
  <2> QED BY <2>1, <2>2
<1> QED BY <1>1, <1>2, <1>5, <1>6

LEMMA WithoutIs ==
    ASSUME TypeInv, NEW n, files' = Without(n)
    PROVE  /\ DOMAIN files' = DOMAIN files \ (IF Removable(n) THEN {n} ELSE {})
           /\ \A m \in DOMAIN files' : files'[m] = files[m] /\ files'[m] \in Nat
<1>1. CASE Removable(n)
  <2>1. files' = [m \in DOMAIN files \ {n} |-> files[m]]
    BY <1>1 DEF Without, Restrict
  <2>2. DOMAIN files' = DOMAIN files \ {n}
    BY <2>1
  <2>3. \A m \in DOMAIN files' : files'[m] = files[m]
    BY <2>1, <2>2
  <2> QED BY <1>1, <2>2, <2>3 DEF TypeInv
<1>2. CASE ~Removable(n)
  BY <1>2 DEF Without, TypeInv
<1> QED BY <1>1, <1>2

LEMMA TouchedIs ==
    ASSUME TypeInv, NEW n \in Names, note' = Touched(n)
    PROVE  /\ note' \in Notes /\ note'.kept = note.kept /\ note'.cleared = note.cleared
           /\ note'.excused = note.excused
           /\ pass.pc # "off" => note'.fresh = note.fresh \cup {n}
<1>1. note \in Notes
  BY DEF TypeInv
<1>2. CASE pass.pc = "off"
  <2>1. note' = note
    BY <1>2 DEF Touched
  <2> QED BY <1>1, <1>2, <2>1
<1>3. CASE pass.pc # "off"
  <2>1. note' = [note EXCEPT !.fresh = @ \cup {n}]
    BY <1>3 DEF Touched
  <2> QED BY <1>1, <2>1 DEF Notes
<1> QED BY <1>2, <1>3

Writes(n) == \E k \in Nat : files' = Grow(n, k) /\ note' = Touched(n)

(* What a step of a recorder touches.                                      *)
LEMMA RecorderSteps ==
    ASSUME TypeInv, NEW s \in Sess,
           RecorderBegin(s) \/ Record(s) \/ LogEvent(s) \/ Close(s)
    PROVE  /\ UNCHANGED <<reading, pass, clr, up>>
           /\ UNCHANGED <<files, note>> \/ \E n \in {Cast(s), Side(s)} : Writes(n)
           /\ rec' \in [Sess -> Recs] /\ left' \in [recs : Nat, events : Nat]
           /\ \A t \in Sess \ {s} : rec'[t] = rec[t]
<1>0. /\ rec \in [Sess -> Recs] /\ left \in [recs : Nat, events : Nat]
      /\ rec[s].buf \in Nat /\ rec[s].phase \in {"none", "open", "done"}
  BY DEF TypeInv, Recs
<1>1. CASE RecorderBegin(s)
  <2>1. UNCHANGED <<reading, pass, clr, up, left>>
    BY <1>1 DEF RecorderBegin
  <2>2. \/ rec' = [rec EXCEPT ![s].phase = "done"] /\ UNCHANGED <<files, note>>
        \/ /\ files' = Grow(Cast(s), 0) /\ note' = Touched(Cast(s))
           /\ rec' = [rec EXCEPT ![s] = [phase |-> "open", buf |-> 1]]
    BY <1>1 DEF RecorderBegin, Begin
  <2>3. UNCHANGED <<files, note>> \/ \E n \in {Cast(s), Side(s)} : Writes(n)
    BY <2>2 DEF Writes
  <2>4. rec' \in [Sess -> Recs] /\ \A t \in Sess \ {s} : rec'[t] = rec[t]
    BY <1>0, <2>2 DEF Recs
  <2> QED BY <1>0, <2>1, <2>3, <2>4
<1>2. CASE Record(s)
  <2>1. /\ UNCHANGED <<reading, pass, clr, up>> /\ left.recs > 0
        /\ left' = [left EXCEPT !.recs = @ - 1]
    BY <1>2 DEF Record
  <2>2. \/ rec' = [rec EXCEPT ![s].buf = @ + 1] /\ UNCHANGED <<files, note>>
        \/ /\ files' = Grow(Cast(s), rec[s].buf + 1) /\ note' = Touched(Cast(s))
           /\ rec' = [rec EXCEPT ![s].buf = 0]
    BY <1>2 DEF Record, Flush
  <2>3. UNCHANGED <<files, note>> \/ \E n \in {Cast(s), Side(s)} : Writes(n)
    BY <1>0, <2>2 DEF Writes
  <2>4. rec' \in [Sess -> Recs] /\ \A t \in Sess \ {s} : rec'[t] = rec[t]
    BY <1>0, <2>2 DEF Recs
  <2>5. left' \in [recs : Nat, events : Nat]
    BY <1>0, <2>1
  <2> QED BY <2>1, <2>3, <2>4, <2>5
<1>3. CASE LogEvent(s)
  <2>1. /\ UNCHANGED <<rec, reading, pass, clr, up>> /\ left.recs > 0
        /\ left' = [left EXCEPT !.recs = @ - 1]
        /\ files' = Grow(Side(s), 1) /\ note' = Touched(Side(s))
    BY <1>3 DEF LogEvent
  <2>2. \E n \in {Cast(s), Side(s)} : Writes(n)
    BY <2>1 DEF Writes
  <2>3. left' \in [recs : Nat, events : Nat]
    BY <1>0, <2>1
  <2> QED BY <1>0, <2>1, <2>2, <2>3
<1>4. CASE Close(s)
  <2>1. /\ UNCHANGED <<reading, pass, clr, up, left>>
        /\ files' = Grow(Cast(s), rec[s].buf + 0) /\ note' = Touched(Cast(s))
        /\ rec' = [rec EXCEPT ![s] = [phase |-> "done", buf |-> 0]]
    BY <1>4 DEF Close, Flush
  <2>2. \E n \in {Cast(s), Side(s)} : Writes(n)
    BY <1>0, <2>1 DEF Writes
  <2>3. rec' \in [Sess -> Recs] /\ \A t \in Sess \ {s} : rec'[t] = rec[t]
    BY <1>0, <2>1 DEF Recs
  <2> QED BY <1>0, <2>1, <2>2, <2>3
<1> QED BY <1>1, <1>2, <1>3, <1>4

LEMMA SessionNames == ASSUME NEW s \in Sess PROVE Cast(s) \in Names /\ Side(s) \in Names
BY DEF Cast, Side, Names

(* The keys recordings get are new, and few.                               *)
Begun == {s \in Sess : key[s] # 0}
KeysInv ==
    /\ \A s \in Sess : rec[s].phase = "none" => key[s] = 0
    /\ \A s \in Sess : rec[s].phase = "open" => key[s] # 0
    /\ \A s \in Sess : key[s] <= Cardinality(Sess) + Cardinality(Begun)
    /\ \A s, t \in Sess : key[s] = key[t] /\ key[s] # 0 => s = t

(* Only the start of a recording gives a key, to a session that has none.  *)
LEMMA KeyFrame ==
    ASSUME TypeInv, KeysInv, UNCHANGED key, NEW s \in Sess,
           \A t \in Sess \ {s} : rec'[t] = rec[t],
           \/ rec'[s].phase = rec[s].phase
           \/ rec'[s].phase = "done"
    PROVE  KeysInv'
BY DEF KeysInv, Begun

LEMMA BeginKeys ==
    ASSUME TypeInv, KeysInv, NEW s \in Sess, rec[s].phase = "none",
           NEW synced \in BOOLEAN, NEW k \in FreshKeys(synced),
           key' = [key EXCEPT ![s] = k],
           rec' = [rec EXCEPT ![s] = [phase |-> "open", buf |-> 1]]
    PROVE  /\ k \in Nat \ {0} /\ key' \in [Sess -> Nat] /\ KeysInv'
<1> DEFINE N == Cardinality(Sess)
           b == Cardinality(Begun)
           c == Cardinality(Begun')
<1>0. /\ key \in [Sess -> Nat] /\ rec \in [Sess -> Recs] /\ key[s] = 0
      /\ IsFiniteSet(Sess) /\ N \in Nat
  BY StoreAssumption, FS_CardinalityType DEF TypeInv, KeysInv
<1>1. IsFiniteSet(Begun) /\ b \in Nat /\ s \notin Begun
  <2>1. Begun \in SUBSET Sess /\ s \notin Begun
    BY <1>0 DEF Begun
  <2> QED BY <1>0, <2>1, FS_Subset, FS_CardinalityType
<1>2. k \in Nat /\ k # 0 /\ k <= N + b + 1 /\ k \notin Taken
  <2>1. CASE synced
    <3> DEFINE S == Taken \cup {N}
    <3>1. S \in SUBSET Nat /\ S # {}
      BY <1>0 DEF Taken
    <3>2. IsFiniteSet(S)
      <4>1. IsFiniteSet(Taken)
        <5> DEFINE f == [t \in Sess |-> key[t]]
        <5>1. f \in Surjection(Sess, Taken)
          BY DEF Surjection, Taken
        <5> QED BY <1>0, <5>1, FS_Surjection
      <4> QED BY <4>1, FS_AddElement
    <3>3. Max(S) \in S /\ \A y \in S : Max(S) >= y
      <4> HIDE DEF S
      <4> QED BY <3>1, <3>2, MaxIsMax
    <3>4. k = Max(S) + 1
      BY <2>1 DEF FreshKeys
    <3>5. \A y \in S : y \in Nat /\ y <= N + b
      <4>1. \A t \in Sess : key[t] <= N + b /\ key[t] \in Nat
        BY <1>0 DEF KeysInv
      <4> QED BY <1>0, <1>1, <4>1 DEF Taken
    <3>6. Taken \subseteq S
      OBVIOUS
    <3> HIDE DEF S, N, b
    <3>7. Max(S) \in Nat /\ Max(S) <= N + b
      BY <3>3, <3>5
    <3>8. k \notin S
      BY <3>3, <3>4, <3>5, <3>7
    <3> QED BY <1>0, <1>1, <3>4, <3>6, <3>7, <3>8
  <2>2. CASE ~synced
    <3>1. k \in 1..N /\ k \notin Taken
      BY <2>2 DEF FreshKeys
    <3> HIDE DEF N, b
    <3> QED BY <1>0, <1>1, <3>1
  <2> QED BY <2>1, <2>2
<1>3. key' \in [Sess -> Nat] /\ key'[s] = k /\ \A t \in Sess \ {s} : key'[t] = key[t]
  BY <1>0, <1>2
<1>4. Begun' = Begun \cup {s}
  BY <1>2, <1>3 DEF Begun
<1>5. c = b + 1
  <2>1. Cardinality(Begun \cup {s}) = Cardinality(Begun) + 1
    BY <1>1, FS_AddElement
  <2> QED BY <1>4, <2>1
<1>6. \A t \in Sess : rec'[t].phase = IF t = s THEN "open" ELSE rec[t].phase
  BY <1>0
<1>7. \A t \in Sess : key'[t] <= N + c
  <2> SUFFICES ASSUME NEW t \in Sess PROVE key'[t] <= N + c
    OBVIOUS
  <2>1. CASE t = s
    <3> HIDE DEF N, b, c
    <3> QED BY <1>0, <1>1, <1>2, <1>3, <1>5, <2>1
  <2>2. CASE t # s
    <3>1. key'[t] = key[t] /\ key[t] \in Nat /\ key[t] <= N + b
      BY <1>0, <1>3, <2>2 DEF KeysInv
    <3> DEFINE p == key'[t]
               q == key[t]
    <3>2. p = q /\ q \in Nat /\ q <= N + b
      BY <3>1
    <3> HIDE DEF N, b, c, p, q
    <3>3. p <= N + c
      BY <1>0, <1>1, <1>5, <3>2
    <3> QED BY <3>3 DEF p
  <2> QED BY <2>1, <2>2
<1>8. \A t \in Sess \ {s} : key[t] # k
  BY <1>2 DEF Taken
<1>9. KeysInv'
  <2>1. \A t \in Sess : rec'[t].phase = "none" => key'[t] = 0
    BY <1>3, <1>6 DEF KeysInv
  <2>2. \A t \in Sess : rec'[t].phase = "open" => key'[t] # 0
    BY <1>2, <1>3, <1>6 DEF KeysInv
  <2>3. \A t, u \in Sess : key'[t] = key'[u] /\ key'[t] # 0 => t = u
    BY <1>3, <1>8 DEF KeysInv
  <2> QED BY <1>7, <2>1, <2>2, <2>3 DEF KeysInv
<1> QED BY <1>2, <1>3, <1>9

(* Taking a victim off the list, and what that leaves.                     *)
LEMMA PopIs ==
    ASSUME TypeInv, pass.all # <<>>
    PROVE  /\ Victim \in Entries /\ Victim.name \in Names
           /\ Popped \in Passes /\ Popped.pc = "drop" /\ Popped.all = Front(pass.all)
           /\ Popped.total = IF pass.total > Victim.sz THEN pass.total - Victim.sz ELSE 0
<1>1. pass \in Passes /\ pass.all \in Seq(Entries) /\ pass.total \in Nat
  BY DEF TypeInv, Passes
<1>2. Victim \in Entries /\ Front(pass.all) \in Seq(Entries)
  <2> DEFINE L == pass.all
  <2>1. L \in Seq(Entries) /\ L # <<>>
    BY <1>1
  <2> HIDE DEF L
  <2>2. Last(L) \in Entries
    BY <2>1 DEF Last
  <2>3. Front(L) \in Seq(Entries)
    BY <2>1 DEF Front
  <2> QED BY <2>2, <2>3 DEF L, Victim
<1>3. Victim.name \in Names /\ Victim.sz \in Nat
  BY <1>2 DEF Entries
<1> DEFINE t == IF pass.total > Victim.sz THEN pass.total - Victim.sz ELSE 0
<1>4. t \in Nat
  BY <1>1, <1>3
<1>5. Popped = [pass EXCEPT !.pc = "drop", !.all = Front(pass.all), !.total = t]
  BY DEF Popped
<1> HIDE DEF t
<1>6. Popped \in Passes /\ Popped.pc = "drop" /\ Popped.all = Front(pass.all) /\ Popped.total = t
  BY <1>1, <1>2, <1>4, <1>5 DEF Passes
<1> QED BY <1>2, <1>3, <1>6 DEF t

(* Ranks are numbers, and tell the files apart.                            *)
HaveKeys == \A n \in DOMAIN files : key[n.ses] # 0

LEMMA RanksAre ==
    ASSUME TypeInv
    PROVE  /\ \A n \in Names : Rank(n) \in Nat
           /\ KeysInv /\ HaveKeys => \A m, n \in DOMAIN files : Rank(m) = Rank(n) => m = n
           /\ \A s \in Sess : Rank(Side(s)) = Rank(Cast(s)) + 1
<1>1. ASSUME NEW n \in Names
      PROVE  key[n.ses] \in Nat /\ n.kind \in {"cast", "side"} /\ n.ses \in Sess
  BY DEF TypeInv, Names
<1>2. ASSUME NEW n \in Names PROVE Rank(n) \in Nat
  <2> DEFINE k == key[n.ses]
  <2>1. k \in Nat
    BY <1>1
  <2>2. Rank(n) = 2 * k + (IF n.kind = "side" THEN 1 ELSE 0)
    BY DEF Rank
  <2> HIDE DEF k
  <2> QED BY <2>1, <2>2
<1>3. ASSUME KeysInv, HaveKeys, NEW m \in DOMAIN files, NEW n \in DOMAIN files, Rank(m) = Rank(n)
      PROVE  m = n
  <2>1. m \in Names /\ n \in Names
    BY DEF TypeInv
  <2> DEFINE k == key[m.ses]
             l == key[n.ses]
             a == IF m.kind = "side" THEN 1 ELSE 0
             b == IF n.kind = "side" THEN 1 ELSE 0
  <2>2. k \in Nat /\ l \in Nat /\ a \in {0, 1} /\ b \in {0, 1}
    BY <1>1, <2>1
  <2>3. 2 * k + a = 2 * l + b
    BY <1>3 DEF Rank
  <2>4. k = l /\ a = b
    <3> HIDE DEF k, l, a, b
    <3> QED BY <2>2, <2>3
  <2>5. m.ses = n.ses
    BY <1>1, <1>3, <2>1, <2>4 DEF KeysInv, HaveKeys
  <2>6. m.kind = n.kind
    BY <1>1, <2>1, <2>4
  <2> QED BY <2>1, <2>5, <2>6 DEF Names
<1>4. ASSUME NEW s \in Sess PROVE Rank(Side(s)) = Rank(Cast(s)) + 1
  <2>1. key[s] \in Nat
    BY DEF TypeInv
  <2>2. Rank(Side(s)) = 2 * key[s] + 1 /\ Rank(Cast(s)) = 2 * key[s] + 0
    BY DEF Rank, Side, Cast
  <2> QED BY <2>1, <2>2
<1> QED BY <1>2, <1>3, <1>4

LEMMA ListDirTypes ==
    ASSUME TypeInv, KeysInv, HaveKeys
    PROVE  /\ ListDir \in Seq(Names) /\ ListDir \in Seq(DOMAIN files)
           /\ \A i, j \in DOMAIN ListDir : i < j => Rank(ListDir[i]) > Rank(ListDir[j])
           /\ \A n \in DOMAIN files : \E i \in DOMAIN ListDir : ListDir[i] = n
<1>1. DOMAIN files \subseteq Names
  BY DEF TypeInv
<1>2. /\ ListDir \in Seq(DOMAIN files)
      /\ \A i, j \in DOMAIN ListDir : i < j => Rank(ListDir[i]) > Rank(ListDir[j])
      /\ \A n \in DOMAIN files : \E i \in DOMAIN ListDir : ListDir[i] = n
  BY <1>1, FilesFinite, RanksAre, ListDirIs
<1>3. ListDir \in Seq(Names)
  <2> DEFINE L == ListDir
  <2> HIDE DEF L
  <2>1. L \in Seq(DOMAIN files)
    BY <1>2 DEF L
  <2>2. L \in Seq(Names)
    BY <1>1, <2>1
  <2> QED BY <2>2 DEF L
<1> QED BY <1>2, <1>3

(* The list a pass begins with.                                            *)
Sized(L) == [i \in DOMAIN L |-> [name |-> L[i], sz |-> files[L[i]]]]

LEMMA PassBeginIs ==
    ASSUME TypeInv, KeysInv, HaveKeys, NEW who \in {"main", "persister"}, PassBegin(who)
    PROVE  /\ pass' \in Passes /\ pass'.pc = "drop" /\ pass'.total = Bytes(DOMAIN files)
           /\ pass'.all = Sized(ListDir) /\ pass'.all \in Seq(Entries)
           /\ DOMAIN pass'.all = DOMAIN ListDir
           /\ \A i \in DOMAIN pass'.all : /\ pass'.all[i].name = ListDir[i]
                                          /\ ListDir[i] \in DOMAIN files
                                          /\ pass'.all[i].sz = files[ListDir[i]]
           /\ pass.pc = "off" /\ UNCHANGED <<files, key, rec, reading, clr, up, left, note>>
<1>1. /\ pass' = [who |-> who, pc |-> "drop", total |-> Bytes(DOMAIN files), all |-> Sized(ListDir)]
      /\ pass.pc = "off" /\ UNCHANGED <<files, key, rec, reading, clr, up, left, note>>
  BY DEF PassBegin, Sized
<1> DEFINE L == ListDir
           K == Sized(L)
<1>2. L \in Seq(DOMAIN files)
  BY ListDirTypes
<1>3. \A n \in DOMAIN files : n \in Names /\ files[n] \in Nat
  BY DEF TypeInv
<1> HIDE DEF L
<1>4. K \in Seq(Entries) /\ DOMAIN K = DOMAIN L
  <2>1. K \in [1..Len(L) -> Entries]
    <3>1. DOMAIN L = 1..Len(L) /\ \A i \in DOMAIN L : L[i] \in DOMAIN files
      BY <1>2
    <3>2. \A i \in DOMAIN L : [name |-> L[i], sz |-> files[L[i]]] \in Entries
      BY <1>3, <3>1 DEF Entries
    <3> QED BY <3>1, <3>2 DEF Sized
  <2>2. Len(L) \in Nat
    BY <1>2
  <2> HIDE DEF K
  <2> QED BY <1>2, <2>1, <2>2
<1>5. \A i \in DOMAIN L : K[i].name = L[i] /\ L[i] \in DOMAIN files /\ K[i].sz = files[L[i]]
  BY <1>2 DEF Sized
<1>6. Bytes(DOMAIN files) \in Nat
  BY FilesFinite
<1>7. pass'.all = K /\ pass'.pc = "drop" /\ pass'.total = Bytes(DOMAIN files)
  BY <1>1 DEF L
<1>8. pass' \in Passes
  <2> HIDE DEF K
  <2>1. pass' = [who |-> who, pc |-> "drop", total |-> Bytes(DOMAIN files), all |-> K]
    BY <1>1, <1>7
  <2> QED BY <1>4, <1>6, <2>1 DEF Passes
<1> QED BY <1>1, <1>4, <1>5, <1>7, <1>8 DEF L

(***************************************************************************)
(* The steps, one at a time, and the types after them.                     *)
(***************************************************************************)

LEMMA VictimSteps ==
    ASSUME TypeInv, RemoveVictim
    PROVE  /\ pass.pc = "drop" /\ pass.all # <<>> /\ Over /\ files' = Without(Victim.name)
           /\ UNCHANGED <<key, rec, reading, clr, up, left>>
           /\ note' \in Notes /\ note'.fresh = note.fresh /\ note'.cleared = note.cleared
           /\ note'.excused = note.excused
           /\ note'.kept = note.kept \cup (IF Busy(Victim.name) THEN {Victim.name} ELSE {})
           /\ \/ /\ Victim.name.kind = "cast" /\ pass' \in Passes /\ pass'.pc = "side"
                 /\ pass'.all = pass.all /\ pass'.total = pass.total
              \/ Victim.name.kind # "cast" /\ pass' = Popped
<1>1. /\ pass.pc = "drop" /\ pass.all # <<>> /\ Over /\ files' = Without(Victim.name)
      /\ UNCHANGED <<key, rec, reading, clr, up, left>>
      /\ note' = IF Busy(Victim.name)
                 THEN [note EXCEPT !.kept = @ \cup {Victim.name}] ELSE note
      /\ pass' = IF Victim.name.kind = "cast" THEN [pass EXCEPT !.pc = "side"] ELSE Popped
  BY DEF RemoveVictim
<1>2. Victim.name \in Names /\ note \in Notes /\ pass \in Passes
  BY <1>1, PopIs DEF TypeInv
<1>3. /\ note' \in Notes /\ note'.fresh = note.fresh /\ note'.cleared = note.cleared
      /\ note'.excused = note.excused
      /\ note'.kept = note.kept \cup (IF Busy(Victim.name) THEN {Victim.name} ELSE {})
  <2>1. CASE Busy(Victim.name)
    BY <1>1, <1>2, <2>1 DEF Notes
  <2>2. CASE ~Busy(Victim.name)
    BY <1>1, <1>2, <2>2
  <2> QED BY <2>1, <2>2
<1>4. CASE Victim.name.kind = "cast"
  <2>1. pass' = [pass EXCEPT !.pc = "side"]
    BY <1>1, <1>4
  <2>2. pass' \in Passes /\ pass'.pc = "side" /\ pass'.all = pass.all /\ pass'.total = pass.total
    BY <1>2, <2>1 DEF Passes
  <2> QED BY <1>1, <1>3, <1>4, <2>2
<1>5. CASE Victim.name.kind # "cast"
  BY <1>1, <1>3, <1>5
<1> QED BY <1>4, <1>5

LEMMA SideSteps ==
    ASSUME TypeInv, RemoveSide
    PROVE  LET side == Side(Victim.name.ses)
           IN  /\ pass.pc = "side" /\ pass.all # <<>> /\ files' = Without(side) /\ pass' = Popped
               /\ UNCHANGED <<key, rec, reading, clr, up, left>> /\ side \in Names
               /\ note' \in Notes /\ note'.fresh = note.fresh /\ note'.cleared = note.cleared
               /\ note'.excused = note.excused \cup (IF Busy(side) THEN {side.ses} ELSE {})
               /\ note'.kept = note.kept \cup (IF Busy(side) THEN {side} ELSE {})
<1> DEFINE side == Side(Victim.name.ses)
<1>1. /\ pass.pc = "side" /\ files' = Without(side) /\ pass' = Popped
      /\ UNCHANGED <<key, rec, reading, clr, up, left>>
      /\ note' = IF Busy(side)
                 THEN [note EXCEPT !.kept = @ \cup {side}, !.excused = @ \cup {side.ses}]
                 ELSE note
  BY DEF RemoveSide
<1>2. pass.all # <<>> /\ note \in Notes
  BY <1>1 DEF TypeInv
<1>3. side \in Names /\ side.ses \in Sess
  <2>1. Victim.name.ses \in Sess
    BY <1>2, PopIs DEF Names
  <2> QED BY <2>1 DEF Side, Names
<1> HIDE DEF side
<1>4. /\ note' \in Notes /\ note'.fresh = note.fresh /\ note'.cleared = note.cleared
      /\ note'.excused = note.excused \cup (IF Busy(side) THEN {side.ses} ELSE {})
      /\ note'.kept = note.kept \cup (IF Busy(side) THEN {side} ELSE {})
  <2>1. CASE Busy(side)
    BY <1>1, <1>2, <1>3, <2>1 DEF Notes
  <2>2. CASE ~Busy(side)
    BY <1>1, <1>2, <2>2
  <2> QED BY <2>1, <2>2
<1> QED BY <1>1, <1>2, <1>3, <1>4 DEF side

LEMMA EndSteps ==
    ASSUME TypeInv, PassEnd
    PROVE  /\ pass.pc = "drop" /\ (pass.all = <<>> \/ ~Over)
           /\ pass' \in Passes /\ pass'.pc = "off" /\ up' \in BOOLEAN
           /\ note' \in Notes /\ note'.excused = note.excused
           /\ UNCHANGED <<files, key, rec, reading, clr, left>>
<1>1. /\ pass.pc = "drop" /\ (pass.all = <<>> \/ ~Over) /\ pass' = NoPass
      /\ up' = (up \/ pass.who = "main")
      /\ note' = [note EXCEPT !.fresh = {}, !.kept = {}, !.cleared = FALSE]
      /\ UNCHANGED <<files, key, rec, reading, clr, left>>
  BY DEF PassEnd
<1>2. note \in Notes
  BY DEF TypeInv
<1>3. note' \in Notes /\ note'.excused = note.excused
  BY <1>1, <1>2 DEF Notes
<1>4. pass' \in Passes /\ pass'.pc = "off"
  <2>1. <<>> \in Seq(Entries)
    OBVIOUS
  <2> QED BY <1>1, <2>1 DEF NoPass, Passes
<1> QED BY <1>1, <1>3, <1>4

LEMMA ClearSteps ==
    ASSUME TypeInv, ClearRemove
    PROVE  LET n == Head(clr)
           IN  /\ n \in Names /\ files' = Without(n) /\ clr' \in Seq(Names)
               /\ UNCHANGED <<key, rec, reading, pass, up, left>>
               /\ note' \in Notes /\ note'.fresh = note.fresh /\ note'.kept = note.kept
               /\ note'.cleared = (note.cleared \/ (Removable(n) /\ pass.pc # "off"))
               /\ note'.excused = note.excused \cup
                     (IF Removable(n) /\ n.kind = "cast" /\ Side(n.ses) \in DOMAIN files
                      THEN {n.ses} ELSE {})
<1> DEFINE n == Head(clr)
           yes == Removable(n) /\ n.kind = "cast" /\ Side(n.ses) \in DOMAIN files
           c == note.cleared \/ (Removable(n) /\ pass.pc # "off")
           e == note.excused \cup (IF yes THEN {n.ses} ELSE {})
<1>1. /\ clr # <<>> /\ files' = Without(n) /\ clr' = Tail(clr)
      /\ UNCHANGED <<key, rec, reading, pass, up, left>>
      /\ note' = [note EXCEPT !.cleared = c, !.excused = IF yes THEN @ \cup {n.ses} ELSE @]
  BY DEF ClearRemove
<1>2. clr \in Seq(Names) /\ note \in Notes
  BY DEF TypeInv
<1>3. n \in Names /\ Tail(clr) \in Seq(Names)
  BY <1>1, <1>2
<1>4. n.ses \in Sess
  BY <1>3 DEF Names
<1>5. c \in BOOLEAN
  BY Zenon
<1> HIDE DEF n, c, yes
<1>6. note' = [note EXCEPT !.cleared = c, !.excused = e]
  <2>1. CASE yes
    BY <1>1, <1>2, <2>1 DEF Notes
  <2>2. CASE ~yes
    BY <1>1, <1>2, <2>2 DEF Notes
  <2> QED BY <2>1, <2>2
<1>7. e \in SUBSET Sess
  BY <1>2, <1>4 DEF Notes
<1> HIDE DEF e
<1>8. /\ note' \in Notes /\ note'.fresh = note.fresh /\ note'.kept = note.kept
      /\ note'.cleared = c /\ note'.excused = e
  BY <1>2, <1>5, <1>6, <1>7 DEF Notes
<1> QED BY <1>1, <1>3, <1>8 DEF n, c, e, yes

LEMMA RebootSteps ==
    ASSUME TypeInv, Reboot
    PROVE  /\ left' \in [recs : Nat, events : Nat] /\ left'.recs = left.recs
           /\ rec' \in [Sess -> Recs]
           /\ \A s \in Sess : /\ rec'[s].phase = (IF rec[s].phase = "none" THEN "none" ELSE "done")
                              /\ rec'[s].buf = 0
           /\ reading' = {} /\ clr' = <<>> /\ up' = FALSE
           /\ pass' \in Passes /\ pass'.pc = "off"
           /\ note' \in Notes
           /\ note'.excused = note.excused \cup
                 (IF pass.pc = "side" THEN {Victim.name.ses} ELSE {})
           /\ UNCHANGED <<files, key>>
<1>0. note \in Notes /\ rec \in [Sess -> Recs] /\ left \in [recs : Nat, events : Nat]
  BY DEF TypeInv
<1> DEFINE e == note.excused \cup (IF pass.pc = "side" THEN {Victim.name.ses} ELSE {})
<1>1. /\ left.events > 0 /\ left' = [left EXCEPT !.events = @ - 1]
      /\ rec' = [s \in Sess |-> IF rec[s].phase = "none" THEN NoRec
                                ELSE [rec[s] EXCEPT !.phase = "done", !.buf = 0]]
      /\ reading' = {} /\ pass' = NoPass /\ clr' = <<>> /\ up' = FALSE
      /\ note' = [NoNote EXCEPT !.excused = e]
      /\ UNCHANGED <<files, key>>
  BY Zenon DEF Reboot
<1>2. e \in SUBSET Sess
  <2>1. pass.pc = "side" => Victim.name.ses \in Sess
    BY PopIs DEF TypeInv, Names
  <2>2. note.excused \in SUBSET Sess
    BY <1>0 DEF Notes
  <2> QED BY <2>1, <2>2
<1> HIDE DEF e
<1>3. note' \in Notes /\ note'.excused = e
  BY <1>1, <1>2 DEF Notes, NoNote
<1>4. pass' \in Passes /\ pass'.pc = "off"
  <2>1. <<>> \in Seq(Entries)
    OBVIOUS
  <2> QED BY <1>1, <2>1 DEF NoPass, Passes
<1>5. left' \in [recs : Nat, events : Nat] /\ left'.recs = left.recs
  <2>1. left.events > 0 /\ left' = [left EXCEPT !.events = @ - 1]
    BY <1>1
  <2> QED BY <1>0, <2>1
<1>6. ASSUME NEW s \in Sess
      PROVE  /\ rec'[s] \in Recs /\ rec'[s].buf = 0
             /\ rec'[s].phase = (IF rec[s].phase = "none" THEN "none" ELSE "done")
  <2> DEFINE r == rec[s]
             q == rec'[s]
  <2>1. q = IF r.phase = "none" THEN NoRec ELSE [r EXCEPT !.phase = "done", !.buf = 0]
    BY <1>1
  <2>2. r \in Recs
    BY <1>0
  <2> HIDE DEF r, q
  <2>3. CASE r.phase = "none"
    BY <2>1, <2>3 DEF NoRec, Recs, r, q
  <2>4. CASE r.phase # "none"
    <3>1. q = [r EXCEPT !.phase = "done", !.buf = 0]
      BY <2>1, <2>4
    <3>2. q \in Recs /\ q.buf = 0 /\ q.phase = "done"
      BY <2>2, <3>1 DEF Recs
    <3> QED BY <2>4, <3>2 DEF r, q
  <2> QED BY <2>3, <2>4
<1>7. rec' \in [Sess -> Recs]
  <2>1. rec' = [s \in Sess |-> rec'[s]]
    BY <1>1
  <2> QED BY <1>6, <2>1
<1> QED BY <1>1, <1>3, <1>4, <1>5, <1>6, <1>7 DEF e

LEMMA ReaderSteps ==
    ASSUME TypeInv, NEW n \in Names, ReaderOpen(n) \/ ReaderClose(n)
    PROVE  /\ UNCHANGED <<files, key, rec, pass, clr, up, note>>
           /\ left' \in [recs : Nat, events : Nat] /\ left'.recs = left.recs
           /\ reading' \subseteq Names
           /\ reading' \subseteq reading \cup (IF n \in DOMAIN files THEN {n} ELSE {})
<1>0. left \in [recs : Nat, events : Nat] /\ reading \subseteq Names
  BY DEF TypeInv
<1>1. CASE ReaderOpen(n)
  BY <1>0, <1>1 DEF ReaderOpen
<1>2. CASE ReaderClose(n)
  BY <1>0, <1>2 DEF ReaderClose
<1> QED BY <1>1, <1>2

(* The bound on what is buffered.                                          *)
BufsInv == left.recs <= MaxRecs /\ \A s \in Sess : rec[s].buf <= 1 + (MaxRecs - left.recs)

(* What a step of a recorder does to the keys, and which file it writes.   *)
LEMMA RecorderKeys ==
    ASSUME TypeInv, KeysInv, BufsInv, NEW s \in Sess,
           RecorderBegin(s) \/ Record(s) \/ LogEvent(s) \/ Close(s)
    PROVE  /\ key' \in [Sess -> Nat] /\ KeysInv' /\ BufsInv'
           /\ \A t \in Sess : key[t] # 0 => key'[t] = key[t]
           /\ \/ UNCHANGED <<files, note>>
              \/ /\ key'[s] # 0
                 /\ \/ Writes(Cast(s)) /\ (key[s] = 0 \/ Open(s))
                    \/ Writes(Side(s)) /\ Open(s)
           /\ rec'[s].phase = "open" => Open(s) \/ Writes(Cast(s))
<1>0. /\ rec \in [Sess -> Recs] /\ left \in [recs : Nat, events : Nat] /\ key \in [Sess -> Nat]
      /\ rec[s].buf \in Nat /\ rec[s].phase \in {"none", "open", "done"} /\ left.recs \in Nat
      /\ \A t \in Sess \ {s} : rec'[t] = rec[t]
      /\ left.recs <= MaxRecs /\ MaxRecs \in Nat
      /\ \A t \in Sess : rec[t].buf <= 1 + (MaxRecs - left.recs) /\ rec[t].buf \in Nat
  BY RecorderSteps, StoreAssumption DEF TypeInv, Recs, BufsInv
<1>1. CASE RecorderBegin(s)
  <2>1. left' = left /\ rec[s].phase = "none"
    BY <1>1 DEF RecorderBegin
  <2>2. CASE rec' = [rec EXCEPT ![s].phase = "done"] /\ UNCHANGED <<files, key, note>>
    <3>1. rec'[s].phase = "done" /\ rec'[s].buf = rec[s].buf
      BY <1>0, <2>2 DEF Recs
    <3>2. KeysInv'
      BY <1>0, <2>2, <3>1, KeyFrame
    <3>3. BufsInv'
      <4>1. \A t \in Sess : rec'[t].buf = rec[t].buf
        BY <1>0, <3>1
      <4> QED BY <1>0, <2>1, <4>1 DEF BufsInv
    <3> QED BY <1>0, <2>2, <3>1, <3>2, <3>3
  <2>3. CASE \E synced \in BOOLEAN : \E k \in FreshKeys(synced) : Begin(s, k)
    <3>0. PICK synced \in BOOLEAN : \E k \in FreshKeys(synced) : Begin(s, k)
      BY <2>3
    <3>1. PICK k \in FreshKeys(synced) : Begin(s, k)
      BY <3>0
    <3>2. /\ files' = Grow(Cast(s), 0) /\ note' = Touched(Cast(s))
          /\ rec' = [rec EXCEPT ![s] = [phase |-> "open", buf |-> 1]]
          /\ key' = [key EXCEPT ![s] = k]
      BY <3>1 DEF Begin
    <3>3. k \in Nat \ {0} /\ key' \in [Sess -> Nat] /\ KeysInv'
      BY <2>1, <3>1, <3>2, BeginKeys
    <3>4. Writes(Cast(s))
      BY <3>2 DEF Writes
    <3>5. key'[s] # 0 /\ key[s] = 0 /\ \A t \in Sess : key[t] # 0 => key'[t] = key[t]
      BY <1>0, <2>1, <3>2, <3>3 DEF KeysInv
    <3>6. BufsInv'
      <4>1. rec'[s].buf = 1
        BY <1>0, <3>2
      <4>2. \A t \in Sess \ {s} : rec'[t].buf <= 1 + (MaxRecs - left.recs)
        BY <1>0
      <4>3. 1 <= 1 + (MaxRecs - left.recs)
        BY <1>0
      <4>4. \A t \in Sess : rec'[t].buf <= 1 + (MaxRecs - left.recs)
        BY <4>1, <4>2, <4>3
      <4> QED BY <1>0, <2>1, <4>4 DEF BufsInv
    <3> QED BY <3>3, <3>4, <3>5, <3>6
  <2> QED BY <1>1, <2>2, <2>3, Zenon DEF RecorderBegin
<1>2. CASE Record(s)
  <2>1. /\ Open(s) /\ left.recs > 0 /\ left' = [left EXCEPT !.recs = @ - 1] /\ UNCHANGED key
        /\ \/ rec' = [rec EXCEPT ![s].buf = @ + 1] /\ UNCHANGED <<files, note>>
           \/ /\ files' = Grow(Cast(s), rec[s].buf + 1) /\ note' = Touched(Cast(s))
              /\ rec' = [rec EXCEPT ![s].buf = 0]
    BY <1>2 DEF Record, Flush
  <2>2. rec'[s].phase = rec[s].phase /\ rec'[s].buf \in {0, rec[s].buf + 1}
    BY <1>0, <2>1 DEF Recs
  <2>3. KeysInv'
    BY <1>0, <2>1, <2>2, KeyFrame
  <2>4. UNCHANGED <<files, note>> \/ Writes(Cast(s))
    BY <1>0, <2>1 DEF Writes
  <2>5. key'[s] # 0
    BY <2>1 DEF KeysInv, Open
  <2>6. BufsInv'
    <3>1. left'.recs = left.recs - 1
      BY <1>0, <2>1
    <3>2. \A t \in Sess : rec'[t].buf \in Nat /\ rec'[t].buf <= rec[t].buf + 1
      BY <1>0, <2>2
    <3>3. ASSUME NEW t \in Sess PROVE rec'[t].buf <= 1 + (MaxRecs - left'.recs)
      <4> DEFINE a == rec[t].buf
                 b == rec'[t].buf
                 r == left.recs
      <4>1. a \in Nat /\ b \in Nat /\ b <= a + 1 /\ a <= 1 + (MaxRecs - r) /\ r \in Nat
        BY <1>0, <3>2
      <4> HIDE DEF a, b, r
      <4>2. b <= 1 + (MaxRecs - (r - 1))
        BY <1>0, <4>1
      <4> QED BY <3>1, <4>2 DEF b, r
    <3>4. left'.recs <= MaxRecs
      BY <1>0, <3>1
    <3> QED BY <3>3, <3>4 DEF BufsInv
  <2> QED BY <1>0, <2>1, <2>3, <2>4, <2>5, <2>6
<1>3. CASE LogEvent(s)
  <2>1. /\ UNCHANGED <<key, rec>> /\ left.recs > 0 /\ Open(s)
        /\ left' = [left EXCEPT !.recs = @ - 1]
        /\ files' = Grow(Side(s), 1) /\ note' = Touched(Side(s))
    BY <1>3 DEF LogEvent
  <2>2. Writes(Side(s)) /\ key'[s] # 0
    BY <2>1 DEF Writes, KeysInv, Open
  <2>3. KeysInv'
    BY <1>0, <2>1, KeyFrame
  <2>4. BufsInv'
    <3>1. left'.recs = left.recs - 1
      BY <1>0, <2>1
    <3>2. ASSUME NEW t \in Sess PROVE rec'[t].buf <= 1 + (MaxRecs - left'.recs)
      <4> DEFINE a == rec[t].buf
                 r == left.recs
      <4>1. a \in Nat /\ a <= 1 + (MaxRecs - r) /\ r \in Nat
        BY <1>0
      <4> HIDE DEF a, r
      <4>2. a <= 1 + (MaxRecs - (r - 1))
        BY <1>0, <4>1
      <4>3. rec'[t].buf = a
        BY <2>1 DEF a
      <4> QED BY <3>1, <4>2, <4>3 DEF r
    <3>4. left'.recs <= MaxRecs
      BY <1>0, <3>1
    <3> QED BY <3>2, <3>4 DEF BufsInv
  <2> QED BY <1>0, <2>1, <2>2, <2>3, <2>4
<1>4. CASE Close(s)
  <2>1. /\ UNCHANGED <<key, left>> /\ Open(s)
        /\ files' = Grow(Cast(s), rec[s].buf + 0) /\ note' = Touched(Cast(s))
        /\ rec' = [rec EXCEPT ![s] = [phase |-> "done", buf |-> 0]]
    BY <1>4 DEF Close, Flush
  <2>2. Writes(Cast(s)) /\ key'[s] # 0
    BY <1>0, <2>1 DEF Writes, KeysInv, Open
  <2>3. rec'[s].phase = "done" /\ rec'[s].buf = 0
    BY <1>0, <2>1
  <2>4. KeysInv'
    BY <1>0, <2>1, <2>3, KeyFrame
  <2>5. BufsInv'
    <3>1. 0 <= 1 + (MaxRecs - left.recs)
      BY <1>0
    <3>2. \A t \in Sess : rec'[t].buf <= 1 + (MaxRecs - left.recs)
      BY <1>0, <2>3, <3>1
    <3> QED BY <1>0, <2>1, <3>2 DEF BufsInv
  <2> QED BY <1>0, <2>1, <2>2, <2>3, <2>4, <2>5
<1> QED BY <1>1, <1>2, <1>3, <1>4

(* A written file: what it makes of the directory and of the notes.        *)
LEMMA WritesIs ==
    ASSUME TypeInv, NEW n \in Names, Writes(n)
    PROVE  /\ DOMAIN files' = DOMAIN files \cup {n}
           /\ \A m \in DOMAIN files : m # n => files'[m] = files[m]
           /\ \A m \in DOMAIN files' : files'[m] \in Nat
           /\ \A m \in DOMAIN files : files[m] <= files'[m]
           /\ note' \in Notes /\ note'.kept = note.kept /\ note'.cleared = note.cleared
           /\ note'.excused = note.excused
           /\ pass.pc # "off" => note'.fresh = note.fresh \cup {n}
<1>1. PICK k \in Nat : files' = Grow(n, k) /\ note' = Touched(n)
  BY DEF Writes
<1> QED BY <1>1, GrowIs, TouchedIs

(***************************************************************************)
(* The recordings fit together.                                            *)
(***************************************************************************)
FitInv == TypeInv /\ KeysInv /\ BufsInv /\ HaveKeys /\ OpenFilesStay /\ NoOrphans

(* No removal takes a file somebody has open.                              *)
LEMMA RemovalKeeps ==
    ASSUME TypeInv, HaveKeys, OpenFilesStay, NEW n, files' = Without(n),
           UNCHANGED <<key, rec, reading>>
    PROVE  HaveKeys' /\ OpenFilesStay'
<1>1. DOMAIN files' = DOMAIN files \ (IF Removable(n) THEN {n} ELSE {})
  BY WithoutIs
<1>2. HaveKeys'
  BY <1>1 DEF HaveKeys
<1>3. ASSUME NEW s \in Sess, Open(s)' PROVE Cast(s) \in DOMAIN files'
  <2>1. Open(s) /\ Cast(s) \in DOMAIN files
    BY <1>3 DEF Open, OpenFilesStay
  <2>2. Removable(n) => n # Cast(s)
    BY <2>1 DEF Removable, Busy, Cast
  <2> QED BY <1>1, <2>1, <2>2
<1>4. reading' \subseteq DOMAIN files'
  BY <1>1 DEF Removable, Busy, OpenFilesStay
<1> QED BY <1>2, <1>3, <1>4 DEF OpenFilesStay

(* Nothing changes for the files while the keys, what is written and what  *)
(* is read stay.                                                           *)
LEMMA FitFrame ==
    ASSUME FitInv, UNCHANGED <<files, key, rec>>, left'.recs = left.recs,
           reading' \subseteq reading \cup DOMAIN files
    PROVE  KeysInv' /\ BufsInv' /\ HaveKeys' /\ OpenFilesStay'
BY DEF FitInv, KeysInv, Begun, BufsInv, HaveKeys, OpenFilesStay, Open

LEMMA KeysFrame ==
    ASSUME FitInv, UNCHANGED <<key, rec, left>>
    PROVE  KeysInv' /\ BufsInv'
BY DEF FitInv, KeysInv, Begun, BufsInv

(* A sidecar that is left alone still has its excuse.                      *)
LEMMA OrphanFrame ==
    ASSUME NoOrphans, DOMAIN files \subseteq DOMAIN files',
           \A s \in Sess : Side(s) \in DOMAIN files' =>
               Side(s) \in DOMAIN files \/ Cast(s) \in DOMAIN files',
           note.excused \subseteq note'.excused, UNCHANGED pass
    PROVE  NoOrphans'
BY DEF NoOrphans, Victim

LEMMA FitRecorder ==
    ASSUME FitInv, NEW s \in Sess,
           RecorderBegin(s) \/ Record(s) \/ LogEvent(s) \/ Close(s)
    PROVE  FitInv'
<1>0. TypeInv /\ KeysInv /\ BufsInv /\ HaveKeys /\ OpenFilesStay /\ NoOrphans
  BY DEF FitInv
<1>1. /\ UNCHANGED <<reading, pass, clr, up>>
      /\ rec' \in [Sess -> Recs] /\ left' \in [recs : Nat, events : Nat]
      /\ \A t \in Sess \ {s} : rec'[t] = rec[t]
  BY <1>0, RecorderSteps
<1>2. /\ key' \in [Sess -> Nat] /\ KeysInv' /\ BufsInv'
      /\ \A t \in Sess : key[t] # 0 => key'[t] = key[t]
      /\ \/ UNCHANGED <<files, note>>
         \/ key'[s] # 0 /\ (Writes(Cast(s)) \/ (Writes(Side(s)) /\ Open(s)))
      /\ rec'[s].phase = "open" => Open(s) \/ Writes(Cast(s))
  BY <1>0, RecorderKeys
<1>3. Cast(s) \in Names /\ Side(s) \in Names
  BY SessionNames
<1>4. \A n \in DOMAIN files : n \in Names /\ n.ses \in Sess
  BY <1>0 DEF TypeInv, Names
<1>5. /\ DOMAIN files \subseteq DOMAIN files' /\ DOMAIN files' \subseteq Names
      /\ \A n \in DOMAIN files' : files'[n] \in Nat
      /\ note' \in Notes /\ note'.excused = note.excused
      /\ Writes(Cast(s)) => Cast(s) \in DOMAIN files'
      /\ DOMAIN files' \subseteq DOMAIN files \cup {Cast(s), Side(s)}
      /\ DOMAIN files' = DOMAIN files \/ key'[s] # 0
      /\ Side(s) \in DOMAIN files' => Side(s) \in DOMAIN files \/ Cast(s) \in DOMAIN files'
  <2>1. CASE UNCHANGED <<files, note>>
    <3>1. Writes(Cast(s)) => Cast(s) \in DOMAIN files'
      BY <1>0, <1>3, WritesIs
    <3> QED BY <1>0, <2>1, <3>1 DEF TypeInv
  <2>2. CASE key'[s] # 0 /\ Writes(Cast(s))
    BY <1>0, <1>3, <2>2, WritesIs DEF TypeInv
  <2>3. CASE key'[s] # 0 /\ Writes(Side(s)) /\ Open(s)
    <3>1. Cast(s) \in DOMAIN files
      BY <1>0, <2>3 DEF OpenFilesStay
    <3> QED BY <1>0, <1>3, <2>3, <3>1, WritesIs DEF TypeInv
  <2> QED BY <1>2, <2>1, <2>2, <2>3
<1>6. TypeInv'
  BY <1>0, <1>1, <1>2, <1>5 DEF TypeInv
<1>7. HaveKeys'
  <2>1. Cast(s).ses = s /\ Side(s).ses = s
    BY DEF Cast, Side
  <2> QED BY <1>0, <1>2, <1>4, <1>5, <2>1 DEF HaveKeys
<1>8. OpenFilesStay'
  <2>1. ASSUME NEW t \in Sess, Open(t)' PROVE Cast(t) \in DOMAIN files'
    <3>1. CASE t = s
      BY <1>0, <1>2, <1>5, <2>1, <3>1 DEF Open, OpenFilesStay
    <3>2. CASE t # s
      BY <1>0, <1>1, <1>5, <2>1, <3>2 DEF Open, OpenFilesStay
    <3> QED BY <3>1, <3>2
  <2>2. reading' \subseteq DOMAIN files'
    BY <1>0, <1>1, <1>5 DEF OpenFilesStay
  <2> QED BY <2>1, <2>2 DEF OpenFilesStay
<1>9. NoOrphans'
  <2>1. ASSUME NEW t \in Sess, Side(t) \in DOMAIN files'
        PROVE  Side(t) \in DOMAIN files \/ Cast(t) \in DOMAIN files'
    <3>1. CASE t = s
      BY <1>5, <2>1, <3>1
    <3>2. CASE t # s
      <4>1. Side(t) # Cast(s) /\ Side(t) # Side(s)
        BY <3>2 DEF Side, Cast
      <4> QED BY <1>5, <2>1, <4>1
    <3> QED BY <3>1, <3>2
  <2> QED BY <1>0, <1>1, <1>5, <2>1, OrphanFrame
<1> QED BY <1>2, <1>6, <1>7, <1>8, <1>9 DEF FitInv

LEMMA FitPass ==
    ASSUME FitInv, PassStep
    PROVE  FitInv'
<1>0. TypeInv /\ KeysInv /\ BufsInv /\ HaveKeys /\ OpenFilesStay /\ NoOrphans
  BY DEF FitInv
<1>1. CASE RemoveVictim
  <2> DEFINE n == Victim.name
  <2>1. /\ pass.pc = "drop" /\ pass.all # <<>> /\ files' = Without(n)
        /\ UNCHANGED <<key, rec, reading, clr, up, left>>
        /\ note' \in Notes /\ note'.excused = note.excused
        /\ \/ n.kind = "cast" /\ pass' \in Passes /\ pass'.pc = "side" /\ pass'.all = pass.all
           \/ n.kind # "cast" /\ pass' = Popped
    BY <1>0, <1>1, VictimSteps
  <2>2. n \in Names /\ Popped \in Passes /\ Popped.pc = "drop"
    BY <1>0, <2>1, PopIs
  <2>3. /\ DOMAIN files' = DOMAIN files \ (IF Removable(n) THEN {n} ELSE {})
        /\ \A m \in DOMAIN files' : files'[m] = files[m] /\ files'[m] \in Nat
    BY <1>0, <2>1, WithoutIs
  <2>4. TypeInv'
    <3>1. pass' \in Passes /\ (pass'.pc = "side" => pass'.all # <<>>)
      BY <2>1, <2>2
    <3> QED BY <1>0, <2>1, <2>3, <3>1 DEF TypeInv
  <2>5. HaveKeys' /\ OpenFilesStay'
    BY <1>0, <2>1, RemovalKeeps
  <2>6. NoOrphans'
    <3> SUFFICES ASSUME NEW s \in Sess, Side(s) \in DOMAIN files', Cast(s) \notin DOMAIN files'
                 PROVE  s \in note'.excused \/ (pass'.pc = "side" /\ Victim'.name = Cast(s))
      BY DEF NoOrphans
    <3>1. Side(s) \in DOMAIN files
      BY <2>3
    <3>2. CASE Cast(s) \notin DOMAIN files
      BY <1>0, <2>1, <3>1, <3>2 DEF NoOrphans
    <3>3. CASE Cast(s) \in DOMAIN files
      <4>1. n = Cast(s)
        BY <2>3, <3>3
      <4>2. n.kind = "cast"
        <5> HIDE DEF n
        <5> QED BY <4>1 DEF Cast
      <4>3. pass'.pc = "side" /\ pass'.all = pass.all
        BY <2>1, <4>2
      <4>4. Victim' = Victim
        BY <4>3 DEF Victim
      <4> QED BY <4>1, <4>3, <4>4
    <3> QED BY <3>2, <3>3
  <2> QED BY <2>1, <2>4, <2>5, <2>6, KeysFrame DEF FitInv
<1>2. CASE RemoveSide
  <2> DEFINE n == Side(Victim.name.ses)
  <2>1. /\ pass.pc = "side" /\ pass.all # <<>> /\ files' = Without(n) /\ pass' = Popped
        /\ UNCHANGED <<key, rec, reading, clr, up, left>>
        /\ note' \in Notes
        /\ note'.excused = note.excused \cup (IF Busy(n) THEN {n.ses} ELSE {})
    BY <1>0, <1>2, SideSteps
  <2>2. Popped \in Passes /\ Popped.pc = "drop"
    BY <1>0, <2>1, PopIs
  <2>3. /\ DOMAIN files' = DOMAIN files \ (IF Removable(n) THEN {n} ELSE {})
        /\ \A m \in DOMAIN files' : files'[m] = files[m] /\ files'[m] \in Nat
    BY <1>0, <2>1, WithoutIs
  <2>4. TypeInv'
    BY <1>0, <2>1, <2>2, <2>3 DEF TypeInv
  <2>5. HaveKeys' /\ OpenFilesStay'
    BY <1>0, <2>1, RemovalKeeps
  <2>6. NoOrphans'
    <3> SUFFICES ASSUME NEW s \in Sess, Side(s) \in DOMAIN files', Cast(s) \notin DOMAIN files'
                 PROVE  s \in note'.excused
      BY DEF NoOrphans
    <3>1. Side(s) \in DOMAIN files
      BY <2>3
    <3>2. Cast(s) \notin DOMAIN files
      <4>1. n # Cast(s)
        BY DEF Side, Cast
      <4> QED BY <2>3, <4>1
    <3>3. CASE s \in note.excused
      BY <2>1, <3>3
    <3>4. CASE Victim.name = Cast(s)
      <4>1. n = Side(s) /\ n.ses = s
        BY <3>4 DEF Side, Cast
      <4>2. ~Removable(n)
        BY <2>3, <4>1
      <4>3. Busy(n)
        BY <3>1, <4>1, <4>2 DEF Removable
      <4> QED BY <2>1, <4>1, <4>3
    <3> QED BY <1>0, <3>1, <3>2, <3>3, <3>4 DEF NoOrphans
  <2> QED BY <2>1, <2>4, <2>5, <2>6, KeysFrame DEF FitInv
<1>3. CASE PassEnd
  <2>1. /\ pass.pc = "drop" /\ pass' \in Passes /\ pass'.pc = "off" /\ up' \in BOOLEAN
        /\ note' \in Notes /\ note'.excused = note.excused
        /\ UNCHANGED <<files, key, rec, reading, clr, left>>
    BY <1>0, <1>3, EndSteps
  <2>2. TypeInv'
    BY <1>0, <2>1 DEF TypeInv
  <2>3. NoOrphans'
    BY <1>0, <2>1 DEF NoOrphans
  <2>4. KeysInv' /\ BufsInv' /\ HaveKeys' /\ OpenFilesStay'
    BY <2>1, FitFrame
  <2> QED BY <2>2, <2>3, <2>4 DEF FitInv
<1> QED BY <1>1, <1>2, <1>3 DEF PassStep

LEMMA FitClear ==
    ASSUME FitInv, ClearRemove
    PROVE  FitInv'
<1>0. TypeInv /\ KeysInv /\ BufsInv /\ HaveKeys /\ OpenFilesStay /\ NoOrphans
  BY DEF FitInv
<1> DEFINE n == Head(clr)
<1>1. /\ n \in Names /\ files' = Without(n) /\ clr' \in Seq(Names)
      /\ UNCHANGED <<key, rec, reading, pass, up, left>> /\ note' \in Notes
      /\ note'.excused = note.excused \cup
            (IF Removable(n) /\ n.kind = "cast" /\ Side(n.ses) \in DOMAIN files
             THEN {n.ses} ELSE {})
  BY <1>0, ClearSteps
<1> HIDE DEF n
<1>2. /\ DOMAIN files' = DOMAIN files \ (IF Removable(n) THEN {n} ELSE {})
      /\ \A m \in DOMAIN files' : files'[m] = files[m] /\ files'[m] \in Nat
  BY <1>0, <1>1, WithoutIs
<1>3. TypeInv'
  BY <1>0, <1>1, <1>2 DEF TypeInv
<1>4. HaveKeys' /\ OpenFilesStay'
  BY <1>0, <1>1, RemovalKeeps
<1>5. NoOrphans'
  <2> SUFFICES ASSUME NEW s \in Sess, Side(s) \in DOMAIN files', Cast(s) \notin DOMAIN files'
               PROVE  s \in note'.excused \/ (pass.pc = "side" /\ Victim.name = Cast(s))
    BY <1>1 DEF NoOrphans, Victim
  <2>1. Side(s) \in DOMAIN files
    BY <1>2
  <2>2. CASE Cast(s) \notin DOMAIN files
    BY <1>0, <1>1, <2>1, <2>2 DEF NoOrphans
  <2>3. CASE Cast(s) \in DOMAIN files
    <3>1. Removable(n) /\ n = Cast(s)
      BY <1>2, <2>3
    <3>2. n.kind = "cast" /\ n.ses = s
      BY <3>1 DEF Cast
    <3> QED BY <1>1, <2>1, <3>1, <3>2
  <2> QED BY <2>2, <2>3
<1> QED BY <1>1, <1>3, <1>4, <1>5, KeysFrame DEF FitInv

LEMMA FitReboot ==
    ASSUME FitInv, Reboot
    PROVE  FitInv'
<1>0. TypeInv /\ KeysInv /\ BufsInv /\ HaveKeys /\ OpenFilesStay /\ NoOrphans
  BY DEF FitInv
<1>1. /\ left' \in [recs : Nat, events : Nat] /\ left'.recs = left.recs
      /\ rec' \in [Sess -> Recs]
      /\ \A s \in Sess : /\ rec'[s].phase = (IF rec[s].phase = "none" THEN "none" ELSE "done")
                         /\ rec'[s].buf = 0
      /\ reading' = {} /\ clr' = <<>> /\ up' = FALSE
      /\ pass' \in Passes /\ pass'.pc = "off"
      /\ note' \in Notes
      /\ note'.excused = note.excused \cup
            (IF pass.pc = "side" THEN {Victim.name.ses} ELSE {})
      /\ UNCHANGED <<files, key>>
  BY <1>0, RebootSteps
<1>2. TypeInv'
  <2>1. clr' \in Seq(Names)
    BY <1>1
  <2> QED BY <1>0, <1>1, <2>1 DEF TypeInv
<1>3. KeysInv'
  <2>1. \A s \in Sess : rec'[s].phase # "open" /\ (rec'[s].phase = "none" => rec[s].phase = "none")
    BY <1>1
  <2> QED BY <1>0, <1>1, <2>1 DEF KeysInv, Begun
<1>4. BufsInv'
  <2>1. left.recs <= MaxRecs /\ left.recs \in Nat /\ MaxRecs \in Nat
    BY <1>0, StoreAssumption DEF BufsInv, TypeInv
  <2>2. 0 <= 1 + (MaxRecs - left.recs)
    BY <2>1
  <2> QED BY <1>1, <2>1, <2>2 DEF BufsInv
<1>5. HaveKeys' /\ OpenFilesStay'
  BY <1>0, <1>1 DEF HaveKeys, OpenFilesStay, Open
<1>6. NoOrphans'
  <2>1. \A s \in Sess : Cast(s).ses = s
    BY DEF Cast
  <2> QED BY <1>0, <1>1, <2>1 DEF NoOrphans
<1> QED BY <1>2, <1>3, <1>4, <1>5, <1>6 DEF FitInv

LEMMA FitInit == Init => FitInv
<1> SUFFICES ASSUME Init PROVE FitInv
  OBVIOUS
<1>1. /\ files = <<>> /\ key = [s \in Sess |-> 0] /\ rec = [s \in Sess |-> NoRec]
      /\ reading = {} /\ pass = NoPass /\ clr = <<>> /\ up = FALSE
      /\ left = [recs |-> MaxRecs, events |-> MaxEvents] /\ note = NoNote
  BY DEF Init
<1>2. DOMAIN files = {}
  <2>1. DOMAIN <<>> = {}
    OBVIOUS
  <2> QED BY <1>1, <2>1
<1>3. MaxRecs \in Nat /\ MaxEvents \in Nat
  BY StoreAssumption
<1>4. TypeInv
  <2>1. <<>> \in Seq(Entries) /\ <<>> \in Seq(Names)
    OBVIOUS
  <2>2. pass \in Passes /\ pass.pc = "off"
    BY <1>1, <2>1 DEF NoPass, Passes
  <2>3. note \in Notes
    BY <1>1 DEF NoNote, Notes
  <2>4. rec \in [Sess -> Recs] /\ key \in [Sess -> Nat]
    BY <1>1 DEF NoRec, Recs
  <2>5. left \in [recs : Nat, events : Nat]
    BY <1>1, <1>3
  <2> QED BY <1>1, <1>2, <2>1, <2>2, <2>3, <2>4, <2>5 DEF TypeInv
<1>5. KeysInv
  <2>1. \A s \in Sess : rec[s].phase = "none" /\ key[s] = 0
    BY <1>1 DEF NoRec
  <2>2. Cardinality(Sess) \in Nat /\ Cardinality(Begun) \in Nat
    <3>1. Begun \in SUBSET Sess
      BY DEF Begun
    <3> QED BY <3>1, StoreAssumption, FS_CardinalityType, FS_Subset
  <2>3. 0 <= Cardinality(Sess) + Cardinality(Begun)
    BY <2>2
  <2> QED BY <2>1, <2>3 DEF KeysInv
<1>6. BufsInv
  <2>1. \A s \in Sess : rec[s].buf = 0
    BY <1>1 DEF NoRec
  <2>2. left.recs = MaxRecs
    BY <1>1
  <2>3. MaxRecs <= MaxRecs /\ 0 <= 1 + (MaxRecs - MaxRecs)
    BY <1>3
  <2> QED BY <2>1, <2>2, <2>3 DEF BufsInv
<1>7. HaveKeys /\ OpenFilesStay /\ NoOrphans
  <2>1. \A s \in Sess : ~Open(s)
    BY <1>1 DEF NoRec, Open
  <2> QED BY <1>1, <1>2, <2>1 DEF HaveKeys, OpenFilesStay, NoOrphans
<1> QED BY <1>4, <1>5, <1>6, <1>7 DEF FitInv

LEMMA FitStep == FitInv /\ [Next]_vars => FitInv'
<1> SUFFICES ASSUME FitInv, [Next]_vars PROVE FitInv'
  OBVIOUS
<1>0. TypeInv /\ KeysInv /\ BufsInv /\ HaveKeys /\ OpenFilesStay /\ NoOrphans
  BY DEF FitInv
<1>1. ASSUME NEW s \in Sess, RecorderBegin(s) \/ Record(s) \/ LogEvent(s) \/ Close(s)
      PROVE  FitInv'
  BY <1>1, FitRecorder
<1>2. ASSUME NEW n \in Names, ReaderOpen(n) \/ ReaderClose(n)
      PROVE  FitInv'
  <2>1. /\ UNCHANGED <<files, key, rec, pass, clr, up, note>>
        /\ left' \in [recs : Nat, events : Nat] /\ left'.recs = left.recs
        /\ reading' \subseteq Names
        /\ reading' \subseteq reading \cup DOMAIN files
    BY <1>0, <1>2, ReaderSteps
  <2>2. TypeInv'
    BY <1>0, <2>1 DEF TypeInv
  <2>3. NoOrphans'
    BY <1>0, <2>1 DEF NoOrphans, Victim
  <2> QED BY <2>1, <2>2, <2>3, FitFrame DEF FitInv
<1>3. ASSUME NEW who \in {"main", "persister"}, PassBegin(who)
      PROVE  FitInv'
  <2>1. /\ pass' \in Passes /\ pass'.pc = "drop" /\ pass.pc = "off"
        /\ UNCHANGED <<files, key, rec, reading, clr, up, left, note>>
    BY <1>0, <1>3, PassBeginIs
  <2>2. TypeInv'
    BY <1>0, <2>1 DEF TypeInv
  <2>3. NoOrphans'
    BY <1>0, <2>1 DEF NoOrphans
  <2> QED BY <2>1, <2>2, <2>3, FitFrame DEF FitInv
<1>4. CASE PassStep
  BY <1>4, FitPass
<1>5. CASE ClearList
  <2>1. clr' = ListDir /\ UNCHANGED <<files, key, rec, reading, pass, up, left, note>>
    BY <1>5 DEF ClearList
  <2>2. ListDir \in Seq(Names)
    BY <1>0, ListDirTypes
  <2>3. TypeInv'
    BY <1>0, <2>1, <2>2 DEF TypeInv
  <2>4. NoOrphans'
    BY <1>0, <2>1 DEF NoOrphans, Victim
  <2> QED BY <2>1, <2>3, <2>4, FitFrame DEF FitInv
<1>6. CASE ClearRemove
  BY <1>6, FitClear
<1>7. CASE Reboot
  BY <1>7, FitReboot
<1>8. CASE UNCHANGED vars
  <2>1. UNCHANGED <<files, key, rec, reading, pass, clr, up, left, note>>
    BY <1>8 DEF vars
  <2>2. TypeInv'
    BY <1>0, <2>1 DEF TypeInv
  <2>3. NoOrphans'
    BY <1>0, <2>1 DEF NoOrphans, Victim
  <2> QED BY <2>1, <2>2, <2>3, FitFrame DEF FitInv
<1> QED BY <1>1, <1>2, <1>3, <1>4, <1>5, <1>6, <1>7, <1>8, Zenon DEF Next

(* The bounds on keys and buffers give the type the runs check.            *)
LEMMA FitImplies == FitInv => FilesFit
<1> SUFFICES ASSUME FitInv PROVE FilesFit
  OBVIOUS
<1>0. TypeInv /\ KeysInv /\ BufsInv /\ HaveKeys /\ OpenFilesStay /\ NoOrphans
  BY DEF FitInv
<1> DEFINE N == Cardinality(Sess)
           b == Cardinality(Begun)
<1>1. N \in Nat /\ b \in Nat /\ b <= N
  <2>1. Begun \in SUBSET Sess
    BY DEF Begun
  <2> QED BY <2>1, StoreAssumption, FS_CardinalityType, FS_Subset
<1>2. ASSUME NEW s \in Sess PROVE key[s] \in Keys \cup {0}
  <2> DEFINE k == key[s]
  <2>1. k \in Nat /\ k <= N + b
    BY <1>0 DEF TypeInv, KeysInv
  <2>2. k \in 1..(2 * N) \cup {0}
    <3> HIDE DEF k, N, b
    <3> QED BY <1>1, <2>1
  <2> QED BY <2>2 DEF Keys
<1>3. ASSUME NEW s \in Sess PROVE rec[s].buf \in 0..(MaxRecs + 1)
  <2> DEFINE u == rec[s].buf
             r == left.recs
  <2>1. u \in Nat /\ r \in Nat /\ MaxRecs \in Nat /\ u <= 1 + (MaxRecs - r)
    BY <1>0, StoreAssumption DEF TypeInv, Recs, BufsInv
  <2> HIDE DEF u, r
  <2>2. u \in 0..(MaxRecs + 1)
    BY <2>1
  <2> QED BY <2>2 DEF u
<1>4. key \in [Sess -> Keys \cup {0}]
  <2>1. key \in [Sess -> Nat]
    BY <1>0 DEF TypeInv
  <2> HIDE DEF N, b
  <2> QED BY <1>2, <2>1
<1>5. rec \in [Sess -> [phase : {"none", "open", "done"}, buf : 0..(MaxRecs + 1)]]
  <2> DEFINE B == 0..(MaxRecs + 1)
  <2>1. rec \in [Sess -> Recs] /\ \A s \in Sess : rec[s].buf \in B
    BY <1>0, <1>3 DEF TypeInv
  <2> HIDE DEF B
  <2>2. \A s \in Sess : rec[s] \in [phase : {"none", "open", "done"}, buf : B]
    BY <2>1 DEF Recs
  <2>3. rec \in [Sess -> [phase : {"none", "open", "done"}, buf : B]]
    BY <2>1, <2>2
  <2> QED BY <2>3 DEF B
<1>6. pass.pc \in {"off", "drop", "side"}
  BY <1>0 DEF TypeInv, Passes
<1>7. TypeOK
  BY <1>0, <1>4, <1>5, <1>6 DEF TypeInv, HaveKeys, TypeOK
<1> QED BY <1>0, <1>7 DEF FilesFit

(* A file that somebody has open is there, whoever removes what (a session *)
(* that writes its recording, a request that reads one), and a sidecar     *)
(* outlives its recording only as asciinema.cpp and storage.cpp let it.    *)
THEOREM RecordingsFit == Spec => []FilesFit
<1>1. FitInv /\ [Next]_vars => FitInv'
  BY FitStep
<1> QED BY FitInit, <1>1, FitImplies, PTL DEF Spec

(***************************************************************************)
(* A pass of the quota is fair.                                            *)
(***************************************************************************)
Skipped    == note.fresh \cup note.kept
Ordered(L) == \A i, j \in DOMAIN L : i < j => Rank(L[i].name) > Rank(L[j].name)
Listed     == NamesOf(pass.all)

(* The list is in the order of the names, and the total is that of what is *)
(* still on it.                                                            *)
ListOK == /\ Ordered(pass.all)
          /\ \A i \in DOMAIN pass.all : key[pass.all[i].name.ses] # 0
          /\ pass.total = Total(SizeOf(pass.all), Listed)

(* A file that is off the list was busy or is newer; one on it is as read. *)
LeftListed == \A n \in DOMAIN files \ Skipped :
                 n \in Listed /\ files[n] = SizeOf(pass.all)[n]

(* Between a recording and its sidecar, the recording is gone or was busy. *)
VictimDealt == pass.pc = "side" =>
    /\ Over /\ Victim.name.kind = "cast"
    /\ Victim.name \in DOMAIN files => Victim.name \in Skipped

(* What is there holds at least what was read, unless it is a sidecar that *)
(* was written anew.                                                       *)
SizesKept == \A i \in DOMAIN pass.all : LET n == pass.all[i].name IN
    n \in DOMAIN files /\ (n.kind = "cast" \/ n \notin note.fresh)
        => files[n] >= pass.all[i].sz

(* While no clear interferes, what is on the list is there: but for the    *)
(* last, which the pass itself may just have taken.                        *)
StillThere == ~note.cleared => \A i \in DOMAIN pass.all :
    \/ pass.all[i].name \in DOMAIN files /\ files[pass.all[i].name] >= pass.all[i].sz
    \/ i = Len(pass.all) /\ (pass.pc = "side" \/ pass.all[i].name.kind = "side")

PassInv == pass.pc # "off" => ListOK /\ LeftListed /\ VictimDealt /\ SizesKept /\ StillThere

LEMMA ListTypes ==
    ASSUME TypeInv
    PROVE  /\ pass.all \in Seq(Entries) /\ pass.total \in Nat /\ Len(pass.all) \in Nat
           /\ DOMAIN pass.all = 1..Len(pass.all)
           /\ \A i \in DOMAIN pass.all :
                 /\ pass.all[i].name \in Names /\ pass.all[i].sz \in Nat
                 /\ Rank(pass.all[i].name) \in Nat
           /\ Ordered(pass.all) => Distinct(pass.all)
<1> DEFINE L == pass.all
<1>1. L \in Seq(Entries) /\ pass.total \in Nat
  BY DEF TypeInv, Passes
<1> HIDE DEF L
<1>2. Len(L) \in Nat /\ DOMAIN L = 1..Len(L) /\ \A i \in DOMAIN L : L[i] \in Entries
  BY <1>1
<1>3. \A i \in DOMAIN L : L[i].name \in Names /\ L[i].sz \in Nat
  BY <1>2 DEF Entries
<1>4. \A i \in DOMAIN L : Rank(L[i].name) \in Nat
  BY <1>3, RanksAre
<1>5. ASSUME Ordered(L) PROVE Distinct(L)
  <2> SUFFICES ASSUME NEW i \in DOMAIN L, NEW j \in DOMAIN L, L[i].name = L[j].name
               PROVE  i = j
    BY DEF Distinct
  <2>1. i < j => Rank(L[i].name) > Rank(L[j].name)
    BY <1>5 DEF Ordered
  <2>2. j < i => Rank(L[j].name) > Rank(L[i].name)
    BY <1>5 DEF Ordered
  <2> DEFINE r == Rank(L[i].name)
  <2>3. r \in Nat /\ Rank(L[j].name) = r
    BY <1>4
  <2> HIDE DEF r
  <2>4. ~(r > r)
    BY <2>3
  <2>5. i \in Nat /\ j \in Nat
    BY <1>2
  <2>6. ~(i < j) /\ ~(j < i)
    BY <2>1, <2>2, <2>3, <2>4 DEF r
  <2> QED BY <2>5, <2>6
<1> QED BY <1>1, <1>2, <1>3, <1>4, <1>5 DEF L

(* A step that leaves the pass alone: it may write, noting the file, and   *)
(* it may remove, noting the clear.                                        *)
LEMMA PassFrame ==
    ASSUME TypeInv, PassInv, UNCHANGED pass, pass.pc # "off",
           \A i \in DOMAIN pass.all : /\ Rank(pass.all[i].name)' = Rank(pass.all[i].name)
                                      /\ key'[pass.all[i].name.ses] # 0,
           note.fresh \subseteq note'.fresh, note.kept \subseteq note'.kept,
           \A n \in DOMAIN files' \ note'.fresh : n \in DOMAIN files /\ files'[n] = files[n],
           \A n \in DOMAIN files' : n.kind = "cast" /\ n \in Listed =>
               n \in DOMAIN files /\ files'[n] >= files[n],
           ~note'.cleared => ~note.cleared /\ \A n \in DOMAIN files :
                                n \in DOMAIN files' /\ files'[n] >= files[n],
           \A n \in DOMAIN files' : files'[n] \in Nat
    PROVE  PassInv'
<1> DEFINE L == pass.all
<1>0. /\ Ordered(L) /\ \A i \in DOMAIN L : key[L[i].name.ses] # 0
      /\ pass.total = Total(SizeOf(L), NamesOf(L))
      /\ LeftListed /\ VictimDealt /\ SizesKept /\ StillThere
  BY DEF PassInv, ListOK, Listed
<1>1. pass' = pass /\ L' = L
  OBVIOUS
<1>2. /\ \A n \in DOMAIN files : files[n] \in Nat
      /\ \A i \in DOMAIN L : L[i].name \in Names /\ L[i].sz \in Nat
  BY ListTypes DEF TypeInv
<1>3. ListOK'
  <2>1. Ordered(L)'
    BY <1>0, <1>1 DEF Ordered
  <2>2. \A i \in DOMAIN L' : key'[L'[i].name.ses] # 0
    BY <1>1
  <2>3. pass'.total = Total(SizeOf(pass'.all), NamesOf(pass'.all))
    BY <1>0, <1>1
  <2> QED BY <2>1, <2>2, <2>3 DEF ListOK, Listed, NamesOf, SizeOf, Total, SumOver, Sums, Chosen
<1>4. LeftListed'
  <2>1. ASSUME NEW n \in DOMAIN files', n \notin note'.fresh, n \notin note'.kept
        PROVE  n \in NamesOf(L) /\ files'[n] = SizeOf(L)[n]
    BY <1>0, <2>1 DEF LeftListed, Skipped, Listed
  <2>2. NamesOf(pass'.all) = NamesOf(L) /\ SizeOf(pass'.all) = SizeOf(L)
    BY <1>1
  <2> QED BY <2>1, <2>2 DEF LeftListed, Skipped, Listed
<1>5. VictimDealt'
  <2>1. Over' = Over /\ Victim' = Victim
    BY <1>1 DEF Over, Victim
  <2>2. Victim.name \in DOMAIN files' => Victim.name \in DOMAIN files \/ Victim.name \in note'.fresh
    OBVIOUS
  <2>3. Victim.name \in Skipped => Victim.name \in Skipped'
    BY DEF Skipped
  <2>4. note'.fresh \subseteq Skipped'
    BY DEF Skipped
  <2> QED BY <1>0, <1>1, <2>1, <2>2, <2>3, <2>4 DEF VictimDealt
<1>6. SizesKept'
  <2>1. ASSUME NEW i \in DOMAIN L, L[i].name \in DOMAIN files',
               L[i].name.kind = "cast" \/ L[i].name \notin note'.fresh
        PROVE  files'[L[i].name] >= L[i].sz
    <3> DEFINE n == L[i].name
    <3>1. n \in Listed
      BY DEF Listed, NamesOf
    <3>2. n \in DOMAIN files /\ files'[n] >= files[n]
      <4>1. CASE n.kind = "cast"
        BY <2>1, <3>1, <4>1
      <4>2. CASE n \notin note'.fresh
        <5>1. n \in DOMAIN files /\ files'[n] = files[n] /\ files[n] \in Nat
          BY <1>2, <2>1, <4>2
        <5> DEFINE a == files[n]
                   b == files'[n]
        <5>2. b = a /\ a \in Nat
          BY <5>1
        <5> HIDE DEF a, b
        <5>3. b >= a
          BY <5>2
        <5> QED BY <5>1, <5>3 DEF a, b
      <4> QED BY <2>1, <4>1, <4>2
    <3>3. files[n] >= L[i].sz
      BY <1>0, <2>1, <3>2 DEF SizesKept
    <3> DEFINE a == files[n]
               b == files'[n]
               c == L[i].sz
    <3>4. a \in Nat /\ b \in Nat /\ c \in Nat /\ b >= a /\ a >= c
      BY <1>2, <2>1, <3>2, <3>3
    <3> HIDE DEF a, b, c
    <3>5. b >= c
      BY <3>4
    <3> QED BY <3>5 DEF b, c
  <2> QED BY <1>1, <2>1 DEF SizesKept
<1>7. StillThere'
  <2>1. ASSUME ~note'.cleared, NEW i \in DOMAIN L
        PROVE  \/ L[i].name \in DOMAIN files' /\ files'[L[i].name] >= L[i].sz
               \/ i = Len(L) /\ (pass.pc = "side" \/ L[i].name.kind = "side")
    <3> DEFINE n == L[i].name
    <3>1. CASE n \in DOMAIN files /\ files[n] >= L[i].sz
      <4>1. n \in DOMAIN files' /\ files'[n] >= files[n]
        BY <2>1, <3>1
      <4> DEFINE a == files[n]
                 b == files'[n]
                 c == L[i].sz
      <4>2. a \in Nat /\ b \in Nat /\ c \in Nat /\ b >= a /\ a >= c
        BY <1>2, <3>1, <4>1
      <4> HIDE DEF a, b, c
      <4>3. b >= c
        BY <4>2
      <4> QED BY <4>1, <4>3 DEF b, c
    <3>2. CASE i = Len(L) /\ (pass.pc = "side" \/ n.kind = "side")
      BY <3>2
    <3> QED BY <1>0, <2>1, <3>1, <3>2 DEF StillThere
  <2> QED BY <1>1, <2>1 DEF StillThere
<1> QED BY <1>3, <1>4, <1>5, <1>6, <1>7 DEF PassInv

(* A recorder writes: the list keeps its order, and the file is noted.     *)
LEMMA RecorderPass ==
    ASSUME FitInv, PassInv, NEW s \in Sess,
           RecorderBegin(s) \/ Record(s) \/ LogEvent(s) \/ Close(s)
    PROVE  PassInv'
<1> SUFFICES ASSUME pass.pc # "off" PROVE PassInv'
  BY RecorderSteps DEF FitInv, PassInv
<1>0. TypeInv /\ KeysInv /\ BufsInv /\ OpenFilesStay
  BY DEF FitInv
<1>1. UNCHANGED pass
  BY <1>0, RecorderSteps
<1>2. /\ \A t \in Sess : key[t] # 0 => key'[t] = key[t]
      /\ \/ UNCHANGED <<files, note>>
         \/ /\ key'[s] # 0
            /\ \/ Writes(Cast(s)) /\ (key[s] = 0 \/ Open(s))
               \/ Writes(Side(s)) /\ Open(s)
  BY <1>0, RecorderKeys
<1>3. Cast(s) \in Names /\ Side(s) \in Names /\ Cast(s).ses = s /\ Side(s).kind = "side"
  BY SessionNames DEF Cast, Side
<1>4. \A i \in DOMAIN pass.all : key[pass.all[i].name.ses] # 0 /\ pass.all[i].name.ses \in Sess
  BY <1>0, ListTypes DEF PassInv, ListOK, Names
<1>5. \A i \in DOMAIN pass.all : /\ Rank(pass.all[i].name)' = Rank(pass.all[i].name)
                                 /\ key'[pass.all[i].name.ses] # 0
  BY <1>1, <1>2, <1>4 DEF Rank
<1>6. \A n \in DOMAIN files : files[n] \in Nat
  BY <1>0 DEF TypeInv
<1>7. \A n \in DOMAIN files : files[n] >= files[n]
  BY <1>6
<1>8. CASE UNCHANGED <<files, note>>
  <2>1. ~note'.cleared => ~note.cleared /\ \A n \in DOMAIN files :
                                n \in DOMAIN files' /\ files'[n] >= files[n]
    BY <1>7, <1>8
  <2>2. \A n \in DOMAIN files' : n.kind = "cast" /\ n \in Listed =>
               n \in DOMAIN files /\ files'[n] >= files[n]
    BY <1>7, <1>8
  <2>3. \A n \in DOMAIN files' \ note'.fresh : n \in DOMAIN files /\ files'[n] = files[n]
    BY <1>8
  <2>4. note.fresh \subseteq note'.fresh /\ note.kept \subseteq note'.kept
    BY <1>8
  <2>5. \A n \in DOMAIN files' : files'[n] \in Nat
    BY <1>6, <1>8
  <2> QED BY <1>0, <1>1, <1>5, <2>1, <2>2, <2>3, <2>4, <2>5, PassFrame
<1>9. ASSUME NEW w \in Names, Writes(w), w.kind = "cast" => w.ses = s /\ (key[s] = 0 \/ w \in DOMAIN files)
      PROVE  PassInv'
  <2>1. /\ DOMAIN files' = DOMAIN files \cup {w}
        /\ \A m \in DOMAIN files : m # w => files'[m] = files[m]
        /\ \A m \in DOMAIN files' : files'[m] \in Nat
        /\ \A m \in DOMAIN files : files[m] <= files'[m]
        /\ note'.kept = note.kept /\ note'.cleared = note.cleared
        /\ note'.fresh = note.fresh \cup {w}
    BY <1>0, <1>9, WritesIs
  <2>2. \A m \in DOMAIN files : files'[m] >= files[m]
    BY <1>6, <2>1
  <2>3. ~note'.cleared => ~note.cleared /\ \A n \in DOMAIN files :
                                n \in DOMAIN files' /\ files'[n] >= files[n]
    BY <2>1, <2>2
  <2>4. \A n \in DOMAIN files' : n.kind = "cast" /\ n \in Listed =>
               n \in DOMAIN files /\ files'[n] >= files[n]
    <3> SUFFICES ASSUME NEW n \in DOMAIN files', n.kind = "cast", n \in Listed
                 PROVE  n \in DOMAIN files
      BY <2>2
    <3>1. key[n.ses] # 0
      BY <1>4 DEF Listed, NamesOf
    <3> QED BY <1>9, <2>1, <3>1
  <2>5. \A n \in DOMAIN files' \ note'.fresh : n \in DOMAIN files /\ files'[n] = files[n]
    BY <2>1
  <2>6. note.fresh \subseteq note'.fresh /\ note.kept \subseteq note'.kept
    BY <2>1
  <2> QED BY <1>0, <1>1, <1>5, <2>1, <2>3, <2>4, <2>5, <2>6, PassFrame
<1>10. Open(s) => Cast(s) \in DOMAIN files
  BY <1>0 DEF OpenFilesStay
<1> QED BY <1>2, <1>3, <1>8, <1>9, <1>10

(* What leaves files, keys, list and notes alone.                          *)
LEMMA PassStays ==
    ASSUME PassInv, UNCHANGED <<files, key, pass, note>>
    PROVE  PassInv'
<1> SUFFICES ASSUME pass.pc # "off" PROVE PassInv'
  BY DEF PassInv
<1>1. ListOK /\ LeftListed /\ VictimDealt /\ SizesKept /\ StillThere
  BY DEF PassInv
<1>2. \A n : Rank(n)' = Rank(n)
  BY DEF Rank
<1>3. NamesOf(pass'.all) = NamesOf(pass.all) /\ SizeOf(pass'.all) = SizeOf(pass.all)
  OBVIOUS
<1>4. ListOK'
  <2>1. Ordered(pass.all)'
    BY <1>1, <1>2 DEF ListOK, Ordered
  <2>2. pass'.total = Total(SizeOf(pass'.all), NamesOf(pass'.all))
    BY <1>1 DEF ListOK, Listed
  <2>3. \A i \in DOMAIN pass'.all : key'[pass'.all[i].name.ses] # 0
    BY <1>1 DEF ListOK
  <2> QED BY <2>1, <2>2, <2>3 DEF ListOK, Listed
<1>5. LeftListed'
  BY <1>1, <1>3 DEF LeftListed, Skipped, Listed
<1>6. VictimDealt'
  BY <1>1 DEF VictimDealt, Skipped, Over, Victim
<1>7. SizesKept'
  BY <1>1 DEF SizesKept
<1>8. StillThere'
  BY <1>1 DEF StillThere
<1> QED BY <1>4, <1>5, <1>6, <1>7, <1>8 DEF PassInv

(* A clear removes, and says so.                                           *)
LEMMA ClearPass ==
    ASSUME FitInv, PassInv, ClearRemove
    PROVE  PassInv'
<1>0. TypeInv
  BY DEF FitInv
<1> DEFINE n == Head(clr)
<1>1. /\ files' = Without(n) /\ UNCHANGED <<key, pass>>
      /\ note'.fresh = note.fresh /\ note'.kept = note.kept
      /\ note'.cleared = (note.cleared \/ (Removable(n) /\ pass.pc # "off"))
  BY <1>0, ClearSteps
<1> HIDE DEF n
<1> SUFFICES ASSUME pass.pc # "off" PROVE PassInv'
  BY <1>1 DEF PassInv
<1>2. /\ DOMAIN files' = DOMAIN files \ (IF Removable(n) THEN {n} ELSE {})
      /\ \A m \in DOMAIN files' : files'[m] = files[m] /\ files'[m] \in Nat
  BY <1>0, <1>1, WithoutIs
<1>3. \A i \in DOMAIN pass.all : /\ Rank(pass.all[i].name)' = Rank(pass.all[i].name)
                                 /\ key'[pass.all[i].name.ses] # 0
  BY <1>1 DEF Rank, PassInv, ListOK
<1>4. \A m \in DOMAIN files' : m \in DOMAIN files /\ files'[m] >= files[m]
  BY <1>2
<1>5. note.fresh \subseteq note'.fresh /\ note.kept \subseteq note'.kept
  BY <1>1
<1>6. ~note'.cleared => ~note.cleared /\ \A m \in DOMAIN files :
                             m \in DOMAIN files' /\ files'[m] >= files[m]
  <2> SUFFICES ASSUME ~note'.cleared
               PROVE  ~note.cleared /\ \A m \in DOMAIN files :
                             m \in DOMAIN files' /\ files'[m] >= files[m]
    OBVIOUS
  <2>1. ~note.cleared /\ ~Removable(n)
    BY <1>1
  <2>2. DOMAIN files' = DOMAIN files
    BY <1>2, <2>1
  <2> QED BY <1>4, <2>1, <2>2
<1>7. \A m \in DOMAIN files' \ note'.fresh : m \in DOMAIN files /\ files'[m] = files[m]
  BY <1>2, <1>4
<1>8. \A m \in DOMAIN files' : m.kind = "cast" /\ m \in Listed =>
               m \in DOMAIN files /\ files'[m] >= files[m]
  BY <1>4
<1>9. \A m \in DOMAIN files' : files'[m] \in Nat
  BY <1>2
<1> QED BY <1>0, <1>1, <1>3, <1>5, <1>6, <1>7, <1>8, <1>9, PassFrame

(* A pass begins with what is there.                                       *)
LEMMA BeginPass ==
    ASSUME FitInv, NEW who \in {"main", "persister"}, PassBegin(who)
    PROVE  PassInv'
<1>0. TypeInv /\ KeysInv /\ HaveKeys
  BY DEF FitInv
<1> DEFINE L == pass'.all
<1>1. /\ pass'.pc = "drop" /\ pass'.total = Bytes(DOMAIN files)
      /\ L \in Seq(Entries) /\ DOMAIN L = DOMAIN ListDir
      /\ \A i \in DOMAIN L : /\ L[i].name = ListDir[i] /\ ListDir[i] \in DOMAIN files
                             /\ L[i].sz = files[ListDir[i]]
      /\ UNCHANGED <<files, key, rec, reading, clr, up, left, note>>
  BY <1>0, PassBeginIs
<1>2. /\ \A i, j \in DOMAIN ListDir : i < j => Rank(ListDir[i]) > Rank(ListDir[j])
      /\ \A n \in DOMAIN files : \E i \in DOMAIN ListDir : ListDir[i] = n
  BY <1>0, ListDirTypes
<1>3. ASSUME NEW i \in DOMAIN L, NEW j \in DOMAIN L, i < j
      PROVE  Rank(L[i].name) > Rank(L[j].name)
  <2>1. i \in DOMAIN ListDir /\ j \in DOMAIN ListDir
    BY <1>1
  <2>2. Rank(ListDir[i]) > Rank(ListDir[j])
    BY <1>2, <1>3, <2>1
  <2>3. L[i].name = ListDir[i] /\ L[j].name = ListDir[j]
    BY <1>1
  <2> QED BY <2>2, <2>3
<1>4. key' = key
  BY <1>1
<1>5. TypeInv'
  <2>1. FitInv'
    BY FitStep DEF Next
  <2> QED BY <2>1 DEF FitInv
<1>6. Ordered(pass.all)'
  BY <1>3, <1>4 DEF Ordered, Rank
<1>7. Distinct(L)
  <2>1. (Ordered(pass.all) => Distinct(pass.all))'
    BY <1>5, ListTypes, PTL
  <2> QED BY <1>6, <2>1
<1> HIDE DEF L
<1>8. NamesOf(L) = DOMAIN files
  <2>1. \A i \in DOMAIN L : L[i].name \in DOMAIN files
    BY <1>1
  <2>2. \A n \in DOMAIN files : \E i \in DOMAIN L : L[i].name = n
    BY <1>1, <1>2
  <2> QED BY <2>1, <2>2 DEF NamesOf
<1>9. ASSUME NEW n \in DOMAIN files PROVE SizeOf(L)[n] = files[n]
  <2>1. PICK i \in DOMAIN L : L[i].name = n
    BY <1>1, <1>2
  <2>2. SizeOf(L)[L[i].name] = L[i].sz
    BY <1>7, SizeIs
  <2> QED BY <1>1, <2>1, <2>2
<1>10. pass'.total = Total(SizeOf(L), NamesOf(L))
  <2>1. IsFiniteSet(DOMAIN files) /\ Bytes(DOMAIN files) = Total(files, DOMAIN files)
    BY <1>0, FilesFinite
  <2>2. Total(SizeOf(L), DOMAIN files) = Total(files, DOMAIN files)
    <3> DEFINE g == SizeOf(L)
    <3>1. \A x \in DOMAIN files : g[x] = files[x]
      BY <1>9
    <3> HIDE DEF g
    <3>2. Total(g, DOMAIN files) = Total(files, DOMAIN files)
      BY <2>1, <3>1, TotalAgrees
    <3> QED BY <3>2 DEF g
  <2> QED BY <1>1, <1>8, <2>1, <2>2
<1>11. ListOK'
  <2>1. \A i \in DOMAIN L : key'[L[i].name.ses] # 0
    BY <1>0, <1>1 DEF HaveKeys
  <2> QED BY <1>6, <1>10, <2>1 DEF ListOK, Listed, L
<1>12. LeftListed'
  <2>1. \A n \in DOMAIN files' : n \in NamesOf(L) /\ files'[n] = SizeOf(L)[n]
    BY <1>1, <1>8, <1>9
  <2> QED BY <2>1 DEF LeftListed, Listed, L
<1>13. VictimDealt'
  BY <1>1 DEF VictimDealt
<1>14. \A i \in DOMAIN L : L[i].name \in DOMAIN files' /\ files'[L[i].name] >= L[i].sz
  <2>1. \A n \in DOMAIN files : files[n] \in Nat
    BY <1>0 DEF TypeInv
  <2>2. \A n \in DOMAIN files : files[n] >= files[n]
    BY <2>1
  <2> QED BY <1>1, <2>2
<1>15. SizesKept'
  BY <1>14 DEF SizesKept, L
<1>16. StillThere'
  BY <1>14 DEF StillThere, L
<1> QED BY <1>11, <1>12, <1>13, <1>15, <1>16 DEF PassInv

(* The total without the entry that was taken off.                         *)
LEMMA PopTotal ==
    ASSUME NEW L \in Seq(Entries), Distinct(L), L # <<>>,
           NEW t, t = Total(SizeOf(L), NamesOf(L))
    PROVE  (IF t > Last(L).sz THEN t - Last(L).sz ELSE 0)
              = Total(SizeOf(Front(L)), NamesOf(Front(L)))
<1> DEFINE S == NamesOf(L)
           K == Front(L)
           v == Last(L).name
           z == Last(L).sz
           f == SizeOf(L)
           g == SizeOf(K)
           R == NamesOf(K)
<1>1. /\ IsFiniteSet(S) /\ \A n \in S : f[n] \in Nat
      /\ v \in S /\ f[v] = z /\ R = S \ {v} /\ \A n \in R : g[n] = f[n]
  BY NamesCounted, NamesAre, Pops
<1> HIDE DEF S, K, v, z, f, g, R
<1>2. IsFiniteSet(R) /\ \A n \in R : f[n] \in Nat
  BY <1>1, FS_Subset
<1>3. Total(f, S) = f[v] + Total(f, S \ {v})
  BY <1>1, TotalSplit
<1>4. Total(g, R) = Total(f, R)
  BY <1>1, <1>2, TotalAgrees
<1>5. Total(f, R) \in Int
  BY <1>2, TotalType
<1>6. 0 <= Total(f, R)
  <2>1. Total(f, {}) <= Total(f, R)
    BY <1>2, TotalGrows
  <2> QED BY <2>1, TotalOfNone
<1>7. z \in Nat
  BY <1>1
<1>8. t = Total(f, S)
  BY DEF S, f
<1> DEFINE r == Total(f, R)
<1>9. t = z + r /\ r \in Int /\ 0 <= r
  BY <1>1, <1>3, <1>5, <1>6, <1>8
<1> HIDE DEF r
<1>10. (IF t > z THEN t - z ELSE 0) = r
  BY <1>7, <1>9
<1> QED BY <1>4, <1>10 DEF r, z, g, R, K

(* The list is taken one entry further, and only the file of that entry,   *)
(* or of its sidecar, is gone.                                             *)
LEMMA PopKeeps ==
    ASSUME FitInv, PassInv, pass.pc # "off", pass.all # <<>>, pass' = Popped, UNCHANGED key,
           NEW gone, DOMAIN files' = DOMAIN files \ gone,
           \A m \in DOMAIN files' : files'[m] = files[m],
           note'.fresh = note.fresh, note.kept \subseteq note'.kept, note'.cleared = note.cleared,
           Victim.name \in DOMAIN files' => Victim.name \in Skipped',
           \A i \in 1..(Len(pass.all) - 1) : pass.all[i].name \in gone
               => i = Len(pass.all) - 1 /\ pass.all[i].name.kind = "side"
    PROVE  PassInv'
<1> DEFINE L == pass.all
           K == Front(L)
           N == Len(L)
<1>0. TypeInv /\ ListOK /\ LeftListed /\ SizesKept /\ StillThere
  BY DEF FitInv, PassInv
<1>1. /\ L \in Seq(Entries) /\ N \in Nat /\ Distinct(L) /\ DOMAIN L = 1..N
      /\ \A i \in DOMAIN L : L[i].sz \in Nat
  BY <1>0, ListTypes DEF ListOK
<1>2. /\ K \in Seq(Entries) /\ Len(K) = N - 1 /\ DOMAIN K = 1..(N - 1)
      /\ \A i \in 1..(N - 1) : i \in DOMAIN L /\ K[i] = L[i]
      /\ NamesOf(K) = NamesOf(L) \ {Victim.name}
      /\ \A n \in NamesOf(K) : SizeOf(K)[n] = SizeOf(L)[n]
  BY <1>1, Pops DEF Victim
<1>3. /\ pass'.pc = "drop" /\ pass'.all = K
      /\ pass'.total = IF pass.total > Victim.sz THEN pass.total - Victim.sz ELSE 0
  BY <1>0, PopIs
<1>4. ListOK'
  <2>1. Ordered(pass.all)'
    <3>1. ASSUME NEW i \in DOMAIN K, NEW j \in DOMAIN K, i < j
          PROVE  Rank(K[i].name) > Rank(K[j].name)
      <4>1. i \in DOMAIN L /\ j \in DOMAIN L /\ K[i] = L[i] /\ K[j] = L[j]
        BY <1>2
      <4> HIDE DEF K, L
      <4> QED BY <1>0, <3>1, <4>1 DEF ListOK, Ordered, L
    <3> HIDE DEF K, L
    <3>2. key' = key
      OBVIOUS
    <3> QED BY <1>3, <3>1, <3>2 DEF Ordered, Rank
  <2>2. \A i \in DOMAIN K : key'[K[i].name.ses] # 0
    <3> HIDE DEF K, L
    <3> QED BY <1>0, <1>2 DEF ListOK, L
  <2>3. pass'.total = Total(SizeOf(K), NamesOf(K))
    <3>1. pass.total = Total(SizeOf(L), NamesOf(L))
      BY <1>0 DEF ListOK, Listed
    <3>2. (IF pass.total > Last(L).sz THEN pass.total - Last(L).sz ELSE 0)
              = Total(SizeOf(Front(L)), NamesOf(Front(L)))
      <4> DEFINE t == pass.total
      <4>1. t = Total(SizeOf(L), NamesOf(L))
        BY <3>1
      <4> HIDE DEF L, t
      <4> QED BY <1>1, <4>1, PopTotal DEF L, t
    <3> QED BY <1>3, <3>2 DEF Victim
  <2> QED BY <1>3, <2>1, <2>2, <2>3 DEF ListOK, Listed
<1>5. LeftListed'
  <2>1. ASSUME NEW n \in DOMAIN files' \ Skipped'
        PROVE  n \in NamesOf(K) /\ files'[n] = SizeOf(K)[n]
    <3>1. n \in DOMAIN files \ Skipped
      BY DEF Skipped
    <3>2. n \in NamesOf(L) /\ files[n] = SizeOf(L)[n]
      BY <1>0, <3>1 DEF LeftListed, Listed
    <3>3. n # Victim.name
      OBVIOUS
    <3> QED BY <1>2, <3>2, <3>3
  <2> QED BY <1>3, <2>1 DEF LeftListed, Listed
<1>6. VictimDealt'
  BY <1>3 DEF VictimDealt
<1>7. SizesKept'
  <2>1. ASSUME NEW i \in DOMAIN K, K[i].name \in DOMAIN files',
               K[i].name.kind = "cast" \/ K[i].name \notin note'.fresh
        PROVE  files'[K[i].name] >= K[i].sz
    <3>1. i \in DOMAIN L /\ K[i] = L[i]
      BY <1>2
    <3> HIDE DEF K, L
    <3>2. files[L[i].name] >= L[i].sz
      BY <1>0, <2>1, <3>1 DEF SizesKept, L
    <3> QED BY <2>1, <3>1, <3>2
  <2> QED BY <1>3, <2>1 DEF SizesKept
<1>8. StillThere'
  <2>1. ASSUME ~note.cleared, NEW i \in DOMAIN K
        PROVE  \/ K[i].name \in DOMAIN files' /\ files'[K[i].name] >= K[i].sz
               \/ i = Len(K) /\ K[i].name.kind = "side"
    <3>1. i \in DOMAIN L /\ K[i] = L[i] /\ i \in 1..(N - 1) /\ Len(K) = N - 1
      BY <1>2
    <3>2. i # N
      <4> HIDE DEF N
      <4> QED BY <1>1, <3>1
    <3>3. L[i].name \in DOMAIN files /\ files[L[i].name] >= L[i].sz
      BY <1>0, <2>1, <3>1, <3>2 DEF StillThere
    <3>4. CASE L[i].name \in gone
      BY <3>1, <3>4
    <3>5. CASE L[i].name \notin gone
      <4>1. L[i].name \in DOMAIN files'
        BY <3>3, <3>5
      <4>2. files'[L[i].name] = files[L[i].name]
        BY <4>1
      <4> QED BY <3>1, <3>3, <4>1, <4>2
    <3> QED BY <3>4, <3>5
  <2> QED BY <1>3, <2>1 DEF StillThere
<1> QED BY <1>3, <1>4, <1>5, <1>6, <1>7, <1>8 DEF PassInv

LEMMA LastIs ==
    ASSUME TypeInv, pass.all # <<>>
    PROVE  /\ Len(pass.all) \in DOMAIN pass.all /\ Victim = pass.all[Len(pass.all)]
           /\ Len(pass.all) \in Nat \ {0} /\ DOMAIN pass.all = 1..Len(pass.all)
           /\ Victim.name \in Names /\ Victim.sz \in Nat
<1>1. pass.all \in Seq(Entries)
  BY ListTypes
<1>2. Victim = pass.all[Len(pass.all)]
  BY DEF Victim, Last
<1>3. Victim \in Entries
  BY PopIs
<1> QED BY <1>1, <1>2, <1>3 DEF Entries

(* The oldest listed file is taken.                                        *)
LEMMA VictimPass ==
    ASSUME FitInv, PassInv, RemoveVictim
    PROVE  PassInv'
<1>0. TypeInv
  BY DEF FitInv
<1> DEFINE v == Victim.name
           gone == IF Removable(v) THEN {v} ELSE {}
           L == pass.all
           N == Len(L)
<1>1. /\ pass.pc = "drop" /\ L # <<>> /\ Over /\ files' = Without(v) /\ UNCHANGED key
      /\ note'.fresh = note.fresh /\ note'.cleared = note.cleared
      /\ note'.kept = note.kept \cup (IF Busy(v) THEN {v} ELSE {})
      /\ \/ /\ v.kind = "cast" /\ pass'.pc = "side" /\ pass'.all = L /\ pass'.total = pass.total
         \/ v.kind # "cast" /\ pass' = Popped
  BY <1>0, VictimSteps
<1>2. /\ DOMAIN files' = DOMAIN files \ gone
      /\ \A m \in DOMAIN files' : files'[m] = files[m]
  BY <1>0, <1>1, WithoutIs
<1>3. ListOK /\ LeftListed /\ SizesKept /\ StillThere
  BY <1>1 DEF PassInv
<1>4. v \in DOMAIN files' => v \in Skipped'
  <2> SUFFICES ASSUME v \in DOMAIN files' PROVE Busy(v)
    BY <1>1 DEF Skipped
  <2>1. v \in DOMAIN files /\ ~Removable(v)
    BY <1>2
  <2> QED BY <2>1 DEF Removable
<1>5. /\ Distinct(L) /\ N \in DOMAIN L /\ L[N].name = v
      /\ N \in Nat \ {0} /\ DOMAIN L = 1..N
  BY <1>0, <1>1, <1>3, ListTypes, LastIs DEF ListOK
<1>6. \A i \in DOMAIN L : L[i].name \in gone => i = N
  <2> HIDE DEF L, N, v
  <2> QED BY <1>5 DEF Distinct
<1>7. CASE v.kind # "cast" /\ pass' = Popped
  <2>1. ASSUME NEW i \in 1..(N - 1) PROVE i \in DOMAIN L /\ i # N
    <3> HIDE DEF N, L
    <3> QED BY <1>5
  <2>2. \A i \in 1..(N - 1) : L[i].name \notin gone
    BY <1>6, <2>1
  <2>3. note.kept \subseteq note'.kept /\ pass.pc # "off"
    BY <1>1
  <2> HIDE DEF gone
  <2> QED BY <1>1, <1>2, <1>4, <1>7, <2>2, <2>3, PopKeeps
<1>8. CASE v.kind = "cast" /\ pass'.pc = "side" /\ pass'.all = L /\ pass'.total = pass.total
  <2>0. NamesOf(pass'.all) = NamesOf(pass.all) /\ SizeOf(pass'.all) = SizeOf(pass.all)
    BY <1>8
  <2>1. ListOK'
    <3>1. key' = key
      BY <1>1
    <3>2. Ordered(pass.all)'
      BY <1>3, <1>8, <3>1 DEF ListOK, Ordered, Rank
    <3>3. pass'.total = Total(SizeOf(pass'.all), NamesOf(pass'.all))
      BY <1>3, <1>8, <2>0 DEF ListOK, Listed
    <3>4. \A i \in DOMAIN pass'.all : key'[pass'.all[i].name.ses] # 0
      BY <1>3, <1>8, <3>1 DEF ListOK
    <3> QED BY <3>2, <3>3, <3>4 DEF ListOK, Listed
  <2>2. LeftListed'
    <3>1. ASSUME NEW n \in DOMAIN files' \ Skipped'
          PROVE  n \in NamesOf(L) /\ files'[n] = SizeOf(L)[n]
      <4>1. n \in DOMAIN files \ Skipped
        BY <1>1, <1>2 DEF Skipped
      <4> QED BY <1>2, <1>3, <4>1 DEF LeftListed, Listed
    <3> QED BY <2>0, <3>1 DEF LeftListed, Listed
  <2>3. VictimDealt'
    <3>1. Over' = Over /\ Victim' = Victim
      BY <1>8 DEF Over, Victim
    <3> QED BY <1>1, <1>4, <1>8, <3>1 DEF VictimDealt
  <2>4. SizesKept'
    BY <1>1, <1>2, <1>3, <1>8 DEF SizesKept
  <2>5. StillThere'
    <3>1. ASSUME ~note.cleared, NEW i \in DOMAIN L
          PROVE  \/ L[i].name \in DOMAIN files' /\ files'[L[i].name] >= L[i].sz
                 \/ i = Len(L)
      <4>1. CASE i = N
        BY <4>1
      <4>2. CASE i # N
        <5>1. L[i].name \in DOMAIN files /\ files[L[i].name] >= L[i].sz
          BY <1>3, <3>1, <4>2 DEF StillThere
        <5>2. L[i].name \in DOMAIN files'
          BY <1>2, <1>6, <4>2, <5>1
        <5> QED BY <1>2, <5>1, <5>2
      <4> QED BY <4>1, <4>2
    <3> QED BY <1>1, <1>8, <3>1 DEF StillThere
  <2> QED BY <2>1, <2>2, <2>3, <2>4, <2>5 DEF PassInv
<1> QED BY <1>1, <1>7, <1>8

(* Its sidecar stands right before it on the list.                         *)
LEMMA SideBefore ==
    ASSUME FitInv, PassInv, pass.pc # "off", pass.all # <<>>, Victim.name.kind = "cast",
           NEW i \in 1..(Len(pass.all) - 1), pass.all[i].name = Side(Victim.name.ses)
    PROVE  i = Len(pass.all) - 1
<1> DEFINE L == pass.all
           N == Len(L)
           R(j) == Rank(L[j].name)
<1>0. TypeInv /\ ListOK
  BY DEF FitInv, PassInv
<1>1. N \in DOMAIN L /\ DOMAIN L = 1..N /\ N \in Nat \ {0} /\ Victim = L[N]
  BY <1>0, LastIs
<1>2. \A j \in DOMAIN L : R(j) \in Nat
  BY <1>0, ListTypes
<1>3. \A j, k \in DOMAIN L : j < k => R(j) > R(k)
  BY <1>0 DEF ListOK, Ordered
<1>4. R(i) = R(N) + 1
  <2>1. Victim.name \in Names
    BY <1>0, LastIs
  <2>2. Victim.name.ses \in Sess /\ Victim.name = Cast(Victim.name.ses)
    BY <2>1 DEF Names, Cast
  <2>3. Rank(Side(Victim.name.ses)) = Rank(Cast(Victim.name.ses)) + 1
    BY <1>0, <2>2, RanksAre
  <2> QED BY <1>1, <2>2, <2>3
<1> SUFFICES ASSUME i # N - 1 PROVE FALSE
  OBVIOUS
<1>5. i \in DOMAIN L /\ N - 1 \in DOMAIN L /\ i < N - 1 /\ N - 1 < N
  <2> HIDE DEF N, L
  <2>1. i \in 1..(N - 1)
    BY DEF N, L
  <2> QED BY <1>1, <2>1
<1> HIDE DEF N, L
<1>6. R(i) > R(N - 1) /\ R(N - 1) > R(N)
  BY <1>1, <1>3, <1>5
<1>7. R(i) \in Nat /\ R(N - 1) \in Nat /\ R(N) \in Nat
  BY <1>1, <1>2, <1>5
<1> DEFINE a == R(i)
           b == R(N - 1)
           c == R(N)
<1>8. a > b /\ b > c /\ a = c + 1 /\ a \in Nat /\ b \in Nat /\ c \in Nat
  BY <1>4, <1>6, <1>7
<1> HIDE DEF a, b, c, R
<1> QED BY <1>8

LEMMA SidePass ==
    ASSUME FitInv, PassInv, RemoveSide
    PROVE  PassInv'
<1>0. TypeInv
  BY DEF FitInv
<1> DEFINE n == Side(Victim.name.ses)
           gone == IF Removable(n) THEN {n} ELSE {}
<1>1. /\ pass.pc = "side" /\ pass.all # <<>> /\ files' = Without(n) /\ pass' = Popped
      /\ UNCHANGED key /\ note'.fresh = note.fresh /\ note'.cleared = note.cleared
      /\ note'.kept = note.kept \cup (IF Busy(n) THEN {n} ELSE {})
  BY <1>0, SideSteps
<1>2. /\ DOMAIN files' = DOMAIN files \ gone
      /\ \A m \in DOMAIN files' : files'[m] = files[m]
  BY <1>0, <1>1, WithoutIs
<1>3. VictimDealt /\ pass.pc # "off"
  BY <1>1 DEF PassInv
<1>4. Victim.name \in DOMAIN files' => Victim.name \in Skipped'
  BY <1>1, <1>2, <1>3 DEF VictimDealt, Skipped
<1>5. \A i \in 1..(Len(pass.all) - 1) : pass.all[i].name \in gone
               => i = Len(pass.all) - 1 /\ pass.all[i].name.kind = "side"
  <2> SUFFICES ASSUME NEW i \in 1..(Len(pass.all) - 1), pass.all[i].name = n
               PROVE  i = Len(pass.all) - 1 /\ pass.all[i].name.kind = "side"
    OBVIOUS
  <2>1. pass.all[i].name.kind = "side"
    BY DEF Side
  <2>2. i = Len(pass.all) - 1
    BY <1>1, <1>3, SideBefore DEF VictimDealt
  <2> QED BY <2>1, <2>2
<1>6. note.kept \subseteq note'.kept
  BY <1>1
<1> HIDE DEF gone
<1> QED BY <1>1, <1>2, <1>3, <1>4, <1>5, <1>6, PopKeeps

QuotaInv == FitInv /\ PassInv

LEMMA QuotaInit == Init => QuotaInv
<1> SUFFICES ASSUME Init PROVE QuotaInv
  OBVIOUS
<1>1. pass.pc = "off"
  BY DEF Init, NoPass
<1> QED BY <1>1, FitInit DEF QuotaInv, PassInv

LEMMA QuotaStep == QuotaInv /\ [Next]_vars => QuotaInv'
<1> SUFFICES ASSUME QuotaInv, [Next]_vars PROVE PassInv'
  BY FitStep DEF QuotaInv
<1>0. FitInv /\ PassInv /\ TypeInv
  BY DEF QuotaInv, FitInv
<1>1. ASSUME NEW s \in Sess, RecorderBegin(s) \/ Record(s) \/ LogEvent(s) \/ Close(s)
      PROVE  PassInv'
  BY <1>0, <1>1, RecorderPass
<1>2. ASSUME NEW n \in Names, ReaderOpen(n) \/ ReaderClose(n)
      PROVE  PassInv'
  BY <1>0, <1>2, ReaderSteps, PassStays
<1>3. ASSUME NEW who \in {"main", "persister"}, PassBegin(who)
      PROVE  PassInv'
  BY <1>0, <1>3, BeginPass
<1>4. CASE RemoveVictim
  BY <1>0, <1>4, VictimPass
<1>5. CASE RemoveSide
  BY <1>0, <1>5, SidePass
<1>6. CASE PassEnd
  BY <1>0, <1>6, EndSteps DEF PassInv
<1>7. CASE ClearList
  BY <1>0, <1>7, PassStays DEF ClearList
<1>8. CASE ClearRemove
  BY <1>0, <1>8, ClearPass
<1>9. CASE Reboot
  BY <1>0, <1>9, RebootSteps DEF PassInv
<1>10. CASE UNCHANGED vars
  BY <1>0, <1>10, PassStays DEF vars
<1> QED BY <1>1, <1>2, <1>3, <1>4, <1>5, <1>6, <1>7, <1>8, <1>9, <1>10, Zenon DEF Next, PassStep

(* The steps in which the quota takes a file.                              *)
LEMMA TakingSteps ==
    ASSUME TypeInv, [Next]_vars, NEW n \in Names, QuotaRemoves(n)
    PROVE  /\ n \in DOMAIN files /\ n \notin DOMAIN files'
           /\ \/ RemoveVictim /\ n = Victim.name
              \/ RemoveSide /\ n = Side(Victim.name.ses)
<1>0. pass.pc \in {"drop", "side"} /\ pass' # pass /\ pass'.pc # "off"
      /\ n \in DOMAIN files /\ n \notin DOMAIN files'
  BY DEF QuotaRemoves
<1>1. ASSUME NEW s \in Sess, RecorderBegin(s) \/ Record(s) \/ LogEvent(s) \/ Close(s)
      PROVE  FALSE
  BY <1>0, <1>1, RecorderSteps
<1>2. ASSUME NEW m \in Names, ReaderOpen(m) \/ ReaderClose(m)
      PROVE  FALSE
  BY <1>0, <1>2, ReaderSteps
<1>3. ASSUME NEW who \in {"main", "persister"}, PassBegin(who)
      PROVE  FALSE
  BY <1>0, <1>3 DEF PassBegin
<1>4. CASE RemoveVictim
  BY <1>0, <1>4, WithoutIs DEF RemoveVictim
<1>5. CASE RemoveSide
  BY <1>0, <1>5, WithoutIs DEF RemoveSide
<1>6. ~PassEnd
  BY <1>0, EndSteps
<1>7. ~ClearList
  BY <1>0 DEF ClearList
<1>8. ~ClearRemove
  BY <1>0 DEF ClearRemove
<1>9. ~Reboot
  BY <1>0, RebootSteps
<1>10. ~UNCHANGED vars
  BY <1>0 DEF vars
<1>11. RemoveVictim \/ RemoveSide
  BY <1>1, <1>2, <1>3, <1>6, <1>7, <1>8, <1>9, <1>10, Zenon DEF Next, PassStep
<1> QED BY <1>0, <1>4, <1>5, <1>11

(* A pass ends within the limits, for what it could remove.                *)
LEMMA EndsWithin ==
    ASSUME QuotaInv, PassEnd
    PROVE  WithinQuota(DOMAIN files \ (note.fresh \cup note.kept))
<1> DEFINE L == pass.all
           S == DOMAIN files \ Skipped
           T == NamesOf(L)
           f == SizeOf(L)
<1>0. TypeInv /\ pass.pc = "drop" /\ (L = <<>> \/ ~Over) /\ ListOK /\ LeftListed
  BY EndSteps DEF QuotaInv, FitInv, PassInv
<1>1. /\ IsFiniteSet(S) /\ Cardinality(S) \in Nat /\ Bytes(S) = Total(files, S) /\ Bytes(S) \in Nat
  BY <1>0, FilesFinite
<1>2. /\ L \in Seq(Entries) /\ Distinct(L) /\ pass.total \in Nat /\ Len(L) \in Nat
      /\ DOMAIN L = 1..Len(L)
  BY <1>0, ListTypes DEF ListOK
<1>3. IsFiniteSet(T) /\ Cardinality(T) = Len(L) /\ \A n \in T : f[n] \in Nat
  BY <1>2, NamesCounted, NamesAre
<1>4. S \in SUBSET T /\ \A n \in S : files[n] = f[n]
  BY <1>0 DEF LeftListed, Listed
<1>5. Cardinality(S) <= Len(L)
  BY <1>3, <1>4, FS_Subset
<1>6. Bytes(S) <= pass.total
  <2>1. pass.total = Total(f, T)
    BY <1>0 DEF ListOK, Listed
  <2>2. \A n \in S : files[n] \in Nat /\ f[n] \in Nat
    BY <1>0, <1>3, <1>4 DEF TypeInv
  <2>3. \A n \in S : files[n] \in Nat /\ files[n] <= f[n]
    <3> SUFFICES ASSUME NEW n \in S PROVE files[n] \in Nat /\ files[n] <= f[n]
      OBVIOUS
    <3> DEFINE a == files[n]
               b == f[n]
    <3>1. a = b /\ b \in Nat
      BY <1>4, <2>2
    <3> HIDE DEF a, b
    <3>2. a \in Nat /\ a <= b
      BY <3>1
    <3> QED BY <3>2 DEF a, b
  <2>4. Total(files, S) <= Total(f, T)
    <3> HIDE DEF S, T, f
    <3> QED BY <1>3, <1>4, <2>3, TotalGrows
  <2> QED BY <1>1, <2>1, <2>4
<1>7. MaxKeep \in Nat /\ MaxBytes \in Nat
  BY StoreAssumption
<1>8. CASE L = <<>>
  <2>1. DOMAIN <<>> = {}
    OBVIOUS
  <2>2. T = {}
    BY <1>8, <2>1 DEF NamesOf
  <2>3. S = {}
    BY <1>4, <2>2
  <2>4. Cardinality(S) = 0 /\ Bytes(S) = 0
    BY <1>1, <2>3, FS_EmptySet, TotalOfNone
  <2>5. Cardinality(S) <= MaxKeep /\ Bytes(S) <= MaxBytes
    <3> HIDE DEF S
    <3> QED BY <1>7, <2>4
  <2> QED BY <2>5 DEF WithinQuota, Skipped
<1>9. CASE ~Over
  <2>1. Len(L) <= MaxKeep /\ (MaxBytes > 0 => pass.total <= MaxBytes)
    <3>1. ~(Len(L) > MaxKeep) /\ ~(MaxBytes > 0 /\ pass.total > MaxBytes)
      BY <1>9 DEF Over
    <3> DEFINE k == Len(L)
               t == pass.total
    <3>2. k \in Nat /\ t \in Nat /\ ~(k > MaxKeep) /\ ~(MaxBytes > 0 /\ t > MaxBytes)
      BY <1>2, <3>1
    <3> HIDE DEF k, t
    <3>3. k <= MaxKeep /\ (MaxBytes > 0 => t <= MaxBytes)
      BY <1>7, <3>2
    <3> QED BY <3>3 DEF k, t
  <2> DEFINE a == Cardinality(S)
             b == Bytes(S)
             k == Len(L)
             t == pass.total
  <2>2. /\ a \in Nat /\ b \in Nat /\ k \in Nat /\ t \in Nat /\ a <= k /\ b <= t
        /\ k <= MaxKeep /\ (MaxBytes > 0 => t <= MaxBytes)
    BY <1>1, <1>2, <1>5, <1>6, <2>1
  <2> HIDE DEF a, b, k, t
  <2>3. a <= MaxKeep /\ (MaxBytes > 0 => b <= MaxBytes)
    BY <1>7, <2>2
  <2> QED BY <2>3 DEF a, b, WithinQuota, Skipped
<1> QED BY <1>0, <1>8, <1>9

(* What is left below a file the quota took was busy, or is newer.         *)
LEMMA TakesOldest ==
    ASSUME QuotaInv, [Next]_vars, NEW n \in Names, QuotaRemoves(n),
           NEW m \in DOMAIN files', Rank(m) < Rank(n)
    PROVE  m \in note'.kept \cup note.fresh
<1>0. TypeInv /\ FitInv /\ PassInv
  BY DEF QuotaInv, FitInv
<1>1. /\ n \in DOMAIN files /\ n \notin DOMAIN files'
      /\ \/ RemoveVictim /\ n = Victim.name
         \/ RemoveSide /\ n = Side(Victim.name.ses)
  BY <1>0, TakingSteps
<1>2. pass.pc # "off" /\ pass.all # <<>> /\ note.kept \subseteq note'.kept
      /\ DOMAIN files' \subseteq DOMAIN files
  <2>1. CASE RemoveVictim
    BY <1>0, <2>1, VictimSteps, WithoutIs
  <2>2. CASE RemoveSide
    BY <1>0, <2>2, SideSteps, WithoutIs
  <2> QED BY <1>1, <2>1, <2>2
<1> SUFFICES ASSUME m \notin Skipped PROVE FALSE
  BY <1>2 DEF Skipped
<1>3. ListOK /\ LeftListed /\ VictimDealt
  BY <1>0, <1>2 DEF PassInv
<1> DEFINE L == pass.all
           N == Len(L)
<1>4. N \in DOMAIN L /\ DOMAIN L = 1..N /\ N \in Nat \ {0} /\ Victim = L[N]
      /\ Victim.name \in Names /\ Rank(Victim.name) \in Nat
  BY <1>0, <1>2, LastIs, RanksAre
<1>5. m \in Listed /\ m \in Names
  BY <1>0, <1>2, <1>3 DEF LeftListed, TypeInv
<1>6. PICK i \in DOMAIN L : L[i].name = m
  BY <1>5 DEF Listed, NamesOf
<1>7. Rank(m) \in Nat /\ Rank(n) \in Nat
  BY <1>0, <1>5, RanksAre
<1>8. m = Victim.name \/ Rank(m) > Rank(Victim.name)
  <2>1. CASE i = N
    BY <1>4, <1>6, <2>1
  <2>2. CASE i # N
    <3>1. i < N
      <4> HIDE DEF L, N
      <4> QED BY <1>4, <2>2
    <3> HIDE DEF N
    <3> QED BY <1>3, <1>4, <1>6, <3>1 DEF ListOK, Ordered
  <2> QED BY <2>1, <2>2
<1>9. CASE RemoveVictim /\ n = Victim.name
  <2>1. m # Victim.name
    BY <1>1, <1>9
  <2>2. Rank(m) > Rank(n) /\ Rank(m) < Rank(n)
    BY <1>8, <1>9, <2>1
  <2> DEFINE a == Rank(m)
             b == Rank(n)
  <2>3. a > b /\ a < b /\ a \in Nat /\ b \in Nat
    BY <1>7, <2>2
  <2> HIDE DEF a, b
  <2> QED BY <2>3
<1>10. CASE RemoveSide /\ n = Side(Victim.name.ses)
  <2>1. pass.pc = "side"
    BY <1>0, <1>10, SideSteps
  <2>2. Victim.name.kind = "cast" /\ (Victim.name \in DOMAIN files => Victim.name \in Skipped)
    BY <1>3, <2>1 DEF VictimDealt
  <2>3. m # Victim.name
    BY <1>2, <2>2
  <2>4. Victim.name.ses \in Sess /\ Victim.name = Cast(Victim.name.ses)
    BY <1>4, <2>2 DEF Names, Cast
  <2>5. Rank(n) = Rank(Victim.name) + 1
    BY <1>0, <1>10, <2>4, RanksAre
  <2> DEFINE a == Rank(m)
             b == Rank(n)
             c == Rank(Victim.name)
  <2>6. a > c /\ a < b /\ b = c + 1 /\ a \in Nat /\ b \in Nat /\ c \in Nat
    BY <1>4, <1>7, <1>8, <2>3, <2>5
  <2> HIDE DEF a, b, c
  <2> QED BY <2>6
<1> QED BY <1>1, <1>9, <1>10

(* What is over a limit by the list is over it in the directory, when all  *)
(* of the list is there.                                                   *)
LEMMA OverIsOver ==
    ASSUME TypeInv, ListOK, Over,
           \A i \in DOMAIN pass.all : /\ pass.all[i].name \in DOMAIN files
                                      /\ files[pass.all[i].name] >= pass.all[i].sz
    PROVE  ~WithinQuota(DOMAIN files)
<1> DEFINE L == pass.all
           S == DOMAIN files
           T == NamesOf(L)
           f == SizeOf(L)
<1>1. /\ IsFiniteSet(S) /\ Cardinality(S) \in Nat /\ Bytes(S) = Total(files, S) /\ Bytes(S) \in Nat
      /\ \A n \in S : files[n] \in Nat
  BY FilesFinite DEF TypeInv
<1>2. /\ L \in Seq(Entries) /\ Distinct(L) /\ pass.total \in Nat /\ Len(L) \in Nat
      /\ \A i \in DOMAIN L : L[i].sz \in Nat
  BY ListTypes DEF ListOK
<1>3. IsFiniteSet(T) /\ Cardinality(T) = Len(L) /\ \A n \in T : f[n] \in Nat
  BY <1>2, NamesCounted, NamesAre
<1>4. T \in SUBSET S /\ \A n \in T : f[n] \in Nat /\ f[n] <= files[n]
  <2> SUFFICES ASSUME NEW n \in T PROVE n \in S /\ f[n] <= files[n]
    BY <1>3
  <2>1. PICK i \in DOMAIN L : L[i].name = n
    BY DEF NamesOf
  <2>2. f[n] = L[i].sz
    BY <1>2, <2>1, SizeIs
  <2> DEFINE a == files[n]
             b == f[n]
  <2>3. n \in S /\ a >= b /\ a \in Nat /\ b \in Nat
    BY <1>1, <1>2, <2>1, <2>2
  <2> HIDE DEF a, b
  <2>4. b <= a
    BY <2>3
  <2> QED BY <2>3, <2>4 DEF a, b
<1>5. Len(L) <= Cardinality(S)
  BY <1>1, <1>3, <1>4, FS_Subset
<1>6. pass.total <= Bytes(S)
  <2>1. pass.total = Total(f, T)
    BY DEF ListOK, Listed
  <2>2. Total(f, T) <= Total(files, S)
    <3> HIDE DEF S, T, f
    <3> QED BY <1>1, <1>4, TotalGrows
  <2> QED BY <1>1, <2>1, <2>2
<1> DEFINE a == Cardinality(S)
           b == Bytes(S)
           k == Len(L)
           t == pass.total
<1>7. /\ a \in Nat /\ b \in Nat /\ k \in Nat /\ t \in Nat /\ k <= a /\ t <= b
      /\ k > MaxKeep \/ (MaxBytes > 0 /\ t > MaxBytes)
  BY <1>1, <1>2, <1>5, <1>6 DEF Over
<1>8. MaxKeep \in Nat /\ MaxBytes \in Nat
  BY StoreAssumption
<1> HIDE DEF a, b, k, t
<1>9. ~(a <= MaxKeep /\ (MaxBytes > 0 => b <= MaxBytes))
  BY <1>7, <1>8
<1> QED BY <1>9 DEF a, b, WithinQuota

LEMMA TakesNeeded ==
    ASSUME QuotaInv, [Next]_vars, NEW n \in Names, QuotaRemoves(n), ~Regardless(n),
           ~note.cleared
    PROVE  ~WithinQuota(DOMAIN files)
<1>0. TypeInv /\ FitInv /\ PassInv
  BY DEF QuotaInv, FitInv
<1>1. /\ n \in DOMAIN files
      /\ \/ RemoveVictim /\ n = Victim.name
         \/ RemoveSide /\ n = Side(Victim.name.ses)
  BY <1>0, TakingSteps
<1> DEFINE L == pass.all
           N == Len(L)
           v == Victim.name
<1>2. /\ pass.pc # "off" /\ L # <<>> /\ Over
      /\ v \in DOMAIN files /\ (v.kind = "cast" \/ v \notin note.fresh)
      /\ pass.pc = "side" => v.kind = "cast"
  <2>1. CASE RemoveVictim /\ n = v
    <3>1. pass.pc = "drop" /\ L # <<>> /\ Over
      BY <1>0, <2>1, VictimSteps
    <3>2. v.kind = "cast" \/ v \notin note.fresh
      <4>1. v.kind \in {"cast", "side"}
        BY <2>1 DEF Names
      <4> QED BY <2>1, <3>1, <4>1 DEF Regardless
    <3> QED BY <1>1, <2>1, <3>1, <3>2
  <2>2. CASE RemoveSide /\ n = Side(v.ses)
    <3>1. pass.pc = "side" /\ L # <<>>
      BY <1>0, <2>2, SideSteps
    <3>2. Over /\ v.kind = "cast"
      BY <1>0, <3>1 DEF PassInv, VictimDealt
    <3>3. v \in Names
      BY <1>0, <3>1, LastIs
    <3>4. v = Cast(v.ses)
      BY <3>2, <3>3 DEF Names, Cast
    <3>5. n.kind = "side" /\ n.ses = v.ses
      BY <2>2 DEF Side
    <3>6. Cast(v.ses) \in DOMAIN files
      BY <3>5 DEF Regardless
    <3> QED BY <3>1, <3>2, <3>4, <3>6
  <2> QED BY <1>1, <2>1, <2>2
<1>3. ListOK /\ SizesKept /\ StillThere
  BY <1>0, <1>2 DEF PassInv
<1>4. N \in DOMAIN L /\ L[N].name = v
  BY <1>0, <1>2, LastIs
<1>5. ASSUME NEW i \in DOMAIN L
      PROVE  L[i].name \in DOMAIN files /\ files[L[i].name] >= L[i].sz
  <2>1. CASE i = N
    <3>1. L[i].name = v
      BY <1>4, <2>1
    <3> HIDE DEF v, L
    <3> QED BY <1>2, <1>3, <3>1 DEF SizesKept, L
  <2>2. CASE i # N
    BY <1>3, <2>2 DEF StillThere
  <2> QED BY <2>1, <2>2
<1> QED BY <1>0, <1>2, <1>3, <1>5, OverIsOver

(* A pass of the quota removes enough, the oldest first, and no more than  *)
(* enough, whoever writes, reads and clears meanwhile.                     *)
THEOREM QuotaIsFair == Spec => QuotaFair
<1>1. QuotaInv /\ [Next]_vars => QuotaInv'
  BY QuotaStep
<1>2. QuotaInv /\ [Next]_vars
         => [PassEnd => WithinQuota(DOMAIN files \ (note.fresh \cup note.kept))]_vars
  BY EndsWithin
<1>3. QuotaInv /\ [Next]_vars
         => [\A n \in Names : QuotaRemoves(n) =>
               \A m \in DOMAIN files' : Rank(m) < Rank(n) => m \in note'.kept \cup note.fresh]_vars
  BY TakesOldest
<1>4. QuotaInv /\ [Next]_vars
         => [\A n \in Names : (QuotaRemoves(n) /\ ~Regardless(n))
               => note.cleared \/ ~WithinQuota(DOMAIN files)]_vars
  BY TakesNeeded
<1>5. Spec => QuotaMet
  BY QuotaInit, <1>1, <1>2, PTL DEF Spec, QuotaMet
<1>6. Spec => OldestFirst
  BY QuotaInit, <1>1, <1>3, PTL DEF Spec, OldestFirst
<1>7. Spec => NothingNeedless
  BY QuotaInit, <1>1, <1>4, PTL DEF Spec, NothingNeedless
<1> QED BY <1>5, <1>6, <1>7 DEF QuotaFair
=============================================================================
