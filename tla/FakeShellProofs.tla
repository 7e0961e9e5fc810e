---------------------------- MODULE FakeShellProofs ----------------------------
(***************************************************************************)
(* Proofs about the emulated shell, for every set of paths and addresses,  *)
(* every limit and any number of segments: the session's memory is bounded *)
(* and the image stays, a chain runs what a shell runs, a payload that ran *)
(* is told, and the files implement the map of ShellDisk.                  *)
(***************************************************************************)
EXTENDS FakeShell, SequenceTheorems, WellFoundedInduction, TLAPS

(***************************************************************************)
(* Recursion over the elements of a sequence.                              *)
(***************************************************************************)

(* Every nonempty set of naturals has a least element.                     *)
LEMMA LeastNatural ==
    ASSUME NEW S \in SUBSET Nat, S # {}
    PROVE  \E x \in S : \A y \in S : x <= y
<1> DEFINE R == OpToRel(<, Nat)
<1>1. IsWellFoundedOn(R, Nat)
  BY NatLessThanWellFounded
<1>2. PICK x \in S : \A y \in S : ~ (<<y, x>> \in R)
  <2> HIDE DEF R
  <2> QED BY <1>1, WFMin
<1>3. \A y \in S : ~ (y < x)
  BY <1>2 DEF OpToRel
<1> QED BY <1>3

(* A set that has 0 and, with each number, the next one has all of them.   *)
LEMMA UpTo ==
    ASSUME NEW L \in Nat, NEW S, 0 \in S, \A n \in 1 .. L : n - 1 \in S => n \in S
    PROVE  \A n \in 0 .. L : n \in S
<1> DEFINE Bad == {n \in 0 .. L : n \notin S}
<1> SUFFICES ASSUME Bad # {} PROVE FALSE
  OBVIOUS
<1>1. PICK n \in Bad : \A k \in Bad : n <= k
  <2>1. Bad \in SUBSET Nat
    OBVIOUS
  <2> HIDE DEF Bad
  <2> QED BY <2>1, LeastNatural
<1>2. n \in 1 .. L /\ n - 1 \in 0 .. L /\ n \notin S
  BY <1>1
<1>3. n - 1 \in S
  BY <1>1, <1>2
<1> QED BY <1>2, <1>3

(* f starts at x0 and goes on as G says.                                   *)
Follows(f, L, X, x0, G) ==
    f \in [0 .. L -> X] /\ f[0] = x0 /\ \A n \in 1 .. L : f[n] = G[<<n, f[n - 1]>>]

(* A function that is defined by recursion, with a step that stays in a    *)
(* set, exists.                                                            *)
LEMMA Recursion ==
    ASSUME NEW L \in Nat, NEW X, NEW x0 \in X, NEW G \in [(1 .. L) \X X -> X]
    PROVE  \E f : Follows(f, L, X, x0, G)
<1> DEFINE Upto(k, f) == /\ f \in [0 .. k -> X] /\ f[0] = x0
                         /\ \A n \in 1 .. k : f[n] = G[<<n, f[n - 1]>>]
           S == {k \in 0 .. L : \E f : Upto(k, f)}
<1>1. 0 \in S
  <2>1. Upto(0, [n \in 0 .. 0 |-> x0])
    OBVIOUS
  <2>2. \E f : Upto(0, f)
    <3> HIDE DEF Upto
    <3> QED BY <2>1
  <2>3. 0 \in 0 .. L
    OBVIOUS
  <2> HIDE DEF Upto
  <2> QED BY <2>2, <2>3
<1>2. ASSUME NEW k \in 1 .. L, k - 1 \in S PROVE k \in S
  <2>1. PICK f : /\ f \in [0 .. k - 1 -> X] /\ f[0] = x0
                 /\ \A n \in 1 .. k - 1 : f[n] = G[<<n, f[n - 1]>>]
    BY <1>2
  <2>2. k - 1 \in 0 .. k - 1
    OBVIOUS
  <2>3. f[k - 1] \in X
    BY <2>1, <2>2
  <2> DEFINE y == G[<<k, f[k - 1]>>]
  <2>4. y \in X
    BY <2>3
  <2> HIDE DEF y
  <2> DEFINE g == [n \in 0 .. k |-> IF n = k THEN y ELSE f[n]]
  <2>5. \A n \in 0 .. k : n # k => n \in 0 .. k - 1
    OBVIOUS
  <2>6. g \in [0 .. k -> X]
    BY <2>1, <2>4, <2>5
  <2>7. /\ k \in 0 .. k /\ 0 \in 0 .. k /\ k # 0
        /\ \A n \in 1 .. k : n \in 0 .. k /\ n - 1 \in 0 .. k /\ n - 1 # k
        /\ \A n \in 1 .. k : n # k => n \in 1 .. k - 1
    OBVIOUS
  <2>8. g[0] = x0 /\ g[k] = y /\ \A n \in 0 .. k : n # k => g[n] = f[n]
    BY <2>1, <2>7
  <2> HIDE DEF g
  <2>9. ASSUME NEW n \in 1 .. k PROVE g[n] = G[<<n, g[n - 1]>>]
    <3>1. g[n - 1] = f[n - 1]
      BY <2>7, <2>8
    <3>2. CASE n = k
      BY <2>8, <3>1, <3>2 DEF y
    <3>3. CASE n # k
      <4>1. g[n] = f[n] /\ f[n] = G[<<n, f[n - 1]>>]
        BY <2>1, <2>7, <2>8, <3>3
      <4> QED BY <3>1, <4>1
    <3> QED BY <3>2, <3>3
  <2>10. Upto(k, g)
    BY <2>6, <2>8, <2>9
  <2>11. \E h : Upto(k, h)
    <3> HIDE DEF Upto
    <3> QED BY <2>10
  <2>12. k \in 0 .. L
    OBVIOUS
  <2> HIDE DEF Upto
  <2> QED BY <2>11, <2>12
<1>3. L \in S
  <2> HIDE DEF S
  <2> QED BY <1>1, <1>2, UpTo
<1>4. PICK f : Upto(L, f)
  BY <1>3
<1>5. Follows(f, L, X, x0, G)
  BY <1>4 DEF Follows
<1> QED BY <1>5

(* The path without its last name.                                         *)
LEMMA UpIs == ASSUME NEW path \in Seq(Parts) PROVE Up(path) \in Seq(Parts)
<1>1. CASE path = <<>>
  BY <1>1 DEF Up
<1>2. CASE path # <<>>
  <2>1. Len(path) \in Nat /\ \A i \in 1 .. Len(path) - 1 : path[i] \in Parts
    BY LenProperties, ElementOfSeq
  <2>2. SubSeq(path, 1, Len(path) - 1) \in Seq(Parts)
    BY <2>1, SubSeqProperties
  <2> QED BY <1>2, <2>2 DEF Up, Front
<1> QED BY <1>1, <1>2

(* A resolved path is a sequence of names.                                 *)
LEMMA ResolveIs ==
    ASSUME cwd \in Seq(Parts), NEW arg \in Argument
    PROVE  Resolve(arg) \in Seq(Parts)
<1> DEFINE w == IF arg.abs THEN arg.p ELSE cwd \o arg.p
           L == Len(w)
           X == Seq(Parts)
           Step(n, x) == IF w[n] = ".." THEN Up(x) ELSE Append(x, w[n])
           F == CHOOSE f : f = [n \in 0 .. L |-> IF n = 0 THEN <<>> ELSE Step(n, f[n - 1])]
<1>1. w \in Seq(Parts \cup {".."})
  <2>1. arg.p \in Seq(Parts \cup {".."}) /\ cwd \in Seq(Parts \cup {".."})
    BY SeqMonotonic DEF Argument
  <2>2. cwd \o arg.p \in Seq(Parts \cup {".."})
    BY <2>1, ConcatProperties
  <2> QED BY <2>1, <2>2
<1>2. Resolve(arg) = F[L]
  BY DEF Resolve
<1> HIDE DEF w
<1>3. L \in Nat /\ \A n \in 1 .. L : w[n] \in Parts \cup {".."}
  BY <1>1, LenProperties, ElementOfSeq
<1> HIDE DEF L
<1>4. ASSUME NEW n \in 1 .. L, NEW x \in X PROVE Step(n, x) \in X
  <2>1. CASE w[n] = ".."
    BY <2>1, UpIs
  <2>2. CASE w[n] # ".."
    <3>1. w[n] \in Parts
      BY <1>3, <2>2
    <3>2. Append(x, w[n]) \in X
      BY <3>1, AppendProperties
    <3> QED BY <2>2, <3>2
  <2> QED BY <2>1, <2>2
<1>5. <<>> \in X
  OBVIOUS
<1> HIDE DEF X, Step
<1>6. F = [n \in 0 .. L |-> IF n = 0 THEN <<>> ELSE Step(n, F[n - 1])]
  <2> DEFINE G == [t \in (1 .. L) \X X |-> Step(t[1], t[2])]
  <2>1. G \in [(1 .. L) \X X -> X] /\ \A n \in 1 .. L, x \in X : G[<<n, x>>] = Step(n, x)
    BY <1>4
  <2> HIDE DEF G
  <2>0. L \in Nat
    BY <1>3
  <2> DEFINE e == <<>>
  <2>a. e \in X
    BY <1>5
  <2> HIDE DEF e
  <2>c. G \in [(1 .. L) \X X -> X]
    BY <2>1
  <2>2. PICK f : Follows(f, L, X, e, G)
    BY <2>0, <2>c, <2>a, Recursion
  <2>d. /\ f \in [0 .. L -> X] /\ f[0] = <<>>
        /\ \A n \in 1 .. L : f[n] = G[<<n, f[n - 1]>>]
    BY <2>2 DEF Follows, e
  <2>3. ASSUME NEW n \in 0 .. L, n # 0 PROVE f[n] = Step(n, f[n - 1])
    <3>1. n \in 1 .. L /\ n - 1 \in 0 .. L
      BY <1>3, <2>3
    <3> QED BY <2>1, <2>d, <3>1
  <2>4. f = [n \in 0 .. L |-> IF n = 0 THEN <<>> ELSE Step(n, f[n - 1])]
    BY <2>d, <2>3
  <2> QED BY <2>4
<1> HIDE DEF F
<1> DEFINE S == {n \in 0 .. L : F[n] \in X}
<1>7. 0 \in S
  BY <1>3, <1>5, <1>6
<1>8. ASSUME NEW n \in 1 .. L, n - 1 \in S PROVE n \in S
  <2>1. F[n] = Step(n, F[n - 1]) /\ n \in 0 .. L
    BY <1>3, <1>6
  <2>2. F[n - 1] \in X
    BY <1>8
  <2>3. F[n] \in X
    BY <1>4, <2>1, <2>2
  <2> QED BY <2>1, <2>3
<1>9. F[L] \in X
  <2>1. L \in Nat
    BY <1>3
  <2>2. \A n \in 0 .. L : n \in S
    <3> HIDE DEF S
    <3> QED BY <2>1, <1>7, <1>8, UpTo
  <2>3. L \in S
    BY <2>1, <2>2
  <2> QED BY <2>3
<1> QED BY <1>2, <1>9 DEF X

(***************************************************************************)
(* Files.                                                                  *)
(***************************************************************************)
File == [path : Seq(Parts), url : Urls \cup {"none"}, exec : BOOLEAN, dir : BOOLEAN]

(* No two files have the same name.                                        *)
Distinct(s) == \A i, j \in DOMAIN s : s[i].path = s[j].path => i = j

(* What rm keeps: the files that are not below the name, none twice.       *)
LEMMA WithoutIs ==
    ASSUME files \in Seq(File), NEW gone
    PROVE  /\ Without(gone) \in Seq(File) /\ Len(Without(gone)) <= Len(files)
           /\ \A i \in DOMAIN Without(gone) :
                 /\ ~Below(gone, Without(gone)[i].path)
                 /\ \E j \in DOMAIN files : Without(gone)[i] = files[j]
           /\ \A j \in DOMAIN files : ~Below(gone, files[j].path)
                 => \E i \in DOMAIN Without(gone) : Without(gone)[i] = files[j]
           /\ Distinct(files) => Distinct(Without(gone))
<1> DEFINE L == Len(files)
           X == Seq(File)
           Step(n, x) == IF Below(gone, files[n].path) THEN x ELSE Append(x, files[n])
           F == CHOOSE f : f = [n \in 0 .. L |-> IF n = 0 THEN <<>> ELSE Step(n, f[n - 1])]
<1>1. Without(gone) = F[L]
  BY DEF Without
<1>2. L \in Nat /\ DOMAIN files = 1 .. L /\ \A n \in 1 .. L : files[n] \in File
  BY LenProperties, ElementOfSeq
<1> HIDE DEF L
<1>3. ASSUME NEW n \in 1 .. L, NEW x \in X PROVE Step(n, x) \in X
  BY <1>2
<1>4. <<>> \in X
  OBVIOUS
<1> HIDE DEF X, Step
<1>5. F = [n \in 0 .. L |-> IF n = 0 THEN <<>> ELSE Step(n, F[n - 1])]
  <2> DEFINE G == [t \in (1 .. L) \X X |-> Step(t[1], t[2])]
             e == <<>>
  <2>1. \A n \in 1 .. L, x \in X : G[<<n, x>>] = Step(n, x)
    OBVIOUS
  <2>2. G \in [(1 .. L) \X X -> X]
    BY <1>3
  <2> HIDE DEF G
  <2>3. L \in Nat /\ e \in X
    BY <1>2, <1>4
  <2> HIDE DEF e
  <2>4. PICK f : Follows(f, L, X, e, G)
    BY <2>2, <2>3, Recursion
  <2>5. /\ f \in [0 .. L -> X] /\ f[0] = <<>>
        /\ \A n \in 1 .. L : f[n] = G[<<n, f[n - 1]>>]
    BY <2>4 DEF Follows, e
  <2>6. ASSUME NEW n \in 0 .. L, n # 0 PROVE f[n] = Step(n, f[n - 1])
    <3>1. n \in 1 .. L /\ n - 1 \in 0 .. L
      BY <2>3, <2>6
    <3> QED BY <2>1, <2>5, <3>1
  <2>7. f = [n \in 0 .. L |-> IF n = 0 THEN <<>> ELSE Step(n, f[n - 1])]
    BY <2>5, <2>6
  <2> QED BY <2>7
<1> HIDE DEF F
<1> DEFINE Kept(n) ==
             /\ F[n] \in X /\ Len(F[n]) <= n
             /\ \A i \in DOMAIN F[n] : /\ ~Below(gone, F[n][i].path)
                                       /\ \E j \in 1 .. n : F[n][i] = files[j]
             /\ \A j \in 1 .. n : ~Below(gone, files[j].path)
                                    => \E i \in DOMAIN F[n] : F[n][i] = files[j]
             /\ Distinct(files) => Distinct(F[n])
           S == {n \in 0 .. L : Kept(n)}
<1>6. 0 \in S
  <2>1. F[0] = <<>> /\ 0 \in 0 .. L
    BY <1>2, <1>5
  <2>2. Len(<<>>) = 0 /\ DOMAIN <<>> = {} /\ 1 .. 0 = {}
    OBVIOUS
  <2>3. Kept(0)
    BY <1>4, <2>1, <2>2 DEF Distinct
  <2> QED BY <2>1, <2>3
<1>7. ASSUME NEW n \in 1 .. L, n - 1 \in S PROVE n \in S
  <2> DEFINE old == F[n - 1]
             new == F[n]
             one == files[n]
  <2>1. n \in 0 .. L /\ n \in Nat /\ new = Step(n, old) /\ one \in File /\ Kept(n - 1)
    BY <1>2, <1>5, <1>7
  <2>2. \A j : j \in 1 .. n <=> j \in 1 .. n - 1 \/ j = n
    OBVIOUS
  <2>3. CASE Below(gone, one.path)
    <3>1. new = old
      BY <2>1, <2>3 DEF Step
    <3>2. old \in X /\ Len(old) <= n - 1 /\ Len(old) \in Nat
      BY <2>1, LenProperties DEF X
    <3>3. Len(new) <= n
      BY <3>1, <3>2
    <3>4. Kept(n)
      BY <2>1, <2>2, <2>3, <3>1, <3>3
    <3> QED BY <2>1, <3>4
  <2>4. CASE ~Below(gone, one.path)
    <3>1. new = Append(old, one) /\ old \in Seq(File) /\ Len(old) <= n - 1
      BY <2>1, <2>4 DEF Step, X
    <3> DEFINE m == Len(old)
    <3>2. /\ m \in Nat /\ DOMAIN old = 1 .. m
          /\ new \in Seq(File) /\ Len(new) = m + 1 /\ DOMAIN new = 1 .. m + 1
          /\ \A i \in 1 .. m : new[i] = old[i]
          /\ new[m + 1] = one
      BY <2>1, <3>1, LenProperties, AppendProperties
    <3> HIDE DEF m
    <3>3. \A i : i \in 1 .. m + 1 <=> i \in 1 .. m \/ i = m + 1
      BY <3>2
    <3>4. Len(new) <= n
      BY <3>1, <3>2 DEF m
    <3> HIDE DEF old, new, one
    <3>5. /\ \A i \in 1 .. m : /\ ~Below(gone, old[i].path)
                               /\ \E j \in 1 .. n - 1 : old[i] = files[j]
          /\ \A j \in 1 .. n - 1 : ~Below(gone, files[j].path)
                                     => \E i \in 1 .. m : old[i] = files[j]
          /\ Distinct(files) => Distinct(old)
      BY <2>1, <3>2 DEF old
    <3>6. \A i \in 1 .. m + 1 : ~Below(gone, new[i].path) /\ \E j \in 1 .. n : new[i] = files[j]
      <4> SUFFICES ASSUME NEW i \in 1 .. m + 1
                   PROVE  ~Below(gone, new[i].path) /\ \E j \in 1 .. n : new[i] = files[j]
        OBVIOUS
      <4>1. CASE i \in 1 .. m
        <5>1. PICK j \in 1 .. n - 1 : old[i] = files[j]
          BY <3>5, <4>1
        <5>2. new[i] = old[i] /\ j \in 1 .. n
          BY <2>2, <3>2, <4>1
        <5> QED BY <3>5, <4>1, <5>1, <5>2
      <4>2. CASE i = m + 1
        <5>1. new[i] = files[n] /\ n \in 1 .. n
          BY <2>2, <3>2, <4>2 DEF one
        <5>2. ~Below(gone, new[i].path)
          BY <2>4, <5>1 DEF one
        <5> QED BY <5>1, <5>2
      <4> QED BY <3>3, <4>1, <4>2
    <3>7. \A j \in 1 .. n : ~Below(gone, files[j].path) => \E i \in 1 .. m + 1 : new[i] = files[j]
      BY <2>2, <3>2, <3>3, <3>5 DEF one
    <3>8. ASSUME Distinct(files) PROVE Distinct(new)
      <4>1. \A i \in 1 .. m : new[i].path # one.path
        <5> SUFFICES ASSUME NEW i \in 1 .. m, new[i].path = one.path PROVE FALSE
          OBVIOUS
        <5>1. PICK j \in 1 .. n - 1 : new[i] = files[j]
          BY <3>2, <3>5
        <5>2. j \in DOMAIN files /\ n \in DOMAIN files /\ j # n
          BY <1>2, <2>1
        <5> QED BY <3>8, <5>1, <5>2 DEF Distinct, one
      <4>2. \A i, j \in 1 .. m : old[i].path = old[j].path => i = j
        BY <3>2, <3>5, <3>8 DEF Distinct
      <4>3. \A i, j \in 1 .. m + 1 : new[i].path = new[j].path => i = j
        BY <3>2, <3>3, <4>1, <4>2
      <4> QED BY <3>2, <4>3 DEF Distinct
    <3>9. Kept(n)
      BY <3>2, <3>4, <3>6, <3>7, <3>8 DEF new, X
    <3> QED BY <2>1, <3>9
  <2> QED BY <2>3, <2>4
<1>8. Kept(L)
  <2>1. L \in S
    <3> HIDE DEF S
    <3> QED BY <1>2, <1>6, <1>7, UpTo
  <2> QED BY <2>1
<1> QED BY <1>1, <1>2, <1>8 DEF X, L

(* The first file of a name.                                               *)
LEMMA FindIs ==
    ASSUME files \in Seq(File), NEW path, Has(path)
    PROVE  Find(path) \in DOMAIN files /\ files[Find(path)].path = path
<1> DEFINE S == {i \in DOMAIN files : files[i].path = path}
           L == Len(files)
<1>1. DOMAIN files = 1 .. L /\ L \in Nat
  BY LenProperties
<1> HIDE DEF L
<1>2. S \in SUBSET Nat /\ S # {}
  BY <1>1 DEF Has
<1>3. PICK k \in S : \A i \in S : k <= i
  <2> HIDE DEF S
  <2> QED BY <1>2, LeastNatural
<1>4. \A j \in 1 .. (k - 1) : files[j].path # path
  <2> SUFFICES ASSUME NEW j \in 1 .. (k - 1), files[j].path = path PROVE FALSE
    OBVIOUS
  <2>1. k \in 1 .. L
    BY <1>1, <1>3
  <2>2. j \in 1 .. L /\ j < k /\ j \in Nat
    BY <1>1, <2>1
  <2>3. j \in S
    BY <1>1, <2>2
  <2>4. k <= j
    BY <1>3, <2>3
  <2> QED BY <2>1, <2>2, <2>4
<1>5. \E i \in DOMAIN files :
         files[i].path = path /\ \A j \in 1 .. (i - 1) : files[j].path # path
  BY <1>3, <1>4
<1> QED BY <1>5 DEF Find

(* A file that is there.                                                   *)
Was(f) == \E i \in DOMAIN files : f = files[i]

LEMMA WasFile == ASSUME files \in Seq(File), NEW f, Was(f) PROVE f \in File
<1>1. PICK i \in DOMAIN files : f = files[i]
  BY DEF Was
<1>2. i \in 1 .. Len(files)
  BY LenProperties
<1> QED BY <1>1, <1>2, ElementOfSeq

LEMMA BlankIs == ASSUME NEW path \in Seq(Parts)
                 PROVE  Blank(path) \in File /\ Blank(path).path = path
BY DEF Blank, File

(* The file a command works on: one that is there, or a new one.           *)
LEMMA AtIs ==
    ASSUME files \in Seq(File), NEW path \in Seq(Parts)
    PROVE  /\ At(path) \in File /\ At(path).path = path
           /\ At(path) = Blank(path) \/ Was(At(path))
<1>1. CASE Has(path)
  <2>1. At(path) = files[Find(path)]
    BY <1>1 DEF At
  <2>2. Find(path) \in DOMAIN files /\ files[Find(path)].path = path
    BY <1>1, FindIs
  <2>3. Was(At(path))
    BY <2>1, <2>2 DEF Was
  <2> QED BY <2>1, <2>2, <2>3, WasFile
<1>2. CASE ~Has(path)
  <2>1. At(path) = Blank(path)
    BY <1>2 DEF At
  <2> QED BY <2>1, BlankIs
<1> QED BY <1>1, <1>2

LEMMA IsDirIs == ASSUME files \in Seq(File), NEW path PROVE IsDir(path) \in BOOLEAN
<1>1. CASE Has(path)
  <2>1. IsDir(path) = files[Find(path)].dir
    BY <1>1 DEF IsDir
  <2>2. files[Find(path)] \in File
    BY <1>1, FindIs, WasFile DEF Was
  <2> QED BY <2>1, <2>2 DEF File
<1>2. CASE ~Has(path)
  BY <1>2 DEF IsDir
<1> QED BY <1>1, <1>2

(* createFile_ keeps the table within its limit, and touches one file.     *)
LEMMA StoreIs ==
    ASSUME files \in Seq(File), Len(files) <= MaxFiles, cap \in BOOLEAN,
           NEW path, NEW file \in File, Store(path, file)
    PROVE  /\ files' \in Seq(File) /\ Len(files') <= MaxFiles
           /\ cap' \in BOOLEAN /\ (cap => cap')
           /\ \A j \in DOMAIN files' : files'[j] = file \/ Was(files'[j])
<1> DEFINE L == Len(files)
<1>1. DOMAIN files = 1 .. L /\ L \in Nat /\ MaxFiles \in Nat
  BY LenProperties, ShellAssumption
<1>2. cap' \in BOOLEAN /\ (cap => cap')
  BY DEF Store
<1>3. CASE Has(path)
  <2>1. files' = [files EXCEPT ![Find(path)] = file]
    BY <1>3 DEF Store
  <2>2. Find(path) \in 1 .. L
    BY <1>1, <1>3, FindIs
  <2>3. /\ files' \in Seq(File) /\ Len(files') = L /\ DOMAIN files' = 1 .. L
        /\ \A j \in 1 .. L : files'[j] = IF j = Find(path) THEN file ELSE files[j]
    BY <2>1, <2>2, ExceptSeq, LenProperties
  <2> QED BY <1>1, <1>2, <2>3 DEF Was
<1>4. CASE ~Has(path) /\ L < MaxFiles
  <2>1. files' = Append(files, file)
    BY <1>4 DEF Store
  <2>2. /\ files' \in Seq(File) /\ Len(files') = L + 1 /\ DOMAIN files' = 1 .. L + 1
        /\ \A j \in 1 .. L : files'[j] = files[j]
        /\ files'[L + 1] = file
    BY <2>1, <1>1, AppendProperties, LenProperties
  <2>3. Len(files') <= MaxFiles /\ \A j \in 1 .. L + 1 : j \in 1 .. L \/ j = L + 1
    BY <1>1, <1>4, <2>2
  <2> QED BY <1>1, <1>2, <2>2, <2>3 DEF Was
<1>5. CASE ~Has(path) /\ ~(L < MaxFiles)
  <2>1. files' = files
    BY <1>5 DEF Store
  <2> QED BY <1>2, <2>1 DEF Was
<1> QED BY <1>3, <1>4, <1>5

(***************************************************************************)
(* What commands do to the files and the records.                          *)
(***************************************************************************)

(* A mark that one of the remembered lines has.                            *)
Recorded(mark) == \E i \in DOMAIN hist : mark \in hist[i]

Ghost == [clobbered : BOOLEAN, named : SUBSET Seq(Parts), payload : SUBSET (Urls \cup {"none"}),
          exotic : BOOLEAN]

CoreOK ==
    /\ files \in Seq(File) /\ Len(files) <= MaxFiles
    /\ cwd \in Seq(Parts)
    /\ procs \in Nat /\ procs <= MaxProcs
    /\ exited \in BOOLEAN /\ cap \in BOOLEAN /\ ok \in BOOLEAN
    /\ hist \in Seq(SUBSET Marks) /\ Len(hist) <= HistMax
    /\ ghost \in Ghost

(* A file after a step, from one before it or from nothing: a new address, *)
(* a new mode, a new name leave their traces.                              *)
Derived(f) == \E g \in File :
    /\ Was(g) \/ (g = Blank(f.path) /\ (f.dir \/ f.path \in ghost'.named))
    /\ f.url = g.url \/ ("download_url" \in told' /\ (ghost'.exotic \/ Recorded("fetch")'))
    /\ f.exec = g.exec \/ ("chmod" \in told' /\ (ghost'.exotic \/ Recorded("chmod")'))
    /\ (f.path = g.path /\ f.dir = g.dir) \/ f.dir \/ f.path \in ghost'.named

(* What was told stays told.                                               *)
Remembers == /\ told \subseteq told'
             /\ ghost.named \subseteq ghost'.named
             /\ ghost.exotic => ghost'.exotic
             /\ \A mark \in Marks : Recorded(mark) => Recorded(mark)'

Made == /\ Remembers
        /\ \A j \in DOMAIN files' : Derived(files'[j])
        /\ cap => cap'
        /\ Len(hist') = Len(hist)

LEMMA MarkedIs ==
    ASSUME hist \in Seq(SUBSET Marks), hist # <<>>, NEW marks \in SUBSET Marks, Marked(marks)
    PROVE  /\ hist' \in Seq(SUBSET Marks) /\ Len(hist') = Len(hist)
           /\ \A mark : Recorded(mark) => Recorded(mark)'
           /\ \A mark \in marks : Recorded(mark)'
<1> DEFINE L == Len(hist)
           e == hist[L] \cup marks
<1>1. L \in 1 .. L /\ L \in Nat /\ DOMAIN hist = 1 .. L
  BY EmptySeq, LenProperties
<1>2. hist[L] \in SUBSET Marks
  BY <1>1, ElementOfSeq
<1>3. e \in SUBSET Marks
  BY <1>2
<1>4. hist' = [hist EXCEPT ![L] = e]
  BY DEF Marked
<1>5. /\ hist' \in Seq(SUBSET Marks) /\ Len(hist') = L
      /\ \A j \in 1 .. L : hist'[j] = IF j = L THEN e ELSE hist[j]
  <2> HIDE DEF e
  <2> QED BY <1>1, <1>3, <1>4, ExceptSeq
<1>6. DOMAIN hist' = 1 .. L
  BY <1>5, LenProperties
<1>7. \A j \in 1 .. L : hist[j] \subseteq hist'[j]
  BY <1>5
<1>8. marks \subseteq hist'[L]
  BY <1>1, <1>5
<1>9. ASSUME NEW mark, Recorded(mark) PROVE Recorded(mark)'
  <2>1. PICK i \in 1 .. L : mark \in hist[i]
    BY <1>1, <1>9 DEF Recorded
  <2>2. mark \in hist'[i]
    BY <1>7, <2>1
  <2> QED BY <1>6, <2>2 DEF Recorded
<1>10. ASSUME NEW mark \in marks PROVE Recorded(mark)'
  BY <1>1, <1>6, <1>8 DEF Recorded
<1> QED BY <1>5, <1>9, <1>10

(* The directories of the image are paths.                                 *)
LEMMA DirsAre == Tmp \in Seq(Parts) /\ Home \in Seq(Parts) /\ Dirs \subseteq Seq(Parts)
<1>1. ASSUME NEW name \in Parts PROVE <<name>> \in Seq(Parts)
  <2>1. <<name>> \in [1 .. 1 -> Parts]
    OBVIOUS
  <2> QED BY <2>1, SeqDef
<1>2. Tmp \in Seq(Parts) /\ Home \in Seq(Parts)
  BY <1>1, ShellAssumption DEF Tmp, Home
<1>3. <<>> \in Seq(Parts)
  OBVIOUS
<1> QED BY <1>2, <1>3 DEF Dirs

LEMMA LandingIs == ASSUME NEW path \in Seq(Parts) PROVE Landing(path) \in Seq(Parts)
<1>1. CASE InWritable(path) \/ path = <<>>
  BY <1>1 DEF Landing
<1>2. CASE ~(InWritable(path) \/ path = <<>>)
  <2>1. Len(path) \in 1 .. Len(path)
    BY <1>2, EmptySeq
  <2>2. Last(path) \in Parts
    BY <2>1, ElementOfSeq DEF Last
  <2>3. Tmp \in Seq(Parts)
    BY DirsAre
  <2>4. Append(Tmp, Last(path)) \in Seq(Parts)
    BY <2>2, <2>3, AppendProperties
  <2> QED BY <1>2, <2>4 DEF Landing
<1> QED BY <1>1, <1>2

(* A payload that runs is one of the files that may be executed.           *)
Paid == \/ ghost'.payload = ghost.payload
        \/ \E i \in DOMAIN files : /\ files[i].exec
                                   /\ ghost'.payload = ghost.payload \cup {files[i].url}
                                   /\ "payload_execution" \in told'

LEMMA NamesIs ==
    ASSUME ghost \in Ghost, NEW path \in Seq(Parts), Names(path)
    PROVE  /\ ghost' \in Ghost /\ ghost'.named = ghost.named \cup {path}
           /\ ghost'.clobbered = ghost.clobbered
           /\ ghost'.exotic = ghost.exotic /\ ghost'.payload = ghost.payload
BY DEF Ghost, Names

LEMMA OldDerived == ASSUME files \in Seq(File), NEW f, Was(f) PROVE Derived(f)
BY WasFile DEF Derived

(* A step that stores one file.                                            *)
LEMMA StoreMakes ==
    ASSUME CoreOK, NEW path \in Seq(Parts), NEW file \in File, file.path = path,
           Store(path, file), Remembers, Len(hist') = Len(hist),
           file.url = At(path).url \/ ("download_url" \in told' /\ (ghost'.exotic \/ Recorded("fetch")')),
           file.exec = At(path).exec
               \/ ("chmod" \in told' /\ (ghost'.exotic \/ Recorded("chmod")')),
           file.dir \/ path \in ghost'.named
    PROVE  Made /\ files' \in Seq(File) /\ Len(files') <= MaxFiles /\ cap' \in BOOLEAN
<1>1. /\ files \in Seq(File) /\ Len(files) <= MaxFiles /\ cap \in BOOLEAN
  BY DEF CoreOK
<1>2. /\ files' \in Seq(File) /\ Len(files') <= MaxFiles
      /\ cap' \in BOOLEAN /\ (cap => cap')
      /\ \A j \in DOMAIN files' : files'[j] = file \/ Was(files'[j])
  BY <1>1, StoreIs
<1>3. /\ At(path) \in File /\ At(path).path = path
      /\ At(path) = Blank(path) \/ Was(At(path))
  BY <1>1, AtIs
<1>4. Derived(file)
  BY <1>3 DEF Derived
<1>5. \A j \in DOMAIN files' : Derived(files'[j])
  BY <1>1, <1>2, <1>4, OldDerived
<1> QED BY <1>2, <1>5 DEF Made

(* Downloads.                                                              *)
LEMMA FetchedStep ==
    ASSUME CoreOK, hist # <<>>, NEW path \in Seq(Parts), Fetched(path)
    PROVE  CoreOK' /\ Made /\ Paid
<1>1. PICK u \in Urls, plain \in BOOLEAN :
          /\ Store(path, [At(path) EXCEPT !.url = u])
          /\ ghost' = [ghost EXCEPT !.named = @ \cup {path}, !.exotic = @ \/ ~plain]
          /\ Logs("download_url") /\ Marked(IF plain THEN {"fetch"} ELSE {}) /\ ok' = TRUE
          /\ UNCHANGED <<cwd, procs, exited>>
  BY DEF Fetched
<1> DEFINE file == [At(path) EXCEPT !.url = u]
<1>2. At(path) \in File /\ At(path).path = path
  BY AtIs DEF CoreOK
<1>3. file \in File /\ file.path = path /\ file.exec = At(path).exec
  BY <1>2 DEF File
<1>4. /\ hist' \in Seq(SUBSET Marks) /\ Len(hist') = Len(hist)
      /\ \A mark : Recorded(mark) => Recorded(mark)'
      /\ plain => Recorded("fetch")'
  <2> DEFINE marks == IF plain THEN {"fetch"} ELSE {}
  <2>1. marks \in SUBSET Marks /\ hist \in Seq(SUBSET Marks) /\ (plain => "fetch" \in marks)
    BY DEF Marks, CoreOK
  <2>2. Marked(marks)
    BY <1>1
  <2> HIDE DEF marks
  <2> QED BY <2>1, <2>2, MarkedIs
<1>5. /\ ghost' \in Ghost /\ ghost'.named = ghost.named \cup {path}
      /\ ghost.exotic => ghost'.exotic
      /\ ~plain => ghost'.exotic
      /\ ghost'.payload = ghost.payload
  <2>1. ghost' = [ghost EXCEPT !.named = @ \cup {path}, !.exotic = @ \/ ~plain]
    BY <1>1
  <2> QED BY <2>1 DEF Ghost, CoreOK
<1>6. "download_url" \in told' /\ told \subseteq told'
  BY <1>1 DEF Logs
<1>7. Remembers
  BY <1>4, <1>5, <1>6 DEF Remembers
<1>8. Store(path, file)
  BY <1>1
<1> HIDE DEF file
<1>9. Made /\ files' \in Seq(File) /\ Len(files') <= MaxFiles /\ cap' \in BOOLEAN
  <2>1. path \in ghost'.named /\ (ghost'.exotic \/ Recorded("fetch")')
    BY <1>4, <1>5
  <2> QED BY <1>3, <1>4, <1>6, <1>7, <1>8, <2>1, StoreMakes
<1>10. CoreOK'
  BY <1>1, <1>4, <1>5, <1>9 DEF CoreOK
<1> QED BY <1>5, <1>9, <1>10 DEF Paid

LEMMA HistKept == ASSUME hist' = hist
                  PROVE  Len(hist') = Len(hist) /\ \A mark : Recorded(mark) => Recorded(mark)'
BY DEF Recorded

(* Steps that only change the status, the directory or the processes.      *)
LEMMA FilesStay ==
    ASSUME CoreOK, files' = files, cap => cap', Remembers, Len(hist') = Len(hist)
    PROVE  Made
<1>1. \A j \in DOMAIN files' : Was(files'[j])
  BY DEF Was
<1>2. \A j \in DOMAIN files' : Derived(files'[j])
  BY <1>1, OldDerived DEF CoreOK
<1> QED BY <1>2 DEF Made

LEMMA QuietStep ==
    ASSUME CoreOK, UNCHANGED <<core, hist, ghost>>, ok' \in BOOLEAN
    PROVE  CoreOK' /\ Made /\ Paid
<1>1. Remembers
  BY HistKept DEF Remembers, core
<1>2. Made
  BY <1>1, FilesStay, HistKept DEF core
<1> QED BY <1>2 DEF CoreOK, Paid, core

LEMMA CurlStep == ASSUME CoreOK, hist # <<>>, Curl PROVE CoreOK' /\ Made /\ Paid
<1>1. CASE \E arg \in Args : Fetched(Landing(Resolve(arg)))
  <2>1. PICK arg \in Args : Fetched(Landing(Resolve(arg)))
    BY <1>1
  <2>2. Landing(Resolve(arg)) \in Seq(Parts)
    BY ResolveIs, LandingIs, ShellAssumption DEF CoreOK
  <2> QED BY <2>1, <2>2, FetchedStep
<1>2. CASE /\ Logs("download_url") /\ ok' = TRUE
           /\ \E marks \in {{}, {"fetch"}} : Marked(marks)
           /\ UNCHANGED <<files, cwd, procs, exited, cap, ghost>>
  <2>1. /\ hist' \in Seq(SUBSET Marks) /\ Len(hist') = Len(hist)
        /\ \A mark : Recorded(mark) => Recorded(mark)'
    <3>1. PICK marks \in {{}, {"fetch"}} : Marked(marks)
      BY <1>2
    <3>2. marks \in SUBSET Marks /\ hist \in Seq(SUBSET Marks)
      BY DEF Marks, CoreOK
    <3> QED BY <3>1, <3>2, MarkedIs
  <2>2. Remembers
    BY <1>2, <2>1 DEF Remembers, Logs
  <2>3. Made
    BY <1>2, <2>1, <2>2, FilesStay
  <2> QED BY <1>2, <2>1, <2>3 DEF CoreOK, Paid
<1> QED BY <1>1, <1>2 DEF Curl

(* Commands that store one file under its name, and name it.               *)
LEMMA NamedStep ==
    ASSUME CoreOK, NEW path \in Seq(Parts), Store(path, At(path)), Names(path),
           ok' \in BOOLEAN, told \subseteq told', UNCHANGED <<cwd, procs, exited, hist>>
    PROVE  CoreOK' /\ Made /\ Paid
<1>1. At(path) \in File /\ At(path).path = path
  BY AtIs DEF CoreOK
<1>2. /\ ghost' \in Ghost /\ ghost'.named = ghost.named \cup {path}
      /\ ghost'.exotic = ghost.exotic /\ ghost'.payload = ghost.payload
  BY NamesIs DEF CoreOK
<1>3. Remembers
  BY <1>2, HistKept DEF Remembers
<1>4. Made /\ files' \in Seq(File) /\ Len(files') <= MaxFiles /\ cap' \in BOOLEAN
  <2>1. path \in ghost'.named /\ Len(hist') = Len(hist)
    BY <1>2
  <2> QED BY <1>1, <1>3, <2>1, StoreMakes
<1> QED BY <1>2, <1>4 DEF CoreOK, Paid

LEMMA ChmodStep == ASSUME CoreOK, hist # <<>>, Chmod PROVE CoreOK' /\ Made /\ Paid
<1>1. PICK arg \in Args, mode \in {"777", "odd", "644"} :
        /\ Store(Resolve(arg), [At(Resolve(arg)) EXCEPT !.exec = @ \/ mode # "644"])
        /\ ghost' = [ghost EXCEPT !.named = @ \cup {Resolve(arg)}, !.exotic = @ \/ mode = "odd"]
        /\ Logs("chmod") /\ Marked(IF mode = "777" THEN {"chmod"} ELSE {}) /\ ok' = TRUE
        /\ UNCHANGED <<cwd, procs, exited>>
  BY DEF Chmod
<1> DEFINE path == Resolve(arg)
           file == [At(path) EXCEPT !.exec = @ \/ mode # "644"]
           marks == IF mode = "777" THEN {"chmod"} ELSE {}
<1>2. path \in Seq(Parts)
  BY ResolveIs, ShellAssumption DEF CoreOK
<1>3. At(path) \in File /\ At(path).path = path
  BY <1>2, AtIs DEF CoreOK
<1> HIDE DEF path
<1>4. /\ file \in File /\ file.path = path /\ file.url = At(path).url
      /\ file.exec = (At(path).exec \/ mode # "644")
  BY <1>3 DEF File
<1>5. mode = "644" => file.exec = At(path).exec
  <2>1. At(path).exec \in BOOLEAN
    BY <1>3 DEF File
  <2> QED BY <1>4, <2>1
<1>6. marks \in SUBSET Marks /\ hist \in Seq(SUBSET Marks)
  BY DEF Marks, CoreOK
<1>7. /\ hist' \in Seq(SUBSET Marks) /\ Len(hist') = Len(hist)
      /\ \A mark : Recorded(mark) => Recorded(mark)'
      /\ \A mark \in marks : Recorded(mark)'
  <2>1. Marked(marks)
    BY <1>1
  <2> HIDE DEF marks
  <2> QED BY <1>6, <2>1, MarkedIs
<1>8. /\ ghost' \in Ghost /\ ghost'.named = ghost.named \cup {path}
      /\ ghost'.payload = ghost.payload
      /\ ghost.exotic => ghost'.exotic
      /\ mode = "odd" => ghost'.exotic
  <2>1. ghost' = [ghost EXCEPT !.named = @ \cup {path}, !.exotic = @ \/ mode = "odd"]
    BY <1>1 DEF path
  <2>2. ghost \in Ghost
    BY DEF CoreOK
  <2> QED BY <1>2, <2>1, <2>2 DEF Ghost
<1>9. "chmod" \in told' /\ told \subseteq told'
  BY <1>1 DEF Logs
<1>10. Remembers
  BY <1>7, <1>8, <1>9 DEF Remembers
<1>11. file.exec = At(path).exec \/ ("chmod" \in told' /\ (ghost'.exotic \/ Recorded("chmod")'))
  <2>1. CASE mode = "644"
    BY <1>5, <2>1
  <2>2. CASE mode = "odd"
    BY <1>8, <1>9, <2>2
  <2>3. CASE mode = "777"
    BY <1>7, <1>9, <2>3
  <2> QED BY <2>1, <2>2, <2>3
<1>12. Store(path, file)
  BY <1>1 DEF path
<1> HIDE DEF file
<1>13. Made /\ files' \in Seq(File) /\ Len(files') <= MaxFiles /\ cap' \in BOOLEAN
  <2>1. path \in ghost'.named
    BY <1>8
  <2> QED BY <1>2, <1>4, <1>7, <1>10, <1>11, <1>12, <2>1, StoreMakes
<1> QED BY <1>1, <1>7, <1>8, <1>13 DEF CoreOK, Paid

(* The paths of a command.                                                 *)
LEMMA PathIs == ASSUME CoreOK, NEW arg \in Argument
                PROVE  Resolve(arg) \in Seq(Parts) /\ Landing(Resolve(arg)) \in Seq(Parts)
BY ResolveIs, LandingIs DEF CoreOK

LEMMA ArgsAre == Args \subseteq Argument
BY ShellAssumption

LEMMA DdStep == ASSUME CoreOK, Dd, UNCHANGED hist PROVE CoreOK' /\ Made /\ Paid
<1>1. PICK arg \in Args :
        /\ Store(Landing(Resolve(arg)), At(Landing(Resolve(arg))))
        /\ Names(Landing(Resolve(arg)))
        /\ ok' = TRUE /\ UNCHANGED <<cwd, procs, exited, told>>
  BY DEF Dd
<1>2. Landing(Resolve(arg)) \in Seq(Parts)
  BY PathIs, ArgsAre
<1> QED BY <1>1, <1>2, NamedStep

LEMMA TouchStep == ASSUME CoreOK, Touch, UNCHANGED hist PROVE CoreOK' /\ Made /\ Paid
<1>1. PICK arg \in Args :
        /\ Store(Resolve(arg), At(Resolve(arg))) /\ Names(Resolve(arg)) /\ ok' = TRUE
        /\ UNCHANGED <<cwd, procs, exited, told>>
  BY DEF Touch
<1>2. Resolve(arg) \in Seq(Parts)
  BY PathIs, ArgsAre
<1> QED BY <1>1, <1>2, NamedStep

LEMMA MkdirStep == ASSUME CoreOK, Mkdir, UNCHANGED hist PROVE CoreOK' /\ Made /\ Paid
<1>1. PICK arg \in Args :
        /\ Store(Resolve(arg), [At(Resolve(arg)) EXCEPT !.dir = TRUE]) /\ ok' = TRUE
        /\ UNCHANGED <<cwd, procs, exited, told, ghost>>
  BY DEF Mkdir
<1> DEFINE path == Resolve(arg)
           file == [At(path) EXCEPT !.dir = TRUE]
<1>2. path \in Seq(Parts)
  BY PathIs, ArgsAre
<1>3. At(path) \in File /\ At(path).path = path
  BY <1>2, AtIs DEF CoreOK
<1>4. Store(path, file)
  BY <1>1
<1> HIDE DEF path
<1>5. /\ file \in File /\ file.path = path /\ file.dir
      /\ file.url = At(path).url /\ file.exec = At(path).exec
  BY <1>3 DEF File
<1>6. Remembers
  BY <1>1, HistKept DEF Remembers
<1> HIDE DEF file
<1>7. Made /\ files' \in Seq(File) /\ Len(files') <= MaxFiles /\ cap' \in BOOLEAN
  BY <1>2, <1>4, <1>5, <1>6, HistKept, StoreMakes
<1> QED BY <1>1, <1>7 DEF CoreOK, Paid

LEMMA RmStep == ASSUME CoreOK, Rm, UNCHANGED hist PROVE CoreOK' /\ Made /\ Paid
<1>1. PICK arg \in Args :
        /\ files' = Without(Resolve(arg)) /\ ok' = TRUE
        /\ UNCHANGED <<cwd, procs, exited, cap, told, ghost>>
  BY DEF Rm
<1>2. files \in Seq(File) /\ Len(files) <= MaxFiles /\ Len(files) \in Nat /\ MaxFiles \in Nat
  BY LenProperties, ShellAssumption DEF CoreOK
<1>3. /\ files' \in Seq(File) /\ Len(files') <= Len(files)
      /\ \A i \in DOMAIN files' : \E j \in DOMAIN files : files'[i] = files[j]
  BY <1>1, <1>2, WithoutIs
<1>4. Len(files') <= MaxFiles
  <2>1. Len(files') \in Nat
    BY <1>3, LenProperties
  <2> QED BY <1>2, <1>3, <2>1
<1>5. Remembers
  BY <1>1, HistKept DEF Remembers
<1>6. \A j \in DOMAIN files' : Derived(files'[j])
  BY <1>2, <1>3, OldDerived DEF Was
<1>7. Made
  BY <1>1, <1>5, <1>6 DEF Made
<1> QED BY <1>1, <1>3, <1>4, <1>7 DEF CoreOK, Paid

LEMMA LandsIs ==
    ASSUME ghost \in Ghost, NEW path \in Seq(Parts), Lands(path)
    PROVE  /\ ghost' \in Ghost /\ ghost'.named = ghost.named \cup {path}
           /\ ghost'.clobbered = (ghost.clobbered \/ Has(path))
           /\ ghost'.exotic = ghost.exotic /\ ghost'.payload = ghost.payload
<1>1. Has(path) \in BOOLEAN /\ ghost.clobbered \in BOOLEAN
  BY DEF Has, Ghost
<1>2. (ghost.clobbered \/ Has(path)) \in BOOLEAN
  BY <1>1
<1> QED BY <1>2 DEF Ghost, Lands

LEMMA MvStep == ASSUME CoreOK, Mv, UNCHANGED hist PROVE CoreOK' /\ Made /\ Paid
<1>1. PICK from \in Args, to \in Args :
        /\ Has(Resolve(from))
        /\ files' = [files EXCEPT ![Find(Resolve(from))].path = Resolve(to)]
        /\ Lands(Resolve(to)) /\ ok' = TRUE
        /\ UNCHANGED <<cwd, procs, exited, cap, told>>
  BY DEF Mv
<1> DEFINE L == Len(files)
           k == Find(Resolve(from))
           path == Resolve(to)
           file == [files[k] EXCEPT !.path = path]
<1>2. path \in Seq(Parts)
  BY PathIs, ArgsAre
<1>3. files \in Seq(File) /\ Len(files) <= MaxFiles /\ L \in Nat /\ DOMAIN files = 1 .. L
  BY LenProperties DEF CoreOK
<1>4. k \in 1 .. L /\ files[k] \in File
  BY <1>1, <1>3, FindIs, ElementOfSeq
<1>5. files' = [files EXCEPT ![k] = file]
  BY <1>1
<1> HIDE DEF path, k
<1>6. /\ file \in File /\ file.path = path /\ file.url = files[k].url
      /\ file.exec = files[k].exec /\ file.dir = files[k].dir
  BY <1>2, <1>4 DEF File
<1> HIDE DEF file
<1>7. /\ files' \in Seq(File) /\ Len(files') = L /\ DOMAIN files' = 1 .. L
      /\ \A j \in 1 .. L : files'[j] = IF j = k THEN file ELSE files[j]
  BY <1>3, <1>4, <1>5, <1>6, ExceptSeq, LenProperties
<1>8. /\ ghost' \in Ghost /\ ghost'.named = ghost.named \cup {path}
      /\ ghost'.exotic = ghost.exotic /\ ghost'.payload = ghost.payload
  <2>1. Lands(path) /\ ghost \in Ghost
    BY <1>1 DEF path, CoreOK
  <2> QED BY <1>2, <2>1, LandsIs
<1>9. Remembers
  BY <1>1, <1>8, HistKept DEF Remembers
<1>10. Derived(file)
  <2>1. Was(files[k])
    BY <1>3, <1>4 DEF Was
  <2> QED BY <1>4, <1>6, <1>8, <2>1 DEF Derived
<1>11. \A j \in DOMAIN files' : Derived(files'[j])
  <2> SUFFICES ASSUME NEW j \in 1 .. L PROVE Derived(files'[j])
    BY <1>7
  <2>1. CASE j = k
    BY <1>7, <1>10, <2>1
  <2>2. CASE j # k
    BY <1>3, <1>7, <2>2, OldDerived DEF Was
  <2> QED BY <2>1, <2>2
<1>12. Made
  BY <1>1, <1>9, <1>11 DEF Made
<1> QED BY <1>1, <1>3, <1>7, <1>8, <1>12 DEF CoreOK, Paid

LEMMA CpStep == ASSUME CoreOK, Cp, UNCHANGED hist PROVE CoreOK' /\ Made /\ Paid
<1>1. PICK from \in Args, to \in Args :
        /\ Has(Resolve(from))
        /\ files' = IF Len(files) < MaxFiles
                       THEN Append(files, [files[Find(Resolve(from))] EXCEPT !.path = Resolve(to)])
                       ELSE files
        /\ Lands(Resolve(to)) /\ ok' = TRUE
        /\ UNCHANGED <<cwd, procs, exited, cap, told>>
  BY DEF Cp
<1> DEFINE L == Len(files)
           k == Find(Resolve(from))
           path == Resolve(to)
           file == [files[k] EXCEPT !.path = path]
<1>2. path \in Seq(Parts)
  BY PathIs, ArgsAre
<1>3. /\ files \in Seq(File) /\ Len(files) <= MaxFiles /\ L \in Nat /\ DOMAIN files = 1 .. L
      /\ MaxFiles \in Nat
  BY LenProperties, ShellAssumption DEF CoreOK
<1>4. k \in 1 .. L /\ files[k] \in File
  BY <1>1, <1>3, FindIs, ElementOfSeq
<1>5. files' = IF L < MaxFiles THEN Append(files, file) ELSE files
  BY <1>1
<1>6. /\ ghost' \in Ghost /\ ghost'.named = ghost.named \cup {path}
      /\ ghost'.exotic = ghost.exotic /\ ghost'.payload = ghost.payload
  <2>1. Lands(path) /\ ghost \in Ghost
    BY <1>1 DEF CoreOK
  <2> QED BY <1>2, <2>1, LandsIs
<1> HIDE DEF path, k
<1>7. /\ file \in File /\ file.path = path /\ file.url = files[k].url
      /\ file.exec = files[k].exec /\ file.dir = files[k].dir
  BY <1>2, <1>4 DEF File
<1> HIDE DEF file
<1>8. Remembers
  BY <1>1, <1>6, HistKept DEF Remembers
<1>9. Derived(file)
  <2>1. Was(files[k])
    BY <1>3, <1>4 DEF Was
  <2> QED BY <1>4, <1>6, <1>7, <2>1 DEF Derived
<1>10. /\ files' \in Seq(File) /\ Len(files') <= MaxFiles
       /\ \A j \in DOMAIN files' : Derived(files'[j])
  <2>1. CASE L < MaxFiles
    <3>1. /\ files' \in Seq(File) /\ Len(files') = L + 1 /\ DOMAIN files' = 1 .. L + 1
          /\ \A j \in 1 .. L : files'[j] = files[j]
          /\ files'[L + 1] = file
      BY <1>3, <1>5, <1>7, <2>1, AppendProperties, LenProperties
    <3>2. Len(files') <= MaxFiles /\ \A j \in 1 .. L + 1 : j \in 1 .. L \/ j = L + 1
      BY <1>3, <2>1, <3>1
    <3>3. \A j \in 1 .. L : Derived(files'[j])
      BY <1>3, <3>1, OldDerived DEF Was
    <3> QED BY <1>9, <3>1, <3>2, <3>3
  <2>2. CASE ~(L < MaxFiles)
    <3>1. files' = files
      BY <1>5, <2>2
    <3> QED BY <1>3, <3>1, OldDerived DEF Was
  <2> QED BY <2>1, <2>2
<1>11. Made
  BY <1>1, <1>8, <1>10 DEF Made
<1> QED BY <1>1, <1>6, <1>10, <1>11 DEF CoreOK, Paid

LEMMA CdStep == ASSUME CoreOK, Cd, UNCHANGED hist PROVE CoreOK' /\ Made /\ Paid
<1>1. PICK arg \in Args :
        /\ ok' = IsDir(Resolve(arg))
        /\ cwd' = IF IsDir(Resolve(arg)) THEN Resolve(arg) ELSE cwd
        /\ UNCHANGED <<files, procs, exited, cap, told, ghost>>
  BY DEF Cd
<1>2. Resolve(arg) \in Seq(Parts) /\ cwd \in Seq(Parts)
  BY PathIs, ArgsAre DEF CoreOK
<1>3. cwd' \in Seq(Parts)
  BY <1>1, <1>2
<1>4. ok' \in BOOLEAN
  BY <1>1, IsDirIs DEF CoreOK
<1>5. Remembers
  BY <1>1, HistKept DEF Remembers
<1>6. Made
  BY <1>1, <1>5, FilesStay
<1> QED BY <1>1, <1>3, <1>4, <1>6 DEF CoreOK, Paid

LEMMA ExecuteStep == ASSUME CoreOK, Execute, UNCHANGED hist PROVE CoreOK' /\ Made /\ Paid
<1> DEFINE runs(path) == Has(path) /\ files[Find(path)].exec
<1>1. PICK arg \in PathCommand :
        /\ ok' = runs(Resolve(arg))
        /\ procs' = IF runs(Resolve(arg)) /\ procs < MaxProcs THEN procs + 1 ELSE procs
        /\ told' = IF runs(Resolve(arg)) THEN told \cup {"payload_execution"} ELSE told
        /\ ghost' = IF runs(Resolve(arg))
                      THEN [ghost EXCEPT !.payload = @ \cup {files[Find(Resolve(arg))].url}]
                      ELSE ghost
        /\ UNCHANGED <<files, cwd, exited, cap>>
  BY DEF Execute, Logs
<1> DEFINE path == Resolve(arg)
           k == Find(path)
<1>2. runs(path) => k \in DOMAIN files /\ files[k] \in File /\ files[k].exec
  BY FindIs, WasFile DEF CoreOK, Was
<1>3. runs(path) \in BOOLEAN
  BY <1>2 DEF Has, File
<1>4. ok' \in BOOLEAN
  BY <1>1, <1>3
<1>5. procs' \in Nat /\ procs' <= MaxProcs
  BY <1>1, ShellAssumption DEF CoreOK
<1>6. told \subseteq told'
  BY <1>1
<1> HIDE DEF path
<1>7. ghost \in Ghost
  BY DEF CoreOK
<1>8. /\ ghost' \in Ghost /\ ghost'.named = ghost.named /\ ghost'.exotic = ghost.exotic /\ Paid
  <2>1. CASE runs(path)
    <3>1. ghost' = [ghost EXCEPT !.payload = @ \cup {files[k].url}]
      BY <1>1, <2>1 DEF path
    <3>2. files[k].url \in Urls \cup {"none"}
      BY <1>2, <2>1 DEF File
    <3>3. /\ ghost' \in Ghost /\ ghost'.named = ghost.named /\ ghost'.exotic = ghost.exotic
          /\ ghost'.payload = ghost.payload \cup {files[k].url}
      BY <1>7, <3>1, <3>2 DEF Ghost
    <3>4. "payload_execution" \in told'
      BY <1>1, <2>1 DEF path
    <3> QED BY <1>2, <2>1, <3>3, <3>4 DEF Paid
  <2>2. CASE ~runs(path)
    <3>1. ghost' = ghost
      BY <1>1, <2>2 DEF path
    <3> QED BY <1>7, <3>1 DEF Paid
  <2> QED BY <2>1, <2>2
<1>9. Remembers
  BY <1>6, <1>8, HistKept DEF Remembers
<1>10. Made
  BY <1>1, <1>9, FilesStay
<1> QED BY <1>1, <1>4, <1>5, <1>8, <1>10 DEF CoreOK

LEMMA ExitStep == ASSUME CoreOK, Exit, UNCHANGED hist PROVE CoreOK' /\ Made /\ Paid
<1>1. exited' = TRUE /\ ok' = TRUE /\ UNCHANGED <<files, cwd, procs, cap, told, ghost>>
  BY DEF Exit
<1>2. Remembers
  BY <1>1, HistKept DEF Remembers
<1>3. Made
  BY <1>1, <1>2, FilesStay
<1> QED BY <1>1, <1>3 DEF CoreOK, Paid

(* A command, its redirection apart.                                       *)
LEMMA RunOneStep == ASSUME CoreOK, hist # <<>>, RunOne PROVE CoreOK' /\ Made /\ Paid
<1>1. CASE Wget \/ Tftp \/ Ftpget
  <2>1. PICK arg \in Args : Fetched(Landing(Resolve(arg)))
    BY <1>1 DEF Wget, Tftp, Ftpget
  <2> QED BY <2>1, PathIs, ArgsAre, FetchedStep
<1>2. CASE Curl
  BY <1>2, CurlStep
<1>3. CASE Chmod
  BY <1>3, ChmodStep
<1>4. CASE UNCHANGED hist /\ (Dd \/ Touch \/ Mkdir \/ Rm \/ Mv \/ Cp \/ Cd \/ Execute \/ Exit)
  BY <1>4, DdStep, TouchStep, MkdirStep, RmStep, MvStep, CpStep, CdStep, ExecuteStep, ExitStep
<1>5. CASE UNCHANGED hist /\ (Echo \/ Ls \/ Cat \/ Grep \/ LogOnly \/ Interpret \/ Answer)
  <2>1. UNCHANGED <<core, ghost>>
    BY <1>5 DEF Echo, Ls, Cat, Grep, LogOnly, Interpret, Answer
  <2>2. ok' \in BOOLEAN
    <3>1. CASE Echo \/ Grep \/ LogOnly \/ Interpret \/ Answer
      BY <3>1 DEF Echo, Grep, LogOnly, Interpret, Answer
    <3>2. CASE Ls
      <4>1. PICK arg \in Args : ok' = (Resolve(arg) \in Dirs \/ IsDir(Resolve(arg)))
        BY <3>2 DEF Ls
      <4>2. IsDir(Resolve(arg)) \in BOOLEAN
        BY IsDirIs DEF CoreOK
      <4> QED BY <4>1, <4>2
    <3>3. CASE Cat
      <4>1. PICK arg \in Args : ok' = Has(Resolve(arg))
        BY <3>3 DEF Cat
      <4> QED BY <4>1 DEF Has
    <3> QED BY <1>5, <3>1, <3>2, <3>3
  <2> QED BY <1>5, <2>1, <2>2, QuietStep
<1> QED BY <1>1, <1>2, <1>3, <1>4, <1>5 DEF RunOne

(***************************************************************************)
(* Chains.                                                                 *)
(***************************************************************************)
Chain == [first : BOOLEAN, ok : BOOLEAN, carry : Separators \cup {"none"},
          to : Redirects \cup {<<>>}, busy : BOOLEAN, pipe : BOOLEAN, real : BOOLEAN,
          doubt : BOOLEAN, astray : BOOLEAN, gone : BOOLEAN]

ChainsOK ==
    /\ frames \in Seq(Chain) /\ (frames # <<>> => hist # <<>>)
    /\ commands \in Nat /\ commands <= MaxCommands + 1 /\ (commands > MaxCommands => cap)
    /\ segs \in 0 .. MaxSegments

TypeInv == CoreOK /\ ChainsOK

LEMMA TopIs ==
    ASSUME frames \in Seq(Chain), frames # <<>>
    PROVE  /\ Top \in Chain /\ Front(frames) \in Seq(Chain)
           /\ \A f \in Chain : /\ WithTop(f) \in Seq(Chain) /\ WithTop(f) # <<>>
                               /\ Len(WithTop(f)) = Len(frames)
                               /\ \A i \in DOMAIN WithTop(f) :
                                    WithTop(f)[i] = f \/ \E j \in DOMAIN frames : WithTop(f)[i] = frames[j]
           /\ \A i \in DOMAIN Front(frames) : \E j \in DOMAIN frames : Front(frames)[i] = frames[j]
           /\ \E i \in DOMAIN frames : Top = frames[i]
<1> DEFINE L == Len(frames)
<1>1. L \in 1 .. L /\ L \in Nat /\ L # 0 /\ DOMAIN frames = 1 .. L
  BY EmptySeq, LenProperties
<1>2. Top = frames[L] /\ Top \in Chain
  BY <1>1, ElementOfSeq DEF Top
<1>3. /\ Front(frames) \in Seq(Chain)
      /\ \A i \in DOMAIN Front(frames) : \E j \in DOMAIN frames : Front(frames)[i] = frames[j]
  <2>1. \A i \in 1 .. L - 1 : frames[i] \in Chain /\ i \in 1 .. L
    BY <1>1, ElementOfSeq
  <2>2. /\ SubSeq(frames, 1, L - 1) \in Seq(Chain)
        /\ Len(SubSeq(frames, 1, L - 1)) = L - 1
        /\ \A i \in 1 .. L - 1 : SubSeq(frames, 1, L - 1)[i] = frames[i]
    BY <1>1, <2>1, SubSeqProperties
  <2>3. DOMAIN SubSeq(frames, 1, L - 1) = 1 .. L - 1
    BY <2>2, LenProperties
  <2> QED BY <1>1, <2>1, <2>2, <2>3 DEF Front
<1>4. ASSUME NEW f \in Chain
      PROVE  /\ WithTop(f) \in Seq(Chain) /\ WithTop(f) # <<>> /\ Len(WithTop(f)) = L
             /\ \A i \in DOMAIN WithTop(f) :
                  WithTop(f)[i] = f \/ \E j \in DOMAIN frames : WithTop(f)[i] = frames[j]
  <2>1. /\ WithTop(f) \in Seq(Chain) /\ Len(WithTop(f)) = L
        /\ \A j \in 1 .. L : WithTop(f)[j] = IF j = L THEN f ELSE frames[j]
    BY <1>1, ExceptSeq DEF WithTop
  <2>2. WithTop(f) # <<>> /\ DOMAIN WithTop(f) = 1 .. L
    BY <1>1, <2>1, LenProperties, EmptySeq
  <2> QED BY <1>1, <2>1, <2>2
<1> QED BY <1>1, <1>2, <1>3, <1>4

(* A chain at its start.                                                   *)
LEMMA FrameIs == Frame \in Chain /\ <<Frame>> \in Seq(Chain) /\ <<Frame>>[1] = Frame /\ Len(<<Frame>>) = 1
<1>1. Frame \in Chain
  BY DEF Frame, Chain
<1> DEFINE f == Frame
<1>2. f \in Chain
  BY <1>1
<1> HIDE DEF f
<1>3. <<f>> \in Seq(Chain) /\ <<f>>[1] = f /\ Len(<<f>>) = 1
  <2>1. <<f>> \in [1 .. 1 -> Chain]
    BY <1>2
  <2>2. <<f>> \in Seq(Chain)
    BY <2>1, SeqDef
  <2> QED BY <2>2
<1> QED BY <1>1, <1>3 DEF f

(* What a redirection does.                                                *)
LEMMA RedirectCore == ASSUME TypeInv, Redirect PROVE CoreOK' /\ Made /\ Paid
<1>0. CoreOK /\ frames \in Seq(Chain) /\ frames # <<>>
  BY DEF TypeInv, ChainsOK, Redirect
<1>1. Top \in Chain
  BY <1>0, TopIs
<1>2. UNCHANGED <<cwd, procs, exited, hist, ok>> /\ ok' \in BOOLEAN
  BY <1>0 DEF Redirect, CoreOK
<1> DEFINE path == Resolve(Top.to[1])
<1>3. CASE Top.to # <<>> /\ InWritable(path)
  <2>1. Top.to[1] \in Argument
    <3>1. Top.to \in [1 .. 1 -> Argument]
      BY <1>1, <1>3, ShellAssumption DEF Chain
    <3> QED BY <3>1
  <2>2. path \in Seq(Parts)
    BY <1>0, <2>1, PathIs
  <2>3. /\ Store(path, At(path)) /\ Names(path)
        /\ told' = told \/ Logs("authorized_key_added")
    BY <1>3 DEF Redirect
  <2> HIDE DEF path
  <2>4. told \subseteq told'
    BY <2>3 DEF Logs
  <2> QED BY <1>0, <1>2, <2>2, <2>3, <2>4, NamedStep
<1>4. CASE ~(Top.to # <<>> /\ InWritable(path))
  <2>1. UNCHANGED <<core, hist, ghost>>
    BY <1>2, <1>4 DEF Redirect, core
  <2> QED BY <1>0, <1>2, <2>1, QuietStep
<1> QED BY <1>3, <1>4

(* Every step but a new line keeps the books.                              *)
LEMMA CoreStep ==
    ASSUME TypeInv, [LongLine \/ Drop \/ Skip \/ Segment \/ Script \/ Redirect \/ Return]_vars
    PROVE  CoreOK' /\ Made /\ Paid
<1>0. CoreOK /\ (frames # <<>> => hist # <<>>)
  BY DEF TypeInv, ChainsOK
<1>1. CASE LongLine
  <2>1. /\ cap' = TRUE /\ UNCHANGED <<files, cwd, procs, exited, told, hist, ok, ghost>>
    BY <1>1 DEF LongLine
  <2>2. Remembers
    BY <2>1, HistKept DEF Remembers
  <2>3. Made
    BY <1>0, <2>1, <2>2, FilesStay
  <2> QED BY <1>0, <2>1, <2>3 DEF CoreOK, Paid
<1>2. CASE Drop \/ Skip \/ Return \/ UNCHANGED vars
  <2>1. UNCHANGED <<core, hist, ok, ghost>>
    BY <1>2 DEF Drop, Skip, Return, vars
  <2>2. ok' \in BOOLEAN
    BY <1>0, <2>1 DEF CoreOK
  <2> QED BY <1>0, <2>1, <2>2, QuietStep
<1>3. CASE Segment
  <2>1. frames # <<>> /\ RunOne
    BY <1>3 DEF Segment, Started, Reach
  <2> QED BY <1>0, <2>1, RunOneStep
<1>4. CASE Script
  <2>1. UNCHANGED <<core, hist, ghost>> /\ ok' \in BOOLEAN
    BY <1>4 DEF Script
  <2> QED BY <1>0, <2>1, QuietStep
<1>5. CASE Redirect
  BY <1>5, RedirectCore
<1> QED BY <1>1, <1>2, <1>3, <1>4, <1>5

(* A new line: the history takes it, at its limit instead of the oldest.   *)
LEMMA LineCore == ASSUME TypeInv, Line PROVE CoreOK'
<1>0. CoreOK
  BY DEF TypeInv
<1>1. /\ cap' = (commands + 1 > MaxCommands)
      /\ hist' = IF cap' THEN hist
                 ELSE Append(IF Len(hist) = HistMax THEN Tail(hist) ELSE hist, {})
      /\ UNCHANGED <<files, cwd, procs, exited, told, ok, ghost>>
  BY DEF Line
<1>2. cap' \in BOOLEAN
  BY <1>1
<1>3. hist' \in Seq(SUBSET Marks) /\ Len(hist') <= HistMax
  <2> DEFINE kept == IF Len(hist) = HistMax THEN Tail(hist) ELSE hist
             line == {}
  <2>1. /\ hist \in Seq(SUBSET Marks) /\ Len(hist) <= HistMax /\ Len(hist) \in Nat
        /\ HistMax \in Nat \ {0}
    BY <1>0, LenProperties, ShellAssumption DEF CoreOK
  <2>2. kept \in Seq(SUBSET Marks) /\ Len(kept) + 1 <= HistMax
    <3>1. CASE Len(hist) = HistMax
      <4>1. hist # <<>>
        BY <2>1, <3>1, EmptySeq
      <4>2. Tail(hist) \in Seq(SUBSET Marks) /\ Len(Tail(hist)) = Len(hist) - 1
        BY <2>1, <4>1, HeadTailProperties
      <4> QED BY <2>1, <3>1, <4>2
    <3>2. CASE Len(hist) # HistMax
      BY <2>1, <3>2
    <3> QED BY <3>1, <3>2
  <2>3. line \in SUBSET Marks
    OBVIOUS
  <2>4. hist' = IF cap' THEN hist ELSE Append(kept, line)
    BY <1>1
  <2> HIDE DEF kept, line
  <2>5. Append(kept, line) \in Seq(SUBSET Marks) /\ Len(Append(kept, line)) = Len(kept) + 1
    BY <2>2, <2>3, AppendProperties
  <2> QED BY <2>1, <2>2, <2>4, <2>5
<1> QED BY <1>0, <1>1, <1>2, <1>3 DEF CoreOK

(* The status a chain goes by is the shell's too, unless that is astray or *)
(* reads another chain.                                                    *)
Sound(f) == f.astray \/ f.gone \/ f.ok = f.real
Honest(s) == \A i \in DOMAIN s : Sound(s[i])

(* What the steps make of the innermost chain.                             *)
LEMMA DroppedIs ==
    ASSUME NEW f \in Chain, NEW sep \in Separators \cup {"none"}
    PROVE  /\ [f EXCEPT !.gone = TRUE, !.carry = sep] \in Chain
           /\ Sound([f EXCEPT !.gone = TRUE, !.carry = sep])
BY DEF Chain, Sound
LEMMA SkippedIs ==
    ASSUME NEW f \in Chain, NEW b \in BOOLEAN
    PROVE  /\ [f EXCEPT !.carry = "none", !.pipe = b] \in Chain
           /\ Sound(f) => Sound([f EXCEPT !.carry = "none", !.pipe = b])
BY DEF Chain, Sound
Busy(f, pipe, to, doubt) == [f EXCEPT !.first = FALSE, !.carry = "none", !.to = to, !.busy = TRUE,
                                      !.pipe = pipe, !.doubt = doubt]
LEMMA BusyIs ==
    ASSUME NEW f \in Chain, NEW pipe \in BOOLEAN, NEW to \in Redirects, NEW doubt \in BOOLEAN
    PROVE  Busy(f, pipe, to, doubt) \in Chain /\ (Sound(f) => Sound(Busy(f, pipe, to, doubt)))
BY DEF Chain, Busy, Sound
LEMMA RunningIs ==
    ASSUME Top \in Chain, NEW pipe \in BOOLEAN, NEW to \in Redirects, NEW doubt \in BOOLEAN
    PROVE  Running(pipe, to, doubt) \in Chain /\ (Sound(Top) => Sound(Running(pipe, to, doubt)))
<1> DEFINE f == Top
<1>1. f \in Chain
  OBVIOUS
<1>2. Running(pipe, to, doubt) = Busy(f, pipe, to, doubt)
  BY DEF Running, Busy
<1> HIDE DEF f
<1>3. Running(pipe, to, doubt) \in Chain /\ (Sound(f) => Sound(Running(pipe, to, doubt)))
  BY <1>1, <1>2, BusyIs
<1> QED BY <1>3 DEF f
LEMMA DoneIs ==
    ASSUME NEW f \in Chain, NEW b \in BOOLEAN, NEW a \in BOOLEAN
    PROVE  /\ [f EXCEPT !.busy = FALSE, !.to = <<>>, !.ok = b, !.real = b, !.astray = a,
                        !.doubt = FALSE] \in Chain
           /\ Sound([f EXCEPT !.busy = FALSE, !.to = <<>>, !.ok = b, !.real = b, !.astray = a,
                              !.doubt = FALSE])
BY DEF Chain, Sound
LEMMA DoubtIs ==
    ASSUME NEW f \in Chain, NEW d \in BOOLEAN
    PROVE  [f EXCEPT !.doubt = d] \in Chain /\ (Sound(f) => Sound([f EXCEPT !.doubt = d]))
BY DEF Chain, Sound
LEMMA NestedIs ==
    ASSUME NEW d \in BOOLEAN
    PROVE  [Frame EXCEPT !.gone = d] \in Chain /\ Sound([Frame EXCEPT !.gone = d])
<1> DEFINE f == Frame
<1>1. f \in Chain /\ f.ok = f.real
  BY FrameIs DEF Frame
<1> HIDE DEF f
<1>2. [f EXCEPT !.gone = d] \in Chain /\ Sound([f EXCEPT !.gone = d])
  BY <1>1 DEF Chain, Sound
<1> QED BY <1>2 DEF f

(* What the shell does is one thing or the other.                          *)
LEMMA StatusIs ==
    ASSUME Top \in Chain, frames # <<>>, NEW sep, NEW status \in Status
    PROVE  /\ status \in BOOLEAN /\ BashRuns(sep, status) \in BOOLEAN
           /\ ~Top.astray => status = Top.real
<1>1. Top.real \in BOOLEAN /\ Top.pipe \in BOOLEAN /\ Top.astray \in BOOLEAN
  BY DEF Chain
<1>2. status \in BOOLEAN /\ (~Top.astray => status = Top.real)
  BY <1>1 DEF Status
<1>3. BashRuns(sep, status) \in BOOLEAN
  <2>1. CASE sep = "&&"
    BY <1>2, <2>1 DEF BashRuns
  <2>2. CASE sep = "||"
    BY <1>2, <2>2 DEF BashRuns
  <2>3. CASE sep = "|"
    BY <1>1, <2>3 DEF BashRuns
  <2>4. CASE sep \notin {"&&", "||", "|"}
    BY <2>4 DEF BashRuns
  <2> QED BY <2>1, <2>2, <2>3, <2>4
<1> QED BY <1>2, <1>3

LEMMA FrontLen ==
    ASSUME frames \in Seq(Chain), frames # <<>>
    PROVE  Len(Front(frames)) = Len(frames) - 1
<1> DEFINE n == Len(frames) - 1
<1>1. n \in Nat /\ Len(frames) = n + 1
  BY EmptySeq, LenProperties
<1>2. \A i \in 1 .. n : frames[i] \in Chain
  <2>1. \A i \in 1 .. n : i \in 1 .. Len(frames)
    BY <1>1
  <2> HIDE DEF n
  <2> QED BY <2>1, ElementOfSeq
<1>3. Front(frames) = SubSeq(frames, 1, n)
  BY DEF Front
<1> HIDE DEF n
<1>4. Len(SubSeq(frames, 1, n)) = IF 1 <= n THEN n - 1 + 1 ELSE 0
  BY <1>1, <1>2, SubSeqProperties
<1>5. Len(SubSeq(frames, 1, n)) = n
  BY <1>1, <1>4
<1> QED BY <1>3, <1>5 DEF n

(* The chains of a step, and their status.                                 *)
LEMMA ChainsStep ==
    ASSUME TypeInv, [Next]_vars
    PROVE  /\ frames' \in Seq(Chain)
           /\ frames' # <<>> => frames # <<>> \/ Line
           /\ Honest(frames) => Honest(frames')
<1>0. frames \in Seq(Chain) /\ ok \in BOOLEAN
  BY DEF TypeInv, ChainsOK, CoreOK
<1>a. ASSUME frames # <<>>, NEW f \in Chain, Sound(Top) => Sound(f), Honest(frames)
      PROVE  Honest(WithTop(f))
  <2>1. Sound(Top)
    BY <1>0, <1>a, TopIs DEF Honest
  <2>2. Sound(f)
    BY <1>a, <2>1
  <2> QED BY <1>0, <1>a, <2>2, TopIs DEF Honest
<1>b. frames # <<>> => Top \in Chain
  BY <1>0, TopIs
<1>c. Honest(<<>>) /\ <<>> \in Seq(Chain)
  <2>1. DOMAIN <<>> = {}
    OBVIOUS
  <2> QED BY <2>1 DEF Honest
<1>1. CASE Line
  <2>1. frames' = <<>> \/ frames' = <<Frame>>
    BY <1>1 DEF Line
  <2>3. Honest(<<Frame>>)
    <3>1. DOMAIN <<Frame>> = {1}
      OBVIOUS
    <3>2. Sound(Frame)
      BY DEF Frame, Sound
    <3> QED BY <3>1, <3>2, FrameIs DEF Honest
  <2> QED BY <1>1, <1>c, <2>1, <2>3, FrameIs
<1>2. CASE LongLine \/ UNCHANGED vars
  <2>1. frames' = frames
    BY <1>2 DEF LongLine, vars
  <2> QED BY <1>0, <2>1
<1>3. CASE Drop
  <2>1. PICK sep \in Separators \cup {"none"} :
           Reach(sep) /\ frames' = WithTop([Top EXCEPT !.gone = TRUE, !.carry = sep])
    BY <1>3 DEF Drop
  <2>2. frames # <<>>
    BY <2>1 DEF Reach
  <2> DEFINE t == Top
             f == [t EXCEPT !.gone = TRUE, !.carry = sep]
  <2>3. f \in Chain /\ Sound(f)
    <3>1. t \in Chain
      BY <1>b, <2>2
    <3> HIDE DEF t
    <3> QED BY <3>1, DroppedIs
  <2>4. frames' = WithTop(f)
    BY <2>1
  <2> HIDE DEF f
  <2> QED BY <1>0, <1>a, <2>2, <2>3, <2>4, TopIs
<1>4. CASE Skip
  <2>1. PICK sep \in Separators, status \in Status :
           /\ Reach(sep)
           /\ frames' = WithTop([Top EXCEPT !.carry = "none", !.pipe = BashRuns(sep, status)])
    BY <1>4 DEF Skip
  <2>2. frames # <<>>
    BY <2>1 DEF Reach
  <2> DEFINE t == Top
             b == BashRuns(sep, status)
             f == [t EXCEPT !.carry = "none", !.pipe = b]
  <2>3. f \in Chain /\ (Sound(t) => Sound(f))
    <3>1. t \in Chain /\ b \in BOOLEAN
      BY <1>b, <2>2, StatusIs
    <3> HIDE DEF t, b
    <3> QED BY <3>1, SkippedIs
  <2>4. frames' = WithTop(f)
    BY <2>1
  <2> HIDE DEF f
  <2> QED BY <1>0, <1>a, <2>2, <2>3, <2>4, TopIs DEF t
<1>5. CASE Segment \/ Script
  <2>1. PICK sep \in Separators \cup {"none"}, status \in Status, to \in Redirects :
           /\ Started(sep, status, to)
           /\ \/ frames' = WithTop(Running(BashRuns(sep, status), to, Fails(to)))
              \/ frames' = WithTop(Running(BashRuns(sep, status), to, TRUE))
              \/ frames' = Append(WithTop(Running(BashRuns(sep, status), to, Fails(to))),
                                  [Frame EXCEPT !.gone = Exempt(sep, Fails(to))])
    BY <1>5 DEF Segment, Script
  <2>2. frames # <<>>
    BY <2>1 DEF Started, Reach
  <2> DEFINE b == BashRuns(sep, status)
             d == Fails(to)
             f == Running(b, to, d)
             h == Running(b, to, TRUE)
             g == [Frame EXCEPT !.gone = Exempt(sep, d)]
             s == WithTop(f)
  <2>3. b \in BOOLEAN /\ d \in BOOLEAN /\ Exempt(sep, d) \in BOOLEAN
    BY <1>b, <2>2, StatusIs DEF Fails, Exempt
  <2>4. frames' = s \/ frames' = WithTop(h) \/ frames' = Append(s, g)
    BY <2>1
  <2>5. f \in Chain /\ h \in Chain /\ (Sound(Top) => Sound(f)) /\ (Sound(Top) => Sound(h))
    <3> HIDE DEF b, d
    <3> QED BY <1>b, <2>2, <2>3, RunningIs
  <2>6. g \in Chain /\ Sound(g)
    <3> DEFINE e == Exempt(sep, d)
    <3>1. e \in BOOLEAN
      BY <2>3
    <3> HIDE DEF e
    <3>2. [Frame EXCEPT !.gone = e] \in Chain /\ Sound([Frame EXCEPT !.gone = e])
      BY <3>1, NestedIs
    <3> QED BY <3>2 DEF e
  <2> HIDE DEF f, g, h
  <2>7. /\ s \in Seq(Chain) /\ (Honest(frames) => Honest(s))
        /\ WithTop(h) \in Seq(Chain) /\ (Honest(frames) => Honest(WithTop(h)))
    BY <1>0, <1>a, <2>2, <2>5, TopIs
  <2> HIDE DEF s
  <2>8. Append(s, g) \in Seq(Chain) /\ (Honest(s) => Honest(Append(s, g)))
    <3>2. /\ Append(s, g) \in Seq(Chain) /\ Len(Append(s, g)) = Len(s) + 1
          /\ \A i \in 1 .. Len(s) : Append(s, g)[i] = s[i]
          /\ Append(s, g)[Len(s) + 1] = g
      BY <2>6, <2>7, AppendProperties
    <3>3. /\ DOMAIN s = 1 .. Len(s) /\ Len(s) \in Nat
          /\ DOMAIN Append(s, g) = 1 .. Len(s) + 1
      BY <2>7, <3>2, LenProperties
    <3>4. \A i \in 1 .. Len(s) + 1 : i \in 1 .. Len(s) \/ i = Len(s) + 1
      BY <3>3
    <3>5. Honest(s) => Honest(Append(s, g))
      BY <2>6, <3>2, <3>3, <3>4 DEF Honest
    <3> QED BY <3>2, <3>5
  <2> QED BY <2>2, <2>4, <2>7, <2>8
<1>6. CASE Redirect
  <2>1. frames # <<>>
    BY <1>6 DEF Redirect
  <2> DEFINE t == Top
             a == ~t.pipe \/ t.doubt
             f == [t EXCEPT !.busy = FALSE, !.to = <<>>, !.ok = ok, !.real = ok, !.astray = a,
                            !.doubt = FALSE]
  <2>2. f \in Chain /\ Sound(f)
    <3>1. t \in Chain /\ a \in BOOLEAN
      BY <1>b, <2>1
    <3> HIDE DEF t, a
    <3> QED BY <1>0, <3>1, DoneIs
  <2>3. frames' = WithTop(f)
    BY <1>6 DEF Redirect
  <2> HIDE DEF f
  <2> QED BY <1>0, <1>a, <2>1, <2>2, <2>3, TopIs
<1>7. CASE Return
  <2> DEFINE L == Len(frames)
             s == Front(frames)
             d == s[L - 1].doubt \/ Top.astray \/ Top.gone
  <2>1. /\ frames # <<>>
        /\ frames' = IF L = 1 THEN <<>> ELSE [s EXCEPT ![L - 1].doubt = @ \/ Top.astray \/ Top.gone]
    BY <1>7 DEF Return
  <2>2. /\ s \in Seq(Chain) /\ (Honest(frames) => Honest(s))
        /\ Len(s) = L - 1 /\ L \in Nat /\ L # 0 /\ DOMAIN s = 1 .. L - 1
    <3>1. s \in Seq(Chain) /\ (Honest(frames) => Honest(s))
      BY <1>0, <2>1, TopIs DEF Honest
    <3>2. L \in Nat /\ L # 0
      BY <1>0, <2>1, EmptySeq, LenProperties
    <3>3. Len(s) = L - 1
      BY <1>0, <2>1, FrontLen
    <3> QED BY <3>1, <3>2, <3>3, LenProperties
  <2>3. CASE L = 1
    BY <1>c, <2>1, <2>3
  <2>4. CASE L # 1
    <3> DEFINE k == L - 1
               g == [s[k] EXCEPT !.doubt = d]
    <3>1. k \in 1 .. k /\ k \in Nat /\ Len(s) = k
      BY <2>2, <2>4
    <3>2. s[k] \in Chain
      <4> HIDE DEF k
      <4> QED BY <2>2, <3>1, ElementOfSeq
    <3>3. g \in Chain /\ (Sound(s[k]) => Sound(g))
      <4>1. d \in BOOLEAN
        OBVIOUS
      <4> HIDE DEF d, k
      <4> QED BY <3>2, <4>1, DoubtIs
    <3>4. frames' = [s EXCEPT ![k] = g]
      BY <2>1, <2>4
    <3> HIDE DEF g, k
    <3>5. /\ frames' \in Seq(Chain) /\ Len(frames') = k
          /\ \A i \in 1 .. k : frames'[i] = IF i = k THEN g ELSE s[i]
      <4> HIDE DEF s
      <4> QED BY <2>2, <3>1, <3>3, <3>4, ExceptSeq
    <3>6. DOMAIN frames' = 1 .. k /\ DOMAIN s = 1 .. k
      BY <2>2, <3>1, <3>5, LenProperties
    <3>7. Honest(frames) => Honest(frames')
      <4> HIDE DEF s
      <4> QED BY <2>2, <3>1, <3>3, <3>5, <3>6 DEF Honest
    <3> QED BY <2>1, <3>5, <3>7
  <2> QED BY <2>3, <2>4
<1> QED BY <1>1, <1>2, <1>3, <1>4, <1>5, <1>6, <1>7 DEF Next

LEMMA TypesStep == ASSUME TypeInv, [Next]_vars PROVE TypeInv'
<1>0. CoreOK /\ ChainsOK
  BY DEF TypeInv
<1>1. CoreOK'
  BY CoreStep, LineCore DEF Next
<1>2. frames' \in Seq(Chain)
  BY ChainsStep
<1>3. frames' # <<>> => hist' # <<>>
  <2>1. CASE Line
    <3>1. frames' # <<>> => hist' = Append(IF Len(hist) = HistMax THEN Tail(hist) ELSE hist, {})
      BY <2>1 DEF Line
    <3> DEFINE kept == IF Len(hist) = HistMax THEN Tail(hist) ELSE hist
               line == {}
    <3>2. kept \in Seq(SUBSET Marks) /\ line \in SUBSET Marks
      <4>1. hist \in Seq(SUBSET Marks) /\ HistMax \in Nat \ {0} /\ (Len(hist) = HistMax => hist # <<>>)
        BY <1>0, ShellAssumption, EmptySeq DEF CoreOK
      <4>2. Len(hist) = HistMax => Tail(hist) \in Seq(SUBSET Marks)
        BY <4>1, HeadTailProperties
      <4> QED BY <4>1, <4>2
    <3>3. frames' # <<>> => hist' = Append(kept, line)
      BY <3>1
    <3> HIDE DEF kept, line
    <3> QED BY <3>2, <3>3, AppendProperties
  <2>2. CASE ~Line
    <3>1. Len(hist') = Len(hist)
      BY <2>2, CoreStep DEF Made, Next
    <3>2. hist # <<>> => hist' # <<>>
      BY <1>0, <1>1, <3>1, EmptySeq DEF CoreOK
    <3> QED BY <1>0, <2>2, <3>2, ChainsStep DEF ChainsOK
  <2> QED BY <2>1, <2>2
<1>4. commands' \in Nat /\ commands' <= MaxCommands + 1 /\ (commands' > MaxCommands => cap')
  <2>0. /\ commands \in Nat /\ commands <= MaxCommands + 1 /\ (commands > MaxCommands => cap)
        /\ MaxCommands \in Nat
    BY <1>0, ShellAssumption DEF ChainsOK
  <2>1. CASE Line
    <3>1. commands' = commands + 1 /\ cap' = (commands + 1 > MaxCommands) /\ ~cap
      BY <2>1 DEF Line, Ready
    <3>2. ~(commands > MaxCommands)
      BY <2>0, <3>1
    <3>3. commands + 1 \in Nat /\ commands + 1 <= MaxCommands + 1
      BY <2>0, <3>2
    <3>4. commands' > MaxCommands => cap'
      BY <3>1
    <3> QED BY <3>1, <3>3, <3>4
  <2>2. CASE ~Line
    <3>1. commands' = commands
      BY <2>2 DEF Next, LongLine, Drop, Skip, Segment, Started, Script, Redirect, Return, vars
    <3>2. cap => cap'
      BY <2>2, CoreStep DEF Made, Next
    <3> QED BY <2>0, <3>1, <3>2
  <2> QED BY <2>1, <2>2
<1>5. segs' \in 0 .. MaxSegments
  <2>1. segs' = segs \/ (segs < MaxSegments /\ segs' = segs + 1)
    BY DEF Next, Line, LongLine, Drop, Skip, Segment, Started, Script, Redirect, Return, Reach, vars
  <2> QED BY <1>0, <2>1, ShellAssumption DEF ChainsOK
<1> QED BY <1>1, <1>2, <1>3, <1>4, <1>5 DEF TypeInv, ChainsOK

LEMMA TypesInit == Init => TypeInv
<1> SUFFICES ASSUME Init PROVE TypeInv
  OBVIOUS
<1>1. Len(<<>>) = 0 /\ <<>> \in Seq(File) /\ <<>> \in Seq(SUBSET Marks) /\ <<>> \in Seq(Chain)
  OBVIOUS
<1>2. ghost \in Ghost
  BY DEF Init, Ghost
<1>3. CoreOK
  <2>1. /\ files = <<>> /\ cwd = Home /\ procs = 0 /\ hist = <<>>
        /\ exited = FALSE /\ cap = FALSE /\ ok = TRUE
    BY DEF Init
  <2>2. Len(files) <= MaxFiles /\ Len(hist) <= HistMax /\ procs \in Nat /\ procs <= MaxProcs
    BY <1>1, <2>1, ShellAssumption
  <2>3. cwd \in Seq(Parts)
    BY <2>1, DirsAre
  <2>4. files \in Seq(File) /\ hist \in Seq(SUBSET Marks)
    BY <1>1, <2>1
  <2>5. exited \in BOOLEAN /\ cap \in BOOLEAN /\ ok \in BOOLEAN
    BY <2>1
  <2> QED BY <1>2, <2>2, <2>3, <2>4, <2>5 DEF CoreOK
<1>4. ChainsOK
  BY <1>1, ShellAssumption DEF Init, ChainsOK
<1> QED BY <1>3, <1>4 DEF TypeInv

LEMMA TypesHold == Spec => []TypeInv
<1>1. TypeInv /\ [Next]_vars => TypeInv'
  BY TypesStep
<1> QED BY <1>1, TypesInit, PTL DEF Spec

(***************************************************************************)
(* The memory of a session, and the directories of the image.              *)
(***************************************************************************)
LEMMA TypesAre == TypeInv => TypeOK /\ LimitsHold
<1> SUFFICES ASSUME TypeInv PROVE TypeOK /\ LimitsHold
  OBVIOUS
<1>0. CoreOK /\ ChainsOK
  BY DEF TypeInv
<1>1. \A i \in DOMAIN files : files[i] \in File
  BY <1>0, WasFile DEF Was, CoreOK
<1>2. \A i \in DOMAIN hist : hist[i] \in SUBSET Marks
  BY <1>0, LenProperties, ElementOfSeq DEF CoreOK
<1>3. \A i \in DOMAIN frames : frames[i] \in Chain
  BY <1>0, LenProperties, ElementOfSeq DEF ChainsOK
<1>4. TypeOK
  <2>1. \A i \in DOMAIN files : /\ files[i].path \in Seq(Parts)
                                /\ files[i].url \in Urls \cup {"none"}
                                /\ files[i].exec \in BOOLEAN /\ files[i].dir \in BOOLEAN
    BY <1>1 DEF File
  <2>2. \A i \in DOMAIN frames : frames[i].carry \in Separators \cup {"none"}
    BY <1>3 DEF Chain
  <2>3. exited \in BOOLEAN /\ cap \in BOOLEAN /\ ok \in BOOLEAN
    BY <1>0 DEF CoreOK
  <2>4. Len(hist) <= HistMax /\ segs \in 0 .. MaxSegments
    BY <1>0 DEF CoreOK, ChainsOK
  <2> QED BY <1>2, <2>1, <2>2, <2>3, <2>4 DEF TypeOK
<1>5. LimitsHold
  BY <1>0 DEF LimitsHold, CoreOK, ChainsOK
<1> QED BY <1>4, <1>5

(* Every file with the name of a directory of the image is one, or was     *)
(* named as a file. For the first file of the name alone this would not be *)
(* kept: a rename takes it away, and the next one counts.                  *)
ImageInv == \A i \in DOMAIN files :
    files[i].path \in Dirs => files[i].dir \/ files[i].path \in ghost.named

LEMMA ImageStep == ASSUME TypeInv, ImageInv, [Next]_vars PROVE ImageInv'
<1>1. CASE Line
  BY <1>1 DEF Line, ImageInv
<1>2. CASE ~Line
  <2>1. Made
    BY <1>2, CoreStep DEF Next
  <2> SUFFICES ASSUME NEW j \in DOMAIN files', files'[j].path \in Dirs
               PROVE  files'[j].dir \/ files'[j].path \in ghost'.named
    BY DEF ImageInv
  <2>2. ghost.named \subseteq ghost'.named /\ Derived(files'[j])
    BY <2>1 DEF Made, Remembers
  <2> DEFINE f == files'[j]
  <2>3. PICK g \in File :
          /\ Was(g) \/ (g = Blank(f.path) /\ (f.dir \/ f.path \in ghost'.named))
          /\ (f.path = g.path /\ f.dir = g.dir) \/ f.dir \/ f.path \in ghost'.named
    BY <2>2 DEF Derived
  <2> HIDE DEF f
  <2>4. CASE Was(g) /\ f.path = g.path /\ f.dir = g.dir
    <3>1. g.path \in Dirs => g.dir \/ g.path \in ghost.named
      BY <2>4 DEF ImageInv, Was
    <3> QED BY <2>2, <2>4, <3>1 DEF f
  <2> QED BY <2>3, <2>4 DEF f
<1> QED BY <1>1, <1>2

LEMMA ImageIs == ASSUME TypeInv, ImageInv PROVE ImageStays
<1> SUFFICES ASSUME NEW dir \in Dirs PROVE IsDir(dir) \/ dir \in ghost.named
  BY DEF ImageStays
<1>1. CASE Has(dir)
  <2>1. Find(dir) \in DOMAIN files /\ files[Find(dir)].path = dir
    BY <1>1, FindIs DEF TypeInv, CoreOK
  <2>2. files[Find(dir)].dir \/ dir \in ghost.named
    BY <2>1 DEF ImageInv
  <2>3. IsDir(dir) = files[Find(dir)].dir
    BY <1>1 DEF IsDir
  <2> QED BY <2>2, <2>3
<1>2. CASE ~Has(dir)
  BY <1>2 DEF IsDir
<1> QED BY <1>1, <1>2

(* Whatever is made, copied, moved and removed, the table of files and the *)
(* list of processes keep their limits, a session over its commands is     *)
(* marked, and no directory of the image is lost unless it was named as a  *)
(* file.                                                                   *)
THEOREM FilesStayInBounds == Spec => []FilesHold
<1>1. Init => ImageInv
  <2>1. DOMAIN <<>> = {}
    OBVIOUS
  <2> QED BY <2>1 DEF Init, ImageInv
<1>2. TypeInv /\ ImageInv /\ [Next]_vars => ImageInv'
  BY ImageStep
<1>3. TypeInv /\ ImageInv => FilesHold
  BY TypesAre, ImageIs DEF FilesHold
<1> QED BY <1>1, <1>2, <1>3, TypesHold, PTL DEF Spec

(***************************************************************************)
(* What a chain runs.                                                      *)
(***************************************************************************)
LEMMA ReachedIs ==
    ASSUME TypeInv, Honest(frames), RunsLikeBash, frames # <<>>, NEW sep, NEW status \in Status,
           NEW fails \in BOOLEAN, NEW run \in BOOLEAN, run = Runs(sep),
           Reached(sep, run, BashRuns(sep, status), fails)
    PROVE  RunsLikeBash'
<1> DEFINE t == Top
           b == BashRuns(sep, status)
<1>1. t \in Chain /\ Sound(t)
  <2>1. frames \in Seq(Chain)
    BY DEF TypeInv, ChainsOK
  <2> QED BY <2>1, TopIs DEF Honest
<1>2. /\ t.ok \in BOOLEAN /\ t.real \in BOOLEAN /\ t.pipe \in BOOLEAN
      /\ b \in BOOLEAN /\ (~t.astray => status = t.real)
  BY <1>1, StatusIs DEF Chain
<1>3. SUFFICES ASSUME ~t.gone, ~t.astray, ~(sep = "|" /\ ~t.pipe), ~fails
               PROVE  run = b
  BY DEF Reached, Exempt, RunsLikeBash
<1>4. t.ok = status
  BY <1>1, <1>2, <1>3 DEF Sound
<1>5. CASE sep = "&&"
  BY <1>4, <1>5 DEF Runs, BashRuns
<1>6. CASE sep = "||"
  BY <1>4, <1>6 DEF Runs, BashRuns
<1>7. CASE sep = "|"
  <2>1. run = TRUE /\ b = t.pipe
    BY <1>7 DEF Runs, BashRuns
  <2> QED BY <1>2, <1>3, <1>7, <2>1
<1>8. CASE sep \notin {"&&", "||", "|"}
  BY <1>8 DEF Runs, BashRuns
<1> QED BY <1>5, <1>6, <1>7, <1>8

LEMMA VerdictStep ==
    ASSUME TypeInv, Honest(frames), RunsLikeBash, [Next]_vars
    PROVE  RunsLikeBash'
<1>0. ASSUME NEW sep, frames # <<>> PROVE Runs(sep) \in BOOLEAN
  <2>1. Top.ok \in BOOLEAN
    BY <1>0, TopIs DEF TypeInv, ChainsOK, Chain
  <2> QED BY <2>1 DEF Runs
<1>1. CASE Skip
  <2>1. PICK sep \in Separators, status \in Status :
           Reach(sep) /\ ~Runs(sep) /\ Reached(sep, FALSE, BashRuns(sep, status), FALSE)
    BY <1>1 DEF Skip
  <2>2. frames # <<>>
    BY <2>1 DEF Reach
  <2>3. Runs(sep) = FALSE
    BY <1>0, <2>1, <2>2
  <2> QED BY <2>1, <2>2, <2>3, ReachedIs
<1>2. CASE Segment \/ Script
  <2>1. PICK sep \in Separators \cup {"none"}, status \in Status, to \in Redirects :
           Reach(sep) /\ Runs(sep) /\ Reached(sep, TRUE, BashRuns(sep, status), Fails(to))
    BY <1>2 DEF Segment, Script, Started
  <2>2. frames # <<>>
    BY <2>1 DEF Reach
  <2>3. Runs(sep) = TRUE
    BY <1>0, <2>1, <2>2
  <2>4. Fails(to) \in BOOLEAN
    BY DEF Fails
  <2> QED BY <2>1, <2>2, <2>3, <2>4, ReachedIs
<1>3. CASE ~(Skip \/ Segment \/ Script)
  <2>1. differs' = differs
    BY <1>3 DEF Next, Line, LongLine, Drop, Redirect, Return, vars
  <2> QED BY <2>1 DEF RunsLikeBash
<1> QED BY <1>1, <1>2, <1>3

(* A chain runs a segment exactly when a shell would that is given the     *)
(* same statuses, whatever scripts and redirections are in between; except *)
(* what a skipped segment is piped into, what is redirected in vain, what  *)
(* is dropped or not run as a script, and what follows until both have run *)
(* a segment again.                                                        *)
THEOREM ChainsRunLikeBash == Spec => []RunsLikeBash
<1>1. Init => Honest(frames) /\ RunsLikeBash
  <2>1. DOMAIN <<>> = {}
    OBVIOUS
  <2> QED BY <2>1 DEF Init, Honest, RunsLikeBash
<1>2. TypeInv /\ Honest(frames) /\ RunsLikeBash /\ [Next]_vars => (Honest(frames) /\ RunsLikeBash)'
  BY VerdictStep, ChainsStep
<1> QED BY <1>1, <1>2, TypesHold, PTL DEF Spec

(***************************************************************************)
(* What a payload leaves: its trail, handed to the log, and its marks in   *)
(* the history as long as that has lost no line.                           *)
(***************************************************************************)
TrailInv == /\ \A i \in DOMAIN files : /\ files[i].exec => "chmod" \in told
                                       /\ files[i].url # "none" => "download_url" \in told
            /\ PayloadTrail

RecordInv ==
    /\ Len(hist) <= commands
    /\ commands <= HistMax =>
          /\ \A i \in DOMAIN files : /\ files[i].exec => ghost.exotic \/ Recorded("chmod")
                                     /\ files[i].url # "none" => ghost.exotic \/ Recorded("fetch")
          /\ ghost.payload # {} => ghost.exotic \/ Recorded("chmod")
          /\ ghost.payload \ {"none"} # {} => ghost.exotic \/ Recorded("fetch")

LEMMA TrailStep == ASSUME TypeInv, TrailInv, [Next]_vars PROVE TrailInv'
<1>1. CASE Line
  <2>1. UNCHANGED <<files, told, ghost>>
    BY <1>1 DEF Line
  <2> QED BY <2>1 DEF TrailInv, PayloadTrail
<1>2. CASE ~Line
  <2>1. Made /\ Paid
    BY <1>2, CoreStep DEF Next
  <2>2. told \subseteq told' /\ \A j \in DOMAIN files' : Derived(files'[j])
    BY <2>1 DEF Made, Remembers
  <2>3. ASSUME NEW j \in DOMAIN files'
        PROVE  /\ files'[j].exec => "chmod" \in told'
               /\ files'[j].url # "none" => "download_url" \in told'
    <3> DEFINE f == files'[j]
    <3>1. PICK g \in File :
            /\ Was(g) \/ (g = Blank(f.path) /\ (f.dir \/ f.path \in ghost'.named))
            /\ f.url = g.url \/ "download_url" \in told'
            /\ f.exec = g.exec \/ "chmod" \in told'
      BY <2>2 DEF Derived
    <3> HIDE DEF f
    <3>2. (g.exec => "chmod" \in told) /\ (g.url # "none" => "download_url" \in told)
      <4>1. CASE Was(g)
        BY <4>1 DEF Was, TrailInv
      <4>2. CASE g = Blank(f.path)
        BY <4>2 DEF Blank
      <4> QED BY <3>1, <4>1, <4>2
    <3>3. (f.exec => "chmod" \in told') /\ (f.url # "none" => "download_url" \in told')
      BY <2>2, <3>1, <3>2
    <3> QED BY <3>3 DEF f
  <2>4. PayloadTrail'
    <3>1. PayloadTrail
      BY DEF TrailInv
    <3>2. CASE ghost'.payload = ghost.payload
      BY <2>2, <3>1, <3>2 DEF PayloadTrail
    <3>3. CASE \E i \in DOMAIN files : /\ files[i].exec
                                       /\ ghost'.payload = ghost.payload \cup {files[i].url}
                                       /\ "payload_execution" \in told'
      <4>1. PICK i \in DOMAIN files : /\ files[i].exec
                                      /\ ghost'.payload = ghost.payload \cup {files[i].url}
                                      /\ "payload_execution" \in told'
        BY <3>3
      <4>2. "chmod" \in told' /\ (files[i].url # "none" => "download_url" \in told')
        BY <2>2, <4>1 DEF TrailInv
      <4>3. ghost'.payload \ {"none"} # {} =>
              files[i].url # "none" \/ ghost.payload \ {"none"} # {}
        BY <4>1
      <4> QED BY <2>2, <3>1, <4>1, <4>2, <4>3 DEF PayloadTrail
    <3> QED BY <2>1, <3>2, <3>3 DEF Paid
  <2> QED BY <2>3, <2>4 DEF TrailInv
<1> QED BY <1>1, <1>2

(* A new line loses no other while the history has room for all.           *)
LEMMA LineKeeps ==
    ASSUME TypeInv, Line, Len(hist) <= commands
    PROVE  /\ Len(hist') <= commands'
           /\ commands' <= HistMax => \A mark : Recorded(mark) => Recorded(mark)'
<1> DEFINE L == Len(hist)
           kept == IF L = HistMax THEN Tail(hist) ELSE hist
           line == {}
<1>1. /\ hist \in Seq(SUBSET Marks) /\ L \in Nat /\ L <= HistMax /\ HistMax \in Nat \ {0}
      /\ DOMAIN hist = 1 .. L /\ commands \in Nat /\ L <= commands
  BY LenProperties, ShellAssumption DEF TypeInv, CoreOK, ChainsOK
<1>2. commands' = commands + 1 /\ hist' = IF cap' THEN hist ELSE Append(kept, line)
  BY DEF Line
<1>3. kept \in Seq(SUBSET Marks) /\ Len(kept) <= L
  <2>1. CASE L = HistMax
    <3>1. hist # <<>>
      BY <1>1, <2>1, EmptySeq
    <3>2. Tail(hist) \in Seq(SUBSET Marks) /\ Len(Tail(hist)) = L - 1
      BY <1>1, <3>1, HeadTailProperties
    <3>3. kept = Tail(hist)
      BY <2>1
    <3> HIDE DEF kept
    <3> QED BY <1>1, <3>2, <3>3
  <2>2. CASE L # HistMax
    <3>1. kept = hist
      BY <2>2
    <3> HIDE DEF kept
    <3> QED BY <1>1, <3>1
  <2> HIDE DEF kept
  <2> QED BY <2>1, <2>2
<1>4. line \in SUBSET Marks
  OBVIOUS
<1>5. commands' <= HistMax => kept = hist
  <2>1. commands' = commands + 1
    BY <1>2
  <2>2. commands' <= HistMax => L # HistMax
    <3> HIDE DEF L, kept
    <3> QED BY <1>1, <2>1
  <2> HIDE DEF L
  <2> QED BY <2>2
<1> HIDE DEF L, kept, line
<1>6. /\ Len(kept) \in Nat /\ DOMAIN kept = 1 .. Len(kept)
      /\ Append(kept, line) \in Seq(SUBSET Marks) /\ Len(Append(kept, line)) = Len(kept) + 1
      /\ \A i \in 1 .. Len(kept) : Append(kept, line)[i] = kept[i]
  BY <1>3, <1>4, AppendProperties, LenProperties
<1>7. DOMAIN Append(kept, line) = 1 .. Len(kept) + 1
  BY <1>6, LenProperties
<1>8. CASE cap'
  BY <1>1, <1>2, <1>8 DEF Recorded, L
<1>9. CASE ~cap'
  <2>1. hist' = Append(kept, line)
    BY <1>2, <1>9
  <2>2. Len(hist') <= commands'
    BY <1>1, <1>2, <1>3, <1>6, <2>1
  <2>3. ASSUME commands' <= HistMax, NEW mark, Recorded(mark) PROVE Recorded(mark)'
    <3>1. PICK i \in DOMAIN kept : mark \in kept[i]
      BY <1>5, <2>3 DEF Recorded
    <3>2. i \in DOMAIN hist' /\ hist'[i] = kept[i]
      BY <1>6, <1>7, <2>1
    <3> QED BY <3>1, <3>2 DEF Recorded
  <2> QED BY <2>2, <2>3
<1> QED BY <1>8, <1>9

LEMMA RecordStep == ASSUME TypeInv, RecordInv, [Next]_vars PROVE RecordInv'
<1>1. CASE Line
  <2>1. UNCHANGED <<files, ghost>> /\ commands' = commands + 1
    BY <1>1 DEF Line
  <2>2. commands' <= HistMax => commands <= HistMax
    BY <2>1, ShellAssumption DEF TypeInv, ChainsOK
  <2>3. /\ Len(hist') <= commands'
        /\ commands' <= HistMax => \A mark : Recorded(mark) => Recorded(mark)'
    BY <1>1, LineKeeps DEF RecordInv
  <2>4. ASSUME commands' <= HistMax
        PROVE  /\ \A i \in DOMAIN files' : /\ files'[i].exec => ghost'.exotic \/ Recorded("chmod")'
                                           /\ files'[i].url # "none" => ghost'.exotic \/ Recorded("fetch")'
               /\ ghost'.payload # {} => ghost'.exotic \/ Recorded("chmod")'
               /\ ghost'.payload \ {"none"} # {} => ghost'.exotic \/ Recorded("fetch")'
    <3>1. /\ Recorded("chmod") => Recorded("chmod")'
          /\ Recorded("fetch") => Recorded("fetch")'
      BY <2>3, <2>4
    <3> HIDE DEF Recorded
    <3> QED BY <2>1, <2>2, <2>4, <3>1 DEF RecordInv
  <2> QED BY <2>3, <2>4 DEF RecordInv
<1>2. CASE ~Line
  <2>1. Made /\ Paid
    BY <1>2, CoreStep DEF Next
  <2>2. commands' = commands
    BY <1>2 DEF Next, LongLine, Drop, Skip, Segment, Started, Script, Redirect, Return, vars
  <2>3. Len(hist') <= commands'
    BY <2>1, <2>2 DEF Made, RecordInv
  <2>4. ASSUME commands' <= HistMax
        PROVE  /\ \A i \in DOMAIN files' : /\ files'[i].exec => ghost'.exotic \/ Recorded("chmod")'
                                           /\ files'[i].url # "none" => ghost'.exotic \/ Recorded("fetch")'
               /\ ghost'.payload # {} => ghost'.exotic \/ Recorded("chmod")'
               /\ ghost'.payload \ {"none"} # {} => ghost'.exotic \/ Recorded("fetch")'
    <3>1. /\ \A i \in DOMAIN files : /\ files[i].exec => ghost.exotic \/ Recorded("chmod")
                                     /\ files[i].url # "none" => ghost.exotic \/ Recorded("fetch")
          /\ ghost.payload # {} => ghost.exotic \/ Recorded("chmod")
          /\ ghost.payload \ {"none"} # {} => ghost.exotic \/ Recorded("fetch")
      BY <2>2, <2>4 DEF RecordInv
    <3>2. /\ ghost.exotic => ghost'.exotic
          /\ Recorded("chmod") => Recorded("chmod")'
          /\ Recorded("fetch") => Recorded("fetch")'
          /\ \A j \in DOMAIN files' : Derived(files'[j])
      BY <2>1 DEF Made, Remembers, Marks
    <3>3. ASSUME NEW j \in DOMAIN files'
          PROVE  /\ files'[j].exec => ghost'.exotic \/ Recorded("chmod")'
                 /\ files'[j].url # "none" => ghost'.exotic \/ Recorded("fetch")'
      <4> DEFINE f == files'[j]
      <4>1. PICK g \in File :
              /\ Was(g) \/ g = Blank(f.path)
              /\ f.url = g.url \/ ghost'.exotic \/ Recorded("fetch")'
              /\ f.exec = g.exec \/ ghost'.exotic \/ Recorded("chmod")'
        BY <3>2 DEF Derived
      <4> HIDE DEF f
      <4>2. (g.exec => ghost.exotic \/ Recorded("chmod")) /\ (g.url # "none" => ghost.exotic \/ Recorded("fetch"))
        <5>1. CASE Was(g)
          BY <3>1, <5>1 DEF Was
        <5>2. CASE g = Blank(f.path)
          BY <5>2 DEF Blank
        <5> QED BY <4>1, <5>1, <5>2
      <4>3. (f.exec => ghost'.exotic \/ Recorded("chmod")') /\ (f.url # "none" => ghost'.exotic \/ Recorded("fetch")')
        BY <3>2, <4>1, <4>2
      <4> QED BY <4>3 DEF f
    <3>4. CASE ghost'.payload = ghost.payload
      BY <3>1, <3>2, <3>3, <3>4
    <3>5. CASE \E i \in DOMAIN files : /\ files[i].exec
                                       /\ ghost'.payload = ghost.payload \cup {files[i].url}
                                       /\ "payload_execution" \in told'
      <4>1. PICK i \in DOMAIN files :
              files[i].exec /\ ghost'.payload = ghost.payload \cup {files[i].url}
        BY <3>5
      <4>2. /\ ghost'.exotic \/ Recorded("chmod")'
            /\ files[i].url # "none" => ghost'.exotic \/ Recorded("fetch")'
        BY <3>1, <3>2, <4>1
      <4>3. ghost'.payload \ {"none"} # {} =>
              files[i].url # "none" \/ ghost.payload \ {"none"} # {}
        BY <4>1
      <4> QED BY <3>1, <3>2, <3>3, <4>2, <4>3
    <3> QED BY <2>1, <3>4, <3>5 DEF Paid
  <2> QED BY <2>3, <2>4 DEF RecordInv
<1> QED BY <1>1, <1>2

(* The classifier sees what is recorded.                                   *)
LEMMA LoaderIs == ASSUME TypeInv, RecordInv PROVE LoaderRecognised
<1> SUFFICES ASSUME ghost.payload \ {"none"} # {}, ~ghost.exotic,
                    commands <= SummaryMax, commands <= HistMax
             PROVE  \A last \in {0, 600, 9000}, dict \in BOOLEAN, private \in BOOLEAN :
                       Classify(Summary, commands, 1, dict, 0, last, private)
                         \in {"mirai", "iot-loader"}
  BY DEF LoaderRecognised
<1>1. Recorded("fetch") /\ Recorded("chmod")
  <2>1. ghost.payload # {}
    OBVIOUS
  <2> QED BY <2>1 DEF RecordInv
<1>2. ASSUME NEW mark, Recorded(mark) PROVE mark \in Summary
  <2>1. PICK i \in DOMAIN hist : mark \in hist[i]
    BY <1>2 DEF Recorded
  <2>2. hist \in Seq(SUBSET Marks) /\ DOMAIN hist = 1 .. Len(hist) /\ Len(hist) \in Nat
    BY LenProperties DEF TypeInv, CoreOK
  <2>3. commands \in Nat /\ SummaryMax \in Nat /\ Len(hist) <= commands
    BY ShellAssumption DEF TypeInv, ChainsOK, RecordInv
  <2>4. i <= SummaryMax
    BY <2>2, <2>3
  <2> QED BY <2>1, <2>4 DEF Summary
<1>3. Loader(Summary)
  BY <1>1, <1>2 DEF Loader
<1> QED BY <1>3 DEF Classify

(* A payload that ran is told: its trail went to the log, and while the    *)
(* history and the summary lose no line, its session is a loader's.        *)
THEOREM PayloadsAreTold == Spec => []PayloadTold
<1>1. Init => TrailInv /\ RecordInv
  <2> SUFFICES ASSUME Init PROVE TrailInv /\ RecordInv
    OBVIOUS
  <2>1. DOMAIN <<>> = {} /\ Len(<<>>) = 0
    OBVIOUS
  <2>2. files = <<>> /\ hist = <<>> /\ commands = 0 /\ ghost.payload = {}
    BY DEF Init
  <2> QED BY <2>1, <2>2 DEF TrailInv, RecordInv, PayloadTrail
<1>2. TypeInv /\ TrailInv /\ RecordInv /\ [Next]_vars => (TrailInv /\ RecordInv)'
  BY TrailStep, RecordStep
<1>3. TypeInv /\ TrailInv /\ RecordInv => PayloadTold
  BY LoaderIs DEF TrailInv, PayloadTold
<1> QED BY <1>1, <1>2, <1>3, TypesHold, PTL DEF Spec

(***************************************************************************)
(* The files implement the map of ShellDisk.                               *)
(***************************************************************************)
PathsOf(s) == {s[i].path : i \in DOMAIN s}
MapOf(s) == [path \in PathsOf(s) |->
               Content(s[CHOOSE i \in DOMAIN s :
                           s[i].path = path /\ \A j \in 1 .. (i - 1) : s[j].path # path])]

(* When names are distinct, the map has what each file has.                *)
LEMMA MapIs ==
    ASSUME NEW s \in Seq(File), Distinct(s)
    PROVE  /\ MapOf(s) = [path \in PathsOf(s) |-> MapOf(s)[path]]
           /\ \A i \in DOMAIN s : s[i].path \in PathsOf(s) /\ MapOf(s)[s[i].path] = Content(s[i])
<1>1. MapOf(s) = [path \in PathsOf(s) |-> MapOf(s)[path]]
  BY DEF MapOf
<1>2. ASSUME NEW i \in DOMAIN s
      PROVE  s[i].path \in PathsOf(s) /\ MapOf(s)[s[i].path] = Content(s[i])
  <2> DEFINE First(k, path) == s[k].path = path /\ \A j \in 1 .. (k - 1) : s[j].path # path
  <2>1. DOMAIN s = 1 .. Len(s) /\ Len(s) \in Nat
    BY LenProperties
  <2>2. \A j \in 1 .. (i - 1) : j \in DOMAIN s /\ j # i
    BY <2>1
  <2>3. First(i, s[i].path)
    BY <2>2 DEF Distinct
  <2>4. \A k \in DOMAIN s : First(k, s[i].path) => k = i
    BY DEF Distinct
  <2>5. (CHOOSE k \in DOMAIN s : First(k, s[i].path)) = i
    <3> HIDE DEF First
    <3> QED BY <2>3, <2>4
  <2>6. s[i].path \in PathsOf(s)
    BY DEF PathsOf
  <2> QED BY <2>5, <2>6 DEF MapOf
<1> QED BY <1>1, <1>2

(* A map that has what each file has is that map.                          *)
LEMMA MapEq ==
    ASSUME NEW s \in Seq(File), Distinct(s), NEW m,
           m = [path \in PathsOf(s) |-> m[path]],
           \A i \in DOMAIN s : m[s[i].path] = Content(s[i])
    PROVE  MapOf(s) = m
<1>1. ASSUME NEW path \in PathsOf(s) PROVE MapOf(s)[path] = m[path]
  <2>1. PICK i \in DOMAIN s : path = s[i].path
    BY DEF PathsOf
  <2>2. MapOf(s)[s[i].path] = Content(s[i])
    BY MapIs
  <2> QED BY <2>1, <2>2
<1> QED BY <1>1, MapIs

LEMMA ContentsAre == Contents = MapOf(files) /\ Contents' = MapOf(files')
BY DEF Contents, MapOf, PathsOf, Find

LEMMA HasIs == \A path : Has(path) <=> path \in PathsOf(files)
BY DEF Has, PathsOf

(* The names of the map of the abstract disk are those of the files.       *)
LEMMA DiskIs ==
    ASSUME files \in Seq(File), Distinct(files)
    PROVE  /\ DOMAIN Contents = PathsOf(files)
           /\ \A i \in DOMAIN files : files[i].path \in PathsOf(files)
                                      /\ Contents[files[i].path] = Content(files[i])
<1>1. MapOf(files) = [path \in PathsOf(files) |-> MapOf(files)[path]]
  BY MapIs
<1>2. DOMAIN MapOf(files) = PathsOf(files)
  BY <1>1
<1> QED BY <1>2, MapIs, ContentsAre

(* What the abstract disk has of a name is what a command starts from.     *)
LEMMA NowIs ==
    ASSUME files \in Seq(File), Distinct(files), NEW path
    PROVE  Disk!Now(path) = Content(At(path))
<1>1. CASE Has(path)
  <2>1. Find(path) \in DOMAIN files /\ files[Find(path)].path = path
    BY <1>1, FindIs
  <2>2. path \in DOMAIN Contents /\ Contents[path] = Content(files[Find(path)])
    BY <2>1, DiskIs
  <2>3. At(path) = files[Find(path)]
    BY <1>1 DEF At
  <2> QED BY <2>2, <2>3 DEF Disk!Now
<1>2. CASE ~Has(path)
  <2>1. path \notin DOMAIN Contents
    BY <1>2, HasIs, DiskIs
  <2>2. Content(At(path)) = [url |-> "none", exec |-> FALSE, dir |-> FALSE]
    BY <1>2 DEF At, Blank, Content
  <2> QED BY <2>1, <2>2 DEF Disk!Now, Disk!Fresh
<1> QED BY <1>1, <1>2

(* Storing a file gives its name its entry, or finds the table full.       *)
LEMMA StoreDisk ==
    ASSUME files \in Seq(File), Distinct(files), NEW path, NEW file \in File,
           file.path = path, Store(path, file)
    PROVE  /\ Distinct(files')
           /\ \/ Contents' = Contents
              \/ path \in DOMAIN Contents' /\ Contents' = Disk!With(path, Content(file))
<1> DEFINE L == Len(files)
           m == Disk!With(path, Content(file))
<1>1. DOMAIN files = 1 .. L /\ L \in Nat
  BY LenProperties
<1>2. /\ m = [n \in PathsOf(files) \cup {path} |-> m[n]]
      /\ m[path] = Content(file)
      /\ \A i \in 1 .. L : files[i].path # path => m[files[i].path] = Content(files[i])
  <2>1. m = [n \in PathsOf(files) \cup {path} |-> IF n = path THEN Content(file) ELSE Contents[n]]
    BY DiskIs DEF Disk!With
  <2> HIDE DEF m
  <2>2. m = [n \in PathsOf(files) \cup {path} |-> m[n]] /\ m[path] = Content(file)
    BY <2>1
  <2>3. \A i \in 1 .. L : files[i].path # path => m[files[i].path] = Content(files[i])
    BY <1>1, <2>1, DiskIs
  <2> QED BY <2>2, <2>3
<1> HIDE DEF L, m
<1>3. ASSUME files' \in Seq(File), Distinct(files'), PathsOf(files') = PathsOf(files) \cup {path},
             \A j \in DOMAIN files' : m[files'[j].path] = Content(files'[j])
      PROVE  path \in DOMAIN Contents' /\ Contents' = m
  <2>1. MapOf(files') = m
    BY <1>2, <1>3, MapEq
  <2>2. path \in DOMAIN m
    BY <1>2
  <2> QED BY <2>1, <2>2, ContentsAre
<1>4. CASE Has(path)
  <2>1. files' = [files EXCEPT ![Find(path)] = file]
    BY <1>4 DEF Store
  <2>2. Find(path) \in 1 .. L /\ files[Find(path)].path = path
    BY <1>1, <1>4, FindIs
  <2>3. /\ files' \in Seq(File) /\ DOMAIN files' = 1 .. L
        /\ \A j \in 1 .. L : files'[j] = IF j = Find(path) THEN file ELSE files[j]
    BY <2>1, <2>2, ExceptSeq, LenProperties DEF L
  <2>4. \A j \in 1 .. L : files'[j].path = files[j].path
    BY <2>2, <2>3
  <2>5. Distinct(files') /\ PathsOf(files') = PathsOf(files)
    BY <1>1, <2>3, <2>4 DEF Distinct, PathsOf
  <2>6. path \in PathsOf(files)
    BY <1>4, HasIs
  <2>7. ASSUME NEW j \in 1 .. L PROVE m[files'[j].path] = Content(files'[j])
    <3>1. CASE j = Find(path)
      BY <1>2, <2>3, <3>1
    <3>2. CASE j # Find(path)
      <4>1. files[j].path # path
        BY <1>1, <2>2, <3>2 DEF Distinct
      <4> QED BY <1>2, <2>3, <3>2, <4>1
    <3> QED BY <3>1, <3>2
  <2>8. PathsOf(files') = PathsOf(files) \cup {path}
    BY <2>5, <2>6
  <2>9. \A j \in DOMAIN files' : m[files'[j].path] = Content(files'[j])
    BY <2>3, <2>7
  <2> QED BY <1>3, <2>3, <2>5, <2>8, <2>9 DEF m
<1>5. CASE ~Has(path) /\ L < MaxFiles
  <2>1. files' = Append(files, file)
    BY <1>5 DEF Store, L
  <2>2. /\ files' \in Seq(File) /\ DOMAIN files' = 1 .. L + 1
        /\ \A j \in 1 .. L : files'[j] = files[j]
        /\ files'[L + 1] = file
    BY <2>1, AppendProperties, LenProperties DEF L
  <2>3. \A j : j \in 1 .. L + 1 <=> j \in 1 .. L \/ j = L + 1
    BY <1>1
  <2>4. \A j \in 1 .. L : files[j].path # path
    BY <1>1, <1>5 DEF Has
  <2>5. Distinct(files')
    <3>1. \A i, j \in 1 .. L : files[i].path = files[j].path => i = j
      BY <1>1 DEF Distinct
    <3> QED BY <2>2, <2>3, <2>4, <3>1 DEF Distinct
  <2>6. PathsOf(files') = PathsOf(files) \cup {path}
    BY <1>1, <2>2, <2>3 DEF PathsOf
  <2>7. \A j \in DOMAIN files' : m[files'[j].path] = Content(files'[j])
    BY <1>2, <2>2, <2>3, <2>4
  <2> QED BY <1>3, <2>2, <2>5, <2>6, <2>7 DEF m
<1>6. CASE ~Has(path) /\ ~(L < MaxFiles)
  <2>1. files' = files
    BY <1>6 DEF Store, L
  <2> QED BY <2>1, ContentsAre
<1> QED BY <1>4, <1>5, <1>6

(* A step of the abstract disk, or none.                                   *)
Moves == /\ Distinct(files')
         /\ \/ Contents' = Contents
            \/ Disk!Download \/ Disk!Allow \/ Disk!MakeDir \/ Disk!Touch
            \/ Disk!Delete \/ Disk!Rename \/ Disk!Copy

LEMMA IdleMoves == ASSUME Distinct(files), UNCHANGED files PROVE Moves
BY ContentsAre DEF Moves

(* The entry of a file that a command changed in one field.                *)
LEMMA EntryIs ==
    ASSUME NEW f \in File, NEW g, g.url = f.url, g.exec = f.exec, g.dir = f.dir
    PROVE  Content(g) = Content(f)
BY DEF Content
LEMMA UrlEntry ==
    ASSUME NEW f \in File, NEW u, NEW g, g.url = u, g.exec = f.exec, g.dir = f.dir
    PROVE  Content(g) = [Content(f) EXCEPT !.url = u]
<1>1. Content(g) = [url |-> u, exec |-> f.exec, dir |-> f.dir]
  BY DEF Content
<1>2. [Content(f) EXCEPT !.url = u] = [url |-> u, exec |-> f.exec, dir |-> f.dir]
  BY DEF Content
<1> QED BY <1>1, <1>2
LEMMA ExecEntry ==
    ASSUME NEW f \in File, NEW g, g.url = f.url, g.exec = TRUE, g.dir = f.dir
    PROVE  Content(g) = [Content(f) EXCEPT !.exec = TRUE]
<1> DEFINE t == TRUE
<1>1. g.exec = t
  OBVIOUS
<1> HIDE DEF t
<1>2. Content(g) = [url |-> f.url, exec |-> t, dir |-> f.dir]
  BY <1>1 DEF Content
<1>3. [Content(f) EXCEPT !.exec = t] = [url |-> f.url, exec |-> t, dir |-> f.dir]
  BY DEF Content
<1> QED BY <1>2, <1>3 DEF t
LEMMA DirEntry ==
    ASSUME NEW f \in File, NEW g, g.url = f.url, g.exec = f.exec, g.dir = TRUE
    PROVE  Content(g) = [Content(f) EXCEPT !.dir = TRUE]
<1> DEFINE t == TRUE
<1>1. g.dir = t
  OBVIOUS
<1> HIDE DEF t
<1>2. Content(g) = [url |-> f.url, exec |-> f.exec, dir |-> t]
  BY <1>1 DEF Content
<1>3. [Content(f) EXCEPT !.dir = t] = [url |-> f.url, exec |-> f.exec, dir |-> t]
  BY DEF Content
<1> QED BY <1>2, <1>3 DEF t

LEMMA FetchedMoves ==
    ASSUME CoreOK, Distinct(files), NEW path \in Seq(Parts), Fetched(path) PROVE Moves
<1>1. PICK u \in Urls : Store(path, [At(path) EXCEPT !.url = u])
  BY DEF Fetched
<1> DEFINE file == [At(path) EXCEPT !.url = u]
<1>2. files \in Seq(File) /\ At(path) \in File /\ At(path).path = path
  BY AtIs DEF CoreOK
<1>3. /\ file \in File /\ file.path = path
      /\ Content(file) = [Content(At(path)) EXCEPT !.url = u]
  <2>1. /\ file \in File /\ file.path = path /\ file.url = u
        /\ file.exec = At(path).exec /\ file.dir = At(path).dir
    BY <1>2 DEF File
  <2> HIDE DEF file
  <2> QED BY <1>2, <2>1, UrlEntry
<1>4. Disk!Now(path) = Content(At(path))
  BY <1>2, NowIs
<1>5. Store(path, file)
  BY <1>1
<1> HIDE DEF file
<1>6. /\ Distinct(files')
      /\ \/ Contents' = Contents
         \/ path \in DOMAIN Contents' /\ Contents' = Disk!With(path, Content(file))
  BY <1>2, <1>3, <1>5, StoreDisk
<1>7. u \in (Urls \cup {"none"}) \ {"none"}
  BY ShellAssumption
<1>8. path \in DOMAIN Contents' /\ Contents' = Disk!With(path, Content(file)) => Disk!Download
  <2> SUFFICES ASSUME path \in DOMAIN Contents', Contents' = Disk!With(path, Content(file))
               PROVE  Disk!Download
    OBVIOUS
  <2>1. Contents' = Disk!With(path, [Disk!Now(path) EXCEPT !.url = u])
    BY <1>3, <1>4
  <2> QED BY <1>7, <2>1 DEF Disk!Download
<1> QED BY <1>6, <1>8 DEF Moves

LEMMA TouchMoves ==
    ASSUME CoreOK, Distinct(files), NEW path \in Seq(Parts), NEW file \in File,
           file.path = path, Content(file) = Content(At(path)), Store(path, file)
    PROVE  Moves
<1>1. files \in Seq(File)
  BY DEF CoreOK
<1>2. Disk!Now(path) = Content(At(path))
  BY <1>1, NowIs
<1>3. /\ Distinct(files')
      /\ \/ Contents' = Contents
         \/ path \in DOMAIN Contents' /\ Contents' = Disk!With(path, Content(file))
  BY <1>1, StoreDisk
<1>4. path \in DOMAIN Contents' /\ Contents' = Disk!With(path, Content(file)) => Disk!Touch
  BY <1>2 DEF Disk!Touch
<1> QED BY <1>3, <1>4 DEF Moves

LEMMA ChmodMoves == ASSUME CoreOK, Distinct(files), Chmod PROVE Moves
<1>1. PICK arg \in Args, mode \in {"777", "odd", "644"} :
        Store(Resolve(arg), [At(Resolve(arg)) EXCEPT !.exec = @ \/ mode # "644"])
  BY DEF Chmod
<1> DEFINE path == Resolve(arg)
           file == [At(path) EXCEPT !.exec = @ \/ mode # "644"]
<1>2. path \in Seq(Parts)
  BY PathIs, ArgsAre
<1>3. files \in Seq(File) /\ At(path) \in File /\ At(path).path = path
  BY <1>2, AtIs DEF CoreOK
<1>4. Store(path, file)
  BY <1>1
<1> HIDE DEF path
<1>5. At(path).exec \in BOOLEAN
  BY <1>3 DEF File
<1>6. /\ file \in File /\ file.path = path
      /\ file = [At(path) EXCEPT !.exec = (At(path).exec \/ mode # "644")]
  BY <1>3 DEF File
<1> HIDE DEF file
<1>7. CASE mode = "644"
  <2>1. (At(path).exec \/ mode # "644") = At(path).exec
    BY <1>5, <1>7
  <2>2. file = [At(path) EXCEPT !.exec = At(path).exec]
    BY <1>6, <2>1
  <2>3. Content(file) = Content(At(path))
    <3>1. /\ file.url = At(path).url /\ file.exec = At(path).exec
          /\ file.dir = At(path).dir
      BY <1>3, <2>2 DEF File
    <3> QED BY <1>3, <3>1, EntryIs
  <2> QED BY <1>2, <1>4, <1>6, <2>3, TouchMoves
<1>8. CASE mode # "644"
  <2>1. (At(path).exec \/ mode # "644") = TRUE
    BY <1>8
  <2>2. file = [At(path) EXCEPT !.exec = TRUE]
    BY <1>6, <2>1
  <2>3. Content(file) = [Content(At(path)) EXCEPT !.exec = TRUE]
    <3>1. file.url = At(path).url /\ file.exec = TRUE /\ file.dir = At(path).dir
      BY <1>3, <2>2 DEF File
    <3> QED BY <1>3, <3>1, ExecEntry
  <2>4. Disk!Now(path) = Content(At(path))
    BY <1>3, NowIs
  <2>5. /\ Distinct(files')
        /\ \/ Contents' = Contents
           \/ path \in DOMAIN Contents' /\ Contents' = Disk!With(path, Content(file))
    BY <1>3, <1>4, <1>6, StoreDisk
  <2>6. path \in DOMAIN Contents' /\ Contents' = Disk!With(path, Content(file)) => Disk!Allow
    BY <2>3, <2>4 DEF Disk!Allow
  <2> QED BY <2>5, <2>6 DEF Moves
<1> QED BY <1>7, <1>8

LEMMA MkdirMoves == ASSUME CoreOK, Distinct(files), Mkdir PROVE Moves
<1>1. PICK arg \in Args : Store(Resolve(arg), [At(Resolve(arg)) EXCEPT !.dir = TRUE])
  BY DEF Mkdir
<1> DEFINE path == Resolve(arg)
           file == [At(path) EXCEPT !.dir = TRUE]
<1>2. path \in Seq(Parts)
  BY PathIs, ArgsAre
<1>3. files \in Seq(File) /\ At(path) \in File /\ At(path).path = path
  BY <1>2, AtIs DEF CoreOK
<1>4. Store(path, file)
  BY <1>1
<1> HIDE DEF path
<1>5. /\ file \in File /\ file.path = path
      /\ Content(file) = [Content(At(path)) EXCEPT !.dir = TRUE]
  <2>1. /\ file \in File /\ file.path = path /\ file.url = At(path).url
        /\ file.exec = At(path).exec /\ file.dir = TRUE
    BY <1>3 DEF File
  <2> HIDE DEF file
  <2> QED BY <1>3, <2>1, DirEntry
<1> HIDE DEF file
<1>6. Disk!Now(path) = Content(At(path))
  BY <1>3, NowIs
<1>7. /\ Distinct(files')
      /\ \/ Contents' = Contents
         \/ path \in DOMAIN Contents' /\ Contents' = Disk!With(path, Content(file))
  BY <1>3, <1>4, <1>5, StoreDisk
<1>8. path \in DOMAIN Contents' /\ Contents' = Disk!With(path, Content(file)) => Disk!MakeDir
  BY <1>5, <1>6 DEF Disk!MakeDir
<1> QED BY <1>7, <1>8 DEF Moves

LEMMA RmMoves == ASSUME CoreOK, Distinct(files), Rm PROVE Moves
<1>1. PICK arg \in Args : files' = Without(Resolve(arg))
  BY DEF Rm
<1> DEFINE gone == Resolve(arg)
<1>2. gone \in Seq(Parts)
  BY PathIs, ArgsAre
<1>3. files \in Seq(File) /\ files' = Without(gone)
  BY <1>1 DEF CoreOK
<1> HIDE DEF gone
<1>4. /\ files' \in Seq(File) /\ Distinct(files')
      /\ \A i \in DOMAIN files' : /\ ~Below(gone, files'[i].path)
                                  /\ \E j \in DOMAIN files : files'[i] = files[j]
      /\ \A j \in DOMAIN files : ~Below(gone, files[j].path)
            => \E i \in DOMAIN files' : files'[i] = files[j]
  BY <1>3, WithoutIs
<1>5. DOMAIN Contents = PathsOf(files)
  BY <1>3, DiskIs
<1> DEFINE left == PathsOf(files) \ Disk!Under(gone)
           m == [n \in left |-> Contents[n]]
<1>6. Disk!Under(gone) = {n \in PathsOf(files) : Below(gone, n)}
  BY <1>5 DEF Disk!Under, Below, Disk!IsPrefix, IsPrefix
<1>7. PathsOf(files') = left
  BY <1>4, <1>6 DEF PathsOf
<1>8. \A i \in DOMAIN files' : m[files'[i].path] = Content(files'[i])
  <2> SUFFICES ASSUME NEW i \in DOMAIN files' PROVE m[files'[i].path] = Content(files'[i])
    OBVIOUS
  <2>1. PICK j \in DOMAIN files : files'[i] = files[j]
    BY <1>4
  <2>2. files'[i].path \in left
    BY <1>7 DEF PathsOf
  <2> HIDE DEF left
  <2>3. m[files'[i].path] = Contents[files[j].path]
    BY <2>1, <2>2
  <2> QED BY <1>3, <2>1, <2>3, DiskIs
<1> HIDE DEF left
<1>9. Contents' = m
  <2>1. m = [n \in PathsOf(files') |-> m[n]]
    BY <1>7
  <2> HIDE DEF m
  <2>2. MapOf(files') = m
    BY <1>4, <1>8, <2>1, MapEq
  <2> QED BY <2>2, ContentsAre
<1>10. CASE Disk!Under(gone) = {}
  <2>1. left = PathsOf(files)
    BY <1>10 DEF left
  <2>2. Contents = [n \in PathsOf(files) |-> Contents[n]]
    BY <1>3, MapIs, ContentsAre
  <2>3. Contents' = Contents
    BY <1>9, <2>1, <2>2
  <2> QED BY <1>4, <2>3 DEF Moves
<1>11. CASE Disk!Under(gone) # {}
  <2>1. PICK n \in PathsOf(files) : Below(gone, n)
    BY <1>6, <1>11
  <2>2. gone \in Prefixes(n)
    <3>1. n \in Seq(Parts)
      <4>1. PICK i \in DOMAIN files : n = files[i].path
        BY <2>1 DEF PathsOf
      <4>2. files[i] \in File
        BY <1>3, WasFile DEF Was
      <4> QED BY <4>1, <4>2 DEF File
    <3>2. IsPrefix(gone, n)
      BY <1>2, <2>1, <3>1, LenProperties DEF Below, IsPrefix
    <3>3. Len(gone) \in 0 .. Len(n) /\ SubSeq(gone, 1, Len(gone)) = SubSeq(n, 1, Len(gone))
      BY <1>2, <3>1, <3>2, LenProperties DEF IsPrefix
    <3>4. SubSeq(gone, 1, Len(gone)) = gone
      BY <1>2
    <3> QED BY <3>3, <3>4 DEF Prefixes
  <2>3. gone \in UNION {Prefixes(k) : k \in DOMAIN Contents}
    BY <1>5, <2>1, <2>2
  <2>4. Contents' = Restrict(Contents, DOMAIN Contents \ Disk!Under(gone))
    BY <1>5, <1>9 DEF left, Restrict
  <2>5. Disk!Delete
    BY <2>3, <2>4 DEF Disk!Delete, Disk!Prefixes, Disk!Restrict, Prefixes, Restrict
  <2> QED BY <1>4, <2>5 DEF Moves
<1> QED BY <1>10, <1>11

LEMMA MvMoves == ASSUME CoreOK, Distinct(files), Mv, ~ghost'.clobbered PROVE Moves
<1>1. PICK from \in Args, to \in Args :
        /\ Has(Resolve(from))
        /\ files' = [files EXCEPT ![Find(Resolve(from))].path = Resolve(to)]
        /\ Lands(Resolve(to))
  BY DEF Mv
<1> DEFINE L == Len(files)
           old == Resolve(from)
           new == Resolve(to)
           k == Find(old)
           file == [files[k] EXCEPT !.path = new]
<1>2. new \in Seq(Parts)
  BY PathIs, ArgsAre
<1>3. files \in Seq(File) /\ L \in Nat /\ DOMAIN files = 1 .. L
  BY LenProperties DEF CoreOK
<1>4. ~Has(new)
  <2>1. ghost'.clobbered = (ghost.clobbered \/ Has(new))
    BY <1>1, <1>2, LandsIs DEF CoreOK
  <2> QED BY <2>1
<1>5. k \in 1 .. L /\ files[k] \in File /\ files[k].path = old
  BY <1>1, <1>3, FindIs, ElementOfSeq
<1>6. files' = [files EXCEPT ![k] = file]
  BY <1>1
<1> HIDE DEF old, new, k, L
<1>7. /\ file \in File /\ file.path = new
      /\ file.url = files[k].url /\ file.exec = files[k].exec /\ file.dir = files[k].dir
  BY <1>2, <1>5 DEF File
<1> HIDE DEF file
<1>8. Content(file) = Content(files[k])
  BY <1>5, <1>7, EntryIs
<1>9. /\ files' \in Seq(File) /\ DOMAIN files' = 1 .. L
      /\ \A j \in 1 .. L : files'[j] = IF j = k THEN file ELSE files[j]
  BY <1>3, <1>5, <1>6, <1>7, ExceptSeq, LenProperties DEF L
<1>10. \A j \in 1 .. L : files[j].path # new
  BY <1>3, <1>4 DEF Has
<1>11. \A i, j \in 1 .. L : files[i].path = files[j].path => i = j
  BY <1>3 DEF Distinct
<1>12. \A j \in 1 .. L : j # k => files[j].path # old
  BY <1>5, <1>11
<1>13. Distinct(files')
  <2>1. \A i, j \in 1 .. L : files'[i].path = files'[j].path => i = j
    BY <1>7, <1>9, <1>10, <1>11
  <2> QED BY <1>9, <2>1 DEF Distinct
<1> DEFINE names == (PathsOf(files) \ {old}) \cup {new}
           m == [n \in names |-> Contents[IF n = new THEN old ELSE n]]
<1>14. PathsOf(files) = {files[j].path : j \in 1 .. L} /\ PathsOf(files') = {files'[j].path : j \in 1 .. L}
  BY <1>3, <1>9 DEF PathsOf
<1>15. PathsOf(files') = names
  <2>1. ASSUME NEW n \in PathsOf(files') PROVE n \in names
    <3>1. PICK j \in 1 .. L : n = files'[j].path
      BY <1>14
    <3>2. CASE j = k
      BY <1>7, <1>9, <3>1, <3>2
    <3>3. CASE j # k
      BY <1>9, <1>12, <1>14, <3>1, <3>3
    <3> QED BY <3>2, <3>3
  <2>2. ASSUME NEW n \in names PROVE n \in PathsOf(files')
    <3>1. CASE n = new
      BY <1>5, <1>7, <1>9, <1>14, <3>1
    <3>2. CASE n # new
      <4>1. PICK j \in 1 .. L : n = files[j].path /\ n # old
        BY <1>14, <3>2
      <4>2. files'[j] = files[j]
        BY <1>5, <1>9, <4>1
      <4> QED BY <1>14, <4>1, <4>2
    <3> QED BY <3>1, <3>2
  <2> QED BY <2>1, <2>2
<1>16. \A j \in DOMAIN files' : m[files'[j].path] = Content(files'[j])
  <2> SUFFICES ASSUME NEW j \in 1 .. L PROVE m[files'[j].path] = Content(files'[j])
    BY <1>9
  <2>1. \A i \in 1 .. L : Contents[files[i].path] = Content(files[i])
    BY <1>3, DiskIs
  <2>2. files'[j].path \in names
    BY <1>14, <1>15
  <2> HIDE DEF names
  <2>3. CASE j = k
    <3>1. files'[j] = file /\ files'[j].path = new
      BY <1>7, <1>9, <2>3
    <3>2. m[files'[j].path] = Contents[old]
      BY <2>2, <3>1
    <3> QED BY <1>5, <1>8, <2>1, <3>1, <3>2
  <2>4. CASE j # k
    <3>1. files'[j] = files[j] /\ files'[j].path # new
      BY <1>9, <1>10, <2>4
    <3>2. m[files'[j].path] = Contents[files[j].path]
      BY <2>2, <3>1
    <3> QED BY <2>1, <3>1, <3>2
  <2> QED BY <2>3, <2>4
<1>17. Contents' = m
  <2>1. m = [n \in PathsOf(files') |-> m[n]]
    BY <1>15
  <2> HIDE DEF m
  <2>2. files' \in Seq(File)
    BY <1>9
  <2>3. \A j \in DOMAIN files' : m[files'[j].path] = Content(files'[j])
    BY <1>16
  <2>4. MapOf(files') = m
    BY <1>13, <2>1, <2>2, <2>3, MapEq
  <2> QED BY <2>4, ContentsAre
<1>18. Disk!Rename
  <2>1. DOMAIN Contents = PathsOf(files)
    BY <1>3, DiskIs
  <2>2. old \in DOMAIN Contents
    BY <1>5, <1>14, <2>1
  <2>3. new \in DOMAIN Contents' /\ new \notin DOMAIN Contents
    BY <1>10, <1>14, <1>17, <2>1
  <2>4. Contents' = [n \in (DOMAIN Contents \ {old}) \cup {new} |-> Contents[IF n = new THEN old ELSE n]]
    BY <1>17, <2>1
  <2> QED BY <2>2, <2>3, <2>4 DEF Disk!Rename
<1> QED BY <1>13, <1>18 DEF Moves

LEMMA CpMoves == ASSUME CoreOK, Distinct(files), Cp, ~ghost'.clobbered PROVE Moves
<1>1. PICK from \in Args, to \in Args :
        /\ Has(Resolve(from))
        /\ files' = IF Len(files) < MaxFiles
                       THEN Append(files, [files[Find(Resolve(from))] EXCEPT !.path = Resolve(to)])
                       ELSE files
        /\ Lands(Resolve(to))
  BY DEF Cp
<1> DEFINE L == Len(files)
           old == Resolve(from)
           new == Resolve(to)
           k == Find(old)
           file == [files[k] EXCEPT !.path = new]
<1>2. new \in Seq(Parts)
  BY PathIs, ArgsAre
<1>3. files \in Seq(File) /\ L \in Nat /\ DOMAIN files = 1 .. L
  BY LenProperties DEF CoreOK
<1>4. ~Has(new)
  <2>1. ghost'.clobbered = (ghost.clobbered \/ Has(new))
    BY <1>1, <1>2, LandsIs DEF CoreOK
  <2> QED BY <2>1
<1>5. k \in 1 .. L /\ files[k] \in File /\ files[k].path = old
  BY <1>1, <1>3, FindIs, ElementOfSeq
<1>6. files' = IF L < MaxFiles THEN Append(files, file) ELSE files
  BY <1>1
<1> HIDE DEF old, new, k, L
<1>7. /\ file \in File /\ file.path = new
      /\ file.url = files[k].url /\ file.exec = files[k].exec /\ file.dir = files[k].dir
  BY <1>2, <1>5 DEF File
<1> HIDE DEF file
<1>8. CASE ~(L < MaxFiles)
  BY <1>6, <1>8, IdleMoves
<1>9. CASE L < MaxFiles
  <2>1. Content(file) = Content(files[k])
    BY <1>5, <1>7, EntryIs
  <2>2. /\ files' \in Seq(File) /\ DOMAIN files' = 1 .. L + 1
        /\ \A j \in 1 .. L : files'[j] = files[j]
        /\ files'[L + 1] = file
    BY <1>3, <1>6, <1>7, <1>9, AppendProperties, LenProperties DEF L
  <2>3. \A j : j \in 1 .. L + 1 <=> j \in 1 .. L \/ j = L + 1
    BY <1>3
  <2>4. \A j \in 1 .. L : files[j].path # new
    BY <1>3, <1>4 DEF Has
  <2>5. Distinct(files')
    <3>1. \A i, j \in 1 .. L : files[i].path = files[j].path => i = j
      BY <1>3 DEF Distinct
    <3> QED BY <1>7, <2>2, <2>3, <2>4, <3>1 DEF Distinct
  <2>6. PathsOf(files') = PathsOf(files) \cup {new}
    BY <1>3, <1>7, <2>2, <2>3 DEF PathsOf
  <2>7. /\ DOMAIN Contents = PathsOf(files)
        /\ \A i \in 1 .. L : files[i].path \in PathsOf(files)
                             /\ Contents[files[i].path] = Content(files[i])
    BY <1>3, DiskIs
  <2> DEFINE m == Disk!With(new, Contents[old])
  <2>8. m = [n \in PathsOf(files) \cup {new} |-> IF n = new THEN Contents[old] ELSE Contents[n]]
    BY <2>7 DEF Disk!With
  <2> HIDE DEF m
  <2>9. /\ m = [n \in PathsOf(files) \cup {new} |-> m[n]]
        /\ m[new] = Contents[old]
        /\ \A j \in 1 .. L : m[files[j].path] = Content(files[j])
    <3>1. m = [n \in PathsOf(files) \cup {new} |-> m[n]] /\ m[new] = Contents[old]
      BY <2>8
    <3>2. ASSUME NEW j \in 1 .. L PROVE m[files[j].path] = Content(files[j])
      <4>1. m[files[j].path] = Contents[files[j].path]
        BY <2>4, <2>7, <2>8
      <4> QED BY <2>7, <4>1
    <3> QED BY <3>1, <3>2
  <2>10. \A j \in DOMAIN files' : m[files'[j].path] = Content(files'[j])
    BY <1>5, <1>7, <2>1, <2>2, <2>3, <2>7, <2>9
  <2>11. Contents' = m
    BY <2>2, <2>5, <2>6, <2>9, <2>10, MapEq, ContentsAre
  <2>12. old \in DOMAIN Contents /\ new \in DOMAIN Contents' /\ new \notin DOMAIN Contents
    <3>1. old \in DOMAIN Contents
      BY <1>5, <2>7
    <3>2. new \in DOMAIN Contents'
      BY <2>9, <2>11
    <3>3. new \notin PathsOf(files)
      BY <1>3, <2>4 DEF PathsOf
    <3> QED BY <2>7, <3>1, <3>2, <3>3
  <2>13. Disk!Copy
    BY <2>11, <2>12 DEF Disk!Copy, m
  <2> QED BY <2>5, <2>13 DEF Moves
<1> QED BY <1>8, <1>9

(* The files are a map until a copy or a rename lands on a taken name.     *)
DiskInv == ghost.clobbered \/ Distinct(files)

LEMMA RunOneMoves ==
    ASSUME CoreOK, Distinct(files), RunOne, ~ghost'.clobbered PROVE Moves
<1>1. CASE Wget \/ Tftp \/ Ftpget \/ \E arg \in Args : Fetched(Landing(Resolve(arg)))
  <2>1. PICK arg \in Args : Fetched(Landing(Resolve(arg)))
    BY <1>1 DEF Wget, Tftp, Ftpget
  <2> QED BY <2>1, PathIs, ArgsAre, FetchedMoves
<1>2. CASE Curl /\ UNCHANGED files
  BY <1>2, IdleMoves
<1>3. CASE Chmod
  BY <1>3, ChmodMoves
<1>4. CASE Dd
  <2>1. PICK arg \in Args : Store(Landing(Resolve(arg)), At(Landing(Resolve(arg))))
    BY <1>4 DEF Dd
  <2> DEFINE path == Landing(Resolve(arg))
  <2>2. path \in Seq(Parts) /\ Store(path, At(path))
    BY <2>1, PathIs, ArgsAre
  <2> HIDE DEF path
  <2>3. At(path) \in File /\ At(path).path = path
    BY <2>2, AtIs DEF CoreOK
  <2> QED BY <2>2, <2>3, TouchMoves
<1>5. CASE Touch
  <2>1. PICK arg \in Args : Store(Resolve(arg), At(Resolve(arg)))
    BY <1>5 DEF Touch
  <2> DEFINE path == Resolve(arg)
  <2>2. path \in Seq(Parts) /\ Store(path, At(path))
    BY <2>1, PathIs, ArgsAre
  <2> HIDE DEF path
  <2>3. At(path) \in File /\ At(path).path = path
    BY <2>2, AtIs DEF CoreOK
  <2> QED BY <2>2, <2>3, TouchMoves
<1>6. CASE Mkdir \/ Rm \/ Mv \/ Cp
  BY <1>6, MkdirMoves, RmMoves, MvMoves, CpMoves
<1>7. CASE Cd \/ Execute \/ Exit \/ Echo \/ Ls \/ Cat \/ Grep \/ LogOnly \/ Interpret \/ Answer
  <2>1. UNCHANGED files
    BY <1>7 DEF Cd, Execute, Exit, Echo, Ls, Cat, Grep, LogOnly, Interpret, Answer, core
  <2> QED BY <2>1, IdleMoves
<1> QED BY <1>1, <1>2, <1>3, <1>4, <1>5, <1>6, <1>7 DEF RunOne, Curl

LEMMA RedirectMoves == ASSUME TypeInv, Distinct(files), Redirect PROVE Moves
<1>0. CoreOK /\ frames \in Seq(Chain) /\ frames # <<>>
  BY DEF TypeInv, ChainsOK, Redirect
<1>1. Top \in Chain
  BY <1>0, TopIs
<1> DEFINE path == Resolve(Top.to[1])
<1>2. CASE Top.to # <<>> /\ InWritable(path)
  <2>1. Top.to[1] \in Argument
    <3>1. Top.to \in [1 .. 1 -> Argument]
      BY <1>1, <1>2, ShellAssumption DEF Chain
    <3> QED BY <3>1
  <2>2. path \in Seq(Parts)
    BY <1>0, <2>1, PathIs
  <2>3. Store(path, At(path))
    BY <1>2 DEF Redirect
  <2> HIDE DEF path
  <2>4. At(path) \in File /\ At(path).path = path
    BY <1>0, <2>2, AtIs DEF CoreOK
  <2> QED BY <1>0, <2>2, <2>3, <2>4, TouchMoves
<1>3. CASE ~(Top.to # <<>> /\ InWritable(path))
  <2>1. UNCHANGED files
    BY <1>3 DEF Redirect
  <2> QED BY <2>1, IdleMoves
<1> QED BY <1>2, <1>3

LEMMA NextMoves ==
    ASSUME TypeInv, Distinct(files), [Next]_vars, ~ghost'.clobbered PROVE Moves
<1>1. CASE Segment
  BY <1>1, RunOneMoves DEF Segment, TypeInv
<1>2. CASE Redirect
  BY <1>2, RedirectMoves
<1>3. CASE Line \/ LongLine \/ Drop \/ Skip \/ Script \/ Return \/ UNCHANGED vars
  <2>1. UNCHANGED files
    BY <1>3 DEF Line, LongLine, Drop, Skip, Script, Return, vars, core
  <2> QED BY <2>1, IdleMoves
<1> QED BY <1>1, <1>2, <1>3 DEF Next

(* Once a name was taken twice, that stays known.                          *)
LEMMA ClobberStays ==
    ASSUME TypeInv, [Next]_vars, ghost.clobbered PROVE ghost'.clobbered
<1>0. ghost \in Ghost
  BY DEF TypeInv, CoreOK
<1>1. ASSUME NEW path, Names(path) PROVE ghost'.clobbered
  BY <1>0, <1>1 DEF Names, Ghost
<1>2a. ASSUME NEW path, NEW plain \in BOOLEAN,
              ghost' = [ghost EXCEPT !.named = @ \cup {path}, !.exotic = @ \/ ~plain]
       PROVE  ghost'.clobbered
  BY <1>0, <1>2a DEF Ghost
<1>2. ASSUME NEW path, Lands(path) PROVE ghost'.clobbered
  <2>1. ghost'.clobbered = (ghost.clobbered \/ Has(path))
    BY <1>0, <1>2 DEF Lands, Ghost
  <2> QED BY <2>1
<1>3. CASE Segment
  <2>1. RunOne
    BY <1>3 DEF Segment
  <2>2. CASE Wget \/ Curl \/ Tftp \/ Ftpget \/ Dd \/ Touch
    <3>1. CASE \E path : Fetched(path)
      <4>1. PICK path : Fetched(path)
        BY <3>1
      <4>2. PICK plain \in BOOLEAN :
              ghost' = [ghost EXCEPT !.named = @ \cup {path}, !.exotic = @ \/ ~plain]
        BY <4>1 DEF Fetched
      <4> QED BY <1>2a, <4>2
    <3>2. CASE \E path : Names(path)
      BY <1>1, <3>2
    <3>3. (\E path : Fetched(path)) \/ (\E path : Names(path)) \/ UNCHANGED ghost
      <4>1. CASE Wget \/ Tftp \/ Ftpget
        BY <4>1 DEF Wget, Tftp, Ftpget
      <4>2. CASE Curl
        BY <4>2 DEF Curl
      <4>3. CASE Dd \/ Touch
        BY <4>3 DEF Dd, Touch
      <4> QED BY <2>2, <4>1, <4>2, <4>3
    <3> QED BY <3>1, <3>2, <3>3
  <2>3. CASE Mv \/ Cp
    <3>1. \E path : Lands(path)
      BY <2>3 DEF Mv, Cp
    <3> QED BY <1>2, <3>1
  <2>4. CASE Chmod
    <3>1. PICK arg \in Args, mode \in {"777", "odd", "644"} :
            ghost' = [ghost EXCEPT !.named = @ \cup {Resolve(arg)}, !.exotic = @ \/ mode = "odd"]
      BY <2>4 DEF Chmod
    <3> QED BY <1>0, <3>1 DEF Ghost
  <2>5. CASE Execute
    <3>1. PICK path : \/ ghost' = ghost
                      \/ ghost' = [ghost EXCEPT !.payload = @ \cup {files[Find(path)].url}]
      BY <2>5 DEF Execute
    <3> QED BY <1>0, <3>1 DEF Ghost
  <2>6. CASE Mkdir \/ Rm \/ Cd \/ Exit \/ Echo \/ Ls \/ Cat \/ Grep \/ LogOnly \/ Interpret \/ Answer
    BY <2>6 DEF Mkdir, Rm, Cd, Exit, Echo, Ls, Cat, Grep, LogOnly, Interpret, Answer
  <2> QED BY <2>1, <2>2, <2>3, <2>4, <2>5, <2>6 DEF RunOne
<1>4. CASE Redirect
  <2>1. (\E path : Names(path)) \/ UNCHANGED ghost
    BY <1>4 DEF Redirect
  <2> QED BY <1>1, <2>1
<1>5. CASE Line \/ LongLine \/ Drop \/ Skip \/ Script \/ Return \/ UNCHANGED vars
  BY <1>5 DEF Line, LongLine, Drop, Skip, Script, Return, vars
<1> QED BY <1>3, <1>4, <1>5 DEF Next

(* Every step of the shell is a step of the abstract disk, or none.        *)
LEMMA DiskStep ==
    ASSUME TypeInv, DiskInv, [Next]_vars
    PROVE  DiskInv' /\ [Disk!Next]_Disk!diskvars
<1>1. ghost.clobbered \in BOOLEAN /\ ghost'.clobbered \in BOOLEAN
  <2>1. ghost \in Ghost /\ ghost' \in Ghost
    BY TypesStep DEF TypeInv, CoreOK
  <2> QED BY <2>1 DEF Ghost
<1>2. CASE ghost'.clobbered
  <2>1. ghost'.clobbered = TRUE
    BY <1>1, <1>2
  <2> QED BY <1>2, <2>1 DEF DiskInv, Disk!Next, Disk!Collide
<1>3. CASE ~ghost'.clobbered
  <2>1. ~ghost.clobbered
    BY <1>3, ClobberStays
  <2>2. Distinct(files)
    BY <2>1 DEF DiskInv
  <2>3. Moves
    BY <1>3, <2>2, NextMoves
  <2>4. ghost'.clobbered = ghost.clobbered
    BY <1>1, <1>3, <2>1
  <2> QED BY <2>3, <2>4 DEF Moves, DiskInv, Disk!Next, Disk!diskvars
<1> QED BY <1>2, <1>3

(* The files of a session implement a map from names: each command touches *)
(* one name, removes a subtree, renames or copies, until a copy or rename  *)
(* lands on a taken name.                                                  *)
THEOREM FilesAreAMap == Spec => DiskIsAMap
<1>1. Init => DiskInv /\ Disk!Init
  <2> SUFFICES ASSUME Init PROVE DiskInv /\ Disk!Init
    OBVIOUS
  <2>1. files = <<>> /\ ghost.clobbered = FALSE
    BY DEF Init
  <2>2. DOMAIN <<>> = {}
    OBVIOUS
  <2>3. DiskInv
    BY <2>1, <2>2 DEF DiskInv, Distinct
  <2>4. {files[i].path : i \in DOMAIN files} = {}
    BY <2>1, <2>2
  <2>5. Contents = [n \in {} |-> CHOOSE e \in Disk!Entry : TRUE]
    BY <2>4 DEF Contents
  <2> QED BY <2>1, <2>3, <2>5 DEF Disk!Init
<1>2. TypeInv /\ DiskInv /\ [Next]_vars => DiskInv' /\ [Disk!Next]_Disk!diskvars
  BY DiskStep
<1> QED BY <1>1, <1>2, TypesHold, PTL DEF Spec, DiskIsAMap, Disk!Spec
=============================================================================
