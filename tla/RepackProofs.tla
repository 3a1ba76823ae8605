------------------------------ MODULE RepackProofs -----------------------------
(***************************************************************************)
(* Theorems about the repacked checkpoint, for every set of checkpoints    *)
(* that fits CheckpointsAssumption, every look-ahead and number of runs.   *)
(***************************************************************************)
EXTENDS Repack, SequenceTheorems, FiniteSetTheorems, WellFoundedInduction, TLAPS

--------------------------------------------------------------------------------
(***************************************************************************)
(* Induction and recursion on the naturals, stated of sets and functions.  *)
(***************************************************************************)

\* Every set of naturals that is not empty has a least element: of the intervals up to its
\* elements one has no other inside it.
LEMMA LeastNatural ==
  ASSUME NEW T \in SUBSET Nat, T # {}
  PROVE  \E n \in T : \A m \in T : n <= m
<1> DEFINE I == {1 .. n : n \in T}
<1>1. I \subseteq FiniteSubsetsOf(Nat) /\ I # {}
  <2>1. \A n \in T : IsFiniteSet(1 .. n) /\ 1 .. n \subseteq Nat
    BY FS_Interval
  <2> QED
    BY <2>1 DEF FiniteSubsetsOf
<1>2. PICK x \in I : \A y \in I : <<y, x>> \notin StrictSubsetOrdering(Nat)
  <2> HIDE DEF I
  <2> QED
    BY <1>1, FS_StrictSubsetOrderingWellFounded, WFMin, Zenon
<1>3. PICK n \in T : x = 1 .. n
  OBVIOUS
<1>4. ASSUME NEW m \in T, ~(n <= m)
      PROVE  FALSE
  <2>1. 1 .. m \in I /\ 1 .. m \in SUBSET Nat /\ x \in SUBSET Nat
    BY <1>3
  <2>2. n \in 1 .. n /\ n \notin 1 .. m /\ 1 .. m \subseteq 1 .. n
    BY <1>4
  <2>3. <<1 .. m, x>> \in StrictSubsetOrdering(Nat)
    BY <1>3, <2>1, <2>2 DEF StrictSubsetOrdering
  <2> QED
    BY <1>2, <2>1, <2>3
<1> QED
  BY <1>4

LEMMA Induction ==
  ASSUME NEW T, 0 \in T, \A n \in Nat : n \in T => n + 1 \in T
  PROVE  Nat \subseteq T
<1>1. SUFFICES ASSUME Nat \ T # {} PROVE FALSE
  OBVIOUS
<1>2. PICK n \in Nat \ T : \A m \in Nat \ T : n <= m
  BY <1>1, LeastNatural
<1>3. n - 1 \in Nat /\ n - 1 \notin Nat \ T
  BY <1>2
<1> QED
  BY <1>2, <1>3

\* f is defined by recursion: on the naturals, or for a loop of L turns.
Recurs(f, S, x, step) == /\ f \in [Nat -> S] /\ f[0] = x
                         /\ \A n \in Nat : f[n + 1] = step[n][f[n]]
Loops(f, L, S, x, step) ==
  /\ f \in [0 .. L -> S]
  /\ f = [n \in 0 .. L |-> IF n = 0 THEN x ELSE step[n - 1][f[n - 1]]]

LEMMA Recursion ==
  ASSUME NEW S, NEW x \in S, NEW step \in [Nat -> [S -> S]]
  PROVE  \E f : Recurs(f, S, x, step)
<1> DEFINE Starts(n, g) == /\ g \in [0 .. n -> S] /\ g[0] = x
                           /\ \A i \in 0 .. n - 1 : g[i + 1] = step[i][g[i]]
           T == {n \in Nat : \E g : Starts(n, g)}
           Begun(n) == CHOOSE g : Starts(n, g)
           f == [n \in Nat |-> Begun(n)[n]]
<1>1. Nat \subseteq T
  <2>1. 0 \in T
    <3>1. Starts(0, [i \in 0 .. 0 |-> x])
      OBVIOUS
    <3> QED
      BY <3>1
  <2>2. ASSUME NEW n \in Nat, n \in T
        PROVE  n + 1 \in T
    <3>1. PICK g : Starts(n, g)
      BY <2>2
    <3> DEFINE h == [i \in 0 .. n + 1 |-> IF i = n + 1 THEN step[n][g[n]] ELSE g[i]]
    <3>2. g[n] \in S /\ step[n][g[n]] \in S
      BY <3>1
    <3>3. h \in [0 .. n + 1 -> S] /\ h[0] = x
      BY <3>1, <3>2
    <3>4. ASSUME NEW i \in 0 .. n
          PROVE  h[i + 1] = step[i][h[i]]
      <4>1. CASE i = n
        BY <4>1
      <4>2. CASE i \in 0 .. n - 1
        BY <3>1, <4>2
      <4> QED
        BY <4>1, <4>2
    <3>5. Starts(n + 1, h)
      <4> HIDE DEF h
      <4> QED
        BY <3>3, <3>4
    <3>6. \E g1 : Starts(n + 1, g1)
      <4> HIDE DEF Starts, h
      <4> QED
        BY <3>5
    <3> QED
      BY <3>6
  <2> QED
    <3> HIDE DEF T
    <3> QED
      BY <2>1, <2>2, Induction
<1>2. \A n \in Nat : Starts(n, Begun(n))
  BY <1>1
<1>3. ASSUME NEW n \in Nat, NEW g, NEW h, Starts(n, g), Starts(n + 1, h)
      PROVE  \A i \in 0 .. n : g[i] = h[i]
  <2> DEFINE U == {i \in Nat : i \in 0 .. n => g[i] = h[i]}
  <2>1. 0 \in U
    BY <1>3
  <2>2. ASSUME NEW i \in Nat, i \in U
        PROVE  i + 1 \in U
    <3>1. SUFFICES ASSUME i + 1 \in 0 .. n PROVE g[i + 1] = h[i + 1]
      OBVIOUS
    <3>2. i \in 0 .. n - 1 /\ i \in 0 .. n /\ i \in 0 .. (n + 1) - 1
      BY <3>1
    <3>3. g[i] = h[i]
      BY <2>2, <3>2
    <3> QED
      BY <1>3, <3>2, <3>3
  <2>3. Nat \subseteq U
    <3> HIDE DEF U
    <3> QED
      BY <2>1, <2>2, Induction
  <2> QED
    BY <2>3
<1> HIDE DEF Begun
<1>4. ASSUME NEW n \in Nat
      PROVE  f[n] \in S /\ f[n + 1] = step[n][f[n]]
  <2>1. Starts(n, Begun(n)) /\ Starts(n + 1, Begun(n + 1)) /\ n \in 0 .. n /\ n \in 0 .. (n + 1) - 1
    BY <1>2
  <2>2. Begun(n)[n] = Begun(n + 1)[n]
    <3> HIDE DEF Starts
    <3> QED
      BY <1>3, <2>1
  <2>3. Begun(n + 1)[n + 1] = step[n][Begun(n + 1)[n]]
    BY <2>1
  <2> QED
    BY <2>1, <2>2, <2>3
<1>5. f[0] = x
  BY <1>2
<1>6. f \in [Nat -> S]
  BY <1>4
<1> HIDE DEF f
<1>7. Recurs(f, S, x, step)
  BY <1>4, <1>5, <1>6 DEF Recurs
<1> QED
  BY <1>7

LEMMA InductionUpTo ==
  ASSUME NEW L \in Nat, NEW T, 0 \in T, \A n \in 0 .. L - 1 : n \in T => n + 1 \in T
  PROVE  0 .. L \subseteq T
<1> DEFINE U == {n \in Nat : n \in 0 .. L => n \in T}
<1>1. 0 \in U
  OBVIOUS
<1>2. ASSUME NEW n \in Nat, n \in U
      PROVE  n + 1 \in U
  <2>1. CASE n + 1 \in 0 .. L
    <3>1. n \in 0 .. L - 1 /\ n \in 0 .. L
      BY <2>1
    <3> QED
      BY <1>2, <3>1
  <2> QED
    BY <2>1
<1>3. Nat \subseteq U
  <2> HIDE DEF U
  <2> QED
    BY <1>1, <1>2, Induction
<1> QED
  BY <1>3

\* A loop of L turns.
LEMMA LoopExists ==
  ASSUME NEW S, NEW L \in Nat, NEW x \in S, NEW step \in [Nat -> [S -> S]]
  PROVE  \E f : Loops(f, L, S, x, step)
<1>0. PICK f : Recurs(f, S, x, step)
  BY Recursion
<1>1. f \in [Nat -> S] /\ f[0] = x /\ \A n \in Nat : f[n + 1] = step[n][f[n]]
  BY <1>0 DEF Recurs
<1> DEFINE g == [n \in 0 .. L |-> f[n]]
<1>2. g \in [0 .. L -> S]
  BY <1>1
<1>3. ASSUME NEW n \in 0 .. L
      PROVE  g[n] = IF n = 0 THEN x ELSE step[n - 1][g[n - 1]]
  <2>1. CASE n = 0
    BY <1>1, <2>1
  <2>2. CASE n # 0
    <3>1. n - 1 \in Nat /\ n - 1 \in 0 .. L /\ (n - 1) + 1 = n
      BY <2>2
    <3>2. f[(n - 1) + 1] = step[n - 1][f[n - 1]]
      BY <1>1, <3>1
    <3> QED
      BY <2>2, <3>1, <3>2
  <2> QED
    BY <2>1, <2>2
<1>4. g = [n \in 0 .. L |-> IF n = 0 THEN x ELSE step[n - 1][g[n - 1]]]
  <2> HIDE DEF g
  <2> QED
    BY <1>2, <1>3
<1> HIDE DEF g
<1>5. Loops(g, L, S, x, step)
  BY <1>2, <1>4 DEF Loops
<1> QED
  BY <1>5

--------------------------------------------------------------------------------
(***************************************************************************)
(* Sequences put together, and sums.                                       *)
(***************************************************************************)

LEMMA ConcatIs ==
  ASSUME NEW S, NEW c \in Seq(S), NEW b \in Seq(S)
  PROVE  /\ c \o b \in Seq(S) /\ Len(c \o b) = Len(c) + Len(b) /\ Len(c) \in Nat /\ Len(b) \in Nat
         /\ \A i \in 1 .. Len(c) : (c \o b)[i] = c[i]
         /\ \A i \in 1 .. Len(b) : (c \o b)[Len(c) + i] = b[i]
<1>1. /\ c \o b \in Seq(S) /\ Len(c \o b) = Len(c) + Len(b) /\ Len(c) \in Nat /\ Len(b) \in Nat
      /\ \A i \in 1 .. Len(c) + Len(b) : (c \o b)[i] = IF i <= Len(c) THEN c[i] ELSE b[i - Len(c)]
  BY ConcatProperties, LenProperties
<1>2. ASSUME NEW i \in 1 .. Len(b)
      PROVE  (c \o b)[Len(c) + i] = b[i]
  <2>1. Len(c) + i \in 1 .. Len(c) + Len(b) /\ ~(Len(c) + i <= Len(c)) /\ (Len(c) + i) - Len(c) = i
    BY <1>1
  <2> QED
    BY <1>1, <2>1
<1>3. ASSUME NEW i \in 1 .. Len(c)
      PROVE  (c \o b)[i] = c[i]
  BY <1>1
<1> QED
  BY <1>1, <1>2, <1>3

\* What a sequence of sequences is put together, from place to place.
Flattens(g, S, ss) ==
  /\ g \in [1 .. Len(ss) -> Seq(S)]
  /\ g[1] = ss[1]
  /\ \A n \in 2 .. Len(ss) : g[n] = g[n - 1] \o ss[n]
  /\ FlattenSeq(ss) = g[Len(ss)]

LEMMA FlattenIs ==
  ASSUME NEW S, NEW ss \in Seq(Seq(S)), ss # <<>>
  PROVE  \E g : Flattens(g, S, ss)
<1> DEFINE L == Len(ss) - 1
           step == [n \in Nat |-> [r \in Seq(S) |-> IF n + 2 \in 2 .. Len(ss) THEN r \o ss[n + 2] ELSE r]]
<1>1. Len(ss) \in Nat /\ Len(ss) > 0 /\ L \in Nat /\ \A n \in 1 .. Len(ss) : ss[n] \in Seq(S)
  BY EmptySeq, ElementOfSeq, LenProperties
<1>2. step \in [Nat -> [Seq(S) -> Seq(S)]]
  <2>1. ASSUME NEW n \in Nat, NEW r \in Seq(S)
        PROVE  (IF n + 2 \in 2 .. Len(ss) THEN r \o ss[n + 2] ELSE r) \in Seq(S)
    <3>1. CASE n + 2 \in 2 .. Len(ss)
      <4>1. ss[n + 2] \in Seq(S)
        BY <1>1, <3>1
      <4>2. r \o ss[n + 2] \in Seq(S)
        BY <4>1, ConcatProperties
      <4> QED
        BY <4>2
    <3> QED
      BY <3>1
  <2> QED
    BY <2>1
<1>3. ss[1] \in Seq(S)
  BY <1>1
<1>4. PICK f : Loops(f, L, Seq(S), ss[1], step)
  <2> HIDE DEF step, L
  <2> QED
    BY <1>1, <1>2, <1>3, LoopExists
<1> DEFINE h == [i \in 1 .. Len(ss) |-> f[i - 1]]
<1>5. h = [i \in 1 .. Len(ss) |-> IF i = 1 THEN ss[i] ELSE h[i - 1] \o ss[i]]
  <2>1. ASSUME NEW i \in 1 .. Len(ss)
        PROVE  h[i] = IF i = 1 THEN ss[i] ELSE h[i - 1] \o ss[i]
    <3>1. CASE i = 1
      <4>1. 0 \in 0 .. L
        BY <1>1
      <4> HIDE DEF L, step
      <4> QED
        BY <1>4, <3>1, <4>1 DEF Loops
    <3>2. CASE i # 1
      <4>1. /\ i - 1 \in 0 .. L /\ i - 1 # 0 /\ (i - 1) - 1 \in 0 .. L /\ (i - 1) - 1 \in Nat
            /\ ((i - 1) - 1) + 2 = i /\ i \in 2 .. Len(ss) /\ i - 1 \in 1 .. Len(ss)
        BY <1>1, <3>2
      <4> DEFINE n == (i - 1) - 1
      <4> HIDE DEF n, L
      <4>2. f[i - 1] = step[n][f[n]] /\ f[n] \in Seq(S)
        <5> HIDE DEF step
        <5> QED
          BY <1>4, <4>1 DEF Loops, n
      <4>3. n + 2 = i /\ n \in Nat /\ n = (i - 1) - 1
        BY <4>1 DEF n
      <4>4. step[n][f[n]] = f[n] \o ss[i]
        BY <4>1, <4>2, <4>3
      <4>5. h[i] = f[i - 1] /\ h[i - 1] = f[n]
        BY <4>1, <4>3
      <4> HIDE DEF h
      <4> QED
        BY <3>2, <4>2, <4>4, <4>5
    <3> QED
      BY <3>1, <3>2
  <2>2. h = [i \in 1 .. Len(ss) |-> h[i]]
    OBVIOUS
  <2> HIDE DEF h
  <2> QED
    BY <2>1, <2>2
<1> HIDE DEF h
<1> DEFINE flatten[i \in 1 .. Len(ss)] == IF i = 1 THEN ss[i] ELSE flatten[i - 1] \o ss[i]
<1>6. flatten = [i \in 1 .. Len(ss) |-> IF i = 1 THEN ss[i] ELSE flatten[i - 1] \o ss[i]]
  BY <1>5, Zenon
<1>7. FlattenSeq(ss) = flatten[Len(ss)]
  <2>1. Len(ss) # 0
    BY <1>1
  <2> QED
    BY <2>1 DEF FlattenSeq
<1> HIDE DEF flatten
<1>8. /\ flatten[1] = ss[1]
      /\ \A n \in 2 .. Len(ss) : flatten[n] = flatten[n - 1] \o ss[n]
  <2>1. 1 \in 1 .. Len(ss) /\ \A n \in 2 .. Len(ss) : n \in 1 .. Len(ss) /\ n # 1
    BY <1>1
  <2> QED
    BY <1>6, <2>1
<1> DEFINE T == {n \in 0 .. L : flatten[n + 1] \in Seq(S)}
<1>9. 0 .. L \subseteq T
  <2>1. 0 \in T
    BY <1>1, <1>3, <1>8
  <2>2. ASSUME NEW n \in 0 .. L - 1, n \in T
        PROVE  n + 1 \in T
    <3>1. n + 2 \in 2 .. Len(ss) /\ n + 2 \in 1 .. Len(ss) /\ (n + 2) - 1 = n + 1
          /\ n + 1 \in 0 .. L /\ (n + 1) + 1 = n + 2
      BY <1>1
    <3>2. flatten[n + 2] = flatten[n + 1] \o ss[n + 2]
      BY <1>8, <3>1
    <3>3. flatten[n + 1] \in Seq(S) /\ ss[n + 2] \in Seq(S)
      BY <1>1, <2>2, <3>1
    <3>4. flatten[n + 1] \o ss[n + 2] \in Seq(S)
      BY <3>3, ConcatProperties
    <3> QED
      BY <3>1, <3>2, <3>4
  <2> HIDE DEF T, L
  <2> QED
    BY <1>1, <2>1, <2>2, InductionUpTo
<1>10. flatten \in [1 .. Len(ss) -> Seq(S)]
  <2>1. ASSUME NEW i \in 1 .. Len(ss)
        PROVE  flatten[i] \in Seq(S)
    <3>1. i - 1 \in 0 .. L /\ (i - 1) + 1 = i
      BY <1>1
    <3>2. i - 1 \in T
      <4> HIDE DEF T, L
      <4> QED
        BY <1>9, <3>1
    <3> QED
      BY <3>1, <3>2
  <2> QED
    BY <1>6, <2>1
<1>11. Flattens(flatten, S, ss)
  BY <1>7, <1>8, <1>10 DEF Flattens
<1> QED
  BY <1>11
\* The sums of the first elements of w.
Sums(b, N, w) == /\ b \in [0 .. N -> Nat] /\ b[0] = 0
                 /\ \A n \in 1 .. N : b[n] = b[n - 1] + w[n]

LEMMA SumsExist ==
  ASSUME NEW N \in Nat, NEW w \in [1 .. N -> Nat]
  PROVE  \E b : b = [n \in 0 .. N |-> IF n = 0 THEN 0 ELSE b[n - 1] + w[n]]
<1> DEFINE step == [n \in Nat |-> [x \in Nat |-> IF n + 1 \in 1 .. N THEN x + w[n + 1] ELSE x]]
<1>1. step \in [Nat -> [Nat -> Nat]]
  OBVIOUS
<1>2. PICK b : Loops(b, N, Nat, 0, step)
  <2> HIDE DEF step
  <2> QED
    BY <1>1, LoopExists
<1>3. b = [n \in 0 .. N |-> b[n]]
  BY <1>2 DEF Loops
<1>4. ASSUME NEW n \in 0 .. N
      PROVE  b[n] = IF n = 0 THEN 0 ELSE b[n - 1] + w[n]
  <2>1. CASE n = 0
    <3> HIDE DEF step
    <3> QED
      BY <1>2, <2>1 DEF Loops
  <2>2. CASE n # 0
    <3>1. n - 1 \in Nat /\ n - 1 \in 0 .. N /\ (n - 1) + 1 = n /\ n \in 1 .. N
      BY <2>2
    <3>2. b[n] = step[n - 1][b[n - 1]] /\ b[n - 1] \in Nat
      <4> HIDE DEF step
      <4> QED
        BY <1>2, <2>2, <3>1 DEF Loops
    <3> QED
      BY <2>2, <3>1, <3>2
  <2> QED
    BY <2>1, <2>2
<1> QED
  BY <1>3, <1>4

LEMMA SumsAre ==
  ASSUME NEW N \in Nat, NEW w \in [1 .. N -> Nat], NEW b,
         b = [n \in 0 .. N |-> IF n = 0 THEN 0 ELSE b[n - 1] + w[n]]
  PROVE  Sums(b, N, w)
<1>1. b[0] = 0 /\ \A n \in 1 .. N : b[n] = b[n - 1] + w[n]
  <2>1. 0 \in 0 .. N /\ \A n \in 1 .. N : n \in 0 .. N /\ n # 0
    OBVIOUS
  <2> QED
    BY <2>1
<1> DEFINE T == {n \in 0 .. N : b[n] \in Nat}
<1>2. 0 .. N \subseteq T
  <2>1. 0 \in T
    BY <1>1
  <2>2. ASSUME NEW n \in 0 .. N - 1, n \in T
        PROVE  n + 1 \in T
    <3>1. n + 1 \in 1 .. N /\ n + 1 \in 0 .. N /\ (n + 1) - 1 = n
      OBVIOUS
    <3> QED
      BY <1>1, <2>2, <3>1
  <2> HIDE DEF T
  <2> QED
    BY <2>1, <2>2, InductionUpTo
<1>3. b \in [0 .. N -> Nat]
  BY <1>2
<1> QED
  BY <1>1, <1>3 DEF Sums

\* Of positive numbers, a longer sum is as much larger.
LEMMA SumsGrow ==
  ASSUME NEW N \in Nat, NEW w \in [1 .. N -> Nat], NEW b, Sums(b, N, w)
  PROVE  /\ \A i, j \in 0 .. N : i <= j => b[i] <= b[j]
         /\ \A i \in 1 .. N, j \in 0 .. N : i <= j => b[i - 1] + w[i] <= b[j]
         /\ \A i \in 0 .. N, j \in 1 .. N : i < j => b[i] <= b[j - 1]
<1> DEFINE T == {j \in 0 .. N : \A i \in 0 .. j : b[i] <= b[j]}
<1>1. 0 .. N \subseteq T
  <2>1. 0 \in T
    BY DEF Sums
  <2>2. ASSUME NEW n \in 0 .. N - 1, n \in T
        PROVE  n + 1 \in T
    <3>1. n + 1 \in 1 .. N /\ n + 1 \in 0 .. N /\ (n + 1) - 1 = n
      OBVIOUS
    <3>2. b[n + 1] = b[n] + w[n + 1] /\ b[n] \in Nat /\ w[n + 1] \in Nat /\ b[n + 1] \in Nat
      BY <3>1 DEF Sums
    <3>3. ASSUME NEW i \in 0 .. n + 1
          PROVE  b[i] <= b[n + 1]
      <4>1. CASE i = n + 1
        BY <3>2, <4>1
      <4>2. CASE i # n + 1
        <5>1. i \in 0 .. n /\ i \in 0 .. N
          BY <4>2
        <5>2. b[i] <= b[n] /\ b[i] \in Nat
          BY <2>2, <5>1 DEF Sums
        <5> QED
          BY <3>2, <5>2
      <4> QED
        BY <4>1, <4>2
    <3> QED
      BY <3>1, <3>3
  <2> HIDE DEF T
  <2> QED
    BY <2>1, <2>2, InductionUpTo
<1>2. \A i, j \in 0 .. N : i <= j => b[i] <= b[j]
  <2>1. SUFFICES ASSUME NEW i \in 0 .. N, NEW j \in 0 .. N, i <= j PROVE b[i] <= b[j]
    OBVIOUS
  <2>2. i \in 0 .. j /\ j \in T
    BY <1>1, <2>1
  <2> QED
    BY <2>2
<1>3. \A i \in 1 .. N, j \in 0 .. N : i <= j => b[i - 1] + w[i] <= b[j]
  <2>1. SUFFICES ASSUME NEW i \in 1 .. N, NEW j \in 0 .. N, i <= j PROVE b[i - 1] + w[i] <= b[j]
    OBVIOUS
  <2>2. i \in 0 .. N /\ b[i] = b[i - 1] + w[i]
    BY DEF Sums
  <2> QED
    BY <1>2, <2>1, <2>2
<1>4. \A i \in 0 .. N, j \in 1 .. N : i < j => b[i] <= b[j - 1]
  <2>1. SUFFICES ASSUME NEW i \in 0 .. N, NEW j \in 1 .. N, i < j PROVE b[i] <= b[j - 1]
    OBVIOUS
  <2>2. j - 1 \in 0 .. N /\ i <= j - 1
    BY <2>1
  <2> QED
    BY <1>2, <2>2
<1> QED
  BY <1>2, <1>3, <1>4

\* The bytes of the first spans of a bundle are sums.
Lengths(spans) == [i \in 1 .. Len(spans) |-> spans[i].nbytes]

LEMMA BytesAreSums ==
  ASSUME NEW spans, Len(spans) \in Nat, Lengths(spans) \in [1 .. Len(spans) -> Nat]
  PROVE  Sums(BytesUpTo(spans), Len(spans), Lengths(spans))
<1> DEFINE N == Len(spans)
           w == Lengths(spans)
           bytes[n \in 0 .. N] == IF n = 0 THEN 0 ELSE bytes[n - 1] + spans[n].nbytes
<1>1. \E b : b = [n \in 0 .. N |-> IF n = 0 THEN 0 ELSE b[n - 1] + spans[n].nbytes]
  <2>1. PICK b : b = [n \in 0 .. N |-> IF n = 0 THEN 0 ELSE b[n - 1] + w[n]]
    <3> HIDE DEF w
    <3> QED
      BY SumsExist DEF w
  <2>2. \A n \in 0 .. N : (IF n = 0 THEN 0 ELSE b[n - 1] + w[n])
                            = (IF n = 0 THEN 0 ELSE b[n - 1] + spans[n].nbytes)
    BY DEF Lengths
  <2>3. b = [n \in 0 .. N |-> IF n = 0 THEN 0 ELSE b[n - 1] + spans[n].nbytes]
    <3> HIDE DEF w
    <3> QED
      BY <2>1, <2>2
  <2> QED
    BY <2>3
<1>2. bytes = [n \in 0 .. N |-> IF n = 0 THEN 0 ELSE bytes[n - 1] + spans[n].nbytes]
  BY <1>1, Zenon
<1>3. BytesUpTo(spans) = bytes
  BY DEF BytesUpTo
<1> HIDE DEF bytes
<1>4. \A n \in 0 .. N : (IF n = 0 THEN 0 ELSE bytes[n - 1] + w[n])
                          = (IF n = 0 THEN 0 ELSE bytes[n - 1] + spans[n].nbytes)
  BY DEF Lengths
<1>5. bytes = [n \in 0 .. N |-> IF n = 0 THEN 0 ELSE bytes[n - 1] + w[n]]
  <2> HIDE DEF w
  <2> QED
    BY <1>2, <1>4
<1> QED
  BY <1>3, <1>5, SumsAre
--------------------------------------------------------------------------------
(***************************************************************************)
(* Merged reads.                                                           *)
(***************************************************************************)

\* A finite set has an element that a strict order puts before no other.
LEMMA Extreme ==
  ASSUME NEW G, IsFiniteSet(G), G # {}, NEW R,
         \A a \in G : <<a, a>> \notin R,
         \A a, b, c \in G : <<a, b>> \in R /\ <<b, c>> \in R => <<a, c>> \in R
  PROVE  \E m \in G : \A a \in G : <<m, a>> \notin R
<1> DEFINE After(a) == {b \in G : <<a, b>> \in R}
           I == {After(a) : a \in G}
<1>1. I \subseteq FiniteSubsetsOf(G) /\ I # {}
  <2>1. \A a \in G : IsFiniteSet(After(a)) /\ After(a) \subseteq G
    BY FS_Subset
  <2> HIDE DEF After
  <2> QED
    BY <2>1 DEF FiniteSubsetsOf
<1>2. PICK x \in I : \A y \in I : <<y, x>> \notin StrictSubsetOrdering(G)
  <2> HIDE DEF I
  <2> QED
    BY <1>1, FS_StrictSubsetOrderingWellFounded, WFMin, Zenon
<1>3. PICK m \in G : x = After(m)
  OBVIOUS
<1>4. ASSUME NEW a \in G, <<m, a>> \in R
      PROVE  FALSE
  <2>1. After(a) \in I /\ After(a) \in SUBSET G /\ x \in SUBSET G
    <3>1. After(a) \in SUBSET G /\ After(m) \in SUBSET G
      OBVIOUS
    <3> HIDE DEF After
    <3> QED
      BY <1>3, <3>1
  <2>2. a \in After(m) /\ a \notin After(a) /\ After(a) \subseteq After(m)
    BY <1>4
  <2>3. <<After(a), x>> \in StrictSubsetOrdering(G)
    <3> HIDE DEF After
    <3> QED
      BY <1>3, <2>1, <2>2 DEF StrictSubsetOrdering
  <2> QED
    <3> HIDE DEF After, I
    <3> QED
      BY <1>2, <2>1, <2>3
<1> QED
  BY <1>4

LEMMA ImageIsFinite ==
  ASSUME NEW f, IsFiniteSet(DOMAIN f)
  PROVE  IsFiniteSet({f[x] : x \in DOMAIN f})
<1> DEFINE T == {f[x] : x \in DOMAIN f}
           g == [x \in DOMAIN f |-> f[x]]
<1>1. g \in Surjection(DOMAIN f, T)
  BY DEF Surjection
<1> HIDE DEF g, T
<1>2. IsFiniteSet(T)
  BY <1>1, FS_Surjection
<1> QED
  BY <1>2 DEF T

\* The spans of a bundle that a read accepts, in files of S.
Places(S) == [file : S, offset : Nat, nbytes : Nat \ {0}, rank : Int, role : Nat]
IsBundle(spans, S) ==
  /\ spans \in Seq(Places(S))
  /\ \A i, j \in DOMAIN spans : spans[i].role = spans[j].role => i = j

LEMMA SpansOfABundle ==
  ASSUME NEW S, NEW spans, IsBundle(spans, S)
  PROVE  /\ IsFiniteSet(ToSet(spans)) /\ ToSet(spans) \subseteq Places(S)
         /\ Len(spans) \in Nat /\ DOMAIN spans = 1 .. Len(spans)
         /\ \A i \in DOMAIN spans : spans[i] \in Places(S) /\ spans[i] \in ToSet(spans)
         /\ \A a, b \in ToSet(spans) : a.role = b.role => a = b
<1>1. Len(spans) \in Nat /\ DOMAIN spans = 1 .. Len(spans)
      /\ \A i \in 1 .. Len(spans) : spans[i] \in Places(S)
  BY ElementOfSeq, LenProperties DEF IsBundle
<1>2. ToSet(spans) = {spans[i] : i \in 1 .. Len(spans)}
  BY <1>1 DEF ToSet
<1>3. IsFiniteSet(1 .. Len(spans))
  BY <1>1, FS_Interval
<1>4. IsFiniteSet({spans[i] : i \in 1 .. Len(spans)})
  BY <1>1, <1>3, ImageIsFinite
<1> QED
  BY <1>1, <1>2, <1>4 DEF IsBundle

LEMMA BeforeIsAnOrder ==
  ASSUME NEW S
  PROVE  /\ \A a \in Places(S) : ~IsBefore(a, a)
         /\ \A a, b, c \in Places(S) : IsBefore(a, b) /\ IsBefore(b, c) => IsBefore(a, c)
         /\ \A a, b \in Places(S) : a.role # b.role => IsBefore(a, b) \/ IsBefore(b, a)
         /\ \A a, b \in Places(S) : ~IsBefore(b, a) => a.offset <= b.offset
BY DEF Places, IsBefore

\* A set of spans of a bundle has a first and a last one.
LEMMA Extremes ==
  ASSUME NEW S, NEW spans, IsBundle(spans, S), NEW G \in SUBSET ToSet(spans), G # {}
  PROVE  /\ \E m \in G : \A a \in G : ~IsBefore(m, a)
         /\ \E m \in G : \A a \in G : ~IsBefore(a, m)
<1>1. IsFiniteSet(G) /\ G \subseteq Places(S)
  BY SpansOfABundle, FS_Subset
<1> DEFINE up == {p \in G \X G : IsBefore(p[1], p[2])}
           down == {p \in G \X G : IsBefore(p[2], p[1])}
<1>2. \A a, b \in G : /\ <<a, b>> \in up <=> IsBefore(a, b)
                      /\ <<a, b>> \in down <=> IsBefore(b, a)
  OBVIOUS
<1>3. /\ \A a \in G : ~IsBefore(a, a)
      /\ \A a, b, c \in G : IsBefore(a, b) /\ IsBefore(b, c) => IsBefore(a, c)
  BY <1>1, BeforeIsAnOrder
<1> HIDE DEF up, down
<1>4. \E m \in G : \A a \in G : <<m, a>> \notin up
  <2>1. /\ \A a \in G : <<a, a>> \notin up
        /\ \A a, b, c \in G : <<a, b>> \in up /\ <<b, c>> \in up => <<a, c>> \in up
    BY <1>2, <1>3
  <2> QED
    BY <1>1, <2>1, Extreme
<1>5. \E m \in G : \A a \in G : <<m, a>> \notin down
  <2>1. /\ \A a \in G : <<a, a>> \notin down
        /\ \A a, b, c \in G : <<a, b>> \in down /\ <<b, c>> \in down => <<a, c>> \in down
    BY <1>2, <1>3
  <2> QED
    BY <1>1, <2>1, Extreme
<1> QED
  BY <1>2, <1>4, <1>5
\* A span is in the run of one head.
LEMMA RunOfASpan ==
  ASSUME NEW S, NEW spans, IsBundle(spans, S), NEW s \in ToSet(spans)
  PROVE  \E h \in Heads(spans) : /\ s \in RunFrom(spans, h)
                                 /\ \A g \in Heads(spans) : s \in RunFrom(spans, g) => g = h
<1> DEFINE F == InFile(spans, s.file)
           H == {h \in Heads(spans) : h.file = s.file /\ ~IsBefore(s, h)}
<1>1. F \in SUBSET ToSet(spans) /\ s \in F /\ H \in SUBSET ToSet(spans) /\ H \subseteq F
  BY DEF InFile, Heads
<1>2. ToSet(spans) \subseteq Places(S) /\ \A a, b \in ToSet(spans) : a.role = b.role => a = b
  BY SpansOfABundle
<1>3. /\ \A a \in ToSet(spans) : ~IsBefore(a, a)
      /\ \A a, b, c \in ToSet(spans) : IsBefore(a, b) /\ IsBefore(b, c) => IsBefore(a, c)
      /\ \A a, b \in ToSet(spans) : a # b => IsBefore(a, b) \/ IsBefore(b, a)
  BY <1>2, BeforeIsAnOrder
<1>4. PICK m \in F : \A a \in F : ~IsBefore(a, m)
  BY <1>1, Extremes
<1>5. m \in H
  <2>1. m \in ToSet(spans) /\ m.file = s.file /\ ~IsBefore(s, m)
    BY <1>1, <1>4 DEF InFile
  <2>2. ~Continues(spans, m)
    BY <1>4, <2>1 DEF Continues
  <2> QED
    BY <2>1, <2>2 DEF Heads
<1>6. PICK h \in H : \A g \in H : ~IsBefore(h, g)
  <2> HIDE DEF H
  <2> QED
    BY <1>1, <1>5, Extremes
<1>7. s \in RunFrom(spans, h)
  <2>1. ASSUME NEW g \in Heads(spans), g.file = h.file, IsBefore(h, g)
        PROVE  IsBefore(s, g)
    <3>1. g \notin H
      BY <1>6, <2>1
    <3> QED
      BY <2>1, <3>1
  <2>2. s \in InFile(spans, h.file) /\ ~IsBefore(s, h)
    BY DEF InFile
  <2> QED
    BY <2>1, <2>2 DEF RunFrom
<1>8. ASSUME NEW g \in Heads(spans), s \in RunFrom(spans, g)
      PROVE  g = h
  <2>1. /\ h \in Heads(spans) /\ h \in ToSet(spans) /\ g \in ToSet(spans)
    BY DEF Heads
  <2>2. /\ g.file = s.file /\ ~IsBefore(s, g) /\ h.file = s.file /\ ~IsBefore(s, h)
        /\ IsBefore(g, h) => IsBefore(s, h)
        /\ IsBefore(h, g) => IsBefore(s, g)
    <3> HIDE DEF H
    <3>1. h.file = s.file /\ ~IsBefore(s, h)
      BY DEF H
    <3>2. g.file = s.file /\ ~IsBefore(s, g)
      BY <1>8 DEF RunFrom, InFile
    <3> QED
      BY <1>7, <1>8, <2>1, <3>1, <3>2 DEF RunFrom
  <2> QED
    BY <1>3, <2>1, <2>2
<1> QED
  BY <1>7, <1>8

\* A run begins with its head, and no span of it ends after its last one.
LEMMA RunIs ==
  ASSUME NEW S, NEW spans, IsBundle(spans, S), NEW h \in Heads(spans)
  PROVE  LET run == RunFrom(spans, h)
         IN  /\ First(run) = h /\ Final(run) \in run /\ h \in run
             /\ \A s \in run : /\ s \in ToSet(spans) /\ s.file = h.file
                               /\ h.offset <= s.offset
                               /\ s.offset + s.nbytes <= Final(run).offset + Final(run).nbytes
<1> DEFINE run == RunFrom(spans, h)
           F == InFile(spans, h.file)
<1>1. h \in ToSet(spans) /\ run \in SUBSET ToSet(spans) /\ \A s \in run : s.file = h.file /\ s \in F
  BY DEF Heads, RunFrom, InFile
<1>2. ToSet(spans) \subseteq Places(S) /\ \A a, b \in ToSet(spans) : a.role = b.role => a = b
  BY SpansOfABundle
<1>3. /\ \A a \in ToSet(spans) : ~IsBefore(a, a)
      /\ \A a, b, c \in ToSet(spans) : IsBefore(a, b) /\ IsBefore(b, c) => IsBefore(a, c)
      /\ \A a, b \in ToSet(spans) : a # b => IsBefore(a, b) \/ IsBefore(b, a)
      /\ \A a, b \in ToSet(spans) : ~IsBefore(b, a) => a.offset <= b.offset
  BY <1>2, BeforeIsAnOrder
<1>4. h \in run /\ \A a \in run : ~IsBefore(a, h)
  BY <1>1, <1>3 DEF RunFrom, InFile
<1> HIDE DEF run
<1>5. First(run) = h
  <2>1. \E s \in run : \A a \in run : ~IsBefore(a, s)
    BY <1>4
  <2>2. First(run) \in run /\ \A a \in run : ~IsBefore(a, First(run))
    BY <2>1 DEF First
  <2> QED
    BY <1>1, <1>3, <1>4, <2>2
<1> DEFINE f == Final(run)
<1>6. f \in run /\ \A a \in run : ~IsBefore(f, a)
  <2>1. \E m \in run : \A a \in run : ~IsBefore(m, a)
    BY <1>1, <1>4, Extremes
  <2> QED
    BY <2>1 DEF Final
<1> HIDE DEF f
<1>7. ASSUME NEW s \in run
      PROVE  s.offset + s.nbytes <= f.offset + f.nbytes
  <2>1. /\ s \in F /\ f \in F /\ F \in SUBSET ToSet(spans) /\ f \in ToSet(spans) /\ s \in ToSet(spans)
        /\ f.file = h.file
    BY <1>1, <1>6 DEF InFile
  <2>2. CASE s = f
    <3>1. f.offset \in Nat /\ f.nbytes \in Nat
      BY <1>2, <2>1 DEF Places
    <3> QED
      BY <2>2, <3>1
  <2>3. CASE s # f
    <3> DEFINE G == {c \in F : IsBefore(s, c)}
    <3>1. f \in G /\ G \in SUBSET ToSet(spans)
      BY <1>3, <1>6, <2>1, <2>3
    <3> HIDE DEF F
    <3>2. PICK n \in G : \A a \in G : ~IsBefore(a, n)
      <4> HIDE DEF G
      <4> QED
        BY <3>1, Extremes
    <3>3. n \in ToSet(spans) /\ n \in F /\ IsBefore(s, n) /\ ~IsBefore(f, n) /\ n.file = h.file
      BY <2>1, <3>1, <3>2 DEF F, InFile
    <3>4. n \notin Heads(spans)
      <4>1. SUFFICES ASSUME n \in Heads(spans) PROVE FALSE
        OBVIOUS
      <4>2. IsBefore(h, n)
        <5>1. ~IsBefore(s, h)
          BY <1>4
        <5> QED
          BY <1>1, <1>3, <2>1, <3>3, <5>1
      <4>3. IsBefore(f, n)
        BY <1>6, <3>3, <4>1, <4>2 DEF run, RunFrom
      <4> QED
        BY <3>3, <4>3
    <3>5. PICK a \in F : /\ IsBefore(a, n) /\ a.offset + a.nbytes = n.offset
                         /\ ~\E b \in F : IsBefore(a, b) /\ IsBefore(b, n)
      <4>1. Continues(spans, n) /\ InFile(spans, n.file) = F
        BY <3>3, <3>4 DEF Heads, F
      <4> QED
        BY <4>1 DEF Continues
    <3>6. a = s
      <4>1. ~IsBefore(a, s)
        BY <2>1, <3>3, <3>5
      <4>2. ~IsBefore(s, a)
        BY <3>2, <3>5
      <4> QED
        BY <1>3, <2>1, <3>5, <4>1, <4>2
    <3>7. n.offset <= f.offset
      BY <1>3, <2>1, <3>3
    <3>8. f.offset \in Nat /\ f.nbytes \in Nat /\ n.offset \in Nat
      BY <1>2, <2>1, <3>3 DEF Places
    <3> QED
      BY <3>5, <3>6, <3>7, <3>8
  <2> QED
    BY <2>2, <2>3
<1>8. \A s \in run : h.offset <= s.offset
  BY <1>1, <1>3, <1>4
<1>9. \A s \in run : s \in ToSet(spans) /\ s.file = h.file
  BY <1>1
<1> QED
  BY <1>4, <1>5, <1>6, <1>7, <1>8, <1>9 DEF run, f
\* A pread of what is there.
LEMMA PreadIs ==
  ASSUME NEW B, NEW c \in Seq(B), NEW o \in Nat, NEW n \in Nat, o + n <= Len(c)
  PROVE  /\ Pread(c, o, n) \in Seq(B) /\ Len(Pread(c, o, n)) = n
         /\ \A p \in 1 .. n : Pread(c, o, n)[p] = c[o + p]
<1>1. Len(c) \in Nat
  BY LenProperties
<1>2. Min({o + n, Len(c)}) = o + n
  <2> DEFINE least == Min({o + n, Len(c)})
  <2>1. \E x \in {o + n, Len(c)} : \A y \in {o + n, Len(c)} : x <= y
    BY <1>1
  <2>2. least \in {o + n, Len(c)} /\ \A y \in {o + n, Len(c)} : least <= y
    BY <2>1 DEF Min
  <2> QED
    BY <1>1, <2>2
<1>3. Pread(c, o, n) = SubSeq(c, o + 1, o + n)
  BY <1>2 DEF Pread
<1>4. /\ SubSeq(c, o + 1, o + n) \in Seq(B)
      /\ Len(SubSeq(c, o + 1, o + n)) = n
      /\ \A p \in 1 .. n : SubSeq(c, o + 1, o + n)[p] = c[o + p]
  <2>1. o + 1 \in Int /\ o + n \in Int
    OBVIOUS
  <2>2. \A i \in o + 1 .. o + n : c[i] \in B
    <3>1. \A i \in 1 .. Len(c) : c[i] \in B
      BY ElementOfSeq
    <3> QED
      BY <1>1, <3>1
  <2> QED
    BY <2>1, <2>2, SubSeqProperties
<1> QED
  BY <1>3, <1>4

\* read_bundle gives every role what a pread of its own span gives.
THEOREM ReadIsDirect ==
  ASSUME NEW S, NEW spans, IsBundle(spans, S), NEW B, NEW content,
         \A s \in ToSet(spans) : /\ content[s.file] \in Seq(B)
                                 /\ s.offset + s.nbytes <= Len(content[s.file])
  PROVE  \A s \in ToSet(spans) :
           ReadBundle(spans, content)[s.role] = Pread(content[s.file], s.offset, s.nbytes)
<1> SUFFICES ASSUME NEW s \in ToSet(spans)
             PROVE  ReadBundle(spans, content)[s.role] = Pread(content[s.file], s.offset, s.nbytes)
  OBVIOUS
<1>1. ToSet(spans) \subseteq Places(S) /\ \A a, b \in ToSet(spans) : a.role = b.role => a = b
  BY SpansOfABundle
<1>2. PICK h \in Heads(spans) : /\ s \in RunFrom(spans, h)
                                /\ \A g \in Heads(spans) : s \in RunFrom(spans, g) => g = h
  BY RunOfASpan
<1> DEFINE run == RunFrom(spans, h)
           f == Final(run)
           span == CHOOSE a \in ToSet(spans) : a.role = s.role
           its == CHOOSE r \in Runs(spans) : span \in r
<1>3. span = s
  <2>1. span \in ToSet(spans) /\ span.role = s.role
    OBVIOUS
  <2> QED
    BY <1>1, <2>1
<1>4. its = run
  <2>1. run \in Runs(spans) /\ s \in run
    BY <1>2 DEF Runs
  <2> HIDE DEF span, run
  <2>2. its \in Runs(spans) /\ s \in its
    BY <1>3, <2>1
  <2>3. PICK g \in Heads(spans) : its = RunFrom(spans, g)
    BY <2>2 DEF Runs
  <2> QED
    BY <1>2, <2>2, <2>3 DEF run
<1>5. /\ First(run) = h /\ f \in ToSet(spans) /\ h \in ToSet(spans)
      /\ f.file = h.file /\ s.file = h.file /\ h.offset <= s.offset
      /\ s.offset + s.nbytes <= f.offset + f.nbytes
      /\ h.offset <= f.offset
  <2>1. s \in run /\ First(run) = h /\ f \in run /\ h \in run
        /\ \A a \in run : /\ a \in ToSet(spans) /\ a.file = h.file
                          /\ h.offset <= a.offset
                          /\ a.offset + a.nbytes <= f.offset + f.nbytes
    BY <1>2, RunIs
  <2> QED
    BY <2>1
<1>6. s.role \in {a.role : a \in ToSet(spans)}
  OBVIOUS
<1>7. ReadBundle(spans, content)[s.role]
        = Pread(RunBytes(its, content), span.offset - First(its).offset, span.nbytes)
  BY <1>6 DEF ReadBundle
<1> DEFINE c == content[h.file]
           total == f.offset + f.nbytes - h.offset
           begin == s.offset - h.offset
<1>8. RunBytes(run, content) = Pread(c, h.offset, total)
  BY <1>5 DEF RunBytes
<1>9. /\ h.offset \in Nat /\ total \in Nat /\ begin \in Nat /\ s.nbytes \in Nat /\ s.offset \in Nat
      /\ h.offset + total = f.offset + f.nbytes /\ h.offset + begin = s.offset
      /\ begin + s.nbytes <= total /\ c \in Seq(B) /\ h.offset + total <= Len(c)
      /\ s.offset + s.nbytes <= Len(c)
  <2>1. /\ h.offset \in Nat /\ f.offset \in Nat /\ f.nbytes \in Nat /\ s.offset \in Nat /\ s.nbytes \in Nat
    BY <1>1, <1>5 DEF Places
  <2>2. c \in Seq(B) /\ f.offset + f.nbytes <= Len(c) /\ s.offset + s.nbytes <= Len(c)
    BY <1>5
  <2>3. \A ho, fo, fn, so, sn \in Nat :
          ho <= so /\ so + sn <= fo + fn /\ ho <= fo =>
            /\ fo + fn - ho \in Nat /\ so - ho \in Nat
            /\ ho + (fo + fn - ho) = fo + fn /\ ho + (so - ho) = so
            /\ (so - ho) + sn <= fo + fn - ho
    OBVIOUS
  <2> HIDE DEF f, c, run
  <2>4. /\ total \in Nat /\ begin \in Nat
        /\ h.offset + total = f.offset + f.nbytes /\ h.offset + begin = s.offset
        /\ begin + s.nbytes <= total
    BY ONLY <1>5, <2>1, <2>3
  <2> QED
    BY <2>1, <2>2, <2>4
<1> DEFINE whole == Pread(c, h.offset, total)
<1> HIDE DEF f, run, span, its, c, total, begin
<1>10. /\ whole \in Seq(B) /\ Len(whole) = total
       /\ \A p \in 1 .. total : whole[p] = c[h.offset + p]
  <2>1. c \in Seq(B) /\ h.offset \in Nat /\ total \in Nat /\ h.offset + total <= Len(c)
    BY <1>9
  <2> QED
    BY ONLY <2>1, PreadIs
<1> HIDE DEF whole
<1> DEFINE part == Pread(whole, begin, s.nbytes)
           direct == Pread(c, s.offset, s.nbytes)
<1>11. /\ part \in Seq(B) /\ Len(part) = s.nbytes
       /\ \A p \in 1 .. s.nbytes : part[p] = whole[begin + p]
  <2>1. whole \in Seq(B) /\ begin \in Nat /\ s.nbytes \in Nat /\ begin + s.nbytes <= Len(whole)
    BY <1>9, <1>10
  <2> QED
    BY ONLY <2>1, PreadIs
<1>12. /\ direct \in Seq(B) /\ Len(direct) = s.nbytes
       /\ \A p \in 1 .. s.nbytes : direct[p] = c[s.offset + p]
  <2>1. c \in Seq(B) /\ s.offset \in Nat /\ s.nbytes \in Nat /\ s.offset + s.nbytes <= Len(c)
    BY <1>9
  <2> QED
    BY ONLY <2>1, PreadIs
<1>13. part = direct
  <2>1. ASSUME NEW p \in 1 .. s.nbytes
        PROVE  part[p] = direct[p]
    <3>1. begin + p \in 1 .. total /\ h.offset + (begin + p) = s.offset + p
      BY <1>9
    <3>2. whole[begin + p] = c[h.offset + (begin + p)]
      BY <1>10, <3>1
    <3> QED
      BY <1>11, <1>12, <3>1, <3>2
  <2> HIDE DEF part, direct
  <2> QED
    BY <1>11, <1>12, <2>1, SeqEqual
<1>14. RunBytes(its, content) = whole /\ First(its) = h
  BY <1>4, <1>5, <1>8 DEF whole
<1>15. ReadBundle(spans, content)[s.role] = part
  BY <1>3, <1>7, <1>14 DEF begin
<1> QED
  BY <1>5, <1>13, <1>15 DEF c
--------------------------------------------------------------------------------
(***************************************************************************)
(* The manifest of a checkpoint.                                           *)
(***************************************************************************)

\* Every finite set of spans can be put in the order of the roles.
Ordered(s, n, R) == /\ s \in [1 .. n -> R]
                    /\ \A i, j \in 1 .. n : i # j => s[i] # s[j]
                    /\ \A i, j \in 1 .. n : i < j => s[i].role <= s[j].role

LEMMA OrderExists ==
  ASSUME NEW S, IsFiniteSet(S), \A s \in S : s.role \in Nat
  PROVE  \E s : Ordered(s, Cardinality(S), S)
<1> DEFINE T == {n \in Nat : \A R \in SUBSET S : Cardinality(R) = n => \E s : Ordered(s, n, R)}
<1>1. 0 \in T
  <2>1. ASSUME NEW R
        PROVE  Ordered(<<>>, 0, R)
    <3>1. 1 .. 0 = {} /\ <<>> \in [1 .. 0 -> R]
      OBVIOUS
    <3> QED
      BY <3>1 DEF Ordered
  <2> QED
    BY <2>1
<1>2. ASSUME NEW n \in Nat, n \in T
      PROVE  n + 1 \in T
  <2>1. ASSUME NEW R \in SUBSET S, Cardinality(R) = n + 1
        PROVE  \E s : Ordered(s, n + 1, R)
    <3>1. IsFiniteSet(R) /\ R # {}
      BY <2>1, FS_Subset, FS_EmptySet
    <3>2. PICK m \in R : \A r \in R : m.role <= r.role
      <4> DEFINE roles == {r.role : r \in R}
      <4>1. roles \in SUBSET Nat /\ roles # {}
        BY <3>1
      <4>2. PICK k \in roles : \A j \in roles : k <= j
        <5> HIDE DEF roles
        <5> QED
          BY <4>1, LeastNatural
      <4> QED
        BY <4>2
    <3> DEFINE Q == R \ {m}
    <3>3. Q \in SUBSET S /\ Cardinality(Q) = n
      <4>1. Cardinality(R \ {m}) = Cardinality(R) - 1
        BY <3>1, <3>2, FS_RemoveElement
      <4>2. (n + 1) - 1 = n
        OBVIOUS
      <4> QED
        BY <2>1, <4>1, <4>2
    <3>4. PICK q : Ordered(q, n, Q)
      BY <1>2, <3>3
    <3> DEFINE s == [i \in 1 .. n + 1 |-> IF i = 1 THEN m ELSE q[i - 1]]
    <3>5. /\ s[1] = m
          /\ \A i \in 2 .. n + 1 : i - 1 \in 1 .. n /\ s[i] = q[i - 1] /\ q[i - 1] \in Q /\ s[i] \in R
      BY <3>4 DEF Ordered
    <3>6. s \in [1 .. n + 1 -> R]
      <4>1. ASSUME NEW i \in 1 .. n + 1
            PROVE  (IF i = 1 THEN m ELSE q[i - 1]) \in R
        <5>1. i = 1 \/ i \in 2 .. n + 1
          OBVIOUS
        <5> HIDE DEF s
        <5> QED
          BY <3>2, <3>5, <5>1
      <4> QED
        BY <4>1
    <3> HIDE DEF s
    <3>7. ASSUME NEW i \in 1 .. n + 1, NEW j \in 1 .. n + 1, i < j
          PROVE  s[i] # s[j] /\ s[i].role <= s[j].role
      <4>1. j \in 2 .. n + 1
        BY <3>7
      <4>2. CASE i = 1
        BY <3>2, <3>5, <4>1, <4>2
      <4>3. CASE i # 1
        <5>1. i \in 2 .. n + 1 /\ i - 1 < j - 1 /\ i - 1 # j - 1
          BY <3>7, <4>3
        <5> QED
          BY <3>4, <3>5, <4>1, <5>1 DEF Ordered
      <4> QED
        BY <4>2, <4>3
    <3>8. \A i, j \in 1 .. n + 1 : i # j => i < j \/ j < i
      OBVIOUS
    <3>9. \A i, j \in 1 .. n + 1 : i # j => s[i] # s[j]
      BY <3>7, <3>8
    <3>10. Ordered(s, n + 1, R)
      BY <3>6, <3>7, <3>9 DEF Ordered
    <3> QED
      BY <3>10
  <2> QED
    BY <2>1
<1>3. Nat \subseteq T
  <2> HIDE DEF T
  <2> QED
    BY <1>1, <1>2, Induction
<1>4. Cardinality(S) \in T /\ S \in SUBSET S
  BY <1>3, FS_CardinalityType
<1> QED
  BY <1>4

LEMMA ByRoleIs ==
  ASSUME NEW S, IsFiniteSet(S), \A s \in S : s.role \in Nat
  PROVE  ByRole(S) \in Seq(S)
<1>1. PICK s : Ordered(s, Cardinality(S), S)
  BY OrderExists
<1>2. Cardinality(S) \in Nat
  BY FS_CardinalityType
<1>3. s \in SetToSeqs(S) /\ \A i, j \in DOMAIN s : i < j => s[i].role <= s[j].role
  BY <1>1 DEF Ordered, SetToSeqs
<1>4. ByRole(S) \in SetToSeqs(S)
  BY <1>3 DEF ByRole
<1>5. ByRole(S) \in [1 .. Cardinality(S) -> S]
  BY <1>4 DEF SetToSeqs
<1> QED
  BY <1>2, <1>5, SeqDef
\* The spans of a manifest, before they are validated.
Spans == [file : Shards, offset : Int, nbytes : Int, rank : Int, role : Nat]

LEMMA SpansAre ==
  ASSUME NEW cp \in Checkpoints, NEW t \in cp.tensors, NEW e \in Nat
  PROVE  LeadingSpan(t, cp.experts, e) \in Spans /\ SplitSpan(t) \in Spans
<1>1. /\ t.shard \in Shards /\ Len(t.shape) \in Nat /\ t.name.role \in Nat
      /\ t.start \in Int /\ t.end \in Int /\ cp.experts \in Nat \ {0} /\ DataStart \in Nat
  <2>1. t.shape \in Seq(Int)
    BY CheckpointsAssumption
  <2>2. Len(t.shape) \in Nat
    BY <2>1, LenProperties
  <2> QED
    BY <2>2, CheckpointsAssumption, LayoutAssumption
<1> DEFINE bytes == Size(t) \div cp.experts
<1>2. Size(t) \in Int
  BY <1>1 DEF Size
<1>3. bytes \in Int
  BY <1>1, <1>2
<1> HIDE DEF bytes
<1>4. e * bytes \in Int
  BY <1>3
<1>5. DataStart + t.start + e * bytes \in Int /\ DataStart + t.start \in Int /\ Len(t.shape) - 1 \in Int
  BY <1>1, <1>4
<1>6. LeadingSpan(t, cp.experts, e) \in Spans
  BY <1>1, <1>3, <1>5 DEF LeadingSpan, Spans, bytes
<1>7. SplitSpan(t) \in Spans
  BY <1>1, <1>2, <1>5 DEF SplitSpan, Spans
<1> QED
  BY <1>6, <1>7

LEMMA BundleIs ==
  ASSUME NEW cp \in Checkpoints, NEW layer, NEW e \in Nat
  PROVE  BundleOf(cp, layer, e) \in Seq(Spans)
<1> DEFINE A == Leading(cp, layer)
           B == OfExpert(Split(cp, layer), e)
           f == [t \in A |-> LeadingSpan(t, cp.experts, e)]
           g == [t \in B |-> SplitSpan(t)]
           S == {LeadingSpan(t, cp.experts, e) : t \in A} \cup {SplitSpan(t) : t \in B}
<1>1. A \in SUBSET cp.tensors /\ B \in SUBSET cp.tensors /\ IsFiniteSet(cp.tensors)
  BY CheckpointsAssumption DEF Leading, Split, OfExpert
<1>2. IsFiniteSet(A) /\ IsFiniteSet(B)
  BY <1>1, FS_Subset
<1> HIDE DEF A, B
<1>3. IsFiniteSet({f[t] : t \in DOMAIN f}) /\ IsFiniteSet({g[t] : t \in DOMAIN g})
  <2>1. DOMAIN f = A /\ DOMAIN g = B
    OBVIOUS
  <2> HIDE DEF f, g
  <2> QED
    BY <1>2, <2>1, ImageIsFinite
<1>4. {f[t] : t \in DOMAIN f} = {LeadingSpan(t, cp.experts, e) : t \in A}
      /\ {g[t] : t \in DOMAIN g} = {SplitSpan(t) : t \in B}
  OBVIOUS
<1>5. IsFiniteSet(S)
  <2> HIDE DEF f, g
  <2> QED
    BY <1>3, <1>4, FS_Union
<1>6. \A s \in S : s \in Spans
  BY <1>1, SpansAre
<1> HIDE DEF S
<1>7. \A s \in S : s.role \in Nat
  BY <1>6 DEF Spans
<1>8. ByRole(S) \in Seq(S)
  BY <1>5, <1>7, ByRoleIs
<1>9. ByRole(S) \in Seq(Spans)
  <2>1. S \subseteq Spans
    BY <1>6
  <2> QED
    BY <1>8, <2>1, SeqDef
<1> QED
  BY <1>9 DEF BundleOf, S, A, B

\* What build_streaming_manifest lets through can be read.
LEMMA ManifestIs ==
  ASSUME NEW cp \in Checkpoints, Prepares(cp)
  PROVE  /\ DOMAIN ManifestOf(cp) = Keys(cp)
         /\ \A k \in Keys(cp) :
              /\ IsBundle(ManifestOf(cp)[k], Shards) /\ Len(ManifestOf(cp)[k]) > 0
              /\ \A i \in DOMAIN ManifestOf(cp)[k] :
                   ManifestOf(cp)[k][i].offset + ManifestOf(cp)[k][i].nbytes
                     <= cp.size[ManifestOf(cp)[k][i].file]
<1>1. DOMAIN ManifestOf(cp) = Keys(cp) /\ Validates(ManifestOf(cp), cp.size)
  BY DEF ManifestOf, Prepares
<1>2. ASSUME NEW k \in Keys(cp)
      PROVE  /\ IsBundle(ManifestOf(cp)[k], Shards) /\ Len(ManifestOf(cp)[k]) > 0
             /\ \A i \in DOMAIN ManifestOf(cp)[k] :
                  ManifestOf(cp)[k][i].offset + ManifestOf(cp)[k][i].nbytes
                    <= cp.size[ManifestOf(cp)[k][i].file]
  <2> DEFINE spans == ManifestOf(cp)[k]
  <2>1. spans \in Seq(Spans)
    <3>1. k[2] \in Nat /\ spans = BundleOf(cp, k[1], k[2])
      BY CheckpointsAssumption DEF Keys, ManifestOf
    <3> QED
      BY <3>1, BundleIs
  <2>2. /\ spans # <<>>
        /\ \A i \in DOMAIN spans : SpanIsValid(spans[i], cp.size)
        /\ \A i, j \in DOMAIN spans : spans[i].role = spans[j].role => i = j
    BY <1>1 DEF Validates
  <2> HIDE DEF spans
  <2>3. /\ Len(spans) \in Nat /\ Len(spans) > 0 /\ DOMAIN spans = 1 .. Len(spans)
        /\ \A i \in 1 .. Len(spans) : spans[i] \in Spans
    BY <2>1, <2>2, EmptySeq, ElementOfSeq, LenProperties
  <2>4. ASSUME NEW i \in 1 .. Len(spans)
        PROVE  spans[i] \in Places(Shards) /\ spans[i].offset + spans[i].nbytes <= cp.size[spans[i].file]
    <3>1. spans[i] \in Spans /\ SpanIsValid(spans[i], cp.size)
      BY <2>2, <2>3
    <3> DEFINE s == spans[i]
    <3> HIDE DEF s
    <3>2. s \in Spans /\ s.offset >= 0 /\ s.nbytes > 0 /\ s.offset + s.nbytes <= cp.size[s.file]
      BY <3>1 DEF SpanIsValid, s
    <3>3. s \in Places(Shards)
      BY <3>2 DEF Spans, Places
    <3> QED
      BY <3>2, <3>3 DEF s
  <2>5. spans \in Seq(Places(Shards))
    BY <2>1, <2>3, <2>4, SeqDef
  <2>6. IsBundle(spans, Shards)
    BY <2>2, <2>5 DEF IsBundle
  <2> QED
    BY <2>3, <2>4, <2>6 DEF spans
<1> QED
  BY <1>1, <1>2
\* The keys, layer by layer.
Count(cp) == cp.layers * cp.experts
KeyAt(cp, i) == <<(i - 1) \div cp.experts, (i - 1) % cp.experts>>
IndexOf(cp, k) == k[1] * cp.experts + k[2] + 1

LEMMA DivisionIs ==
  ASSUME NEW n \in Nat \ {0}, NEW a \in Nat
  PROVE  a \div n \in Nat /\ a % n \in 0 .. n - 1 /\ a = (a \div n) * n + (a % n)
<1>1. a \div n \in Int /\ a % n \in 0 .. n - 1 /\ a = n * (a \div n) + (a % n)
  <2>1. a \div n \in Int
    OBVIOUS
  <2>2. a % n \in 0 .. n - 1
    OBVIOUS
  <2>3. a = n * (a \div n) + (a % n)
    OBVIOUS
  <2> QED
    BY <2>1, <2>2, <2>3
<1> DEFINE q == a \div n
           r == a % n
<1> HIDE DEF q, r
<1>2. q \in Int /\ r \in 0 .. n - 1 /\ a = n * q + r
  BY <1>1 DEF q, r
<1>3. q \in Nat
  <2>1. SUFFICES ASSUME q <= -1 PROVE FALSE
    BY <1>2
  <2>2. n * q <= n * (-1)
    BY <1>2, <2>1
  <2> QED
    BY <1>2, <2>2
<1>4. n * q = q * n
  BY <1>2
<1> QED
  BY <1>2, <1>3, <1>4 DEF q, r

LEMMA ProductsGrow ==
  ASSUME NEW n \in Nat \ {0}, NEW p \in Nat, NEW q \in Nat, p < q
  PROVE  p * n + n <= q * n /\ p * n \in Nat /\ q * n \in Nat
<1>1. p + 1 <= q
  OBVIOUS
<1>2. (p + 1) * n <= q * n
  BY <1>1
<1>3. (p + 1) * n = p * n + n
  OBVIOUS
<1>4. p * n \in Nat /\ q * n \in Nat
  OBVIOUS
<1> QED
  BY <1>2, <1>3, <1>4

LEMMA KeysInOrder ==
  ASSUME NEW cp \in Checkpoints
  PROVE  /\ Count(cp) \in Nat
         /\ \A i \in 1 .. Count(cp) : KeyAt(cp, i) \in Keys(cp) /\ IndexOf(cp, KeyAt(cp, i)) = i
         /\ \A k \in Keys(cp) : IndexOf(cp, k) \in 1 .. Count(cp) /\ KeyAt(cp, IndexOf(cp, k)) = k
<1> DEFINE L == cp.layers
           E == cp.experts
<1>1. L \in Nat /\ E \in Nat \ {0}
  BY CheckpointsAssumption
<1> HIDE DEF L, E
<1>2. Count(cp) = L * E /\ L * E \in Nat /\ Keys(cp) = (0 .. L - 1) \X (0 .. E - 1)
  BY <1>1 DEF Count, Keys, L, E
<1>3. ASSUME NEW q \in Nat, NEW r \in 0 .. E - 1
      PROVE  q * E + r \in Nat /\ (q < L => q * E + r < L * E) /\ (q * E + r < L * E => q < L)
  <2>1. q * E \in Nat
    BY <1>1
  <2>2. q < L => q * E + E <= L * E
    BY <1>1, ProductsGrow
  <2>3. ASSUME L <= q
        PROVE  L * E <= q * E
    <3>1. L = q \/ L < q
      BY <1>1, <2>3
    <3> QED
      BY <1>1, <2>1, <3>1, ProductsGrow
  <2> QED
    BY <1>1, <1>2, <2>1, <2>2, <2>3
<1>4. ASSUME NEW p \in Nat, NEW q \in Nat, NEW r \in 0 .. E - 1, NEW s \in 0 .. E - 1,
             p * E + r = q * E + s
      PROVE  p = q /\ r = s
  <2>1. p * E \in Nat /\ q * E \in Nat
    BY <1>1
  <2>2. ~(p < q) /\ ~(q < p)
    BY <1>1, <1>4, <2>1, ProductsGrow
  <2>3. p = q
    BY <2>2
  <2> QED
    BY <1>1, <1>4, <2>1, <2>3
<1>5. ASSUME NEW i \in 1 .. Count(cp)
      PROVE  KeyAt(cp, i) \in Keys(cp) /\ IndexOf(cp, KeyAt(cp, i)) = i
  <2> DEFINE a == i - 1
             q == a \div E
             r == a % E
  <2>1. a \in Nat /\ a < L * E /\ a + 1 = i
    BY <1>2
  <2> HIDE DEF a
  <2>2. q \in Nat /\ r \in 0 .. E - 1 /\ a = q * E + r
    BY <1>1, <2>1, DivisionIs
  <2>3. KeyAt(cp, i) = <<q, r>>
    BY DEF KeyAt, a, E
  <2> HIDE DEF q, r
  <2>4. q \in 0 .. L - 1
    BY <1>1, <1>3, <2>1, <2>2
  <2>5. IndexOf(cp, <<q, r>>) = q * E + r + 1
    BY DEF IndexOf, E
  <2> QED
    BY <1>2, <2>1, <2>2, <2>3, <2>4, <2>5
<1>6. ASSUME NEW k \in Keys(cp)
      PROVE  IndexOf(cp, k) \in 1 .. Count(cp) /\ KeyAt(cp, IndexOf(cp, k)) = k
  <2>1. PICK l \in 0 .. L - 1, e \in 0 .. E - 1 : k = <<l, e>>
    BY <1>2
  <2> DEFINE a == l * E + e
  <2>2. l \in Nat /\ l < L /\ a \in Nat /\ a < L * E
    BY <1>1, <1>3
  <2>3. IndexOf(cp, k) = a + 1
    BY <2>1 DEF IndexOf, E
  <2> DEFINE q == a \div E
             r == a % E
  <2>4. a = l * E + e
    OBVIOUS
  <2> HIDE DEF a
  <2>5. q \in Nat /\ r \in 0 .. E - 1 /\ a = q * E + r
    BY <1>1, <2>2, DivisionIs
  <2>6. (a + 1) - 1 = a
    BY <2>2
  <2>7. KeyAt(cp, a + 1) = <<q, r>>
    BY <2>6 DEF KeyAt, E
  <2> HIDE DEF q, r
  <2>8. q = l /\ r = e
    BY <1>4, <2>2, <2>4, <2>5
  <2> QED
    BY <1>2, <2>1, <2>2, <2>3, <2>7, <2>8
<1> QED
  BY <1>2, <1>5, <1>6
--------------------------------------------------------------------------------
(***************************************************************************)
(* The repacked manifest: what main writes for a checkpoint, whenever it   *)
(* is run.                                                                 *)
(***************************************************************************)

\* The sizes of the bundles in the order of the keys, and where each begins in the blob.
SizeOf(spans) == BytesUpTo(spans)[Len(spans)]
KeySizes(cp) == [n \in 1 .. Count(cp) |-> SizeOf(ManifestOf(cp)[KeyAt(cp, n)])]
Base(cp) ==
  LET base[n \in 0 .. Count(cp)] == IF n = 0 THEN 0 ELSE base[n - 1] + KeySizes(cp)[n]
  IN  base
Place(cp, k) == Base(cp)[IndexOf(cp, k) - 1]

\* The manifest once the first n bundles are written.
Rewritten(cp, n) ==
  [k \in Keys(cp) |-> IF IndexOf(cp, k) <= n THEN Appended(ManifestOf(cp)[k], Place(cp, k))
                      ELSE ManifestOf(cp)[k]]

LEMMA BundleSums ==
  ASSUME NEW S, NEW spans, IsBundle(spans, S)
  PROVE  /\ Len(spans) \in Nat /\ Lengths(spans) \in [1 .. Len(spans) -> Nat]
         /\ Sums(BytesUpTo(spans), Len(spans), Lengths(spans))
         /\ SizeOf(spans) \in Nat
<1>1. Len(spans) \in Nat /\ \A i \in 1 .. Len(spans) : spans[i].nbytes \in Nat
  BY SpansOfABundle DEF Places
<1>2. Lengths(spans) \in [1 .. Len(spans) -> Nat]
  BY <1>1 DEF Lengths
<1>3. Sums(BytesUpTo(spans), Len(spans), Lengths(spans))
  BY <1>1, <1>2, BytesAreSums
<1>4. Len(spans) \in 0 .. Len(spans)
  BY <1>1
<1> QED
  BY <1>1, <1>2, <1>3, <1>4 DEF Sums, SizeOf

LEMMA BaseIs ==
  ASSUME NEW cp \in Checkpoints, Prepares(cp)
  PROVE  /\ Count(cp) \in Nat /\ KeySizes(cp) \in [1 .. Count(cp) -> Nat]
         /\ Sums(Base(cp), Count(cp), KeySizes(cp))
<1>1. Count(cp) \in Nat /\ \A n \in 1 .. Count(cp) : KeyAt(cp, n) \in Keys(cp)
  BY KeysInOrder
<1>2. \A n \in 1 .. Count(cp) : SizeOf(ManifestOf(cp)[KeyAt(cp, n)]) \in Nat
  BY <1>1, ManifestIs, BundleSums
<1>3. KeySizes(cp) \in [1 .. Count(cp) -> Nat]
  BY <1>2 DEF KeySizes
<1>4. Sums(Base(cp), Count(cp), KeySizes(cp))
  <2> DEFINE N == Count(cp)
             w == KeySizes(cp)
             base[n \in 0 .. N] == IF n = 0 THEN 0 ELSE base[n - 1] + w[n]
  <2>1. Base(cp) = base
    BY DEF Base
  <2> HIDE DEF N, w
  <2>2. N \in Nat /\ w \in [1 .. N -> Nat]
    BY <1>1, <1>3 DEF N, w
  <2>3. \E b : b = [n \in 0 .. N |-> IF n = 0 THEN 0 ELSE b[n - 1] + w[n]]
    BY <2>2, SumsExist
  <2>4. base = [n \in 0 .. N |-> IF n = 0 THEN 0 ELSE base[n - 1] + w[n]]
    BY <2>3, Zenon
  <2> HIDE DEF base
  <2>5. Sums(base, N, w)
    BY <2>2, <2>4, SumsAre
  <2> QED
    BY <2>1, <2>5 DEF N, w
<1> QED
  BY <1>1, <1>3, <1>4

\* Where the spans of a bundle are in the blob.
LEMMA PlaceIs ==
  ASSUME NEW cp \in Checkpoints, Prepares(cp), NEW k \in Keys(cp)
  PROVE  /\ IndexOf(cp, k) \in 1 .. Count(cp) /\ IndexOf(cp, k) - 1 \in 0 .. Count(cp)
         /\ Place(cp, k) \in Nat
         /\ Base(cp)[IndexOf(cp, k)] = Place(cp, k) + SizeOf(ManifestOf(cp)[k])
         /\ \A i \in DOMAIN ManifestOf(cp)[k] :
              /\ ManifestOf(cp)[k][i].nbytes \in Nat \ {0}
              /\ BytesUpTo(ManifestOf(cp)[k])[i - 1] \in Nat
              /\ Place(cp, k) + BytesUpTo(ManifestOf(cp)[k])[i - 1] + ManifestOf(cp)[k][i].nbytes
                   <= Base(cp)[IndexOf(cp, k)]
<1> DEFINE m == IndexOf(cp, k)
           spans == ManifestOf(cp)[k]
           w == Lengths(spans)
           b == BytesUpTo(spans)
<1>1. m \in 1 .. Count(cp) /\ KeyAt(cp, m) = k /\ Count(cp) \in Nat
  BY KeysInOrder
<1>2. Sums(Base(cp), Count(cp), KeySizes(cp)) /\ KeySizes(cp) \in [1 .. Count(cp) -> Nat]
  BY BaseIs
<1>3. IsBundle(spans, Shards)
  BY ManifestIs
<1>4. Len(spans) \in Nat /\ w \in [1 .. Len(spans) -> Nat] /\ Sums(b, Len(spans), w)
      /\ SizeOf(spans) \in Nat
  BY <1>3, BundleSums
<1>5. KeySizes(cp)[m] = SizeOf(spans)
  BY <1>1 DEF KeySizes
<1> HIDE DEF m
<1>6. m - 1 \in 0 .. Count(cp) /\ Base(cp)[m - 1] \in Nat
      /\ Base(cp)[m] = Base(cp)[m - 1] + SizeOf(spans)
  <2>1. m - 1 \in 0 .. Count(cp)
    BY <1>1
  <2> QED
    BY <1>1, <1>2, <1>5, <2>1 DEF Sums
<1> HIDE DEF spans, w, b
<1>7. ASSUME NEW i \in DOMAIN spans
      PROVE  /\ spans[i].nbytes \in Nat \ {0} /\ b[i - 1] \in Nat
             /\ Base(cp)[m - 1] + b[i - 1] + spans[i].nbytes <= Base(cp)[m]
  <2>1. i \in 1 .. Len(spans) /\ spans[i].nbytes \in Nat \ {0} /\ i - 1 \in 0 .. Len(spans)
        /\ i <= Len(spans) /\ Len(spans) \in 0 .. Len(spans)
    BY <1>3, <1>4, SpansOfABundle DEF Places
  <2>2. w[i] = spans[i].nbytes
    BY <2>1 DEF w, Lengths
  <2>3. b[i - 1] + w[i] <= b[Len(spans)]
    BY <1>4, <2>1, SumsGrow
  <2>4. b[i - 1] \in Nat
    BY <1>4, <2>1 DEF Sums
  <2>5. b[Len(spans)] = SizeOf(spans)
    BY DEF SizeOf, b
  <2> QED
    BY <1>4, <1>6, <2>1, <2>2, <2>3, <2>4, <2>5
<1> QED
  BY <1>1, <1>6, <1>7 DEF m, spans, b, Place
\* What is appended is a bundle with the sizes and the roles it had.
LEMMA AppendedIs ==
  ASSUME NEW spans, IsBundle(spans, Shards), NEW pos \in Nat
  PROVE  LET new == Appended(spans, pos)
         IN  /\ IsBundle(new, Files) /\ DOMAIN new = DOMAIN spans /\ Len(new) = Len(spans)
             /\ \A i \in DOMAIN spans : /\ new[i].file = Blob
                                        /\ new[i].offset = pos + BytesUpTo(spans)[i - 1]
                                        /\ new[i].nbytes = spans[i].nbytes
                                        /\ new[i].role = spans[i].role
                                        /\ new[i].rank = spans[i].rank
<1> DEFINE new == Appended(spans, pos)
           b == BytesUpTo(spans)
<1>1. /\ Len(spans) \in Nat /\ DOMAIN spans = 1 .. Len(spans)
      /\ \A i \in DOMAIN spans : spans[i] \in Places(Shards)
  BY SpansOfABundle
<1>2. \A i \in DOMAIN spans : b[i - 1] \in Nat
  <2>1. Sums(b, Len(spans), Lengths(spans))
    BY BundleSums
  <2>2. \A i \in 1 .. Len(spans) : i - 1 \in 0 .. Len(spans)
    OBVIOUS
  <2> QED
    BY <1>1, <2>1, <2>2 DEF Sums
<1> HIDE DEF b
<1>3. DOMAIN new = 1 .. Len(spans)
  BY <1>1 DEF Appended
<1>4. ASSUME NEW i \in DOMAIN spans
      PROVE  /\ new[i] \in Places(Files)
             /\ new[i].file = Blob /\ new[i].offset = pos + b[i - 1]
             /\ new[i].nbytes = spans[i].nbytes /\ new[i].role = spans[i].role
             /\ new[i].rank = spans[i].rank
  <2> DEFINE s == spans[i]
             o == pos + b[i - 1]
  <2>1. new[i] = [s EXCEPT !.file = Blob, !.offset = o]
    BY DEF Appended, b
  <2>2. s \in Places(Shards) /\ o \in Nat /\ Blob \in Files
    BY <1>1, <1>2 DEF Files
  <2> HIDE DEF s, o
  <2>3. [s EXCEPT !.file = Blob, !.offset = o] \in Places(Files)
    BY <2>2 DEF Places
  <2>4. /\ [s EXCEPT !.file = Blob, !.offset = o].file = Blob
        /\ [s EXCEPT !.file = Blob, !.offset = o].offset = o
        /\ [s EXCEPT !.file = Blob, !.offset = o].nbytes = s.nbytes
        /\ [s EXCEPT !.file = Blob, !.offset = o].role = s.role
        /\ [s EXCEPT !.file = Blob, !.offset = o].rank = s.rank
    BY <2>2 DEF Places
  <2> QED
    BY <2>1, <2>3, <2>4 DEF s, o
<1> HIDE DEF new
<1>5. new \in Seq(Places(Files)) /\ Len(new) = Len(spans)
  <2>1. new = [i \in 1 .. Len(spans) |-> new[i]]
    BY <1>3 DEF new, Appended
  <2>2. new \in [1 .. Len(spans) -> Places(Files)]
    BY <1>1, <1>4, <2>1
  <2>3. new \in Seq(Places(Files))
    BY <1>1, <2>2, SeqDef
  <2> QED
    BY <1>1, <1>3, <2>3, LenProperties
<1>6. \A i, j \in DOMAIN new : new[i].role = new[j].role => i = j
  BY <1>1, <1>3, <1>4 DEF IsBundle
<1> QED
  BY <1>1, <1>3, <1>4, <1>5, <1>6 DEF IsBundle, new, b

\* A repacked bundle is read with one pread.
LEMMA AppendedIsOneRun ==
  ASSUME NEW spans, IsBundle(spans, Shards), Len(spans) > 0, NEW pos \in Nat
  PROVE  Cardinality(Runs(Appended(spans, pos))) = 1
<1> DEFINE new == Appended(spans, pos)
           b == BytesUpTo(spans)
           w == Lengths(spans)
           N == Len(spans)
<1>1. /\ IsBundle(new, Files) /\ DOMAIN new = 1 .. N /\ N \in Nat
      /\ \A i \in 1 .. N : /\ new[i].file = Blob /\ new[i].offset = pos + b[i - 1]
                           /\ new[i].nbytes = w[i] /\ w[i] \in Nat \ {0}
  BY AppendedIs, SpansOfABundle DEF Places, Lengths
<1>2. Sums(b, N, w) /\ w \in [1 .. N -> Nat]
  BY BundleSums
<1> HIDE DEF new, b, w, N
<1>3. ToSet(new) = {new[i] : i \in 1 .. N}
  BY <1>1 DEF ToSet
<1>4. \A i \in 1 .. N : b[i - 1] \in Nat
  <2>1. \A i \in 1 .. N : i - 1 \in 0 .. N
    BY <1>1
  <2> QED
    BY <1>2, <2>1 DEF Sums
<1> DEFINE off(i) == new[i].offset
<1>a. \A i \in 1 .. N : off(i) \in Nat /\ off(i) = pos + b[i - 1] /\ w[i] \in Nat \ {0}
  BY <1>1, <1>4
<1> HIDE DEF off
<1>5. ASSUME NEW i \in 1 .. N, NEW j \in 1 .. N, i < j
      PROVE  new[i].offset < new[j].offset /\ new[i].offset + new[i].nbytes <= new[j].offset
  <2>1. i - 1 \in 0 .. N /\ j - 1 \in 0 .. N /\ i <= j - 1
    BY <1>1, <1>5
  <2>2. b[i - 1] + w[i] <= b[j - 1]
    BY <1>1, <1>2, <2>1, SumsGrow
  <2>3. \A x, y, z \in Nat : y > 0 /\ x + y <= z => pos + x < pos + z /\ (pos + x) + y <= pos + z
    OBVIOUS
  <2>4. off(i) < off(j) /\ off(i) + w[i] <= off(j)
    <3> DEFINE x == b[i - 1]
               z == b[j - 1]
    <3>1. x \in Nat /\ z \in Nat /\ off(i) = pos + x /\ off(j) = pos + z /\ w[i] \in Nat /\ w[i] > 0
      BY <1>a, <1>4
    <3>2. x + w[i] <= z
      BY <2>2
    <3> HIDE DEF x, z
    <3> QED
      BY <2>3, <3>1, <3>2
  <2>5. new[i].nbytes = w[i]
    BY <1>1
  <2> QED
    BY <2>4, <2>5 DEF off
<1>6. \A i, j \in 1 .. N : i < j \/ i = j \/ j < i
  BY <1>1
<1>7. ASSUME NEW i \in 1 .. N, NEW j \in 1 .. N
      PROVE  IsBefore(new[i], new[j]) <=> i < j
  <2>1. ~IsBefore(new[i], new[i])
    BY <1>1, BeforeIsAnOrder, SpansOfABundle
  <2>2. i < j => IsBefore(new[i], new[j])
    BY <1>5 DEF IsBefore
  <2>3. j < i => ~IsBefore(new[i], new[j])
    <3>1. SUFFICES ASSUME j < i PROVE ~IsBefore(new[i], new[j])
      OBVIOUS
    <3>2. off(j) < off(i) /\ off(j) \in Nat /\ off(i) \in Nat
      BY <1>a, <1>5, <3>1 DEF off
    <3>3. ~(off(i) < off(j)) /\ off(i) # off(j)
      BY <3>2
    <3> QED
      BY <3>3 DEF IsBefore, off
  <2> QED
    BY <1>1, <1>6, <2>1, <2>2, <2>3
<1>8. \A i \in 1 .. N : InFile(new, new[i].file) = ToSet(new)
  BY <1>1, <1>3 DEF InFile
<1>9. 1 \in 1 .. N
  BY <1>1 DEF N
<1>10. ~Continues(new, new[1])
  <2>1. \A i \in 1 .. N : ~(i < 1)
    BY <1>1
  <2>2. \A i \in 1 .. N : ~IsBefore(new[i], new[1])
    BY <1>7, <1>9, <2>1
  <2>3. \A s \in ToSet(new) : ~IsBefore(s, new[1])
    BY <1>3, <2>2
  <2>4. InFile(new, new[1].file) = ToSet(new)
    BY <1>8, <1>9
  <2> QED
    BY <2>3, <2>4 DEF Continues
<1>11. ASSUME NEW j \in 1 .. N, j # 1
       PROVE  Continues(new, new[j])
  <2>1. j - 1 \in 1 .. N /\ j - 1 < j /\ \A i \in 1 .. N : ~(j - 1 < i /\ i < j)
    BY <1>1, <1>11
  <2>2. new[j - 1].offset + new[j - 1].nbytes = new[j].offset
    <3>1. b[j - 1] = b[(j - 1) - 1] + w[j - 1]
      BY <1>2, <2>1 DEF Sums
    <3>2. \A x, y, z \in Nat : z = x + y => (pos + x) + y = pos + z
      OBVIOUS
    <3>3. off(j - 1) = pos + b[(j - 1) - 1] /\ off(j) = pos + b[j - 1] /\ w[j - 1] \in Nat
          /\ b[(j - 1) - 1] \in Nat /\ b[j - 1] \in Nat
      BY <1>a, <1>4, <2>1
    <3>4. off(j - 1) + w[j - 1] = off(j)
      BY <3>1, <3>2, <3>3
    <3>5. new[j - 1].nbytes = w[j - 1]
      BY <1>1, <2>1
    <3> QED
      BY <3>4, <3>5 DEF off
  <2>3. new[j - 1] \in InFile(new, new[j].file) /\ IsBefore(new[j - 1], new[j])
    BY <1>3, <1>7, <1>8, <2>1
  <2>4. ~\E c \in InFile(new, new[j].file) : IsBefore(new[j - 1], c) /\ IsBefore(c, new[j])
    <3>1. \A i \in 1 .. N : ~(IsBefore(new[j - 1], new[i]) /\ IsBefore(new[i], new[j]))
      BY <1>7, <2>1
    <3> QED
      BY <1>3, <1>8, <3>1
  <2> QED
    BY <2>2, <2>3, <2>4 DEF Continues
<1>12. Heads(new) = {new[1]}
  BY <1>3, <1>9, <1>10, <1>11 DEF Heads
<1>13. Runs(new) = {RunFrom(new, new[1])}
  BY <1>12 DEF Runs
<1> QED
  BY <1>13, FS_Singleton DEF new
--------------------------------------------------------------------------------
(***************************************************************************)
(* What the blob holds: the bytes of the source in the order of the keys   *)
(* and of the spans, as far as it goes.                                    *)
(***************************************************************************)

SourceBytes == Shards \X Nat
ReadOf(cp, spans) ==
  FlattenSeq([i \in DOMAIN spans |->
                LET s == spans[i] IN Pread(ShardBytes(cp, s.file), s.offset, s.nbytes)])

LEMMA ShardBytesAre ==
  ASSUME NEW cp \in Checkpoints, NEW f \in Shards
  PROVE  /\ cp.size[f] \in Nat /\ ShardBytes(cp, f) \in Seq(SourceBytes)
         /\ Len(ShardBytes(cp, f)) = cp.size[f]
         /\ \A i \in 1 .. cp.size[f] : ShardBytes(cp, f)[i] = <<f, i>>
<1>1. cp.size[f] \in Nat
  BY CheckpointsAssumption
<1> DEFINE n == cp.size[f]
           c == [i \in 1 .. n |-> <<f, i>>]
<1>2. c = ShardBytes(cp, f)
  BY DEF ShardBytes
<1>3. n \in Nat
  BY <1>1
<1>4. c \in [1 .. n -> SourceBytes] /\ \A i \in 1 .. n : c[i] = <<f, i>>
  <2> HIDE DEF n
  <2>1. \A i \in 1 .. n : <<f, i>> \in SourceBytes
    BY <1>3 DEF SourceBytes
  <2> QED
    BY <2>1
<1> HIDE DEF n, c
<1>5. c \in Seq(SourceBytes) /\ Len(c) = n
  <2>1. c \in Seq(SourceBytes)
    BY <1>3, <1>4, SeqDef
  <2>2. DOMAIN c = 1 .. n
    BY <1>4
  <2> QED
    BY <1>3, <2>1, <2>2, LenProperties
<1> QED
  BY <1>1, <1>2, <1>4, <1>5 DEF n

\* The bytes of a bundle, one span after another.
Copies(spans, c) ==
  /\ c \in Seq(SourceBytes) /\ Len(c) = SizeOf(spans)
  /\ \A i \in DOMAIN spans : \A p \in 1 .. spans[i].nbytes :
       c[BytesUpTo(spans)[i - 1] + p] = <<spans[i].file, spans[i].offset + p>>

LEMMA ReadIsACopy ==
  ASSUME NEW cp \in Checkpoints, NEW spans, IsBundle(spans, Shards), Len(spans) > 0,
         \A i \in DOMAIN spans : spans[i].offset + spans[i].nbytes <= cp.size[spans[i].file]
  PROVE  Copies(spans, ReadOf(cp, spans))
<1> DEFINE N == Len(spans)
           b == BytesUpTo(spans)
           w == Lengths(spans)
           part(i) == Pread(ShardBytes(cp, spans[i].file), spans[i].offset, spans[i].nbytes)
           ss == [i \in 1 .. N |-> part(i)]
<1>1. N \in Nat /\ N > 0 /\ DOMAIN spans = 1 .. N /\ \A i \in 1 .. N : spans[i] \in Places(Shards)
  BY SpansOfABundle
<1>2. Sums(b, N, w) /\ w \in [1 .. N -> Nat] /\ \A i \in 1 .. N : w[i] = spans[i].nbytes
  BY BundleSums DEF Lengths
<1>3. ReadOf(cp, spans) = FlattenSeq(ss)
  BY <1>1 DEF ReadOf
<1>4. ASSUME NEW i \in 1 .. N
      PROVE  /\ part(i) \in Seq(SourceBytes) /\ Len(part(i)) = w[i]
             /\ \A p \in 1 .. w[i] : part(i)[p] = <<spans[i].file, spans[i].offset + p>>
  <2> DEFINE f == spans[i].file
             o == spans[i].offset
             n == spans[i].nbytes
             c == ShardBytes(cp, f)
  <2>1. f \in Shards /\ o \in Nat /\ n \in Nat /\ o + n <= cp.size[f] /\ w[i] = n
    BY <1>1, <1>2 DEF Places
  <2>2. part(i) = Pread(c, o, n)
    OBVIOUS
  <2>3. c \in Seq(SourceBytes) /\ Len(c) = cp.size[f] /\ \A j \in 1 .. cp.size[f] : c[j] = <<f, j>>
    BY <2>1, ShardBytesAre
  <2> HIDE DEF f, o, n, c, part, w
  <2>4. /\ Pread(c, o, n) \in Seq(SourceBytes) /\ Len(Pread(c, o, n)) = n
        /\ \A p \in 1 .. n : Pread(c, o, n)[p] = c[o + p]
    <3>1. c \in Seq(SourceBytes) /\ o \in Nat /\ n \in Nat /\ o + n <= Len(c)
      BY <2>1, <2>3
    <3> QED
      BY ONLY <3>1, PreadIs
  <2>5. \A p \in 1 .. n : c[o + p] = <<f, o + p>>
    <3>1. cp.size[f] \in Nat
      BY <2>1, ShardBytesAre
    <3>2. \A p \in 1 .. n : o + p \in 1 .. cp.size[f]
      BY <2>1, <3>1
    <3> QED
      BY <2>3, <3>2
  <2> QED
    BY <2>1, <2>2, <2>4, <2>5 DEF f, o
<1> HIDE DEF part, b, w, N
<1>5. ss \in Seq(Seq(SourceBytes)) /\ Len(ss) = N /\ ss # <<>> /\ \A i \in 1 .. N : ss[i] = part(i)
  <2>1. ss \in [1 .. N -> Seq(SourceBytes)]
    BY <1>4
  <2>2. ss \in Seq(Seq(SourceBytes))
    BY <1>1, <2>1, SeqDef
  <2>3. DOMAIN ss = 1 .. N
    OBVIOUS
  <2>4. Len(ss) = N
    BY <1>1, <2>2, <2>3, LenProperties
  <2> QED
    BY <1>1, <2>2, <2>4, EmptySeq
<1> HIDE DEF ss
<1>6. PICK g : Flattens(g, SourceBytes, ss)
  BY <1>5, FlattenIs
<1>7. /\ g[1] = part(1) /\ \A n \in 2 .. N : g[n] = g[n - 1] \o part(n)
      /\ FlattenSeq(ss) = g[N]
  <2>1. 1 \in 1 .. N /\ \A n \in 2 .. N : n \in 1 .. N
    BY <1>1
  <2> QED
    BY <1>5, <1>6, <2>1 DEF Flattens
<1> DEFINE Good(n) ==
      /\ g[n] \in Seq(SourceBytes) /\ Len(g[n]) = b[n]
      /\ \A i \in 1 .. n : \A p \in 1 .. w[i] :
           g[n][b[i - 1] + p] = <<spans[i].file, spans[i].offset + p>>
<1>8. Good(1)
  <2>1. 1 \in 1 .. N /\ b[1] = b[1 - 1] + w[1] /\ b[1 - 1] = 0 /\ w[1] \in Nat
    BY <1>1, <1>2 DEF Sums
  <2>2. /\ part(1) \in Seq(SourceBytes) /\ Len(part(1)) = w[1]
        /\ \A p \in 1 .. w[1] : part(1)[p] = <<spans[1].file, spans[1].offset + p>>
    BY <1>4, <2>1
  <2>3. \A p \in 1 .. w[1] : b[1 - 1] + p = p
    BY <2>1
  <2>4. \A p \in 1 .. w[1] : g[1][b[1 - 1] + p] = <<spans[1].file, spans[1].offset + p>>
    BY <1>7, <2>2, <2>3
  <2>5. b[1] = w[1]
    BY <2>1
  <2>6. \A i \in 1 .. 1 : i = 1
    OBVIOUS
  <2> QED
    BY <1>7, <2>2, <2>4, <2>5, <2>6
<1>9. ASSUME NEW n \in 1 .. N - 1, Good(n)
      PROVE  Good(n + 1)
  <2> DEFINE m == n + 1
  <2>1. m \in 2 .. N /\ m \in 1 .. N /\ m - 1 = n /\ n \in 0 .. N /\ m \in 0 .. N
    BY <1>1
  <2> HIDE DEF m
  <2>2. g[m] = g[n] \o part(m) /\ b[m] = b[n] + w[m]
    BY <1>2, <1>7, <2>1 DEF Sums
  <2>3. /\ part(m) \in Seq(SourceBytes) /\ Len(part(m)) = w[m]
        /\ \A p \in 1 .. w[m] : part(m)[p] = <<spans[m].file, spans[m].offset + p>>
    BY <1>4, <2>1
  <2>4. g[n] \in Seq(SourceBytes) /\ Len(g[n]) = b[n] /\ b[n] \in Nat
    BY <1>2, <1>9, <2>1 DEF Sums
  <2>5. /\ g[m] \in Seq(SourceBytes) /\ Len(g[m]) = b[m]
        /\ \A q \in 1 .. b[n] : g[m][q] = g[n][q]
        /\ \A p \in 1 .. w[m] : g[m][b[n] + p] = part(m)[p]
    <3> DEFINE u == g[n]
               v == part(m)
    <3>1. u \in Seq(SourceBytes) /\ v \in Seq(SourceBytes) /\ g[m] = u \o v /\ Len(u) = b[n] /\ Len(v) = w[m]
          /\ b[m] = b[n] + w[m]
      BY <2>2, <2>3, <2>4
    <3> HIDE DEF u, v
    <3>2. /\ u \o v \in Seq(SourceBytes) /\ Len(u \o v) = Len(u) + Len(v)
          /\ \A i \in 1 .. Len(u) : (u \o v)[i] = u[i]
          /\ \A i \in 1 .. Len(v) : (u \o v)[Len(u) + i] = v[i]
      <4>1. u \in Seq(SourceBytes) /\ v \in Seq(SourceBytes)
        BY <3>1
      <4> QED
        BY ONLY <4>1, ConcatIs, SMTT(30)
    <3>3. /\ g[m] \in Seq(SourceBytes) /\ Len(g[m]) = b[m]
          /\ \A q \in 1 .. b[n] : g[m][q] = u[q]
          /\ \A p \in 1 .. w[m] : g[m][b[n] + p] = v[p]
      BY ONLY <3>1, <3>2
    <3> QED
      BY <3>3 DEF u, v
  <2>6. ASSUME NEW i \in 1 .. m, NEW p \in 1 .. w[i]
        PROVE  g[m][b[i - 1] + p] = <<spans[i].file, spans[i].offset + p>>
    <3>1. CASE i = m
      BY <2>1, <2>3, <2>5, <3>1
    <3>2. CASE i # m
      <4>1. i \in 1 .. n /\ i \in 1 .. N /\ i - 1 \in 0 .. N /\ i <= n
        BY <1>1, <2>1, <3>2
      <4>2. b[i - 1] + w[i] <= b[n]
        BY <1>1, <1>2, <2>1, <4>1, SumsGrow
      <4>3. b[i - 1] \in Nat /\ w[i] \in Nat
        BY <1>2, <4>1 DEF Sums
      <4>4. b[i - 1] + p \in 1 .. b[n]
        <5>1. \A x, y, z \in Nat : \A q \in 1 .. y : x + y <= z => x + q \in 1 .. z
          OBVIOUS
        <5> QED
          BY <2>4, <4>2, <4>3, <5>1
      <4> QED
        BY <1>9, <2>5, <4>1, <4>4
    <3> QED
      BY <3>1, <3>2
  <2> QED
    BY <2>5, <2>6 DEF m
<1>10. Good(N)
  <2> DEFINE T == {n \in Nat : n + 1 \in 1 .. N => Good(n + 1)}
  <2> HIDE DEF Good
  <2>1. 0 \in T
    BY <1>8
  <2>2. ASSUME NEW n \in 0 .. (N - 1) - 1, n \in T
        PROVE  n + 1 \in T
    <3>1. n + 1 \in Nat /\ n + 1 \in 1 .. N - 1 /\ n + 1 \in 1 .. N
      BY <1>1
    <3>2. Good((n + 1) + 1)
      BY <1>9, <2>2, <3>1
    <3> QED
      BY <3>1, <3>2
  <2>3. 0 .. N - 1 \subseteq T
    <3>1. N - 1 \in Nat
      BY <1>1
    <3> HIDE DEF T
    <3> QED
      BY <2>1, <2>2, <3>1, InductionUpTo
  <2>4. N - 1 \in 0 .. N - 1 /\ (N - 1) + 1 = N /\ N \in 1 .. N
    BY <1>1
  <2> QED
    BY <2>3, <2>4
<1>11. b[N] = SizeOf(spans)
  BY DEF SizeOf, b, N
<1> QED
  <2>1. \A i \in 1 .. N : w[i] = spans[i].nbytes
    BY <1>2
  <2>2. ReadOf(cp, spans) = g[N]
    BY <1>3, <1>7
  <2>3. Copies(spans, g[N])
    BY <1>1, <1>10, <1>11, <2>1 DEF Copies, b
  <2> QED
    BY <2>2, <2>3

\* Where a span of a bundle is in the blob, and a blob that holds what belongs there.
At(cp, k, i) == Place(cp, k) + BytesUpTo(ManifestOf(cp)[k])[i - 1]
BlobIsTrue(cp, b) ==
  /\ b \in Seq(SourceBytes)
  /\ \A k \in Keys(cp) : \A i \in DOMAIN ManifestOf(cp)[k] :
       \A p \in 1 .. ManifestOf(cp)[k][i].nbytes :
         At(cp, k, i) + p <= Len(b)
           => b[At(cp, k, i) + p] = <<ManifestOf(cp)[k][i].file, ManifestOf(cp)[k][i].offset + p>>

LEMMA AtIs ==
  ASSUME NEW cp \in Checkpoints, Prepares(cp), NEW k \in Keys(cp),
         NEW i \in DOMAIN ManifestOf(cp)[k]
  PROVE  /\ At(cp, k, i) \in Nat /\ Place(cp, k) <= At(cp, k, i)
         /\ ManifestOf(cp)[k][i].nbytes \in Nat \ {0}
         /\ At(cp, k, i) + ManifestOf(cp)[k][i].nbytes <= Base(cp)[IndexOf(cp, k)]
<1>1. /\ Place(cp, k) \in Nat /\ ManifestOf(cp)[k][i].nbytes \in Nat \ {0}
      /\ BytesUpTo(ManifestOf(cp)[k])[i - 1] \in Nat
      /\ Place(cp, k) + BytesUpTo(ManifestOf(cp)[k])[i - 1] + ManifestOf(cp)[k][i].nbytes
           <= Base(cp)[IndexOf(cp, k)]
  BY PlaceIs
<1> QED
  BY <1>1 DEF At

\* A blob loses its end when the process is killed, and is empty when the tool begins.
LEMMA ABeginningIsTrue ==
  ASSUME NEW cp \in Checkpoints, Prepares(cp), NEW b, BlobIsTrue(cp, b), NEW n \in 0 .. Len(b)
  PROVE  BlobIsTrue(cp, SubSeq(b, 1, n)) /\ Len(SubSeq(b, 1, n)) = n
<1>1. b \in Seq(SourceBytes) /\ Len(b) \in Nat /\ n \in Nat
  BY LenProperties DEF BlobIsTrue
<1> DEFINE c == SubSeq(b, 1, n)
<1>2. c \in Seq(SourceBytes) /\ Len(c) = n /\ \A q \in 1 .. n : c[q] = b[q]
  <2>1. \A q \in 1 .. n : b[q] \in SourceBytes
    <3>1. \A q \in 1 .. Len(b) : b[q] \in SourceBytes
      BY <1>1, ElementOfSeq
    <3> QED
      BY <1>1, <3>1
  <2>2. 1 \in Int /\ n \in Int
    BY <1>1
  <2> QED
    BY <1>1, <2>1, <2>2, SubSeqProperties
<1> HIDE DEF c
<1>3. ASSUME NEW k \in Keys(cp), NEW i \in DOMAIN ManifestOf(cp)[k],
             NEW p \in 1 .. ManifestOf(cp)[k][i].nbytes, At(cp, k, i) + p <= Len(c)
      PROVE  c[At(cp, k, i) + p] = <<ManifestOf(cp)[k][i].file, ManifestOf(cp)[k][i].offset + p>>
  <2>1. At(cp, k, i) \in Nat /\ ManifestOf(cp)[k][i].nbytes \in Nat
    BY AtIs
  <2>2. At(cp, k, i) + p \in 1 .. n /\ At(cp, k, i) + p <= Len(b)
    BY <1>1, <1>2, <1>3, <2>1
  <2> QED
    BY <1>2, <2>2 DEF BlobIsTrue
<1> QED
  BY <1>2, <1>3 DEF BlobIsTrue, c

LEMMA AnEmptyBlobIsTrue ==
  ASSUME NEW cp \in Checkpoints, Prepares(cp)
  PROVE  BlobIsTrue(cp, <<>>)
<1>1. ASSUME NEW k \in Keys(cp), NEW i \in DOMAIN ManifestOf(cp)[k],
             NEW p \in 1 .. ManifestOf(cp)[k][i].nbytes
      PROVE  ~(At(cp, k, i) + p <= 0)
  <2>1. At(cp, k, i) \in Nat /\ ManifestOf(cp)[k][i].nbytes \in Nat
    BY AtIs
  <2> QED
    BY <2>1
<1>2. <<>> \in Seq(SourceBytes) /\ Len(<<>>) = 0
  BY EmptySeq
<1> QED
  BY <1>1, <1>2 DEF BlobIsTrue

\* What is appended for the next key belongs there.
LEMMA TheNextIsTrue ==
  ASSUME NEW cp \in Checkpoints, Prepares(cp), NEW n \in 1 .. Count(cp),
         NEW b, BlobIsTrue(cp, b), Len(b) = Base(cp)[n - 1],
         NEW c, Copies(ManifestOf(cp)[KeyAt(cp, n)], c)
  PROVE  BlobIsTrue(cp, b \o c) /\ Len(b \o c) = Base(cp)[n] /\ Place(cp, KeyAt(cp, n)) = Len(b)
<1> DEFINE N == Count(cp)
           at == Base(cp)
           key == KeyAt(cp, n)
           spans == ManifestOf(cp)[key]
<1>1. N \in Nat /\ n \in 1 .. N /\ n - 1 \in 0 .. N /\ n \in 0 .. N
      /\ key \in Keys(cp) /\ IndexOf(cp, key) = n
  BY KeysInOrder
<1>2. Sums(at, N, KeySizes(cp)) /\ KeySizes(cp) \in [1 .. N -> Nat]
  BY BaseIs
<1>3. b \in Seq(SourceBytes) /\ c \in Seq(SourceBytes) /\ Len(c) = SizeOf(spans) /\ Len(b) = at[n - 1]
  BY DEF BlobIsTrue, Copies
<1>4. Place(cp, key) = Len(b) /\ at[n] = Len(b) + SizeOf(spans)
  <2>1. Place(cp, key) = at[n - 1]
    BY <1>1 DEF Place
  <2>2. at[n] = Place(cp, key) + SizeOf(spans)
    BY <1>1, PlaceIs
  <2> QED
    BY <1>3, <2>1, <2>2
<1>5. /\ b \o c \in Seq(SourceBytes) /\ Len(b \o c) = Len(b) + Len(c) /\ Len(b) \in Nat /\ Len(c) \in Nat
      /\ \A q \in 1 .. Len(b) : (b \o c)[q] = b[q]
      /\ \A q \in 1 .. Len(c) : (b \o c)[Len(b) + q] = c[q]
  <2>1. b \in Seq(SourceBytes) /\ c \in Seq(SourceBytes)
    BY <1>3
  <2> QED
    BY ONLY <2>1, ConcatIs, SMTT(30)
<1>6. Len(b \o c) = at[n]
  BY <1>3, <1>4, <1>5
<1> HIDE DEF N, at, key, spans
<1>7. ASSUME NEW k \in Keys(cp), NEW i \in DOMAIN ManifestOf(cp)[k],
             NEW p \in 1 .. ManifestOf(cp)[k][i].nbytes, At(cp, k, i) + p <= Len(b \o c)
      PROVE  (b \o c)[At(cp, k, i) + p]
               = <<ManifestOf(cp)[k][i].file, ManifestOf(cp)[k][i].offset + p>>
  <2> DEFINE m == IndexOf(cp, k)
             o == At(cp, k, i)
             nb == ManifestOf(cp)[k][i].nbytes
  <2>1. m \in 1 .. N /\ m - 1 \in 0 .. N /\ m \in 0 .. N /\ KeyAt(cp, m) = k
        /\ Place(cp, k) = at[m - 1]
    <3>1. m \in 1 .. N /\ KeyAt(cp, m) = k
      BY KeysInOrder DEF N
    <3>2. Place(cp, k) = at[m - 1]
      BY DEF Place, at
    <3> QED
      BY <1>1, <3>1, <3>2
  <2>2. o \in Nat /\ nb \in Nat /\ at[m - 1] <= o /\ o + nb <= at[m]
    BY <2>1, AtIs DEF at
  <2>3. at[m] \in Nat /\ at[m - 1] \in Nat /\ at[n] \in Nat /\ at[n - 1] \in Nat
    BY <1>1, <1>2, <2>1 DEF Sums
  <2> HIDE DEF m, o, nb
  <2>4. p \in 1 .. nb /\ o + p <= at[n]
    BY <1>6, <1>7 DEF o, nb
  <2>5. CASE m < n
    <3>1. m <= n - 1
      BY <1>1, <2>1, <2>5
    <3>2. at[m] <= at[n - 1]
      BY <1>1, <1>2, <2>1, <3>1, SumsGrow
    <3>3. o + p \in 1 .. Len(b)
      BY <1>3, <2>2, <2>3, <2>4, <3>2
    <3>4. (b \o c)[o + p] = b[o + p] /\ o + p <= Len(b)
      BY <1>5, <3>3
    <3> QED
      BY <3>4 DEF BlobIsTrue, o
  <2>6. CASE m = n
    <3>1. k = key /\ ManifestOf(cp)[k] = spans
      BY <2>1, <2>6 DEF key, spans
    <3>2. o = Len(b) + BytesUpTo(spans)[i - 1]
      BY <1>4, <3>1 DEF o, At
    <3>3. BytesUpTo(spans)[i - 1] \in Nat
      BY <3>1, PlaceIs
    <3> DEFINE q == BytesUpTo(spans)[i - 1] + p
    <3>4. o + p = Len(b) + q /\ q \in 1 .. Len(c)
      <4>1. at[n] = Len(b) + Len(c) /\ BytesUpTo(spans)[i - 1] \in Nat /\ p \in 1 .. nb
        BY <1>3, <1>4, <2>4, <3>3
      <4>2. \A l, y, s, z \in Nat : \A r \in 1 .. s :
              (l + y) + r <= l + z => (l + y) + r = l + (y + r) /\ y + r \in 1 .. z
        OBVIOUS
      <4>3. o + p <= Len(b) + Len(c) /\ o = Len(b) + BytesUpTo(spans)[i - 1]
        BY <2>4, <3>2, <4>1
      <4> DEFINE y == BytesUpTo(spans)[i - 1]
      <4>4. y \in Nat /\ Len(b) \in Nat /\ Len(c) \in Nat /\ nb \in Nat /\ p \in 1 .. nb
        BY <1>5, <2>2, <3>3, <2>4
      <4>5. (Len(b) + y) + p <= Len(b) + Len(c)
        BY <4>3
      <4>6. (Len(b) + y) + p = Len(b) + (y + p) /\ y + p \in 1 .. Len(c)
        <5> HIDE DEF y
        <5> QED
          BY ONLY <4>2, <4>4, <4>5
      <4> QED
        BY <4>3, <4>6
    <3>5. c[q] = <<spans[i].file, spans[i].offset + p>>
      BY <3>1 DEF Copies, spans, key
    <3> HIDE DEF q
    <3>6. (b \o c)[o + p] = c[q]
      BY <1>5, <3>4
    <3> QED
      BY <3>1, <3>5, <3>6 DEF o
  <2>7. CASE n < m
    <3>1. at[n] <= at[m - 1]
      BY <1>1, <1>2, <2>1, <2>7, SumsGrow
    <3> QED
      BY <2>2, <2>3, <2>4, <3>1
  <2>8. m < n \/ m = n \/ n < m
    BY <1>1, <2>1
  <2> QED
    BY <2>5, <2>6, <2>7, <2>8
<1> QED
  BY <1>4, <1>5, <1>6, <1>7 DEF BlobIsTrue, at, key

\* A span of the blob that is there holds the bytes of its span of the source.
LEMMA TheSameBytes ==
  ASSUME NEW cp \in Checkpoints, Prepares(cp), NEW b, BlobIsTrue(cp, b), NEW k \in Keys(cp),
         NEW i \in DOMAIN ManifestOf(cp)[k],
         At(cp, k, i) + ManifestOf(cp)[k][i].nbytes <= Len(b)
  PROVE  LET s == ManifestOf(cp)[k][i]
         IN  Pread(b, At(cp, k, i), s.nbytes) = Pread(ShardBytes(cp, s.file), s.offset, s.nbytes)
<1> DEFINE s == ManifestOf(cp)[k][i]
           f == s.file
           off == s.offset
           n == s.nbytes
           o == At(cp, k, i)
           c == ShardBytes(cp, f)
<1>1. s \in Places(Shards) /\ off + n <= cp.size[f]
  BY ManifestIs, SpansOfABundle
<1>2. f \in Shards /\ off \in Nat /\ n \in Nat /\ o \in Nat /\ b \in Seq(SourceBytes)
  BY <1>1, AtIs DEF Places, BlobIsTrue
<1>3. c \in Seq(SourceBytes) /\ off + n <= Len(c) /\ \A j \in 1 .. cp.size[f] : c[j] = <<f, j>>
  BY <1>1, <1>2, ShardBytesAre
<1>4. \A p \in 1 .. n : b[o + p] = <<f, off + p>>
  <2>1. ASSUME NEW p \in 1 .. n
        PROVE  o + p <= Len(b)
    <3>1. o + n <= Len(b) /\ Len(b) \in Nat
      BY <1>2, LenProperties
    <3> HIDE DEF o, n
    <3> QED
      BY <1>2, <3>1
  <2> QED
    BY <2>1 DEF BlobIsTrue
<1>5. o + n <= Len(b)
  OBVIOUS
<1> HIDE DEF s, f, off, n, o, c
<1>6. \A p \in 1 .. n : c[off + p] = <<f, off + p>>
  <2>1. cp.size[f] \in Nat /\ Len(c) = cp.size[f]
    BY <1>2, ShardBytesAre DEF c
  <2>2. \A p \in 1 .. n : off + p \in 1 .. cp.size[f]
    BY <1>2, <1>3, <2>1
  <2> QED
    BY <1>3, <2>2
<1>7. /\ Pread(b, o, n) \in Seq(SourceBytes) /\ Len(Pread(b, o, n)) = n
      /\ \A p \in 1 .. n : Pread(b, o, n)[p] = b[o + p]
  BY ONLY <1>2, <1>5, PreadIs
<1>8. /\ Pread(c, off, n) \in Seq(SourceBytes) /\ Len(Pread(c, off, n)) = n
      /\ \A p \in 1 .. n : Pread(c, off, n)[p] = c[off + p]
  BY ONLY <1>2, <1>3, PreadIs
<1>9. Pread(b, o, n) = Pread(c, off, n)
  <2> DEFINE x == Pread(b, o, n)
             y == Pread(c, off, n)
  <2>1. /\ x \in Seq(SourceBytes) /\ y \in Seq(SourceBytes) /\ Len(x) = Len(y)
        /\ \A p \in 1 .. Len(x) : x[p] = y[p]
    BY <1>4, <1>6, <1>7, <1>8
  <2>2. \A p \in 1 .. Len(x) : x[p] = y[p]
    BY <2>1
  <2> HIDE DEF x, y
  <2>3. x \in Seq(SourceBytes) /\ y \in Seq(SourceBytes) /\ Len(x) = Len(y)
    BY <2>1
  <2> DEFINE m == Len(x)
  <2>4. m \in Nat /\ x \in [1 .. m -> SourceBytes] /\ y \in [1 .. m -> SourceBytes]
    BY <2>3, LenProperties
  <2>5. \A p \in 1 .. m : x[p] = y[p]
    BY <2>2
  <2> HIDE DEF m
  <2>6. x = y
    BY <2>4, <2>5
  <2> QED
    BY <2>6 DEF x, y
<1> QED
  BY <1>9 DEF s, f, off, n, o, c

\* What is there of the source and of the blob, and the sizes that the loader sees.
Holds(cp, b, content) ==
  /\ content[Blob] = b
  /\ \A f \in Shards : content[f] = ShardBytes(cp, f)

\* What is read is a buffer of each role.
LEMMA ReadBundleIs ==
  ASSUME NEW spans, NEW content
  PROVE  ReadBundle(spans, content)
           = [r \in {s.role : s \in ToSet(spans)} |-> ReadBundle(spans, content)[r]]
<1> DEFINE R == {s.role : s \in ToSet(spans)}
           part(r) == LET span == CHOOSE s \in ToSet(spans) : s.role = r
                          run == CHOOSE run \in Runs(spans) : span \in run
                      IN  Pread(RunBytes(run, content), span.offset - First(run).offset, span.nbytes)
<1>1. ReadBundle(spans, content) = [r \in R |-> part(r)]
  BY DEF ReadBundle
<1> HIDE DEF part
<1> QED
  BY <1>1

\* A bundle that is read from the source.
LEMMA TheOldIsRead ==
  ASSUME NEW cp \in Checkpoints, Prepares(cp), NEW b, NEW content, Holds(cp, b, content),
         NEW k \in Keys(cp)
  PROVE  \A i \in DOMAIN ManifestOf(cp)[k] :
           ReadBundle(ManifestOf(cp)[k], content)[ManifestOf(cp)[k][i].role]
             = Pread(ShardBytes(cp, ManifestOf(cp)[k][i].file), ManifestOf(cp)[k][i].offset,
                     ManifestOf(cp)[k][i].nbytes)
<1> DEFINE spans == ManifestOf(cp)[k]
<1>1. /\ IsBundle(spans, Shards)
      /\ \A i \in DOMAIN spans : spans[i].offset + spans[i].nbytes <= cp.size[spans[i].file]
  BY ManifestIs
<1> HIDE DEF spans
<1>2. /\ DOMAIN spans = 1 .. Len(spans)
      /\ \A i \in DOMAIN spans : spans[i] \in ToSet(spans) /\ spans[i] \in Places(Shards)
      /\ ToSet(spans) = {spans[i] : i \in DOMAIN spans}
  BY <1>1, SpansOfABundle DEF ToSet
<1>3. \A i \in DOMAIN spans : /\ spans[i].file \in Shards
                              /\ content[spans[i].file] = ShardBytes(cp, spans[i].file)
                              /\ content[spans[i].file] \in Seq(SourceBytes)
                              /\ Len(content[spans[i].file]) = cp.size[spans[i].file]
  BY <1>2, ShardBytesAre DEF Places, Holds
<1>4. \A s \in ToSet(spans) : /\ content[s.file] \in Seq(SourceBytes)
                              /\ s.offset + s.nbytes <= Len(content[s.file])
  BY <1>1, <1>2, <1>3
<1>5. \A s \in ToSet(spans) :
        ReadBundle(spans, content)[s.role] = Pread(content[s.file], s.offset, s.nbytes)
  BY <1>1, <1>4, ReadIsDirect
<1>6. \A i \in DOMAIN spans :
        ReadBundle(spans, content)[spans[i].role]
          = Pread(ShardBytes(cp, spans[i].file), spans[i].offset, spans[i].nbytes)
  BY <1>2, <1>3, <1>5
<1> QED
  BY <1>6 DEF spans

\* A repacked manifest that validates names only bytes that are there: every expert is read
\* in one pread and is what it is in the source.
LEMMA TheNewIsRead ==
  ASSUME NEW cp \in Checkpoints, Prepares(cp), NEW b, BlobIsTrue(cp, b),
         NEW content, Holds(cp, b, content), NEW k \in Keys(cp), NEW new,
         new = Appended(ManifestOf(cp)[k], Place(cp, k)),
         \A i \in DOMAIN new : new[i].offset + new[i].nbytes <= Len(b)
  PROVE  /\ Cardinality(Runs(new)) = 1
         /\ ReadBundle(new, content) = ReadBundle(ManifestOf(cp)[k], content)
<1> DEFINE old == ManifestOf(cp)[k]
           pos == Place(cp, k)
<1>1. IsBundle(old, Shards) /\ Len(old) > 0 /\ pos \in Nat /\ new = Appended(old, pos)
  BY ManifestIs, PlaceIs
<1>2. b \in Seq(SourceBytes) /\ content[Blob] = b
  BY DEF BlobIsTrue, Holds
<1>3. \A i \in DOMAIN old : At(cp, k, i) = pos + BytesUpTo(old)[i - 1]
  BY DEF At
<1>a. \A i \in DOMAIN old :
        At(cp, k, i) + old[i].nbytes <= Len(b)
          => Pread(b, At(cp, k, i), old[i].nbytes)
               = Pread(ShardBytes(cp, old[i].file), old[i].offset, old[i].nbytes)
  BY TheSameBytes
<1>b. \A i \in DOMAIN old : ReadBundle(old, content)[old[i].role]
                              = Pread(ShardBytes(cp, old[i].file), old[i].offset, old[i].nbytes)
  BY TheOldIsRead
<1> HIDE DEF old, pos
<1>4. /\ IsBundle(new, Files) /\ DOMAIN new = DOMAIN old /\ Len(new) = Len(old)
      /\ \A i \in DOMAIN old : /\ new[i].file = Blob
                               /\ new[i].offset = pos + BytesUpTo(old)[i - 1]
                               /\ new[i].nbytes = old[i].nbytes
                               /\ new[i].role = old[i].role
  BY <1>1, AppendedIs
<1>5. Cardinality(Runs(new)) = 1
  BY <1>1, AppendedIsOneRun
<1>6. ToSet(new) = {new[i] : i \in DOMAIN old} /\ ToSet(old) = {old[i] : i \in DOMAIN old}
  BY <1>1, <1>4, SpansOfABundle DEF ToSet
<1>7. \A s \in ToSet(new) : /\ content[s.file] \in Seq(SourceBytes)
                            /\ s.offset + s.nbytes <= Len(content[s.file])
  BY <1>2, <1>4, <1>6
<1>8. \A s \in ToSet(new) :
        ReadBundle(new, content)[s.role] = Pread(content[s.file], s.offset, s.nbytes)
  BY <1>4, <1>7, ReadIsDirect
<1>9. {s.role : s \in ToSet(new)} = {s.role : s \in ToSet(old)}
  BY <1>4, <1>6
<1> DEFINE x == ReadBundle(new, content)
           y == ReadBundle(old, content)
           R == {s.role : s \in ToSet(old)}
<1>10. ASSUME NEW r \in R
       PROVE  x[r] = y[r]
  <2>1. PICK i \in DOMAIN old : r = old[i].role
    BY <1>6
  <2>2. new[i] \in ToSet(new) /\ new[i].role = r /\ new[i].file = Blob
        /\ new[i].offset = At(cp, k, i) /\ new[i].nbytes = old[i].nbytes
    BY <1>3, <1>4, <1>6, <2>1
  <2>3. x[r] = Pread(b, At(cp, k, i), old[i].nbytes)
    BY <1>2, <1>8, <2>2
  <2>4. At(cp, k, i) + old[i].nbytes <= Len(b)
    BY <1>4, <2>2
  <2>5. y[r] = Pread(ShardBytes(cp, old[i].file), old[i].offset, old[i].nbytes)
    BY <1>b, <2>1
  <2> QED
    BY <1>a, <2>3, <2>4, <2>5
<1>11. x = [r \in R |-> x[r]] /\ y = [r \in R |-> y[r]]
  BY <1>9, ReadBundleIs
<1> HIDE DEF x, y, R
<1>12. x = y
  BY <1>10, <1>11
<1> QED
  BY <1>5, <1>12 DEF x, y, old
--------------------------------------------------------------------------------
(***************************************************************************)
(* The invariant.                                                          *)
(***************************************************************************)

\* The manifests are those of the checkpoint, which is then one that is prepared.
FilesInv ==
  /\ checkpoint \in Checkpoints
  /\ DOMAIN files = {"source", "repacked"}
  /\ files["source"] \in {Absent, Torn, Whole(ManifestOf(checkpoint))}
  /\ files["repacked"] \in {Absent, Torn, Whole(Rewritten(checkpoint, Count(checkpoint)))}
  /\ files["source"] # Absent \/ files["repacked"] # Absent \/ stage # "off"
       => Prepares(checkpoint)
  /\ stage \in {"copying", "describing", "verifying"}
       => files["source"] = Whole(ManifestOf(checkpoint))

\* The blob is a beginning of the one layout the checkpoint has.
BlobInv ==
  /\ Prepares(checkpoint) => BlobIsTrue(checkpoint, blob)
  /\ blob \in Seq(SourceBytes) /\ flushed \in 0 .. Len(blob)

\* n bundles are written, m have been taken from the deque, and the deque has the rest of
\* those that are with the pool: it is not empty while keys are left.
Copying(cp, n, m) ==
  /\ n \in 0 .. Count(cp) /\ m \in 0 .. Count(cp) /\ submitted \in m .. Count(cp)
  /\ repacked = Rewritten(cp, n) /\ Len(blob) = Base(cp)[n]
  /\ pending = SubSeq(SortedKeys, m + 1, submitted)
  /\ m < Count(cp) => m < submitted
  /\ \/ current = NoKey /\ m = n
     \/ current # NoKey /\ m = n + 1 /\ current = KeyAt(cp, m)
CopyingInv == stage = "copying" => \E n, m \in 0 .. Count(checkpoint) : Copying(checkpoint, n, m)

\* Everything is written and has reached the file.
AllWritten(cp) == Len(blob) = Base(cp)[Count(cp)] /\ flushed = Len(blob)
EndInv ==
  /\ stage \in {"describing", "verifying"}
       => AllWritten(checkpoint) /\ repacked = Rewritten(checkpoint, Count(checkpoint))
  /\ outcome = "verified" \/ stage = "verifying"
       => files["repacked"] = Whole(Rewritten(checkpoint, Count(checkpoint)))
  /\ outcome = "verified" => stage = "off" /\ AllWritten(checkpoint)
  /\ outcome # "mismatch"

RepackInv == FilesInv /\ BlobInv /\ CopyingInv /\ EndInv
--------------------------------------------------------------------------------
(***************************************************************************)
(* The window of the keys, and the manifest as it is rewritten.            *)
(***************************************************************************)

LEMMA AWindowIs ==
  ASSUME NEW K, NEW s \in Seq(K), NEW m \in Nat, NEW n \in Nat, m <= n, n <= Len(s)
  PROVE  /\ SubSeq(s, m + 1, n) \in Seq(K) /\ Len(SubSeq(s, m + 1, n)) = n - m
         /\ \A i \in 1 .. n - m : SubSeq(s, m + 1, n)[i] = s[m + i]
<1>1. Len(s) \in Nat /\ \A i \in 1 .. Len(s) : s[i] \in K
  BY ElementOfSeq, LenProperties
<1> DEFINE w == SubSeq(s, m + 1, n)
<1>2. m + 1 \in Int /\ n \in Int /\ \A i \in m + 1 .. n : s[i] \in K
  BY <1>1
<1>3. /\ w \in Seq(K)
      /\ Len(w) = (IF m + 1 <= n THEN n - (m + 1) + 1 ELSE 0)
      /\ \A i \in 1 .. n - (m + 1) + 1 : w[i] = s[(m + 1) + i - 1]
  BY <1>2, SubSeqProperties
<1> HIDE DEF w
<1>4. Len(w) = n - m
  BY <1>3
<1>5. ASSUME NEW i \in 1 .. n - m
      PROVE  w[i] = s[m + i]
  <2>1. i \in 1 .. n - (m + 1) + 1 /\ (m + 1) + i - 1 = m + i
    OBVIOUS
  <2> QED
    BY <1>3, <2>1
<1> QED
  BY <1>3, <1>4, <1>5 DEF w

\* The window moves by one key.
LEMMA TheWindowMoves ==
  ASSUME NEW K, NEW s \in Seq(K), NEW m \in Nat, NEW n \in Nat, NEW l \in Nat,
         m < n, n <= l, l <= Len(s)
  PROVE  /\ Head(SubSeq(s, m + 1, n)) = s[m + 1]
         /\ Tail(SubSeq(s, m + 1, n)) \o SubSeq(s, n + 1, l) = SubSeq(s, (m + 1) + 1, l)
<1> DEFINE a == SubSeq(s, m + 1, n)
           t == Tail(a)
           b == SubSeq(s, n + 1, l)
           c == SubSeq(s, (m + 1) + 1, l)
<1>0. Len(s) \in Nat
  BY LenProperties
<1>1. a \in Seq(K) /\ Len(a) = n - m /\ \A i \in 1 .. n - m : a[i] = s[m + i]
  BY <1>0, AWindowIs
<1>2. b \in Seq(K) /\ Len(b) = l - n /\ \A i \in 1 .. l - n : b[i] = s[n + i]
  BY <1>0, AWindowIs
<1>3. c \in Seq(K) /\ Len(c) = l - (m + 1) /\ \A i \in 1 .. l - (m + 1) : c[i] = s[(m + 1) + i]
  <2>1. m + 1 \in Nat /\ m + 1 <= l
    OBVIOUS
  <2> QED
    BY <1>0, <2>1, AWindowIs
<1> HIDE DEF a, b, c
<1>4. a # <<>>
  BY <1>1, EmptySeq
<1>5. Head(a) = s[m + 1]
  <2>1. 1 \in 1 .. n - m /\ Head(a) = a[1]
    BY <1>1, <1>4, HeadTailProperties
  <2> QED
    BY <1>1, <2>1
<1>6. t \in Seq(K) /\ Len(t) = (n - m) - 1 /\ \A i \in 1 .. (n - m) - 1 : t[i] = s[(m + 1) + i]
  <2>1. t \in Seq(K) /\ Len(t) = Len(a) - 1 /\ \A i \in 1 .. Len(t) : t[i] = a[i + 1]
    BY <1>1, <1>4, HeadTailProperties
  <2>2. \A i \in 1 .. (n - m) - 1 : i + 1 \in 1 .. n - m /\ m + (i + 1) = (m + 1) + i
    OBVIOUS
  <2> HIDE DEF t
  <2> QED
    BY <1>1, <2>1, <2>2
<1> HIDE DEF t
<1>7. /\ t \o b \in Seq(K) /\ Len(t \o b) = Len(t) + Len(b)
      /\ \A i \in 1 .. Len(t) : (t \o b)[i] = t[i]
      /\ \A i \in 1 .. Len(b) : (t \o b)[Len(t) + i] = b[i]
  <2>1. t \in Seq(K) /\ b \in Seq(K)
    BY <1>2, <1>6
  <2> QED
    BY ONLY <2>1, ConcatIs, SMTT(30)
<1> DEFINE d == t \o b
<1>8. Len(d) = Len(c) /\ Len(c) = l - (m + 1)
  BY <1>2, <1>3, <1>6, <1>7
<1>9. ASSUME NEW i \in 1 .. Len(c)
      PROVE  d[i] = c[i]
  <2>1. c[i] = s[(m + 1) + i]
    BY <1>3
  <2>2. CASE i <= (n - m) - 1
    <3>1. i \in 1 .. (n - m) - 1
      BY <1>3, <2>2
    <3> QED
      BY <1>6, <1>7, <2>1, <3>1
  <2>3. CASE ~(i <= (n - m) - 1)
    <3> DEFINE j == i - ((n - m) - 1)
    <3>1. j \in 1 .. l - n /\ i = Len(t) + j /\ n + j = (m + 1) + i
      BY <1>3, <1>6, <2>3
    <3> HIDE DEF j
    <3>2. d[i] = b[j]
      BY <1>2, <1>7, <3>1
    <3> QED
      BY <1>2, <2>1, <3>1, <3>2
  <2> QED
    BY <2>2, <2>3
<1>10. d = c
  <2>1. d \in Seq(K) /\ c \in Seq(K)
    BY <1>3, <1>7
  <2> DEFINE z == Len(c)
  <2>2. z \in Nat /\ d \in [1 .. z -> K] /\ c \in [1 .. z -> K]
    <3> HIDE DEF d
    <3> QED
      BY <1>8, <2>1, LenProperties
  <2>3. \A i \in 1 .. z : d[i] = c[i]
    BY <1>9
  <2> HIDE DEF z, d
  <2> QED
    BY <2>2, <2>3
<1> QED
  BY <1>5, <1>10 DEF a, t, b, c

LEMMA SortedKeysAre ==
  ASSUME checkpoint \in Checkpoints
  PROVE  /\ SortedKeys \in Seq(Keys(checkpoint)) /\ Len(SortedKeys) = Count(checkpoint)
         /\ Count(checkpoint) \in Nat
         /\ \A i \in 1 .. Count(checkpoint) : SortedKeys[i] = KeyAt(checkpoint, i)
<1> DEFINE N == Count(checkpoint)
           s == [i \in 1 .. N |-> KeyAt(checkpoint, i)]
<1>1. SortedKeys = s
  BY DEF SortedKeys, Count, KeyAt
<1>2. N \in Nat /\ \A i \in 1 .. N : KeyAt(checkpoint, i) \in Keys(checkpoint)
  BY KeysInOrder
<1> HIDE DEF N
<1>3. s \in [1 .. N -> Keys(checkpoint)] /\ \A i \in 1 .. N : s[i] = KeyAt(checkpoint, i)
  BY <1>2
<1>4. DOMAIN s = 1 .. N
  OBVIOUS
<1> HIDE DEF s
<1>5. s \in Seq(Keys(checkpoint))
  BY <1>2, <1>3, SeqDef
<1>6. Len(s) = N
  BY <1>2, <1>4, <1>5, LenProperties
<1> QED
  BY <1>1, <1>2, <1>3, <1>5, <1>6 DEF N

LEMMA NothingRewritten ==
  ASSUME NEW cp \in Checkpoints
  PROVE  Rewritten(cp, 0) = ManifestOf(cp)
<1>1. \A k \in Keys(cp) : ~(IndexOf(cp, k) <= 0)
  BY KeysInOrder
<1>2. Rewritten(cp, 0) = [k \in Keys(cp) |-> ManifestOf(cp)[k]]
  BY <1>1 DEF Rewritten
<1>3. ManifestOf(cp) = [k \in Keys(cp) |-> ManifestOf(cp)[k]]
  BY DEF ManifestOf
<1> QED
  BY <1>2, <1>3

LEMMA TheNextIsRewritten ==
  ASSUME NEW cp \in Checkpoints, NEW n \in 1 .. Count(cp)
  PROVE  Rewritten(cp, n)
           = [Rewritten(cp, n - 1) EXCEPT
                ![KeyAt(cp, n)] = Appended(@, Place(cp, KeyAt(cp, n)))]
<1> DEFINE key == KeyAt(cp, n)
           I(k) == IndexOf(cp, k)
           M == ManifestOf(cp)
           App(k) == Appended(M[k], Place(cp, k))
           old == [k \in Keys(cp) |-> IF I(k) <= n - 1 THEN App(k) ELSE M[k]]
           new == [k \in Keys(cp) |-> IF I(k) <= n THEN App(k) ELSE M[k]]
<1>1. /\ key \in Keys(cp) /\ I(key) = n /\ Count(cp) \in Nat
      /\ \A k \in Keys(cp) : I(k) \in Nat /\ KeyAt(cp, I(k)) = k
  BY KeysInOrder
<1>2. old = Rewritten(cp, n - 1) /\ new = Rewritten(cp, n)
  BY DEF Rewritten
<1>3. \A k \in Keys(cp) : k # key => I(k) # n
  BY <1>1
<1> HIDE DEF key, I, M, App
<1>4. ~(I(key) <= n - 1) /\ I(key) <= n
  BY <1>1
<1>5. \A k \in Keys(cp) : k # key => (I(k) <= n - 1 <=> I(k) <= n)
  BY <1>1, <1>3
<1>6. old[key] = M[key]
  BY <1>1, <1>4
<1>7. [old EXCEPT ![key] = App(key)] = new
  BY <1>1, <1>4, <1>5
<1>8. App(key) = Appended(old[key], Place(cp, key))
  BY <1>6 DEF App
<1> HIDE DEF old, new
<1> QED
  BY <1>2, <1>7, <1>8 DEF key
--------------------------------------------------------------------------------
(***************************************************************************)
(* Every step keeps the invariant.                                         *)
(***************************************************************************)

LEMMA RepackInit == Init => RepackInv
<1> SUFFICES ASSUME Init PROVE RepackInv
  OBVIOUS
<1>1. /\ checkpoint \in Checkpoints /\ stage = "off" /\ outcome = "none"
      /\ files = [p \in {"source", "repacked"} |-> Absent]
      /\ blob = <<>> /\ flushed = 0
  BY DEF Init
<1>2. FilesInv
  BY <1>1 DEF FilesInv
<1>3. BlobInv
  <2>1. blob \in Seq(SourceBytes) /\ Len(blob) = 0
    BY <1>1, EmptySeq
  <2>2. Prepares(checkpoint) => BlobIsTrue(checkpoint, blob)
    BY <1>1, AnEmptyBlobIsTrue
  <2> QED
    BY <1>1, <2>1, <2>2 DEF BlobInv
<1>4. CopyingInv /\ EndInv
  BY <1>1 DEF CopyingInv, EndInv
<1> QED
  BY <1>2, <1>3, <1>4 DEF RepackInv

\* The manifest files and the blob while a step leaves them alone, or leaves the process.
LEMMA PreparingKeeps ==
  ASSUME RepackInv, (\E overwrite \in BOOLEAN : Prepare(overwrite)) \/ PrepareEnds
  PROVE  RepackInv'
<1> USE DEF Ends
<1>1. checkpoint' = checkpoint /\ UNCHANGED <<blob, flushed, submitted, pending, current, repacked>>
      /\ files'["repacked"] = files["repacked"] /\ DOMAIN files' = {"source", "repacked"}
      /\ stage' \in {"off", "preparing"} /\ outcome' \in {"refused", "exists", "none", "prepared"}
  BY DEF RepackInv, FilesInv, Prepare, PrepareEnds, toolVars
<1>2. FilesInv'
  <2>1. CASE \E overwrite \in BOOLEAN : Prepare(overwrite)
    <3>a. PICK overwrite \in BOOLEAN : Prepare(overwrite)
      BY <2>1
    <3>1. files' = files \/ (files' = [files EXCEPT !["source"] = Torn] /\ Prepares(checkpoint))
      BY <3>a DEF Prepare
    <3>2. stage' # "off" => Prepares(checkpoint)
      BY <3>a, Zenon DEF Prepare
    <3>3. CASE files' = files
      BY <1>1, <3>2, <3>3 DEF RepackInv, FilesInv
    <3>4. CASE files' = [files EXCEPT !["source"] = Torn] /\ Prepares(checkpoint)
      <4>1. files'["source"] = Torn
        BY <3>4 DEF RepackInv, FilesInv
      <4> QED
        BY <1>1, <3>4, <4>1 DEF RepackInv, FilesInv
    <3> QED
      BY <3>1, <3>3, <3>4
  <2>2. CASE PrepareEnds
    <3>1. files'["source"] = Whole(ManifestOf(checkpoint)) /\ Prepares(checkpoint)
      BY <2>2 DEF PrepareEnds, RepackInv, FilesInv
    <3> QED
      BY <1>1, <3>1 DEF RepackInv, FilesInv
  <2> QED
    BY <2>1, <2>2
<1>3. BlobInv'
  BY <1>1 DEF RepackInv, BlobInv
<1>4. CopyingInv' /\ EndInv'
  BY <1>1 DEF RepackInv, CopyingInv, EndInv
<1> QED
  BY <1>2, <1>3, <1>4 DEF RepackInv

LEMMA StartRepackKeeps ==
  ASSUME RepackInv, StartRepack
  PROVE  RepackInv'
<1> USE DEF Ends
<1> DEFINE cp == checkpoint
           N == Count(cp)
<1>1. /\ checkpoint' = checkpoint /\ files' = files /\ stage = "off" /\ cp \in Checkpoints
      /\ files["source"].state = "whole"
  BY DEF StartRepack, RepackInv, FilesInv
<1>2. files["source"] = Whole(ManifestOf(cp)) /\ Prepares(cp)
  <2>1. files["source"] # Absent /\ files["source"] # Torn
    BY <1>1 DEF Absent, Torn
  <2> QED
    BY <2>1 DEF RepackInv, FilesInv
<1>3. FilesInv'
  BY <1>1, <1>2 DEF RepackInv, FilesInv
<1>4. CASE Ends("no space")
           /\ UNCHANGED <<blob, flushed, submitted, pending, job, current, repacked>>
  <2>1. BlobInv'
    BY <1>1, <1>4 DEF RepackInv, BlobInv
  <2>2. CopyingInv' /\ EndInv'
    BY <1>1, <1>4 DEF RepackInv, CopyingInv, EndInv
  <2> QED
    BY <1>3, <2>1, <2>2 DEF RepackInv
<1>5. CASE /\ stage' = "copying" /\ outcome' = "none"
           /\ blob' = <<>> /\ flushed' = 0
           /\ repacked' = Bundles("source") /\ current' = NoKey
           /\ submitted' = IF Lookahead <= Len(SortedKeys) THEN Lookahead ELSE Len(SortedKeys)
           /\ pending' = SubSeq(SortedKeys, 1, submitted')
  <2>1. blob' \in Seq(SourceBytes) /\ Len(blob') = 0
    BY <1>5, EmptySeq
  <2>2. BlobInv'
    BY <1>1, <1>2, <1>5, <2>1, AnEmptyBlobIsTrue DEF BlobInv
  <2>3. Len(SortedKeys) = N /\ N \in Nat /\ SortedKeys' = SortedKeys
    BY <1>1, SortedKeysAre DEF SortedKeys
  <2>4. repacked' = Rewritten(cp, 0) /\ Len(blob') = Base(cp)[0]
    <3>1. Base(cp)[0] = 0
      BY <1>1, <1>2, BaseIs DEF Sums
    <3> QED
      BY <1>1, <1>2, <1>5, <2>1, <3>1, NothingRewritten DEF Bundles, Whole
  <2>5. submitted' \in 0 .. N /\ (0 < N => 0 < submitted')
    BY <1>5, <2>3, RepackAssumption
  <2>6. Copying(cp, 0, 0)'
    <3>1. 0 \in 0 .. N /\ 0 + 1 = 1
      BY <2>3
    <3> QED
      BY <1>1, <1>5, <2>3, <2>4, <2>5, <3>1 DEF Copying
  <2>7. CopyingInv'
    BY <1>1, <2>3, <2>6 DEF CopyingInv
  <2>8. EndInv'
    BY <1>5 DEF EndInv
  <2> QED
    BY <1>3, <2>2, <2>7, <2>8 DEF RepackInv
<1> QED
  BY <1>4, <1>5 DEF StartRepack

\* A job of the pool is none of the writer's business until its key is popped.
LEMMA JobEndsKeeps ==
  ASSUME RepackInv, \E k \in DOMAIN job : JobEnds(k)
  PROVE  RepackInv'
<1>1. UNCHANGED <<checkpoint, stage, outcome, files, blob, flushed, submitted, pending,
                  current, repacked, runs>>
  BY DEF JobEnds
<1>2. FilesInv' /\ BlobInv' /\ EndInv'
  BY <1>1 DEF RepackInv, FilesInv, BlobInv, EndInv, AllWritten
<1>3. CopyingInv'
  BY <1>1 DEF RepackInv, CopyingInv, Copying, SortedKeys
<1> QED
  BY <1>2, <1>3 DEF RepackInv

\* The process ends, or is killed: the blob keeps what it has, or what has reached the file.
LEMMA ExitsKeeps ==
  ASSUME RepackInv, checkpoint' = checkpoint, files' = files, stage # "off",
         NEW how, Exits(how), how \notin {"verified", "mismatch"},
         \/ blob' = blob /\ flushed' = Len(blob)
         \/ blob' = SubSeq(blob, 1, flushed) /\ flushed' = flushed
  PROVE  RepackInv'
<1>1. stage' = "off" /\ outcome' = how
  BY DEF Exits, Ends
<1>2. FilesInv'
  BY <1>1 DEF RepackInv, FilesInv
<1>3. Prepares(checkpoint) /\ checkpoint \in Checkpoints /\ BlobIsTrue(checkpoint, blob)
      /\ blob \in Seq(SourceBytes) /\ flushed \in 0 .. Len(blob)
  BY DEF RepackInv, FilesInv, BlobInv
<1>4. BlobInv'
  <2>1. CASE blob' = blob /\ flushed' = Len(blob)
    <3>1. Len(blob) \in 0 .. Len(blob)
      BY <1>3, LenProperties
    <3> QED
      BY <1>3, <2>1, <3>1 DEF BlobInv
  <2>2. CASE blob' = SubSeq(blob, 1, flushed) /\ flushed' = flushed
    <3>1. BlobIsTrue(checkpoint, blob') /\ Len(blob') = flushed
      BY <1>3, <2>2, ABeginningIsTrue
    <3>2. blob' \in Seq(SourceBytes) /\ flushed' \in 0 .. Len(blob')
      BY <1>3, <2>2, <3>1, LenProperties DEF BlobIsTrue
    <3> QED
      BY <3>1, <3>2 DEF BlobInv
  <2> QED
    BY <2>1, <2>2
<1>5. CopyingInv' /\ EndInv'
  BY <1>1 DEF RepackInv, CopyingInv, EndInv
<1> QED
  BY <1>2, <1>4, <1>5 DEF RepackInv

\* popleft: the next key is taken and the window moves by one.
LEMMA PopKeeps ==
  ASSUME RepackInv, Pop
  PROVE  RepackInv'
<1> DEFINE cp == checkpoint
           N == Count(cp)
           s == SortedKeys
<1>1. /\ stage = "copying" /\ current = NoKey /\ pending # <<>> /\ current' = Head(pending)
      /\ submitted' = (IF submitted + 1 <= Len(s) THEN submitted + 1 ELSE Len(s))
      /\ pending' = Tail(pending) \o SubSeq(s, submitted + 1, submitted')
      /\ UNCHANGED <<checkpoint, stage, outcome, files, blob, flushed, repacked>>
  BY DEF Pop, Submits
<1>2. /\ s \in Seq(Keys(cp)) /\ Len(s) = N /\ N \in Nat /\ cp \in Checkpoints
      /\ \A i \in 1 .. N : s[i] = KeyAt(cp, i)
  BY SortedKeysAre DEF RepackInv, FilesInv
<1>3. PICK n, m \in 0 .. N : Copying(cp, n, m)
  BY <1>1 DEF RepackInv, CopyingInv
<1>4. /\ m = n /\ n \in 0 .. N /\ submitted \in m .. N /\ m \in Nat /\ submitted \in Nat
      /\ repacked = Rewritten(cp, n) /\ Len(blob) = Base(cp)[n]
      /\ pending = SubSeq(s, m + 1, submitted)
  BY <1>1, <1>2, <1>3 DEF Copying
<1> HIDE DEF N, s
<1>5. m < submitted
  <2>1. SUFFICES ASSUME ~(m < submitted) PROVE FALSE
    OBVIOUS
  <2>2. m <= submitted /\ submitted <= Len(s)
    BY <1>2, <1>4
  <2>3. pending \in Seq(Keys(cp)) /\ Len(pending) = submitted - m
    BY <1>2, <1>4, <2>2, AWindowIs
  <2>4. Len(pending) = 0
    BY <1>4, <2>1, <2>3
  <2> QED
    BY <1>1, <2>3, <2>4, EmptySeq
<1>6. /\ submitted' \in Nat /\ submitted <= submitted' /\ submitted' <= N
      /\ submitted' = N \/ submitted' = submitted + 1
  BY <1>1, <1>2, <1>4
<1>7. Head(pending) = s[m + 1] /\ pending' = SubSeq(s, (m + 1) + 1, submitted')
  <2>1. s \in Seq(Keys(cp)) /\ m \in Nat /\ submitted \in Nat /\ submitted' \in Nat
        /\ m < submitted /\ submitted <= submitted' /\ submitted' <= Len(s)
    BY <1>2, <1>4, <1>5, <1>6
  <2> DEFINE u == submitted
             l == submitted'
             K == Keys(cp)
  <2>2. s \in Seq(K) /\ m \in Nat /\ u \in Nat /\ l \in Nat /\ m < u /\ u <= l /\ l <= Len(s)
    BY <2>1
  <2> HIDE DEF u, l, K
  <2>3. /\ Head(SubSeq(s, m + 1, u)) = s[m + 1]
        /\ Tail(SubSeq(s, m + 1, u)) \o SubSeq(s, u + 1, l) = SubSeq(s, (m + 1) + 1, l)
    BY ONLY <2>2, TheWindowMoves, Zenon
  <2> QED
    BY <1>1, <1>4, <2>3 DEF u, l
<1>8. /\ m + 1 \in 1 .. N /\ m + 1 \in 0 .. N /\ submitted' \in m + 1 .. N
      /\ m + 1 < N => m + 1 < submitted'
  BY <1>2, <1>4, <1>5, <1>6
<1>9. current' = KeyAt(cp, m + 1) /\ current' # NoKey
  <2>1. current' = KeyAt(cp, m + 1)
    BY <1>1, <1>2, <1>7, <1>8
  <2>2. KeyAt(cp, m + 1) # NoKey
    <3>1. \A x, y : <<x, y>> # <<>>
      OBVIOUS
    <3> QED
      BY <3>1 DEF KeyAt, NoKey
  <2> QED
    BY <2>1, <2>2
<1>10. s' = s /\ cp' = cp
  BY <1>1 DEF s, SortedKeys
<1>11. Copying(cp, n, m + 1)'
  BY <1>1, <1>4, <1>7, <1>8, <1>9, <1>10 DEF Copying, s, N
<1>12. CopyingInv'
  <2>1. n \in 0 .. Count(cp) /\ m + 1 \in 0 .. Count(cp)
    BY <1>4, <1>8 DEF N
  <2> QED
    BY <1>10, <1>11, <2>1 DEF CopyingInv
<1>13. FilesInv' /\ BlobInv' /\ EndInv'
  BY <1>1 DEF RepackInv, FilesInv, BlobInv, EndInv, AllWritten
<1> QED
  BY <1>12, <1>13 DEF RepackInv

\* The bundle of the key is written: its bytes, and its spans in the new manifest.
LEMMA WriteKeeps ==
  ASSUME RepackInv, Write
  PROVE  RepackInv'
<1> DEFINE cp == checkpoint
           N == Count(cp)
           M == ManifestOf(cp)
<1>1. /\ stage = "copying" /\ current # NoKey
      /\ repacked' = [repacked EXCEPT ![current] = Appended(@, Len(blob))]
      /\ blob' = blob \o Chunks(current)
      /\ flushed' \in flushed .. Len(blob')
      /\ current' = NoKey
      /\ UNCHANGED <<checkpoint, stage, outcome, files, submitted, pending, job, runs>>
  BY DEF Write
<1>2. /\ cp \in Checkpoints /\ Prepares(cp) /\ BlobIsTrue(cp, blob) /\ flushed \in 0 .. Len(blob)
      /\ files["source"] = Whole(M) /\ blob \in Seq(SourceBytes)
  BY <1>1 DEF RepackInv, FilesInv, BlobInv
<1>3. PICK n, m \in 0 .. N : Copying(cp, n, m)
  BY <1>1 DEF RepackInv, CopyingInv
<1>4. /\ m = n + 1 /\ current = KeyAt(cp, m) /\ submitted \in m .. N
      /\ repacked = Rewritten(cp, n) /\ Len(blob) = Base(cp)[n]
      /\ pending = SubSeq(SortedKeys, m + 1, submitted) /\ (m < N => m < submitted)
  BY <1>1, <1>3 DEF Copying
<1>5. m \in 1 .. N /\ m - 1 = n /\ m \in 0 .. N /\ current \in Keys(cp) /\ N \in Nat
  BY <1>2, <1>4, KeysInOrder
<1>6. /\ IsBundle(M[current], Shards) /\ Len(M[current]) > 0
      /\ \A i \in DOMAIN M[current] :
           M[current][i].offset + M[current][i].nbytes <= cp.size[M[current][i].file]
  BY <1>2, <1>5, ManifestIs
<1> DEFINE c == ReadOf(cp, M[current])
<1>7. Chunks(current) = c
  BY <1>2 DEF Chunks, ReadOf, Bundles, Whole
<1>8. Copies(M[current], c)
  <2> HIDE DEF M
  <2> QED
    BY <1>2, <1>6, ReadIsACopy
<1> HIDE DEF c
<1>9. BlobIsTrue(cp, blob \o c) /\ Len(blob \o c) = Base(cp)[m] /\ Place(cp, current) = Len(blob)
  <2> DEFINE b == blob
  <2>1. m \in 1 .. Count(cp) /\ Len(b) = Base(cp)[m - 1] /\ Copies(ManifestOf(cp)[KeyAt(cp, m)], c)
    BY <1>4, <1>5, <1>8
  <2>2. cp \in Checkpoints /\ Prepares(cp) /\ BlobIsTrue(cp, b)
    BY <1>2
  <2> HIDE DEF b
  <2>3. /\ BlobIsTrue(cp, b \o c) /\ Len(b \o c) = Base(cp)[m]
        /\ Place(cp, KeyAt(cp, m)) = Len(b)
    BY <2>1, <2>2, TheNextIsTrue
  <2> QED
    BY <1>4, <2>3 DEF b
<1>10. blob' = blob \o c /\ Len(blob') = Base(cp)[m] /\ BlobIsTrue(cp, blob')
  BY <1>1, <1>7, <1>9
<1>11. repacked' = Rewritten(cp, m)
  <2>1. Rewritten(cp, m)
          = [Rewritten(cp, m - 1) EXCEPT ![KeyAt(cp, m)] = Appended(@, Place(cp, KeyAt(cp, m)))]
    BY <1>2, <1>5, TheNextIsRewritten
  <2> QED
    BY <1>1, <1>4, <1>5, <1>9, <2>1
<1>12. BlobInv'
  <2>1. blob' \in Seq(SourceBytes)
    BY <1>10 DEF BlobIsTrue
  <2>2. Len(blob') \in Nat /\ Len(blob) \in Nat
    BY <1>2, <2>1, LenProperties
  <2>3. flushed' \in 0 .. Len(blob')
    BY <1>1, <1>2, <2>2
  <2> QED
    BY <1>1, <1>10, <2>1, <2>3 DEF BlobInv
<1>13. Copying(cp, m, m)'
  <2>1. SortedKeys' = SortedKeys
    BY <1>1 DEF SortedKeys
  <2> QED
    BY <1>1, <1>4, <1>5, <1>10, <1>11, <2>1 DEF Copying
<1>14. CopyingInv'
  BY <1>1, <1>5, <1>13 DEF CopyingInv
<1>15. FilesInv' /\ EndInv'
  BY <1>1 DEF RepackInv, FilesInv, EndInv
<1> QED
  BY <1>12, <1>14, <1>15 DEF RepackInv

\* The loop is over: nothing is pending only when every key is written.
LEMMA CloseBlobKeeps ==
  ASSUME RepackInv, CloseBlob
  PROVE  RepackInv'
<1> DEFINE cp == checkpoint
           N == Count(cp)
<1>1. /\ stage = "copying" /\ current = NoKey /\ pending = <<>> /\ stage' = "describing"
      /\ flushed' = Len(blob) /\ files' = [files EXCEPT !["repacked"] = Torn]
      /\ UNCHANGED <<checkpoint, outcome, blob, submitted, pending, job, current, repacked>>
  BY DEF CloseBlob
<1>2. /\ cp \in Checkpoints /\ Prepares(cp) /\ BlobIsTrue(cp, blob) /\ blob \in Seq(SourceBytes)
      /\ files["source"] = Whole(ManifestOf(cp)) /\ DOMAIN files = {"source", "repacked"}
  BY <1>1 DEF RepackInv, FilesInv, BlobInv
<1>3. /\ SortedKeys \in Seq(Keys(cp)) /\ Len(SortedKeys) = N /\ N \in Nat
  BY <1>2, SortedKeysAre
<1>4. PICK n, m \in 0 .. N : Copying(cp, n, m)
  BY <1>1 DEF RepackInv, CopyingInv
<1>5. /\ m = n /\ submitted \in m .. N /\ pending = SubSeq(SortedKeys, m + 1, submitted)
      /\ (m < N => m < submitted) /\ repacked = Rewritten(cp, n) /\ Len(blob) = Base(cp)[n]
  BY <1>1, <1>4 DEF Copying
<1>6. n = N
  <2> HIDE DEF N
  <2>1. m \in Nat /\ submitted \in Nat /\ m <= submitted /\ submitted <= Len(SortedKeys)
    BY <1>3, <1>5
  <2>2. Len(SubSeq(SortedKeys, m + 1, submitted)) = submitted - m
    BY <1>3, <2>1, AWindowIs
  <2>3. submitted - m = 0
    BY <1>1, <1>5, <2>2, EmptySeq
  <2> QED
    BY <1>3, <1>5, <2>1, <2>3
<1>7. files'["source"] = files["source"] /\ files'["repacked"] = Torn
      /\ DOMAIN files' = {"source", "repacked"}
  BY <1>1, <1>2
<1>8. FilesInv'
  BY <1>1, <1>2, <1>7 DEF FilesInv
<1>9. BlobInv'
  <2>1. Len(blob) \in 0 .. Len(blob)
    BY <1>2, LenProperties
  <2> QED
    BY <1>1, <1>2, <2>1 DEF BlobInv
<1>10. CopyingInv'
  BY <1>1 DEF CopyingInv
<1>11. EndInv'
  <2>1. outcome # "verified" /\ outcome # "mismatch"
    BY <1>1 DEF RepackInv, EndInv
  <2> QED
    BY <1>1, <1>5, <1>6, <2>1 DEF EndInv, AllWritten
<1> QED
  BY <1>8, <1>9, <1>10, <1>11 DEF RepackInv

LEMMA DescribeKeeps ==
  ASSUME RepackInv, Describe
  PROVE  RepackInv'
<1> DEFINE cp == checkpoint
<1>1. /\ stage = "describing" /\ stage' = "verifying"
      /\ files' = [files EXCEPT !["repacked"] = Whole(repacked)]
      /\ UNCHANGED <<checkpoint, outcome, blob, flushed, submitted, pending, job, current, repacked>>
  BY DEF Describe, toolVars
<1>2. /\ DOMAIN files = {"source", "repacked"} /\ cp \in Checkpoints /\ Prepares(cp)
      /\ files["source"] = Whole(ManifestOf(cp))
      /\ repacked = Rewritten(cp, Count(cp)) /\ AllWritten(cp) /\ outcome \notin {"verified", "mismatch"}
  BY <1>1 DEF RepackInv, FilesInv, EndInv
<1>3. files'["source"] = files["source"] /\ files'["repacked"] = Whole(Rewritten(cp, Count(cp)))
      /\ DOMAIN files' = {"source", "repacked"}
  BY <1>1, <1>2
<1>4. FilesInv'
  BY <1>1, <1>2, <1>3 DEF FilesInv
<1>5. BlobInv' /\ CopyingInv'
  BY <1>1 DEF RepackInv, BlobInv, CopyingInv
<1>6. EndInv'
  BY <1>1, <1>2, <1>3 DEF EndInv, AllWritten
<1> QED
  BY <1>4, <1>5, <1>6 DEF RepackInv
--------------------------------------------------------------------------------
(***************************************************************************)
(* What a manifest that is there says, and what the comparison finds.      *)
(***************************************************************************)

LEMMA ContentsHold ==
  ASSUME Prepares(checkpoint), RepackInv
  PROVE  LET b == SubSeq(blob, 1, flushed)
         IN  /\ Holds(checkpoint, b, Contents) /\ BlobIsTrue(checkpoint, b)
             /\ Len(b) = flushed /\ flushed \in Nat /\ Sizes = [f \in Files |-> Len(Contents[f])]
<1> DEFINE b == SubSeq(blob, 1, flushed)
<1>1. checkpoint \in Checkpoints /\ BlobIsTrue(checkpoint, blob) /\ flushed \in 0 .. Len(blob)
      /\ Len(blob) \in Nat
  BY LenProperties DEF RepackInv, FilesInv, BlobInv
<1>2. BlobIsTrue(checkpoint, b) /\ Len(b) = flushed
  BY <1>1, ABeginningIsTrue
<1>3. Contents[Blob] = b /\ \A f \in Shards : Contents[f] = ShardBytes(checkpoint, f)
  BY BlobIsNoShard DEF Contents, Files
<1> HIDE DEF b
<1> QED
  BY <1>1, <1>2, <1>3 DEF Holds, Sizes, b

\* When everything is written every span of the new manifest is there.
LEMMA EverySpanIsThere ==
  ASSUME NEW cp \in Checkpoints, Prepares(cp), NEW k \in Keys(cp)
  PROVE  \A i \in DOMAIN ManifestOf(cp)[k] :
           At(cp, k, i) + ManifestOf(cp)[k][i].nbytes <= Base(cp)[Count(cp)]
<1> SUFFICES ASSUME NEW i \in DOMAIN ManifestOf(cp)[k]
             PROVE  At(cp, k, i) + ManifestOf(cp)[k][i].nbytes <= Base(cp)[Count(cp)]
  OBVIOUS
<1> DEFINE N == Count(cp)
           m == IndexOf(cp, k)
           at == Base(cp)
<1>1. N \in Nat /\ m \in 1 .. N
  BY KeysInOrder
<1>2. Sums(at, N, KeySizes(cp)) /\ KeySizes(cp) \in [1 .. N -> Nat]
  BY BaseIs
<1>3. At(cp, k, i) \in Nat /\ ManifestOf(cp)[k][i].nbytes \in Nat
      /\ At(cp, k, i) + ManifestOf(cp)[k][i].nbytes <= at[m]
  BY AtIs
<1> HIDE DEF N, m, at
<1>4. m \in 0 .. N /\ N \in 0 .. N /\ m <= N
  BY <1>1
<1>5. at[m] <= at[N] /\ at[m] \in Nat /\ at[N] \in Nat
  BY <1>1, <1>2, <1>4, SumsGrow DEF Sums
<1>6. At(cp, k, i) + ManifestOf(cp)[k][i].nbytes <= at[N]
  BY <1>3, <1>5
<1> QED
  BY <1>6 DEF N, at

\* The bundles of the new manifest.
LEMMA RewrittenIs ==
  ASSUME NEW cp \in Checkpoints
  PROVE  /\ DOMAIN Rewritten(cp, Count(cp)) = Keys(cp)
         /\ \A k \in Keys(cp) :
              Rewritten(cp, Count(cp))[k] = Appended(ManifestOf(cp)[k], Place(cp, k))
<1>1. Count(cp) \in Nat /\ \A k \in Keys(cp) : IndexOf(cp, k) \in 1 .. Count(cp)
  BY KeysInOrder
<1>2. \A k \in Keys(cp) : IndexOf(cp, k) <= Count(cp)
  BY <1>1
<1> QED
  BY <1>2 DEF Rewritten

LEMMA TheWholeLoads ==
  ASSUME NEW cp \in Checkpoints, Prepares(cp), NEW size, size[Blob] = Base(cp)[Count(cp)]
  PROVE  Validates(Rewritten(cp, Count(cp)), size)
<1> DEFINE new == Rewritten(cp, Count(cp))
<1>1. DOMAIN new = Keys(cp) /\ \A k \in Keys(cp) : new[k] = Appended(ManifestOf(cp)[k], Place(cp, k))
  BY RewrittenIs
<1> HIDE DEF new
<1>2. ASSUME NEW k \in Keys(cp)
      PROVE  /\ new[k] # <<>>
             /\ \A i \in DOMAIN new[k] : SpanIsValid(new[k][i], size)
             /\ \A i, j \in DOMAIN new[k] : new[k][i].role = new[k][j].role => i = j
  <2> DEFINE old == ManifestOf(cp)[k]
             mine == new[k]
             pos == Place(cp, k)
  <2>1. IsBundle(old, Shards) /\ Len(old) > 0 /\ pos \in Nat /\ mine = Appended(old, pos)
    BY <1>1, ManifestIs, PlaceIs
  <2>2. \A i \in DOMAIN old : old[i].rank > 0
    BY DEF Prepares, Validates, SpanIsValid, ManifestOf
  <2>3. \A i \in DOMAIN old : /\ At(cp, k, i) \in Nat /\ old[i].nbytes \in Nat \ {0}
                              /\ At(cp, k, i) + old[i].nbytes <= Base(cp)[Count(cp)]
    BY AtIs, EverySpanIsThere
  <2>4. \A i \in DOMAIN old : At(cp, k, i) = pos + BytesUpTo(old)[i - 1]
    BY DEF At
  <2> HIDE DEF old, pos, mine
  <2>5. /\ IsBundle(mine, Files) /\ DOMAIN mine = DOMAIN old /\ Len(mine) = Len(old)
        /\ \A i \in DOMAIN old : /\ mine[i].file = Blob
                                 /\ mine[i].offset = pos + BytesUpTo(old)[i - 1]
                                 /\ mine[i].nbytes = old[i].nbytes
                                 /\ mine[i].rank = old[i].rank
    BY <2>1, AppendedIs
  <2>6. ASSUME NEW i \in DOMAIN mine
        PROVE  SpanIsValid(mine[i], size)
    <3>1. mine[i].file = Blob /\ mine[i].offset = At(cp, k, i) /\ mine[i].nbytes = old[i].nbytes
          /\ mine[i].rank > 0 /\ i \in DOMAIN old
      BY <2>2, <2>4, <2>5
    <3>2. mine[i].offset >= 0 /\ mine[i].nbytes > 0
          /\ mine[i].offset + mine[i].nbytes <= size[Blob]
      BY <2>3, <3>1
    <3> QED
      BY <3>1, <3>2 DEF SpanIsValid
  <2>7. mine # <<>>
    BY <2>1, <2>5, EmptySeq
  <2> QED
    BY <2>5, <2>6, <2>7 DEF IsBundle, mine
<1> QED
  BY <1>1, <1>2 DEF Validates, new

\* The comparison of any sample finds no difference.
LEMMA VerifyKeeps ==
  ASSUME RepackInv, Verify
  PROVE  RepackInv'
<1> DEFINE cp == checkpoint
           N == Count(cp)
<1>1. /\ stage = "verifying"
      /\ UNCHANGED <<checkpoint, files, blob, flushed, runs>>
  BY DEF Verify
<1>2. PICK sample \in SUBSET DOMAIN repacked :
        Exits(IF \A k \in sample : IsSame(k) THEN "verified" ELSE "mismatch")
  BY DEF Verify
<1>3. /\ cp \in Checkpoints /\ Prepares(cp) /\ files["source"] = Whole(ManifestOf(cp))
      /\ files["repacked"] = Whole(Rewritten(cp, N)) /\ repacked = Rewritten(cp, N)
      /\ Len(blob) = Base(cp)[N] /\ flushed = Len(blob)
  BY <1>1 DEF RepackInv, FilesInv, EndInv, AllWritten
<1> DEFINE b == SubSeq(blob, 1, flushed)
<1>4. Contents[Blob] = b /\ BlobIsTrue(cp, b) /\ Len(b) = Base(cp)[N]
      /\ \A f \in Shards : Contents[f] = ShardBytes(cp, f)
  BY <1>3, ContentsHold DEF Holds
<1> HIDE DEF b
<1>5. ASSUME NEW k \in DOMAIN repacked
      PROVE  IsSame(k)
  <2> DEFINE old == ManifestOf(cp)[k]
             pos == Place(cp, k)
  <2>1. k \in Keys(cp) /\ repacked[k] = Appended(old, pos) /\ Bundles("source")[k] = old
    BY <1>3, RewrittenIs DEF Bundles, Whole
  <2>2. IsBundle(old, Shards) /\ pos \in Nat
    BY <1>3, <2>1, ManifestIs, PlaceIs
  <2>3. \A i \in DOMAIN old : At(cp, k, i) = pos + BytesUpTo(old)[i - 1]
    BY DEF At
  <2>4. \A i \in DOMAIN old :
          Pread(b, At(cp, k, i), old[i].nbytes)
            = Pread(ShardBytes(cp, old[i].file), old[i].offset, old[i].nbytes)
    BY <1>3, <1>4, <2>1, EverySpanIsThere, TheSameBytes
  <2> HIDE DEF old, pos
  <2>5. /\ DOMAIN repacked[k] = DOMAIN old
        /\ \A i \in DOMAIN old : /\ repacked[k][i].offset = pos + BytesUpTo(old)[i - 1]
                                 /\ repacked[k][i].nbytes = old[i].nbytes
    BY <2>1, <2>2, AppendedIs
  <2>6. \A i \in DOMAIN old : old[i].file \in Shards
    BY <2>2, SpansOfABundle DEF Places
  <2>7. ASSUME NEW i \in DOMAIN old
        PROVE  Pread(Contents[old[i].file], old[i].offset, old[i].nbytes)
                 = Pread(Contents[Blob], repacked[k][i].offset, repacked[k][i].nbytes)
    <3>1. repacked[k][i].offset = At(cp, k, i) /\ repacked[k][i].nbytes = old[i].nbytes
      BY <2>3, <2>5
    <3>2. Contents[old[i].file] = ShardBytes(cp, old[i].file) /\ Contents[Blob] = b
      BY <1>4, <2>6
    <3> QED
      BY <2>4, <3>1, <3>2
  <2> QED
    BY <2>1, <2>5, <2>7 DEF IsSame
<1>6. Exits("verified")
  BY <1>2, <1>5
<1>7. stage' = "off" /\ outcome' = "verified"
  BY <1>6 DEF Exits, Ends
<1>8. FilesInv' /\ BlobInv' /\ CopyingInv'
  BY <1>1, <1>7 DEF RepackInv, FilesInv, BlobInv, CopyingInv
<1>9. EndInv'
  BY <1>1, <1>3, <1>7 DEF EndInv, AllWritten
<1> QED
  BY <1>8, <1>9 DEF RepackInv

LEMMA RepackNext == RepackInv /\ [Next]_vars => RepackInv'
<1> SUFFICES ASSUME RepackInv, [Next]_vars PROVE RepackInv'
  OBVIOUS
<1>1. CASE (\E overwrite \in BOOLEAN : Prepare(overwrite)) \/ PrepareEnds
  BY <1>1, PreparingKeeps
<1>2. CASE StartRepack
  BY <1>2, StartRepackKeeps
<1>3. CASE Pop
  BY <1>3, PopKeeps
<1>4. CASE Write
  BY <1>4, WriteKeeps
<1>5. CASE WriteFails
  <2>1. /\ checkpoint' = checkpoint /\ files' = files /\ stage # "off" /\ Exits("failed")
        /\ blob' = blob /\ flushed' = Len(blob) /\ "failed" \notin {"verified", "mismatch"}
    BY <1>5 DEF WriteFails
  <2> QED
    BY <2>1, ExitsKeeps
<1>6. CASE CloseBlob
  BY <1>6, CloseBlobKeeps
<1>7. CASE Describe
  BY <1>7, DescribeKeeps
<1>8. CASE Verify
  BY <1>8, VerifyKeeps
<1>9. CASE \E k \in DOMAIN job : JobEnds(k)
  BY <1>9, JobEndsKeeps
<1>10. CASE Crash
  <2>1. /\ checkpoint' = checkpoint /\ files' = files /\ stage # "off" /\ Exits("killed")
        /\ blob' = SubSeq(blob, 1, flushed) /\ flushed' = flushed
        /\ "killed" \notin {"verified", "mismatch"}
    BY <1>10 DEF Crash
  <2> QED
    BY <2>1, ExitsKeeps
<1>11. CASE UNCHANGED vars
  <2>1. UNCHANGED <<checkpoint, stage, outcome, files, blob, flushed, submitted, pending,
                    current, repacked>>
    BY <1>11 DEF vars, toolVars
  <2> QED
    BY <2>1 DEF RepackInv, FilesInv, BlobInv, EndInv, AllWritten, CopyingInv, Copying, SortedKeys
<1> QED
  BY <1>1, <1>2, <1>3, <1>4, <1>5, <1>6, <1>7, <1>8, <1>9, <1>10, <1>11 DEF Next, Tool

LEMMA RepackInvHolds == Spec => []RepackInv
  BY RepackInit, RepackNext, PTL DEF Spec

\* What the invariant says of a state: a repacked manifest that loads gives every expert the
\* bytes of the source in one pread, and the tool's success leaves one that loads.
LEMMA WhatLoadsReadsTrue == RepackInv => RepackedReadsTrue
<1> SUFFICES ASSUME RepackInv PROVE RepackedReadsTrue
  OBVIOUS
<1> DEFINE cp == checkpoint
           N == Count(cp)
           whole == files["repacked"].state = "whole"
           valid == Validates(Bundles("repacked"), Sizes)
           old == Bundles("source")
           new == Bundles("repacked")
<1>1. whole => Prepares(cp) /\ cp \in Checkpoints /\ new = Rewritten(cp, N)
  <2>1. whole => files["repacked"] # Absent /\ files["repacked"] # Torn
    BY DEF Absent, Torn
  <2> QED
    BY <2>1 DEF RepackInv, FilesInv, Bundles, Whole
<1>2. old = ManifestOf(cp) \/ old = <<>>
  BY DEF RepackInv, FilesInv, Bundles, Whole, Absent, Torn
<1>3. ASSUME whole, valid, NEW k \in DOMAIN old
      PROVE  /\ Cardinality(Runs(new[k])) = 1
             /\ ReadBundle(new[k], Contents) = ReadBundle(old[k], Contents)
  <2>1. old = ManifestOf(cp)
    <3>1. DOMAIN <<>> = {}
      OBVIOUS
    <3> QED
      BY <1>2, <1>3, <3>1
  <2>2. Prepares(cp) /\ cp \in Checkpoints /\ new = Rewritten(cp, N) /\ k \in Keys(cp)
    BY <1>1, <1>3, <2>1 DEF ManifestOf
  <2> DEFINE b == SubSeq(blob, 1, flushed)
             mine == new[k]
             content == Contents
  <2>3. /\ Holds(cp, b, content) /\ BlobIsTrue(cp, b) /\ Len(b) = Sizes[Blob]
    <3>1. Blob \in Files
      BY DEF Files
    <3> QED
      BY <2>2, <3>1, ContentsHold DEF Holds
  <2>4. mine = Appended(ManifestOf(cp)[k], Place(cp, k)) /\ k \in DOMAIN new
    BY <2>2, RewrittenIs
  <2>5. \A i \in DOMAIN mine : mine[i].offset + mine[i].nbytes <= Sizes[mine[i].file]
    BY <1>3, <2>4 DEF Validates, SpanIsValid
  <2>6. \A i \in DOMAIN mine : mine[i].file = Blob
    <3>1. IsBundle(ManifestOf(cp)[k], Shards) /\ Place(cp, k) \in Nat
      BY <2>2, ManifestIs, PlaceIs
    <3> QED
      BY <2>4, <3>1, AppendedIs
  <2>7. \A i \in DOMAIN mine : mine[i].offset + mine[i].nbytes <= Len(b)
    BY <2>3, <2>5, <2>6
  <2> HIDE DEF b, mine, content
  <2>8. /\ Cardinality(Runs(mine)) = 1
        /\ ReadBundle(mine, content) = ReadBundle(ManifestOf(cp)[k], content)
    BY <2>2, <2>3, <2>4, <2>7, TheNewIsRead
  <2> QED
    BY <2>1, <2>8 DEF mine, content
<1>4. outcome # "mismatch"
  BY DEF RepackInv, EndInv
<1>5. ASSUME outcome = "verified"
      PROVE  whole /\ valid
  <2>1. /\ files["repacked"] = Whole(Rewritten(cp, N)) /\ flushed = Base(cp)[N]
    BY <1>5 DEF RepackInv, EndInv, AllWritten
  <2>2. whole
    BY <2>1 DEF Whole
  <2>3. Prepares(cp) /\ cp \in Checkpoints /\ new = Rewritten(cp, N)
    BY <1>1, <2>2
  <2>4. Sizes[Blob] = Base(cp)[N]
    <3>1. Blob \in Files
      BY DEF Files
    <3> QED
      BY <2>1, <2>3, <3>1, ContentsHold DEF Holds
  <2>5. valid
    BY <2>3, <2>4, TheWholeLoads
  <2> QED
    BY <2>2, <2>5
<1> QED
  BY <1>3, <1>4, <1>5 DEF RepackedReadsTrue

\* RepackedReadsTrue for every checkpoint, look-ahead and number of runs: whatever was killed
\* or failed before, a repacked manifest that loads gives every expert the bytes of the
\* source, in one pread, and the tool's own comparison never finds a difference.
THEOREM RepackedManifestsReadTrue == Spec => []RepackedReadsTrue
  BY RepackInvHolds, WhatLoadsReadsTrue, PTL
--------------------------------------------------------------------------------
(***************************************************************************)
(* Every byte of a prepared checkpoint has its reader.                     *)
(***************************************************************************)

\* The spans of a bundle are those of the tensors of its layer.
PartsOf(cp, layer, e) ==
  {LeadingSpan(t, cp.experts, e) : t \in Leading(cp, layer)}
    \cup {SplitSpan(t) : t \in OfExpert(Split(cp, layer), e)}

LEMMA ASequenceOfAll ==
  ASSUME NEW S, IsFiniteSet(S), NEW s \in SetToSeqs(S)
  PROVE  ToSet(s) = S
<1> DEFINE n == Cardinality(S)
           T == {s[i] : i \in 1 .. n}
<1>1. n \in Nat /\ IsFiniteSet(1 .. n) /\ Cardinality(1 .. n) = n
  <2>1. n \in Nat
    BY FS_CardinalityType
  <2> HIDE DEF n
  <2>2. IsFiniteSet(1 .. n) /\ Cardinality(1 .. n) = IF 1 > n THEN 0 ELSE n - 1 + 1
    BY <2>1, FS_Interval
  <2> QED
    BY <2>1, <2>2
<1>2. s \in [1 .. n -> S] /\ \A i, j \in 1 .. n : i # j => s[i] # s[j]
  BY DEF SetToSeqs
<1>3. T \in SUBSET S /\ DOMAIN s = 1 .. n
  BY <1>2
<1> HIDE DEF n
<1>4. s \in Bijection(1 .. n, T)
  BY <1>2 DEF Bijection, Injection, Surjection, IsInjective
<1>5. Cardinality(T) = n
  BY <1>1, <1>4, FS_Bijection DEF ExistsBijection
<1>6. S = T
  <2> HIDE DEF T
  <2> QED
    BY <1>3, <1>5, FS_Subset DEF n
<1>7. ToSet(s) = T
  BY <1>3 DEF ToSet
<1> QED
  BY <1>6, <1>7

LEMMA TheParts ==
  ASSUME NEW cp \in Checkpoints, NEW layer, NEW e \in Nat
  PROVE  ToSet(BundleOf(cp, layer, e)) = PartsOf(cp, layer, e)
<1> DEFINE A == Leading(cp, layer)
           B == OfExpert(Split(cp, layer), e)
           f == [t \in A |-> LeadingSpan(t, cp.experts, e)]
           g == [t \in B |-> SplitSpan(t)]
           S == PartsOf(cp, layer, e)
<1>1. A \in SUBSET cp.tensors /\ B \in SUBSET cp.tensors /\ IsFiniteSet(cp.tensors)
  BY CheckpointsAssumption DEF Leading, Split, OfExpert
<1>2. IsFiniteSet(A) /\ IsFiniteSet(B)
  BY <1>1, FS_Subset
<1>0. S = {LeadingSpan(t, cp.experts, e) : t \in A} \cup {SplitSpan(t) : t \in B}
  BY DEF PartsOf
<1> HIDE DEF A, B
<1>3. IsFiniteSet({f[t] : t \in DOMAIN f}) /\ IsFiniteSet({g[t] : t \in DOMAIN g})
  <2>1. DOMAIN f = A /\ DOMAIN g = B
    OBVIOUS
  <2> HIDE DEF f, g
  <2> QED
    BY <1>2, <2>1, ImageIsFinite
<1>4. {f[t] : t \in DOMAIN f} = {LeadingSpan(t, cp.experts, e) : t \in A}
      /\ {g[t] : t \in DOMAIN g} = {SplitSpan(t) : t \in B}
  OBVIOUS
<1> HIDE DEF S
<1>5. IsFiniteSet(S)
  <2> HIDE DEF f, g
  <2> QED
    BY <1>0, <1>3, <1>4, FS_Union
<1>6. \A s \in S : s.role \in Nat
  BY <1>0, <1>1, SpansAre DEF Spans
<1>7. PICK s : Ordered(s, Cardinality(S), S)
  BY <1>5, <1>6, OrderExists
<1>8. s \in SetToSeqs(S) /\ \A i, j \in DOMAIN s : i < j => s[i].role <= s[j].role
  BY <1>7 DEF Ordered, SetToSeqs
<1>9. ByRole(S) \in SetToSeqs(S)
  BY <1>8 DEF ByRole
<1>10. ToSet(ByRole(S)) = S
  BY <1>5, <1>9, ASequenceOfAll
<1> QED
  BY <1>10 DEF BundleOf, S, PartsOf

\* Two reads of adjacent bytes are one.
LEMMA AdjacentReads ==
  ASSUME NEW B, NEW c \in Seq(B), NEW o \in Nat, NEW m \in Nat, NEW n \in Nat,
         o + m + n <= Len(c)
  PROVE  Pread(c, o, m) \o Pread(c, o + m, n) = Pread(c, o, m + n)
<1> DEFINE x == Pread(c, o, m)
           y == Pread(c, o + m, n)
           z == Pread(c, o, m + n)
<1>0. Len(c) \in Nat
  BY LenProperties
<1>1. x \in Seq(B) /\ Len(x) = m /\ \A p \in 1 .. m : x[p] = c[o + p]
  <2>1. o + m <= Len(c)
    BY <1>0
  <2> QED
    BY <2>1, PreadIs
<1>2. y \in Seq(B) /\ Len(y) = n /\ \A p \in 1 .. n : y[p] = c[(o + m) + p]
  <2> DEFINE q == o + m
  <2>1. q \in Nat /\ q + n <= Len(c)
    OBVIOUS
  <2> HIDE DEF q
  <2>2. /\ Pread(c, q, n) \in Seq(B) /\ Len(Pread(c, q, n)) = n
        /\ \A p \in 1 .. n : Pread(c, q, n)[p] = c[q + p]
    BY <2>1, PreadIs
  <2> QED
    BY <2>2 DEF q
<1>3. z \in Seq(B) /\ Len(z) = m + n /\ \A p \in 1 .. m + n : z[p] = c[o + p]
  <2> DEFINE q == m + n
  <2>1. q \in Nat /\ o + q <= Len(c)
    OBVIOUS
  <2> HIDE DEF q
  <2>2. /\ Pread(c, o, q) \in Seq(B) /\ Len(Pread(c, o, q)) = q
        /\ \A p \in 1 .. q : Pread(c, o, q)[p] = c[o + p]
    BY <2>1, PreadIs
  <2> QED
    BY <2>2 DEF q
<1> HIDE DEF x, y, z
<1>4. /\ x \o y \in Seq(B) /\ Len(x \o y) = Len(x) + Len(y)
      /\ \A i \in 1 .. Len(x) : (x \o y)[i] = x[i]
      /\ \A i \in 1 .. Len(y) : (x \o y)[Len(x) + i] = y[i]
  <2>1. x \in Seq(B) /\ y \in Seq(B)
    BY <1>1, <1>2
  <2> QED
    BY ONLY <2>1, ConcatIs, SMTT(30)
<1> DEFINE d == x \o y
<1>5. ASSUME NEW p \in 1 .. m + n
      PROVE  d[p] = z[p]
  <2>1. CASE p <= m
    <3>1. p \in 1 .. m
      BY <2>1
    <3> QED
      BY <1>1, <1>3, <1>4, <3>1
  <2>2. CASE ~(p <= m)
    <3> DEFINE j == p - m
    <3>1. j \in 1 .. n /\ p = m + j /\ (o + m) + j = o + p
      BY <2>2
    <3> HIDE DEF j
    <3>2. d[p] = y[j]
      BY <1>1, <1>2, <1>4, <3>1
    <3> QED
      BY <1>2, <1>3, <3>1, <3>2
  <2> QED
    BY <2>1, <2>2
<1>6. d \in [1 .. m + n -> B] /\ z \in [1 .. m + n -> B]
  <2>1. d \in Seq(B) /\ Len(d) = m + n
    BY <1>1, <1>2, <1>4
  <2> HIDE DEF d
  <2> QED
    BY <1>3, <2>1, LenProperties
<1>7. d = z
  <2> HIDE DEF d
  <2> QED
    BY <1>5, <1>6
<1> QED
  BY <1>7 DEF x, y, z

\* The parts of equal size of some bytes, put together, are these bytes.
LEMMA ThePartsTogether ==
  ASSUME NEW B, NEW c \in Seq(B), NEW o \in Nat, NEW w \in Nat, NEW N \in Nat \ {0},
         o + N * w <= Len(c)
  PROVE  FlattenSeq([e \in 1 .. N |-> Pread(c, o + (e - 1) * w, w)]) = Pread(c, o, N * w)
<1> DEFINE P(n) == n * w
           part(e) == Pread(c, o + P(e - 1), w)
           ss == [e \in 1 .. N |-> part(e)]
<1>0. Len(c) \in Nat
  BY LenProperties
<1>1. \A n \in Nat : P(n) \in Nat /\ P(n + 1) = P(n) + w
  OBVIOUS
<1>2. \A n \in 0 .. N : P(n) <= P(N)
  <2>1. ASSUME NEW n \in 0 .. N
        PROVE  n * w <= N * w
    OBVIOUS
  <2> QED
    BY <2>1
<1>3. P(0) = 0 /\ P(1) = w /\ o + P(N) <= Len(c)
  OBVIOUS
<1> HIDE DEF P
<1>4. ASSUME NEW e \in 1 .. N
      PROVE  part(e) \in Seq(B) /\ P(e - 1) \in Nat /\ P(e) = P(e - 1) + w /\ P(e) <= P(N)
             /\ P(e) \in Nat
  <2>1. e - 1 \in Nat /\ (e - 1) + 1 = e /\ e \in 0 .. N /\ e \in Nat
    OBVIOUS
  <2>2. P(e - 1) \in Nat /\ P(e) = P(e - 1) + w /\ P(e) <= P(N) /\ P(e) \in Nat /\ P(N) \in Nat
    BY <1>1, <1>2, <2>1
  <2> DEFINE q == o + P(e - 1)
  <2>3. q \in Nat /\ q + w <= Len(c)
    BY <1>0, <1>3, <2>2
  <2> HIDE DEF q
  <2>4. Pread(c, q, w) \in Seq(B)
    BY <2>3, PreadIs
  <2> QED
    BY <2>2, <2>4 DEF q
<1> HIDE DEF part
<1>5. ss \in Seq(Seq(B)) /\ Len(ss) = N /\ ss # <<>> /\ \A i \in 1 .. N : ss[i] = part(i)
  <2>1. ss \in [1 .. N -> Seq(B)]
    BY <1>4
  <2>2. ss \in Seq(Seq(B))
    BY <2>1, SeqDef
  <2>3. DOMAIN ss = 1 .. N
    OBVIOUS
  <2>4. Len(ss) = N
    <3> HIDE DEF ss
    <3> QED
      BY <2>2, <2>3, LenProperties
  <2> QED
    BY <2>2, <2>4, EmptySeq
<1> HIDE DEF ss
<1>6. PICK g : Flattens(g, B, ss)
  BY <1>5, FlattenIs
<1>7. g[1] = part(1) /\ (\A n \in 2 .. N : g[n] = g[n - 1] \o part(n)) /\ FlattenSeq(ss) = g[N]
  <2>1. 1 \in 1 .. N /\ \A n \in 2 .. N : n \in 1 .. N
    OBVIOUS
  <2> QED
    BY <1>5, <1>6, <2>1 DEF Flattens
<1> DEFINE T == {n \in Nat : n + 1 \in 1 .. N => g[n + 1] = Pread(c, o, P(n + 1))}
<1>8. 0 \in T
  <2>1. part(1) = Pread(c, o, P(1))
    <3>1. o + P(1 - 1) = o /\ P(1) = w
      BY <1>3
    <3> QED
      BY <3>1 DEF part
  <2> QED
    BY <1>7, <2>1
<1>9. ASSUME NEW n \in 0 .. (N - 1) - 1, n \in T
      PROVE  n + 1 \in T
  <2> DEFINE e == n + 1
  <2>1. e \in 1 .. N /\ e + 1 \in 2 .. N /\ e + 1 \in 1 .. N /\ (e + 1) - 1 = e /\ e \in Nat
    OBVIOUS
  <2>2. g[e] = Pread(c, o, P(e))
    BY <1>9, <2>1
  <2> HIDE DEF e
  <2>3. g[e + 1] = g[e] \o part(e + 1) /\ part(e + 1) = Pread(c, o + P(e), w)
    BY <1>7, <2>1 DEF part
  <2>4. P(e) \in Nat /\ P(e + 1) = P(e) + w /\ o + P(e) + w <= Len(c)
    <3>1. P(e) \in Nat /\ P(e + 1) = P(e) + w /\ P(e + 1) <= P(N) /\ P(N) \in Nat
      BY <1>1, <1>4, <2>1
    <3> QED
      BY <1>0, <1>3, <3>1
  <2>5. Pread(c, o, P(e)) \o Pread(c, o + P(e), w) = Pread(c, o, P(e) + w)
    <3> DEFINE m == P(e)
    <3>1. m \in Nat /\ o + m + w <= Len(c)
      BY <2>4
    <3> HIDE DEF m
    <3>2. Pread(c, o, m) \o Pread(c, o + m, w) = Pread(c, o, m + w)
      BY <3>1, AdjacentReads
    <3> QED
      BY <3>2 DEF m
  <2>6. g[e + 1] = Pread(c, o, P(e + 1))
    BY <2>2, <2>3, <2>4, <2>5
  <2> QED
    BY <2>6 DEF e
<1>10. 0 .. N - 1 \subseteq T
  <2>1. N - 1 \in Nat
    OBVIOUS
  <2> HIDE DEF T
  <2> QED
    BY <1>8, <1>9, <2>1, InductionUpTo
<1>11. g[N] = Pread(c, o, P(N))
  <2>1. N - 1 \in 0 .. N - 1 /\ (N - 1) + 1 = N /\ N \in 1 .. N
    OBVIOUS
  <2> QED
    BY <1>10, <2>1
<1> QED
  BY <1>7, <1>11 DEF ss, part, P

\* What build_streaming_manifest checks of a tensor of a layer.
LEMMA ALeadingTensorIs ==
  ASSUME NEW cp \in Checkpoints, Prepares(cp), NEW t \in cp.tensors,
         t.name.kind = "leading", t.name.layer < cp.layers
  PROVE  /\ t.name.layer \in 0 .. cp.layers - 1 /\ t.shard \in Shards
         /\ Size(t) \in Nat /\ Size(t) \div cp.experts \in Nat
         /\ cp.experts * (Size(t) \div cp.experts) = Size(t)
         /\ DataStart + t.start \in Nat /\ DataStart + t.start + Size(t) <= cp.size[t.shard]
<1> DEFINE n == cp.experts
           a == Size(t)
           l == t.name.layer
<1>1. l \in 0 .. cp.layers - 1 /\ t.shard \in Shards /\ n \in Nat \ {0}
      /\ t.start \in Int /\ t.end \in Int /\ DataStart \in Nat
  <2>1. l \in Nat /\ cp.layers \in Nat /\ l < cp.layers /\ t.shard \in Shards /\ n \in Nat \ {0}
        /\ t.start \in Int /\ t.end \in Int /\ DataStart \in Nat
    BY CheckpointsAssumption, LayoutAssumption
  <2>2. l \in 0 .. cp.layers - 1
    BY <2>1
  <2> QED
    BY <2>1, <2>2
<1>2. 0 <= t.start /\ t.start <= t.end /\ DataStart + t.end <= cp.size[t.shard]
  BY DEF Prepares, LocationsAccepted, HeaderAccepts
<1>3. a = t.end - t.start
  BY DEF Size
<1>4. a % n = 0
  <2>1. t \in Leading(cp, l)
    BY DEF Leading
  <2>2. LayerAccepted(cp, l)
    BY <1>1 DEF Prepares
  <2>3. AxisIsExperts(t, cp.experts)
    BY <2>1, <2>2 DEF LayerAccepted
  <2> QED
    BY <2>3 DEF AxisIsExperts
<1> HIDE DEF n, a, l
<1>5. a \in Nat /\ cp.size[t.shard] \in Nat
  BY <1>1, <1>2, <1>3, CheckpointsAssumption
<1> DEFINE q == a \div n
<1>6. q \in Nat /\ a = q * n + (a % n)
  BY <1>1, <1>5, DivisionIs
<1> HIDE DEF q
<1>7. n * q = a
  <2>1. n * q = q * n
    BY <1>1, <1>6
  <2> QED
    BY <1>1, <1>4, <1>5, <1>6, <2>1
<1>8. DataStart + t.start \in Nat /\ DataStart + t.start + a <= cp.size[t.shard]
  BY <1>1, <1>2, <1>3, <1>5
<1> QED
  BY <1>1, <1>5, <1>6, <1>7, <1>8 DEF n, a, l, q

\* A bundle of the source, read through its spans, whichever of them one looks at.
LEMMA TheOldIsReadBySpan ==
  ASSUME NEW cp \in Checkpoints, Prepares(cp), NEW b, NEW content, Holds(cp, b, content),
         NEW k \in Keys(cp), NEW s \in ToSet(ManifestOf(cp)[k])
  PROVE  ReadBundle(ManifestOf(cp)[k], content)[s.role]
           = Pread(ShardBytes(cp, s.file), s.offset, s.nbytes)
<1> DEFINE spans == ManifestOf(cp)[k]
<1>1. \A i \in DOMAIN spans :
        ReadBundle(spans, content)[spans[i].role]
          = Pread(ShardBytes(cp, spans[i].file), spans[i].offset, spans[i].nbytes)
  BY TheOldIsRead
<1>2. PICK i \in DOMAIN spans : s = spans[i]
  BY DEF ToSet
<1> HIDE DEF spans
<1>3. ReadBundle(spans, content)[s.role] = Pread(ShardBytes(cp, s.file), s.offset, s.nbytes)
  BY <1>1, <1>2
<1> QED
  BY <1>3 DEF spans

LEMMA ALeadingTensorIsCut ==
  ASSUME NEW cp \in Checkpoints, Prepares(cp), NEW t \in cp.tensors,
         t.name.kind = "leading", t.name.layer < cp.layers,
         NEW b, NEW content, Holds(cp, b, content)
  PROVE  FlattenSeq([e \in 1 .. cp.experts |->
                       ReadBundle(ManifestOf(cp)[<<t.name.layer, e - 1>>], content)[t.name.role]])
           = TensorBytes(cp, t)
<1> DEFINE N == cp.experts
           l == t.name.layer
           w == Size(t) \div N
           o == DataStart + t.start
           c == ShardBytes(cp, t.shard)
           read(e) == ReadBundle(ManifestOf(cp)[<<l, e - 1>>], content)[t.name.role]
<1>1. /\ l \in 0 .. cp.layers - 1 /\ t.shard \in Shards /\ w \in Nat /\ N * w = Size(t)
      /\ o \in Nat /\ o + Size(t) <= cp.size[t.shard] /\ N \in Nat \ {0}
  BY ALeadingTensorIs, CheckpointsAssumption
<1>2. c \in Seq(SourceBytes) /\ Len(c) = cp.size[t.shard]
  BY <1>1, ShardBytesAre
<1>3. ASSUME NEW e \in 1 .. N
      PROVE  read(e) = Pread(c, o + (e - 1) * w, w)
  <2> DEFINE k == <<l, e - 1>>
             s == LeadingSpan(t, cp.experts, e - 1)
  <2>1. e - 1 \in Nat /\ k \in Keys(cp) /\ k[1] = l /\ k[2] = e - 1
    BY <1>1 DEF Keys
  <2>2. t \in Leading(cp, l)
    BY DEF Leading
  <2>3. s \in PartsOf(cp, l, e - 1)
    BY <2>2 DEF PartsOf
  <2>4. ManifestOf(cp)[k] = BundleOf(cp, l, e - 1)
    <3> HIDE DEF k, l
    <3> QED
      BY <2>1 DEF ManifestOf
  <2>5. s \in ToSet(ManifestOf(cp)[k])
    <3> HIDE DEF k, l, s
    <3> QED
      BY <2>1, <2>3, <2>4, TheParts
  <2>6. /\ s.role = t.name.role /\ s.file = t.shard /\ s.nbytes = w
        /\ s.offset = o + (e - 1) * w
    BY DEF LeadingSpan
  <2> HIDE DEF k, s
  <2>7. ReadBundle(ManifestOf(cp)[k], content)[s.role]
          = Pread(ShardBytes(cp, s.file), s.offset, s.nbytes)
    BY <2>1, <2>5, TheOldIsReadBySpan
  <2> QED
    BY <2>6, <2>7 DEF k
<1>4. [e \in 1 .. N |-> read(e)] = [e \in 1 .. N |-> Pread(c, o + (e - 1) * w, w)]
  <2> HIDE DEF read
  <2> QED
    BY <1>3
<1>5. TensorBytes(cp, t) = Pread(c, o, N * w)
  BY <1>1 DEF TensorBytes
<1>6. FlattenSeq([e \in 1 .. N |-> Pread(c, o + (e - 1) * w, w)]) = Pread(c, o, N * w)
  <2> HIDE DEF N, w, o, c
  <2>1. o + N * w <= Len(c)
    BY <1>1, <1>2
  <2> QED
    BY <1>1, <1>2, <2>1, ThePartsTogether
<1> QED
  BY <1>4, <1>5, <1>6

LEMMA ASplitTensorIsItsExperts ==
  ASSUME NEW cp \in Checkpoints, Prepares(cp), NEW t \in cp.tensors,
         t.name.kind = "split", t.name.layer < cp.layers,
         NEW b, NEW content, Holds(cp, b, content)
  PROVE  ReadBundle(ManifestOf(cp)[<<t.name.layer, t.name.expert>>], content)[t.name.role]
           = TensorBytes(cp, t)
<1> DEFINE l == t.name.layer
           e == t.name.expert
           k == <<l, e>>
           s == SplitSpan(t)
<1>1. l \in 0 .. cp.layers - 1 /\ e \in Nat /\ cp.experts \in Nat
  <2>1. l \in Nat /\ cp.layers \in Nat /\ l < cp.layers /\ e \in Nat /\ cp.experts \in Nat
    BY CheckpointsAssumption
  <2> HIDE DEF l, e
  <2> QED
    BY <2>1
<1>2. t \in Split(cp, l) /\ t \in OfExpert(Split(cp, l), e)
  BY DEF Split, OfExpert
<1>3. e < cp.experts
  <2>1. LayerAccepted(cp, l)
    BY <1>1 DEF Prepares
  <2> QED
    BY <1>2, <2>1 DEF LayerAccepted
<1>4. s \in PartsOf(cp, l, e)
  BY <1>2 DEF PartsOf
<1>5. s.role = t.name.role /\ s.file = t.shard /\ s.nbytes = Size(t) /\ s.offset = DataStart + t.start
  BY DEF SplitSpan
<1> HIDE DEF l, e, s
<1>6. k \in Keys(cp) /\ k[1] = l /\ k[2] = e
  BY <1>1, <1>3 DEF Keys
<1> HIDE DEF k
<1>7. s \in ToSet(ManifestOf(cp)[k])
  <2>1. ManifestOf(cp)[k] = BundleOf(cp, l, e)
    BY <1>6 DEF ManifestOf
  <2> QED
    BY <1>1, <1>4, <2>1, TheParts
<1>8. ReadBundle(ManifestOf(cp)[k], content)[s.role] = Pread(ShardBytes(cp, s.file), s.offset, s.nbytes)
  BY <1>6, <1>7, TheOldIsReadBySpan
<1> QED
  BY <1>5, <1>8 DEF TensorBytes, k, l, e

\* A bundle has nothing but its parts of the routed tensors of its layer.
LEMMA TheSpansAreOfTensors ==
  ASSUME NEW cp \in Checkpoints, Prepares(cp), NEW k \in Keys(cp),
         NEW s \in ToSet(ManifestOf(cp)[k])
  PROVE  \E t \in cp.tensors : /\ t.name.kind # "dense" /\ t.name.layer < cp.layers
                               /\ t.name.role = s.role /\ t.name.layer = k[1]
                               /\ t.name.kind = "leading" \/ t.name.expert = k[2]
<1>1. k[1] \in 0 .. cp.layers - 1 /\ k[2] \in Nat /\ cp.layers \in Nat
  BY CheckpointsAssumption DEF Keys
<1>2. s \in PartsOf(cp, k[1], k[2])
  <2>1. ManifestOf(cp)[k] = BundleOf(cp, k[1], k[2])
    BY DEF ManifestOf
  <2> QED
    BY <1>1, <2>1, TheParts
<1>3. k[1] < cp.layers
  BY <1>1
<1>4. ASSUME NEW t \in Leading(cp, k[1]), s = LeadingSpan(t, cp.experts, k[2])
      PROVE  /\ t \in cp.tensors /\ t.name.kind = "leading" /\ t.name.layer = k[1]
             /\ t.name.role = s.role
  BY <1>4 DEF Leading, LeadingSpan
<1>5. ASSUME NEW t \in OfExpert(Split(cp, k[1]), k[2]), s = SplitSpan(t)
      PROVE  /\ t \in cp.tensors /\ t.name.kind = "split" /\ t.name.layer = k[1]
             /\ t.name.role = s.role /\ t.name.expert = k[2]
  BY <1>5 DEF OfExpert, Split, SplitSpan
<1> QED
  BY <1>2, <1>3, <1>4, <1>5 DEF PartsOf

\* A span of a run that is not its last ends where another begins.
LEMMA NextInARun ==
  ASSUME NEW S, NEW spans, IsBundle(spans, S), NEW h \in Heads(spans),
         NEW s \in RunFrom(spans, h), NEW u \in RunFrom(spans, h), IsBefore(s, u)
  PROVE  \E n \in RunFrom(spans, h) : /\ IsBefore(s, n) /\ s.offset + s.nbytes = n.offset
                                      /\ n.offset <= u.offset
<1> DEFINE run == RunFrom(spans, h)
           F == InFile(spans, h.file)
           G == {c \in F : IsBefore(s, c)}
<1>1. /\ h \in ToSet(spans) /\ run \subseteq F /\ F \in SUBSET ToSet(spans)
      /\ \A c \in F : c.file = h.file
      /\ \A c \in run : ~IsBefore(c, h)
      /\ \A c \in run : \A g \in Heads(spans) : g.file = h.file /\ IsBefore(h, g) => IsBefore(c, g)
  BY DEF Heads, RunFrom, InFile
<1>2. ToSet(spans) \subseteq Places(S) /\ \A a, b \in ToSet(spans) : a.role = b.role => a = b
  BY SpansOfABundle
<1>3. /\ \A a \in ToSet(spans) : ~IsBefore(a, a)
      /\ \A a, b, c \in ToSet(spans) : IsBefore(a, b) /\ IsBefore(b, c) => IsBefore(a, c)
      /\ \A a, b \in ToSet(spans) : a # b => IsBefore(a, b) \/ IsBefore(b, a)
      /\ \A a, b \in ToSet(spans) : ~IsBefore(b, a) => a.offset <= b.offset
  BY <1>2, BeforeIsAnOrder
<1>4. s \in ToSet(spans) /\ u \in ToSet(spans) /\ s \in F /\ u \in F
      /\ ~IsBefore(s, h) /\ ~IsBefore(u, h)
  BY <1>1
<1>5. u \in G /\ G \in SUBSET ToSet(spans)
  BY <1>1, <1>4
<1>6. PICK n \in G : \A a \in G : ~IsBefore(a, n)
  <2> HIDE DEF G
  <2> QED
    BY <1>5, Extremes
<1>7. n \in F /\ n \in ToSet(spans) /\ IsBefore(s, n) /\ ~IsBefore(u, n) /\ n.file = h.file
  BY <1>1, <1>5, <1>6
<1>8. IsBefore(h, n) /\ ~IsBefore(n, h)
  BY <1>1, <1>3, <1>4, <1>7
<1>9. n \notin Heads(spans)
  <2>1. n \in Heads(spans) => IsBefore(u, n)
    BY <1>1, <1>7, <1>8
  <2> QED
    BY <1>7, <2>1
<1>10. ASSUME NEW g \in Heads(spans), g.file = h.file, IsBefore(h, g)
       PROVE  IsBefore(n, g)
  <2>1. IsBefore(s, g) /\ g \in ToSet(spans) /\ g # n
    BY <1>1, <1>9, <1>10 DEF Heads
  <2>2. g \in G
    BY <1>10, <2>1 DEF InFile
  <2> QED
    BY <1>3, <1>6, <1>7, <2>1, <2>2
<1>11. n \in run
  BY <1>7, <1>8, <1>10 DEF RunFrom
<1>12. PICK a \in F : /\ IsBefore(a, n) /\ a.offset + a.nbytes = n.offset
                      /\ ~\E b \in F : IsBefore(a, b) /\ IsBefore(b, n)
  <2>1. Continues(spans, n) /\ InFile(spans, n.file) = F
    BY <1>7, <1>9 DEF Heads
  <2> QED
    BY <2>1 DEF Continues
<1>13. a = s
  <2>1. a \in ToSet(spans) /\ ~IsBefore(a, s) /\ ~IsBefore(s, a)
    BY <1>1, <1>4, <1>6, <1>7, <1>12
  <2> QED
    BY <1>3, <1>4, <2>1
<1>14. n.offset <= u.offset
  BY <1>3, <1>4, <1>7
<1> QED
  BY <1>7, <1>11, <1>12, <1>13, <1>14

\* What lies between the beginning and the end of a run lies in one span of it.
LEMMA ARunIsCovered ==
  ASSUME NEW S, NEW spans, IsBundle(spans, S), NEW h \in Heads(spans), NEW p \in Nat,
         h.offset <= p, p < Final(RunFrom(spans, h)).offset + Final(RunFrom(spans, h)).nbytes
  PROVE  \E s \in RunFrom(spans, h) : \A a \in RunFrom(spans, h) :
           p \in a.offset .. a.offset + a.nbytes - 1 <=> a = s
<1> DEFINE run == RunFrom(spans, h)
           f == Final(run)
           G == {s \in run : s.offset <= p}
<1>1. f \in run /\ h \in run /\ run \subseteq ToSet(spans)
  BY RunIs
<1>2. ToSet(spans) \subseteq Places(S) /\ \A a, b \in ToSet(spans) : a.role = b.role => a = b
  BY SpansOfABundle
<1>3. \A a, b \in ToSet(spans) : /\ a # b => IsBefore(a, b) \/ IsBefore(b, a)
                                 /\ ~IsBefore(b, a) => a.offset <= b.offset
  BY <1>2, BeforeIsAnOrder
<1>4. \A a \in run : a.offset \in Nat /\ a.nbytes \in Nat
  BY <1>1, <1>2 DEF Places
<1>5. \A a, b \in run : IsBefore(a, b) => \E n \in run : /\ IsBefore(a, n)
                                                        /\ a.offset + a.nbytes = n.offset
                                                        /\ n.offset <= b.offset
  BY NextInARun
<1>6. p < f.offset + f.nbytes
  OBVIOUS
<1>7. \A a \in run : ~IsBefore(f, a)
  <2>1. \E m \in run : \A a \in run : ~IsBefore(m, a)
    <3>1. run \in SUBSET ToSet(spans) /\ run # {}
      BY <1>1
    <3> HIDE DEF run
    <3> QED
      BY <3>1, Extremes
  <2> QED
    BY <2>1 DEF Final
<1> HIDE DEF run, f
<1>8. h \in G /\ G \in SUBSET ToSet(spans)
  BY <1>1
<1>9. PICK m \in G : \A a \in G : ~IsBefore(m, a)
  <2> HIDE DEF G
  <2> QED
    BY <1>8, Extremes
<1>10. m \in run /\ m.offset <= p /\ m \in ToSet(spans)
  BY <1>1, <1>9
<1>11. p < m.offset + m.nbytes
  <2>1. CASE m = f
    BY <1>6, <2>1
  <2>2. CASE m # f
    <3>1. IsBefore(m, f)
      BY <1>1, <1>3, <1>7, <1>10, <2>2
    <3>2. PICK n \in run : IsBefore(m, n) /\ m.offset + m.nbytes = n.offset
      BY <1>1, <1>5, <1>10, <3>1
    <3>3. ~(n.offset <= p)
      BY <1>9, <3>2
    <3> QED
      BY <1>4, <3>2, <3>3
  <2> QED
    BY <2>1, <2>2
<1>12. ASSUME NEW a \in run, a # m, p \in a.offset .. a.offset + a.nbytes - 1
       PROVE  FALSE
  <2>1. a.offset <= p /\ p < a.offset + a.nbytes
    BY <1>4, <1>12
  <2>2. IsBefore(a, m)
    BY <1>1, <1>3, <1>9, <1>10, <1>12, <2>1
  <2>3. PICK n \in run : a.offset + a.nbytes = n.offset /\ n.offset <= m.offset
    BY <1>5, <1>10, <2>2
  <2> QED
    BY <1>4, <1>10, <2>1, <2>3
<1>13. p \in m.offset .. m.offset + m.nbytes - 1
  BY <1>4, <1>10, <1>11
<1> QED
  BY <1>10, <1>12, <1>13 DEF run

\* No pread of a bundle of the source takes a byte that is not asked for, or one twice.
LEMMA TheSourceReadsNoMore ==
  ASSUME Prepares(checkpoint), checkpoint \in Checkpoints, NEW k \in Keys(checkpoint),
         NEW run \in Runs(ManifestOf(checkpoint)[k]), NEW b, Holds(checkpoint, b, Contents)
  PROVE  ReadsNoMore(run)
<1> DEFINE cp == checkpoint
           spans == ManifestOf(cp)[k]
           content == Contents
<1>1. /\ IsBundle(spans, Shards)
      /\ \A i \in DOMAIN spans : spans[i].offset + spans[i].nbytes <= cp.size[spans[i].file]
  BY ManifestIs
<1>2. PICK h \in Heads(spans) : run = RunFrom(spans, h)
  BY DEF Runs
<1> HIDE DEF spans
<1>3. /\ First(run) = h /\ Final(run) \in run /\ h \in run
      /\ \A s \in run : s \in ToSet(spans) /\ s.file = h.file /\ h.offset <= s.offset
  BY <1>1, <1>2, RunIs
<1>4. \A s \in ToSet(spans) : /\ s.file \in Shards /\ s.offset \in Nat /\ s.nbytes \in Nat
                              /\ s.offset + s.nbytes <= cp.size[s.file]
  <2>1. \A i \in DOMAIN spans : spans[i] \in Places(Shards)
    BY <1>1, SpansOfABundle
  <2>2. ToSet(spans) = {spans[i] : i \in DOMAIN spans}
    BY DEF ToSet
  <2> QED
    BY <1>1, <2>1, <2>2 DEF Places
<1> DEFINE f == Final(run)
           c == content[h.file]
           n == f.offset + f.nbytes - h.offset
<1>5. h.file \in Shards /\ h.offset \in Nat /\ f.offset \in Nat /\ f.nbytes \in Nat
      /\ h.offset <= f.offset /\ f.offset + f.nbytes <= cp.size[h.file]
  BY <1>3, <1>4
<1> HIDE DEF f, content
<1>6. c \in Seq(SourceBytes) /\ Len(c) = cp.size[h.file] /\ Len(c) \in Nat
  BY <1>5, ShardBytesAre DEF Holds, content
<1>7. n \in Nat /\ h.offset + n <= Len(c) /\ h.offset + n = f.offset + f.nbytes
  BY <1>5, <1>6
<1>8. RunBytes(run, content) = Pread(c, h.offset, n)
  BY <1>3 DEF RunBytes, f
<1> HIDE DEF c, n
<1>9. Len(RunBytes(run, content)) = n
  BY <1>5, <1>6, <1>7, <1>8, PreadIs
<1>10. ASSUME NEW i \in 0 .. n - 1
       PROVE  \E s \in run : \A a \in run :
                First(run).offset + i \in a.offset .. a.offset + a.nbytes - 1 <=> a = s
  <2> DEFINE p == First(run).offset + i
  <2>1. p \in Nat /\ h.offset <= p /\ p < f.offset + f.nbytes
    BY <1>3, <1>5, <1>7, <1>10
  <2> HIDE DEF p
  <2>2. p < Final(RunFrom(spans, h)).offset + Final(RunFrom(spans, h)).nbytes
    BY <1>2, <2>1 DEF f
  <2>3. \E s \in run : \A a \in run : p \in a.offset .. a.offset + a.nbytes - 1 <=> a = s
    BY <1>1, <1>2, <2>1, <2>2, ARunIsCovered
  <2> QED
    BY <2>3 DEF p
<1> QED
  BY <1>9, <1>10 DEF ReadsNoMore, content

\* prepare writes the manifest of the checkpoint, and nothing happens to it until the next
\* process begins.
PreparedInv == outcome = "prepared" => stage = "off" /\ files["source"] = Whole(ManifestOf(checkpoint))

LEMMA PreparedNext == RepackInv /\ PreparedInv /\ [Next]_vars => PreparedInv'
<1> SUFFICES ASSUME RepackInv, PreparedInv, [Next]_vars, outcome' = "prepared"
             PROVE  stage' = "off" /\ files'["source"] = Whole(ManifestOf(checkpoint'))
  BY DEF PreparedInv
<1>1. "source" \in DOMAIN files
  BY DEF RepackInv, FilesInv
<1> USE DEF Ends, Exits
<1>2. ASSUME NEW overwrite \in BOOLEAN, Prepare(overwrite)
      PROVE  FALSE
  BY <1>2 DEF Prepare
<1>3. CASE StartRepack
  <2>1. outcome' \in {"no space", "none"}
    BY <1>3 DEF StartRepack
  <2> QED
    BY <2>1
<1>4. CASE PrepareEnds
  BY <1>1, <1>4 DEF PrepareEnds
<1>5. CASE WriteFails \/ Verify \/ Crash
  <2>1. outcome' \in {"failed", "verified", "mismatch", "killed"}
    BY <1>5 DEF WriteFails, Verify, Crash
  <2> QED
    BY <2>1
<1>6. CASE Pop \/ Write \/ CloseBlob \/ Describe \/ \E k \in DOMAIN job : JobEnds(k)
  <2>1. outcome' = outcome /\ stage # "off"
    BY <1>6 DEF Pop, Write, CloseBlob, Describe, JobEnds
  <2> QED
    BY <2>1 DEF PreparedInv
<1>7. CASE UNCHANGED vars
  BY <1>7 DEF vars, toolVars, PreparedInv
<1> QED
  BY <1>2, <1>3, <1>4, <1>5, <1>6, <1>7 DEF Next, Tool

LEMMA PreparedHolds == Spec => []PreparedInv
<1>1. Init => PreparedInv
  BY DEF Init, PreparedInv
<1> QED
  BY <1>1, PreparedNext, RepackInvHolds, PTL DEF Spec

\* EveryByteHasItsReader for every checkpoint that is prepared: each tensor of a layer comes
\* whole to its experts, in parts or as it is, a bundle has nothing else, and no pread takes
\* a byte that is not asked for.
THEOREM PreparedBytesReachTheirExperts == Spec => []EveryByteHasItsReader
<1>1. RepackInv /\ PreparedInv => EveryByteHasItsReader
  <2> SUFFICES ASSUME RepackInv, PreparedInv, outcome = "prepared"
               PROVE  EveryByteHasItsReader
    BY DEF EveryByteHasItsReader
  <2> DEFINE cp == checkpoint
             bundles == Bundles("source")
             routed == {t \in cp.tensors \ Shell(cp) : t.name.layer < cp.layers}
             content == Contents
             b == SubSeq(blob, 1, flushed)
  <2>1. bundles = ManifestOf(cp) /\ Prepares(cp) /\ cp \in Checkpoints
    BY DEF PreparedInv, RepackInv, FilesInv, Bundles, Whole, Absent
  <2>2. Holds(cp, b, content)
    BY <2>1, ContentsHold
  <2>3. ASSUME NEW t \in routed
        PROVE  Given(t) = TensorBytes(cp, t)
    <3>1. t \in cp.tensors /\ t.name.layer < cp.layers /\ t.name.kind \in {"leading", "split"}
      BY <2>1, CheckpointsAssumption DEF Shell
    <3>2. CASE t.name.kind = "leading"
      <4>1. FlattenSeq([e \in 1 .. cp.experts |->
                          ReadBundle(ManifestOf(cp)[<<t.name.layer, e - 1>>], content)[t.name.role]])
              = TensorBytes(cp, t)
        <5> HIDE DEF b, content
        <5> QED
          BY <2>1, <2>2, <3>1, <3>2, ALeadingTensorIsCut
      <4> HIDE DEF bundles
      <4>2. Given(t) = FlattenSeq([e \in 1 .. cp.experts |->
                         ReadBundle(bundles[<<t.name.layer, e - 1>>], content)[t.name.role]])
        BY <3>2 DEF Given, RoleBytes, bundles
      <4> QED
        BY <2>1, <4>1, <4>2
    <3>3. CASE t.name.kind = "split"
      <4>1. ReadBundle(ManifestOf(cp)[<<t.name.layer, t.name.expert>>], content)[t.name.role]
              = TensorBytes(cp, t)
        <5> HIDE DEF b, content
        <5> QED
          BY <2>1, <2>2, <3>1, <3>3, ASplitTensorIsItsExperts
      <4>2. Given(t) = ReadBundle(bundles[<<t.name.layer, t.name.expert>>], content)[t.name.role]
        BY <3>3 DEF Given
      <4> HIDE DEF bundles
      <4> QED
        BY <2>1, <4>1, <4>2
    <3> QED
      BY <3>1, <3>2, <3>3
  <2>4. ASSUME NEW k \in DOMAIN bundles
        PROVE  /\ \A s \in ToSet(bundles[k]) :
                    \E t \in routed : /\ t.name.role = s.role /\ t.name.layer = k[1]
                                      /\ t.name.kind = "leading" \/ t.name.expert = k[2]
               /\ \A run \in Runs(bundles[k]) : ReadsNoMore(run)
    <3>1. k \in Keys(cp) /\ bundles[k] = ManifestOf(cp)[k]
      BY <2>1 DEF ManifestOf
    <3>2. ASSUME NEW s \in ToSet(ManifestOf(cp)[k])
          PROVE  \E t \in routed : /\ t.name.role = s.role /\ t.name.layer = k[1]
                                   /\ t.name.kind = "leading" \/ t.name.expert = k[2]
      BY <2>1, <3>1, TheSpansAreOfTensors DEF Shell
    <3>3. ASSUME NEW run \in Runs(ManifestOf(cp)[k])
          PROVE  ReadsNoMore(run)
      BY <2>1, <2>2, <3>1, TheSourceReadsNoMore
    <3> QED
      BY <3>1, <3>2, <3>3
  <2> HIDE DEF bundles, routed
  <2> QED
    BY <2>3, <2>4 DEF EveryByteHasItsReader, bundles, routed
<1> QED
  BY <1>1, RepackInvHolds, PreparedHolds, PTL
================================================================================
