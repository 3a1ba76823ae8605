-------------------------- MODULE StreamedReplyProofs --------------------------
(***************************************************************************)
(* Theorems about a streamed reply, for all markers, stop sequences,       *)
(* requests and texts and every way to cut them into responses.            *)
(***************************************************************************)
EXTENDS StreamedReply, SequenceTheorems, FiniteSetTheorems, WellFoundedInduction, TLAPS

--------------------------------------------------------------------------------
(***************************************************************************)
(* Induction and recursion on the naturals, stated of sets and functions.  *)
(***************************************************************************)

\* Every set of naturals that is not empty has a least element: of the intervals up to its
\* elements one has no other inside it.
LEMMA LeastNatural ==
  ASSUME NEW T \in SUBSET Nat, T # {}
  PROVE  \E n \in T : \A m \in T : n <= m
<1> DEFINE I == {1 .. n : n \in T}
<1>1. I \subseteq FiniteSubsetsOf(Nat) /\ I # {}
  <2>1. \A n \in T : IsFiniteSet(1 .. n) /\ 1 .. n \subseteq Nat
    BY FS_Interval
  <2> QED
    BY <2>1 DEF FiniteSubsetsOf
<1>2. PICK x \in I : \A y \in I : <<y, x>> \notin StrictSubsetOrdering(Nat)
  <2> HIDE DEF I
  <2> QED
    BY <1>1, FS_StrictSubsetOrderingWellFounded, WFMin, Zenon
<1>3. PICK n \in T : x = 1 .. n
  OBVIOUS
<1>4. ASSUME NEW m \in T, ~(n <= m)
      PROVE  FALSE
  <2>1. 1 .. m \in I /\ 1 .. m \in SUBSET Nat /\ x \in SUBSET Nat
    BY <1>3
  <2>2. n \in 1 .. n /\ n \notin 1 .. m /\ 1 .. m \subseteq 1 .. n
    BY <1>4
  <2>3. <<1 .. m, x>> \in StrictSubsetOrdering(Nat)
    BY <1>3, <2>1, <2>2 DEF StrictSubsetOrdering
  <2> QED
    BY <1>2, <2>1, <2>3
<1> QED
  BY <1>4

LEMMA Induction ==
  ASSUME NEW T, 0 \in T, \A n \in Nat : n \in T => n + 1 \in T
  PROVE  Nat \subseteq T
<1>1. SUFFICES ASSUME Nat \ T # {} PROVE FALSE
  OBVIOUS
<1>2. PICK n \in Nat \ T : \A m \in Nat \ T : n <= m
  BY <1>1, LeastNatural
<1>3. n - 1 \in Nat /\ n - 1 \notin Nat \ T
  BY <1>2
<1> QED
  BY <1>2, <1>3

\* f is defined by recursion: on the naturals, or for a loop of L turns.
Recurs(f, S, x, step) == /\ f \in [Nat -> S] /\ f[0] = x
                         /\ \A n \in Nat : f[n + 1] = step[n][f[n]]
Loops(f, L, S, x, step) ==
  /\ f \in [0 .. L -> S]
  /\ f = [n \in 0 .. L |-> IF n = 0 THEN x ELSE step[n - 1][f[n - 1]]]

LEMMA Recursion ==
  ASSUME NEW S, NEW x \in S, NEW step \in [Nat -> [S -> S]]
  PROVE  \E f : Recurs(f, S, x, step)
<1> DEFINE Starts(n, g) == /\ g \in [0 .. n -> S] /\ g[0] = x
                           /\ \A i \in 0 .. n - 1 : g[i + 1] = step[i][g[i]]
           T == {n \in Nat : \E g : Starts(n, g)}
           Begun(n) == CHOOSE g : Starts(n, g)
           f == [n \in Nat |-> Begun(n)[n]]
<1>1. Nat \subseteq T
  <2>1. 0 \in T
    <3>1. Starts(0, [i \in 0 .. 0 |-> x])
      OBVIOUS
    <3> QED
      BY <3>1
  <2>2. ASSUME NEW n \in Nat, n \in T
        PROVE  n + 1 \in T
    <3>1. PICK g : Starts(n, g)
      BY <2>2
    <3> DEFINE h == [i \in 0 .. n + 1 |-> IF i = n + 1 THEN step[n][g[n]] ELSE g[i]]
    <3>2. g[n] \in S /\ step[n][g[n]] \in S
      BY <3>1
    <3>3. h \in [0 .. n + 1 -> S] /\ h[0] = x
      BY <3>1, <3>2
    <3>4. ASSUME NEW i \in 0 .. n
          PROVE  h[i + 1] = step[i][h[i]]
      <4>1. CASE i = n
        BY <4>1
      <4>2. CASE i \in 0 .. n - 1
        BY <3>1, <4>2
      <4> QED
        BY <4>1, <4>2
    <3>5. Starts(n + 1, h)
      <4> HIDE DEF h
      <4> QED
        BY <3>3, <3>4
    <3>6. \E g1 : Starts(n + 1, g1)
      <4> HIDE DEF Starts, h
      <4> QED
        BY <3>5
    <3> QED
      BY <3>6
  <2> QED
    <3> HIDE DEF T
    <3> QED
      BY <2>1, <2>2, Induction
<1>2. \A n \in Nat : Starts(n, Begun(n))
  BY <1>1
<1>3. ASSUME NEW n \in Nat, NEW g, NEW h, Starts(n, g), Starts(n + 1, h)
      PROVE  \A i \in 0 .. n : g[i] = h[i]
  <2> DEFINE U == {i \in Nat : i \in 0 .. n => g[i] = h[i]}
  <2>1. 0 \in U
    BY <1>3
  <2>2. ASSUME NEW i \in Nat, i \in U
        PROVE  i + 1 \in U
    <3>1. SUFFICES ASSUME i + 1 \in 0 .. n PROVE g[i + 1] = h[i + 1]
      OBVIOUS
    <3>2. i \in 0 .. n - 1 /\ i \in 0 .. n /\ i \in 0 .. (n + 1) - 1
      BY <3>1
    <3>3. g[i] = h[i]
      BY <2>2, <3>2
    <3> QED
      BY <1>3, <3>2, <3>3
  <2>3. Nat \subseteq U
    <3> HIDE DEF U
    <3> QED
      BY <2>1, <2>2, Induction
  <2> QED
    BY <2>3
<1> HIDE DEF Begun
<1>4. ASSUME NEW n \in Nat
      PROVE  f[n] \in S /\ f[n + 1] = step[n][f[n]]
  <2>1. Starts(n, Begun(n)) /\ Starts(n + 1, Begun(n + 1)) /\ n \in 0 .. n /\ n \in 0 .. (n + 1) - 1
    BY <1>2
  <2>2. Begun(n)[n] = Begun(n + 1)[n]
    <3> HIDE DEF Starts
    <3> QED
      BY <1>3, <2>1
  <2>3. Begun(n + 1)[n + 1] = step[n][Begun(n + 1)[n]]
    BY <2>1
  <2> QED
    BY <2>1, <2>2, <2>3
<1>5. f[0] = x
  BY <1>2
<1>6. f \in [Nat -> S]
  BY <1>4
<1> HIDE DEF f
<1>7. Recurs(f, S, x, step)
  BY <1>4, <1>5, <1>6 DEF Recurs
<1> QED
  BY <1>7

LEMMA InductionUpTo ==
  ASSUME NEW L \in Nat, NEW T, 0 \in T, \A n \in 0 .. L - 1 : n \in T => n + 1 \in T
  PROVE  0 .. L \subseteq T
<1> DEFINE U == {n \in Nat : n \in 0 .. L => n \in T}
<1>1. 0 \in U
  OBVIOUS
<1>2. ASSUME NEW n \in Nat, n \in U
      PROVE  n + 1 \in U
  <2>1. CASE n + 1 \in 0 .. L
    <3>1. n \in 0 .. L - 1 /\ n \in 0 .. L
      BY <2>1
    <3> QED
      BY <1>2, <3>1
  <2> QED
    BY <2>1
<1>3. Nat \subseteq U
  <2> HIDE DEF U
  <2> QED
    BY <1>1, <1>2, Induction
<1> QED
  BY <1>3

\* A loop of L turns.
LEMMA LoopExists ==
  ASSUME NEW S, NEW L \in Nat, NEW x \in S, NEW step \in [Nat -> [S -> S]]
  PROVE  \E f : Loops(f, L, S, x, step)
<1>0. PICK f : Recurs(f, S, x, step)
  BY Recursion
<1>1. f \in [Nat -> S] /\ f[0] = x /\ \A n \in Nat : f[n + 1] = step[n][f[n]]
  BY <1>0 DEF Recurs
<1> DEFINE g == [n \in 0 .. L |-> f[n]]
<1>2. g \in [0 .. L -> S]
  BY <1>1
<1>3. ASSUME NEW n \in 0 .. L
      PROVE  g[n] = IF n = 0 THEN x ELSE step[n - 1][g[n - 1]]
  <2>1. CASE n = 0
    BY <1>1, <2>1
  <2>2. CASE n # 0
    <3>1. n - 1 \in Nat /\ n - 1 \in 0 .. L /\ (n - 1) + 1 = n
      BY <2>2
    <3>2. f[(n - 1) + 1] = step[n - 1][f[n - 1]]
      BY <1>1, <3>1
    <3> QED
      BY <2>2, <3>1, <3>2
  <2> QED
    BY <2>1, <2>2
<1>4. g = [n \in 0 .. L |-> IF n = 0 THEN x ELSE step[n - 1][g[n - 1]]]
  <2> HIDE DEF g
  <2> QED
    BY <1>2, <1>3
<1> HIDE DEF g
<1>5. Loops(g, L, S, x, step)
  BY <1>2, <1>4 DEF Loops
<1> QED
  BY <1>5

--------------------------------------------------------------------------------
(***************************************************************************)
(* Sequences, and what is picked of them.                                  *)
(***************************************************************************)

LEMMA ConcatIs ==
  ASSUME NEW S, NEW c \in Seq(S), NEW b \in Seq(S)
  PROVE  /\ c \o b \in Seq(S) /\ Len(c \o b) = Len(c) + Len(b) /\ Len(c) \in Nat /\ Len(b) \in Nat
         /\ \A i \in 1 .. Len(c) : (c \o b)[i] = c[i]
         /\ \A i \in 1 .. Len(b) : (c \o b)[Len(c) + i] = b[i]
<1>1. /\ c \o b \in Seq(S) /\ Len(c \o b) = Len(c) + Len(b) /\ Len(c) \in Nat /\ Len(b) \in Nat
      /\ \A i \in 1 .. Len(c) + Len(b) : (c \o b)[i] = IF i <= Len(c) THEN c[i] ELSE b[i - Len(c)]
  BY ConcatProperties, LenProperties
<1>2. ASSUME NEW i \in 1 .. Len(b)
      PROVE  (c \o b)[Len(c) + i] = b[i]
  <2>1. Len(c) + i \in 1 .. Len(c) + Len(b) /\ ~(Len(c) + i <= Len(c)) /\ (Len(c) + i) - Len(c) = i
    BY <1>1
  <2> QED
    BY <1>1, <2>1
<1>3. ASSUME NEW i \in 1 .. Len(c)
      PROVE  (c \o b)[i] = c[i]
  BY <1>1
<1> QED
  BY <1>1, <1>2, <1>3

\* What is picked of a sequence, place by place.
Picks(g, S, s, places) ==
  /\ g \in [0 .. Len(s) -> Seq(S)]
  /\ g[0] = <<>>
  /\ \A n \in 1 .. Len(s) : g[n] = IF n \in places THEN Append(g[n - 1], s[n]) ELSE g[n - 1]
  /\ Picked(s, places) = g[Len(s)]

LEMMA PickedIs ==
  ASSUME NEW S, NEW s \in Seq(S), NEW places
  PROVE  \E g : Picks(g, S, s, places)
<1> DEFINE L == Len(s)
           x == <<>>
           step == [n \in Nat |-> [r \in Seq(S) |->
                      IF n + 1 \in places /\ n + 1 \in 1 .. L THEN Append(r, s[n + 1]) ELSE r]]
<1>1. L \in Nat /\ \A n \in 1 .. L : s[n] \in S
  BY ElementOfSeq, LenProperties
<1>2. x \in Seq(S)
  BY EmptySeq
<1>3. step \in [Nat -> [Seq(S) -> Seq(S)]]
  <2>1. ASSUME NEW n \in Nat, NEW r \in Seq(S)
        PROVE  (IF n + 1 \in places /\ n + 1 \in 1 .. L THEN Append(r, s[n + 1]) ELSE r) \in Seq(S)
    <3>1. CASE n + 1 \in 1 .. L
      <4>1. Append(r, s[n + 1]) \in Seq(S)
        BY <1>1, <3>1, AppendProperties
      <4> QED
        BY <4>1
    <3> QED
      BY <3>1
  <2> QED
    BY <2>1
<1>4. PICK f : Loops(f, L, Seq(S), x, step)
  <2> HIDE DEF step, x, L
  <2> QED
    BY <1>1, <1>2, <1>3, LoopExists
<1>5. f = [n \in 0 .. L |-> IF n = 0 THEN x
                            ELSE IF n \in places THEN Append(f[n - 1], s[n]) ELSE f[n - 1]]
  <2>1. ASSUME NEW n \in 0 .. L, n # 0
        PROVE  step[n - 1][f[n - 1]] = IF n \in places THEN Append(f[n - 1], s[n]) ELSE f[n - 1]
    <3>1. n - 1 \in 0 .. L /\ n - 1 \in Nat /\ n \in 1 .. L /\ (n - 1) + 1 = n
      BY <1>1, <2>1
    <3>2. f[n - 1] \in Seq(S)
      BY <1>4, <3>1 DEF Loops
    <3> QED
      BY <3>1, <3>2
  <2> HIDE DEF step, x, L
  <2>2. \A n \in 0 .. L : f[n] = IF n = 0 THEN x ELSE step[n - 1][f[n - 1]]
    BY <1>4 DEF Loops
  <2> QED
    BY <1>4, <2>1, <2>2 DEF Loops
<1> DEFINE picked[n \in 0 .. Len(s)] ==
             IF n = 0 THEN <<>>
             ELSE IF n \in places THEN Append(picked[n - 1], s[n]) ELSE picked[n - 1]
<1>6. Picked(s, places) = picked[Len(s)]
  BY DEF Picked
<1>7. picked = [n \in 0 .. Len(s) |->
                  IF n = 0 THEN <<>>
                  ELSE IF n \in places THEN Append(picked[n - 1], s[n]) ELSE picked[n - 1]]
  BY <1>5, Zenon
<1> HIDE DEF picked, step
<1> DEFINE T == {n \in 0 .. L : picked[n] \in Seq(S)}
<1>8. 0 .. L \subseteq T
  <2>1. 0 \in T
    BY <1>1, <1>2, <1>7
  <2>2. ASSUME NEW n \in 0 .. L - 1, n \in T
        PROVE  n + 1 \in T
    <3>1. n + 1 \in 1 .. L /\ n + 1 \in 0 .. L /\ (n + 1) - 1 = n /\ n + 1 # 0
      BY <1>1
    <3>2. picked[n + 1] = IF n + 1 \in places THEN Append(picked[n], s[n + 1]) ELSE picked[n]
      BY <1>7, <3>1
    <3>3. Append(picked[n], s[n + 1]) \in Seq(S)
      BY <1>1, <2>2, <3>1, AppendProperties
    <3> QED
      BY <2>2, <3>1, <3>2, <3>3
  <2> HIDE DEF T, L
  <2> QED
    BY <1>1, <2>1, <2>2, InductionUpTo
<1>9. picked \in [0 .. L -> Seq(S)]
  BY <1>7, <1>8
<1>10. /\ picked[0] = <<>>
       /\ \A n \in 1 .. L : picked[n] = IF n \in places THEN Append(picked[n - 1], s[n]) ELSE picked[n - 1]
  <2>1. 0 \in 0 .. L /\ \A n \in 1 .. L : n \in 0 .. L /\ n # 0
    BY <1>1
  <2> QED
    BY <1>7, <2>1
<1>11. Picks(picked, S, s, places)
  BY <1>6, <1>9, <1>10 DEF Picks
<1> QED
  BY <1>11

LEMMA PickedType ==
  ASSUME NEW S, NEW s \in Seq(S), NEW places
  PROVE  Picked(s, places) \in Seq(S)
<1>1. PICK g : Picks(g, S, s, places)
  BY PickedIs
<1> QED
  BY <1>1, LenProperties DEF Picks

LEMMA PickedAll ==
  ASSUME NEW S, NEW s \in Seq(S), NEW places, 1 .. Len(s) \subseteq places
  PROVE  Picked(s, places) = s
<1> DEFINE L == Len(s)
<1>1. L \in Nat /\ \A n \in 1 .. L : s[n] \in S
  BY ElementOfSeq, LenProperties
<1>2. PICK g \in [0 .. L -> Seq(S)] :
        /\ g[0] = <<>>
        /\ \A n \in 1 .. L : g[n] = IF n \in places THEN Append(g[n - 1], s[n]) ELSE g[n - 1]
        /\ Picked(s, places) = g[L]
  <2>1. PICK g : Picks(g, S, s, places)
    BY PickedIs
  <2> QED
    BY <2>1 DEF Picks
<1> DEFINE T == {n \in 0 .. L : g[n] = SubSeq(s, 1, n)}
<1> HIDE DEF L
<1>3. 0 \in T
  BY <1>1, <1>2, SubSeqEmpty
<1>4. ASSUME NEW n \in 0 .. L - 1, n \in T
      PROVE  n + 1 \in T
  <2>1. n + 1 \in 1 .. L /\ n + 1 \in 0 .. L /\ (n + 1) - 1 = n
    BY <1>1
  <2>2. g[n + 1] = Append(SubSeq(s, 1, n), s[n + 1])
    BY <1>2, <1>4, <2>1 DEF L
  <2>3. SubSeq(s, 1, n) \in Seq(S) /\ s[n + 1] \in S
    <3>1. \A k \in 1 .. n : s[k] \in S
      BY <1>1, <2>1
    <3> QED
      BY <1>1, <2>1, <3>1, SubSeqProperties
  <2>4. SubSeq(s, 1, n + 1) = SubSeq(s, 1, n) \o << s[n + 1] >>
    <3>1. 1 \in 1 .. Len(s) /\ n + 1 \in 1 .. Len(s)
      BY <1>1, <2>1 DEF L
    <3> QED
      BY <2>1, <3>1, SubSeqRecursiveSecond
  <2> QED
    BY <2>1, <2>2, <2>3, <2>4, AppendIsConcat
<1>5. 0 .. L \subseteq T
  <2> HIDE DEF T
  <2> QED
    BY <1>1, <1>3, <1>4, InductionUpTo
<1>6. g[L] = SubSeq(s, 1, L)
  BY <1>1, <1>5
<1> QED
  BY <1>2, <1>6, SubSeqFull DEF L

LEMMA PickedNone ==
  ASSUME NEW S, NEW s \in Seq(S), NEW places, \A n \in 1 .. Len(s) : n \notin places
  PROVE  Picked(s, places) = <<>>
<1> DEFINE L == Len(s)
<1>1. L \in Nat
  BY LenProperties
<1>2. PICK g \in [0 .. L -> Seq(S)] :
        /\ g[0] = <<>>
        /\ \A n \in 1 .. L : g[n] = IF n \in places THEN Append(g[n - 1], s[n]) ELSE g[n - 1]
        /\ Picked(s, places) = g[L]
  <2>1. PICK g : Picks(g, S, s, places)
    BY PickedIs
  <2> QED
    BY <2>1 DEF Picks
<1> DEFINE T == {n \in 0 .. L : g[n] = <<>>}
<1>3. 0 \in T
  BY <1>1, <1>2
<1>4. ASSUME NEW n \in 0 .. L - 1, n \in T
      PROVE  n + 1 \in T
  <2>1. n + 1 \in 1 .. L /\ n + 1 \in 0 .. L /\ (n + 1) - 1 = n
    BY <1>1
  <2> QED
    BY <1>2, <1>4, <2>1
<1>5. 0 .. L \subseteq T
  <2> HIDE DEF T, L
  <2> QED
    BY <1>1, <1>3, <1>4, InductionUpTo
<1> QED
  BY <1>1, <1>2, <1>5

\* What is picked of two sequences put together.
LEMMA PickedConcat ==
  ASSUME NEW S, NEW s \in Seq(S), NEW t \in Seq(S), NEW P, NEW Q, NEW R,
         \A n \in 1 .. Len(s) : n \in P <=> n \in Q,
         \A n \in 1 .. Len(t) : Len(s) + n \in P <=> n \in R
  PROVE  Picked(s \o t, P) = Picked(s, Q) \o Picked(t, R)
<1> DEFINE u == s \o t
           L == Len(s)
           M == Len(t)
<1>1. /\ u \in Seq(S) /\ Len(u) = L + M /\ L \in Nat /\ M \in Nat
      /\ \A i \in 1 .. L : u[i] = s[i] /\ s[i] \in S
      /\ \A i \in 1 .. M : u[L + i] = t[i] /\ t[i] \in S
  BY ConcatIs, ElementOfSeq
<1>2. PICK g \in [0 .. L + M -> Seq(S)] :
        /\ g[0] = <<>>
        /\ \A n \in 1 .. L + M : g[n] = IF n \in P THEN Append(g[n - 1], u[n]) ELSE g[n - 1]
        /\ Picked(u, P) = g[L + M]
  <2> HIDE DEF u, L, M
  <2>1. PICK g : Picks(g, S, u, P)
    BY <1>1, PickedIs
  <2> QED
    BY <1>1, <2>1 DEF Picks
<1>3. PICK a \in [0 .. L -> Seq(S)] :
        /\ a[0] = <<>>
        /\ \A n \in 1 .. L : a[n] = IF n \in Q THEN Append(a[n - 1], s[n]) ELSE a[n - 1]
        /\ Picked(s, Q) = a[L]
  <2>1. PICK a : Picks(a, S, s, Q)
    BY PickedIs
  <2> QED
    BY <2>1 DEF Picks
<1>4. PICK b \in [0 .. M -> Seq(S)] :
        /\ b[0] = <<>>
        /\ \A n \in 1 .. M : b[n] = IF n \in R THEN Append(b[n - 1], t[n]) ELSE b[n - 1]
        /\ Picked(t, R) = b[M]
  <2>1. PICK b : Picks(b, S, t, R)
    BY PickedIs
  <2> QED
    BY <2>1 DEF Picks
<1>5. \A n \in 1 .. L : n \in P <=> n \in Q
  OBVIOUS
<1>6. \A n \in 1 .. M : L + n \in P <=> n \in R
  OBVIOUS
<1> HIDE DEF u, L, M
<1> DEFINE T == {n \in 0 .. L : g[n] = a[n]}
<1>7. 0 .. L \subseteq T
  <2>1. 0 \in T
    BY <1>1, <1>2, <1>3
  <2>2. ASSUME NEW n \in 0 .. L - 1, n \in T
        PROVE  n + 1 \in T
    <3>1. /\ n + 1 \in 1 .. L /\ n + 1 \in 0 .. L /\ (n + 1) - 1 = n /\ n + 1 \in 1 .. L + M
      BY <1>1
    <3>2. g[n + 1] = IF n + 1 \in P THEN Append(g[n], u[n + 1]) ELSE g[n]
      BY <1>2, <3>1
    <3>3. a[n + 1] = IF n + 1 \in Q THEN Append(a[n], s[n + 1]) ELSE a[n]
      BY <1>3, <3>1
    <3>4. (n + 1 \in P <=> n + 1 \in Q) /\ u[n + 1] = s[n + 1] /\ g[n] = a[n]
      BY <1>1, <1>5, <2>2, <3>1
    <3>5. g[n + 1] = a[n + 1]
      BY <3>2, <3>3, <3>4
    <3> QED
      BY <3>1, <3>5
  <2> HIDE DEF T
  <2> QED
    BY <1>1, <2>1, <2>2, InductionUpTo
<1> DEFINE V == {n \in 0 .. M : g[L + n] = a[L] \o b[n]}
<1>8. 0 .. M \subseteq V
  <2>1. 0 \in V
    <3>1. g[L] = a[L] /\ a[L] \in Seq(S) /\ L + 0 = L
      BY <1>1, <1>7
    <3>2. a[L] \o <<>> = a[L]
      BY <3>1, ConcatEmptySeq
    <3>3. 0 \in 0 .. M
      BY <1>1
    <3> QED
      BY <1>4, <3>1, <3>2, <3>3
  <2>2. ASSUME NEW n \in 0 .. M - 1, n \in V
        PROVE  n + 1 \in V
    <3>1. /\ n + 1 \in 1 .. M /\ n + 1 \in 0 .. M /\ (n + 1) - 1 = n
          /\ L + (n + 1) \in 1 .. L + M /\ (L + (n + 1)) - 1 = L + n /\ n \in 0 .. M
      BY <1>1
    <3>2. g[L + (n + 1)] = IF L + (n + 1) \in P THEN Append(g[L + n], u[L + (n + 1)]) ELSE g[L + n]
      BY <1>2, <3>1
    <3>3. b[n + 1] = IF n + 1 \in R THEN Append(b[n], t[n + 1]) ELSE b[n]
      BY <1>4, <3>1
    <3>4. a[L] \in Seq(S) /\ b[n] \in Seq(S) /\ t[n + 1] \in S /\ u[L + (n + 1)] = t[n + 1]
      BY <1>1, <3>1
    <3>5. Append(a[L] \o b[n], t[n + 1]) = a[L] \o Append(b[n], t[n + 1])
      <4>1. ASSUME NEW x \in Seq(S), NEW y \in Seq(S), NEW e \in S
            PROVE  Append(x \o y, e) = x \o Append(y, e)
        <5>1. x \o y \in Seq(S) /\ <<e>> \in Seq(S)
          BY ConcatProperties
        <5>2. Append(x \o y, e) = (x \o y) \o <<e>> /\ Append(y, e) = y \o <<e>>
          BY <5>1, AppendIsConcat
        <5>3. (x \o y) \o <<e>> = x \o (y \o <<e>>)
          BY <5>1, ConcatAssociative
        <5> QED
          BY <5>2, <5>3
      <4> QED
        BY <3>4, <4>1
    <3>6. L + (n + 1) \in P <=> n + 1 \in R
      BY <1>6, <3>1
    <3> QED
      BY <2>2, <3>1, <3>2, <3>3, <3>4, <3>5, <3>6
  <2> HIDE DEF V
  <2> QED
    BY <1>1, <2>1, <2>2, InductionUpTo
<1>9. g[L + M] = a[L] \o b[M]
  <2>1. M \in V
    <3> HIDE DEF V
    <3> QED
      BY <1>1, <1>8
  <2> QED
    BY <2>1
<1> QED
  BY <1>2, <1>3, <1>4, <1>9 DEF u

LEMMA PickedSame ==
  ASSUME NEW S, NEW s \in Seq(S), NEW P, NEW Q, \A n \in 1 .. Len(s) : n \in P <=> n \in Q
  PROVE  Picked(s, P) = Picked(s, Q)
<1> DEFINE x == <<>>
           N == {}
<1>1. x \in Seq(S) /\ s \o x = s /\ Len(x) = 0
  BY EmptySeq, ConcatEmptySeq
<1> HIDE DEF x, N
<1>2. /\ \A n \in 1 .. Len(x) : n \notin N
      /\ \A n \in 1 .. Len(x) : Len(s) + n \in P <=> n \in N
  BY <1>1
<1>3. Picked(x, N) = <<>>
  BY <1>1, <1>2, PickedNone
<1>4. Picked(s \o x, P) = Picked(s, Q) \o Picked(x, N)
  <2>1. ASSUME NEW t \in Seq(S), NEW R, \A n \in 1 .. Len(t) : Len(s) + n \in P <=> n \in R
        PROVE  Picked(s \o t, P) = Picked(s, Q) \o Picked(t, R)
    BY <2>1, PickedConcat
  <2> QED
    BY <1>1, <1>2, <2>1
<1>5. Picked(s, Q) \o <<>> = Picked(s, Q)
  BY PickedType, ConcatEmptySeq
<1> QED
  BY <1>1, <1>3, <1>4, <1>5

\* What a sequence of sequences is put together, from place to place.
Flattens(g, S, ss) ==
  /\ g \in [1 .. Len(ss) -> Seq(S)]
  /\ g[1] = ss[1]
  /\ \A n \in 2 .. Len(ss) : g[n] = g[n - 1] \o ss[n]
  /\ FlattenSeq(ss) = g[Len(ss)]

LEMMA FlattenIs ==
  ASSUME NEW S, NEW ss \in Seq(Seq(S)), ss # <<>>
  PROVE  \E g : Flattens(g, S, ss)
<1> DEFINE L == Len(ss) - 1
           step == [n \in Nat |-> [r \in Seq(S) |-> IF n + 2 \in 2 .. Len(ss) THEN r \o ss[n + 2] ELSE r]]
<1>1. Len(ss) \in Nat /\ Len(ss) > 0 /\ L \in Nat /\ \A n \in 1 .. Len(ss) : ss[n] \in Seq(S)
  BY EmptySeq, ElementOfSeq, LenProperties
<1>2. step \in [Nat -> [Seq(S) -> Seq(S)]]
  <2>1. ASSUME NEW n \in Nat, NEW r \in Seq(S)
        PROVE  (IF n + 2 \in 2 .. Len(ss) THEN r \o ss[n + 2] ELSE r) \in Seq(S)
    <3>1. CASE n + 2 \in 2 .. Len(ss)
      <4>1. ss[n + 2] \in Seq(S)
        BY <1>1, <3>1
      <4>2. r \o ss[n + 2] \in Seq(S)
        BY <4>1, ConcatProperties
      <4> QED
        BY <4>2
    <3> QED
      BY <3>1
  <2> QED
    BY <2>1
<1>3. ss[1] \in Seq(S)
  BY <1>1
<1>4. PICK f : Loops(f, L, Seq(S), ss[1], step)
  <2> HIDE DEF step, L
  <2> QED
    BY <1>1, <1>2, <1>3, LoopExists
<1> DEFINE h == [i \in 1 .. Len(ss) |-> f[i - 1]]
<1>5. h = [i \in 1 .. Len(ss) |-> IF i = 1 THEN ss[i] ELSE h[i - 1] \o ss[i]]
  <2>1. ASSUME NEW i \in 1 .. Len(ss)
        PROVE  h[i] = IF i = 1 THEN ss[i] ELSE h[i - 1] \o ss[i]
    <3>1. CASE i = 1
      <4>1. 0 \in 0 .. L
        BY <1>1
      <4> HIDE DEF L, step
      <4> QED
        BY <1>4, <3>1, <4>1 DEF Loops
    <3>2. CASE i # 1
      <4>1. /\ i - 1 \in 0 .. L /\ i - 1 # 0 /\ (i - 1) - 1 \in 0 .. L /\ (i - 1) - 1 \in Nat
            /\ ((i - 1) - 1) + 2 = i /\ i \in 2 .. Len(ss) /\ i - 1 \in 1 .. Len(ss)
        BY <1>1, <3>2
      <4> DEFINE n == (i - 1) - 1
      <4> HIDE DEF n, L
      <4>2. f[i - 1] = step[n][f[n]] /\ f[n] \in Seq(S)
        <5> HIDE DEF step
        <5> QED
          BY <1>4, <4>1 DEF Loops, n
      <4>3. n + 2 = i /\ n \in Nat /\ n = (i - 1) - 1
        BY <4>1 DEF n
      <4>4. step[n][f[n]] = f[n] \o ss[i]
        BY <4>1, <4>2, <4>3
      <4>5. h[i] = f[i - 1] /\ h[i - 1] = f[n]
        BY <4>1, <4>3
      <4> HIDE DEF h
      <4> QED
        BY <3>2, <4>2, <4>4, <4>5
    <3> QED
      BY <3>1, <3>2
  <2>2. h = [i \in 1 .. Len(ss) |-> h[i]]
    OBVIOUS
  <2> HIDE DEF h
  <2> QED
    BY <2>1, <2>2
<1> HIDE DEF h
<1> DEFINE flatten[i \in 1 .. Len(ss)] == IF i = 1 THEN ss[i] ELSE flatten[i - 1] \o ss[i]
<1>6. flatten = [i \in 1 .. Len(ss) |-> IF i = 1 THEN ss[i] ELSE flatten[i - 1] \o ss[i]]
  BY <1>5, Zenon
<1>7. FlattenSeq(ss) = flatten[Len(ss)]
  <2>1. Len(ss) # 0
    BY <1>1
  <2> QED
    BY <2>1 DEF FlattenSeq
<1> HIDE DEF flatten
<1>8. /\ flatten[1] = ss[1]
      /\ \A n \in 2 .. Len(ss) : flatten[n] = flatten[n - 1] \o ss[n]
  <2>1. 1 \in 1 .. Len(ss) /\ \A n \in 2 .. Len(ss) : n \in 1 .. Len(ss) /\ n # 1
    BY <1>1
  <2> QED
    BY <1>6, <2>1
<1> DEFINE T == {n \in 0 .. L : flatten[n + 1] \in Seq(S)}
<1>9. 0 .. L \subseteq T
  <2>1. 0 \in T
    BY <1>1, <1>3, <1>8
  <2>2. ASSUME NEW n \in 0 .. L - 1, n \in T
        PROVE  n + 1 \in T
    <3>1. n + 2 \in 2 .. Len(ss) /\ n + 2 \in 1 .. Len(ss) /\ (n + 2) - 1 = n + 1
          /\ n + 1 \in 0 .. L /\ (n + 1) + 1 = n + 2
      BY <1>1
    <3>2. flatten[n + 2] = flatten[n + 1] \o ss[n + 2]
      BY <1>8, <3>1
    <3>3. flatten[n + 1] \in Seq(S) /\ ss[n + 2] \in Seq(S)
      BY <1>1, <2>2, <3>1
    <3>4. flatten[n + 1] \o ss[n + 2] \in Seq(S)
      BY <3>3, ConcatProperties
    <3> QED
      BY <3>1, <3>2, <3>4
  <2> HIDE DEF T, L
  <2> QED
    BY <1>1, <2>1, <2>2, InductionUpTo
<1>10. flatten \in [1 .. Len(ss) -> Seq(S)]
  <2>1. ASSUME NEW i \in 1 .. Len(ss)
        PROVE  flatten[i] \in Seq(S)
    <3>1. i - 1 \in 0 .. L /\ (i - 1) + 1 = i
      BY <1>1
    <3>2. i - 1 \in T
      <4> HIDE DEF T, L
      <4> QED
        BY <1>9, <3>1
    <3> QED
      BY <3>1, <3>2
  <2> QED
    BY <1>6, <2>1
<1>11. Flattens(flatten, S, ss)
  BY <1>7, <1>8, <1>10 DEF Flattens
<1> QED
  BY <1>11

LEMMA FlattenMore ==
  ASSUME NEW S, NEW ss \in Seq(Seq(S)), NEW e \in Seq(S)
  PROVE  /\ FlattenSeq(ss) \in Seq(S) /\ FlattenSeq(<<>>) = <<>>
         /\ FlattenSeq(ss \o <<e>>) = FlattenSeq(ss) \o e
<1>1. FlattenSeq(<<>>) = <<>>
  BY EmptySeq DEF FlattenSeq
<1> DEFINE one == <<e>>
           tt == ss \o one
<1>2. one \in Seq(Seq(S)) /\ Len(one) = 1 /\ one[1] = e
  OBVIOUS
<1> HIDE DEF one
<1>3. /\ tt \in Seq(Seq(S)) /\ Len(tt) = Len(ss) + Len(one) /\ Len(ss) \in Nat
      /\ \A i \in 1 .. Len(ss) : tt[i] = ss[i]
      /\ \A i \in 1 .. Len(one) : tt[Len(ss) + i] = one[i]
  <2>1. one \in Seq(Seq(S))
    BY <1>2
  <2> QED
    BY <2>1, ConcatIs
<1>4. Len(tt) = Len(ss) + 1 /\ tt[Len(ss) + 1] = e
  <2>1. 1 \in 1 .. Len(one)
    BY <1>2
  <2>2. tt[Len(ss) + 1] = one[1]
    BY <1>3, <2>1
  <2> HIDE DEF tt
  <2> QED
    BY <1>2, <1>3, <2>2
<1> HIDE DEF tt
<1>5. PICK h : Flattens(h, S, tt)
  <2>1. tt # <<>>
    BY <1>3, <1>4, EmptySeq
  <2> QED
    BY <1>3, <2>1, FlattenIs
<1>6. CASE ss = <<>>
  <2>1. Len(ss) = 0
    BY <1>6, EmptySeq
  <2>2. FlattenSeq(tt) = e
    BY <1>4, <1>5, <2>1 DEF Flattens
  <2>3. FlattenSeq(ss) = <<>> /\ <<>> \o e = e /\ <<>> \in Seq(S)
    BY <1>1, <1>6, EmptySeq, ConcatEmptySeq
  <2> QED
    BY <1>1, <2>2, <2>3 DEF tt, one
<1>7. CASE ss # <<>>
  <2>1. PICK g : Flattens(g, S, ss)
    BY <1>7, FlattenIs
  <2>2. Len(ss) > 0
    BY <1>7, EmptySeq, <1>3
  <2> DEFINE L == Len(ss) - 1
             T == {n \in 0 .. L : g[n + 1] = h[n + 1]}
  <2>3. L \in Nat /\ \A n \in 0 .. L - 1 : /\ n + 2 \in 2 .. Len(ss) /\ n + 2 \in 2 .. Len(tt)
                                           /\ n + 2 \in 1 .. Len(ss) /\ (n + 2) - 1 = n + 1
                                           /\ (n + 1) + 1 = n + 2 /\ n + 1 \in 0 .. L
    BY <1>3, <1>4, <2>2
  <2>4. 0 .. L \subseteq T
    <3>1. 0 \in T
      <4>1. 1 \in 1 .. Len(ss) /\ 0 \in 0 .. L
        BY <1>3, <2>2, <2>3
      <4> QED
        BY <1>3, <1>5, <2>1, <4>1 DEF Flattens
    <3>2. ASSUME NEW n \in 0 .. L - 1, n \in T
          PROVE  n + 1 \in T
      <4>1. g[n + 2] = g[n + 1] \o ss[n + 2] /\ h[n + 2] = h[n + 1] \o tt[n + 2]
        <5> HIDE DEF L
        <5>1. n + 2 \in 2 .. Len(ss) /\ n + 2 \in 2 .. Len(tt) /\ (n + 2) - 1 = n + 1
          BY <2>3
        <5> QED
          BY <1>5, <2>1, <5>1 DEF Flattens
      <4>2. tt[n + 2] = ss[n + 2] /\ g[n + 1] = h[n + 1]
        BY <1>3, <2>3, <3>2
      <4>3. g[(n + 1) + 1] = h[(n + 1) + 1]
        <5> HIDE DEF L
        <5>1. (n + 1) + 1 = n + 2
          BY <2>3
        <5> QED
          BY <4>1, <4>2, <5>1
      <4> QED
        BY <2>3, <4>3
    <3> HIDE DEF T, L
    <3> QED
      BY <2>3, <3>1, <3>2, InductionUpTo
  <2>5. g[Len(ss)] = h[Len(ss)]
    <3>1. L \in 0 .. L /\ L + 1 = Len(ss)
      BY <1>3, <2>3
    <3>2. L \in T
      <4> HIDE DEF T, L
      <4> QED
        BY <2>4, <3>1
    <3> QED
      BY <3>1, <3>2
  <2>6. h[Len(ss) + 1] = h[Len(ss)] \o e
    <3>1. Len(ss) + 1 \in 2 .. Len(tt) /\ (Len(ss) + 1) - 1 = Len(ss)
      BY <1>3, <1>4, <2>2
    <3> QED
      BY <1>4, <1>5, <3>1 DEF Flattens
  <2>7. FlattenSeq(tt) = h[Len(ss) + 1] /\ FlattenSeq(ss) = g[Len(ss)] /\ g[Len(ss)] \in Seq(S)
    <3>1. Len(ss) \in 1 .. Len(ss)
      BY <1>3, <2>2
    <3> QED
      BY <1>4, <1>5, <2>1, <3>1 DEF Flattens
  <2> QED
    BY <1>1, <2>5, <2>6, <2>7 DEF tt, one
<1> QED
  BY <1>6, <1>7

--------------------------------------------------------------------------------
(***************************************************************************)
(* Marks in texts.                                                         *)
(***************************************************************************)

Texts == Seq(Symbols)
Marks == SUBSET (Texts \ {<<>>})

\* m is what text has from i on, as far as text goes; so it is, or may become, a
\* mark of text.
Agrees(m, text, i) == \A j \in 1 .. Len(m) : i + j - 1 <= Len(text) => text[i + j - 1] = m[j]
Ends(m, i) == i + Len(m) - 1

\* No mark that opens in c goes on, or may go on, in b.
Settled(marks, c, b) ==
  \A i \in 1 .. Len(c), m \in marks : Agrees(m, c \o b, i) => Ends(m, i) <= Len(c)

LEMMA FromIs ==
  ASSUME NEW t \in Texts, NEW i \in 1 .. Len(t) + 1
  PROVE  /\ From(t, i) \in Texts /\ Len(From(t, i)) = Len(t) + 1 - i
         /\ \A k \in 1 .. Len(t) + 1 - i : From(t, i)[k] = t[i + k - 1]
<1>1. Len(t) \in Nat /\ \A k \in i .. Len(t) : t[k] \in Symbols
  BY ElementOfSeq, LenProperties DEF Texts
<1> QED
  BY <1>1, SubSeqProperties DEF From, Texts

LEMMA BeginningIs ==
  ASSUME NEW t \in Texts, NEW i \in 0 .. Len(t)
  PROVE  /\ SubSeq(t, 1, i) \in Texts /\ Len(SubSeq(t, 1, i)) = i
         /\ \A k \in 1 .. i : SubSeq(t, 1, i)[k] = t[k]
         /\ SubSeq(t, 1, i) \o From(t, i + 1) = t
<1>1. Len(t) \in Nat /\ \A k \in 1 .. i : t[k] \in Symbols
  BY ElementOfSeq, LenProperties DEF Texts
<1>2. /\ SubSeq(t, 1, i) \in Texts /\ Len(SubSeq(t, 1, i)) = i
      /\ \A k \in 1 .. i : SubSeq(t, 1, i)[k] = t[k]
  BY <1>1, SubSeqProperties DEF Texts
<1>3. SubSeq(t, 1, i) \o From(t, i + 1) = t
  <2>1. /\ From(t, i + 1) \in Texts /\ Len(From(t, i + 1)) = Len(t) - i
        /\ \A k \in 1 .. Len(t) - i : From(t, i + 1)[k] = t[i + k]
    BY <1>1, FromIs
  <2> DEFINE a == SubSeq(t, 1, i)
             b == From(t, i + 1)
  <2>2. /\ a \o b \in Texts /\ Len(a \o b) = Len(t)
        /\ \A k \in 1 .. Len(t) : (a \o b)[k] = IF k <= i THEN a[k] ELSE b[k - i]
    <3>1. a \in Texts /\ b \in Texts /\ Len(a) = i /\ Len(b) = Len(t) - i
      BY <1>2, <2>1
    <3> HIDE DEF a, b
    <3>2. /\ a \o b \in Texts /\ Len(a \o b) = Len(a) + Len(b)
          /\ \A k \in 1 .. Len(a) + Len(b) : (a \o b)[k] = IF k <= Len(a) THEN a[k] ELSE b[k - Len(a)]
      BY <3>1, ConcatProperties DEF Texts
    <3>3. Len(a) + Len(b) = Len(t)
      BY <1>1, <3>1
    <3> QED
      BY <3>1, <3>2, <3>3
  <2>3. \A k \in 1 .. Len(t) : (a \o b)[k] = t[k]
    <3> HIDE DEF a, b
    <3>1. \A k \in 1 .. i : a[k] = t[k]
      BY <1>2 DEF a
    <3>2. \A k \in 1 .. Len(t) - i : b[k] = t[i + k]
      BY <2>1 DEF b
    <3> QED
      BY <1>1, <2>2, <3>1, <3>2
  <2> QED
    BY <2>2, <2>3, SeqEqual DEF Texts
<1> QED
  BY <1>2, <1>3

LEMMA HitsAre ==
  ASSUME NEW marks \in Marks, NEW t \in Texts
  PROVE  /\ \A h \in Hits(marks, t) : h = <<h[1], h[2]>>
         /\ \A i, m : <<i, m>> \in Hits(marks, t)
              <=> i \in 1 .. Len(t) /\ m \in marks /\ Agrees(m, t, i) /\ Ends(m, i) <= Len(t)
<1>1. Len(t) \in Nat
  BY LenProperties DEF Texts
<1>2. ASSUME NEW i \in 1 .. Len(t), NEW m \in marks
      PROVE  IsPrefix(m, From(t, i)) <=> Agrees(m, t, i) /\ Ends(m, i) <= Len(t)
  <2>1. m \in Texts /\ Len(m) \in Nat
    BY LenProperties DEF Texts, Marks
  <2>2. /\ From(t, i) \in Texts /\ Len(From(t, i)) = Len(t) + 1 - i
        /\ \A k \in 1 .. Len(t) + 1 - i : From(t, i)[k] = t[i + k - 1]
    BY <1>1, FromIs
  <2>3. CASE Len(m) > Len(t) + 1 - i
    BY <1>1, <2>1, <2>2, <2>3 DEF IsPrefix, Ends
  <2>4. CASE Len(m) <= Len(t) + 1 - i
    <3>1. /\ SubSeq(m, 1, Len(m)) = m
          /\ SubSeq(From(t, i), 1, Len(m)) \in Texts
          /\ Len(SubSeq(From(t, i), 1, Len(m))) = Len(m)
          /\ \A k \in 1 .. Len(m) : SubSeq(From(t, i), 1, Len(m))[k] = From(t, i)[k]
      BY <1>1, <2>1, <2>2, <2>4, BeginningIs, SubSeqFull DEF Texts
    <3>2. m = SubSeq(From(t, i), 1, Len(m)) <=> \A k \in 1 .. Len(m) : m[k] = From(t, i)[k]
      BY <2>1, <3>1, SeqEqual DEF Texts
    <3>3. \A k \in 1 .. Len(m) : From(t, i)[k] = t[i + k - 1] /\ i + k - 1 <= Len(t)
      BY <1>1, <2>1, <2>2, <2>4
    <3>4. Agrees(m, t, i) <=> \A k \in 1 .. Len(m) : m[k] = From(t, i)[k]
      BY <3>3 DEF Agrees
    <3>5. Ends(m, i) <= Len(t) /\ Len(m) <= Len(From(t, i))
      BY <1>1, <2>1, <2>2, <2>4 DEF Ends
    <3> QED
      BY <3>1, <3>2, <3>4, <3>5 DEF IsPrefix
  <2> QED
    BY <1>1, <2>1, <2>3, <2>4
<1> QED
  BY <1>2 DEF Hits

LEMMA TextsConcat ==
  ASSUME NEW c \in Texts, NEW b \in Texts
  PROVE  /\ c \o b \in Texts /\ Len(c \o b) = Len(c) + Len(b) /\ Len(c) \in Nat /\ Len(b) \in Nat
         /\ \A i \in 1 .. Len(c) : (c \o b)[i] = c[i]
         /\ \A i \in 1 .. Len(b) : (c \o b)[Len(c) + i] = b[i]
BY ConcatIs DEF Texts

LEMMA TextsAssociate ==
  ASSUME NEW a \in Texts, NEW b \in Texts, NEW c \in Texts
  PROVE  (a \o b) \o c = a \o (b \o c)
<1> DEFINE S == Symbols
<1>1. a \in Seq(S) /\ b \in Seq(S) /\ c \in Seq(S)
  BY DEF Texts
<1> QED
  BY ONLY <1>1, ConcatAssociative

LEMMA BeginningOfConcat ==
  ASSUME NEW c \in Texts, NEW b \in Texts
  PROVE  SubSeq(c \o b, 1, Len(c)) = c /\ From(c \o b, Len(c) + 1) = b
<1>1. /\ c \o b \in Texts /\ Len(c \o b) = Len(c) + Len(b) /\ Len(c) \in Nat /\ Len(b) \in Nat
      /\ \A i \in 1 .. Len(c) : (c \o b)[i] = c[i]
      /\ \A i \in 1 .. Len(b) : (c \o b)[Len(c) + i] = b[i]
  BY ConcatIs DEF Texts
<1> DEFINE t == c \o b
<1> HIDE DEF t
<1>2. /\ SubSeq(t, 1, Len(c)) \in Texts /\ Len(SubSeq(t, 1, Len(c))) = Len(c)
      /\ \A k \in 1 .. Len(c) : SubSeq(t, 1, Len(c))[k] = t[k]
  <2>1. t \in Texts /\ Len(c) \in 0 .. Len(t)
    BY <1>1 DEF t
  <2> QED
    BY <2>1, BeginningIs
<1>3. /\ From(t, Len(c) + 1) \in Texts /\ Len(From(t, Len(c) + 1)) = Len(b)
      /\ \A k \in 1 .. Len(b) : From(t, Len(c) + 1)[k] = t[Len(c) + k]
  <2>1. t \in Texts /\ Len(c) + 1 \in 1 .. Len(t) + 1 /\ Len(t) + 1 - (Len(c) + 1) = Len(b)
        /\ \A k \in 1 .. Len(b) : (Len(c) + 1) + k - 1 = Len(c) + k
    BY <1>1 DEF t
  <2> QED
    BY <2>1, FromIs
<1>4. SubSeq(t, 1, Len(c)) = c
  BY <1>1, <1>2, SeqEqual DEF Texts, t
<1>5. From(t, Len(c) + 1) = b
  BY <1>1, <1>3, SeqEqual DEF Texts, t
<1> QED
  BY <1>4, <1>5 DEF t

LEMMA ConcatAgrees ==
  ASSUME NEW c \in Texts, NEW b \in Texts, NEW m \in Texts
  PROVE  /\ \A i \in 1 .. Len(c) : Agrees(m, c \o b, i) => Agrees(m, c, i)
         /\ \A i \in 1 .. Len(c) : Ends(m, i) <= Len(c) /\ Agrees(m, c, i) => Agrees(m, c \o b, i)
         /\ \A i \in 1 .. Len(b) : Agrees(m, c \o b, Len(c) + i) <=> Agrees(m, b, i)
<1>1. /\ Len(c \o b) = Len(c) + Len(b) /\ Len(c) \in Nat /\ Len(b) \in Nat /\ Len(m) \in Nat
      /\ \A i \in 1 .. Len(c) : (c \o b)[i] = c[i]
      /\ \A i \in 1 .. Len(b) : (c \o b)[Len(c) + i] = b[i]
  BY ConcatIs, LenProperties DEF Texts
<1>2. ASSUME NEW i \in 1 .. Len(c), Agrees(m, c \o b, i)
      PROVE  Agrees(m, c, i)
  <2>1. ASSUME NEW j \in 1 .. Len(m), i + j - 1 <= Len(c)
        PROVE  c[i + j - 1] = m[j]
    <3>1. i + j - 1 \in 1 .. Len(c) /\ i + j - 1 <= Len(c \o b)
      BY <1>1, <2>1
    <3> QED
      BY <1>1, <1>2, <3>1 DEF Agrees
  <2> QED
    BY <2>1 DEF Agrees
<1>3. ASSUME NEW i \in 1 .. Len(c), Ends(m, i) <= Len(c), Agrees(m, c, i)
      PROVE  Agrees(m, c \o b, i)
  <2>1. ASSUME NEW j \in 1 .. Len(m)
        PROVE  (c \o b)[i + j - 1] = m[j]
    <3>1. i + j - 1 \in 1 .. Len(c) /\ i + j - 1 <= Len(c)
      BY <1>1, <1>3 DEF Ends
    <3> QED
      BY <1>1, <1>3, <3>1 DEF Agrees
  <2> QED
    BY <2>1 DEF Agrees
<1>4. ASSUME NEW i \in 1 .. Len(b)
      PROVE  Agrees(m, c \o b, Len(c) + i) <=> Agrees(m, b, i)
  <2>1. ASSUME NEW j \in 1 .. Len(m)
        PROVE  /\ (Len(c) + i) + j - 1 <= Len(c \o b) <=> i + j - 1 <= Len(b)
               /\ i + j - 1 <= Len(b) => (c \o b)[(Len(c) + i) + j - 1] = b[i + j - 1]
    <3>1. (Len(c) + i) + j - 1 = Len(c) + (i + j - 1) /\ i + j - 1 \in Nat \ {0}
      BY <1>1
    <3> QED
      BY <1>1, <3>1
  <2> QED
    BY <2>1 DEF Agrees
<1> QED
  BY <1>2, <1>3, <1>4

\* What is in the beginning of a text is in the text.
LEMMA HitsOfBeginning ==
  ASSUME NEW marks \in Marks, NEW c \in Texts, NEW b \in Texts
  PROVE  \A i, m : <<i, m>> \in Hits(marks, c) => <<i, m>> \in Hits(marks, c \o b)
<1>1. /\ c \o b \in Texts /\ Len(c \o b) = Len(c) + Len(b) /\ Len(c) \in Nat /\ Len(b) \in Nat
      /\ \A m \in marks : m \in Texts /\ Len(m) \in Nat
  BY ConcatIs, LenProperties DEF Texts, Marks
<1>2. ASSUME NEW i, NEW m, <<i, m>> \in Hits(marks, c)
      PROVE  <<i, m>> \in Hits(marks, c \o b)
  <2>1. i \in 1 .. Len(c) /\ m \in marks /\ Agrees(m, c, i) /\ Ends(m, i) <= Len(c)
    BY <1>2, HitsAre
  <2>2. i \in 1 .. Len(c \o b) /\ Ends(m, i) <= Len(c \o b)
    BY <1>1, <2>1 DEF Ends
  <2>3. Agrees(m, c \o b, i)
    BY <1>1, <2>1, ConcatAgrees
  <2> QED
    BY <1>1, <2>1, <2>2, <2>3, HitsAre
<1> QED
  BY <1>2

\* What is in c and what is in b, when no mark is in both.
LEMMA HitsOfSettled ==
  ASSUME NEW marks \in Marks, NEW c \in Texts, NEW b \in Texts, Settled(marks, c, b)
  PROVE  /\ \A i \in 1 .. Len(c) : \A m : <<i, m>> \in Hits(marks, c \o b) <=> <<i, m>> \in Hits(marks, c)
         /\ \A i \in 1 .. Len(b) : \A m :
              <<Len(c) + i, m>> \in Hits(marks, c \o b) <=> <<i, m>> \in Hits(marks, b)
<1>1. /\ c \o b \in Texts /\ Len(c \o b) = Len(c) + Len(b) /\ Len(c) \in Nat /\ Len(b) \in Nat
      /\ \A m \in marks : m \in Texts /\ Len(m) \in Nat
  BY ConcatIs, LenProperties DEF Texts, Marks
<1>2. ASSUME NEW i \in 1 .. Len(c), NEW m \in marks
      PROVE  Agrees(m, c \o b, i) /\ Ends(m, i) <= Len(c \o b) <=> Agrees(m, c, i) /\ Ends(m, i) <= Len(c)
  <2>1. i + Len(m) - 1 \in Int
    BY <1>1
  <2> QED
    BY <1>1, <2>1, ConcatAgrees DEF Settled, Ends
<1>3. ASSUME NEW i \in 1 .. Len(b), NEW m \in marks
      PROVE  /\ Agrees(m, c \o b, Len(c) + i) <=> Agrees(m, b, i)
             /\ Ends(m, Len(c) + i) <= Len(c \o b) <=> Ends(m, i) <= Len(b)
  BY <1>1, ConcatAgrees DEF Ends
<1>4. ASSUME NEW i \in 1 .. Len(c), NEW m
      PROVE  <<i, m>> \in Hits(marks, c \o b) <=> <<i, m>> \in Hits(marks, c)
  <2>1. i \in 1 .. Len(c \o b)
    BY <1>1
  <2> QED
    BY <1>1, <1>2, <2>1, HitsAre
<1>5. ASSUME NEW i \in 1 .. Len(b), NEW m
      PROVE  <<Len(c) + i, m>> \in Hits(marks, c \o b) <=> <<i, m>> \in Hits(marks, b)
  <2>1. Len(c) + i \in 1 .. Len(c \o b)
    BY <1>1
  <2> QED
    BY <1>1, <1>3, <2>1, HitsAre
<1> QED
  BY <1>4, <1>5

LEMMA HitsOfConsumed ==
  ASSUME NEW marks \in Marks, NEW c \in Texts, NEW u \in Texts, NEW r \in Texts,
         Settled(marks, c, u \o r)
  PROVE  /\ \A i \in 1 .. Len(c) : \A m : <<i, m>> \in Hits(marks, c \o u) <=> <<i, m>> \in Hits(marks, c)
         /\ \A i \in 1 .. Len(u) : \A m :
              <<Len(c) + i, m>> \in Hits(marks, c \o u) <=> <<i, m>> \in Hits(marks, u)
<1>1. /\ c \o u \in Texts /\ u \o r \in Texts /\ (c \o u) \o r = c \o (u \o r)
      /\ Len(c \o u) = Len(c) + Len(u) /\ Len(c) \in Nat /\ Len(u) \in Nat
      /\ \A m \in marks : m \in Texts /\ Len(m) \in Nat
  BY ConcatIs, LenProperties, TextsAssociate DEF Texts, Marks
<1>2. ASSUME NEW i \in 1 .. Len(c), NEW m, <<i, m>> \in Hits(marks, c \o u)
      PROVE  <<i, m>> \in Hits(marks, c)
  <2>1. <<i, m>> \in Hits(marks, (c \o u) \o r)
    BY <1>1, <1>2, HitsOfBeginning
  <2>2. m \in marks /\ Agrees(m, c \o (u \o r), i)
    BY <1>1, <2>1, HitsAre, ConcatIs DEF Texts
  <2>3. Ends(m, i) <= Len(c)
    BY <2>2 DEF Settled
  <2>4. Agrees(m, c, i)
    BY <1>1, <2>2, ConcatAgrees
  <2> QED
    BY <2>2, <2>3, <2>4, HitsAre
<1>3. ASSUME NEW i \in 1 .. Len(u), NEW m
      PROVE  <<Len(c) + i, m>> \in Hits(marks, c \o u) <=> <<i, m>> \in Hits(marks, u)
  <2>1. m \in marks => Agrees(m, c \o u, Len(c) + i) <=> Agrees(m, u, i)
    BY <1>1, ConcatAgrees
  <2>2. m \in marks => (Ends(m, Len(c) + i) <= Len(c \o u) <=> Ends(m, i) <= Len(u))
    BY <1>1 DEF Ends
  <2>3. Len(c) + i \in 1 .. Len(c \o u)
    BY <1>1
  <2> QED
    BY <1>1, <2>1, <2>2, <2>3, HitsAre
<1> QED
  BY <1>2, <1>3, HitsOfBeginning

\* Marks that neither overlap nor extend one another.
Apart(marks) ==
  /\ marks \in Marks
  /\ \A m \in marks : m[1] = "<" /\ \A i \in 2 .. Len(m) : m[i] # "<"
  /\ \A m, n \in marks : Len(m) <= Len(n) /\ (\A i \in 1 .. Len(m) : m[i] = n[i]) => m = n

LEMMA MarkersApart == Apart(Markers) /\ Apart(Openings)
<1>1. Markers \in Marks
  BY MarkersAreTexts, MarkersOpenOnce DEF Marks, Texts
<1>2. ASSUME NEW d \in Dialects
      PROVE  d[1] \in Texts \ {<<>>} /\ d[2] \in Texts \ {<<>>}
  <2>1. PICK n \in 1 .. Len(DialectOrder) : d = DialectOrder[n]
    BY MarkersAreTexts, LenProperties DEF Dialects, ToSet
  <2>2. d \in Seq(Symbols) \X Seq(Symbols)
    BY <2>1, MarkersAreTexts, ElementOfSeq
  <2>3. d[1] # <<>> /\ d[2] # <<>>
    BY MarkersOpenOnce
  <2> QED
    BY <2>2, <2>3 DEF Texts
<1>3. Openings \in Marks
  BY <1>2 DEF Openings, Marks
<1>4. \A m \in Markers \cup Openings : m[1] = "<" /\ \A i \in 2 .. Len(m) : m[i] # "<"
  BY MarkersOpenOnce DEF Openings
<1>5. ASSUME NEW m \in Texts, NEW n \in Texts, Len(m) <= Len(n), \A i \in 1 .. Len(m) : m[i] = n[i],
             ~IsStrictPrefix(m, n)
      PROVE  m = n
  <2>1. Len(m) \in 0 .. Len(n) /\ Len(m) \in 0 .. Len(m) /\ Len(m) \in Nat
    BY <1>5, LenProperties DEF Texts
  <2>2. /\ SubSeq(m, 1, Len(m)) \in Texts /\ Len(SubSeq(m, 1, Len(m))) = Len(m)
        /\ \A k \in 1 .. Len(m) : SubSeq(m, 1, Len(m))[k] = m[k]
    BY <2>1, BeginningIs
  <2>3. /\ SubSeq(n, 1, Len(m)) \in Texts /\ Len(SubSeq(n, 1, Len(m))) = Len(m)
        /\ \A k \in 1 .. Len(m) : SubSeq(n, 1, Len(m))[k] = n[k]
    BY <2>1, BeginningIs
  <2>4. SubSeq(m, 1, Len(m)) = SubSeq(n, 1, Len(m))
    BY <1>5, <2>2, <2>3, SeqEqual DEF Texts
  <2> QED
    BY <1>5, <2>4 DEF IsStrictPrefix, IsPrefix
<1>6. ASSUME NEW marks \in {Markers, Openings}, NEW m \in marks, NEW n \in marks,
             Len(m) <= Len(n), \A i \in 1 .. Len(m) : m[i] = n[i]
      PROVE  m = n
  <2>1. m \in Texts /\ n \in Texts
    BY <1>1, <1>3 DEF Marks
  <2>2. ~IsStrictPrefix(m, n)
    BY MarkersPrefixFree
  <2> QED
    BY <1>5, <1>6, <2>1, <2>2
<1> QED
  BY <1>1, <1>3, <1>4, <1>6 DEF Apart

\* Nothing that opens before a mark goes on past its opening, and nothing that opens in the
\* mark goes on past its end.
LEMMA MarkSettles ==
  ASSUME NEW marks, Apart(marks), NEW c \in Texts, NEW w \in Texts, NEW m \in marks, NEW r \in Texts,
         Settled(marks, c, w \o (m \o r))
  PROVE  /\ m \in Texts /\ m \o r \in Texts /\ c \o w \in Texts
         /\ Settled(marks, c \o w, m \o r)
         /\ Settled(marks, (c \o w) \o m, r)
<1> DEFINE v == c \o w
           t == v \o (m \o r)
<1>1. /\ m \in Texts /\ Len(m) \in Nat /\ Len(m) > 0 /\ m[1] = "<"
      /\ \A i \in 2 .. Len(m) : m[i] # "<"
  BY EmptySeq, LenProperties DEF Apart, Marks, Texts
<1>2. m \o r \in Texts /\ v \in Texts /\ t \in Texts /\ t = c \o (w \o (m \o r)) /\ t = (v \o m) \o r
  <2>1. m \o r \in Texts /\ v \in Texts
    BY <1>1, ConcatIs DEF Texts
  <2> HIDE DEF v
  <2>2. t \in Texts /\ t = (v \o m) \o r
    BY <1>1, <2>1, ConcatIs, TextsAssociate DEF Texts
  <2>3. t = c \o (w \o (m \o r))
    BY <2>1, TextsAssociate DEF v
  <2> QED
    BY <2>1, <2>2, <2>3
<1>3. /\ Len(c) \in Nat /\ Len(w) \in Nat /\ Len(r) \in Nat /\ Len(v) = Len(c) + Len(w)
      /\ Len(m \o r) = Len(m) + Len(r) /\ Len(t) = Len(v) + Len(m \o r)
      /\ \A i \in 1 .. Len(m) : t[Len(v) + i] = m[i]
      /\ Len(v \o m) = Len(v) + Len(m)
  <2>1. /\ Len(c) \in Nat /\ Len(w) \in Nat /\ Len(r) \in Nat /\ Len(v) = Len(c) + Len(w)
        /\ Len(m \o r) = Len(m) + Len(r) /\ \A i \in 1 .. Len(m) : (m \o r)[i] = m[i]
    BY <1>1, ConcatIs DEF Texts
  <2> HIDE DEF v
  <2>2. /\ Len(t) = Len(v) + Len(m \o r) /\ \A i \in 1 .. Len(m \o r) : t[Len(v) + i] = (m \o r)[i]
        /\ Len(v \o m) = Len(v) + Len(m)
    BY <1>1, <1>2, ConcatIs DEF Texts
  <2> QED
    BY <1>1, <2>1, <2>2
<1>4. ASSUME NEW n \in marks
      PROVE  /\ n \in Texts /\ Len(n) \in Nat /\ Len(n) > 0 /\ n[1] = "<"
             /\ \A i \in 2 .. Len(n) : n[i] # "<"
  BY EmptySeq, LenProperties DEF Apart, Marks, Texts
<1> HIDE DEF v, t
<1>5. ASSUME NEW i \in 1 .. Len(v), NEW n \in marks, Agrees(n, t, i)
      PROVE  Ends(n, i) <= Len(v)
  <2>1. CASE i \in 1 .. Len(c)
    <3>1. Ends(n, i) <= Len(c)
      BY <1>2, <1>5, <2>1 DEF Settled
    <3> QED
      BY <1>3, <1>4, <3>1 DEF Ends
  <2>2. CASE Ends(n, i) > Len(v)
    <3> DEFINE j == Len(v) + 2 - i
    <3>1. j \in 1 .. Len(n) /\ j \in 2 .. Len(n) /\ i + j - 1 = Len(v) + 1 /\ i + j - 1 <= Len(t)
      BY <1>1, <1>3, <1>4, <2>2 DEF Ends
    <3>2. t[i + j - 1] = n[j]
      <4> HIDE DEF j
      <4> QED
        BY <1>5, <3>1 DEF Agrees
    <3>3. t[Len(v) + 1] = "<"
      BY <1>1, <1>3
    <3> QED
      BY <1>4, <3>1, <3>2, <3>3
  <2> QED
    BY <1>3, <1>4, <2>1, <2>2 DEF Ends
<1>6. ASSUME NEW i \in 1 .. Len(v \o m), NEW n \in marks, Agrees(n, t, i)
      PROVE  Ends(n, i) <= Len(v \o m)
  <2>1. CASE i \in 1 .. Len(v)
    <3>1. Ends(n, i) <= Len(v)
      BY <1>6, <2>1, <1>5
    <3> QED
      BY <1>1, <1>3, <1>4, <3>1 DEF Ends
  <2>2. CASE i = Len(v) + 1
    <3>1. SUFFICES ASSUME Len(n) > Len(m) PROVE FALSE
      BY <1>1, <1>3, <1>4, <2>2 DEF Ends
    <3>2. ASSUME NEW j \in 1 .. Len(m)
          PROVE  m[j] = n[j]
      <4>1. j \in 1 .. Len(n) /\ i + j - 1 = Len(v) + j /\ i + j - 1 <= Len(t)
        BY <1>1, <1>3, <1>4, <2>2, <3>1
      <4> QED
        BY <1>3, <1>6, <4>1 DEF Agrees
    <3>3. m = n
      BY <1>1, <1>4, <3>1, <3>2 DEF Apart
    <3> QED
      BY <1>1, <3>1, <3>3
  <2>3. CASE i > Len(v) + 1
    <3>1. i - Len(v) \in 2 .. Len(m) /\ i = Len(v) + (i - Len(v)) /\ i - Len(v) \in 1 .. Len(m)
      BY <1>1, <1>3, <2>3
    <3>2. 1 \in 1 .. Len(n) /\ i + 1 - 1 = i /\ i <= Len(t)
      BY <1>1, <1>3, <1>4
    <3>3. t[i] = "<"
      BY <1>4, <1>6, <3>2 DEF Agrees
    <3> QED
      BY <1>1, <1>3, <3>1, <3>3
  <2> QED
    BY <1>1, <1>3, <2>1, <2>2, <2>3
<1>7. Settled(marks, v, m \o r)
  BY <1>5 DEF Settled, t
<1>8. Settled(marks, v \o m, r)
  BY <1>2, <1>6 DEF Settled
<1> QED
  BY <1>1, <1>2, <1>7, <1>8 DEF v

LEMMA NoHits ==
  ASSUME NEW marks \in Marks, NEW t \in Texts, \A i, m : <<i, m>> \notin Hits(marks, t)
  PROVE  Hits(marks, t) = {}
BY HitsAre

LEMMA EarliestIs ==
  ASSUME NEW marks \in Marks, NEW t \in Texts, Hits(marks, t) # {}
  PROVE  /\ Earliest(marks, t) \in Hits(marks, t)
         /\ \A other \in Hits(marks, t) : Earliest(marks, t)[1] <= other[1]
<1> DEFINE T == {h[1] : h \in Hits(marks, t)}
<1>1. T \in SUBSET Nat /\ T # {}
  BY HitsAre
<1>2. PICK n \in T : \A i \in T : n <= i
  <2> HIDE DEF T
  <2> QED
    BY <1>1, LeastNatural
<1>3. \E h \in Hits(marks, t) : \A other \in Hits(marks, t) : h[1] <= other[1]
  BY <1>2
<1> QED
  BY <1>3 DEF Earliest

\* A text is what comes before its first mark, the mark, and what comes after it.
LEMMA SplitAtMark ==
  ASSUME NEW marks \in Marks, NEW b \in Texts, Hits(marks, b) # {}
  PROVE  LET hit == Earliest(marks, b)
             w   == SubSeq(b, 1, hit[1] - 1)
             m   == hit[2]
             r   == From(b, hit[1] + Len(m))
         IN  /\ m \in marks /\ m \in Texts /\ w \in Texts /\ r \in Texts
             /\ w \o (m \o r) = b /\ Hits(marks, w) = {} /\ Len(r) < Len(b)
             /\ hit[1] \in 1 .. Len(b) /\ Len(w) = hit[1] - 1
             /\ From(b, hit[1]) = m \o r
<1> DEFINE hit == Earliest(marks, b)
           i == hit[1]
           m == hit[2]
           w == SubSeq(b, 1, i - 1)
           r == From(b, i + Len(m))
           s == From(b, i)
<1>1. <<i, m>> \in Hits(marks, b) /\ \A other \in Hits(marks, b) : i <= other[1]
  <2>1. hit \in Hits(marks, b) /\ \A other \in Hits(marks, b) : i <= other[1]
    BY EarliestIs
  <2> HIDE DEF hit
  <2> QED
    BY <2>1, HitsAre
<1> HIDE DEF hit
<1>2. i \in 1 .. Len(b) /\ m \in marks /\ Agrees(m, b, i) /\ Ends(m, i) <= Len(b)
  <2> HIDE DEF i, m
  <2> QED
    BY <1>1, HitsAre
<1> HIDE DEF i, m
<1>3. m \in Texts /\ Len(m) \in Nat /\ Len(m) > 0 /\ Len(b) \in Nat
  BY <1>2, EmptySeq, LenProperties DEF Marks, Texts
<1>4. w \in Texts /\ Len(w) = i - 1 /\ w \o s = b
  <2>1. i - 1 \in 0 .. Len(b) /\ (i - 1) + 1 = i
    BY <1>2, <1>3
  <2> QED
    BY <2>1, BeginningIs
<1>5. s \in Texts /\ Len(s) = Len(b) + 1 - i /\ \A k \in 1 .. Len(b) + 1 - i : s[k] = b[i + k - 1]
  <2>1. i \in 1 .. Len(b) + 1
    BY <1>2, <1>3
  <2> QED
    BY <2>1, FromIs
<1>6. /\ r \in Texts /\ Len(r) = Len(b) + 1 - (i + Len(m))
      /\ \A k \in 1 .. Len(b) + 1 - (i + Len(m)) : r[k] = b[(i + Len(m)) + k - 1]
  <2>1. i + Len(m) \in 1 .. Len(b) + 1
    BY <1>2, <1>3 DEF Ends
  <2> DEFINE j == i + Len(m)
  <2>2. j \in 1 .. Len(b) + 1
    BY <2>1
  <2> HIDE DEF j
  <2>3. /\ From(b, j) \in Texts /\ Len(From(b, j)) = Len(b) + 1 - j
        /\ \A k \in 1 .. Len(b) + 1 - j : From(b, j)[k] = b[j + k - 1]
    BY <2>2, FromIs
  <2> QED
    BY <2>3 DEF j
<1> HIDE DEF w, r, s
<1>7. s = m \o r
  <2>1. /\ m \o r \in Texts /\ Len(m \o r) = Len(m) + Len(r)
        /\ \A k \in 1 .. Len(m) : (m \o r)[k] = m[k]
        /\ \A k \in 1 .. Len(r) : (m \o r)[Len(m) + k] = r[k]
    BY <1>3, <1>6, TextsConcat
  <2>2. Len(s) = Len(m \o r)
    BY <1>2, <1>3, <1>5, <1>6, <2>1
  <2>3. ASSUME NEW k \in 1 .. Len(s)
        PROVE  s[k] = (m \o r)[k]
    <3>1. s[k] = b[i + k - 1]
      BY <1>5
    <3>2. CASE k \in 1 .. Len(m)
      <4>1. i + k - 1 <= Len(b)
        BY <1>2, <1>3, <3>2 DEF Ends
      <4> QED
        BY <1>2, <2>1, <3>1, <3>2, <4>1 DEF Agrees
    <3>3. CASE k \notin 1 .. Len(m)
      <4>1. /\ k - Len(m) \in 1 .. Len(r) /\ k = Len(m) + (k - Len(m))
            /\ (i + Len(m)) + (k - Len(m)) - 1 = i + k - 1
        BY <1>2, <1>3, <1>5, <1>6, <3>3
      <4>2. r[k - Len(m)] = b[i + k - 1]
        BY <1>6, <4>1
      <4>3. (m \o r)[Len(m) + (k - Len(m))] = r[k - Len(m)]
        BY <2>1, <4>1
      <4> QED
        BY <3>1, <4>1, <4>2, <4>3
    <3> QED
      BY <3>2, <3>3
  <2> QED
    BY <1>5, <2>1, <2>2, <2>3, SeqEqual DEF Texts
<1>8. Hits(marks, w) = {}
  <2>1. ASSUME NEW k, NEW n, <<k, n>> \in Hits(marks, w)
        PROVE  FALSE
    <3>1. <<k, n>> \in Hits(marks, b)
      BY <1>4, <1>5, <2>1, HitsOfBeginning
    <3>2. k \in 1 .. i - 1 /\ i <= <<k, n>>[1]
      BY <1>1, <1>4, <2>1, <3>1, HitsAre
    <3> QED
      BY <1>2, <3>2
  <2> QED
    BY <1>4, <2>1, NoHits
<1>9. Len(r) < Len(b)
  BY <1>2, <1>3, <1>6
<1> QED
  BY <1>2, <1>3, <1>4, <1>6, <1>7, <1>8, <1>9 DEF w, r, s, m, i, hit

LEMMA SettledMore ==
  ASSUME NEW marks \in Marks, NEW c \in Texts, NEW b \in Texts, NEW u \in Texts, Settled(marks, c, b)
  PROVE  Settled(marks, c, b \o u)
<1>1. /\ c \o (b \o u) = (c \o b) \o u /\ c \o b \in Texts /\ Len(c) \in Nat
      /\ Len(c \o b) >= Len(c) /\ Len(c \o b) \in Nat
  BY ConcatIs, TextsAssociate DEF Texts
<1>2. ASSUME NEW i \in 1 .. Len(c), NEW m \in marks, Agrees(m, c \o (b \o u), i)
      PROVE  Ends(m, i) <= Len(c)
  <2>1. i \in 1 .. Len(c \o b) /\ m \in Texts
    BY <1>1 DEF Marks
  <2>2. Agrees(m, c \o b, i)
    BY <1>1, <1>2, <2>1, ConcatAgrees
  <2> QED
    BY <2>2 DEF Settled
<1> QED
  BY <1>2 DEF Settled

\* What is withheld of a text: its longest end that may become a mark.
LEMMA HeldIs ==
  ASSUME NEW marks \in Marks, NEW t \in Texts
  PROVE  LET h == Held(marks, t)
             w == Without(t, h)
         IN /\ h \in Texts /\ Len(h) <= Len(t) /\ h = From(t, Len(t) + 1 - Len(h))
            /\ w \in Texts /\ w = SubSeq(t, 1, Len(t) - Len(h)) /\ Len(w) = Len(t) - Len(h)
            /\ w \o h = t
            /\ \A i \in 1 .. Len(t), m \in marks :
                 Agrees(m, t, i) /\ Ends(m, i) > Len(t) => i > Len(w)
            /\ Len(h) > 0 => \E m \in marks : /\ Agrees(m, t, Len(w) + 1)
                                              /\ Ends(m, Len(w) + 1) > Len(t)
<1> DEFINE C == Completable(marks, t)
<1>1. Len(t) \in Nat /\ \A m \in marks : m \in Texts /\ Len(m) \in Nat
  BY LenProperties DEF Texts, Marks
<1>2. C \subseteq 0 .. Len(t) /\ 0 \in C
  BY <1>1 DEF Completable
<1>3. PICK n \in C : \A k \in C : n >= k
  <2> DEFINE T == {Len(t) - k : k \in C}
  <2>1. T \in SUBSET Nat /\ T # {}
    <3> HIDE DEF C
    <3> QED
      BY <1>1, <1>2
  <2>2. PICK k \in T : \A i \in T : k <= i
    <3> HIDE DEF T
    <3> QED
      BY <2>1, LeastNatural
  <2>3. PICK n \in C : k = Len(t) - n
    OBVIOUS
  <2>4. \A i \in C : Len(t) - n <= Len(t) - i
    BY <2>2, <2>3
  <2> HIDE DEF C
  <2> QED
    BY <1>1, <1>2, <2>4
<1>4. Max(C) \in C /\ \A k \in C : Max(C) >= k
  <2> HIDE DEF C
  <2> QED
    BY <1>3 DEF Max
<1> DEFINE x == Max(C)
<1>5. Held(marks, t) = From(t, Len(t) + 1 - x) /\ x \in 0 .. Len(t)
  BY <1>2, <1>4 DEF Held
<1> HIDE DEF x
<1>6. /\ From(t, Len(t) + 1 - x) \in Texts /\ Len(From(t, Len(t) + 1 - x)) = x
      /\ \A k \in 1 .. x : From(t, Len(t) + 1 - x)[k] = t[Len(t) - x + k]
  <2>1. Len(t) + 1 - x \in 1 .. Len(t) + 1 /\ Len(t) + 1 - (Len(t) + 1 - x) = x
        /\ \A k \in 1 .. x : (Len(t) + 1 - x) + k - 1 = Len(t) - x + k
    BY <1>1, <1>5
  <2> DEFINE i == Len(t) + 1 - x
  <2>2. /\ From(t, i) \in Texts /\ Len(From(t, i)) = Len(t) + 1 - i
        /\ \A k \in 1 .. Len(t) + 1 - i : From(t, i)[k] = t[i + k - 1]
    <3> HIDE DEF i
    <3>1. i \in 1 .. Len(t) + 1
      BY <2>1 DEF i
    <3> QED
      BY <3>1, FromIs
  <2> QED
    BY <2>1, <2>2
<1>7. /\ Without(t, Held(marks, t)) = SubSeq(t, 1, Len(t) - x)
      /\ SubSeq(t, 1, Len(t) - x) \in Texts /\ Len(SubSeq(t, 1, Len(t) - x)) = Len(t) - x
      /\ SubSeq(t, 1, Len(t) - x) \o From(t, Len(t) + 1 - x) = t
  <2>1. Len(t) - x \in 0 .. Len(t) /\ (Len(t) - x) + 1 = Len(t) + 1 - x
    BY <1>1, <1>5
  <2> QED
    BY <1>5, <1>6, <2>1, BeginningIs DEF Without
<1>8. ASSUME NEW k \in 1 .. Len(t), NEW m \in marks
      PROVE  k < Len(m) /\ From(t, Len(t) + 1 - k) = SubSeq(m, 1, k)
             <=> Agrees(m, t, Len(t) + 1 - k) /\ Ends(m, Len(t) + 1 - k) > Len(t)
  <2>1. Ends(m, Len(t) + 1 - k) > Len(t) <=> k < Len(m)
    BY <1>1 DEF Ends
  <2>2. SUFFICES ASSUME k < Len(m)
                 PROVE  From(t, Len(t) + 1 - k) = SubSeq(m, 1, k) <=> Agrees(m, t, Len(t) + 1 - k)
    BY <2>1
  <2>3. /\ From(t, Len(t) + 1 - k) \in Texts /\ Len(From(t, Len(t) + 1 - k)) = k
        /\ \A j \in 1 .. k : From(t, Len(t) + 1 - k)[j] = t[Len(t) + 1 - k + j - 1]
    <3>1. Len(t) + 1 - k \in 1 .. Len(t) + 1 /\ Len(t) + 1 - (Len(t) + 1 - k) = k
      BY <1>1
    <3> QED
      BY <3>1, FromIs
  <2>4. /\ SubSeq(m, 1, k) \in Texts /\ Len(SubSeq(m, 1, k)) = k
        /\ \A j \in 1 .. k : SubSeq(m, 1, k)[j] = m[j]
    BY <1>1, <2>2, BeginningIs
  <2>5. From(t, Len(t) + 1 - k) = SubSeq(m, 1, k)
        <=> \A j \in 1 .. k : From(t, Len(t) + 1 - k)[j] = SubSeq(m, 1, k)[j]
    BY <2>3, <2>4, SeqEqual DEF Texts
  <2>6. \A j \in 1 .. Len(m) : Len(t) + 1 - k + j - 1 <= Len(t) <=> j \in 1 .. k
    BY <1>1, <2>2
  <2>7. \A j \in 1 .. k : j \in 1 .. Len(m)
    BY <1>1, <2>2
  <2> QED
    BY <2>3, <2>4, <2>5, <2>6, <2>7 DEF Agrees
<1>9. ASSUME NEW i \in 1 .. Len(t), NEW m \in marks, Agrees(m, t, i), Ends(m, i) > Len(t)
      PROVE  i > Len(t) - x
  <2>1. Len(t) + 1 - i \in 1 .. Len(t) /\ Len(t) + 1 - (Len(t) + 1 - i) = i
    BY <1>1
  <2>2. Len(t) + 1 - i \in C
    BY <1>8, <1>9, <2>1 DEF Completable
  <2>3. x >= Len(t) + 1 - i
    <3> HIDE DEF C
    <3> QED
      BY <1>4, <2>2 DEF x
  <2> QED
    BY <1>1, <1>5, <2>1, <2>3
<1>10. ASSUME x > 0
       PROVE  \E m \in marks : /\ Agrees(m, t, (Len(t) - x) + 1)
                               /\ Ends(m, (Len(t) - x) + 1) > Len(t)
  <2>1. x \in C /\ x \in 1 .. Len(t) /\ (Len(t) - x) + 1 = Len(t) + 1 - x
    <3> HIDE DEF C
    <3> QED
      BY <1>1, <1>4, <1>5, <1>10 DEF x
  <2> QED
    BY <1>8, <2>1 DEF Completable
<1>11. /\ Len(Held(marks, t)) = x /\ Held(marks, t) = From(t, Len(t) + 1 - x)
       /\ Without(t, Held(marks, t)) = SubSeq(t, 1, Len(t) - x)
       /\ Len(Without(t, Held(marks, t))) = Len(t) - x
  BY <1>5, <1>6, <1>7
<1> HIDE DEF C
<1>12. /\ Held(marks, t) \in Texts /\ x <= Len(t) /\ Without(t, Held(marks, t)) \in Texts
       /\ Without(t, Held(marks, t)) \o Held(marks, t) = t
  <2>1. Held(marks, t) \in Texts /\ x <= Len(t)
    BY <1>1, <1>5, <1>6
  <2>2. /\ Without(t, Held(marks, t)) \in Texts
        /\ Without(t, Held(marks, t)) \o Held(marks, t)
             = SubSeq(t, 1, Len(t) - x) \o From(t, Len(t) + 1 - x)
    BY <1>5, <1>7
  <2> QED
    BY <1>7, <2>1, <2>2
<1> QED
  BY <1>9, <1>10, <1>11, <1>12

LEMMA HoldsBack ==
  ASSUME NEW marks \in Marks, NEW c \in Texts, NEW b \in Texts, Settled(marks, c, b),
         Hits(marks, b) = {}
  PROVE  Settled(marks, c \o Without(b, Held(marks, b)), Held(marks, b))
<1> DEFINE h == Held(marks, b)
           w == Without(b, h)
<1>1. /\ h \in Texts /\ w \in Texts /\ w \o h = b
      /\ \A i \in 1 .. Len(b), m \in marks : Agrees(m, b, i) /\ Ends(m, i) > Len(b) => i > Len(w)
  BY HeldIs
<1> HIDE DEF h, w
<1>2. /\ c \o w \in Texts /\ (c \o w) \o h = c \o b /\ Len(c \o w) = Len(c) + Len(w)
      /\ Len(c) \in Nat /\ Len(w) \in Nat /\ Len(b) = Len(w) + Len(h) /\ Len(h) \in Nat
      /\ \A m \in marks : m \in Texts /\ Len(m) \in Nat
  <2>1. \A m \in marks : m \in Texts /\ Len(m) \in Nat
    BY LenProperties DEF Texts, Marks
  <2>2. c \o w \in Texts /\ Len(c \o w) = Len(c) + Len(w) /\ Len(c) \in Nat /\ Len(w) \in Nat
    BY <1>1, ConcatIs DEF Texts
  <2>3. (c \o w) \o h = c \o (w \o h)
    BY ONLY <1>1, TextsAssociate, Zenon
  <2>4. Len(w \o h) = Len(w) + Len(h) /\ Len(h) \in Nat
    BY <1>1, ConcatIs DEF Texts
  <2> QED
    BY <1>1, <2>1, <2>2, <2>3, <2>4
<1>3. ASSUME NEW i \in 1 .. Len(c \o w), NEW m \in marks, Agrees(m, c \o b, i)
      PROVE  Ends(m, i) <= Len(c \o w)
  <2>1. CASE i \in 1 .. Len(c)
    <3>1. Ends(m, i) <= Len(c)
      BY <1>3, <2>1 DEF Settled
    <3> QED
      BY <1>2, <2>1, <3>1 DEF Ends
  <2>2. CASE i \notin 1 .. Len(c)
    <3>1. i - Len(c) \in 1 .. Len(w) /\ i - Len(c) \in 1 .. Len(b) /\ i = Len(c) + (i - Len(c))
      BY <1>2, <2>2
    <3>2. Agrees(m, b, i - Len(c))
      BY <1>2, <1>3, <3>1, ConcatAgrees
    <3>3. Ends(m, i - Len(c)) > Len(b)
      <4>1. Ends(m, i - Len(c)) \in Int /\ Len(b) \in Int
        BY <1>2, <3>1 DEF Ends
      <4>2. ~(Ends(m, i - Len(c)) <= Len(b))
        BY <3>1, <3>2, HitsAre
      <4> QED
        BY <4>1, <4>2
    <3>4. i - Len(c) > Len(w)
      BY <1>1, <3>1, <3>2, <3>3
    <3> QED
      BY <1>2, <3>1, <3>4
  <2> QED
    BY <2>1, <2>2
<1>4. Settled(marks, c \o w, h)
  BY <1>2, <1>3 DEF Settled
<1> QED
  BY <1>4 DEF h, w

LEMMA HeldAgain ==
  ASSUME NEW marks \in Marks, NEW t \in Texts
  PROVE  Held(marks, Held(marks, t)) = Held(marks, t)
<1> DEFINE h == Held(marks, t)
           w == Without(t, h)
           g == Held(marks, h)
<1>1. /\ h \in Texts /\ w \in Texts /\ w \o h = t
      /\ Len(h) > 0 => \E m \in marks : Agrees(m, t, Len(w) + 1) /\ Ends(m, Len(w) + 1) > Len(t)
  BY HeldIs
<1> HIDE DEF h, w
<1>2. /\ g \in Texts /\ Len(g) <= Len(h) /\ g = From(h, Len(h) + 1 - Len(g))
      /\ \A i \in 1 .. Len(h), m \in marks :
           Agrees(m, h, i) /\ Ends(m, i) > Len(h) => i > Len(h) - Len(g)
  BY <1>1, HeldIs
<1> HIDE DEF g
<1>3. Len(h) \in Nat /\ Len(g) \in Nat /\ Len(w) \in Nat /\ Len(t) = Len(w) + Len(h)
  BY <1>1, <1>2, ConcatIs DEF Texts
<1>4. CASE Len(h) = 0
  <2>1. Len(g) = Len(h)
    BY <1>2, <1>3, <1>4
  <2> QED
    BY <1>1, <1>2, <1>3, <1>4, <2>1, SeqEqual DEF Texts, g, h
<1>5. CASE Len(h) > 0
  <2>1. PICK m \in marks : Agrees(m, t, Len(w) + 1) /\ Ends(m, Len(w) + 1) > Len(t)
    BY <1>1, <1>5
  <2>2. 1 \in 1 .. Len(h) /\ m \in Texts /\ Len(m) \in Nat
    BY <1>3, <1>5, LenProperties DEF Texts, Marks
  <2>3. Agrees(m, h, 1)
    BY <1>1, <2>1, <2>2, ConcatAgrees
  <2>4. Ends(m, 1) > Len(h)
    BY <1>3, <2>1, <2>2 DEF Ends
  <2>5. Len(g) = Len(h)
    BY <1>2, <1>3, <2>2, <2>3, <2>4
  <2>6. g = From(h, 1)
    BY <1>2, <1>3, <2>5
  <2> QED
    BY <1>1, <2>6, SubSeqFull DEF From, Texts, g, h
<1> QED
  BY <1>3, <1>4, <1>5

\* No mark is in what was let through and what follows it, when none is in either
\* and the first is settled.
LEMMA NoHitsOfSettled ==
  ASSUME NEW marks \in Marks, NEW c \in Texts, NEW b \in Texts, Settled(marks, c, b)
  PROVE  Hits(marks, c \o b) = {} <=> Hits(marks, c) = {} /\ Hits(marks, b) = {}
<1>1. /\ c \o b \in Texts /\ Len(c \o b) = Len(c) + Len(b) /\ Len(c) \in Nat /\ Len(b) \in Nat
  BY ConcatIs, LenProperties DEF Texts
<1>2. ASSUME Hits(marks, c) = {}, Hits(marks, b) = {}
      PROVE  Hits(marks, c \o b) = {}
  <2>1. ASSUME NEW i, NEW m, <<i, m>> \in Hits(marks, c \o b)
        PROVE  FALSE
    <3>1. i \in 1 .. Len(c) + Len(b)
      BY <1>1, <2>1, HitsAre
    <3>2. CASE i \in 1 .. Len(c)
      BY <1>2, <2>1, <3>2, HitsOfSettled
    <3>3. CASE i - Len(c) \in 1 .. Len(b)
      <4>1. i = Len(c) + (i - Len(c))
        BY <1>1, <3>1
      <4> QED
        BY <1>2, <2>1, <3>3, <4>1, HitsOfSettled, ZenonT(40)
    <3> QED
      BY <1>1, <3>1, <3>2, <3>3
  <2> QED
    BY <1>1, <2>1, NoHits
<1>3. ASSUME Hits(marks, c \o b) = {}
      PROVE  Hits(marks, c) = {} /\ Hits(marks, b) = {}
  <2>1. \A i, m : <<i, m>> \notin Hits(marks, c)
    BY <1>3, HitsOfBeginning
  <2>2. ASSUME NEW i, NEW m, <<i, m>> \in Hits(marks, b)
        PROVE  FALSE
    <3>1. i \in 1 .. Len(b)
      BY <2>2, HitsAre
    <3> QED
      BY <1>3, <2>2, <3>1, HitsOfSettled
  <2> QED
    BY <2>1, <2>2, NoHits
<1> QED
  BY <1>2, <1>3

\* The earliest mark of c \o b is that of b, when c has none and is settled.
LEMMA EarliestOfSettled ==
  ASSUME NEW marks \in Marks, NEW c \in Texts, NEW b \in Texts, Settled(marks, c, b),
         Hits(marks, c) = {}, Hits(marks, b) # {}
  PROVE  LET e == Earliest(marks, b)
         IN  /\ e[1] \in 1 .. Len(b)
             /\ Hits(marks, c \o b) # {}
             /\ Earliest(marks, c \o b)[1] = Len(c) + e[1]
<1>1. /\ c \o b \in Texts /\ Len(c \o b) = Len(c) + Len(b) /\ Len(c) \in Nat /\ Len(b) \in Nat
  BY ConcatIs, LenProperties DEF Texts
<1> DEFINE e == Earliest(marks, b)
<1>2. /\ <<e[1], e[2]>> \in Hits(marks, b) /\ e[1] \in 1 .. Len(b)
      /\ \A other \in Hits(marks, b) : e[1] <= other[1]
  <2>1. e \in Hits(marks, b) /\ \A other \in Hits(marks, b) : e[1] <= other[1]
    BY EarliestIs
  <2>2. e = <<e[1], e[2]>>
    <3> HIDE DEF e
    <3> QED
      BY <2>1, HitsAre
  <2> HIDE DEF e
  <2>3. <<e[1], e[2]>> \in Hits(marks, b)
    BY <2>1, <2>2
  <2>4. e[1] \in 1 .. Len(b)
    BY <2>3, HitsAre
  <2> QED
    BY <2>1, <2>3, <2>4
<1>3. <<Len(c) + e[1], e[2]>> \in Hits(marks, c \o b)
  <2> HIDE DEF e
  <2> QED
    BY <1>2, HitsOfSettled
<1> DEFINE f == Earliest(marks, c \o b)
<1>4. /\ <<f[1], f[2]>> \in Hits(marks, c \o b) /\ f[1] \in 1 .. Len(c \o b)
      /\ \A other \in Hits(marks, c \o b) : f[1] <= other[1]
  <2>1. f \in Hits(marks, c \o b) /\ \A other \in Hits(marks, c \o b) : f[1] <= other[1]
    BY <1>1, <1>3, EarliestIs
  <2>2. f = <<f[1], f[2]>>
    <3> HIDE DEF f
    <3> QED
      BY <1>1, <2>1, HitsAre
  <2> HIDE DEF f
  <2>3. <<f[1], f[2]>> \in Hits(marks, c \o b)
    BY <2>1, <2>2
  <2>4. f[1] \in 1 .. Len(c \o b)
    <3>1. \A i, m : <<i, m>> \in Hits(marks, c \o b) => i \in 1 .. Len(c \o b)
      BY <1>1, HitsAre
    <3> QED
      BY <2>3, <3>1
  <2> QED
    BY <2>1, <2>3, <2>4
<1> HIDE DEF e, f
<1>5. f[1] <= Len(c) + e[1]
  BY <1>3, <1>4
<1>6. f[1] \notin 1 .. Len(c)
  BY <1>4, HitsOfSettled
<1>7. f[1] - Len(c) \in 1 .. Len(b) /\ f[1] = Len(c) + (f[1] - Len(c))
  BY <1>1, <1>4, <1>6
<1>8. <<f[1] - Len(c), f[2]>> \in Hits(marks, b)
  BY <1>4, <1>7, HitsOfSettled
<1>9. e[1] <= f[1] - Len(c)
  BY <1>2, <1>8
<1> QED
  BY <1>1, <1>2, <1>3, <1>5, <1>7, <1>9 DEF e, f

--------------------------------------------------------------------------------
(***************************************************************************)
(* The stop buffer.                                                        *)
(***************************************************************************)

LEMMA StopFeedIs ==
  ASSUME NEW stops \in Marks, NEW c \in Texts, NEW p, p.buffer \in Texts, NEW u \in Texts,
         Settled(stops, c, p.buffer), Hits(stops, c) = {}
  PROVE  LET q    == StopFeed(stops, p, u)
             text == c \o (p.buffer \o u)
         IN  /\ q.buffer \in Texts /\ q.stopped \in BOOLEAN /\ q.out \in Texts
             /\ Hits(stops, c \o q.out) = {}
             /\ ~q.stopped => /\ (c \o q.out) \o q.buffer = text
                              /\ Settled(stops, c \o q.out, q.buffer)
                              /\ Hits(stops, q.buffer) = {}
                              /\ q.buffer = Held(stops, q.buffer)
             /\ q.stopped => /\ q.buffer = <<>>
                             /\ c \o q.out = SubSeq(text, 1, Earliest(stops, text)[1] - 1)
<1> DEFINE b == p.buffer \o u
           q == StopFeed(stops, p, u)
<1>1. b \in Texts /\ Settled(stops, c, b)
  BY ConcatIs, SettledMore DEF Texts
<1>2. CASE Hits(stops, b) = {}
  <2> DEFINE h == Held(stops, b)
             w == Without(b, h)
  <2>1. q.buffer = h /\ q.stopped = FALSE /\ q.out = w
    BY <1>2 DEF StopFeed
  <2>2. h \in Texts /\ w \in Texts /\ w \o h = b
    <3> HIDE DEF b
    <3> QED
      BY <1>1, HeldIs
  <2>3. Settled(stops, c \o w, h)
    <3> HIDE DEF b
    <3> QED
      BY <1>1, <1>2, HoldsBack
  <2>4. h = Held(stops, h)
    <3> HIDE DEF b
    <3> QED
      BY <1>1, HeldAgain
  <2> HIDE DEF b, h, w
  <2>5. c \o w \in Texts /\ (c \o w) \o h = c \o b
    <3>1. (c \o w) \o h = c \o (w \o h)
      BY ONLY <2>2, TextsAssociate, Zenon
    <3> QED
      BY <2>2, <3>1, ConcatIs DEF Texts
  <2>6. Hits(stops, c \o b) = {}
    BY <1>1, <1>2, NoHitsOfSettled
  <2>7. Hits(stops, c \o w) = {} /\ Hits(stops, h) = {}
    <3>1. Hits(stops, (c \o w) \o h) = {}
      BY <2>5, <2>6
    <3> QED
      BY <2>2, <2>3, <2>5, <3>1, NoHitsOfSettled
  <2> HIDE DEF q
  <2> QED
    BY <2>1, <2>2, <2>3, <2>4, <2>5, <2>7 DEF q, b
<1>3. CASE Hits(stops, b) # {}
  <2> DEFINE e == Earliest(stops, b)
             w == SubSeq(b, 1, e[1] - 1)
  <2>1. q.buffer = <<>> /\ q.stopped = TRUE /\ q.out = w
    BY <1>3 DEF StopFeed
  <2>2. e[1] \in 1 .. Len(b) /\ Earliest(stops, c \o b)[1] = Len(c) + e[1]
    <3> HIDE DEF b
    <3> QED
      BY <1>1, <1>3, EarliestOfSettled
  <2> DEFINE r == From(b, e[1])
  <2> HIDE DEF b
  <2>3. /\ w \in Texts /\ r \in Texts /\ w \o r = b /\ Len(w) = e[1] - 1 /\ Len(b) \in Nat
        /\ <<>> \in Texts
    <3>1. Len(b) \in Nat /\ e[1] - 1 \in 0 .. Len(b) /\ (e[1] - 1) + 1 = e[1]
      BY <1>1, <2>2, LenProperties DEF Texts
    <3>2. w \in Texts /\ Len(w) = e[1] - 1 /\ w \o r = b
      BY <1>1, <3>1, BeginningIs
    <3>3. r \in Texts
      <4>1. e[1] \in 1 .. Len(b) + 1
        BY <2>2, <3>1
      <4> QED
        BY <1>1, <4>1, FromIs
    <3>4. <<>> \in Texts
      BY EmptySeq DEF Texts
    <3> QED
      BY <3>1, <3>2, <3>3, <3>4
  <2> HIDE DEF w, r
  <2>4. /\ c \o w \in Texts /\ (c \o w) \o r = c \o b /\ Len(c \o w) = Len(c) + (e[1] - 1)
        /\ c \o b \in Texts /\ Len(c) \in Nat
    <3>1. (c \o w) \o r = c \o (w \o r)
      BY ONLY <2>3, TextsAssociate, Zenon
    <3> QED
      BY <1>1, <2>3, <3>1, ConcatIs DEF Texts
  <2>5. c \o w = SubSeq(c \o b, 1, Earliest(stops, c \o b)[1] - 1)
    <3> DEFINE x == c \o w
    <3>1. x = SubSeq(x \o r, 1, Len(x))
      <4> HIDE DEF x
      <4>1. x \in Texts
        BY <2>4 DEF x
      <4> QED
        BY <4>1, <2>3, BeginningOfConcat
    <3>2. Earliest(stops, c \o b)[1] - 1 = Len(x)
      BY <2>2, <2>4
    <3> HIDE DEF x
    <3>3. x \o r = c \o b
      BY <2>4 DEF x
    <3> QED
      BY <3>1, <3>2, <3>3 DEF x
  <2>6. Hits(stops, c \o w) = {}
    <3>1. ASSUME NEW i, NEW m, <<i, m>> \in Hits(stops, c \o w)
          PROVE  FALSE
      <4>1. <<i, m>> \in Hits(stops, c \o b)
        BY <2>3, <2>4, <3>1, HitsOfBeginning
      <4>2. i \in 1 .. Len(c) + (e[1] - 1)
        BY <2>4, <3>1, HitsAre
      <4>3. Earliest(stops, c \o b)[1] <= i
        <5>1. Earliest(stops, c \o b)[1] <= <<i, m>>[1]
          BY <2>4, <4>1, EarliestIs
        <5> QED
          BY <5>1
      <4> QED
        BY <2>2, <2>3, <2>4, <4>2, <4>3
    <3> QED
      BY <2>4, <3>1, NoHits
  <2> HIDE DEF q, e
  <2> QED
    BY <2>1, <2>3, <2>5, <2>6 DEF q, b
<1> QED
  BY <1>2, <1>3

\* What the stop buffer let through is settled: no stop sequence that opens in it goes on in
\* what the buffer withholds, and neither holds one.
StopInv ==
  /\ request \in Requests
  /\ fed \in Texts /\ released \in Texts
  /\ stop \in [buffer : Texts, stopped : BOOLEAN, out : {<<>>}]
  /\ Hits(request.stops, released) = {}
  /\ ~stop.stopped => released \o stop.buffer = fed
  /\ stop.stopped => /\ released = SubSeq(fed, 1, Earliest(request.stops, fed)[1] - 1)
                     /\ stop.buffer = <<>>
  /\ phase = "streaming" /\ ~stop.stopped =>
       /\ Settled(request.stops, released, stop.buffer)
       /\ Hits(request.stops, stop.buffer) = {}
       /\ stop.buffer = Held(request.stops, stop.buffer)

LEMMA StopsOfRequests ==
  ASSUME NEW r \in Requests
  PROVE  /\ r.stops \in Marks /\ r.first \in Fields
         /\ \A piece \in Vocabularies[r.vocabulary].pieces : piece \in Texts
BY TextsOfRequests DEF Marks, Texts

\* A mark that is not empty does not begin in an empty text, and none of it is withheld.
LEMMA NoneInEmpty ==
  ASSUME NEW marks \in Marks
  PROVE  /\ <<>> \in Texts /\ Hits(marks, <<>>) = {} /\ Held(marks, <<>>) = <<>>
         /\ \A b \in Texts : Settled(marks, <<>>, b)
<1>1. <<>> \in Texts /\ Len(<<>>) = 0
  BY EmptySeq DEF Texts
<1>2. Hits(marks, <<>>) = {}
  BY <1>1 DEF Hits
<1>3. Held(marks, <<>>) \in Texts /\ Len(Held(marks, <<>>)) <= 0
  BY <1>1, HeldIs
<1>4. Held(marks, <<>>) = <<>>
  BY <1>3, EmptySeq, LenProperties DEF Texts
<1> QED
  BY <1>1, <1>2, <1>4 DEF Settled

LEMMA StopInit == Init => StopInv
<1> SUFFICES ASSUME Init PROVE StopInv
  OBVIOUS
<1>1. request.stops \in Marks /\ <<>> \in Texts /\ <<>> \o <<>> = <<>>
  BY StopsOfRequests, NoneInEmpty, EmptySeq, ConcatProperties DEF Init, Texts
<1> QED
  BY <1>1, NoneInEmpty DEF Init, StopInv

LEMMA StopStep == StopInv /\ [Next]_replyVars => StopInv'
<1> SUFFICES ASSUME StopInv, [Next]_replyVars PROVE StopInv'
  OBVIOUS
<1> DEFINE stops == request.stops
<1>1. stops \in Marks /\ <<>> \in Texts
  BY StopsOfRequests, NoneInEmpty DEF StopInv
<1>2. ASSUME NEW piece \in Vocabularies[request.vocabulary].pieces, Respond(piece)
      PROVE  StopInv'
  <2> DEFINE q == StopFeed(stops, stop, piece)
  <2>1. /\ stop' = Kept(q) /\ released' = released \o q.out
        /\ fed' = fed \o piece /\ request' = request
        /\ phase = "streaming" /\ ~stop.stopped
    BY <1>2 DEF Respond, Parse
  <2>2. q = [buffer |-> q.buffer, stopped |-> q.stopped, out |-> q.out]
    BY DEF StopFeed
  <2>3. piece \in Texts
    BY StopsOfRequests DEF StopInv
  <2>4. released \o (stop.buffer \o piece) = fed'
    <3>1. (released \o stop.buffer) \o piece = released \o (stop.buffer \o piece)
      BY <2>3, TextsAssociate DEF StopInv
    <3> QED
      BY <2>1, <3>1 DEF StopInv
  <2>5. /\ q.buffer \in Texts /\ q.stopped \in BOOLEAN /\ q.out \in Texts
        /\ Hits(stops, released \o q.out) = {}
        /\ ~q.stopped => /\ (released \o q.out) \o q.buffer = fed'
                         /\ Settled(stops, released \o q.out, q.buffer)
                         /\ Hits(stops, q.buffer) = {}
                         /\ q.buffer = Held(stops, q.buffer)
        /\ q.stopped => /\ q.buffer = <<>>
                        /\ released \o q.out = SubSeq(fed', 1, Earliest(stops, fed')[1] - 1)
    <3>1. /\ released \in Texts /\ stop.buffer \in Texts
          /\ Settled(stops, released, stop.buffer) /\ Hits(stops, released) = {}
      BY <2>1 DEF StopInv
    <3> HIDE DEF stops
    <3>2. LET text == released \o (stop.buffer \o piece)
          IN  /\ q.buffer \in Texts /\ q.stopped \in BOOLEAN /\ q.out \in Texts
              /\ Hits(stops, released \o q.out) = {}
              /\ ~q.stopped => /\ (released \o q.out) \o q.buffer = text
                               /\ Settled(stops, released \o q.out, q.buffer)
                               /\ Hits(stops, q.buffer) = {}
                               /\ q.buffer = Held(stops, q.buffer)
              /\ q.stopped => /\ q.buffer = <<>>
                              /\ released \o q.out = SubSeq(text, 1, Earliest(stops, text)[1] - 1)
      BY <1>1, <2>3, <3>1, StopFeedIs
    <3> HIDE DEF q
    <3> QED
      BY <2>4, <3>2
  <2> HIDE DEF q
  <2>6. /\ stop'.buffer = q.buffer /\ stop'.stopped = q.stopped /\ stop'.out = <<>>
        /\ stop' = [buffer |-> q.buffer, stopped |-> q.stopped, out |-> <<>>]
    BY <2>1, <2>2 DEF Kept
  <2>7. fed' \in Texts /\ released' \in Texts
    BY <2>1, <2>3, <2>5, ConcatIs DEF StopInv, Texts
  <2> QED
    BY <2>1, <2>5, <2>6, <2>7 DEF StopInv
<1>3. CASE Finish
  <2>1. /\ stop' = Kept(StopFlush(stop)) /\ released' = released \o StopFlush(stop).out
        /\ fed' = fed /\ request' = request
        /\ phase = "streaming" /\ phase' # "streaming"
    BY <1>3 DEF Finish, Parse
  <2>2. /\ StopFlush(stop) \in [buffer : Texts, stopped : BOOLEAN, out : Texts]
        /\ StopFlush(stop).buffer = <<>> /\ StopFlush(stop).stopped = stop.stopped
        /\ StopFlush(stop).out = IF stop.stopped THEN <<>> ELSE stop.buffer
    BY <1>1 DEF StopInv, StopFlush
  <2>3. /\ stop' \in [buffer : Texts, stopped : BOOLEAN, out : {<<>>}]
        /\ stop'.buffer = <<>> /\ stop'.stopped = stop.stopped
    BY <2>1, <2>2 DEF Kept
  <2>4. CASE stop.stopped
    <3>1. released' = released
      BY <2>1, <2>2, <2>4, ConcatProperties, SeqEqual, EmptySeq DEF StopInv, Texts
    <3> QED
      BY <1>1, <2>1, <2>3, <2>4, <3>1 DEF StopInv
  <2>5. CASE ~stop.stopped
    <3>1. released' = fed
      BY <2>1, <2>2, <2>5 DEF StopInv
    <3>2. Hits(stops, fed) = {}
      <4>1. /\ released \in Texts /\ stop.buffer \in Texts /\ released \o stop.buffer = fed
            /\ Settled(stops, released, stop.buffer)
            /\ Hits(stops, released) = {} /\ Hits(stops, stop.buffer) = {}
        BY <2>1, <2>5 DEF StopInv
      <4> QED
        BY <1>1, <4>1, NoHitsOfSettled
    <3>3. fed \o <<>> = fed
      BY ConcatProperties, SeqEqual, EmptySeq DEF StopInv, Texts
    <3> QED
      BY <1>1, <2>1, <2>3, <2>5, <3>1, <3>2, <3>3 DEF StopInv
  <2> QED
    BY <2>4, <2>5 DEF StopInv
<1>4. CASE UNCHANGED replyVars
  BY <1>4 DEF StopInv, replyVars
<1> QED
  BY <1>2, <1>3, <1>4 DEF Next

\* The client sees the text up to the first stop sequence, all of it and no more, for all stop
\* sequences and every way to cut the text into responses (StopSequenceBuffer.feed, flush).
THEOREM ReleasedIsUpToTheFirstStop == Spec => []ReleasedUpToTheFirstStop
<1>1. StopInv => ReleasedUpToTheFirstStop
  BY DEF StopInv, ReleasedUpToTheFirstStop
<1> QED
  BY <1>1, StopInit, StopStep, PTL DEF Spec

--------------------------------------------------------------------------------
(***************************************************************************)
(* The thinking parser.                                                    *)
(***************************************************************************)

\* What was read of c stays so whatever follows, when nothing that opens in c may go on after it.
LEMMA FieldsOfConsumed ==
  ASSUME NEW first, NEW c \in Texts, NEW u \in Texts, NEW r \in Texts, Settled(Markers, c, u \o r)
  PROVE  /\ \A i \in 1 .. Len(c) + 1 : FieldAt(first, c \o u, i) = FieldAt(first, c, i)
         /\ \A i \in 1 .. Len(c) : Covered(Hits(Markers, c \o u), i) <=> Covered(Hits(Markers, c), i)
         /\ \A k \in 1 .. Len(u) :
              Covered(Hits(Markers, c \o u), Len(c) + k) <=> Covered(Hits(Markers, u), k)
<1> DEFINE t == c \o u
           Ht == Hits(Markers, t)
           Hc == Hits(Markers, c)
           Hu == Hits(Markers, u)
<1>1. /\ Markers \in Marks /\ t \in Texts /\ Len(t) = Len(c) + Len(u)
      /\ Len(c) \in Nat /\ Len(u) \in Nat
  BY MarkersApart, TextsConcat DEF Apart
<1>2. /\ \A i \in 1 .. Len(c) : \A m : <<i, m>> \in Ht <=> <<i, m>> \in Hc
      /\ \A i \in 1 .. Len(u) : \A m : <<Len(c) + i, m>> \in Ht <=> <<i, m>> \in Hu
  BY <1>1, HitsOfConsumed
<1>3. ASSUME NEW v \in Texts
      PROVE  \A h \in Hits(Markers, v) :
               /\ h = <<h[1], h[2]>> /\ h[1] \in 1 .. Len(v) /\ Len(h[2]) \in Nat
               /\ h[1] + Len(h[2]) - 1 <= Len(v)
  <2>1. SUFFICES ASSUME NEW h \in Hits(Markers, v)
                 PROVE  /\ h = <<h[1], h[2]>> /\ h[1] \in 1 .. Len(v) /\ Len(h[2]) \in Nat
                        /\ h[1] + Len(h[2]) - 1 <= Len(v)
    OBVIOUS
  <2>2. h = <<h[1], h[2]>>
    BY <1>1, HitsAre
  <2>3. h[1] \in 1 .. Len(v) /\ h[2] \in Markers /\ Ends(h[2], h[1]) <= Len(v)
    BY <1>1, <2>2, HitsAre
  <2> QED
    BY <1>1, <2>2, <2>3, LenProperties DEF Ends, Marks, Texts
<1>4. ASSUME NEW i \in 1 .. Len(c) + 1
      PROVE  FieldAt(first, t, i) = FieldAt(first, c, i)
  <2> DEFINE Before(H) == {h \in H : h[1] < i /\ MarkerField[h[2]] # "unchanged"}
  <2>1. ASSUME NEW h, h[1] < i
        PROVE  h \in Ht <=> h \in Hc
    <3>1. ASSUME h \in Ht PROVE h \in Hc
      <4>1. h = <<h[1], h[2]>> /\ h[1] \in 1 .. Len(c)
        BY <1>1, <1>3, <2>1, <3>1
      <4> QED
        BY <1>2, <3>1, <4>1
    <3>2. ASSUME h \in Hc PROVE h \in Ht
      <4>1. h = <<h[1], h[2]>> /\ h[1] \in 1 .. Len(c)
        BY <1>1, <1>3, <3>2
      <4> QED
        BY <1>2, <3>2, <4>1
    <3> QED
      BY <3>1, <3>2
  <2>2. Before(Ht) = Before(Hc)
    <3> HIDE DEF Ht, Hc
    <3> QED
      BY <2>1
  <2>3. FieldAt(first, t, i) = IF Before(Ht) = {} THEN first
          ELSE MarkerField[(CHOOSE h \in Before(Ht) : \A g \in Before(Ht) : g[1] <= h[1])[2]]
    BY DEF FieldAt
  <2>4. FieldAt(first, c, i) = IF Before(Hc) = {} THEN first
          ELSE MarkerField[(CHOOSE h \in Before(Hc) : \A g \in Before(Hc) : g[1] <= h[1])[2]]
    BY DEF FieldAt
  <2> HIDE DEF Before
  <2> QED
    BY <2>2, <2>3, <2>4
<1>5. ASSUME NEW i \in 1 .. Len(c)
      PROVE  Covered(Ht, i) <=> Covered(Hc, i)
  <2>1. ASSUME NEW h \in Ht, i \in h[1] .. (h[1] + Len(h[2]) - 1)
        PROVE  h \in Hc
    <3>1. h = <<h[1], h[2]>> /\ h[1] \in 1 .. Len(c)
      BY <1>1, <1>3, <2>1
    <3> QED
      BY <1>2, <2>1, <3>1
  <2>2. ASSUME NEW h \in Hc
        PROVE  h \in Ht
    <3>1. h = <<h[1], h[2]>> /\ h[1] \in 1 .. Len(c)
      BY <1>3, <2>2
    <3> QED
      BY <1>2, <2>2, <3>1
  <2> HIDE DEF Ht, Hc
  <2> QED
    BY <2>1, <2>2 DEF Covered
<1>6. ASSUME NEW k \in 1 .. Len(u)
      PROVE  Covered(Ht, Len(c) + k) <=> Covered(Hu, k)
  <2>1. ASSUME NEW h \in Ht, Len(c) + k \in h[1] .. (h[1] + Len(h[2]) - 1)
        PROVE  Covered(Hu, k)
    <3>1. h = <<h[1], h[2]>> /\ h[1] \in 1 .. Len(t) /\ Len(h[2]) \in Nat
      BY <1>1, <1>3
    <3>2. h[1] \notin 1 .. Len(c)
      <4>1. SUFFICES ASSUME h \in Hc PROVE FALSE
        BY <1>2, <3>1
      <4>2. h[1] + Len(h[2]) - 1 <= Len(c)
        BY <1>3, <4>1
      <4> QED
        BY <1>1, <2>1, <3>1, <4>2
    <3> DEFINE j == h[1] - Len(c)
    <3>3. j \in 1 .. Len(u) /\ h[1] = Len(c) + j
      BY <1>1, <3>1, <3>2
    <3>4. k \in j .. (j + Len(h[2]) - 1)
      BY <1>1, <2>1, <3>1, <3>3
    <3>5. <<j, h[2]>> \in Hu
      <4> HIDE DEF Ht, Hu
      <4>1. <<Len(c) + j, h[2]>> \in Ht
        BY <3>1, <3>3
      <4> HIDE DEF j
      <4> QED
        BY <1>2, <3>3, <4>1
    <3> HIDE DEF Hu, Ht, j
    <3> QED
      BY <3>4, <3>5 DEF Covered
  <2>2. ASSUME NEW h \in Hu, k \in h[1] .. (h[1] + Len(h[2]) - 1)
        PROVE  Covered(Ht, Len(c) + k)
    <3>1. h = <<h[1], h[2]>> /\ h[1] \in 1 .. Len(u) /\ Len(h[2]) \in Nat
      BY <1>3
    <3>2. <<Len(c) + h[1], h[2]>> \in Ht
      BY <1>2, <2>2, <3>1
    <3>3. Len(c) + k \in (Len(c) + h[1]) .. ((Len(c) + h[1]) + Len(h[2]) - 1)
      BY <1>1, <2>2, <3>1
    <3> HIDE DEF Hu, Ht
    <3> QED
      BY <3>2, <3>3 DEF Covered
  <2> HIDE DEF Hu, Ht
  <2> QED
    BY <2>1, <2>2 DEF Covered
<1> QED
  BY <1>4, <1>5, <1>6

\* The symbols of u with their fields, u being what text has after n symbols; and the places of u
\* that belong to no marker.
InFields(first, text, n, u) == [k \in 1 .. Len(u) |-> <<FieldAt(first, text, n + k), u[k]>>]
Uncovered(u) == {k \in 1 .. Len(u) : ~Covered(Hits(Markers, u), k)}

LEMMA ReadingGrows ==
  ASSUME NEW first, NEW c \in Texts, NEW u \in Texts, NEW r \in Texts, Settled(Markers, c, u \o r)
  PROVE  Reading(first, c \o u) = Reading(first, c)
                                  \o Picked(InFields(first, c \o u, Len(c), u), Uncovered(u))
<1> DEFINE t == c \o u
           x == [i \in 1 .. Len(t) |-> <<FieldAt(first, t, i), t[i]>>]
           a == [i \in 1 .. Len(c) |-> <<FieldAt(first, c, i), c[i]>>]
           b == [k \in 1 .. Len(u) |-> <<FieldAt(first, t, Len(c) + k), u[k]>>]
           S == {x[i] : i \in 1 .. Len(t)}
           P == {i \in 1 .. Len(t) : ~Covered(Hits(Markers, t), i)}
           Q == {i \in 1 .. Len(c) : ~Covered(Hits(Markers, c), i)}
           R == {k \in 1 .. Len(u) : ~Covered(Hits(Markers, u), k)}
<1>1. /\ t \in Texts /\ Len(t) = Len(c) + Len(u) /\ Len(c) \in Nat /\ Len(u) \in Nat
      /\ \A i \in 1 .. Len(c) : t[i] = c[i]
      /\ \A i \in 1 .. Len(u) : t[Len(c) + i] = u[i]
  BY TextsConcat
<1>2. /\ \A i \in 1 .. Len(c) + 1 : FieldAt(first, t, i) = FieldAt(first, c, i)
      /\ \A i \in 1 .. Len(c) : Covered(Hits(Markers, t), i) <=> Covered(Hits(Markers, c), i)
      /\ \A k \in 1 .. Len(u) : Covered(Hits(Markers, t), Len(c) + k) <=> Covered(Hits(Markers, u), k)
  BY FieldsOfConsumed
<1>3. /\ Reading(first, t) = Picked(x, P) /\ Reading(first, c) = Picked(a, Q)
      /\ DOMAIN t = 1 .. Len(t) /\ DOMAIN c = 1 .. Len(c)
  <2>1. DOMAIN t = 1 .. Len(t) /\ DOMAIN c = 1 .. Len(c)
    BY <1>1, LenProperties DEF Texts
  <2> QED
    BY <2>1 DEF Reading
<1> HIDE DEF t
<1>4. ASSUME NEW i \in 1 .. Len(c)
      PROVE  i \in 1 .. Len(t) /\ a[i] = x[i] /\ a[i] \in S
  <2>1. i \in 1 .. Len(t) /\ i \in 1 .. Len(c) + 1
    BY <1>1
  <2> QED
    BY <1>1, <1>2, <2>1
<1>5. ASSUME NEW k \in 1 .. Len(u)
      PROVE  Len(c) + k \in 1 .. Len(t) /\ b[k] = x[Len(c) + k] /\ b[k] \in S
  <2>1. Len(c) + k \in 1 .. Len(t)
    BY <1>1
  <2> QED
    BY <1>1, <2>1
<1>6. /\ a \in Seq(S) /\ Len(a) = Len(c) /\ b \in Seq(S) /\ Len(b) = Len(u)
      /\ x \in Seq(S) /\ Len(x) = Len(t)
  <2>1. \A i \in 1 .. Len(t) : x[i] \in S
    OBVIOUS
  <2>2. a \in [1 .. Len(c) -> S] /\ b \in [1 .. Len(u) -> S] /\ x \in [1 .. Len(t) -> S]
    <3> HIDE DEF S
    <3> QED
      BY <1>4, <1>5, <2>1
  <2>3. Len(t) \in Nat
    BY <1>1
  <2> HIDE DEF a, b, x, S
  <2>4. ASSUME NEW n \in Nat, NEW f \in [1 .. n -> S]
        PROVE  f \in Seq(S) /\ Len(f) = n
    OBVIOUS
  <2> QED
    BY <1>1, <2>2, <2>3, <2>4
<1> HIDE DEF S
<1>7. x = a \o b
  <2>1. /\ a \o b \in Seq(S) /\ Len(a \o b) = Len(t)
        /\ \A i \in 1 .. Len(c) : (a \o b)[i] = a[i]
        /\ \A i \in 1 .. Len(u) : (a \o b)[Len(c) + i] = b[i]
    <3> HIDE DEF a, b
    <3>1. a \in Seq(S) /\ b \in Seq(S)
      BY <1>6
    <3>2. /\ a \o b \in Seq(S) /\ Len(a \o b) = Len(a) + Len(b)
          /\ \A i \in 1 .. Len(a) : (a \o b)[i] = a[i]
          /\ \A i \in 1 .. Len(b) : (a \o b)[Len(a) + i] = b[i]
      BY <3>1, ConcatIs
    <3> QED
      BY <1>1, <1>6, <3>2
  <2>2. ASSUME NEW i \in 1 .. Len(t)
        PROVE  x[i] = (a \o b)[i]
    <3>1. CASE i \in 1 .. Len(c)
      BY <1>4, <2>1, <3>1
    <3>2. CASE i \notin 1 .. Len(c)
      <4>1. i - Len(c) \in 1 .. Len(u) /\ i = Len(c) + (i - Len(c))
        BY <1>1, <3>2
      <4> HIDE DEF a, b, x
      <4>2. b[i - Len(c)] = x[Len(c) + (i - Len(c))] /\ (a \o b)[Len(c) + (i - Len(c))] = b[i - Len(c)]
        BY <1>5, <2>1, <4>1
      <4> QED
        BY <4>1, <4>2
    <3> QED
      BY <3>1, <3>2
  <2> HIDE DEF a, b, x
  <2> QED
    BY <1>6, <2>1, <2>2, SeqEqual
<1>8. /\ \A n \in 1 .. Len(a) : n \in P <=> n \in Q
      /\ \A n \in 1 .. Len(b) : Len(a) + n \in P <=> n \in R
  <2>1. ASSUME NEW n \in 1 .. Len(c)
        PROVE  n \in P <=> n \in Q
    <3>1. n \in 1 .. Len(t)
      BY <1>1
    <3> QED
      BY <1>2, <3>1
  <2>2. ASSUME NEW n \in 1 .. Len(u)
        PROVE  Len(c) + n \in P <=> n \in R
    <3>1. Len(c) + n \in 1 .. Len(t)
      BY <1>1
    <3> QED
      BY <1>2, <3>1
  <2> HIDE DEF a, b, P, Q, R
  <2> QED
    BY <1>6, <2>1, <2>2
<1> HIDE DEF a, b, x, P, Q, R
<1>9. Picked(a \o b, P) = Picked(a, Q) \o Picked(b, R)
  <2>1. a \in Seq(S) /\ b \in Seq(S)
    BY <1>6
  <2> QED
    BY <1>8, <2>1, PickedConcat
<1> QED
  BY <1>3, <1>7, <1>9 DEF b, R, t, InFields, Uncovered

LEMMA ReadingIsASeq ==
  ASSUME NEW first, NEW c \in Texts
  PROVE  \E S : Reading(first, c) \in Seq(S)
<1> DEFINE x == [i \in DOMAIN c |-> <<FieldAt(first, c, i), c[i]>>]
           S == {x[i] : i \in DOMAIN c}
<1>1. Len(c) \in Nat /\ DOMAIN c = 1 .. Len(c)
  BY LenProperties DEF Texts
<1>2. x \in Seq(S)
  <2>1. x \in [1 .. Len(c) -> S]
    <3>1. \A i \in DOMAIN c : x[i] \in S
      OBVIOUS
    <3>2. x \in [DOMAIN c -> S]
      <4> HIDE DEF S
      <4> QED
        BY <3>1
    <3> QED
      BY <1>1, <3>2
  <2> HIDE DEF x, S
  <2> QED
    BY <1>1, <2>1
<1>3. Reading(first, c) = Picked(x, {i \in DOMAIN c : ~Covered(Hits(Markers, c), i)})
  BY DEF Reading
<1> HIDE DEF x, S
<1>4. Reading(first, c) \in Seq(S)
  BY <1>2, <1>3, PickedType
<1> QED
  BY <1>4

LEMMA TaggedIs ==
  ASSUME NEW F, NEW f \in F, NEW u \in Texts
  PROVE  /\ Tagged(f, u) \in Seq(F \X Symbols) /\ Len(Tagged(f, u)) = Len(u)
         /\ Tagged(f, u) = [k \in 1 .. Len(u) |-> <<f, u[k]>>]
<1>1. Len(u) \in Nat /\ DOMAIN u = 1 .. Len(u) /\ \A k \in 1 .. Len(u) : u[k] \in Symbols
  BY LenProperties, ElementOfSeq DEF Texts
<1>2. Tagged(f, u) = [k \in 1 .. Len(u) |-> <<f, u[k]>>]
  BY <1>1 DEF Tagged
<1>3. [k \in 1 .. Len(u) |-> <<f, u[k]>>] \in [1 .. Len(u) -> F \X Symbols]
  BY <1>1
<1>4. ASSUME NEW n \in Nat, NEW S, NEW g \in [1 .. n -> S]
      PROVE  g \in Seq(S) /\ Len(g) = n
  OBVIOUS
<1> QED
  BY <1>1, <1>2, <1>3, <1>4

\* Text without a marker goes to the field that is open.
LEMMA PlainReading ==
  ASSUME NEW first, NEW c \in Texts, NEW u \in Texts, NEW r \in Texts,
         Settled(Markers, c, u \o r), Hits(Markers, u) = {}
  PROVE  LET f == FieldAt(first, c, Len(c) + 1)
         IN  /\ Reading(first, c \o u) = Reading(first, c) \o Tagged(f, u)
             /\ FieldAt(first, c \o u, Len(c \o u) + 1) = f
<1> DEFINE t == c \o u
           f == FieldAt(first, c, Len(c) + 1)
<1>1. /\ Markers \in Marks /\ t \in Texts /\ Len(t) = Len(c) + Len(u)
      /\ Len(c) \in Nat /\ Len(u) \in Nat
  BY MarkersApart, TextsConcat DEF Apart
<1>2. FieldAt(first, t, Len(c) + 1) = f
  <2>1. Len(c) + 1 \in 1 .. Len(c) + 1
    BY <1>1
  <2>2. \A i \in 1 .. Len(c) + 1 : FieldAt(first, c \o u, i) = FieldAt(first, c, i)
    BY FieldsOfConsumed
  <2> QED
    BY <2>1, <2>2
<1>3. ASSUME NEW h \in Hits(Markers, t)
      PROVE  h[1] \in 1 .. Len(c)
  <2>1. h = <<h[1], h[2]>>
    BY <1>1, HitsAre
  <2>2. h[1] \in 1 .. Len(t)
    <3>1. \A i, m : <<i, m>> \in Hits(Markers, t) => i \in 1 .. Len(t)
      BY <1>1, HitsAre
    <3> QED
      BY <2>1, <3>1
  <2>3. SUFFICES ASSUME h[1] \notin 1 .. Len(c) PROVE FALSE
    OBVIOUS
  <2> DEFINE k == h[1] - Len(c)
  <2>4. k \in 1 .. Len(u) /\ h[1] = Len(c) + k
    BY <1>1, <2>2, <2>3
  <2> HIDE DEF k, t
  <2>5. <<Len(c) + k, h[2]>> \in Hits(Markers, t)
    BY <2>1, <2>4
  <2>6. <<k, h[2]>> \in Hits(Markers, u)
    <3>1. \A i \in 1 .. Len(u) : \A m :
            <<Len(c) + i, m>> \in Hits(Markers, c \o u) <=> <<i, m>> \in Hits(Markers, u)
      BY <1>1, HitsOfConsumed
    <3> QED
      BY <2>4, <2>5, <3>1 DEF t
  <2> QED
    BY <2>6
<1>4. ASSUME NEW k \in 1 .. Len(u) + 1
      PROVE  FieldAt(first, t, Len(c) + k) = f
  <2> DEFINE Before(i) == {h \in Hits(Markers, t) : h[1] < i /\ MarkerField[h[2]] # "unchanged"}
  <2>1. Before(Len(c) + k) = Before(Len(c) + 1)
    <3>1. ASSUME NEW h \in Hits(Markers, t)
          PROVE  h[1] < Len(c) + k /\ h[1] < Len(c) + 1
      BY <1>1, <1>3
    <3> HIDE DEF t
    <3> QED
      BY <3>1
  <2>2. \A i : FieldAt(first, t, i) = IF Before(i) = {} THEN first
          ELSE MarkerField[(CHOOSE h \in Before(i) : \A g \in Before(i) : g[1] <= h[1])[2]]
    BY DEF FieldAt
  <2> HIDE DEF Before, t, f
  <2> QED
    BY <1>2, <2>1, <2>2
<1> DEFINE b == [k \in 1 .. Len(u) |-> <<FieldAt(first, t, Len(c) + k), u[k]>>]
           R == {k \in 1 .. Len(u) : ~Covered(Hits(Markers, u), k)}
<1>5. Reading(first, t) = Reading(first, c) \o Picked(b, R)
  <2>1. Reading(first, t) = Reading(first, c) \o Picked(InFields(first, t, Len(c), u), Uncovered(u))
    BY ReadingGrows
  <2> QED
    BY <2>1 DEF InFields, Uncovered
<1>6. b = Tagged(f, u) /\ b \in Seq({f} \X Symbols) /\ Len(b) = Len(u)
  <2>1. b = [k \in 1 .. Len(u) |-> <<f, u[k]>>]
    <3> HIDE DEF f, t
    <3>1. \A k \in 1 .. Len(u) : FieldAt(first, t, Len(c) + k) = f
      BY <1>1, <1>4
    <3> QED
      BY <3>1
  <2>2. ASSUME NEW g
        PROVE  /\ Tagged(g, u) \in Seq({g} \X Symbols) /\ Len(Tagged(g, u)) = Len(u)
               /\ Tagged(g, u) = [k \in 1 .. Len(u) |-> <<g, u[k]>>]
    BY TaggedIs
  <2> HIDE DEF b, f
  <2> QED
    BY <2>1, <2>2
<1>7. 1 .. Len(b) \subseteq R
  <2>1. \A k \in 1 .. Len(u) : ~Covered(Hits(Markers, u), k)
    BY DEF Covered
  <2> HIDE DEF b
  <2> QED
    BY <1>6, <2>1
<1> HIDE DEF b, R, f, t
<1>8. Picked(b, R) = b
  <2>1. b \in Seq({f} \X Symbols)
    BY <1>6
  <2> QED
    BY <1>7, <2>1, PickedAll
<1>9. Reading(first, t) = Reading(first, c) \o Tagged(f, u)
  BY <1>5, <1>6, <1>8
<1>10. FieldAt(first, t, Len(t) + 1) = f
  <2>1. Len(u) + 1 \in 1 .. Len(u) + 1 /\ Len(t) + 1 = Len(c) + (Len(u) + 1)
    BY <1>1
  <2> QED
    BY <1>4, <2>1
<1> QED
  BY <1>9, <1>10 DEF t, f

LEMMA HitsOfMark ==
  ASSUME NEW marks, Apart(marks), NEW m \in marks
  PROVE  Hits(marks, m) = {<<1, m>>}
<1>1. /\ marks \in Marks /\ m \in Texts /\ Len(m) \in Nat /\ Len(m) > 0 /\ m[1] = "<"
      /\ \A i \in 2 .. Len(m) : m[i] # "<"
  BY EmptySeq, LenProperties DEF Apart, Marks, Texts
<1>2. <<1, m>> \in Hits(marks, m)
  <2>1. 1 \in 1 .. Len(m) /\ Agrees(m, m, 1) /\ Ends(m, 1) <= Len(m)
    BY <1>1 DEF Agrees, Ends
  <2> QED
    BY <1>1, <2>1, HitsAre
<1>3. ASSUME NEW k, NEW n, <<k, n>> \in Hits(marks, m)
      PROVE  k = 1 /\ n = m
  <2>1. k \in 1 .. Len(m) /\ n \in marks /\ Agrees(n, m, k) /\ Ends(n, k) <= Len(m)
    BY <1>1, <1>3, HitsAre
  <2>2. n \in Texts /\ Len(n) \in Nat /\ Len(n) > 0 /\ n[1] = "<"
    BY <2>1, EmptySeq, LenProperties DEF Apart, Marks, Texts
  <2>3. m[k] = "<"
    <3>1. 1 \in 1 .. Len(n) /\ k + 1 - 1 = k /\ k <= Len(m)
      BY <2>1, <2>2
    <3> QED
      BY <2>1, <2>2, <3>1 DEF Agrees
  <2>4. k = 1
    BY <1>1, <2>1, <2>3
  <2>5. Len(n) <= Len(m) /\ \A j \in 1 .. Len(n) : n[j] = m[j]
    <3>1. Len(n) <= Len(m)
      BY <1>1, <2>1, <2>2, <2>4 DEF Ends
    <3>2. \A j \in 1 .. Len(n) : k + j - 1 = j /\ j <= Len(m)
      BY <1>1, <2>2, <2>4, <3>1
    <3> QED
      BY <2>1, <3>1, <3>2 DEF Agrees
  <2>6. n = m
    BY <2>1, <2>5 DEF Apart
  <2> QED
    BY <2>4, <2>6
<1>4. \A h \in Hits(marks, m) : h = <<h[1], h[2]>>
  BY <1>1, HitsAre
<1> QED
  BY <1>2, <1>3, <1>4

\* A marker goes to no field, and opens its own.
LEMMA MarkerReading ==
  ASSUME NEW first, NEW c \in Texts, NEW m \in Markers, NEW r \in Texts,
         Settled(Markers, c, m \o r)
  PROVE  LET f == FieldAt(first, c, Len(c) + 1)
         IN  /\ Reading(first, c \o m) = Reading(first, c)
             /\ FieldAt(first, c \o m, Len(c \o m) + 1) = Opened(f, m)
<1> DEFINE t == c \o m
           f == FieldAt(first, c, Len(c) + 1)
           Ht == Hits(Markers, t)
           Hc == Hits(Markers, c)
           last == <<Len(c) + 1, m>>
<1>1. Markers \in Marks /\ m \in Texts
  BY MarkersApart DEF Apart, Marks
<1>2. t \in Texts /\ Len(t) = Len(c) + Len(m) /\ Len(c) \in Nat /\ Len(m) \in Nat /\ Len(m) > 0
  BY <1>1, TextsConcat, EmptySeq DEF Marks, Texts
<1>3. Hits(Markers, m) = {<<1, m>>}
  BY MarkersApart, HitsOfMark
<1>4. \A i, n : <<i, n>> \in Ht => i \in 1 .. Len(t)
  BY <1>1, <1>2, HitsAre
<1>5. /\ \A i \in 1 .. Len(c) : \A n : <<i, n>> \in Ht <=> <<i, n>> \in Hc
      /\ \A i \in 1 .. Len(m) : \A n : <<Len(c) + i, n>> \in Ht <=> <<i, n>> \in {<<1, m>>}
  BY <1>1, <1>3, HitsOfConsumed
<1>6. Ht = Hc \cup {last}
  <2>1. ASSUME NEW h \in Ht
        PROVE  h \in Hc \cup {last}
    <3>1. h = <<h[1], h[2]>>
      BY <1>1, <1>2, HitsAre
    <3> DEFINE i == h[1]
               n == h[2]
    <3>2. <<i, n>> \in Ht /\ h = <<i, n>>
      BY <3>1
    <3> HIDE DEF i, n, Ht, Hc
    <3>3. i \in 1 .. Len(t)
      BY <1>4, <3>2
    <3>4. CASE i \in 1 .. Len(c)
      BY <1>5, <3>2, <3>4
    <3>5. CASE i \notin 1 .. Len(c)
      <4>1. i - Len(c) \in 1 .. Len(m) /\ i = Len(c) + (i - Len(c))
        BY <1>2, <3>3, <3>5
      <4>2. <<i - Len(c), n>> \in {<<1, m>>}
        BY <1>5, <3>2, <4>1
      <4> QED
        BY <3>2, <4>1, <4>2
    <3> QED
      BY <3>4, <3>5
  <2>2. ASSUME NEW h \in Hc
        PROVE  h \in Ht
    <3>1. h = <<h[1], h[2]>>
      BY <1>1, HitsAre
    <3>2. h[1] \in 1 .. Len(c)
      BY <1>1, <3>1, HitsAre
    <3> QED
      BY <1>5, <3>1, <3>2
  <2>3. last \in Ht
    <3>1. 1 \in 1 .. Len(m)
      BY <1>2
    <3> QED
      BY <1>5, <3>1
  <2> HIDE DEF Ht, Hc, last
  <2> QED
    BY <2>1, <2>2, <2>3
<1>7. Reading(first, t) = Reading(first, c)
  <2> DEFINE b == [k \in 1 .. Len(m) |-> <<FieldAt(first, t, Len(c) + k), m[k]>>]
             R == {k \in 1 .. Len(m) : ~Covered(Hits(Markers, m), k)}
             S == {b[k] : k \in 1 .. Len(m)}
  <2>1. Reading(first, t) = Reading(first, c) \o Picked(b, R)
    <3>1. Reading(first, t) = Reading(first, c) \o Picked(InFields(first, t, Len(c), m), Uncovered(m))
      BY <1>1, ReadingGrows
    <3> QED
      BY <3>1 DEF InFields, Uncovered
  <2>2. b \in [1 .. Len(m) -> S]
    <3>1. \A k \in 1 .. Len(m) : b[k] \in S
      OBVIOUS
    <3> HIDE DEF S
    <3> QED
      BY <3>1
  <2> HIDE DEF b, S
  <2>3. b \in Seq(S) /\ Len(b) = Len(m)
    BY <1>2, <2>2
  <2>4. \A k \in 1 .. Len(b) : k \notin R
    <3>1. ASSUME NEW k \in 1 .. Len(m)
          PROVE  Covered(Hits(Markers, m), k)
      <4>1. k \in <<1, m>>[1] .. (<<1, m>>[1] + Len(<<1, m>>[2]) - 1)
        BY <1>2
      <4> QED
        BY <1>3, <4>1 DEF Covered
    <3> QED
      BY <2>3, <3>1
  <2>5. Picked(b, R) = <<>>
    <3>1. b \in Seq(S)
      BY <2>3
    <3> HIDE DEF R
    <3> QED
      BY <2>4, <3>1, PickedNone
  <2>6. PICK X : Reading(first, c) \in Seq(X)
    BY ReadingIsASeq
  <2> QED
    BY <2>1, <2>5, <2>6, ConcatEmptySeq
<1>8. FieldAt(first, t, Len(t) + 1) = Opened(f, m)
  <2> DEFINE Changed(H) == {h \in H : MarkerField[h[2]] # "unchanged"}
             Before(H, i) == {h \in H : h[1] < i /\ MarkerField[h[2]] # "unchanged"}
             Latest(H) == CHOOSE h \in H : \A g \in H : g[1] <= h[1]
  <2>1. \A h \in Hc : h[1] \in 1 .. Len(c)
    <3>1. \A h \in Hc : h = <<h[1], h[2]>>
      BY <1>1, HitsAre
    <3>2. \A i, n : <<i, n>> \in Hc => i \in 1 .. Len(c)
      BY <1>1, HitsAre
    <3> HIDE DEF Hc
    <3> QED
      BY <3>1, <3>2
  <2>2. Before(Ht, Len(t) + 1) = Changed(Ht) /\ Before(Hc, Len(c) + 1) = Changed(Hc)
    <3> HIDE DEF Hc, Ht, t
    <3>1. \A h \in Ht : h[1] < Len(t) + 1
      BY <1>2, <1>6, <2>1
    <3>2. \A h \in Hc : h[1] < Len(c) + 1
      BY <1>2, <2>1
    <3> QED
      BY <3>1, <3>2
  <2>3. /\ FieldAt(first, t, Len(t) + 1)
             = IF Changed(Ht) = {} THEN first ELSE MarkerField[Latest(Changed(Ht))[2]]
        /\ f = IF Changed(Hc) = {} THEN first ELSE MarkerField[Latest(Changed(Hc))[2]]
    <3>1. /\ FieldAt(first, t, Len(t) + 1)
               = IF Before(Ht, Len(t) + 1) = {} THEN first
                 ELSE MarkerField[Latest(Before(Ht, Len(t) + 1))[2]]
          /\ f = IF Before(Hc, Len(c) + 1) = {} THEN first
                 ELSE MarkerField[Latest(Before(Hc, Len(c) + 1))[2]]
      BY DEF FieldAt
    <3> HIDE DEF Before, Changed, Latest, Ht, Hc, t, f
    <3> QED
      BY <2>2, <3>1
  <2> HIDE DEF Ht, Hc, t, f
  <2>4. CASE MarkerField[m] = "unchanged"
    <3>1. Changed(Ht) = Changed(Hc)
      BY <1>6, <2>4
    <3> HIDE DEF Changed, Latest
    <3> QED
      BY <2>3, <2>4, <3>1 DEF Opened
  <2>5. CASE MarkerField[m] # "unchanged"
    <3>1. last \in Changed(Ht) /\ \A g \in Changed(Ht) : g[1] <= last[1]
      BY <1>2, <1>6, <2>1, <2>5
    <3>2. Latest(Changed(Ht)) \in Changed(Ht) /\ last[1] <= Latest(Changed(Ht))[1]
      <4> HIDE DEF Changed, last
      <4> QED
        BY <3>1
    <3> HIDE DEF Latest
    <3>3. Latest(Changed(Ht)) = last
      <4> DEFINE h == Latest(Changed(Ht))
      <4>1. h \in Hc \cup {last} /\ Len(c) + 1 <= h[1]
        BY <1>6, <3>2
      <4> HIDE DEF h
      <4>2. h \notin Hc
        BY <1>2, <2>1, <4>1
      <4> QED
        BY <4>1, <4>2 DEF h
    <3> HIDE DEF Changed
    <3> QED
      BY <2>3, <2>5, <3>1, <3>3 DEF Opened
  <2> QED
    BY <2>4, <2>5
<1> QED
  BY <1>7, <1>8 DEF t, f

ThinkingStates == [field : Fields, buffer : Texts, out : Seq(Fields \X Texts)]

\* The symbols of fragments, each with its field.
Flat(out) == FlattenSeq([i \in DOMAIN out |-> Tagged(out[i][1], out[i][2])])

LEMMA FragmentIs ==
  ASSUME NEW out \in Seq(Fields \X Texts), NEW f \in Fields, NEW w \in Texts
  PROVE  /\ out \o Fragment(f, w) \in Seq(Fields \X Texts)
         /\ Flat(out) \in Seq(Fields \X Symbols) /\ Flat(<<>>) = <<>>
         /\ Flat(out \o Fragment(f, w)) = Flat(out) \o Tagged(f, w)
<1> DEFINE S == Fields \X Symbols
           F == Fields \X Texts
           Tags(o) == [i \in 1 .. Len(o) |-> Tagged(o[i][1], o[i][2])]
<1>1. ASSUME NEW o \in Seq(F)
      PROVE  Tags(o) \in Seq(Seq(S)) /\ Len(Tags(o)) = Len(o) /\ Flat(o) = FlattenSeq(Tags(o))
  <2>1. Len(o) \in Nat /\ DOMAIN o = 1 .. Len(o) /\ \A i \in 1 .. Len(o) : o[i] \in F
    BY LenProperties, ElementOfSeq
  <2>2. ASSUME NEW i \in 1 .. Len(o)
        PROVE  Tagged(o[i][1], o[i][2]) \in Seq(S)
    <3>1. o[i][1] \in Fields /\ o[i][2] \in Texts
      BY <2>1
    <3> QED
      BY <3>1, TaggedIs
  <2>3. Tags(o) \in [1 .. Len(o) -> Seq(S)]
    <3> HIDE DEF S
    <3> QED
      BY <2>2
  <2>4. ASSUME NEW n \in Nat, NEW T, NEW g \in [1 .. n -> T]
        PROVE  g \in Seq(T) /\ Len(g) = n
    OBVIOUS
  <2>5. Flat(o) = FlattenSeq(Tags(o))
    BY <2>1 DEF Flat
  <2> HIDE DEF Tags
  <2> QED
    BY <2>1, <2>3, <2>4, <2>5
<1>2. Flat(<<>>) = <<>>
  <2>1. [i \in DOMAIN <<>> |-> Tagged(<<>>[i][1], <<>>[i][2])] = <<>>
    OBVIOUS
  <2>2. FlattenSeq(<<>>) = <<>>
    BY EmptySeq DEF FlattenSeq
  <2> QED
    BY <2>1, <2>2 DEF Flat
<1>3. Tagged(f, w) \in Seq(S) /\ Len(Tagged(f, w)) = Len(w)
  BY TaggedIs
<1>4. Flat(out) \in Seq(S)
  <2>1. Tags(out) \in Seq(Seq(S)) /\ Flat(out) = FlattenSeq(Tags(out)) /\ <<>> \in Seq(S)
    BY <1>1, EmptySeq
  <2> HIDE DEF Tags, S
  <2> QED
    BY <2>1, FlattenMore
<1>5. CASE w = <<>>
  <2>1. Fragment(f, w) = <<>> /\ Tagged(f, w) = <<>>
    <3>1. Len(Tagged(f, w)) = 0
      BY <1>3, <1>5
    <3> HIDE DEF S
    <3> QED
      BY <1>3, <1>5, <3>1, EmptySeq DEF Fragment
  <2>2. out \o <<>> = out /\ Flat(out) \o <<>> = Flat(out)
    BY <1>4, ConcatEmptySeq
  <2> QED
    BY <1>2, <1>4, <2>1, <2>2
<1>6. CASE w # <<>>
  <2> DEFINE one == <<f, w>>
             o == out \o <<one>>
             e == Tagged(f, w)
  <2>1. out \o Fragment(f, w) = o /\ one \in F
    BY <1>6 DEF Fragment
  <2>2. /\ o \in Seq(F) /\ Len(o) = Len(out) + 1 /\ Len(out) \in Nat /\ o[Len(out) + 1] = one
        /\ \A i \in 1 .. Len(out) : o[i] = out[i]
    <3> HIDE DEF one, F
    <3>1. Append(out, one) = o
      BY <2>1, AppendIsConcat DEF F
    <3>2. /\ Append(out, one) \in Seq(F) /\ Len(Append(out, one)) = Len(out) + 1
          /\ Append(out, one)[Len(out) + 1] = one /\ Len(out) \in Nat
          /\ \A i \in 1 .. Len(out) : Append(out, one)[i] = out[i]
      BY <2>1, AppendProperties, LenProperties DEF F
    <3> HIDE DEF o
    <3> QED
      BY <3>1, <3>2
  <2>3. /\ Tags(out) \in Seq(Seq(S)) /\ Len(Tags(out)) = Len(out) /\ Flat(out) = FlattenSeq(Tags(out))
        /\ Tags(o) \in Seq(Seq(S)) /\ Len(Tags(o)) = Len(o) /\ Flat(o) = FlattenSeq(Tags(o))
    <3> HIDE DEF o, Tags, S
    <3> QED
      BY <1>1, <2>2
  <2>4. Tags(o) = Tags(out) \o <<e>>
    <3>1. Append(Tags(out), e) = Tags(out) \o <<e>>
      <4> HIDE DEF Tags, e, S
      <4> QED
        BY <1>3, <2>3, AppendIsConcat DEF e
    <3>2. /\ Append(Tags(out), e) \in Seq(Seq(S)) /\ Len(Append(Tags(out), e)) = Len(Tags(out)) + 1
          /\ Append(Tags(out), e)[Len(Tags(out)) + 1] = e
          /\ \A i \in 1 .. Len(Tags(out)) : Append(Tags(out), e)[i] = Tags(out)[i]
      <4>1. Tags(out) \in Seq(Seq(S)) /\ e \in Seq(S)
        BY <1>3, <2>3
      <4> HIDE DEF Tags, e, S
      <4> QED
        BY <4>1, AppendProperties
    <3>3. ASSUME NEW i \in 1 .. Len(o)
          PROVE  Tags(o)[i] = Append(Tags(out), e)[i]
      <4>1. Tags(o)[i] = Tagged(o[i][1], o[i][2])
        <5> HIDE DEF o
        <5> QED
          OBVIOUS
      <4>2. CASE i \in 1 .. Len(out)
        <5>1. Tags(out)[i] = Tagged(out[i][1], out[i][2])
          BY <4>2
        <5> HIDE DEF o, Tags
        <5> QED
          BY <2>2, <2>3, <3>2, <4>1, <4>2, <5>1
      <4>3. CASE i = Len(out) + 1
        <5>1. Tags(o)[i] = e
          <6>1. o[i] = one
            <7> HIDE DEF o, one
            <7> QED
              BY <2>2, <4>3
          <6> HIDE DEF o, Tags
          <6> QED
            BY <4>1, <6>1
        <5> HIDE DEF o, Tags, e
        <5> QED
          BY <2>3, <3>2, <4>3, <5>1
      <4> HIDE DEF o
      <4> QED
        BY <2>2, <4>2, <4>3
    <3> HIDE DEF Tags, o, e, S
    <3>4. Len(Tags(o)) = Len(Append(Tags(out), e))
      BY <2>2, <2>3, <3>2
    <3>5. \A i \in 1 .. Len(Tags(o)) : Tags(o)[i] = Append(Tags(out), e)[i]
      BY <2>3, <3>3
    <3> QED
      BY <2>3, <3>1, <3>2, <3>4, <3>5, SeqEqual
  <2>5. FlattenSeq(Tags(out) \o <<e>>) = FlattenSeq(Tags(out)) \o e
    <3>1. Tags(out) \in Seq(Seq(S)) /\ e \in Seq(S)
      BY <1>3, <2>3
    <3> HIDE DEF Tags, e, S
    <3> QED
      BY <3>1, FlattenMore
  <2> HIDE DEF Tags, o, S
  <2> QED
    BY <1>2, <1>4, <2>1, <2>2, <2>3, <2>4, <2>5 DEF S
<1> QED
  BY <1>5, <1>6

\* The parser p has read text from first on, and before is what it had returned earlier: there is a
\* beginning c of text that is read, the rest is in the buffer, and no marker is in both.
Reads(p, first, before, text) ==
  \E c \in Texts : /\ c \o p.buffer = text
                   /\ Settled(Markers, c, p.buffer)
                   /\ p.field = FieldAt(first, c, Len(c) + 1)
                   /\ before \o Flat(p.out) = Reading(first, c)

\* What one more fragment does to what was returned.
LEMMA MoreFragments ==
  ASSUME NEW p \in ThinkingStates, NEW f \in Fields, NEW w \in Texts,
         NEW before \in Seq(Fields \X Symbols)
  PROVE  /\ p.out \o Fragment(f, w) \in Seq(Fields \X Texts)
         /\ before \o Flat(p.out \o Fragment(f, w)) = (before \o Flat(p.out)) \o Tagged(f, w)
<1> DEFINE S == Fields \X Symbols
           x == Flat(p.out)
           y == Tagged(f, w)
<1>1. /\ p.out \o Fragment(f, w) \in Seq(Fields \X Texts) /\ x \in Seq(S)
      /\ Flat(p.out \o Fragment(f, w)) = x \o y
  BY FragmentIs DEF ThinkingStates
<1>2. y \in Seq(S) /\ before \in Seq(S)
  BY TaggedIs
<1> HIDE DEF S, x, y
<1>3. (before \o x) \o y = before \o (x \o y)
  <2>1. x \in Seq(S) /\ y \in Seq(S) /\ before \in Seq(S)
    BY <1>1, <1>2
  <2> QED
    BY <2>1, ConcatAssociative
<1> QED
  BY <1>1, <1>3 DEF x, y

LEMMA OpenedIs ==
  ASSUME NEW f \in Fields, NEW m \in Markers
  PROVE  Opened(f, m) \in Fields
BY MarkersAreTexts DEF Opened

LEMMA ThinkingTurnIs ==
  ASSUME NEW p \in ThinkingStates
  PROVE  /\ ThinkingTurn(p) \in ThinkingStates
         /\ Hits(Markers, p.buffer) # {} => Len(ThinkingTurn(p).buffer) < Len(p.buffer)
         /\ \A first : \A before \in Seq(Fields \X Symbols) : \A text :
              Reads(p, first, before, text) => Reads(ThinkingTurn(p), first, before, text)
<1>1. CASE Hits(Markers, p.buffer) = {}
  BY <1>1 DEF ThinkingTurn
<1>2. CASE Hits(Markers, p.buffer) # {}
  <2> DEFINE b == p.buffer
             hit == Earliest(Markers, b)
             w == SubSeq(b, 1, hit[1] - 1)
             m == hit[2]
             r == From(b, hit[1] + Len(m))
             q == ThinkingTurn(p)
  <2>1. q = [field |-> Opened(p.field, m), buffer |-> r, out |-> p.out \o Fragment(p.field, w)]
    BY <1>2 DEF ThinkingTurn
  <2>2. Markers \in Marks /\ b \in Texts /\ p.field \in Fields /\ p.out \in Seq(Fields \X Texts)
    BY MarkersApart DEF Apart, ThinkingStates
  <2>3. /\ m \in Markers /\ m \in Texts /\ w \in Texts /\ r \in Texts
        /\ w \o (m \o r) = b /\ Hits(Markers, w) = {} /\ Len(r) < Len(b)
    <3> HIDE DEF b
    <3> QED
      BY <1>2, <2>2, SplitAtMark DEF b
  <2> HIDE DEF hit, w, m, r, q
  <2>4. p.out \o Fragment(p.field, w) \in Seq(Fields \X Texts)
    BY <2>2, <2>3, FragmentIs
  <2>5. q \in ThinkingStates /\ Len(q.buffer) < Len(b)
    <3>1. Opened(p.field, m) \in Fields
      BY <2>2, <2>3, OpenedIs
    <3> QED
      BY <2>1, <2>3, <2>4, <3>1 DEF ThinkingStates
  <2>6. ASSUME NEW first, NEW before \in Seq(Fields \X Symbols), NEW text, Reads(p, first, before, text)
        PROVE  Reads(q, first, before, text)
    <3>1. PICK c \in Texts : /\ c \o b = text /\ Settled(Markers, c, b)
                             /\ p.field = FieldAt(first, c, Len(c) + 1)
                             /\ before \o Flat(p.out) = Reading(first, c)
      BY <2>6 DEF Reads
    <3> HIDE DEF b
    <3> DEFINE v == c \o w
               t == v \o m
               f == p.field
    <3>2. /\ m \o r \in Texts /\ v \in Texts /\ Settled(Markers, v, m \o r) /\ Settled(Markers, t, r)
      <4>1. Settled(Markers, c, w \o (m \o r))
        BY <2>3, <3>1
      <4> QED
        BY <2>3, <4>1, MarkersApart, MarkSettles
    <3>3. Reading(first, v) = Reading(first, c) \o Tagged(f, w) /\ FieldAt(first, v, Len(v) + 1) = f
      <4>1. Settled(Markers, c, w \o (m \o r))
        BY <2>3, <3>1
      <4>2. LET g == FieldAt(first, c, Len(c) + 1)
            IN  /\ Reading(first, c \o w) = Reading(first, c) \o Tagged(g, w)
                /\ FieldAt(first, c \o w, Len(c \o w) + 1) = g
        BY <2>3, <3>2, <4>1, PlainReading
      <4> QED
        BY <3>1, <4>2
    <3> HIDE DEF v
    <3>4. Reading(first, t) = Reading(first, v) /\ FieldAt(first, t, Len(t) + 1) = Opened(f, m)
      <4>1. LET g == FieldAt(first, v, Len(v) + 1)
            IN  /\ Reading(first, v \o m) = Reading(first, v)
                /\ FieldAt(first, v \o m, Len(v \o m) + 1) = Opened(g, m)
        BY <2>3, <3>2, MarkerReading
      <4> QED
        BY <3>3, <4>1
    <3>5. before \o Flat(q.out) = Reading(first, t)
      <4>1. before \o Flat(p.out \o Fragment(f, w)) = (before \o Flat(p.out)) \o Tagged(f, w)
        BY <2>2, <2>3, MoreFragments
      <4> QED
        BY <2>1, <3>1, <3>3, <3>4, <4>1
    <3>6. t \in Texts /\ t \o r = text
      <4>1. t \in Texts
        BY <2>3, <3>2, TextsConcat
      <4>2. t \o r = v \o (m \o r)
        <5>1. v \in Texts /\ m \in Texts /\ r \in Texts
          BY <2>3, <3>2
        <5> QED
          BY <5>1, TextsAssociate
      <4>3. (c \o w) \o (m \o r) = c \o (w \o (m \o r))
        <5>1. m \o r \in Texts
          BY <3>2
        <5> QED
          BY <2>3, <5>1, TextsAssociate
      <4> HIDE DEF t
      <4> QED
        BY <2>3, <3>1, <4>1, <4>2, <4>3 DEF v
    <3> HIDE DEF t, f
    <3>7. q.buffer = r /\ q.field = Opened(f, m)
      BY <2>1 DEF f
    <3> QED
      BY <3>2, <3>4, <3>5, <3>6, <3>7 DEF Reads
  <2> QED
    BY <2>5, <2>6 DEF b, q
<1> QED
  BY <1>1, <1>2

LEMMA HitsOfEnd ==
  ASSUME NEW marks \in Marks, NEW c \in Texts, NEW b \in Texts, Hits(marks, c \o b) = {}
  PROVE  Hits(marks, c) = {} /\ Hits(marks, b) = {}
<1>1. /\ c \o b \in Texts /\ Len(c \o b) = Len(c) + Len(b) /\ Len(c) \in Nat /\ Len(b) \in Nat
      /\ \A m \in marks : m \in Texts /\ Len(m) \in Nat
  BY TextsConcat, LenProperties DEF Texts, Marks
<1>2. ASSUME NEW i, NEW m, <<i, m>> \in Hits(marks, b)
      PROVE  FALSE
  <2>1. i \in 1 .. Len(b) /\ m \in marks /\ Agrees(m, b, i) /\ Ends(m, i) <= Len(b)
    BY <1>2, HitsAre
  <2>2. Agrees(m, c \o b, Len(c) + i)
    BY <1>1, <2>1, ConcatAgrees
  <2>3. Len(c) + i \in 1 .. Len(c \o b) /\ Ends(m, Len(c) + i) <= Len(c \o b)
    BY <1>1, <2>1 DEF Ends
  <2>4. <<Len(c) + i, m>> \in Hits(marks, c \o b)
    BY <1>1, <2>1, <2>2, <2>3, HitsAre
  <2> QED
    BY <2>4
<1>3. \A i, m : <<i, m>> \notin Hits(marks, c)
  BY HitsOfBeginning
<1> QED
  BY <1>2, <1>3, NoHits

\* The last turn of feed.
LEMMA ReleaseRestIs ==
  ASSUME NEW p \in ThinkingStates, Hits(Markers, p.buffer) = {}
  PROVE  LET q == ReleaseRest(p)
         IN  /\ q \in ThinkingStates
             /\ q.buffer = Held(Markers, q.buffer) /\ Hits(Markers, q.buffer) = {}
             /\ \A first : \A before \in Seq(Fields \X Symbols) : \A text :
                  Reads(p, first, before, text) => Reads(q, first, before, text)
<1> DEFINE b == p.buffer
           h == Held(Markers, b)
           w == Without(b, h)
           q == ReleaseRest(p)
<1>1. Markers \in Marks /\ b \in Texts /\ p.field \in Fields /\ p.out \in Seq(Fields \X Texts)
  BY MarkersApart DEF Apart, ThinkingStates
<1>2. h \in Texts /\ w \in Texts /\ w \o h = b /\ h = Held(Markers, h)
  <2> HIDE DEF b
  <2> QED
    BY <1>1, HeldIs, HeldAgain
<1>3. q.field = p.field /\ q.buffer = h /\ q.out = p.out \o Fragment(p.field, w) /\ q \in ThinkingStates
  <2>1. p.out \o Fragment(p.field, w) \in Seq(Fields \X Texts)
    <3> HIDE DEF w, h, b
    <3> QED
      BY <1>1, <1>2, FragmentIs
  <2>2. q = [p EXCEPT !.buffer = h, !.out = @ \o Fragment(p.field, w)]
    BY DEF ReleaseRest
  <2> HIDE DEF w, h, q, b
  <2> QED
    BY <1>2, <2>1, <2>2 DEF ThinkingStates
<1>4. Hits(Markers, h) = {} /\ Hits(Markers, w) = {}
  <2> HIDE DEF w, h
  <2> QED
    BY <1>1, <1>2, HitsOfEnd DEF b
<1>5. ASSUME NEW first, NEW before \in Seq(Fields \X Symbols), NEW text, Reads(p, first, before, text)
      PROVE  Reads(q, first, before, text)
  <2>1. PICK c \in Texts : /\ c \o b = text /\ Settled(Markers, c, b)
                           /\ p.field = FieldAt(first, c, Len(c) + 1)
                           /\ before \o Flat(p.out) = Reading(first, c)
    BY <1>5 DEF Reads
  <2>2. Settled(Markers, c \o w, h)
    <3>1. Hits(Markers, b) = {}
      OBVIOUS
    <3> HIDE DEF b
    <3> QED
      BY <1>1, <2>1, <3>1, HoldsBack
  <2> HIDE DEF w, h, b, q
  <2>3. LET g == FieldAt(first, c, Len(c) + 1)
        IN  /\ Reading(first, c \o w) = Reading(first, c) \o Tagged(g, w)
            /\ FieldAt(first, c \o w, Len(c \o w) + 1) = g
    <3>1. Settled(Markers, c, w \o h)
      BY <1>2, <2>1
    <3> QED
      BY <1>2, <1>4, <3>1, PlainReading
  <2>4. before \o Flat(q.out) = Reading(first, c \o w)
    <3>1. before \o Flat(p.out \o Fragment(p.field, w)) = (before \o Flat(p.out)) \o Tagged(p.field, w)
      BY <1>1, <1>2, MoreFragments
    <3> QED
      BY <1>3, <2>1, <2>3, <3>1
  <2>5. c \o w \in Texts /\ (c \o w) \o h = text
    <3>1. (c \o w) \o h = c \o (w \o h)
      BY <1>2, TextsAssociate
    <3> QED
      BY <1>2, <2>1, <3>1, TextsConcat
  <2> DEFINE v == c \o w
  <2> HIDE DEF v
  <2>6. /\ v \in Texts /\ v \o q.buffer = text /\ Settled(Markers, v, q.buffer)
        /\ q.field = FieldAt(first, v, Len(v) + 1) /\ before \o Flat(q.out) = Reading(first, v)
    BY <1>3, <2>1, <2>2, <2>3, <2>4, <2>5 DEF v
  <2> QED
    BY <2>6 DEF Reads
<1> QED
  BY <1>2, <1>3, <1>4, <1>5

\* The loop of feed, from which the marks are gone when it ends.
LEMMA ThinkingLoopIs ==
  ASSUME NEW p \in ThinkingStates
  PROVE  LET q == ThinkingLoop(p)
         IN  /\ q \in ThinkingStates
             /\ q.buffer = Held(Markers, q.buffer) /\ Hits(Markers, q.buffer) = {}
             /\ \A first : \A before \in Seq(Fields \X Symbols) : \A text :
                  Reads(p, first, before, text) => Reads(q, first, before, text)
<1> DEFINE L == Len(p.buffer)
           step == [n \in Nat |-> [s \in ThinkingStates |-> ThinkingTurn(s)]]
<1>1. L \in Nat
  BY LenProperties DEF ThinkingStates, Texts
<1>2. step \in [Nat -> [ThinkingStates -> ThinkingStates]]
  BY ThinkingTurnIs
<1>3. PICK f : Loops(f, L, ThinkingStates, p, step)
  <2> HIDE DEF step, L
  <2> QED
    BY <1>1, <1>2, LoopExists
<1>4. f = [n \in 0 .. L |-> IF n = 0 THEN p ELSE ThinkingTurn(f[n - 1])]
  <2>1. ASSUME NEW n \in 0 .. L, n # 0
        PROVE  step[n - 1][f[n - 1]] = ThinkingTurn(f[n - 1])
    <3>1. n - 1 \in 0 .. L /\ n - 1 \in Nat
      BY <1>1, <2>1
    <3>2. f[n - 1] \in ThinkingStates
      <4> HIDE DEF step, L
      <4> QED
        BY <1>3, <3>1 DEF Loops
    <3> QED
      BY <3>1, <3>2
  <2> HIDE DEF step, L
  <2> QED
    BY <1>3, <2>1 DEF Loops
<1> DEFINE after[n \in 0 .. Len(p.buffer)] == IF n = 0 THEN p ELSE ThinkingTurn(after[n - 1])
<1>5. after = [n \in 0 .. Len(p.buffer) |-> IF n = 0 THEN p ELSE ThinkingTurn(after[n - 1])]
  BY <1>4, Zenon
<1>6. ThinkingLoop(p) = ReleaseRest(after[L])
  BY DEF ThinkingLoop
<1> HIDE DEF after, step
<1> DEFINE Reached(s, n) ==
             /\ s \in ThinkingStates
             /\ Hits(Markers, s.buffer) = {} \/ Len(s.buffer) <= L - n
             /\ \A first : \A before \in Seq(Fields \X Symbols) : \A text :
                  Reads(p, first, before, text) => Reads(s, first, before, text)
           T == {n \in 0 .. L : Reached(after[n], n)}
<1>7. 0 .. L \subseteq T
  <2>1. 0 \in T
    <3>1. after[0] = p /\ 0 \in 0 .. L
      BY <1>1, <1>5
    <3>2. Len(p.buffer) <= L - 0
      BY <1>1
    <3> HIDE DEF L
    <3> QED
      BY <3>1, <3>2
  <2>2. ASSUME NEW n \in 0 .. L - 1, n \in T
        PROVE  n + 1 \in T
    <3>1. n + 1 \in 0 .. L /\ n + 1 # 0 /\ (n + 1) - 1 = n
      BY <1>1
    <3> DEFINE s == after[n]
               x == after[n + 1]
    <3>2. x = ThinkingTurn(s)
      BY <1>5, <3>1
    <3>3. Reached(s, n)
      BY <2>2
    <3> HIDE DEF s, x, L
    <3>4. x \in ThinkingStates
      BY <3>2, <3>3, ThinkingTurnIs
    <3>5. Hits(Markers, x.buffer) = {} \/ Len(x.buffer) <= L - (n + 1)
      <4>1. CASE Hits(Markers, s.buffer) = {}
        BY <3>2, <4>1 DEF ThinkingTurn
      <4>2. CASE Hits(Markers, s.buffer) # {}
        <5>1. Len(x.buffer) < Len(s.buffer) /\ Len(s.buffer) <= L - n
          BY <3>2, <3>3, <4>2, ThinkingTurnIs
        <5>2. Len(x.buffer) \in Nat /\ Len(s.buffer) \in Nat
          BY <3>3, <3>4, LenProperties DEF ThinkingStates, Texts
        <5> QED
          BY <1>1, <5>1, <5>2
      <4> QED
        BY <4>1, <4>2
    <3>6. ASSUME NEW first, NEW before \in Seq(Fields \X Symbols), NEW text, Reads(p, first, before, text)
          PROVE  Reads(x, first, before, text)
      <4>1. Reads(s, first, before, text)
        BY <3>3, <3>6
      <4> QED
        BY <3>2, <3>3, <4>1, ThinkingTurnIs
    <3>7. Reached(x, n + 1)
      BY <3>4, <3>5, <3>6
    <3> HIDE DEF Reached
    <3> QED
      BY <3>1, <3>7 DEF x
  <2> HIDE DEF T, L
  <2> QED
    BY <1>1, <2>1, <2>2, InductionUpTo
<1>8. Reached(after[L], L)
  <2>1. L \in T
    <3> HIDE DEF T, L
    <3> QED
      BY <1>1, <1>7
  <2> HIDE DEF Reached
  <2> QED
    BY <2>1
<1> DEFINE s == after[L]
<1> HIDE DEF s
<1>9. s \in ThinkingStates /\ Hits(Markers, s.buffer) = {}
  <2>1. s \in ThinkingStates /\ (Hits(Markers, s.buffer) = {} \/ Len(s.buffer) <= L - L)
    BY <1>8 DEF s
  <2>2. CASE Len(s.buffer) <= L - L
    <3>1. s.buffer \in Seq(Symbols) /\ Len(s.buffer) = 0
      <4> HIDE DEF L
      <4> QED
        BY <1>1, <2>1, <2>2, LenProperties DEF ThinkingStates, Texts
    <3>2. s.buffer = <<>>
      BY <3>1, EmptySeq
    <3> QED
      BY <2>1, <3>2, MarkersApart, NoneInEmpty DEF Apart
  <2> QED
    BY <2>1, <2>2
<1>10. \A first : \A before \in Seq(Fields \X Symbols) : \A text :
         Reads(p, first, before, text) => Reads(s, first, before, text)
  BY <1>8 DEF s
<1> DEFINE q == ReleaseRest(s)
<1>11. /\ q \in ThinkingStates
       /\ q.buffer = Held(Markers, q.buffer) /\ Hits(Markers, q.buffer) = {}
       /\ \A first : \A before \in Seq(Fields \X Symbols) : \A text :
            Reads(s, first, before, text) => Reads(q, first, before, text)
  BY <1>9, ReleaseRestIs
<1>12. ThinkingLoop(p) = q
  BY <1>6 DEF s
<1> HIDE DEF q
<1> QED
  BY <1>10, <1>11, <1>12

LEMMA ThinkingFeedIs ==
  ASSUME NEW p \in ThinkingStates, p.out = <<>>, NEW u \in Texts, NEW first,
         NEW before \in Seq(Fields \X Symbols), NEW text \in Texts, Reads(p, first, before, text)
  PROVE  LET q == ThinkingFeed(p, u)
         IN  /\ q \in ThinkingStates
             /\ q.buffer = Held(Markers, q.buffer) /\ Hits(Markers, q.buffer) = {}
             /\ Reads(q, first, before, text \o u)
<1> DEFINE s == [p EXCEPT !.buffer = @ \o u, !.out = <<>>]
<1>1. /\ s \in ThinkingStates /\ s.buffer = p.buffer \o u /\ s.field = p.field /\ s.out = <<>>
      /\ p.buffer \in Texts
  <2>1. p.buffer \in Texts /\ p.buffer \o u \in Texts
    BY TextsConcat DEF ThinkingStates
  <2>2. <<>> \in Seq(Fields \X Texts)
    BY EmptySeq
  <2> QED
    BY <2>1, <2>2 DEF ThinkingStates
<1>2. ThinkingFeed(p, u) = ThinkingLoop(s)
  BY DEF ThinkingFeed
<1> HIDE DEF s
<1>3. Reads(s, first, before, text \o u)
  <2>1. PICK c \in Texts : /\ c \o p.buffer = text /\ Settled(Markers, c, p.buffer)
                           /\ p.field = FieldAt(first, c, Len(c) + 1)
                           /\ before \o Flat(p.out) = Reading(first, c)
    BY DEF Reads
  <2>2. c \o (p.buffer \o u) = text \o u
    BY <1>1, <2>1, TextsAssociate
  <2>3. Settled(Markers, c, p.buffer \o u)
    BY <1>1, <2>1, MarkersApart, SettledMore DEF Apart
  <2> QED
    BY <1>1, <2>1, <2>2, <2>3 DEF Reads
<1> QED
  BY <1>1, <1>2, <1>3, ThinkingLoopIs

\* All that was fed is read when what is withheld goes to the field that is open.
LEMMA ReadsAll ==
  ASSUME NEW p \in ThinkingStates, NEW first, NEW before \in Seq(Fields \X Symbols), NEW text,
         Reads(p, first, before, text), Hits(Markers, p.buffer) = {}
  PROVE  (before \o Flat(p.out)) \o Tagged(p.field, p.buffer) = Reading(first, text)
<1>1. PICK c \in Texts : /\ c \o p.buffer = text /\ Settled(Markers, c, p.buffer)
                         /\ p.field = FieldAt(first, c, Len(c) + 1)
                         /\ before \o Flat(p.out) = Reading(first, c)
  BY DEF Reads
<1>2. p.buffer \in Texts /\ <<>> \in Texts /\ p.buffer \o <<>> = p.buffer
  BY EmptySeq, ConcatEmptySeq DEF ThinkingStates, Texts
<1>3. LET f == FieldAt(first, c, Len(c) + 1)
      IN  /\ Reading(first, c \o p.buffer) = Reading(first, c) \o Tagged(f, p.buffer)
          /\ FieldAt(first, c \o p.buffer, Len(c \o p.buffer) + 1) = f
  <2>1. Settled(Markers, c, p.buffer \o <<>>)
    BY <1>1, <1>2
  <2> QED
    BY <1>2, <2>1, PlainReading
<1> QED
  BY <1>1, <1>3

\* The thinking parser has read what the stop buffer let through, but for what it withholds until
\* it is flushed.
ThinkingInv ==
  /\ thinking \in ThinkingStates /\ thinking.out = <<>>
  /\ split \in Seq(Fields \X Symbols)
  /\ \/ /\ Reads(thinking, request.first, split, released)
        /\ thinking.buffer = Held(Markers, thinking.buffer)
        /\ Hits(Markers, thinking.buffer) = {}
     \/ /\ phase # "streaming"
        /\ thinking.buffer = <<>>
        /\ split = Reading(request.first, released)

LEMMA SplitIsFlat ==
  ASSUME NEW out
  PROVE  FlattenSeq([i \in DOMAIN out |-> Tagged(out[i][1], out[i][2])]) = Flat(out)
BY DEF Flat

LEMMA ThinkingInit == Init => ThinkingInv
<1> SUFFICES ASSUME Init PROVE ThinkingInv
  OBVIOUS
<1>1. /\ request.first \in Fields /\ Markers \in Marks /\ <<>> \in Texts
      /\ <<>> \in Seq(Fields \X Texts) /\ <<>> \in Seq(Fields \X Symbols)
  BY StopsOfRequests, MarkersApart, NoneInEmpty, EmptySeq DEF Init, Apart
<1>2. thinking \in ThinkingStates /\ thinking.out = <<>> /\ thinking.buffer = <<>>
      /\ thinking.field = request.first /\ split = <<>> /\ released = <<>>
  BY <1>1 DEF Init, ThinkingStates
<1>3. Hits(Markers, <<>>) = {} /\ Held(Markers, <<>>) = <<>> /\ Settled(Markers, <<>>, <<>>)
  BY <1>1, NoneInEmpty
<1>4. FieldAt(request.first, <<>>, Len(<<>>) + 1) = request.first
  BY <1>3 DEF FieldAt
<1>5. Reading(request.first, <<>>) = <<>>
  <2> DEFINE x == [i \in DOMAIN <<>> |-> <<FieldAt(request.first, <<>>, i), <<>>[i]>>]
             P == {i \in DOMAIN <<>> : ~Covered(Hits(Markers, <<>>), i)}
  <2>1. x = <<>>
    OBVIOUS
  <2>2. Reading(request.first, <<>>) = Picked(x, P)
    BY DEF Reading
  <2>3. ASSUME NEW s \in Seq(Symbols), Len(s) = 0
        PROVE  Picked(s, P) = <<>>
    <3>1. \A n \in 1 .. Len(s) : n \notin P
      BY <2>3
    <3> HIDE DEF P
    <3> QED
      BY <3>1, PickedNone
  <2>4. Picked(<<>>, P) = <<>>
    <3>1. Len(<<>>) = 0 /\ <<>> \in Seq(Symbols)
      BY EmptySeq
    <3> HIDE DEF P
    <3> QED
      BY <2>3, <3>1
  <2> HIDE DEF x, P
  <2> QED
    BY <2>1, <2>2, <2>4
<1>6. split \o Flat(thinking.out) = <<>> /\ <<>> \o <<>> = <<>>
  <2>1. Flat(<<>>) = <<>>
    BY <1>1, FragmentIs
  <2> QED
    BY <1>1, <1>2, <2>1, ConcatEmptySeq
<1>7. Reads(thinking, request.first, split, released)
  BY <1>1, <1>2, <1>3, <1>4, <1>5, <1>6 DEF Reads
<1> QED
  BY <1>1, <1>2, <1>3, <1>7 DEF ThinkingInv, Init

LEMMA ThinkingStep == StopInv /\ ThinkingInv /\ [Next]_replyVars => ThinkingInv'
<1> SUFFICES ASSUME StopInv, ThinkingInv, [Next]_replyVars PROVE ThinkingInv'
  OBVIOUS
<1> DEFINE first == request.first
<1>1. /\ thinking \in ThinkingStates /\ thinking.out = <<>> /\ split \in Seq(Fields \X Symbols)
      /\ released \in Texts /\ stop.buffer \in Texts /\ request \in Requests
  BY DEF ThinkingInv, StopInv
<1>2. ASSUME NEW q \in ThinkingStates
      PROVE  /\ Kept(q) \in ThinkingStates /\ Kept(q).out = <<>> /\ Kept(q).buffer = q.buffer
             /\ Kept(q).field = q.field /\ Flat(q.out) \in Seq(Fields \X Symbols)
             /\ split \o Flat(q.out) \in Seq(Fields \X Symbols)
  <2>1. Flat(q.out) \in Seq(Fields \X Symbols)
    <3>1. q.out \in Seq(Fields \X Texts) /\ q.field \in Fields /\ q.buffer \in Texts
      BY DEF ThinkingStates
    <3> QED
      BY <3>1, FragmentIs
  <2>2. <<>> \in Seq(Fields \X Texts)
    BY EmptySeq
  <2>3. split \o Flat(q.out) \in Seq(Fields \X Symbols)
    BY <1>1, <2>1, ConcatIs
  <2> QED
    BY <2>1, <2>2, <2>3 DEF Kept, ThinkingStates
<1>3. ASSUME NEW u \in Texts, phase = "streaming"
      PROVE  LET q == ThinkingFeed(thinking, u)
             IN  /\ q \in ThinkingStates
                 /\ q.buffer = Held(Markers, q.buffer) /\ Hits(Markers, q.buffer) = {}
                 /\ Reads(q, first, split, released \o u)
  <2>1. Reads(thinking, first, split, released)
    BY <1>3 DEF ThinkingInv
  <2> QED
    BY <1>1, <2>1, ThinkingFeedIs
<1>4. ASSUME NEW piece \in Vocabularies[request.vocabulary].pieces, Respond(piece)
      PROVE  ThinkingInv'
  <2> DEFINE u == StopFeed(request.stops, stop, piece).out
             q == ThinkingFeed(thinking, u)
  <2>1. /\ phase = "streaming" /\ released' = released \o u /\ request' = request
        /\ thinking' = Kept(q) /\ split' = split \o Flat(q.out)
    BY <1>4, SplitIsFlat DEF Respond, Parse
  <2>2. u \in Texts
    <3>1. /\ Settled(request.stops, released, stop.buffer) /\ Hits(request.stops, released) = {}
          /\ request.stops \in Marks /\ piece \in Texts
      BY <1>1, <1>4, <2>1, StopsOfRequests DEF StopInv, Respond
    <3> QED
      BY <1>1, <3>1, StopFeedIs
  <2> HIDE DEF u
  <2>3. /\ q \in ThinkingStates
        /\ q.buffer = Held(Markers, q.buffer) /\ Hits(Markers, q.buffer) = {}
        /\ Reads(q, first, split, released \o u)
    BY <1>3, <2>1, <2>2
  <2> HIDE DEF q
  <2>4. Reads(Kept(q), first, split \o Flat(q.out), released \o u)
    <3>1. PICK c \in Texts : /\ c \o q.buffer = released \o u
                             /\ Settled(Markers, c, q.buffer)
                             /\ q.field = FieldAt(first, c, Len(c) + 1)
                             /\ split \o Flat(q.out) = Reading(first, c)
      BY <2>3 DEF Reads
    <3> DEFINE b == split \o Flat(q.out)
    <3>2. Kept(q).out = <<>> /\ Kept(q).buffer = q.buffer /\ Kept(q).field = q.field
          /\ b \in Seq(Fields \X Symbols)
      BY <1>2, <2>3
    <3>3. b \o Flat(<<>>) = b
      <4>1. Flat(<<>>) = <<>>
        BY <1>1, FragmentIs DEF ThinkingStates
      <4> HIDE DEF b
      <4> QED
        BY <3>2, <4>1, ConcatEmptySeq
    <3> QED
      BY <3>1, <3>2, <3>3 DEF Reads
  <2> QED
    BY <1>2, <2>1, <2>3, <2>4 DEF ThinkingInv
<1>5. CASE Finish
  <2> DEFINE u == StopFlush(stop).out
             q == ThinkingFeed(thinking, u)
             r == ThinkingEnds(q)
  <2>1. /\ phase = "streaming" /\ phase' # "streaming" /\ released' = released \o u /\ request' = request
        /\ thinking' = Kept(r) /\ split' = split \o Flat(r.out)
    BY <1>5, SplitIsFlat DEF Finish, Parse
  <2>2. u \in Texts
    BY <1>1, MarkersApart, NoneInEmpty DEF StopFlush, Apart, StopInv
  <2> HIDE DEF u
  <2>3. /\ q \in ThinkingStates /\ Hits(Markers, q.buffer) = {}
        /\ Reads(q, first, split, released \o u)
    BY <1>3, <2>1, <2>2
  <2> HIDE DEF q
  <2>4. (split \o Flat(q.out)) \o Tagged(q.field, q.buffer) = Reading(first, released \o u)
    <3> DEFINE t == released \o u
               f == request.first
    <3>1. Reads(q, f, split, t)
      BY <2>3
    <3> HIDE DEF t, f
    <3>2. (split \o Flat(q.out)) \o Tagged(q.field, q.buffer) = Reading(f, t)
      BY <1>1, <2>3, <3>1, ReadsAll
    <3> QED
      BY <3>2 DEF t, f
  <2>5. /\ r.buffer = <<>> /\ r.field = q.field /\ r.out = q.out \o Fragment(q.field, q.buffer)
        /\ r \in ThinkingStates
    <3>1. q.out \o Fragment(q.field, q.buffer) \in Seq(Fields \X Texts)
      BY <2>3, FragmentIs DEF ThinkingStates
    <3>2. <<>> \in Texts
      BY MarkersApart, NoneInEmpty DEF Apart
    <3> QED
      BY <2>3, <3>1, <3>2 DEF ThinkingEnds, ThinkingFlush, ThinkingStates
  <2>6. split \o Flat(r.out) = (split \o Flat(q.out)) \o Tagged(q.field, q.buffer)
    <3> HIDE DEF r
    <3>1. q.field \in Fields /\ q.buffer \in Texts
      BY <2>3 DEF ThinkingStates
    <3>2. split \in Seq(Fields \X Symbols)
      BY <1>1
    <3>3. split \o Flat(q.out \o Fragment(q.field, q.buffer))
            = (split \o Flat(q.out)) \o Tagged(q.field, q.buffer)
      BY <2>3, <3>1, <3>2, MoreFragments
    <3> QED
      BY <2>5, <3>3
  <2> HIDE DEF r
  <2>7. /\ Kept(r) \in ThinkingStates /\ Kept(r).out = <<>> /\ Kept(r).buffer = <<>>
        /\ split \o Flat(r.out) \in Seq(Fields \X Symbols)
    BY <1>2, <2>5
  <2> QED
    BY <2>1, <2>4, <2>6, <2>7 DEF ThinkingInv
<1>6. CASE UNCHANGED replyVars
  BY <1>6 DEF ThinkingInv, replyVars
<1> QED
  BY <1>4, <1>5, <1>6 DEF Next

\* Every symbol reaches the field that the last complete marker before it opened, in order and
\* exactly once, and no marker does, for all markers that open with "<" and have no other and every
\* way to cut the text (ThinkingStreamParser.feed, flush).
THEOREM FieldsAreThoseOfTheMarkers == Spec => []FieldsFollowTheMarkers
<1>1. ThinkingInv => FieldsFollowTheMarkers
  <2> SUFFICES ASSUME ThinkingInv PROVE FieldsFollowTheMarkers
    OBVIOUS
  <2> DEFINE S == Fields \X Symbols
             e == Tagged(thinking.field, thinking.buffer)
  <2>1. thinking \in ThinkingStates /\ thinking.out = <<>> /\ split \in Seq(S)
    BY DEF ThinkingInv
  <2>2. split \o <<>> = split
    <3> HIDE DEF S
    <3> QED
      BY <2>1, ConcatEmptySeq
  <2>3. CASE Reads(thinking, request.first, split, released) /\ Hits(Markers, thinking.buffer) = {}
    <3>1. (split \o Flat(thinking.out)) \o e = Reading(request.first, released)
      BY <2>1, <2>3, ReadsAll
    <3>2. Flat(<<>>) = <<>>
      BY <2>1, FragmentIs DEF ThinkingStates
    <3> QED
      BY <2>1, <2>2, <3>1, <3>2 DEF FieldsFollowTheMarkers
  <2>4. CASE thinking.buffer = <<>> /\ split = Reading(request.first, released)
    <3>1. e = <<>>
      BY <2>4 DEF Tagged
    <3> QED
      BY <2>2, <2>4, <3>1 DEF FieldsFollowTheMarkers
  <2> QED
    BY <2>3, <2>4 DEF ThinkingInv
<1>2. Init => StopInv /\ ThinkingInv
  BY StopInit, ThinkingInit
<1>3. StopInv /\ ThinkingInv /\ [Next]_replyVars => (StopInv /\ ThinkingInv)'
  BY StopStep, ThinkingStep
<1> QED
  BY <1>1, <1>2, <1>3, PTL DEF Spec

--------------------------------------------------------------------------------
(***************************************************************************)
(* The tool-call parser.                                                   *)
(***************************************************************************)

\* The parts of a text that holds a block: what comes before it, where it ends
\* after its first symbol, the block, and what follows it.
Before(b) == SubSeq(b, 1, Opening(b)[1] - 1)
LastAt(b) == Len(Opening(b)[2]) + Len(Closing(b)) - 1 + Earliest({Closing(b)}, Body(b))[1]
Block(b) == SubSeq(From(b, Opening(b)[1]), 1, LastAt(b))
Rest(b) == From(From(b, Opening(b)[1]), LastAt(b) + 1)

LEMMA ClosingsApart ==
  ASSUME NEW d \in Dialects
  PROVE  Apart({d[2]})
<1>1. d[2] \in Texts \ {<<>>}
  <2>1. PICK n \in 1 .. Len(DialectOrder) : d = DialectOrder[n]
    BY MarkersAreTexts, LenProperties DEF Dialects, ToSet
  <2>2. d \in Seq(Symbols) \X Seq(Symbols)
    BY <2>1, MarkersAreTexts, ElementOfSeq
  <2>3. d[2] # <<>>
    BY MarkersOpenOnce
  <2> QED
    BY <2>2, <2>3 DEF Texts
<1>2. d[2][1] = "<" /\ \A i \in 2 .. Len(d[2]) : d[2][i] # "<"
  BY MarkersOpenOnce
<1> QED
  BY <1>1, <1>2 DEF Apart, Marks

LEMMA OpeningIs ==
  ASSUME NEW b \in Texts, Hits(Openings, b) # {}
  PROVE  LET o == Opening(b)
         IN  /\ o[1] \in 1 .. Len(b) /\ o[2] \in Openings /\ o[2] \in Texts
             /\ \E d \in Dialects : d[1] = o[2] /\ d[2] = Closing(b)
             /\ Apart({Closing(b)}) /\ Closing(b) \in Texts
             /\ Before(b) \in Texts /\ Len(Before(b)) = o[1] - 1 /\ Body(b) \in Texts
             /\ Before(b) \o (o[2] \o Body(b)) = b /\ Hits(Openings, Before(b)) = {}
             /\ From(b, o[1]) = o[2] \o Body(b)
<1> DEFINE o == Opening(b)
<1>1. Openings \in Marks
  BY MarkersApart DEF Apart
<1>2. /\ o[2] \in Openings /\ o[2] \in Texts /\ Before(b) \in Texts /\ Body(b) \in Texts
      /\ Before(b) \o (o[2] \o Body(b)) = b /\ Hits(Openings, Before(b)) = {}
      /\ o[1] \in 1 .. Len(b) /\ Len(Before(b)) = o[1] - 1 /\ From(b, o[1]) = o[2] \o Body(b)
  BY <1>1, SplitAtMark DEF Opening, Before, Body
<1>3. PICK d \in Dialects : d[1] = o[2] /\ d[2] = Closing(b)
  <2>1. \E d \in Dialects : d[1] = o[2]
    BY <1>2 DEF Openings
  <2> QED
    BY <2>1 DEF Closing
<1>4. Apart({Closing(b)})
  BY <1>3, ClosingsApart
<1>5. Closing(b) \in Texts
  BY <1>4 DEF Apart, Marks
<1> QED
  BY <1>2, <1>3, <1>4, <1>5

LEMMA BlockIs ==
  ASSUME NEW b \in Texts, HoldsBlock(b)
  PROVE  LET m == Opening(b)[2]
             c == Closing(b)
             x == SubSeq(Body(b), 1, Earliest({c}, Body(b))[1] - 1)
         IN  /\ x \in Texts /\ Rest(b) \in Texts /\ m \o (x \o c) \in Texts
             /\ Body(b) = x \o (c \o Rest(b)) /\ Len(x) = Earliest({c}, Body(b))[1] - 1
             /\ Hits({c}, x) = {}
             /\ Block(b) = m \o (x \o c)
             /\ Block(b) \o Rest(b) = From(b, Opening(b)[1])
             /\ Len(Rest(b)) < Len(b)
<1> DEFINE m == Opening(b)[2]
           c == Closing(b)
           e == Earliest({c}, Body(b))
           x == SubSeq(Body(b), 1, e[1] - 1)
           r == From(Body(b), e[1] + Len(e[2]))
<1>1. Hits(Openings, b) # {} /\ Hits({c}, Body(b)) # {}
  BY DEF HoldsBlock
<1>2. /\ m \in Texts /\ c \in Texts /\ Body(b) \in Texts /\ {c} \in Marks
      /\ Before(b) \in Texts /\ Before(b) \o (m \o Body(b)) = b /\ From(b, Opening(b)[1]) = m \o Body(b)
  BY <1>1, OpeningIs DEF Apart
<1>3. /\ e[2] = c /\ x \in Texts /\ r \in Texts /\ x \o (c \o r) = Body(b)
      /\ Len(x) = e[1] - 1 /\ e[1] \in 1 .. Len(Body(b)) /\ Len(r) < Len(Body(b))
      /\ Hits({c}, x) = {}
  <2> DEFINE t == Body(b)
  <2>1. t \in Texts /\ Hits({c}, t) # {}
    BY <1>1, <1>2
  <2> HIDE DEF t, c
  <2>2. LET h == Earliest({c}, t)
        IN  /\ h[2] \in {c} /\ SubSeq(t, 1, h[1] - 1) \in Texts /\ From(t, h[1] + Len(h[2])) \in Texts
            /\ SubSeq(t, 1, h[1] - 1) \o (h[2] \o From(t, h[1] + Len(h[2]))) = t
            /\ Len(From(t, h[1] + Len(h[2]))) < Len(t)
            /\ h[1] \in 1 .. Len(t) /\ Len(SubSeq(t, 1, h[1] - 1)) = h[1] - 1
            /\ Hits({c}, SubSeq(t, 1, h[1] - 1)) = {}
    BY <1>2, <2>1, SplitAtMark
  <2> QED
    BY <2>2 DEF t
<1> DEFINE g == m \o (x \o c)
<1> HIDE DEF m, c, e, x, r
<1>4. /\ x \o c \in Texts /\ Len(x \o c) = Len(x) + Len(c)
      /\ g \in Texts /\ Len(g) = Len(m) + (Len(x) + Len(c))
      /\ c \o r \in Texts /\ Len(m \o Body(b)) = Len(m) + Len(Body(b))
      /\ m \o Body(b) \in Texts /\ Len(m) \in Nat /\ Len(Body(b)) \in Nat /\ Len(r) \in Nat
  <2>1. x \o c \in Texts /\ Len(x \o c) = Len(x) + Len(c)
    BY <1>2, <1>3, TextsConcat
  <2>2. g \in Texts /\ Len(g) = Len(m) + Len(x \o c)
    BY <1>2, <2>1, TextsConcat
  <2>3. c \o r \in Texts /\ Len(r) \in Nat
    BY <1>2, <1>3, TextsConcat
  <2>4. /\ m \o Body(b) \in Texts /\ Len(m \o Body(b)) = Len(m) + Len(Body(b))
        /\ Len(m) \in Nat /\ Len(Body(b)) \in Nat
    BY <1>2, TextsConcat
  <2> QED
    BY <2>1, <2>2, <2>3, <2>4
<1>5. m \o Body(b) = g \o r
  <2>0. x \in Texts /\ c \in Texts /\ r \in Texts /\ m \in Texts
    BY <1>2, <1>3
  <2>1. x \o (c \o r) = (x \o c) \o r
    BY ONLY <2>0, TextsAssociate, Zenon
  <2>2. m \o ((x \o c) \o r) = (m \o (x \o c)) \o r
    <3> DEFINE y == x \o c
    <3>1. y \in Texts
      BY <1>4
    <3> HIDE DEF y
    <3>2. m \o (y \o r) = (m \o y) \o r
      BY ONLY <2>0, <3>1, TextsAssociate, Zenon
    <3> QED
      BY <3>2 DEF y
  <2> QED
    BY <1>3, <2>1, <2>2
<1>6. LastAt(b) = Len(g)
  <2>1. LastAt(b) = Len(m) + Len(c) - 1 + e[1]
    BY DEF LastAt, m, c, e
  <2>2. Len(c) \in Nat /\ e[1] \in Nat
    BY <1>2, <1>3, LenProperties DEF Texts
  <2> HIDE DEF g
  <2> QED
    BY <1>3, <1>4, <2>1, <2>2
<1>7. Block(b) = g /\ Rest(b) = r
  <2>1. SubSeq(g \o r, 1, Len(g)) = g /\ From(g \o r, Len(g) + 1) = r
    <3> HIDE DEF g
    <3> QED
      BY <1>3, <1>4, BeginningOfConcat
  <2> HIDE DEF g
  <2> QED
    BY <1>2, <1>5, <1>6, <2>1 DEF Block, Rest
<1>8. Len(r) < Len(b)
  <2>1. Len(b) = Len(Before(b)) + Len(m \o Body(b)) /\ Len(Before(b)) \in Nat
    BY <1>2, <1>4, TextsConcat
  <2> QED
    BY <1>3, <1>4, <2>1
<1> QED
  BY <1>2, <1>3, <1>4, <1>5, <1>7, <1>8 DEF m, c, e, x

\* The states of the tool parser, and when its loop is over.
Kinds == {"content", "tool_call"}
ToolStates == [buffer : Texts, failed : BOOLEAN, out : Seq(Kinds \X Symbols)]
Done(p) == p.failed \/ ~HoldsBlock(p.buffer)

LEMMA ParsedIs ==
  ASSUME NEW t \in Texts
  PROVE  Parsed(t).visible \in Texts /\ Parsed(t).calls \in Texts /\ Parsed(t).failed \in BOOLEAN
<1> DEFINE found == {n \in DOMAIN DialectOrder : Blocks(DialectOrder[n], t) # {}}
           dialect == DialectOrder[Min(found)]
           visible == Outside(Blocks(dialect, t), t)
           calls == Bodies(dialect, Blocks(dialect, t), t)
<1>1. visible \in Texts /\ calls \in Texts
  BY PickedType DEF Outside, Bodies, Texts
<1>2. <<>> \in Texts
  BY EmptySeq DEF Texts
<1>3. Parsed(t) = IF found # {}
                  THEN [visible |-> visible, calls |-> calls,
                        failed |-> \E i \in DOMAIN calls : calls[i] \in Undeclared]
                  ELSE IF t = <<JsonCall>>
                  THEN [visible |-> <<>>, calls |-> t, failed |-> FALSE]
                  ELSE [visible |-> t, calls |-> <<>>, failed |-> FALSE]
  BY DEF Parsed
<1> HIDE DEF found, visible, calls
<1> QED
  BY <1>1, <1>2, <1>3

\* A turn takes the first block out, or raises.
LEMMA ToolTurnIs ==
  ASSUME NEW p \in ToolStates
  PROVE  /\ ToolTurn(p) \in ToolStates
         /\ Done(p) => ToolTurn(p) = p
         /\ ~Done(p) => /\ ToolTurn(p).failed = Parsed(Block(p.buffer)).failed
                        /\ ~ToolTurn(p).failed =>
                             /\ ToolTurn(p).buffer = Rest(p.buffer)
                             /\ ToolTurn(p).out = (p.out \o Tagged("content", Before(p.buffer)))
                                                    \o Tagged("tool_call", Parsed(Block(p.buffer)).calls)
                             /\ Len(ToolTurn(p).buffer) < Len(p.buffer)
                        /\ Len(p.buffer) > 0
<1> DEFINE b == p.buffer
           calls == Parsed(Block(b)).calls
           out == (p.out \o Tagged("content", Before(b))) \o Tagged("tool_call", calls)
<1>1. p.buffer \in Texts /\ p.failed \in BOOLEAN /\ p.out \in Seq(Kinds \X Symbols)
  BY DEF ToolStates
<1>2. CASE Done(p)
  BY <1>2 DEF Done, ToolTurn
<1>3. CASE ~Done(p)
  <2>1. /\ Before(b) \in Texts /\ Rest(b) \in Texts /\ Block(b) \in Texts /\ Len(Rest(b)) < Len(b)
        /\ HoldsBlock(b)
    BY <1>1, <1>3, OpeningIs, BlockIs DEF Done, HoldsBlock
  <2>2. calls \in Texts /\ Parsed(Block(b)).failed \in BOOLEAN
    BY <2>1, ParsedIs
  <2>3. ToolTurn(p) = IF Parsed(Block(b)).failed THEN [p EXCEPT !.failed = TRUE]
                      ELSE [p EXCEPT !.buffer = Rest(b), !.out = out]
    BY <1>3 DEF Done, ToolTurn, Before, LastAt, Block, Rest, RestAfter
  <2> HIDE DEF calls
  <2>4. out \in Seq(Kinds \X Symbols)
    <3> DEFINE S == Kinds \X Symbols
               x == Tagged("content", Before(b))
               y == Tagged("tool_call", calls)
    <3>1. x \in Seq(S) /\ y \in Seq(S)
      BY <2>1, <2>2, TaggedIs DEF Kinds
    <3>2. p.out \in Seq(S)
      BY <1>1
    <3> HIDE DEF S, x, y
    <3>3. p.out \o x \in Seq(S)
      BY <3>1, <3>2, ConcatIs
    <3>4. (p.out \o x) \o y \in Seq(S)
      BY <3>1, <3>3, ConcatIs
    <3> QED
      BY <3>4 DEF S, x, y
  <2> HIDE DEF out
  <2>5. Len(p.buffer) > 0
    BY <1>1, <2>1, LenProperties DEF Texts
  <2>6. CASE Parsed(Block(b)).failed
    <3>1. ToolTurn(p) = [p EXCEPT !.failed = TRUE]
      BY <2>3, <2>6
    <3> QED
      BY <1>3, <2>2, <2>5, <2>6, <3>1 DEF ToolStates
  <2>7. CASE ~Parsed(Block(b)).failed
    <3>1. ToolTurn(p) = [p EXCEPT !.buffer = Rest(b), !.out = out]
      BY <2>3, <2>7
    <3>2. /\ ToolTurn(p) \in ToolStates /\ ToolTurn(p).failed = FALSE
          /\ ToolTurn(p).buffer = Rest(b) /\ ToolTurn(p).out = out
      BY <1>1, <1>3, <2>1, <2>4, <3>1 DEF ToolStates, Done
    <3> QED
      BY <1>3, <2>1, <2>2, <2>5, <2>7, <3>2 DEF out, calls
  <2> QED
    BY <2>6, <2>7
<1> QED
  BY <1>2, <1>3

\* The states that the turns of the loop of p go through.
Turns(f, p) ==
  /\ f \in [0 .. Len(p.buffer) -> ToolStates]
  /\ f[0] = p
  /\ \A n \in 1 .. Len(p.buffer) : f[n] = ToolTurn(f[n - 1])
  /\ ToolLoop(p) = WithholdRest(f[Len(p.buffer)])

LEMMA TurnsAre ==
  ASSUME NEW p \in ToolStates
  PROVE  \E f : Turns(f, p)
<1> DEFINE L == Len(p.buffer)
           step == [n \in Nat |-> [s \in ToolStates |-> ToolTurn(s)]]
<1>1. L \in Nat
  BY LenProperties DEF ToolStates, Texts
<1>2. step \in [Nat -> [ToolStates -> ToolStates]]
  BY ToolTurnIs
<1>3. PICK f : Loops(f, L, ToolStates, p, step)
  <2> HIDE DEF step, L
  <2> QED
    BY <1>1, <1>2, LoopExists
<1>4. f = [n \in 0 .. L |-> IF n = 0 THEN p ELSE ToolTurn(f[n - 1])]
  <2>1. ASSUME NEW n \in 0 .. L, n # 0
        PROVE  step[n - 1][f[n - 1]] = ToolTurn(f[n - 1])
    <3>1. n - 1 \in 0 .. L /\ n - 1 \in Nat
      BY <1>1, <2>1
    <3>2. f[n - 1] \in ToolStates
      <4> HIDE DEF step, L
      <4> QED
        BY <1>3, <3>1 DEF Loops
    <3> QED
      BY <3>1, <3>2
  <2> HIDE DEF step, L
  <2> QED
    BY <1>3, <2>1 DEF Loops
<1> DEFINE after[n \in 0 .. Len(p.buffer)] == IF n = 0 THEN p ELSE ToolTurn(after[n - 1])
<1>5. after = [n \in 0 .. Len(p.buffer) |-> IF n = 0 THEN p ELSE ToolTurn(after[n - 1])]
  BY <1>4, Zenon
<1>6. ToolLoop(p) = WithholdRest(after[L])
  BY DEF ToolLoop
<1> HIDE DEF after, step
<1> DEFINE T == {n \in 0 .. L : after[n] \in ToolStates}
<1>7. 0 .. L \subseteq T
  <2>1. 0 \in T
    BY <1>1, <1>5
  <2>2. ASSUME NEW n \in 0 .. L - 1, n \in T
        PROVE  n + 1 \in T
    <3>1. n + 1 \in 0 .. L /\ n + 1 # 0 /\ (n + 1) - 1 = n
      BY <1>1
    <3>2. after[n + 1] = ToolTurn(after[n])
      BY <1>5, <3>1
    <3>3. after[n + 1] \in ToolStates
      BY <2>2, <3>2, ToolTurnIs
    <3> QED
      BY <3>1, <3>3
  <2> HIDE DEF T, L
  <2> QED
    BY <1>1, <2>1, <2>2, InductionUpTo
<1>8. after \in [0 .. L -> ToolStates]
  BY <1>5, <1>7
<1>9. after[0] = p /\ \A n \in 1 .. L : after[n] = ToolTurn(after[n - 1])
  BY <1>1, <1>5
<1> QED
  BY <1>6, <1>8, <1>9 DEF Turns

\* Once the loop is over, the turns that are left change nothing.
LEMMA TurnsStay ==
  ASSUME NEW p \in ToolStates, NEW f, Turns(f, p), NEW k \in 0 .. Len(p.buffer), Done(f[k])
  PROVE  ToolLoop(p) = WithholdRest(f[k])
<1> DEFINE L == Len(p.buffer)
           T == {n \in 0 .. L - k : f[k + n] = f[k]}
<1>1. L \in Nat /\ L - k \in Nat /\ k \in Nat
  BY LenProperties DEF ToolStates, Texts
<1>2. 0 .. L - k \subseteq T
  <2>1. 0 \in T
    BY <1>1
  <2>2. ASSUME NEW n \in 0 .. (L - k) - 1, n \in T
        PROVE  n + 1 \in T
    <3>1. /\ k + (n + 1) \in 1 .. L /\ (k + (n + 1)) - 1 = k + n /\ n + 1 \in 0 .. L - k
          /\ k \in 0 .. L
      BY <1>1
    <3>2. f[k + (n + 1)] = ToolTurn(f[k])
      BY <2>2, <3>1 DEF Turns
    <3>3. f[k + (n + 1)] = f[k]
      BY <3>1, <3>2, ToolTurnIs DEF Turns
    <3> QED
      BY <3>1, <3>3
  <2> DEFINE K == L - k
  <2>3. K \in Nat /\ \A n \in 0 .. K - 1 : n \in T => n + 1 \in T
    BY <1>1, <2>2
  <2> HIDE DEF T, K
  <2>4. 0 .. K \subseteq T
    BY <2>1, <2>3, InductionUpTo
  <2> QED
    BY <2>4 DEF K
<1>3. f[L] = f[k]
  <2> DEFINE K == L - k
  <2>1. K \in 0 .. K /\ k + K = L /\ 0 .. K \subseteq T
    BY <1>1, <1>2
  <2> HIDE DEF K
  <2>2. f[k + K] = f[k]
    BY <2>1
  <2> QED
    BY <2>1, <2>2
<1> QED
  BY <1>3 DEF Turns

\* The turns suffice: the loop is over when they are.
LEMMA TurnsEnd ==
  ASSUME NEW p \in ToolStates, NEW f, Turns(f, p)
  PROVE  Done(f[Len(p.buffer)])
<1> DEFINE L == Len(p.buffer)
           T == {n \in 0 .. L : Done(f[n]) \/ Len(f[n].buffer) <= L - n}
<1>1. L \in Nat
  BY LenProperties DEF ToolStates, Texts
<1>2. 0 .. L \subseteq T
  <2>1. 0 \in T
    BY <1>1 DEF Turns
  <2>2. ASSUME NEW n \in 0 .. L - 1, n \in T
        PROVE  n + 1 \in T
    <3>1. n + 1 \in 1 .. L /\ n + 1 \in 0 .. L /\ (n + 1) - 1 = n /\ n \in 0 .. L
      BY <1>1
    <3>2. f[n + 1] = ToolTurn(f[n]) /\ f[n] \in ToolStates /\ f[n + 1] \in ToolStates
      BY <3>1 DEF Turns
    <3>3. CASE Done(f[n])
      <4>1. f[n + 1] = f[n]
        BY <3>2, <3>3, ToolTurnIs
      <4> QED
        BY <3>1, <3>3, <4>1
    <3>4. CASE ~Done(f[n])
      <4>1. f[n + 1].failed \/ Len(f[n + 1].buffer) < Len(f[n].buffer)
        BY <3>2, <3>4, ToolTurnIs
      <4>2. Len(f[n + 1].buffer) \in Nat /\ Len(f[n].buffer) \in Nat
        BY <3>2, LenProperties DEF ToolStates, Texts
      <4>3. Len(f[n].buffer) <= L - n
        BY <2>2, <3>4
      <4>4. Done(f[n + 1]) \/ Len(f[n + 1].buffer) <= L - (n + 1)
        BY <1>1, <4>1, <4>2, <4>3 DEF Done
      <4> QED
        BY <3>1, <4>4
    <3> QED
      BY <3>3, <3>4
  <2> HIDE DEF T, L
  <2> QED
    BY <1>1, <2>1, <2>2, InductionUpTo
<1>3. Done(f[L]) \/ Len(f[L].buffer) <= 0
  BY <1>1, <1>2
<1>4. f[L] \in ToolStates
  BY <1>1 DEF Turns
<1>5. ASSUME NEW s \in ToolStates, ~Done(s)
      PROVE  Len(s.buffer) > 0
  BY <1>5, ToolTurnIs
<1>6. Len(f[L].buffer) \in Nat
  BY <1>4, LenProperties DEF ToolStates, Texts
<1> QED
  BY <1>3, <1>4, <1>5, <1>6

\* The loop, turn by turn.
LEMMA ToolLoopUnfolds ==
  ASSUME NEW p \in ToolStates
  PROVE  /\ Done(p) => ToolLoop(p) = WithholdRest(p)
         /\ ~Done(p) => ToolLoop(p) = ToolLoop(ToolTurn(p))
<1>1. ASSUME NEW s \in ToolStates
      PROVE  Done(s) => ToolLoop(s) = WithholdRest(s)
  <2>1. PICK f : Turns(f, s)
    BY TurnsAre
  <2>2. 0 \in 0 .. Len(s.buffer) /\ f[0] = s
    BY <2>1, LenProperties DEF Turns, ToolStates, Texts
  <2> QED
    BY <2>1, <2>2, TurnsStay
<1>2. ASSUME ~Done(p)
      PROVE  ToolLoop(p) = ToolLoop(ToolTurn(p))
  <2> DEFINE L == Len(p.buffer)
             q == ToolTurn(p)
             K == Len(q.buffer)
  <2>1. q \in ToolStates /\ L \in Nat /\ K \in Nat /\ L > 0 /\ (q.failed \/ K < L)
    BY <1>2, ToolTurnIs, LenProperties DEF ToolStates, Texts
  <2>2. PICK f : Turns(f, p)
    BY TurnsAre
  <2>3. f[1] = q
    <3>1. 1 \in 1 .. L /\ 1 - 1 = 0
      BY <2>1
    <3> QED
      BY <2>2, <3>1 DEF Turns
  <2>4. CASE q.failed
    <3>1. 1 \in 0 .. L /\ Done(f[1])
      BY <2>1, <2>3, <2>4 DEF Done
    <3>2. ToolLoop(p) = WithholdRest(q)
      BY <2>2, <2>3, <3>1, TurnsStay
    <3> QED
      BY <1>1, <2>1, <2>3, <3>1, <3>2
  <2>5. CASE K < L
    <3>1. PICK g : Turns(g, q)
      BY <2>1, TurnsAre
    <3> HIDE DEF q
    <3> DEFINE T == {n \in 0 .. K : f[n + 1] = g[n]}
    <3>2. 0 .. K \subseteq T
      <4>1. 0 \in T
        BY <2>1, <2>3, <3>1 DEF Turns
      <4>2. ASSUME NEW n \in 0 .. K - 1, n \in T
            PROVE  n + 1 \in T
        <5>1. /\ n + 1 \in 1 .. K /\ (n + 1) - 1 = n /\ (n + 1) + 1 \in 1 .. L
              /\ ((n + 1) + 1) - 1 = n + 1 /\ n + 1 \in 0 .. K
          BY <2>1, <2>5
        <5>2. g[n + 1] = ToolTurn(g[n])
          BY <3>1, <5>1 DEF Turns
        <5>3. f[(n + 1) + 1] = ToolTurn(f[n + 1])
          BY <2>2, <5>1 DEF Turns
        <5> QED
          BY <4>2, <5>1, <5>2, <5>3
      <4> HIDE DEF T, K
      <4> QED
        BY <2>1, <4>1, <4>2, InductionUpTo
    <3>3. f[K + 1] = g[K] /\ K + 1 \in 0 .. L
      BY <2>1, <2>5, <3>2
    <3>4. Done(g[K])
      BY <2>1, <3>1, TurnsEnd
    <3>5. ToolLoop(p) = WithholdRest(g[K])
      BY <2>2, <3>3, <3>4, TurnsStay
    <3>6. ToolLoop(q) = WithholdRest(g[K])
      BY <3>1 DEF Turns
    <3> QED
      BY <3>5, <3>6 DEF q
  <2> QED
    BY <2>1, <2>4, <2>5
<1> QED
  BY <1>1, <1>2

\* What the tool parser may withhold.
Withheld(b) ==
  \/ b = Held(Openings, b)
  \/ \E d \in Dialects : IsPrefix(d[1], b) /\ Hits({d[2]}, From(b, Len(d[1]) + 1)) = {}

\* What follows the beginning of a text.
LEMMA FromFrom ==
  ASSUME NEW t \in Texts, NEW i \in 1 .. Len(t) + 1, NEW j \in 1 .. (Len(t) + 1 - i) + 1
  PROVE  From(From(t, i), j) = From(t, i + j - 1)
<1>1. Len(t) \in Nat
  BY LenProperties DEF Texts
<1> DEFINE s == From(t, i)
           k == i + j - 1
<1>2. s \in Texts /\ Len(s) = Len(t) + 1 - i /\ \A n \in 1 .. Len(t) + 1 - i : s[n] = t[i + n - 1]
  BY FromIs
<1>3. k \in 1 .. Len(t) + 1 /\ j \in 1 .. Len(s) + 1
  BY <1>1, <1>2
<1> HIDE DEF s, k
<1>4. /\ From(t, k) \in Texts /\ Len(From(t, k)) = Len(t) + 1 - k
      /\ \A n \in 1 .. Len(t) + 1 - k : From(t, k)[n] = t[k + n - 1]
  BY <1>3, FromIs
<1>5. /\ From(s, j) \in Texts /\ Len(From(s, j)) = Len(s) + 1 - j
      /\ \A n \in 1 .. Len(s) + 1 - j : From(s, j)[n] = s[j + n - 1]
  BY <1>2, <1>3, FromIs
<1>6. Len(From(s, j)) = Len(From(t, k))
  BY <1>1, <1>2, <1>4, <1>5 DEF k
<1>7. ASSUME NEW n \in 1 .. Len(From(s, j))
      PROVE  From(s, j)[n] = From(t, k)[n]
  <2>1. /\ n \in 1 .. Len(s) + 1 - j /\ n \in 1 .. Len(t) + 1 - k
        /\ j + n - 1 \in 1 .. Len(t) + 1 - i /\ i + (j + n - 1) - 1 = k + n - 1
    BY <1>1, <1>2, <1>4, <1>5, <1>6 DEF k
  <2> QED
    BY <1>2, <1>4, <1>5, <2>1
<1> QED
  BY <1>4, <1>5, <1>6, <1>7, SeqEqual DEF Texts, s, k

LEMMA WithholdRestIs ==
  ASSUME NEW p \in ToolStates, Done(p)
  PROVE  LET q == WithholdRest(p)
         IN  q \in ToolStates /\ q.failed = p.failed /\ (~q.failed => Withheld(q.buffer))
<1> DEFINE b == p.buffer
           rest == IF Hits(Openings, b) # {} THEN From(b, Opening(b)[1]) ELSE Held(Openings, b)
           out == p.out \o Tagged("content", Without(b, rest))
<1>1. p.failed \in BOOLEAN /\ b \in Texts /\ p.out \in Seq(Kinds \X Symbols) /\ Openings \in Marks
  BY MarkersApart DEF ToolStates, Apart
<1>2. CASE p.failed
  BY <1>2 DEF WithholdRest
<1>3. CASE ~p.failed
  <2>1. rest \in Texts /\ Len(rest) <= Len(b) /\ Withheld(rest)
    <3>1. CASE Hits(Openings, b) = {}
      <4> HIDE DEF b
      <4> QED
        BY <1>1, <3>1, HeldIs, HeldAgain DEF Withheld
    <3>2. CASE Hits(Openings, b) # {}
      <4> DEFINE i == Opening(b)[1]
                 m == Opening(b)[2]
      <4>1. /\ i \in 1 .. Len(b) /\ m \in Texts /\ Body(b) \in Texts
            /\ From(b, i) = m \o Body(b) /\ \E d \in Dialects : d[1] = m /\ d[2] = Closing(b)
        BY <1>1, <3>2, OpeningIs
      <4>2. PICK d \in Dialects : d[1] = m /\ d[2] = Closing(b)
        BY <4>1
      <4>3. Hits({d[2]}, Body(b)) = {}
        BY <1>3, <3>2, <4>2 DEF Done, HoldsBlock
      <4>4. rest = From(b, i)
        BY <3>2
      <4> HIDE DEF b, i, m, rest
      <4>5. From(b, i) \in Texts /\ Len(From(b, i)) <= Len(b)
        <5>1. Len(b) \in Nat
          BY <1>1, LenProperties DEF Texts
        <5>2. i \in 1 .. Len(b) + 1
          BY <4>1, <5>1
        <5>3. From(b, i) \in Texts /\ Len(From(b, i)) = Len(b) + 1 - i
          BY <1>1, <5>2, FromIs
        <5> QED
          BY <4>1, <5>1, <5>3
      <4>6. From(rest, Len(m) + 1) = Body(b) /\ SubSeq(rest, 1, Len(m)) = m
        BY <4>1, <4>4, BeginningOfConcat
      <4>7. IsPrefix(m, rest)
        <5>1. Len(m) <= Len(rest)
          BY <4>1, <4>4, TextsConcat
        <5>2. m = [n \in DOMAIN m |-> rest[n]]
          <6>1. /\ \A n \in 1 .. Len(m) : (m \o Body(b))[n] = m[n]
                /\ m \in Seq(Symbols) /\ DOMAIN m = 1 .. Len(m)
            BY <4>1, TextsConcat, LenProperties DEF Texts
          <6>2. m = [n \in 1 .. Len(m) |-> m[n]]
            BY <6>1
          <6> QED
            BY <4>1, <4>4, <6>1, <6>2
        <5> QED
          BY <4>6, <5>1, <5>2 DEF IsPrefix
      <4> QED
        BY <4>2, <4>3, <4>4, <4>5, <4>6, <4>7 DEF Withheld
    <3> QED
      BY <3>1, <3>2
  <2> HIDE DEF rest
  <2>2. Without(b, rest) \in Texts
    <3>1. Len(rest) \in Nat /\ Len(b) \in Nat
      BY <1>1, <2>1, LenProperties DEF Texts
    <3>2. Len(b) - Len(rest) \in 0 .. Len(b)
      BY <2>1, <3>1
    <3> QED
      BY <1>1, <3>2, BeginningIs DEF Without
  <2>3. out \in Seq(Kinds \X Symbols)
    <3> DEFINE S == Kinds \X Symbols
               x == Tagged("content", Without(b, rest))
    <3>1. x \in Seq(S) /\ p.out \in Seq(S)
      BY <1>1, <2>2, TaggedIs DEF Kinds
    <3> HIDE DEF S, x
    <3>2. p.out \o x \in Seq(S)
      BY <3>1, ConcatIs
    <3> QED
      BY <3>2 DEF S, x
  <2>4. WithholdRest(p) = [p EXCEPT !.buffer = rest, !.out = out]
    BY <1>3 DEF WithholdRest, rest
  <2> HIDE DEF out, b
  <2> QED
    BY <1>1, <2>1, <2>3, <2>4 DEF ToolStates
<1> QED
  BY <1>1, <1>2, <1>3

LEMMA ToolFeedIs ==
  ASSUME NEW p \in ToolStates, NEW u \in Texts
  PROVE  ToolFeed(p, u) \in ToolStates
         /\ (~ToolFeed(p, u).failed => Withheld(ToolFeed(p, u).buffer))
<1> DEFINE s == [p EXCEPT !.buffer = @ \o u, !.out = <<>>]
           q == ToolLoop(s)
<1>1. s \in ToolStates
  <2>1. p.buffer \o u \in Texts /\ p.failed \in BOOLEAN
    BY TextsConcat DEF ToolStates
  <2>2. <<>> \in Seq(Kinds \X Symbols)
    BY EmptySeq
  <2> QED
    BY <2>1, <2>2 DEF ToolStates
<1> HIDE DEF s
<1>2. PICK f : Turns(f, s)
  BY <1>1, TurnsAre
<1> DEFINE r == f[Len(s.buffer)]
<1>3. Len(s.buffer) \in Nat /\ r \in ToolStates /\ Done(r)
  <2>1. Len(s.buffer) \in Nat
    BY <1>1, LenProperties DEF ToolStates, Texts
  <2> QED
    BY <1>1, <1>2, <2>1, TurnsEnd DEF Turns
<1>4. q = WithholdRest(r)
  BY <1>2 DEF Turns
<1> HIDE DEF r
<1>5. q \in ToolStates /\ (~q.failed => Withheld(q.buffer))
  BY <1>3, <1>4, WithholdRestIs
<1>6. ToolFeed(p, u) = IF q.failed THEN [q EXCEPT !.out = <<>>] ELSE q
  BY DEF ToolFeed, s
<1> HIDE DEF q
<1>7. <<>> \in Seq(Kinds \X Symbols)
  BY EmptySeq
<1> QED
  BY <1>5, <1>6, <1>7 DEF ToolStates

\* The states that the tool parser goes through, fragment by fragment.
Through(g, p, fragments) ==
  /\ g \in [0 .. Len(fragments) -> ToolStates]
  /\ g[0] = p
  /\ \A n \in 1 .. Len(fragments) : g[n] = OneThroughTools(g[n - 1], fragments[n])
  /\ ThroughTools(p, fragments) = g[Len(fragments)]

LEMMA OneThroughToolsIs ==
  ASSUME NEW p \in ToolStates, NEW fragment \in Fields \X Texts
  PROVE  LET q == OneThroughTools(p, fragment)
         IN  q \in ToolStates /\ ((~p.failed => Withheld(p.buffer)) => (~q.failed => Withheld(q.buffer)))
<1>1. CASE p.failed \/ fragment[1] # "content"
  BY <1>1 DEF OneThroughTools
<1>2. CASE ~(p.failed \/ fragment[1] # "content")
  <2> DEFINE next == ToolFeed(p, fragment[2])
  <2>1. OneThroughTools(p, fragment) = [next EXCEPT !.out = p.out \o next.out]
    BY <1>2 DEF OneThroughTools
  <2>2. next \in ToolStates /\ (~next.failed => Withheld(next.buffer))
    BY ToolFeedIs
  <2> HIDE DEF next
  <2>3. p.out \o next.out \in Seq(Kinds \X Symbols)
    BY <2>2, ConcatIs DEF ToolStates
  <2> QED
    BY <2>1, <2>2, <2>3 DEF ToolStates
<1> QED
  BY <1>1, <1>2

LEMMA ThroughToolsAre ==
  ASSUME NEW p \in ToolStates, NEW fragments \in Seq(Fields \X Texts)
  PROVE  \E g : Through(g, p, fragments)
<1> DEFINE L == Len(fragments)
           step == [n \in Nat |-> [s \in ToolStates |->
                      IF n + 1 \in 1 .. L THEN OneThroughTools(s, fragments[n + 1]) ELSE s]]
<1>1. L \in Nat /\ \A n \in 1 .. L : fragments[n] \in Fields \X Texts
  BY ElementOfSeq, LenProperties
<1>2. step \in [Nat -> [ToolStates -> ToolStates]]
  <2>1. ASSUME NEW n \in 1 .. L, NEW s \in ToolStates
        PROVE  OneThroughTools(s, fragments[n]) \in ToolStates
    BY <1>1, OneThroughToolsIs
  <2> HIDE DEF L
  <2> QED
    BY <2>1
<1>3. PICK f : Loops(f, L, ToolStates, p, step)
  <2> HIDE DEF step, L
  <2> QED
    BY <1>1, <1>2, LoopExists
<1>4. f = [n \in 0 .. L |-> IF n = 0 THEN p ELSE OneThroughTools(f[n - 1], fragments[n])]
  <2>1. ASSUME NEW n \in 0 .. L, n # 0
        PROVE  step[n - 1][f[n - 1]] = OneThroughTools(f[n - 1], fragments[n])
    <3>1. n - 1 \in 0 .. L /\ n - 1 \in Nat /\ (n - 1) + 1 = n /\ n \in 1 .. L
      BY <1>1, <2>1
    <3>2. f[n - 1] \in ToolStates
      <4> HIDE DEF step, L
      <4> QED
        BY <1>3, <3>1 DEF Loops
    <3> HIDE DEF L
    <3> QED
      BY <3>1, <3>2
  <2> HIDE DEF step, L
  <2> QED
    BY <1>3, <2>1 DEF Loops
<1> DEFINE after[n \in 0 .. Len(fragments)] ==
             IF n = 0 THEN p ELSE OneThroughTools(after[n - 1], fragments[n])
<1>5. after = [n \in 0 .. Len(fragments) |->
                 IF n = 0 THEN p ELSE OneThroughTools(after[n - 1], fragments[n])]
  BY <1>4, Zenon
<1>6. ThroughTools(p, fragments) = after[L]
  BY DEF ThroughTools
<1> HIDE DEF after, step
<1> DEFINE T == {n \in 0 .. L : after[n] \in ToolStates}
<1>7. 0 .. L \subseteq T
  <2>1. 0 \in T
    BY <1>1, <1>5
  <2>2. ASSUME NEW n \in 0 .. L - 1, n \in T
        PROVE  n + 1 \in T
    <3>1. n + 1 \in 0 .. L /\ n + 1 # 0 /\ (n + 1) - 1 = n /\ n + 1 \in 1 .. L
      BY <1>1
    <3>2. after[n + 1] = OneThroughTools(after[n], fragments[n + 1])
      BY <1>5, <3>1
    <3>3. after[n + 1] \in ToolStates
      BY <1>1, <2>2, <3>1, <3>2, OneThroughToolsIs
    <3> QED
      BY <3>1, <3>3
  <2> HIDE DEF T, L
  <2> QED
    BY <1>1, <2>1, <2>2, InductionUpTo
<1>8. after \in [0 .. L -> ToolStates]
  BY <1>5, <1>7
<1>9. after[0] = p /\ \A n \in 1 .. L : after[n] = OneThroughTools(after[n - 1], fragments[n])
  <2>1. 0 \in 0 .. L /\ \A n \in 1 .. L : n \in 0 .. L /\ n # 0
    BY <1>1
  <2> HIDE DEF L
  <2>2. after[0] = p
    BY <1>5, <2>1 DEF L
  <2>3. ASSUME NEW n \in 1 .. L
        PROVE  after[n] = OneThroughTools(after[n - 1], fragments[n])
    <3>1. n \in 0 .. Len(fragments) /\ n # 0
      BY <2>1 DEF L
    <3> QED
      BY <1>5, <3>1
  <2> QED
    BY <2>2, <2>3
<1> QED
  BY <1>6, <1>8, <1>9 DEF Through

LEMMA ThroughToolsIs ==
  ASSUME NEW p \in ToolStates, NEW fragments \in Seq(Fields \X Texts), ~p.failed => Withheld(p.buffer)
  PROVE  LET q == ThroughTools(p, fragments)
         IN  q \in ToolStates /\ (~q.failed => Withheld(q.buffer))
<1> DEFINE L == Len(fragments)
<1>1. L \in Nat /\ \A n \in 1 .. L : fragments[n] \in Fields \X Texts
  BY ElementOfSeq, LenProperties
<1>2. PICK g : Through(g, p, fragments)
  BY ThroughToolsAre
<1> DEFINE T == {n \in 0 .. L : ~g[n].failed => Withheld(g[n].buffer)}
<1>3. 0 .. L \subseteq T
  <2>1. 0 \in T
    BY <1>1, <1>2 DEF Through
  <2>2. ASSUME NEW n \in 0 .. L - 1, n \in T
        PROVE  n + 1 \in T
    <3>1. n + 1 \in 1 .. L /\ (n + 1) - 1 = n /\ n \in 0 .. L /\ n + 1 \in 0 .. L
      BY <1>1
    <3>2. g[n + 1] = OneThroughTools(g[n], fragments[n + 1]) /\ g[n] \in ToolStates
      BY <1>2, <3>1 DEF Through
    <3> QED
      BY <1>1, <2>2, <3>1, <3>2, OneThroughToolsIs
  <2> HIDE DEF T, L
  <2> QED
    BY <1>1, <2>1, <2>2, InductionUpTo
<1>4. L \in 0 .. L
  BY <1>1
<1> QED
  BY <1>2, <1>3, <1>4 DEF Through

\* While the reply streams, the tool parser has not raised and withholds what it may.
ToolsInv ==
  phase = "streaming" => /\ tools \in ToolStates /\ tools.out = <<>> /\ ~tools.failed
                         /\ Withheld(tools.buffer)

LEMMA ToolsInit == Init => ToolsInv
<1> SUFFICES ASSUME Init PROVE ToolsInv
  OBVIOUS
<1>1. <<>> \in Texts /\ <<>> \in Seq(Kinds \X Symbols) /\ Held(Openings, <<>>) = <<>>
  BY MarkersApart, NoneInEmpty, EmptySeq DEF Apart
<1> QED
  BY <1>1 DEF Init, ToolsInv, ToolStates, Withheld

LEMMA ToolsStep == StopInv /\ ThinkingInv /\ ToolsInv /\ [Next]_replyVars => ToolsInv'
<1> SUFFICES ASSUME StopInv, ThinkingInv, ToolsInv, [Next]_replyVars PROVE ToolsInv'
  OBVIOUS
<1>1. ASSUME NEW piece \in Vocabularies[request.vocabulary].pieces, Respond(piece)
      PROVE  ToolsInv'
  <2> DEFINE u == StopFeed(request.stops, stop, piece).out
             q == ThinkingFeed(thinking, u)
             r == ThroughTools(tools, q.out)
  <2>1. /\ phase = "streaming" /\ tools' = Kept(r)
        /\ phase' = IF tools'.failed THEN "failed" ELSE "streaming"
    BY <1>1 DEF Respond, Parse
  <2>2. u \in Texts
    <3>1. /\ Settled(request.stops, released, stop.buffer) /\ Hits(request.stops, released) = {}
          /\ request.stops \in Marks /\ piece \in Texts /\ released \in Texts /\ stop.buffer \in Texts
      BY <1>1, <2>1, StopsOfRequests DEF StopInv, Respond
    <3> QED
      BY <3>1, StopFeedIs
  <2> HIDE DEF u
  <2>3. q \in ThinkingStates
    <3>1. /\ Reads(thinking, request.first, split, released) /\ thinking \in ThinkingStates
          /\ thinking.out = <<>> /\ split \in Seq(Fields \X Symbols) /\ released \in Texts
      BY <2>1 DEF ThinkingInv, StopInv
    <3> QED
      BY <2>2, <3>1, ThinkingFeedIs
  <2>4. q.out \in Seq(Fields \X Texts)
    BY <2>3 DEF ThinkingStates
  <2> HIDE DEF q
  <2>5. r \in ToolStates /\ (~r.failed => Withheld(r.buffer))
    BY <2>1, <2>4, ThroughToolsIs DEF ToolsInv
  <2> HIDE DEF r
  <2>6. /\ Kept(r) \in ToolStates /\ Kept(r).out = <<>> /\ Kept(r).failed = r.failed
        /\ Kept(r).buffer = r.buffer
    <3>1. <<>> \in Seq(Kinds \X Symbols)
      BY EmptySeq
    <3> QED
      BY <2>5, <3>1 DEF Kept, ToolStates
  <2> QED
    BY <2>1, <2>5, <2>6 DEF ToolsInv
<1>2. CASE Finish
  BY <1>2 DEF Finish, ToolsInv
<1>3. CASE UNCHANGED replyVars
  BY <1>3 DEF ToolsInv, replyVars
<1> QED
  BY <1>1, <1>2, <1>3 DEF Next

\* Between two responses a parser withholds text only while it may begin a stop sequence, a marker
\* or a call, and the tool parser also until the call it has begun is closed, for all texts and
\* markers (_longest_marker_prefix and its three callers).
THEOREM OnlyBeginningsStay == Spec => []OnlyBeginningsAreHeld
<1>1. StopInv /\ ThinkingInv /\ ToolsInv => OnlyBeginningsAreHeld
  <2> SUFFICES ASSUME StopInv, ThinkingInv, ToolsInv, phase = "streaming"
               PROVE  OnlyBeginningsAreHeld
    BY DEF OnlyBeginningsAreHeld
  <2>1. stop.buffer = Held(request.stops, stop.buffer)
    <3>1. CASE stop.stopped
      <4>1. Held(request.stops, <<>>) = <<>>
        BY StopsOfRequests, NoneInEmpty DEF StopInv
      <4> QED
        BY <3>1, <4>1 DEF StopInv
    <3>2. CASE ~stop.stopped
      BY <3>2 DEF StopInv
    <3> QED
      BY <3>1, <3>2
  <2>2. thinking.buffer = Held(Markers, thinking.buffer)
    BY DEF ThinkingInv
  <2>3. Withheld(tools.buffer)
    BY DEF ToolsInv
  <2> QED
    BY <2>1, <2>2, <2>3 DEF OnlyBeginningsAreHeld, Withheld
<1>2. Init => StopInv /\ ThinkingInv /\ ToolsInv
  BY StopInit, ThinkingInit, ToolsInit
<1>3. StopInv /\ ThinkingInv /\ ToolsInv /\ [Next]_replyVars => (StopInv /\ ThinkingInv /\ ToolsInv)'
  BY StopStep, ThinkingStep, ToolsStep
<1> QED
  BY <1>1, <1>2, <1>3, PTL DEF Spec

--------------------------------------------------------------------------------
(***************************************************************************)
(* Reading the content in pieces.                                          *)
(***************************************************************************)

LEMMA ByLength ==
  ASSUME NEW T, \A n \in Nat : (\A k \in Nat : k < n => k \in T) => n \in T
  PROVE  Nat \subseteq T
<1> SUFFICES ASSUME ~(Nat \subseteq T) PROVE FALSE
  OBVIOUS
<1>1. PICK n \in Nat \ T : \A i \in Nat \ T : n <= i
  <2>1. Nat \ T \in SUBSET Nat /\ Nat \ T # {}
    OBVIOUS
  <2> QED
    BY <2>1, LeastNatural
<1>2. \A k \in Nat : k < n => k \in T
  BY <1>1
<1> QED
  BY <1>1, <1>2

\* A mark is the earliest when none is complete before it.
LEMMA MarkIsEarliest ==
  ASSUME NEW marks, Apart(marks), NEW w \in Texts, NEW m \in marks, NEW r \in Texts,
         Hits(marks, w) = {}
  PROVE  /\ Hits(marks, w \o (m \o r)) # {}
         /\ Earliest(marks, w \o (m \o r)) = <<Len(w) + 1, m>>
<1> DEFINE b == m \o r
           t == w \o b
           e == Earliest(marks, t)
<1>1. marks \in Marks /\ m \in Texts /\ <<>> \in Texts /\ Len(m) \in Nat /\ Len(m) > 0
  BY EmptySeq, LenProperties DEF Apart, Marks, Texts
<1>2. Settled(marks, w, b) /\ b \in Texts
  <2>1. Settled(marks, <<>>, w \o (m \o r))
    BY <1>1, TextsConcat, NoneInEmpty
  <2>2. Settled(marks, <<>> \o w, m \o r) /\ m \o r \in Texts
    BY <1>1, <2>1, MarkSettles
  <2>3. <<>> \o w = w
    BY ConcatEmptySeq DEF Texts
  <2> QED
    BY <2>2, <2>3
<1>3. <<1, m>> \in Hits(marks, b)
  <2>1. /\ Len(b) = Len(m) + Len(r) /\ Len(r) \in Nat
        /\ \A i \in 1 .. Len(m) : b[i] = m[i]
    BY <1>1, TextsConcat
  <2> HIDE DEF b
  <2>2. Agrees(m, b, 1)
    <3>1. \A j \in 1 .. Len(m) : 1 + j - 1 = j
      BY <1>1
    <3> QED
      BY <2>1, <3>1 DEF Agrees
  <2>3. 1 \in 1 .. Len(b) /\ Ends(m, 1) <= Len(b)
    BY <1>1, <2>1 DEF Ends
  <2> QED
    BY <1>1, <1>2, <2>2, <2>3, HitsAre
<1>4. b \in Texts /\ t \in Texts /\ Len(w) \in Nat
  BY <1>2, TextsConcat
<1> HIDE DEF b
<1>5. <<Len(w) + 1, m>> \in Hits(marks, t)
  <2>1. 1 \in 1 .. Len(b)
    BY <1>1, <1>2, <1>3, HitsAre
  <2> QED
    BY <1>1, <1>2, <1>3, <2>1, HitsOfSettled
<1>6. ASSUME NEW i, NEW n, <<i, n>> \in Hits(marks, t)
      PROVE  i >= Len(w) + 1 /\ i \in Nat
  <2>1. i \in 1 .. Len(t)
    BY <1>1, <1>4, <1>6, HitsAre
  <2>2. i \notin 1 .. Len(w)
    <3>1. i \in 1 .. Len(w) => <<i, n>> \in Hits(marks, w)
      BY <1>1, <1>2, <1>6, HitsOfSettled
    <3> QED
      BY <3>1
  <2> QED
    BY <1>4, <2>1, <2>2
<1>7. e \in Hits(marks, t) /\ e = <<e[1], e[2]>> /\ e[1] <= Len(w) + 1
  <2>1. e \in Hits(marks, t) /\ \A other \in Hits(marks, t) : e[1] <= other[1]
    BY <1>1, <1>4, <1>5, EarliestIs
  <2> HIDE DEF e, t
  <2>2. e[1] <= <<Len(w) + 1, m>>[1]
    BY <1>5, <2>1
  <2>3. e = <<e[1], e[2]>>
    BY <1>1, <1>4, <2>1, HitsAre
  <2> QED
    BY <2>1, <2>2, <2>3
<1> HIDE DEF e, t
<1>8. e[1] = Len(w) + 1
  BY <1>4, <1>6, <1>7
<1>9. e[2] = m
  <2> DEFINE n == e[2]
             i == Len(w) + 1
  <2>1. <<i, n>> \in Hits(marks, t) /\ <<i, m>> \in Hits(marks, t)
    BY <1>5, <1>7, <1>8
  <2> HIDE DEF n, i
  <2>2. /\ n \in marks /\ Agrees(n, t, i) /\ Ends(n, i) <= Len(t) /\ i \in 1 .. Len(t)
        /\ Agrees(m, t, i) /\ Ends(m, i) <= Len(t)
    BY <1>1, <1>4, <2>1, HitsAre
  <2>3. Len(n) \in Nat /\ Len(t) \in Nat
    BY <1>1, <1>4, <2>2, LenProperties DEF Marks, Texts
  <2>4. \A j \in 1 .. Len(m) : t[i + j - 1] = m[j]
    BY <1>1, <2>2, <2>3 DEF Agrees, Ends
  <2>5. \A j \in 1 .. Len(n) : t[i + j - 1] = n[j]
    BY <1>1, <2>2, <2>3 DEF Agrees, Ends
  <2>6. CASE Len(m) <= Len(n)
    <3>1. \A j \in 1 .. Len(m) : m[j] = n[j]
      BY <1>1, <2>3, <2>4, <2>5, <2>6
    <3> QED
      BY <2>2, <2>6, <3>1 DEF Apart, n
  <2>7. CASE Len(n) <= Len(m)
    <3>1. \A j \in 1 .. Len(n) : n[j] = m[j]
      BY <1>1, <2>3, <2>4, <2>5, <2>7
    <3> QED
      BY <2>2, <2>7, <3>1 DEF Apart, n
  <2> QED
    BY <1>1, <2>3, <2>6, <2>7 DEF n
<1> QED
  BY <1>5, <1>7, <1>8, <1>9 DEF e, t, b

\* The closing marker of the dialect that an opening one begins.
ClosingOf(m) == (CHOOSE d \in Dialects : d[1] = m)[2]

LEMMA OpensAt ==
  ASSUME NEW w \in Texts, NEW m \in Openings, NEW r \in Texts, Hits(Openings, w) = {}
  PROVE  LET b == w \o (m \o r)
         IN  /\ b \in Texts /\ Hits(Openings, b) # {}
             /\ Opening(b) = <<Len(w) + 1, m>> /\ Body(b) = r /\ Before(b) = w
             /\ Closing(b) = ClosingOf(m)
             /\ From(b, Opening(b)[1]) = m \o r
<1> DEFINE s == m \o r
           b == w \o s
<1>1. Apart(Openings) /\ m \in Texts
  BY MarkersApart DEF Apart, Marks
<1>2. Hits(Openings, b) # {} /\ Earliest(Openings, b) = <<Len(w) + 1, m>>
  BY <1>1, MarkIsEarliest
<1>3. /\ s \in Texts /\ Len(m) \in Nat /\ b \in Texts /\ Len(b) = Len(w) + Len(s)
      /\ Len(w) \in Nat /\ Len(s) = Len(m) + Len(r) /\ Len(r) \in Nat
  <2>1. s \in Texts /\ Len(s) = Len(m) + Len(r) /\ Len(m) \in Nat /\ Len(r) \in Nat
    BY <1>1, TextsConcat
  <2> HIDE DEF s
  <2> QED
    BY <2>1, TextsConcat
<1>4. SubSeq(b, 1, Len(w)) = w /\ From(b, Len(w) + 1) = s
  <2> HIDE DEF s
  <2> QED
    BY <1>3, BeginningOfConcat
<1>5. From(s, Len(m) + 1) = r
  BY <1>1, BeginningOfConcat
<1> HIDE DEF b, s
<1>6. From(b, Len(w) + 1 + Len(m)) = r
  <2>1. /\ Len(w) + 1 \in 1 .. Len(b) + 1
        /\ Len(m) + 1 \in 1 .. (Len(b) + 1 - (Len(w) + 1)) + 1
        /\ (Len(w) + 1) + (Len(m) + 1) - 1 = Len(w) + 1 + Len(m)
    BY <1>3
  <2> DEFINE i == Len(w) + 1
             j == Len(m) + 1
  <2>2. i \in 1 .. Len(b) + 1 /\ j \in 1 .. (Len(b) + 1 - i) + 1 /\ i + j - 1 = Len(w) + 1 + Len(m)
    BY <2>1
  <2>3. From(b, i) = s /\ From(s, j) = r
    BY <1>4, <1>5
  <2> HIDE DEF i, j
  <2>4. From(From(b, i), j) = From(b, i + j - 1)
    BY <1>3, <2>2, FromFrom
  <2> QED
    BY <2>2, <2>3, <2>4
<1>7. Opening(b) = <<Len(w) + 1, m>>
  BY <1>2 DEF Opening
<1>8. Opening(b)[1] = Len(w) + 1 /\ Opening(b)[2] = m /\ (Len(w) + 1) - 1 = Len(w)
  BY <1>3, <1>7
<1>9. Body(b) = r /\ Before(b) = w /\ Closing(b) = ClosingOf(m)
  BY <1>4, <1>6, <1>8 DEF Body, Before, Closing, ClosingOf
<1> QED
  BY <1>2, <1>3, <1>4, <1>7, <1>8, <1>9 DEF b, s

\* A text with one block, in parts.
InParts(w, m, x, c, r) == w \o (m \o (x \o (c \o r)))

LEMMA ClosesAt ==
  ASSUME NEW w \in Texts, NEW m \in Openings, NEW x \in Texts, NEW r \in Texts,
         Hits(Openings, w) = {}, Hits({ClosingOf(m)}, x) = {}
  PROVE  LET c == ClosingOf(m)
             b == InParts(w, m, x, c, r)
         IN  /\ b \in Texts /\ HoldsBlock(b)
             /\ Before(b) = w /\ Block(b) = m \o (x \o c) /\ Rest(b) = r
<1> DEFINE c == ClosingOf(m)
           s == x \o (c \o r)
           b == w \o (m \o s)
<1>1. Apart({c}) /\ c \in Texts
  <2>1. PICK d \in Dialects : d[1] = m
    BY DEF Openings
  <2>2. (CHOOSE e \in Dialects : e[1] = m) \in Dialects
    BY <2>1
  <2>3. Apart({c})
    BY <2>2, ClosingsApart DEF ClosingOf
  <2> HIDE DEF c
  <2> QED
    BY <2>3 DEF Apart, Marks
<1>2. c \o r \in Texts /\ s \in Texts /\ m \in Texts
  <2>1. c \o r \in Texts
    BY <1>1, TextsConcat
  <2>2. s \in Texts
    BY <2>1, TextsConcat
  <2> QED
    BY <2>1, <2>2, MarkersApart DEF Apart, Marks
<1>3. Hits({c}, s) # {} /\ Earliest({c}, s) = <<Len(x) + 1, c>>
  <2>1. c \in {c}
    OBVIOUS
  <2> HIDE DEF c
  <2> QED
    BY <1>1, <2>1, MarkIsEarliest DEF c
<1> HIDE DEF c
<1>4. /\ b \in Texts /\ Hits(Openings, b) # {}
      /\ Opening(b) = <<Len(w) + 1, m>> /\ Body(b) = s /\ Before(b) = w
      /\ Closing(b) = c /\ From(b, Opening(b)[1]) = m \o s
  <2> HIDE DEF s
  <2> QED
    BY <1>2, OpensAt DEF c
<1>5. SubSeq(s, 1, Len(x)) = x /\ Len(x) \in Nat /\ (Len(x) + 1) - 1 = Len(x)
  <2>1. Len(x) \in Nat
    BY LenProperties DEF Texts
  <2> DEFINE y == c \o r
  <2>2. y \in Texts
    BY <1>2
  <2> HIDE DEF y
  <2>3. SubSeq(x \o y, 1, Len(x)) = x
    BY <2>2, BeginningOfConcat
  <2> QED
    BY <2>1, <2>3 DEF y
<1> DEFINE g == m \o (x \o c)
<1> HIDE DEF b, s
<1>6. HoldsBlock(b)
  BY <1>3, <1>4 DEF HoldsBlock
<1>7. Opening(b)[2] = m /\ Earliest({c}, s)[1] - 1 = Len(x)
  <2>1. Opening(b)[2] = m
    BY <1>4
  <2>2. Earliest({c}, s)[1] = Len(x) + 1
    BY <1>3 DEF c, s
  <2> QED
    BY <1>5, <2>1, <2>2
<1>8. /\ g \in Texts /\ Block(b) = g /\ Rest(b) \in Texts
      /\ Block(b) \o Rest(b) = m \o s
  <2>1. LET n == Opening(b)[2]
            d == Closing(b)
            y == SubSeq(Body(b), 1, Earliest({d}, Body(b))[1] - 1)
        IN  /\ y \in Texts /\ Rest(b) \in Texts /\ n \o (y \o d) \in Texts
            /\ Block(b) = n \o (y \o d)
            /\ Block(b) \o Rest(b) = From(b, Opening(b)[1])
    BY <1>4, <1>6, BlockIs
  <2> QED
    BY <1>4, <1>5, <1>7, <2>1
<1>9. m \o s = g \o r
  <2> DEFINE y == x \o c
  <2>0. c \in Texts /\ m \in Texts
    BY <1>1, <1>2
  <2>1. y \in Texts
    BY <2>0, TextsConcat
  <2>3. (x \o c) \o r = x \o (c \o r)
    BY <2>0, TextsAssociate
  <2>4. x \o (c \o r) = y \o r
    BY <2>3
  <2>5. \A p, q, t \in Texts : p \o (q \o t) = (p \o q) \o t
    BY ONLY TextsAssociate, Zenon
  <2> HIDE DEF y, g
  <2>2. m \o (y \o r) = (m \o y) \o r
    BY <2>0, <2>1, <2>5
  <2> QED
    BY <2>4, <2>2 DEF y, s, g
<1> HIDE DEF g
<1>10. Rest(b) = r
  <2>1. From(g \o r, Len(g) + 1) = r
    BY <1>8, BeginningOfConcat
  <2> DEFINE z == Rest(b)
  <2>2. z \in Texts /\ g \o z = g \o r
    BY <1>8, <1>9
  <2> HIDE DEF z
  <2>3. From(g \o z, Len(g) + 1) = z
    BY <1>8, <2>2, BeginningOfConcat
  <2> QED
    BY <2>1, <2>2, <2>3 DEF z
<1> QED
  BY <1>4, <1>6, <1>8, <1>10 DEF b, s, g, c, InParts

LEMMA TextsRegroup == \A p, q, t \in Texts : p \o (q \o t) = (p \o q) \o t
BY TextsAssociate

LEMMA PartsMore ==
  ASSUME NEW w, NEW m, NEW x, NEW c, NEW r, NEW u, {w, m, x, c, r, u} \subseteq Texts
  PROVE  InParts(w, m, x, c, r) \o u = InParts(w, m, x, c, r \o u)
<1>1. ASSUME NEW a \in Texts, NEW b \in Texts, NEW e \in Texts
      PROVE  a \o b \in Texts /\ (a \o b) \o e = a \o (b \o e)
  <2>1. a \o b \in Texts
    BY ONLY <1>1, TextsConcat
  <2>2. (a \o b) \o e = a \o (b \o e)
    BY ONLY <1>1, TextsAssociate
  <2> QED
    BY <2>1, <2>2
<1>2. w \in Texts /\ m \in Texts /\ x \in Texts /\ c \in Texts /\ r \in Texts /\ u \in Texts
  OBVIOUS
<1>3. PICK s4 : s4 = c \o r
  OBVIOUS
<1>4. PICK s3 : s3 = x \o s4
  OBVIOUS
<1>5. PICK s2 : s2 = m \o s3
  OBVIOUS
<1>6. s4 \in Texts /\ s4 \o u = c \o (r \o u)
  <2>1. c \in Texts /\ r \in Texts /\ u \in Texts
    BY <1>2
  <2> QED
    BY ONLY <1>1, <1>3, <2>1
<1>7. s3 \in Texts /\ s3 \o u = x \o (s4 \o u)
  <2>1. x \in Texts /\ s4 \in Texts /\ u \in Texts
    BY <1>2, <1>6
  <2> QED
    BY ONLY <1>1, <1>4, <2>1
<1>8. s2 \in Texts /\ s2 \o u = m \o (s3 \o u)
  <2>1. m \in Texts /\ s3 \in Texts /\ u \in Texts
    BY <1>2, <1>7
  <2> QED
    BY ONLY <1>1, <1>5, <2>1
<1>9. (w \o s2) \o u = w \o (s2 \o u)
  <2>1. w \in Texts /\ s2 \in Texts /\ u \in Texts
    BY <1>2, <1>8
  <2> QED
    BY ONLY <1>1, <2>1
<1>10. w \o (s2 \o u) = InParts(w, m, x, c, r \o u)
  BY <1>6, <1>7, <1>8 DEF InParts
<1> QED
  BY <1>3, <1>4, <1>5, <1>9, <1>10 DEF InParts

\* The text t has its first block between m and what closes it.
HasBlock(t, w, m, x, r) ==
  /\ w \in Texts /\ m \in Openings /\ x \in Texts /\ r \in Texts
  /\ Hits(Openings, w) = {} /\ Hits({ClosingOf(m)}, x) = {}
  /\ t = InParts(w, m, x, ClosingOf(m), r)

LEMMA HasBlockIs ==
  ASSUME NEW t, NEW w, NEW m, NEW x, NEW r, HasBlock(t, w, m, x, r)
  PROVE  /\ t \in Texts /\ HoldsBlock(t) /\ Before(t) = w /\ Rest(t) = r
         /\ Block(t) = m \o (x \o ClosingOf(m))
<1>1. /\ w \in Texts /\ m \in Openings /\ x \in Texts /\ r \in Texts
      /\ Hits(Openings, w) = {} /\ Hits({ClosingOf(m)}, x) = {}
  BY DEF HasBlock
<1>2. LET b == InParts(w, m, x, ClosingOf(m), r)
      IN  /\ b \in Texts /\ HoldsBlock(b)
          /\ Before(b) = w /\ Block(b) = m \o (x \o ClosingOf(m)) /\ Rest(b) = r
  BY ONLY <1>1, ClosesAt, ZenonT(40)
<1>3. t = InParts(w, m, x, ClosingOf(m), r)
  BY DEF HasBlock
<1> QED
  BY <1>2, <1>3

\* Text that follows the first block only follows the rest.
LEMMA BlockMore ==
  ASSUME NEW b \in Texts, HoldsBlock(b), NEW u \in Texts
  PROVE  /\ HoldsBlock(b \o u) /\ Before(b \o u) = Before(b) /\ Block(b \o u) = Block(b)
         /\ Rest(b \o u) = Rest(b) \o u
<1> DEFINE front == Before(b)
           open == Opening(b)[2]
           close == Closing(b)
           inside == SubSeq(Body(b), 1, Earliest({close}, Body(b))[1] - 1)
           rest == Rest(b)
<1>1. /\ front \in Texts /\ open \in Openings /\ open \in Texts /\ close \in Texts /\ front \o (open \o Body(b)) = b
      /\ Hits(Openings, front) = {} /\ close = ClosingOf(open)
  BY OpeningIs DEF HoldsBlock, Closing, ClosingOf
<1>2. /\ inside \in Texts /\ rest \in Texts /\ Body(b) = inside \o (close \o rest) /\ Block(b) = open \o (inside \o close)
      /\ Hits({close}, inside) = {}
  BY BlockIs
<1> HIDE DEF front, open, close, inside, rest
<1>4. b = InParts(front, open, inside, close, rest)
  BY <1>1, <1>2 DEF InParts
<1>5. InParts(front, open, inside, close, rest) \o u = InParts(front, open, inside, close, rest \o u)
  <2>1. {front, open, inside, close, rest, u} \subseteq Texts
    BY <1>1, <1>2
  <2> QED
    BY ONLY <2>1, PartsMore
<1>6. rest \o u \in Texts
  BY <1>2, TextsConcat
<1> DEFINE v == rest \o u
<1>7. v \in Texts /\ b \o u = InParts(front, open, inside, close, v)
  BY <1>4, <1>5, <1>6
<1> HIDE DEF v
<1>8. HasBlock(b \o u, front, open, inside, v)
  BY <1>1, <1>2, <1>7 DEF HasBlock
<1>9. /\ HoldsBlock(b \o u) /\ Before(b \o u) = front /\ Rest(b \o u) = v
      /\ Block(b \o u) = open \o (inside \o ClosingOf(open))
  BY ONLY <1>8, HasBlockIs
<1> QED
  BY <1>1, <1>2, <1>9 DEF v, rest, front

\* Content in front of a text, none of which may belong to an opening marker, moves its parts on.
LEMMA BlockShift ==
  ASSUME NEW v \in Texts, NEW b \in Texts, Settled(Openings, v, b), Hits(Openings, v) = {}
  PROVE  /\ Hits(Openings, v \o b) = {} <=> Hits(Openings, b) = {}
         /\ HoldsBlock(v \o b) <=> HoldsBlock(b)
         /\ Hits(Openings, b) # {} => /\ From(v \o b, Opening(v \o b)[1]) = From(b, Opening(b)[1])
                                      /\ Before(v \o b) = v \o Before(b)
                                      /\ Block(v \o b) = Block(b) /\ Rest(v \o b) = Rest(b)
<1>1. Openings \in Marks
  BY MarkersApart DEF Apart
<1>2. Hits(Openings, v \o b) = {} <=> Hits(Openings, b) = {}
  BY <1>1, NoHitsOfSettled
<1>3. CASE Hits(Openings, b) = {}
  BY <1>2, <1>3 DEF HoldsBlock
<1>4. CASE Hits(Openings, b) # {}
  <2> DEFINE w == Before(b)
             m == Opening(b)[2]
             r == Body(b)
             t == v \o b
  <2>1. /\ w \in Texts /\ m \in Openings /\ m \in Texts /\ r \in Texts
        /\ w \o (m \o r) = b /\ Hits(Openings, w) = {} /\ From(b, Opening(b)[1]) = m \o r
        /\ Closing(b) = ClosingOf(m)
    BY <1>4, OpeningIs DEF Closing, ClosingOf
  <2> HIDE DEF w, m, r
  <2>2. Hits(Openings, v \o w) = {} /\ v \o w \in Texts
    <3>1. m \o r \in Texts /\ v \o w \in Texts
      BY <2>1, TextsConcat
    <3> DEFINE s == m \o r
    <3>2. s \in Texts /\ Settled(Openings, v, w \o s)
      BY <2>1, <3>1
    <3> HIDE DEF s
    <3>3. /\ \A i \in 1 .. Len(v) : \A n :
               <<i, n>> \in Hits(Openings, v \o w) <=> <<i, n>> \in Hits(Openings, v)
          /\ \A i \in 1 .. Len(w) : \A n :
               <<Len(v) + i, n>> \in Hits(Openings, v \o w) <=> <<i, n>> \in Hits(Openings, w)
      BY <1>1, <2>1, <3>2, HitsOfConsumed
    <3>4. ASSUME NEW i, NEW n, <<i, n>> \in Hits(Openings, v \o w)
          PROVE  FALSE
      <4>1. Len(v \o w) = Len(v) + Len(w) /\ Len(v) \in Nat /\ Len(w) \in Nat
        BY <2>1, TextsConcat
      <4>2. i \in 1 .. Len(v \o w)
        BY <1>1, <3>1, <3>4, HitsAre
      <4>3. CASE i \in 1 .. Len(v)
        BY <3>3, <3>4, <4>3
      <4>4. CASE i \notin 1 .. Len(v)
        <5> DEFINE k == i - Len(v)
        <5>1. k \in 1 .. Len(w) /\ Len(v) + k = i
          BY <4>1, <4>2, <4>4
        <5> HIDE DEF k
        <5>2. <<Len(v) + k, n>> \in Hits(Openings, v \o w)
          BY <3>4, <5>1
        <5>3. <<k, n>> \in Hits(Openings, w)
          BY <3>3, <5>1, <5>2
        <5> QED
          BY <2>1, <5>3
      <4> QED
        BY <4>3, <4>4
    <3> QED
      BY <1>1, <3>1, <3>4, NoHits
  <2>3. t = (v \o w) \o (m \o r)
    <3>1. m \o r \in Texts
      BY <2>1, TextsConcat
    <3> DEFINE s == m \o r
    <3>2. s \in Texts /\ b = w \o s
      BY <2>1, <3>1
    <3> HIDE DEF s
    <3>3. v \o (w \o s) = (v \o w) \o s
      BY <2>1, <3>2, TextsRegroup
    <3> QED
      BY <3>2, <3>3 DEF s
  <2> DEFINE y == v \o w
  <2>4. y \in Texts /\ Hits(Openings, y) = {} /\ t = y \o (m \o r)
    BY <2>2, <2>3
  <2> HIDE DEF y, t
  <2>5. /\ Opening(t) = <<Len(y) + 1, m>> /\ Body(t) = r /\ Before(t) = y
        /\ Closing(t) = ClosingOf(m) /\ From(t, Opening(t)[1]) = m \o r
    BY <2>1, <2>4, OpensAt
  <2>6. /\ Opening(t)[2] = Opening(b)[2] /\ Body(t) = Body(b) /\ Closing(t) = Closing(b)
        /\ From(t, Opening(t)[1]) = From(b, Opening(b)[1])
    BY <2>1, <2>5 DEF m, r
  <2>7. LastAt(t) = LastAt(b)
    BY <2>6 DEF LastAt
  <2>8. Block(t) = Block(b) /\ Rest(t) = Rest(b)
    BY <2>6, <2>7 DEF Block, Rest
  <2>9. HoldsBlock(t) <=> HoldsBlock(b)
    BY <1>2, <1>4, <2>6 DEF HoldsBlock, t
  <2> QED
    BY <1>2, <1>4, <2>5, <2>6, <2>8, <2>9 DEF t, y, w
<1> QED
  BY <1>3, <1>4

\* Nor does it change what is withheld.
LEMMA HeldOfSettled ==
  ASSUME NEW marks \in Marks, NEW v \in Texts, NEW b \in Texts, Settled(marks, v, b)
  PROVE  Held(marks, v \o b) = Held(marks, b)
<1> DEFINE t == v \o b
           g == Held(marks, t)
           h == Held(marks, b)
           A == Len(Without(t, g))
           B == Len(Without(b, h))
<1>1. t \in Texts /\ Len(t) = Len(v) + Len(b) /\ Len(v) \in Nat /\ Len(b) \in Nat
  BY TextsConcat
<1>2. /\ g \in Texts /\ Len(g) <= Len(t) /\ g = From(t, Len(t) + 1 - Len(g)) /\ A = Len(t) - Len(g)
      /\ \A i \in 1 .. Len(t), m \in marks : Agrees(m, t, i) /\ Ends(m, i) > Len(t) => i > A
      /\ Len(g) > 0 => \E m \in marks : Agrees(m, t, A + 1) /\ Ends(m, A + 1) > Len(t)
  BY <1>1, HeldIs
<1>3. /\ h \in Texts /\ Len(h) <= Len(b) /\ h = From(b, Len(b) + 1 - Len(h)) /\ B = Len(b) - Len(h)
      /\ \A i \in 1 .. Len(b), m \in marks : Agrees(m, b, i) /\ Ends(m, i) > Len(b) => i > B
      /\ Len(h) > 0 => \E m \in marks : Agrees(m, b, B + 1) /\ Ends(m, B + 1) > Len(b)
  BY HeldIs
<1>4. Len(g) \in Nat /\ Len(h) \in Nat
  BY <1>2, <1>3, LenProperties DEF Texts
<1>5. ASSUME NEW m \in marks, NEW i \in 1 .. Len(b)
      PROVE  /\ Agrees(m, t, Len(v) + i) <=> Agrees(m, b, i)
             /\ Ends(m, Len(v) + i) > Len(t) <=> Ends(m, i) > Len(b)
  <2>1. m \in Texts /\ Len(m) \in Nat
    BY LenProperties DEF Marks, Texts
  <2> QED
    BY <1>1, <2>1, ConcatAgrees DEF Ends
<1> HIDE DEF g, h, A, B, t
<1>6. Len(g) <= Len(h)
  <2> SUFFICES ASSUME Len(g) > Len(h) PROVE FALSE
    BY <1>4
  <2>1. PICK m \in marks : Agrees(m, t, A + 1) /\ Ends(m, A + 1) > Len(t)
    BY <1>2, <1>4
  <2>2. A + 1 \notin 1 .. Len(v)
    <3>1. ASSUME A + 1 \in 1 .. Len(v) PROVE FALSE
      <4>1. Ends(m, A + 1) <= Len(v)
        BY <2>1, <3>1 DEF Settled, t
      <4>2. m \in Texts /\ Len(m) \in Nat
        BY LenProperties DEF Marks, Texts
      <4> QED
        BY <1>1, <1>2, <1>4, <2>1, <4>1, <4>2 DEF Ends
    <3> QED
      BY <3>1
  <2> DEFINE k == A + 1 - Len(v)
  <2>3. k \in 1 .. Len(b) /\ Len(v) + k = A + 1 /\ k <= B
    BY <1>1, <1>2, <1>3, <1>4, <2>2
  <2> HIDE DEF k
  <2>4. Agrees(m, b, k) /\ Ends(m, k) > Len(b)
    BY <1>5, <2>1, <2>3
  <2>5. k > B
    BY <1>3, <2>3, <2>4
  <2> QED
    BY <1>3, <1>4, <1>1, <2>3, <2>5
<1>7. Len(h) <= Len(g)
  <2> SUFFICES ASSUME Len(h) > Len(g) PROVE FALSE
    BY <1>4
  <2>1. PICK m \in marks : Agrees(m, b, B + 1) /\ Ends(m, B + 1) > Len(b)
    BY <1>3, <1>4
  <2> DEFINE k == B + 1
             i == Len(v) + k
  <2>2. k \in 1 .. Len(b) /\ i \in 1 .. Len(t) /\ i <= A
    BY <1>1, <1>2, <1>3, <1>4
  <2>3. Agrees(m, b, k) /\ Ends(m, k) > Len(b)
    BY <2>1
  <2> HIDE DEF k
  <2>4. Agrees(m, t, i) /\ Ends(m, i) > Len(t)
    BY <1>5, <2>2, <2>3
  <2> HIDE DEF i
  <2>5. i > A
    BY <1>2, <2>2, <2>4
  <2> QED
    BY <1>1, <1>2, <1>4, <2>2, <2>5
<1>8. From(t, Len(t) + 1 - Len(h)) = From(b, Len(b) + 1 - Len(h))
  <2> DEFINE i == Len(v) + 1
             j == Len(b) + 1 - Len(h)
  <2>1. /\ i \in 1 .. Len(t) + 1 /\ j \in 1 .. (Len(t) + 1 - i) + 1
        /\ i + j - 1 = Len(t) + 1 - Len(h)
    BY <1>1, <1>3, <1>4
  <2>2. From(t, i) = b
    BY BeginningOfConcat DEF t
  <2> HIDE DEF i, j
  <2>3. From(From(t, i), j) = From(t, i + j - 1)
    BY <1>1, <2>1, FromFrom
  <2> QED
    BY <2>1, <2>2, <2>3 DEF j
<1> QED
  BY <1>2, <1>3, <1>4, <1>6, <1>7, <1>8 DEF g, h, t

\* What the tool parser withholds of a buffer that holds no whole block.
WithheldOf(b) == IF Hits(Openings, b) # {} THEN From(b, Opening(b)[1]) ELSE Held(Openings, b)

LEMMA WithheldIs ==
  ASSUME NEW b \in Texts
  PROVE  LET h == WithheldOf(b)
             w == Without(b, h)
         IN  /\ h \in Texts /\ w \in Texts /\ w \o h = b /\ Hits(Openings, w) = {}
             /\ Settled(Openings, w, h)
<1> DEFINE h == WithheldOf(b)
           w == Without(b, h)
<1>1. Apart(Openings) /\ Openings \in Marks /\ <<>> \in Texts /\ Settled(Openings, <<>>, b)
  BY MarkersApart, NoneInEmpty DEF Apart
<1>2. \A s \in Texts : <<>> \o s = s
  BY ConcatEmptySeq DEF Texts
<1>3. CASE Hits(Openings, b) = {}
  <2>1. h = Held(Openings, b)
    BY <1>3 DEF WithheldOf
  <2>2. /\ h \in Texts /\ w \in Texts /\ w \o h = b
    BY <1>1, <2>1, HeldIs
  <2>3. Settled(Openings, <<>> \o w, h)
    BY <1>1, <1>3, <2>1, HoldsBack
  <2> HIDE DEF h, w
  <2>4. Hits(Openings, w) = {}
    BY <1>1, <1>3, <2>2, HitsOfEnd
  <2> QED
    BY <1>2, <2>2, <2>3, <2>4 DEF h, w
<1>4. CASE Hits(Openings, b) # {}
  <2> DEFINE m == Opening(b)[2]
             r == Body(b)
             i == Opening(b)[1]
             y == Before(b)
  <2>1. /\ i \in 1 .. Len(b) /\ m \in Openings /\ m \in Texts /\ y \in Texts /\ Len(y) = i - 1
        /\ r \in Texts /\ y \o (m \o r) = b /\ Hits(Openings, y) = {} /\ From(b, i) = m \o r
    BY <1>4, OpeningIs
  <2>2. h = From(b, i)
    BY <1>4 DEF WithheldOf
  <2>3. h \in Texts /\ Len(h) = Len(b) + 1 - i /\ Len(b) \in Nat
    <3>1. Len(b) \in Nat
      BY LenProperties DEF Texts
    <3>2. i \in 1 .. Len(b) + 1
      BY <2>1, <3>1
    <3> HIDE DEF i, h
    <3> QED
      BY <2>2, <3>1, <3>2, FromIs
  <2>4. w = y
    <3>1. Len(b) - Len(h) = i - 1
      BY <2>1, <2>3
    <3> HIDE DEF h
    <3> QED
      BY <3>1 DEF Without, Before
  <2> HIDE DEF h, w, m, r, i, y
  <2>5. Settled(Openings, <<>> \o y, m \o r)
    <3>1. Settled(Openings, <<>>, y \o (m \o r))
      BY <1>1, <2>1
    <3> QED
      BY <1>1, <2>1, <3>1, MarkSettles
  <2> QED
    BY <1>2, <2>1, <2>2, <2>3, <2>4, <2>5 DEF h, w
<1> QED
  BY <1>3, <1>4

\* What the tool parser returns.
Outs == Seq(Kinds \X Symbols)

LEMMA OutsConcat ==
  ASSUME NEW a \in Outs, NEW b \in Outs
  PROVE  a \o b \in Outs
<1> DEFINE S == Kinds \X Symbols
<1>1. a \in Seq(S) /\ b \in Seq(S)
  BY DEF Outs
<1> HIDE DEF S
<1>2. a \o b \in Seq(S)
  BY ONLY <1>1, ConcatIs
<1> QED
  BY <1>2 DEF S, Outs

LEMMA OutsAssociate ==
  ASSUME NEW a \in Outs, NEW b \in Outs, NEW c \in Outs
  PROVE  (a \o b) \o c = a \o (b \o c)
<1> DEFINE S == Kinds \X Symbols
<1>1. a \in Seq(S) /\ b \in Seq(S) /\ c \in Seq(S)
  BY DEF Outs
<1> HIDE DEF S
<1> QED
  BY ONLY <1>1, ConcatAssociative

LEMMA EmptyOut == <<>> \in Outs /\ \A o \in Outs : o \o <<>> = o
<1>1. <<>> \in Outs
  BY EmptySeq DEF Outs
<1>2. ASSUME NEW S, NEW o \in Seq(S)
      PROVE  o \o <<>> = o
  BY ConcatEmptySeq
<1> QED
  BY <1>1, <1>2 DEF Outs

LEMMA TaggedConcat ==
  ASSUME NEW k \in Kinds, NEW a \in Texts, NEW b \in Texts
  PROVE  /\ Tagged(k, a) \in Outs /\ Tagged(k, b) \in Outs
         /\ Tagged(k, a \o b) = Tagged(k, a) \o Tagged(k, b)
<1> DEFINE x == Tagged(k, a)
           y == Tagged(k, b)
           t == a \o b
           z == Tagged(k, t)
           S == Kinds \X Symbols
<1>1. /\ t \in Texts /\ Len(t) = Len(a) + Len(b) /\ Len(a) \in Nat /\ Len(b) \in Nat
      /\ \A i \in 1 .. Len(a) : t[i] = a[i]
      /\ \A i \in 1 .. Len(b) : t[Len(a) + i] = b[i]
  BY TextsConcat
<1> HIDE DEF t
<1>2. /\ x \in Seq(S) /\ Len(x) = Len(a) /\ x = [i \in 1 .. Len(a) |-> <<k, a[i]>>]
      /\ y \in Seq(S) /\ Len(y) = Len(b) /\ y = [i \in 1 .. Len(b) |-> <<k, b[i]>>]
      /\ z \in Seq(S) /\ Len(z) = Len(t) /\ z = [i \in 1 .. Len(t) |-> <<k, t[i]>>]
  BY <1>1, TaggedIs
<1> HIDE DEF x, y, z, S
<1>3. /\ x \o y \in Seq(S) /\ Len(x \o y) = Len(x) + Len(y)
      /\ \A i \in 1 .. Len(x) : (x \o y)[i] = x[i]
      /\ \A i \in 1 .. Len(y) : (x \o y)[Len(x) + i] = y[i]
  <2>1. x \in Seq(S) /\ y \in Seq(S)
    BY <1>2
  <2> QED
    BY ONLY <2>1, ConcatIs
<1>4. ASSUME NEW i \in 1 .. Len(z)
      PROVE  z[i] = (x \o y)[i]
  <2>1. z[i] = <<k, t[i]>>
    BY <1>2
  <2>2. CASE i \in 1 .. Len(a)
    <3>1. (x \o y)[i] = x[i]
      BY <1>2, <1>3, <2>2
    <3> QED
      BY <1>1, <1>2, <2>1, <2>2, <3>1
  <2>3. CASE i \notin 1 .. Len(a)
    <3>1. i - Len(a) \in 1 .. Len(b) /\ Len(a) + (i - Len(a)) = i
      BY <1>1, <1>2, <2>3
    <3>2. (x \o y)[Len(x) + (i - Len(a))] = y[i - Len(a)]
      BY <1>2, <1>3, <3>1
    <3> QED
      BY <1>1, <1>2, <2>1, <3>1, <3>2
  <2> QED
    BY <2>2, <2>3
<1>5. Len(z) = Len(x \o y)
  BY <1>1, <1>2, <1>3
<1>6. z = x \o y
  <2>1. z \in Seq(S) /\ x \o y \in Seq(S)
    BY <1>2, <1>3
  <2> QED
    BY ONLY <1>4, <1>5, <2>1, SeqEqual
<1> QED
  BY <1>2, <1>6 DEF x, y, z, t, S, Outs

\* A state that has not raised, and what the loop makes of it.
State(b, o) == [buffer |-> b, failed |-> FALSE, out |-> o]
Looped(b, o) == ToolLoop(State(b, o))

LEMMA StateIs ==
  /\ \A b \in Texts, o \in Outs : /\ State(b, o) \in ToolStates /\ State(b, o).buffer = b
                                  /\ ~State(b, o).failed /\ State(b, o).out = o
  /\ \A p \in ToolStates : /\ p.buffer \in Texts /\ p.out \in Outs
                           /\ ~p.failed => p = State(p.buffer, p.out)
BY DEF State, ToolStates, Outs

LEMMA LoopedIs ==
  ASSUME NEW b \in Texts, NEW o \in Outs
  PROVE  Looped(b, o) \in ToolStates
<1>1. State(b, o) \in ToolStates
  BY StateIs
<1>2. PICK f : Turns(f, State(b, o))
  BY <1>1, TurnsAre
<1> DEFINE p == State(b, o)
           r == f[Len(p.buffer)]
<1>3. p \in ToolStates /\ Turns(f, p)
  BY <1>1, <1>2
<1> HIDE DEF p
<1>4. r \in ToolStates /\ Done(r)
  <2>1. Len(p.buffer) \in Nat
    BY <1>3, LenProperties DEF ToolStates, Texts
  <2> QED
    BY <1>3, <2>1, TurnsEnd DEF Turns
<1>5. ToolLoop(p) = WithholdRest(r)
  BY <1>3 DEF Turns
<1> HIDE DEF r
<1> QED
  BY <1>4, <1>5, WithholdRestIs DEF p, Looped

\* What a turn adds to what is returned.
Taken(b, o) == (o \o Tagged("content", Before(b))) \o Tagged("tool_call", Parsed(Block(b)).calls)

LEMMA LoopedUnfolds ==
  ASSUME NEW b \in Texts, NEW o \in Outs
  PROVE  /\ ~HoldsBlock(b) =>
              Looped(b, o) = State(WithheldOf(b), o \o Tagged("content", Without(b, WithheldOf(b))))
         /\ HoldsBlock(b) => /\ Len(Rest(b)) < Len(b) /\ Rest(b) \in Texts /\ Taken(b, o) \in Outs
                             /\ Parsed(Block(b)).failed => Looped(b, o).failed
                             /\ ~Parsed(Block(b)).failed => Looped(b, o) = Looped(Rest(b), Taken(b, o))
<1> DEFINE p == State(b, o)
<1>1. p \in ToolStates /\ p.buffer = b /\ ~p.failed /\ p.out = o /\ (Done(p) <=> ~HoldsBlock(b))
  BY StateIs DEF Done
<1>2. CASE ~HoldsBlock(b)
  <2>1. Looped(b, o) = WithholdRest(p)
    BY <1>1, <1>2, ToolLoopUnfolds DEF Looped
  <2>2. WithholdRest(p) = State(WithheldOf(b), o \o Tagged("content", Without(b, WithheldOf(b))))
    BY DEF WithholdRest, State, WithheldOf
  <2> QED
    BY <1>2, <2>1, <2>2
<1>3. CASE HoldsBlock(b)
  <2> DEFINE q == ToolTurn(p)
  <2> HIDE DEF p
  <2>1. /\ q \in ToolStates /\ q.failed = Parsed(Block(b)).failed
        /\ ~q.failed => q.buffer = Rest(b) /\ q.out = Taken(b, o)
    BY <1>1, <1>3, ToolTurnIs DEF Taken
  <2>2. Looped(b, o) = ToolLoop(q)
    BY <1>1, <1>3, ToolLoopUnfolds DEF Looped, p
  <2>3. Rest(b) \in Texts /\ Len(Rest(b)) < Len(b)
    BY <1>3, BlockIs
  <2>4. Taken(b, o) \in Outs
    <3>1. Before(b) \in Texts /\ Block(b) \in Texts
      BY <1>3, OpeningIs, BlockIs DEF HoldsBlock
    <3>2. Parsed(Block(b)).calls \in Texts
      BY <3>1, ParsedIs
    <3> DEFINE x == Tagged("content", Before(b))
               y == Tagged("tool_call", Parsed(Block(b)).calls)
    <3>3. x \in Outs /\ y \in Outs
      BY <3>1, <3>2, TaggedConcat DEF Kinds
    <3> HIDE DEF x, y
    <3>4. o \o x \in Outs
      BY <3>3, OutsConcat
    <3>5. (o \o x) \o y \in Outs
      BY <3>3, <3>4, OutsConcat
    <3> QED
      BY <3>5 DEF x, y, Taken
  <2> HIDE DEF q
  <2>5. CASE q.failed
    <3>1. ToolLoop(q) = WithholdRest(q)
      BY <2>1, <2>5, ToolLoopUnfolds DEF Done
    <3>2. WithholdRest(q) = q
      BY <2>5 DEF WithholdRest
    <3> QED
      BY <1>3, <2>1, <2>2, <2>3, <2>4, <2>5, <3>1, <3>2
  <2>6. CASE ~q.failed
    <3>1. q = State(Rest(b), Taken(b, o))
      BY <2>1, <2>6, StateIs
    <3> QED
      BY <1>3, <2>1, <2>2, <2>3, <2>4, <2>6, <3>1 DEF Looped
  <2> QED
    BY <2>5, <2>6
<1> QED
  BY <1>2, <1>3

\* Content in front of a buffer is returned before the rest, unless the rest raises.
LEMMA SkipsContent ==
  ASSUME NEW v \in Texts, NEW b \in Texts, NEW o \in Outs,
         Hits(Openings, v) = {}, Settled(Openings, v, b)
  PROVE  LET q == Looped(b, o \o Tagged("content", v))
         IN  q.failed \/ Looped(v \o b, o) = q
<1> DEFINE e == Tagged("content", v)
           t == v \o b
<1>1. e \in Outs /\ o \o e \in Outs /\ t \in Texts
  <2>1. e \in Outs
    BY TaggedConcat DEF Kinds
  <2> HIDE DEF e
  <2>2. o \o e \in Outs
    BY <2>1, OutsConcat
  <2> QED
    BY <2>1, <2>2, TextsConcat
<1>2. ASSUME NEW w \in Texts
      PROVE  o \o Tagged("content", v \o w) = (o \o e) \o Tagged("content", w)
  <2> DEFINE f == Tagged("content", w)
  <2>1. e \in Outs /\ f \in Outs /\ Tagged("content", v \o w) = e \o f /\ o \in Outs
    BY TaggedConcat DEF Kinds
  <2> HIDE DEF e, f
  <2>2. (o \o e) \o f = o \o (e \o f)
    BY ONLY <2>1, OutsAssociate
  <2> QED
    BY <2>1, <2>2 DEF f
<1>3. CASE ~HoldsBlock(b)
  <2> DEFINE h == WithheldOf(b)
             w == Without(b, h)
  <2>1. h \in Texts /\ w \in Texts /\ w \o h = b
    BY WithheldIs
  <2>2. ~HoldsBlock(t) /\ WithheldOf(t) = h
    <3>1. /\ Hits(Openings, t) = {} <=> Hits(Openings, b) = {}
          /\ HoldsBlock(t) <=> HoldsBlock(b)
          /\ Hits(Openings, b) # {} => From(t, Opening(t)[1]) = From(b, Opening(b)[1])
      BY BlockShift
    <3>2. Held(Openings, t) = Held(Openings, b)
      BY MarkersApart, HeldOfSettled DEF Apart
    <3> HIDE DEF t
    <3> QED
      BY <1>3, <3>1, <3>2 DEF WithheldOf
  <2> HIDE DEF h, w
  <2>3. Without(t, h) = v \o w
    <3> DEFINE y == v \o w
    <3>1. y \in Texts
      BY <2>1, TextsConcat
    <3>2. t = y \o h
      <4>1. v \in Texts /\ w \in Texts /\ h \in Texts
        BY <2>1
      <4>2. (v \o w) \o h = v \o (w \o h)
        BY ONLY <4>1, TextsAssociate
      <4> QED
        BY <2>1, <4>2
    <3> HIDE DEF t, y
    <3>3. Len(t) = Len(y) + Len(h) /\ Len(y) \in Nat /\ Len(h) \in Nat
      BY <2>1, <3>1, <3>2, TextsConcat
    <3>4. Len(t) - Len(h) = Len(y)
      BY <3>3
    <3>5. SubSeq(y \o h, 1, Len(y)) = y
      BY <2>1, <3>1, BeginningOfConcat
    <3> QED
      BY <3>2, <3>4, <3>5 DEF Without, y
  <2> HIDE DEF t, e
  <2>4. Looped(t, o) = State(h, o \o Tagged("content", v \o w))
    BY <1>1, <2>2, <2>3, LoopedUnfolds
  <2>5. Looped(b, o \o e) = State(h, (o \o e) \o Tagged("content", w))
    BY <1>1, <1>3, LoopedUnfolds DEF h, w
  <2> QED
    BY <1>2, <2>1, <2>4, <2>5 DEF e, t
<1>4. CASE HoldsBlock(b)
  <2>1. /\ HoldsBlock(t) /\ Before(t) = v \o Before(b) /\ Block(t) = Block(b) /\ Rest(t) = Rest(b)
        /\ Before(b) \in Texts
    BY <1>4, BlockShift, OpeningIs DEF HoldsBlock
  <2>2. Taken(t, o) = Taken(b, o \o e)
    BY <1>2, <2>1 DEF Taken
  <2> HIDE DEF t, e
  <2>3. CASE Parsed(Block(b)).failed
    <3>1. Looped(b, o \o e).failed
      BY <1>1, <1>4, <2>3, LoopedUnfolds
    <3> QED
      BY <3>1 DEF e
  <2>4. CASE ~Parsed(Block(b)).failed
    <3>1. Looped(b, o \o e) = Looped(Rest(b), Taken(b, o \o e))
      BY <1>1, <1>4, <2>4, LoopedUnfolds
    <3>2. Looped(t, o) = Looped(Rest(t), Taken(t, o))
      BY <1>1, <2>1, <2>4, LoopedUnfolds
    <3> QED
      BY <2>1, <2>2, <3>1, <3>2 DEF e, t
  <2> QED
    BY <2>3, <2>4
<1> QED
  BY <1>3, <1>4

\* What was returned before stays in front.
Prefixed(g, b, o) ==
  /\ Looped(b, g \o o).failed <=> Looped(b, o).failed
  /\ ~Looped(b, o).failed => Looped(b, g \o o) = State(Looped(b, o).buffer, g \o Looped(b, o).out)

LEMMA LoopedPrefix ==
  ASSUME NEW g \in Outs
  PROVE  \A b \in Texts, o \in Outs : Prefixed(g, b, o)
<1> DEFINE T == {n \in Nat : \A b \in Texts, o \in Outs : Len(b) = n => Prefixed(g, b, o)}
<1>1. ASSUME NEW n \in Nat, \A k \in Nat : k < n => k \in T
      PROVE  n \in T
  <2>1. ASSUME NEW b \in Texts, NEW o \in Outs, Len(b) = n
        PROVE  Prefixed(g, b, o)
    <3>1. g \o o \in Outs
      BY OutsConcat
    <3>2. CASE ~HoldsBlock(b)
      <4> DEFINE h == WithheldOf(b)
                 x == Tagged("content", Without(b, h))
      <4>1. h \in Texts /\ x \in Outs
        BY WithheldIs, TaggedConcat DEF Kinds
      <4>2. Looped(b, o) = State(h, o \o x)
        BY <3>2, LoopedUnfolds
      <4>3. Looped(b, g \o o) = State(h, (g \o o) \o x)
        BY <3>1, <3>2, LoopedUnfolds
      <4> HIDE DEF h, x
      <4>4. (g \o o) \o x = g \o (o \o x)
        BY <4>1, OutsAssociate
      <4> QED
        BY <4>2, <4>3, <4>4 DEF Prefixed, State
    <3>3. CASE HoldsBlock(b)
      <4> DEFINE r == Rest(b)
                 y == Taken(b, o)
      <4>1. r \in Texts /\ Len(r) < n /\ Len(r) \in Nat /\ y \in Outs
        BY <2>1, <3>3, LoopedUnfolds, LenProperties DEF Texts
      <4>2. CASE Parsed(Block(b)).failed
        BY <3>1, <3>3, <4>2, LoopedUnfolds DEF Prefixed
      <4>3. CASE ~Parsed(Block(b)).failed
        <5>1. Looped(b, o) = Looped(r, y)
          BY <3>3, <4>3, LoopedUnfolds
        <5>2. Looped(b, g \o o) = Looped(r, Taken(b, g \o o))
          BY <3>1, <3>3, <4>3, LoopedUnfolds
        <5>3. Taken(b, g \o o) = g \o y
          <6> DEFINE p == Tagged("content", Before(b))
                     q == Tagged("tool_call", Parsed(Block(b)).calls)
          <6>1. Before(b) \in Texts /\ Block(b) \in Texts
            BY <3>3, OpeningIs, BlockIs DEF HoldsBlock
          <6>2. p \in Outs /\ q \in Outs
            BY <6>1, ParsedIs, TaggedConcat DEF Kinds
          <6> HIDE DEF p, q
          <6>3. (g \o o) \o p = g \o (o \o p) /\ o \o p \in Outs
            BY <6>2, OutsAssociate, OutsConcat
          <6> DEFINE s == o \o p
          <6>4. s \in Outs /\ (g \o o) \o p = g \o s
            BY <6>3
          <6> HIDE DEF s
          <6>5. (g \o s) \o q = g \o (s \o q)
            BY <6>2, <6>4, OutsAssociate
          <6> QED
            BY <6>4, <6>5 DEF Taken, p, q, s
        <5> HIDE DEF r, y
        <5>4. Prefixed(g, r, y)
          BY <1>1, <4>1
        <5> QED
          BY <5>1, <5>2, <5>3, <5>4 DEF Prefixed
      <4> QED
        BY <4>2, <4>3
    <3> QED
      BY <3>2, <3>3
  <2> QED
    BY <2>1
<1> HIDE DEF T
<1>2. Nat \subseteq T
  BY <1>1, ByLength
<1>3. ASSUME NEW b \in Texts, NEW o \in Outs
      PROVE  Prefixed(g, b, o)
  <2>1. Len(b) \in T
    BY <1>2, LenProperties DEF Texts
  <2> QED
    BY <2>1 DEF T
<1> QED
  BY <1>3

\* A buffer may be read in two pieces: the second after what the first leaves of it.
InPieces(b, o, u) ==
  LET q == Looped(b, o)
      r == Looped(q.buffer \o u, q.out)
  IN  q.failed \/ r.failed \/ Looped(b \o u, o) = r

LEMMA LoopedInPieces ==
  ASSUME NEW u \in Texts
  PROVE  \A b \in Texts, o \in Outs : InPieces(b, o, u)
<1> DEFINE T == {n \in Nat : \A b \in Texts, o \in Outs : Len(b) = n => InPieces(b, o, u)}
<1>1. ASSUME NEW n \in Nat, \A k \in Nat : k < n => k \in T
      PROVE  n \in T
  <2>1. ASSUME NEW b \in Texts, NEW o \in Outs, Len(b) = n
        PROVE  InPieces(b, o, u)
    <3>1. b \o u \in Texts
      BY TextsConcat
    <3>2. CASE ~HoldsBlock(b)
      <4> DEFINE h == WithheldOf(b)
                 w == Without(b, h)
                 x == Tagged("content", w)
      <4>1. /\ h \in Texts /\ w \in Texts /\ w \o h = b /\ Hits(Openings, w) = {}
            /\ Settled(Openings, w, h)
        BY WithheldIs
      <4>2. Looped(b, o) = State(h, o \o x)
        BY <3>2, LoopedUnfolds
      <4> HIDE DEF h, w
      <4>3. h \o u \in Texts /\ Settled(Openings, w, h \o u)
        BY <4>1, MarkersApart, TextsConcat, SettledMore DEF Apart
      <4>4. w \o (h \o u) = b \o u
        <5>1. w \in Texts /\ h \in Texts /\ u \in Texts
          BY <4>1
        <5>2. (w \o h) \o u = w \o (h \o u)
          BY ONLY <5>1, TextsAssociate
        <5> QED
          BY <4>1, <5>2
      <4> DEFINE t == h \o u
      <4>5. t \in Texts /\ Settled(Openings, w, t) /\ w \o t = b \o u
        BY <4>3, <4>4
      <4> HIDE DEF t, x
      <4>6. Looped(t, o \o x).failed \/ Looped(w \o t, o) = Looped(t, o \o x)
        BY <4>1, <4>5, SkipsContent DEF x
      <4>7. Looped(b, o).buffer = h /\ Looped(b, o).out = o \o x
        BY <4>2 DEF State
      <4> QED
        BY <4>5, <4>6, <4>7 DEF InPieces, t
    <3>3. CASE HoldsBlock(b)
      <4> DEFINE r == Rest(b)
                 y == Taken(b, o)
      <4>1. r \in Texts /\ Len(r) < n /\ Len(r) \in Nat /\ y \in Outs
        BY <2>1, <3>3, LoopedUnfolds, LenProperties DEF Texts
      <4>2. CASE Parsed(Block(b)).failed
        BY <3>3, <4>2, LoopedUnfolds DEF InPieces
      <4>3. CASE ~Parsed(Block(b)).failed
        <5>1. Looped(b, o) = Looped(r, y)
          BY <3>3, <4>3, LoopedUnfolds
        <5>2. /\ HoldsBlock(b \o u) /\ Before(b \o u) = Before(b) /\ Block(b \o u) = Block(b)
              /\ Rest(b \o u) = r \o u
          BY <3>3, BlockMore
        <5>3. Taken(b \o u, o) = y
          BY <5>2 DEF Taken
        <5>4. Looped(b \o u, o) = Looped(r \o u, y)
          BY <3>1, <4>3, <5>2, <5>3, LoopedUnfolds
        <5> HIDE DEF r, y
        <5>5. InPieces(r, y, u)
          BY <1>1, <4>1
        <5> QED
          BY <5>1, <5>4, <5>5 DEF InPieces
      <4> QED
        BY <4>2, <4>3
    <3> QED
      BY <3>2, <3>3
  <2> QED
    BY <2>1
<1> HIDE DEF T
<1>2. Nat \subseteq T
  BY <1>1, ByLength
<1>3. ASSUME NEW b \in Texts, NEW o \in Outs
      PROVE  InPieces(b, o, u)
  <2>1. Len(b) \in T
    BY <1>2, LenProperties DEF Texts
  <2> QED
    BY <2>1 DEF T
<1> QED
  BY <1>3

\* The tool parser in the state p has returned out for the content it was fed, as one call of feed
\* with all of it would.
ReadWhole(content, p, out) == ToolFeed(State(<<>>, <<>>), content) = State(p.buffer, out)

LEMMA FeedMore ==
  ASSUME NEW content \in Texts, NEW p \in ToolStates, ~p.failed, NEW out \in Outs,
         ReadWhole(content, p, out), NEW u \in Texts, ~ToolFeed(p, u).failed
  PROVE  ReadWhole(content \o u, ToolFeed(p, u), out \o ToolFeed(p, u).out)
<1>1. ASSUME NEW s \in ToolStates, ~s.failed, NEW t \in Texts
      PROVE  ToolFeed(s, t) = LET l == Looped(s.buffer \o t, <<>>)
                              IN  IF l.failed THEN [l EXCEPT !.out = <<>>] ELSE l
  <2>1. [s EXCEPT !.buffer = @ \o t, !.out = <<>>] = State(s.buffer \o t, <<>>)
    <3> DEFINE z == [s EXCEPT !.buffer = @ \o t, !.out = <<>>]
               c == s.buffer \o t
    <3>1. /\ z \in [buffer : {c}, failed : BOOLEAN, out : {<<>>}]
          /\ z.failed = FALSE /\ z.buffer = c /\ z.out = <<>>
      BY <1>1 DEF ToolStates
    <3> HIDE DEF z, c
    <3>2. z = [buffer |-> c, failed |-> FALSE, out |-> <<>>]
      BY <3>1
    <3> QED
      BY <3>2 DEF State, z, c
  <2> QED
    BY <2>1 DEF ToolFeed, Looped
<1>2. <<>> \in Outs /\ <<>> \in Texts /\ \A o \in Outs : o \o <<>> = o
  BY EmptyOut, MarkersApart, NoneInEmpty DEF Apart
<1>3. \A t \in Texts : <<>> \o t = t
  BY ConcatEmptySeq DEF Texts
<1> DEFINE zero == State(<<>>, <<>>)
<1>4. zero \in ToolStates /\ ~zero.failed /\ zero.buffer = <<>>
  BY <1>2, StateIs
<1> HIDE DEF zero
<1>5. content \o u \in Texts /\ p.buffer \in Texts /\ p.buffer \o u \in Texts
  BY TextsConcat DEF ToolStates
<1> DEFINE q == Looped(content, <<>>)
           r == Looped(p.buffer \o u, <<>>)
<1>6. q = State(p.buffer, out)
  <2>1. zero.buffer \o content = content
    BY <1>3, <1>4
  <2>2. ToolFeed(zero, content) = IF q.failed THEN [q EXCEPT !.out = <<>>] ELSE q
    BY <1>1, <1>4, <2>1
  <2>3. ToolFeed(zero, content) = State(p.buffer, out)
    BY DEF ReadWhole, zero
  <2>4. q \in ToolStates
    BY <1>2, LoopedIs
  <2> HIDE DEF q
  <2> QED
    BY <2>2, <2>3, <2>4 DEF State, ToolStates
<1>7. ~r.failed /\ ToolFeed(p, u) = r /\ r \in ToolStates
  <2>1. r \in ToolStates
    BY <1>2, <1>5, LoopedIs
  <2>2. ToolFeed(p, u) = IF r.failed THEN [r EXCEPT !.out = <<>>] ELSE r
    BY <1>1
  <2> HIDE DEF r
  <2> QED
    BY <2>1, <2>2 DEF ToolStates
<1>8. Looped(p.buffer \o u, out) = State(r.buffer, out \o r.out)
  <2>1. Prefixed(out, p.buffer \o u, <<>>)
    BY <1>2, <1>5, LoopedPrefix
  <2> QED
    BY <1>2, <1>7, <2>1 DEF Prefixed
<1> HIDE DEF r
<1>9. Looped(content \o u, <<>>) = State(r.buffer, out \o r.out)
  <2>1. InPieces(content, <<>>, u)
    BY <1>2, LoopedInPieces
  <2>2. q.failed = FALSE /\ q.buffer = p.buffer /\ q.out = out
    BY <1>6 DEF State
  <2> HIDE DEF q
  <2>3. ~Looped(p.buffer \o u, out).failed
    BY <1>8 DEF State
  <2> QED
    BY <1>8, <2>1, <2>2, <2>3 DEF InPieces, q
<1>10. ToolFeed(zero, content \o u) = State(r.buffer, out \o r.out)
  <2>1. zero.buffer \o (content \o u) = content \o u
    BY <1>3, <1>4, <1>5
  <2> DEFINE l == Looped(content \o u, <<>>)
  <2>2. ToolFeed(zero, content \o u) = IF l.failed THEN [l EXCEPT !.out = <<>>] ELSE l
    BY <1>1, <1>4, <1>5, <2>1
  <2>3. l = State(r.buffer, out \o r.out)
    BY <1>9
  <2> HIDE DEF l
  <2>4. l.failed = FALSE
    BY <2>3 DEF State
  <2> QED
    BY <2>2, <2>3, <2>4
<1> QED
  BY <1>7, <1>10 DEF ReadWhole, zero

--------------------------------------------------------------------------------
(***************************************************************************)
(* The content that reaches the tool parser, fragment by fragment.         *)
(***************************************************************************)

Pairs == Seq(Fields \X Symbols)

\* The second parts of pairs.
Seconds(s) == [i \in DOMAIN s |-> s[i][2]]

LEMMA SecondsAre ==
  ASSUME NEW S, \A e \in S : e[2] \in Symbols, NEW s \in Seq(S)
  PROVE  /\ Seconds(s) \in Texts /\ Len(Seconds(s)) = Len(s) /\ Len(s) \in Nat
         /\ \A i \in 1 .. Len(s) : Seconds(s)[i] = s[i][2]
         /\ DOMAIN s = 1 .. Len(s)
<1>1. Len(s) \in Nat /\ DOMAIN s = 1 .. Len(s) /\ \A i \in 1 .. Len(s) : s[i] \in S
  BY LenProperties, ElementOfSeq
<1>2. Seconds(s) = [i \in 1 .. Len(s) |-> s[i][2]]
  BY <1>1 DEF Seconds
<1>3. [i \in 1 .. Len(s) |-> s[i][2]] \in [1 .. Len(s) -> Symbols]
  BY <1>1
<1>4. ASSUME NEW n \in Nat, NEW g \in [1 .. n -> Symbols]
      PROVE  g \in Texts /\ Len(g) = n
  BY DEF Texts
<1> QED
  BY <1>1, <1>2, <1>3, <1>4

\* What is of one kind in two sequences of tagged symbols, and in one of symbols tagged alike.
LEMMA OfTwo ==
  ASSUME NEW S, \A e \in S : e[2] \in Symbols, NEW k, NEW s \in Seq(S), NEW t \in Seq(S)
  PROVE  /\ Of(k, s) \in Texts /\ s \o t \in Seq(S) /\ Of(k, s \o t) = Of(k, s) \o Of(k, t)
<1> DEFINE p == s \o t
           P(x) == {i \in DOMAIN x : x[i][1] = k}
<1>1. /\ p \in Seq(S) /\ Len(p) = Len(s) + Len(t)
      /\ \A i \in 1 .. Len(s) : p[i] = s[i]
      /\ \A i \in 1 .. Len(t) : p[Len(s) + i] = t[i]
  BY ConcatIs
<1> HIDE DEF p
<1>2. \A x : Of(k, x) = Picked(Seconds(x), P(x))
  BY DEF Of, Seconds
<1>3. /\ Seconds(s) \in Texts /\ Len(Seconds(s)) = Len(s) /\ Len(s) \in Nat /\ DOMAIN s = 1 .. Len(s)
      /\ \A i \in 1 .. Len(s) : Seconds(s)[i] = s[i][2]
  BY SecondsAre
<1>4. /\ Seconds(t) \in Texts /\ Len(Seconds(t)) = Len(t) /\ Len(t) \in Nat /\ DOMAIN t = 1 .. Len(t)
      /\ \A i \in 1 .. Len(t) : Seconds(t)[i] = t[i][2]
  BY SecondsAre
<1>5. /\ Seconds(p) \in Texts /\ Len(Seconds(p)) = Len(p) /\ Len(p) \in Nat /\ DOMAIN p = 1 .. Len(p)
      /\ \A i \in 1 .. Len(p) : Seconds(p)[i] = p[i][2]
  BY <1>1, SecondsAre
<1> DEFINE a == Seconds(s)
           b == Seconds(t)
           d == Seconds(p)
<1>6. d = a \o b
  <2>1. a \in Texts /\ b \in Texts /\ d \in Texts /\ Len(d) = Len(a) + Len(b)
    BY <1>1, <1>3, <1>4, <1>5
  <2> HIDE DEF a, b, d
  <2>2. /\ a \o b \in Texts /\ Len(a \o b) = Len(a) + Len(b)
        /\ \A i \in 1 .. Len(a) : (a \o b)[i] = a[i]
        /\ \A i \in 1 .. Len(b) : (a \o b)[Len(a) + i] = b[i]
    BY <2>1, TextsConcat
  <2>3. ASSUME NEW i \in 1 .. Len(d)
        PROVE  d[i] = (a \o b)[i]
    <3>1. d[i] = p[i][2] /\ i \in 1 .. Len(s) + Len(t) /\ Len(a) = Len(s) /\ Len(b) = Len(t)
      BY <1>1, <1>3, <1>4, <1>5 DEF a, b, d
    <3>2. CASE i \in 1 .. Len(s)
      BY <1>1, <1>3, <2>2, <3>1, <3>2 DEF a
    <3>3. CASE i \notin 1 .. Len(s)
      <4> DEFINE j == i - Len(s)
      <4>1. j \in 1 .. Len(t) /\ Len(s) + j = i
        BY <1>3, <1>4, <3>1, <3>3
      <4> HIDE DEF j
      <4>2. p[Len(s) + j] = t[j] /\ (a \o b)[Len(a) + j] = b[j] /\ b[j] = t[j][2]
        BY <1>1, <1>4, <2>2, <3>1, <4>1 DEF b
      <4> QED
        BY <3>1, <4>1, <4>2
    <3> QED
      BY <3>2, <3>3
  <2>4. Len(d) = Len(a \o b)
    BY <2>1, <2>2
  <2>5. d \in Seq(Symbols) /\ a \o b \in Seq(Symbols)
    BY <2>1, <2>2 DEF Texts
  <2> QED
    BY ONLY <2>3, <2>4, <2>5, SeqEqual
<1>7. \A n \in 1 .. Len(a) : n \in P(p) <=> n \in P(s)
  BY <1>1, <1>3, <1>4, <1>5
<1>8. \A n \in 1 .. Len(b) : Len(a) + n \in P(p) <=> n \in P(t)
  <2>1. ASSUME NEW n \in 1 .. Len(b)
        PROVE  Len(a) + n \in P(p) <=> n \in P(t)
    <3>1. n \in 1 .. Len(t) /\ Len(a) + n = Len(s) + n /\ Len(s) + n \in 1 .. Len(p)
      BY <1>1, <1>3, <1>4
    <3> HIDE DEF a, b
    <3> QED
      BY <1>1, <1>4, <1>5, <3>1
  <2> QED
    BY <2>1
<1> DEFINE X == P(p)
           Y == P(s)
           Z == P(t)
<1>9. a \in Seq(Symbols) /\ b \in Seq(Symbols)
  BY <1>3, <1>4 DEF Texts
<1>10. Of(k, p) = Picked(d, X) /\ Of(k, s) = Picked(a, Y) /\ Of(k, t) = Picked(b, Z)
  BY <1>2
<1>11. /\ \A n \in 1 .. Len(a) : n \in X <=> n \in Y
       /\ \A n \in 1 .. Len(b) : Len(a) + n \in X <=> n \in Z
  BY <1>7, <1>8
<1> HIDE DEF a, b, d, X, Y, Z
<1>12. Picked(a \o b, X) = Picked(a, Y) \o Picked(b, Z)
  BY ONLY <1>9, <1>11, PickedConcat
<1>13. Picked(a, Y) \in Seq(Symbols)
  BY ONLY <1>9, PickedType
<1> QED
  BY <1>1, <1>6, <1>10, <1>12, <1>13 DEF p, Texts

LEMMA OfOne ==
  ASSUME NEW K, NEW k, NEW f \in K, NEW u \in Texts
  PROVE  /\ Tagged(f, u) \in Seq(K \X Symbols)
         /\ Of(k, Tagged(f, u)) = IF f = k THEN u ELSE <<>>
<1> DEFINE t == Tagged(f, u)
           P == {i \in DOMAIN t : t[i][1] = k}
<1>1. /\ t \in Seq(K \X Symbols) /\ Len(t) = Len(u)
      /\ \A i \in 1 .. Len(u) : t[i][1] = f /\ t[i][2] = u[i]
  <2> HIDE DEF t
  <2>1. t \in Seq(K \X Symbols) /\ Len(t) = Len(u) /\ t = [i \in 1 .. Len(u) |-> <<f, u[i]>>]
    BY TaggedIs DEF t
  <2>2. \A i \in 1 .. Len(u) : t[i] = <<f, u[i]>>
    BY ONLY <2>1
  <2> QED
    BY <2>1, <2>2
<1> HIDE DEF t
<1>2. /\ Seconds(t) \in Texts /\ Len(Seconds(t)) = Len(t) /\ DOMAIN t = 1 .. Len(t)
      /\ \A i \in 1 .. Len(t) : Seconds(t)[i] = t[i][2]
  <2> DEFINE S == K \X Symbols
  <2>1. t \in Seq(S) /\ \A e \in S : e[2] \in Symbols
    BY <1>1
  <2> HIDE DEF S
  <2> QED
    BY <2>1, SecondsAre
<1>3. Seconds(t) = u
  <2> DEFINE s == Seconds(t)
  <2>1. s \in Seq(Symbols) /\ u \in Seq(Symbols) /\ Len(s) = Len(u)
    BY <1>1, <1>2 DEF Texts
  <2>2. \A i \in 1 .. Len(s) : s[i] = u[i]
    BY <1>1, <1>2
  <2> HIDE DEF s
  <2>3. s = u
    BY ONLY <2>1, <2>2, SeqEqual
  <2> QED
    BY <2>3 DEF s
<1>4. Of(k, t) = Picked(u, P)
  BY <1>3 DEF Of, Seconds
<1>5. u \in Seq(Symbols)
  BY DEF Texts
<1>6. ASSUME f = k PROVE Of(k, t) = u
  <2>1. \A n \in 1 .. Len(u) : n \in P
    BY <1>1, <1>2, <1>6
  <2> HIDE DEF P
  <2>2. Picked(u, P) = u
    BY ONLY <1>5, <2>1, PickedAll
  <2> QED
    BY ONLY <1>4, <2>2
<1>7. ASSUME f # k PROVE Of(k, t) = <<>>
  <2>1. \A n \in 1 .. Len(u) : n \notin P
    BY <1>1, <1>2, <1>7
  <2> HIDE DEF P
  <2>2. Picked(u, P) = <<>>
    BY ONLY <1>5, <2>1, PickedNone
  <2> QED
    BY ONLY <1>4, <2>2
<1>8. t \in Seq(K \X Symbols)
  BY <1>1
<1>9. t = Tagged(f, u)
  BY DEF t
<1> QED
  BY ONLY <1>6, <1>7, <1>8, <1>9

LEMMA OfConcat ==
  ASSUME NEW k, NEW s \in Pairs, NEW t \in Pairs
  PROVE  Of(k, s) \in Texts /\ s \o t \in Pairs /\ Of(k, s \o t) = Of(k, s) \o Of(k, t)
<1> DEFINE S == Fields \X Symbols
<1>1. s \in Seq(S) /\ t \in Seq(S) /\ \A e \in S : e[2] \in Symbols
  BY DEF Pairs
<1> HIDE DEF S
<1>2. Of(k, s) \in Texts /\ s \o t \in Seq(S) /\ Of(k, s \o t) = Of(k, s) \o Of(k, t)
  BY <1>1, OfTwo
<1> QED
  BY <1>2 DEF Pairs, S

LEMMA OfTagged ==
  ASSUME NEW k, NEW f \in Fields, NEW u \in Texts
  PROVE  Tagged(f, u) \in Pairs /\ Of(k, Tagged(f, u)) = IF f = k THEN u ELSE <<>>
<1> DEFINE K == Fields
           v == Of(k, Tagged(f, u))
<1>1. f \in K
  OBVIOUS
<1> HIDE DEF K
<1>2. Tagged(f, u) \in Seq(K \X Symbols)
  BY <1>1, OfOne
<1>3. v = IF f = k THEN u ELSE <<>>
  BY <1>1, <1>2, OfOne
<1> QED
  BY <1>2, <1>3 DEF Pairs, K

\* The symbols of the first fragments, for each number of them.
Flats(g, fragments) ==
  /\ g \in [0 .. Len(fragments) -> Pairs]
  /\ g[0] = <<>>
  /\ \A n \in 1 .. Len(fragments) : g[n] = g[n - 1] \o Tagged(fragments[n][1], fragments[n][2])
  /\ Flat(fragments) = g[Len(fragments)]

LEMMA FlatIs ==
  ASSUME NEW fragments \in Seq(Fields \X Texts)
  PROVE  \E g : Flats(g, fragments)
<1> DEFINE L == Len(fragments)
           S == Fields \X Symbols
           ss == [i \in 1 .. L |-> Tagged(fragments[i][1], fragments[i][2])]
<1>1. L \in Nat /\ DOMAIN fragments = 1 .. L /\ \A n \in 1 .. L : fragments[n] \in Fields \X Texts
  BY ElementOfSeq, LenProperties
<1>2. Flat(fragments) = FlattenSeq(ss)
  BY <1>1 DEF Flat
<1>3. ASSUME NEW n \in 1 .. L
      PROVE  Tagged(fragments[n][1], fragments[n][2]) \in Seq(S)
  <2>1. fragments[n][1] \in Fields /\ fragments[n][2] \in Texts
    BY <1>1
  <2> HIDE DEF S
  <2> QED
    BY <2>1, TaggedIs DEF S
<1>4. ss \in Seq(Seq(S)) /\ Len(ss) = L
  <2>1. ASSUME NEW n \in Nat, NEW T, NEW g \in [1 .. n -> T]
        PROVE  g \in Seq(T) /\ Len(g) = n
    OBVIOUS
  <2>2. ss \in [1 .. L -> Seq(S)]
    BY <1>3
  <2> HIDE DEF S, L, ss
  <2> QED
    BY <1>1, <2>1, <2>2
<1>5. CASE fragments = <<>>
  <2> DEFINE g == [n \in 0 .. 0 |-> <<>>]
  <2>1. Flat(<<>>) = <<>> /\ <<>> \in Pairs /\ Len(<<>>) = 0
    <3>1. FlattenSeq(<<>>) = <<>>
      BY EmptySeq DEF FlattenSeq
    <3>2. [i \in DOMAIN <<>> |-> Tagged(<<>>[i][1], <<>>[i][2])] = <<>>
      OBVIOUS
    <3>3. <<>> \in Pairs /\ Len(<<>>) = 0
      BY EmptySeq DEF Pairs
    <3> QED
      BY <3>1, <3>2, <3>3 DEF Flat
  <2>2. L = 0
    BY <1>5, <2>1
  <2>3. Flats(g, fragments)
    BY <1>5, <2>1, <2>2 DEF Flats
  <2> QED
    BY <2>3
<1>6. CASE fragments # <<>>
  <2>1. L > 0
    BY <1>1, <1>6, EmptySeq
  <2>2. ss # <<>>
    <3>1. Len(ss) > 0 /\ Len(<<>>) = 0
      BY <1>1, <1>4, <2>1, EmptySeq
    <3> HIDE DEF ss
    <3> QED
      BY <3>1
  <2>3. PICK h : Flattens(h, S, ss)
    <3> HIDE DEF ss, S
    <3> QED
      BY <1>4, <2>2, FlattenIs
  <2> DEFINE g == [n \in 0 .. L |-> IF n = 0 THEN <<>> ELSE h[n]]
  <2>4. /\ h \in [1 .. L -> Seq(S)] /\ h[1] = ss[1] /\ FlattenSeq(ss) = h[L]
        /\ \A n \in 2 .. L : h[n] = h[n - 1] \o ss[n]
    BY <1>4, <2>3 DEF Flattens
  <2>5. <<>> \in Seq(S)
    BY EmptySeq
  <2>6. g \in [0 .. L -> Pairs] /\ g[0] = <<>> /\ FlattenSeq(ss) = g[L]
    BY <1>1, <2>1, <2>4, <2>5 DEF Pairs
  <2>7. ASSUME NEW n \in 1 .. L
        PROVE  g[n] = g[n - 1] \o Tagged(fragments[n][1], fragments[n][2])
    <3>1. ss[n] = Tagged(fragments[n][1], fragments[n][2]) /\ ss[n] \in Seq(S)
      BY <1>3
    <3>2. CASE n = 1
      <4>1. g[n] = ss[n] /\ g[n - 1] = <<>>
        BY <2>1, <2>4, <3>2
      <4>2. <<>> \o ss[n] = ss[n]
        <5> DEFINE e == ss[n]
        <5>1. e \in Seq(S)
          BY <3>1
        <5> HIDE DEF e, S
        <5>2. <<>> \o e = e
          BY <5>1, ConcatEmptySeq
        <5> QED
          BY <5>2 DEF e
      <4> HIDE DEF g, ss
      <4> QED
        BY <3>1, <4>1, <4>2
    <3>3. CASE n # 1
      <4>1. n \in 2 .. L /\ n \in 0 .. L /\ n - 1 \in 0 .. L /\ n # 0 /\ n - 1 # 0
        BY <1>1, <3>3
      <4>2. g[n] = h[n] /\ g[n - 1] = h[n - 1]
        BY <4>1
      <4> HIDE DEF g, ss
      <4> QED
        BY <2>4, <3>1, <4>1, <4>2
    <3> QED
      BY <3>2, <3>3
  <2> HIDE DEF g, ss
  <2>8. Flats(g, fragments)
    BY <1>2, <2>6, <2>7 DEF Flats
  <2> QED
    BY <2>8
<1> QED
  BY <1>5, <1>6

\* What the fragments after the n-th leave unread is not looked at: the state after n fragments is
\* that of one call of feed with their content, unless one has raised.
LEMMA ThroughReadsWhole ==
  ASSUME NEW content \in Texts, NEW p \in ToolStates, ~p.failed, p.out = <<>>, NEW out \in Outs,
         ReadWhole(content, p, out), NEW fragments \in Seq(Fields \X Texts)
  PROVE  LET q == ThroughTools(p, fragments)
         IN  ~q.failed =>
               ReadWhole(content \o Of("content", Flat(fragments)), q, out \o q.out)
<1> DEFINE L == Len(fragments)
<1>1. L \in Nat /\ \A n \in 1 .. L : fragments[n] \in Fields \X Texts
  BY ElementOfSeq, LenProperties
<1>2. PICK h : Through(h, p, fragments)
  BY ThroughToolsAre
<1>3. PICK g : Flats(g, fragments)
  BY FlatIs
<1> DEFINE Read(n) == ReadWhole(content \o Of("content", g[n]), h[n], out \o h[n].out)
           T == {n \in 0 .. L : ~h[n].failed => Read(n)}
<1>4. 0 .. L \subseteq T
  <2>1. 0 \in T
    <3>1. g[0] = <<>> /\ h[0] = p /\ 0 \in 0 .. L
      BY <1>1, <1>2, <1>3 DEF Through, Flats
    <3>2. Of("content", <<>>) = <<>>
      <4>1. <<>> \in Texts /\ Tagged("content", <<>>) = <<>>
        BY EmptySeq DEF Texts, Tagged
      <4>2. Of("content", Tagged("content", <<>>)) = <<>>
        BY <4>1, OfTagged DEF Fields
      <4> QED
        BY <4>1, <4>2
    <3>3. content \o <<>> = content /\ out \o <<>> = out
      BY EmptyOut, ConcatEmptySeq DEF Texts
    <3>4. Read(0)
      BY <3>1, <3>2, <3>3
    <3> QED
      BY <3>1, <3>4
  <2>2. ASSUME NEW n \in 0 .. L - 1, n \in T
        PROVE  n + 1 \in T
    <3> DEFINE m == n + 1
               f == fragments[m][1]
               u == fragments[m][2]
    <3>1. m \in 1 .. L /\ m \in 0 .. L /\ m - 1 = n /\ n \in 0 .. L
      BY <1>1
    <3>2. /\ h[m] = OneThroughTools(h[n], fragments[m]) /\ h[n] \in ToolStates /\ h[m] \in ToolStates
          /\ g[m] = g[n] \o Tagged(f, u) /\ g[n] \in Pairs /\ f \in Fields /\ u \in Texts
      BY <1>1, <1>2, <1>3, <3>1 DEF Through, Flats
    <3>3. ~h[n].failed => Read(n)
      BY <2>2
    <3> HIDE DEF m
    <3> SUFFICES ASSUME ~h[m].failed PROVE Read(m)
      BY <3>1 DEF m
    <3> DEFINE c == Of("content", g[n])
    <3>4. /\ c \in Texts
          /\ Of("content", g[m]) = c \o (IF f = "content" THEN u ELSE <<>>)
      <4> DEFINE t == Tagged(f, u)
      <4>1. t \in Pairs /\ Of("content", t) = IF f = "content" THEN u ELSE <<>>
        BY <3>2, OfTagged
      <4>2. g[m] = g[n] \o t
        BY <3>2
      <4> HIDE DEF t
      <4>3. c \in Texts /\ Of("content", g[n] \o t) = c \o Of("content", t)
        BY <3>2, <4>1, OfConcat
      <4> QED
        BY <4>1, <4>2, <4>3
    <3>5. CASE h[n].failed \/ f # "content"
      <4>1. h[m] = h[n]
        BY <3>2, <3>5 DEF OneThroughTools
      <4>2. f # "content"
        BY <3>5, <4>1
      <4>3. Of("content", g[m]) = c
        <5>1. c \o <<>> = c
          <6> HIDE DEF c
          <6> QED
            BY <3>4, ConcatEmptySeq DEF Texts
        <5> QED
          BY <3>4, <4>2, <5>1
      <4> QED
        BY <3>3, <4>1, <4>3
    <3>6. CASE ~h[n].failed /\ f = "content"
      <4> DEFINE s == h[n]
                 next == ToolFeed(s, u)
      <4>1. h[m] = [next EXCEPT !.out = s.out \o next.out]
        BY <3>2, <3>6 DEF OneThroughTools
      <4>2. next \in ToolStates
        BY <3>2, ToolFeedIs
      <4>3. /\ ~next.failed /\ h[m].buffer = next.buffer /\ h[m].out = s.out \o next.out
        <5> HIDE DEF next
        <5> QED
          BY <4>1, <4>2 DEF ToolStates
      <4> DEFINE whole == content \o c
                 before == out \o s.out
      <4>4. /\ whole \in Texts /\ before \in Outs /\ ReadWhole(whole, s, before) /\ s \in ToolStates
            /\ ~s.failed /\ s.out \in Outs /\ next.out \in Outs
        <5>1. ReadWhole(whole, s, before)
          BY <3>3, <3>6
        <5>2. s.out \in Outs /\ next.out \in Outs
          BY <3>2, <4>2 DEF ToolStates, Outs
        <5> HIDE DEF c, next
        <5>3. whole \in Texts /\ before \in Outs
          BY <3>4, <5>2, TextsConcat, OutsConcat
        <5> QED
          BY <3>2, <3>6, <5>1, <5>2, <5>3
      <4> HIDE DEF whole, before, c, s
      <4>5. ReadWhole(whole \o u, next, before \o next.out)
        BY <3>2, <4>3, <4>4, FeedMore
      <4> HIDE DEF next
      <4>6. whole \o u = content \o Of("content", g[m])
        <5>1. content \in Texts /\ c \in Texts /\ u \in Texts
          BY <3>2, <3>4
        <5>2. (content \o c) \o u = content \o (c \o u)
          BY ONLY <5>1, TextsAssociate
        <5> QED
          BY <3>4, <3>6, <5>2 DEF whole
      <4>7. before \o next.out = out \o h[m].out
        <5>1. out \in Outs /\ s.out \in Outs /\ next.out \in Outs
          BY <4>4
        <5>2. (out \o s.out) \o next.out = out \o (s.out \o next.out)
          BY ONLY <5>1, OutsAssociate
        <5> QED
          BY <4>3, <5>2 DEF before
      <4> QED
        BY <4>3, <4>5, <4>6, <4>7 DEF ReadWhole
    <3> QED
      BY <3>5, <3>6
  <2> HIDE DEF T, L
  <2> QED
    BY <1>1, <2>1, <2>2, InductionUpTo
<1>5. L \in T
  BY <1>1, <1>4
<1> QED
  BY <1>2, <1>3, <1>5 DEF Through, Flats

\* The tool parser has read the content as a whole.
WholeInv ==
  LET content == Of("content", split)
      whole   == ToolFeed(State(<<>>, <<>>), content)
  IN  /\ reply \in Outs
      /\ phase = "streaming" => ReadWhole(content, tools, reply)
      /\ phase = "completed" => ~whole.failed /\ reply = whole.out \o ToolFlush(whole).out

LEMMA WholeInit == Init => WholeInv
<1> SUFFICES ASSUME Init PROVE WholeInv
  OBVIOUS
<1>1. <<>> \in Texts /\ <<>> \in Outs /\ split = <<>> /\ reply = <<>> /\ phase = "streaming"
      /\ tools.buffer = <<>>
  BY EmptyOut, MarkersApart, NoneInEmpty DEF Init, Apart
<1>2. Of("content", <<>>) = <<>>
  <2>1. Tagged("content", <<>>) = <<>>
    BY DEF Tagged
  <2>2. Of("content", Tagged("content", <<>>)) = <<>>
    BY <1>1, OfTagged DEF Fields
  <2> QED
    BY <2>1, <2>2
<1>3. ToolFeed(State(<<>>, <<>>), <<>>) = State(<<>>, <<>>)
  <2> DEFINE e == <<>>
             s == State(e, e)
  <2>1. /\ e \in Texts /\ e \in Outs /\ e \o e = e /\ Hits(Openings, e) = {} /\ Held(Openings, e) = e
        /\ Tagged("content", e) = e
    BY <1>1, EmptyOut, MarkersApart, NoneInEmpty DEF Apart, Tagged
  <2>2. ~HoldsBlock(e) /\ WithheldOf(e) = e
    BY <2>1 DEF HoldsBlock, WithheldOf
  <2>3. Without(e, e) = e
    <3>1. /\ Without(e, e) \in Texts /\ Without(e, e) \o e = e
      BY <2>1, <2>2, WithheldIs
    <3>2. \A t \in Texts : t \o e = t
      BY ConcatEmptySeq DEF Texts
    <3> QED
      BY <3>1, <3>2
  <2> HIDE DEF e
  <2>4. Looped(e, e) = State(e, e)
    <3>1. Looped(e, e) = State(WithheldOf(e), e \o Tagged("content", Without(e, WithheldOf(e))))
      BY <2>1, <2>2, LoopedUnfolds
    <3> QED
      BY <3>1, <2>1, <2>2, <2>3
  <2>5. [s EXCEPT !.buffer = @ \o e, !.out = <<>>] = State(e, e)
    <3> DEFINE z == [s EXCEPT !.buffer = @ \o e, !.out = <<>>]
    <3>1. s \in [buffer : {e}, failed : {FALSE}, out : {e}]
      BY DEF State
    <3>2. e = <<>>
      BY DEF e
    <3>3. /\ z \in [buffer : {e}, failed : {FALSE}, out : {e}]
          /\ z.buffer = e /\ z.failed = FALSE /\ z.out = e
      BY <2>1, <3>1, <3>2
    <3> HIDE DEF z
    <3>4. z = [buffer |-> e, failed |-> FALSE, out |-> e]
      BY <3>3
    <3> QED
      BY <3>4 DEF State, z
  <2>6. ToolFeed(s, e) = State(e, e)
    <3>1. State(e, e).failed = FALSE
      BY DEF State
    <3>2. ToolFeed(s, e) = LET l == ToolLoop([s EXCEPT !.buffer = @ \o e, !.out = <<>>])
                           IN  IF l.failed THEN [l EXCEPT !.out = <<>>] ELSE l
      BY DEF ToolFeed
    <3>3. ToolLoop(State(e, e)) = State(e, e)
      BY <2>4 DEF Looped
    <3> HIDE DEF s
    <3> QED
      BY <2>5, <3>1, <3>2, <3>3
  <2> QED
    BY <2>6 DEF e
<1> QED
  BY <1>1, <1>2, <1>3 DEF WholeInv, ReadWhole

LEMMA WholeStep == StopInv /\ ThinkingInv /\ ToolsInv /\ WholeInv /\ [Next]_replyVars => WholeInv'
<1> SUFFICES ASSUME StopInv, ThinkingInv, ToolsInv, WholeInv, [Next]_replyVars PROVE WholeInv'
  OBVIOUS
<1> DEFINE content == Of("content", split)
<1>1. /\ thinking \in ThinkingStates /\ thinking.out = <<>> /\ split \in Pairs /\ content \in Texts
      /\ released \in Texts /\ stop.buffer \in Texts /\ request \in Requests /\ reply \in Outs
  <2>1. split \in Pairs
    BY DEF ThinkingInv, Pairs
  <2>2. content \in Texts
    BY <2>1, OfConcat
  <2> QED
    BY <2>1, <2>2 DEF ThinkingInv, StopInv, WholeInv
<1> HIDE DEF content
<1>2. ASSUME NEW u \in Texts, phase = "streaming"
      PROVE  ThinkingFeed(thinking, u) \in ThinkingStates
  <2>1. Reads(thinking, request.first, split, released) /\ split \in Seq(Fields \X Symbols)
    BY <1>2 DEF ThinkingInv
  <2> QED
    BY <1>1, <2>1, ThinkingFeedIs
<1>3. ASSUME NEW q \in ThinkingStates, phase = "streaming"
      PROVE  LET r == ThroughTools(tools, q.out)
             IN  /\ r \in ToolStates
                 /\ ~r.failed => ReadWhole(Of("content", split \o Flat(q.out)), r, reply \o r.out)
  <2> DEFINE r == ThroughTools(tools, q.out)
  <2>1. /\ q.out \in Seq(Fields \X Texts) /\ tools \in ToolStates /\ ~tools.failed /\ tools.out = <<>>
        /\ Withheld(tools.buffer) /\ ReadWhole(content, tools, reply)
    BY <1>3 DEF ThinkingStates, ToolsInv, WholeInv, content
  <2>2. r \in ToolStates
    BY <2>1, ThroughToolsIs
  <2>3. ~r.failed => ReadWhole(content \o Of("content", Flat(q.out)), r, reply \o r.out)
    BY <1>1, <2>1, ThroughReadsWhole
  <2>4. Flat(q.out) \in Pairs
    <3>1. q.field \in Fields /\ q.buffer \in Texts
      BY DEF ThinkingStates
    <3> QED
      BY <2>1, <3>1, FragmentIs DEF Pairs
  <2>5. Of("content", split \o Flat(q.out)) = content \o Of("content", Flat(q.out))
    BY <1>1, <2>4, OfConcat DEF content
  <2> QED
    BY <2>2, <2>3, <2>5
<1>4. ASSUME NEW piece \in Vocabularies[request.vocabulary].pieces, Respond(piece)
      PROVE  WholeInv'
  <2> DEFINE u == StopFeed(request.stops, stop, piece).out
             q == ThinkingFeed(thinking, u)
             r == ThroughTools(tools, q.out)
  <2>1. /\ phase = "streaming" /\ tools' = Kept(r) /\ split' = split \o Flat(q.out)
        /\ reply' = reply \o r.out
        /\ phase' = IF tools'.failed THEN "failed" ELSE "streaming"
    BY <1>4, SplitIsFlat DEF Respond, Parse
  <2>2. u \in Texts
    <3>1. /\ Settled(request.stops, released, stop.buffer) /\ Hits(request.stops, released) = {}
          /\ request.stops \in Marks /\ piece \in Texts
      BY <1>1, <1>4, <2>1, StopsOfRequests DEF StopInv, Respond
    <3> QED
      BY <1>1, <3>1, StopFeedIs
  <2> HIDE DEF u
  <2>3. q \in ThinkingStates
    BY <1>2, <2>1, <2>2
  <2> HIDE DEF q
  <2>4. /\ r \in ToolStates
        /\ ~r.failed => ReadWhole(Of("content", split \o Flat(q.out)), r, reply \o r.out)
    BY <1>3, <2>1, <2>3
  <2> HIDE DEF r
  <2>5. Kept(r).failed = r.failed /\ Kept(r).buffer = r.buffer /\ reply \o r.out \in Outs
    <3>1. r.out \in Outs
      BY <2>4 DEF ToolStates, Outs
    <3> QED
      BY <1>1, <2>4, <3>1, OutsConcat DEF Kept, ToolStates
  <2> QED
    BY <2>1, <2>4, <2>5 DEF WholeInv, ReadWhole
<1>5. CASE Finish
  <2> DEFINE u == StopFlush(stop).out
             q0 == ThinkingFeed(thinking, u)
             q == ThinkingEnds(q0)
             r == ThroughTools(tools, q.out)
             e == ToolsEnd(r)
  <2>1. /\ phase = "streaming" /\ tools' = Kept(e) /\ split' = split \o Flat(q.out)
        /\ reply' = reply \o e.out
        /\ phase' # "streaming" /\ (phase' = "completed" => ~tools'.failed)
    BY <1>5, SplitIsFlat DEF Finish, Parse
  <2>2. u \in Texts
    BY <1>1, MarkersApart, NoneInEmpty DEF StopFlush, Apart, StopInv
  <2> HIDE DEF u
  <2>3. q0 \in ThinkingStates
    BY <1>2, <2>1, <2>2
  <2> HIDE DEF q0
  <2>4. q \in ThinkingStates
    <3>1. q0.out \o Fragment(q0.field, q0.buffer) \in Seq(Fields \X Texts)
      BY <2>3, FragmentIs DEF ThinkingStates
    <3>2. <<>> \in Texts
      BY MarkersApart, NoneInEmpty DEF Apart
    <3> QED
      BY <2>3, <3>1, <3>2 DEF ThinkingEnds, ThinkingFlush, ThinkingStates
  <2> HIDE DEF q
  <2>5. /\ r \in ToolStates
        /\ ~r.failed => ReadWhole(Of("content", split \o Flat(q.out)), r, reply \o r.out)
    BY <1>3, <2>1, <2>4
  <2> HIDE DEF r
  <2>6. CASE r.failed
    <3>1. e = r
      BY <2>6 DEF ToolsEnd
    <3>2. Kept(r).failed = r.failed
      BY <2>5 DEF Kept, ToolStates
    <3>3. reply \o r.out \in Outs
      BY <1>1, <2>5, OutsConcat DEF ToolStates, Outs
    <3> QED
      BY <2>1, <2>6, <3>1, <3>2, <3>3 DEF WholeInv
  <2>7. CASE ~r.failed
    <3> DEFINE f == ToolFlush(r)
               w == State(r.buffer, reply \o r.out)
    <3>1. /\ f.failed = Parsed(r.buffer).failed /\ f.failed \in BOOLEAN /\ f.out \in Outs
          /\ f = [buffer |-> f.buffer, failed |-> f.failed, out |-> f.out]
      <4>1. r.buffer \in Texts
        BY <2>5 DEF ToolStates
      <4>2. /\ Parsed(r.buffer).visible \in Texts /\ Parsed(r.buffer).calls \in Texts
            /\ Parsed(r.buffer).failed \in BOOLEAN
        BY <4>1, ParsedIs
      <4> DEFINE v == Parsed(r.buffer)
                 x == Tagged("content", v.visible)
                 y == Tagged("tool_call", v.calls)
      <4>3. x \in Outs /\ y \in Outs
        BY <4>2, TaggedConcat DEF Kinds
      <4>4. f = [buffer |-> <<>>, failed |-> v.failed, out |-> IF v.failed THEN <<>> ELSE x \o y]
        BY DEF ToolFlush
      <4>5. v.failed \in BOOLEAN
        BY <4>2
      <4> HIDE DEF v, x, y
      <4>6. x \o y \in Outs /\ <<>> \in Outs
        BY <4>3, OutsConcat, EmptyOut
      <4> HIDE DEF f
      <4> QED
        BY <4>4, <4>5, <4>6 DEF v
    <3> DEFINE o == r.out \o f.out
    <3>2. e = [f EXCEPT !.out = o]
      BY <2>7 DEF ToolsEnd
    <3>3. ToolFlush(w).out = f.out
      BY DEF ToolFlush, State
    <3> HIDE DEF f, o
    <3>4. e.out = o /\ e.failed = f.failed /\ Kept(e).failed = f.failed
      BY <3>1, <3>2 DEF Kept
    <3>5. /\ r.out \in Outs /\ o \in Outs /\ reply \o o \in Outs
          /\ reply \o o = (reply \o r.out) \o f.out
      <4>1. r.out \in Outs /\ f.out \in Outs /\ reply \in Outs
        BY <1>1, <2>5, <3>1 DEF ToolStates, Outs
      <4>2. (reply \o r.out) \o f.out = reply \o (r.out \o f.out)
        BY ONLY <4>1, OutsAssociate
      <4>3. o \in Outs
        BY <4>1, OutsConcat DEF o
      <4> QED
        BY <4>1, <4>2, <4>3, OutsConcat DEF o
    <3>6. ToolFeed(State(<<>>, <<>>), Of("content", split')) = w
      BY <2>1, <2>5, <2>7 DEF ReadWhole
    <3>7. w.failed = FALSE /\ w.out = reply \o r.out
      BY DEF State
    <3> HIDE DEF w
    <3> QED
      BY <2>1, <3>3, <3>4, <3>5, <3>6, <3>7 DEF WholeInv
  <2> QED
    BY <2>6, <2>7
<1>6. CASE UNCHANGED replyVars
  BY <1>6 DEF WholeInv, ReadWhole, replyVars
<1> QED
  BY <1>4, <1>5, <1>6 DEF Next

\* What the tool parser makes of the content does not depend on how the responses and the markers
\* cut it: one call of feed with all of it returns the same content and calls and withholds the same
\* text, for all texts, markers and tools (ToolCallStreamParser.feed, flush; _chat_protocol_events).
THEOREM TheContentIsReadAsAWhole == Spec => []ContentIsReadAsAWhole
<1>1. ToolsInv /\ WholeInv => ContentIsReadAsAWhole
  <2> SUFFICES ASSUME ToolsInv, WholeInv PROVE ContentIsReadAsAWhole
    OBVIOUS
  <2> DEFINE whole == ToolFeed(State(<<>>, <<>>), Of("content", split))
  <2>1. whole = ToolFeed([buffer |-> <<>>, failed |-> FALSE, out |-> <<>>], Of("content", split))
    BY DEF State
  <2>2. phase = "streaming" => whole = State(tools.buffer, reply)
    BY DEF WholeInv, ReadWhole
  <2>3. phase = "completed" => ~whole.failed /\ reply = whole.out \o ToolFlush(whole).out
    BY DEF WholeInv
  <2> HIDE DEF whole
  <2>4. phase = "streaming" => whole.out = reply /\ whole.buffer = tools.buffer
    BY <2>2 DEF State
  <2> QED
    BY <2>1, <2>3, <2>4 DEF ContentIsReadAsAWhole
<1> DEFINE Inv == StopInv /\ ThinkingInv /\ ToolsInv /\ WholeInv
<1>2. Init => Inv
  BY StopInit, ThinkingInit, ToolsInit, WholeInit
<1>3. Inv /\ [Next]_replyVars => Inv'
  BY StopStep, ThinkingStep, ToolsStep, WholeStep
<1>4. Inv => ContentIsReadAsAWhole
  BY <1>1
<1> QED
  BY <1>2, <1>3, <1>4, PTL DEF Spec

--------------------------------------------------------------------------------
(***************************************************************************)
(* Replies in one dialect, read with and without streaming.                *)
(***************************************************************************)

\* The whole calls of a dialect.
CallOf(d, y) == d[1] \o <<y>> \o d[2]
BlockMarks(d) == {CallOf(d, y) : y \in Declared \cup Undeclared}

LEMMA DialectIs ==
  ASSUME NEW d \in Dialects
  PROVE  /\ d[1] \in Openings /\ d[1] \in Texts /\ d[2] \in Texts
         /\ Len(d[1]) \in Nat \ {0} /\ Len(d[2]) \in Nat \ {0}
         /\ d[1][1] = "<" /\ \A i \in 2 .. Len(d[1]) : d[1][i] # "<"
         /\ d[2][1] = "<" /\ \A i \in 2 .. Len(d[2]) : d[2][i] # "<"
<1>1. d[1] \in Openings /\ Apart(Openings) /\ Apart({d[2]})
  BY MarkersApart, ClosingsApart DEF Openings
<1>2. d[1] \in Texts \ {<<>>} /\ d[2] \in Texts \ {<<>>}
  BY <1>1 DEF Apart, Marks
<1>3. Len(d[1]) \in Nat \ {0} /\ Len(d[2]) \in Nat \ {0}
  BY <1>2, EmptySeq, LenProperties DEF Texts
<1> QED
  BY <1>1, <1>2, <1>3 DEF Apart

LEMMA CallIs ==
  ASSUME NEW d \in Dialects, NEW y \in Declared \cup Undeclared
  PROVE  LET k == CallOf(d, y)
             n == Len(d[1])
         IN  /\ k \in Texts /\ Len(k) = n + 1 + Len(d[2]) /\ <<y>> \in Texts
             /\ k = d[1] \o (<<y>> \o d[2])
             /\ \A i \in 1 .. n : k[i] = d[1][i]
             /\ k[n + 1] = y /\ y # "<"
             /\ \A i \in 1 .. Len(d[2]) : k[n + 1 + i] = d[2][i]
<1> DEFINE a == d[1]
           b == <<y>>
           c == d[2]
           e == a \o b
           k == e \o c
<1>1. a \in Texts /\ c \in Texts /\ b \in Texts /\ Len(b) = 1 /\ b[1] = y /\ y # "<"
  BY DialectIs, CallsAreToldApart DEF Texts
<1> HIDE DEF a, b, c
<1>2. /\ e \in Texts /\ Len(e) = Len(a) + 1 /\ Len(a) \in Nat
      /\ \A i \in 1 .. Len(a) : e[i] = a[i]
      /\ \A i \in 1 .. 1 : e[Len(a) + i] = b[i]
  <2>1. /\ e \in Texts /\ Len(e) = Len(a) + Len(b) /\ Len(a) \in Nat
        /\ \A i \in 1 .. Len(a) : e[i] = a[i]
        /\ \A i \in 1 .. Len(b) : e[Len(a) + i] = b[i]
    BY <1>1, TextsConcat
  <2> HIDE DEF e
  <2> QED
    BY <1>1, <2>1
<1>3. e \o c = a \o (b \o c)
  BY <1>1, TextsAssociate
<1>4. e[Len(a) + 1] = y
  BY <1>1, <1>2
<1> HIDE DEF e
<1>5. /\ k \in Texts /\ Len(k) = Len(e) + Len(c)
      /\ \A i \in 1 .. Len(e) : k[i] = e[i]
      /\ \A i \in 1 .. Len(c) : k[Len(e) + i] = c[i]
  BY <1>1, <1>2, TextsConcat
<1>6. k = CallOf(d, y)
  BY DEF CallOf, a, b, c, e
<1> HIDE DEF k
<1>7. \A i \in 1 .. Len(a) : k[i] = a[i]
  BY <1>2, <1>5
<1>8. k[Len(a) + 1] = y
  BY <1>2, <1>4, <1>5
<1>9. k = a \o (b \o c)
  BY <1>3 DEF k
<1> QED
  BY <1>1, <1>2, <1>5, <1>6, <1>7, <1>8, <1>9 DEF a, b, c

LEMMA BlockMarksAre ==
  ASSUME NEW d \in Dialects
  PROVE  /\ BlockMarks(d) \in Marks
         /\ \A t : Blocks(d, t) = Hits(BlockMarks(d), t)
<1>1. ASSUME NEW y \in Declared \cup Undeclared
      PROVE  CallOf(d, y) \in Texts \ {<<>>}
  <2> DEFINE k == CallOf(d, y)
             a == Len(d[1])
             b == Len(d[2])
  <2>1. k \in Texts /\ Len(k) = a + 1 + b /\ a \in Nat /\ b \in Nat
    BY CallIs, DialectIs
  <2> HIDE DEF k, a, b
  <2>2. k # <<>>
    BY <2>1
  <2> QED
    BY <2>1, <2>2 DEF k
<1> QED
  BY <1>1 DEF BlockMarks, Blocks, CallOf, Marks

\* Where a call is, its opening is.
LEMMA CallOpens ==
  ASSUME NEW d \in Dialects, NEW y \in Declared \cup Undeclared, NEW t, NEW i \in Nat,
         Agrees(CallOf(d, y), t, i)
  PROVE  Agrees(d[1], t, i)
<1> DEFINE k == CallOf(d, y)
           m == d[1]
           c == Len(d[2])
<1>1. /\ Len(k) = Len(m) + 1 + c /\ Len(m) \in Nat /\ c \in Nat
      /\ \A j \in 1 .. Len(m) : k[j] = m[j]
  BY CallIs, DialectIs
<1>2. Agrees(k, t, i)
  OBVIOUS
<1> HIDE DEF k, m, c
<1>3. \A j \in 1 .. Len(m) : j \in 1 .. Len(k)
  BY <1>1
<1>4. Agrees(m, t, i)
  BY <1>1, <1>2, <1>3 DEF Agrees
<1> QED
  BY <1>4 DEF m

LEMMA BlocksOpen ==
  ASSUME NEW d \in Dialects, NEW t \in Texts
  PROVE  \A h \in Blocks(d, t) : /\ <<h[1], d[1]>> \in Hits(Openings, t) /\ h = <<h[1], h[2]>>
                                 /\ h[1] \in 1 .. Len(t) /\ Ends(h[2], h[1]) <= Len(t)
                                 /\ h[2] \in BlockMarks(d)
<1> SUFFICES ASSUME NEW h \in Blocks(d, t)
             PROVE  /\ <<h[1], d[1]>> \in Hits(Openings, t) /\ h = <<h[1], h[2]>>
                    /\ h[1] \in 1 .. Len(t) /\ Ends(h[2], h[1]) <= Len(t)
                    /\ h[2] \in BlockMarks(d)
  OBVIOUS
<1>1. BlockMarks(d) \in Marks /\ h \in Hits(BlockMarks(d), t)
  BY BlockMarksAre
<1>2. h = <<h[1], h[2]>>
  BY <1>1, HitsAre
<1>3. /\ h[1] \in 1 .. Len(t) /\ h[2] \in BlockMarks(d) /\ Agrees(h[2], t, h[1]) /\ Ends(h[2], h[1]) <= Len(t)
  BY <1>1, <1>2, HitsAre
<1>4. PICK y \in Declared \cup Undeclared : h[2] = CallOf(d, y)
  BY <1>3 DEF BlockMarks
<1>5. h[1] \in Nat /\ Len(t) \in Nat
  BY <1>3, LenProperties DEF Texts
<1>6. Agrees(d[1], t, h[1])
  BY <1>3, <1>4, <1>5, CallOpens
<1>7. Ends(d[1], h[1]) <= Ends(h[2], h[1]) /\ Ends(d[1], h[1]) \in Int /\ Ends(h[2], h[1]) \in Int
  <2> DEFINE n == Len(h[2])
             a == Len(d[1])
             b == Len(d[2])
             i == h[1]
  <2>1. n = a + 1 + b /\ a \in Nat /\ b \in Nat /\ i \in Nat
    <3>1. Len(CallOf(d, y)) = a + 1 + b /\ a \in Nat /\ b \in Nat
      BY CallIs, DialectIs
    <3> QED
      BY <1>4, <1>5, <3>1
  <2> HIDE DEF n, a, b, i
  <2>2. i + a - 1 <= i + n - 1 /\ i + a - 1 \in Int /\ i + n - 1 \in Int
    BY <2>1
  <2> QED
    BY <2>2 DEF Ends, n, a, b, i
<1>8. Ends(d[1], h[1]) <= Len(t)
  BY <1>3, <1>5, <1>7
<1>9. Openings \in Marks /\ d[1] \in Openings
  BY MarkersApart, DialectIs DEF Apart
<1> QED
  BY <1>2, <1>3, <1>6, <1>8, <1>9, HitsAre

\* What is in the end of a text is in the text, and what begins there in the text is in its end.
LEMMA HitsOfRest ==
  ASSUME NEW marks \in Marks, NEW c \in Texts, NEW b \in Texts
  PROVE  \A i \in 1 .. Len(b) : \A m :
           <<Len(c) + i, m>> \in Hits(marks, c \o b) <=> <<i, m>> \in Hits(marks, b)
<1> DEFINE t == c \o b
<1>1. /\ t \in Texts /\ Len(t) = Len(c) + Len(b) /\ Len(c) \in Nat /\ Len(b) \in Nat
      /\ \A m \in marks : m \in Texts /\ Len(m) \in Nat
  BY TextsConcat, LenProperties DEF Texts, Marks
<1>2. ASSUME NEW m \in marks, NEW i \in 1 .. Len(b)
      PROVE  Agrees(m, t, Len(c) + i) <=> Agrees(m, b, i)
  BY <1>1, ConcatAgrees
<1> HIDE DEF t
<1>3. ASSUME NEW i \in 1 .. Len(b), NEW m
      PROVE  <<Len(c) + i, m>> \in Hits(marks, t) <=> <<i, m>> \in Hits(marks, b)
  <2>1. Len(c) + i \in 1 .. Len(t)
    BY <1>1
  <2>2. m \in marks => (Ends(m, Len(c) + i) <= Len(t) <=> Ends(m, i) <= Len(b))
    BY <1>1 DEF Ends
  <2>3. <<Len(c) + i, m>> \in Hits(marks, t)
          <=> m \in marks /\ Agrees(m, t, Len(c) + i) /\ Ends(m, Len(c) + i) <= Len(t)
    BY <1>1, <2>1, HitsAre
  <2>4. <<i, m>> \in Hits(marks, b) <=> m \in marks /\ Agrees(m, b, i) /\ Ends(m, i) <= Len(b)
    BY HitsAre
  <2> QED
    BY <1>2, <2>2, <2>3, <2>4
<1> QED
  BY <1>3 DEF t

LEMMA PrefixIs ==
  ASSUME NEW m \in Texts, NEW n \in Texts, Len(m) <= Len(n), \A i \in 1 .. Len(m) : m[i] = n[i]
  PROVE  IsPrefix(m, n)
<1>1. Len(m) \in 0 .. Len(n) /\ Len(m) \in 0 .. Len(m) /\ Len(m) \in Nat
  BY LenProperties DEF Texts
<1>2. /\ SubSeq(m, 1, Len(m)) \in Texts /\ Len(SubSeq(m, 1, Len(m))) = Len(m)
      /\ \A k \in 1 .. Len(m) : SubSeq(m, 1, Len(m))[k] = m[k]
  BY <1>1, BeginningIs
<1>3. /\ SubSeq(n, 1, Len(m)) \in Texts /\ Len(SubSeq(n, 1, Len(m))) = Len(m)
      /\ \A k \in 1 .. Len(m) : SubSeq(n, 1, Len(m))[k] = n[k]
  BY <1>1, BeginningIs
<1>4. SubSeq(m, 1, Len(m)) = SubSeq(n, 1, Len(m))
  BY <1>2, <1>3, SeqEqual DEF Texts
<1> QED
  BY <1>4 DEF IsPrefix

\* No call of a dialect begins in a call of it and goes on after its end.
LEMMA CallSettles ==
  ASSUME NEW d \in Dialects, NEW y \in Declared \cup Undeclared, NEW r \in Texts
  PROVE  Settled(BlockMarks(d), CallOf(d, y), r)
<1> DEFINE k == CallOf(d, y)
           a == d[1]
           c == d[2]
           n == Len(a)
           t == k \o r
<1>1. /\ a \in Texts /\ c \in Texts /\ n \in Nat \ {0} /\ Len(c) \in Nat \ {0}
      /\ a[1] = "<" /\ \A i \in 2 .. n : a[i] # "<"
      /\ c[1] = "<" /\ \A i \in 2 .. Len(c) : c[i] # "<"
      /\ ~IsPrefix(a, c) /\ ~IsPrefix(c, a)
  BY DialectIs, CallsAreToldApart
<1>2. /\ k \in Texts /\ Len(k) = n + 1 + Len(c)
      /\ \A i \in 1 .. n : k[i] = a[i]
      /\ k[n + 1] = y /\ y # "<"
      /\ \A i \in 1 .. Len(c) : k[n + 1 + i] = c[i]
  BY CallIs
<1>3. ASSUME NEW z \in Declared \cup Undeclared, NEW i \in 1 .. Len(k), Agrees(CallOf(d, z), t, i)
      PROVE  Ends(CallOf(d, z), i) <= Len(k)
  <2>1. i \in Nat
    OBVIOUS
  <2>2. Agrees(a, t, i)
    BY <1>3, <2>1, CallOpens
  <2>3. Len(CallOf(d, z)) = Len(k)
    <3>1. Len(CallOf(d, z)) = n + 1 + Len(c)
      BY CallIs
    <3> QED
      BY <1>2, <3>1
  <2> HIDE DEF k, a, c, n
  <2>4. /\ t \in Texts /\ Len(t) = Len(k) + Len(r) /\ Len(k) \in Nat /\ Len(r) \in Nat
        /\ \A j \in 1 .. Len(k) : t[j] = k[j]
    BY <1>2, TextsConcat
  <2> HIDE DEF t
  <2>5. CASE i = 1
    BY <2>3, <2>4, <2>5 DEF Ends
  <2>6. CASE i # 1
    <3>1. k[i] = "<"
      <4>1. 1 \in 1 .. Len(a) /\ i + 1 - 1 <= Len(t) /\ i + 1 - 1 = i
        BY <1>1, <2>4 DEF n
      <4>2. t[i] = a[1]
        BY <2>2, <4>1 DEF Agrees
      <4> QED
        BY <1>1, <2>4, <4>2
    <3>2. i \notin 1 .. n
      BY <1>1, <1>2, <2>6, <3>1
    <3>3. i # n + 1
      BY <1>2, <3>1
    <3>4. i - n - 1 \in 1 .. Len(c) /\ n + 1 + (i - n - 1) = i
      BY <1>1, <1>2, <3>2, <3>3
    <3>5. i - n - 1 = 1
      <4> DEFINE e == i - n - 1
      <4>1. e \in 1 .. Len(c) /\ n + 1 + e = i
        BY <3>4
      <4> HIDE DEF e
      <4>2. c[e] = "<"
        BY <1>2, <3>1, <4>1
      <4>3. e = 1
        BY <1>1, <4>1, <4>2
      <4> QED
        BY <4>3 DEF e
    <3>6. ASSUME NEW j \in 1 .. n, j <= Len(c)
          PROVE  a[j] = c[j]
      <4>1. i + j - 1 = n + 1 + j /\ i + j - 1 \in 1 .. Len(k) /\ j \in 1 .. Len(c) /\ j \in 1 .. Len(a)
        BY <1>1, <1>2, <3>5, <3>6 DEF n
      <4>2. i + j - 1 <= Len(t)
        BY <2>4, <4>1
      <4>3. t[i + j - 1] = a[j]
        BY <2>2, <4>1, <4>2 DEF Agrees
      <4>4. t[i + j - 1] = k[i + j - 1]
        BY <2>4, <4>1
      <4>5. k[n + 1 + j] = c[j]
        BY <1>2, <4>1
      <4> QED
        BY <4>1, <4>3, <4>4, <4>5
    <3>7. CASE Len(a) <= Len(c)
      <4>1. \A j \in 1 .. Len(a) : a[j] = c[j]
        BY <1>1, <3>6, <3>7 DEF n
      <4> QED
        BY <1>1, <3>7, <4>1, PrefixIs
    <3>8. CASE Len(c) <= Len(a)
      <4>1. \A j \in 1 .. Len(c) : c[j] = a[j]
        BY <1>1, <3>6, <3>8 DEF n
      <4> QED
        BY <1>1, <3>8, <4>1, PrefixIs
    <3> QED
      BY <1>1, <3>7, <3>8 DEF n
  <2> QED
    BY <2>5, <2>6
<1> HIDE DEF k, t
<1> QED
  BY <1>3 DEF Settled, BlockMarks, k, t

\* Where nothing opens no call begins.
LEMMA NoCallBefore ==
  ASSUME NEW d \in Dialects, NEW w \in Texts, NEW b \in Texts,
         Settled(Openings, w, b), Hits(Openings, w) = {}
  PROVE  Settled(BlockMarks(d), w, b) /\ Hits(BlockMarks(d), w) = {}
<1>1. Openings \in Marks /\ d[1] \in Openings /\ d[1] \in Texts /\ Len(w) \in Nat
  BY MarkersApart, DialectIs, LenProperties DEF Apart, Texts
<1>2. ASSUME NEW i \in 1 .. Len(w)
      PROVE  ~Agrees(d[1], w \o b, i)
  <2> SUFFICES ASSUME Agrees(d[1], w \o b, i) PROVE FALSE
    OBVIOUS
  <2>1. Ends(d[1], i) <= Len(w)
    BY <1>1 DEF Settled
  <2>2. Agrees(d[1], w, i)
    BY <1>1, ConcatAgrees
  <2>3. <<i, d[1]>> \in Hits(Openings, w)
    BY <1>1, <2>1, <2>2, HitsAre
  <2> QED
    BY <2>3
<1>3. Settled(BlockMarks(d), w, b)
  <2>1. ASSUME NEW i \in 1 .. Len(w), NEW y \in Declared \cup Undeclared, Agrees(CallOf(d, y), w \o b, i)
        PROVE  FALSE
    <3>1. i \in Nat
      BY <1>1
    <3>2. Agrees(d[1], w \o b, i)
      BY <2>1, <3>1, CallOpens
    <3> QED
      BY <1>2, <3>2
  <2> QED
    BY <2>1 DEF Settled, BlockMarks
<1>4. Hits(BlockMarks(d), w) = {}
  <2>1. ASSUME NEW h \in Blocks(d, w)
        PROVE  FALSE
    BY BlocksOpen
  <2> QED
    BY <2>1, BlockMarksAre
<1> QED
  BY <1>3, <1>4

\* The calls of a text are its first and those of what follows it.
LEMMA BlocksOfParts ==
  ASSUME NEW d \in Dialects, NEW y \in Declared \cup Undeclared, NEW w \in Texts, NEW r \in Texts,
         Settled(Openings, w, CallOf(d, y) \o r), Hits(Openings, w) = {}
  PROVE  LET k == CallOf(d, y)
             t == w \o (k \o r)
             n == Len(w)
             l == Len(w) + Len(k)
         IN  /\ <<n + 1, k>> \in Blocks(d, t)
             /\ \A g \in Blocks(d, r) : <<l + g[1], g[2]>> \in Blocks(d, t)
             /\ \A h \in Blocks(d, t) :
                  h = <<n + 1, k>> \/ \E g \in Blocks(d, r) : h = <<l + g[1], g[2]>>
<1> DEFINE k == CallOf(d, y)
           B == BlockMarks(d)
           q == k \o r
           t == w \o q
           n == Len(w)
           l == Len(w) + Len(k)
<1>1. k \in Texts /\ B \in Marks /\ k \in B /\ \A u : Blocks(d, u) = Hits(B, u)
  BY CallIs, BlockMarksAre DEF BlockMarks
<1>2. Settled(B, k, r) /\ Settled(B, w, q) /\ Hits(B, w) = {}
  <2>1. q \in Texts
    BY <1>1, TextsConcat
  <2> QED
    BY <2>1, CallSettles, NoCallBefore
<1>3. \A m \in B : Len(m) = Len(k) /\ Len(m) \in Nat /\ Len(m) > 0
  <2>1. ASSUME NEW z \in Declared \cup Undeclared
        PROVE  Len(CallOf(d, z)) = Len(d[1]) + 1 + Len(d[2])
    BY CallIs
  <2>2. Len(d[1]) + 1 + Len(d[2]) \in Nat /\ Len(d[1]) + 1 + Len(d[2]) > 0
    <3> DEFINE a == Len(d[1])
               b == Len(d[2])
    <3>1. a \in Nat /\ b \in Nat
      BY DialectIs
    <3> HIDE DEF a, b
    <3>2. a + 1 + b \in Nat /\ a + 1 + b > 0
      BY <3>1
    <3> QED
      BY <3>2 DEF a, b
  <2> QED
    BY <2>1, <2>2 DEF BlockMarks
<1> HIDE DEF k, B
<1>4. /\ q \in Texts /\ Len(q) = Len(k) + Len(r) /\ Len(k) \in Nat /\ Len(r) \in Nat
      /\ \A i \in 1 .. Len(k) : q[i] = k[i]
  BY <1>1, TextsConcat
<1>5. /\ \A i \in 1 .. Len(k) : \A m : <<i, m>> \in Hits(B, q) <=> <<i, m>> \in Hits(B, k)
      /\ \A i \in 1 .. Len(r) : \A m : <<Len(k) + i, m>> \in Hits(B, q) <=> <<i, m>> \in Hits(B, r)
  BY <1>1, <1>2, HitsOfSettled
<1> HIDE DEF q
<1>6. t \in Texts /\ Len(t) = n + Len(q) /\ n \in Nat /\ Len(q) \in Nat
  BY <1>4, TextsConcat
<1>7. /\ \A i \in 1 .. n : \A m : <<i, m>> \in Hits(B, t) <=> <<i, m>> \in Hits(B, w)
      /\ \A i \in 1 .. Len(q) : \A m : <<n + i, m>> \in Hits(B, t) <=> <<i, m>> \in Hits(B, q)
  BY <1>1, <1>2, <1>4, HitsOfSettled
<1> HIDE DEF t
<1>8. ASSUME NEW i, NEW m
      PROVE  <<i, m>> \in Hits(B, k) <=> i = 1 /\ m = k
  <2>1. ASSUME <<i, m>> \in Hits(B, k)
        PROVE  i = 1 /\ m = k
    <3>1. i \in 1 .. Len(k) /\ m \in B /\ Agrees(m, k, i) /\ Ends(m, i) <= Len(k)
      BY <1>1, <2>1, HitsAre
    <3>2. i = 1 /\ Len(m) = Len(k)
      BY <1>3, <1>4, <3>1 DEF Ends
    <3>3. \A j \in 1 .. Len(m) : m[j] = k[j]
      <4>1. \A j \in 1 .. Len(m) : i + j - 1 = j /\ j <= Len(k)
        BY <1>4, <3>2
      <4> QED
        BY <3>1, <4>1 DEF Agrees
    <3>4. m \in Seq(Symbols) /\ k \in Seq(Symbols)
      BY <1>1, <3>1 DEF Marks, Texts
    <3>5. m = k
      BY ONLY <3>2, <3>3, <3>4, SeqEqual
    <3> QED
      BY <3>2, <3>5
  <2>2. <<1, k>> \in Hits(B, k)
    <3>1. Agrees(k, k, 1)
      <4>1. \A j \in 1 .. Len(k) : 1 + j - 1 = j
        BY <1>4
      <4> QED
        BY <4>1 DEF Agrees
    <3>2. 1 \in 1 .. Len(k) /\ Ends(k, 1) <= Len(k)
      BY <1>1, <1>3, <1>4 DEF Ends
    <3> QED
      BY <1>1, <3>1, <3>2, HitsAre
  <2> QED
    BY <2>1, <2>2
<1>9. <<n + 1, k>> \in Hits(B, t)
  <2>1. 1 \in 1 .. Len(k) /\ 1 \in 1 .. Len(q)
    BY <1>1, <1>3, <1>4
  <2> QED
    BY <1>5, <1>7, <1>8, <2>1
<1>10. ASSUME NEW g \in Hits(B, r)
       PROVE  <<l + g[1], g[2]>> \in Hits(B, t)
  <2>1. g = <<g[1], g[2]>> /\ g[1] \in 1 .. Len(r)
    BY <1>1, HitsAre
  <2>2. <<Len(k) + g[1], g[2]>> \in Hits(B, q)
    BY <1>5, <2>1
  <2>3. Len(k) + g[1] \in 1 .. Len(q) /\ n + (Len(k) + g[1]) = l + g[1]
    BY <1>4, <1>6, <2>1
  <2> QED
    BY <1>7, <2>2, <2>3
<1>11. ASSUME NEW h \in Hits(B, t)
       PROVE  h = <<n + 1, k>> \/ \E g \in Hits(B, r) : h = <<l + g[1], g[2]>>
  <2>1. h = <<h[1], h[2]>> /\ h[1] \in 1 .. Len(t)
    BY <1>1, <1>6, HitsAre
  <2>2. h[1] \notin 1 .. n
    BY <1>2, <1>7, <2>1
  <2> DEFINE i == h[1] - n
  <2>3. i \in 1 .. Len(q) /\ n + i = h[1]
    BY <1>6, <2>1, <2>2
  <2>4. <<i, h[2]>> \in Hits(B, q)
    BY <1>7, <2>1, <2>3
  <2> HIDE DEF i
  <2>5. CASE i \in 1 .. Len(k)
    <3>1. i = 1 /\ h[2] = k
      BY <1>5, <1>8, <2>4, <2>5
    <3> QED
      BY <2>1, <2>3, <3>1
  <2>6. CASE i \notin 1 .. Len(k)
    <3> DEFINE g == <<i - Len(k), h[2]>>
    <3>1. i - Len(k) \in 1 .. Len(r) /\ Len(k) + (i - Len(k)) = i
      BY <1>4, <2>3, <2>6
    <3>2. g \in Hits(B, r)
      BY <1>5, <2>4, <3>1
    <3>3. l + g[1] = h[1] /\ g[2] = h[2]
      BY <1>4, <1>6, <2>3, <3>1
    <3> QED
      BY <2>1, <3>2, <3>3
  <2> QED
    BY <2>5, <2>6
<1> QED
  BY <1>1, <1>9, <1>10, <1>11 DEF k, q, t

LEMMA TextEmpty ==
  /\ <<>> \in Texts /\ Len(<<>>) = 0
  /\ \A t \in Texts : t \o <<>> = t /\ <<>> \o t = t
BY EmptySeq, ConcatEmptySeq DEF Texts

\* What is picked of three texts in a row.
InThree(P, w, A, k, B, r, C) ==
  /\ \A i \in 1 .. Len(w) : i \in P <=> i \in A
  /\ \A i \in 1 .. Len(k) : Len(w) + i \in P <=> i \in B
  /\ \A i \in 1 .. Len(r) : Len(w) + Len(k) + i \in P <=> i \in C

LEMMA PickedOfParts ==
  ASSUME NEW w \in Texts, NEW k \in Texts, NEW r \in Texts, NEW P, NEW A, NEW B, NEW C,
         InThree(P, w, A, k, B, r, C)
  PROVE  Picked(w \o (k \o r), P) = Picked(w, A) \o (Picked(k, B) \o Picked(r, C))
<1> DEFINE q == k \o r
           Q == {i \in 1 .. Len(q) : Len(w) + i \in P}
<1>1. w \in Seq(Symbols) /\ k \in Seq(Symbols) /\ r \in Seq(Symbols) /\ q \in Seq(Symbols)
  BY TextsConcat DEF Texts
<1>2. Len(q) = Len(k) + Len(r) /\ Len(k) \in Nat /\ Len(r) \in Nat /\ Len(w) \in Nat
  BY TextsConcat
<1>3. \A i \in 1 .. Len(w) : i \in P <=> i \in A
  BY DEF InThree
<1>4. \A i \in 1 .. Len(k) : i \in Q <=> i \in B
  BY <1>2 DEF InThree
<1>5. \A i \in 1 .. Len(r) : Len(k) + i \in Q <=> i \in C
  <2>1. ASSUME NEW i \in 1 .. Len(r)
        PROVE  Len(k) + i \in Q <=> i \in C
    <3>1. Len(k) + i \in 1 .. Len(q) /\ Len(w) + (Len(k) + i) = Len(w) + Len(k) + i
      BY <1>2
    <3> QED
      BY <3>1 DEF InThree
  <2> QED
    BY <2>1
<1>6. \A i \in 1 .. Len(q) : Len(w) + i \in P <=> i \in Q
  OBVIOUS
<1>7. Picked(q, Q) = Picked(k, B) \o Picked(r, C)
  <2> HIDE DEF Q
  <2>1. /\ \A n \in 1 .. Len(k) : n \in Q <=> n \in B
        /\ \A n \in 1 .. Len(r) : Len(k) + n \in Q <=> n \in C
    BY <1>4, <1>5
  <2> DEFINE S == Symbols
  <2>2. k \in Seq(S) /\ r \in Seq(S)
    BY <1>1
  <2> HIDE DEF S
  <2>3. Picked(k \o r, Q) = Picked(k, B) \o Picked(r, C)
    BY ONLY <2>1, <2>2, PickedConcat, SMTT(30)
  <2> QED
    BY <2>3
<1> HIDE DEF q, Q
<1>8. Picked(w \o q, P) = Picked(w, A) \o Picked(q, Q)
  <2>1. /\ \A n \in 1 .. Len(w) : n \in P <=> n \in A
        /\ \A n \in 1 .. Len(q) : Len(w) + n \in P <=> n \in Q
    BY <1>3, <1>6
  <2> DEFINE S == Symbols
  <2>2. w \in Seq(S) /\ q \in Seq(S)
    BY <1>1
  <2> HIDE DEF S
  <2> QED
    BY ONLY <2>1, <2>2, PickedConcat, SMTT(30)
<1> QED
  BY <1>7, <1>8 DEF q

\* The first call of a text, and what its reading leaves.
LEMMA ReadingOfParts ==
  ASSUME NEW d \in Dialects, NEW y \in Declared \cup Undeclared, NEW w \in Texts, NEW r \in Texts,
         Settled(Openings, w, CallOf(d, y) \o r), Hits(Openings, w) = {}
  PROVE  LET t == w \o (CallOf(d, y) \o r)
         IN  /\ Outside(Blocks(d, t), t) = w \o Outside(Blocks(d, r), r)
             /\ Bodies(d, Blocks(d, t), t) = <<y>> \o Bodies(d, Blocks(d, r), r)
<1> DEFINE k == CallOf(d, y)
           t == w \o (k \o r)
           n == Len(w)
           l == Len(w) + Len(k)
           m == Len(d[1])
           X == Blocks(d, t)
           Y == Blocks(d, r)
<1>1. /\ k \in Texts /\ Len(k) = m + 1 + Len(d[2]) /\ k = d[1] \o (<<y>> \o d[2]) /\ <<y>> \in Texts
  BY CallIs
<1>2. d[1] \in Texts /\ d[2] \in Texts /\ m \in Nat /\ m > 0 /\ Len(d[2]) \in Nat /\ Len(d[2]) > 0
  BY DialectIs
<1>3. /\ <<n + 1, k>> \in X
      /\ \A g \in Y : <<l + g[1], g[2]>> \in X
      /\ \A h \in X : h = <<n + 1, k>> \/ \E g \in Y : h = <<l + g[1], g[2]>>
  BY BlocksOfParts
<1>4. /\ k \o r \in Texts /\ Len(k \o r) = Len(k) + Len(r) /\ Len(r) \in Nat /\ Len(k) \in Nat
      /\ n \in Nat /\ t \in Texts /\ Len(t) = l + Len(r) /\ l \in Nat
  <2>1. k \o r \in Texts /\ Len(k \o r) = Len(k) + Len(r) /\ Len(r) \in Nat /\ Len(k) \in Nat
    BY <1>1, TextsConcat
  <2> DEFINE q == k \o r
  <2>2. q \in Texts /\ Len(q) = Len(k) + Len(r)
    BY <2>1
  <2> HIDE DEF q, k
  <2>3. w \o q \in Texts /\ Len(w \o q) = Len(w) + Len(q) /\ Len(w) \in Nat
    BY <2>2, TextsConcat
  <2> QED
    BY <2>1, <2>2, <2>3 DEF q
<1>5. \A g \in Y : g[1] \in 1 .. Len(r) /\ Len(g[2]) \in Nat
  <2>1. BlockMarks(d) \in Marks /\ \A g \in Y : g[1] \in 1 .. Len(r) /\ g[2] \in BlockMarks(d)
    BY BlockMarksAre, BlocksOpen
  <2> QED
    BY <2>1, LenProperties DEF Marks, Texts
<1>6. DOMAIN t = 1 .. l + Len(r) /\ DOMAIN r = 1 .. Len(r)
  BY <1>4, LenProperties DEF Texts
<1> HIDE DEF k, t, m, X, Y
<1>7. \A i \in 1 .. n : ~Covered(X, i)
  <2> SUFFICES ASSUME NEW i \in 1 .. n, NEW h \in X, i \in h[1] .. (h[1] + Len(h[2]) - 1)
               PROVE  FALSE
    BY DEF Covered
  <2>1. h[1] >= n + 1 /\ h[1] \in Nat
    <3>1. CASE h = <<n + 1, k>>
      BY <1>4, <3>1
    <3>2. CASE \E g \in Y : h = <<l + g[1], g[2]>>
      <4>1. PICK g \in Y : h = <<l + g[1], g[2]>>
        BY <3>2
      <4>2. h[1] = l + g[1] /\ g[1] \in 1 .. Len(r)
        BY <1>5, <4>1
      <4> QED
        BY <1>4, <4>2
    <3> QED
      BY <1>3, <3>1, <3>2
  <2> QED
    BY <1>4, <2>1
<1>8. \A i \in 1 .. Len(k) : Covered(X, n + i)
  <2> SUFFICES ASSUME NEW i \in 1 .. Len(k)
               PROVE  Covered(X, n + i)
    OBVIOUS
  <2> DEFINE h == <<n + 1, k>>
  <2>1. h \in X /\ n + i \in h[1] .. (h[1] + Len(h[2]) - 1)
    BY <1>3, <1>4
  <2> QED
    BY <2>1 DEF Covered
<1>9. \A i \in 1 .. Len(r) : Covered(X, l + i) <=> Covered(Y, i)
  <2> SUFFICES ASSUME NEW i \in 1 .. Len(r)
               PROVE  Covered(X, l + i) <=> Covered(Y, i)
    OBVIOUS
  <2>1. ASSUME NEW g \in Y
        PROVE  LET h == <<l + g[1], g[2]>>
               IN  l + i \in h[1] .. (h[1] + Len(h[2]) - 1) <=> i \in g[1] .. (g[1] + Len(g[2]) - 1)
    <3> DEFINE a == g[1]
               b == Len(g[2])
    <3>1. a \in Nat /\ b \in Nat
      BY <1>5
    <3> HIDE DEF a, b
    <3>2. l + i \in (l + a) .. (l + a + b - 1) <=> i \in a .. (a + b - 1)
      BY <1>4, <3>1
    <3> QED
      BY <3>2 DEF a, b
  <2>2. ASSUME Covered(Y, i)
        PROVE  Covered(X, l + i)
    <3>1. PICK g \in Y : i \in g[1] .. (g[1] + Len(g[2]) - 1)
      BY <2>2 DEF Covered
    <3>2. <<l + g[1], g[2]>> \in X
      BY <1>3
    <3> QED
      BY <2>1, <3>1, <3>2 DEF Covered
  <2>3. ASSUME Covered(X, l + i)
        PROVE  Covered(Y, i)
    <3>1. PICK h \in X : l + i \in h[1] .. (h[1] + Len(h[2]) - 1)
      BY <2>3 DEF Covered
    <3>2. h # <<n + 1, k>>
      BY <1>4, <3>1
    <3>3. PICK g \in Y : h = <<l + g[1], g[2]>>
      BY <1>3, <3>2
    <3>4. i \in g[1] .. (g[1] + Len(g[2]) - 1)
      BY <2>1, <3>1, <3>3
    <3> QED
      BY <3>4 DEF Covered
  <2> QED
    BY <2>2, <2>3
<1>10. Outside(X, t) = w \o Outside(Y, r)
  <2> DEFINE P == {i \in DOMAIN t : ~Covered(X, i)}
             A == 1 .. n
             B == {}
             C == {i \in DOMAIN r : ~Covered(Y, i)}
  <2>1. \A i \in 1 .. Len(w) : i \in P <=> i \in A
    BY <1>4, <1>6, <1>7
  <2>2. \A i \in 1 .. Len(k) : Len(w) + i \in P <=> i \in B
    BY <1>8
  <2>3. \A i \in 1 .. Len(r) : Len(w) + Len(k) + i \in P <=> i \in C
    BY <1>4, <1>6, <1>9
  <2> DEFINE Z == Picked(r, C)
  <2>4. /\ \A i \in 1 .. Len(k) : i \notin B
        /\ 1 .. Len(w) \subseteq A
    OBVIOUS
  <2> HIDE DEF P, A, B, C, Z
  <2>5. Picked(w \o (k \o r), P) = Picked(w, A) \o (Picked(k, B) \o Z)
    <3>1. InThree(P, w, A, k, B, r, C)
      BY <2>1, <2>2, <2>3 DEF InThree
    <3>2. w \in Texts /\ k \in Texts /\ r \in Texts
      BY <1>1
    <3>3. Picked(w \o (k \o r), P) = Picked(w, A) \o (Picked(k, B) \o Picked(r, C))
      BY ONLY <3>1, <3>2, PickedOfParts
    <3> QED
      BY <3>3 DEF Z
  <2>6. w \in Seq(Symbols) /\ k \in Seq(Symbols) /\ r \in Seq(Symbols)
    BY <1>1 DEF Texts
  <2>7. Picked(w, A) = w
    BY <2>4, <2>6, PickedAll
  <2>8. Picked(k, B) = <<>>
    BY <2>4, <2>6, PickedNone
  <2>9. Z \in Texts
    BY <2>6, PickedType DEF Z, Texts
  <2>10. Picked(t, P) = w \o Z
    BY <2>5, <2>7, <2>8, <2>9, TextEmpty DEF t
  <2> QED
    BY <2>10 DEF Outside, P, C, Z
<1>11. Bodies(d, X, t) = <<y>> \o Bodies(d, Y, r)
  <2> DEFINE P == {b[1] + Len(d[1]) : b \in X}
             A == {}
             B == {m + 1}
             C == {b[1] + Len(d[1]) : b \in Y}
             Z == Picked(r, C)
  <2>0. ASSUME NEW i \in Nat
        PROVE  i \in P <=> i = n + (m + 1) \/ \E g \in Y : i = l + (g[1] + m)
    <3>1. ASSUME NEW h \in X
          PROVE  h[1] + m = n + (m + 1) \/ \E g \in Y : h[1] + m = l + (g[1] + m)
      <4>1. CASE h = <<n + 1, k>>
        BY <1>2, <1>4, <4>1
      <4>2. CASE \E g \in Y : h = <<l + g[1], g[2]>>
        <5>1. PICK g \in Y : h = <<l + g[1], g[2]>>
          BY <4>2
        <5>2. h[1] = l + g[1] /\ g[1] \in Nat
          BY <1>5, <5>1
        <5>3. h[1] + m = l + (g[1] + m)
          BY <1>2, <1>4, <5>2
        <5> QED
          BY <5>3
      <4> QED
        BY <1>3, <4>1, <4>2
    <3>2. n + (m + 1) \in P
      <4>1. <<n + 1, k>> \in X /\ <<n + 1, k>>[1] + Len(d[1]) = n + (m + 1)
        <5>1. n \in Nat /\ m \in Nat /\ <<n + 1, k>> \in X
          BY <1>2, <1>3, <1>4
        <5> HIDE DEF n
        <5>2. n + 1 + m = n + (m + 1) /\ <<n + 1, k>>[1] = n + 1
          BY <5>1
        <5> QED
          BY <5>1, <5>2 DEF m
      <4> QED
        BY <4>1
    <3>3. ASSUME NEW g \in Y
          PROVE  l + (g[1] + m) \in P
      <4>1. <<l + g[1], g[2]>> \in X /\ <<l + g[1], g[2]>>[1] + Len(d[1]) = l + (g[1] + m)
        BY <1>2, <1>3, <1>4, <1>5 DEF m
      <4> QED
        BY <4>1
    <3> QED
      BY <3>1, <3>2, <3>3 DEF m
  <2>1. \A i \in 1 .. Len(w) : i \in P <=> i \in A
    <3> SUFFICES ASSUME NEW i \in 1 .. Len(w)
                 PROVE  i \notin P
      OBVIOUS
    <3>1. i \in Nat /\ i # n + (m + 1)
      BY <1>2, <1>4
    <3>2. ASSUME NEW g \in Y
          PROVE  i # l + (g[1] + m)
      <4>1. g[1] \in Nat
        BY <1>5
      <4> QED
        BY <1>2, <1>4, <4>1
    <3> QED
      BY <2>0, <3>1, <3>2
  <2>2. \A i \in 1 .. Len(k) : Len(w) + i \in P <=> i \in B
    <3> SUFFICES ASSUME NEW i \in 1 .. Len(k)
                 PROVE  Len(w) + i \in P <=> i \in B
      OBVIOUS
    <3>1. Len(w) + i \in Nat /\ (Len(w) + i = n + (m + 1) <=> i = m + 1)
      BY <1>2, <1>4
    <3>2. ASSUME NEW g \in Y
          PROVE  Len(w) + i # l + (g[1] + m)
      <4>1. g[1] \in Nat
        BY <1>5
      <4> QED
        BY <1>2, <1>4, <4>1
    <3> QED
      BY <2>0, <3>1, <3>2
  <2>3. \A i \in 1 .. Len(r) : Len(w) + Len(k) + i \in P <=> i \in C
    <3> SUFFICES ASSUME NEW i \in 1 .. Len(r)
                 PROVE  l + i \in P <=> i \in C
      OBVIOUS
    <3>1. l + i \in Nat /\ l + i # n + (m + 1)
      <4> DEFINE b == Len(d[2])
                 c == Len(k)
      <4>1. n \in Nat /\ m \in Nat /\ b \in Nat /\ b > 0 /\ c = m + 1 + b /\ i \in Nat
        BY <1>1, <1>2, <1>4
      <4> HIDE DEF b, c, n
      <4>2. n + c + i \in Nat /\ n + c + i # n + (m + 1)
        BY <4>1
      <4> QED
        BY <4>2 DEF n, c
    <3>2. ASSUME NEW g \in Y
          PROVE  l + i = l + (g[1] + m) <=> i = g[1] + Len(d[1])
      <4> DEFINE j == g[1]
      <4>1. j \in Nat /\ m \in Nat /\ l \in Nat /\ i \in Nat
        BY <1>2, <1>4, <1>5
      <4> HIDE DEF l, j
      <4>2. l + i = l + (j + m) <=> i = j + m
        BY <4>1
      <4> QED
        BY <4>2 DEF l, j, m
    <3> QED
      BY <2>0, <3>1, <3>2
  <2>4. /\ \A i \in 1 .. Len(w) : i \notin A
        /\ m + 1 \in B
    OBVIOUS
  <2> DEFINE Q == Picked(k, B)
  <2>5. Q = <<y>>
    <3> DEFINE a == d[1]
               b == <<y>>
               c == d[2]
               E == {}
               F == {1}
    <3>1. a \in Texts /\ b \in Texts /\ c \in Texts /\ Len(a) = m /\ Len(b) = 1 /\ k = a \o (b \o c)
      BY <1>1, <1>2 DEF m
    <3>2. /\ \A i \in 1 .. Len(a) : i \in B <=> i \in E
          /\ \A i \in 1 .. Len(b) : Len(a) + i \in B <=> i \in F
          /\ \A i \in 1 .. Len(c) : Len(a) + Len(b) + i \in B <=> i \in E
      BY <1>2, <3>1
    <3>3. /\ \A i \in 1 .. Len(a) : i \notin E
          /\ 1 .. Len(b) \subseteq F
          /\ \A i \in 1 .. Len(c) : i \notin E
      BY <3>1
    <3> HIDE DEF a, b, c, B, E, F
    <3>4. Picked(a \o (b \o c), B) = Picked(a, E) \o (Picked(b, F) \o Picked(c, E))
      <4>1. InThree(B, a, E, b, F, c, E)
        BY <3>2 DEF InThree
      <4> QED
        BY <3>1, <4>1, PickedOfParts
    <3>5. a \in Seq(Symbols) /\ b \in Seq(Symbols) /\ c \in Seq(Symbols)
      BY <3>1 DEF Texts
    <3>6. Picked(a, E) = <<>> /\ Picked(c, E) = <<>>
      BY <3>3, <3>5, PickedNone
    <3>7. Picked(b, F) = b
      BY <3>3, <3>5, PickedAll
    <3>8. Picked(k, B) = b
      BY <3>1, <3>4, <3>6, <3>7, TextEmpty
    <3> QED
      BY <3>8 DEF b
  <2> HIDE DEF P, A, B, C, Z, Q
  <2>6. Picked(w \o (k \o r), P) = Picked(w, A) \o (Q \o Z)
    <3>1. InThree(P, w, A, k, B, r, C)
      BY <2>1, <2>2, <2>3 DEF InThree
    <3>2. w \in Texts /\ k \in Texts /\ r \in Texts
      BY <1>1
    <3>3. Picked(w \o (k \o r), P) = Picked(w, A) \o (Picked(k, B) \o Picked(r, C))
      BY ONLY <3>1, <3>2, PickedOfParts
    <3> QED
      BY <3>3 DEF Z, Q
  <2>7. w \in Seq(Symbols) /\ r \in Seq(Symbols)
    BY DEF Texts
  <2>8. Picked(w, A) = <<>>
    BY <2>4, <2>7, PickedNone
  <2>9. Z \in Texts /\ <<y>> \o Z \in Texts
    <3>1. Z \in Texts
      BY <2>7, PickedType DEF Z, Texts
    <3> QED
      BY <1>1, <3>1, TextsConcat
  <2>10. Picked(t, P) = <<y>> \o Z
    BY <2>5, <2>6, <2>8, <2>9, TextEmpty DEF t
  <2> QED
    BY <2>10 DEF Bodies, P, C, Z
<1> QED
  BY <1>10, <1>11 DEF k, t, X, Y

\* What the whole text is read as: the dialect that occurs in it decides.
LEMMA ParsedNone ==
  ASSUME NEW t \in Texts, \A e \in Dialects : Blocks(e, t) = {}, t # <<JsonCall>>
  PROVE  Parsed(t) = [visible |-> t, calls |-> <<>>, failed |-> FALSE]
<1>1. {n \in DOMAIN DialectOrder : Blocks(DialectOrder[n], t) # {}} = {}
  BY DEF Dialects, ToSet
<1> QED
  BY <1>1 DEF Parsed

LEMMA ParsedOne ==
  ASSUME NEW t \in Texts, NEW d \in Dialects, Blocks(d, t) # {},
         \A e \in Dialects : Blocks(e, t) # {} => e = d
  PROVE  /\ Parsed(t).visible = Outside(Blocks(d, t), t)
         /\ Parsed(t).calls = Bodies(d, Blocks(d, t), t)
<1> DEFINE found == {n \in DOMAIN DialectOrder : Blocks(DialectOrder[n], t) # {}}
<1>1. DOMAIN DialectOrder = 1 .. Len(DialectOrder) /\ Len(DialectOrder) \in Nat
  BY MarkersAreTexts, LenProperties
<1>2. found \subseteq Nat /\ found # {} /\ \A n \in found : DialectOrder[n] = d
  BY <1>1 DEF Dialects, ToSet
<1>3. Min(found) \in found
  <2> HIDE DEF found
  <2>1. \E n \in found : \A m \in found : n <= m
    BY <1>2, LeastNatural
  <2> QED
    BY <2>1 DEF Min
<1>4. DialectOrder[Min(found)] = d
  BY <1>2, <1>3
<1> HIDE DEF found
<1>5. Parsed(t) = [visible |-> Outside(Blocks(d, t), t),
                   calls   |-> Bodies(d, Blocks(d, t), t),
                   failed  |-> \E i \in DOMAIN Bodies(d, Blocks(d, t), t) :
                                 Bodies(d, Blocks(d, t), t)[i] \in Undeclared]
  BY <1>2, <1>4 DEF Parsed, found
<1> QED
  BY <1>5

\* What is of a kind in what the tool parser returns.
LEMMA OfOuts ==
  ASSUME NEW k
  PROVE  /\ \A a, b \in Outs : Of(k, a) \in Texts /\ Of(k, a \o b) = Of(k, a) \o Of(k, b)
         /\ \A f \in Kinds, u \in Texts : Of(k, Tagged(f, u)) = IF f = k THEN u ELSE <<>>
<1>1. ASSUME NEW a \in Outs, NEW b \in Outs
      PROVE  Of(k, a) \in Texts /\ Of(k, a \o b) = Of(k, a) \o Of(k, b)
  <2> DEFINE S == Kinds \X Symbols
  <2>1. a \in Seq(S) /\ b \in Seq(S) /\ \A e \in S : e[2] \in Symbols
    BY DEF Outs
  <2> HIDE DEF S
  <2> QED
    BY <2>1, OfTwo
<1>2. ASSUME NEW f \in Kinds, NEW u \in Texts
      PROVE  Of(k, Tagged(f, u)) = IF f = k THEN u ELSE <<>>
  <2> DEFINE K == Kinds
             v == Of(k, Tagged(f, u))
  <2>1. f \in K
    OBVIOUS
  <2> HIDE DEF K
  <2>2. Tagged(f, u) \in Seq(K \X Symbols)
    BY <2>1, OfOne
  <2>3. v = IF f = k THEN u ELSE <<>>
    BY <2>1, <2>2, OfOne
  <2> QED
    BY <2>3
<1> QED
  BY <1>1, <1>2

\* What is withheld of a text in which nothing opens is not a whole reply.
LEMMA HeldIsNoReply ==
  ASSUME NEW b \in Texts, Hits(Openings, b) = {}
  PROVE  WithheldOf(b) # <<JsonCall>>
<1> DEFINE h == WithheldOf(b)
           w == Without(b, h)
<1>1. Openings \in Marks /\ \A m \in Openings : m[1] = "<" /\ m \in Texts /\ Len(m) \in Nat \ {0}
  <2>1. Openings \in Marks /\ \A m \in Openings : m[1] = "<"
    BY MarkersApart DEF Apart
  <2> QED
    BY <2>1, DialectIs DEF Openings
<1>2. h = Held(Openings, b)
  BY DEF WithheldOf
<1>3. /\ h \in Texts /\ w \in Texts /\ w \o h = b
      /\ Len(h) > 0 => \E m \in Openings : Agrees(m, b, Len(w) + 1)
  BY <1>1, <1>2, HeldIs
<1> HIDE DEF h, w
<1> SUFFICES ASSUME h = <<JsonCall>> PROVE FALSE
  BY DEF h
<1>4. Len(h) = 1 /\ h[1] = JsonCall
  OBVIOUS
<1>5. PICK m \in Openings : Agrees(m, b, Len(w) + 1)
  BY <1>3, <1>4
<1>6. /\ Len(b) = Len(w) + Len(h) /\ Len(w) \in Nat
      /\ \A i \in 1 .. Len(h) : b[Len(w) + i] = h[i]
  BY <1>3, TextsConcat
<1>7. b[Len(w) + 1] = m[1]
  <2>1. 1 \in 1 .. Len(m) /\ (Len(w) + 1) + 1 - 1 = Len(w) + 1 /\ Len(w) + 1 <= Len(b)
    BY <1>1, <1>4, <1>6
  <2> QED
    BY <1>5, <2>1 DEF Agrees
<1>8. b[Len(w) + 1] = h[1]
  BY <1>4, <1>6
<1> QED
  BY <1>1, <1>4, <1>7, <1>8, CallsAreToldApart

\* A text in which nothing opens is content.
LEMMA ReadWithout ==
  ASSUME NEW b \in Texts, NEW o \in Outs, Hits(Openings, b) = {}
  PROVE  LET p == Looped(b, o)
             q == ToolFlush(p)
         IN  /\ ~p.failed /\ ~q.failed
             /\ Of("content", p.out \o q.out) = Of("content", o) \o b
             /\ Of("tool_call", p.out \o q.out) = Of("tool_call", o)
<1> DEFINE h == WithheldOf(b)
           w == Without(b, h)
           x == Tagged("content", w)
           z == Tagged("content", h)
           e == Tagged("tool_call", <<>>)
           p == Looped(b, o)
           q == ToolFlush(p)
<1>1. h \in Texts /\ w \in Texts /\ w \o h = b /\ h # <<JsonCall>>
  BY WithheldIs, HeldIsNoReply
<1>2. p = State(h, o \o x)
  BY LoopedUnfolds DEF HoldsBlock
<1>3. Hits(Openings, h) = {}
  BY <1>1, HitsOfEnd, MarkersApart DEF Apart
<1> HIDE DEF h, w, p
<1>4. Parsed(h) = [visible |-> h, calls |-> <<>>, failed |-> FALSE]
  <2>1. \A d \in Dialects : Blocks(d, h) = {}
    BY <1>1, <1>3, BlocksOpen
  <2> QED
    BY <1>1, <2>1, ParsedNone
<1>5. ~p.failed /\ p.buffer = h /\ p.out = o \o x
  BY <1>2 DEF State
<1>6. ~q.failed /\ q.out = z \o e
  BY <1>4, <1>5 DEF ToolFlush
<1>7. /\ x \in Outs /\ z \in Outs /\ e \in Outs /\ Of("content", x) = w /\ Of("content", z) = h
      /\ Of("content", e) = <<>> /\ Of("tool_call", x) = <<>> /\ Of("tool_call", z) = <<>>
      /\ Of("tool_call", e) = <<>>
  BY <1>1, OfOuts, TaggedConcat, TextEmpty DEF Kinds
<1> HIDE DEF x, z, e, q
<1>8. ASSUME NEW k
      PROVE  /\ Of(k, p.out \o q.out) = (Of(k, o) \o Of(k, x)) \o (Of(k, z) \o Of(k, e))
             /\ Of(k, o) \in Texts
  <2> DEFINE u == o \o x
             v == z \o e
  <2>1. u \in Outs /\ v \in Outs
    BY <1>7, OutsConcat
  <2>2. Of(k, u) = Of(k, o) \o Of(k, x) /\ Of(k, v) = Of(k, z) \o Of(k, e) /\ Of(k, o) \in Texts
    BY <1>7, OfOuts
  <2> HIDE DEF u, v
  <2>3. Of(k, u \o v) = Of(k, u) \o Of(k, v)
    BY <2>1, OfOuts
  <2> QED
    BY <1>5, <1>6, <2>2, <2>3 DEF u, v
<1>9. Of("content", p.out \o q.out) = Of("content", o) \o b
  <2> DEFINE a == Of("content", o)
  <2>1. Of("content", p.out \o q.out) = (a \o w) \o (h \o <<>>) /\ a \in Texts
    BY <1>7, <1>8
  <2> HIDE DEF a
  <2>2. (a \o w) \o h = a \o (w \o h)
    BY <1>1, <2>1, TextsAssociate
  <2>3. h \o <<>> = h
    BY <1>1, TextEmpty
  <2> QED
    BY <1>1, <2>1, <2>2, <2>3 DEF a
<1>10. Of("tool_call", p.out \o q.out) = Of("tool_call", o)
  <2> DEFINE a == Of("tool_call", o)
  <2>1. Of("tool_call", p.out \o q.out) = (a \o <<>>) \o (<<>> \o <<>>) /\ a \in Texts
    BY <1>7, <1>8
  <2> HIDE DEF a
  <2> QED
    BY <2>1, TextEmpty DEF a
<1> QED
  BY <1>5, <1>6, <1>9, <1>10 DEF p, q

\* Nothing else opens as the calls of d do; and whatever opens in t begins a call of d.
Sole(d) == \A e \in Dialects : e[1] = d[1] => e = d
Regular(d, t) == \A h \in Hits(Openings, t) : h[2] = d[1] /\ \E b \in Blocks(d, t) : b[1] = h[1]

\* The first call of such a text, and what comes after it.
Begins(d, t, w, y, r) ==
  /\ w \in Texts /\ r \in Texts /\ y \in Declared \cup Undeclared
  /\ t = w \o (CallOf(d, y) \o r)
  /\ Hits(Openings, w) = {} /\ Settled(Openings, w, CallOf(d, y) \o r)

LEMMA ThereIsFirst ==
  ASSUME NEW d \in Dialects, NEW t \in Texts, Regular(d, t), Hits(Openings, t) # {}
  PROVE  \E w, y, r : Begins(d, t, w, y, r)
<1> DEFINE o == Opening(t)
           w == Before(t)
           m == d[1]
           q == m \o Body(t)
<1>1. /\ o[1] \in 1 .. Len(t) /\ w \in Texts /\ Len(w) = o[1] - 1 /\ Body(t) \in Texts
      /\ w \o (o[2] \o Body(t)) = t /\ Hits(Openings, w) = {}
  BY OpeningIs
<1>2. o \in Hits(Openings, t)
  BY EarliestIs, MarkersApart DEF Opening, Apart
<1>3. o[2] = m
  BY <1>2 DEF Regular
<1>4. PICK b \in Blocks(d, t) : b[1] = o[1]
  BY <1>2 DEF Regular
<1>5. b = <<b[1], b[2]>> /\ b[2] \in BlockMarks(d) /\ b \in Hits(BlockMarks(d), t)
  BY BlocksOpen, BlockMarksAre
<1>6. PICK y \in Declared \cup Undeclared : b[2] = CallOf(d, y)
  BY <1>5 DEF BlockMarks
<1> DEFINE k == CallOf(d, y)
<1>7. /\ k \in Texts /\ Len(k) \in Nat /\ m \in Texts /\ m \in Openings /\ Apart(Openings)
  BY CallIs, DialectIs, MarkersApart, LenProperties DEF Texts
<1> HIDE DEF k, m, o, w
<1>8. q \in Texts /\ t = w \o q
  BY <1>1, <1>3, <1>7, TextsConcat
<1>9. Settled(Openings, w, q)
  <2> DEFINE e == <<>>
  <2>1. e \in Texts /\ e \o w = w /\ e \o (w \o q) = w \o q
    BY <1>1, <1>8, TextEmpty
  <2>2. Settled(Openings, e, w \o q)
    BY <2>1, TextEmpty DEF Settled
  <2> HIDE DEF e
  <2>3. Settled(Openings, e \o w, m \o Body(t))
    BY <1>1, <1>7, <2>1, <2>2, MarkSettles
  <2> QED
    BY <2>1, <2>3
<1> HIDE DEF q
<1>10. /\ Agrees(k, t, Len(w) + 1) /\ Ends(k, Len(w) + 1) <= Len(t) /\ Len(w) \in Nat
       /\ Len(t) = Len(w) + Len(q) /\ Len(q) \in Nat
  <2>1. Len(t) = Len(w) + Len(q) /\ Len(w) \in Nat /\ Len(q) \in Nat
    BY <1>1, <1>8, TextsConcat
  <2>2. <<Len(w) + 1, k>> \in Hits(BlockMarks(d), t)
    <3>1. o[1] = Len(w) + 1
      BY <1>1, <2>1
    <3>2. b = <<Len(w) + 1, k>>
      BY <1>4, <1>5, <1>6, <3>1 DEF k
    <3> QED
      BY <1>5, <3>2
  <2> QED
    BY <2>1, <2>2, BlockMarksAre, HitsAre
<1> DEFINE s == SubSeq(q, 1, Len(k))
           r == From(q, Len(k) + 1)
<1>11. Len(k) \in 0 .. Len(q)
  BY <1>7, <1>10 DEF Ends
<1>12. /\ s \in Texts /\ Len(s) = Len(k) /\ \A j \in 1 .. Len(k) : s[j] = q[j]
       /\ r \in Texts /\ s \o r = q
  <2>1. Len(k) + 1 \in 1 .. Len(q) + 1
    BY <1>7, <1>10, <1>11
  <2>2. r \in Texts
    BY <1>8, <2>1, FromIs
  <2> QED
    BY <1>8, <1>11, <2>2, BeginningIs
<1>13. s = k
  <2>1. \A j \in 1 .. Len(k) : k[j] = q[j]
    <3> SUFFICES ASSUME NEW j \in 1 .. Len(k) PROVE k[j] = q[j]
      OBVIOUS
    <3>1. Len(w) + 1 + j - 1 <= Len(t) /\ Len(w) + 1 + j - 1 = Len(w) + j /\ j \in 1 .. Len(q)
      BY <1>7, <1>10, <1>11
    <3>2. t[Len(w) + j] = k[j]
      BY <1>10, <3>1 DEF Agrees
    <3>3. t[Len(w) + j] = q[j]
      <4>1. w \in Texts /\ q \in Texts /\ j \in 1 .. Len(q)
        BY <1>1, <1>8, <3>1
      <4>2. (w \o q)[Len(w) + j] = q[j]
        BY ONLY <4>1, TextsConcat
      <4> QED
        BY <1>8, <4>2
    <3> QED
      BY <3>2, <3>3
  <2> HIDE DEF s
  <2> QED
    BY <1>7, <1>12, <2>1, SeqEqual DEF Texts
<1> HIDE DEF s, r
<1>14. q = k \o r
  BY <1>12, <1>13
<1>15. t = w \o (k \o r) /\ Settled(Openings, w, k \o r)
  BY <1>8, <1>9, <1>14
<1>16. Begins(d, t, w, y, r)
  BY <1>1, <1>12, <1>15 DEF Begins, k
<1> QED
  BY <1>16

LEMMA AfterFirst ==
  ASSUME NEW d \in Dialects, NEW t \in Texts, Regular(d, t), NEW w, NEW y, NEW r, Begins(d, t, w, y, r)
  PROVE  Regular(d, r) /\ Len(r) < Len(t) /\ Len(r) \in Nat /\ Len(t) \in Nat
<1> DEFINE k == CallOf(d, y)
           c == w \o k
           n == Len(w)
           l == Len(w) + Len(k)
<1>1. /\ w \in Texts /\ r \in Texts /\ y \in Declared \cup Undeclared /\ k \in Texts
      /\ t = w \o (k \o r) /\ Len(k) \in Nat /\ Len(k) > 0
  <2>1. /\ w \in Texts /\ r \in Texts /\ y \in Declared \cup Undeclared /\ t = w \o (k \o r)
    BY DEF Begins
  <2> DEFINE a == Len(d[1])
             b == Len(d[2])
  <2>2. k \in Texts /\ Len(k) = a + 1 + b /\ a \in Nat /\ b \in Nat
    BY <2>1, CallIs, DialectIs
  <2> HIDE DEF k, a, b
  <2> QED
    BY <2>1, <2>2
<1>2. /\ <<n + 1, k>> \in Blocks(d, t)
      /\ \A h \in Blocks(d, t) : h = <<n + 1, k>> \/ \E g \in Blocks(d, r) : h = <<l + g[1], g[2]>>
  BY <1>1, BlocksOfParts DEF Begins
<1> HIDE DEF k
<1>3. c \in Texts /\ Len(c) = l /\ n \in Nat /\ t = c \o r
  <2>1. c \in Texts /\ Len(c) = l /\ n \in Nat
    BY <1>1, TextsConcat
  <2>2. (w \o k) \o r = w \o (k \o r)
    BY <1>1, TextsAssociate
  <2> QED
    BY <1>1, <2>1, <2>2
<1> HIDE DEF c
<1>4. Len(t) = l + Len(r) /\ Len(r) \in Nat /\ l \in Nat
  <2>1. c \in Texts /\ r \in Texts
    BY <1>1, <1>3
  <2>2. Len(c \o r) = Len(c) + Len(r) /\ Len(r) \in Nat /\ Len(c) \in Nat
    BY ONLY <2>1, TextsConcat
  <2> QED
    BY <1>3, <2>2
<1>5. Openings \in Marks
  BY MarkersApart DEF Apart
<1>6. ASSUME NEW h \in Hits(Openings, r)
      PROVE  h[2] = d[1] /\ \E b \in Blocks(d, r) : b[1] = h[1]
  <2>1. h = <<h[1], h[2]>> /\ h[1] \in 1 .. Len(r)
    BY <1>1, <1>5, HitsAre
  <2> DEFINE i == h[1]
             m == h[2]
  <2>2. <<l + i, m>> \in Hits(Openings, t)
    BY <1>1, <1>3, <1>5, <2>1, HitsOfRest, ZenonT(40)
  <2>3. m = d[1] /\ \E b \in Blocks(d, t) : b[1] = l + i
    BY <2>2 DEF Regular
  <2>4. PICK b \in Blocks(d, t) : b[1] = l + i
    BY <2>3
  <2>5. b # <<n + 1, k>>
    BY <1>1, <1>3, <2>1, <2>4
  <2>6. PICK g \in Blocks(d, r) : b = <<l + g[1], g[2]>>
    BY <1>2, <2>5
  <2>7. g[1] \in 1 .. Len(r)
    BY <1>1, BlocksOpen
  <2>8. g[1] = i
    BY <1>4, <2>1, <2>4, <2>6, <2>7
  <2> QED
    BY <2>3, <2>8
<1> QED
  BY <1>1, <1>3, <1>4, <1>6 DEF Regular

LEMMA FirstIsABlock ==
  ASSUME NEW d \in Dialects, Sole(d), NEW t, NEW w, NEW y, NEW r, Begins(d, t, w, y, r)
  PROVE  HasBlock(t, w, d[1], <<y>>, r) /\ ClosingOf(d[1]) = d[2]
<1> DEFINE m == d[1]
           c == d[2]
           x == <<y>>
<1>1. /\ w \in Texts /\ r \in Texts /\ y \in Declared \cup Undeclared
      /\ t = w \o (CallOf(d, y) \o r) /\ Hits(Openings, w) = {}
  BY DEF Begins
<1>2. CallOf(d, y) = m \o (x \o c) /\ x \in Texts /\ y # "<"
  BY <1>1, CallIs
<1>3. m \in Openings /\ m \in Texts /\ c \in Texts /\ c[1] = "<" /\ Len(c) \in Nat \ {0} /\ {c} \in Marks
  <2>1. {c} \in Marks
    BY ClosingsApart DEF Apart
  <2> QED
    BY <2>1, DialectIs
<1>4. ClosingOf(m) = c
  BY DEF ClosingOf, Sole
<1>5. Hits({c}, x) = {}
  <2>1. ASSUME NEW i, NEW n, <<i, n>> \in Hits({c}, x)
        PROVE  FALSE
    <3>1. i \in 1 .. Len(x) /\ n = c /\ Agrees(n, x, i)
      BY <1>2, <1>3, <2>1, HitsAre
    <3>2. i = 1 /\ Len(x) = 1 /\ x[1] = y
      BY <3>1
    <3>3. 1 \in 1 .. Len(c) /\ i + 1 - 1 <= Len(x) /\ i + 1 - 1 = 1
      BY <1>3, <3>2
    <3>4. x[1] = c[1]
      BY <3>1, <3>3 DEF Agrees
    <3> QED
      BY <1>2, <1>3, <3>2, <3>4
  <2> QED
    BY <1>2, <1>3, <2>1, NoHits
<1> HIDE DEF x, m, c
<1>6. t = InParts(w, m, x, c, r)
  <2>1. x \o c \in Texts
    BY <1>2, <1>3, TextsConcat
  <2>2. (m \o (x \o c)) \o r = m \o ((x \o c) \o r)
    BY <1>1, <1>3, <2>1, TextsAssociate
  <2>3. (x \o c) \o r = x \o (c \o r)
    BY <1>1, <1>2, <1>3, TextsAssociate
  <2> QED
    BY <1>1, <1>2, <2>2, <2>3 DEF InParts
<1>7. HasBlock(t, w, m, x, r)
  BY <1>1, <1>2, <1>3, <1>4, <1>5, <1>6 DEF HasBlock
<1> QED
  BY <1>4, <1>7 DEF m, x, c

\* The block taken out of the text is read as its one call.
LEMMA TheCallIsRead ==
  ASSUME NEW d \in Dialects, Sole(d), NEW t \in Texts, Regular(d, t),
         NEW w, NEW y, NEW r, Begins(d, t, w, y, r)
  PROVE  Parsed(CallOf(d, y)).calls = <<y>>
<1> DEFINE k == CallOf(d, y)
           q == k \o r
<1>1. /\ w \in Texts /\ r \in Texts /\ y \in Declared \cup Undeclared
      /\ t = w \o (CallOf(d, y) \o r)
  BY DEF Begins
<1>2. k \in Texts /\ <<y>> \in Texts /\ Openings \in Marks
  BY <1>1, CallIs, MarkersApart DEF Apart
<1>3. ASSUME NEW e \in Dialects, Blocks(e, k) # {}
      PROVE  e = d
  <2> HIDE DEF k
  <2>1. PICK b \in Blocks(e, k) : TRUE
    BY <1>3
  <2> DEFINE i == b[1]
             m == e[1]
  <2>2. <<i, m>> \in Hits(Openings, k)
    BY <1>2, <2>1, BlocksOpen
  <2>3. i \in 1 .. Len(k) /\ m \in Openings /\ m \in Texts /\ Agrees(m, k, i) /\ Ends(m, i) <= Len(k)
    BY <1>2, <2>2, HitsAre, DialectIs
  <2>4. q \in Texts /\ Len(q) = Len(k) + Len(r) /\ Len(k) \in Nat /\ Len(r) \in Nat
    BY <1>1, <1>2, TextsConcat
  <2>5. Agrees(m, q, i)
    BY <1>1, <1>2, <2>3, ConcatAgrees
  <2> HIDE DEF q, i, m
  <2>6. i \in 1 .. Len(q) /\ Ends(m, i) <= Len(q)
    <3>1. Ends(m, i) \in Int
      BY <2>3, LenProperties DEF Ends, Texts
    <3> QED
      BY <2>3, <2>4, <3>1
  <2>7. <<i, m>> \in Hits(Openings, q)
    BY <1>2, <2>3, <2>4, <2>5, <2>6, HitsAre
  <2>8. <<Len(w) + i, m>> \in Hits(Openings, w \o q)
    BY <1>1, <1>2, <2>4, <2>6, <2>7, HitsOfRest
  <2>9. m = d[1]
    BY <1>1, <2>8 DEF Regular, q, k
  <2> QED
    BY <2>9 DEF m, Sole
<1>4. Blocks(d, k) # {} /\ Bodies(d, Blocks(d, k), k) = <<y>>
  <2> DEFINE e == <<>>
             s == e \o (k \o e)
  <2>1. e \in Texts /\ Hits(Openings, e) = {} /\ Settled(Openings, e, k \o e) /\ Len(e) = 0
    BY <1>2, NoneInEmpty, TextEmpty DEF Settled
  <2>2. s = k
    BY <1>2, TextEmpty
  <2>3. <<Len(e) + 1, k>> \in Blocks(d, s)
    BY <1>1, <2>1, BlocksOfParts
  <2>4. Bodies(d, Blocks(d, s), s) = <<y>> \o Bodies(d, Blocks(d, e), e)
    BY <1>1, <2>1, ReadingOfParts
  <2>5. Bodies(d, Blocks(d, e), e) = e
    <3> DEFINE P == {b[1] + Len(d[1]) : b \in Blocks(d, e)}
    <3>1. e \in Seq(Symbols) /\ \A n \in 1 .. Len(e) : n \notin P
      BY <2>1 DEF Texts
    <3> HIDE DEF P, e
    <3>2. Picked(e, P) = <<>>
      BY <3>1, PickedNone
    <3> QED
      BY <3>2 DEF Bodies, P, e
  <2>6. <<y>> \o e = <<y>>
    BY <1>2, TextEmpty
  <2> HIDE DEF s, e
  <2> QED
    BY <2>2, <2>3, <2>4, <2>5, <2>6
<1> HIDE DEF k
<1>5. Parsed(k).calls = <<y>>
  BY <1>2, <1>3, <1>4, ParsedOne
<1> QED
  BY <1>5 DEF k

\* The loop of the tool parser and its flush read b, after o, as parse_tool_calls reads b.
Alike(d, b, o) ==
  LET p == Looped(b, o)
      q == ToolFlush(p)
  IN  ~p.failed =>
        /\ ~q.failed
        /\ Of("content", p.out \o q.out) = Of("content", o) \o Outside(Blocks(d, b), b)
        /\ Of("tool_call", p.out \o q.out) = Of("tool_call", o) \o Bodies(d, Blocks(d, b), b)

LEMMA ReadingIs ==
  ASSUME NEW d, NEW b \in Texts
  PROVE  /\ Outside(Blocks(d, b), b) \in Texts /\ Bodies(d, Blocks(d, b), b) \in Texts
         /\ Blocks(d, b) = {} => /\ Outside(Blocks(d, b), b) = b
                                 /\ Bodies(d, Blocks(d, b), b) = <<>>
<1> DEFINE P == {i \in DOMAIN b : ~Covered(Blocks(d, b), i)}
           Q == {h[1] + Len(d[1]) : h \in Blocks(d, b)}
<1>1. b \in Seq(Symbols) /\ DOMAIN b = 1 .. Len(b)
  BY LenProperties DEF Texts
<1>2. Blocks(d, b) = {} => 1 .. Len(b) \subseteq P /\ \A n \in 1 .. Len(b) : n \notin Q
  BY <1>1 DEF Covered
<1> HIDE DEF P, Q
<1>3. /\ Picked(b, P) \in Texts /\ Picked(b, Q) \in Texts
      /\ Blocks(d, b) = {} => Picked(b, P) = b /\ Picked(b, Q) = <<>>
  <2>1. Picked(b, P) \in Seq(Symbols) /\ Picked(b, Q) \in Seq(Symbols)
    BY <1>1, PickedType
  <2>2. Blocks(d, b) = {} => Picked(b, P) = b
    BY <1>1, <1>2, PickedAll
  <2>3. Blocks(d, b) = {} => Picked(b, Q) = <<>>
    BY <1>1, <1>2, PickedNone
  <2> QED
    BY <2>1, <2>2, <2>3 DEF Texts
<1> QED
  BY <1>3 DEF Outside, Bodies, P, Q

LEMMA AlikeWithout ==
  ASSUME NEW d \in Dialects, NEW b \in Texts, NEW o \in Outs, Hits(Openings, b) = {}
  PROVE  Alike(d, b, o)
<1>1. Blocks(d, b) = {}
  BY BlocksOpen
<1>2. Outside(Blocks(d, b), b) = b /\ Bodies(d, Blocks(d, b), b) = <<>>
  BY <1>1, ReadingIs
<1>3. Of("tool_call", o) \o <<>> = Of("tool_call", o)
  <2>1. Of("tool_call", o) \in Texts
    BY OfOuts
  <2> QED
    BY <2>1, TextEmpty
<1> QED
  BY <1>2, <1>3, ReadWithout DEF Alike

LEMMA AlikeAfterFirst ==
  ASSUME NEW d \in Dialects, Sole(d), NEW b \in Texts, Regular(d, b), NEW o \in Outs,
         NEW w, NEW y, NEW r, Begins(d, b, w, y, r),
         \A v \in Outs : Alike(d, r, v)
  PROVE  Alike(d, b, o)
<1> DEFINE k == CallOf(d, y)
           x == Tagged("content", w)
           z == Tagged("tool_call", <<y>>)
           v == (o \o x) \o z
           A == Outside(Blocks(d, r), r)
           B == Bodies(d, Blocks(d, r), r)
<1>1. /\ w \in Texts /\ r \in Texts /\ y \in Declared \cup Undeclared /\ b = w \o (k \o r)
      /\ Hits(Openings, w) = {} /\ Settled(Openings, w, k \o r)
  BY DEF Begins
<1>2. <<y>> \in Texts /\ k = d[1] \o (<<y>> \o d[2])
  BY <1>1, CallIs
<1>3. HoldsBlock(b) /\ Before(b) = w /\ Rest(b) = r /\ Block(b) = k
  <2>1. HasBlock(b, w, d[1], <<y>>, r) /\ ClosingOf(d[1]) = d[2]
    BY FirstIsABlock
  <2> QED
    BY <1>2, <2>1, HasBlockIs
<1>4. Taken(b, o) = v
  BY <1>3, TheCallIsRead DEF Taken
<1>5. Looped(b, o).failed \/ Looped(b, o) = Looped(r, v)
  BY <1>3, <1>4, LoopedUnfolds
<1>6. /\ x \in Outs /\ z \in Outs /\ Of("content", x) = w /\ Of("content", z) = <<>>
      /\ Of("tool_call", x) = <<>> /\ Of("tool_call", z) = <<y>>
  BY <1>1, <1>2, OfOuts, TaggedConcat DEF Kinds
<1>7. v \in Outs /\ Alike(d, r, v)
  BY <1>3, <1>4, LoopedUnfolds
<1>8. /\ Outside(Blocks(d, b), b) = w \o A /\ Bodies(d, Blocks(d, b), b) = <<y>> \o B
      /\ A \in Texts /\ B \in Texts
  BY <1>1, ReadingOfParts, ReadingIs
<1> HIDE DEF x, z, A, B
<1>9. ASSUME NEW f
      PROVE  Of(f, v) = (Of(f, o) \o Of(f, x)) \o Of(f, z) /\ Of(f, o) \in Texts
  <2> DEFINE u == o \o x
  <2>1. u \in Outs /\ Of(f, u) = Of(f, o) \o Of(f, x) /\ Of(f, o) \in Texts
    BY <1>6, OutsConcat, OfOuts
  <2> HIDE DEF u
  <2>2. Of(f, u \o z) = Of(f, u) \o Of(f, z)
    BY <1>6, <2>1, OfOuts
  <2> QED
    BY <2>1, <2>2 DEF u
<1>10. Of("content", v) \o A = Of("content", o) \o (w \o A)
  <2> DEFINE a == Of("content", o)
  <2>1. Of("content", v) = (a \o w) \o <<>> /\ a \in Texts
    BY <1>6, <1>9
  <2> HIDE DEF a
  <2>2. (a \o w) \o <<>> = a \o w
    <3>1. a \o w \in Texts
      BY <1>1, <2>1, TextsConcat
    <3> QED
      BY <3>1, TextEmpty
  <2>3. (a \o w) \o A = a \o (w \o A)
    BY <1>1, <1>8, <2>1, TextsAssociate
  <2> QED
    BY <2>1, <2>2, <2>3 DEF a
<1>11. Of("tool_call", v) \o B = Of("tool_call", o) \o (<<y>> \o B)
  <2> DEFINE a == Of("tool_call", o)
             e == <<y>>
  <2>1. Of("tool_call", v) = (a \o <<>>) \o e /\ a \in Texts /\ e \in Texts
    BY <1>2, <1>6, <1>9
  <2> HIDE DEF a, e
  <2>2. (a \o e) \o B = a \o (e \o B)
    BY <1>8, <2>1, TextsAssociate
  <2> QED
    BY <2>1, <2>2, TextEmpty DEF a, e
<1> HIDE DEF v
<1> QED
  BY <1>5, <1>7, <1>8, <1>10, <1>11 DEF Alike, A, B

\* A text whose openings all begin calls of one dialect.
LEMMA RegularIsReadAlike ==
  ASSUME NEW d \in Dialects, Sole(d)
  PROVE  \A b \in Texts, o \in Outs : Regular(d, b) => Alike(d, b, o)
<1> DEFINE T == {n \in Nat : \A b \in Texts : Len(b) = n /\ Regular(d, b) => \A o \in Outs : Alike(d, b, o)}
<1>1. ASSUME NEW n \in Nat, \A k \in Nat : k < n => k \in T
      PROVE  n \in T
  <2> SUFFICES ASSUME NEW b \in Texts, Len(b) = n, Regular(d, b), NEW o \in Outs
               PROVE  Alike(d, b, o)
    OBVIOUS
  <2>1. CASE Hits(Openings, b) = {}
    BY <2>1, AlikeWithout
  <2>2. CASE Hits(Openings, b) # {}
    <3>1. PICK w, y, r : Begins(d, b, w, y, r)
      BY <2>2, ThereIsFirst
    <3>2. Regular(d, r) /\ Len(r) \in Nat /\ Len(r) < n /\ r \in Texts
      BY <3>1, AfterFirst DEF Begins
    <3>3. \A v \in Outs : Alike(d, r, v)
      BY <1>1, <3>2
    <3> QED
      BY <3>1, <3>3, AlikeAfterFirst
  <2> QED
    BY <2>1, <2>2
<1>2. \A n \in Nat : (\A k \in Nat : k < n => k \in T) => n \in T
  BY <1>1
<1> HIDE DEF T
<1>3. Nat \subseteq T
  BY <1>2, ByLength
<1>4. \A b \in Texts : Len(b) \in T
  BY <1>3, LenProperties DEF Texts
<1> QED
  BY <1>4 DEF T

\* A text as OneDialectIsReadAlike speaks of.
LEMMA OneDialectIs ==
  ASSUME NEW t \in Texts, Cardinality({e \in Dialects : Blocks(e, t) # {}}) <= 1, Stray(t) = {},
         Hits(Openings, t) # {}
  PROVE  \E d \in Dialects : /\ Sole(d) /\ Regular(d, t) /\ Blocks(d, t) # {}
                             /\ \A e \in Dialects : Blocks(e, t) # {} => e = d
<1> DEFINE D == {e \in Dialects : Blocks(e, t) # {}}
<1>1. \A e, f \in D : e = f
  <2>1. IsFiniteSet(Dialects)
    <3>1. IsFiniteSet(1 .. Len(DialectOrder)) /\ DOMAIN DialectOrder = 1 .. Len(DialectOrder)
      BY MarkersAreTexts, LenProperties, FS_Interval
    <3>2. Dialects = {DialectOrder[i] : i \in 1 .. Len(DialectOrder)}
      BY <3>1 DEF Dialects, ToSet
    <3> DEFINE I == 1 .. Len(DialectOrder)
    <3>3. DialectOrder \in [I -> Dialects]
      BY <3>1, <3>2, MarkersAreTexts, ElementOfSeq
    <3>4. DialectOrder \in Surjection(I, Dialects)
      BY <3>2, <3>3 DEF Surjection
    <3>5. IsFiniteSet(I)
      BY <3>1
    <3> HIDE DEF I
    <3> QED
      BY <3>4, <3>5, FS_Surjection
  <2>2. IsFiniteSet(D)
    BY <2>1, FS_Subset
  <2> HIDE DEF D
  <2>3. Cardinality(D) \in Nat
    BY <2>2, FS_CardinalityType
  <2>4. Cardinality(D) = 0 \/ Cardinality(D) = 1
    BY <2>3 DEF D
  <2>5. CASE Cardinality(D) = 0
    BY <2>2, <2>5, FS_EmptySet
  <2>6. CASE Cardinality(D) = 1
    BY <2>2, <2>6, FS_Singleton
  <2> QED
    BY <2>4, <2>5, <2>6
<1>2. ASSUME NEW h \in Hits(Openings, t), NEW e \in Dialects, e[1] = h[2]
      PROVE  e \in D /\ \E b \in Blocks(e, t) : b[1] = h[1]
  <2>1. h \in Hits({e[1]}, t)
    <3>1. Openings \in Marks /\ {e[1]} \in Marks /\ h[2] \in {e[1]}
      <4>1. Openings \in Marks /\ e[1] \in Openings
        BY MarkersApart, DialectIs DEF Apart
      <4> QED
        BY <1>2, <4>1 DEF Marks
    <3>2. h = <<h[1], h[2]>>
      BY <3>1, HitsAre
    <3> QED
      BY <3>1, <3>2, HitsAre
  <2>2. \E b \in Blocks(e, t) : b[1] = h[1]
    <3> SUFFICES ASSUME \A b \in Blocks(e, t) : b[1] # h[1]
                 PROVE  FALSE
      OBVIOUS
    <3>1. h \in {g \in Hits({e[1]}, t) : \A b \in Blocks(e, t) : b[1] # g[1]}
      BY <2>1
    <3>2. h \in Stray(t)
      BY <3>1 DEF Stray
    <3> QED
      BY <3>2
  <2> QED
    BY <2>2
<1>3. PICK h \in Hits(Openings, t) : TRUE
  OBVIOUS
<1>4. \A g \in Hits(Openings, t) : \E e \in Dialects : e[1] = g[2]
  <2>1. Openings \in Marks
    BY MarkersApart DEF Apart
  <2>2. \A g \in Hits(Openings, t) : g[2] \in Openings
    BY <2>1, HitsAre
  <2> QED
    BY <2>2 DEF Openings
<1>5. PICK d \in Dialects : d[1] = h[2]
  BY <1>4
<1>6. d \in D
  BY <1>2, <1>5
<1> HIDE DEF D
<1>7. Sole(d)
  BY <1>1, <1>2, <1>5, <1>6 DEF Sole
<1>8. Regular(d, t)
  <2>1. ASSUME NEW g \in Hits(Openings, t)
        PROVE  g[2] = d[1] /\ \E b \in Blocks(d, t) : b[1] = g[1]
    <3>1. PICK e \in Dialects : e[1] = g[2]
      BY <1>4
    <3> QED
      BY <1>1, <1>2, <1>6, <3>1
  <2> QED
    BY <2>1 DEF Regular
<1> QED
  BY <1>1, <1>6, <1>7, <1>8 DEF D

\* A call of feed on a new parser is its loop.
LEMMA FedIsLooped ==
  ASSUME NEW t \in Texts, ~ToolFeed(State(<<>>, <<>>), t).failed
  PROVE  /\ ToolFeed(State(<<>>, <<>>), t) = Looped(t, <<>>) /\ ~Looped(t, <<>>).failed
<1> DEFINE e == <<>>
           s == State(e, e)
           l == Looped(t, e)
<1>1. e \in Outs /\ l \in ToolStates /\ e \o t = t
  BY EmptyOut, LoopedIs, TextEmpty
<1>2. [s EXCEPT !.buffer = @ \o t, !.out = <<>>] = State(t, e)
  <2> DEFINE z == [s EXCEPT !.buffer = @ \o t, !.out = <<>>]
  <2>1. s \in [buffer : {e}, failed : {FALSE}, out : {e}] /\ s.buffer = e
    BY DEF State
  <2>2. z.failed = FALSE /\ z.buffer = t /\ z.out = e /\ z \in [buffer : {t}, failed : {FALSE}, out : {e}]
    BY <1>1, <2>1
  <2> HIDE DEF z, s
  <2>3. z = [buffer |-> t, failed |-> FALSE, out |-> e]
    BY <2>2
  <2> QED
    BY <2>3 DEF State, z
<1>3. ToolFeed(s, t) = IF l.failed THEN [l EXCEPT !.out = <<>>] ELSE l
  BY <1>2 DEF ToolFeed, Looped
<1>4. ~ToolFeed(s, t).failed
  OBVIOUS
<1> HIDE DEF l, s, e
<1>5. ~l.failed /\ ToolFeed(s, t) = l
  BY <1>1, <1>3, <1>4 DEF ToolStates
<1> QED
  BY <1>5 DEF l, s, e

\* A completed reply in one dialect, every call of it well formed, carries the content and the calls
\* that parse_tool_calls finds in its whole content, whatever the dialects, the tools and the cuts
\* are (ToolCallStreamParser.feed, flush; parse_tool_calls).
THEOREM OneDialectReadsAlike == Spec => []OneDialectIsReadAlike
<1> DEFINE Inv == StopInv /\ ThinkingInv /\ ToolsInv /\ WholeInv
<1>1. Inv => OneDialectIsReadAlike
  <2> DEFINE content == Of("content", split)
             whole == ToolFeed(State(<<>>, <<>>), content)
             q == ToolFlush(whole)
  <2> SUFFICES ASSUME Inv, phase = "completed", content # <<JsonCall>>,
                      Cardinality({d \in Dialects : Blocks(d, content) # {}}) <= 1,
                      Stray(content) = {}
               PROVE  /\ Of("tool_call", reply) = Parsed(content).calls
                      /\ Of("content", reply) = Parsed(content).visible
    BY DEF OneDialectIsReadAlike, Unstreamed
  <2>1. content \in Texts
    <3>1. split \in Pairs
      BY DEF ThinkingInv, Pairs
    <3> QED
      BY <3>1, OfConcat
  <2>2. ~whole.failed /\ reply = whole.out \o q.out
    BY DEF WholeInv
  <2> HIDE DEF content
  <2>3. whole = Looped(content, <<>>) /\ ~Looped(content, <<>>).failed
    BY <2>1, <2>2, FedIsLooped
  <2> HIDE DEF whole, q
  <2>4. /\ <<>> \in Outs /\ Of("content", <<>>) = <<>> /\ Of("tool_call", <<>>) = <<>>
        /\ <<>> \in Texts /\ \A t \in Texts : <<>> \o t = t
    <3>1. <<>> \in Texts /\ Tagged("content", <<>>) = <<>>
      BY TextEmpty DEF Tagged
    <3>2. /\ Of("content", Tagged("content", <<>>)) = <<>>
          /\ Of("tool_call", Tagged("content", <<>>)) = <<>>
      BY <3>1, OfOuts DEF Kinds
    <3> QED
      BY <3>1, <3>2, EmptyOut, TextEmpty
  <2>5. CASE Hits(Openings, content) = {}
    <3>1. Of("content", reply) = content /\ Of("tool_call", reply) = <<>>
      BY <2>1, <2>2, <2>3, <2>4, <2>5, ReadWithout DEF q
    <3>2. \A e \in Dialects : Blocks(e, content) = {}
      BY <2>1, <2>5, BlocksOpen
    <3>3. Parsed(content) = [visible |-> content, calls |-> <<>>, failed |-> FALSE]
      BY <2>1, <3>2, ParsedNone
    <3> QED
      BY <3>1, <3>3
  <2>6. CASE Hits(Openings, content) # {}
    <3>1. PICK d \in Dialects : /\ Sole(d) /\ Regular(d, content) /\ Blocks(d, content) # {}
                                /\ \A e \in Dialects : Blocks(e, content) # {} => e = d
      BY <2>1, <2>6, OneDialectIs
    <3>2. Alike(d, content, <<>>)
      BY <2>1, <2>4, <3>1, RegularIsReadAlike
    <3>3. /\ Of("content", reply) = <<>> \o Outside(Blocks(d, content), content)
          /\ Of("tool_call", reply) = <<>> \o Bodies(d, Blocks(d, content), content)
      BY <2>2, <2>3, <2>4, <3>2 DEF Alike, q
    <3>4. /\ Outside(Blocks(d, content), content) \in Texts
          /\ Bodies(d, Blocks(d, content), content) \in Texts
      BY <2>1, ReadingIs
    <3>5. /\ Parsed(content).visible = Outside(Blocks(d, content), content)
          /\ Parsed(content).calls = Bodies(d, Blocks(d, content), content)
      BY <2>1, <3>1, ParsedOne
    <3> QED
      BY <2>4, <3>3, <3>4, <3>5
  <2> QED
    BY <2>5, <2>6
<1>2. Init => Inv
  BY StopInit, ThinkingInit, ToolsInit, WholeInit
<1>3. Inv /\ [Next]_replyVars => Inv'
  BY StopStep, ThinkingStep, ToolsStep, WholeStep
<1> QED
  BY <1>1, <1>2, <1>3, PTL DEF Spec
================================================================================
