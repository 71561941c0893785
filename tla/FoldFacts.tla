----------------------------- MODULE FoldFacts -----------------------------
(* Induction over data: the least element of a set of numbers, induction over *)
(* the natural numbers, and what follows for FoldLeft of any operation Op.    *)
(* Op is a constant, so that a module obtains these facts about an operation  *)
(* of its own by INSTANCE ... WITH Op <- ...                                  *)
EXTENDS Integers, Sequences, SequencesExt, FiniteSetTheorems, SequenceTheorems, TLAPS

CONSTANT Op(_, _)

(* Induction *)

\* A non-empty set of natural numbers has a least element: the intervals up to
\* its members are subsets of a finite one, and strict inclusion of those is
\* well founded.
THEOREM LeastNumber ==
  ASSUME NEW T \in SUBSET Nat, T # {}
  PROVE  \E m \in T : \A k \in T : m <= k
<1>1. PICK t \in T : TRUE
  OBVIOUS
<1> DEFINE S == 0..t
           Smaller == StrictSubsetOrdering(S)
           Intervals == {0..m : m \in T \cap S}
<1>2. t \in Nat
  BY <1>1
<1>3. IsFiniteSet(S)
  BY <1>2, FS_Interval
<1>4. IsWellFoundedOn(Smaller, SUBSET S)
  BY <1>3, FS_StrictSubsetOrderingWellFounded, FS_FiniteSubsetsOfFinite
<1>5. Intervals \in SUBSET SUBSET S /\ Intervals # {}
  BY <1>1, <1>2
<1> HIDE DEF Smaller, Intervals
<1>6. PICK i \in Intervals : \A j \in Intervals : <<j, i>> \notin Smaller
  BY <1>4, <1>5, WFMin
<1>7. PICK m \in T \cap S : i = 0..m
  BY <1>6 DEF Intervals
<1>8. ASSUME NEW k \in T PROVE m <= k
  <2> SUFFICES ASSUME k < m PROVE FALSE
    OBVIOUS
  <2>1. k \in T \cap S
    BY <1>2, <1>7
  <2>2. 0..k \in Intervals
    BY <2>1 DEF Intervals
  <2>3. <<0..k, 0..m>> \in Smaller
    <3>1. 0..k \in SUBSET S /\ 0..m \in SUBSET S
      BY <1>2, <1>7, <2>1
    <3>2. 0..k \subseteq 0..m /\ m \in 0..m /\ m \notin 0..k
      BY <1>2, <1>7, <2>1
    <3> QED
      BY <3>1, <3>2 DEF Smaller, StrictSubsetOrdering
  <2> QED
    BY <1>6, <1>7, <2>2, <2>3
<1> QED
  BY <1>7, <1>8

\* Induction, with the set of numbers a formula holds for in its place.
THEOREM Induction ==
  ASSUME NEW S, 0 \in S, \A n \in Nat : n \in S => n + 1 \in S
  PROVE  Nat \subseteq S
<1> SUFFICES ASSUME NEW n0 \in Nat, n0 \notin S PROVE FALSE
  OBVIOUS
<1> DEFINE T == Nat \ S
<1>1. T \in SUBSET Nat /\ T # {}
  OBVIOUS
<1> HIDE DEF T
<1>2. PICK m \in T : \A k \in T : m <= k
  BY <1>1, LeastNumber
<1>3. m \in Nat /\ m \notin S
  BY <1>2 DEF T
<1>4. m # 0
  BY <1>3
<1>5. m - 1 \in Nat /\ m - 1 \notin T /\ (m - 1) + 1 = m
  BY <1>2, <1>3, <1>4
<1>6. m - 1 \in S
  BY <1>5 DEF T
<1> QED
  BY <1>3, <1>5, <1>6

\* Induction over the length of a sequence, with a set in place of a formula.
THEOREM SeqInduction ==
  ASSUME NEW T, NEW G \in SUBSET Seq(T), <<>> \in G,
         \A s \in G : \A e \in T : Append(s, e) \in G
  PROVE  G = Seq(T)
<1> DEFINE S == {n \in Nat : \A s \in Seq(T) : Len(s) = n => s \in G}
<1>1. 0 \in S
  <2>1. \A s \in Seq(T) : Len(s) = 0 => s = <<>>
    OBVIOUS
  <2> QED
    BY <2>1
<1>2. ASSUME NEW n \in Nat, n \in S PROVE n + 1 \in S
  <2>1. ASSUME NEW s \in Seq(T), Len(s) = n + 1 PROVE s \in G
    <3>1. s # <<>>
      BY <2>1
    <3>2. PICK r \in Seq(T), e \in T : s = Append(r, e)
      BY <3>1, SequenceEmptyOrAppend
    <3>3. Len(r) = n
      BY <2>1, <3>2
    <3>4. r \in G
      BY <1>2, <3>3
    <3> QED
      BY <3>2, <3>4
  <2> QED
    BY <2>1
<1> HIDE DEF S
<1>3. Nat \subseteq S
  BY <1>1, <1>2, Induction
<1>4. ASSUME NEW s \in Seq(T) PROVE s \in G
  BY <1>3 DEF S
<1> QED
  BY <1>4

-----------------------------------------------------------------------------
(* FoldLeft *)

\* FoldLeft takes the positions of a sequence from the last one down.
LEMMA MaxOfPositions ==
  ASSUME NEW n \in Nat, NEW s \in SUBSET (1..n), s # {}
  PROVE  Max(s) \in s /\ \A y \in s : y <= Max(s)
<1> DEFINE T == {n - x : x \in s}
<1>1. T \in SUBSET Nat /\ T # {}
  <2>1. \A x \in s : n - x \in Nat
    OBVIOUS
  <2> QED
    BY <2>1
<1> HIDE DEF T
<1>2. PICK m \in T : \A k \in T : m <= k
  BY <1>1, LeastNumber
<1>3. PICK x \in s : m = n - x
  BY <1>2 DEF T
<1>4. ASSUME NEW y \in s PROVE x >= y
  <2>1. n - y \in T
    BY DEF T
  <2> QED
    BY <1>2, <1>3, <2>1
<1> QED
  BY <1>3, <1>4 DEF Max

\* The function MapThenFoldSet recurs on, for a sequence of n elements.
Fold(f, base, seq, n) ==
  f = [s \in SUBSET (1..n) |->
         IF s = {} THEN base ELSE Op(f[s \ {Max(s)}], seq[Max(s)])]

LEMMA FoldExists ==
  ASSUME NEW base, NEW seq, NEW n \in Nat
  PROVE  \E f : Fold(f, base, seq, n)
<1> DEFINE S == {k \in Nat : \E f : Fold(f, base, seq, k)}
<1>1. 0 \in S
  <2> DEFINE f == [s \in SUBSET (1..0) |-> base]
  <2>1. 1..0 = {}
    OBVIOUS
  <2>2. Fold(f, base, seq, 0)
    BY <2>1 DEF Fold
  <2> QED
    BY <2>2
<1>2. ASSUME NEW k \in Nat, k \in S PROVE k + 1 \in S
  <2>1. PICK f : Fold(f, base, seq, k)
    BY <1>2
  <2> DEFINE g == [s \in SUBSET (1..(k + 1)) |->
                     IF k + 1 \in s THEN Op(f[s \ {k + 1}], seq[k + 1]) ELSE f[s]]
  <2>2. ASSUME NEW s \in SUBSET (1..(k + 1))
        PROVE  g[s] = IF s = {} THEN base ELSE Op(g[s \ {Max(s)}], seq[Max(s)])
    <3>1. CASE k + 1 \in s
      <4>1. Max(s) = k + 1
        <5>1. Max(s) \in s /\ k + 1 <= Max(s)
          BY <3>1, MaxOfPositions
        <5>2. Max(s) \in 1..(k + 1)
          BY <5>1
        <5> QED
          BY <5>1, <5>2
      <4>2. s \ {k + 1} \in SUBSET (1..(k + 1)) /\ k + 1 \notin s \ {k + 1}
        OBVIOUS
      <4>3. g[s \ {k + 1}] = f[s \ {k + 1}]
        BY <4>2
      <4> QED
        BY <3>1, <4>1, <4>3
    <3>2. CASE k + 1 \notin s
      <4>1. s \in SUBSET (1..k)
        BY <3>2
      <4>2. f[s] = IF s = {} THEN base ELSE Op(f[s \ {Max(s)}], seq[Max(s)])
        BY <2>1, <4>1 DEF Fold
      <4>3. s \ {Max(s)} \in SUBSET (1..(k + 1)) /\ k + 1 \notin s \ {Max(s)}
        BY <3>2
      <4>4. g[s \ {Max(s)}] = f[s \ {Max(s)}] /\ g[s] = f[s]
        BY <3>2, <4>3
      <4> QED
        BY <4>2, <4>4
    <3> QED
      BY <3>1, <3>2
  <2>3. g = [s \in SUBSET (1..(k + 1)) |->
               IF s = {} THEN base ELSE Op(g[s \ {Max(s)}], seq[Max(s)])]
    <3> DEFINE h == [s \in SUBSET (1..(k + 1)) |->
                       IF s = {} THEN base ELSE Op(g[s \ {Max(s)}], seq[Max(s)])]
    <3>1. \A s \in SUBSET (1..(k + 1)) : g[s] = h[s]
      BY <2>2, Zenon
    <3> QED
      BY <3>1, Zenon
  <2>4. Fold(g, base, seq, k + 1)
    BY <2>3, Zenon DEF Fold
  <2> QED
    BY <2>4
<1> HIDE DEF S
<1>3. n \in S
  BY <1>1, <1>2, Induction
<1> QED
  BY <1>3 DEF S

\* What such a function gives for the first k positions depends on these only.
Steps(f, base, seq, n) ==
  /\ f[1..0] = base
  /\ \A k \in 0..(n - 1) : f[1..(k + 1)] = Op(f[1..k], seq[k + 1])

LEMMA FoldOfFirst ==
  ASSUME NEW base, NEW n \in Nat, NEW f, NEW seq, Fold(f, base, seq, n)
  PROVE  Steps(f, base, seq, n)
<1>1. f[1..0] = base
  <2>1. 1..0 = {} /\ {} \in SUBSET (1..n)
    OBVIOUS
  <2> QED
    BY <2>1 DEF Fold
<1>2. ASSUME NEW k \in 0..(n - 1)
      PROVE  f[1..(k + 1)] = Op(f[1..k], seq[k + 1])
  <2> DEFINE s == 1..(k + 1)
  <2>1. s \in SUBSET (1..n) /\ s # {} /\ k + 1 \in s
    OBVIOUS
  <2>2. Max(s) = k + 1
    <3>1. Max(s) \in s /\ k + 1 <= Max(s)
      BY <2>1, MaxOfPositions
    <3> QED
      BY <3>1
  <2>3. s \ {k + 1} = 1..k
    OBVIOUS
  <2>4. f[s] = Op(f[s \ {Max(s)}], seq[Max(s)])
    BY <2>1 DEF Fold
  <2> QED
    BY <2>2, <2>3, <2>4
<1> QED
  BY <1>1, <1>2 DEF Steps

LEMMA FoldAgrees ==
  ASSUME NEW base, NEW n \in Nat, NEW g, NEW p, Fold(g, base, p, n),
         NEW m \in Nat, NEW h, NEW q, Fold(h, base, q, m),
         n <= m, \A i \in 1..n : p[i] = q[i]
  PROVE  g[1..n] = h[1..n]
<1> DEFINE S == {k \in Nat : k <= n => g[1..k] = h[1..k]}
<1>1. Steps(g, base, p, n) /\ Steps(h, base, q, m)
  BY FoldOfFirst
<1>2. /\ g[1..0] = base /\ h[1..0] = base
      /\ \A k \in 0..(n - 1) : g[1..(k + 1)] = Op(g[1..k], p[k + 1])
      /\ \A k \in 0..(m - 1) : h[1..(k + 1)] = Op(h[1..k], q[k + 1])
  BY <1>1 DEF Steps
<1>3. 0 \in S
  BY <1>2
<1>4. ASSUME NEW k \in Nat, k \in S PROVE k + 1 \in S
  <2> SUFFICES ASSUME k + 1 <= n PROVE g[1..(k + 1)] = h[1..(k + 1)]
    OBVIOUS
  <2>1. k \in 0..(n - 1) /\ k \in 0..(m - 1) /\ k + 1 \in 1..n
    OBVIOUS
  <2>2. g[1..(k + 1)] = Op(g[1..k], p[k + 1])
    BY <1>2, <2>1
  <2>3. h[1..(k + 1)] = Op(h[1..k], q[k + 1])
    BY <1>2, <2>1
  <2>4. g[1..k] = h[1..k]
    BY <1>4
  <2>5. p[k + 1] = q[k + 1]
    BY <2>1
  <2> QED
    BY <2>2, <2>3, <2>4, <2>5
<1> HIDE DEF S
<1>5. n \in S
  BY <1>3, <1>4, Induction
<1> QED
  BY <1>5 DEF S

LEMMA FoldLeftIsFold ==
  ASSUME NEW base, NEW T, NEW seq \in Seq(T), NEW f, Fold(f, base, seq, Len(seq))
  PROVE  FoldLeft(Op, base, seq) = f[1..Len(seq)]
<1> DEFINE iter == CHOOSE g : Fold(g, base, seq, Len(seq))
<1>1. Len(seq) \in Nat /\ DOMAIN seq = 1..Len(seq)
  OBVIOUS
<1>2. FoldLeft(Op, base, seq) = iter[1..Len(seq)]
  BY <1>1, Zenon DEF FoldLeft, MapThenFoldSet, Fold
<1>3. Fold(iter, base, seq, Len(seq))
  BY Zenon
<1> HIDE DEF iter
<1>4. iter[1..Len(seq)] = f[1..Len(seq)]
  BY <1>1, <1>3, FoldAgrees
<1> QED
  BY <1>2, <1>4

\* Of nothing.
THEOREM FoldEmpty == ASSUME NEW base PROVE FoldLeft(Op, base, <<>>) = base
<1>1. <<>> \in Seq({}) /\ Len(<<>>) = 0
  OBVIOUS
<1>2. PICK f : Fold(f, base, <<>>, 0)
  BY FoldExists
<1>3. FoldLeft(Op, base, <<>>) = f[1..0]
  BY <1>1, <1>2, FoldLeftIsFold
<1> QED
  BY <1>2, <1>3, FoldOfFirst DEF Steps

\* Of one element more.
THEOREM FoldAppend ==
  ASSUME NEW base, NEW T, NEW seq \in Seq(T), NEW e \in T
  PROVE  FoldLeft(Op, base, Append(seq, e)) = Op(FoldLeft(Op, base, seq), e)
<1> DEFINE n == Len(seq)
           more == Append(seq, e)
<1>1. /\ n \in Nat /\ more \in Seq(T) /\ Len(more) = n + 1
      /\ \A i \in 1..n : seq[i] = more[i]
      /\ more[n + 1] = e
  OBVIOUS
<1> HIDE DEF n, more
<1>2. PICK f : Fold(f, base, seq, n)
  BY <1>1, FoldExists
<1>3. PICK g : Fold(g, base, more, n + 1)
  BY <1>1, FoldExists
<1>4. FoldLeft(Op, base, seq) = f[1..n]
  BY <1>2, FoldLeftIsFold DEF n
<1>5. FoldLeft(Op, base, more) = g[1..(n + 1)]
  BY <1>1, <1>3, FoldLeftIsFold
<1>6. f[1..n] = g[1..n]
  BY <1>1, <1>2, <1>3, FoldAgrees
<1>7. g[1..(n + 1)] = Op(g[1..n], more[n + 1])
  BY <1>1, <1>3, FoldOfFirst DEF Steps
<1> QED
  BY <1>1, <1>4, <1>5, <1>6, <1>7 DEF more
=============================================================================
