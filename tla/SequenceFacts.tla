--------------------------- MODULE SequenceFacts ---------------------------
(***************************************************************************)
(* Lemmas about the library's operators on sets of numbers and sequences:  *)
(* least and greatest elements, what Append does to a sum or to a          *)
(* concatenation, and moving a part to the sequence before it.  Facts      *)
(* about all naturals are proved from their least counterexample.          *)
(***************************************************************************)
EXTENDS Integers, FiniteSetsExt, SequencesExt, WellFoundedInduction, FiniteSetTheorems,
        SequenceTheorems, TLAPS

(***************************************************************************)
(* Least and greatest numbers                                              *)
(***************************************************************************)

\* A set of natural numbers that is not empty has a least element: of the
\* intervals from zero to its elements one has no smaller one inside.
LEMMA MinIs ==
  ASSUME NEW S \in SUBSET Nat, S # {}
  PROVE  Min(S) \in S /\ \A j \in S : Min(S) <= j
<1> DEFINE R == StrictSubsetOrdering(Nat)
           T == {0..j : j \in S}
<1>1. \A j \in Nat : IsFiniteSet(0..j) /\ 0..j \in SUBSET Nat
  BY FS_Interval
<1>2. T \subseteq FiniteSubsetsOf(Nat) /\ T # {}
  BY <1>1 DEF FiniteSubsetsOf
<1>3. PICK X \in T : \A Y \in T : ~(<<Y, X>> \in R)
  <2> HIDE DEF R, T
  <2>1. IsWellFoundedOn(R, FiniteSubsetsOf(Nat))
    BY FS_StrictSubsetOrderingWellFounded DEF R
  <2>2. QED
    BY <2>1, <1>2, WFMin
<1>4. PICK m \in S : X = 0..m
  BY <1>3
<1>5. \A j \in S : m <= j
  <2> SUFFICES ASSUME NEW j \in S, j < m PROVE FALSE
    OBVIOUS
  <2>1. 0..j \subseteq 0..m /\ m \in 0..m /\ m \notin 0..j
    OBVIOUS
  <2>2. 0..j \in SUBSET Nat /\ 0..m \in SUBSET Nat
    BY <1>1
  <2>3. <<0..j, 0..m>> \in StrictSubsetOrdering(Nat)
    BY ONLY <2>1, <2>2 DEF StrictSubsetOrdering
  <2>4. QED
    BY <2>3, <1>3, <1>4
<1>6. QED
  BY <1>5 DEF Min

\* A bounded one has a greatest element too.
LEMMA MaxIs ==
  ASSUME NEW n \in Nat, NEW S \in SUBSET (0..n), S # {}
  PROVE  Max(S) \in S /\ \A j \in S : Max(S) >= j
<1> DEFINE T == {n - j : j \in S}
<1>1. T \in SUBSET Nat /\ T # {}
  <2>1. \A j \in S : n - j \in Nat
    OBVIOUS
  <2>2. QED
    BY <2>1
<1>2. PICK m \in S : n - m = Min(T)
  BY <1>1, MinIs
<1>3. \A j \in S : Min(T) <= n - j
  BY <1>1, MinIs
<1>4. \A j \in S : m >= j
  BY <1>2, <1>3
<1>5. QED
  BY <1>4 DEF Max

\* Induction: a set that has zero, and with a number the next one, has all.
LEMMA NaturalsIn ==
  ASSUME NEW S, 0 \in S, \A n \in Nat : n \in S => n + 1 \in S
  PROVE  \A n \in Nat : n \in S
<1> DEFINE T == {n \in Nat : n \notin S}
<1> SUFFICES ASSUME T # {} PROVE FALSE
  OBVIOUS
<1>1. T \in SUBSET Nat
  OBVIOUS
<1>2. Min(T) \in T /\ \A j \in T : Min(T) <= j
  BY <1>1, MinIs
<1>3. PICK m \in T : \A j \in T : m <= j
  BY <1>2
<1>4. m # 0 /\ m - 1 \in Nat /\ m - 1 \notin T
  BY <1>3
<1>5. QED
  BY <1>3, <1>4

(***************************************************************************)
(* Sums                                                                    *)
(***************************************************************************)

\* The recursive function behind a fold that adds up W[1], W[2] .. W[n].
Sums(W, n, g) ==
  g = [s \in SUBSET (1..n) |->
         IF s = {} THEN 0 ELSE LET x == Max(s) IN g[s \ {x}] + W[x]]

SumOf(W, n) == (CHOOSE g : Sums(W, n, g))[1..n]

LEMMA MaxOfInterval ==
  ASSUME NEW n \in Nat, NEW s \in SUBSET (1..(n + 1)), n + 1 \in s
  PROVE  Max(s) = n + 1 /\ s \ {n + 1} \in SUBSET (1..n)
<1>1. s \in SUBSET (0..(n + 1)) /\ s # {} /\ n + 1 \in Nat
  OBVIOUS
<1>2. Max(s) \in s /\ \A j \in s : Max(s) >= j
  BY <1>1, MaxIs
<1>3. Max(s) = n + 1
  <2>1. PICK m \in s : m = Max(s) /\ \A j \in s : m >= j
    BY <1>2
  <2>2. m \in 1..(n + 1) /\ m >= n + 1
    BY <2>1
  <2>3. QED
    BY <2>1, <2>2
<1>4. s \ {n + 1} \in SUBSET (1..n)
  OBVIOUS
<1>5. QED
  BY <1>3, <1>4

LEMMA SumExists ==
  ASSUME NEW W, NEW n \in Nat
  PROVE  \E g : Sums(W, n, g)
<1> DEFINE S == {k \in Nat : \E g : Sums(W, k, g)}
<1>1. 0 \in S
  <2> DEFINE g == [s \in SUBSET (1..0) |-> 0]
  <2>1. SUBSET (1..0) = {{}}
    OBVIOUS
  <2>2. Sums(W, 0, g)
    BY <2>1 DEF Sums
  <2>3. QED
    BY <2>2
<1>2. ASSUME NEW k \in Nat, k \in S PROVE k + 1 \in S
  <2>1. PICK g : Sums(W, k, g)
    BY <1>2
  <2> DEFINE h == [s \in SUBSET (1..(k + 1)) |->
                     IF k + 1 \in s THEN g[s \ {k + 1}] + W[k + 1] ELSE g[s]]
  <2>2. ASSUME NEW s \in SUBSET (1..(k + 1))
        PROVE  h[s] = IF s = {} THEN 0 ELSE LET x == Max(s) IN h[s \ {x}] + W[x]
    <3>1. CASE k + 1 \in s
      <4>1. Max(s) = k + 1 /\ s \ {k + 1} \in SUBSET (1..k)
        BY <3>1, MaxOfInterval
      <4>2. h[s] = g[s \ {k + 1}] + W[k + 1]
        BY <3>1
      <4>3. s \ {k + 1} \in SUBSET (1..(k + 1)) /\ k + 1 \notin s \ {k + 1}
        OBVIOUS
      <4>4. h[s \ {k + 1}] = g[s \ {k + 1}]
        BY <4>3
      <4>5. QED
        BY <3>1, <4>1, <4>2, <4>4
    <3>2. CASE k + 1 \notin s
      <4>1. s \in SUBSET (1..k)
        BY <3>2
      <4>2. g[s] = IF s = {} THEN 0 ELSE LET x == Max(s) IN g[s \ {x}] + W[x]
        BY <2>1, <4>1 DEF Sums
      <4>3. h[s] = g[s]
        BY <3>2
      <4>4. \A x : s \ {x} \in SUBSET (1..(k + 1)) /\ k + 1 \notin s \ {x}
        BY <3>2
      <4>5. \A x : h[s \ {x}] = g[s \ {x}]
        BY <4>4
      <4>6. QED
        BY <4>2, <4>3, <4>5
    <3>3. QED
      BY <3>1, <3>2
  <2>3. h = [s \in SUBSET (1..(k + 1)) |-> h[s]]
    OBVIOUS
  <2>4. Sums(W, k + 1, h)
    <3> HIDE DEF h
    <3>1. QED
      BY <2>2, <2>3 DEF Sums
  <2>5. QED
    BY <2>4
<1> HIDE DEF S
<1>3. n \in S
  BY <1>1, <1>2, NaturalsIn
<1>4. QED
  BY <1>3 DEF S

LEMMA SumUnfolds ==
  ASSUME NEW W, NEW n \in Nat, NEW g, Sums(W, n, g)
  PROVE  g[1..0] = 0 /\ \A k \in 1..n : g[1..k] = g[1..(k - 1)] + W[k]
<1>1. 1..0 \in SUBSET (1..n) /\ 1..0 = {}
  OBVIOUS
<1>2. g[1..0] = 0
  BY <1>1 DEF Sums
<1>3. ASSUME NEW k \in 1..n PROVE g[1..k] = g[1..(k - 1)] + W[k]
  <2>1. 1..k \in SUBSET (1..n) /\ 1..k # {}
    OBVIOUS
  <2>2. Max(1..k) = k
    <3>1. k - 1 \in Nat /\ (k - 1) + 1 = k /\ k \in 1..k
      OBVIOUS
    <3>2. QED
      BY <3>1, MaxOfInterval
  <2>3. (1..k) \ {k} = 1..(k - 1)
    OBVIOUS
  <2>4. QED
    BY <2>1, <2>2, <2>3 DEF Sums
<1>4. QED
  BY <1>2, <1>3

\* The sum of nothing is zero; one more number is added; only the numbers matter.
LEMMA SumIs ==
  ASSUME NEW W
  PROVE  /\ SumOf(W, 0) = 0
         /\ \A n \in Nat : \A V : (\A k \in 1..n : V[k] = W[k]) =>
              SumOf(W, n + 1) = SumOf(V, n) + W[n + 1]
<1>1. ASSUME NEW V, NEW n \in Nat PROVE Sums(V, n, CHOOSE g : Sums(V, n, g))
  BY SumExists
<1>2. SumOf(W, 0) = 0
  BY <1>1, SumUnfolds DEF SumOf
<1>3. ASSUME NEW n \in Nat, NEW V, \A k \in 1..n : V[k] = W[k]
      PROVE  SumOf(W, n + 1) = SumOf(V, n) + W[n + 1]
  <2> DEFINE g == CHOOSE g : Sums(W, n + 1, g)
             h == CHOOSE h : Sums(V, n, h)
             S == {k \in Nat : k <= n => g[1..k] = h[1..k]}
  <2>1. n + 1 \in Nat /\ Sums(W, n + 1, g) /\ Sums(V, n, h)
    BY <1>1
  <2>2. SumOf(W, n + 1) = g[1..(n + 1)] /\ SumOf(V, n) = h[1..n]
    BY DEF SumOf
  <2> HIDE DEF g, h
  <2>3. g[1..0] = 0 /\ \A k \in 1..(n + 1) : g[1..k] = g[1..(k - 1)] + W[k]
    BY <2>1, SumUnfolds
  <2>4. h[1..0] = 0 /\ \A k \in 1..n : h[1..k] = h[1..(k - 1)] + V[k]
    BY <2>1, SumUnfolds
  <2>5. 0 \in S
    BY <2>3, <2>4
  <2>6. ASSUME NEW k \in Nat, k \in S PROVE k + 1 \in S
    <3>1. CASE k + 1 <= n
      <4>1. k + 1 \in 1..n /\ k + 1 \in 1..(n + 1) /\ (k + 1) - 1 = k
        BY <3>1
      <4>2. g[1..k] = h[1..k]
        BY <2>6, <3>1
      <4>3. QED
        BY <1>3, <2>3, <2>4, <4>1, <4>2
    <3>2. QED
      BY <3>1
  <2>7. n \in S
    <3> HIDE DEF S
    <3>1. QED
      BY <2>5, <2>6, NaturalsIn
  <2>8. n + 1 \in 1..(n + 1) /\ (n + 1) - 1 = n
    OBVIOUS
  <2>9. QED
    BY <2>2, <2>3, <2>7, <2>8
<1>4. QED
  BY <1>2, <1>3

LEMMA SumTyped ==
  ASSUME NEW W, NEW n \in Nat, \A k \in 1..n : W[k] \in Nat
  PROVE  SumOf(W, n) \in Nat
<1> DEFINE S == {m \in Nat : m <= n => SumOf(W, m) \in Nat}
<1>1. 0 \in S
  BY SumIs
<1>2. ASSUME NEW m \in Nat, m \in S PROVE m + 1 \in S
  <2>1. SumOf(W, m + 1) = SumOf(W, m) + W[m + 1]
    BY SumIs
  <2>2. m + 1 <= n => m + 1 \in 1..n /\ m <= n
    OBVIOUS
  <2>3. QED
    BY <1>2, <2>1, <2>2
<1> HIDE DEF S
<1>3. n \in S
  BY <1>1, <1>2, NaturalsIn
<1>4. QED
  BY <1>3 DEF S

(***************************************************************************)
(* Concatenations                                                          *)
(***************************************************************************)

\* The recursive function of FlattenSeq.
Flattens(F, n, g) == g = [i \in 1..n |-> IF i = 1 THEN F[i] ELSE g[i - 1] \o F[i]]

LEMMA FlattenExists ==
  ASSUME NEW F, NEW n \in Nat
  PROVE  \E g : Flattens(F, n, g)
<1> DEFINE S == {k \in Nat : \E g : Flattens(F, k, g)}
<1>1. 0 \in S
  <2> DEFINE g == [i \in 1..0 |-> 0]
  <2>1. Flattens(F, 0, g)
    BY DEF Flattens
  <2>2. QED
    BY <2>1
<1>2. ASSUME NEW k \in Nat, k \in S PROVE k + 1 \in S
  <2>1. PICK g : Flattens(F, k, g)
    BY <1>2
  <2> DEFINE last == IF k = 0 THEN F[1] ELSE g[k] \o F[k + 1]
             h == [i \in 1..(k + 1) |-> IF i = k + 1 THEN last ELSE g[i]]
  <2>2. ASSUME NEW i \in 1..(k + 1)
        PROVE  h[i] = IF i = 1 THEN F[i] ELSE h[i - 1] \o F[i]
    <3>1. CASE i = k + 1 /\ k = 0
      BY <3>1
    <3>2. CASE i = k + 1 /\ k # 0
      <4>1. i # 1 /\ i - 1 = k /\ k \in 1..(k + 1) /\ k # k + 1
        BY <3>2
      <4>2. h[k] = g[k] /\ h[i] = g[k] \o F[k + 1]
        BY <3>2, <4>1
      <4>3. QED
        BY <3>2, <4>1, <4>2
    <3>3. CASE i # k + 1
      <4>1. i \in 1..k /\ h[i] = g[i]
        BY <3>3
      <4>2. g[i] = IF i = 1 THEN F[i] ELSE g[i - 1] \o F[i]
        BY <2>1, <4>1 DEF Flattens
      <4>3. i # 1 => h[i - 1] = g[i - 1]
        BY <4>1
      <4>4. QED
        BY <4>1, <4>2, <4>3
    <3>4. QED
      BY <3>1, <3>2, <3>3
  <2>3. Flattens(F, k + 1, h)
    <3>1. h = [i \in 1..(k + 1) |-> h[i]]
      OBVIOUS
    <3> HIDE DEF h
    <3>2. QED
      BY <2>2, <3>1 DEF Flattens
  <2>4. QED
    BY <2>3
<1> HIDE DEF S
<1>3. n \in S
  BY <1>1, <1>2, NaturalsIn
<1>4. QED
  BY <1>3 DEF S

\* With one sequence more the concatenation goes on with that sequence.
LEMMA FlattenIs ==
  ASSUME NEW E, NEW F, NEW n \in Nat, Len(E) = n, Len(F) = n + 1,
         \A i \in 1..n : E[i] = F[i]
  PROVE  FlattenSeq(F) = IF n = 0 THEN F[1] ELSE FlattenSeq(E) \o F[n + 1]
<1> DEFINE g == CHOOSE g : Flattens(F, n + 1, g)
           h == CHOOSE h : Flattens(E, n, h)
<1>1. Flattens(F, n + 1, g) /\ Flattens(E, n, h)
  <2>1. ASSUME NEW D, NEW k \in Nat PROVE Flattens(D, k, CHOOSE f : Flattens(D, k, f))
    BY FlattenExists
  <2>2. n + 1 \in Nat
    OBVIOUS
  <2>3. QED
    BY <2>1, <2>2
<1>2. FlattenSeq(F) = g[n + 1] /\ (n # 0 => FlattenSeq(E) = h[n])
  BY DEF FlattenSeq, Flattens
<1> HIDE DEF g, h
<1>3. g[1] = F[1] /\ \A i \in 1..n : g[i + 1] = g[i] \o F[i + 1]
  <2>1. \A i \in 1..(n + 1) : g[i] = IF i = 1 THEN F[i] ELSE g[i - 1] \o F[i]
    BY <1>1 DEF Flattens
  <2>2. 1 \in 1..(n + 1)
    OBVIOUS
  <2>3. \A i \in 1..n : i + 1 \in 1..(n + 1) /\ i + 1 # 1 /\ (i + 1) - 1 = i
    OBVIOUS
  <2>4. QED
    BY <2>1, <2>2, <2>3
<1>4. \A i \in 1..n : h[i] = IF i = 1 THEN E[1] ELSE h[i - 1] \o E[i]
  BY <1>1 DEF Flattens
<1> DEFINE S == {i \in Nat : i \in 1..n => g[i] = h[i]}
<1>5. 0 \in S
  OBVIOUS
<1>6. ASSUME NEW i \in Nat, i \in S PROVE i + 1 \in S
  <2>1. CASE i = 0
    BY <1>3, <1>4, <2>1
  <2>2. CASE i # 0 /\ i + 1 \in 1..n
    <3>1. i \in 1..n /\ i + 1 # 1 /\ (i + 1) - 1 = i
      BY <2>2
    <3>2. g[i] = h[i]
      BY <1>6, <3>1
    <3>3. h[i + 1] = h[i] \o E[i + 1] /\ E[i + 1] = F[i + 1]
      BY <1>4, <2>2, <3>1
    <3>4. g[i + 1] = h[i + 1]
      BY <1>3, <3>1, <3>2, <3>3
    <3>5. QED
      BY <3>4
  <2>3. QED
    BY <2>1, <2>2
<1>7. n \in S
  <2> HIDE DEF S
  <2>1. QED
    BY <1>5, <1>6, NaturalsIn
<1>8. CASE n = 0
  BY <1>2, <1>3, <1>8
<1>9. CASE n # 0
  <2>1. n \in 1..n
    BY <1>9
  <2>2. g[n + 1] = h[n] \o F[n + 1]
    BY <1>3, <1>7, <2>1
  <2>3. QED
    BY <1>2, <1>9, <2>2
<1>10. QED
  BY <1>8, <1>9

\* The concatenations of ever more of the sequences of F.
LEMMA FlattenRuns ==
  ASSUME NEW F, NEW n \in Nat \ {0}, Len(F) = n
  PROVE  \E g : /\ FlattenSeq(F) = g[n] /\ g[1] = F[1]
                /\ \A i \in 1..(n - 1) : g[i + 1] = g[i] \o F[i + 1]
<1> DEFINE g == CHOOSE g : Flattens(F, n, g)
<1>1. Flattens(F, n, g)
  BY FlattenExists
<1>2. FlattenSeq(F) = g[n]
  BY DEF FlattenSeq, Flattens
<1> HIDE DEF g
<1>3. \A i \in 1..n : g[i] = IF i = 1 THEN F[i] ELSE g[i - 1] \o F[i]
  BY <1>1 DEF Flattens
<1>4. 1 \in 1..n /\ \A i \in 1..(n - 1) : i + 1 \in 1..n /\ i + 1 # 1 /\ (i + 1) - 1 = i
  OBVIOUS
<1>5. QED
  BY <1>2, <1>3, <1>4

\* Nothing is concatenated to nothing.
LEMMA FlattenNothing == FlattenSeq(<<>>) = <<>>
BY DEF FlattenSeq

\* A concatenation of sequences over T is one over T.
LEMMA FlattenTyped ==
  ASSUME NEW T, NEW F \in Seq(Seq(T))
  PROVE  FlattenSeq(F) \in Seq(T)
<1>1. Len(F) \in Nat /\ \A i \in 1..Len(F) : F[i] \in Seq(T)
  OBVIOUS
<1>2. CASE Len(F) = 0
  BY <1>1, <1>2, FlattenNothing, EmptySeq
<1>3. CASE Len(F) # 0
  <2> DEFINE n == Len(F)
  <2>0. n \in Nat \ {0}
    BY <1>1, <1>3
  <2>1. PICK g : /\ FlattenSeq(F) = g[n] /\ g[1] = F[1]
                 /\ \A i \in 1..(n - 1) : g[i + 1] = g[i] \o F[i + 1]
    BY <2>0, FlattenRuns
  <2> DEFINE S == {i \in Nat : i \in 1..n => g[i] \in Seq(T)}
  <2>2. ASSUME NEW i \in Nat, i \in S PROVE i + 1 \in S
    <3>1. CASE i = 0
      BY <1>1, <2>1, <3>1
    <3>2. CASE i # 0 /\ i + 1 \in 1..n
      <4>1. i \in 1..(n - 1) /\ i \in 1..n
        BY <1>1, <3>2
      <4>2. g[i] \in Seq(T) /\ F[i + 1] \in Seq(T) /\ g[i + 1] = g[i] \o F[i + 1]
        BY <1>1, <2>1, <2>2, <3>2, <4>1
      <4>3. g[i + 1] \in Seq(T)
        BY <4>2, ConcatProperties
      <4>4. QED
        BY <4>3
    <3>3. QED
      BY <3>1, <3>2
  <2>3. 0 \in S /\ n \in 1..n /\ n \in Nat
    BY <1>1, <1>3
  <2> HIDE DEF S
  <2>4. n \in S
    BY <2>2, <2>3, NaturalsIn
  <2>5. QED
    BY <2>1, <2>3, <2>4 DEF S
<1>4. QED
  BY <1>2, <1>3

\* One sequence more is added at the end.
LEMMA FlattenAppends ==
  ASSUME NEW T, NEW F \in Seq(Seq(T)), NEW s \in Seq(T)
  PROVE  FlattenSeq(Append(F, s)) = FlattenSeq(F) \o s
<1> DEFINE G == Append(F, s)
           n == Len(F)
<1>1. /\ n \in Nat /\ Len(G) = n + 1 /\ G[n + 1] = s /\ \A i \in 1..n : F[i] = G[i]
  BY AppendProperties
<1>2. F = <<>> => n = 0
  OBVIOUS
<1>3. n = 0 => F = <<>>
  OBVIOUS
<1> HIDE DEF G
<1>4. FlattenSeq(G) = IF n = 0 THEN G[1] ELSE FlattenSeq(F) \o G[n + 1]
  BY <1>1, FlattenIs
<1>5. CASE n = 0
  <2>1. FlattenSeq(F) = <<>> /\ <<>> \o s = s
    BY <1>3, <1>5, FlattenNothing, ConcatEmptySeq
  <2>2. QED
    BY <1>1, <1>4, <1>5, <2>1 DEF G
<1>6. CASE n # 0
  BY <1>1, <1>4, <1>6 DEF G
<1>7. QED
  BY <1>5, <1>6

\* An empty sequence is put in front of the others.
LEMMA FlattenShifts ==
  ASSUME NEW T, NEW E \in Seq(Seq(T)), NEW F \in Seq(Seq(T)), Len(F) = Len(E) + 1,
         F[1] = <<>>, \A i \in 1..Len(E) : F[i + 1] = E[i]
  PROVE  FlattenSeq(F) = FlattenSeq(E)
<1> DEFINE n == Len(E)
<1>1. n \in Nat /\ n + 1 \in Nat \ {0} /\ \A i \in 1..n : E[i] \in Seq(T)
  OBVIOUS
<1>2. PICK g : /\ FlattenSeq(F) = g[n + 1] /\ g[1] = F[1]
               /\ \A i \in 1..((n + 1) - 1) : g[i + 1] = g[i] \o F[i + 1]
  BY <1>1, FlattenRuns
<1>3. CASE n = 0
  BY <1>2, <1>3, FlattenNothing
<1>4. CASE n # 0
  <2>0. n \in Nat \ {0}
    BY <1>1, <1>4
  <2>1. PICK h : /\ FlattenSeq(E) = h[n] /\ h[1] = E[1]
                 /\ \A i \in 1..(n - 1) : h[i + 1] = h[i] \o E[i + 1]
    BY <2>0, FlattenRuns
  <2> DEFINE S == {i \in Nat : i \in 1..n => g[i + 1] = h[i]}
  <2>2. ASSUME NEW i \in Nat, i \in S PROVE i + 1 \in S
    <3>1. CASE i = 0
      <4>1. 1 \in 1..((n + 1) - 1) /\ 1 \in 1..n
        BY <1>1, <1>4
      <4>2. g[1 + 1] = <<>> \o E[1]
        BY <1>2, <4>1
      <4>3. <<>> \o E[1] = E[1]
        BY <1>1, <4>1, ConcatEmptySeq
      <4>4. QED
        BY <2>1, <3>1, <4>2, <4>3
    <3>2. CASE i # 0 /\ i + 1 \in 1..n
      <4>1. i \in 1..(n - 1) /\ i \in 1..n /\ i + 1 \in 1..((n + 1) - 1)
        BY <1>1, <3>2
      <4>2. g[i + 1] = h[i] /\ h[i + 1] = h[i] \o E[i + 1]
        BY <2>1, <2>2, <4>1
      <4>3. g[(i + 1) + 1] = g[i + 1] \o F[(i + 1) + 1]
        BY <1>2, <4>1
      <4>4. F[(i + 1) + 1] = E[i + 1]
        BY <3>2
      <4>5. g[(i + 1) + 1] = h[i + 1]
        BY <4>2, <4>3, <4>4
      <4>6. QED
        BY <4>5
    <3>3. QED
      BY <3>1, <3>2
  <2>3. 0 \in S /\ n \in 1..n
    BY <1>1, <1>4
  <2> HIDE DEF S
  <2>4. n \in S
    BY <1>1, <2>2, <2>3, NaturalsIn
  <2>5. QED
    BY <1>2, <2>1, <2>3, <2>4 DEF S
<1>5. QED
  BY <1>3, <1>4

\* Concatenation, by a name of its own.
Joined(a, b) == a \o b

\* The order in which three sequences are put together does not matter.
LEMMA JoinedIs ==
  ASSUME NEW T, NEW a \in Seq(T), NEW b \in Seq(T), NEW c \in Seq(T)
  PROVE  Joined(Joined(a, b), c) = Joined(a, Joined(b, c)) /\ Joined(a, b) \in Seq(T)
<1>1. a \o b \in Seq(T)
  BY ConcatProperties
<1>2. (a \o b) \o c = a \o (b \o c)
  BY ConcatAssociative, SMT
<1>3. QED
  BY <1>1, <1>2 DEF Joined

\* The same two sequences after p, split elsewhere.
LEMMA SplitsAnywhere ==
  ASSUME NEW T, NEW p \in Seq(T), NEW a \in Seq(T), NEW b \in Seq(T),
         NEW c \in Seq(T), NEW d \in Seq(T), Joined(a, b) = Joined(c, d)
  PROVE  Joined(Joined(p, a), b) = Joined(Joined(p, c), d) /\ Joined(Joined(p, c), d) \in Seq(T)
<1>1. Joined(Joined(p, a), b) = Joined(p, Joined(a, b)) /\ Joined(Joined(p, c), d) = Joined(p, Joined(c, d))
  BY JoinedIs
<1>2. Joined(c, d) \in Seq(T)
  BY JoinedIs
<1>3. Joined(p, Joined(c, d)) \in Seq(T)
  BY <1>2, JoinedIs
<1>4. QED
  BY <1>1, <1>3

\* What moves from a sequence to the one before it stays where it was.
LEMMA FlattenMoves ==
  ASSUME NEW T, NEW E \in Seq(Seq(T)), NEW F \in Seq(Seq(T)), Len(F) = Len(E),
         NEW j \in 1..(Len(E) - 1), E[j] \o E[j + 1] = F[j] \o F[j + 1],
         \A i \in 1..Len(E) : i \in {j, j + 1} \/ F[i] = E[i]
  PROVE  FlattenSeq(F) = FlattenSeq(E)
<1> DEFINE n == Len(E)
<1>1. n \in Nat \ {0} /\ \A i \in 1..n : E[i] \in Seq(T) /\ F[i] \in Seq(T)
  OBVIOUS
<1>2. PICK g : /\ FlattenSeq(F) = g[n] /\ g[1] = F[1]
               /\ \A i \in 1..(n - 1) : g[i + 1] = g[i] \o F[i + 1]
  BY <1>1, FlattenRuns
<1>3. PICK h : /\ FlattenSeq(E) = h[n] /\ h[1] = E[1]
               /\ \A i \in 1..(n - 1) : h[i + 1] = h[i] \o E[i + 1]
  BY <1>1, FlattenRuns
<1> DEFINE Split(x, y) == \E p \in Seq(T) : x = p \o F[j] /\ y = p \o E[j]
           Like(i, x, y) == IF i = j THEN Split(x, y) ELSE x = y /\ y \in Seq(T)
           S == {i \in Nat : i \in 1..n => Like(i, g[i], h[i])}
<1>4. n # 0 => Like(1, g[1], h[1])
  <2>1. 1 \in 1..n /\ E[1] \in Seq(T) /\ F[1] \in Seq(T)
    BY <1>1
  <2>2. <<>> \in Seq(T) /\ <<>> \o E[1] = E[1] /\ <<>> \o F[1] = F[1]
    BY <2>1, EmptySeq, ConcatEmptySeq
  <2>3. 1 = j => g[1] = <<>> \o F[j] /\ h[1] = <<>> \o E[j]
    BY <1>2, <1>3, <2>2
  <2>4. 1 # j => g[1] = h[1] /\ h[1] \in Seq(T)
    <3>1. 1 # j => 1 \notin {j, j + 1}
      OBVIOUS
    <3>2. 1 # j => F[1] = E[1]
      BY <2>1, <3>1
    <3>3. QED
      BY <1>2, <1>3, <2>1, <3>2
  <2>5. QED
    BY <2>2, <2>3, <2>4
<1>5. ASSUME NEW i \in Nat, i # 0, i + 1 \in 1..n, Like(i, g[i], h[i])
      PROVE  Like(i + 1, g[i + 1], h[i + 1])
  <2>1. i \in 1..(n - 1) /\ i \in 1..n /\ (i = j => i + 1 # j)
    BY <1>1, <1>5
  <2>2. E[i + 1] \in Seq(T) /\ F[i + 1] \in Seq(T) /\ E[i] \in Seq(T) /\ F[i] \in Seq(T)
    BY <1>1, <1>5, <2>1
  <2>3. g[i + 1] = g[i] \o F[i + 1] /\ h[i + 1] = h[i] \o E[i + 1]
    BY <1>2, <1>3, <2>1
  <2>4. CASE i = j
    <3>1. PICK p \in Seq(T) : g[i] = p \o F[j] /\ h[i] = p \o E[j]
      BY <1>5, <2>4
    <3>2. g[i + 1] = (p \o F[j]) \o F[j + 1] /\ h[i + 1] = (p \o E[j]) \o E[j + 1]
      BY <2>3, <2>4, <3>1
    <3>3. /\ F[j] \in Seq(T) /\ F[j + 1] \in Seq(T) /\ E[j] \in Seq(T) /\ E[j + 1] \in Seq(T)
          /\ F[j] \o F[j + 1] = E[j] \o E[j + 1]
      BY <2>2, <2>4
    <3>4. /\ (p \o F[j]) \o F[j + 1] = (p \o E[j]) \o E[j + 1]
          /\ (p \o E[j]) \o E[j + 1] \in Seq(T)
      <4> DEFINE a == F[j]
                 b == F[j + 1]
                 c == E[j]
                 d == E[j + 1]
      <4>1. /\ p \in Seq(T) /\ a \in Seq(T) /\ b \in Seq(T) /\ c \in Seq(T) /\ d \in Seq(T)
            /\ Joined(a, b) = Joined(c, d)
        BY <3>3 DEF Joined
      <4> HIDE DEF a, b, c, d
      <4>2. Joined(Joined(p, a), b) = Joined(Joined(p, c), d) /\ Joined(Joined(p, c), d) \in Seq(T)
        BY ONLY <4>1, SplitsAnywhere
      <4>3. QED
        BY <4>2 DEF a, b, c, d, Joined
    <3>5. g[i + 1] = h[i + 1] /\ h[i + 1] \in Seq(T)
      BY <3>2, <3>4
    <3>6. QED
      BY <2>1, <2>4, <3>5
  <2>5. CASE i # j
    <3>1. g[i] = h[i] /\ h[i] \in Seq(T)
      BY <1>5, <2>5
    <3>2. CASE i + 1 = j
      <4>1. g[i + 1] = h[i] \o F[j] /\ h[i + 1] = h[i] \o E[j]
        BY <2>3, <3>1, <3>2
      <4>2. QED
        BY <3>1, <3>2, <4>1
    <3>3. CASE i + 1 # j
      <4>1. F[i + 1] = E[i + 1]
        <5>1. i + 1 \notin {j, j + 1}
          BY <2>5, <3>3
        <5>2. QED
          BY <1>5, <5>1
      <4>2. h[i] \o E[i + 1] \in Seq(T)
        BY <2>2, <3>1, ConcatProperties
      <4>3. g[i + 1] = h[i + 1] /\ h[i + 1] \in Seq(T)
        BY <2>3, <3>1, <4>1, <4>2
      <4>4. QED
        BY <3>3, <4>3
    <3>4. QED
      BY <3>2, <3>3
  <2>6. QED
    BY <2>4, <2>5
<1> HIDE DEF Like
<1>6. ASSUME NEW i \in Nat, i \in S PROVE i + 1 \in S
  <2>1. i = 0 => i + 1 = 1
    OBVIOUS
  <2>2. i + 1 \in 1..n => i = 0 \/ i \in 1..n
    BY <1>1
  <2>3. QED
    BY <1>1, <1>4, <1>5, <1>6, <2>1, <2>2
<1>7. 0 \in S /\ n \in 1..n /\ n # j
  BY <1>1
<1> HIDE DEF S
<1>8. n \in S
  BY <1>1, <1>6, <1>7, NaturalsIn
<1>9. Like(n, g[n], h[n])
  BY <1>7, <1>8 DEF S
<1>10. QED
  BY <1>2, <1>3, <1>7, <1>9 DEF Like

\* Of sequences that are empty but for the first, that one is left.
LEMMA FlattenFirst ==
  ASSUME NEW T, NEW F \in Seq(Seq(T)), Len(F) # 0, \A i \in 2..Len(F) : F[i] = <<>>
  PROVE  FlattenSeq(F) = F[1]
<1> DEFINE n == Len(F)
<1>1. n \in Nat \ {0} /\ 1 \in 1..n /\ F[1] \in Seq(T)
  OBVIOUS
<1>2. PICK g : /\ FlattenSeq(F) = g[n] /\ g[1] = F[1]
               /\ \A i \in 1..(n - 1) : g[i + 1] = g[i] \o F[i + 1]
  BY <1>1, FlattenRuns
<1> DEFINE S == {i \in Nat : i \in 1..n => g[i] = F[1]}
<1>3. ASSUME NEW i \in Nat, i \in S PROVE i + 1 \in S
  <2>1. CASE i = 0
    BY <1>2, <2>1
  <2>2. CASE i # 0 /\ i + 1 \in 1..n
    <3>1. i \in 1..(n - 1) /\ i \in 1..n /\ i + 1 \in 2..n
      BY <1>1, <2>2
    <3>2. g[i + 1] = F[1] \o <<>>
      BY <1>2, <1>3, <3>1
    <3>3. QED
      BY <1>1, <3>2, ConcatEmptySeq
  <2>3. QED
    BY <2>1, <2>2
<1>4. 0 \in S /\ n \in 1..n
  BY <1>1
<1> HIDE DEF S
<1>5. n \in S
  BY <1>1, <1>3, <1>4, NaturalsIn
<1>6. QED
  BY <1>2, <1>4, <1>5 DEF S

\* Only the last sequence goes on.
LEMMA FlattenGrows ==
  ASSUME NEW T, NEW E \in Seq(Seq(T)), NEW F \in Seq(Seq(T)), Len(E) # 0, Len(F) = Len(E),
         NEW s \in Seq(T), F[Len(E)] = E[Len(E)] \o s,
         \A i \in 1..(Len(E) - 1) : F[i] = E[i]
  PROVE  FlattenSeq(F) = FlattenSeq(E) \o s
<1> DEFINE n == Len(E)
           D == [i \in 1..(n - 1) |-> E[i]]
<1>1. n \in Nat \ {0} /\ n - 1 \in Nat /\ (n - 1) + 1 = n /\ n \in 1..n
      /\ \A i \in 1..n : E[i] \in Seq(T)
  OBVIOUS
<1>2. D \in Seq(Seq(T)) /\ Len(D) = n - 1 /\ \A i \in 1..(n - 1) : D[i] = E[i] /\ D[i] = F[i]
  BY <1>1
<1> HIDE DEF D
<1>3. /\ FlattenSeq(E) = IF n - 1 = 0 THEN E[1] ELSE FlattenSeq(D) \o E[n]
      /\ FlattenSeq(F) = IF n - 1 = 0 THEN F[1] ELSE FlattenSeq(D) \o F[n]
  <2> DEFINE m == n - 1
  <2>1. m \in Nat /\ Len(D) = m /\ Len(E) = m + 1 /\ \A i \in 1..m : D[i] = E[i]
    BY <1>1, <1>2
  <2>2. m \in Nat /\ Len(D) = m /\ Len(F) = m + 1 /\ \A i \in 1..m : D[i] = F[i]
    BY <1>1, <1>2
  <2>3. m + 1 = n
    BY <1>1
  <2> HIDE DEF m, n
  <2>4. FlattenSeq(E) = IF m = 0 THEN E[1] ELSE FlattenSeq(D) \o E[m + 1]
    BY ONLY <2>1, FlattenIs
  <2>5. FlattenSeq(F) = IF m = 0 THEN F[1] ELSE FlattenSeq(D) \o F[m + 1]
    BY ONLY <2>2, FlattenIs
  <2>6. QED
    BY <2>3, <2>4, <2>5 DEF m
<1> HIDE DEF n
<1>4. CASE n = 1
  BY <1>3, <1>4 DEF n
<1>5. CASE n # 1
  <2>1. D \in Seq(Seq(T)) /\ E[n] \in Seq(T)
    BY <1>1, <1>2
  <2> DEFINE d == FlattenSeq(D)
  <2>2. d \in Seq(T)
    BY <2>1, FlattenTyped
  <2> HIDE DEF d
  <2>3. (d \o E[n]) \o s = d \o (E[n] \o s)
    <3> DEFINE e == E[n]
    <3>1. s \in Seq(T) /\ e \in Seq(T) /\ d \in Seq(T)
      BY <2>1, <2>2
    <3> HIDE DEF e
    <3>2. (d \o e) \o s = d \o (e \o s)
      BY ONLY <3>1, ConcatAssociative
    <3>3. QED
      BY <3>2 DEF e
  <2>4. n - 1 # 0 /\ F[n] = E[n] \o s
    BY <1>1, <1>5 DEF n
  <2>5. QED
    BY <1>3, <2>3, <2>4 DEF d
<1>6. QED
  BY <1>4, <1>5

(***************************************************************************)
(* Consecutive numbers                                                     *)
(***************************************************************************)

\* The members of s are a, a + 1, and so on.
Spans(s, a) == \A i \in 1..Len(s) : s[i] = a + i - 1

\* Both parts of consecutive numbers are consecutive.
LEMMA SpansSplit ==
  ASSUME NEW s \in Seq(Nat), NEW t \in Seq(Nat), NEW a \in Nat, Spans(s \o t, a)
  PROVE  Spans(s, a) /\ Spans(t, a + Len(s)) /\ Len(s \o t) = Len(s) + Len(t)
<1>1. /\ Len(s) \in Nat /\ Len(t) \in Nat /\ Len(s \o t) = Len(s) + Len(t)
      /\ \A i \in 1..Len(s) : (s \o t)[i] = s[i]
      /\ \A i \in 1..Len(t) : (s \o t)[Len(s) + i] = t[i]
  OBVIOUS
<1>2. \A i \in 1..(Len(s) + Len(t)) : (s \o t)[i] = a + i - 1
  BY <1>1 DEF Spans
<1> DEFINE m == Len(s)
           n == Len(t)
           r == s \o t
<1> HIDE DEF m, n, r
<1>3. m \in Nat /\ n \in Nat /\ (\A i \in 1..m : r[i] = s[i]) /\ (\A i \in 1..n : r[m + i] = t[i])
      /\ \A i \in 1..(m + n) : r[i] = a + i - 1
  BY <1>1, <1>2 DEF m, n, r
<1>4. \A i \in 1..m : s[i] = a + i - 1
  BY <1>3
<1>5. \A i \in 1..n : t[i] = (a + m) + i - 1
  <2> TAKE i \in 1..n
  <2>1. m + i \in 1..(m + n)
    BY <1>3
  <2>2. r[m + i] = a + (m + i) - 1 /\ r[m + i] = t[i]
    BY <1>3, <2>1
  <2>3. QED
    BY <1>3, <2>2
<1>6. QED
  BY <1>1, <1>4, <1>5 DEF Spans, m, n

\* A concatenation starts like its first part, and is as long as its parts are
\* many, when none of them is empty.
LEMMA FlattenStarts ==
  ASSUME NEW F \in Seq(Seq(Nat)), Len(F) # 0, \A i \in 1..Len(F) : F[i] # <<>>
  PROVE  /\ FlattenSeq(F) \in Seq(Nat) /\ FlattenSeq(F)[1] = F[1][1]
         /\ Len(FlattenSeq(F)) >= Len(F)
<1> DEFINE n == Len(F)
<1>1. n \in Nat \ {0} /\ \A i \in 1..n : F[i] \in Seq(Nat) /\ Len(F[i]) \in Nat /\ Len(F[i]) # 0
  <2>1. n \in Nat \ {0} /\ \A i \in 1..n : F[i] \in Seq(Nat)
    OBVIOUS
  <2>2. \A s \in Seq(Nat) : Len(s) \in Nat /\ (s # <<>> => Len(s) # 0)
    BY EmptySeq
  <2>3. QED
    BY <2>1, <2>2
<1>2. PICK g : /\ FlattenSeq(F) = g[n] /\ g[1] = F[1]
               /\ \A i \in 1..(n - 1) : g[i + 1] = g[i] \o F[i + 1]
  BY <1>1, FlattenRuns
<1> HIDE DEF n
<1> DEFINE P(i) == g[i] \in Seq(Nat) /\ Len(g[i]) >= i /\ g[i][1] = F[1][1]
           S == {i \in Nat : i + 1 <= n => P(i + 1)}
<1>3. 0 \in S
  <2>1. 1 \in 1..n
    BY <1>1
  <2>2. g[1] = F[1] /\ F[1] \in Seq(Nat) /\ Len(F[1]) \in Nat /\ Len(F[1]) # 0
    BY <1>1, <1>2, <2>1
  <2>3. P(1)
    BY <2>2
  <2>4. QED
    BY <2>3
<1>4. ASSUME NEW i \in Nat, i \in S PROVE i + 1 \in S
  <2> DEFINE j == i + 1
  <2> SUFFICES ASSUME j + 1 <= n PROVE P(j + 1)
    OBVIOUS
  <2>1. j \in Nat \ {0} /\ j \in 1..(n - 1) /\ j + 1 \in 1..n /\ j <= n
    BY <1>1
  <2>2. P(j)
    BY <1>4, <2>1
  <2> HIDE DEF j, S
  <2>3. g[j + 1] = g[j] \o F[j + 1] /\ F[j + 1] \in Seq(Nat) /\ Len(F[j + 1]) \in Nat /\ Len(F[j + 1]) # 0
    BY <1>1, <1>2, <2>1
  <2> DEFINE s == g[j]
             t == F[j + 1]
  <2>4. s \in Seq(Nat) /\ t \in Seq(Nat) /\ Len(s) >= j /\ Len(t) # 0 /\ Len(s) \in Nat /\ Len(t) \in Nat
    BY <2>2, <2>3
  <2>5. s[1] = F[1][1] /\ g[j + 1] = s \o t
    BY <2>2, <2>3
  <2> HIDE DEF s, t
  <2>6. s \o t \in Seq(Nat) /\ Len(s \o t) = Len(s) + Len(t) /\ (s \o t)[1] = s[1]
    <3>1. 1 \in 1..Len(s)
      BY <2>1, <2>4
    <3>2. QED
      BY <2>4, <3>1
  <2>7. QED
    BY <2>1, <2>4, <2>5, <2>6
<1> HIDE DEF S, P
<1>5. n - 1 \in S
  <2>1. \A i \in Nat : i \in S
    BY <1>3, <1>4, NaturalsIn
  <2>2. QED
    BY <1>1, <2>1
<1>6. P(n)
  <2>1. (n - 1) + 1 = n /\ n <= n
    BY <1>1
  <2>2. QED
    BY <1>5, <2>1 DEF S
<1>7. QED
  BY <1>2, <1>6 DEF P, n

\* When a concatenation is of consecutive numbers, so is each part, and the
\* next part goes on where it ends.
LEMMA FlattenSpans ==
  ASSUME NEW F \in Seq(Seq(Nat)), Len(F) # 0, NEW a \in Nat, Spans(FlattenSeq(F), a)
  PROVE  \E c \in [1..(Len(F) + 1) -> Nat] :
           /\ c[1] = a /\ c[Len(F) + 1] = a + Len(FlattenSeq(F))
           /\ \A i \in 1..Len(F) : Spans(F[i], c[i]) /\ c[i + 1] = c[i] + Len(F[i])
<1> DEFINE n == Len(F)
<1>1. n \in Nat \ {0} /\ \A i \in 1..n : F[i] \in Seq(Nat) /\ Len(F[i]) \in Nat
  OBVIOUS
<1>2. PICK g : /\ FlattenSeq(F) = g[n] /\ g[1] = F[1]
               /\ \A i \in 1..(n - 1) : g[i + 1] = g[i] \o F[i + 1]
  BY <1>1, FlattenRuns
<1> HIDE DEF n
<1>3. \A i \in Nat : i + 1 <= n => g[i + 1] \in Seq(Nat)
  <2> DEFINE S == {i \in Nat : i + 1 <= n => g[i + 1] \in Seq(Nat)}
  <2>1. 0 \in S
    BY <1>1, <1>2
  <2>2. ASSUME NEW i \in Nat, i \in S PROVE i + 1 \in S
    <3> DEFINE j == i + 1
    <3> SUFFICES ASSUME j + 1 <= n PROVE g[j + 1] \in Seq(Nat)
      OBVIOUS
    <3>1. j \in Nat \ {0} /\ j \in 1..(n - 1) /\ j + 1 \in 1..n /\ j <= n
      BY <1>1
    <3>2. g[j] \in Seq(Nat) /\ F[j + 1] \in Seq(Nat) /\ g[j + 1] = g[j] \o F[j + 1]
      BY <1>1, <1>2, <2>2, <3>1
    <3> HIDE DEF j
    <3>3. QED
      BY <3>2, ConcatProperties
  <2> HIDE DEF S
  <2>3. \A i \in Nat : i \in S
    BY <2>1, <2>2, NaturalsIn
  <2>4. QED
    BY <2>3 DEF S
<1>4. \A i \in 1..n : g[i] \in Seq(Nat) /\ Len(g[i]) \in Nat
  <2> TAKE i \in 1..n
  <2>1. i - 1 \in Nat /\ (i - 1) + 1 = i /\ i <= n
    BY <1>1
  <2>2. g[i] \in Seq(Nat)
    BY <1>3, <2>1
  <2>3. QED
    BY <2>2
<1>5. \A k \in Nat : k < n => Spans(g[n - k], a)
  <2> DEFINE S == {k \in Nat : k < n => Spans(g[n - k], a)}
  <2>1. 0 \in S
    <3>1. n - 0 = n
      BY <1>1
    <3>2. QED
      BY <1>2, <3>1
  <2>2. ASSUME NEW k \in Nat, k \in S PROVE k + 1 \in S
    <3> DEFINE j == n - (k + 1)
    <3> SUFFICES ASSUME k + 1 < n PROVE Spans(g[j], a)
      OBVIOUS
    <3>1. j \in 1..(n - 1) /\ j + 1 \in 1..n /\ j \in 1..n /\ j + 1 = n - k /\ k < n
      BY <1>1
    <3>2. Spans(g[j + 1], a)
      BY <2>2, <3>1
    <3> HIDE DEF j
    <3>3. g[j] \in Seq(Nat) /\ F[j + 1] \in Seq(Nat) /\ Spans(g[j] \o F[j + 1], a)
      BY <1>1, <1>2, <1>4, <3>1, <3>2
    <3>4. QED
      BY <3>3, SpansSplit
  <2> HIDE DEF S
  <2>3. \A k \in Nat : k \in S
    BY <2>1, <2>2, NaturalsIn
  <2>4. QED
    BY <2>3 DEF S
<1>6. \A i \in 1..n : Spans(g[i], a)
  <2> TAKE i \in 1..n
  <2>1. n - i \in Nat /\ n - i < n /\ n - (n - i) = i
    BY <1>1
  <2>2. QED
    BY <1>5, <2>1
<1> DEFINE c == [i \in 1..(n + 1) |-> IF i = 1 THEN a ELSE a + Len(g[i - 1])]
<1>7. c \in [1..(n + 1) -> Nat]
  <2>1. ASSUME NEW i \in 1..(n + 1), i # 1 PROVE a + Len(g[i - 1]) \in Nat
    <3>1. i - 1 \in 1..n
      BY <1>1, <2>1
    <3>2. QED
      BY <1>4, <3>1
  <2>2. QED
    BY <2>1
<1>8. c[1] = a /\ \A i \in 1..n : c[i + 1] = a + Len(g[i])
  <2>1. 1 \in 1..(n + 1)
    BY <1>1
  <2>2. \A i \in 1..n : i + 1 \in 1..(n + 1) /\ i + 1 # 1 /\ (i + 1) - 1 = i
    BY <1>1
  <2>3. QED
    BY <2>1, <2>2
<1> HIDE DEF c
<1>9. ASSUME NEW i \in 1..n PROVE Spans(F[i], c[i]) /\ c[i + 1] = c[i] + Len(F[i])
  <2>1. CASE i = 1
    <3>1. 1 \in 1..n
      BY <1>1
    <3>2. Spans(g[1], a) /\ g[1] = F[1]
      BY <1>2, <1>6, <3>1
    <3>3. QED
      BY <1>8, <2>1, <3>2
  <2>2. CASE i # 1
    <3> DEFINE j == i - 1
    <3>1. j \in 1..(n - 1) /\ j \in 1..n /\ i = j + 1
      BY <1>1, <2>2
    <3> HIDE DEF j
    <3>2. g[i] = g[j] \o F[i] /\ c[i] = a + Len(g[j]) /\ c[i + 1] = a + Len(g[i])
      BY <1>2, <1>8, <3>1
    <3>3. g[j] \in Seq(Nat) /\ F[i] \in Seq(Nat) /\ Spans(g[j] \o F[i], a) /\ Len(g[j]) \in Nat
          /\ Len(F[i]) \in Nat
      BY <1>1, <1>4, <1>6, <3>1, <3>2
    <3>4. Spans(F[i], a + Len(g[j])) /\ Len(g[j] \o F[i]) = Len(g[j]) + Len(F[i])
      BY <3>3, SpansSplit
    <3>5. Len(g[i]) = Len(g[j]) + Len(F[i])
      BY <3>2, <3>4
    <3>6. c[i + 1] = c[i] + Len(F[i])
      <4> DEFINE x == Len(g[j])
                 y == Len(F[i])
      <4>1. x \in Nat /\ y \in Nat /\ c[i] = a + x /\ c[i + 1] = a + (x + y)
        BY <3>2, <3>3, <3>5
      <4> HIDE DEF x, y
      <4>2. c[i + 1] = c[i] + y
        BY <4>1
      <4>3. QED
        BY <4>2 DEF y
    <3>7. Spans(F[i], c[i])
      BY <3>2, <3>4
    <3>8. QED
      BY <3>6, <3>7
  <2>3. QED
    BY <2>1, <2>2
<1>10. c[n + 1] = a + Len(FlattenSeq(F))
  <2>1. n \in 1..n
    BY <1>1
  <2>2. QED
    BY <1>2, <1>8, <2>1
<1>11. QED
  BY <1>7, <1>8, <1>9, <1>10 DEF n
=============================================================================
