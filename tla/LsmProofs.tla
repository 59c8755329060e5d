----------------------------- MODULE LsmProofs -----------------------------
(***************************************************************************)
(* Theorems about Lsm: for every number of keys, values, disk trees, every *)
(* leaf size and every caller.                                             *)
(***************************************************************************)
EXTENDS Lsm, FiniteSetTheorems, TLAPS

USE LsmAssumption DEF LsmAssumption, lsmVars, mergeVars

\* The empty tree is a tree; the first source and the end are in range.
LEMMA Ranges ==
  /\ EmptyTree \in Tree
  /\ \A k \in Key : EmptyTree[k] = None
  /\ 1 \in 1..DiskTrees
  /\ End \in 1..End
  /\ Last \in Nat
  /\ 0 \in 0..Last /\ 1 \in 0..Last /\ 2 \in 0..Last
  /\ \A t \in 1..DiskTrees : t \in 0..Last /\ t + 1 \in 0..Last
  /\ \A i \in 2..Last : i \in 0..Last
  /\ 0 \in 0..MaxLeaf /\ 1 \in 0..MaxLeaf
  BY DEF EmptyTree, Tree, Key, End, Last

(***************************************************************************)
(* Type correctness                                                        *)
(***************************************************************************)

\* Every variable has its type in every reachable state.
THEOREM TypeCorrect == Spec => []TypeOK
<1>1. Init => TypeOK
  BY Ranges DEF Init, Idle, TypeOK
<1>2. TypeOK /\ [Next]_vars => TypeOK'
  <2> SUFFICES ASSUME TypeOK, [Next]_vars
               PROVE  TypeOK'
    OBVIOUS
  <2> USE Ranges DEF TypeOK
  <2>1. ASSUME NEW k \in Key, NEW v \in Values, Add(k, v)
        PROVE  TypeOK'
    BY <2>1 DEF Add, Tree
  <2>2. CASE Dump
    BY <2>2 DEF Dump
  <2>3. CASE Restart
    <3>1. ASSUME NEW i \in 0..Last
          PROVE  (IF i < 2 THEN EmptyTree ELSE disk[i]) \in Tree
      <4>1. i >= 2 => i \in 2..Last
        BY <3>1
      <4>2. QED
        BY <4>1
    <3>2. trees' \in [0..Last -> Tree]
      BY <2>3, <3>1 DEF Restart
    <3>3. QED
      BY <2>3, <3>2 DEF Restart, EndMerge
  <2>4. CASE MergeAsserts
    BY <2>4 DEF MergeAsserts
  <2>5. CASE MergeC0
    BY <2>5 DEF MergeC0
  <2>6. ASSUME NEW t \in 1..DiskTrees, MergeTree(t)
        PROVE  TypeOK'
    BY <2>6 DEF MergeTree
  <2>7. ASSUME NEW t \in 2..DiskTrees, MergeSwap(t)
        PROVE  TypeOK'
    BY <2>7 DEF MergeSwap
  <2>8. CASE WildSwap
    BY <2>8 DEF WildSwap
  <2>9. CASE MergeFails
    BY <2>9 DEF MergeFails, EndMerge
  <2>10. CASE BeginBuild
    <3>1. drop' \in BOOLEAN
      BY <2>10 DEF BeginBuild, DropDeleted
    <3>2. pos' \in 1..End
      BY ONLY <2>10 DEF BeginBuild
    <3>3. pc' = "build" /\ UNCHANGED <<trees, disk, status, from, out, leaf, multi>>
      BY ONLY <2>10 DEF BeginBuild, lsmVars
    <3>4. QED
      BY <3>1, <3>2, <3>3
  <2>11. CASE SkipItem
    BY <2>11 DEF SkipItem
  <2>12. CASE AppendItem
    <3>1. Input[pos] \in Values \cup {None} /\ pos \in Key
      <4>1. pos \in Key
        BY <2>12 DEF AppendItem, Key, End
      <4>2. from \in 0..Last /\ from + 1 \in 0..Last
        OBVIOUS
      <4>3. trees[from] \in Tree /\ trees[from + 1] \in Tree
        BY <4>2
      <4>4. trees[from][pos] \in Values \cup {None} /\ trees[from + 1][pos] \in Values \cup {None}
        BY <4>1, <4>3 DEF Tree
      <4>5. QED
        BY <4>1, <4>4 DEF Input
    <3>2. out' \in Tree
      BY <2>12, <3>1 DEF AppendItem, Tree
    <3>3. leaf' \in 0..MaxLeaf
      <4>1. \/ leaf < MaxLeaf /\ leaf' = leaf + 1
            \/ leaf' = 1
        BY <2>12 DEF AppendItem
      <4>2. QED
        BY <4>1
    <3>3a. multi' \in BOOLEAN
      <4>1. multi' = multi \/ multi' = TRUE
        BY <2>12 DEF AppendItem
      <4>2. QED
        BY <4>1
    <3>4. pos' \in 1..End
      BY <2>12, <3>1 DEF AppendItem, Key
    <3>5. QED
      BY <2>12, <3>2, <3>3, <3>4, <3>3a DEF AppendItem
  <2>13. CASE InstallTree
    BY <2>13 DEF InstallTree, Built
  <2>14. CASE ClearSource
    BY <2>14 DEF ClearSource, EndMerge
  <2>15. CASE UNCHANGED vars
    BY <2>15 DEF vars
  <2>16. QED
    BY <2>1, <2>2, <2>3, <2>4, <2>5, <2>6, <2>7, <2>8, <2>9, <2>10, <2>11,
       <2>12, <2>13, <2>14, <2>15 DEF Next, MergeStep
<1>3. QED
  BY <1>1, <1>2, PTL DEF Spec

(***************************************************************************)
(* Lookups                                                                 *)
(***************************************************************************)

\* The newest entry is unique, so Newest is its value.
LEMMA NewestIs ==
  ASSUME NEW T, NEW f \in Nat, NEW k, NEW i, IsNewest(T, f, k, i)
  PROVE  Newest(T, f, k) = T[i][k]
<1>1. i \in f..Last
  BY DEF IsNewest
<1>2. ASSUME NEW j \in f..Last, IsNewest(T, f, k, j)
      PROVE  j = i
  <2>1. ~(j < i)
    BY <1>1, <1>2, Ranges DEF IsNewest
  <2>2. ~(i < j)
    BY <1>1, <1>2, Ranges DEF IsNewest
  <2>3. QED
    BY <1>1, <2>1, <2>2, Ranges
<1>3. (CHOOSE j \in f..Last : IsNewest(T, f, k, j)) = i
  BY <1>1, <1>2
<1>4. QED
  BY <1>1, <1>3 DEF Newest

\* Without a newest entry there is none.
LEMMA NewestNone ==
  ASSUME NEW T, NEW f, NEW k, \A i \in f..Last : ~IsNewest(T, f, k, i)
  PROVE  Newest(T, f, k) = None
  BY DEF Newest

LEMMA LiveNone == Live(None) = None
  BY DEF Live

\* The trees g .. Last of T show for key k what the newest entry of the trees
\* f .. Last of S shows, if there is one.
Shows(T, g, S, f, k) ==
  \A i \in f..Last : IsNewest(S, f, k, i) =>
                       Live(S[i][k]) = Live(Newest(T, g, k))

\* Two collections of trees show the same for a key when the newest entry of
\* each shows what the other one shows.
LEMMA SameLive ==
  ASSUME NEW S, NEW f \in Nat, NEW T, NEW g \in Nat, NEW k,
         Shows(T, g, S, f, k), Shows(S, f, T, g, k)
  PROVE  Live(Newest(S, f, k)) = Live(Newest(T, g, k))
<1>1. CASE \E i \in f..Last : IsNewest(S, f, k, i)
  BY <1>1, NewestIs DEF Shows
<1>2. CASE \E i \in g..Last : IsNewest(T, g, k, i)
  BY <1>2, NewestIs DEF Shows
<1>3. CASE /\ \A i \in f..Last : ~IsNewest(S, f, k, i)
           /\ \A i \in g..Last : ~IsNewest(T, g, k, i)
  BY <1>3, NewestNone
<1>4. QED
  BY <1>1, <1>2, <1>3

\* A lookup from tree f down depends on those trees only.
LEMMA NewestDepends ==
  ASSUME NEW S, NEW T, NEW f \in Nat, NEW k,
         \A i \in f..Last : S[i][k] = T[i][k]
  PROVE  Newest(S, f, k) = Newest(T, f, k)
<1>1. \A i \in f..Last : IsNewest(S, f, k, i) <=> IsNewest(T, f, k, i)
  BY Ranges DEF IsNewest
<1>2. CASE \E i \in f..Last : IsNewest(S, f, k, i)
  BY <1>1, <1>2, NewestIs
<1>3. CASE \A i \in f..Last : ~IsNewest(S, f, k, i)
  BY <1>1, <1>3, NewestNone
<1>4. QED
  BY <1>2, <1>3

\* An empty first tree can be left out of a lookup.
LEMMA SkipEmpty ==
  ASSUME NEW T, NEW f \in Nat, NEW k, f \in 0..Last, T[f][k] = None
  PROVE  Live(Newest(T, f, k)) = Live(Newest(T, f + 1, k))
<1>1. ASSUME NEW i \in f..Last, IsNewest(T, f, k, i)
      PROVE  IsNewest(T, f + 1, k, i)
  BY <1>1, Ranges DEF IsNewest
<1>2. ASSUME NEW i \in (f + 1)..Last, IsNewest(T, f + 1, k, i)
      PROVE  IsNewest(T, f, k, i)
  BY <1>2, Ranges DEF IsNewest
<1>3. Shows(T, f + 1, T, f, k)
  BY <1>1, NewestIs DEF Shows
<1>4. Shows(T, f, T, f + 1, k)
  BY <1>2, NewestIs, Ranges DEF Shows
<1>5. QED
  BY <1>3, <1>4, SameLive

(***************************************************************************)
(* The merge                                                               *)
(***************************************************************************)

\* What holds of a merge at every step of it, whatever runs in between: the
\* inductive invariant of the module.
LEMMA MergeInvariant == Spec => []MergeInv
<1>1. Init => MergeInv
  BY DEF Init, Idle, MergeInv, BuildIsPrefixOfInput, DropOnlyAtTheBottom,
         TargetCoversSource, NoMergeLeftover
<1>2. TypeOK /\ TypeOK' /\ MergeInv /\ [Next]_vars => MergeInv'
  <2> SUFFICES ASSUME TypeOK, TypeOK', MergeInv, [Next]_vars
               PROVE  MergeInv'
    OBVIOUS
  <2> USE Ranges DEF MergeInv, NoMergeLeftover
  \* A step that ends the call, or is not in one.
  <2>a. ASSUME pc' = "idle", drop' = FALSE, out' = EmptyTree, ~multi',
               leaf' = 0
        PROVE  MergeInv'
    BY <2>a DEF BuildIsPrefixOfInput, DropOnlyAtTheBottom, TargetCoversSource
  \* A step that leaves the call and every tree but c0 alone.
  <2>b. ASSUME UNCHANGED mergeVars, status' = "running" \/ pc = "idle",
               \A i \in 1..Last : trees'[i] = trees[i]
        PROVE  MergeInv'
    <3>1. trees'[from] = trees[from] /\ trees'[from + 1] = trees[from + 1]
      BY <2>b DEF TypeOK, Last
    <3>2. Input' = Input /\ Built' = Built
      BY <2>b, <3>1 DEF Input, Built
    <3>3. BuildIsPrefixOfInput'
      BY <2>b, <3>2 DEF BuildIsPrefixOfInput
    <3>4. DropOnlyAtTheBottom'
      BY <2>b DEF DropOnlyAtTheBottom, TypeOK, Last
    <3>5. TargetCoversSource'
      BY <2>b, <3>1, <3>2 DEF TargetCoversSource, KeysOf
    <3>6. QED
      BY <2>b, <3>3, <3>4, <3>5
  <2>1. ASSUME NEW k \in Key, NEW v \in Values, Add(k, v)
        PROVE  MergeInv'
    <3>1. \A i \in 1..Last : trees'[i] = trees[i]
      BY <2>1 DEF Add, TypeOK
    <3>2. QED
      BY <2>1, <2>b, <3>1 DEF Add
  <2>2. CASE Dump
    BY <2>2, <2>b DEF Dump
  <2>3. CASE Restart
    BY <2>3, <2>a DEF Restart, EndMerge
  <2>4. CASE MergeAsserts
    BY <2>4, <2>b DEF MergeAsserts
  <2>5. CASE MergeC0
    BY <2>5 DEF MergeC0, BuildIsPrefixOfInput, DropOnlyAtTheBottom,
                TargetCoversSource
  <2>6. ASSUME NEW t \in 1..DiskTrees, MergeTree(t)
        PROVE  MergeInv'
    BY <2>6 DEF MergeTree, BuildIsPrefixOfInput, DropOnlyAtTheBottom,
                TargetCoversSource
  <2>7. ASSUME NEW t \in 2..DiskTrees, MergeSwap(t)
        PROVE  MergeInv'
    BY <2>7, <2>a DEF MergeSwap
  <2>8. CASE WildSwap
    BY <2>8, <2>a DEF WildSwap
  <2>9. CASE MergeFails
    BY <2>9, <2>a DEF MergeFails, EndMerge
  <2>10. CASE BeginBuild
    <3>1. Input' = Input
      BY <2>10 DEF BeginBuild, Input
    <3>2. \A k \in Key : k < pos' => Input[k] = None
      BY <2>10 DEF BeginBuild, NextItem, Key, End
    <3>3. BuildIsPrefixOfInput'
      <4>1. pos' \in 1..End /\ out' = EmptyTree
        BY <2>10 DEF BeginBuild, TypeOK
      <4>2. ASSUME NEW k \in Key
            PROVE  k >= pos' \/ Input'[k] = None
        BY <3>1, <3>2, <4>1 DEF Key, End
      <4>3. QED
        BY <3>1, <4>1, <4>2 DEF BuildIsPrefixOfInput
    <3>4. DropOnlyAtTheBottom'
      BY <2>10 DEF BeginBuild, DropOnlyAtTheBottom, DropDeleted
    <3>5. QED
      BY <2>10, <3>3, <3>4 DEF BeginBuild, TargetCoversSource
  \* The two turns of the build loop: the keys they step over have no entry.
  <2>c. ASSUME pc = "build", pc' = "build", UNCHANGED <<lsmVars, from, drop>>,
               status = "running", pos \in Key,
               NEW p \in (pos + 1)..End, NextItem(Input, pos + 1, p), pos' = p,
               out' = IF Deleted THEN out ELSE [out EXCEPT ![pos] = Input[pos]]
        PROVE  MergeInv'
    <3>1. Input' = Input
      BY <2>c DEF Input
    <3>2. \A k \in Key : k > pos /\ k < pos' => Input[k] = None
      BY <2>c DEF NextItem, Key, End
    <3>3. ASSUME NEW k \in Key
          PROVE  out'[k] = IF k >= pos' \/ (drop' /\ Input'[k] \in Tombstones)
                           THEN None ELSE Input'[k]
      <4>1. out[k] = IF k >= pos \/ (drop /\ Input[k] \in Tombstones)
                     THEN None ELSE Input[k]
        BY <2>c DEF BuildIsPrefixOfInput
      <4>2. pos < pos'
        BY <2>c DEF Key, End
      <4>3. CASE k < pos
        BY <2>c, <3>1, <4>1, <4>2, <4>3 DEF TypeOK, Tree, Key, End
      <4>4. CASE k = pos
        BY <2>c, <3>1, <4>1, <4>2, <4>4 DEF TypeOK, Tree, Key, End, Deleted
      <4>5. CASE k > pos
        BY <2>c, <3>1, <3>2, <4>1, <4>2, <4>5 DEF TypeOK, Tree, Key, End
      <4>6. QED
        BY <2>c, <4>3, <4>4, <4>5 DEF Key
    <3>4. BuildIsPrefixOfInput'
      BY <3>3 DEF BuildIsPrefixOfInput
    <3>5. DropOnlyAtTheBottom'
      BY <2>c DEF DropOnlyAtTheBottom
    <3>6. QED
      BY <2>c, <3>4, <3>5 DEF TargetCoversSource
  <2>11. CASE SkipItem
    BY <2>11, <2>c DEF SkipItem, TypeOK, Key, End
  <2>12. CASE AppendItem
    BY <2>12, <2>c DEF AppendItem, TypeOK, Key, End
  <2>13. CASE InstallTree
    <3>1. \A i \in (from + 2)..Last : trees'[i] = trees[i]
      BY <2>13 DEF InstallTree, TypeOK, Last
    <3>2. DropOnlyAtTheBottom'
      BY <2>13, <3>1 DEF InstallTree, DropOnlyAtTheBottom
    <3>3. trees'[from + 1] = Built /\ trees'[from] = trees[from]
      BY <2>13 DEF InstallTree, TypeOK, Last
    <3>4. \A k \in Key : out[k] = IF drop /\ Input[k] \in Tombstones
                                  THEN None ELSE Input[k]
      BY <2>13 DEF InstallTree, BuildIsPrefixOfInput, Key, End
    <3>5. \A k \in KeysOf(trees[from]) : Input[k] = trees[from][k]
      BY DEF Input, KeysOf
    <3>6. TargetCoversSource'
      BY <2>13, <3>3, <3>4, <3>5 DEF InstallTree, TargetCoversSource, KeysOf, Built
    <3>7. QED
      BY <2>13, <3>2, <3>6 DEF InstallTree, BuildIsPrefixOfInput
  <2>14. CASE ClearSource
    BY <2>14, <2>a DEF ClearSource, EndMerge
  <2>15. CASE UNCHANGED vars
    BY <2>15, <2>b DEF vars
  <2>16. QED
    BY <2>1, <2>2, <2>3, <2>4, <2>5, <2>6, <2>7, <2>8, <2>9, <2>10, <2>11,
       <2>12, <2>13, <2>14, <2>15 DEF Next, MergeStep
<1>3. QED
  BY <1>1, <1>2, TypeCorrect, PTL DEF Spec

\* The builder holds exactly what the merge iterator has gone past.
THEOREM BuildIsPrefix == Spec => []BuildIsPrefixOfInput
  BY MergeInvariant, PTL DEF MergeInv

\* Deleted entries are dropped only with nothing below them.
THEOREM DropIsSafe == Spec => []DropOnlyAtTheBottom
  BY MergeInvariant, PTL DEF MergeInv

\* Between the two resets of a merge, nothing depends on the source any more.
THEOREM TargetCovers == Spec => []TargetCoversSource
  BY MergeInvariant, PTL DEF MergeInv

(***************************************************************************)
(* What a step of a merge does to lookups                                  *)
(***************************************************************************)

\* What __lsm_merge makes of a source value a over a target value b.
MergedValue(a, b, d) ==
  LET v == IF a # None THEN a ELSE b
  IN  IF d /\ v \in Tombstones THEN None ELSE v

\* Replacing the target by the merged tree changes no lookup that starts at
\* the source or above.
LEMMA InstallKeepsLookups ==
  ASSUME NEW T, NEW S, NEW m \in 1..DiskTrees, NEW g \in 0..m, NEW k,
         NEW d \in BOOLEAN,
         d => \A i \in (m + 2)..Last : T[i][k] = None,
         \A i \in 0..Last : i # m + 1 => S[i][k] = T[i][k],
         S[m + 1][k] = MergedValue(T[m][k], T[m + 1][k], d)
  PROVE  Live(Newest(S, g, k)) = Live(Newest(T, g, k))
<1> USE Ranges
<1>0. /\ g \in Nat /\ g <= m /\ m \in Nat /\ m >= 1 /\ m + 1 <= Last
      /\ g..Last \subseteq 0..Last
  BY DEF Last
<1>1. ASSUME NEW i \in g..Last, IsNewest(S, g, k, i)
      PROVE  Live(S[i][k]) = Live(Newest(T, g, k))
  <2>1. CASE i < m + 1
    <3>1. IsNewest(T, g, k, i)
      BY <1>0, <1>1, <2>1 DEF IsNewest
    <3>2. S[i][k] = T[i][k]
      BY <1>0, <2>1
    <3>3. QED
      BY <1>0, <3>1, <3>2, NewestIs
  <2>2. CASE i = m + 1
    <3>1. T[m][k] = None
      BY <1>0, <1>1, <2>2 DEF IsNewest
    <3>2. S[i][k] = T[i][k] /\ T[i][k] # None
      BY <1>1, <2>2, <3>1 DEF IsNewest, MergedValue
    <3>3. IsNewest(T, g, k, i)
      BY <1>0, <1>1, <2>2, <3>2 DEF IsNewest
    <3>4. QED
      BY <1>0, <3>2, <3>3, NewestIs
  <2>3. CASE i > m + 1
    <3>1. S[m + 1][k] = None /\ S[m][k] = None /\ T[i][k] = S[i][k] /\ T[i][k] # None
      BY <1>0, <1>1, <2>3 DEF IsNewest
    <3>2. ~d
      BY <1>0, <1>1, <2>3, <3>1
    <3>3. T[m + 1][k] = None
      BY <1>0, <3>1, <3>2 DEF MergedValue
    <3>4. IsNewest(T, g, k, i)
      BY <1>0, <1>1, <2>3, <3>1, <3>3 DEF IsNewest
    <3>5. QED
      BY <1>0, <3>1, <3>4, NewestIs
  <2>4. QED
    BY <1>0, <2>1, <2>2, <2>3
<1>2. ASSUME NEW i \in g..Last, IsNewest(T, g, k, i)
      PROVE  Live(T[i][k]) = Live(Newest(S, g, k))
  <2>1. CASE i < m + 1
    <3>1. IsNewest(S, g, k, i)
      BY <1>0, <1>2, <2>1 DEF IsNewest
    <3>2. S[i][k] = T[i][k]
      BY <1>0, <2>1
    <3>3. QED
      BY <1>0, <3>1, <3>2, NewestIs
  <2>2. CASE i = m + 1
    <3>1. T[m][k] = None /\ T[m + 1][k] # None
      BY <1>0, <1>2, <2>2 DEF IsNewest
    <3>2. CASE d /\ T[i][k] \in Tombstones
      <4>1. S[i][k] = None
        BY <2>2, <3>1, <3>2 DEF MergedValue
      <4>2. \A j \in g..Last : S[j][k] = None
        BY <1>0, <1>2, <2>2, <3>2, <4>1 DEF IsNewest
      <4>3. Newest(S, g, k) = None
        BY <4>2, NewestNone DEF IsNewest
      <4>4. QED
        BY <3>2, <4>3, LiveNone DEF Live
    <3>3. CASE ~(d /\ T[i][k] \in Tombstones)
      <4>1. S[i][k] = T[i][k]
        BY <2>2, <3>1, <3>3 DEF MergedValue
      <4>2. IsNewest(S, g, k, i)
        BY <1>0, <1>2, <2>2, <4>1 DEF IsNewest
      <4>3. QED
        BY <1>0, <4>1, <4>2, NewestIs
    <3>4. QED
      BY <3>2, <3>3
  <2>3. CASE i > m + 1
    <3>1. T[m + 1][k] = None /\ T[m][k] = None /\ T[i][k] # None
      BY <1>0, <1>2, <2>3 DEF IsNewest
    <3>2. S[m + 1][k] = None /\ S[i][k] = T[i][k]
      BY <1>0, <2>3, <3>1 DEF MergedValue
    <3>3. IsNewest(S, g, k, i)
      BY <1>0, <1>2, <2>3, <3>2 DEF IsNewest
    <3>4. QED
      BY <1>0, <3>2, <3>3, NewestIs
  <2>4. QED
    BY <1>0, <2>1, <2>2, <2>3
<1>3. Shows(T, g, S, g, k) /\ Shows(S, g, T, g, k)
  BY <1>1, <1>2 DEF Shows
<1>4. QED
  BY <1>0, <1>3, SameLive

\* For key k, the target m + 1 shows what the source m shows over it.
TargetShows(T, m, k) ==
  T[m][k] # None =>
    \/ T[m + 1][k] = T[m][k]
    \/ /\ T[m + 1][k] = None
       /\ T[m][k] \in Tombstones
       /\ \A i \in (m + 2)..Last : T[i][k] = None

AgreeExcept(S, T, m, k) == \A i \in 0..Last : i # m => S[i][k] = T[i][k]

\* Once the target covers the source, clearing the source changes no lookup.
LEMMA ClearKeepsLookups ==
  ASSUME NEW T, NEW S, NEW m \in 1..DiskTrees, NEW g \in 0..m, NEW k,
         TargetShows(T, m, k),
         AgreeExcept(S, T, m, k),
         S[m][k] = None
  PROVE  Live(Newest(S, g, k)) = Live(Newest(T, g, k))
<1> USE Ranges
<1>0. /\ g \in Nat /\ g <= m /\ m \in Nat /\ m >= 1 /\ m + 1 <= Last
      /\ g..Last \subseteq 0..Last
      /\ \A i \in 0..Last : i # m => S[i][k] = T[i][k]
  BY DEF Last, AgreeExcept
<1>1. ASSUME NEW i \in g..Last, IsNewest(S, g, k, i)
      PROVE  Live(S[i][k]) = Live(Newest(T, g, k))
  <2>0. i # m /\ S[i][k] = T[i][k]
    BY <1>0, <1>1 DEF IsNewest
  <2>1. CASE i < m \/ T[m][k] = None
    <3>1. IsNewest(T, g, k, i)
      BY <1>0, <1>1, <2>0, <2>1 DEF IsNewest
    <3>2. QED
      BY <1>0, <2>0, <3>1, NewestIs
  <2>2. CASE i > m /\ T[m][k] # None
    <3>1. IsNewest(T, g, k, m)
      BY <1>0, <1>1, <2>2 DEF IsNewest
    <3>2. i = m + 1
      <4>1. S[m + 1][k] = T[m + 1][k]
        BY <1>0
      <4>2. CASE T[m + 1][k] = None
        <5>1. \A j \in (m + 2)..Last : T[j][k] = None
          BY <2>2, <4>2 DEF TargetShows
        <5>2. i \in (m + 2)..Last
          BY <1>0, <1>1, <2>2, <4>1, <4>2 DEF IsNewest
        <5>3. QED
          BY <1>1, <2>0, <5>1, <5>2 DEF IsNewest
      <4>3. CASE T[m + 1][k] # None
        BY <1>0, <1>1, <2>2, <4>1, <4>3 DEF IsNewest
      <4>4. QED
        BY <4>2, <4>3
    <3>3. T[m + 1][k] = T[m][k]
      BY <1>1, <2>0, <2>2, <3>2 DEF IsNewest, TargetShows
    <3>4. QED
      BY <1>0, <2>0, <3>1, <3>2, <3>3, NewestIs
  <2>3. QED
    BY <1>0, <2>0, <2>1, <2>2
<1>2. ASSUME NEW i \in g..Last, IsNewest(T, g, k, i)
      PROVE  Live(T[i][k]) = Live(Newest(S, g, k))
  <2>1. CASE i # m
    <3>1. S[i][k] = T[i][k]
      BY <1>0, <2>1
    <3>2. IsNewest(S, g, k, i)
      <4>1. ASSUME NEW j \in g..(i - 1)
            PROVE  S[j][k] = None
        BY <1>0, <1>2 DEF IsNewest
      <4>2. QED
        BY <1>2, <3>1, <4>1 DEF IsNewest
    <3>3. QED
      BY <1>0, <3>1, <3>2, NewestIs
  <2>2. CASE i = m
    <3>1. T[m][k] # None
      BY <1>2, <2>2 DEF IsNewest
    <3>2. CASE T[m + 1][k] # None
      <4>1. S[m + 1][k] = T[m + 1][k] /\ T[m + 1][k] = T[m][k]
        BY <1>0, <3>1, <3>2 DEF TargetShows
      <4>2. IsNewest(S, g, k, m + 1)
        BY <1>0, <1>2, <2>2, <3>2, <4>1 DEF IsNewest
      <4>3. QED
        BY <1>0, <2>2, <4>1, <4>2, NewestIs
    <3>3. CASE T[m + 1][k] = None
      <4>1. T[m][k] \in Tombstones /\ \A j \in (m + 2)..Last : T[j][k] = None
        BY <3>1, <3>3 DEF TargetShows
      <4>2. \A j \in g..Last : S[j][k] = None
        BY <1>0, <1>2, <2>2, <3>3, <4>1 DEF IsNewest
      <4>3. Newest(S, g, k) = None
        BY <4>2, NewestNone DEF IsNewest
      <4>4. QED
        BY <2>2, <4>1, <4>3, LiveNone DEF Live
    <3>4. QED
      BY <3>2, <3>3
  <2>3. QED
    BY <2>1, <2>2
<1>3. Shows(T, g, S, g, k) /\ Shows(S, g, T, g, k)
  BY <1>1, <1>2 DEF Shows
<1>4. QED
  BY <1>0, <1>3, SameLive

\* For key k, S is T with tree m moved to the place of the empty tree m + 1.
SwappedDown(S, T, m, k) ==
  /\ S[m + 1][k] = T[m][k] /\ S[m][k] = T[m + 1][k] /\ T[m + 1][k] = None
  /\ \A i \in 0..Last : i # m /\ i # m + 1 => S[i][k] = T[i][k]

\* Swapping two neighbours one of which is empty changes no lookup that starts
\* at or above the first: mtree_swap of c0 with the empty c1, ctree_swap.
LEMMA SwapKeepsLookups ==
  ASSUME NEW T, NEW S, NEW m \in 0..DiskTrees, NEW g \in 0..m, NEW k,
         SwappedDown(S, T, m, k)
  PROVE  Live(Newest(S, g, k)) = Live(Newest(T, g, k))
<1> USE Ranges
<1>0. /\ g \in Nat /\ g <= m /\ m \in Nat /\ m + 1 <= Last
      /\ g..Last \subseteq 0..Last
      /\ S[m + 1][k] = T[m][k] /\ S[m][k] = T[m + 1][k] /\ T[m + 1][k] = None
      /\ \A i \in 0..Last : i # m /\ i # m + 1 => S[i][k] = T[i][k]
  BY DEF Last, SwappedDown
<1>1. ASSUME NEW i \in g..Last, IsNewest(S, g, k, i)
      PROVE  Live(S[i][k]) = Live(Newest(T, g, k))
  <2>1. CASE i = m + 1
    <3>1. IsNewest(T, g, k, m) /\ S[i][k] = T[m][k]
      BY <1>0, <1>1, <2>1 DEF IsNewest
    <3>2. QED
      BY <1>0, <3>1, NewestIs
  <2>2. CASE i # m + 1
    <3>1. i # m /\ S[i][k] = T[i][k] /\ T[i][k] # None
      BY <1>0, <1>1, <2>2 DEF IsNewest
    <3>2. ASSUME NEW j \in g..(i - 1)
          PROVE  T[j][k] = None
      BY <1>0, <1>1, <2>2, <3>1 DEF IsNewest
    <3>3. IsNewest(T, g, k, i)
      BY <1>1, <3>1, <3>2 DEF IsNewest
    <3>4. QED
      BY <1>0, <3>1, <3>3, NewestIs
  <2>3. QED
    BY <2>1, <2>2
<1>2. ASSUME NEW i \in g..Last, IsNewest(T, g, k, i)
      PROVE  Live(T[i][k]) = Live(Newest(S, g, k))
  <2>1. CASE i = m
    <3>1. IsNewest(S, g, k, m + 1) /\ S[m + 1][k] = T[i][k]
      BY <1>0, <1>2, <2>1 DEF IsNewest
    <3>2. QED
      BY <1>0, <3>1, NewestIs
  <2>2. CASE i # m
    <3>1. i # m + 1 /\ S[i][k] = T[i][k] /\ T[i][k] # None
      BY <1>0, <1>2, <2>2 DEF IsNewest
    <3>2. ASSUME NEW j \in g..(i - 1)
          PROVE  S[j][k] = None
      BY <1>0, <1>2, <2>2, <3>1 DEF IsNewest
    <3>3. IsNewest(S, g, k, i)
      BY <1>2, <3>1, <3>2 DEF IsNewest
    <3>4. QED
      BY <1>0, <3>1, <3>3, NewestIs
  <2>3. QED
    BY <2>1, <2>2
<1>3. Shows(T, g, S, g, k) /\ Shows(S, g, T, g, k)
  BY <1>1, <1>2 DEF Shows
<1>4. QED
  BY <1>0, <1>3, SameLive
(***************************************************************************)
(* Steps of the trees as steps of the abstract store                       *)
(***************************************************************************)

\* Collections that show the same for every key are the same map.
LEMMA SameView ==
  ASSUME NEW S, NEW f, NEW T, NEW g,
         \A k \in Key : Live(Newest(S, f, k)) = Live(Newest(T, g, k))
  PROVE  View(S, f) = View(T, g)
  BY DEF View

LEMMA ViewDepends ==
  ASSUME NEW S, NEW T, NEW f \in Nat, \A i \in f..Last : S[i] = T[i]
  PROVE  View(S, f) = View(T, f)
<1>1. \A k \in Key : Newest(S, f, k) = Newest(T, f, k)
  BY NewestDepends
<1>2. QED
  BY <1>1 DEF View

LEMMA ViewSkipsEmpty ==
  ASSUME NEW T, NEW f \in 0..Last, T[f] = EmptyTree
  PROVE  View(T, f) = View(T, f + 1)
<1>1. \A k \in Key : Live(Newest(T, f, k)) = Live(Newest(T, f + 1, k))
  BY SkipEmpty, Ranges
<1>2. QED
  BY <1>1 DEF View

\* The collections a merge goes through: before the target is replaced, T;
\* after, S.  From the source down nothing changes, and the target alone
\* already shows what source and target showed together.
LEMMA InstallMerges ==
  ASSUME NEW T, NEW S, NEW m \in 1..DiskTrees, NEW d \in BOOLEAN,
         T \in [0..Last -> Tree], S \in [0..Last -> Tree],
         d => \A i \in (m + 2)..Last : T[i] = EmptyTree,
         \A i \in 0..Last : i # m + 1 => S[i] = T[i],
         \A k \in Key : S[m + 1][k] = MergedValue(T[m][k], T[m + 1][k], d)
  PROVE  /\ \A g \in 0..m : View(S, g) = View(T, g)
         /\ View(S, m + 1) = View(T, m)
<1> USE Ranges
<1>0. /\ m \in Nat /\ m >= 1 /\ m + 1 <= Last /\ m \in 0..m
      /\ (m + 2)..Last \subseteq 0..Last
  BY DEF Last
<1>a. d => \A k \in Key : \A i \in (m + 2)..Last : T[i][k] = None
  OBVIOUS
<1>1. ASSUME NEW g \in 0..m
      PROVE  View(S, g) = View(T, g)
  <2>1. \A k \in Key : Live(Newest(S, g, k)) = Live(Newest(T, g, k))
    BY <1>a, InstallKeepsLookups
  <2>2. QED
    BY <2>1, SameView
<1> DEFINE E == [S EXCEPT ![m] = EmptyTree]
<1>2. /\ E[m] = EmptyTree
      /\ \A i \in 0..Last : i # m => E[i] = S[i]
  BY <1>0
<1> HIDE DEF E
<1>3. View(E, m) = View(S, m)
  <2>1. \A k \in Key : Live(Newest(E, m, k)) = Live(Newest(S, m, k))
    <3> SUFFICES ASSUME NEW k \in Key
                 PROVE  Live(Newest(E, m, k)) = Live(Newest(S, m, k))
      OBVIOUS
    <3>1. d => \A i \in (m + 2)..Last : S[i][k] = None
      BY <1>0, <1>a
    <3>2. TargetShows(S, m, k)
      <4>1. S[m] = T[m]
        BY <1>0
      <4>2. QED
        BY <3>1, <4>1 DEF MergedValue, TargetShows
    <3>3. E[m][k] = None /\ AgreeExcept(E, S, m, k)
      BY <1>2 DEF AgreeExcept
    <3>4. QED
      BY <1>0, <3>2, <3>3, ClearKeepsLookups
  <2>2. QED
    BY <2>1, SameView
<1>4. View(E, m) = View(E, m + 1)
  <2>1. QED
    BY <1>0, <1>2, ViewSkipsEmpty
<1>5. View(E, m + 1) = View(S, m + 1)
  <2>1. \A i \in (m + 1)..Last : E[i] = S[i]
    BY <1>0, <1>2
  <2>2. QED
    BY <1>0, <2>1, ViewDepends
<1>6. QED
  BY <1>0, <1>1, <1>3, <1>4, <1>5

\* Clearing the source of a merge whose target covers it.
LEMMA ClearHidesNothing ==
  ASSUME NEW T, NEW S, NEW m \in 1..DiskTrees, NEW d \in BOOLEAN,
         T \in [0..Last -> Tree],
         S[m] = EmptyTree, \A i \in 0..Last : i # m => S[i] = T[i],
         d => \A i \in (m + 2)..Last : T[i] = EmptyTree,
         \A k \in KeysOf(T[m]) : T[m + 1][k] = MergedValue(T[m][k], None, d)
  PROVE  \A g \in 0..(m + 1) : View(S, g) = View(T, g)
<1> USE Ranges
<1>0. /\ m \in Nat /\ m >= 1 /\ m + 1 <= Last
      /\ (m + 2)..Last \subseteq 0..Last
  BY DEF Last
<1>2. ASSUME NEW g \in 0..m
      PROVE  View(S, g) = View(T, g)
  <2>1. ASSUME NEW k \in Key
        PROVE  Live(Newest(S, g, k)) = Live(Newest(T, g, k))
    <3>1. d => \A i \in (m + 2)..Last : T[i][k] = None
      BY <1>0
    <3>2. TargetShows(T, m, k)
      BY <3>1 DEF KeysOf, MergedValue, TargetShows
    <3>3. S[m][k] = None /\ AgreeExcept(S, T, m, k)
      BY DEF AgreeExcept
    <3>4. QED
      BY <3>2, <3>3, ClearKeepsLookups
  <2>2. QED
    BY <2>1, SameView
<1>3. View(S, m + 1) = View(T, m + 1)
  BY <1>0, ViewDepends
<1>4. QED
  BY <1>0, <1>2, <1>3
\* Every step of the trees, for every caller and every failure of a merge, is a
\* step of the abstract store or changes nothing a lookup can see; only a merge
\* into a single leaf (ctree_builder_finish) and the swap out of bounds can
\* break that.
THEOREM LookupsAreSafe == Spec => OnlySingleLeafLoses
<1>1. TypeOK /\ MergeInv /\ [Next]_vars =>
        \/ Store!Next
        \/ SingleLeaf /\ (InstallTree \/ ClearSource)
        \/ WildSwap
        \/ UNCHANGED Store!storeVars
  <2> SUFFICES ASSUME TypeOK, MergeInv, [Next]_vars,
                      ~WildSwap, ~(SingleLeaf /\ (InstallTree \/ ClearSource))
               PROVE  Store!Next \/ UNCHANGED Store!storeVars
    OBVIOUS
  <2> USE Ranges
  <2>a. /\ 0 \in Nat /\ 1 \in Nat /\ 2 \in Nat
        /\ 0..DiskTrees \subseteq Nat
    OBVIOUS
  \* A step that changes neither the trees nor the saved descriptors.
  <2>b. ASSUME UNCHANGED <<trees, disk>>
        PROVE  UNCHANGED Store!storeVars
    BY <2>b DEF Store!storeVars
  \* A step after which every lookup, from c0, c1 or ci down, is the same.
  <2>c. ASSUME \A g \in 0..2 : View(trees', g) = View(trees, g), UNCHANGED disk
        PROVE  UNCHANGED Store!storeVars
    BY <2>c DEF Store!storeVars
  <2>1. ASSUME NEW k \in Key, NEW v \in Values, Add(k, v)
        PROVE  Store!Next
    <3>1. /\ \A i \in 1..Last : trees'[i] = trees[i]
          /\ trees'[0][k] = v /\ v # None
          /\ \A j \in Key : j # k => trees'[0][j] = trees[0][j]
          /\ UNCHANGED disk
      BY <2>1 DEF Add, TypeOK, Tree
    <3>2. View(trees', 1) = View(trees, 1) /\ View(trees', 2) = View(trees, 2)
      BY <3>1, <2>a, ViewDepends
    <3>3. Newest(trees', 0, k) = v
      <4>1. IsNewest(trees', 0, k, 0)
        BY <3>1 DEF IsNewest
      <4>2. QED
        BY <3>1, <4>1, <2>a, NewestIs
    <3>4. ASSUME NEW j \in Key, j # k
          PROVE  Newest(trees', 0, j) = Newest(trees, 0, j)
      <4>1. \A i \in 0..Last : trees'[i][j] = trees[i][j]
        BY <3>1, <3>4
      <4>2. QED
        BY <4>1, <2>a, NewestDepends
    <3>5. View(trees', 0) = [View(trees, 0) EXCEPT ![k] = Live(v)]
      BY <3>3, <3>4 DEF View
    <3>6. Live(v) \in (Values \ Tombstones) \cup {None}
      BY DEF Live
    <3>7. Store!Put(k, Live(v))
      BY <3>1, <3>2, <3>5 DEF Store!Put
    <3>8. QED
      BY <3>6, <3>7 DEF Store!Next
  <2>2. CASE Dump
    <3>1. \A i \in 2..Last : disk'[i] = trees[i]
      BY <2>2 DEF Dump
    <3>2. View(disk', 2) = View(trees, 2)
      BY <3>1, <2>a, ViewDepends
    <3>3. Store!Save
      BY <2>2, <3>2 DEF Dump, Store!Save
    <3>4. QED
      BY <3>3 DEF Store!Next
  <2>3. CASE Restart
    <3>1. /\ trees'[0] = EmptyTree /\ trees'[1] = EmptyTree
          /\ \A i \in 2..Last : trees'[i] = disk[i]
          /\ UNCHANGED disk
      BY <2>3 DEF Restart
    <3>2. View(trees', 2) = View(disk, 2)
      BY <3>1, <2>a, ViewDepends
    <3>3. View(trees', 0) = View(trees', 1) /\ View(trees', 1) = View(trees', 2)
      BY <3>1, ViewSkipsEmpty
    <3>4. Store!Restart
      BY <3>1, <3>2, <3>3 DEF Store!Restart
    <3>5. QED
      BY <3>4 DEF Store!Next
  <2>4. CASE MergeAsserts
    BY <2>4, <2>b DEF MergeAsserts
  <2>5. CASE MergeC0
    <3>1. /\ trees'[0] = EmptyTree /\ trees'[1] = trees[0]
          /\ \A i \in 2..Last : trees'[i] = trees[i]
          /\ UNCHANGED disk
          /\ trees[1] = EmptyTree
      BY <2>5 DEF MergeC0, TypeOK
    <3>2. View(trees', 0) = View(trees, 0)
      <4>1. ASSUME NEW k \in Key
            PROVE  Live(Newest(trees', 0, k)) = Live(Newest(trees, 0, k))
        <5>1. SwappedDown(trees', trees, 0, k)
          BY <3>1 DEF SwappedDown
        <5>2. 0 \in 0..DiskTrees /\ 0 \in 0..0
          OBVIOUS
        <5>3. QED
          BY <5>1, <5>2, SwapKeepsLookups
      <4>2. QED
        BY <4>1, SameView
    <3>3. View(trees', 1) = View(trees', 0)
      BY <3>1, ViewSkipsEmpty
    <3>4. View(trees', 2) = View(trees, 2)
      BY <3>1, <2>a, ViewDepends
    <3>5. Store!Freeze
      BY <3>1, <3>2, <3>3, <3>4 DEF Store!Freeze
    <3>6. QED
      BY <3>5 DEF Store!Next
  <2>6. ASSUME NEW t \in 1..DiskTrees, MergeTree(t)
        PROVE  UNCHANGED Store!storeVars
    BY <2>6, <2>b DEF MergeTree
  <2>7. ASSUME NEW t \in 2..DiskTrees, MergeSwap(t)
        PROVE  UNCHANGED Store!storeVars
    <3>1. /\ trees'[t] = trees[t + 1] /\ trees'[t + 1] = trees[t]
          /\ trees[t + 1] = EmptyTree
          /\ \A i \in 0..Last : i # t /\ i # t + 1 => trees'[i] = trees[i]
          /\ UNCHANGED disk
      BY <2>7 DEF MergeSwap, TypeOK
    <3>2. ASSUME NEW g \in 0..2
          PROVE  View(trees', g) = View(trees, g)
      <4>1. t \in 0..DiskTrees /\ g \in 0..t
        OBVIOUS
      <4>2. ASSUME NEW k \in Key
            PROVE  Live(Newest(trees', g, k)) = Live(Newest(trees, g, k))
        <5>1. SwappedDown(trees', trees, t, k)
          BY <3>1 DEF SwappedDown
        <5>2. QED
          BY <4>1, <5>1, SwapKeepsLookups
      <4>3. QED
        BY <4>2, SameView
    <3>3. QED
      BY <3>1, <3>2, <2>c
  <2>8. CASE MergeFails
    BY <2>8, <2>b DEF MergeFails
  <2>9. CASE BeginBuild
    BY <2>9, <2>b DEF BeginBuild
  <2>10. CASE SkipItem
    BY <2>10, <2>b DEF SkipItem
  <2>11. CASE AppendItem
    BY <2>11, <2>b DEF AppendItem
  <2>12. CASE InstallTree
    <3>1. /\ from \in 1..DiskTrees /\ drop \in BOOLEAN
          /\ pc = "build" /\ pos = End
          /\ UNCHANGED disk
      BY <2>12 DEF InstallTree, TypeOK
    <3>2. Built = out
      BY <2>12 DEF SingleLeaf, Built
    <3>3. /\ trees'[from + 1] = out
          /\ \A i \in 0..Last : i # from + 1 => trees'[i] = trees[i]
          /\ trees \in [0..Last -> Tree] /\ trees' \in [0..Last -> Tree]
      BY <2>12, <3>1, <3>2 DEF InstallTree, TypeOK
    <3>4. \A k \in Key : trees'[from + 1][k] =
            MergedValue(trees[from][k], trees[from + 1][k], drop)
      BY <3>1, <3>3 DEF MergeInv, BuildIsPrefixOfInput, MergedValue, Input, Key, End
    <3>5. drop => \A i \in (from + 2)..Last : trees[i] = EmptyTree
      BY DEF MergeInv, DropOnlyAtTheBottom
    <3>6. /\ \A g \in 0..from : View(trees', g) = View(trees, g)
          /\ View(trees', from + 1) = View(trees, from)
      BY <3>1, <3>3, <3>4, <3>5, InstallMerges
    <3>7. CASE from = 1
      <4>1. /\ View(trees', 0) = View(trees, 0) /\ View(trees', 1) = View(trees, 1)
            /\ View(trees', 2) = View(trees, 1)
        BY <3>6, <3>7
      <4>2. Store!Merge
        BY <3>1, <4>1 DEF Store!Merge
      <4>3. QED
        BY <4>2 DEF Store!Next
    <3>8. CASE from > 1
      <4>1. \A g \in 0..2 : View(trees', g) = View(trees, g)
        BY <3>1, <3>6, <3>8
      <4>2. QED
        BY <3>1, <4>1, <2>c
    <3>9. QED
      BY <3>1, <3>7, <3>8
  <2>13. CASE ClearSource
    <3>1. /\ from \in 1..DiskTrees /\ drop \in BOOLEAN
          /\ pc = "clear"
          /\ UNCHANGED disk
          /\ trees'[from] = EmptyTree
          /\ \A i \in 0..Last : i # from => trees'[i] = trees[i]
          /\ trees \in [0..Last -> Tree]
      BY <2>13 DEF ClearSource, TypeOK
    <3>2. Built = out
      BY <2>13 DEF SingleLeaf, Built
    <3>3. \A k \in KeysOf(trees[from]) :
            trees[from + 1][k] = MergedValue(trees[from][k], None, drop)
      BY <3>1, <3>2 DEF MergeInv, TargetCoversSource, MergedValue, KeysOf
    <3>4. drop => \A i \in (from + 2)..Last : trees[i] = EmptyTree
      BY DEF MergeInv, DropOnlyAtTheBottom
    <3>5. \A g \in 0..(from + 1) : View(trees', g) = View(trees, g)
      <4>1. /\ from \in 1..DiskTrees /\ drop \in BOOLEAN
            /\ trees \in [0..Last -> Tree]
            /\ trees'[from] = EmptyTree
            /\ \A i \in 0..Last : i # from => trees'[i] = trees[i]
        BY <3>1
      <4> HIDE Ranges
      <4>2. QED
        BY ONLY <4>1, <3>3, <3>4, ClearHidesNothing
    <3>6. \A g \in 0..2 : View(trees', g) = View(trees, g)
      BY <3>1, <3>5
    <3>7. QED
      BY <3>1, <3>6, <2>c
  <2>14. CASE UNCHANGED vars
    BY <2>14, <2>b DEF vars
  <2>15. QED
    BY <2>1, <2>2, <2>3, <2>4, <2>5, <2>6, <2>7, <2>8, <2>9, <2>10, <2>11,
       <2>12, <2>13, <2>14 DEF Next, MergeStep
<1>2. QED
  BY <1>1, TypeCorrect, MergeInvariant, PTL DEF Spec, OnlySingleLeafLoses
(***************************************************************************)
(* The assert of lsm_merge                                                 *)
(***************************************************************************)

\* One step of a process whose c1 is not stuck.
LEMMA StuckByFailure ==
  ASSUME TypeOK, ~C1Stuck, [Next]_vars, ~MergeFails
  PROVE  ~C1Stuck'
<1> USE Ranges DEF TypeOK, C1Stuck
<1>1. ASSUME NEW k \in Key, NEW v \in Values, Add(k, v)
      PROVE  ~C1Stuck'
  BY <1>1 DEF Add
<1>2. CASE Dump
  BY <1>2 DEF Dump
<1>3. CASE Restart
  BY <1>3 DEF Restart, EndMerge
<1>4. CASE MergeAsserts
  BY <1>4 DEF MergeAsserts
<1>5. CASE MergeC0
  BY <1>5 DEF MergeC0
<1>6. ASSUME NEW t \in 1..DiskTrees, MergeTree(t)
      PROVE  ~C1Stuck'
  BY <1>6 DEF MergeTree
<1>7. ASSUME NEW t \in 2..DiskTrees, MergeSwap(t)
      PROVE  ~C1Stuck'
  BY <1>7 DEF MergeSwap
<1>8. CASE WildSwap
  BY <1>8 DEF WildSwap
<1>9. CASE BeginBuild
  BY <1>9 DEF BeginBuild
<1>10. CASE SkipItem
  BY <1>10 DEF SkipItem
<1>11. CASE AppendItem
  BY <1>11 DEF AppendItem
<1>12. CASE InstallTree
  BY <1>12 DEF InstallTree
<1>13. CASE ClearSource
  BY <1>13 DEF ClearSource, EndMerge
<1>14. CASE UNCHANGED vars
  BY <1>14 DEF vars
<1>15. QED
  BY <1>1, <1>2, <1>3, <1>4, <1>5, <1>6, <1>7, <1>8, <1>9, <1>10, <1>11,
     <1>12, <1>13, <1>14 DEF Next, MergeStep

\* Only a merge that fails leaves c1 full when no call is merging it.
THEOREM FailuresFillC1 == Spec => OnlyFailuresFillC1
<1>1. TypeOK /\ [Next]_vars => [C1Stuck' => C1Stuck \/ MergeFails]_vars
  BY StuckByFailure
<1>2. QED
  BY <1>1, TypeCorrect, PTL DEF Spec, OnlyFailuresFillC1

\* While no merge ever fails, the assert holds at every call of lsm_merge.
THEOREM AssertHolds ==
  ASSUME IoMayFail = FALSE
  PROVE  Spec => []C1EmptyAtMerge
<1> DEFINE I == ~C1Stuck /\ C1EmptyAtMerge
<1>1. Init => I
  BY Ranges DEF Init, C1Stuck, C1EmptyAtMerge
<1>2. TypeOK /\ I /\ [Next]_vars => I'
  <2> SUFFICES ASSUME TypeOK, I, [Next]_vars
               PROVE  I'
    OBVIOUS
  <2>1. ~MergeFails
    BY DEF MergeFails
  <2>2. ~C1Stuck'
    BY <2>1, StuckByFailure
  <2>3. ~MergeAsserts
    BY DEF MergeAsserts, C1Stuck
  <2>4. ~WildSwap => C1EmptyAtMerge'
    BY <2>1, <2>3 DEF Next, vars, lsmVars, C1EmptyAtMerge, Add, Dump, Restart, MergeC0,
       MergeTree, MergeSwap, MergeStep, BeginBuild, SkipItem, AppendItem,
       InstallTree, ClearSource
  <2>5. QED
    BY <2>2, <2>4 DEF WildSwap, C1EmptyAtMerge
<1>3. QED
  BY <1>1, <1>2, TypeCorrect, PTL DEF Spec

(***************************************************************************)
(* Refinement of the abstract store                                        *)
(***************************************************************************)

\* The keys of a tree are a finite set, empty for the empty tree only, and one
\* more entry makes it one larger.
LEMMA Keys ==
  ASSUME NEW t \in Tree
  PROVE  /\ IsFiniteSet(KeysOf(t))
         /\ Cardinality(KeysOf(t)) \in Nat
         /\ t = EmptyTree <=> KeysOf(t) = {}
         /\ \A k \in Key, v \in Values :
              t[k] = None => Cardinality(KeysOf([t EXCEPT ![k] = v])) =
                               Cardinality(KeysOf(t)) + 1
<1>1. IsFiniteSet(Key)
  BY FS_Interval DEF Key
<1>2. KeysOf(t) \subseteq Key
  BY DEF KeysOf
<1>3. IsFiniteSet(KeysOf(t))
  BY <1>1, <1>2, FS_Subset
<1>4. t = EmptyTree <=> KeysOf(t) = {}
  BY DEF Tree, EmptyTree, KeysOf
<1>5. ASSUME NEW k \in Key, NEW v \in Values, t[k] = None
      PROVE  Cardinality(KeysOf([t EXCEPT ![k] = v])) = Cardinality(KeysOf(t)) + 1
  <2>1. KeysOf([t EXCEPT ![k] = v]) = KeysOf(t) \cup {k}
    BY <1>5 DEF Tree, KeysOf
  <2>2. k \notin KeysOf(t)
    BY <1>5 DEF KeysOf
  <2>3. QED
    BY <1>3, <2>1, <2>2, FS_AddElement
<1>6. QED
  BY <1>3, <1>4, <1>5, FS_CardinalityType

LEMMA NoKeys == KeysOf(EmptyTree) = {} /\ Cardinality(KeysOf(EmptyTree)) = 0
  BY FS_EmptySet DEF KeysOf, EmptyTree

\* A tree with all the keys of a large one is large.
LEMMA LargerIsLarge ==
  ASSUME NEW s \in Tree, NEW t \in Tree, Large(s), s # EmptyTree,
         KeysOf(s) \subseteq KeysOf(t)
  PROVE  Cardinality(KeysOf(t)) > MaxLeaf
<1>1. IsFiniteSet(KeysOf(t)) /\ Cardinality(KeysOf(t)) \in Nat
  BY Keys
<1>2. Cardinality(KeysOf(s)) <= Cardinality(KeysOf(t))
  BY <1>1, FS_Subset
<1>3. Cardinality(KeysOf(s)) \in Nat /\ Cardinality(KeysOf(s)) > MaxLeaf
  BY Keys DEF Large
<1>4. QED
  BY <1>1, <1>2, <1>3

\* Batches larger than a leaf keep every tree larger than a leaf.
LEMMA TreesStayLarge ==
  ASSUME MergeBatch > MaxLeaf, Tombstones = {}, BlindRetry = FALSE
  PROVE  Spec => []LargeTrees
<1>1. Init => LargeTrees
  <2>1. ASSUME Init
        PROVE  /\ \A i \in 1..Last : trees[i] = EmptyTree
               /\ \A i \in 2..Last : disk[i] = EmptyTree
               /\ leaf = Cardinality(KeysOf(out))
               /\ pc = "idle"
    <3>1. \A i \in 1..Last : i \in 0..Last
      OBVIOUS
    <3>2. QED
      BY <2>1, <3>1, NoKeys DEF Init, Idle
  <2>2. QED
    BY <2>1 DEF LargeTrees, Large
<1>2. TypeOK /\ TypeOK' /\ MergeInv /\ LargeTrees /\ [Next]_vars => LargeTrees'
  <2> SUFFICES ASSUME TypeOK, TypeOK', MergeInv, LargeTrees, [Next]_vars
               PROVE  LargeTrees'
    OBVIOUS
  <2> USE Ranges
  <2>0. /\ from \in 0..Last /\ from + 1 \in 0..Last
        /\ from \in 1..Last /\ from + 1 \in 1..Last
        /\ trees[from] \in Tree /\ trees[from + 1] \in Tree /\ out \in Tree
        /\ \A i \in 1..Last : i \in 0..Last
    BY DEF TypeOK, Last
  \* A step outside the build loop: only the trees matter.
  <2>a. ASSUME ~multi' => leaf' = Cardinality(KeysOf(out')),
               \A i \in 1..Last : Large(trees'[i]),
               \A i \in 2..Last : Large(disk'[i]),
               pc' \in {"idle", "begin"}
        PROVE  LargeTrees'
    BY <2>a DEF LargeTrees, Large
  <2>b. ASSUME EndMerge
        PROVE  ~multi' => leaf' = Cardinality(KeysOf(out'))
    BY <2>b, NoKeys DEF EndMerge
  \* A step that leaves the call and every tree but c0 alone.
  <2>c. ASSUME UNCHANGED mergeVars,
               \A i \in 1..Last : trees'[i] = trees[i],
               \A i \in 2..Last : Large(disk'[i])
        PROVE  LargeTrees'
    <3>1. Input' = Input
      BY <2>0, <2>c DEF Input
    <3>2. QED
      BY <2>c, <3>1 DEF LargeTrees, Large
  <2>1. ASSUME NEW k \in Key, NEW v \in Values, Add(k, v)
        PROVE  LargeTrees'
    <3>1. \A i \in 1..Last : trees'[i] = trees[i]
      BY <2>1 DEF Add, TypeOK
    <3>2. QED
      BY <2>1, <2>c, <3>1 DEF Add, LargeTrees
  <2>2. CASE Dump
    <3>1. \A i \in 2..Last : Large(disk'[i])
      BY <2>2 DEF Dump, LargeTrees
    <3>2. QED
      BY <2>2, <2>c, <3>1 DEF Dump
  <2>3. CASE Restart
    <3>1. \A i \in 1..Last : Large(trees'[i])
      <4>1. ASSUME NEW i \in 1..Last
            PROVE  Large(trees'[i])
        <5>1. trees'[i] = IF i < 2 THEN EmptyTree ELSE disk[i]
          BY <2>0, <2>3 DEF Restart
        <5>2. CASE i < 2
          BY <5>1, <5>2 DEF Large
        <5>3. CASE i \in 2..Last
          <6>1. trees'[i] = disk[i]
            BY <5>1, <5>3
          <6>2. QED
            BY <5>3, <6>1 DEF LargeTrees
        <5>4. QED
          BY <5>2, <5>3
      <4>2. QED
        BY <4>1
    <3>2. QED
      BY <2>3, <2>a, <2>b, <3>1 DEF Restart, EndMerge, LargeTrees
  <2>4. CASE MergeAsserts
    BY <2>4, <2>c DEF MergeAsserts, LargeTrees
  <2>5. CASE MergeC0
    <3>1. Large(trees[0])
      <4>1. Cardinality(KeysOf(trees[0])) \in Nat
        BY Keys DEF TypeOK
      <4>2. QED
        BY <2>5, <4>1 DEF MergeC0, Large
    <3>2. \A i \in 1..Last : Large(trees'[i])
      BY <2>5, <3>1 DEF MergeC0, TypeOK, LargeTrees
    <3>3. QED
      BY <2>5, <2>a, <3>2 DEF MergeC0, LargeTrees
  <2>6. ASSUME NEW t \in 1..DiskTrees, MergeTree(t)
        PROVE  LargeTrees'
    BY <2>6, <2>a DEF MergeTree, LargeTrees
  <2>7. ASSUME NEW t \in 2..DiskTrees, MergeSwap(t)
        PROVE  LargeTrees'
    <3>1. t \in 1..Last /\ t + 1 \in 1..Last
      BY DEF Last
    <3>2. \A i \in 1..Last : Large(trees'[i])
      BY <2>7, <3>1 DEF MergeSwap, TypeOK, LargeTrees
    <3>3. QED
      BY <2>7, <2>a, <3>2 DEF MergeSwap, LargeTrees
  <2>8. CASE WildSwap
    BY <2>8 DEF WildSwap
  <2>9. CASE MergeFails
    BY <2>9, <2>a, <2>b DEF MergeFails, EndMerge, LargeTrees
  <2>10. CASE BeginBuild
    <3>1. Input' = Input /\ pos' \in Key => Input[pos'] # None
      BY <2>10 DEF BeginBuild, NextItem, Input
    <3>2. pos' \in 1..End
      BY <2>10 DEF BeginBuild
    <3>3. pos' # End => pos' \in Key
      BY <3>2 DEF Key, End
    <3>4. Input' = Input
      BY <2>10 DEF BeginBuild, Input
    <3>5. QED
      BY <2>10, <3>1, <3>3, <3>4 DEF BeginBuild, LargeTrees, Large
  <2>11. CASE SkipItem
    BY <2>11 DEF SkipItem, Deleted
  <2>12. CASE AppendItem
    <3>1. pos \in Key /\ pos < End /\ pos' \in 1..End
      BY <2>12 DEF AppendItem, TypeOK, Key, End
    <3>2. Input' = Input
      BY <2>12 DEF AppendItem, Input
    <3>3. pos' # End => Input'[pos'] # None
      <4>1. pos' # End => pos' \in Key
        BY <3>1 DEF Key, End
      <4>2. QED
        BY <2>12, <3>2, <4>1 DEF AppendItem, NextItem
    <3>4. Input[pos] \in Values
      <4>1. Input[pos] # None
        BY <2>12 DEF AppendItem, LargeTrees
      <4>2. Input[pos] \in Values \cup {None}
        BY <2>0, <3>1 DEF Input, Tree
      <4>3. QED
        BY <4>1, <4>2
    <3>5. out[pos] = None
      BY <2>12, <3>1 DEF AppendItem, MergeInv, BuildIsPrefixOfInput, Key
    <3>6. Cardinality(KeysOf(out')) = Cardinality(KeysOf(out)) + 1
      BY <2>0, <2>12, <3>1, <3>4, <3>5, Keys DEF AppendItem
    <3>7. ~multi' => leaf' = leaf + 1 /\ ~multi
      BY <2>12 DEF AppendItem
    <3>8. ~multi' => leaf' = Cardinality(KeysOf(out'))
      BY <3>6, <3>7 DEF LargeTrees
    <3>9. QED
      BY <2>12, <3>3, <3>8 DEF AppendItem, LargeTrees, Large
  <2>13. CASE InstallTree
    <3>1. \A k \in Key : out[k] = Input[k]
      BY <2>13 DEF InstallTree, MergeInv, BuildIsPrefixOfInput, Key, End
    <3>2. /\ KeysOf(trees[from]) \subseteq KeysOf(out)
          /\ KeysOf(trees[from + 1]) \subseteq KeysOf(out)
          /\ KeysOf(out) \subseteq KeysOf(trees[from]) \cup KeysOf(trees[from + 1])
      BY <3>1 DEF KeysOf, Input
    <3>3. Large(out)
      <4>1. CASE trees[from] # EmptyTree
        BY <2>0, <3>2, <4>1, LargerIsLarge DEF LargeTrees, Large
      <4>2. CASE trees[from + 1] # EmptyTree
        BY <2>0, <3>2, <4>2, LargerIsLarge DEF LargeTrees, Large
      <4>3. CASE trees[from] = EmptyTree /\ trees[from + 1] = EmptyTree
        BY <2>0, <3>2, <4>3, NoKeys, Keys DEF Large
      <4>4. QED
        BY <4>1, <4>2, <4>3
    <3>4. multi \/ out = EmptyTree
      <4>1. SUFFICES ASSUME ~multi, out # EmptyTree
                     PROVE  FALSE
        OBVIOUS
      <4>2. leaf > MaxLeaf
        BY <3>3, <4>1 DEF LargeTrees, Large
      <4>3. leaf \in 0..MaxLeaf
        BY DEF TypeOK
      <4>4. QED
        BY <4>2, <4>3
    <3>5. Large(Built)
      BY <3>3 DEF Built, Large
    <3>6. \A i \in 1..Last : trees'[i] = IF i = from + 1 THEN Built ELSE trees[i]
      BY <2>0, <2>13 DEF InstallTree, TypeOK
    <3>7. \A i \in 1..Last : Large(trees'[i])
      BY <3>5, <3>6 DEF LargeTrees
    <3>8. QED
      BY <2>13, <3>4, <3>7 DEF InstallTree, LargeTrees, Large
  <2>14. CASE ClearSource
    <3>1. \A i \in 1..Last : trees'[i] = IF i = from THEN EmptyTree ELSE trees[i]
      BY <2>0, <2>14 DEF ClearSource, TypeOK
    <3>2. \A i \in 1..Last : Large(trees'[i])
      BY <3>1 DEF LargeTrees, Large
    <3>3. QED
      BY <2>14, <2>a, <2>b, <3>2 DEF ClearSource, EndMerge, LargeTrees
  <2>15. CASE UNCHANGED vars
    BY <2>15, <2>c DEF vars, LargeTrees
  <2>16. QED
    BY <2>1, <2>2, <2>3, <2>4, <2>5, <2>6, <2>7, <2>8, <2>9, <2>10, <2>11,
       <2>12, <2>13, <2>14, <2>15 DEF Next, MergeStep
<1>3. QED
  BY <1>1, <1>2, TypeCorrect, MergeInvariant, PTL DEF Spec

\* A caller that merges only batches larger than a leaf, deletes nothing and
\* does not retry a merge onto an empty ci[0], has the abstract store: whatever
\* fails and whenever it restarts, a lookup finds the last update since the
\* saved snapshot.
THEOREM Refinement ==
  ASSUME MergeBatch > MaxLeaf, Tombstones = {}, BlindRetry = FALSE
  PROVE  Spec => StoreSpec
<1>1. Init => Store!Init
  <2> SUFFICES ASSUME Init
               PROVE  Store!Init
    OBVIOUS
  <2>1. ASSUME NEW T, NEW f \in Nat, \A i \in f..Last : T[i] = EmptyTree
        PROVE  View(T, f) = [k \in Key |-> None]
    <3>1. ASSUME NEW k \in Key
          PROVE  Newest(T, f, k) = None
      BY <2>1, Ranges, NewestNone DEF IsNewest
    <3>2. QED
      BY <3>1, LiveNone DEF View
  <2>2. /\ \A i \in 0..Last : trees[i] = EmptyTree
        /\ \A i \in 2..Last : disk[i] = EmptyTree
    BY DEF Init
  <2>3. QED
    BY <2>1, <2>2, Ranges DEF Store!Init, Store!EmptyMap
<1>2. LargeTrees /\ pc = "clear" => ~SingleLeaf
  BY DEF LargeTrees, SingleLeaf
<1>3. LargeTrees' /\ InstallTree => ~SingleLeaf
  BY DEF InstallTree, LargeTrees, SingleLeaf
<1>4. /\ LargeTrees /\ LargeTrees'
      /\ [\/ Store!Next
          \/ SingleLeaf /\ (InstallTree \/ ClearSource)
          \/ WildSwap]_(Store!storeVars)
      => [Store!Next]_(Store!storeVars)
  BY <1>2, <1>3 DEF ClearSource, WildSwap
<1>5. QED
  BY <1>1, <1>4, LookupsAreSafe, TreesStayLarge, PTL
     DEF Spec, OnlySingleLeafLoses, StoreSpec, Store!Spec
=============================================================================
