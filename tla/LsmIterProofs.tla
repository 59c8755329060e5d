--------------------------- MODULE LsmIterProofs ---------------------------
(***************************************************************************)
(* Theorems about LsmIter, for every number of keys and trees and every    *)
(* content of them: the trees stay in step with the item, and the whole    *)
(* iterator is the cursor of LsmCursor.                                    *)
(***************************************************************************)
EXTENDS LsmIter, SequenceFacts, TLAPS

(***************************************************************************)
(* Places in the trees                                                     *)
(***************************************************************************)

USE LsmIterAssumption DEF LsmIterAssumption, Key, End

\* A tree stands on one of its keys or at its end.
Stands(i, a) == a \in contents[i] \cup {End}

Contents == contents \in [Sources -> SUBSET Key]

LEMMA SourcesAre == Sources \in SUBSET Nat /\ ToTree \in Sources /\ \A i \in Sources : i <= ToTree
  BY DEF Sources

\* The first key from k on, or the end.
LEMMA AtOrAboveIs ==
  ASSUME Contents, NEW i \in Sources, NEW k \in Nat
  PROVE  /\ Stands(i, AtOrAbove(i, k))
         /\ AtOrAbove(i, k) \in 1..End
         /\ AtOrAbove(i, k) >= k \/ AtOrAbove(i, k) = End
         /\ \A j \in contents[i] : j >= k => AtOrAbove(i, k) <= j
<1> DEFINE S == {j \in contents[i] : j >= k} \cup {End}
<1>1. S \in SUBSET Nat /\ S # {} /\ contents[i] \subseteq Key
  BY DEF Contents
<1>2. Min(S) \in S /\ \A j \in S : Min(S) <= j
  BY <1>1, MinIs
<1>3. AtOrAbove(i, k) = Min(S)
  BY DEF AtOrAbove
<1>4. QED
  BY <1>1, <1>2, <1>3 DEF Stands

\* The last key up to k, or the end.
LEMMA MtreeUpperIs ==
  ASSUME Contents, NEW i \in Sources, NEW k \in Nat
  PROVE  Stands(i, MtreeUpper(i, k)) /\ MtreeUpper(i, k) \in 1..End
<1> DEFINE S == {j \in contents[i] : j <= k}
<1>1. S \in SUBSET (0..End) /\ contents[i] \subseteq Key /\ End \in Nat
  BY DEF Contents
<1>2. S # {} => Max(S) \in S
  BY <1>1, MaxIs
<1>3. MtreeUpper(i, k) = IF S = {} THEN End ELSE Max(S)
  BY DEF MtreeUpper
<1>4. QED
  BY <1>1, <1>2, <1>3 DEF Stands

\* Where lsm_prev moves a tree: to its last key below the item, and if there is
\* none to its first key.
LEMMA RetreatIs ==
  ASSUME Contents, NEW i \in Sources, key \in 1..End, Stands(i, keyi[i])
  PROVE  /\ Stands(i, Retreat(i)) /\ Retreat(i) \in 1..End
         /\ keyi[i] < key => Retreat(i) = keyi[i]
         /\ ~(keyi[i] < key) /\ Retreat(i) < key =>
              \A j \in contents[i] : j < key => j <= Retreat(i)
         /\ Retreat(i) >= key => \A j \in contents[i] : j >= key /\ j >= Retreat(i)
<1> DEFINE S == {j \in contents[i] : j < key}
<1>1. S \in SUBSET (0..End) /\ contents[i] \subseteq Key /\ End \in Nat
  BY DEF Contents
<1>2. S # {} => Max(S) \in S /\ \A j \in S : Max(S) >= j
  BY <1>1, MaxIs
<1>3. Retreat(i) = IF keyi[i] < key THEN keyi[i] ELSE IF S = {} THEN AtOrAbove(i, 1) ELSE Max(S)
  BY DEF Retreat
<1>4. keyi[i] \in 1..End
  BY <1>1 DEF Stands
<1>5. Stands(i, AtOrAbove(i, 1)) /\ AtOrAbove(i, 1) \in 1..End
      /\ \A j \in contents[i] : AtOrAbove(i, 1) <= j
  BY <1>1, AtOrAboveIs
<1>6. CASE keyi[i] < key
  BY <1>3, <1>4, <1>6
<1>7. CASE ~(keyi[i] < key) /\ S = {}
  BY <1>1, <1>3, <1>5, <1>7
<1>8. CASE ~(keyi[i] < key) /\ S # {}
  BY <1>1, <1>2, <1>3, <1>8 DEF Stands
<1>9. QED
  BY <1>6, <1>7, <1>8

\* Where lsm_next moves a tree: past the item.
LEMMA AdvanceIs ==
  ASSUME Contents, NEW i \in Sources, key \in 1..End, Stands(i, keyi[i])
  PROVE  /\ Stands(i, Advance(i)) /\ Advance(i) \in 1..End
         /\ Advance(i) > key \/ Advance(i) = End
         /\ keyi[i] > key => Advance(i) = keyi[i]
         /\ ~(keyi[i] > key) => \A j \in contents[i] : j > key => Advance(i) <= j
<1>1. contents[i] \subseteq Key
  BY DEF Contents
<1>2. key + 1 \in Nat /\ keyi[i] \in 1..End
  BY <1>1 DEF Stands
<1>3. \A j \in contents[i] : j > key => j >= key + 1
  BY <1>1
<1>4. QED
  BY <1>1, <1>2, <1>3, AtOrAboveIs DEF Advance

(***************************************************************************)
(* The item                                                                *)
(***************************************************************************)

\* Every tree stands where new says.
Placed(new) == new \in [Sources -> 1..End] /\ \A i \in Sources : Stands(i, new[i])

\* The item a tree delivers comes from the first tree that stands on it.
FirstOn(new, i) == i \in Sources /\ \A j \in Sources : new[j] = new[i] => i <= j

LEMMA NewestOnIs ==
  ASSUME NEW new, NEW i \in Sources
  PROVE  LET n == NewestOn(new, new[i]) IN FirstOn(new, n) /\ new[n] = new[i]
<1> DEFINE S == {j \in Sources : new[j] = new[i]}
<1>1. S \in SUBSET Nat /\ S # {}
  BY SourcesAre
<1>2. Min(S) \in S /\ \A j \in S : Min(S) <= j
  BY <1>1, MinIs
<1>3. NewestOn(new, new[i]) = Min(S)
  BY DEF NewestOn
<1>4. QED
  BY <1>2, <1>3 DEF FirstOn

\* lsm_set_the_smallest takes the least key any tree stands on.
LEMMA SmallestIs ==
  ASSUME NEW new, Placed(new), SetTheSmallest(new)
  PROVE  /\ key' \in 1..End
         /\ \A i \in Sources : key' <= new[i]
         /\ key' # End => FirstOn(new, src') /\ new[src'] = key'
         /\ key' = End => src' = 0
<1> DEFINE S == {new[i] : i \in Sources} \cup {End}
<1>1. S \in SUBSET Nat /\ S # {} /\ S \subseteq 1..End
  BY DEF Placed
<1>2. Min(S) \in S /\ \A j \in S : Min(S) <= j
  BY <1>1, MinIs
<1>3. key' = Min(S) /\ src' = IF key' = End THEN 0 ELSE NewestOn(new, key')
  BY DEF SetTheSmallest
<1>4. key' \in 1..End /\ \A i \in Sources : key' <= new[i]
  BY <1>1, <1>2, <1>3
<1>5. ASSUME key' # End PROVE FirstOn(new, src') /\ new[src'] = key'
  <2>1. PICK i \in Sources : new[i] = key'
    BY <1>2, <1>3, <1>5
  <2>2. src' = NewestOn(new, new[i])
    BY <1>3, <1>5, <2>1
  <2>3. QED
    BY <2>1, <2>2, NewestOnIs
<1>6. QED
  BY <1>3, <1>4, <1>5

\* lsm_set_prev takes the greatest key below the item.
LEMMA PreviousIs ==
  ASSUME NEW new, Placed(new), SetPrev(new), key \in 1..End,
         \E i \in Sources : new[i] < key
  PROVE  /\ key' \in 1..End /\ key' < key
         /\ \A i \in Sources : new[i] < key => new[i] <= key'
         /\ FirstOn(new, src') /\ new[src'] = key'
<1> DEFINE S == {new[i] : i \in {j \in Sources : new[j] < key}}
<1>1. S \in SUBSET (0..End) /\ S # {} /\ End \in Nat
  BY DEF Placed
<1>2. Max(S) \in S /\ \A j \in S : Max(S) >= j
  BY <1>1, MaxIs
<1>3. key' = Max(S) /\ src' = NewestOn(new, key')
  BY DEF SetPrev
<1>4. PICK i \in Sources : new[i] = key' /\ new[i] < key
  BY <1>2, <1>3
<1>5. FirstOn(new, src') /\ new[src'] = key'
  BY <1>3, <1>4, NewestOnIs
<1>6. QED
  BY <1>1, <1>2, <1>3, <1>4, <1>5 DEF Placed

(***************************************************************************)
(* Type correctness                                                        *)
(***************************************************************************)

\* What the calls are named and return.
Named(name, k) == <<name, k>> \in Cursor!Calls

USE DEF Named

LEMMA TypeFacts ==
  ASSUME TypeOK
  PROVE  Contents /\ key \in 1..End /\ \A i \in Sources : Stands(i, keyi[i]) /\ keyi[i] \in 1..End
  BY DEF TypeOK, Contents, Stands

\* A call that succeeds with a new item.
LEMMA SucceedsTyped ==
  ASSUME TypeOK, NEW new, Placed(new), NEW name, NEW k, Named(name, k), NEW result \in Cursor!Results,
         Succeeds(new, name, k, result), astray' \in BOOLEAN,
         \/ SetTheSmallest(new)
         \/ SetPrev(new) /\ \E i \in Sources : new[i] < key
         \/ UNCHANGED <<key, src>>
  PROVE  TypeOK'
<1>1. /\ keyi' = new /\ contents' = contents /\ ready' = TRUE
      /\ call' = <<name, k>> /\ rc' = result
  BY DEF Succeeds, Returns
<1>2. \A i \in Sources : keyi'[i] \in contents'[i] \cup {End}
  BY <1>1 DEF Placed, Stands
<1>3. /\ key' \in 1..End /\ src' \in 0..ToTree
      /\ key' # End => src' \in Sources /\ key' \in contents[src']
  <2> DEFINE Good == /\ key' \in 1..End
                     /\ key' # End => src' \in Sources /\ new[src'] = key'
                     /\ key' = End => src' = 0
  <2>a. ASSUME Good
        PROVE  /\ key' \in 1..End /\ src' \in 0..ToTree
               /\ key' # End => src' \in Sources /\ key' \in contents[src']
    <3>1. 0 \in 0..ToTree /\ \A i \in Sources : i \in 0..ToTree
      BY SourcesAre
    <3>2. key' # End => key' \in contents[src']
      BY <2>a DEF Placed, Stands
    <3>3. QED
      BY <2>a, <3>1, <3>2
  <2>1. CASE SetTheSmallest(new)
    <3>1. Good
      BY <2>1, SmallestIs DEF FirstOn
    <3>2. QED
      BY <3>1, <2>a
  <2>2. CASE SetPrev(new) /\ \E i \in Sources : new[i] < key
    <3>1. Good
      BY <2>2, PreviousIs, TypeFacts DEF FirstOn
    <3>2. QED
      BY <3>1, <2>a
  <2>3. CASE UNCHANGED <<key, src>>
    BY <2>3 DEF TypeOK
  <2>4. QED
    BY <2>1, <2>2, <2>3
<1>4. QED
  BY <1>1, <1>2, <1>3 DEF TypeOK

\* A call that fails at one of the trees.
LEMMA FailsAtTyped ==
  ASSUME TypeOK, NEW new, Placed(new), NEW name, NEW k, Named(name, k),
         NEW f, FailsAt(f, new, name, k)
  PROVE  TypeOK'
<1>1. \A i \in Sources : keyi'[i] = IF i < f THEN new[i] ELSE keyi[i]
  BY DEF FailsAt
<1>2. /\ contents' = contents /\ key' = key /\ src' = src
      /\ ready' = FALSE /\ astray' = FALSE /\ call' = <<name, k>> /\ rc' = "error"
  BY DEF FailsAt, Fails, Returns
<1>3. \A i \in Sources : keyi'[i] \in contents'[i] \cup {End}
  BY <1>1, <1>2 DEF TypeOK, Placed, Stands
<1>4. "error" \in Cursor!Results
  BY DEF Cursor!Results
<1>5. QED
  BY <1>2, <1>3, <1>4 DEF TypeOK

\* A call that fails to make room for the item.
LEMMA FailsToCopyTyped ==
  ASSUME TypeOK, NEW new, Placed(new), NEW name, NEW k, Named(name, k), FailsToCopy(new, name, k)
  PROVE  TypeOK'
<1>1. /\ contents' = contents /\ keyi' = new /\ key' = End /\ src' = 0
      /\ ready' = FALSE /\ astray' = FALSE /\ call' = <<name, k>> /\ rc' = "error"
  BY DEF FailsToCopy, Fails, Returns
<1>2. "error" \in Cursor!Results
  BY DEF Cursor!Results
<1>3. 0 \in 0..ToTree /\ End \in 1..End /\ \A i \in Sources : new[i] \in contents[i] \cup {End}
  BY DEF Placed, Stands
<1>4. QED
  BY <1>1, <1>2, <1>3 DEF TypeOK

\* A call that fails before anything has changed.
LEMMA FailsEarlyTyped ==
  ASSUME TypeOK, NEW name, Named(name, 0), FailsEarly(name)
  PROVE  TypeOK'
<1>1. /\ contents' = contents /\ keyi' = keyi /\ key' = key /\ src' = src
      /\ ready' = FALSE /\ astray' = FALSE /\ call' = <<name, 0>> /\ rc' = "error"
  BY DEF FailsEarly, Fails, Returns
<1>2. "error" \in Cursor!Results
  BY DEF Cursor!Results
<1>3. QED
  BY <1>1, <1>2 DEF TypeOK

\* Where a call takes the trees.
FirstFrom(k) == [i \in Sources |-> AtOrAbove(i, k)]
AllEnd == [i \in Sources |-> End]
Uppers(k) == [i \in Sources |-> UpperOf(i, k)]
Advanced == [i \in Sources |-> Advance(i)]
Retreated == [i \in Sources |-> Retreat(i)]

LEMMA PlacesAre ==
  ASSUME TypeOK
  PROVE  /\ \A k \in Nat : Placed(FirstFrom(k)) /\ Placed(Uppers(k))
         /\ Placed(AllEnd) /\ Placed(Advanced) /\ Placed(Retreated)
<1>1. Contents /\ key \in 1..End /\ \A i \in Sources : Stands(i, keyi[i])
  BY TypeFacts
<1>2. ASSUME NEW k \in Nat PROVE Placed(FirstFrom(k)) /\ Placed(Uppers(k))
  <2>1. \A i \in Sources : Stands(i, AtOrAbove(i, k)) /\ AtOrAbove(i, k) \in 1..End
    BY <1>1, AtOrAboveIs
  <2>2. k + 1 \in Nat
    OBVIOUS
  <2>3. \A i \in Sources : Stands(i, AtOrAbove(i, k + 1)) /\ AtOrAbove(i, k + 1) \in 1..End
    BY <1>1, <2>2, AtOrAboveIs
  <2>4. \A i \in Sources : Stands(i, MtreeUpper(i, k)) /\ MtreeUpper(i, k) \in 1..End
    BY <1>1, MtreeUpperIs
  <2>5. QED
    BY <2>1, <2>3, <2>4 DEF Placed, FirstFrom, Uppers, UpperOf
<1>3. Placed(AllEnd)
  BY DEF Placed, AllEnd, Stands
<1>4. Placed(Advanced)
  BY <1>1, AdvanceIs DEF Placed, Advanced
<1>5. Placed(Retreated)
  BY <1>1, RetreatIs DEF Placed, Retreated
<1>6. QED
  BY <1>2, <1>3, <1>4, <1>5

LEMMA Names ==
  /\ Named("begin", 0) /\ Named("end", 0) /\ Named("next", 0) /\ Named("prev", 0)
  /\ \A k \in Key : Named("lower_bound", k) /\ Named("upper_bound", k) /\ Named("lookup", k)
  /\ {"ok", "enoent", "found", "absent"} \subseteq Cursor!Results
<1>1. Cursor!Key = Key
  BY DEF Cursor!Key
<1>2. Named("begin", 0) /\ Named("end", 0) /\ Named("next", 0) /\ Named("prev", 0)
  BY DEF Cursor!Calls
<1>3. \A k \in Key : Named("lower_bound", k) /\ Named("upper_bound", k) /\ Named("lookup", k)
  BY <1>1 DEF Cursor!Calls
<1>4. QED
  BY <1>2, <1>3 DEF Cursor!Results

\* A tree stands on a key it has or at its end, and the item is one of the tree
\* it comes from.
THEOREM IterTypeCorrect == Spec => []TypeOK
<1>1. ASSUME Init PROVE TypeOK
  <2>1. <<"setup", 0>> \in Cursor!Calls /\ "ok" \in Cursor!Results
    BY DEF Cursor!Calls, Cursor!Results
  <2>2. 0 \in 0..ToTree /\ End \in 1..End
    OBVIOUS
  <2>3. QED
    BY <1>1, <2>1, <2>2 DEF Init, TypeOK
<1>2. ASSUME TypeOK, [Next]_vars PROVE TypeOK'
  <2> USE TypeOK, PlacesAre, Names
  <2> USE DEF FailsAtTree
  <2>1. CASE LsmBegin
    <3>1. \/ SetTheSmallest(FirstFrom(1)) /\ Succeeds(FirstFrom(1), "begin", 0, "ok") /\ astray' = FALSE
          \/ FailsEarly("begin")
          \/ FailsToCopy(FirstFrom(1), "begin", 0)
      BY <2>1 DEF LsmBegin, FirstFrom
    <3>2. QED
      BY <3>1, SucceedsTyped, FailsEarlyTyped, FailsToCopyTyped
  <2>2. CASE LsmEnd
    <3>1. \/ Succeeds(AllEnd, "end", 0, "ok") /\ astray' \in BOOLEAN /\ UNCHANGED <<key, src>>
          \/ FailsEarly("end")
      BY <2>2 DEF LsmEnd, AllEnd
    <3>2. QED
      BY <3>1, SucceedsTyped, FailsEarlyTyped
  <2>3. ASSUME NEW k \in Key, LsmLowerBound(k) PROVE TypeOK'
    <3>1. \/ /\ SetTheSmallest(FirstFrom(k)) /\ Succeeds(FirstFrom(k), "lower_bound", k, "ok")
             /\ astray' = FALSE
          \/ \E f \in Disk : FailsAt(f, FirstFrom(k), "lower_bound", k)
          \/ FailsToCopy(FirstFrom(k), "lower_bound", k)
      BY <2>3 DEF LsmLowerBound, FirstFrom
    <3>2. Placed(FirstFrom(k)) /\ Named("lower_bound", k) /\ "ok" \in Cursor!Results
      BY k \in Nat
    <3>3. QED
      BY ONLY TypeOK, <3>1, <3>2, SucceedsTyped, FailsAtTyped, FailsToCopyTyped
  <2>4. ASSUME NEW k \in Key, LsmUpperBound(k) PROVE TypeOK'
    <3>1. \/ /\ SetTheSmallest(Uppers(k)) /\ Succeeds(Uppers(k), "upper_bound", k, "ok")
             /\ astray' \in BOOLEAN
          \/ \E f : FailsAt(f, Uppers(k), "upper_bound", k)
          \/ FailsToCopy(Uppers(k), "upper_bound", k)
      BY <2>4 DEF LsmUpperBound, Uppers
    <3>2. Placed(Uppers(k)) /\ Named("upper_bound", k) /\ "ok" \in Cursor!Results
      BY k \in Nat
    <3>3. QED
      BY ONLY TypeOK, <3>1, <3>2, SucceedsTyped, FailsAtTyped, FailsToCopyTyped
  <2>5. ASSUME NEW k \in Key, LsmLookup(k) PROVE TypeOK'
    <3>1. \/ /\ SetTheSmallest(FirstFrom(k)) /\ astray' = FALSE
             /\ \E r \in {"found", "absent"} : Succeeds(FirstFrom(k), "lookup", k, r)
          \/ \E f \in Disk : FailsAt(f, FirstFrom(k), "lookup", k)
          \/ FailsToCopy(FirstFrom(k), "lookup", k)
      BY <2>5 DEF LsmLookup, FirstFrom
    <3>2. Placed(FirstFrom(k)) /\ Named("lookup", k) /\ {"found", "absent"} \subseteq Cursor!Results
      BY k \in Nat
    <3>3. QED
      BY ONLY TypeOK, <3>1, <3>2, SucceedsTyped, FailsAtTyped, FailsToCopyTyped
  <2>6. CASE LsmNext
    <3>1. \/ Returns("next", 0, "enoent") /\ UNCHANGED <<contents, keyi, key, src, ready, astray>>
          \/ /\ SetTheSmallest(Advanced) /\ astray' = astray
             /\ \E r \in {"ok", "enoent"} : Succeeds(Advanced, "next", 0, r)
          \/ \E f \in Disk : FailsAt(f, Advanced, "next", 0)
          \/ FailsToCopy(Advanced, "next", 0)
      BY <2>6 DEF LsmNext, Advanced
    <3>2. CASE Returns("next", 0, "enoent") /\ UNCHANGED <<contents, keyi, key, src, ready, astray>>
      BY <3>2 DEF TypeOK, Returns
    <3>3. astray \in BOOLEAN
      BY DEF TypeOK
    <3>4. QED
      BY <3>1, <3>2, <3>3, SucceedsTyped, FailsAtTyped, FailsToCopyTyped
  <2>7. CASE LsmPrev
    <3>1. \/ /\ SetPrev(Retreated) /\ \E i \in Sources : Retreated[i] < key
             /\ Succeeds(Retreated, "prev", 0, "ok") /\ astray' = astray
          \/ Succeeds(Retreated, "prev", 0, "enoent") /\ UNCHANGED <<key, src, astray>>
          \/ \E f \in Disk : FailsAt(f, Retreated, "prev", 0)
          \/ FailsToCopy(Retreated, "prev", 0)
      BY <2>7 DEF LsmPrev, Retreated
    <3>2. astray \in BOOLEAN
      BY DEF TypeOK
    <3>3. QED
      BY <3>1, <3>2, SucceedsTyped, FailsAtTyped, FailsToCopyTyped
  <2>8. CASE UNCHANGED vars
    BY <2>8 DEF vars, TypeOK
  <2>9. QED
    BY <1>2, <2>1, <2>2, <2>3, <2>4, <2>5, <2>6, <2>7, <2>8 DEF Next
<1>3. QED
  BY <1>1, <1>2, PTL DEF Spec

(***************************************************************************)
(* The trees stay in step                                                  *)
(***************************************************************************)

\* No tree that stands where new says has a key strictly between a and its place.
Gapless(new, a) ==
  \A i \in Sources : \A j \in contents[i] :
    ~(a < j /\ j < new[i]) /\ ~(new[i] < j /\ j < a)

\* Tree n is the newest that has the key a.
Newest(a, n) ==
  a # End => /\ n \in Sources /\ a \in contents[n]
             /\ \A i \in Sources : a \in contents[i] => n <= i

\* a is the least key of all the trees from k on.
LeastFrom(k, a) ==
  /\ a \in 1..End
  /\ a # End => a >= k /\ \E i \in Sources : a \in contents[i]
  /\ \A i \in Sources : \A j \in contents[i] : j >= k => a <= j

\* a is the greatest key of all the trees below k.
GreatestBelow(k, a) ==
  /\ a \in 1..KeyCount /\ a < k
  /\ \E i \in Sources : a \in contents[i]
  /\ \A i \in Sources : \A j \in contents[i] : j < k => j <= a

\* The item is the value the newest tree has for the key.
ItemIsNewest == ready /\ ~astray => Newest(key, src)

IterInv == TypeOK /\ PositionsInStep /\ ItemIsNewest

\* The positioning calls: every tree goes to its first key from k on.
LEMMA SeekSettles ==
  ASSUME TypeOK, NEW k \in Nat, SetTheSmallest(FirstFrom(k))
  PROVE  Gapless(FirstFrom(k), key') /\ LeastFrom(k, key') /\ Newest(key', src')
<1> DEFINE new == FirstFrom(k)
<1>1. Contents /\ \A i \in Sources : contents[i] \subseteq Key
  BY TypeFacts DEF Contents
<1>2. \A i \in Sources : /\ new[i] \in contents[i] \cup {End} /\ new[i] \in 1..End
                         /\ new[i] # End => new[i] >= k
                         /\ \A j \in contents[i] : j >= k => new[i] <= j
  BY <1>1, AtOrAboveIs DEF FirstFrom, Stands
<1>3. /\ key' \in 1..End /\ \A i \in Sources : key' <= new[i]
      /\ key' # End => FirstOn(new, src') /\ new[src'] = key'
  BY PlacesAre, SmallestIs
<1> HIDE DEF new
<1>4. key' # End => key' >= k /\ src' \in Sources /\ key' \in contents[src']
  BY <1>2, <1>3 DEF FirstOn
<1>5. \A i \in Sources : \A j \in contents[i] : j >= k => key' <= j
  BY <1>1, <1>2, <1>3
<1>6. LeastFrom(k, key')
  BY <1>3, <1>4, <1>5 DEF LeastFrom
<1>7. Gapless(new, key')
  BY <1>1, <1>2, <1>3, <1>4 DEF Gapless
<1>8. ASSUME key' # End, NEW i \in Sources, key' \in contents[i] PROVE new[i] = key'
  BY <1>2, <1>3, <1>4, <1>8
<1>9. Newest(key', src')
  BY <1>3, <1>4, <1>8 DEF Newest, FirstOn
<1>10. QED
  BY <1>6, <1>7, <1>9 DEF new

\* lsm_next: the trees that are behind go to their first key past the item, and
\* one that is ahead has no key between the item and its place.
LEMMA NextSettles ==
  ASSUME TypeOK, Gapless(keyi, key), key # End, SetTheSmallest(Advanced)
  PROVE  Gapless(Advanced, key') /\ LeastFrom(key + 1, key') /\ Newest(key', src')
<1> DEFINE new == Advanced
<1>1. Contents /\ key \in 1..End /\ \A i \in Sources : contents[i] \subseteq Key
  BY TypeFacts DEF Contents
<1>2. \A i \in Sources : /\ new[i] \in contents[i] \cup {End} /\ new[i] \in 1..End
                         /\ new[i] > key
                         /\ \A j \in contents[i] : j > key => new[i] <= j
  <2> TAKE i \in Sources
  <2>1. /\ Stands(i, Advance(i)) /\ Advance(i) \in 1..End
        /\ Advance(i) > key \/ Advance(i) = End
        /\ keyi[i] > key => Advance(i) = keyi[i]
        /\ ~(keyi[i] > key) => \A j \in contents[i] : j > key => Advance(i) <= j
    BY TypeFacts, AdvanceIs
  <2>2. \A j \in contents[i] : ~(key < j /\ j < keyi[i])
    BY DEF Gapless
  <2>3. keyi[i] \in 1..End
    BY TypeFacts
  <2>4. ASSUME NEW j \in contents[i], j > key PROVE Advance(i) <= j
    BY <1>1, <2>1, <2>2, <2>3, <2>4
  <2>5. QED
    BY <1>1, <2>1, <2>4 DEF Advanced, Stands
<1>3. /\ key' \in 1..End /\ \A i \in Sources : key' <= new[i]
      /\ key' # End => FirstOn(new, src') /\ new[src'] = key'
  BY PlacesAre, SmallestIs
<1> HIDE DEF new
<1>4. key' # End => key' > key /\ src' \in Sources /\ key' \in contents[src']
  BY <1>2, <1>3 DEF FirstOn
<1>5. \A i \in Sources : \A j \in contents[i] : j >= key + 1 => key' <= j
  BY <1>1, <1>2, <1>3
<1>6. LeastFrom(key + 1, key')
  BY <1>1, <1>3, <1>4, <1>5 DEF LeastFrom
<1>7. Gapless(new, key')
  BY <1>1, <1>2, <1>3, <1>4 DEF Gapless
<1>8. ASSUME key' # End, NEW i \in Sources, key' \in contents[i] PROVE new[i] = key'
  BY <1>2, <1>3, <1>4, <1>8
<1>9. Newest(key', src')
  BY <1>3, <1>4, <1>8 DEF Newest, FirstOn
<1>10. QED
  BY <1>6, <1>7, <1>9 DEF new

\* Where lsm_prev leaves a tree: below the item on its last key there, or, with
\* no key below the item, on its first key.
LEMMA RetreatedIs ==
  ASSUME TypeOK, Gapless(keyi, key), NEW i \in Sources
  PROVE  /\ Retreated[i] \in contents[i] \cup {End} /\ Retreated[i] \in 1..End
         /\ Retreated[i] < key => \A j \in contents[i] : j < key => j <= Retreated[i]
         /\ ~(Retreated[i] < key) => \A j \in contents[i] : j >= key /\ j >= Retreated[i]
<1>1. Contents /\ key \in 1..End /\ contents[i] \subseteq Key /\ keyi[i] \in 1..End
  BY TypeFacts DEF Contents
<1>2. /\ Stands(i, Retreat(i)) /\ Retreat(i) \in 1..End
      /\ keyi[i] < key => Retreat(i) = keyi[i]
      /\ ~(keyi[i] < key) /\ Retreat(i) < key =>
           \A j \in contents[i] : j < key => j <= Retreat(i)
      /\ Retreat(i) >= key => \A j \in contents[i] : j >= key /\ j >= Retreat(i)
  BY TypeFacts, RetreatIs
<1>3. \A j \in contents[i] : ~(keyi[i] < j /\ j < key)
  BY DEF Gapless
<1>4. Retreat(i) < key => \A j \in contents[i] : j < key => j <= Retreat(i)
  BY <1>1, <1>2, <1>3
<1>5. QED
  BY <1>1, <1>2, <1>4 DEF Retreated, Stands

\* lsm_prev that finds a key below the item.
LEMMA PrevSettles ==
  ASSUME TypeOK, Gapless(keyi, key), SetPrev(Retreated), \E i \in Sources : Retreated[i] < key
  PROVE  Gapless(Retreated, key') /\ GreatestBelow(key, key') /\ Newest(key', src')
<1> DEFINE new == Retreated
<1>1. key \in 1..End /\ \A i \in Sources : contents[i] \subseteq Key
  BY TypeFacts DEF Contents
<1>2. \A i \in Sources :
        /\ new[i] \in contents[i] \cup {End} /\ new[i] \in 1..End
        /\ new[i] < key => \A j \in contents[i] : j < key => j <= new[i]
        /\ ~(new[i] < key) => \A j \in contents[i] : j >= key /\ j >= new[i]
  BY RetreatedIs
<1>3. /\ key' \in 1..End /\ key' < key
      /\ \A i \in Sources : new[i] < key => new[i] <= key'
      /\ FirstOn(new, src') /\ new[src'] = key'
  BY <1>1, PlacesAre, PreviousIs
<1> HIDE DEF new
<1>4. src' \in Sources /\ key' \in contents[src'] /\ key' \in 1..KeyCount
  BY <1>1, <1>2, <1>3 DEF FirstOn
<1>5. \A i \in Sources : \A j \in contents[i] : j < key => j <= key'
  BY <1>1, <1>2, <1>3
<1>6. GreatestBelow(key, key')
  BY <1>3, <1>4, <1>5 DEF GreatestBelow
<1>7. Gapless(new, key')
  BY <1>1, <1>2, <1>3 DEF Gapless
<1>8. ASSUME NEW i \in Sources, key' \in contents[i] PROVE new[i] = key'
  <2>1. new[i] < key
    BY <1>1, <1>2, <1>3, <1>8
  <2>2. key' <= new[i] /\ new[i] <= key'
    BY <1>2, <1>3, <1>8, <2>1
  <2>3. QED
    BY <1>2, <1>3, <2>2
<1>9. Newest(key', src')
  BY <1>3, <1>4, <1>8 DEF Newest, FirstOn
<1>10. QED
  BY <1>6, <1>7, <1>9 DEF new

\* lsm_prev that finds none: every tree stands on its first key, from the item on.
LEMMA NoPrevSettles ==
  ASSUME TypeOK, Gapless(keyi, key), ~ \E i \in Sources : Retreated[i] < key
  PROVE  Gapless(Retreated, key) /\ \A i \in Sources : \A j \in contents[i] : j >= key
<1>1. key \in 1..End /\ \A i \in Sources : contents[i] \subseteq Key
  BY TypeFacts DEF Contents
<1>2. \A i \in Sources : /\ Retreated[i] \in 1..End
                         /\ \A j \in contents[i] : j >= key /\ j >= Retreated[i]
  BY RetreatedIs
<1>3. QED
  BY <1>1, <1>2 DEF Gapless

\* The trees are in step and the item is the newest value of its key.
Settled == Gapless(keyi, key) /\ Newest(key, src)

MovesTo(name, k, result) ==
  /\ contents' = contents
  /\ ready' = TRUE /\ astray' = FALSE
  /\ call' = <<name, k>> /\ rc' = result
  /\ Settled'

LEMMA MovesToIs ==
  ASSUME NEW new, NEW name, NEW k, NEW result, Succeeds(new, name, k, result),
         astray' = FALSE, Gapless(new, key'), Newest(key', src')
  PROVE  MovesTo(name, k, result)
BY DEF Succeeds, Returns, MovesTo, Settled, Gapless, Newest

\* An error, or the loose ends and upper bounds, and what follows them.
Strays ==
  /\ contents' = contents
  /\ ~(ready' /\ ~astray')
  /\ ready /\ ~astray => rc' = "error" \/ call'[1] \in {"end", "upper_bound"}

\* What lsm_next and lsm_prev do when the trees are in step.
StepsUp ==
  \/ key = End /\ key' = key /\ MovesTo("next", 0, "enoent")
  \/ /\ key # End /\ LeastFrom(key + 1, key')
     /\ MovesTo("next", 0, IF key' = End THEN "enoent" ELSE "ok")

StepsDown ==
  \/ GreatestBelow(key, key') /\ MovesTo("prev", 0, "ok")
  \/ /\ \A i \in Sources : \A j \in contents[i] : j >= key
     /\ key' = key /\ MovesTo("prev", 0, "enoent")

\* What a positioning call does.
Seeks(k) ==
  \/ MovesTo("lower_bound", k, "ok") /\ LeastFrom(k, key')
  \/ MovesTo("upper_bound", k, "ok") /\ LeastFrom(k + 1, key')
  \/ MovesTo("lookup", k, IF key' = k THEN "found" ELSE "absent") /\ LeastFrom(k, key')

Effect ==
  \/ MovesTo("begin", 0, "ok") /\ LeastFrom(1, key')
  \/ MovesTo("end", 0, "ok") /\ key' = End
  \/ \E k \in Key : Seeks(k)
  \/ ready /\ ~astray /\ (StepsUp \/ StepsDown)
  \/ Strays

LEMMA FailsStrays ==
  ASSUME NEW name, NEW k, Fails(name, k)
  PROVE  Strays
BY DEF Fails, Returns, Strays

\* Every step of the iterator is one of these.
LEMMA StepIs ==
  ASSUME IterInv, Next
  PROVE  Effect
<1> USE DEF FailsAtTree, FailsAt, FailsToCopy, FailsEarly
<1>1. TypeOK /\ key \in 1..End /\ ready \in BOOLEAN /\ astray \in BOOLEAN
  BY TypeFacts DEF IterInv, TypeOK
<1>2. ready /\ ~astray => Settled
  BY DEF IterInv, PositionsInStep, ItemIsNewest, Settled, Gapless
<1>3. CASE LsmBegin
  <2>1. \/ SetTheSmallest(FirstFrom(1)) /\ Succeeds(FirstFrom(1), "begin", 0, "ok") /\ astray' = FALSE
        \/ Fails("begin", 0)
    BY <1>3 DEF LsmBegin, FirstFrom
  <2>2. CASE SetTheSmallest(FirstFrom(1)) /\ Succeeds(FirstFrom(1), "begin", 0, "ok") /\ astray' = FALSE
    BY <1>1, <2>2, SeekSettles, MovesToIs DEF Effect
  <2>3. QED
    BY <2>1, <2>2, FailsStrays DEF Effect
<1>4. CASE LsmEnd
  <2>1. \/ /\ Succeeds(AllEnd, "end", 0, "ok") /\ astray' = (key # End)
           /\ key' = key /\ src' = src
        \/ Fails("end", 0)
    BY <1>4 DEF LsmEnd, AllEnd
  <2>2. CASE Succeeds(AllEnd, "end", 0, "ok") /\ astray' = FALSE /\ key' = key /\ key = End
    <3>1. \A i \in Sources : contents[i] \subseteq Key
      BY <1>1, TypeFacts DEF Contents
    <3>2. Gapless(AllEnd, key') /\ Newest(key', src')
      BY <3>1, <2>2 DEF Gapless, Newest, AllEnd
    <3>3. QED
      BY <2>2, <3>2, MovesToIs DEF Effect
  <2>3. CASE Succeeds(AllEnd, "end", 0, "ok") /\ astray' = TRUE
    <3>1. Strays
      BY <2>3 DEF Succeeds, Returns, Strays
    <3>2. QED
      BY <3>1 DEF Effect
  <2>4. QED
    BY <2>1, <2>2, <2>3, FailsStrays DEF Effect
<1>5. ASSUME NEW k \in Key, LsmLowerBound(k) PROVE Effect
  <2>1. \/ /\ SetTheSmallest(FirstFrom(k)) /\ Succeeds(FirstFrom(k), "lower_bound", k, "ok")
           /\ astray' = FALSE
        \/ Fails("lower_bound", k)
    BY <1>5 DEF LsmLowerBound, FirstFrom
  <2>2. CASE /\ SetTheSmallest(FirstFrom(k)) /\ Succeeds(FirstFrom(k), "lower_bound", k, "ok")
             /\ astray' = FALSE
    <3>1. LeastFrom(k, key') /\ MovesTo("lower_bound", k, "ok")
      BY <1>1, <2>2, k \in Nat, SeekSettles, MovesToIs
    <3>2. QED
      BY <3>1 DEF Effect, Seeks
  <2>3. QED
    BY <2>1, <2>2, FailsStrays DEF Effect
<1>6. ASSUME NEW k \in Key, LsmUpperBound(k) PROVE Effect
  <2>1. \/ /\ SetTheSmallest(Uppers(k)) /\ Succeeds(Uppers(k), "upper_bound", k, "ok")
           /\ astray' = (\E i \in Sources : Uppers(k)[i] # AtOrAbove(i, k + 1))
        \/ Fails("upper_bound", k)
    BY <1>6 DEF LsmUpperBound, Uppers
  <2>2. CASE /\ SetTheSmallest(Uppers(k)) /\ Succeeds(Uppers(k), "upper_bound", k, "ok")
             /\ astray' = FALSE /\ \A i \in Sources : Uppers(k)[i] = AtOrAbove(i, k + 1)
    <3>1. Uppers(k) = FirstFrom(k + 1) /\ k + 1 \in Nat
      BY <2>2 DEF Uppers, FirstFrom
    <3>2. LeastFrom(k + 1, key') /\ MovesTo("upper_bound", k, "ok")
      BY <1>1, <2>2, <3>1, SeekSettles, MovesToIs
    <3>3. QED
      BY <3>2 DEF Effect, Seeks
  <2>3. CASE Succeeds(Uppers(k), "upper_bound", k, "ok") /\ astray' = TRUE
    <3>1. Strays
      BY <2>3 DEF Succeeds, Returns, Strays
    <3>2. QED
      BY <3>1 DEF Effect
  <2>4. QED
    BY <2>1, <2>2, <2>3, FailsStrays DEF Effect
<1>7. ASSUME NEW k \in Key, LsmLookup(k) PROVE Effect
  <2> DEFINE result == IF key' = k THEN "found" ELSE "absent"
  <2>1. \/ /\ SetTheSmallest(FirstFrom(k)) /\ astray' = FALSE
           /\ Succeeds(FirstFrom(k), "lookup", k, result)
        \/ Fails("lookup", k)
    BY <1>7 DEF LsmLookup, FirstFrom
  <2>2. CASE /\ SetTheSmallest(FirstFrom(k)) /\ astray' = FALSE
             /\ Succeeds(FirstFrom(k), "lookup", k, result)
    <3> HIDE DEF result
    <3>1. LeastFrom(k, key') /\ MovesTo("lookup", k, result)
      BY <1>1, <2>2, k \in Nat, SeekSettles, MovesToIs
    <3>2. QED
      BY <3>1 DEF Effect, Seeks, result
  <2>3. QED
    BY <2>1, <2>2, FailsStrays DEF Effect
<1>8. CASE LsmNext
  <2> DEFINE result == IF key' = End THEN "enoent" ELSE "ok"
  <2>1. \/ /\ key = End /\ Returns("next", 0, "enoent")
           /\ UNCHANGED <<contents, keyi, key, src, ready, astray>>
        \/ /\ key # End /\ SetTheSmallest(Advanced) /\ Succeeds(Advanced, "next", 0, result)
           /\ astray' = astray
        \/ Fails("next", 0)
    BY <1>8 DEF LsmNext, Advanced
  <2>2. CASE ready /\ astray /\ astray' = astray /\ contents' = contents
    <3>1. Strays
      BY <2>2 DEF Strays
    <3>2. QED
      BY <3>1 DEF Effect
  <2>3. CASE /\ ready /\ ~astray /\ key = End /\ Returns("next", 0, "enoent")
             /\ UNCHANGED <<contents, keyi, key, src, ready, astray>>
    <3>1. Settled'
      BY <1>2, <2>3 DEF Settled, Gapless, Newest
    <3>2. MovesTo("next", 0, "enoent")
      BY <1>1, <2>3, <3>1 DEF MovesTo, Returns
    <3>3. QED
      BY <2>3, <3>2 DEF Effect, StepsUp
  <2>4. CASE /\ ready /\ ~astray /\ key # End /\ SetTheSmallest(Advanced)
             /\ Succeeds(Advanced, "next", 0, result) /\ astray' = astray
    <3> HIDE DEF result
    <3>1. LeastFrom(key + 1, key') /\ MovesTo("next", 0, result)
      BY <1>1, <1>2, <2>4, NextSettles, MovesToIs DEF Settled
    <3>2. QED
      BY <2>4, <3>1 DEF Effect, StepsUp, result
  <2>5. QED
    BY <1>1, <1>8, <2>1, <2>2, <2>3, <2>4, FailsStrays DEF Effect, LsmNext, Succeeds
<1>9. CASE LsmPrev
  <2> DEFINE moved == \E i \in Sources : Retreated[i] < key
  <2>1. \/ moved /\ SetPrev(Retreated) /\ Succeeds(Retreated, "prev", 0, "ok") /\ astray' = astray
        \/ /\ ~moved /\ Succeeds(Retreated, "prev", 0, "enoent")
           /\ key' = key /\ src' = src /\ astray' = astray
        \/ Fails("prev", 0)
    BY <1>9 DEF LsmPrev, Retreated
  <2>2. CASE ready /\ astray /\ astray' = astray /\ contents' = contents
    <3>1. Strays
      BY <2>2 DEF Strays
    <3>2. QED
      BY <3>1 DEF Effect
  <2>3. CASE /\ ready /\ ~astray /\ moved /\ SetPrev(Retreated)
             /\ Succeeds(Retreated, "prev", 0, "ok") /\ astray' = astray
    <3>1. GreatestBelow(key, key') /\ MovesTo("prev", 0, "ok")
      BY <1>1, <1>2, <2>3, PrevSettles, MovesToIs DEF Settled
    <3>2. QED
      BY <2>3, <3>1 DEF Effect, StepsDown
  <2>4. CASE /\ ready /\ ~astray /\ ~moved /\ Succeeds(Retreated, "prev", 0, "enoent")
             /\ key' = key /\ src' = src /\ astray' = astray
    <3>1. Gapless(Retreated, key) /\ \A i \in Sources : \A j \in contents[i] : j >= key
      BY <1>1, <1>2, <2>4, NoPrevSettles DEF Settled
    <3>2. Gapless(Retreated, key') /\ Newest(key', src') /\ astray' = FALSE
      BY <1>1, <1>2, <2>4, <3>1 DEF Settled
    <3>3. MovesTo("prev", 0, "enoent")
      BY <2>4, <3>2, MovesToIs
    <3>4. QED
      BY <2>4, <3>1, <3>3 DEF Effect, StepsDown
  <2>5. QED
    BY <1>1, <1>9, <2>1, <2>2, <2>3, <2>4, FailsStrays DEF Effect, LsmPrev, Succeeds
<1>10. QED
  BY <1>3, <1>4, <1>5, <1>6, <1>7, <1>8, <1>9 DEF Next

LEMMA EffectSettles ==
  ASSUME Effect, ready' /\ ~astray'
  PROVE  Settled'
<1>1. Settled' \/ Strays
  BY DEF Effect, Seeks, StepsUp, StepsDown, MovesTo
<1>2. QED
  BY <1>1 DEF Strays

LEMMA IterInvHolds == Spec => []IterInv
<1>1. ASSUME Init PROVE PositionsInStep /\ ItemIsNewest
  BY <1>1 DEF Init, PositionsInStep, ItemIsNewest
<1>2. ASSUME IterInv, [Next]_vars, TypeOK' PROVE IterInv'
  <2>1. CASE Next
    <3>1. ready' /\ ~astray' => Settled'
      BY <1>2, <2>1, StepIs, EffectSettles
    <3>2. PositionsInStep' /\ ItemIsNewest'
      BY <3>1 DEF Settled, Gapless, PositionsInStep, ItemIsNewest
    <3>3. QED
      BY <1>2, <3>2 DEF IterInv
  <2>2. CASE UNCHANGED vars
    BY <1>2, <2>2 DEF vars, IterInv, PositionsInStep, ItemIsNewest, Newest
  <2>3. QED
    BY <1>2, <2>1, <2>2
<1>3. QED
  BY <1>1, <1>2, IterTypeCorrect, PTL DEF Spec, IterInv

\* Whatever sequence of calls has brought the trees where they stand, none has a
\* key strictly between the item and its own place.
THEOREM StaysInStep == Spec => []PositionsInStep
BY IterInvHolds, PTL DEF IterInv

(***************************************************************************)
(* lsm_next only goes up and lsm_prev only down                            *)
(***************************************************************************)

\* It holds of an item other calls have left stale too, so it rests on the types
\* alone.
THEOREM StepsGoOneWay == Spec => StepsAreMonotone
<1> DEFINE OneWay == rc' = "ok" => /\ call'[1] = "next" => key' > key
                                   /\ call'[1] = "prev" => key' < key
<1>1. ASSUME TypeOK, Next PROVE OneWay
  <2> USE DEF FailsAtTree, FailsAt, FailsToCopy, FailsEarly
  <2>1. CASE LsmNext
    <3>1. ASSUME SetTheSmallest(Advanced), key' # End PROVE key' > key
      <4>1. src' \in Sources /\ Advanced[src'] = key'
        BY <1>1, <3>1, PlacesAre, SmallestIs DEF FirstOn
      <4>2. Advance(src') > key \/ Advance(src') = End
        BY <1>1, <4>1, TypeFacts, AdvanceIs
      <4>3. QED
        BY <3>1, <4>1, <4>2 DEF Advanced
    <3>2. \/ Returns("next", 0, "enoent")
          \/ /\ SetTheSmallest(Advanced)
             /\ Returns("next", 0, IF key' = End THEN "enoent" ELSE "ok")
          \/ Returns("next", 0, "error")
      BY <2>1 DEF LsmNext, Advanced, Succeeds, Fails
    <3>3. QED
      BY <3>1, <3>2 DEF Returns
  <2>2. CASE LsmPrev
    <3>1. \/ SetPrev(Retreated) /\ \E i \in Sources : Retreated[i] < key
          \/ rc' # "ok"
      BY <2>2 DEF LsmPrev, Retreated, Succeeds, Fails, Returns
    <3>2. call'[1] = "prev"
      BY <2>2 DEF LsmPrev, Succeeds, Fails, Returns
    <3>3. QED
      BY <1>1, <3>1, <3>2, TypeFacts, PlacesAre, PreviousIs
  <2> USE DEF Succeeds, Fails, Returns
  <2>3. CASE LsmBegin
    BY <2>3 DEF LsmBegin
  <2>4. CASE LsmEnd
    BY <2>4 DEF LsmEnd
  <2>5. ASSUME NEW k \in Key, LsmLowerBound(k) PROVE OneWay
    BY <2>5 DEF LsmLowerBound
  <2>6. ASSUME NEW k \in Key, LsmUpperBound(k) PROVE OneWay
    BY <2>6 DEF LsmUpperBound
  <2>7. ASSUME NEW k \in Key, LsmLookup(k) PROVE OneWay
    BY <2>7 DEF LsmLookup
  <2>8. QED
    BY <1>1, <2>1, <2>2, <2>3, <2>4, <2>5, <2>6, <2>7 DEF Next
<1>2. ASSUME TypeOK, [Next]_vars PROVE [OneWay]_vars
  BY <1>1, <1>2
<1>3. QED
  BY <1>2, IterTypeCorrect, PTL DEF Spec, StepsAreMonotone

(***************************************************************************)
(* The iterator is a cursor over one map                                   *)
(***************************************************************************)

\* The map of the refinement: the newest tree that has a key, and its item.
Items == [k \in Key |-> Min({i \in Sources : k \in contents[i]} \cup {NoTree})]
Item == IF key = End THEN NoTree ELSE src
InUse == ready /\ ~astray

LEMMA ItemsAre ==
  ASSUME Contents, NEW k \in Key
  PROVE  /\ Items[k] \in Sources \cup {NoTree}
         /\ Items[k] # NoTree <=> \E i \in Sources : k \in contents[i]
         /\ \A n \in Sources : Newest(k, n) => Items[k] = n
<1> DEFINE S == {i \in Sources : k \in contents[i]} \cup {NoTree}
<1>1. S \in SUBSET Nat /\ S # {} /\ \A i \in Sources : i < NoTree
  <2>1. ToTree \in Nat /\ NoTree = ToTree + 1
    BY DEF NoTree
  <2>2. \A i \in Sources : i \in Nat /\ i < NoTree
    BY <2>1 DEF Sources
  <2>3. QED
    BY <2>1, <2>2
<1>2. Min(S) \in S /\ \A j \in S : Min(S) <= j
  BY <1>1, MinIs
<1>3. Items[k] = Min(S)
  BY DEF Items
<1>4. ASSUME NEW n \in Sources, Newest(k, n) PROVE Items[k] = n
  BY <1>1, <1>2, <1>3, <1>4 DEF Newest
<1>5. QED
  BY <1>1, <1>2, <1>3, <1>4 DEF NoTree

\* The keys the abstract cursor sees.
LEMMA PresentIs ==
  ASSUME Contents
  PROVE  Cursor!Present = {k \in Key : \E i \in Sources : k \in contents[i]}
<1>1. \A k \in Key : Items[k] # NoTree <=> \E i \in Sources : k \in contents[i]
  BY ItemsAre
<1>2. Cursor!Present = {k \in Key : Items[k] # NoTree}
  BY DEF Cursor!Present, Cursor!Key, Items
<1>3. QED
  BY <1>1, <1>2

LEMMA FromIs ==
  ASSUME Contents, NEW k \in Nat, NEW a, LeastFrom(k, a)
  PROVE  Cursor!From(k) = a
<1> DEFINE S == {j \in Cursor!Present : j >= k} \cup {End}
<1>1. S \in SUBSET Nat /\ S # {}
  BY PresentIs
<1>2. Min(S) \in S /\ \A j \in S : Min(S) <= j
  BY <1>1, MinIs
<1>3. a \in S /\ \A j \in S : a <= j
  BY PresentIs DEF LeastFrom, Contents
<1>4. Cursor!From(k) = Min(S)
  BY DEF Cursor!From, Min, Cursor!Min
<1>5. Min(S) = a
  <2> DEFINE m == Min(S)
  <2> HIDE DEF S, m
  <2>1. m \in Nat /\ a \in Nat /\ m <= a /\ a <= m
    BY <1>1, <1>2, <1>3 DEF m
  <2>2. QED
    BY ONLY <2>1 DEF m
<1>6. QED
  BY <1>4, <1>5

\* What the abstract cursor does when the trees are in step.
LEMMA MoveToIs ==
  ASSUME TypeOK', NEW name, NEW k, NEW result, MovesTo(name, k, result)
  PROVE  Cursor!MoveTo(key', result) /\ call' = <<name, k>>
<1>1. contents' = contents /\ Items' = Items
  BY DEF MovesTo, Items
<1>2. Contents' /\ Contents /\ key' \in 1..End
  BY <1>1, TypeFacts DEF Contents, TypeOK
<1>3. key' # End => key' \in Key /\ src' \in Sources /\ Newest(key', src')
  BY <1>1, <1>2 DEF MovesTo, Settled, Newest
<1>4. key' # End => Items[key'] = src'
  BY <1>2, <1>3, ItemsAre
<1>5. Item' = Cursor!ValueAt(key')
  BY <1>4 DEF Item, Cursor!ValueAt, Items
<1>6. QED
  BY <1>1, <1>5 DEF MovesTo, Cursor!MoveTo, Items, Item

LEMMA BelowIs ==
  ASSUME Contents, key \in 1..End
  PROVE  LET below == {k \in Cursor!Present : k < key}
         IN  /\ \A a : GreatestBelow(key, a) => below # {} /\ Max(below) = a
             /\ (\A i \in Sources : \A j \in contents[i] : j >= key) => below = {}
<1> DEFINE below == {k \in Cursor!Present : k < key}
<1>1. below \in SUBSET (0..End) /\ End \in Nat
  BY PresentIs
<1>2. below # {} => Max(below) \in below /\ \A j \in below : Max(below) >= j
  BY <1>1, MaxIs
<1>3. ASSUME NEW a, GreatestBelow(key, a) PROVE below # {} /\ Max(below) = a
  <2>1. a \in below /\ \A j \in below : j <= a
    BY <1>3, PresentIs DEF GreatestBelow, Contents
  <2> DEFINE m == Max(below)
  <2>2. m \in 0..End /\ m <= a /\ a <= m /\ a \in 0..End
    BY <1>1, <1>2, <2>1
  <2>3. m = a
    <3> HIDE DEF m
    <3>1. QED
      BY ONLY <2>2
  <2>4. QED
    BY <2>1, <2>3
<1>4. ASSUME \A i \in Sources : \A j \in contents[i] : j >= key PROVE below = {}
  BY <1>4, PresentIs DEF Contents
<1>5. QED
  BY <1>3, <1>4

LEMMA StraysFails ==
  ASSUME TypeOK, TypeOK', Strays
  PROVE  Cursor!Fail
<1>1. Items' = Items
  BY DEF Strays, Items
<1>2. key' \in 1..End /\ Item' \in Sources \cup {NoTree}
  BY DEF TypeOK, Item
<1>3. call' \in Cursor!Calls /\ rc' \in Cursor!Results
  BY DEF TypeOK
<1>4. (ready' /\ ~astray') = FALSE
  BY DEF Strays
<1>5. ready /\ ~astray => rc' = "error" \/ call'[1] \in {"end", "upper_bound"}
  BY DEF Strays
<1>6. QED
  BY <1>1, <1>2, <1>3, <1>4, <1>5 DEF Cursor!Fail, Items, Item

\* Every step is one of the cursor.
LEMMA EffectIs ==
  ASSUME TypeOK, TypeOK', Effect
  PROVE  Cursor!Next
<1>1. Contents /\ key \in 1..End /\ \A k \in Key : k \in Nat /\ k + 1 \in Nat
  BY TypeFacts
<1>2. CASE MovesTo("begin", 0, "ok") /\ LeastFrom(1, key')
  BY <1>1, <1>2, MoveToIs, FromIs DEF Cursor!Next, Cursor!First
<1>3. CASE MovesTo("end", 0, "ok") /\ key' = End
  BY <1>3, MoveToIs DEF Cursor!Next, Cursor!PastLast
<1>4. ASSUME NEW k \in Key, Seeks(k) PROVE Cursor!Next
  <2>1. Cursor!Key = Key
    BY DEF Cursor!Key
  <2>2. CASE MovesTo("lower_bound", k, "ok") /\ LeastFrom(k, key')
    <3>1. Cursor!Seek(k)
      BY <1>1, <2>2, MoveToIs, FromIs DEF Cursor!Seek
    <3>2. QED
      BY <2>1, <3>1 DEF Cursor!Next
  <2>3. CASE MovesTo("upper_bound", k, "ok") /\ LeastFrom(k + 1, key')
    <3>1. Cursor!SeekPast(k)
      BY <1>1, <2>3, MoveToIs, FromIs DEF Cursor!SeekPast
    <3>2. QED
      BY <2>1, <3>1 DEF Cursor!Next
  <2>4. CASE /\ MovesTo("lookup", k, IF key' = k THEN "found" ELSE "absent")
             /\ LeastFrom(k, key')
    <3>1. Cursor!Lookup(k)
      BY <1>1, <2>4, MoveToIs, FromIs DEF Cursor!Lookup
    <3>2. QED
      BY <2>1, <3>1 DEF Cursor!Next
  <2>5. QED
    BY <1>4, <2>2, <2>3, <2>4 DEF Seeks
<1>5. CASE ready /\ ~astray /\ StepsUp
  <2>1. CASE key = End /\ key' = key /\ MovesTo("next", 0, "enoent")
    <3>1. Cursor!Next1
      BY <1>5, <2>1, MoveToIs DEF Cursor!Next1
    <3>2. QED
      BY <3>1 DEF Cursor!Next
  <2>2. CASE /\ key # End /\ LeastFrom(key + 1, key')
             /\ MovesTo("next", 0, IF key' = End THEN "enoent" ELSE "ok")
    <3>1. key + 1 \in Nat /\ Cursor!From(key + 1) = key'
      BY <1>1, <2>2, FromIs
    <3>2. Cursor!Next1
      BY <1>5, <2>2, <3>1, MoveToIs DEF Cursor!Next1
    <3>3. QED
      BY <3>2 DEF Cursor!Next
  <2>3. QED
    BY <1>5, <2>1, <2>2 DEF StepsUp
<1>6. CASE ready /\ ~astray /\ StepsDown
  <2> DEFINE below == {k \in Cursor!Present : k < key}
  <2>1. CASE GreatestBelow(key, key') /\ MovesTo("prev", 0, "ok")
    <3>1. below # {} /\ Max(below) = key'
      BY <1>1, <2>1, BelowIs
    <3>2. Cursor!MoveTo(key', "ok") /\ call' = <<"prev", 0>>
      BY <2>1, MoveToIs
    <3>3. Cursor!Prev1
      BY <1>6, <3>1, <3>2 DEF Cursor!Prev1, Max, Cursor!Max
    <3>4. QED
      BY <3>3 DEF Cursor!Next
  <2>2. CASE /\ \A i \in Sources : \A j \in contents[i] : j >= key
             /\ key' = key /\ MovesTo("prev", 0, "enoent")
    <3>1. below = {}
      BY <1>1, <2>2, BelowIs
    <3>2. Cursor!MoveTo(key, "enoent") /\ call' = <<"prev", 0>>
      BY <2>2, MoveToIs
    <3>3. Cursor!Prev1
      BY <1>6, <3>1, <3>2 DEF Cursor!Prev1
    <3>4. QED
      BY <3>3 DEF Cursor!Next
  <2>3. QED
    BY <1>6, <2>1, <2>2 DEF StepsDown
<1>7. CASE Strays
  BY <1>7, StraysFails DEF Cursor!Next
<1>8. QED
  BY <1>2, <1>3, <1>4, <1>5, <1>6, <1>7 DEF Effect

\* The trees together are a cursor over one ordered map: what an iterator that
\* lsm_end meets only past the last key delivers is the walk of that map, and
\* what any successful positioning call goes back to after an error.
THEOREM IterIsCursor == Spec => CursorSpec
<1>1. ASSUME Init, TypeOK PROVE Cursor!Init
  <2>1. \A k \in Key : Items[k] \in Sources \cup {NoTree}
    BY <1>1, TypeFacts, ItemsAre
  <2>2. Items \in [Cursor!Key -> Sources \cup {NoTree}]
    BY <2>1 DEF Items, Cursor!Key
  <2>3. Item = NoTree /\ (ready /\ ~astray) = FALSE
    BY <1>1 DEF Init, Item
  <2>4. QED
    BY <1>1, <2>2, <2>3 DEF Init, Cursor!Init, Items, Item
<1>2. ASSUME IterInv, TypeOK', [Next]_vars PROVE [Cursor!Next]_(Cursor!cursorVars)
  <2>1. CASE Next
    BY <1>2, <2>1, StepIs, EffectIs DEF IterInv
  <2>2. CASE UNCHANGED vars
    BY <2>2 DEF vars, Cursor!cursorVars
  <2>3. QED
    BY <1>2, <2>1, <2>2
<1>3. QED
  BY <1>1, <1>2, IterTypeCorrect, IterInvHolds, PTL DEF Spec, CursorSpec, Cursor!Spec
=============================================================================
