------------------------------ MODULE LsmIter ------------------------------
(***************************************************************************)
(* struct lsm_iter of lib/lsm.c: one cursor made of a cursor in each tree. *)
(* lsm_next and lsm_prev move only the trees that are behind, and deliver  *)
(* the smallest, or the largest, of the keys the trees stand on.           *)
(*                                                                         *)
(* The trees do not change while an iterator is in use: lsm_add frees the  *)
(* node it replaces and lsm_merge the trees it clears, and the locks are   *)
(* left to the caller (mtree.h).  A value is the number of the tree it     *)
(* comes from: 0 is c0, 1 is c1, i >= 2 is ci[i - 2].  A call is a step;   *)
(* the loops of lsm_next and lsm_prev are given by where they stop.        *)
(***************************************************************************)
EXTENDS Integers, FiniteSetsExt

CONSTANTS
  KeyCount,     \* keys are 1 .. KeyCount, in the order of lsm->cmp
  DiskTrees,    \* AULSMFS_MAX_DISK_TREES
  FromTree,     \* iter->from
  ToTree,       \* iter->to
  IoMayFail     \* a ctree call or realloc may fail

ASSUME LsmIterAssumption ==
  /\ KeyCount \in Nat
  /\ DiskTrees \in Nat \ {0}
  /\ ToTree \in 0..(DiskTrees + 1)
  /\ FromTree \in 0..ToTree
  /\ IoMayFail \in BOOLEAN

Key == 1..KeyCount
End == KeyCount + 1        \* key.ptr is NULL
Sources == FromTree..ToTree
Disk == {i \in Sources : i >= 2}

VARIABLES
  contents,   \* the keys of every tree
  keyi,       \* iter->keyi; while ready, also where the tree's iterator stands
  key,        \* iter->key
  src,        \* iter->val: the tree it was copied from
  ready,      \* the last positioning call succeeded and nothing failed since
  astray,     \* after lsm_end or lsm_upper_bound the trees are out of step
  call,       \* the last call, with the key it was given, or 0
  rc          \* what it returned

vars == <<contents, keyi, key, src, ready, astray, call, rc>>

\* No guard reads call: it says which step was taken, and two states that differ
\* in it only have the same steps.
WithoutCall == <<contents, keyi, key, src, ready, astray, rc>>

-----------------------------------------------------------------------------
(* Where the iterators of the trees stop                                   *)

\* Mutant: a search that finds nothing leaves the tree at the bound.
AtOrAboveBound(i, k) ==
  LET above == {j \in contents[i] : j >= k} IN IF above = {} THEN k ELSE Min(above)

\* The first key of tree i from k on: mtree_lower_bound, ctree_lower_bound,
\* mtree_begin and ctree_begin for k = 1.
AtOrAbove(i, k) == Min({j \in contents[i] : j >= k} \cup {End})

\* mtree_upper_bound: the last node at or below k.
MtreeUpper(i, k) ==
  LET upper == {j \in contents[i] : j <= k}
  IN  IF upper = {} THEN End ELSE Max(upper)

UpperOf(i, k) == IF i < 2 THEN MtreeUpper(i, k) ELSE AtOrAbove(i, k + 1)

\* The loops of lsm_next: on while keyi[i] <= key.
Advance(i) == IF keyi[i] > key THEN keyi[i] ELSE AtOrAbove(i, key + 1)

\* Mutant: every tree is moved back at least once.
RetreatAlways(i) ==
  LET below == {j \in contents[i] : j < key /\ j < keyi[i]}
  IN  IF below = {} THEN AtOrAbove(i, 1) ELSE Max(below)

\* The loops of lsm_prev: back until keyi[i] < key, or to the first key.  The
\* end of a tree (keyi[i] NULL) lies past its last key.
Retreat(i) ==
  LET below == {j \in contents[i] : j < key}
  IN  IF keyi[i] < key THEN keyi[i]
      ELSE IF below = {} THEN AtOrAbove(i, 1) ELSE Max(below)

-----------------------------------------------------------------------------
(* The item                                                                *)

\* Of the trees that stand on k the first in the order of the loop.
NewestOn(new, k) == Min({i \in Sources : new[i] = k})

\* lsm_set_the_smallest
SetTheSmallest(new) ==
  LET least == Min({new[i] : i \in Sources} \cup {End})
  IN  /\ key' = least
      /\ src' = IF least = End THEN 0 ELSE NewestOn(new, least)

\* Mutant: a tree that could not go back far enough is not left out.
SetPrevAnyKey(new) ==
  LET largest == Max({new[i] : i \in {j \in Sources : new[j] # End}})
  IN  /\ key' = largest
      /\ src' = NewestOn(new, largest)

\* lsm_set_prev, when some tree stands below key
SetPrev(new) ==
  LET largest == Max({new[i] : i \in {j \in Sources : new[j] < key}})
  IN  /\ key' = largest
      /\ src' = NewestOn(new, largest)

NonEmpty == {i \in Sources : contents[i] # {}}
Moving(new) == {i \in Sources : new[i] # keyi[i]}

Returns(name, k, result) == call' = <<name, k>> /\ rc' = result

\* A call that succeeds leaves the trees where new says.
Succeeds(new, name, k, result) ==
  /\ keyi' = new
  /\ ready' = TRUE
  /\ Returns(name, k, result)
  /\ UNCHANGED contents

\* A call fails: the iterator has to be positioned anew.
Fails(name, k) ==
  /\ ready' = FALSE /\ astray' = FALSE
  /\ Returns(name, k, "error")
  /\ UNCHANGED contents

\* The ctree call on tree f fails: lsm_lower_bound, lsm_upper_bound, lsm_next
\* and lsm_prev have moved the trees before f, and iter->key is what it was.
FailsAt(f, new, name, k) ==
  /\ Fails(name, k)
  /\ keyi' = [i \in Sources |-> IF i < f THEN new[i] ELSE keyi[i]]
  /\ UNCHANGED <<key, src>>

\* Only the ctrees of S are read.
FailsAtTree(S, new, name, k) ==
  IoMayFail /\ \E f \in S \cap Disk : FailsAt(f, new, name, k)

\* realloc fails in lsm_set_the_smallest or lsm_set_prev: iter->key is cleared.
FailsToCopy(new, name, k) ==
  /\ IoMayFail
  /\ \E i \in Sources : new[i] # End
  /\ Fails(name, k)
  /\ keyi' = new
  /\ key' = End /\ src' = 0

\* ctree_begin or ctree_end fails: iter->keyi is not touched either.
FailsEarly(name) ==
  /\ IoMayFail
  /\ Disk # {}
  /\ Fails(name, 0)
  /\ UNCHANGED <<keyi, key, src>>

-----------------------------------------------------------------------------
(* The calls                                                               *)

\* lsm_iter_setup, and iter->from and iter->to set by the caller
Init ==
  /\ contents \in [Sources -> SUBSET Key]
  /\ keyi = [i \in Sources |-> End]
  /\ key = End
  /\ src = 0
  /\ ready = FALSE /\ astray = FALSE
  /\ call = <<"setup", 0>> /\ rc = "ok"

LsmBegin ==
  LET new == [i \in Sources |-> AtOrAbove(i, 1)]
  IN  \/ SetTheSmallest(new) /\ Succeeds(new, "begin", 0, "ok") /\ astray' = FALSE
      \/ FailsEarly("begin")
      \/ FailsToCopy(new, "begin", 0)

\* iter->key is not cleared: the trees are at their ends, the item is not.
LsmEnd ==
  \/ /\ Succeeds([i \in Sources |-> End], "end", 0, "ok")
     /\ astray' = (key # End)
     /\ UNCHANGED <<key, src>>
  \/ FailsEarly("end")

\* Mutant: the memory trees stop at or below the bound.
LowerBoundBelow(k) ==
  LET new == [i \in Sources |-> IF i < 2 THEN MtreeUpper(i, k) ELSE AtOrAbove(i, k)]
  IN  \/ SetTheSmallest(new) /\ Succeeds(new, "lower_bound", k, "ok") /\ astray' = FALSE
      \/ FailsAtTree(NonEmpty, new, "lower_bound", k)
      \/ FailsToCopy(new, "lower_bound", k)

LsmLowerBound(k) ==
  LET new == [i \in Sources |-> AtOrAbove(i, k)]
  IN  \/ SetTheSmallest(new) /\ Succeeds(new, "lower_bound", k, "ok") /\ astray' = FALSE
      \/ FailsAtTree(NonEmpty, new, "lower_bound", k)
      \/ FailsToCopy(new, "lower_bound", k)

LsmLookup(k) ==
  LET new == [i \in Sources |-> AtOrAbove(i, k)]
  IN  \/ /\ SetTheSmallest(new) /\ astray' = FALSE
         /\ Succeeds(new, "lookup", k, IF key' = k THEN "found" ELSE "absent")
      \/ FailsAtTree(NonEmpty, new, "lookup", k)
      \/ FailsToCopy(new, "lookup", k)

\* The first ctree that has k but nothing above it ends the call: ctree_next
\* returns -ENOENT, and that is taken for an error.
StopsAt(f, k) == k \in contents[f] /\ AtOrAbove(f, k + 1) = End

\* A memory tree that stops at or below k is out of step with the others.
LsmUpperBound(k) ==
  LET new == [i \in Sources |-> UpperOf(i, k)]
      stops == {f \in Disk : StopsAt(f, k)}
  IN  \/ /\ stops = {} /\ SetTheSmallest(new) /\ Succeeds(new, "upper_bound", k, "ok")
         /\ astray' = (\E i \in Sources : new[i] # AtOrAbove(i, k + 1))
      \/ stops # {} /\ FailsAt(Min(stops), new, "upper_bound", k)
      \/ FailsAtTree({f \in NonEmpty : \A g \in stops : f <= g}, new, "upper_bound", k)
      \/ stops = {} /\ FailsToCopy(new, "upper_bound", k)

LsmNext ==
  /\ ready
  /\ LET new == [i \in Sources |-> Advance(i)]
     IN  \/ /\ key = End /\ Returns("next", 0, "enoent")
            /\ UNCHANGED <<contents, keyi, key, src, ready, astray>>
         \/ /\ key # End /\ SetTheSmallest(new)
            /\ Succeeds(new, "next", 0, IF key' = End THEN "enoent" ELSE "ok")
            /\ UNCHANGED astray
         \/ key # End /\ FailsAtTree(Moving(new), new, "next", 0)
         \/ key # End /\ FailsToCopy(new, "next", 0)

LsmPrev ==
  /\ ready
  /\ LET new == [i \in Sources |-> Retreat(i)]
         moved == \E i \in Sources : new[i] < key
     IN  \/ moved /\ SetPrev(new) /\ Succeeds(new, "prev", 0, "ok") /\ UNCHANGED astray
         \/ ~moved /\ Succeeds(new, "prev", 0, "enoent") /\ UNCHANGED <<key, src, astray>>
         \/ FailsAtTree(Moving(new), new, "prev", 0)
         \/ moved /\ FailsToCopy(new, "prev", 0)

Next ==
  \/ LsmBegin
  \/ LsmEnd
  \/ \E k \in Key : LsmLowerBound(k)
  \/ \E k \in Key : LsmUpperBound(k)
  \/ \E k \in Key : LsmLookup(k)
  \/ LsmNext
  \/ LsmPrev

Spec == Init /\ [][Next]_vars

-----------------------------------------------------------------------------
(* The abstract cursor over all the trees                                  *)

NoTree == ToTree + 1

Cursor == INSTANCE LsmCursor WITH
            Value <- Sources,
            None <- NoTree,
            items <- [k \in Key |-> Min({i \in Sources : k \in contents[i]} \cup {NoTree})],
            at <- key,
            ready <- ready /\ ~astray,
            Loose <- {"end", "upper_bound"},
            val <- IF key = End THEN NoTree ELSE src

-----------------------------------------------------------------------------

\* Every variable has its type; a tree stands on a key it has or at its end,
\* and the item is one of the tree it is said to come from.
TypeOK ==
  /\ contents \in [Sources -> SUBSET Key]
  /\ \A i \in Sources : keyi[i] \in contents[i] \cup {End}
  /\ key # End => src \in Sources /\ key \in contents[src]
  /\ key \in 1..End
  /\ src \in 0..ToTree
  /\ ready \in BOOLEAN /\ astray \in BOOLEAN
  /\ call \in Cursor!Calls /\ rc \in Cursor!Results

\* Whatever sequence of calls has brought the trees where they stand, none of
\* them has a key strictly between the item and its own place, on either side:
\* lsm_next and lsm_prev can go on from there without a key missed or seen twice.
PositionsInStep ==
  ready /\ ~astray =>
    \A i \in Sources : \A j \in contents[i] :
      ~(key < j /\ j < keyi[i]) /\ ~(keyi[i] < j /\ j < key)

\* lsm_next only ever goes up and lsm_prev down, even past an item other calls
\* have left stale: a loop over either one ends.
StepsAreMonotone ==
  [][rc' = "ok" => /\ call'[1] = "next" => key' > key
                   /\ call'[1] = "prev" => key' < key]_vars

\* The trees are one ordered map: an iterator that lsm_end meets only past the
\* last key walks it in both directions from any place, skips nothing, repeats
\* nothing, and delivers the value of the newest tree that has the key, and any
\* successful positioning call repairs it after an error.
CursorSpec == Cursor!Spec
=============================================================================
