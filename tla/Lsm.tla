-------------------------------- MODULE Lsm --------------------------------
(***************************************************************************)
(* The LSM tree of lib/lsm.c: updates go to the memory tree c0, lsm_merge  *)
(* moves trees one level down, lsm_dump and lsm_parse save and restore the *)
(* descriptors of the disk trees.                                          *)
(*                                                                         *)
(* Trees carry the numbers lsm_merge and lsm_iter give them: 0 is c0, 1 is *)
(* c1 (the fixed state of c0 during a merge), i >= 2 is the disk tree      *)
(* ci[i - 2].  A tree is its content, a function from keys to the newest   *)
(* value in that tree or None; the disk format, the iterators and the      *)
(* node layout have modules of their own.  A disk tree of height 0 is the  *)
(* empty function.                                                         *)
(*                                                                         *)
(* A merge is one call but not one step: each turn of the build loop is a  *)
(* step, so that updates of c0 run between them (the callbacks of the      *)
(* merge policy, or another thread: the comment in lsm_merge says that c0  *)
(* "might not be empty by this time").                                     *)
(***************************************************************************)
EXTENDS Integers, FiniteSets

CONSTANTS
  KeyCount,    \* keys are 1 .. KeyCount, in the order of lsm->cmp
  Values,      \* what lsm_add may store
  Tombstones,  \* the values policy->deleted answers 1 for; {} is lsm_no_delete
  None,        \* no entry
  DiskTrees,   \* AULSMFS_MAX_DISK_TREES
  MinFanout,   \* MIN_FANOUT: a leaf always has room for that many entries
  MaxLeaf,     \* no leaf has room for more entries than that
  MergeBatch,  \* the caller merges c0 only when it holds that many keys
  IoMayFail,   \* allocation, reads or writes may fail during a merge
  BlindRetry   \* the caller may call lsm_merge(lsm, 1, ..) with ci[0] empty

ASSUME LsmAssumption ==
  /\ KeyCount \in Nat
  /\ None \notin Values
  /\ Tombstones \subseteq Values
  /\ DiskTrees \in Nat \ {0}
  /\ MinFanout \in Nat \ {0}
  /\ MaxLeaf \in Nat
  /\ MinFanout <= MaxLeaf
  /\ MergeBatch \in Nat
  /\ IoMayFail \in BOOLEAN
  /\ BlindRetry \in BOOLEAN

Key == 1..KeyCount
End == KeyCount + 1          \* an iterator past the last item (key.ptr NULL)
Last == DiskTrees + 1        \* the number of the deepest tree
Tree == [Key -> Values \cup {None}]
EmptyTree == [k \in Key |-> None]
KeysOf(t) == {k \in Key : t[k] # None}

VARIABLES
  trees,    \* c0, c1 and ci
  disk,     \* struct aulsmfs_tree: the dumped descriptors
  status,   \* "running"; "aborted" by assert; "wild" after an access out of bounds
  pc,       \* where the running lsm_merge is: "idle" (none), "begin", "build", "clear"
  from,     \* policy->tree: tree `from` is merged into tree `from + 1`
  drop,     \* policy->drop_deleted
  pos,      \* policy->iter: the key of its item, or End
  out,      \* policy->builder: the items appended
  leaf,     \* policy->builder: the entries of its current leaf
  multi     \* policy->builder: nodes > 1, that is, some leaf has been flushed

lsmVars == <<trees, disk, status>>
mergeVars == <<pc, from, drop, pos, out, leaf, multi>>
vars == <<trees, disk, status, pc, from, drop, pos, out, leaf, multi>>

-----------------------------------------------------------------------------
(* Lookups: the smallest tree number wins, lsm_set_the_smallest.           *)

IsNewest(T, f, k, i) ==
  /\ i \in f..Last
  /\ T[i][k] # None
  /\ \A j \in f..(i - 1) : T[j][k] = None

\* Mutant: the deepest tree wins.
DeepestWins(T, f, k) ==
  IF \E i \in f..Last : T[i][k] # None
  THEN T[CHOOSE i \in f..Last :
           T[i][k] # None /\ \A j \in (i + 1)..Last : T[j][k] = None][k]
  ELSE None

\* The value of key k in the trees f .. Last of T taken together.
Newest(T, f, k) ==
  IF \E i \in f..Last : IsNewest(T, f, k, i)
  THEN T[CHOOSE i \in f..Last : IsNewest(T, f, k, i)][k]
  ELSE None

\* What the caller makes of a value: a tombstone is no entry.
Live(v) == IF v \in Tombstones THEN None ELSE v

View(T, f) == [k \in Key |-> Live(Newest(T, f, k))]

-----------------------------------------------------------------------------
(* The memory tree and the saved descriptors                               *)

Idle ==
  /\ pc = "idle"
  /\ from = 1
  /\ drop = FALSE
  /\ pos = End
  /\ out = EmptyTree
  /\ leaf = 0
  /\ multi = FALSE

\* lsm_iter_release and ctree_builder_release: nothing of a merge is left.
EndMerge ==
  /\ pc' = "idle"
  /\ from' = 1
  /\ drop' = FALSE
  /\ pos' = End
  /\ out' = EmptyTree
  /\ leaf' = 0
  /\ multi' = FALSE

\* lsm_setup: every tree empty, no merge running.
Init ==
  /\ trees = [i \in 0..Last |-> EmptyTree]
  /\ disk = [i \in 2..Last |-> EmptyTree]
  /\ status = "running"
  /\ Idle

\* lsm_add; a merge may be running, it never looks at c0.
Add(k, v) ==
  /\ status = "running"
  /\ trees' = [trees EXCEPT ![0][k] = v]
  /\ UNCHANGED <<disk, status, mergeVars>>

\* lsm_dump, at any moment: the descriptors of the disk trees only.
Dump ==
  /\ status = "running"
  /\ disk' = [i \in 2..Last |-> trees[i]]
  /\ UNCHANGED <<trees, status, mergeVars>>

\* Mutant: a restart that keeps the trees it had in memory.
RestartKeepsMemory ==
  /\ trees' = [i \in 0..Last |-> IF i < 2 THEN trees[i] ELSE disk[i]]
  /\ status' = "running"
  /\ UNCHANGED disk
  /\ EndMerge

\* The process stops, or has been aborted, and starts again: lsm_setup, then
\* lsm_parse of what was dumped last.
Restart ==
  /\ trees' = [i \in 0..Last |-> IF i < 2 THEN EmptyTree ELSE disk[i]]
  /\ status' = "running"
  /\ UNCHANGED disk
  /\ EndMerge

-----------------------------------------------------------------------------
(* lsm_merge                                                               *)

Input == [k \in Key |-> IF trees[from][k] # None THEN trees[from][k]
                                                 ELSE trees[from + 1][k]]

\* Mutant: the tree right below the target is not looked at.
DropOffByOne(f) == \A i \in (f + 3)..Last : trees[i] = EmptyTree

\* lsm_drop_deleted: nothing below the target, so nothing for a tombstone to hide.
DropDeleted(f) == \A i \in (f + 2)..Last : trees[i] = EmptyTree

\* p is where an iterator that stands before key k lands.
NextItem(t, k, p) ==
  /\ p \in k..End
  /\ p \in Key => t[p] # None
  /\ \A j \in k..(p - 1) : t[j] = None

\* The call lsm_merge(lsm, 0, policy) with c1 still full: its assert fails.
MergeAsserts ==
  /\ status = "running" /\ pc = "idle"
  /\ Cardinality(KeysOf(trees[0])) >= MergeBatch
  /\ trees[1] # EmptyTree
  /\ status' = "aborted"
  /\ UNCHANGED <<trees, disk, mergeVars>>

\* lsm_merge(lsm, 0, policy): mtree_swap of c0 and the empty c1, then the
\* merge of c1.
MergeC0 ==
  /\ status = "running" /\ pc = "idle"
  /\ Cardinality(KeysOf(trees[0])) >= MergeBatch
  /\ trees[1] = EmptyTree
  /\ trees' = [trees EXCEPT ![0] = trees[1], ![1] = trees[0]]
  /\ pc' = "begin"
  /\ from' = 1
  /\ UNCHANGED <<disk, status, drop, pos, out, leaf, multi>>

\* lsm_merge(lsm, t, policy), t > 0, onto a disk tree that has something; for
\* t = 1 this is the second try of a failed merge of c1.
MergeTree(t) ==
  /\ status = "running" /\ pc = "idle"
  /\ trees[t + 1] # EmptyTree
  /\ pc' = "begin"
  /\ from' = t
  /\ UNCHANGED <<lsmVars, drop, pos, out, leaf, multi>>

\* lsm_merge(lsm, t, policy), t > 1, onto an empty disk tree: ctree_swap.
MergeSwap(t) ==
  /\ status = "running" /\ pc = "idle"
  /\ trees[t + 1] = EmptyTree
  /\ trees' = [trees EXCEPT ![t] = trees[t + 1], ![t + 1] = trees[t]]
  /\ UNCHANGED <<disk, status, mergeVars>>

\* lsm_merge(lsm, 1, policy) onto an empty ci[0] is the same ctree_swap, of
\* ci[0] with the bytes before it, which are c0 and c1: both roots become the
\* zeros of the empty descriptor and ci[0] becomes anything.
WildSwap ==
  /\ BlindRetry
  /\ status = "running" /\ pc = "idle"
  /\ trees[2] = EmptyTree
  /\ \E garbage \in Tree :
       trees' = [trees EXCEPT ![0] = EmptyTree, ![1] = EmptyTree, ![2] = garbage]
  /\ status' = "wild"
  /\ UNCHANGED <<disk, mergeVars>>

\* __lsm_merge up to lsm_begin.
BeginBuild ==
  /\ status = "running" /\ pc = "begin"
  /\ pc' = "build"
  /\ drop' = DropDeleted(from)
  /\ \E p \in 1..End : NextItem(Input, 1, p) /\ pos' = p
  /\ UNCHANGED <<lsmVars, from, out, leaf, multi>>

Deleted == drop /\ Input[pos] \in Tombstones

\* Mutant: a dropped item is not stepped over.
StuckOnDeleted ==
  /\ status = "running" /\ pc = "build" /\ pos # End
  /\ Deleted
  /\ UNCHANGED vars

\* One turn of lsm_build_default with a deleted item.
SkipItem ==
  /\ status = "running" /\ pc = "build" /\ pos # End
  /\ Deleted
  /\ \E p \in (pos + 1)..End : NextItem(Input, pos + 1, p) /\ pos' = p
  /\ UNCHANGED <<lsmVars, pc, from, drop, out, leaf, multi>>

\* Mutant: the append comes before the step and takes the older value.
AppendOlder ==
  /\ status = "running" /\ pc = "build" /\ pos # End
  /\ ~Deleted
  /\ out' = [out EXCEPT ![pos] = IF trees[from + 1][pos] # None
                                 THEN trees[from + 1][pos] ELSE Input[pos]]
  /\ \/ leaf < MaxLeaf /\ leaf' = leaf + 1 /\ UNCHANGED multi
     \/ leaf >= MinFanout /\ leaf' = 1 /\ multi' = TRUE
  /\ \E p \in (pos + 1)..End : NextItem(Input, pos + 1, p) /\ pos' = p
  /\ UNCHANGED <<lsmVars, pc, from, drop>>

\* Mutant: the flushed leaf is not counted.
AppendUncounted ==
  /\ status = "running" /\ pc = "build" /\ pos # End
  /\ ~Deleted
  /\ out' = [out EXCEPT ![pos] = Input[pos]]
  /\ \/ leaf < MaxLeaf /\ leaf' = leaf + 1 /\ UNCHANGED multi
     \/ leaf >= MinFanout /\ leaf' = 1 /\ UNCHANGED multi
  /\ \E p \in (pos + 1)..End : NextItem(Input, pos + 1, p) /\ pos' = p
  /\ UNCHANGED <<lsmVars, pc, from, drop>>

\* Mutant: the room left in the leaf is not looked at.
AppendOverfull ==
  /\ status = "running" /\ pc = "build" /\ pos # End
  /\ ~Deleted
  /\ out' = [out EXCEPT ![pos] = Input[pos]]
  /\ leaf' = leaf + 1 /\ UNCHANGED multi
  /\ \E p \in (pos + 1)..End : NextItem(Input, pos + 1, p) /\ pos' = p
  /\ UNCHANGED <<lsmVars, pc, from, drop>>

\* One turn of lsm_build_default: ctree_builder_append, which flushes the leaf
\* first when ctree_node_can_append says so (that depends on the sizes of the
\* items as soon as the leaf holds MIN_FANOUT), then lsm_next.
AppendItem ==
  /\ status = "running" /\ pc = "build" /\ pos # End
  /\ ~Deleted
  /\ out' = [out EXCEPT ![pos] = Input[pos]]
  /\ \/ leaf < MaxLeaf /\ leaf' = leaf + 1 /\ UNCHANGED multi
     \/ leaf >= MinFanout /\ leaf' = 1 /\ multi' = TRUE
  /\ \E p \in (pos + 1)..End : NextItem(Input, pos + 1, p) /\ pos' = p
  /\ UNCHANGED <<lsmVars, pc, from, drop>>

\* lsm_begin, the build loop or ctree_builder_finish returns an error: the
\* builder is cancelled, the trees stay as they are, c1 included.
MergeFails ==
  /\ IoMayFail
  /\ status = "running" /\ pc \in {"begin", "build"}
  /\ EndMerge
  /\ UNCHANGED lsmVars

\* ctree_builder_finish: a builder with a single node makes an empty tree.
Built == IF multi THEN out ELSE EmptyTree

\* ctree_builder_finish and ctree_reset of the target.
InstallTree ==
  /\ status = "running" /\ pc = "build" /\ pos = End
  /\ trees' = [trees EXCEPT ![from + 1] = Built]
  /\ pc' = "clear"
  /\ UNCHANGED <<disk, status, from, drop, pos, out, leaf, multi>>

\* Mutant: c1 is left as it was.
ClearDiskOnly ==
  /\ status = "running" /\ pc = "clear"
  /\ trees' = IF from = 1 THEN trees ELSE [trees EXCEPT ![from] = EmptyTree]
  /\ EndMerge
  /\ UNCHANGED <<disk, status>>

\* The last loop of __lsm_merge: mtree_reset of c1 or ctree_reset of the source.
ClearSource ==
  /\ status = "running" /\ pc = "clear"
  /\ trees' = [trees EXCEPT ![from] = EmptyTree]
  /\ EndMerge
  /\ UNCHANGED <<disk, status>>

-----------------------------------------------------------------------------

MergeStep ==
  \/ BeginBuild
  \/ SkipItem
  \/ AppendItem
  \/ InstallTree
  \/ ClearSource

Next ==
  \/ \E k \in Key, v \in Values : Add(k, v)
  \/ Dump
  \/ Restart
  \/ MergeAsserts
  \/ MergeC0
  \/ \E t \in 1..DiskTrees : MergeTree(t)
  \/ \E t \in 2..DiskTrees : MergeSwap(t)
  \/ WildSwap
  \/ MergeFails
  \/ MergeStep

Spec == Init /\ [][Next]_vars

\* A call of lsm_merge that has started runs on.
FairSpec == Spec /\ WF_vars(MergeStep)

-----------------------------------------------------------------------------

TypeOK ==
  /\ trees \in [0..Last -> Tree]
  /\ disk \in [2..Last -> Tree]
  /\ status \in {"running", "aborted", "wild"}
  /\ pc \in {"idle", "begin", "build", "clear"}
  /\ from \in 1..DiskTrees
  /\ drop \in BOOLEAN
  /\ pos \in 1..End
  /\ out \in Tree
  /\ leaf \in 0..MaxLeaf
  /\ multi \in BOOLEAN

\* The builder holds exactly what the merge iterator has gone past: the newer
\* value of every key before pos, less the deleted ones when they are dropped,
\* and nothing else, whatever updates and dumps run in between
\* (lsm_build_default, lsm_next).
BuildIsPrefixOfInput ==
  pc = "build" =>
    \A k \in Key :
      out[k] = IF k >= pos \/ (drop /\ Input[k] \in Tombstones)
               THEN None ELSE Input[k]

\* Deleted entries are dropped only while nothing below the target holds an
\* older value they hide (lsm_drop_deleted), from the check to the moment the
\* source is cleared.
DropOnlyAtTheBottom ==
  drop => \A i \in (from + 2)..Last : trees[i] = EmptyTree

\* Until the source is cleared, the target holds the newer value of everything
\* that is in it: clearing it cannot lose anything (ctree_reset before
\* mtree_reset in __lsm_merge).  The one exception is in the definition Built.
TargetCoversSource ==
  pc = "clear" =>
    /\ trees[from + 1] = Built
    /\ \A k \in KeysOf(trees[from]) :
         out[k] = IF drop /\ trees[from][k] \in Tombstones
                  THEN None ELSE trees[from][k]

\* The rest of the inductive invariant: a call that does not run leaves no
\* policy behind, and a process that does not run is in no call.
NoMergeLeftover ==
  /\ pc \in {"idle", "begin"} => drop = FALSE /\ out = EmptyTree /\ ~multi /\ leaf = 0
  /\ status # "running" => pc = "idle"

MergeInv ==
  /\ BuildIsPrefixOfInput
  /\ DropOnlyAtTheBottom
  /\ TargetCoversSource
  /\ NoMergeLeftover

Large(t) == t = EmptyTree \/ Cardinality(KeysOf(t)) > MaxLeaf

\* When only batches larger than a leaf are merged and nothing is deleted, no
\* tree below c0 ever fits in a leaf, in memory or dumped, and no merge builds
\* one: the builder counts what it holds until its first flush
\* (ctree_builder_append, the node count ctree_builder_finish looks at).
LargeTrees ==
  /\ \A i \in 1..Last : Large(trees[i])
  /\ \A i \in 2..Last : Large(disk[i])
  /\ ~multi => leaf = Cardinality(KeysOf(out))
  /\ pc = "build" /\ pos # End => Input[pos] # None
  /\ pc = "clear" => multi \/ out = EmptyTree

\* c1 holds something though no call is merging it: the next
\* lsm_merge(lsm, 0, ..) fails its assert.
C1Stuck == trees[1] # EmptyTree /\ (pc = "idle" \/ from # 1)

\* Only a merge that fails leaves c1 full; updates, dumps, restarts and merges
\* of the other trees never do, so that while no merge fails the assert of
\* lsm_merge holds whenever it is called.
OnlyFailuresFillC1 == [][C1Stuck' => C1Stuck \/ MergeFails]_vars

\* The assert of lsm_merge has never failed.
C1EmptyAtMerge == status # "aborted"

-----------------------------------------------------------------------------
(* What the trees promise together: SnapshotStore.                         *)

Store == INSTANCE SnapshotStore WITH
           Value <- Values \ Tombstones,
           map <- View(trees, 0),
           frozen <- View(trees, 1),
           merged <- View(trees, 2),
           durable <- View(disk, 2)

\* Every step of the trees is an update, a freeze, a merge, a save or a restart
\* of the abstract store, or changes nothing a lookup can see: no reordering of
\* updates, dumps, merges, drops, failures and restarts shows a stale value, a
\* deleted key or half a merge.
StoreSpec == Store!Spec

\* The merge has built a tree that ctree_builder_finish throws away: its items
\* have all stayed in the first leaf.
SingleLeaf == ~multi /\ out # EmptyTree

\* The same without a promise on the size of what is merged: the only steps
\* that may break it are those of a merge whose result is a single leaf, and
\* the swap out of bounds.
OnlySingleLeafLoses ==
  [][\/ Store!Next
     \/ SingleLeaf /\ (InstallTree \/ ClearSource)
     \/ WildSwap]_(Store!storeVars)

\* A key that was added is found by every later lookup, merges or not
\* (lookup_lsm of test/lsm_test.c).
AddedKeysAreFound ==
  [][\A k \in Key : View(trees, 0)[k] # None => View(trees, 0)'[k] # None
     \/ Restart]_vars

\* A failed merge can be tried again later (the comment in lsm_merge).
MergeCanBeRetried == status = "running"

\* A merge that has started ends, in success or failure.
MergeEnds == pc # "idle" ~> pc = "idle"
=============================================================================
