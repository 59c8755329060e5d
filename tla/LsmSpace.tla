------------------------------ MODULE LsmSpace ------------------------------
(***************************************************************************)
(* The pages of the disk trees of lib/lsm.c.  A merge writes its result to *)
(* pages it reserves one node after another, while it reads the trees it   *)
(* merges; then it puts the result in place of the target.  ctree_builder  *)
(* keeps the list of what it has reserved to give it back when the merge   *)
(* fails, and drops it when the merge succeeds: nothing is committed, and  *)
(* the pages of the trees that go are not freed (inc/alloc.h).             *)
(*                                                                         *)
(* What a page holds is the number of the merge that wrote it last, which  *)
(* stands for the checksum its parent keeps: a tree is whole when all its  *)
(* pages hold its own number.                                              *)
(*                                                                         *)
(* A page here stands for the pages of one node.  What a tree means, when  *)
(* a merge may run and the swap out of bounds (lsm.c:171) are in Lsm.      *)
(***************************************************************************)
EXTENDS Integers, FiniteSets

CONSTANTS
  DiskTrees,   \* AULSMFS_MAX_DISK_TREES
  Pages,       \* the pages of the disk
  MaxMerges    \* bound: merges that write

ASSUME SpaceAssumption ==
  /\ DiskTrees \in Nat \ {0}
  /\ MaxMerges \in Nat

Last == DiskTrees + 1     \* the number of the deepest tree, as in Lsm

VARIABLES
  tree,      \* lsm->ci: the pages of every disk tree and the merge it is of
  dumped,    \* struct aulsmfs_tree: the descriptors lsm_dump saved last
  content,   \* the merge that wrote a page last, or 0
  held,      \* the allocator: pages it gives to nobody else
  got,       \* builder->reserved of the running merge
  pc,        \* lsm_merge: "idle", "build" or "clear"
  from,      \* policy->tree
  merges,    \* merges begun so far
  boot       \* merges begun before the process started last

vars == <<tree, dumped, content, held, got, pc, from, merges, boot>>

Trees == 2..Last
Descriptor == [pages : SUBSET Pages, merge : 0..MaxMerges]

\* A descriptor of height 0
NoTree == [pages |-> {}, merge |-> 0]

Empty(t) == t.pages = {}
Whole(t) == \A p \in t.pages : content[p] = t.merge

-----------------------------------------------------------------------------

\* lsm_setup on an empty disk
Init ==
  /\ tree = [i \in Trees |-> NoTree]
  /\ dumped = [i \in Trees |-> NoTree]
  /\ content = [p \in Pages |-> 0]
  /\ held = {} /\ got = {}
  /\ pc = "idle" /\ from = 1
  /\ merges = 0 /\ boot = 0

\* lsm_merge of c0 or of a disk tree onto one that has something.
MergeBegin(t) ==
  /\ pc = "idle"
  /\ merges < MaxMerges
  /\ t > 1 => ~Empty(tree[t + 1])
  /\ pc' = "build" /\ from' = t
  /\ merges' = merges + 1
  /\ UNCHANGED <<tree, dumped, content, held, got, boot>>

\* lsm_merge of a disk tree onto an empty one: ctree_swap.
MergeSwap(t) ==
  /\ pc = "idle"
  /\ Empty(tree[t + 1])
  /\ tree' = [tree EXCEPT ![t] = tree[t + 1], ![t + 1] = tree[t]]
  /\ UNCHANGED <<dumped, content, held, got, pc, from, merges, boot>>

\* ctree_builder_alloc and ctree_node_write: a page nobody has.
WritePage(p) ==
  /\ pc = "build"
  /\ p \notin held
  /\ held' = held \cup {p}
  /\ got' = got \cup {p}
  /\ content' = [content EXCEPT ![p] = merges]
  /\ UNCHANGED <<tree, dumped, pc, from, merges, boot>>

\* Mutant: the list of ranges is left as it is.
MergeFailsKeepsList ==
  /\ pc = "build"
  /\ held' = held \ got
  /\ pc' = "idle" /\ from' = 1
  /\ UNCHANGED <<tree, dumped, content, got, merges, boot>>

\* Anything of the merge fails: ctree_builder_cancel and ctree_builder_release.
MergeFails ==
  /\ pc = "build"
  /\ held' = held \ got
  /\ got' = {}
  /\ pc' = "idle" /\ from' = 1
  /\ UNCHANGED <<tree, dumped, content, merges, boot>>

\* The disk trees a merge reads
Sources == {tree[i] : i \in {from, from + 1} \cap Trees}

\* A page that does not match its checksum ends the merge, unless this merge
\* has overwritten it after it was read.
ReadsThrough == \A t \in Sources : \A p \in t.pages : content[p] \in {t.merge, merges}

\* ctree_builder_finish: the tree of the pages written, if any were.
Built == IF got = {} THEN NoTree ELSE [pages |-> got, merge |-> merges]

\* Mutant: the pages of the tree that is replaced are freed at once.
InstallFreesTarget ==
  /\ pc = "build" /\ ReadsThrough
  /\ tree' = [tree EXCEPT ![from + 1] = Built]
  /\ held' = held \ tree[from + 1].pages
  /\ got' = {}
  /\ pc' = "clear"
  /\ UNCHANGED <<dumped, content, from, merges, boot>>

\* ctree_reset of the target; ctree_builder_release drops the list of ranges.
Install ==
  /\ pc = "build" /\ ReadsThrough
  /\ tree' = [tree EXCEPT ![from + 1] = Built]
  /\ got' = {}
  /\ pc' = "clear"
  /\ UNCHANGED <<dumped, content, held, from, merges, boot>>

\* The last loop of __lsm_merge: ctree_reset of the source; c1 has no pages.
Clear ==
  /\ pc = "clear"
  /\ tree' = [i \in Trees |-> IF i = from THEN NoTree ELSE tree[i]]
  /\ pc' = "idle" /\ from' = 1
  /\ UNCHANGED <<dumped, content, held, got, merges, boot>>

\* lsm_dump, at any moment
Dump ==
  /\ dumped' = tree
  /\ UNCHANGED <<tree, content, held, got, pc, from, merges, boot>>

\* The process stops and starts again: lsm_parse of what was dumped last.  The
\* allocator comes back with what was committed, and that is nothing.
Restart ==
  /\ tree' = dumped
  /\ held' = {} /\ got' = {}
  /\ pc' = "idle" /\ from' = 1
  /\ boot' = merges
  /\ UNCHANGED <<dumped, content, merges>>

Next ==
  \/ \E t \in 1..DiskTrees : MergeBegin(t)
  \/ \E t \in 2..DiskTrees : MergeSwap(t)
  \/ \E p \in Pages : WritePage(p)
  \/ MergeFails
  \/ Install
  \/ Clear
  \/ Dump
  \/ Restart

Spec == Init /\ [][Next]_vars

-----------------------------------------------------------------------------

TypeOK ==
  /\ tree \in [Trees -> Descriptor]
  /\ dumped \in [Trees -> Descriptor]
  /\ content \in [Pages -> 0..MaxMerges]
  /\ held \subseteq Pages
  /\ got \subseteq held
  /\ pc \in {"idle", "build", "clear"}
  /\ from \in 1..DiskTrees
  /\ merges \in 0..MaxMerges
  /\ boot \in 0..merges

Descriptors == {tree[i] : i \in Trees} \cup {dumped[i] : i \in Trees}

\* A tree this process has written stays whole as long as a descriptor names
\* it, in memory or in the last dump: no later merge, failed or not, gets its
\* pages, even when the tree has long been replaced or moved in memory, so that
\* the descriptors dumped before a merge can be gone back to during and after it.
TreesOfThisRunAreWhole ==
  \A t \in Descriptors : t.merge > boot => Whole(t) /\ t.pages \subseteq held \ got

\* The rest of the inductive invariant: numbers are not reused, and what the
\* builder holds it has written in the running merge.
NumbersInOrder == \A t \in Descriptors : t.merge <= merges

GotIsWritten ==
  /\ pc # "build" => got = {}
  /\ \A p \in got : content[p] = merges

\* A tree that was merged and dumped is still there after a restart: "to
\* allocate space we need at first reserve required amount of space and then
\* commit that reservation" (inc/alloc.h).
DumpedTreesSurvive == \A i \in Trees : Whole(dumped[i])
=============================================================================
