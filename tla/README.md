# A TLA+ model of aulsmfs

aulsmfs is a file system in the making on FUSE. What it has today is its
storage engine, a log-structured merge tree over copy-on-write B+ trees, with
the tools around it: `mkfs`, a FUSE server that shows an empty root directory,
a transaction log and a CRC. These modules model all of it that keeps state; this
file says which part is modelled where, what is checked, what is proved and what
is left.

## The system

| Part | Code | State | Operations | Talks to |
|---|---|---|---|---|
| LSM tree | `lib/lsm.c` 7-198, `inc/lsm.h` | memory trees `c0`, `c1`, disk trees `ci[]`; one `lsm_merge_policy` per merge | `lsm_setup`, `lsm_add`, `lsm_merge`, `lsm_parse`, `lsm_dump`, `lsm_release` | iterator, builder, policy callbacks (`deleted`, `build`) |
| LSM iterator | `lib/lsm.c` 201-625 | one iterator, key and value per tree; the item; a copy buffer | `lsm_begin`, `lsm_end`, `lsm_lower_bound`, `lsm_upper_bound`, `lsm_lookup`, `lsm_next`, `lsm_prev` | mtree and ctree iterators |
| B+ tree builder | `lib/ctree.c` 39-551 | one open node per level, reserved page ranges | `ctree_builder_append`, `_finish`, `_cancel` | allocator, `io_write` |
| B+ tree and its iterator | `lib/ctree.c` 554-1021 | root pointer and height; the path of nodes and positions | `ctree_reset`, `_swap`, `_parse`, `_dump`; `_begin`, `_end`, `_next`, `_prev`, bounds, lookup | `io_read` |
| Memory tree | `lib/mtree.c` | a red-black tree of nodes, a byte counter | `mtree_add`, `_swap`, `_reset`; iterator | rbtree |
| Red-black tree | `util/rbtree.c` | nodes with colour and links | insert, erase, swap of nodes, next, prev | - |
| Transaction log | `lib/log.c` | header, chunks, reservations | reserve, append, finish, cancel | allocator, io |
| CRC-64 | `util/crc64.c`, `gen_crc64_table.py` | a table | `crc64` | used for every pointer |
| File helpers | `lib/file_wrappers.c` | - | `file_size`, `file_write_at`, `file_read_at` | mkfs, FUSE server, tests |
| mkfs | `mkfs/main.c` | configuration | checks sizes, writes the super block | file helpers, CRC |
| FUSE server | `fuse/main.c` | configuration | reads the super block, serves `/` | file helpers, CRC |

What is hard here:

* updates, lookups and dumps run while a merge is under way. The merge calls
  back into the caller for every item, and the comment in `lsm_merge` expects
  `c0` to fill again "by this time". `inc/mtree.h` leaves locks to the caller,
  so a turn of the build loop is the largest thing that can be atomic;
* values move from tree to tree; the newer must hide the older at every moment,
  tombstones may be dropped only when they hide nothing;
* every read, write, reservation and allocation can fail in the middle of a
  merge, of a recursive flush or of one step of an iterator over many trees;
* a restart comes back with the descriptors dumped last;
* several iterators with places of their own make one cursor that turns round;
* iterators are pointers: into a tree that `lsm_add` changes, or a path of nodes
  read from disk, of which a failed read leaves a part;
* space is reserved by a builder that forgets it when it succeeds, and nobody
  commits it;
* transfers may be short, and `mkfs` and the server share the image without a lock.

What makes each part correct: the LSM tree is *one* map whatever merges run
(`SnapshotStore`); the iterator is a cursor over that map (`LsmCursor`); the
builder writes a well-formed tree of exactly what it was given, in pages it
holds; the B+ tree iterator reads back what the builder wrote; the memory tree
is a map, the red-black tree balanced; a finished log holds the appended
entries; the table-driven CRC is the polynomial division; what the server mounts
is one whole super block, and the image is as large as it says.

## The modules

| Module | What it is |
|---|---|
| `SnapshotStore` | Abstract: one map and three older snapshots of it, `frozen`, `merged`, `durable`, that move forward |
| `Lsm` | `lib/lsm.c` 7-198: trees, merges, dumps, restarts; implements `SnapshotStore` |
| `MCLsm` | The state constraint of the larger run of `Lsm` |
| `LsmProofs` | Theorems about `Lsm` |
| `LsmSpace` | The same merges seen from the allocator: which pages a tree is made of and who may write them |
| `LsmSpaceProofs` | Theorems about `LsmSpace` |
| `LsmCursor` | Abstract: a cursor over one ordered map |
| `LsmIter` | `lib/lsm.c` 201-625: the iterator over many trees; implements `LsmCursor` |
| `LsmIterProofs` | Theorems about `LsmIter` |
| `CtreeBuilder` | `lib/ctree.c` 39-551: the builder, its nodes' buffers and its use of the allocator |
| `CtreeIter` | `lib/ctree.c` 619-1021, over the trees `CtreeBuilder` writes; implements `LsmCursor` |
| `CtreeProofs` | Theorems about `CtreeBuilder` and `CtreeIter` |
| `RbTree` | `util/rbtree.c`, with the search of `lib/mtree.c` 99-123 |
| `Mtree` | The rest of `lib/mtree.c`: two trees of `RbTree` and an iterator |
| `MCMtree` | The state constraint of the run of `Mtree` |
| `MtreeProofs` | Theorems about `RbTree` and `Mtree` |
| `TransLog` | `lib/log.c`: the logs of transactions and their pages |
| `TransLogProofs` | Theorems about `TransLog` |
| `SequenceFacts` | Lemmas on least and greatest numbers, sums and flattened sequences, for the proofs |
| `Crc64` | `util/crc64.c`, `gen_crc64_table.py` |
| `SuperBlock` | `mkfs/main.c`, `lib/file_wrappers.c` and `aulsmfs_super_read` of `fuse/main.c` |
| `SuperBlockProofs` | Theorems about `Crc64` and `SuperBlock` |

The modules compose by `EXTENDS` where one component works on the state of
another (`CtreeIter` on the trees of `CtreeBuilder`, `Mtree` on `RbTree`,
`SuperBlock` on `Crc64`) and by abstraction where it only needs a promise: `Lsm`
and `LsmIter` take a tree for the map that `Mtree` and `CtreeIter` show it to be,
and both iterators are shown to implement the same `LsmCursor`.

**Lsm.** Trees have the numbers the code gives them: 0 is `c0`, 1 is `c1`,
`i >= 2` is `ci[i - 2]`; a tree is a function from keys to the newest value in
it. `Newest(T, f, k)` is a lookup in the trees from `f` on, `View` what the
caller makes of it when `policy->deleted` marks tombstones. A merge is
`MergeC0` (`mtree_swap`) or `MergeTree`, `BeginBuild` (`lsm_drop_deleted`,
`lsm_begin`), one `AppendItem` or `SkipItem` per turn of `lsm_build_default`,
`InstallTree` (`ctree_builder_finish`, `ctree_reset` of the target) and
`ClearSource` (the last loop of `__lsm_merge`), with `MergeFails` anywhere
before the installation. `MergeSwap` is the branch for an empty target. `Add`
and `Dump` interleave with all of these; `Restart` may come at any moment. Of
the builder the model keeps `leaf`, how many entries the open leaf has, and
`multi`, whether a leaf has been flushed, since `ctree_builder_finish` decides
on that. Whether a leaf is full depends on item sizes, so between `MinFanout`
and `MaxLeaf` entries the choice is free. Two things the code does on a misuse
its own comment invites are states of their own: `status = "aborted"` for the
assert of `lsm_merge`, `"wild"` for the swap of `ci[0]` with `ci[-1]`.
`OnlyFailuresFillC1` says how a store gets there: `c1` is full with no call
merging it only after a merge has failed.

`lsm_add` that fails changes nothing and is no action. A `build` function of
the caller's own is not modelled.

**LsmSpace.** The same merges, with a tree reduced to its pages and to the number
of the merge that wrote it. A page holds the number of its last writer, which
stands for the checksum in the pointer above it. `held` is what the allocator gives
to nobody else, `got` the builder's list of ranges, which `MergeFails` gives back
and `Install` drops. `Dump` copies the descriptors, `Restart` comes back with them
and with an allocator that knows of no reservation ("won't survive", `inc/alloc.h`).

**LsmIter.** `contents` are the keys of each tree, fixed while an iterator is in
use, as `inc/mtree.h` requires; every content is an initial state. `keyi` is
where each tree stands, `End` for a NULL key; `key` and `src` the item and the
tree it was copied from. A call is a step, since nothing can change under it;
it succeeds, or fails at one of its trees (`FailsAt`: the trees before that one
have moved), or fails to grow the copy buffer (`FailsToCopy`), and `ready` says
whether the iterator may be stepped afterwards. After `lsm_end` on a used iterator
and after `lsm_upper_bound` the trees are out of step (`astray`), and of the steps
that follow only `StepsAreMonotone` is promised. `LsmCursor` is the abstract
cursor; the refinement maps the trees to the map whose value for a key is the
number of the newest tree that has it. `call` is a label: no guard reads it, and
`VIEW WithoutCall` leaves it out of the states that are told apart. The
properties are about single steps, which the view does not merge wrongly: two
states that differ in `call` only satisfy the same invariants and have the same
steps.

**CtreeBuilder.** `node` are the open nodes; `carry` is the stack of the
recursion between `__ctree_builder_append` and `ctree_builder_flush`: the
entries on their way to levels `base`, `base + 1`, and so on. Every reservation,
write and append is a step that can fail (`CallFails`), after which the caller
makes the same call again (`Retry`) or cancels. `disk` maps page numbers to the
nodes written there; `held` is what the allocator keeps reserved for the
builder. Other users of the allocator show as gaps between reservations. `Grown`
is the growth of a node's buffer, by the smaller of twice its size and what is
needed, which may be too little. The append then writes past the end (`Overrun`);
what the program does after that is undefined, so the build ends there, in
`pc = "overrun"`. The buffer keeps its size when a node is reset, so an item that
overruns a new node may fit in one that has been used. Sizes are small numbers: a
page of 8, a header of 1, pointers of 3, items of 5 and of 27, which alone take a page
and four pages.

**CtreeIter.** `path` has the node and the position of every level; a node is
named by its page, and a level may hold none. A call reads nodes from the
root down or from the level where it has room, and any of the reads may fail,
which leaves the levels above changed and those below as they were or released:
`HeldPositionsExist` says that even then no position points outside its node, so
that the next call, whatever it is, reads no entry that is not there. The
refinement to `LsmCursor` says what the calls deliver.

**RbTree.** `t` holds what the C structures hold: the root, both children and
the parent of each node, and which nodes are red. The code writes each case
twice, for left and right; here the side is a parameter. A call is one step for
the search and the linking and one step for each turn of the fix-up loop, so
that the invariants also say what holds between turns: `cur` is the node the
loop stands on, which for `rb_erase_fix` may be no node, so `up`, its parent, is
kept beside it. Replacement (`rb_swap_nodes`) takes another node with the same
key, its twin. `rb_erase` has no caller in the repository; it is modelled as the other half
of the interface.

**Mtree.** `t` of `RbTree` is `c0`, `c1` a second tree, which `mtree_swap` exchanges
with it and `mtree_reset` frees. `node` is `iter->node`. Calls of the iterator fall
between those of `mtree_add`, never into its turns: that is what the locks of
`inc/mtree.h` are for. Nothing else keeps an update from coming between two calls:
the node may then hang elsewhere in the tree, be in the other tree, or be freed, in
which case only positioning calls may follow (`Usable`). The search loops return
the last candidate on their way down, as recursive functions.

**Crc64.** Bytes, words and the polynomial are scaled down together (4-bit bytes,
words of 3): one word is as wide as the checksum, as in the code. A call is taken
turn by turn, its data cut anywhere into a call and an update, and after every
turn the checksum must be the remainder of bit-by-bit division. A word is the set of
its bits that are one, so that exclusive or is the symmetric difference of two sets and a
shift moves their elements; what recurs in the code is a recursive function.

**SuperBlock.** The block is magic, page size, pages and checksum, a word each; what
is left out is constant. `MkfsStart` is everything of `aulsmfs_config_check` before
`ftruncate`, in arithmetic modulo the word; `MkfsTruncate` and each `MkfsWrite`,
one `pwrite`, are steps; `MkfsStops` is a failed call or a kill. The server reads
with one `pread` a step and then checks. The checksums are really computed. Sizes
are numbers and the fields of a block sets of bits; `ToBits` and `FromBits`, which
stand for `htole64` and `le64toh`, lead from one to the other.

**TransLog.** `log` is `struct trans_log`; `Flush` and `Reserve` are the sets of
outcomes of the functions of these names, failures included, and `AppendItem`,
`Finish`, `FinishFails` and `Cancel` the calls. Nothing in the repository calls
this code: the caller assumed is that of the comment at `inc/aulsmfs.h:39-50`,
which appends, finishes and registers a log, or cancels; after a finish it only
cancels or goes on to the next transaction. `disk` maps reserved pages to what
was written there, so its domain is what the allocator holds. The process can
die in two ways: `"aborted"`, when the array of chunks has to grow, and
`"crashed"`, when a transaction is finished that never flushed anything and so
has no header. Items of 64K and more, whose size is cut to the 16 bits of the
entry, are left out. A flush inside `trans_log_reserve` does not change the
bytes needed that were counted before it, so the buffer may grow past
`TRANS_CHUNK_MAX_SIZE`, but no chunk does.

## The runs

| Run | Configuration | Checks |
|---|---|---|
| `lsm_store` | 2 keys, 2 values, 2 disk trees, leaf of 1, batches of 2 or more, no tombstones, failures | `StoreSpec`: every step is one of the abstract store; `LargeTrees`: no tree fits in a leaf |
| `lsm_drop` | 3 disk trees, one value a tombstone, failures, merges of anything, retries, fairness; `NeverDumped` | `BuildIsPrefixOfInput`, `DropOnlyAtTheBottom`, `TargetCoversSource`, `OnlySingleLeafLoses`, `OnlyFailuresFillC1`, `MergeEnds`, `TypeOK` |
| `lsm_space` | 2 disk trees, 4 pages, 4 merges, failures, dumps, restarts | `TreesOfThisRunAreWhole`, `TypeOK` |
| `lsm_space_restart` | the same | *violated*: `DumpedTreesSurvive` |
| `lsm_retry` | failures | *violated*: `MergeCanBeRetried` |
| `lsm_small_merge` | no failures | *violated*: `AddedKeysAreFound` |
| `iter` | 3 keys, `c1` and two disk trees of any content, failures, every call anywhere | `PositionsInStep`, `CursorSpec`, `StepsAreMonotone`, `TypeOK` |
| `ctree_iter` | 7 items of 2 sizes, the larger of more than three pages, fan-out 2, one failure of the builder; trees of 1 and 5 items walked by an iterator any of whose reads may fail | the invariants of the builder, among them `OnlyLargeEntriesOverrun`, `ReadyPathIsWhole`, `HeldPositionsExist`, `CtreeIsCursor`, `IterTypeOK` |
| `mtree` | one tree of up to 14 keys with at most one missing below the largest, or of 6 keys in any order with replacements; two trees of 4 keys and an iterator | `WalksInOrder`, `RedBlack`, `FixUpClimbs`, `NothingLeaks`, `IterFollowsMap`, `MtreeTypeOK` |
| `trans_log` | 3 items of 2 sizes, chunks of two pages, an array of 2 chunks, 2 finished logs, 7 pages, failures | `LogsReadBack`, `NothingLost`, `ReservedIsHeld`, `BufferHoldsEntries`, `TypeOK` |
| `trans_log_chunks` | the same | *violated*: `ManyChunksAreAllowed` |
| `super_block` | 12-bit words, 2 runs of mkfs with sizes that fit, do not fit and wrap, transfers of 2, 4 or all bytes; any 6 bytes for the checksum alone | `CrcIsDivision`, `MountedIsOneFormat`, `MountedFitsTheFile`, `TypeOK` |

The bounds. Two keys show whether a step on one key disturbs the other and make
a tree larger than a leaf of one; two values tell an older from a newer value
of a key; three disk trees are needed for a target with a tree below it and one
below that, where `lsm_drop_deleted` could be off by one; with dumps the trees
double, so that run has two and `lsm_drop` never dumps. Three trees and three
keys are what an iterator needs to have one tree ahead, one behind and one on
the item. Seven items make the builder flush two levels within one append, and
finish then writes a tree of three levels; one failure falls at every point. The
iterator walks trees of one item, an empty tree by `lib/ctree.c:516`, and of five,
of two levels and of three.
An item of 27 overruns a new buffer of 8, fits in an empty node whose buffer has
grown to 16 and, by one byte, overruns that after an item of 5; in a buffer of 32
nothing can be overrun. So the run has builds that end at once, builds that end
after nodes have been written, also in a call that is made again after a failure, and
finished trees with large items. Three items of 5 fill two pages to the last byte.
Fourteen keys make trees of black height three, in which `rb_erase_fix` goes up
and meets a red brother, and each kind of nephews, on the higher level; since
that many keys in any order are too many states, the run has these trees with at
most one key missing below the largest, and all trees of six keys, where two keys
have a second node to be replaced by. Four keys are the least with which an
insertion rotates and recolours above an iterator's node. Four pages hold
two trees of a page or two and a merge that writes a third; four merges are
one more than it takes to replace a tree, dump, restart and write over it. Three
items of a transaction are enough for three chunks, one more than the array of
the run holds; seven pages hold one log of two chunks, or two smaller ones, and
run out beyond that, and the allocator gives the first or the last pages that
fit. At most one header is left behind by a cancel after a finish. Two runs of
mkfs are one block over another; 513 pages of 8 wrap in 12 bits; the words are
wide enough that the blocks of the run, and mixtures of two of them, have
different checksums, which in the code is 64 bits of luck and not a certainty.

Fairness: `FairSpec` has `WF_vars(MergeStep)`: a call of `lsm_merge` that has
started keeps running. Nothing else is fair: updates, dumps and restarts may
happen or not. `MergeEnds` is checked under the constraint `NeverDumped`, which
cuts off no step of a merge: a merge does not read what was dumped, and a dump
changes nothing a merge reads, so every behaviour has one without dumps whose
merges take the same steps.

Deadlock is not checked for the builder, which stops when it is done, cancelled or
past a buffer, for the transaction log, whose process may have died, nor for
`super_block`, where a checksum taken alone ends. In the runs where an assert
fails, `Restart` stays possible.

### What does not hold

* `AddedKeysAreFound` (`lsm_small_merge`): `ctree_builder_finish` makes an empty
  tree of a builder with one node (`lib/ctree.c:516`), and the merge installs it
  and clears its source. Everything in a merge that fits in one leaf is lost.
  `OnlySingleLeafLoses` shows that this, and the out-of-bounds swap, is the only
  way a merge changes what lookups see, and `StoreSpec` that callers who merge
  only larger batches are safe.
* `MergeCanBeRetried` (`lsm_retry`): "just try again later" (`lib/lsm.c:161-166`)
  runs into `assert(mtree_is_empty(&lsm->c1))`.
* `DumpedTreesSurvive` (`lsm_space_restart`): an installed tree's pages are never
  committed (`lib/lsm.c:135`; `lsm_persist` has no caller), so after a restart the
  next merge gets them while the dumped descriptors still name them. Within one
  run of the process `TreesOfThisRunAreWhole` holds, at the price that the
  pages of trees that are gone are never free again.
* `ManyChunksAreAllowed` (`trans_log_chunks`): "for large transactions we could
  have more" chunks (`inc/aulsmfs.h:41`), but the 17th makes
  `trans_log_reserve_chunk` reallocate a pointer into the middle of a block
  (`lib/log.c:39`).
* An item may be too large for a node's buffer. `ctree_ensure_entries` makes the
  buffer the smaller of twice its size and what is needed
  (`lib/ctree.c:248-251`) and reports success. With pages of 4096 an item of 9000
  bytes in a new node needs 12288 and gets 8192, and the `memcpy` of
  `ctree_node_append` (`lib/ctree.c:283-285`) writes past the end of the block. Keys and
  values have 16-bit sizes (`inc/aulsmfs.h:56-60`) and no code checks them, so any
  `lsm_add` of a large value leads there with the next merge. `ctree_iter` reaches
  the overrun, as the action `Overrun`. It is no run of its own that expects a violation,
  since no doc, comment, assertion or test says how large an item may be; what the run and
  `OnlyLargeEntriesOverrunHolds` establish is the limit: an entry no larger than the
  buffer it finds, so any of up to a page, never overruns it.

Read in the code, and in the model, but without a run, since nothing in the
repository says what is expected: `mtree_upper_bound` stops at the greatest key at
or below the bound (`lib/mtree.c:170-187`) while `ctree_upper_bound` stops at the
first key above it and reports the end of the tree as an error
(`lib/ctree.c:892-913`), so `lsm_upper_bound` mixes the two; a transaction finished
without an item writes through a null header (`lib/log.c:165`);
`trans_log_cancel` after a finish leaves the pages of the header reserved;
`lsm_prev` after `lsm_end` on a used iterator goes back from the old item, not from
the end; `file_read_at` counts down the size it compares with, so that a read that
comes in halves stops half way (the callers fail on it as on a short file); in `mkfs` the product
of pages and page size may wrap, and so does the check of it (`MountedFitsTheFile` leaves a product
that wraps out); `ctree_begin` and
`ctree_end` on an iterator that holds nodes leak them (`lib/ctree.c:957`).

## The proofs

`LsmProofs` proves for every number of keys, values and disk trees, every leaf
capacity and every choice of failures:

* `TypeCorrect`, and from it `MergeInvariant`: the inductive invariant
  `MergeInv` is `BuildIsPrefixOfInput`, `DropOnlyAtTheBottom`,
  `TargetCoversSource` and `NoMergeLeftover`. None is inductive alone: that the
  source is covered when it is cleared comes from the prefix at `pos = End`;
  the prefix starts because a merge that has not begun leaves the builder empty
  (`NoMergeLeftover`). Each is a theorem of its own (`BuildIsPrefix`,
  `DropIsSafe`, `TargetCovers`).
* `LookupsAreSafe`: `Spec => OnlySingleLeafLoses`. Four lemmas say that a step
  keeps what lookups see: `InstallKeepsLookups`, `ClearKeepsLookups`,
  `SwapKeepsLookups` and, for the abstract snapshots, `InstallMerges`. They rest
  on `NewestIs` and `NewestNone`, which say what `Newest` returns, and on
  `SameLive`.
* `FailuresFillC1`: `Spec => OnlyFailuresFillC1`, from `NoMergeLeftover` and the
  place of the merge; and from it `AssertHolds`: with `IoMayFail = FALSE`,
  `Spec => []C1EmptyAtMerge`.
* `TreesStayLarge` and `Refinement`: with `MergeBatch > MaxLeaf`, no tombstones
  and no blind retry, `LargeTrees` is invariant and `Spec => StoreSpec`. The
  assumption on tombstones is needed: dropping them can shrink a large batch to
  a single leaf.

`LsmSpaceProofs` proves for any disk and any number of trees and merges:

* `SpaceTypeCorrect`, the type invariant;
* `TreesStayWhole`: `Spec => []TreesOfThisRunAreWhole`. The inductive invariant adds
  `NumbersInOrder`, that no descriptor has a number that is still to come, without
  which a new tree could be taken for an old one, and `GotIsWritten`, that the
  builder holds exactly pages it has written in this merge, without which
  `Install` could install pages of others.

`LsmIterProofs` proves for any number of keys and trees, any content of the trees,
and any calls and failures:

* `IterTypeCorrect` and `StaysInStep`, the two invariants. The inductive invariant
  `IterInv` adds to them that the item is the newest with its key; without that, a
  step that turns round would not know on which side of the item the other trees stand;
* `StepsGoOneWay`: `Spec => StepsAreMonotone`;
* `IterIsCursor`: `Spec => CursorSpec`. One lemma, `StepIs`, sorts the steps by their
  effect on the trees and the item; `EffectSettles` gives the invariant after each
  effect and `EffectIs` the step of `LsmCursor` it is. The places of the trees are
  least and greatest elements of finite sets of keys, of which `MinIs` and `MaxIs`
  say all that is used.

`TransLogProofs` proves for all sizes of pages, chunks, entries, items and disk, and
any number of items and logs:

* `TransLogInvHolds`, the inductive invariant. While a transaction is open, what
  can be read from its chunks, followed by its buffer, is its items, and the page
  count is the number of different pages of the chunks (`OpenInv`); once it is
  finished the header leads to those chunks (`FinishedInv`); and `Owned` says that
  the reserved pages are those of good logs, of this transaction and of lost
  headers, with none in two of these. The last is what no checked property states and
  all of them need: a registered log stays readable because nobody else
  writes (`GoodStays`) or gives back (`CancelKeeps`) its pages. `MovedKeeps` covers
  every outcome of a flush, also the flush inside an append that fails afterwards;
* from it `LogTypeCorrect`, `LogsReadBackHolds`, `NothingLostHolds`,
  `ReservedIsHeldHolds` and `BufferHoldsEntriesHolds`, the five properties of the run.

The first part of `CtreeProofs` proves of the builder, for any sizes of pages, headers and items, any fan-out, any
number of items and any failures and repeated calls:

* `BuilderInvHolds`, the inductive invariant. `Stage` says how far the running call has
  got, whichever level its chain of flushes started at; `Points` that the entries of open nodes
  and the entries on their way up name nodes on disk one level down, by
  their first keys, from which the same follows when such a node is written in its turn;
  `Space` that the range list is what the allocator holds; `Fill` that the nodes
  on disk and the pages about to be written are apart and, until a call fails, make
  up all that is held, without which a write could destroy a node that entries already name;
  `Buffers` that a buffer is of whole pages and holds its node, and that an entry which
  overran one is larger than it; `Chain` that of the
  two levels at the top one has entries, so that the root is not empty;
* from it `BuilderTypeCorrect`, `EntriesPointDownHolds`, `ReservedIsHeldHolds`,
  `NodesFillThePagesHolds` and `OnlyLargeEntriesOverrunHolds`. The last assumes nothing of the
  sizes of entries. It rests on `GrownIs`: a buffer stays one of whole pages, and when it has not
  become large enough it has doubled; since it held the node before, the entry is what is
  larger than it (`FitsNodes`).
* `OrderInvHolds`, a second inductive invariant on top of it, about what the tree holds.
  `Carries` says that an entry on its way up stands for an open node that has not been
  reset, so that the items are still counted there, and that it did not fit in the nodes
  it waits below; then what is below one level only ever moves
  to the one above (`PutEntryInOrder`), and a call that fails in between loses and doubles nothing
  (`CallFailsInOrder`). `LeafAlone` and `TopIsShared` say what the top of the tree is
  when a call has failed half way: a level that was added and left empty lies over nodes
  that are full (`Blocked`), so nothing is put below it before it has got two
  entries itself, and the root has two in the end;
* from it `ItemsInOrderHolds` and `FinishedTreeIsCompleteHolds`. The recursive `ItemsBelow`
  is shown to exist level by level (`BelowExists`), to grow at the right with an entry
  (`BelowAppends`) and not to change below entries while the disk grows (`BelowStays`).

The second part of `CtreeProofs` proves over every tree the builder finishes without a failure, of any
height (`CtreeIter` walks no others, though the proof does not need that), with any calls
and any reads that fail:

* `HeldPositionsExistHolds` and `ReadyPathIsWholeHolds`, the two invariants of the path. `Tree`
  is what is used of the builder's invariant. `Descend` is defined level by level from
  the root; `WayExists` shows that there is such a way and `DescendIs` that it meets only nodes
  of the right level. `ReadIs` says what a read that fails half way leaves, and `StepAtIs`
  the same of a step; every call is put together from those two. `IterInv` adds that an iterator
  is not used before the tree is finished, and the builder's invariant.

`MtreeProofs` proves for any number of keys, any keys with a second node, and any updates,
erasures, swaps, resets and calls of the iterator, between two turns of a fix-up as well:

* `MtreeInvHolds`, the inductive invariant. `RbInv` says that there is a function `under`,
  from each node to the nodes of its subtree, which makes of the links an ordered tree
  (`Tree`), and a function that counts the black nodes below each node (`Level`), with what is
  not mended yet: in `rb_insert` one red node that may be the root or have a red parent
  (`Inserting`), in `rb_erase_fix` one place, the ways through which are a black
  node short (`Erasing`). That the place is named by the child *and* its parent is needed,
  since it may have no node. `MtreeInv` adds that `c1` is such a tree at rest
  and shares no node with `c0`.
* Neither function is in the code. They take the place of an induction
  over trees, which the prover cannot state: each step is shown to
  turn the old functions into new ones (`RotatedIsTree`, `HungIsTree`, `RenamedIsTree`,
  `SplicedIsTree` for the links), and the size of `under[n]` is a rank that every walk goes down or up
  by, so that what a walk finds follows from its least counterexample (`TreeInduction`,
  `RootInduction`). A recursive function of the model exists because its
  recursion ends (`LoopExists`); what it computes is `ExtremeIs`, `NeighbourIs`, `DescendIs`,
  `BoundIs`, `ReleasedIs` and `DepthIs`, one for each loop of the code.
* The steps: `InsertKeeps`, `ReplaceKeeps` and `EraseKeeps` for the calls, of which the erasure
  of a node with two children is taken apart into its successor being spliced out and then
  put in its place; `InsertRecolourKeeps`, `InsertRotateKeeps`, `EraseUpKeeps` and
  `EraseRotateKeeps` for the turns. Where the code has a left and a right case, there
  is one proof, for a side.
* From the invariant `MtreeTypeCorrect`, `TreeIsTheMap` (`WalksInOrder`), `RulesAreKept`
  (`RedBlack`), `NoNodeLeaks` (`NothingLeaks`), and for each step `IteratorIsTrue`
  (`IterFollowsMap`) and `FixUpsEnd` (`FixUpClimbs`): all that the run checks.

`SuperBlockProofs` proves for any polynomial, any width of bytes and words, any options of
mkfs, any number of its runs, any size of an image of zeros to start from and any pieces in which
the system moves bytes:

* `CrcIsRight`: `Spec => []CrcIsDivision`. A shift is linear (`ShiftLinear`), and as long as
  the low bits are zero it only moves the others (`ShiftedDown`). So a byte that lies `k` bytes
  up contributes what `table[k]` has for it (`TableIs`), a turn over a word is as many shifts as
  the word has bits (`WordTurnIs`) and a turn over a byte as many as a byte has
  (`ByteTurnIs`); the division takes the same shifts byte by byte (`WordDivision`). The
  inductive invariant adds only the types.
* `SuperIsAccepted`: the server takes a block that mkfs has written whole and reads from it
  what mkfs was given (`FromToBits`, `WordReadsBack`).
* `BurstsAreFound`: if the polynomial has its highest bit, as `0x95ac9329ac4bc9b5` of
  `gen_crc64_table.py` has, a block that differs from an accepted one within the bytes of one
  word is not accepted, so that no field can change alone. Those bytes may lie across two fields,
  but not across the checksum and the field before it, where nothing of the kind is proved:
  the code sums a zero in place of the checksum, so the two are further apart for
  the polynomial than they are in the block.
* `MountedUnlessCollision` and `MountedFitsUnlessCollision`: `Spec => [](Collides \/ P)` for
  `MountedIsOneFormat` and `MountedFitsTheFile`. `Collides` says that some block, each byte of
  which is zero or that of a block mkfs began to write, is accepted without being one of these
  blocks. That cannot be excluded for every choice of widths, polynomial and
  configurations. It is not the rule, though: enumerating the mixtures at the constants of the
  run shows none for any of nine configurations alone, and one each for 5 of the 36 pairs of them,
  with a checksum of 12 bits instead of 64. None of those mixtures is reached by the run.
  The inductive invariant `BlockInv` is
  what leads there: the running mkfs holds the block of a configuration, and the
  file has its bytes from the moment it starts to write (`MkfsKnows`); so every byte of the file, and
  of what the server has read, at whichever moments, comes from the same place of such a
  block, or is zero (`FileIsMade`, `BufferIsMade`), and since what was read and what is
  left add up to a block (`BufferAndLeft`) each piece lands in its place.
  `Fitting` and `Collides` never lose anything, since no step shrinks
  the file (`GrowsKeeps`).
* `SuperTypeCorrect`, the type invariant, of which the part that could fail is that what mkfs computes
  stays within the width of its integers (`SettledTyped`).

`SequenceFacts` has what these proofs need of data: what holds of a sum or of a
flattened sequence when one more element comes, or when part of an element moves to the
one before it. The sums of `FoldLeft` and the
recursive function inside `FlattenSeq` are shown to exist and to unfold by taking
the least number for which they would not (`NaturalsIn`), which needs no theorem
with an operator for a parameter.

The constants' assumptions, `LsmAssumption`, `SpaceAssumption`,
`LsmIterAssumption`, `RbTreeAssumption`, `MtreeAssumption`, `TransLogAssumption`,
`BuilderAssumption`, `CrcAssumption` and `SuperAssumption`, are what the code's types and
macros give, that a node header fits in a page (the assert of `lib/ctree.c:65`), that `Nil` is
none of the values it stands beside, and that the size of a block
is itself a number of the width it is counted in; runs evaluate them.

Only model-checked: `MergeEnds`, since liveness is out of the prover's reach. For
`MountedIsOneFormat` and `MountedFitsTheFile` the run shows that the configurations it has
do not collide in any state it reaches, and the theorems that nothing but a collision could break
them. Every other invariant and action property of a run is a theorem as it stands.

## Not modelled, and why

* The FUSE callbacks of `fuse/main.c` answer from constants and keep no state;
  option parsing and printing in both programs.
* The structures of `inc/aulsmfs.h` that no code uses: roots, inodes, names, the
  registered and replayed logs.
* `alloc_commit`, `alloc_free`, `io_sync`, `lsm_persist` and `lsm_free`: nothing calls
  them. The order in which a merge's pages and its descriptors reach the disk is
  up to a caller of `lsm_dump` that does not exist yet.
* `mtree.bytes`, which counts a replaced item twice, since nothing reads it; leaks,
  except those of the memory tree; the contents of values; the growth of buffers
  where no property is about it.
* What an image holds before the first mkfs, where the block goes: the model starts with zeros.
  Old contents that happen to be an accepted block would be mounted, and an older block of mkfs is
  what the second run writes over.
* What follows a write past a node's buffer.
* The tests and the build.
