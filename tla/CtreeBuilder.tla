---------------------------- MODULE CtreeBuilder ----------------------------
(***************************************************************************)
(* struct ctree_builder of lib/ctree.c: a tree is written bottom up from   *)
(* items that come in order.  One node of every level is open in memory;   *)
(* when an entry does not fit, the node is written and an entry for it,    *)
(* its first key and its place on disk, goes to the level above, which may *)
(* have to be written first.                                               *)
(*                                                                         *)
(* The recursion of __ctree_builder_append and ctree_builder_flush is a    *)
(* stack of entries, `carry`; every reservation, write and append is a     *)
(* step of its own that may fail.  Items are numbered in the order they    *)
(* are appended; bytes, pages and fan-outs are small numbers.              *)
(***************************************************************************)
EXTENDS Integers, Sequences, SequencesExt, FiniteSets

CONSTANTS
  MinFanout,    \* MIN_FANOUT
  PageSize,     \* io->page_size
  Header,       \* sizeof(struct aulsmfs_node_header)
  ItemSizes,    \* bytes an item takes in a leaf, its entry header included
  PtrSize,      \* the same for the entry of a child node
  Gaps,         \* pages others may reserve between two of our reservations
  MaxItems,     \* bound: items appended
  MaxFailures   \* bound: calls that fail

ASSUME BuilderAssumption ==
  /\ MinFanout \in Nat \ {0}
  /\ PageSize \in Nat \ {0}
  /\ Header \in 1..PageSize
  /\ ItemSizes \subseteq Nat \ {0}
  /\ PtrSize \in Nat \ {0}
  /\ Gaps \subseteq Nat
  /\ MaxItems \in Nat
  /\ MaxFailures \in Nat

VARIABLES
  node,       \* builder->node: the open node of level l is node[l + 1]
  disk,       \* the nodes written, by the number of their first page
  ranges,     \* builder->reserved
  pages,      \* builder->pages
  root,       \* builder->ptr and builder->height
  next,       \* the allocator: every page from here on is free
  held,       \* the allocator: pages reserved for this builder
  pc,         \* see PcSet
  base,       \* the level the running call appends to
  carry,      \* entries on their way to levels base, base + 1, ..
  offs,       \* the pages reserved for the node being written
  count,      \* items appended so far
  failures    \* calls that have failed so far

memVars == <<node, count, root>>
spaceVars == <<ranges, pages, next, held>>
callVars == <<pc, base, carry, offs>>
vars == <<node, disk, ranges, pages, root, next, held, pc, base, carry, offs,
          count, failures>>

PcSet ==
  {"idle", "append", "write", "finish", "root", "failed", "done", "cancelled", "overrun"}

-----------------------------------------------------------------------------
(* Nodes                                                                   *)

\* io_pages
PagesOf(bytes) == (bytes + PageSize - 1) \div PageSize

\* ctree_node_setup, with the smallest buffer there is
NewNode == [entries |-> <<>>, bytes |-> Header, max |-> PageSize]

\* ctree_node_reset: the buffer keeps its size.
Reset(nd) == [nd EXCEPT !.entries = <<>>, !.bytes = Header]

\* Mutant: room for what the node holds already.
GrownLate(nd, size) ==
  LET bytes == PageSize * PagesOf(nd.bytes)
  IN  IF nd.max < bytes THEN Min({2 * nd.max, bytes}) ELSE nd.max

\* ctree_ensure_entries: the smaller of twice the buffer and what is needed.
Grown(nd, size) ==
  LET bytes == PageSize * PagesOf(nd.bytes + size)
  IN  IF nd.max < bytes THEN Min({2 * nd.max, bytes}) ELSE nd.max

\* The memcpy calls of ctree_node_append end past the buffer: it grows by one
\* doubling at most, and an entry may need more.
Overruns(nd, e) == nd.bytes + e.size > Grown(nd, e.size)

\* ctree_node_append
WithEntry(nd, e) ==
  [entries |-> Append(nd.entries, e), bytes |-> nd.bytes + e.size, max |-> Grown(nd, e.size)]

\* ctree_node_can_append
CanAppend(nd, e) ==
  \/ Len(nd.entries) + 1 <= MinFanout
  \/ PagesOf(nd.bytes + e.size) = PagesOf(nd.bytes)

\* The level the call has got to.
Top == base + Len(carry) - 1

\* ctree_builder_ensure_level
Ensured == IF Top < Len(node) THEN node ELSE Append(node, NewNode)

-----------------------------------------------------------------------------
(* Space                                                                   *)

\* Mutant: a range is extended whatever lies between.
AddRangeAnyway(at, size) ==
  IF ranges # <<>>
  THEN [ranges EXCEPT ![Len(ranges)].end = at + size]
  ELSE <<[begin |-> at, end |-> at + size]>>

\* The range list of ctree_builder_alloc: the last range grows when it can.
AddRange(at, size) ==
  IF ranges # <<>> /\ Last(ranges).end = at
  THEN [ranges EXCEPT ![Len(ranges)].end = at + size]
  ELSE Append(ranges, [begin |-> at, end |-> at + size])

\* ctree_builder_alloc, with alloc_reserve: pages nobody has.
Reserve(size) ==
  \E gap \in Gaps :
    /\ offs' = next + gap
    /\ next' = next + gap + size
    /\ held' = held \cup (next + gap)..(next + gap + size - 1)
    /\ ranges' = AddRange(next + gap, size)
    /\ pages' = pages + size

\* ctree_node_write
WriteNode(nd, level) ==
  disk' = [o \in DOMAIN disk \cup {offs} |->
             IF o = offs THEN [entries |-> nd.entries, level |-> level, size |-> PagesOf(nd.bytes)]
             ELSE disk[o]]

-----------------------------------------------------------------------------
(* The calls                                                               *)

\* ctree_builder_setup
Init ==
  /\ node = <<>>
  /\ disk = <<>>
  /\ ranges = <<>> /\ pages = 0
  /\ root = [ptr |-> 0, height |-> 0]
  /\ next = 1 /\ held = {}
  /\ pc = "idle" /\ base = 0 /\ carry = <<>> /\ offs = 0
  /\ count = 0 /\ failures = 0

\* ctree_builder_append is called.
CallAppend(size) ==
  /\ pc = "idle" /\ count < MaxItems
  /\ pc' = "append" /\ base' = 0
  /\ carry' = <<[key |-> count + 1, ptr |-> 0, size |-> size]>>
  /\ UNCHANGED <<memVars, spaceVars, disk, offs, failures>>

Finishing == base > 0

\* Mutant: one page, whatever the node takes.
FlushReserveOnePage ==
  /\ pc = "append"
  /\ carry # <<>> => ~CanAppend(Ensured[Top + 1], Last(carry))
  /\ Reserve(1)
  /\ pc' = "write"
  /\ UNCHANGED <<memVars, disk, base, carry, failures>>

\* The first half of ctree_builder_flush of level Top: the node is not empty.
FlushReserve ==
  /\ pc = "append"
  /\ carry # <<>> => ~CanAppend(Ensured[Top + 1], Last(carry))
  /\ Reserve(PagesOf(node[Top + 1].bytes))
  /\ pc' = "write"
  /\ UNCHANGED <<memVars, disk, base, carry, failures>>

\* Mutant: the entry for a node takes its last key.
FlushWriteLastKey ==
  /\ pc = "write"
  /\ LET nd == node[Top + 1]
     IN  /\ WriteNode(nd, Top)
         /\ carry' = Append(carry, [key |-> Last(nd.entries).key, ptr |-> offs, size |-> PtrSize])
  /\ pc' = "append"
  /\ UNCHANGED <<memVars, spaceVars, base, offs, failures>>

\* The node is written, and its entry is on its way up.
FlushWrite ==
  /\ pc = "write"
  /\ LET nd == node[Top + 1]
     IN  /\ WriteNode(nd, Top)
         /\ carry' = Append(carry, [key |-> Head(nd.entries).key, ptr |-> offs, size |-> PtrSize])
  /\ pc' = "append"
  /\ UNCHANGED <<memVars, spaceVars, base, offs, failures>>

\* Mutant: the node below is not reset.
PutEntryNoReset ==
  /\ pc = "append" /\ carry # <<>>
  /\ CanAppend(Ensured[Top + 1], Last(carry))
  /\ ~Overruns(Ensured[Top + 1], Last(carry))
  /\ node' = [Ensured EXCEPT ![Top + 1] = WithEntry(@, Last(carry))]
  /\ carry' = Front(carry)
  /\ IF Len(carry) > 1 THEN UNCHANGED <<pc, base, count>>
     ELSE IF Finishing THEN pc' = "finish" /\ base' = base + 1 /\ UNCHANGED count
     ELSE pc' = "idle" /\ count' = count + 1 /\ UNCHANGED base
  /\ UNCHANGED <<spaceVars, disk, root, offs, failures>>

\* The entry fits: it is appended, and the node below, which it stands for, is
\* reset (the end of ctree_builder_flush) before anything else can fail.
PutEntry ==
  /\ pc = "append" /\ carry # <<>>
  /\ CanAppend(Ensured[Top + 1], Last(carry))
  /\ ~Overruns(Ensured[Top + 1], Last(carry))
  /\ node' = [l \in DOMAIN Ensured |->
                IF l = Top + 1 THEN WithEntry(Ensured[l], Last(carry))
                ELSE IF l = Top /\ (Len(carry) > 1 \/ Finishing) THEN Reset(Ensured[l])
                ELSE Ensured[l]]
  /\ carry' = Front(carry)
  /\ IF Len(carry) > 1 THEN UNCHANGED <<pc, base, count>>
     ELSE IF Finishing THEN pc' = "finish" /\ base' = base + 1 /\ UNCHANGED count
     ELSE pc' = "idle" /\ count' = count + 1 /\ UNCHANGED base
  /\ UNCHANGED <<spaceVars, disk, root, offs, failures>>

\* The entry fits the node and not its buffer.  What the code does to the memory
\* behind the buffer is undefined; nothing is said of what follows.
Overrun ==
  /\ pc = "append" /\ carry # <<>>
  /\ CanAppend(Ensured[Top + 1], Last(carry))
  /\ Overruns(Ensured[Top + 1], Last(carry))
  /\ pc' = "overrun"
  /\ UNCHANGED <<memVars, spaceVars, disk, base, carry, offs, failures>>

\* ctree_builder_finish is called; its loop variable is base - 1.
CallFinish ==
  /\ pc = "idle"
  /\ pc' = "finish" /\ base' = 1
  /\ UNCHANGED <<memVars, spaceVars, disk, carry, offs, failures>>

\* ctree_builder_flush of one level below the root.
FinishLevel ==
  /\ pc = "finish" /\ base < Len(node)
  /\ IF node[base].entries = <<>> THEN base' = base + 1 /\ UNCHANGED pc
     ELSE pc' = "append" /\ UNCHANGED base
  /\ UNCHANGED <<memVars, spaceVars, disk, carry, offs, failures>>

\* Nothing has been flushed: the tree is empty, whatever the one leaf holds.
FinishSingle ==
  /\ pc = "finish" /\ base >= Len(node) /\ base = 1
  /\ root' = [ptr |-> 0, height |-> 0]
  /\ pc' = "done"
  /\ UNCHANGED <<node, count, spaceVars, disk, base, carry, offs, failures>>

RootReserve ==
  /\ pc = "finish" /\ base >= Len(node) /\ base > 1
  /\ Reserve(PagesOf(node[base].bytes))
  /\ pc' = "root"
  /\ UNCHANGED <<memVars, disk, base, carry, failures>>

\* Mutant: the height is the number of the root's level.
RootWriteLevel ==
  /\ pc = "root"
  /\ WriteNode(node[base], base - 1)
  /\ root' = [ptr |-> offs, height |-> base - 1]
  /\ node' = [node EXCEPT ![base] = Reset(@)]
  /\ pc' = "done"
  /\ UNCHANGED <<count, spaceVars, base, carry, offs, failures>>

RootWrite ==
  /\ pc = "root"
  /\ WriteNode(node[base], base - 1)
  /\ root' = [ptr |-> offs, height |-> base]
  /\ node' = [node EXCEPT ![base] = Reset(@)]
  /\ pc' = "done"
  /\ UNCHANGED <<count, spaceVars, base, carry, offs, failures>>

\* A reservation, a write or an allocation of memory fails and the call returns
\* the error; a level may have been added before.
CallFails ==
  /\ failures < MaxFailures
  /\ \/ pc \in {"append", "write", "root"}
     \/ pc = "finish" /\ base >= Len(node) /\ base > 1
  /\ \/ UNCHANGED node
     \/ /\ pc = "append" /\ carry # <<>> /\ Top = Len(node)
        /\ node' = Ensured
  /\ pc' = "failed"
  /\ carry' = IF Finishing THEN <<>> ELSE <<Head(carry)>>
  /\ failures' = failures + 1
  /\ UNCHANGED <<spaceVars, disk, count, root, base, offs>>

\* The caller makes the call that failed once more.
Retry ==
  /\ pc = "failed"
  /\ IF Finishing THEN pc' = "finish" /\ base' = 1
                  ELSE pc' = "append" /\ UNCHANGED base
  /\ UNCHANGED <<memVars, spaceVars, disk, carry, offs, failures>>

\* ctree_builder_cancel: alloc_cancel of every range.
Cancel ==
  /\ pc \in {"failed", "idle"}
  /\ held' = held \ UNION {ranges[i].begin..(ranges[i].end - 1) : i \in DOMAIN ranges}
  /\ pc' = "cancelled"
  /\ UNCHANGED <<memVars, disk, ranges, pages, next, base, carry, offs, failures>>

Next ==
  \/ \E size \in ItemSizes : CallAppend(size)
  \/ FlushReserve
  \/ FlushWrite
  \/ PutEntry
  \/ Overrun
  \/ CallFinish
  \/ FinishLevel
  \/ FinishSingle
  \/ RootReserve
  \/ RootWrite
  \/ CallFails
  \/ Retry
  \/ Cancel

Spec == Init /\ [][Next]_vars

-----------------------------------------------------------------------------

Entry == [key : 1..MaxItems, ptr : Nat, size : ItemSizes \cup {PtrSize}]

TypeOK ==
  /\ \A l \in DOMAIN node :
       node[l].entries \in Seq(Entry) /\ node[l].bytes \in Nat /\ node[l].max \in Nat
  /\ \A o \in DOMAIN disk : disk[o].entries \in Seq(Entry) /\ disk[o].size \in Nat
  /\ \A i \in DOMAIN ranges : ranges[i].begin < ranges[i].end
  /\ pages \in Nat /\ next \in Nat /\ held \subseteq 1..(next - 1)
  /\ root \in [ptr : Nat, height : Nat]
  /\ pc \in PcSet
  /\ base \in Nat /\ base <= Len(node) + 1
  /\ carry \in Seq(Entry) /\ (pc \in {"append", "overrun"} => Top <= Len(node))
  /\ count \in 0..MaxItems /\ failures \in 0..MaxFailures

\* The items below the entries of a node of level l, from left to right.
ItemsBelow[l \in Nat] ==
  [entries \in Seq(Entry) |->
     IF l = 0 THEN [i \in DOMAIN entries |-> entries[i].key]
     ELSE FlattenSeq([i \in DOMAIN entries |->
                        IF entries[i].ptr \in DOMAIN disk
                        THEN ItemsBelow[l - 1][disk[entries[i].ptr].entries] ELSE <<>>])]

UpTo(n) == [i \in 1..n |-> i]

\* The open nodes, from the top level down, hold every item appended so far,
\* once and in order; a call that fails half way through a chain of flushes
\* has neither lost nor doubled one, so that it can be made again.
ItemsInOrder ==
  pc # "done" =>
    FlattenSeq([i \in 1..Len(node) |->
                  ItemsBelow[Len(node) - i][node[Len(node) + 1 - i].entries]]) = UpTo(count)

\* What ctree_iter relies on: an entry of an inner node names a node that has
\* been written, one level down, by its first key.
EntriesPointDown ==
  \A o \in DOMAIN disk : disk[o].level > 0 =>
    \A i \in DOMAIN disk[o].entries :
      LET e == disk[o].entries[i]
      IN  /\ e.ptr \in DOMAIN disk
          /\ disk[e.ptr].level = disk[o].level - 1
          /\ Head(disk[e.ptr].entries).key = e.key

\* The finished tree holds the items appended, under a root with two entries
\* or more, and is empty only if nothing was ever flushed.
FinishedTreeIsComplete ==
  pc = "done" =>
    IF root.height = 0 THEN Len(node) <= 1 /\ disk = <<>>
    ELSE /\ root.height = disk[root.ptr].level + 1
         /\ Len(disk[root.ptr].entries) >= 2
         /\ ItemsBelow[root.height - 1][disk[root.ptr].entries] = UpTo(count)

\* What ctree_builder_cancel would give back is what the allocator holds for
\* this builder, page for page, at every step; after it nothing is left.
ReservedIsHeld ==
  IF pc = "cancelled" THEN held = {}
  ELSE /\ held = UNION {ranges[i].begin..(ranges[i].end - 1) : i \in DOMAIN ranges}
       /\ pages = Cardinality(held)

\* The nodes written lie in pages of this builder and do not overlap, and when
\* no call had to be made twice they fill them: builder->pages is the size of
\* the tree.
NodesFillThePages ==
  LET place(o) == o..(o + disk[o].size - 1)
  IN  pc # "cancelled" =>
        /\ \A o \in DOMAIN disk : place(o) \subseteq held
        /\ \A o, p \in DOMAIN disk : o # p => place(o) \cap place(p) = {}
        /\ (pc = "done" /\ failures = 0) => held = UNION {place(o) : o \in DOMAIN disk}

\* An append writes past the buffer of its node only when the entry alone is
\* larger than the buffer it finds, one page at least, whatever the nodes before
\* have left of it; and the pages ctree_node_write takes are all in the buffer.
OnlyLargeEntriesOverrun ==
  /\ pc = "overrun" => Last(carry).size > Ensured[Top + 1].max
  /\ \A l \in DOMAIN node : PageSize * PagesOf(node[l].bytes) <= node[l].max
=============================================================================
