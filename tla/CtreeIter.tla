----------------------------- MODULE CtreeIter -----------------------------
(***************************************************************************)
(* struct ctree_iter of lib/ctree.c, over the trees CtreeBuilder writes:   *)
(* the nodes on the way from the root to an item, and the position in each *)
(* of them.  Nodes are read only when the way leaves the one held; a read  *)
(* that fails leaves the upper part of the way new and the lower part old  *)
(* or released.                                                            *)
(*                                                                         *)
(* Nothing changes a finished tree and an iterator is used by one thread,  *)
(* so a call is a step; it ends at any of the reads that may fail.         *)
(***************************************************************************)
EXTENDS CtreeBuilder

CONSTANT
  WalkCounts    \* bound: the numbers of items of the trees that are walked

VARIABLES
  path,   \* iter->node[l] and iter->pos[l]; <<>> before ctree_iter_prepare
  ready,  \* the last positioning call succeeded and nothing failed since
  call,   \* the last call, with the key it was given, or 0
  rc      \* what it returned, or "abort" when an assert failed

iterVars == <<path, ready, call, rc>>
allVars == <<vars, iterVars>>

\* No guard reads call: it says which step was taken, for CtreeIsCursor, and
\* two states that differ in it only have the same steps.
WithoutCall == <<vars, path, ready, rc>>

\* The place of an item; a caller may look for the places in between, too.
Place(item) == 2 * item
Sought == 1..(2 * MaxItems + 1)

-----------------------------------------------------------------------------
(* The way from the root                                                   *)

Levels == 0..(root.height - 1)
Released == 0       \* iter->node[l] is NULL
NoItem == 0         \* ctree_key returns -ENOENT

Entries(o) == disk[o].entries

\* ctree_node_ptr
ChildOf(step) == Entries(step.node)[step.pos + 1].ptr

\* A choice of positions: for a node and its level, the entry to go down by.
Choice(Pos(_, _)) == [o \in DOMAIN disk |-> [l \in Levels |-> Pos(o, l)]]

AtFirst == Choice(LAMBDA o, l : 0)
AtLast == Choice(LAMBDA o, l : Len(Entries(o)) - 1)

\* ctree_end: past the last item.
AtEnd == Choice(LAMBDA o, l : Len(Entries(o)) - (IF l = 0 THEN 0 ELSE 1))

\* __ctree_node_lower_bound
LowerPos(o, k) ==
  Min({i \in DOMAIN Entries(o) : Place(Entries(o)[i].key) >= k} \cup {Len(Entries(o)) + 1}) - 1

\* __ctree_node_upper_bound
UpperPos(o, k) ==
  Min({i \in DOMAIN Entries(o) : Place(Entries(o)[i].key) > k} \cup {Len(Entries(o)) + 1}) - 1

\* The positions __ctree_lookup takes.
AtSought(k) ==
  Choice(LAMBDA o, l : IF l = 0 THEN LowerPos(o, k) ELSE Max({UpperPos(o, k) - 1, 0}))

\* The way p from level top down, each position as chosen.
Descend(p, top, choice) ==
  LET way[l \in Levels] ==
        IF l > top THEN p[l]
        ELSE LET o == IF l = root.height - 1 THEN root.ptr ELSE ChildOf(way[l + 1])
             IN  [node |-> o, pos |-> choice[o][l]]
  IN  way

\* ctree_node_read of the levels from top down, any of which may fail; a node
\* that is held already is not read again unless again is TRUE.
Read(p, top, choice, again) ==
  LET new == Descend(p, top, choice)
      upTo(f) == [l \in Levels |-> IF l > f THEN new[l] ELSE p[l]]
  IN  {[path |-> new, rc |-> "ok"]} \cup
      {[path |-> upTo(f), rc |-> "error"] :
         f \in {l \in 0..top : again \/ p[l].node # new[l].node}}

Prepared(p) ==
  IF p = <<>> THEN [l \in Levels |-> [node |-> Released, pos |-> 0]] ELSE p

\* ctree_iter_prepare fails.
NotPrepared(p) == IF p = <<>> THEN {[path |-> p, rc |-> "error"]} ELSE {}

-----------------------------------------------------------------------------
(* What a call may lead to: sets of paths with what is returned            *)

\* The step is taken at level top; the nodes below it are released and read
\* anew, each at the position chosen.
StepAt(p, top, by, choice) ==
  Read([l \in Levels |-> IF l < top THEN [p[l] EXCEPT !.node = Released]
                         ELSE IF l = top THEN [p[l] EXCEPT !.pos = @ + by]
                         ELSE p[l]],
       top - 1, choice, FALSE)

\* There is an entry before it, or after it, in the node.
HasRoom(step, by) ==
  IF by = 1 THEN step.pos + 1 < Len(Entries(step.node)) ELSE step.pos > 0

\* The loop that looks for the level to step at asserts that every node it
\* passes is there.
Step(p, by, choice, stay) ==
  LET stops == {l \in Levels : p[l].node = Released \/ HasRoom(p[l], by)}
  IN  IF stops = {} THEN {[path |-> stay, rc |-> "enoent"]}
      ELSE IF p[Min(stops)].node = Released THEN {[path |-> p, rc |-> "abort"]}
      ELSE StepAt(p, Min(stops), by, choice)

\* Mutant: past the end again and again.
GoesPastEnd(p) == IF root.height > 0 THEN [p EXCEPT ![0].pos = @ + 1] ELSE p

\* ctree_next with nothing above: past the last item, and there it stays.
StaysAtEnd(p) ==
  IF root.height > 0 /\ p[0].pos # Len(Entries(p[0].node))
  THEN [p EXCEPT ![0].pos = @ + 1] ELSE p

\* ctree_next
NextOf(p) ==
  Step(p, 1, AtFirst,
       IF \A l \in Levels : p[l].node # Released THEN StaysAtEnd(p) ELSE p)

\* Mutant: before the first item, too.
PrevBelowFirst(p) ==
  Step(p, -1, AtLast,
       IF root.height = 0 THEN p ELSE [p EXCEPT ![0].pos = @ - 1])

\* Mutant: the item before the first of a leaf is the first of the leaf before.
PrevOfFirst(p) == Step(p, -1, AtFirst, p)

\* ctree_prev
PrevOf(p) == Step(p, -1, AtLast, p)

AtLeafEnd(p) == p[0].pos = Len(Entries(p[0].node))

\* The outcomes of a first call, and for those that succeed of what follows.
Then(outcomes, Follow(_)) ==
  UNION {IF o.rc = "ok" THEN Follow(o.path) ELSE {o} : o \in outcomes}

\* Mutant: a node that is held is taken for the right one.
LookupKeepsNodes(p, k) ==
  LET new == Descend(Prepared(p), root.height - 1, AtSought(k))
  IN  {[rc |-> "ok",
        path |-> [l \in Levels |->
                    IF Prepared(p)[l].node = Released THEN new[l]
                    ELSE [p[l] EXCEPT !.pos = AtSought(k)[p[l].node][l]]]]}

\* __ctree_lookup
LookupIn(p, k) ==
  NotPrepared(p) \cup
  Read(Prepared(p), root.height - 1, AtSought(k), FALSE)

\* ctree_lower_bound: an item above may be in the next leaf only.
LowerBound(p, k) ==
  IF root.height = 0 THEN {[path |-> p, rc |-> "ok"]}
  ELSE Then(LookupIn(p, k), LAMBDA q :
         IF ~AtLeafEnd(q) THEN {[path |-> q, rc |-> "ok"]}
         ELSE {IF o.rc = "enoent" THEN [o EXCEPT !.rc = "ok"] ELSE o : o \in NextOf(q)})

\* The item under the iterator, or NoItem.
ItemAt(p) ==
  IF p = <<>> \/ root.height = 0 THEN NoItem
  ELSE IF p[0].node = Released \/ AtLeafEnd(p) THEN NoItem
  ELSE Entries(p[0].node)[p[0].pos + 1].key

StandsOn(p, k) == ItemAt(p) # NoItem /\ Place(ItemAt(p)) = k

\* ctree_upper_bound returns what ctree_next returns, -ENOENT too.
UpperBound(p, k) ==
  Then(LowerBound(p, k), LAMBDA q :
    IF StandsOn(q, k) THEN NextOf(q) ELSE {[path |-> q, rc |-> "ok"]})

\* ctree_lookup
Lookup(p, k) ==
  Then(LowerBound(p, k), LAMBDA q :
    {[path |-> q, rc |-> IF StandsOn(q, k) THEN "found" ELSE "absent"]})

-----------------------------------------------------------------------------
(* The calls                                                               *)

\* A tree whose build was disturbed holds the same nodes in other places.
Undisturbed == failures = 0 /\ Len(ranges) <= 1

\* The tree has been built and ctree_reset and ctree_iter_setup called.
CanCall == pc = "done" /\ Undisturbed /\ count \in WalkCounts /\ rc # "abort"

Positions(name, k, outcomes) ==
  /\ CanCall
  /\ call' = <<name, k>>
  /\ \E o \in outcomes :
       /\ path' = o.path
       /\ rc' = o.rc
       /\ ready' = (o.rc \notin {"error", "abort"})
  /\ UNCHANGED vars

CtreeBegin ==
  Positions("begin", 0,
    NotPrepared(path) \cup Read(Prepared(path), root.height - 1, AtFirst, TRUE))

CtreeEnd ==
  Positions("end", 0,
    NotPrepared(path) \cup Read(Prepared(path), root.height - 1, AtEnd, TRUE))

CtreeLowerBound(k) == Positions("lower_bound", k, LowerBound(path, k))

CtreeUpperBound(k) == Positions("upper_bound", k, UpperBound(path, k))

CtreeLookup(k) == Positions("lookup", k, Lookup(path, k))

\* A step from wherever the iterator has got to, after an error too.
Steps(name, outcomes) ==
  /\ CanCall
  /\ call' = <<name, 0>>
  /\ path # <<>> \/ root.height = 0
  /\ \E o \in outcomes :
       /\ path' = o.path
       /\ rc' = o.rc
       /\ ready' = (ready /\ o.rc \notin {"error", "abort"})
  /\ UNCHANGED vars

CtreeNext == Steps("next", NextOf(path))

CtreePrev == Steps("prev", PrevOf(path))

IterInit == Init /\ path = <<>> /\ ready = FALSE /\ call = <<"setup", 0>> /\ rc = "ok"

IterNext ==
  \/ Next /\ UNCHANGED iterVars
  \/ CtreeBegin
  \/ CtreeEnd
  \/ \E k \in Sought : CtreeLowerBound(k)
  \/ \E k \in Sought : CtreeUpperBound(k)
  \/ \E k \in Sought : CtreeLookup(k)
  \/ CtreeNext
  \/ CtreePrev

IterSpec == IterInit /\ [][IterNext]_allVars

-----------------------------------------------------------------------------

Cursor == INSTANCE LsmCursor WITH
            End <- 2 * MaxItems + 2,
            Value <- 1..MaxItems,
            None <- NoItem,
            Loose <- {},
            items <- [k \in Sought |->
                        IF root.height > 0 /\ k % 2 = 0 /\ k \div 2 <= count
                        THEN k \div 2 ELSE NoItem],
            at <- IF ItemAt(path) = NoItem THEN 2 * MaxItems + 2 ELSE Place(ItemAt(path)),
            val <- ItemAt(path)

\* Every variable has its type.
IterTypeOK ==
  /\ TypeOK
  /\ path # <<>> => path \in [Levels -> [node : DOMAIN disk \cup {Released}, pos : 0..MaxItems]]
  /\ ready \in BOOLEAN
  /\ call \in Cursor!Calls /\ rc \in Cursor!Results

\* While nothing has failed the iterator holds the way from the root to one
\* leaf: every node is the child its parent stands on, however the calls before
\* mixed steps with searches that reuse nodes.
ReadyPathIsWhole ==
  ready /\ root.height > 0 =>
    \A l \in Levels :
      /\ path[l].node = IF l = root.height - 1 THEN root.ptr ELSE ChildOf(path[l + 1])
      /\ path[l].pos < Len(Entries(path[l].node)) + (IF l = 0 THEN 1 ELSE 0)

\* Whatever has failed half way, only the lower part of the path is released,
\* a node is held at its own level, and its position is one of its entries, or
\* the end of a leaf: no call reads past a node.
HeldPositionsExist ==
  path # <<>> =>
    \A l \in Levels :
      IF path[l].node = Released THEN \A m \in 0..l : path[m].node = Released
      ELSE /\ disk[path[l].node].level = l
           /\ path[l].pos < Len(Entries(path[l].node)) + (IF l = 0 THEN 1 ELSE 0)

\* Over every tree the builder finishes, an iterator is a cursor over the items
\* appended: it goes through all of them in both directions across leaves of
\* any level, finds what is there and nothing else, and any positioning call
\* repairs it after a failed read.
CtreeIsCursor ==
  [][pc = "done" => Cursor!Next \/ UNCHANGED Cursor!cursorVars]_allVars
=============================================================================
