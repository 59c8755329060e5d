------------------------------- MODULE Mtree -------------------------------
(***************************************************************************)
(* lib/mtree.c: the ordered map in memory, a red-black tree with iterators *)
(* that are pointers to its nodes.  The tree of RbTree is c0, which        *)
(* lsm_add changes; mtree_swap exchanges it with c1, which only a swap and *)
(* mtree_reset change.  The iterator is one of c0 (it0 of lsm_iter).  Its  *)
(* calls fall between those of mtree_add, never into them (the locks of    *)
(* mtree.h:22-26); nothing stops an update between two calls.              *)
(***************************************************************************)
EXTENDS RbTree

CONSTANT Sought   \* the keys the iterator is asked for

ASSUME MtreeAssumption == Sought \subseteq Key

VARIABLES
  c1,      \* the other tree, with its nodes
  node     \* iter->node

mtreeVars == <<vars, c1, node>>

None == [tree |-> [root |-> Nil, child |-> [s \in Side |-> [n \in Node |-> Nil]],
                   parent |-> [n \in Node |-> Nil], red |-> {}],
         nodes |-> {}]

\* The nodes malloc has given out and free has not taken back.
Live == nodes \cup c1.nodes

\* The links that node n is part of.
Around(n) == IF n \in c1.nodes THEN c1.tree ELSE t

-----------------------------------------------------------------------------
(* Updates                                                                 *)

\* mtree_add.  A node that cannot be allocated leaves everything as it was.
MtreeAdd(n) ==
  /\ n \notin c1.nodes
  /\ Insert(n) \/ Replace(n)
  /\ UNCHANGED <<c1, node>>

\* The turns of rb_insert, rb_erase with its turns.
RbCall ==
  /\ InsertTurn \/ EraseTurn \/ \E n \in Node : Erase(n)
  /\ UNCHANGED <<c1, node>>

MtreeSwap ==
  /\ pc = "idle"
  /\ t' = c1.tree /\ nodes' = c1.nodes
  /\ c1' = [tree |-> t, nodes |-> nodes]
  /\ UNCHANGED <<pc, cur, up, node>>

\* Mutant: the loop over the left children ends at a node without a right child.
ReleasedRightFirst(tr, n) ==
  LET freed[m \in Node] ==
        (IF tr.child["right"][m] = Nil THEN {} ELSE freed[tr.child["right"][m]])
          \cup (IF Nil \in {tr.child[s][m] : s \in Side} THEN {} ELSE freed[tr.child["left"][m]])
          \cup {m}
  IN  IF n = Nil THEN {} ELSE freed[n]

\* The nodes __mtree_release(n) frees.
Released(tr, n) ==
  LET freed[m \in Node] ==
        {m} \cup UNION {IF tr.child[s][m] = Nil THEN {} ELSE freed[tr.child[s][m]] : s \in Side}
  IN  IF n = Nil THEN {} ELSE freed[n]

\* mtree_reset.  A node that was not freed would stay allocated for good.
MtreeReset ==
  /\ pc = "idle" /\ c1.tree.root # Nil
  /\ c1' = [None EXCEPT !.nodes = c1.nodes \ Released(c1.tree, c1.tree.root)]
  /\ UNCHANGED <<vars, node>>

-----------------------------------------------------------------------------
(* The iterator                                                            *)

\* Mutant: a node with the key itself is passed over.
LowerBoundAbove(k) ==
  LET low[n \in Node] ==
        LET s == IF KeyOf(n) > k THEN "left" ELSE "right"
            below == IF t.child[s][n] = Nil THEN Nil ELSE low[t.child[s][n]]
        IN  IF below = Nil /\ KeyOf(n) > k THEN n ELSE below
  IN  IF t.root = Nil THEN Nil ELSE low[t.root]

\* The last node at or above k on the way down.
LowerBound(k) ==
  LET low[n \in Node] ==
        LET s == IF KeyOf(n) >= k THEN "left" ELSE "right"
            below == IF t.child[s][n] = Nil THEN Nil ELSE low[t.child[s][n]]
        IN  IF below = Nil /\ KeyOf(n) >= k THEN n ELSE below
  IN  IF t.root = Nil THEN Nil ELSE low[t.root]

\* The last node at or below k on the way down.
UpperBound(k) ==
  LET high[n \in Node] ==
        LET s == IF KeyOf(n) <= k THEN "right" ELSE "left"
            below == IF t.child[s][n] = Nil THEN Nil ELSE high[t.child[s][n]]
        IN  IF below = Nil /\ KeyOf(n) <= k THEN n ELSE below
  IN  IF t.root = Nil THEN Nil ELSE high[t.root]

Settles(n) == pc = "idle" /\ node' = n /\ UNCHANGED <<vars, c1>>

MtreeLowerBound(k) == Settles(LowerBound(k))

MtreeUpperBound(k) == Settles(UpperBound(k))

MtreeLookup(k) ==
  LET low == LowerBound(k)
  IN  Settles(IF low # Nil /\ KeyOf(low) = k THEN low ELSE Nil)

MtreeBegin == Settles(Extreme(t, t.root, "left"))

MtreeEnd == Settles(Nil)

\* The calls below read the node, which must not have been freed: lsm_add frees
\* the node it replaces (mtree.c:109).
Usable == node = Nil \/ node \in Live

\* At the end: -ENOENT.
MtreeNext ==
  /\ Usable
  /\ Settles(IF node = Nil THEN Nil ELSE Neighbour(Around(node), node, "right"))

\* Mutant: from the first item on to the end.
MtreePrevWraps ==
  /\ Usable
  /\ Settles(IF node = Nil THEN Extreme(t, t.root, "right")
             ELSE Neighbour(Around(node), node, "left"))

\* At the first node of iter->tree, or in an empty tree: -ENOENT.
MtreePrev ==
  /\ Usable
  /\ Settles(IF node = Extreme(t, t.root, "left") THEN node
             ELSE IF node = Nil THEN Extreme(t, t.root, "right")
             ELSE Neighbour(Around(node), node, "left"))

-----------------------------------------------------------------------------

MtreeInit == Init /\ c1 = None /\ node = Nil

MtreeStep ==
  \/ \E n \in Node : MtreeAdd(n)
  \/ RbCall
  \/ MtreeSwap
  \/ MtreeReset
  \/ \E k \in Sought : MtreeLowerBound(k) \/ MtreeUpperBound(k) \/ MtreeLookup(k)
  \/ MtreeBegin
  \/ MtreeEnd
  \/ MtreeNext
  \/ MtreePrev

MtreeSpec == MtreeInit /\ [][MtreeStep]_mtreeVars

-----------------------------------------------------------------------------

MtreeTypeOK ==
  /\ TypeOK
  /\ c1.tree.root \in c1.nodes \cup {Nil}
  /\ nodes \cap c1.nodes = {}
  /\ node \in Node \cup {Nil}

\* Whatever has been added, replaced, erased, swapped and reset: a node that is
\* allocated hangs in one of the two trees, so that nothing leaks, and what hangs
\* in a tree has not been freed.
NothingLeaks ==
  /\ nodes = Released(t, t.root)
  /\ c1.nodes = Released(c1.tree, c1.tree.root)

\* n is the node of ns with the best key, or none if there is none.
IsBest(n, ns, best(_)) ==
  IF ns = {} THEN n = Nil ELSE n \in ns /\ KeyOf(n) = best({KeyOf(m) : m \in ns})

\* The nodes of the iterator's tree before and after key k; no node is the end.
Before(ns, k) == {m \in ns : KeyOf(m) < k}
After(ns, k) == {m \in ns : KeyOf(m) > k}

\* Where a call of the iterator goes, by the map as it is now.
MoveFollowsMap ==
  LET mine == IF node \in nodes THEN nodes ELSE c1.nodes
  IN  /\ MtreeNext /\ node # Nil => IsBest(node', After(mine, KeyOf(node)), Min)
      /\ MtreePrev /\ node \in nodes =>
           IF Before(nodes, KeyOf(node)) = {} THEN node' = node
           ELSE IsBest(node', Before(nodes, KeyOf(node)), Max)
      /\ MtreePrev /\ node = Nil => IsBest(node', nodes, Max)
      /\ MtreeBegin => IsBest(node', nodes, Min)
      /\ \A k \in Sought :
           /\ MtreeLowerBound(k) => IsBest(node', After(nodes, k - 1), Min)
           /\ MtreeUpperBound(k) => IsBest(node', Before(nodes, k + 1), Max)
           /\ MtreeLookup(k) => IsBest(node', {m \in nodes : KeyOf(m) = k}, Min)

\* An iterator needs no new positioning after updates that leave its node alone,
\* however the tree was rotated and relinked since: the next move goes to the
\* neighbour in the map as it is now, forwards also from the node of a tree that
\* was swapped away, and a move past the first item is refused.  The positioning
\* calls find their item whatever has become of the node they leave.
IterFollowsMap == [][MoveFollowsMap]_mtreeVars
=============================================================================
