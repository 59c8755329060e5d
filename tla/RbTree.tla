------------------------------- MODULE RbTree -------------------------------
(***************************************************************************)
(* util/rbtree.c, with the search of lib/mtree.c that links new nodes.     *)
(* Links, colours and the root change as the C code changes them, a turn   *)
(* of a fix-up loop being a step.  The code writes every case twice, for   *)
(* the left and for the right; here the side is a parameter.               *)
(*                                                                         *)
(* A node is a key and 1, or 2 for its twin: mtree_add replaces the node   *)
(* of a key it finds by another one with that key (rb_swap_nodes).         *)
(***************************************************************************)
EXTENDS Integers, FiniteSetsExt

CONSTANTS
  KeyCount,      \* keys are 1 .. KeyCount, in the order of tree->cmp
  Twins,         \* the keys with a second node; no other key is replaced
  Nil

ASSUME RbTreeAssumption ==
  /\ KeyCount \in Nat
  /\ Twins \subseteq 1..KeyCount
  /\ Nil \notin (1..KeyCount) \X {1, 2}

Key == 1..KeyCount
Node == (Key \X {1}) \cup (Twins \X {2})
KeyOf(n) == n[1]

Side == {"left", "right"}
Other(s) == IF s = "left" THEN "right" ELSE "left"

VARIABLES
  t,       \* the tree: root, child, parent and the set of red nodes
  nodes,   \* the nodes linked into the tree and not freed
  pc,      \* "idle", or the loop that runs: "insert" or "erase"
  cur,     \* its node, or child
  up       \* rb_erase_fix: its parent

vars == <<t, nodes, pc, cur, up>>

-----------------------------------------------------------------------------
(* Links                                                                   *)

\* Mutant: the root is never set.
RelinkNotRoot(tr, p, old, new) ==
  IF p = Nil THEN tr
  ELSE [tr EXCEPT !.child[IF tr.child["left"][p] = old THEN "left" ELSE "right"][p] = new]

\* The parts of rb_rotate_left, rb_rotate_right, rb_swap_nodes and rb_erase
\* that put new where old hangs.
Relink(tr, p, old, new) ==
  IF p = Nil THEN [tr EXCEPT !.root = new]
  ELSE [tr EXCEPT !.child[IF tr.child["left"][p] = old THEN "left" ELSE "right"][p] = new]

\* Mutant: the subtree that changes sides keeps its parent.
RotateLosesParent(tr, x, s) ==
  LET p == tr.parent[x]
      r == tr.child[Other(s)][x]
  IN  [Relink(tr, p, x, r) EXCEPT
         !.child[Other(s)][x] = tr.child[s][r],
         !.child[s][r] = x,
         !.parent[x] = r, !.parent[r] = p]

\* rb_rotate_left(x) for s = "left", rb_rotate_right(x) for s = "right": x goes
\* down to side s, its child on the other side takes its place.
Rotate(tr, x, s) ==
  LET p == tr.parent[x]
      r == tr.child[Other(s)][x]
      inner == tr.child[s][r]
  IN  [Relink(tr, p, x, r) EXCEPT
         !.child[Other(s)][x] = inner,
         !.child[s][r] = x,
         !.parent = [n \in Node |-> IF n = x THEN r ELSE IF n = r THEN p
                                    ELSE IF n = inner THEN x ELSE @[n]]]

Red(tr, n) == n \in tr.red
Black(tr, n) == n \notin tr.red
SetBlack(tr, n) == [tr EXCEPT !.red = @ \ {n}]
SetRed(tr, n) == [tr EXCEPT !.red = @ \cup {n}]

\* What a node outside the tree holds does not matter.
Forget(tr, n) ==
  [tr EXCEPT !.child["left"][n] = Nil, !.child["right"][n] = Nil, !.parent[n] = Nil,
             !.red = @ \ {n}]

\* __rb_leftmost, __rb_rightmost
Extreme(tr, n, s) ==
  LET down[m \in Node] == IF tr.child[s][m] = Nil THEN m ELSE down[tr.child[s][m]]
  IN  IF n = Nil THEN Nil ELSE down[n]

\* rb_next for s = "right", rb_prev for s = "left"
Neighbour(tr, n, s) ==
  LET climb[m \in Node] ==
        IF tr.parent[m] # Nil /\ tr.child[s][tr.parent[m]] = m THEN climb[tr.parent[m]]
        ELSE tr.parent[m]
  IN  IF tr.child[s][n] # Nil THEN Extreme(tr, tr.child[s][n], Other(s)) ELSE climb[n]

-----------------------------------------------------------------------------
(* mtree_add                                                               *)

\* The loop of __mtree_insert: the node that has key k, or the one a new node
\* will hang from.
Descend(tr, k) ==
  LET toward(m) == IF KeyOf(m) < k THEN "right" ELSE "left"
      down[m \in Node] ==
        IF KeyOf(m) = k \/ tr.child[toward(m)][m] = Nil THEN m ELSE down[tr.child[toward(m)][m]]
  IN  IF tr.root = Nil THEN Nil ELSE down[tr.root]

\* rb_link, and rb_insert up to its loop; a node starts red.
Insert(n) ==
  LET p == Descend(t, KeyOf(n))
  IN  /\ pc = "idle" /\ n \notin nodes
      /\ p # Nil => KeyOf(p) # KeyOf(n)
      /\ t' = LET linked == IF p = Nil THEN [t EXCEPT !.root = n]
                            ELSE [t EXCEPT !.child[IF KeyOf(p) < KeyOf(n) THEN "right" ELSE "left"][p] = n,
                                           !.parent[n] = p]
              IN  SetRed(linked, n)
      /\ nodes' = nodes \cup {n}
      /\ pc' = "insert" /\ cur' = n
      /\ UNCHANGED up

\* rb_swap_nodes, and the old node is freed.
Replace(n) ==
  LET old == Descend(t, KeyOf(n))
      moved == [t EXCEPT !.child["left"][n] = t.child["left"][old],
                         !.child["right"][n] = t.child["right"][old],
                         !.parent = [m \in Node |->
                            IF m = n THEN t.parent[old]
                            ELSE IF m \in {t.child[s][old] : s \in Side} THEN n ELSE @[m]],
                         !.red = IF old \in @ THEN @ \cup {n} ELSE @]
  IN  /\ pc = "idle" /\ n \notin nodes
      /\ old # Nil /\ KeyOf(old) = KeyOf(n)
      /\ t' = Forget(Relink(moved, t.parent[old], old, n), old)
      /\ nodes' = (nodes \ {old}) \cup {n}
      /\ UNCHANGED <<pc, cur, up>>

-----------------------------------------------------------------------------
(* The loop of rb_insert                                                   *)

ParentIsRed == t.parent[cur] # Nil /\ Red(t, t.parent[cur])

\* The side of its own parent that the parent of cur hangs from.
InsertSide == IF t.child["left"][t.parent[t.parent[cur]]] = t.parent[cur] THEN "left" ELSE "right"
Uncle == t.child[Other(InsertSide)][t.parent[t.parent[cur]]]

\* Mutant: the loop does not go on at the grandparent.
InsertRecolourStays ==
  /\ pc = "insert" /\ ParentIsRed /\ Red(t, Uncle)
  /\ LET p == t.parent[cur]
         g == t.parent[p]
     IN  t' = SetBlack(SetBlack(SetRed(t, g), p), Uncle)
  /\ UNCHANGED <<nodes, pc, cur, up>>

\* A red uncle: both become black, the grandparent red, and the loop goes on there.
InsertRecolour ==
  /\ pc = "insert" /\ ParentIsRed /\ Red(t, Uncle)
  /\ LET p == t.parent[cur]
         g == t.parent[p]
     IN  /\ t' = SetBlack(SetBlack(SetRed(t, g), p), Uncle)
         /\ cur' = g
  /\ UNCHANGED <<nodes, pc, up>>

\* A black uncle, or none: one rotation or two, and the loop ends.
InsertRotate ==
  /\ pc = "insert" /\ ParentIsRed /\ Black(t, Uncle)
  /\ LET s == InsertSide
         p == t.parent[cur]
         g == t.parent[p]
         inner == t.child[Other(s)][p] = cur
         turned == IF inner THEN Rotate(t, p, s) ELSE t
         top == IF inner THEN cur ELSE p
         done == SetRed(SetBlack(Rotate(turned, g, Other(s)), top), g)
     IN  t' = SetBlack(done, done.root)
  /\ pc' = "idle" /\ cur' = Nil
  /\ UNCHANGED <<nodes, up>>

InsertEnds ==
  /\ pc = "insert" /\ ~ParentIsRed
  /\ t' = SetBlack(t, t.root)
  /\ pc' = "idle" /\ cur' = Nil
  /\ UNCHANGED <<nodes, up>>

-----------------------------------------------------------------------------
(* rb_erase                                                                *)

\* Who takes the place of n: with two children its successor, else its child.
Heir(n) ==
  IF t.child["left"][n] # Nil /\ t.child["right"][n] # Nil THEN Neighbour(t, n, "right")
  ELSE IF t.child["left"][n] # Nil THEN t.child["left"][n] ELSE t.child["right"][n]

\* n has two children and x, its successor, takes its links and its colour; c,
\* the child of x, takes the place of x, unless x is the right child of n.
Promote(n, x) ==
  LET c == t.child["right"][x]
      direct == x = t.child["right"][n]
      left == t.child["left"][n]
      right == IF direct THEN c ELSE t.child["right"][n]
      placed == IF direct THEN t ELSE [t EXCEPT !.child["left"][t.parent[x]] = c]
  IN  [placed EXCEPT
         !.child["left"][x] = left,
         !.child["right"][x] = right,
         !.parent = [m \in Node |-> IF m = x THEN t.parent[n]
                                    ELSE IF m = c THEN IF direct THEN x ELSE t.parent[x]
                                    ELSE IF m \in {left, right} THEN x ELSE @[m]],
         !.red = IF n \in @ THEN @ \cup {x} ELSE @ \ {x}]

Erase(n) ==
  LET x == Heir(n)
      two == t.child["left"][n] # Nil /\ t.child["right"][n] # Nil
      child == IF two THEN t.child["right"][x] ELSE x
      p == IF ~two THEN t.parent[n] ELSE IF x = t.child["right"][n] THEN x ELSE t.parent[x]
      wasBlack == Black(t, IF two THEN x ELSE n)
      moved == IF two THEN Promote(n, x)
               ELSE IF x # Nil THEN [t EXCEPT !.parent[x] = t.parent[n]] ELSE t
  IN  /\ pc = "idle" /\ n \in nodes
      /\ t' = Forget(Relink(moved, t.parent[n], n, x), n)
      /\ nodes' = nodes \ {n}
      /\ pc' = IF wasBlack THEN "erase" ELSE "idle"
      /\ cur' = IF wasBlack THEN child ELSE Nil
      /\ up' = IF wasBlack THEN p ELSE Nil

-----------------------------------------------------------------------------
(* The loop of rb_erase_fix                                                *)

EraseLoops == Black(t, cur) /\ cur # t.root
EraseSide == IF t.child["left"][up] = cur THEN "left" ELSE "right"

\* The first part of a turn: a red brother is rotated above the parent, so that
\* the brother is black.
Brothered ==
  LET b == t.child[Other(EraseSide)][up]
  IN  IF Red(t, b) THEN Rotate(SetRed(SetBlack(t, b), up), up, EraseSide) ELSE t

Brother == Brothered.child[Other(EraseSide)][up]

BlackNephews == \A s \in Side : Black(t, Brothered.child[s][Brother])

\* Two black nephews: the brother turns red, and the loop goes on one level up.
EraseUp ==
  /\ pc = "erase" /\ EraseLoops /\ BlackNephews
  /\ t' = SetRed(Brothered, Brother)
  /\ cur' = up
  /\ up' = Brothered.parent[up]
  /\ UNCHANGED <<nodes, pc>>

\* Mutant: the brother does not take the colour of the parent.
KeepColour(tr, n, from) == tr

\* rb_set_color(n, rb_color(from))
TakeColour(tr, n, from) == IF Red(tr, from) THEN SetRed(tr, n) ELSE SetBlack(tr, n)

\* A red nephew: it is brought to the outer side, the brother rotated above the
\* parent with the colour of the parent, and the loop ends.
EraseRotate ==
  /\ pc = "erase" /\ EraseLoops /\ ~BlackNephews
  /\ LET s == EraseSide
         inner == Brothered.child[s][Brother]
         ready == IF Red(Brothered, Brothered.child[Other(s)][Brother]) THEN Brothered
                  ELSE Rotate(SetRed(SetBlack(Brothered, inner), Brother), Brother, Other(s))
         b == ready.child[Other(s)][up]
         outer == ready.child[Other(s)][b]
         done == Rotate(SetBlack(SetBlack(TakeColour(ready, b, up), up), outer), up, s)
     IN  t' = SetBlack(done, done.root)
  /\ pc' = "idle" /\ cur' = Nil /\ up' = Nil
  /\ UNCHANGED nodes

EraseEnds ==
  /\ pc = "erase" /\ ~EraseLoops
  /\ t' = SetBlack(t, cur)
  /\ pc' = "idle" /\ cur' = Nil /\ up' = Nil
  /\ UNCHANGED nodes

-----------------------------------------------------------------------------

\* An empty tree.
Init ==
  /\ t = [root |-> Nil, child |-> [s \in Side |-> [n \in Node |-> Nil]],
          parent |-> [n \in Node |-> Nil], red |-> {}]
  /\ nodes = {}
  /\ pc = "idle" /\ cur = Nil /\ up = Nil

InsertTurn == InsertRecolour \/ InsertRotate \/ InsertEnds

EraseTurn == EraseUp \/ EraseRotate \/ EraseEnds

Next ==
  \/ \E n \in Node : Insert(n) \/ Replace(n) \/ Erase(n)
  \/ InsertTurn
  \/ EraseTurn

Spec == Init /\ [][Next]_vars

-----------------------------------------------------------------------------

TypeOK ==
  /\ t.root \in nodes \cup {Nil}
  /\ t.child \in [Side -> [Node -> nodes \cup {Nil}]]
  /\ t.parent \in [Node -> nodes \cup {Nil}]
  /\ t.red \subseteq nodes
  /\ nodes \subseteq Node
  /\ pc \in {"idle", "insert", "erase"}
  /\ cur \in nodes \cup {Nil} /\ up \in nodes \cup {Nil}

\* Whatever has been rotated, replaced or removed, also between two turns of a
\* fix-up: a node is linked once, from the node it names as its parent.
LinksMatch ==
  \A n \in nodes :
    /\ \A s \in Side : t.child[s][n] # Nil => t.parent[t.child[s][n]] = n
    /\ IF n = t.root THEN t.parent[n] = Nil
       ELSE Cardinality({s \in Side : t.child[s][t.parent[n]] = n}) = 1

\* m has the best of the keys ks, or is no node if there are none.
IsNext(m, ks, best(_)) == IF ks = {} THEN m = Nil ELSE m \in nodes /\ KeyOf(m) = best(ks)

\* The tree is the ordered map of its nodes: rb_next and rb_prev walk the keys in
\* order, none left out, rb_leftmost and rb_rightmost are its ends, and the search
\* of mtree_add finds every key, also between two turns of a fix-up.
WalksInOrder ==
  LET keys == {KeyOf(n) : n \in nodes}
  IN  /\ LinksMatch
      /\ IsNext(Extreme(t, t.root, "left"), keys, Min)
      /\ IsNext(Extreme(t, t.root, "right"), keys, Max)
      /\ \A n \in nodes :
           /\ IsNext(Neighbour(t, n, "right"), {k \in keys : k > KeyOf(n)}, Min)
           /\ IsNext(Neighbour(t, n, "left"), {k \in keys : k < KeyOf(n)}, Max)
           /\ Descend(t, KeyOf(n)) = n

\* Black nodes on the way down from n, or -1 if two ways differ; during
\* rb_erase_fix the node cur, which may be no node at all, counts once more.
BlackHeight[n \in Node] ==
  LET extra == IF pc = "erase" /\ cur = n THEN 1 ELSE 0
      under(s) == IF t.child[s][n] # Nil THEN BlackHeight[t.child[s][n]]
                  ELSE IF pc = "erase" /\ cur = Nil /\ up = n /\ s = EraseSide THEN 1 ELSE 0
      left == under("left")
      right == under("right")
  IN  IF left = -1 \/ left # right THEN -1 ELSE left + extra + IF Red(t, n) THEN 0 ELSE 1

\* The red-black rules, with what a fix-up still has to put right: during
\* rb_insert only the node it stands on may be red under a red parent, or a red
\* root; during rb_erase_fix the ways through its node are one black short, and
\* if it is red it counts as the black node it is going to be.
\* Between calls the rules hold, and the height is logarithmic.
RedBlack ==
  /\ t.root # Nil => BlackHeight[t.root] # -1
  /\ \A n \in t.red :
       n # cur => /\ t.parent[n] # Nil
                  /\ Black(t, t.parent[n]) \/ (pc = "erase" /\ t.parent[n] = cur)

\* How many nodes are above the place a fix-up stands on.
PlaceDepth ==
  LET depth[n \in Node] == IF t.parent[n] = Nil THEN 0 ELSE 1 + depth[t.parent[n]]
  IN  IF cur # Nil THEN depth[cur] ELSE IF up # Nil THEN 1 + depth[up] ELSE 0

\* A turn after which the loop goes on is made higher up, or the loop will stop.
TurnClimbs ==
  pc # "idle" /\ pc' = pc =>
    \/ PlaceDepth' < PlaceDepth
    \/ pc = "erase" /\ PlaceDepth' = PlaceDepth /\ cur' \in t'.red

\* The fix-up loops end: each turn that is not the last goes up, but for one over a
\* red brother, which leaves a red node, where the loop stops.  A call thus
\* takes no more turns than the tree is high, and one.
FixUpClimbs == [][TurnClimbs]_vars
=============================================================================
