---------------------------- MODULE MtreeProofs ----------------------------
(***************************************************************************)
(* Proofs about the red-black tree of util/rbtree.c and the memory tree of *)
(* lib/mtree.c, for any number of keys.                                    *)
(*                                                                         *)
(* The links of a tree are described by a function under, from each node   *)
(* to the nodes of its subtree: it makes "ordered tree" a statement about  *)
(* single nodes (Sorted), and the size of the subtree is a rank that goes  *)
(* down with the links.  An induction over the tree is then one over that  *)
(* rank (TreeInduction from the leaves, RootInduction from the root), and  *)
(* a loop that follows links has a function, since it ends (LoopExists).   *)
(* In the same way a function bh counts the black nodes below each node.   *)
(*                                                                         *)
(* The order of the module: trees and the loops that read them; what each  *)
(* action does to the links; what it does to the colours; the invariant    *)
(* RbInv of the tree and MtreeInv of the two trees with the iterator; the  *)
(* properties that follow.                                                 *)
(***************************************************************************)
EXTENDS Mtree, SequenceFacts

(***************************************************************************)
(* Ranks and walks                                                         *)
(***************************************************************************)

\* Induction: what holds of an element when it holds of all of lower rank holds
\* of all of them, since one of the least rank would be a counterexample.
LEMMA RankInduction ==
  ASSUME NEW D, NEW rank \in [D -> Nat], NEW S,
         \A m \in D : (\A x \in D : rank[x] < rank[m] => x \in S) => m \in S
  PROVE  \A m \in D : m \in S
<1> SUFFICES ASSUME NEW m \in D, m \notin S PROVE FALSE
  OBVIOUS
<1> DEFINE T == {rank[x] : x \in {y \in D : y \notin S}}
<1>1. T \in SUBSET Nat /\ T # {}
  OBVIOUS
<1>2. PICK x \in D : x \notin S /\ rank[x] = Min(T)
  <2>1. Min(T) \in T
    BY <1>1, MinIs
  <2> DEFINE least == Min(T)
  <2> HIDE DEF least
  <2>2. least \in T => \E x \in D : x \notin S /\ rank[x] = least
    OBVIOUS
  <2>3. QED
    BY <2>1, <2>2 DEF least
<1>3. \A y \in D : rank[y] < rank[x] => y \in S
  <2> SUFFICES ASSUME NEW y \in D, rank[y] < rank[x], y \notin S PROVE FALSE
    OBVIOUS
  <2>1. rank[y] \in T /\ rank[y] \in Nat /\ rank[x] \in Nat
    OBVIOUS
  <2>2. rank[x] <= rank[y]
    BY <1>1, <1>2, <2>1, MinIs
  <2>3. QED
    BY <2>1, <2>2
<1>4. QED
  BY <1>2, <1>3

\* The function a loop computes that goes from m to step[m] until there is no
\* step, takes last[m] there, and applies back[m] on the way back.
Loops(D, end, step, last, back, f) ==
  \A m \in D : f[m] = IF step[m] = end THEN last[m] ELSE back[m][f[step[m]]]

\* There is one, when every step goes down in rank.
LEMMA LoopExists ==
  ASSUME NEW D, NEW end, end \notin D, NEW V, NEW top \in Nat, NEW rank \in [D -> 0..top],
         NEW step \in [D -> D \cup {end}], NEW last \in [D -> V], NEW back \in [D -> [V -> V]],
         \A m \in D : step[m] # end => rank[step[m]] < rank[m]
  PROVE  \E f \in [D -> V] : Loops(D, end, step, last, back, f)
<1> DEFINE B(f, m) == IF step[m] = end THEN last[m] ELSE back[m][f[step[m]]]
           S == {n \in Nat : \E f \in [D -> V] : \A m \in D : rank[m] < n => f[m] = B(f, m)}
<1>1. ASSUME NEW f \in [D -> V], NEW m \in D PROVE B(f, m) \in V
  <2>1. step[m] # end => step[m] \in D
    OBVIOUS
  <2>2. QED
    BY <2>1
<1>2. ASSUME NEW f, NEW g, NEW m \in D, step[m] = end \/ f[step[m]] = g[step[m]]
      PROVE  B(f, m) = B(g, m)
  BY <1>2
<1> HIDE DEF B
<1>3. 0 \in S
  <2>1. last \in [D -> V] /\ \A m \in D : ~(rank[m] < 0)
    OBVIOUS
  <2>2. QED
    BY <2>1
<1>4. ASSUME NEW n \in Nat, n \in S PROVE n + 1 \in S
  <2>1. PICK f \in [D -> V] : \A m \in D : rank[m] < n => f[m] = B(f, m)
    BY <1>4
  <2> DEFINE g == [m \in D |-> B(f, m)]
  <2>2. g \in [D -> V]
    BY <1>1
  <2>3. ASSUME NEW m \in D, rank[m] < n + 1 PROVE g[m] = B(g, m)
    <3>1. g[m] = B(f, m)
      OBVIOUS
    <3>2. ASSUME step[m] # end PROVE g[step[m]] = f[step[m]]
      <4>1. step[m] \in D /\ rank[step[m]] < rank[m] /\ rank[m] \in Nat
        BY <3>2
      <4>2. rank[step[m]] \in Nat
        BY <4>1
      <4>3. rank[step[m]] < n
        BY <2>3, <4>1, <4>2
      <4>4. QED
        BY <2>1, <4>1, <4>3
    <3> HIDE DEF g
    <3>3. B(g, m) = B(f, m)
      BY <1>2, <3>2
    <3>4. QED
      BY <3>1, <3>3
  <2> HIDE DEF g
  <2>4. \E h \in [D -> V] : \A m \in D : rank[m] < n + 1 => h[m] = B(h, m)
    BY <2>2, <2>3
  <2>5. QED
    BY <2>4
<1>5. top + 1 \in S
  <2> HIDE DEF S
  <2>1. QED
    BY <1>3, <1>4, NaturalsIn
<1>6. PICK f \in [D -> V] : \A m \in D : rank[m] < top + 1 => f[m] = B(f, m)
  BY <1>5
<1>7. \A m \in D : f[m] = B(f, m)
  BY <1>6
<1>8. QED
  BY <1>7 DEF Loops, B

(***************************************************************************)
(* Sides and keys                                                          *)
(***************************************************************************)

\* What a link holds: a node, or none.
Link == Node \cup {Nil}

\* m lies on side s of n in the order of the keys.
Toward(s, m, n) == IF s = "left" THEN KeyOf(m) < KeyOf(n) ELSE KeyOf(m) > KeyOf(n)

\* The same of a key.
KeyToward(s, k, n) == IF s = "left" THEN k < KeyOf(n) ELSE k > KeyOf(n)

\* There are two sides, each the other's other.
LEMMA SidesAre ==
  /\ "left" \in Side /\ "right" \in Side
  /\ Other("left") = "right" /\ Other("right") = "left"
  /\ \A s \in Side : Other(s) \in Side /\ Other(s) # s /\ Other(Other(s)) = s
  /\ \A s, x \in Side : x = s \/ x = Other(s)
BY DEF Side, Other

\* The nodes are finitely many, none of them is Nil, and their keys are keys.
LEMMA NodesAre ==
  /\ IsFiniteSet(Node) /\ Cardinality(Node) \in Nat
  /\ Nil \notin Node
  /\ \A n \in Node : KeyOf(n) \in Nat /\ KeyOf(n) \in Key
<1>1. IsFiniteSet(Key) /\ IsFiniteSet(Twins) /\ IsFiniteSet({1}) /\ IsFiniteSet({2})
  <2>1. KeyCount \in Int /\ 1 \in Int /\ Twins \in SUBSET (1..KeyCount)
    BY RbTreeAssumption DEF RbTreeAssumption
  <2>2. IsFiniteSet(1..KeyCount)
    BY <2>1, FS_Interval
  <2>3. QED
    BY <2>1, <2>2, FS_Subset, FS_Singleton DEF Key
<1>2. IsFiniteSet(Key \X {1}) /\ IsFiniteSet(Twins \X {2})
  BY <1>1, FS_Product
<1>3. IsFiniteSet(Node)
  BY <1>2, FS_Union DEF Node
<1>4. Cardinality(Node) \in Nat
  BY <1>3, FS_CardinalityType
<1>5. Node \subseteq Key \X {1, 2}
  BY RbTreeAssumption DEF RbTreeAssumption, Node, Key
<1>6. Nil \notin Node
  BY <1>5, RbTreeAssumption DEF RbTreeAssumption, Key
<1>7. \A n \in Key \X {1, 2} : KeyOf(n) \in Key
  BY DEF KeyOf
<1>8. \A n \in Node : KeyOf(n) \in Nat /\ KeyOf(n) \in Key
  BY <1>5, <1>7 DEF Key
<1>9. QED
  BY <1>3, <1>4, <1>6, <1>8

\* The order of the keys, from either side.
LEMMA OrderIs ==
  /\ \A s \in Side, m \in Node : ~Toward(s, m, m)
  /\ \A s \in Side, m, n \in Node : Toward(s, m, n) <=> Toward(Other(s), n, m)
  /\ \A s \in Side, m, n \in Node : ~(Toward(s, m, n) /\ Toward(Other(s), m, n))
  /\ \A s \in Side, m, n, o \in Node : Toward(s, m, n) /\ Toward(s, n, o) => Toward(s, m, o)
  /\ \A s \in Side, m, n \in Node : KeyOf(m) # KeyOf(n) => Toward(s, m, n) \/ Toward(Other(s), m, n)
  /\ \A s \in Side, m, n \in Node : Toward(s, m, n) => KeyOf(m) # KeyOf(n) /\ m # n
  /\ \A s \in Side, m, n \in Node : Toward(s, m, n) <=> KeyToward(s, KeyOf(m), n)
  /\ \A s \in Side, m, n, o \in Node : KeyOf(m) = KeyOf(n) => (Toward(s, m, o) <=> Toward(s, n, o))
  /\ \A s \in Side, m, n, o \in Node : KeyOf(m) = KeyOf(n) => (Toward(s, o, m) <=> Toward(s, o, n))
BY NodesAre DEF Toward, KeyToward, Side, Other

(***************************************************************************)
(* Trees                                                                   *)
(***************************************************************************)

\* The type of a tree.
Trees == [root : Link, child : [Side -> [Node -> Link]], parent : [Node -> Link], red : SUBSET Node]

\* The nodes ns, and no others, are linked, each from the node it names.
Linked(tr, ns) ==
  /\ tr \in Trees /\ ns \subseteq Node /\ tr.red \subseteq ns
  /\ IF tr.root = Nil THEN ns = {} ELSE tr.root \in ns /\ tr.parent[tr.root] = Nil
  /\ \A n \in Node : n \notin ns => /\ tr.parent[n] = Nil
                                    /\ \A s \in Side : tr.child[s][n] = Nil
  /\ \A n \in ns : \A s \in Side :
       tr.child[s][n] # Nil => tr.child[s][n] \in ns /\ tr.parent[tr.child[s][n]] = n
  /\ \A n \in ns : n # tr.root =>
       /\ tr.parent[n] \in ns
       /\ \E s \in Side : tr.child[s][tr.parent[n]] = n

\* under[n] is the set of the nodes of the subtree of n.  The code keeps no such
\* thing; that there is one, in which every node has lesser keys on its left
\* and greater ones on its right, is what makes the links an ordered tree.
Sorted(tr, ns, under) ==
  /\ under \in [Link -> SUBSET ns] /\ under[Nil] = {} /\ under[tr.root] = ns
  /\ \A n \in ns : under[n] = {n} \cup under[tr.child["left"][n]] \cup under[tr.child["right"][n]]
  /\ \A n \in ns : \A s \in Side : \A m \in under[tr.child[s][n]] : Toward(s, m, n)

\* The links of tr are an ordered tree of the nodes ns.
Tree(tr, ns, under) == Linked(tr, ns) /\ Sorted(tr, ns, under)

\* The links and the root are typed.
LEMMA LinksAre ==
  ASSUME NEW tr, NEW ns, Linked(tr, ns)
  PROVE  /\ \A n \in Node : tr.parent[n] \in Link
         /\ \A n \in Node, s \in Side : tr.child[s][n] \in Link
         /\ \A n \in ns : tr.parent[n] \in ns \cup {Nil}
         /\ \A n \in ns, s \in Side : tr.child[s][n] \in ns \cup {Nil}
         /\ tr.root \in ns \cup {Nil} /\ Nil \notin ns /\ ns \subseteq Node
BY NodesAre DEF Linked, Trees, Link

\* A node is in its own subtree, which consists of it and what is on either side.
LEMMA UnderIs ==
  ASSUME NEW tr, NEW ns, NEW under, Tree(tr, ns, under)
  PROVE  /\ \A n \in ns : n \in under[n] /\ under[n] \subseteq ns
         /\ \A n \in ns, s \in Side :
              under[n] = {n} \cup under[tr.child[s][n]] \cup under[tr.child[Other(s)][n]]
         /\ \A n \in ns, s \in Side :
              /\ under[tr.child[s][n]] \subseteq under[n]
              /\ n \notin under[tr.child[s][n]]
              /\ \A m \in under[tr.child[s][n]] : m \notin under[tr.child[Other(s)][n]]
              /\ tr.child[s][n] # Nil => tr.child[s][n] \in under[tr.child[s][n]]
              /\ tr.child[s][n] # Nil => tr.child[s][n] # tr.child[Other(s)][n]
<1>1. ns \subseteq Node /\ \A n \in ns, s \in Side : tr.child[s][n] \in ns \cup {Nil}
  BY LinksAre DEF Tree
<1>2. \A n \in ns : n \in under[n] /\ under[n] \subseteq ns
  BY <1>1 DEF Tree, Sorted, Link
<1>3. \A n \in ns, s \in Side :
              under[n] = {n} \cup under[tr.child[s][n]] \cup under[tr.child[Other(s)][n]]
  <2>1. \A s \in Side : (s = "left" /\ Other(s) = "right") \/ (s = "right" /\ Other(s) = "left")
    BY DEF Side, Other
  <2>2. QED
    BY <2>1 DEF Tree, Sorted
<1>4. ASSUME NEW n \in ns, NEW s \in Side
      PROVE  /\ under[tr.child[s][n]] \subseteq under[n]
             /\ n \notin under[tr.child[s][n]]
             /\ \A m \in under[tr.child[s][n]] : m \notin under[tr.child[Other(s)][n]]
             /\ tr.child[s][n] # Nil => tr.child[s][n] \in under[tr.child[s][n]]
             /\ tr.child[s][n] # Nil => tr.child[s][n] # tr.child[Other(s)][n]
  <2>1. Other(s) \in Side /\ n \in Node
    BY <1>1, SidesAre
  <2>2. \A x \in Side : \A m \in under[tr.child[x][n]] : Toward(x, m, n) /\ m \in Node
    BY <1>1, <1>2 DEF Tree, Sorted
  <2>3. n \notin under[tr.child[s][n]]
    BY <2>1, <2>2, OrderIs
  <2>4. \A m \in under[tr.child[s][n]] : m \notin under[tr.child[Other(s)][n]]
    BY <2>1, <2>2, OrderIs
  <2>5. tr.child[s][n] # Nil => tr.child[s][n] \in under[tr.child[s][n]]
    BY <1>1, <1>2
  <2>6. QED
    BY <1>3, <2>3, <2>4, <2>5
<1>5. QED
  BY <1>2, <1>3, <1>4

\* How many nodes a subtree has: a rank that goes down with the tree.
Size(under) == [n \in Node |-> IF under[n] \subseteq Node THEN Cardinality(under[n]) ELSE 0]

\* The size goes down from a node to its children, and up to its parent.
LEMMA SizeIs ==
  ASSUME NEW tr, NEW ns, NEW under, Tree(tr, ns, under)
  PROVE  /\ Size(under) \in [Node -> 0..Cardinality(Node)]
         /\ \A n \in ns, s \in Side : tr.child[s][n] # Nil =>
              Size(under)[tr.child[s][n]] < Size(under)[n]
         /\ \A n \in ns : tr.parent[n] # Nil => Size(under)[n] < Size(under)[tr.parent[n]]
<1>1. \A S \in SUBSET Node : /\ IsFiniteSet(S) /\ Cardinality(S) \in 0..Cardinality(Node)
  <2> TAKE S \in SUBSET Node
  <2>1. IsFiniteSet(S) /\ Cardinality(S) <= Cardinality(Node)
    BY NodesAre, FS_Subset
  <2>2. Cardinality(S) \in Nat
    BY <2>1, FS_CardinalityType
  <2>3. QED
    BY <2>1, <2>2, NodesAre
<1>2. Size(under) \in [Node -> 0..Cardinality(Node)]
  <2>1. 0 \in 0..Cardinality(Node)
    BY NodesAre
  <2>2. QED
    BY <1>1, <2>1 DEF Size
<1>3. ns \subseteq Node /\ \A n \in ns, s \in Side : tr.child[s][n] \in ns \cup {Nil}
  BY LinksAre DEF Tree
<1>4. \A n \in ns : under[n] \subseteq Node /\ Size(under)[n] = Cardinality(under[n])
  BY <1>3, UnderIs DEF Size
<1>5. ASSUME NEW n \in ns, NEW s \in Side, tr.child[s][n] # Nil
      PROVE  Size(under)[tr.child[s][n]] < Size(under)[n]
  <2> DEFINE A == under[tr.child[s][n]]
             B == under[n]
  <2>1. tr.child[s][n] \in ns
    BY <1>3, <1>5
  <2>2. A \subseteq B /\ n \notin A /\ n \in B /\ B \subseteq Node
    BY <1>4, UnderIs
  <2>3. Size(under)[tr.child[s][n]] = Cardinality(A) /\ Size(under)[n] = Cardinality(B)
    BY <1>4, <2>1
  <2> HIDE DEF A, B
  <2>4. Cardinality(A) <= Cardinality(B) /\ Cardinality(A) # Cardinality(B)
    <3>1. IsFiniteSet(B) /\ A \in SUBSET B /\ A # B
      BY <1>1, <2>2
    <3>2. QED
      BY <3>1, FS_Subset
  <2>5. Cardinality(A) \in Nat /\ Cardinality(B) \in Nat
    BY <1>1, <2>2, NodesAre
  <2>6. QED
    BY <2>3, <2>4, <2>5
<1>6. \A n \in ns : tr.parent[n] # Nil => Size(under)[n] < Size(under)[tr.parent[n]]
  <2> SUFFICES ASSUME NEW n \in ns, tr.parent[n] # Nil
               PROVE  Size(under)[n] < Size(under)[tr.parent[n]]
    OBVIOUS
  <2>1. tr.parent[n] \in ns /\ \E s \in Side : tr.child[s][tr.parent[n]] = n
    BY <1>3 DEF Tree, Linked
  <2>2. n # Nil
    BY <1>3, NodesAre
  <2>3. QED
    BY <1>5, <2>1, <2>2
<1>7. QED
  BY <1>2, <1>5, <1>6

\* Induction from the leaves up.
LEMMA TreeInduction ==
  ASSUME NEW tr, NEW ns, NEW under, Tree(tr, ns, under), NEW S,
         \A n \in ns : (\A s \in Side : tr.child[s][n] # Nil => tr.child[s][n] \in S) => n \in S
  PROVE  \A n \in ns : n \in S
<1> DEFINE rank == [n \in ns |-> Size(under)[n]]
<1>1. ns \subseteq Node /\ \A n \in ns, s \in Side : tr.child[s][n] \in ns \cup {Nil}
  BY LinksAre DEF Tree
<1>2. rank \in [ns -> Nat]
  BY <1>1, SizeIs, NodesAre
<1>3. \A n \in ns, s \in Side : tr.child[s][n] # Nil => tr.child[s][n] \in ns /\ rank[tr.child[s][n]] < rank[n]
  BY <1>1, SizeIs
<1> HIDE DEF rank
<1>4. \A m \in ns : (\A x \in ns : rank[x] < rank[m] => x \in S) => m \in S
  BY <1>3
<1>5. QED
  BY <1>2, <1>4, RankInduction

\* Whoever has a node in its subtree has all of the subtree of that.
LEMMA UnderUnder ==
  ASSUME NEW tr, NEW ns, NEW under, Tree(tr, ns, under)
  PROVE  \A n \in ns : \A m \in under[n] : under[m] \subseteq under[n]
<1> DEFINE S == {n \in ns : \A m \in under[n] : under[m] \subseteq under[n]}
<1>1. ASSUME NEW n \in ns, \A s \in Side : tr.child[s][n] # Nil => tr.child[s][n] \in S
      PROVE  n \in S
  <2> SUFFICES ASSUME NEW m \in under[n], m # n PROVE under[m] \subseteq under[n]
    OBVIOUS
  <2>1. PICK s \in Side : m \in under[tr.child[s][n]]
    BY UnderIs, SidesAre
  <2>2. tr.child[s][n] # Nil
    BY <2>1 DEF Tree, Sorted
  <2>3. under[m] \subseteq under[tr.child[s][n]]
    BY <1>1, <2>1, <2>2
  <2>4. QED
    BY <2>3, UnderIs
<1> HIDE DEF S
<1>2. \A n \in ns : n \in S
  BY <1>1, TreeInduction
<1>3. QED
  BY <1>2 DEF S

\* Below a node, all the subtree of m is on the same side as m.
LEMMA SameSide ==
  ASSUME NEW tr, NEW ns, NEW under, Tree(tr, ns, under), NEW n \in ns, NEW s \in Side,
         NEW m \in under[tr.child[s][n]]
  PROVE  under[m] \subseteq under[tr.child[s][n]]
<1>1. tr.child[s][n] \in ns \cup {Nil} /\ under[Nil] = {}
  BY LinksAre DEF Tree, Sorted
<1>2. QED
  BY <1>1, UnderUnder

\* Induction from the root down: the nodes below one of which it holds have it.
LEMMA RootInduction ==
  ASSUME NEW tr, NEW ns, NEW under, Tree(tr, ns, under), NEW S,
         ns # {} => tr.root \in S,
         \A n \in ns : \A s \in Side : n \in S /\ tr.child[s][n] # Nil => tr.child[s][n] \in S
  PROVE  \A n \in ns : n \in S
<1> DEFINE T == {n \in ns : n \in S => under[n] \subseteq S}
<1>1. ASSUME NEW n \in ns, \A s \in Side : tr.child[s][n] # Nil => tr.child[s][n] \in T
      PROVE  n \in T
  <2> SUFFICES ASSUME n \in S PROVE under[n] \subseteq S
    OBVIOUS
  <2>1. \A s \in Side : under[tr.child[s][n]] \subseteq S
    <3> TAKE s \in Side
    <3>1. CASE tr.child[s][n] = Nil
      BY <3>1 DEF Tree, Sorted
    <3>2. CASE tr.child[s][n] # Nil
      BY <1>1, <3>2
    <3>3. QED
      BY <3>1, <3>2
  <2>2. QED
    BY <2>1, UnderIs, SidesAre
<1> HIDE DEF T
<1>2. \A n \in ns : n \in T
  BY <1>1, TreeInduction
<1>3. QED
  <2> SUFFICES ASSUME ns # {} PROVE ns \subseteq S
    OBVIOUS
  <2>1. tr.root \in ns /\ under[tr.root] = ns
    BY LinksAre DEF Tree, Linked, Sorted
  <2>2. QED
    BY <1>2, <2>1 DEF T

\* The parent of a node is in every subtree that the node is in, but for its own.
LEMMA ParentUnder ==
  ASSUME NEW tr, NEW ns, NEW under, Tree(tr, ns, under)
  PROVE  \A n \in ns : \A m \in under[n] : m # n => tr.parent[m] \in under[n]
<1> DEFINE S == {n \in ns : \A m \in under[n] : m # n => tr.parent[m] \in under[n]}
<1>1. ASSUME NEW n \in ns, \A s \in Side : tr.child[s][n] # Nil => tr.child[s][n] \in S
      PROVE  n \in S
  <2> SUFFICES ASSUME NEW m \in under[n], m # n PROVE tr.parent[m] \in under[n]
    OBVIOUS
  <2>1. PICK s \in Side : m \in under[tr.child[s][n]]
    BY UnderIs, SidesAre
  <2>2. tr.child[s][n] # Nil
    BY <2>1 DEF Tree, Sorted
  <2>3. CASE m = tr.child[s][n]
    BY <2>2, <2>3, UnderIs DEF Tree, Linked
  <2>4. CASE m # tr.child[s][n]
    <3>1. tr.parent[m] \in under[tr.child[s][n]]
      BY <1>1, <2>1, <2>2, <2>4
    <3>2. QED
      BY <3>1, UnderIs
  <2>5. QED
    BY <2>3, <2>4
<1> HIDE DEF S
<1>2. \A n \in ns : n \in S
  BY <1>1, TreeInduction
<1>3. QED
  BY <1>2 DEF S

\* A node outside a subtree has all of the subtree on one side.
LEMMA OutsideIs ==
  ASSUME NEW tr, NEW ns, NEW under, Tree(tr, ns, under)
  PROVE  \A n \in ns : \A y \in ns : y \notin under[n] =>
           \E s \in Side : \A m \in under[n] : Toward(s, m, y)
<1> DEFINE S == {n \in ns : \A y \in ns : y \notin under[n] =>
                              \E s \in Side : \A m \in under[n] : Toward(s, m, y)}
<1>1. ns # {} => tr.root \in S
  BY LinksAre DEF Tree, Linked, Sorted
<1>2. ASSUME NEW n \in ns, NEW s \in Side, n \in S, tr.child[s][n] # Nil
      PROVE  tr.child[s][n] \in S
  <2> DEFINE c == tr.child[s][n]
  <2>1. c \in ns /\ ns \subseteq Node /\ Other(s) \in Side
    BY <1>2, LinksAre, SidesAre DEF Tree
  <2> SUFFICES ASSUME NEW y \in ns, y \notin under[c]
               PROVE  \E x \in Side : \A m \in under[c] : Toward(x, m, y)
    BY <2>1
  <2>2. under[c] \subseteq under[n] /\ under[c] \subseteq Node
        /\ under[n] = {n} \cup under[c] \cup under[tr.child[Other(s)][n]]
    BY <2>1, UnderIs
  <2>3. \A m \in under[c] : Toward(s, m, n)
    BY DEF Tree, Sorted
  <2>4. CASE y \notin under[n]
    BY <1>2, <2>2, <2>4
  <2>5. CASE y = n
    BY <2>3, <2>5
  <2>6. CASE y \in under[tr.child[Other(s)][n]]
    <3>1. Toward(Other(s), y, n)
      BY <2>1, <2>6 DEF Tree, Sorted
    <3>2. Toward(s, n, y)
      BY <2>1, <3>1, OrderIs
    <3>3. \A m \in under[c] : Toward(s, m, y)
      BY <2>1, <2>2, <2>3, <3>2, OrderIs
    <3>4. QED
      BY <3>3
  <2>7. QED
    BY <2>2, <2>4, <2>5, <2>6
<1> HIDE DEF S
<1>3. \A n \in ns : n \in S
  BY <1>1, <1>2, RootInduction
<1>4. QED
  BY <1>3 DEF S

(***************************************************************************)
(* Loops that follow links                                                 *)
(***************************************************************************)

\* A loop that only follows links, down or up a tree.
LEMMA WalkExists ==
  ASSUME NEW top \in Nat, NEW rank \in [Node -> 0..top],
         NEW step \in [Node -> Link], NEW last \in [Node -> Link],
         \A m \in Node : step[m] # Nil => rank[step[m]] < rank[m]
  PROVE  \E f \in [Node -> Link] :
           \A m \in Node : f[m] = IF step[m] = Nil THEN last[m] ELSE f[step[m]]
<1> DEFINE back == [m \in Node |-> [v \in Link |-> v]]
<1>1. back \in [Node -> [Link -> Link]] /\ Nil \notin Node /\ step \in [Node -> Node \cup {Nil}]
  BY NodesAre DEF Link
<1>2. \A m \in Node, v \in Link : back[m][v] = v
  OBVIOUS
<1> HIDE DEF back
<1>3. PICK f \in [Node -> Link] : Loops(Node, Nil, step, last, back, f)
  BY <1>1, LoopExists
<1>4. \A m \in Node : f[m] = IF step[m] = Nil THEN last[m] ELSE f[step[m]]
  <2> TAKE m \in Node
  <2>1. step[m] # Nil => back[m][f[step[m]]] = f[step[m]]
    BY <1>1, <1>2
  <2>2. QED
    BY <1>3, <2>1 DEF Loops
<1>5. QED
  BY <1>4

\* Downwards, the size of the subtree is a rank.
LEMMA DownExists ==
  ASSUME NEW tr, NEW ns, NEW under, Tree(tr, ns, under),
         NEW step \in [Node -> Link], NEW last \in [Node -> Link],
         \A m \in Node : step[m] # Nil => \E s \in Side : step[m] = tr.child[s][m]
  PROVE  \E f \in [Node -> Link] :
           \A m \in Node : f[m] = IF step[m] = Nil THEN last[m] ELSE f[step[m]]
<1>1. \A m \in Node : step[m] # Nil => Size(under)[step[m]] < Size(under)[m]
  BY SizeIs DEF Tree, Linked
<1>2. Size(under) \in [Node -> 0..Cardinality(Node)] /\ Cardinality(Node) \in Nat
  BY SizeIs, NodesAre
<1>3. QED
  BY <1>1, <1>2, WalkExists

(***************************************************************************)
(* __rb_leftmost and __rb_rightmost                                        *)
(***************************************************************************)

\* The function of the loops of __rb_leftmost and __rb_rightmost.
Extremes(tr, s, f) ==
  f = [m \in Node |-> IF tr.child[s][m] = Nil THEN m ELSE f[tr.child[s][m]]]

\* The end of the links on one side is the first node of the subtree on that
\* side.
LEMMA ExtremeIs ==
  ASSUME NEW tr, NEW ns, NEW under, Tree(tr, ns, under), NEW n \in ns, NEW s \in Side
  PROVE  /\ Extreme(tr, n, s) \in under[n] /\ tr.child[s][Extreme(tr, n, s)] = Nil
         /\ \A y \in under[n] : y # Extreme(tr, n, s) => Toward(s, Extreme(tr, n, s), y)
<1>1. /\ ns \subseteq Node /\ \A m \in Node : tr.child[s][m] \in Link
      /\ Nil \notin ns /\ Other(s) \in Side
  BY LinksAre, SidesAre DEF Tree
<1>2. \E f : Extremes(tr, s, f)
  <2> DEFINE step == [m \in Node |-> tr.child[s][m]]
             last == [m \in Node |-> m]
  <2>1. step \in [Node -> Link] /\ last \in [Node -> Link]
    BY <1>1 DEF Link
  <2>2. PICK f \in [Node -> Link] :
          \A m \in Node : f[m] = IF step[m] = Nil THEN last[m] ELSE f[step[m]]
    <3> HIDE DEF last
    <3>1. \A m \in Node : step[m] # Nil => \E x \in Side : step[m] = tr.child[x][m]
      OBVIOUS
    <3> HIDE DEF step
    <3>2. QED
      BY <2>1, <3>1, DownExists
  <2>3. \A m \in Node : f[m] = IF tr.child[s][m] = Nil THEN m ELSE f[tr.child[s][m]]
    BY <2>2
  <2>4. Extremes(tr, s, f)
    BY <2>3 DEF Extremes
  <2>5. QED
    BY <2>4
<1> DEFINE f == CHOOSE f : Extremes(tr, s, f)
<1>3. Extremes(tr, s, f)
  BY <1>2
<1>4. Extreme(tr, n, s) = f[n]
  <2>1. n # Nil
    BY <1>1
  <2>2. QED
    BY <2>1 DEF Extreme, Extremes
<1> HIDE DEF f
<1>5. \A m \in ns : f[m] = IF tr.child[s][m] = Nil THEN m ELSE f[tr.child[s][m]]
  BY <1>1, <1>3 DEF Extremes
<1> DEFINE S == {m \in ns : /\ f[m] \in under[m] /\ tr.child[s][f[m]] = Nil
                            /\ \A y \in under[m] : y # f[m] => Toward(s, f[m], y)}
<1>6. ASSUME NEW m \in ns, \A x \in Side : tr.child[x][m] # Nil => tr.child[x][m] \in S
      PROVE  m \in S
  <2>1. /\ m \in under[m] /\ under[m] = {m} \cup under[tr.child[s][m]] \cup under[tr.child[Other(s)][m]]
        /\ under[m] \subseteq Node
    BY <1>1, UnderIs
  <2>2. \A x \in Side : \A y \in under[tr.child[x][m]] : Toward(x, y, m)
    BY DEF Tree, Sorted
  <2>3. \A y \in under[tr.child[Other(s)][m]] : Toward(s, m, y)
    BY <1>1, <2>1, <2>2, OrderIs
  <2>4. CASE tr.child[s][m] = Nil
    <3>1. f[m] = m /\ under[tr.child[s][m]] = {}
      BY <1>5, <2>4 DEF Tree, Sorted
    <3>2. QED
      BY <2>1, <2>3, <2>4, <3>1
  <2>5. CASE tr.child[s][m] # Nil
    <3> DEFINE c == tr.child[s][m]
               e == f[c]
    <3>1. c \in S /\ f[m] = e
      BY <1>5, <1>6, <2>5
    <3>2. /\ e \in under[c] /\ tr.child[s][e] = Nil
          /\ \A y \in under[c] : y # e => Toward(s, e, y)
      BY <3>1
    <3>3. Toward(s, e, m) /\ e \in Node /\ m \in Node
      BY <1>1, <2>1, <2>2, <3>2
    <3>4. \A y \in under[tr.child[Other(s)][m]] : Toward(s, e, y)
      BY <2>1, <2>3, <3>3, OrderIs
    <3>5. QED
      BY <2>1, <3>1, <3>2, <3>3, <3>4
  <2>6. QED
    BY <2>4, <2>5
<1> HIDE DEF S
<1>7. n \in S
  BY <1>6, TreeInduction
<1>8. QED
  BY <1>4, <1>7 DEF S

(***************************************************************************)
(* rb_next and rb_prev                                                     *)
(***************************************************************************)

\* The function of the loops of rb_next and rb_prev that climb.
Climbs(tr, s, f) ==
  f = [m \in Node |->
         IF tr.parent[m] # Nil /\ tr.child[s][tr.parent[m]] = m THEN f[tr.parent[m]] ELSE tr.parent[m]]

\* The loop that climbs ends: it goes up the tree.
LEMMA ClimbExists ==
  ASSUME NEW tr, NEW ns, NEW under, Tree(tr, ns, under), NEW s \in Side
  PROVE  \E f : Climbs(tr, s, f)
<1> DEFINE goes(m) == tr.parent[m] # Nil /\ tr.child[s][tr.parent[m]] = m
           step == [m \in Node |-> IF goes(m) THEN tr.parent[m] ELSE Nil]
           last == [m \in Node |-> tr.parent[m]]
           top == Cardinality(Node)
           rank == [m \in Node |-> top - Size(under)[m]]
<1>1. /\ \A m \in Node : tr.parent[m] \in Link /\ ns \subseteq Node
      /\ \A m \in Node : tr.parent[m] # Nil => m \in ns
  BY LinksAre DEF Tree, Linked
<1>2. step \in [Node -> Link] /\ last \in [Node -> Link]
  BY <1>1 DEF Link
<1>3. /\ top \in Nat /\ Size(under) \in [Node -> 0..top]
      /\ \A m \in ns : tr.parent[m] # Nil => Size(under)[m] < Size(under)[tr.parent[m]]
  BY SizeIs, NodesAre
<1>4. rank \in [Node -> 0..top]
  BY <1>3
<1>5. \A m \in Node : step[m] # Nil => rank[step[m]] < rank[m]
  <2> SUFFICES ASSUME NEW m \in Node, step[m] # Nil PROVE rank[step[m]] < rank[m]
    OBVIOUS
  <2>1. step[m] = tr.parent[m] /\ tr.parent[m] \in Node /\ m \in ns
    BY <1>1 DEF Link
  <2>2. Size(under)[m] < Size(under)[tr.parent[m]]
    BY <1>3, <2>1
  <2>3. Size(under)[m] \in 0..top /\ Size(under)[tr.parent[m]] \in 0..top
    BY <1>3, <2>1
  <2> HIDE DEF step, top
  <2>4. QED
    BY <1>3, <2>1, <2>2, <2>3
<1>6. PICK f \in [Node -> Link] :
        \A m \in Node : f[m] = IF step[m] = Nil THEN last[m] ELSE f[step[m]]
  <2> HIDE DEF step, last, rank, top
  <2>1. QED
    BY <1>2, <1>3, <1>4, <1>5, WalkExists
<1>7. \A m \in Node : f[m] = IF goes(m) THEN f[tr.parent[m]] ELSE tr.parent[m]
  BY <1>6
<1>8. Climbs(tr, s, f)
  BY <1>7 DEF Climbs
<1>9. QED
  BY <1>8

\* y is the node next to n on side s, or no node if n is the last one there.
IsNeighbour(ns, n, s, y) ==
  IF y = Nil THEN \A x \in ns : ~Toward(s, x, n)
  ELSE y \in ns /\ Toward(s, y, n) /\ \A x \in ns : Toward(s, x, n) => x = y \/ Toward(s, x, y)

\* The loop up the tree finds the nearest node on side s outside of a subtree.
LEMMA ClimbIs ==
  ASSUME NEW tr, NEW ns, NEW under, Tree(tr, ns, under), NEW s \in Side,
         NEW f, Climbs(tr, s, f), NEW n \in ns
  PROVE  /\ f[n] = Nil => \A y \in ns : y \notin under[n] => ~Toward(s, y, n)
         /\ f[n] # Nil => /\ f[n] \in ns /\ f[n] \notin under[n] /\ Toward(s, f[n], n)
                          /\ \A y \in ns : y \notin under[n] /\ Toward(s, y, n) =>
                               y = f[n] \/ Toward(s, y, f[n])
<1>1. /\ ns \subseteq Node /\ Nil \notin ns /\ Other(s) \in Side /\ Other(Other(s)) = s
      /\ \A m \in ns : tr.parent[m] \in ns \cup {Nil}
  BY LinksAre, SidesAre DEF Tree
<1>2. \A m \in ns : f[m] = IF tr.parent[m] # Nil /\ tr.child[s][tr.parent[m]] = m
                           THEN f[tr.parent[m]] ELSE tr.parent[m]
  BY <1>1 DEF Climbs
<1> DEFINE S == {m \in ns :
         /\ f[m] = Nil => \A y \in ns : y \notin under[m] => ~Toward(s, y, m)
         /\ f[m] # Nil => /\ f[m] \in ns /\ f[m] \notin under[m] /\ Toward(s, f[m], m)
                          /\ \A y \in ns : y \notin under[m] /\ Toward(s, y, m) =>
                               y = f[m] \/ Toward(s, y, f[m])}
<1>3. ns # {} => tr.root \in S
  <2> SUFFICES ASSUME ns # {} PROVE tr.root \in S
    OBVIOUS
  <2>1. tr.root \in ns /\ tr.parent[tr.root] = Nil /\ under[tr.root] = ns
    BY DEF Tree, Linked, Sorted
  <2>2. f[tr.root] = Nil
    BY <1>2, <2>1
  <2>3. QED
    BY <2>1, <2>2
<1>4. ASSUME NEW p \in ns, NEW x \in Side, p \in S, tr.child[x][p] # Nil
      PROVE  tr.child[x][p] \in S
  <2> DEFINE m == tr.child[x][p]
             o == tr.child[Other(x)][p]
  <2>1. /\ m \in ns /\ tr.parent[m] = p /\ p # Nil /\ m \in Node /\ p \in Node
        /\ Other(x) \in Side /\ m # o /\ m \in under[m]
    BY <1>1, <1>4, LinksAre, UnderIs, SidesAre DEF Tree, Linked
  <2>2. /\ under[p] = {p} \cup under[m] \cup under[o]
        /\ \A y \in under[m] : Toward(x, y, p) /\ y \in Node
        /\ \A y \in under[o] : Toward(Other(x), y, p) /\ y \in Node
        /\ p \notin under[m] /\ p \in under[p]
    <3>1. /\ under[p] = {p} \cup under[m] \cup under[o] /\ under[p] \subseteq ns
          /\ p \notin under[m] /\ p \in under[p]
      BY UnderIs
    <3>2. under[m] \subseteq Node /\ under[o] \subseteq Node
      BY <1>1, <3>1
    <3>3. \A z \in Side : \A y \in under[tr.child[z][p]] : Toward(z, y, p)
      BY DEF Tree, Sorted
    <3>4. QED
      BY <2>1, <3>1, <3>2, <3>3
  <2>3. \A y \in ns : y \notin under[p] => (Toward(s, y, p) <=> Toward(s, y, m))
    <3> SUFFICES ASSUME NEW y \in ns, y \notin under[p]
                 PROVE  Toward(s, y, p) <=> Toward(s, y, m)
      OBVIOUS
    <3>1. PICK z \in Side : \A w \in under[p] : Toward(z, w, y)
      BY OutsideIs
    <3>2. Toward(z, p, y) /\ Toward(z, m, y) /\ y \in Node
      BY <1>1, <2>1, <2>2, <3>1
    <3>3. Other(z) \in Side /\ Toward(Other(z), y, p) /\ Toward(Other(z), y, m)
      BY <2>1, <3>2, OrderIs, SidesAre
    <3>4. s = z \/ s = Other(z)
      BY SidesAre
    <3>5. QED
      BY <2>1, <3>2, <3>3, <3>4, OrderIs
  <2>4. Toward(x, m, p) /\ Toward(Other(x), p, m)
    BY <2>1, <2>2, OrderIs
  <2>5. CASE x = s
    <3>1. f[m] = f[p]
      BY <1>2, <2>1, <2>5
    <3>2. \A y \in under[o] : Toward(Other(s), y, m)
      BY <2>1, <2>2, <2>4, <2>5, OrderIs
    <3>3. \A y \in under[o] \cup {p} : ~Toward(s, y, m)
      BY <1>1, <2>1, <2>2, <2>4, <2>5, <3>2, OrderIs
    <3>4. \A y \in ns : y \notin under[m] /\ Toward(s, y, m) => y \notin under[p] /\ Toward(s, y, p)
      BY <2>2, <2>3, <3>3
    <3>5. ASSUME f[p] = Nil PROVE \A y \in ns : y \notin under[m] => ~Toward(s, y, m)
      BY <1>4, <3>4, <3>5
    <3>6. ASSUME f[p] # Nil
          PROVE  /\ f[p] \in ns /\ f[p] \notin under[m] /\ Toward(s, f[p], m)
                 /\ \A y \in ns : y \notin under[m] /\ Toward(s, y, m) =>
                      y = f[p] \/ Toward(s, y, f[p])
      <4>1. /\ f[p] \in ns /\ f[p] \notin under[p] /\ Toward(s, f[p], p)
            /\ \A y \in ns : y \notin under[p] /\ Toward(s, y, p) => y = f[p] \/ Toward(s, y, f[p])
        BY <1>4, <3>6
      <4>2. f[p] \notin under[m] /\ Toward(s, f[p], m)
        BY <2>2, <2>3, <4>1
      <4>3. QED
        BY <3>4, <4>1, <4>2
    <3>7. QED
      BY <2>1, <3>1, <3>5, <3>6
  <2>6. CASE x = Other(s)
    <3>1. Other(x) = s /\ o = tr.child[s][p]
      BY <1>1, <2>6
    <3>2. f[m] = p
      BY <1>2, <2>1, <3>1
    <3>3. \A y \in ns : y \notin under[m] /\ Toward(s, y, m) => y = p \/ Toward(s, y, p)
      BY <2>2, <2>3, <3>1
    <3>4. QED
      BY <2>1, <2>2, <2>4, <3>1, <3>2, <3>3
  <2>7. QED
    BY <2>5, <2>6, SidesAre
<1> HIDE DEF S
<1>5. n \in S
  BY <1>3, <1>4, RootInduction
<1>6. QED
  BY <1>5 DEF S

\* rb_next for s = "right", rb_prev for s = "left".
LEMMA NeighbourIs ==
  ASSUME NEW tr, NEW ns, NEW under, Tree(tr, ns, under), NEW n \in ns, NEW s \in Side
  PROVE  IsNeighbour(ns, n, s, Neighbour(tr, n, s))
<1> DEFINE f == CHOOSE f : Climbs(tr, s, f)
           c == tr.child[s][n]
           o == tr.child[Other(s)][n]
<1>1. Climbs(tr, s, f)
  BY ClimbExists
<1>2. Neighbour(tr, n, s) = IF c # Nil THEN Extreme(tr, c, Other(s)) ELSE f[n]
  BY DEF Neighbour, Climbs
<1> HIDE DEF f
<1>3. /\ ns \subseteq Node /\ Nil \notin ns /\ Other(s) \in Side /\ Other(Other(s)) = s
      /\ c \in ns \cup {Nil}
  BY LinksAre, SidesAre DEF Tree
<1>4. /\ under[n] = {n} \cup under[c] \cup under[o] /\ under[n] \subseteq ns /\ n \in under[n]
      /\ under[c] \subseteq ns
      /\ \A y \in under[c] : Toward(s, y, n)
      /\ \A y \in under[o] : Toward(Other(s), y, n)
  BY <1>3, UnderIs DEF Tree, Sorted
<1>5. \A y \in under[o] \cup {n} : ~Toward(s, y, n)
  BY <1>3, <1>4, OrderIs
<1>6. CASE c = Nil
  <2>1. under[c] = {}
    BY <1>6 DEF Tree, Sorted
  <2>2. \A y \in ns : Toward(s, y, n) => y \notin under[n]
    BY <1>4, <1>5, <2>1
  <2>3. Neighbour(tr, n, s) = f[n]
    BY <1>2, <1>6
  <2>4. /\ f[n] = Nil => \A y \in ns : y \notin under[n] => ~Toward(s, y, n)
        /\ f[n] # Nil => /\ f[n] \in ns /\ Toward(s, f[n], n)
                         /\ \A y \in ns : y \notin under[n] /\ Toward(s, y, n) =>
                              y = f[n] \/ Toward(s, y, f[n])
    BY <1>1, ClimbIs
  <2>5. QED
    BY <2>2, <2>3, <2>4 DEF IsNeighbour
<1>7. CASE c # Nil
  <2> DEFINE e == Extreme(tr, c, Other(s))
  <2>1. e \in under[c] /\ \A y \in under[c] : y # e => Toward(Other(s), e, y)
    BY <1>3, <1>7, ExtremeIs
  <2>2. e \in ns /\ Toward(s, e, n) /\ e # Nil
    BY <1>3, <1>4, <2>1
  <2>3. Neighbour(tr, n, s) = e
    BY <1>2, <1>7
  <2> HIDE DEF e
  <2>4. ASSUME NEW y \in ns, Toward(s, y, n), y # e PROVE Toward(s, y, e)
    <3>1. CASE y \in under[n]
      <4>1. y \in under[c]
        BY <1>4, <1>5, <2>4, <3>1
      <4>2. QED
        BY <1>3, <2>1, <2>2, <2>4, <4>1, OrderIs
    <3>2. CASE y \notin under[n]
      <4>1. PICK z \in Side : \A w \in under[n] : Toward(z, w, y)
        BY <3>2, OutsideIs
      <4>2. Toward(z, n, y) /\ Toward(z, e, y)
        BY <1>4, <2>1, <4>1
      <4>3. z = Other(s)
        <5>1. Toward(Other(s), n, y)
          BY <1>3, <2>4, OrderIs
        <5>2. z = s \/ z = Other(s)
          BY SidesAre
        <5>3. QED
          BY <1>3, <4>2, <5>1, <5>2, OrderIs
      <4>4. QED
        BY <1>3, <2>2, <4>2, <4>3, OrderIs
    <3>3. QED
      BY <3>1, <3>2
  <2>5. QED
    BY <2>2, <2>3, <2>4 DEF IsNeighbour
<1>8. QED
  BY <1>6, <1>7

(***************************************************************************)
(* The search of mtree_add                                                 *)
(***************************************************************************)

\* The side the search for key k takes at node m.
SideOf(k, m) == IF KeyOf(m) < k THEN "right" ELSE "left"

\* The function of the loop of the search.
Descents(tr, k, f) ==
  f = [m \in Node |->
         IF KeyOf(m) = k \/ tr.child[SideOf(k, m)][m] = Nil THEN m ELSE f[tr.child[SideOf(k, m)][m]]]

\* The search ends: it goes down the tree.
LEMMA DescentExists ==
  ASSUME NEW tr, NEW ns, NEW under, Tree(tr, ns, under), NEW k
  PROVE  \E f : Descents(tr, k, f)
<1> DEFINE stops(m) == KeyOf(m) = k \/ tr.child[SideOf(k, m)][m] = Nil
           step == [m \in Node |-> IF stops(m) THEN Nil ELSE tr.child[SideOf(k, m)][m]]
           last == [m \in Node |-> m]
<1>1. \A m \in Node : SideOf(k, m) \in Side /\ tr.child[SideOf(k, m)][m] \in Link
  BY LinksAre, SidesAre DEF Tree, SideOf
<1>2. step \in [Node -> Link] /\ last \in [Node -> Link]
  BY <1>1 DEF Link
<1>3. \A m \in Node : step[m] # Nil => \E x \in Side : step[m] = tr.child[x][m]
  BY <1>1
<1>4. PICK f \in [Node -> Link] :
        \A m \in Node : f[m] = IF step[m] = Nil THEN last[m] ELSE f[step[m]]
  <2> HIDE DEF step, last
  <2>1. QED
    BY <1>2, <1>3, DownExists
<1>5. \A m \in Node : f[m] = IF stops(m) THEN m ELSE f[tr.child[SideOf(k, m)][m]]
  BY <1>4
<1>6. Descents(tr, k, f)
  BY <1>5 DEF Descents
<1>7. QED
  BY <1>6

\* The search finds the node with the key, or where a node with it has to hang:
\* from a node with nothing on that side, which lies in every subtree on the
\* side of the key.
LEMMA DescendIs ==
  ASSUME NEW tr, NEW ns, NEW under, Tree(tr, ns, under), NEW k \in Key, ns # {},
         NEW p, p = Descend(tr, k)
  PROVE  /\ p \in ns /\ \A y \in ns : KeyOf(y) = k => y = p
         /\ KeyOf(p) # k =>
              /\ tr.child[SideOf(k, p)][p] = Nil
              /\ \A a \in ns : \A s \in Side : p \in under[tr.child[s][a]] => KeyToward(s, k, a)
              /\ \A s \in Side : s = SideOf(k, p) => KeyToward(s, k, p)
<1> DEFINE f == CHOOSE f : Descents(tr, k, f)
<1>1. Descents(tr, k, f)
  BY DescentExists
<1>2. tr.root # Nil /\ tr.root \in ns /\ under[tr.root] = ns
  BY DEF Tree, Linked, Sorted
<1>3. p = f[tr.root]
  BY <1>2 DEF Descend, Descents, SideOf
<1> HIDE DEF f
<1>4. /\ ns \subseteq Node /\ Nil \notin ns
      /\ \A m \in Node : SideOf(k, m) \in Side
      /\ k \in Nat
  BY LinksAre, SidesAre DEF Tree, SideOf, Key
<1>5. \A m \in ns : f[m] = IF KeyOf(m) = k \/ tr.child[SideOf(k, m)][m] = Nil THEN m
                           ELSE f[tr.child[SideOf(k, m)][m]]
  BY <1>1, <1>4 DEF Descents
<1> DEFINE Aside(m, d) == \A a \in under[m] : \A s \in Side :
                            d \in under[tr.child[s][a]] => KeyToward(s, k, a)
           S == {m \in ns : /\ f[m] \in under[m] /\ \A y \in under[m] : KeyOf(y) = k => y = f[m]
                            /\ KeyOf(f[m]) # k => /\ tr.child[SideOf(k, f[m])][f[m]] = Nil
                                                  /\ Aside(m, f[m])}
<1>6. \A m \in ns : KeyOf(m) # k => KeyToward(SideOf(k, m), k, m)
  BY <1>4, NodesAre DEF KeyToward, SideOf
<1>7. \A m \in ns, s \in Side : \A y \in under[tr.child[s][m]] : Toward(s, y, m) /\ y \in Node /\ m \in Node
  BY <1>4, UnderIs DEF Tree, Sorted
<1>8. \A m \in ns, s \in Side : \A y \in under[tr.child[s][m]] :
        KeyOf(y) = k => KeyToward(s, k, m) /\ KeyOf(m) # k
  BY <1>7, OrderIs
<1>9. \A m \in ns, s \in Side : KeyToward(s, k, m) => s = SideOf(k, m)
  BY <1>4, NodesAre DEF KeyToward, SideOf, Side
<1>10. ASSUME NEW m \in ns, \A x \in Side : tr.child[x][m] # Nil => tr.child[x][m] \in S
       PROVE  m \in S
  <2> DEFINE s == SideOf(k, m)
             c == tr.child[s][m]
             o == tr.child[Other(s)][m]
  <2>1. /\ s \in Side /\ Other(s) \in Side /\ m \in under[m] /\ under[m] \subseteq ns
        /\ under[m] = {m} \cup under[c] \cup under[o]
        /\ \A y \in under[c] : y \notin under[o]
    BY <1>4, UnderIs, SidesAre
  <2>2. \A y \in under[m] : KeyOf(y) = k => y = m \/ (y \in under[c] /\ KeyOf(m) # k)
    <3> SUFFICES ASSUME NEW y \in under[o], KeyOf(y) = k PROVE FALSE
      BY <1>8, <2>1
    <3>1. Other(s) = s
      BY <1>8, <1>9, <2>1
    <3>2. QED
      BY <2>1, <3>1, SidesAre
  <2>3. CASE KeyOf(m) = k
    <3>1. f[m] = m
      BY <1>5, <2>3
    <3>2. QED
      BY <2>1, <2>2, <2>3, <3>1
  <2>4. CASE KeyOf(m) # k /\ c = Nil
    <3>1. f[m] = m /\ under[c] = {}
      BY <1>5, <2>4 DEF Tree, Sorted
    <3>2. Aside(m, m)
      <4> SUFFICES ASSUME NEW a \in under[m], NEW x \in Side, m \in under[tr.child[x][a]] PROVE FALSE
        OBVIOUS
      <4>1. a \in ns /\ under[tr.child[x][a]] \subseteq under[a] /\ a \notin under[tr.child[x][a]]
        BY <2>1, UnderIs
      <4>2. under[m] \subseteq under[tr.child[x][a]]
        BY <4>1, SameSide
      <4>3. QED
        BY <4>1, <4>2
    <3>3. QED
      BY <2>1, <2>2, <2>4, <3>1, <3>2
  <2>5. CASE KeyOf(m) # k /\ c # Nil
    <3> DEFINE d == f[c]
    <3>1. c \in S /\ f[m] = d
      BY <1>5, <1>10, <2>1, <2>5
    <3>2. /\ d \in under[c] /\ \A y \in under[c] : KeyOf(y) = k => y = d
          /\ KeyOf(d) # k => tr.child[SideOf(k, d)][d] = Nil /\ Aside(c, d)
      BY <3>1
    <3>3. m # d
      BY <1>7, <2>1, <3>2, OrderIs
    <3> HIDE DEF d
    <3>4. \A y \in under[m] : KeyOf(y) = k => y = d
      BY <2>2, <2>5, <3>2
    <3>5. ASSUME KeyOf(d) # k PROVE Aside(m, d)
      <4> SUFFICES ASSUME NEW a \in under[m], NEW x \in Side, d \in under[tr.child[x][a]]
                   PROVE  KeyToward(x, k, a)
        OBVIOUS
      <4>1. CASE a = m
        <5>1. x = s
          <6>1. d \notin under[o]
            BY <2>1, <3>2
          <6>2. x = s \/ x = Other(s)
            BY <2>1, SidesAre
          <6>3. QED
            BY <4>1, <6>1, <6>2
        <5>2. QED
          BY <1>6, <2>5, <4>1, <5>1
      <4>2. CASE a \in under[c]
        BY <3>2, <3>5, <4>2
      <4>3. CASE a \in under[o]
        <5>1. under[a] \subseteq under[o] /\ a \in ns
          BY <2>1, <4>3, SameSide
        <5>2. d \in under[o]
          BY <5>1, UnderIs
        <5>3. QED
          BY <2>1, <3>2, <5>2
      <4>4. QED
        BY <2>1, <4>1, <4>2, <4>3
    <3>6. QED
      BY <2>1, <3>1, <3>2, <3>4, <3>5
  <2>6. QED
    BY <2>3, <2>4, <2>5
<1> HIDE DEF S
<1>11. tr.root \in S
  BY <1>2, <1>10, TreeInduction
<1>12. QED
  BY <1>2, <1>3, <1>4, <1>6, <1>11 DEF S

(***************************************************************************)
(* Setting links and colours                                               *)
(***************************************************************************)

\* One child link set.
SetChild(tr, s, n, v) == [tr EXCEPT !.child[s][n] = v]

\* Setting a child link changes that link alone.
LEMMA SetChildIs ==
  ASSUME NEW tr \in Trees, NEW s \in Side, NEW n \in Node, NEW v \in Link
  PROVE  /\ SetChild(tr, s, n, v) \in Trees
         /\ SetChild(tr, s, n, v).root = tr.root /\ SetChild(tr, s, n, v).parent = tr.parent
         /\ SetChild(tr, s, n, v).red = tr.red
         /\ \A y \in Side, m \in Node : SetChild(tr, s, n, v).child[y][m] =
              IF y = s /\ m = n THEN v ELSE tr.child[y][m]
<1> DEFINE q == SetChild(tr, s, n, v)
           ch == [tr.child EXCEPT ![s] = [tr.child[s] EXCEPT ![n] = v]]
<1>1. q = [tr EXCEPT !.child = ch]
  BY DEF SetChild, Trees
<1>2. ch \in [Side -> [Node -> Link]]
  BY DEF Trees
<1>3. \A y \in Side, m \in Node : ch[y][m] = IF y = s /\ m = n THEN v ELSE tr.child[y][m]
  BY DEF Trees
<1> HIDE DEF ch, q
<1>4. /\ q.child = ch /\ q.root = tr.root /\ q.parent = tr.parent /\ q.red = tr.red /\ q \in Trees
  BY <1>1, <1>2 DEF Trees
<1>5. QED
  BY <1>3, <1>4 DEF q

\* The parent links set.
SetParent(tr, pa) == [tr EXCEPT !.parent = pa]

\* Setting the parent links leaves the rest as it is.
LEMMA SetParentIs ==
  ASSUME NEW tr \in Trees, NEW pa \in [Node -> Link]
  PROVE  /\ SetParent(tr, pa) \in Trees
         /\ SetParent(tr, pa).root = tr.root /\ SetParent(tr, pa).child = tr.child
         /\ SetParent(tr, pa).red = tr.red /\ SetParent(tr, pa).parent = pa
BY DEF Trees, SetParent

\* Setting the colours leaves the links as they are.
LEMMA SetRedIs ==
  ASSUME NEW tr \in Trees, NEW r \in SUBSET Node, NEW q, q = [tr EXCEPT !.red = r]
  PROVE  /\ q \in Trees /\ q.root = tr.root /\ q.child = tr.child /\ q.parent = tr.parent /\ q.red = r
BY DEF Trees

\* Setting the root leaves the rest as it is.
LEMMA SetRootIs ==
  ASSUME NEW tr \in Trees, NEW n \in Link, NEW q, q = [tr EXCEPT !.root = n]
  PROVE  /\ q \in Trees /\ q.root = n /\ q.child = tr.child /\ q.parent = tr.parent /\ q.red = tr.red
BY DEF Trees

\* rb_set_color, and taking a colour from another node, change nothing else.
LEMMA PaintIs ==
  ASSUME NEW tr \in Trees
  PROVE  /\ \A n \in Link : LET q == SetBlack(tr, n)
              IN  /\ q \in Trees /\ q.root = tr.root /\ q.child = tr.child /\ q.parent = tr.parent
                  /\ q.red = tr.red \ {n}
         /\ \A n \in Node : LET q == SetRed(tr, n)
              IN  /\ q \in Trees /\ q.root = tr.root /\ q.child = tr.child /\ q.parent = tr.parent
                  /\ q.red = tr.red \cup {n}
         /\ \A n, m \in Node : LET q == TakeColour(tr, n, m)
              IN  /\ q \in Trees /\ q.root = tr.root /\ q.child = tr.child /\ q.parent = tr.parent
                  /\ q.red = IF m \in tr.red THEN tr.red \cup {n} ELSE tr.red \ {n}
<1>1. \A n \in Link : LET q == SetBlack(tr, n)
              IN  /\ q \in Trees /\ q.root = tr.root /\ q.child = tr.child /\ q.parent = tr.parent
                  /\ q.red = tr.red \ {n}
  <2> TAKE n \in Link
  <2>1. tr.red \ {n} \in SUBSET Node
    BY DEF Trees
  <2>2. QED
    BY <2>1, SetRedIs DEF SetBlack
<1>2. \A n \in Node : LET q == SetRed(tr, n)
              IN  /\ q \in Trees /\ q.root = tr.root /\ q.child = tr.child /\ q.parent = tr.parent
                  /\ q.red = tr.red \cup {n}
  <2> TAKE n \in Node
  <2>1. tr.red \cup {n} \in SUBSET Node
    BY DEF Trees
  <2>2. QED
    BY <2>1, SetRedIs DEF SetRed
<1>3. Node \subseteq Link
  BY DEF Link
<1>4. QED
  BY <1>1, <1>2, <1>3 DEF TakeColour, Red

\* What puts new where old hangs.
LEMMA RelinkIs ==
  ASSUME NEW tr \in Trees, NEW p \in Link, NEW old, NEW new \in Link
  PROVE  LET q == Relink(tr, p, old, new)
             side == IF tr.child["left"][p] = old THEN "left" ELSE "right"
         IN  /\ q \in Trees /\ q.parent = tr.parent /\ q.red = tr.red
             /\ q.root = IF p = Nil THEN new ELSE tr.root
             /\ \A y \in Side, m \in Node :
                  q.child[y][m] = IF m = p /\ y = side THEN new ELSE tr.child[y][m]
<1> DEFINE side == IF tr.child["left"][p] = old THEN "left" ELSE "right"
<1>1. CASE p = Nil
  <2>1. Relink(tr, p, old, new) = [tr EXCEPT !.root = new]
    BY <1>1 DEF Relink
  <2>2. \A m \in Node : m # p
    BY <1>1, NodesAre
  <2>3. QED
    BY <1>1, <2>1, <2>2, SetRootIs
<1>2. CASE p # Nil
  <2>1. Relink(tr, p, old, new) = SetChild(tr, side, p, new)
    BY <1>2 DEF Relink, SetChild
  <2>2. side \in Side /\ p \in Node
    BY <1>2, SidesAre DEF Link
  <2> HIDE DEF side
  <2>3. LET q == SetChild(tr, side, p, new)
        IN  /\ q \in Trees /\ q.root = tr.root /\ q.parent = tr.parent /\ q.red = tr.red
            /\ \A y \in Side, m \in Node :
                 q.child[y][m] = IF y = side /\ m = p THEN new ELSE tr.child[y][m]
    BY <2>2, SetChildIs
  <2>4. QED
    BY <1>2, <2>1, <2>3 DEF side
<1>3. QED
  BY <1>1, <1>2

\* In a tree, the side that Relink finds is the one on which old hangs.
LEMMA HangsOn ==
  ASSUME NEW tr, NEW ns, NEW under, Tree(tr, ns, under), NEW n \in ns, NEW p, p = tr.parent[n],
         p # Nil
  PROVE  /\ p \in ns
         /\ \E s \in Side :
              /\ tr.child[s][p] = n /\ tr.child[Other(s)][p] # n
              /\ s = IF tr.child["left"][p] = n THEN "left" ELSE "right"
<1>1. p \in ns /\ \E s \in Side : tr.child[s][p] = n
  BY LinksAre DEF Tree, Linked
<1>2. PICK s \in Side : tr.child[s][p] = n
  BY <1>1
<1>3. n # Nil
  BY LinksAre DEF Tree
<1>4. tr.child[Other(s)][p] # n
  BY <1>1, <1>2, <1>3, UnderIs
<1>5. s = IF tr.child["left"][p] = n THEN "left" ELSE "right"
  BY <1>2, <1>4 DEF Side, Other
<1>6. QED
  BY <1>1, <1>2, <1>4, <1>5

(***************************************************************************)
(* Rotations                                                               *)
(***************************************************************************)

\* q is tr with x rotated down to side s below r.
Rotated(tr, x, s, r, q) ==
  LET inner == tr.child[s][r]
  IN  /\ q.root = IF x = tr.root THEN r ELSE tr.root
      /\ \A m \in Node : q.parent[m] = IF m = x THEN r ELSE IF m = r THEN tr.parent[x]
                                       ELSE IF m = inner THEN x ELSE tr.parent[m]
      /\ \A y \in Side, m \in Node :
           q.child[y][m] = IF m = x THEN IF y = s THEN tr.child[s][x] ELSE inner
                           ELSE IF m = r THEN IF y = s THEN x ELSE tr.child[y][r]
                           ELSE IF tr.child[y][m] = x THEN r ELSE tr.child[y][m]

\* The assignments of a rotation after Relink.
Turn(tr, s, x, r, p, inner) ==
  [tr EXCEPT !.child[Other(s)][x] = inner, !.child[s][r] = x,
             !.parent = [n \in Node |-> IF n = x THEN r ELSE IF n = r THEN p
                                        ELSE IF n = inner THEN x ELSE @[n]]]

\* What they do: q is tr after them.
Turned(tr, s, x, r, p, inner, q) ==
  /\ q \in Trees /\ q.root = tr.root /\ q.red = tr.red
  /\ \A y \in Side, m \in Node :
       q.child[y][m] = IF y = s /\ m = r THEN x
                       ELSE IF y = Other(s) /\ m = x THEN inner ELSE tr.child[y][m]
  /\ \A m \in Node : q.parent[m] = IF m = x THEN r ELSE IF m = r THEN p
                                   ELSE IF m = inner THEN x ELSE tr.parent[m]

\* What they leave.
LEMMA TurnIs ==
  ASSUME NEW tr \in Trees, NEW s \in Side, NEW x \in Node, NEW r \in Node, NEW p \in Link,
         NEW inner \in Link
  PROVE  Turned(tr, s, x, r, p, inner, Turn(tr, s, x, r, p, inner))
<1> DEFINE q1 == SetChild(tr, Other(s), x, inner)
           q2 == SetChild(q1, s, r, x)
           pa == [n \in Node |-> IF n = x THEN r ELSE IF n = r THEN p
                                 ELSE IF n = inner THEN x ELSE tr.parent[n]]
<1>1. Other(s) \in Side /\ x \in Link /\ r \in Link
  BY SidesAre DEF Link
<1>2. Turn(tr, s, x, r, p, inner) =
        [q2 EXCEPT !.parent = [n \in Node |-> IF n = x THEN r ELSE IF n = r THEN p
                                              ELSE IF n = inner THEN x ELSE @[n]]]
  BY DEF SetChild, Turn
<1>3. /\ q1 \in Trees /\ q1.root = tr.root /\ q1.red = tr.red /\ q1.parent = tr.parent
      /\ \A y \in Side, m \in Node :
           q1.child[y][m] = IF y = Other(s) /\ m = x THEN inner ELSE tr.child[y][m]
  BY <1>1, SetChildIs
<1> HIDE DEF q1
<1>4. /\ q2 \in Trees /\ q2.root = q1.root /\ q2.red = q1.red /\ q2.parent = q1.parent
      /\ \A y \in Side, m \in Node :
           q2.child[y][m] = IF y = s /\ m = r THEN x ELSE q1.child[y][m]
  BY <1>1, <1>3, SetChildIs
<1> HIDE DEF q2
<1>5. pa \in [Node -> Link] /\ Turn(tr, s, x, r, p, inner) = SetParent(q2, pa)
  BY <1>1, <1>2, <1>3, <1>4 DEF Trees, SetParent
<1>6. \A m \in Node : pa[m] = IF m = x THEN r ELSE IF m = r THEN p
                              ELSE IF m = inner THEN x ELSE tr.parent[m]
  OBVIOUS
<1> HIDE DEF pa
<1> DEFINE q == SetParent(q2, pa)
<1>7. q \in Trees /\ q.root = q2.root /\ q.child = q2.child /\ q.red = q2.red /\ q.parent = pa
  BY <1>4, <1>5, SetParentIs
<1> HIDE DEF q
<1>8. \A y \in Side, m \in Node :
        q.child[y][m] = IF y = s /\ m = r THEN x
                        ELSE IF y = Other(s) /\ m = x THEN inner ELSE tr.child[y][m]
  BY <1>3, <1>4, <1>7
<1>9. QED
  BY <1>3, <1>4, <1>5, <1>6, <1>7, <1>8 DEF q, Turned

\* rb_rotate_left, rb_rotate_right.
LEMMA RotateIs ==
  ASSUME NEW tr, NEW ns, NEW under, Tree(tr, ns, under), NEW x \in ns, NEW s \in Side,
         NEW r, r = tr.child[Other(s)][x], r # Nil, NEW q, q = Rotate(tr, x, s)
  PROVE  /\ q \in Trees /\ q.red = tr.red /\ Rotated(tr, x, s, r, q)
<1> DEFINE p == tr.parent[x]
           inner == tr.child[s][r]
           side == IF tr.child["left"][p] = x THEN "left" ELSE "right"
           q0 == Relink(tr, p, x, r)
<1>1. /\ tr \in Trees /\ x \in Node /\ Other(s) \in Side /\ Other(s) # s /\ r \in ns /\ r \in Node
      /\ p \in Link /\ inner \in Link /\ r \in Link /\ x \in Link /\ r # x
      /\ tr.parent[r] = x
  <2>1. tr \in Trees /\ Other(s) \in Side /\ Other(s) # s /\ r \in ns /\ ns \subseteq Node
    BY LinksAre, SidesAre DEF Tree, Linked
  <2>2. r # x /\ tr.parent[r] = x
    BY <2>1, UnderIs DEF Tree, Linked
  <2>3. QED
    BY <2>1, <2>2, LinksAre DEF Tree, Link
<1>2. /\ q0 \in Trees /\ q0.parent = tr.parent /\ q0.red = tr.red
      /\ q0.root = IF p = Nil THEN r ELSE tr.root
      /\ \A y \in Side, m \in Node :
           q0.child[y][m] = IF m = p /\ y = side THEN r ELSE tr.child[y][m]
  BY <1>1, RelinkIs
<1>3. q = Turn(q0, s, x, r, p, inner)
  BY DEF Rotate, Turn
<1> HIDE DEF q0, inner, p
<1>4. /\ q \in Trees /\ q.root = q0.root /\ q.red = q0.red
      /\ \A y \in Side, m \in Node :
           q.child[y][m] = IF y = s /\ m = r THEN x
                           ELSE IF y = Other(s) /\ m = x THEN inner ELSE q0.child[y][m]
      /\ \A m \in Node : q.parent[m] = IF m = x THEN r ELSE IF m = r THEN p
                                       ELSE IF m = inner THEN x ELSE q0.parent[m]
  <2>1. q0 \in Trees /\ x \in Node /\ r \in Node /\ p \in Link /\ inner \in Link
    BY <1>1, <1>2
  <2>2. Turned(q0, s, x, r, p, inner, q)
    BY <1>3, <2>1, TurnIs
  <2>3. QED
    BY <2>2 DEF Turned
<1> USE DEF p
<1>8. \A y \in Side, m \in Node : tr.child[y][m] = x <=> (m = p /\ y = side)
  <2>1. ASSUME NEW y \in Side, NEW m \in Node, tr.child[y][m] = x PROVE m = p /\ y = side
    <3>1. x # Nil
      BY <1>1, NodesAre
    <3>2. m \in ns
      BY <2>1, <3>1 DEF Tree, Linked
    <3>3. m = p /\ m # Nil
      BY <1>1, <2>1, <3>1, <3>2, NodesAre DEF Tree, Linked
    <3>4. \E z \in Side : tr.child[z][p] = x /\ tr.child[Other(z)][p] # x /\ z = side
      BY <3>3, HangsOn
    <3>5. QED
      BY <2>1, <3>3, <3>4, SidesAre
  <2>2. ASSUME NEW y \in Side, NEW m \in Node, m = p, y = side PROVE tr.child[y][m] = x
    <3>1. p # Nil
      BY <2>2, NodesAre
    <3>2. QED
      BY <2>2, <3>1, HangsOn
  <2>3. QED
    BY <2>1, <2>2
<1>9. \A y \in Side, m \in Node :
        q.child[y][m] = IF m = x THEN IF y = s THEN tr.child[s][x] ELSE inner
                        ELSE IF m = r THEN IF y = s THEN x ELSE tr.child[y][r]
                        ELSE IF tr.child[y][m] = x THEN r ELSE tr.child[y][m]
  <2> TAKE y \in Side, m \in Node
  <2>1. y = s \/ y = Other(s)
    BY SidesAre
  <2>2. q.child[y][m] = IF y = s /\ m = r THEN x
                        ELSE IF y = Other(s) /\ m = x THEN inner
                        ELSE IF tr.child[y][m] = x THEN r ELSE tr.child[y][m]
    BY <1>1, <1>2, <1>4, <1>8
  <2>3. tr.child[y][x] # x /\ tr.child[y][r] # x
    <3>1. p # x /\ p # r
      <4>1. tr.child["left"][x] # x /\ tr.child["right"][x] # x
        BY <1>1, UnderIs, SidesAre
      <4>2. p \notin under[x] \/ p = Nil
        <5>1. p # Nil => \E z \in Side : p \in ns /\ tr.child[z][p] = x
          BY HangsOn
        <5>2. p # Nil => p \in ns /\ p \notin under[x]
          BY <5>1, UnderIs
        <5>3. QED
          BY <5>2
      <4>3. x \in under[x] /\ r \in under[x] /\ x # Nil /\ r # Nil
        BY <1>1, UnderIs, NodesAre
      <4>4. QED
        BY <4>2, <4>3
    <3>2. QED
      BY <1>1, <1>8, <3>1
  <2>4. QED
    BY <1>1, <2>1, <2>2, <2>3
<1>10. p = Nil <=> x = tr.root
  BY <1>1, NodesAre DEF Tree, Linked
<1>11. QED
  BY <1>2, <1>4, <1>9, <1>10 DEF Rotated, inner

\* Only the subtrees of the two nodes that change places change.
LEMMA RotatedIsTree ==
  ASSUME NEW tr, NEW ns, NEW under, Tree(tr, ns, under), NEW x \in ns, NEW s \in Side,
         NEW r, r = tr.child[Other(s)][x], r # Nil, NEW q \in Trees, q.red \subseteq ns,
         Rotated(tr, x, s, r, q)
  PROVE  Tree(q, ns, [under EXCEPT ![x] = {x} \cup under[tr.child[s][x]] \cup under[tr.child[s][r]],
                                   ![r] = under[x]])
<1> DEFINE a == tr.child[s][x]
           inner == tr.child[s][r]
           outer == tr.child[Other(s)][r]
           U == [under EXCEPT ![x] = {x} \cup under[a] \cup under[inner], ![r] = under[x]]
<1>0. a = tr.child[s][x] /\ inner = tr.child[s][r] /\ outer = tr.child[Other(s)][r]
  OBVIOUS
<1>1. /\ ns \subseteq Node /\ Nil \notin ns /\ Other(s) \in Side /\ Other(s) # s /\ Other(Other(s)) = s
      /\ r \in ns /\ a \in ns \cup {Nil} /\ inner \in ns \cup {Nil} /\ outer \in ns \cup {Nil}
      /\ \A y \in Side : y = s \/ y = Other(s)
  BY LinksAre, SidesAre DEF Tree
<1>2. /\ r # x /\ tr.parent[r] = x /\ x \in Node /\ r \in Node /\ x # Nil
      /\ under[x] = {x} \cup under[a] \cup under[r]
      /\ under[r] = {r} \cup under[inner] \cup under[outer]
      /\ a # x /\ a # r /\ inner # x /\ inner # r /\ outer # x /\ outer # r
      /\ under[x] \subseteq ns /\ x \notin under[r] /\ r \in under[r]
      /\ (inner # Nil => inner \in under[inner] /\ tr.parent[inner] = r)
      /\ outer # Nil => outer \in under[outer] /\ tr.parent[outer] = r
      /\ a # Nil => a \in under[a] /\ tr.parent[a] = x
      /\ inner # Nil => inner # outer
  <2>1. /\ under[x] = {x} \cup under[a] \cup under[r] /\ under[x] \subseteq ns
        /\ under[r] = {r} \cup under[inner] \cup under[outer]
        /\ x \notin under[r] /\ x \notin under[a] /\ r \in under[r] /\ r \notin under[inner] /\ r \notin under[outer]
        /\ \A m \in under[a] : m \notin under[r]
        /\ inner # Nil => inner \in under[inner] /\ inner # outer
        /\ outer # Nil => outer \in under[outer]
        /\ a # Nil => a \in under[a]
    BY <1>1, UnderIs
  <2>2. /\ tr.parent[r] = x
        /\ inner # Nil => tr.parent[inner] = r
        /\ outer # Nil => tr.parent[outer] = r
        /\ a # Nil => tr.parent[a] = x
    BY <1>1 DEF Tree, Linked
  <2>3. QED
    BY <1>1, <2>1, <2>2
<1>3. /\ q.root = IF x = tr.root THEN r ELSE tr.root
      /\ \A m \in Node : q.parent[m] = IF m = x THEN r ELSE IF m = r THEN tr.parent[x]
                                       ELSE IF m = inner THEN x ELSE tr.parent[m]
      /\ \A y \in Side, m \in Node :
           q.child[y][m] = IF m = x THEN IF y = s THEN a ELSE inner
                           ELSE IF m = r THEN IF y = s THEN x ELSE tr.child[y][r]
                           ELSE IF tr.child[y][m] = x THEN r ELSE tr.child[y][m]
  BY DEF Rotated
<1>4. /\ tr \in Trees /\ tr.root \in ns /\ tr.parent[tr.root] = Nil /\ r # tr.root
      /\ \A n \in Node : n \notin ns => /\ tr.parent[n] = Nil
                                        /\ \A y \in Side : tr.child[y][n] = Nil
      /\ \A n \in ns : \A y \in Side :
           tr.child[y][n] # Nil => tr.child[y][n] \in ns /\ tr.parent[tr.child[y][n]] = n
      /\ \A n \in ns : n # tr.root =>
           /\ tr.parent[n] \in ns
           /\ \E y \in Side : tr.child[y][tr.parent[n]] = n
  BY <1>2 DEF Tree, Linked
<1>a. /\ \A y \in Side : q.child[y][x] = IF y = s THEN a ELSE inner
      /\ \A y \in Side : q.child[y][r] = IF y = s THEN x ELSE outer
      /\ \A y \in Side, m \in Node : m # x /\ m # r =>
           q.child[y][m] = IF tr.child[y][m] = x THEN r ELSE tr.child[y][m]
  <2>1. \A y \in Side : y # s => tr.child[y][r] = outer
    BY <1>1
  <2> HIDE DEF a, inner, outer
  <2>2. QED
    BY <1>2, <1>3, <2>1
<1> HIDE DEF a, inner, outer
<1>5. Linked(q, ns)
  <2>1. q.root \in ns /\ q.root # Nil /\ q.parent[q.root] = Nil
    <3>1. CASE x = tr.root
      BY <1>1, <1>2, <1>3, <1>4, <3>1
    <3>2. CASE x # tr.root
      <4>1. tr.root # inner
        BY <1>1, <1>2, <1>4, <3>2
      <4>2. QED
        BY <1>1, <1>2, <1>3, <1>4, <3>2, <4>1
    <3>3. QED
      BY <3>1, <3>2
  <2>2. \A n \in Node : n \notin ns => /\ q.parent[n] = Nil
                                       /\ \A y \in Side : q.child[y][n] = Nil
    <3> SUFFICES ASSUME NEW n \in Node, n \notin ns
                 PROVE  q.parent[n] = Nil /\ \A y \in Side : q.child[y][n] = Nil
      OBVIOUS
    <3>1. n # x /\ n # r /\ n # inner
      BY <1>1, <1>2, NodesAre
    <3>2. \A y \in Side : tr.child[y][n] = Nil
      BY <1>4
    <3>3. QED
      BY <1>2, <1>3, <1>4, <1>a, <3>1, <3>2
  <2>3. ASSUME NEW n \in ns, NEW y \in Side, q.child[y][n] # Nil
        PROVE  q.child[y][n] \in ns /\ q.parent[q.child[y][n]] = n
    <3>1. CASE n = x
      BY <1>1, <1>2, <1>3, <2>3, <3>1
    <3>2. CASE n = r /\ y = s
      BY <1>1, <1>2, <1>3, <3>2
    <3>3. CASE n = r /\ y # s
      <4>1. q.child[y][n] = outer
        BY <1>1, <1>a, <3>3
      <4>2. outer # inner /\ outer # Nil
        BY <1>2, <2>3, <4>1
      <4>3. QED
        BY <1>1, <1>2, <1>3, <3>3, <4>1, <4>2
    <3>4. CASE n # x /\ n # r /\ tr.child[y][n] = x
      BY <1>1, <1>2, <1>3, <1>4, <3>4
    <3>5. CASE n # x /\ n # r /\ tr.child[y][n] # x
      <4>1. q.child[y][n] = tr.child[y][n] /\ tr.child[y][n] \in ns /\ tr.parent[tr.child[y][n]] = n
        BY <1>1, <1>3, <1>4, <2>3, <3>5
      <4>2. tr.child[y][n] # r /\ tr.child[y][n] # inner
        BY <1>2, <2>3, <3>5, <4>1
      <4>3. QED
        BY <1>1, <1>3, <3>5, <4>1, <4>2
    <3>6. QED
      BY <3>1, <3>2, <3>3, <3>4, <3>5
  <2>4. ASSUME NEW n \in ns, n # q.root
        PROVE  q.parent[n] \in ns /\ \E y \in Side : q.child[y][q.parent[n]] = n
    <3>1. CASE n = x
      BY <1>1, <1>2, <1>3, <3>1
    <3>2. CASE n = r
      <4>1. x # tr.root /\ q.parent[n] = tr.parent[x] /\ tr.parent[x] \in ns
        BY <1>1, <1>2, <1>3, <1>4, <2>4, <3>2
      <4>2. PICK y \in Side : tr.child[y][tr.parent[x]] = x
        BY <1>4, <4>1
      <4>3. tr.parent[x] # x /\ tr.parent[x] # r
        BY <1>1, <1>2, <4>1, <4>2, UnderIs
      <4>4. q.child[y][tr.parent[x]] = r
        BY <1>1, <1>3, <4>1, <4>2, <4>3
      <4>5. QED
        BY <3>2, <4>1, <4>4
    <3>3. CASE n = inner
      BY <1>1, <1>2, <1>3, <3>3
    <3>4. CASE n # x /\ n # r /\ n # inner
      <4>1. n # tr.root /\ q.parent[n] = tr.parent[n] /\ tr.parent[n] \in ns
        BY <1>1, <1>2, <1>3, <1>4, <2>4, <3>4
      <4>2. PICK y \in Side : tr.child[y][tr.parent[n]] = n
        BY <1>4, <4>1
      <4>3. CASE tr.parent[n] = x
        <5>1. y = s
          BY <1>1, <3>4, <4>2, <4>3, <1>0
        <5>2. q.child[s][x] = n
          BY <1>0, <1>a, <4>2, <4>3, <5>1
        <5>3. QED
          BY <4>1, <4>3, <5>2
      <4>4. CASE tr.parent[n] = r
        <5>1. y # s
          BY <1>0, <1>1, <3>4, <4>2, <4>4
        <5>2. q.child[y][r] = n
          BY <1>0, <1>1, <1>a, <4>2, <4>4, <5>1
        <5>3. QED
          BY <4>1, <4>4, <5>2
      <4>5. CASE tr.parent[n] # x /\ tr.parent[n] # r
        BY <1>1, <1>3, <3>4, <4>1, <4>2, <4>5
      <4>6. QED
        BY <4>3, <4>4, <4>5
    <3>5. QED
      BY <3>1, <3>2, <3>3, <3>4
  <2>5. QED
    BY <1>1, <2>1, <2>2, <2>3, <2>4 DEF Linked
<1>6. /\ under \in [Link -> SUBSET ns] /\ under[Nil] = {} /\ under[tr.root] = ns
      /\ \A n \in ns : \A y \in Side : \A m \in under[tr.child[y][n]] : Toward(y, m, n)
  BY DEF Tree, Sorted
<1>7. /\ U \in [Link -> SUBSET ns]
      /\ U[x] = {x} \cup under[a] \cup under[inner] /\ U[r] = under[x]
      /\ \A m \in Link : m # x /\ m # r => U[m] = under[m]
  <2>1. x \in Link /\ r \in Link /\ {x} \cup under[a] \cup under[inner] \subseteq ns
    BY <1>2 DEF Link
  <2>2. QED
    BY <1>2, <1>6, <2>1
<1> HIDE DEF U
<1>8. U[Nil] = {} /\ U[q.root] = ns
  <2>1. U[Nil] = {}
    BY <1>1, <1>6, <1>7 DEF Link
  <2>2. U[q.root] = ns
    <3>1. tr.root \in Link
      BY <1>1, <1>4 DEF Link
    <3>2. QED
      BY <1>3, <1>4, <1>6, <1>7, <3>1
  <2>3. QED
    BY <2>1, <2>2
<1>9. ASSUME NEW n \in ns, n # x, n # r, NEW y \in Side
      PROVE  U[q.child[y][n]] = under[tr.child[y][n]]
  <2>1. tr.child[y][n] \in ns \cup {Nil} /\ tr.child[y][n] \in Link
    BY <1>1, LinksAre DEF Tree, Link
  <2>2. CASE tr.child[y][n] = x
    BY <1>1, <1>3, <1>7, <1>9, <2>2
  <2>3. CASE tr.child[y][n] # x
    <3>1. tr.child[y][n] # r
      BY <1>1, <1>2, <1>4, <1>9
    <3>2. q.child[y][n] = tr.child[y][n]
      BY <1>1, <1>3, <1>9, <2>3
    <3>3. QED
      BY <1>7, <2>1, <2>3, <3>1, <3>2
  <2>4. QED
    BY <2>2, <2>3
<1>10. /\ U[q.child[s][x]] = under[a] /\ U[q.child[Other(s)][x]] = under[inner]
       /\ U[q.child[s][r]] = U[x] /\ U[q.child[Other(s)][r]] = under[outer]
  <2>1. /\ a \in Link /\ inner \in Link /\ outer \in Link
        /\ U[a] = under[a] /\ U[inner] = under[inner] /\ U[outer] = under[outer]
    <3>1. a \in Link /\ inner \in Link /\ outer \in Link
      BY <1>1 DEF Link
    <3>2. QED
      BY <1>2, <1>7, <3>1
  <2>2. /\ q.child[s][x] = a /\ q.child[Other(s)][x] = inner
        /\ q.child[s][r] = x /\ q.child[Other(s)][r] = outer
    BY <1>1, <1>a
  <2>3. QED
    BY <2>1, <2>2
<1>11. \A n \in ns : U[n] = {n} \cup U[q.child["left"][n]] \cup U[q.child["right"][n]]
  <2>1. \A n \in ns : U[n] = {n} \cup U[q.child[s][n]] \cup U[q.child[Other(s)][n]]
    <3> TAKE n \in ns
    <3>1. CASE n = x
      BY <1>7, <1>10, <3>1
    <3>2. CASE n = r
      BY <1>2, <1>7, <1>10, <3>2
    <3>3. CASE n # x /\ n # r
      <4>1. under[n] = {n} \cup under[tr.child[s][n]] \cup under[tr.child[Other(s)][n]]
        BY UnderIs
      <4>2. U[n] = under[n]
        BY <1>1, <1>7, <3>3 DEF Link
      <4>3. QED
        BY <1>1, <1>9, <3>3, <4>1, <4>2
    <3>4. QED
      BY <3>1, <3>2, <3>3
  <2>2. (s = "left" /\ Other(s) = "right") \/ (s = "right" /\ Other(s) = "left")
    BY DEF Side, Other
  <2>3. QED
    BY <2>1, <2>2
<1>12. ASSUME NEW n \in ns, NEW y \in Side, NEW m \in U[q.child[y][n]]
       PROVE  Toward(y, m, n)
  <2>1. /\ \A z \in under[r] : Toward(Other(s), z, x) /\ z \in Node
        /\ \A z \in under[a] : Toward(s, z, x) /\ z \in Node
        /\ \A z \in under[inner] : Toward(s, z, r)
        /\ \A z \in under[outer] : Toward(Other(s), z, r)
        /\ under[inner] \subseteq under[r]
    <3>1. /\ under[r] \subseteq Node /\ under[a] \subseteq Node /\ under[inner] \subseteq under[r]
      BY <1>1, <1>2
    <3>2. QED
      BY <1>0, <1>1, <1>6, <3>1
  <2>2. Toward(s, x, r)
    <3>1. Toward(Other(s), r, x)
      BY <1>2, <2>1
    <3>2. QED
      BY <1>1, <1>2, <3>1, OrderIs
  <2>3. CASE n = x /\ y = s
    BY <1>10, <1>12, <2>1, <2>3
  <2>4. CASE n = x /\ y = Other(s)
    BY <1>10, <1>12, <2>1, <2>4
  <2>5. CASE n = r /\ y = s
    <3>1. m = x \/ m \in under[a] \/ m \in under[inner]
      BY <1>7, <1>10, <1>12, <2>5
    <3>2. \A z \in under[a] : Toward(s, z, r)
      BY <1>2, <2>1, <2>2, OrderIs
    <3>3. QED
      BY <2>1, <2>2, <2>5, <3>1, <3>2
  <2>6. CASE n = r /\ y = Other(s)
    BY <1>10, <1>12, <2>1, <2>6
  <2>7. CASE n # x /\ n # r
    <3>1. m \in under[tr.child[y][n]]
      BY <1>9, <1>12, <2>7
    <3>2. QED
      BY <1>6, <3>1
  <2>8. QED
    BY <1>1, <2>3, <2>4, <2>5, <2>6, <2>7
<1>13. Sorted(q, ns, U)
  BY <1>7, <1>8, <1>11, <1>12 DEF Sorted
<1>14. QED
  BY <1>5, <1>13 DEF Tree, U, a, inner

(***************************************************************************)
(* A node is added, takes the place of another, or is taken out            *)
(***************************************************************************)

\* q is tr with links and colours changed as said, for every node.
Hung(tr, n, p, s, q) ==
  /\ q \in Trees /\ q.root = (IF p = Nil THEN n ELSE tr.root) /\ q.red = tr.red \cup {n}
  /\ \A y \in Side, m \in Node : q.child[y][m] = IF m = p /\ y = s THEN n ELSE tr.child[y][m]
  /\ \A m \in Node : q.parent[m] = IF m = n THEN p ELSE tr.parent[m]

\* A new node is a leaf of the tree, where it is in the order of the keys.
LEMMA HungIsTree ==
  ASSUME NEW tr, NEW ns, NEW under, Tree(tr, ns, under), NEW n \in Node, n \notin ns,
         NEW p \in Link, NEW s \in Side, NEW q, Hung(tr, n, p, s, q),
         p = Nil => ns = {},
         p # Nil => /\ p \in ns /\ tr.child[s][p] = Nil /\ Toward(s, n, p)
                    /\ \A x \in ns, y \in Side : p \in under[tr.child[y][x]] => Toward(y, n, x)
  PROVE  \E U : Tree(q, ns \cup {n}, U)
<1> DEFINE N == ns \cup {n}
           U == [m \in Link |-> IF m = n THEN {n} ELSE IF p \in under[m] THEN under[m] \cup {n}
                                                  ELSE under[m]]
<1>1. /\ ns \subseteq Node /\ Nil \notin ns /\ Nil \notin Node /\ n # Nil /\ n \in Link
      /\ tr.root \in ns \cup {Nil}
      /\ \A m \in ns, y \in Side : tr.child[y][m] \in ns \cup {Nil}
      /\ \A m \in ns : tr.parent[m] \in ns \cup {Nil}
  BY LinksAre, NodesAre DEF Tree, Link
<1>2. /\ q \in Trees /\ q.root = (IF p = Nil THEN n ELSE tr.root) /\ q.red = tr.red \cup {n}
      /\ \A y \in Side, m \in Node : q.child[y][m] = IF m = p /\ y = s THEN n ELSE tr.child[y][m]
      /\ \A m \in Node : q.parent[m] = IF m = n THEN p ELSE tr.parent[m]
  BY DEF Hung
<1>3. /\ tr.red \subseteq ns
      /\ tr.root # Nil => tr.root \in ns /\ tr.parent[tr.root] = Nil
      /\ tr.root = Nil => ns = {}
      /\ \A m \in Node : m \notin ns => tr.parent[m] = Nil /\ \A y \in Side : tr.child[y][m] = Nil
      /\ \A m \in ns, y \in Side : tr.child[y][m] # Nil => tr.parent[tr.child[y][m]] = m
      /\ \A m \in ns : m # tr.root => /\ tr.parent[m] \in ns
                                      /\ \E y \in Side : tr.child[y][tr.parent[m]] = m
  BY DEF Tree, Linked
<1>4. Linked(q, N)
  <2>1. q \in Trees /\ N \subseteq Node /\ q.red \subseteq N
    BY <1>1, <1>2, <1>3
  <2>2. q.root \in N /\ q.root # Nil /\ q.parent[q.root] = Nil
    BY <1>1, <1>2, <1>3
  <2>3. ASSUME NEW m \in Node, m \notin N
        PROVE  q.parent[m] = Nil /\ \A y \in Side : q.child[y][m] = Nil
    <3>1. m # p /\ m # n /\ m \notin ns
      BY <1>1, <2>3
    <3>2. QED
      BY <1>2, <1>3, <3>1
  <2>4. ASSUME NEW m \in N, NEW y \in Side, q.child[y][m] # Nil
        PROVE  q.child[y][m] \in N /\ q.parent[q.child[y][m]] = m
    <3>1. CASE m = p /\ y = s
      BY <1>1, <1>2, <2>4, <3>1
    <3>2. CASE ~(m = p /\ y = s)
      <4>1. q.child[y][m] = tr.child[y][m] /\ m \in Node
        BY <1>1, <1>2, <2>4, <3>2
      <4>2. m \in ns
        BY <1>3, <2>4, <4>1
      <4>3. tr.child[y][m] \in ns /\ tr.parent[tr.child[y][m]] = m
        BY <1>1, <1>3, <2>4, <4>1, <4>2
      <4>4. QED
        BY <1>1, <1>2, <4>1, <4>3
    <3>3. QED
      BY <3>1, <3>2
  <2>5. ASSUME NEW m \in N, m # q.root
        PROVE  q.parent[m] \in N /\ \E y \in Side : q.child[y][q.parent[m]] = m
    <3>1. CASE m = n
      <4>1. p \in ns /\ q.parent[m] = p
        BY <1>1, <1>2, <2>5, <3>1
      <4>2. q.child[s][p] = m
        BY <1>1, <1>2, <3>1, <4>1
      <4>3. QED
        BY <4>1, <4>2
    <3>2. CASE m # n
      <4>1. m \in ns /\ m # tr.root /\ p # Nil
        BY <1>2, <2>5, <3>2
      <4>2. q.parent[m] = tr.parent[m] /\ tr.parent[m] \in ns
        BY <1>1, <1>2, <1>3, <3>2, <4>1
      <4>3. PICK y \in Side : tr.child[y][tr.parent[m]] = m
        BY <1>3, <4>1
      <4>4. q.child[y][tr.parent[m]] = m
        BY <1>1, <1>2, <4>1, <4>2, <4>3
      <4>5. QED
        BY <4>2, <4>4
    <3>3. QED
      BY <3>1, <3>2
  <2> HIDE DEF N
  <2>6. QED
    BY <2>1, <2>2, <2>3, <2>4, <2>5 DEF Linked
<1>5. /\ under \in [Link -> SUBSET ns] /\ under[Nil] = {} /\ under[tr.root] = ns
      /\ \A m \in ns, y \in Side : \A x \in under[tr.child[y][m]] : Toward(y, x, m)
  BY DEF Tree, Sorted
<1>6. /\ U \in [Link -> SUBSET N] /\ U[n] = {n}
      /\ \A m \in Link : m # n => U[m] = IF p \in under[m] THEN under[m] \cup {n} ELSE under[m]
  BY <1>1, <1>5
<1> HIDE DEF U
<1>7. U[Nil] = {} /\ U[q.root] = N
  <2>1. U[Nil] = {}
    BY <1>1, <1>5, <1>6 DEF Link
  <2>2. CASE p = Nil
    <3>1. q.root = n /\ ns = {}
      BY <1>2, <2>2
    <3>2. QED
      BY <1>6, <2>1, <3>1
  <2>3. CASE p # Nil
    <3>1. q.root = tr.root /\ tr.root \in Link /\ tr.root # n /\ p \in under[tr.root]
      BY <1>1, <1>2, <1>3, <1>5, <2>3 DEF Link
    <3>2. U[tr.root] = under[tr.root] \cup {n}
      BY <1>6, <3>1
    <3>3. QED
      BY <1>5, <2>1, <3>1, <3>2
  <2>4. QED
    BY <2>1, <2>2, <2>3
<1>8. q.child["left"][n] = Nil /\ q.child["right"][n] = Nil
  BY <1>1, <1>2, <1>3, SidesAre
<1>9. ASSUME NEW m \in ns, NEW y \in Side, ~(m = p /\ y = s)
      PROVE  /\ q.child[y][m] = tr.child[y][m]
             /\ U[q.child[y][m]] = IF p \in under[tr.child[y][m]] THEN under[tr.child[y][m]] \cup {n}
                                   ELSE under[tr.child[y][m]]
  <2>1. q.child[y][m] = tr.child[y][m]
    BY <1>1, <1>2, <1>9
  <2>2. tr.child[y][m] \in Link /\ tr.child[y][m] # n
    BY <1>1 DEF Link
  <2> DEFINE c == tr.child[y][m]
  <2> HIDE DEF c
  <2>3. U[c] = IF p \in under[c] THEN under[c] \cup {n} ELSE under[c]
    BY <1>6, <2>2 DEF c
  <2>4. QED
    BY <2>1, <2>3 DEF c
<1>10. \A m \in N : U[m] = {m} \cup U[q.child["left"][m]] \cup U[q.child["right"][m]]
  <2>1. ASSUME NEW m \in ns PROVE U[m] = {m} \cup U[q.child[s][m]] \cup U[q.child[Other(s)][m]]
    <3>1. /\ under[m] = {m} \cup under[tr.child[s][m]] \cup under[tr.child[Other(s)][m]]
          /\ m \notin under[tr.child[Other(s)][m]]
          /\ m \in Link /\ m # n /\ Other(s) \in Side /\ Other(s) # s
      BY <1>1, UnderIs, SidesAre DEF Link
    <3>2. CASE m = p
      <4>1. q.child[s][m] = n
        BY <1>1, <1>2, <3>2
      <4>2. under[tr.child[s][m]] = {} /\ p \in under[m]
        BY <1>1, <1>5, <3>1, <3>2
      <4>3. U[q.child[Other(s)][m]] = under[tr.child[Other(s)][m]]
        <5>1. p \notin under[tr.child[Other(s)][m]]
          BY <3>1, <3>2
        <5>2. QED
          BY <1>9, <3>1, <5>1
      <4>4. QED
        BY <1>6, <3>1, <4>1, <4>2, <4>3
    <3>3. CASE m # p
      <4>1. /\ U[q.child[s][m]] = IF p \in under[tr.child[s][m]] THEN under[tr.child[s][m]] \cup {n}
                                  ELSE under[tr.child[s][m]]
            /\ U[q.child[Other(s)][m]] =
                 IF p \in under[tr.child[Other(s)][m]] THEN under[tr.child[Other(s)][m]] \cup {n}
                 ELSE under[tr.child[Other(s)][m]]
        BY <1>9, <3>1, <3>3
      <4>2. U[m] = IF p \in under[m] THEN under[m] \cup {n} ELSE under[m]
        BY <1>6, <3>1
      <4>3. QED
        BY <3>1, <3>3, <4>1, <4>2
    <3>4. QED
      BY <3>2, <3>3
  <2>2. (s = "left" /\ Other(s) = "right") \/ (s = "right" /\ Other(s) = "left")
    BY DEF Side, Other
  <2>3. QED
    BY <1>6, <1>7, <1>8, <2>1, <2>2
<1>11. ASSUME NEW m \in N, NEW y \in Side, NEW x \in U[q.child[y][m]] PROVE Toward(y, x, m)
  <2>1. CASE m = n
    <3>1. q.child[y][m] = Nil
      BY <1>8, <2>1 DEF Side
    <3>2. QED
      BY <1>7, <1>11, <3>1
  <2>2. CASE m = p /\ y = s
    <3>1. q.child[y][m] = n
      BY <1>1, <1>2, <2>2
    <3>2. QED
      BY <1>1, <1>6, <1>11, <2>2, <3>1
  <2>3. CASE m # n /\ ~(m = p /\ y = s)
    <3>1. m \in ns
      BY <2>3
    <3>2. x \in under[tr.child[y][m]] \/ (x = n /\ p \in under[tr.child[y][m]])
      <4>1. x \in IF p \in under[tr.child[y][m]] THEN under[tr.child[y][m]] \cup {n}
                 ELSE under[tr.child[y][m]]
        BY <1>9, <1>11, <2>3, <3>1
      <4>2. QED
        BY <4>1
    <3>3. p # Nil \/ p \notin under[tr.child[y][m]]
      BY <3>1
    <3>4. QED
      BY <1>5, <3>1, <3>2, <3>3
  <2>4. QED
    BY <2>1, <2>2, <2>3
<1> HIDE DEF N
<1>12. Sorted(q, N, U)
  BY <1>6, <1>7, <1>10, <1>11 DEF Sorted
<1>13. Tree(q, N, U)
  BY <1>4, <1>12 DEF Tree
<1>14. QED
  BY <1>13 DEF N

\* q is tr with n in the place of o.
Renamed(tr, o, n, q) ==
  /\ q \in Trees /\ q.root = (IF tr.root = o THEN n ELSE tr.root)
  /\ q.red = IF o \in tr.red THEN (tr.red \ {o}) \cup {n} ELSE tr.red
  /\ \A y \in Side, m \in Node :
       q.child[y][m] = IF m = n THEN tr.child[y][o] ELSE IF m = o THEN Nil
                       ELSE IF tr.child[y][m] = o THEN n ELSE tr.child[y][m]
  /\ \A m \in Node :
       q.parent[m] = IF m = n THEN tr.parent[o] ELSE IF m = o THEN Nil
                     ELSE IF tr.parent[m] = o THEN n ELSE tr.parent[m]

\* What becomes of a node or of none.
Renaming(o, n) == [m \in Link |-> IF m = o THEN n ELSE m]

\* The links of the renamed tree are those of the tree, renamed.
LEMMA RenamedIs ==
  ASSUME NEW tr, NEW ns, NEW under, Tree(tr, ns, under), NEW o \in ns, NEW n \in Node, n \notin ns,
         NEW q, Renamed(tr, o, n, q), NEW fwd, fwd = Renaming(o, n)
  PROVE  /\ \A m \in ns : fwd[m] \in (ns \ {o}) \cup {n}
         /\ \A m \in (ns \ {o}) \cup {n} : \E b \in ns : m = fwd[b]
         /\ fwd[Nil] = Nil /\ \A m \in ns \cup {Nil} : fwd[m] = Nil => m = Nil
         /\ \A l, m \in ns \cup {Nil} : fwd[l] = fwd[m] => l = m
         /\ q.root = fwd[tr.root]
         /\ \A b \in ns : /\ q.parent[fwd[b]] = fwd[tr.parent[b]]
                          /\ \A y \in Side : q.child[y][fwd[b]] = fwd[tr.child[y][b]]
                          /\ fwd[b] \in q.red <=> b \in tr.red
         /\ q.red \subseteq (ns \ {o}) \cup {n}
<1>1. /\ ns \subseteq Node /\ Nil \notin ns /\ n # Nil /\ o # Nil /\ n # o
      /\ tr.root \in ns \cup {Nil} /\ tr.red \subseteq ns
      /\ \A m \in ns, y \in Side : tr.child[y][m] \in ns \cup {Nil}
      /\ \A m \in ns : tr.parent[m] \in ns \cup {Nil}
  BY LinksAre, NodesAre DEF Tree, Linked
<1>2. \A m \in ns \cup {Nil} : fwd[m] = IF m = o THEN n ELSE m
  BY <1>1 DEF Link, Renaming
<1>3. /\ q.root = (IF tr.root = o THEN n ELSE tr.root)
      /\ q.red = IF o \in tr.red THEN (tr.red \ {o}) \cup {n} ELSE tr.red
      /\ \A y \in Side, m \in Node :
           q.child[y][m] = IF m = n THEN tr.child[y][o] ELSE IF m = o THEN Nil
                           ELSE IF tr.child[y][m] = o THEN n ELSE tr.child[y][m]
      /\ \A m \in Node :
           q.parent[m] = IF m = n THEN tr.parent[o] ELSE IF m = o THEN Nil
                         ELSE IF tr.parent[m] = o THEN n ELSE tr.parent[m]
  BY DEF Renamed
<1>4. tr.parent[o] # o /\ \A y \in Side : tr.child[y][o] # o
  <2>1. \A y \in Side : tr.child[y][o] # o
    BY <1>1, UnderIs
  <2>2. tr.parent[o] # o
    BY <1>1, <2>1 DEF Tree, Linked
  <2>3. QED
    BY <2>1, <2>2
<1>5. /\ \A m \in ns : fwd[m] \in (ns \ {o}) \cup {n}
      /\ fwd[Nil] = Nil /\ \A m \in ns \cup {Nil} : fwd[m] = Nil => m = Nil
      /\ \A l, m \in ns \cup {Nil} : fwd[l] = fwd[m] => l = m
      /\ q.root = fwd[tr.root]
      /\ q.red \subseteq (ns \ {o}) \cup {n}
  BY <1>1, <1>2, <1>3
<1>6. ASSUME NEW m \in (ns \ {o}) \cup {n} PROVE \E b \in ns : m = fwd[b]
  <2>1. CASE m = n
    BY <1>2, <2>1
  <2>2. CASE m # n
    BY <1>2, <2>2
  <2>3. QED
    BY <2>1, <2>2
<1>7. ASSUME NEW b \in ns
      PROVE  /\ q.parent[fwd[b]] = fwd[tr.parent[b]]
             /\ \A y \in Side : q.child[y][fwd[b]] = fwd[tr.child[y][b]]
             /\ fwd[b] \in q.red <=> b \in tr.red
  <2>1. CASE b = o
    <3>1. fwd[b] = n /\ b \in Node
      BY <1>1, <1>2, <2>1
    <3>2. /\ fwd[tr.parent[b]] = tr.parent[b]
          /\ \A y \in Side : fwd[tr.child[y][b]] = tr.child[y][b]
      BY <1>1, <1>2, <1>4, <2>1
    <3>3. QED
      BY <1>1, <1>3, <2>1, <3>1, <3>2
  <2>2. CASE b # o
    <3>1. fwd[b] = b /\ b # n /\ b \in Node
      BY <1>1, <1>2, <2>2
    <3>2. /\ fwd[tr.parent[b]] = IF tr.parent[b] = o THEN n ELSE tr.parent[b]
          /\ \A y \in Side : fwd[tr.child[y][b]] = IF tr.child[y][b] = o THEN n ELSE tr.child[y][b]
      BY <1>1, <1>2
    <3>3. QED
      BY <1>1, <1>3, <2>2, <3>1, <3>2
  <2>3. QED
    BY <2>1, <2>2
<1>8. QED
  BY <1>5, <1>6, <1>7

\* A node may take the place of another if it is there in the order of the keys.
LEMMA RenamedIsTree ==
  ASSUME NEW tr, NEW ns, NEW under, Tree(tr, ns, under), NEW o \in ns, NEW n \in Node, n \notin ns,
         NEW q, Renamed(tr, o, n, q),
         \A y \in Side : \A m \in under[tr.child[y][o]] : Toward(y, m, n),
         \A x \in ns, y \in Side : o \in under[tr.child[y][x]] => Toward(y, n, x)
  PROVE  \E U : Tree(q, (ns \ {o}) \cup {n}, U)
<1> DEFINE N == (ns \ {o}) \cup {n}
           fwd == Renaming(o, n)
           U == [m \in Link |-> IF m = o THEN {}
                                ELSE {fwd[x] : x \in under[IF m = n THEN o ELSE m]}]
<1>1. /\ ns \subseteq Node /\ Nil \notin ns /\ n # Nil /\ o # Nil /\ n # o
      /\ tr.root \in ns \cup {Nil} /\ tr.red \subseteq ns
      /\ \A m \in ns, y \in Side : tr.child[y][m] \in ns \cup {Nil}
      /\ \A m \in ns : tr.parent[m] \in ns \cup {Nil}
  BY LinksAre, NodesAre DEF Tree, Linked
<1>2. /\ \A m \in ns : fwd[m] \in N
      /\ \A m \in N : \E b \in ns : m = fwd[b]
      /\ fwd[Nil] = Nil /\ \A m \in ns \cup {Nil} : fwd[m] = Nil => m = Nil
      /\ \A l, m \in ns \cup {Nil} : fwd[l] = fwd[m] => l = m
      /\ q.root = fwd[tr.root]
      /\ \A b \in ns : /\ q.parent[fwd[b]] = fwd[tr.parent[b]]
                       /\ \A y \in Side : q.child[y][fwd[b]] = fwd[tr.child[y][b]]
      /\ q.red \subseteq N
  <2> HIDE DEF fwd
  <2>1. fwd = Renaming(o, n)
    BY DEF fwd
  <2>2. QED
    BY <2>1, RenamedIs
<1>3. \A m \in ns \cup {Nil} : fwd[m] = IF m = o THEN n ELSE m
  BY <1>1 DEF Link, Renaming
<1>4. /\ under \in [Link -> SUBSET ns] /\ under[Nil] = {} /\ under[tr.root] = ns
      /\ \A m \in ns, y \in Side : \A x \in under[tr.child[y][m]] : Toward(y, x, m)
      /\ \A m \in ns : under[m] = {m} \cup under[tr.child["left"][m]] \cup under[tr.child["right"][m]]
  BY DEF Tree, Sorted
<1>5. U \in [Link -> SUBSET N]
  <2> SUFFICES ASSUME NEW m \in Link PROVE {fwd[x] : x \in under[IF m = n THEN o ELSE m]} \subseteq N
    OBVIOUS
  <2>1. o \in Link /\ under[IF m = n THEN o ELSE m] \subseteq ns
    BY <1>1, <1>4 DEF Link
  <2> HIDE DEF fwd
  <2>2. QED
    BY <1>2, <2>1
<1>6. \A b \in ns \cup {Nil} : U[fwd[b]] = {fwd[x] : x \in under[b]}
  <2> SUFFICES ASSUME NEW b \in ns \cup {Nil} PROVE U[fwd[b]] = {fwd[x] : x \in under[b]}
    OBVIOUS
  <2>1. b \in Link /\ n \in Link /\ o \in Link /\ b # n
    BY <1>1 DEF Link
  <2>2. fwd[b] = IF b = o THEN n ELSE b
    BY <1>3
  <2> HIDE DEF fwd
  <2>3. CASE b = o
    BY <1>1, <2>1, <2>2, <2>3
  <2>4. CASE b # o
    BY <1>1, <2>1, <2>2, <2>4
  <2>5. QED
    BY <2>3, <2>4
<1> HIDE DEF fwd, U
<1>7. Linked(q, N)
  <2>1. q \in Trees /\ N \subseteq Node /\ q.red \subseteq N
    BY <1>1, <1>2 DEF Renamed
  <2>2. q.root \in N /\ q.root # Nil /\ q.parent[q.root] = Nil
    <3>1. tr.root \in ns /\ tr.parent[tr.root] = Nil
      BY <1>1 DEF Tree, Linked
    <3>2. QED
      BY <1>1, <1>2, <3>1
  <2>3. ASSUME NEW m \in Node, m \notin N
        PROVE  q.parent[m] = Nil /\ \A y \in Side : q.child[y][m] = Nil
    <3>1. CASE m = o
      BY <1>1, <3>1 DEF Renamed
    <3>2. CASE m # o
      <4>1. m \notin ns /\ m # n
        BY <2>3, <3>2
      <4>2. tr.parent[m] = Nil /\ \A y \in Side : tr.child[y][m] = Nil
        BY <4>1 DEF Tree, Linked
      <4>3. QED
        BY <1>1, <3>2, <4>1, <4>2 DEF Renamed
    <3>3. QED
      BY <3>1, <3>2
  <2>4. ASSUME NEW m \in N, NEW y \in Side, q.child[y][m] # Nil
        PROVE  q.child[y][m] \in N /\ q.parent[q.child[y][m]] = m
    <3>1. PICK b \in ns : m = fwd[b]
      BY <1>2
    <3>2. q.child[y][m] = fwd[tr.child[y][b]]
      BY <1>2, <3>1
    <3>3. tr.child[y][b] \in ns /\ tr.parent[tr.child[y][b]] = b
      BY <1>1, <1>2, <2>4, <3>2 DEF Tree, Linked
    <3>4. QED
      BY <1>2, <3>1, <3>2, <3>3
  <2>5. ASSUME NEW m \in N, m # q.root
        PROVE  q.parent[m] \in N /\ \E y \in Side : q.child[y][q.parent[m]] = m
    <3>1. PICK b \in ns : m = fwd[b]
      BY <1>2
    <3>2. b # tr.root
      BY <1>2, <2>5, <3>1
    <3>3. tr.parent[b] \in ns /\ \E y \in Side : tr.child[y][tr.parent[b]] = b
      BY <3>2 DEF Tree, Linked
    <3>4. PICK y \in Side : tr.child[y][tr.parent[b]] = b
      BY <3>3
    <3>5. q.parent[m] = fwd[tr.parent[b]] /\ q.child[y][fwd[tr.parent[b]]] = fwd[b]
      BY <1>2, <3>1, <3>3, <3>4
    <3>6. QED
      BY <1>2, <3>1, <3>3, <3>5
  <2> HIDE DEF N
  <2>6. QED
    BY <2>1, <2>2, <2>3, <2>4, <2>5 DEF Linked
<1>8. U[Nil] = {} /\ U[q.root] = N
  <2>1. U[Nil] = {}
    BY <1>2, <1>4, <1>6
  <2>2. U[q.root] = {fwd[x] : x \in ns}
    BY <1>1, <1>2, <1>4, <1>6
  <2>3. {fwd[x] : x \in ns} = N
    <3> HIDE DEF N
    <3>1. QED
      BY <1>2
  <2>4. QED
    BY <2>1, <2>2, <2>3
<1>9. \A m \in N : U[m] = {m} \cup U[q.child["left"][m]] \cup U[q.child["right"][m]]
  <2> SUFFICES ASSUME NEW m \in N
               PROVE  U[m] = {m} \cup U[q.child["left"][m]] \cup U[q.child["right"][m]]
    OBVIOUS
  <2>1. PICK b \in ns : m = fwd[b]
    BY <1>2
  <2> DEFINE l == tr.child["left"][b]
             r == tr.child["right"][b]
  <2>2. /\ q.child["left"][m] = fwd[l] /\ q.child["right"][m] = fwd[r]
        /\ l \in ns \cup {Nil} /\ r \in ns \cup {Nil}
    BY <1>1, <1>2, <2>1, SidesAre
  <2>3. under[b] = {b} \cup under[l] \cup under[r]
    BY <1>4
  <2> HIDE DEF l, r
  <2>4. {fwd[x] : x \in under[b]} = {fwd[b]} \cup {fwd[x] : x \in under[l]} \cup {fwd[x] : x \in under[r]}
    BY <2>3
  <2>5. U[m] = {fwd[x] : x \in under[b]}
    BY <1>6, <2>1
  <2>6. U[fwd[l]] = {fwd[x] : x \in under[l]} /\ U[fwd[r]] = {fwd[x] : x \in under[r]}
    BY <1>6, <2>2
  <2>7. QED
    BY <2>1, <2>2, <2>4, <2>5, <2>6
<1>10. ASSUME NEW m \in N, NEW y \in Side, NEW x \in U[q.child[y][m]] PROVE Toward(y, x, m)
  <2>1. PICK b \in ns : m = fwd[b]
    BY <1>2
  <2> DEFINE c == tr.child[y][b]
  <2>2. q.child[y][m] = fwd[c] /\ c \in ns \cup {Nil}
    BY <1>1, <1>2, <2>1
  <2>3. x \in {fwd[z] : z \in under[c]}
    BY <1>6, <1>10, <2>2
  <2>4. PICK z \in under[c] : x = fwd[z]
    BY <2>3
  <2>5. z \in ns /\ b \notin under[c] /\ Toward(y, z, b)
    BY <1>4, UnderIs
  <2>6. x = (IF z = o THEN n ELSE z) /\ m = (IF b = o THEN n ELSE b)
    BY <1>3, <2>1, <2>4, <2>5
  <2>7. CASE b = o
    BY <2>4, <2>5, <2>6, <2>7
  <2>8. CASE z = o /\ b # o
    BY <2>4, <2>6, <2>8
  <2>9. CASE z # o /\ b # o
    BY <2>5, <2>6, <2>9
  <2>10. QED
    BY <2>7, <2>8, <2>9
<1> HIDE DEF N
<1>11. Sorted(q, N, U)
  BY <1>5, <1>8, <1>9, <1>10 DEF Sorted
<1>12. Tree(q, N, U)
  BY <1>7, <1>11 DEF Tree
<1>13. QED
  BY <1>12 DEF N

\* q is tr without x, the child of which, c, hangs where x hung.
Spliced(tr, x, c, q) ==
  /\ q \in Trees /\ q.root = (IF tr.root = x THEN c ELSE tr.root) /\ q.red = tr.red \ {x}
  /\ \A y \in Side, m \in Node :
       q.child[y][m] = IF m = x THEN Nil ELSE IF tr.child[y][m] = x THEN c ELSE tr.child[y][m]
  /\ \A m \in Node :
       q.parent[m] = IF m = x THEN Nil ELSE IF m = c THEN tr.parent[x] ELSE tr.parent[m]

\* c is the only child of x, if it has one.
OnlyChild(tr, x, c) == \E s \in Side : tr.child[s][x] = c /\ tr.child[Other(s)][x] = Nil

\* A node with at most one child is taken out, and its child takes its place.
LEMMA SplicedIsTree ==
  ASSUME NEW tr, NEW ns, NEW under, Tree(tr, ns, under), NEW x \in ns, NEW c, OnlyChild(tr, x, c),
         NEW q, Spliced(tr, x, c, q), NEW U,
         U = [m \in Link |-> IF m = x THEN {} ELSE under[m] \ {x}]
  PROVE  Tree(q, ns \ {x}, U)
<1> DEFINE N == ns \ {x}
<1>1. /\ ns \subseteq Node /\ Nil \notin ns /\ x # Nil /\ x \in Node
      /\ tr.root \in ns /\ tr.parent[tr.root] = Nil /\ tr.red \subseteq ns
      /\ \A m \in ns, y \in Side : tr.child[y][m] \in ns \cup {Nil}
      /\ \A m \in ns : tr.parent[m] \in ns \cup {Nil}
      /\ \A m \in Node : m \notin ns => tr.parent[m] = Nil /\ \A y \in Side : tr.child[y][m] = Nil
      /\ \A m \in ns, y \in Side : tr.child[y][m] # Nil => tr.parent[tr.child[y][m]] = m
      /\ \A m \in ns : m # tr.root => /\ tr.parent[m] \in ns
                                      /\ \E y \in Side : tr.child[y][tr.parent[m]] = m
  BY LinksAre, NodesAre DEF Tree, Linked
<1>2. PICK s \in Side : tr.child[s][x] = c /\ tr.child[Other(s)][x] = Nil
  BY DEF OnlyChild
<1>3. /\ under \in [Link -> SUBSET ns] /\ under[Nil] = {} /\ under[tr.root] = ns
      /\ \A m \in ns, y \in Side : \A z \in under[tr.child[y][m]] : Toward(y, z, m)
      /\ \A m \in ns : under[m] = {m} \cup under[tr.child["left"][m]] \cup under[tr.child["right"][m]]
  BY DEF Tree, Sorted
<1>4. /\ c \in ns \cup {Nil} /\ c # x /\ under[x] = {x} \cup under[c] /\ x \notin under[c]
      /\ c # Nil => tr.parent[c] = x
      /\ \A y \in Side : tr.child[y][x] = c \/ tr.child[y][x] = Nil
  <2>1. /\ under[x] = {x} \cup under[c] \cup under[tr.child[Other(s)][x]] /\ x \notin under[c]
        /\ c # Nil => c \in under[c]
    BY <1>2, UnderIs
  <2>2. \A y \in Side : y = s \/ y = Other(s)
    BY SidesAre
  <2>3. c \in ns \cup {Nil} /\ (c # Nil => tr.parent[c] = x) /\ c # x
    BY <1>1, <1>2, <2>1
  <2>4. QED
    BY <1>2, <1>3, <2>1, <2>2, <2>3
<1>5. /\ q \in Trees /\ q.root = (IF tr.root = x THEN c ELSE tr.root) /\ q.red = tr.red \ {x}
      /\ \A y \in Side, m \in Node :
           q.child[y][m] = IF m = x THEN Nil ELSE IF tr.child[y][m] = x THEN c ELSE tr.child[y][m]
      /\ \A m \in Node :
           q.parent[m] = IF m = x THEN Nil ELSE IF m = c THEN tr.parent[x] ELSE tr.parent[m]
  BY DEF Spliced
<1>6. tr.parent[x] # x /\ tr.root # c /\ \A y \in Side : tr.child[y][x] # x
  <2>1. \A y \in Side : tr.child[y][x] # x
    BY <1>1, <1>4
  <2>2. tr.parent[x] # x
    BY <1>1, <2>1
  <2>3. QED
    BY <1>1, <1>4, <2>1, <2>2
<1>7. Linked(q, N)
  <2>1. q \in Trees /\ N \subseteq Node /\ q.red \subseteq N
    BY <1>1, <1>5
  <2>2. IF q.root = Nil THEN N = {} ELSE q.root \in N /\ q.parent[q.root] = Nil
    <3>1. CASE tr.root # x
      <4>1. q.root = tr.root /\ q.root # Nil /\ q.root # c /\ q.root \in Node
        BY <1>1, <1>5, <1>6, <3>1
      <4>2. QED
        BY <1>1, <1>5, <3>1, <4>1
    <3>2. CASE tr.root = x /\ c = Nil
      <4>1. N = {} /\ q.root = Nil
        BY <1>3, <1>4, <1>5, <3>2
      <4>2. QED
        BY <4>1
    <3>3. CASE tr.root = x /\ c # Nil
      <4>1. q.root = c /\ c \in N /\ c \in Node /\ tr.parent[x] = Nil
        BY <1>1, <1>4, <1>5, <3>3
      <4>2. QED
        BY <1>4, <1>5, <3>3, <4>1
    <3>4. QED
      BY <3>1, <3>2, <3>3
  <2>3. ASSUME NEW m \in Node, m \notin N
        PROVE  q.parent[m] = Nil /\ \A y \in Side : q.child[y][m] = Nil
    <3>1. CASE m = x
      BY <1>5, <3>1
    <3>2. CASE m # x
      <4>1. m \notin ns /\ m # c
        BY <1>4, <2>3, <3>2, NodesAre
      <4>2. QED
        BY <1>1, <1>5, <3>2, <4>1
    <3>3. QED
      BY <3>1, <3>2
  <2>4. ASSUME NEW m \in N, NEW y \in Side, q.child[y][m] # Nil
        PROVE  q.child[y][m] \in N /\ q.parent[q.child[y][m]] = m
    <3>1. CASE tr.child[y][m] = x
      <4>1. q.child[y][m] = c /\ c # Nil /\ c \in N /\ c \in Node
        BY <1>1, <1>4, <1>5, <2>4, <3>1
      <4>2. tr.parent[x] = m
        BY <1>1, <3>1
      <4>3. QED
        BY <1>4, <1>5, <4>1, <4>2
    <3>2. CASE tr.child[y][m] # x
      <4>1. q.child[y][m] = tr.child[y][m] /\ tr.child[y][m] \in ns /\ tr.parent[tr.child[y][m]] = m
        BY <1>1, <1>5, <2>4, <3>2
      <4>2. tr.child[y][m] # c
        BY <1>4, <2>4, <4>1
      <4>3. QED
        BY <1>1, <1>5, <3>2, <4>1, <4>2
    <3>3. QED
      BY <3>1, <3>2
  <2>5. ASSUME NEW m \in N, m # q.root
        PROVE  q.parent[m] \in N /\ \E y \in Side : q.child[y][q.parent[m]] = m
    <3>1. CASE m = c
      <4>1. x # tr.root /\ q.parent[m] = tr.parent[x] /\ tr.parent[x] \in N
        BY <1>1, <1>5, <1>6, <2>5, <3>1
      <4>2. PICK y \in Side : tr.child[y][tr.parent[x]] = x
        BY <1>1, <4>1
      <4>3. q.child[y][tr.parent[x]] = m
        BY <1>1, <1>5, <3>1, <4>1, <4>2
      <4>4. QED
        BY <4>1, <4>3
    <3>2. CASE m # c
      <4>1. m # tr.root
        BY <1>5, <2>5
      <4>2. q.parent[m] = tr.parent[m] /\ tr.parent[m] \in ns
        BY <1>1, <1>5, <2>5, <3>2, <4>1
      <4>3. PICK y \in Side : tr.child[y][tr.parent[m]] = m
        BY <1>1, <2>5, <4>1
      <4>4. tr.parent[m] # x
        BY <1>1, <1>4, <3>2, <4>3
      <4>5. q.child[y][tr.parent[m]] = m
        BY <1>1, <1>5, <2>5, <4>2, <4>3, <4>4
      <4>6. QED
        BY <4>2, <4>4, <4>5
    <3>3. QED
      BY <3>1, <3>2
  <2> HIDE DEF N
  <2>6. QED
    BY <2>1, <2>2, <2>3, <2>4, <2>5 DEF Linked
<1>8. U \in [Link -> SUBSET N] /\ U[x] = {} /\ \A m \in Link : m # x => U[m] = under[m] \ {x}
  BY <1>1, <1>3 DEF Link
<1>9. U[Nil] = {} /\ U[q.root] = N
  <2>1. U[Nil] = {}
    BY <1>1, <1>3, <1>8 DEF Link
  <2>2. CASE tr.root = x
    <3>1. q.root = c /\ c \in Link /\ U[c] = under[c] \ {x}
      BY <1>1, <1>4, <1>5, <1>8, <2>2 DEF Link
    <3>2. QED
      BY <1>3, <1>4, <2>1, <2>2, <3>1
  <2>3. CASE tr.root # x
    <3>1. q.root = tr.root /\ tr.root \in Link /\ U[tr.root] = under[tr.root] \ {x}
      BY <1>1, <1>5, <1>8, <2>3 DEF Link
    <3>2. QED
      BY <1>3, <2>1, <3>1
  <2>4. QED
    BY <2>2, <2>3
<1>10. ASSUME NEW m \in N, NEW y \in Side PROVE U[q.child[y][m]] = under[tr.child[y][m]] \ {x}
  <2>1. CASE tr.child[y][m] = x
    <3>1. q.child[y][m] = c /\ c \in Link /\ U[c] = under[c] \ {x}
      BY <1>1, <1>4, <1>5, <1>8, <2>1 DEF Link
    <3>2. QED
      BY <1>4, <2>1, <3>1
  <2>2. CASE tr.child[y][m] # x
    <3>1. q.child[y][m] = tr.child[y][m] /\ tr.child[y][m] \in Link
      BY <1>1, <1>5, <2>2 DEF Link
    <3>2. QED
      BY <1>8, <2>2, <3>1
  <2>3. QED
    BY <2>1, <2>2
<1>11. \A m \in N : U[m] = {m} \cup U[q.child["left"][m]] \cup U[q.child["right"][m]]
  <2> SUFFICES ASSUME NEW m \in N
               PROVE  U[m] = {m} \cup U[q.child["left"][m]] \cup U[q.child["right"][m]]
    OBVIOUS
  <2>1. /\ U[q.child["left"][m]] = under[tr.child["left"][m]] \ {x}
        /\ U[q.child["right"][m]] = under[tr.child["right"][m]] \ {x}
    BY <1>10, SidesAre
  <2>2. U[m] = under[m] \ {x} /\ m # x
    BY <1>1, <1>8 DEF Link
  <2>3. under[m] = {m} \cup under[tr.child["left"][m]] \cup under[tr.child["right"][m]]
    BY <1>3
  <2>4. QED
    BY <2>1, <2>2, <2>3
<1>12. \A m \in N, y \in Side : \A z \in U[q.child[y][m]] : Toward(y, z, m)
  BY <1>3, <1>10
<1> HIDE DEF N
<1>13. Sorted(q, N, U)
  BY <1>8, <1>9, <1>11, <1>12 DEF Sorted
<1>14. Tree(q, N, U)
  BY <1>7, <1>13 DEF Tree
<1>15. QED
  BY <1>14 DEF N

(***************************************************************************)
(* What the actions do to the links                                        *)
(***************************************************************************)

\* q is tr without the links and the colour of n.
Forgotten(tr, n, q) ==
  /\ q \in Trees /\ q.root = tr.root /\ q.red = tr.red \ {n}
  /\ \A y \in Side, m \in Node : q.child[y][m] = IF m = n THEN Nil ELSE tr.child[y][m]
  /\ \A m \in Node : q.parent[m] = IF m = n THEN Nil ELSE tr.parent[m]

\* Forget clears the links and the colour of its node, and nothing else.
LEMMA ForgottenIs ==
  ASSUME NEW tr \in Trees, NEW n \in Node
  PROVE  Forgotten(tr, n, Forget(tr, n))
<1> DEFINE q1 == SetChild(tr, "left", n, Nil)
           q2 == SetChild(q1, "right", n, Nil)
           q3 == SetParent(q2, [tr.parent EXCEPT ![n] = Nil])
           q == [q3 EXCEPT !.red = tr.red \ {n}]
<1>1. Nil \in Link /\ "left" \in Side /\ "right" \in Side
  BY SidesAre DEF Link
<1>2. /\ q1 \in Trees /\ q1.root = tr.root /\ q1.red = tr.red /\ q1.parent = tr.parent
      /\ \A y \in Side, m \in Node : q1.child[y][m] = IF y = "left" /\ m = n THEN Nil ELSE tr.child[y][m]
  BY <1>1, SetChildIs
<1>3. Forget(tr, n) = [tr EXCEPT !.child["left"][n] = Nil, !.child["right"][n] = Nil,
                                 !.parent = [tr.parent EXCEPT ![n] = Nil], !.red = tr.red \ {n}]
  BY DEF Forget, Trees
<1>4. Forget(tr, n) = [q2 EXCEPT !.parent = [tr.parent EXCEPT ![n] = Nil], !.red = tr.red \ {n}]
  BY <1>3 DEF SetChild
<1> HIDE DEF q1
<1>5. /\ q2 \in Trees /\ q2.root = tr.root /\ q2.red = tr.red /\ q2.parent = tr.parent
      /\ \A y \in Side, m \in Node :
           q2.child[y][m] = IF y = "right" /\ m = n THEN Nil ELSE q1.child[y][m]
  BY <1>1, <1>2, SetChildIs
<1> HIDE DEF q2
<1>6. [tr.parent EXCEPT ![n] = Nil] \in [Node -> Link]
  BY <1>1 DEF Trees
<1>7. /\ q3 \in Trees /\ q3.root = tr.root /\ q3.child = q2.child /\ q3.red = tr.red
      /\ q3.parent = [tr.parent EXCEPT ![n] = Nil]
  BY <1>5, <1>6, SetParentIs
<1>8. Forget(tr, n) = q
  BY <1>4, <1>5 DEF Trees, SetParent
<1> HIDE DEF q3
<1>9. /\ q \in Trees /\ q.root = tr.root /\ q.child = q2.child /\ q.red = tr.red \ {n}
      /\ q.parent = [tr.parent EXCEPT ![n] = Nil]
  BY <1>7 DEF Trees
<1> HIDE DEF q
<1>10. \A y \in Side, m \in Node : q.child[y][m] = IF m = n THEN Nil ELSE tr.child[y][m]
  BY <1>2, <1>5, <1>9 DEF Side
<1>11. \A m \in Node : q.parent[m] = IF m = n THEN Nil ELSE tr.parent[m]
  BY <1>9 DEF Trees
<1>12. Forgotten(tr, n, q)
  BY <1>9, <1>10, <1>11 DEF Forgotten
<1>13. QED
  BY <1>8, <1>12

\* q is tr with n where o hung from p.
Relinked(tr, p, o, n, q) ==
  /\ q \in Trees /\ q.parent = tr.parent /\ q.red = tr.red /\ q.root = IF p = Nil THEN n ELSE tr.root
  /\ \A y \in Side, m \in Node :
       q.child[y][m] = IF m = p /\ tr.child[y][m] = o THEN n ELSE tr.child[y][m]

\* Relink puts the new node where the old one hung, and nowhere else.
LEMMA RelinkedIs ==
  ASSUME NEW tr \in Trees, NEW p \in Link, NEW o, NEW n \in Link,
         p # Nil => \E s \in Side : tr.child[s][p] = o /\ tr.child[Other(s)][p] # o
  PROVE  Relinked(tr, p, o, n, Relink(tr, p, o, n))
<1> DEFINE q == Relink(tr, p, o, n)
           side == IF tr.child["left"][p] = o THEN "left" ELSE "right"
<1>1. /\ q \in Trees /\ q.parent = tr.parent /\ q.red = tr.red
      /\ q.root = IF p = Nil THEN n ELSE tr.root
      /\ \A y \in Side, m \in Node :
           q.child[y][m] = IF m = p /\ y = side THEN n ELSE tr.child[y][m]
  BY RelinkIs
<1> HIDE DEF q
<1>2. \A y \in Side, m \in Node : m = p => (y = side <=> tr.child[y][m] = o)
  <2> SUFFICES ASSUME NEW y \in Side, p \in Node PROVE y = side <=> tr.child[y][p] = o
    OBVIOUS
  <2>1. PICK s \in Side : tr.child[s][p] = o /\ tr.child[Other(s)][p] # o
    BY NodesAre
  <2>2. side = s
    BY <2>1 DEF Side, Other
  <2>3. y = s \/ y = Other(s)
    BY SidesAre
  <2>4. QED
    BY <2>1, <2>2, <2>3, SidesAre
<1> HIDE DEF side
<1>3. QED
  BY <1>1, <1>2 DEF Relinked, q

\* rb_link, and the colour of a new node.
LEMMA LinkIs ==
  ASSUME NEW tr, NEW ns, Linked(tr, ns), NEW n \in Node, n \notin ns, NEW p \in Link, NEW s \in Side
  PROVE  Hung(tr, n, p, s, SetRed(IF p = Nil THEN [tr EXCEPT !.root = n]
                                  ELSE [tr EXCEPT !.child[s][p] = n, !.parent[n] = p], n))
<1>1. tr \in Trees /\ tr.parent[n] = Nil /\ n \in Link /\ Nil \notin Node
  BY NodesAre DEF Linked, Link
<1>2. CASE p = Nil
  <2> DEFINE q1 == [tr EXCEPT !.root = n]
  <2>1. /\ q1 \in Trees /\ q1.root = n /\ q1.child = tr.child /\ q1.parent = tr.parent /\ q1.red = tr.red
    BY <1>1, SetRootIs
  <2> HIDE DEF q1
  <2> DEFINE q == SetRed(q1, n)
  <2>2. /\ q \in Trees /\ q.root = n /\ q.child = tr.child /\ q.parent = tr.parent
        /\ q.red = tr.red \cup {n}
    BY <2>1, PaintIs
  <2> HIDE DEF q
  <2>3. Hung(tr, n, p, s, q)
    BY <1>1, <1>2, <2>2 DEF Hung
  <2>4. QED
    BY <1>2, <2>3 DEF q, q1
<1>3. CASE p # Nil
  <2> DEFINE q1 == SetChild(tr, s, p, n)
             pa == [tr.parent EXCEPT ![n] = p]
             q2 == SetParent(q1, pa)
  <2>1. p \in Node /\ pa \in [Node -> Link] /\ \A m \in Node : pa[m] = IF m = n THEN p ELSE tr.parent[m]
    BY <1>1, <1>3 DEF Trees, Link
  <2>2. /\ q1 \in Trees /\ q1.root = tr.root /\ q1.parent = tr.parent /\ q1.red = tr.red
        /\ \A y \in Side, m \in Node : q1.child[y][m] = IF y = s /\ m = p THEN n ELSE tr.child[y][m]
    BY <1>1, <2>1, SetChildIs
  <2>3. [tr EXCEPT !.child[s][p] = n, !.parent[n] = p] = q2
    BY <1>1, <2>1 DEF SetChild, SetParent, Trees
  <2> HIDE DEF q1, pa
  <2>4. q2 \in Trees /\ q2.root = q1.root /\ q2.child = q1.child /\ q2.red = q1.red /\ q2.parent = pa
    BY <2>1, <2>2, SetParentIs
  <2> HIDE DEF q2
  <2> DEFINE q == SetRed(q2, n)
  <2>5. q \in Trees /\ q.root = q2.root /\ q.child = q2.child /\ q.parent = pa /\ q.red = q2.red \cup {n}
    BY <2>4, PaintIs
  <2> HIDE DEF q
  <2>6. Hung(tr, n, p, s, q)
    BY <1>3, <2>1, <2>2, <2>4, <2>5 DEF Hung
  <2>7. QED
    BY <1>3, <2>3, <2>6 DEF q
<1>4. QED
  BY <1>2, <1>3

\* What old hangs from has it on one side; for Relink.
LEMMA HangsOnce ==
  ASSUME NEW tr, NEW ns, NEW under, Tree(tr, ns, under), NEW o \in ns
  PROVE  /\ tr.parent[o] \in Link /\ tr.parent[o] # o
         /\ tr.parent[o] = Nil <=> o = tr.root
         /\ tr.parent[o] # Nil => /\ tr.parent[o] \in ns
                                  /\ \E s \in Side : /\ tr.child[s][tr.parent[o]] = o
                                                     /\ tr.child[Other(s)][tr.parent[o]] # o
         /\ \A m \in Node, y \in Side : tr.child[y][m] = o => m = tr.parent[o]
         /\ \A m \in Node : tr.parent[m] = o <=> \E y \in Side : tr.child[y][o] = m
<1>1. tr.parent[o] \in Link /\ o \in Node /\ o # Nil /\ Nil \notin ns /\ ns \subseteq Node
      /\ Nil \notin Node
  BY LinksAre, NodesAre DEF Tree
<1>2. tr.parent[o] = Nil <=> o = tr.root
  BY <1>1 DEF Tree, Linked
<1>3. tr.parent[o] # Nil => /\ tr.parent[o] \in ns
                            /\ \E s \in Side : /\ tr.child[s][tr.parent[o]] = o
                                               /\ tr.child[Other(s)][tr.parent[o]] # o
  BY HangsOn
<1>4. tr.parent[o] # o
  BY <1>1, <1>3, UnderIs
<1>5. \A m \in Node, y \in Side : tr.child[y][m] = o => m = tr.parent[o]
  BY <1>1 DEF Tree, Linked
<1>6. ASSUME NEW m \in Node PROVE tr.parent[m] = o <=> \E y \in Side : tr.child[y][o] = m
  <2>1. ASSUME tr.parent[m] = o PROVE \E y \in Side : tr.child[y][o] = m
    <3>1. m \in ns /\ m # tr.root
      BY <1>1, <2>1 DEF Tree, Linked
    <3>2. QED
      BY <2>1, <3>1 DEF Tree, Linked
  <2>2. ASSUME NEW y \in Side, tr.child[y][o] = m PROVE tr.parent[m] = o
    BY <1>1, <2>2 DEF Tree, Linked
  <2>3. QED
    BY <2>1, <2>2
<1>7. QED
  BY <1>1, <1>2, <1>3, <1>4, <1>5, <1>6

\* rb_swap_nodes.
LEMMA ReplaceIs ==
  ASSUME NEW tr, NEW ns, NEW under, Tree(tr, ns, under), NEW o \in ns, NEW n \in Node, n \notin ns
  PROVE  LET moved == [tr EXCEPT !.child["left"][n] = tr.child["left"][o],
                                 !.child["right"][n] = tr.child["right"][o],
                                 !.parent = [m \in Node |->
                                    IF m = n THEN tr.parent[o]
                                    ELSE IF m \in {tr.child[s][o] : s \in Side} THEN n ELSE @[m]],
                                 !.red = IF o \in @ THEN @ \cup {n} ELSE @]
         IN  Renamed(tr, o, n, Forget(Relink(moved, tr.parent[o], o, n), o))
<1> DEFINE p == tr.parent[o]
           pa == [m \in Node |-> IF m = n THEN p
                                 ELSE IF m \in {tr.child[s][o] : s \in Side} THEN n ELSE tr.parent[m]]
           rd == IF o \in tr.red THEN tr.red \cup {n} ELSE tr.red
           moved == [tr EXCEPT !.child["left"][n] = tr.child["left"][o],
                                 !.child["right"][n] = tr.child["right"][o],
                                 !.parent = pa, !.red = rd]
           lc == tr.child["left"][o]
           rc == tr.child["right"][o]
           q1 == SetChild(tr, "left", n, lc)
           q2 == SetChild(q1, "right", n, rc)
<1>1. /\ tr \in Trees /\ o \in Node /\ n # o /\ n \in Link /\ o # Nil
      /\ "left" \in Side /\ "right" \in Side
      /\ \A y \in Side : tr.child[y][o] \in Link /\ tr.child[y][o] # o
      /\ tr.red \subseteq ns /\ ns \subseteq Node
      /\ tr.parent[n] = Nil /\ \A y \in Side : tr.child[y][n] = Nil
  BY LinksAre, SidesAre, NodesAre, UnderIs DEF Tree, Linked, Link
<1>2. /\ p \in Link /\ p # o /\ (p = Nil <=> o = tr.root)
      /\ p # Nil => p \in ns /\ \E s \in Side : tr.child[s][p] = o /\ tr.child[Other(s)][p] # o
      /\ \A m \in Node, y \in Side : tr.child[y][m] = o => m = p
      /\ \A m \in Node : tr.parent[m] = o <=> \E y \in Side : tr.child[y][o] = m
  BY HangsOnce
<1>3. /\ pa \in [Node -> Link] /\ rd \in SUBSET Node
      /\ \A m \in Node : pa[m] = IF m = n THEN p ELSE IF tr.parent[m] = o THEN n ELSE tr.parent[m]
  <2>1. \A m \in Node : m \in {tr.child[s][o] : s \in Side} <=> tr.parent[m] = o
    BY <1>2
  <2>2. tr.parent \in [Node -> Link] /\ tr.red \in SUBSET Node
    BY <1>1 DEF Trees
  <2>3. QED
    BY <1>1, <1>2, <2>1, <2>2
<1>4. moved = [q2 EXCEPT !.parent = pa, !.red = rd] /\ lc \in Link /\ rc \in Link
  <2>1. lc \in Link /\ rc \in Link
    BY <1>1
  <2> HIDE DEF pa, rd, lc, rc
  <2>2. QED
    BY <2>1 DEF SetChild, lc, rc
<1> HIDE DEF q1, pa, rd, lc, rc, moved
<1>5. /\ q1 \in Trees /\ q1.root = tr.root /\ q1.red = tr.red
      /\ \A y \in Side, m \in Node :
           q1.child[y][m] = IF y = "left" /\ m = n THEN lc ELSE tr.child[y][m]
  BY <1>1, <1>4, SetChildIs DEF q1
<1>6. /\ q2 \in Trees /\ q2.root = q1.root /\ q2.red = q1.red
      /\ \A y \in Side, m \in Node :
           q2.child[y][m] = IF y = "right" /\ m = n THEN rc ELSE q1.child[y][m]
  BY <1>1, <1>4, <1>5, SetChildIs
<1> HIDE DEF q2
<1>7. /\ moved \in Trees /\ moved.root = tr.root /\ moved.child = q2.child /\ moved.parent = pa
      /\ moved.red = rd
  BY <1>3, <1>4, <1>5, <1>6 DEF Trees
<1>8. \A y \in Side, m \in Node : moved.child[y][m] = IF m = n THEN tr.child[y][o] ELSE tr.child[y][m]
  BY <1>5, <1>6, <1>7 DEF Side, lc, rc
<1> DEFINE r == Relink(moved, p, o, n)
           q == Forget(r, o)
<1> HIDE DEF p
<1>9. Relinked(moved, p, o, n, r)
  <2>1. p # Nil => \E s \in Side : moved.child[s][p] = o /\ moved.child[Other(s)][p] # o
    BY <1>1, <1>2, <1>8, SidesAre
  <2>2. QED
    BY <1>1, <1>2, <1>7, <2>1, RelinkedIs
<1>10. r \in Trees
  BY <1>9 DEF Relinked
<1> HIDE DEF r
<1>11. Forgotten(r, o, q)
  BY <1>1, <1>10, ForgottenIs
<1> HIDE DEF q
<1>12. /\ q \in Trees /\ q.root = (IF tr.root = o THEN n ELSE tr.root)
       /\ q.red = IF o \in tr.red THEN (tr.red \ {o}) \cup {n} ELSE tr.red
  <2>1. q \in Trees /\ q.root = r.root /\ q.red = r.red \ {o}
    BY <1>11 DEF Forgotten
  <2>2. r.root = (IF p = Nil THEN n ELSE tr.root) /\ r.red = rd
    BY <1>7, <1>9 DEF Relinked
  <2>3. QED
    BY <1>1, <1>2, <2>1, <2>2 DEF rd
<1>13. \A y \in Side, m \in Node :
         q.child[y][m] = IF m = n THEN tr.child[y][o] ELSE IF m = o THEN Nil
                         ELSE IF tr.child[y][m] = o THEN n ELSE tr.child[y][m]
  <2> TAKE y \in Side, m \in Node
  <2>1. q.child[y][m] = IF m = o THEN Nil ELSE r.child[y][m]
    BY <1>11 DEF Forgotten
  <2>2. r.child[y][m] = IF m = p /\ moved.child[y][m] = o THEN n ELSE moved.child[y][m]
    BY <1>9 DEF Relinked
  <2>3. moved.child[y][m] = IF m = n THEN tr.child[y][o] ELSE tr.child[y][m]
    BY <1>8
  <2>4. tr.child[y][m] = o => m = p
    BY <1>2
  <2>5. QED
    BY <1>1, <1>2, <2>1, <2>2, <2>3, <2>4
<1>14. \A m \in Node :
         q.parent[m] = IF m = n THEN tr.parent[o] ELSE IF m = o THEN Nil
                       ELSE IF tr.parent[m] = o THEN n ELSE tr.parent[m]
  <2> TAKE m \in Node
  <2>1. q.parent[m] = IF m = o THEN Nil ELSE r.parent[m]
    BY <1>11 DEF Forgotten
  <2>2. r.parent[m] = pa[m]
    BY <1>7, <1>9 DEF Relinked
  <2>3. QED
    BY <1>1, <1>3, <2>1, <2>2 DEF p
<1>15. Renamed(tr, o, n, q)
  BY <1>12, <1>13, <1>14 DEF Renamed
<1>16. QED
  BY <1>15 DEF q, r, moved, pa, rd, p

\* rb_erase of a node with at most one child.
LEMMA EraseOneIs ==
  ASSUME NEW tr, NEW ns, NEW under, Tree(tr, ns, under), NEW n \in ns, NEW x, OnlyChild(tr, n, x)
  PROVE  LET moved == IF x # Nil THEN [tr EXCEPT !.parent[x] = tr.parent[n]] ELSE tr
         IN  Spliced(tr, n, x, Forget(Relink(moved, tr.parent[n], n, x), n))
<1> DEFINE p == tr.parent[n]
           moved == IF x # Nil THEN [tr EXCEPT !.parent[x] = p] ELSE tr
           r == Relink(moved, p, n, x)
           q == Forget(r, n)
<1>1. /\ tr \in Trees /\ n \in Node /\ n # Nil /\ x \in Link /\ ns \subseteq Node
      /\ \A y \in Side : tr.child[y][n] \in Link /\ tr.child[y][n] # n
      /\ x # n /\ (x # Nil => x \in Node) /\ Nil \notin Node
  <2>1. /\ tr \in Trees /\ n \in Node /\ n # Nil /\ ns \subseteq Node /\ Nil \notin Node
        /\ \A y \in Side : tr.child[y][n] \in Link /\ tr.child[y][n] # n
    BY LinksAre, NodesAre, UnderIs DEF Tree, Linked
  <2>2. PICK s \in Side : tr.child[s][n] = x
    BY DEF OnlyChild
  <2>3. QED
    BY <2>1, <2>2 DEF Link
<1>2. /\ p \in Link /\ p # n /\ (p = Nil <=> n = tr.root)
      /\ p # Nil => p \in ns /\ \E s \in Side : tr.child[s][p] = n /\ tr.child[Other(s)][p] # n
      /\ \A m \in Node, y \in Side : tr.child[y][m] = n => m = p
  BY HangsOnce
<1> HIDE DEF p
<1>3. /\ moved \in Trees /\ moved.root = tr.root /\ moved.child = tr.child /\ moved.red = tr.red
      /\ \A m \in Node : moved.parent[m] = IF m = x THEN p ELSE tr.parent[m]
  <2>1. CASE x = Nil
    BY <1>1, <2>1
  <2>2. CASE x # Nil
    <3> DEFINE pa == [tr.parent EXCEPT ![x] = p]
    <3>1. moved = SetParent(tr, pa)
      BY <1>1, <2>2 DEF SetParent, Trees
    <3>2. pa \in [Node -> Link] /\ \A m \in Node : pa[m] = IF m = x THEN p ELSE tr.parent[m]
      BY <1>1, <1>2, <2>2 DEF Trees
    <3> HIDE DEF pa, moved
    <3>3. QED
      BY <1>1, <3>1, <3>2, SetParentIs
  <2>3. QED
    BY <2>1, <2>2
<1> HIDE DEF moved
<1>4. Relinked(moved, p, n, x, r)
  BY <1>1, <1>2, <1>3, RelinkedIs
<1>5. r \in Trees
  BY <1>4 DEF Relinked
<1> HIDE DEF r
<1>6. Forgotten(r, n, q)
  BY <1>1, <1>5, ForgottenIs
<1> HIDE DEF q
<1>7. q \in Trees /\ q.root = (IF tr.root = n THEN x ELSE tr.root) /\ q.red = tr.red \ {n}
  BY <1>2, <1>3, <1>4, <1>6 DEF Relinked, Forgotten
<1>8. \A y \in Side, m \in Node :
        q.child[y][m] = IF m = n THEN Nil ELSE IF tr.child[y][m] = n THEN x ELSE tr.child[y][m]
  <2> TAKE y \in Side, m \in Node
  <2>1. q.child[y][m] = IF m = n THEN Nil ELSE r.child[y][m]
    BY <1>6 DEF Forgotten
  <2>2. r.child[y][m] = IF m = p /\ tr.child[y][m] = n THEN x ELSE tr.child[y][m]
    BY <1>3, <1>4 DEF Relinked
  <2>3. QED
    BY <1>2, <2>1, <2>2
<1>9. \A m \in Node : q.parent[m] = IF m = n THEN Nil ELSE IF m = x THEN p ELSE tr.parent[m]
  <2> TAKE m \in Node
  <2>1. q.parent[m] = IF m = n THEN Nil ELSE r.parent[m]
    BY <1>6 DEF Forgotten
  <2>2. r.parent[m] = moved.parent[m]
    BY <1>4 DEF Relinked
  <2>3. QED
    BY <1>3, <2>1, <2>2
<1>10. Spliced(tr, n, x, q)
  BY <1>7, <1>8, <1>9 DEF Spliced, p
<1>11. QED
  BY <1>10 DEF q, r, moved, p

\* The successor of a node with a right child is the first node on its right,
\* which has no left child, and is one unless it is the right child itself.
LEMMA SuccessorIs ==
  ASSUME NEW tr, NEW ns, NEW under, Tree(tr, ns, under), NEW n \in ns, tr.child["right"][n] # Nil,
         NEW x, x = Neighbour(tr, n, "right")
  PROVE  /\ x \in ns /\ x # n /\ x \in under[tr.child["right"][n]] /\ tr.child["left"][x] = Nil
         /\ \A y \in under[tr.child["right"][n]] : y # x => Toward("left", x, y)
         /\ x # tr.child["right"][n] =>
              /\ tr.parent[x] \in under[tr.child["right"][n]] /\ tr.parent[x] \in ns
              /\ tr.child["left"][tr.parent[x]] = x /\ tr.child["right"][tr.parent[x]] # x
<1> DEFINE c == tr.child["right"][n]
<1>1. x = Extreme(tr, c, "left")
  BY SidesAre DEF Neighbour
<1>2. /\ "left" \in Side /\ "right" \in Side /\ c \in ns /\ ns \subseteq Node
      /\ Other("left") = "right" /\ Other("right") = "left"
  BY LinksAre, SidesAre DEF Tree
<1>3. /\ x \in under[c] /\ tr.child["left"][x] = Nil
      /\ \A y \in under[c] : y # x => Toward("left", x, y)
  BY <1>1, <1>2, ExtremeIs
<1>4. x \in ns /\ x # n /\ under[c] \subseteq ns
  BY <1>2, <1>3, UnderIs
<1>5. ASSUME x # c
      PROVE  /\ tr.parent[x] \in under[c] /\ tr.parent[x] \in ns
             /\ tr.child["left"][tr.parent[x]] = x /\ tr.child["right"][tr.parent[x]] # x
  <2> DEFINE p == tr.parent[x]
  <2>1. p \in under[c] /\ p \in ns
    BY <1>2, <1>3, <1>4, <1>5, ParentUnder
  <2>2. p # Nil
    BY <1>2, <2>1, NodesAre
  <2>3. PICK s \in Side : tr.child[s][p] = x /\ tr.child[Other(s)][p] # x
    BY <1>4, <2>2, HangsOn
  <2>4. s # "right"
    <3> SUFFICES ASSUME s = "right" PROVE FALSE
      OBVIOUS
    <3>1. x \in under[x]
      BY <1>4, UnderIs
    <3>2. Toward("right", x, p) /\ x # p
      BY <1>2, <1>4, <2>1, <2>3, <3>1, UnderIs DEF Tree, Sorted
    <3>3. Toward("left", x, p)
      BY <1>3, <2>1, <3>2
    <3>4. QED
      BY <1>2, <1>4, <2>1, <3>2, <3>3, OrderIs
  <2>5. s = "left"
    BY <2>4 DEF Side
  <2>6. QED
    BY <1>2, <2>1, <2>3, <2>5
<1>6. QED
  BY <1>3, <1>4, <1>5

\* What Promote does to the links.
Promoted(n, x, q) ==
  LET c == t.child["right"][x]
      direct == x = t.child["right"][n]
  IN  /\ q \in Trees /\ q.root = t.root
      /\ q.red = IF n \in t.red THEN t.red \cup {x} ELSE t.red \ {x}
      /\ \A y \in Side, m \in Node :
           q.child[y][m] = IF m = x THEN IF y = "left" THEN t.child["left"][n]
                                         ELSE IF direct THEN c ELSE t.child["right"][n]
                           ELSE IF ~direct /\ y = "left" /\ m = t.parent[x] THEN c ELSE t.child[y][m]
      /\ \A m \in Node :
           q.parent[m] = IF m = x THEN t.parent[n]
                         ELSE IF m = c THEN IF direct THEN x ELSE t.parent[x]
                         ELSE IF \E y \in Side : t.child[y][n] = m THEN x ELSE t.parent[m]

\* Promote sets those links and that colour.
LEMMA PromotedIs ==
  ASSUME NEW ns, NEW under, Tree(t, ns, under), NEW n \in ns, NEW x \in ns,
         t.parent[x] \in ns
  PROVE  Promoted(n, x, Promote(n, x))
<1> DEFINE c == t.child["right"][x]
           direct == x = t.child["right"][n]
           lc == t.child["left"][n]
           rc == IF direct THEN c ELSE t.child["right"][n]
           placed == IF direct THEN t ELSE [t EXCEPT !.child["left"][t.parent[x]] = c]
           pa == [m \in Node |-> IF m = x THEN t.parent[n]
                                 ELSE IF m = c THEN IF direct THEN x ELSE t.parent[x]
                                 ELSE IF m \in {lc, rc} THEN x ELSE t.parent[m]]
           rd == IF n \in t.red THEN t.red \cup {x} ELSE t.red \ {x}
           q1 == SetChild(placed, "left", x, lc)
           q2 == SetChild(q1, "right", x, rc)
           q == Promote(n, x)
<1>1. /\ t \in Trees /\ n \in Node /\ x \in Node /\ t.parent[x] \in Node /\ x \in Link
      /\ lc \in Link /\ c \in Link /\ rc \in Link /\ t.parent[n] \in Link /\ t.parent[x] \in Link
      /\ "left" \in Side /\ "right" \in Side
  BY LinksAre, SidesAre DEF Tree, Linked, Link
<1>2. /\ placed \in Trees /\ placed.root = t.root /\ placed.red = t.red /\ placed.parent = t.parent
      /\ \A y \in Side, m \in Node :
           placed.child[y][m] = IF ~direct /\ y = "left" /\ m = t.parent[x] THEN c ELSE t.child[y][m]
  <2>1. CASE direct
    BY <1>1, <2>1
  <2>2. CASE ~direct
    <3> DEFINE p == t.parent[x]
    <3> HIDE DEF c, direct
    <3>1. placed = SetChild(t, "left", p, c)
      BY <2>2 DEF SetChild
    <3>2. p \in Node
      BY <1>1
    <3> HIDE DEF placed, p
    <3>3. /\ placed \in Trees /\ placed.root = t.root /\ placed.red = t.red /\ placed.parent = t.parent
          /\ \A y \in Side, m \in Node :
               placed.child[y][m] = IF y = "left" /\ m = p THEN c ELSE t.child[y][m]
      <4> DEFINE z == SetChild(t, "left", p, c)
      <4>1. t \in Trees /\ "left" \in Side /\ c \in Link
        BY <1>1
      <4>2. /\ z \in Trees /\ z.root = t.root /\ z.red = t.red /\ z.parent = t.parent
            /\ \A y \in Side, m \in Node :
                 z.child[y][m] = IF y = "left" /\ m = p THEN c ELSE t.child[y][m]
        BY <3>2, <4>1, SetChildIs
      <4>3. QED
        BY <3>1, <4>2
    <3>4. QED
      BY <2>2, <3>3 DEF p
  <2>3. QED
    BY <2>1, <2>2
<1>3. /\ pa \in [Node -> Link] /\ rd \in SUBSET Node
      /\ \A m \in Node : pa[m] = IF m = x THEN t.parent[n]
                                 ELSE IF m = c THEN IF direct THEN x ELSE t.parent[x]
                                 ELSE IF \E y \in Side : t.child[y][n] = m THEN x ELSE t.parent[m]
  <2>1. t.parent \in [Node -> Link] /\ t.red \in SUBSET Node
    BY <1>1 DEF Trees
  <2>2. pa \in [Node -> Link] /\ rd \in SUBSET Node
    <3> HIDE DEF lc, rc, c
    <3>1. QED
      BY <1>1, <2>1
  <2>3. ASSUME NEW m \in Node, m # x, m # c
        PROVE  m \in {lc, rc} <=> \E y \in Side : t.child[y][n] = m
    <3>1. m \in {lc, rc} <=> m = t.child["left"][n] \/ m = t.child["right"][n]
      BY <2>3
    <3>2. QED
      BY <3>1 DEF Side
  <2> DEFINE kids == {lc, rc}
  <2>4. \A m \in Node : pa[m] = IF m = x THEN t.parent[n]
                                 ELSE IF m = c THEN IF direct THEN x ELSE t.parent[x]
                                 ELSE IF m \in kids THEN x ELSE t.parent[m]
    OBVIOUS
  <2> HIDE DEF pa, kids, c, direct
  <2>5. \A m \in Node : m # x /\ m # c => (m \in kids <=> \E y \in Side : t.child[y][n] = m)
    BY <2>3 DEF kids
  <2>6. QED
    BY <2>2, <2>4, <2>5
<1>4. q = [q2 EXCEPT !.parent = pa, !.red = rd]
  <2>1. Promote(n, x) = [placed EXCEPT !.child["left"][x] = lc, !.child["right"][x] = rc,
                                       !.parent = pa, !.red = rd]
    <3>1. Promote(n, x) =
            [placed EXCEPT !.child["left"][x] = lc, !.child["right"][x] = rc,
                           !.parent = [m \in Node |-> IF m = x THEN t.parent[n]
                                    ELSE IF m = c THEN IF direct THEN x ELSE t.parent[x]
                                    ELSE IF m \in {lc, rc} THEN x ELSE @[m]],
                           !.red = IF n \in @ THEN @ \cup {x} ELSE @ \ {x}]
      BY DEF Promote
    <3> HIDE DEF placed, c, direct, lc, rc
    <3>2. QED
      BY <1>2, <3>1
  <2> HIDE DEF placed, c, direct, lc, rc, pa, rd
  <2>2. QED
    BY <2>1 DEF SetChild
<1> HIDE DEF placed, lc, rc, pa, rd, q1, q
<1>5. /\ q1 \in Trees /\ q1.root = t.root /\ q1.red = t.red /\ q1.parent = t.parent
      /\ \A y \in Side, m \in Node :
           q1.child[y][m] = IF y = "left" /\ m = x THEN lc ELSE placed.child[y][m]
  BY <1>1, <1>2, SetChildIs DEF q1
<1>6. /\ q2 \in Trees /\ q2.root = t.root /\ q2.red = t.red /\ q2.parent = t.parent
      /\ \A y \in Side, m \in Node :
           q2.child[y][m] = IF y = "right" /\ m = x THEN rc ELSE q1.child[y][m]
  BY <1>1, <1>5, SetChildIs
<1> HIDE DEF q2
<1>7. q \in Trees /\ q.root = t.root /\ q.child = q2.child /\ q.parent = pa /\ q.red = rd
  BY <1>3, <1>4, <1>6 DEF Trees
<1>8. \A y \in Side, m \in Node :
        q.child[y][m] = IF m = x THEN IF y = "left" THEN lc ELSE rc
                        ELSE IF ~direct /\ y = "left" /\ m = t.parent[x] THEN c ELSE t.child[y][m]
  <2> HIDE DEF c, direct
  <2>1. QED
    BY <1>2, <1>5, <1>6, <1>7 DEF Side
<1>9. QED
  BY <1>3, <1>7, <1>8 DEF Promoted, q, lc, rc, rd

\* The tree between the two halves of rb_erase of a node with two children: its
\* successor x has been taken out, but has not taken its place yet.
Splicing(tr, x, c) ==
  [root |-> IF tr.root = x THEN c ELSE tr.root,
   child |-> [y \in Side |-> [m \in Node |->
                IF m = x THEN Nil ELSE IF tr.child[y][m] = x THEN c ELSE tr.child[y][m]]],
   parent |-> [m \in Node |-> IF m = x THEN Nil ELSE IF m = c THEN tr.parent[x] ELSE tr.parent[m]],
   red |-> tr.red \ {x}]

\* It is the tree with x spliced out.
LEMMA SplicingIs ==
  ASSUME NEW tr, NEW ns, NEW under, Tree(tr, ns, under), NEW x \in ns, NEW c \in Link
  PROVE  Spliced(tr, x, c, Splicing(tr, x, c))
<1> DEFINE q == Splicing(tr, x, c)
           rt == IF tr.root = x THEN c ELSE tr.root
           rd == tr.red \ {x}
           pa == [m \in Node |-> IF m = x THEN Nil ELSE IF m = c THEN tr.parent[x] ELSE tr.parent[m]]
           ch == [y \in Side |-> [m \in Node |->
                   IF m = x THEN Nil ELSE IF tr.child[y][m] = x THEN c ELSE tr.child[y][m]]]
<1>1. /\ Nil \in Link /\ x \in Node /\ tr.root \in Link /\ tr.red \subseteq Node
      /\ \A m \in Node : tr.parent[m] \in Link
      /\ \A y \in Side, m \in Node : tr.child[y][m] \in Link
  BY LinksAre DEF Tree, Linked, Link
<1>2. rt \in Link /\ rd \in SUBSET Node
  BY <1>1
<1>3. /\ pa \in [Node -> Link]
      /\ \A m \in Node : pa[m] = IF m = x THEN Nil ELSE IF m = c THEN tr.parent[x] ELSE tr.parent[m]
  BY <1>1
<1>4. /\ ch \in [Side -> [Node -> Link]]
      /\ \A y \in Side, m \in Node :
           ch[y][m] = IF m = x THEN Nil ELSE IF tr.child[y][m] = x THEN c ELSE tr.child[y][m]
  BY <1>1
<1>5. q = [root |-> rt, child |-> ch, parent |-> pa, red |-> rd]
  BY DEF Splicing
<1> HIDE DEF q, pa, ch
<1>6. q \in Trees /\ q.root = rt /\ q.child = ch /\ q.parent = pa /\ q.red = rd
  BY <1>2, <1>3, <1>4, <1>5 DEF Trees
<1>7. Spliced(tr, x, c, q)
  BY <1>3, <1>4, <1>6 DEF Spliced
<1>8. QED
  BY <1>7 DEF q

\* rb_erase of a node n with two children: its successor x is taken out, then
\* takes the place of n.
LEMMA EraseTwoIs ==
  ASSUME NEW ns, NEW under, Tree(t, ns, under), NEW n \in ns,
         t.child["left"][n] # Nil, t.child["right"][n] # Nil,
         NEW x, x = Neighbour(t, n, "right"), NEW c, c = t.child["right"][x],
         NEW mid, mid = Splicing(t, x, c)
  PROVE  /\ OnlyChild(t, x, c) /\ Spliced(t, x, c, mid)
         /\ Renamed(mid, n, x, Forget(Relink(Promote(n, x), t.parent[n], n, x), n))
<1> DEFINE p == t.parent[n]
           px == t.parent[x]
           direct == x = t.child["right"][n]
           lc == t.child["left"][n]
           rc == t.child["right"][n]
           moved == Promote(n, x)
           r == Relink(moved, p, n, x)
           q == Forget(r, n)
<1>1. /\ x \in ns /\ x # n /\ x \in under[rc] /\ t.child["left"][x] = Nil
      /\ \A y \in under[rc] : y # x => Toward("left", x, y)
      /\ ~direct => /\ px \in under[rc] /\ px \in ns
                    /\ t.child["left"][px] = x /\ t.child["right"][px] # x
  BY SuccessorIs
<1>2. /\ t \in Trees /\ n \in Node /\ x \in Node /\ n # Nil /\ x # Nil /\ x \in Link
      /\ "left" \in Side /\ "right" \in Side /\ Other("left") = "right" /\ Other("right") = "left"
      /\ c \in Link /\ lc \in ns /\ rc \in ns /\ ns \subseteq Node /\ Nil \notin Node
  BY <1>1, LinksAre, NodesAre, SidesAre DEF Tree, Linked, Link
<1>3. /\ p \in Link /\ p # n /\ (p = Nil <=> n = t.root)
      /\ p # Nil => p \in ns /\ \E s \in Side : t.child[s][p] = n /\ t.child[Other(s)][p] # n
      /\ \A m \in Node, y \in Side : t.child[y][m] = n => m = p
      /\ \A m \in Node : t.parent[m] = n <=> \E y \in Side : t.child[y][n] = m
  BY HangsOnce
<1>4. /\ px \in ns /\ px # x /\ \A m \in Node, y \in Side : t.child[y][m] = x => m = px
      /\ \A m \in Node : t.parent[m] = x <=> \E y \in Side : t.child[y][x] = m
      /\ x # t.root
  <2>1. /\ px # x /\ \A m \in Node, y \in Side : t.child[y][m] = x => m = px
        /\ px = Nil <=> x = t.root
        /\ \A m \in Node : t.parent[m] = x <=> \E y \in Side : t.child[y][x] = m
    BY <1>1, HangsOnce
  <2>2. px \in ns
    <3>1. CASE direct
      BY <1>2, <2>1, <3>1
    <3>2. CASE ~direct
      BY <1>1, <3>2
    <3>3. QED
      BY <3>1, <3>2
  <2>3. QED
    BY <1>2, <2>1, <2>2
<1>5. c # n /\ c # x /\ lc # x /\ lc # c /\ p # x
  <2>1. /\ n \notin under[rc] /\ n \notin under[lc] /\ lc \in under[lc] /\ rc \in under[rc]
        /\ \A m \in under[lc] : m \notin under[rc]
    <3>1. \A s \in Side : /\ n \notin under[t.child[s][n]]
                          /\ \A m \in under[t.child[s][n]] : m \notin under[t.child[Other(s)][n]]
                          /\ t.child[s][n] # Nil => t.child[s][n] \in under[t.child[s][n]]
      BY UnderIs
    <3> DEFINE l == "left"
    <3>2. l \in Side /\ Other(l) = "right"
      BY <1>2
    <3> HIDE DEF l
    <3>3. \A m \in under[t.child[l][n]] : m \notin under[t.child["right"][n]]
      BY <3>1, <3>2
    <3>4. QED
      BY <1>2, <3>1, <3>3 DEF l
  <2>2. under[x] \subseteq under[rc]
    BY <1>1, <1>2, SameSide
  <2>3. c # Nil => c \in under[x] /\ c # x
    <3>1. c # Nil => c \in under[c] /\ under[c] \subseteq under[x] /\ x \notin under[c]
      BY <1>1, <1>2, UnderIs
    <3>2. QED
      BY <3>1
  <2>4. p # x
    <3>1. p = x => n \in under[x]
      <4>1. \A m \in ns, y \in Side : t.child[y][m] # Nil => t.child[y][m] \in under[m]
        BY UnderIs
      <4>2. QED
        BY <1>1, <1>2, <1>3, <4>1
    <3>2. QED
      BY <2>1, <2>2, <3>1
  <2>5. c # n
    BY <1>2, <2>1, <2>2, <2>3
  <2>6. lc # x /\ lc # c
    BY <1>1, <1>2, <2>1, <2>2, <2>3
  <2>7. QED
    BY <1>2, <2>3, <2>4, <2>5, <2>6
<1>6. OnlyChild(t, x, c)
  BY <1>1, <1>2 DEF OnlyChild
<1>7. Spliced(t, x, c, mid)
  BY <1>1, <1>2, SplicingIs
<1>8. Promoted(n, x, moved)
  BY <1>1, <1>4, PromotedIs
<1>9. /\ moved \in Trees /\ moved.root = t.root
      /\ moved.red = IF n \in t.red THEN t.red \cup {x} ELSE t.red \ {x}
      /\ \A y \in Side, m \in Node :
           moved.child[y][m] = IF m = x THEN IF y = "left" THEN lc ELSE IF direct THEN c ELSE rc
                               ELSE IF ~direct /\ y = "left" /\ m = px THEN c ELSE t.child[y][m]
      /\ \A m \in Node :
           moved.parent[m] = IF m = x THEN p
                             ELSE IF m = c THEN IF direct THEN x ELSE px
                             ELSE IF \E y \in Side : t.child[y][n] = m THEN x ELSE t.parent[m]
  BY <1>8 DEF Promoted
<1> HIDE DEF moved, p, px, direct, lc, rc
<1>10. /\ \A y \in Side, m \in Node : m # x =>
            moved.child[y][m] = IF t.child[y][m] = x /\ m # n THEN c ELSE t.child[y][m]
       /\ direct => px = n
       /\ ~direct => px # n /\ rc # x
  <2>1. direct => px = n /\ t.child["right"][n] = x /\ \A y \in Side : t.child[y][n] = x => y = "right"
    BY <1>2, <1>4, <1>5 DEF direct, rc, lc, Side
  <2>2. ~direct => px # n /\ rc # x
    <3>1. n \notin under[rc]
      BY <1>2, UnderIs DEF rc
    <3>2. QED
      BY <1>1, <3>1 DEF direct, rc
  <2>3. ASSUME NEW y \in Side, NEW m \in Node, m # x
        PROVE  moved.child[y][m] = IF t.child[y][m] = x /\ m # n THEN c ELSE t.child[y][m]
    <3>1. moved.child[y][m] = IF ~direct /\ y = "left" /\ m = px THEN c ELSE t.child[y][m]
      BY <1>9, <2>3
    <3>2. CASE direct
      BY <1>4, <2>1, <3>1, <3>2
    <3>3. CASE ~direct
      <4>1. t.child[y][m] = x <=> (y = "left" /\ m = px)
        BY <1>1, <1>4, <3>3 DEF Side
      <4>2. QED
        BY <2>2, <3>1, <3>3, <4>1
    <3>4. QED
      BY <3>2, <3>3
  <2>4. QED
    BY <2>1, <2>2, <2>3
<1>11. Relinked(moved, p, n, x, r)
  <2>1. p # Nil => \E s \in Side : moved.child[s][p] = n /\ moved.child[Other(s)][p] # n
    <3> SUFFICES ASSUME p # Nil PROVE \E s \in Side : moved.child[s][p] = n /\ moved.child[Other(s)][p] # n
      OBVIOUS
    <3>1. PICK s \in Side : t.child[s][p] = n /\ t.child[Other(s)][p] # n
      BY <1>3
    <3>2. p \in Node /\ Other(s) \in Side
      BY <1>2, <1>3, SidesAre
    <3>3. moved.child[s][p] = n /\ moved.child[Other(s)][p] # n
      BY <1>1, <1>5, <1>10, <3>1, <3>2
    <3>4. QED
      BY <3>3
  <2>2. QED
    BY <1>2, <1>3, <1>9, <2>1, RelinkedIs
<1>12. r \in Trees
  BY <1>11 DEF Relinked
<1> HIDE DEF r
<1>13. Forgotten(r, n, q)
  BY <1>2, <1>12, ForgottenIs
<1> HIDE DEF q
<1>14. /\ mid.root = t.root /\ mid.red = t.red \ {x}
       /\ \A y \in Side, m \in Node :
            mid.child[y][m] = IF m = x THEN Nil ELSE IF t.child[y][m] = x THEN c ELSE t.child[y][m]
       /\ \A m \in Node : mid.parent[m] = IF m = x THEN Nil ELSE IF m = c THEN px ELSE t.parent[m]
  BY <1>4, <1>7 DEF Spliced, px
<1>15. /\ q \in Trees /\ q.root = (IF mid.root = n THEN x ELSE mid.root)
       /\ q.red = IF n \in mid.red THEN (mid.red \ {n}) \cup {x} ELSE mid.red
  <2>1. q \in Trees /\ q.root = r.root /\ q.red = r.red \ {n}
    BY <1>13 DEF Forgotten
  <2>2. r.root = (IF p = Nil THEN x ELSE moved.root) /\ r.red = moved.red
    BY <1>11 DEF Relinked
  <2>3. QED
    BY <1>1, <1>3, <1>9, <1>14, <2>1, <2>2
<1>16. \A y \in Side, m \in Node :
         q.child[y][m] = IF m = x THEN mid.child[y][n] ELSE IF m = n THEN Nil
                         ELSE IF mid.child[y][m] = n THEN x ELSE mid.child[y][m]
  <2> TAKE y \in Side, m \in Node
  <2>1. q.child[y][m] = IF m = n THEN Nil ELSE r.child[y][m]
    BY <1>13 DEF Forgotten
  <2>2. r.child[y][m] = IF m = p /\ moved.child[y][m] = n THEN x ELSE moved.child[y][m]
    BY <1>11 DEF Relinked
  <2>3. CASE m = x
    <3>1. moved.child[y][x] = IF y = "left" THEN lc ELSE IF direct THEN c ELSE rc
      BY <1>2, <1>9
    <3>2. mid.child[y][n] = IF t.child[y][n] = x THEN c ELSE t.child[y][n]
      BY <1>1, <1>2, <1>14
    <3>3. t.child[y][n] = IF y = "left" THEN lc ELSE rc
      BY DEF lc, rc, Side
    <3>4. direct <=> rc = x
      BY DEF direct, rc
    <3>5. q.child[y][m] = moved.child[y][x]
      BY <1>1, <1>5, <2>1, <2>2, <2>3
    <3>6. QED
      BY <1>5, <2>3, <3>1, <3>2, <3>3, <3>4, <3>5
  <2>4. CASE m # x /\ m # n
    <3>1. moved.child[y][m] = mid.child[y][m]
      BY <1>10, <1>14, <2>4
    <3>2. mid.child[y][m] = n => m = p
      BY <1>3, <1>5, <1>14, <2>4
    <3>3. QED
      BY <2>1, <2>2, <2>4, <3>1, <3>2
  <2>5. CASE m = n
    BY <1>1, <2>1, <2>5
  <2>6. QED
    BY <2>3, <2>4, <2>5
<1>17. \A m \in Node :
         q.parent[m] = IF m = x THEN mid.parent[n] ELSE IF m = n THEN Nil
                       ELSE IF mid.parent[m] = n THEN x ELSE mid.parent[m]
  <2> TAKE m \in Node
  <2>1. q.parent[m] = IF m = n THEN Nil ELSE moved.parent[m]
    BY <1>11, <1>13 DEF Forgotten, Relinked
  <2>2. mid.parent[n] = p
    BY <1>1, <1>2, <1>5, <1>14 DEF p
  <2>3. CASE m = x
    BY <1>1, <1>9, <2>1, <2>2, <2>3
  <2>4. CASE m = n
    BY <1>1, <2>1, <2>4
  <2>5. CASE m = c /\ m # x /\ m # n
    <3>1. moved.parent[m] = (IF direct THEN x ELSE px) /\ mid.parent[m] = px
      BY <1>9, <1>14, <2>5
    <3>2. QED
      BY <1>10, <2>1, <2>5, <3>1
  <2>6. CASE m # c /\ m # x /\ m # n
    <3>1. moved.parent[m] = (IF t.parent[m] = n THEN x ELSE t.parent[m]) /\ mid.parent[m] = t.parent[m]
      BY <1>3, <1>9, <1>14, <2>6
    <3>2. QED
      BY <2>1, <2>6, <3>1
  <2>7. QED
    BY <2>3, <2>4, <2>5, <2>6
<1>18. Renamed(mid, n, x, q)
  BY <1>15, <1>16, <1>17 DEF Renamed
<1>19. QED
  BY <1>6, <1>7, <1>18 DEF q, r, moved, p

(***************************************************************************)
(* The red-black rules                                                     *)
(***************************************************************************)

\* A tree with the same links and other colours.
Painted(tr, q) ==
  q \in Trees /\ q.root = tr.root /\ q.child = tr.child /\ q.parent = tr.parent

\* New colours leave an ordered tree an ordered tree.
LEMMA PaintedIsTree ==
  ASSUME NEW tr, NEW ns, NEW under, Tree(tr, ns, under), NEW q, Painted(tr, q), q.red \subseteq ns
  PROVE  Tree(q, ns, under)
BY DEF Painted, Tree, Linked, Sorted

\* rb_set_color only paints.
LEMMA PaintsAre ==
  ASSUME NEW tr \in Trees
  PROVE  /\ \A n \in Link : Painted(tr, SetBlack(tr, n)) /\ SetBlack(tr, n).red = tr.red \ {n}
         /\ \A n \in Node : Painted(tr, SetRed(tr, n)) /\ SetRed(tr, n).red = tr.red \cup {n}
         /\ \A n, m \in Node : /\ Painted(tr, TakeColour(tr, n, m))
                              /\ TakeColour(tr, n, m).red =
                                   IF m \in tr.red THEN tr.red \cup {n} ELSE tr.red \ {n}
<1>1. ASSUME NEW n \in Link PROVE Painted(tr, SetBlack(tr, n)) /\ SetBlack(tr, n).red = tr.red \ {n}
  BY PaintIs DEF Painted
<1>2. ASSUME NEW n \in Node PROVE Painted(tr, SetRed(tr, n)) /\ SetRed(tr, n).red = tr.red \cup {n}
  BY PaintIs DEF Painted
<1>3. ASSUME NEW n \in Node, NEW m \in Node
      PROVE  /\ Painted(tr, TakeColour(tr, n, m))
             /\ TakeColour(tr, n, m).red = IF m \in tr.red THEN tr.red \cup {n} ELSE tr.red \ {n}
  <2>1. n \in Link
    BY DEF Link
  <2>2. CASE m \in tr.red
    <3>1. TakeColour(tr, n, m) = SetRed(tr, n)
      BY <2>2 DEF TakeColour, Red
    <3>2. QED
      BY <1>2, <2>2, <3>1
  <2>3. CASE m \notin tr.red
    <3>1. TakeColour(tr, n, m) = SetBlack(tr, n)
      BY <2>3 DEF TakeColour, Red
    <3>2. QED
      BY <1>1, <2>1, <2>3, <3>1
  <2>4. QED
    BY <2>2, <2>3
<1>4. QED
  BY <1>1, <1>2, <1>3

\* A way through side gs of gu has one black node less than it counts.
Gap(gu, gs, n, s) == IF n = gu /\ s = gs THEN 1 ELSE 0

\* What a node adds to the count of black nodes.
Weight(tr, n) == IF n \in tr.red THEN 0 ELSE 1

\* bh[n] is the number of black nodes on every way down from n, where the ways
\* through side gs of node gu count one more than they have.  Nil for gu says
\* that no way is short.
Balanced(tr, ns, bh, gu, gs) ==
  /\ bh \in [Link -> Nat] /\ bh[Nil] = 0
  /\ \A n \in ns, s \in Side : bh[n] = bh[tr.child[s][n]] + Gap(gu, gs, n, s) + Weight(tr, n)

\* All ways down count the same.
Level(tr, ns, gu, gs) == \E bh : Balanced(tr, ns, bh, gu, gs)

\* No red node but c is the root or has a red parent, unless that is d.
Reds(tr, c, d) ==
  \A n \in tr.red : n # c => /\ tr.parent[n] # Nil
                             /\ tr.parent[n] \notin tr.red \/ tr.parent[n] = d

\* What a short way and a black node add is 0 or 1.
LEMMA GapIs ==
  /\ \A gu, gs, n, s : Gap(gu, gs, n, s) \in {0, 1}
  /\ \A gs, s : \A n \in Node : Gap(Nil, gs, n, s) = 0
  /\ \A tr, n : Weight(tr, n) \in {0, 1} /\ (Weight(tr, n) = 0 <=> n \in tr.red)
BY NodesAre DEF Gap, Weight

\* The nodes a rotation is about, and what hangs where after it.
Rotation(tr, ns, x, s, r, q, a, i, w) ==
  /\ r \in ns /\ a \in ns \cup {Nil} /\ i \in ns \cup {Nil} /\ w \in ns \cup {Nil}
  /\ x # r /\ tr.parent[r] = x /\ tr.root # r
  /\ a # x /\ a # r /\ (a = w => a = Nil) /\ i # x /\ i # r /\ (i = w => i = Nil)
  /\ (a = i => a = Nil) /\ w # x /\ w # r
  /\ w # Nil => tr.parent[w] = r
  /\ q.child[s][x] = a /\ q.child[Other(s)][x] = i /\ q.child[s][r] = x /\ q.child[Other(s)][r] = w
  /\ w # Nil => \A y \in Side : /\ q.child[y][w] = tr.child[y][w]
                                /\ tr.child[y][w] \notin {x, r, w}
  /\ \A n \in ns, y \in Side : n \notin {x, r} =>
       /\ q.child[y][n] = IF tr.child[y][n] = x THEN r ELSE tr.child[y][n]
       /\ tr.child[y][n] \in (ns \cup {Nil}) \ {r}
       /\ tr.child[y][n] = w => w = Nil

\* A rotation in an ordered tree is like that.
LEMMA RotationIs ==
  ASSUME NEW tr, NEW ns, NEW under, Tree(tr, ns, under), NEW x \in ns, NEW s \in Side,
         NEW r, r = tr.child[Other(s)][x], r # Nil, NEW q, Rotated(tr, x, s, r, q),
         NEW a, a = tr.child[s][x], NEW i, i = tr.child[s][r], NEW w, w = tr.child[Other(s)][r]
  PROVE  Rotation(tr, ns, x, s, r, q, a, i, w)
<1>1. /\ ns \subseteq Node /\ Nil \notin ns /\ Other(s) \in Side /\ Other(s) # s /\ Other(Other(s)) = s
      /\ r \in ns /\ a \in ns \cup {Nil} /\ i \in ns \cup {Nil} /\ w \in ns \cup {Nil}
      /\ \A y \in Side : y = s \/ y = Other(s)
      /\ \A m \in ns, y \in Side : tr.child[y][m] \in ns \cup {Nil}
  BY LinksAre, SidesAre DEF Tree
<1>2. /\ \A m \in ns, y \in Side : tr.child[y][m] # Nil => tr.parent[tr.child[y][m]] = m
      /\ \A m \in ns, y \in Side : tr.child[y][m] # m
      /\ tr.root # Nil => tr.parent[tr.root] = Nil
  <2>1. \A m \in ns, y \in Side : tr.child[y][m] # m
    BY <1>1, UnderIs
  <2>2. QED
    BY <2>1 DEF Tree, Linked
<1>3. /\ r # x /\ tr.parent[r] = x /\ tr.root # r /\ (w # Nil => tr.parent[w] = r)
      /\ a # x /\ i # r /\ w # r
      /\ (a # Nil => tr.parent[a] = x) /\ (i # Nil => tr.parent[i] = r)
  BY <1>1, <1>2
<1>4. a # r /\ (i = w => i = Nil)
  BY <1>1, UnderIs
<1>5. /\ x \notin under[r] /\ x # Nil
      /\ \A m \in ns, y \in Side : tr.child[y][m] # Nil => tr.child[y][m] \in under[m]
      /\ \A m \in ns, y \in Side : tr.child[y][m] # Nil => under[tr.child[y][m]] \subseteq under[m]
      /\ \A m \in ns, y \in Side : m \notin under[tr.child[y][m]]
  BY <1>1, UnderIs
<1>6. i # x /\ w # x
  BY <1>1, <1>5
<1>7. \A y \in Side, m \in Node :
        q.child[y][m] = IF m = x THEN IF y = s THEN a ELSE i
                        ELSE IF m = r THEN IF y = s THEN x ELSE tr.child[y][r]
                        ELSE IF tr.child[y][m] = x THEN r ELSE tr.child[y][m]
  BY DEF Rotated
<1>8. x \in Node /\ r \in Node
  BY <1>1
<1>9. q.child[s][x] = a /\ q.child[Other(s)][x] = i
  BY <1>1, <1>7, <1>8
<1>10. q.child[s][r] = x /\ q.child[Other(s)][r] = w
  BY <1>1, <1>3, <1>7, <1>8
<1>11. ASSUME w # Nil, NEW y \in Side
       PROVE  q.child[y][w] = tr.child[y][w] /\ tr.child[y][w] \notin {x, r, w}
  <2>1. w \in ns /\ w \in Node
    BY <1>1, <1>11
  <2>2. under[w] \subseteq under[r] /\ r \notin under[w]
    BY <1>1, <1>5, <1>11
  <2>3. tr.child[y][w] # Nil => tr.child[y][w] \in under[w]
    BY <1>5, <2>1
  <2>4. x # Nil /\ r # Nil /\ tr.child[y][w] # w
    BY <1>2, <1>5, <2>1
  <2>5. tr.child[y][w] \notin {x, r, w}
    <3> DEFINE d == tr.child[y][w]
    <3>1. (d # Nil => d \in under[w]) /\ d # w /\ w # Nil
      BY <1>11, <2>3, <2>4
    <3> HIDE DEF d
    <3>2. d # x /\ d # r /\ d # w
      BY <1>5, <2>2, <2>4, <3>1
    <3>3. QED
      BY <3>2 DEF d
  <2>6. w # x /\ w # r
    BY <1>3, <1>6
  <2>7. QED
    BY <1>7, <2>1, <2>5, <2>6
<1>12. ASSUME NEW n \in ns, NEW y \in Side, n \notin {x, r}
       PROVE  /\ q.child[y][n] = IF tr.child[y][n] = x THEN r ELSE tr.child[y][n]
              /\ tr.child[y][n] \in (ns \cup {Nil}) \ {r}
              /\ tr.child[y][n] = w => w = Nil
  <2>1. q.child[y][n] = IF tr.child[y][n] = x THEN r ELSE tr.child[y][n]
    BY <1>1, <1>7, <1>12
  <2>2. tr.child[y][n] # r /\ (tr.child[y][n] = w => w = Nil)
    BY <1>2, <1>3, <1>12
  <2>3. QED
    BY <1>1, <2>1, <2>2
<1>13. (a = w => a = Nil) /\ (a = i => a = Nil)
  BY <1>3
<1>14. QED
  BY <1>1, <1>3, <1>4, <1>6, <1>9, <1>10, <1>11, <1>12, <1>13 DEF Rotation

\* The heights b2 are right at a node.
RightAt(q, b2, hu, hs, n) ==
  \A y \in Side : b2[n] = b2[q.child[y][n]] + Gap(hu, hs, n, y) + Weight(q, n)

\* Away from the nodes X, heights, colours and the short side stay.
SameOff(X, tr, ns, bh, gu, gs, q, b2, hu, hs) ==
  \A n \in ns : n \notin X =>
    /\ b2[n] = bh[n] /\ Weight(q, n) = Weight(tr, n)
    /\ \A y \in Side : Gap(hu, hs, n, y) = Gap(gu, gs, n, y)

\* A rotation keeps the heights if those of the two nodes that change places, and
\* that of the outer child, are right again with the colours they get.
LEMMA RotatedIsBalanced ==
  ASSUME NEW tr, NEW ns, NEW under, Tree(tr, ns, under), NEW bh, NEW gu, NEW gs,
         Balanced(tr, ns, bh, gu, gs),
         NEW x \in ns, NEW s \in Side, NEW r, r = tr.child[Other(s)][x], r # Nil,
         NEW q, Rotated(tr, x, s, r, q), NEW w, w = tr.child[Other(s)][r],
         NEW b2 \in [Link -> Nat], NEW hu, NEW hs, b2[Nil] = 0, b2[r] = bh[x],
         SameOff({x, r, w}, tr, ns, bh, gu, gs, q, b2, hu, hs),
         RightAt(q, b2, hu, hs, x), RightAt(q, b2, hu, hs, r), w # Nil => RightAt(q, b2, hu, hs, w)
  PROVE  Balanced(q, ns, b2, hu, hs)
<1>1. ASSUME NEW n \in ns PROVE RightAt(q, b2, hu, hs, n)
  <2>1. CASE n \notin {x, r, w}
    <3> SUFFICES ASSUME NEW y \in Side
                 PROVE  b2[n] = b2[q.child[y][n]] + Gap(hu, hs, n, y) + Weight(q, n)
      BY DEF RightAt
    <3> DEFINE d == tr.child[y][n]
    <3>1. /\ q.child[y][n] = IF d = x THEN r ELSE d
          /\ d \in (ns \cup {Nil}) \ {r} /\ (d = w => w = Nil)
      <4>1. Rotation(tr, ns, x, s, r, q, tr.child[s][x], tr.child[s][r], w)
        BY RotationIs
      <4>2. QED
        BY <2>1, <4>1 DEF Rotation
    <3>2. bh[n] = bh[d] + Gap(gu, gs, n, y) + Weight(tr, n) /\ bh[Nil] = 0
      BY DEF Balanced
    <3>3. /\ b2[n] = bh[n] /\ Weight(q, n) = Weight(tr, n)
          /\ Gap(hu, hs, n, y) = Gap(gu, gs, n, y)
      BY <2>1 DEF SameOff
    <3> HIDE DEF d
    <3>4. b2[q.child[y][n]] = bh[d]
      <4>1. CASE d = x
        BY <3>1, <4>1
      <4>2. CASE d = Nil
        <5>1. x # Nil
          BY LinksAre DEF Tree
        <5>2. QED
          BY <3>1, <3>2, <4>2, <5>1
      <4>3. CASE d # x /\ d # Nil
        <5>1. q.child[y][n] = d /\ d \in ns /\ d \notin {x, r, w}
          BY <3>1, <4>3
        <5>2. QED
          BY <5>1 DEF SameOff
      <4>4. QED
        BY <4>1, <4>2, <4>3
    <3>5. QED
      BY <3>2, <3>3, <3>4
  <2>2. CASE n = w
    <3>1. w # Nil
      BY <2>2, LinksAre DEF Tree
    <3>2. QED
      BY <2>2, <3>1
  <2>3. QED
    BY <2>1, <2>2
<1>2. QED
  BY <1>1 DEF Balanced, RightAt

\* A new leaf is red.
LEMMA HungIsBalanced ==
  ASSUME NEW tr, NEW ns, NEW under, Tree(tr, ns, under), NEW n \in Node, n \notin ns,
         NEW p \in Link, NEW s \in Side, NEW q, Hung(tr, n, p, s, q),
         p # Nil => p \in ns /\ tr.child[s][p] = Nil,
         NEW gs, Level(tr, ns, Nil, gs), Reds(tr, Nil, Nil)
  PROVE  Level(q, ns \cup {n}, Nil, gs) /\ Reds(q, n, Nil)
<1>1. PICK bh : Balanced(tr, ns, bh, Nil, gs)
  BY DEF Level
<1> DEFINE b2 == [bh EXCEPT ![n] = 0]
<1>2. /\ ns \subseteq Node /\ Nil \notin ns /\ n # Nil /\ n \in Link /\ tr.red \subseteq ns
      /\ \A m \in ns, y \in Side : tr.child[y][m] \in ns \cup {Nil}
      /\ \A m \in ns : tr.parent[m] \in ns \cup {Nil}
      /\ \A y \in Side : tr.child[y][n] = Nil
  BY LinksAre, NodesAre DEF Tree, Linked, Link
<1>3. /\ bh \in [Link -> Nat] /\ bh[Nil] = 0
      /\ \A m \in ns, y \in Side : bh[m] = bh[tr.child[y][m]] + Gap(Nil, gs, m, y) + Weight(tr, m)
  BY <1>1 DEF Balanced
<1>4. /\ b2 \in [Link -> Nat] /\ b2[n] = 0 /\ b2[Nil] = 0
      /\ \A m \in ns \cup {Nil} : b2[m] = bh[m]
  BY <1>2, <1>3 DEF Link
<1> HIDE DEF b2
<1>5. /\ q.red = tr.red \cup {n}
      /\ \A y \in Side, m \in Node : q.child[y][m] = IF m = p /\ y = s THEN n ELSE tr.child[y][m]
      /\ \A m \in Node : q.parent[m] = IF m = n THEN p ELSE tr.parent[m]
  BY DEF Hung
<1>6. ASSUME NEW m \in ns \cup {n}, NEW y \in Side
      PROVE  b2[m] = b2[q.child[y][m]] + Gap(Nil, gs, m, y) + Weight(q, m)
  <2>1. CASE m = n
    <3>1. q.child[y][m] = Nil
      BY <1>2, <1>5, <2>1
    <3>2. Weight(q, m) = 0 /\ Gap(Nil, gs, m, y) = 0
      BY <1>5, <2>1, GapIs
    <3>3. QED
      BY <1>4, <2>1, <3>1, <3>2
  <2>2. CASE m # n
    <3>1. m \in ns /\ Weight(q, m) = Weight(tr, m)
      BY <1>5, <2>2 DEF Weight
    <3>2. bh[m] = bh[tr.child[y][m]] + Gap(Nil, gs, m, y) + Weight(tr, m)
      BY <1>3, <3>1
    <3>3. b2[q.child[y][m]] = bh[tr.child[y][m]]
      <4>1. q.child[y][m] = IF m = p /\ y = s THEN n ELSE tr.child[y][m]
        BY <1>2, <1>5, <3>1
      <4>2. CASE m = p /\ y = s
        BY <1>2, <1>3, <1>4, <3>1, <4>1, <4>2
      <4>3. CASE ~(m = p /\ y = s)
        BY <1>2, <1>4, <3>1, <4>1, <4>3
      <4>4. QED
        BY <4>2, <4>3
    <3>4. b2[m] = bh[m]
      BY <1>4, <3>1
    <3>5. QED
      BY <3>1, <3>2, <3>3, <3>4
  <2>3. QED
    BY <2>1, <2>2
<1>7. Level(q, ns \cup {n}, Nil, gs)
  BY <1>4, <1>6 DEF Level, Balanced
<1>8. Reds(q, n, Nil)
  <2> SUFFICES ASSUME NEW m \in q.red, m # n PROVE q.parent[m] # Nil /\ q.parent[m] \notin q.red
    BY DEF Reds
  <2>1. m \in tr.red /\ m \in ns /\ m \in Node /\ m # Nil
    BY <1>2, <1>5
  <2>2. tr.parent[m] # Nil /\ tr.parent[m] \notin tr.red
    BY <2>1 DEF Reds
  <2>3. q.parent[m] = tr.parent[m] /\ tr.parent[m] \in ns
    BY <1>2, <1>5, <2>1, <2>2
  <2>4. QED
    BY <1>5, <2>2, <2>3
<1>9. QED
  BY <1>7, <1>8

\* The place of a node is taken with its colour.
LEMMA RenamedLevel ==
  ASSUME NEW tr, NEW ns, NEW under, Tree(tr, ns, under), NEW o \in ns, NEW n \in Node, n \notin ns,
         NEW q, Renamed(tr, o, n, q), NEW gu \in ns \cup {Nil}, NEW gs,
         Level(tr, ns, gu, gs), NEW hu, hu = IF gu = o THEN n ELSE gu
  PROVE  Level(q, (ns \ {o}) \cup {n}, hu, gs)
<1> DEFINE N == (ns \ {o}) \cup {n}
           fwd == Renaming(o, n)
<1>1. PICK bh : Balanced(tr, ns, bh, gu, gs)
  BY DEF Level
<1> DEFINE b2 == [bh EXCEPT ![n] = bh[o]]
<1>2. /\ ns \subseteq Node /\ Nil \notin ns /\ n # Nil /\ o # Nil /\ n # o /\ n \in Link /\ o \in Link
      /\ \A m \in ns, y \in Side : tr.child[y][m] \in ns \cup {Nil}
      /\ \A m \in ns : tr.parent[m] \in ns \cup {Nil} /\ tr.red \subseteq ns
  BY LinksAre, NodesAre DEF Tree, Linked, Link
<1>3. /\ \A m \in N : \E b \in ns : m = fwd[b]
      /\ fwd[Nil] = Nil /\ \A m \in ns \cup {Nil} : fwd[m] = Nil => m = Nil
      /\ \A l, m \in ns \cup {Nil} : fwd[l] = fwd[m] => l = m
      /\ \A b \in ns : /\ q.parent[fwd[b]] = fwd[tr.parent[b]]
                       /\ \A y \in Side : q.child[y][fwd[b]] = fwd[tr.child[y][b]]
                       /\ fwd[b] \in q.red <=> b \in tr.red
      /\ q.red \subseteq N
  <2> HIDE DEF fwd
  <2>1. fwd = Renaming(o, n)
    BY DEF fwd
  <2>2. QED
    BY <2>1, RenamedIs
<1>4. \A m \in ns \cup {Nil} : fwd[m] = IF m = o THEN n ELSE m
  BY <1>2 DEF Link, Renaming
<1> HIDE DEF fwd
<1>5. /\ bh \in [Link -> Nat] /\ bh[Nil] = 0
      /\ \A m \in ns, y \in Side : bh[m] = bh[tr.child[y][m]] + Gap(gu, gs, m, y) + Weight(tr, m)
  BY <1>1 DEF Balanced
<1>6. /\ b2 \in [Link -> Nat] /\ b2[Nil] = 0
      /\ \A m \in ns \cup {Nil} : b2[fwd[m]] = bh[m]
  <2>1. b2 \in [Link -> Nat] /\ b2[n] = bh[o] /\ \A m \in ns \cup {Nil} : b2[m] = bh[m]
    BY <1>2, <1>5 DEF Link
  <2> HIDE DEF b2
  <2>2. ASSUME NEW m \in ns \cup {Nil} PROVE b2[fwd[m]] = bh[m]
    <3>1. fwd[m] = IF m = o THEN n ELSE m
      BY <1>4
    <3>2. QED
      BY <2>1, <3>1
  <2>3. QED
    BY <1>5, <2>1, <2>2
<1> HIDE DEF b2
<1>7. ASSUME NEW m \in N, NEW y \in Side
      PROVE  b2[m] = b2[q.child[y][m]] + Gap(hu, gs, m, y) + Weight(q, m)
  <2>1. PICK b \in ns : m = fwd[b]
    BY <1>3
  <2>2. bh[b] = bh[tr.child[y][b]] + Gap(gu, gs, b, y) + Weight(tr, b)
    BY <1>5
  <2>3. b2[m] = bh[b] /\ b2[q.child[y][m]] = bh[tr.child[y][b]]
    BY <1>2, <1>3, <1>6, <2>1
  <2>4. Weight(q, m) = Weight(tr, b)
    BY <1>3, <2>1 DEF Weight
  <2>5. Gap(hu, gs, m, y) = Gap(gu, gs, b, y)
    <3>1. m = hu <=> b = gu
      BY <1>2, <1>4, <2>1
    <3>2. QED
      BY <3>1 DEF Gap
  <2>6. QED
    BY <2>2, <2>3, <2>4, <2>5
<1> HIDE DEF N
<1>8. Level(q, N, hu, gs)
  BY <1>6, <1>7 DEF Level, Balanced
<1>9. QED
  BY <1>8 DEF N

\* The red node under a red parent, or over one, is renamed too.
LEMMA RenamedReds ==
  ASSUME NEW tr, NEW ns, NEW under, Tree(tr, ns, under), NEW o \in ns, NEW n \in Node, n \notin ns,
         NEW q, Renamed(tr, o, n, q), NEW c \in ns \cup {Nil}, Reds(tr, c, c),
         NEW e, e = IF c = o THEN n ELSE c
  PROVE  Reds(q, e, e)
<1> DEFINE N == (ns \ {o}) \cup {n}
           fwd == Renaming(o, n)
<1>1. /\ ns \subseteq Node /\ Nil \notin ns /\ n # Nil /\ o # Nil /\ n # o /\ n \in Link /\ o \in Link
      /\ \A m \in ns, y \in Side : tr.child[y][m] \in ns \cup {Nil}
      /\ \A m \in ns : tr.parent[m] \in ns \cup {Nil} /\ tr.red \subseteq ns
  BY LinksAre, NodesAre DEF Tree, Linked, Link
<1>2. /\ \A m \in N : \E b \in ns : m = fwd[b]
      /\ fwd[Nil] = Nil /\ \A m \in ns \cup {Nil} : fwd[m] = Nil => m = Nil
      /\ \A l, m \in ns \cup {Nil} : fwd[l] = fwd[m] => l = m
      /\ \A b \in ns : /\ q.parent[fwd[b]] = fwd[tr.parent[b]]
                       /\ \A y \in Side : q.child[y][fwd[b]] = fwd[tr.child[y][b]]
                       /\ fwd[b] \in q.red <=> b \in tr.red
      /\ q.red \subseteq N
  <2> HIDE DEF fwd
  <2>1. fwd = Renaming(o, n)
    BY DEF fwd
  <2>2. QED
    BY <2>1, RenamedIs
<1>3. \A m \in ns \cup {Nil} : fwd[m] = IF m = o THEN n ELSE m
  BY <1>1 DEF Link, Renaming
<1> HIDE DEF fwd
<1>4. Reds(q, e, e)
  <2> SUFFICES ASSUME NEW m \in q.red, m # e
               PROVE  q.parent[m] # Nil /\ (q.parent[m] \notin q.red \/ q.parent[m] = e)
    BY DEF Reds
  <2>1. PICK b \in ns : m = fwd[b]
    BY <1>2
  <2>2. e = fwd[c]
    BY <1>3
  <2>3. b \in tr.red /\ b # c
    BY <1>2, <2>1, <2>2
  <2>4. tr.parent[b] # Nil /\ (tr.parent[b] \notin tr.red \/ tr.parent[b] = c)
    BY <2>3 DEF Reds
  <2>5. q.parent[m] = fwd[tr.parent[b]] /\ tr.parent[b] \in ns
    BY <1>1, <1>2, <2>1, <2>4
  <2>6. QED
    BY <1>1, <1>2, <2>2, <2>4, <2>5
<1>5. QED
  BY <1>4

\* Colours that change keep the heights if those of the nodes X around them are
\* right again.
LEMMA PaintedIsBalanced ==
  ASSUME NEW tr, NEW ns, NEW under, Tree(tr, ns, under), NEW bh, NEW gu, NEW gs,
         Balanced(tr, ns, bh, gu, gs), NEW q, Painted(tr, q),
         NEW b2 \in [Link -> Nat], NEW hu, NEW hs, b2[Nil] = 0, NEW X, Nil \notin X,
         SameOff(X, tr, ns, bh, gu, gs, q, b2, hu, hs),
         \A n \in X : RightAt(q, b2, hu, hs, n),
         \A n \in ns, y \in Side : n \notin X /\ tr.child[y][n] \in X =>
           b2[tr.child[y][n]] = bh[tr.child[y][n]]
  PROVE  Balanced(q, ns, b2, hu, hs)
<1>1. ASSUME NEW n \in ns PROVE RightAt(q, b2, hu, hs, n)
  <2>1. CASE n \in X
    BY <2>1
  <2>2. CASE n \notin X
    <3> SUFFICES ASSUME NEW y \in Side
                 PROVE  b2[n] = b2[q.child[y][n]] + Gap(hu, hs, n, y) + Weight(q, n)
      BY DEF RightAt
    <3> DEFINE d == tr.child[y][n]
    <3>1. q.child[y][n] = d /\ d \in ns \cup {Nil}
      BY LinksAre DEF Painted, Tree
    <3>2. bh[n] = bh[d] + Gap(gu, gs, n, y) + Weight(tr, n) /\ bh[Nil] = 0
      BY DEF Balanced
    <3>3. /\ b2[n] = bh[n] /\ Weight(q, n) = Weight(tr, n)
          /\ Gap(hu, hs, n, y) = Gap(gu, gs, n, y)
      BY <2>2 DEF SameOff
    <3>4. d \in X => b2[d] = bh[d]
      BY <2>2
    <3> HIDE DEF d
    <3>5. d \in ns /\ d \notin X => b2[d] = bh[d]
      BY DEF SameOff
    <3>6. b2[d] = bh[d]
      BY <3>1, <3>2, <3>4, <3>5
    <3>7. QED
      BY <3>1, <3>2, <3>3, <3>6
  <2>3. QED
    BY <2>1, <2>2
<1>2. QED
  BY <1>1 DEF Balanced, RightAt

\* A black node that is taken out leaves its place one black node short.
LEMMA SplicedIsBalanced ==
  ASSUME NEW tr, NEW ns, NEW under, Tree(tr, ns, under), NEW x \in ns, NEW c, OnlyChild(tr, x, c),
         NEW q, Spliced(tr, x, c, q), NEW gs, Level(tr, ns, Nil, gs), Reds(tr, Nil, Nil),
         NEW hs \in Side, tr.parent[x] # Nil => tr.child[hs][tr.parent[x]] = x
  PROVE  /\ x \notin tr.red => Level(q, ns \ {x}, tr.parent[x], hs) /\ Reds(q, c, c)
         /\ x \in tr.red => Level(q, ns \ {x}, Nil, hs) /\ Reds(q, Nil, Nil)
<1> DEFINE hu == IF x \in tr.red THEN Nil ELSE tr.parent[x]
           p == tr.parent[x]
<1>1. PICK bh : Balanced(tr, ns, bh, Nil, gs)
  BY DEF Level
<1>2. /\ bh \in [Link -> Nat] /\ bh[Nil] = 0
      /\ \A n \in ns, y \in Side : bh[n] = bh[tr.child[y][n]] + Gap(Nil, gs, n, y) + Weight(tr, n)
  BY <1>1 DEF Balanced
<1>3. /\ ns \subseteq Node /\ Nil \notin ns /\ x # Nil
      /\ \A n \in ns, y \in Side : tr.child[y][n] \in ns \cup {Nil}
      /\ tr.red \subseteq ns
  BY LinksAre DEF Tree, Linked
<1>4. /\ q.red = tr.red \ {x}
      /\ \A y \in Side, m \in Node :
           q.child[y][m] = IF m = x THEN Nil ELSE IF tr.child[y][m] = x THEN c ELSE tr.child[y][m]
      /\ \A m \in Node : q.parent[m] = IF m = x THEN Nil ELSE IF m = c THEN tr.parent[x] ELSE tr.parent[m]
  BY DEF Spliced
<1>5. \E s \in Side : tr.child[s][x] = c /\ tr.child[Other(s)][x] = Nil
  BY DEF OnlyChild
<1>6. bh[x] = bh[c] + Weight(tr, x)
  <2>1. PICK s \in Side : tr.child[s][x] = c /\ tr.child[Other(s)][x] = Nil
    BY <1>5
  <2>2. Gap(Nil, gs, x, s) = 0
    BY <1>3, GapIs
  <2>3. bh[x] = bh[c] + Gap(Nil, gs, x, s) + Weight(tr, x)
    BY <1>2, <2>1
  <2>4. c \in Link
    BY <1>3, <2>1 DEF Link
  <2>5. QED
    BY <1>2, <2>2, <2>3, <2>4, GapIs
<1>7. c \in ns \cup {Nil} /\ c # x
  BY <1>3, <1>5, UnderIs
<1>8. ASSUME NEW n \in ns, n # x, NEW y \in Side
      PROVE  bh[n] = bh[q.child[y][n]] + Gap(hu, hs, n, y) + Weight(q, n)
  <2>1. q.child[y][n] = IF tr.child[y][n] = x THEN c ELSE tr.child[y][n]
    BY <1>3, <1>4, <1>8
  <2>2. bh[n] = bh[tr.child[y][n]] + Weight(tr, n)
    <3>1. Gap(Nil, gs, n, y) = 0
      BY <1>3, GapIs
    <3>2. bh[n] = bh[tr.child[y][n]] + Gap(Nil, gs, n, y) + Weight(tr, n)
      BY <1>2
    <3>3. bh[tr.child[y][n]] \in Nat
      BY <1>2, <1>3 DEF Link
    <3>4. QED
      BY <3>1, <3>2, <3>3, GapIs
  <2>3. Weight(q, n) = Weight(tr, n)
    BY <1>4, <1>8 DEF Weight
  <2>4. tr.child[y][n] = x <=> (n = p /\ y = hs)
    <3>1. tr.child[y][n] = x => n = p
      BY <1>3, HangsOnce
    <3>2. n = p => tr.child[hs][n] = x
      BY <1>3
    <3>3. n = p /\ y # hs => tr.child[y][n] # x
      <4>1. y # hs => y = Other(hs)
        BY SidesAre
      <4>2. QED
        BY <1>3, <3>2, <4>1, UnderIs
    <3>4. QED
      BY <3>1, <3>2, <3>3
  <2>5. CASE tr.child[y][n] = x
    <3>1. Gap(hu, hs, n, y) = Weight(tr, x)
      <4>1. x \in tr.red => Gap(hu, hs, n, y) = 0
        BY <1>3, GapIs
      <4>2. x \notin tr.red => Gap(hu, hs, n, y) = 1
        BY <2>4, <2>5 DEF Gap
      <4>3. QED
        BY <4>1, <4>2 DEF Weight
    <3>2. bh[c] \in Nat /\ bh[x] \in Nat /\ bh[n] \in Nat
      BY <1>2, <1>3, <1>7 DEF Link
    <3> HIDE DEF hu
    <3>3. QED
      BY <1>6, <2>1, <2>2, <2>3, <2>5, <3>1, <3>2, GapIs
  <2>6. CASE tr.child[y][n] # x
    <3>1. Gap(hu, hs, n, y) = 0
      <4>1. n # hu \/ y # hs
        BY <1>3, <2>4, <2>6
      <4>2. QED
        BY <4>1 DEF Gap
    <3> HIDE DEF hu
    <3>2. bh[tr.child[y][n]] \in Nat
      BY <1>2, <1>3 DEF Link
    <3>3. QED
      BY <2>1, <2>2, <2>3, <2>6, <3>1, <3>2, GapIs
  <2>7. QED
    BY <2>5, <2>6
<1>9. Level(q, ns \ {x}, hu, hs)
  <2> HIDE DEF hu
  <2>1. Balanced(q, ns \ {x}, bh, hu, hs)
    BY <1>2, <1>8 DEF Balanced
  <2>2. QED
    BY <2>1 DEF Level
<1>10. ASSUME NEW m \in q.red, m # c
       PROVE  q.parent[m] # Nil /\ q.parent[m] \notin q.red
  <2>1. m \in tr.red /\ m \in Node /\ m # x /\ m # Nil
    BY <1>3, <1>4
  <2>2. q.parent[m] = tr.parent[m]
    BY <1>4, <1>10, <2>1
  <2>3. tr.parent[m] # Nil /\ tr.parent[m] \notin tr.red
    BY <2>1 DEF Reds
  <2>4. QED
    BY <1>4, <2>2, <2>3
<1>11. x \in tr.red => c \notin q.red
  <2> SUFFICES ASSUME x \in tr.red, c \in q.red PROVE FALSE
    OBVIOUS
  <2>1. c \in tr.red /\ c # Nil
    BY <1>3, <1>4
  <2>2. tr.parent[c] = x
    BY <1>5, <2>1 DEF Tree, Linked
  <2>3. QED
    BY <2>1, <2>2 DEF Reds
<1>12. Reds(q, c, c)
  BY <1>10 DEF Reds
<1>13. x \in tr.red => Reds(q, Nil, Nil)
  BY <1>10, <1>11 DEF Reds
<1>14. QED
  BY <1>9, <1>12, <1>13

\* The side of a gap, as the code finds it: it cannot take an empty side for it,
\* since a side with no nodes is no higher than one that is short.
LEMMA GapSide ==
  ASSUME NEW tr, NEW ns, NEW under, Tree(tr, ns, under), NEW n \in ns, NEW s \in Side,
         Level(tr, ns, n, s)
  PROVE  /\ tr.child[Other(s)][n] # Nil /\ tr.child[Other(s)][n] # tr.child[s][n]
         /\ s = IF tr.child["left"][n] = tr.child[s][n] THEN "left" ELSE "right"
<1> DEFINE c == tr.child[s][n]
           b == tr.child[Other(s)][n]
<1>1. PICK bh : Balanced(tr, ns, bh, n, s)
  BY DEF Level
<1>2. c \in Link /\ b \in Link /\ Other(s) \in Side /\ Other(s) # s
  BY LinksAre, SidesAre DEF Tree
<1>3. bh[n] = bh[c] + Gap(n, s, n, s) + Weight(tr, n)
  BY <1>1 DEF Balanced
<1>4. bh[n] = bh[b] + Gap(n, s, n, Other(s)) + Weight(tr, n)
  BY <1>1, <1>2 DEF Balanced
<1>5. bh[c] \in Nat /\ bh[b] \in Nat /\ bh[Nil] = 0
  BY <1>1, <1>2 DEF Balanced
<1> HIDE DEF c, b
<1>6. Gap(n, s, n, s) = 1 /\ Gap(n, s, n, Other(s)) = 0
  BY <1>2 DEF Gap
<1>7. bh[b] = bh[c] + 1
  BY <1>3, <1>4, <1>5, <1>6, GapIs
<1>8. b # Nil /\ b # c
  BY <1>5, <1>7
<1> USE DEF c, b
<1>9. s = IF tr.child["left"][n] = tr.child[s][n] THEN "left" ELSE "right"
  <2>1. CASE s = "left"
    BY <2>1
  <2>2. CASE s = "right"
    <3>1. Other(s) = "left"
      BY <2>2, SidesAre
    <3>2. QED
      BY <1>8, <2>2, <3>1
  <2>3. QED
    BY <2>1, <2>2 DEF Side
<1>10. QED
  BY <1>8, <1>9

\* The node c at the end of a fix-up turns black: its place, if it was short, is
\* no more, and no red node has a red parent.
LEMMA BlackenedIs ==
  ASSUME NEW tr, NEW ns, NEW under, Tree(tr, ns, under), NEW gu \in ns \cup {Nil}, NEW gs \in Side,
         Level(tr, ns, gu, gs), NEW c \in ns \cup {Nil}, Reds(tr, c, c),
         c \in tr.red \/ gu = Nil,
         c # Nil => gu = tr.parent[c] /\ (gu # Nil => tr.child[gs][gu] = c),
         NEW q, q = SetBlack(tr, c)
  PROVE  Tree(q, ns, under) /\ Level(q, ns, Nil, "left") /\ Reds(q, Nil, Nil)
<1>1. /\ tr \in Trees /\ ns \subseteq Node /\ Nil \notin ns /\ c \in Link /\ tr.red \subseteq ns
      /\ \A n \in ns, y \in Side : tr.child[y][n] \in ns \cup {Nil}
      /\ \A n \in ns, y \in Side : tr.child[y][n] # Nil => tr.parent[tr.child[y][n]] = n
  BY LinksAre DEF Tree, Linked, Link
<1>2. Painted(tr, q) /\ q.red = tr.red \ {c}
  BY <1>1, PaintIs DEF Painted
<1>3. Tree(q, ns, under)
  BY <1>1, <1>2, PaintedIsTree
<1>4. Reds(q, Nil, Nil)
  BY <1>2 DEF Reds, Painted
<1>5. PICK bh : Balanced(tr, ns, bh, gu, gs)
  BY DEF Level
<1>6. /\ bh \in [Link -> Nat] /\ bh[Nil] = 0
      /\ \A n \in ns, y \in Side : bh[n] = bh[tr.child[y][n]] + Gap(gu, gs, n, y) + Weight(tr, n)
  BY <1>5 DEF Balanced
<1>7. CASE c \in tr.red
  <2> DEFINE b2 == [bh EXCEPT ![c] = @ + 1]
             X == {c, gu} \ {Nil}
  <2>1. /\ b2 \in [Link -> Nat] /\ b2[c] = bh[c] + 1
        /\ \A m \in Link : m # c => b2[m] = bh[m]
        /\ c \in ns /\ c # Nil /\ gu = tr.parent[c] /\ (gu # Nil => tr.child[gs][gu] = c)
    BY <1>1, <1>6, <1>7
  <2> HIDE DEF b2
  <2>2. b2[Nil] = 0
    BY <1>6, <2>1 DEF Link
  <2>3. \A n \in ns, y \in Side : tr.child[y][n] = c => n = gu
    BY <1>1, <2>1
  <2>4. RightAt(q, b2, Nil, "left", c)
    <3> SUFFICES ASSUME NEW y \in Side
                 PROVE  b2[c] = b2[q.child[y][c]] + Gap(Nil, "left", c, y) + Weight(q, c)
      BY DEF RightAt
    <3> DEFINE d == tr.child[y][c]
    <3>1. d \in Link /\ d # c /\ q.child[y][c] = d /\ bh[d] \in Nat
      <4>1. d \in ns \cup {Nil} /\ d # c
        BY <1>1, <2>1, UnderIs
      <4>2. QED
        BY <1>1, <1>2, <1>6, <4>1 DEF Painted, Link
    <3>2. bh[c] = bh[d] + Gap(gu, gs, c, y) + Weight(tr, c)
      BY <1>6, <2>1
    <3> HIDE DEF d
    <3>3. c # gu
      <4>1. gu # Nil => gu \in ns
        OBVIOUS
      <4>2. gu # Nil => tr.child[gs][gu] # gu
        BY <4>1, UnderIs
      <4>3. QED
        BY <2>1, <4>2
    <3>4. Gap(gu, gs, c, y) = 0 /\ Gap(Nil, "left", c, y) = 0
      BY <2>1, <3>3 DEF Gap
    <3>5. Weight(tr, c) = 0 /\ Weight(q, c) = 1
      BY <1>2, <1>7 DEF Weight
    <3>6. QED
      BY <2>1, <3>1, <3>2, <3>4, <3>5
  <2>5. ASSUME gu # Nil PROVE RightAt(q, b2, Nil, "left", gu)
    <3> SUFFICES ASSUME NEW y \in Side
                 PROVE  b2[gu] = b2[q.child[y][gu]] + Gap(Nil, "left", gu, y) + Weight(q, gu)
      BY DEF RightAt
    <3> DEFINE d == tr.child[y][gu]
    <3>1. gu \in ns /\ gu # c /\ tr.child[gs][gu] = c
      <4>1. gu \in ns /\ tr.child[gs][gu] = c
        BY <2>1, <2>5
      <4>2. tr.child[gs][gu] # gu
        BY <4>1, UnderIs
      <4>3. QED
        BY <4>1, <4>2
    <3>2. d \in Link /\ q.child[y][gu] = d /\ bh[d] \in Nat
      BY <1>1, <1>2, <1>6, <3>1 DEF Painted, Link
    <3>3. d = c <=> y = gs
      <4>1. y # gs => y = Other(gs)
        BY SidesAre
      <4>2. tr.child[Other(gs)][gu] # c
        BY <1>1, <2>1, <3>1, UnderIs
      <4>3. QED
        BY <3>1, <4>1, <4>2
    <3>4. bh[gu] = bh[d] + Gap(gu, gs, gu, y) + Weight(tr, gu)
      BY <1>6, <3>1
    <3> HIDE DEF d
    <3>5. Gap(gu, gs, gu, y) = (IF y = gs THEN 1 ELSE 0) /\ Gap(Nil, "left", gu, y) = 0
      BY <2>5 DEF Gap
    <3>6. Weight(q, gu) = Weight(tr, gu) /\ Weight(tr, gu) \in Nat
      BY <1>2, <3>1 DEF Weight
    <3>7. b2[d] = bh[d] + (IF y = gs THEN 1 ELSE 0)
      BY <2>1, <3>2, <3>3
    <3>8. b2[gu] = bh[gu]
      BY <1>1, <2>1, <3>1 DEF Link
    <3>9. QED
      BY <3>2, <3>4, <3>5, <3>6, <3>7, <3>8
  <2>6. SameOff(X, tr, ns, bh, gu, gs, q, b2, Nil, "left")
    <3> SUFFICES ASSUME NEW n \in ns, n \notin X
                 PROVE  /\ b2[n] = bh[n] /\ Weight(q, n) = Weight(tr, n)
                        /\ \A y \in Side : Gap(Nil, "left", n, y) = Gap(gu, gs, n, y)
      BY DEF SameOff
    <3>1. n # Nil /\ n # c /\ n # gu /\ n \in Link
      BY <1>1 DEF Link
    <3>2. QED
      BY <1>2, <2>1, <3>1 DEF Weight, Gap
  <2>7. Nil \notin X /\ \A n \in X : RightAt(q, b2, Nil, "left", n)
    BY <2>4, <2>5
  <2>8. \A n \in ns, y \in Side : n \notin X /\ tr.child[y][n] \in X =>
           b2[tr.child[y][n]] = bh[tr.child[y][n]]
    <3> SUFFICES ASSUME NEW n \in ns, NEW y \in Side, n \notin X, tr.child[y][n] \in X
                 PROVE  b2[tr.child[y][n]] = bh[tr.child[y][n]]
      OBVIOUS
    <3>1. tr.child[y][n] # c
      BY <1>1, <2>3
    <3>2. tr.child[y][n] \in Link
      BY <1>1 DEF Link
    <3>3. QED
      BY <2>1, <3>1, <3>2
  <2> HIDE DEF X
  <2>9. Balanced(q, ns, b2, Nil, "left")
    BY <1>2, <1>5, <2>1, <2>2, <2>6, <2>7, <2>8, PaintedIsBalanced
  <2>10. QED
    BY <1>3, <1>4, <2>9 DEF Level
<1>8. CASE c \notin tr.red
  <2>1. gu = Nil /\ q.red = tr.red /\ q.child = tr.child
    BY <1>2, <1>8 DEF Painted
  <2>2. Balanced(q, ns, bh, Nil, "left")
    <3> SUFFICES ASSUME NEW n \in ns, NEW y \in Side
                 PROVE  bh[n] = bh[q.child[y][n]] + Gap(Nil, "left", n, y) + Weight(q, n)
      BY <1>6 DEF Balanced
    <3>1. bh[n] = bh[tr.child[y][n]] + Gap(gu, gs, n, y) + Weight(tr, n)
      BY <1>6
    <3>2. Gap(gu, gs, n, y) = Gap(Nil, "left", n, y)
      BY <1>1, <2>1, GapIs
    <3>3. Weight(q, n) = Weight(tr, n)
      BY <2>1 DEF Weight
    <3>4. QED
      BY <2>1, <3>1, <3>2, <3>3
  <2>3. QED
    BY <1>3, <1>4, <2>2 DEF Level
<1>9. QED
  BY <1>7, <1>8

(***************************************************************************)
(* The inductive invariant                                                 *)
(***************************************************************************)

\* A tree between two calls.
Settled(tr, ns) ==
  \E under : Tree(tr, ns, under) /\ Level(tr, ns, Nil, "left") /\ Reds(tr, Nil, Nil)

\* A tree in the loop of rb_insert, which stands on the red node c.
Inserting(tr, ns, c) ==
  \E under : Tree(tr, ns, under) /\ Level(tr, ns, Nil, "left") /\ c \in tr.red /\ Reds(tr, c, Nil)

\* The side of u that c hangs from.
GapSideOf(tr, c, u) == IF tr.child["left"][u] = c THEN "left" ELSE "right"

\* A tree in the loop of rb_erase_fix, which stands on c, a child of u.
Erasing(tr, ns, c, u) ==
  \E under :
    /\ Tree(tr, ns, under) /\ Level(tr, ns, u, GapSideOf(tr, c, u)) /\ Reds(tr, c, c)
    /\ c \in ns \cup {Nil} /\ u \in ns \cup {Nil}
    /\ c # Nil => tr.parent[c] = u
    /\ IF u = Nil THEN c = tr.root ELSE tr.child[GapSideOf(tr, c, u)][u] = c

\* The inductive invariant of rb_insert and rb_erase: an ordered tree that keeps the
\* rules but where the loop that runs has still to mend them.
RbInv ==
  /\ pc \in {"idle", "insert", "erase"}
  /\ pc = "idle" => Settled(t, nodes) /\ cur = Nil /\ up = Nil
  /\ pc = "insert" => Inserting(t, nodes, cur) /\ up = Nil
  /\ pc = "erase" => Erasing(t, nodes, cur, up)

\* Without a short side, its name does not matter.
LEMMA AnyLevel ==
  ASSUME NEW tr, NEW ns, ns \subseteq Node, NEW gs, Level(tr, ns, Nil, gs)
  PROVE  \A y : Level(tr, ns, Nil, y)
<1>1. PICK bh : Balanced(tr, ns, bh, Nil, gs)
  BY DEF Level
<1>2. ASSUME NEW z PROVE Balanced(tr, ns, bh, Nil, z)
  <2>1. \A n \in ns, y \in Side : Gap(Nil, z, n, y) = Gap(Nil, gs, n, y)
    BY GapIs
  <2>2. QED
    BY <1>1, <2>1 DEF Balanced
<1>3. QED
  BY <1>2 DEF Level

\* The empty tree keeps the rules.
LEMMA EmptyIsSettled ==
  ASSUME NEW tr, tr = [root |-> Nil, child |-> [s \in Side |-> [n \in Node |-> Nil]],
                       parent |-> [n \in Node |-> Nil], red |-> {}]
  PROVE  Settled(tr, {})
<1> DEFINE U == [m \in Link |-> {}]
           B == [m \in Link |-> 0]
<1>1. tr \in Trees
  BY DEF Trees, Link
<1>2. Linked(tr, {})
  BY <1>1 DEF Linked
<1>3. Sorted(tr, {}, U)
  BY DEF Sorted, Link
<1>4. Balanced(tr, {}, B, Nil, "left")
  BY DEF Balanced, Link
<1>5. Reds(tr, Nil, Nil)
  BY DEF Reds
<1>6. QED
  BY <1>2, <1>3, <1>4, <1>5 DEF Settled, Tree, Level

(***************************************************************************)
(* Calls                                                                   *)
(***************************************************************************)

\* What the calls find in a settled tree.
LEMMA SearchIs ==
  ASSUME NEW tr, NEW ns, NEW under, Tree(tr, ns, under), NEW k \in Key, NEW p, p = Descend(tr, k)
  PROVE  /\ p = Nil <=> ns = {}
         /\ p \in ns \cup {Nil}
         /\ \A y \in ns : KeyOf(y) = k => y = p
         /\ p # Nil /\ KeyOf(p) # k =>
              /\ tr.child[SideOf(k, p)][p] = Nil
              /\ \A a \in ns : \A s \in Side : p \in under[tr.child[s][a]] => KeyToward(s, k, a)
              /\ KeyToward(SideOf(k, p), k, p)
<1>1. CASE ns = {}
  <2>1. tr.root = Nil
    BY <1>1 DEF Tree, Linked
  <2>2. p = Nil
    BY <2>1 DEF Descend
  <2>3. QED
    BY <1>1, <2>2
<1>2. CASE ns # {}
  <2>1. /\ p \in ns /\ \A y \in ns : KeyOf(y) = k => y = p
        /\ KeyOf(p) # k =>
              /\ tr.child[SideOf(k, p)][p] = Nil
              /\ \A a \in ns : \A s \in Side : p \in under[tr.child[s][a]] => KeyToward(s, k, a)
              /\ \A s \in Side : s = SideOf(k, p) => KeyToward(s, k, p)
    BY <1>2, DescendIs
  <2>2. SideOf(k, p) \in Side
    BY DEF SideOf, Side
  <2>3. p # Nil
    BY <2>1, LinksAre DEF Tree
  <2>4. QED
    BY <1>2, <2>1, <2>2, <2>3
<1>3. QED
  BY <1>1, <1>2

\* mtree_add of a new key.
LEMMA InsertKeeps ==
  ASSUME NEW n \in Node, RbInv, Insert(n)
  PROVE  RbInv'
<1> DEFINE p == Descend(t, KeyOf(n))
           s == SideOf(KeyOf(n), p)
<1>1. /\ pc = "idle" /\ n \notin nodes /\ (p # Nil => KeyOf(p) # KeyOf(n))
      /\ nodes' = nodes \cup {n} /\ pc' = "insert" /\ cur' = n /\ up' = up
  BY DEF Insert
<1>2. up = Nil /\ Settled(t, nodes)
  BY <1>1 DEF RbInv
<1>3. PICK under : Tree(t, nodes, under) /\ Level(t, nodes, Nil, "left") /\ Reds(t, Nil, Nil)
  BY <1>2 DEF Settled
<1>4. KeyOf(n) \in Key /\ nodes \subseteq Node /\ Nil \notin nodes /\ s \in Side
  BY <1>3, NodesAre, LinksAre DEF Tree, SideOf, Side
<1>5. /\ p = Nil <=> nodes = {}
      /\ p \in nodes \cup {Nil}
      /\ p # Nil => /\ t.child[s][p] = Nil
                    /\ \A x \in nodes, y \in Side : p \in under[t.child[y][x]] => KeyToward(y, KeyOf(n), x)
                    /\ KeyToward(s, KeyOf(n), p)
  BY <1>1, <1>3, <1>4, SearchIs
<1>6. t' = SetRed(IF p = Nil THEN [t EXCEPT !.root = n]
                  ELSE [t EXCEPT !.child[s][p] = n, !.parent[n] = p], n)
  BY DEF Insert, SideOf
<1> HIDE DEF p, s
<1>7. Hung(t, n, p, s, t')
  <2>1. p \in Link /\ Linked(t, nodes)
    BY <1>3, <1>4, <1>5 DEF Link, Tree
  <2>2. QED
    BY <1>1, <1>4, <1>6, <2>1, LinkIs
<1>8. p # Nil => /\ Toward(s, n, p)
                 /\ \A x \in nodes, y \in Side : p \in under[t.child[y][x]] => Toward(y, n, x)
  BY <1>4, <1>5, OrderIs
<1>9. \E U : Tree(t', nodes', U)
  BY <1>1, <1>3, <1>4, <1>5, <1>7, <1>8, HungIsTree DEF Link
<1>10. Level(t', nodes', Nil, "left") /\ Reds(t', n, Nil)
  BY <1>1, <1>3, <1>4, <1>5, <1>7, HungIsBalanced DEF Link
<1>11. n \in t'.red
  BY <1>7 DEF Hung
<1>12. QED
  BY <1>1, <1>2, <1>9, <1>10, <1>11 DEF RbInv, Inserting

\* mtree_add of a key the tree has.
LEMMA ReplaceKeeps ==
  ASSUME NEW n \in Node, RbInv, Replace(n)
  PROVE  RbInv'
<1> DEFINE o == Descend(t, KeyOf(n))
<1>1. /\ pc = "idle" /\ n \notin nodes /\ o # Nil /\ KeyOf(o) = KeyOf(n)
      /\ nodes' = (nodes \ {o}) \cup {n} /\ pc' = pc /\ cur' = cur /\ up' = up
  BY DEF Replace
<1>2. cur = Nil /\ up = Nil /\ Settled(t, nodes)
  BY <1>1 DEF RbInv
<1>3. PICK under : Tree(t, nodes, under) /\ Level(t, nodes, Nil, "left") /\ Reds(t, Nil, Nil)
  BY <1>2 DEF Settled
<1>4. KeyOf(n) \in Key /\ nodes \subseteq Node /\ Nil \notin nodes /\ o \in nodes
  <2>1. KeyOf(n) \in Key /\ nodes \subseteq Node /\ Nil \notin nodes
    BY <1>3, NodesAre, LinksAre DEF Tree
  <2>2. QED
    BY <1>1, <1>3, <2>1, SearchIs
<1>5. Renamed(t, o, n, t')
  <2>1. t' = LET moved == [t EXCEPT !.child["left"][n] = t.child["left"][o],
                                 !.child["right"][n] = t.child["right"][o],
                                 !.parent = [m \in Node |->
                                    IF m = n THEN t.parent[o]
                                    ELSE IF m \in {t.child[s][o] : s \in Side} THEN n ELSE @[m]],
                                 !.red = IF o \in @ THEN @ \cup {n} ELSE @]
             IN  Forget(Relink(moved, t.parent[o], o, n), o)
    BY DEF Replace
  <2> HIDE DEF o
  <2>2. QED
    BY <1>1, <1>3, <1>4, <2>1, ReplaceIs
<1> HIDE DEF o
<1>6. /\ \A y \in Side : \A m \in under[t.child[y][o]] : Toward(y, m, n)
      /\ \A x \in nodes, y \in Side : o \in under[t.child[y][x]] => Toward(y, n, x)
  <2>1. /\ \A y \in Side : \A m \in under[t.child[y][o]] : Toward(y, m, o) /\ m \in Node
        /\ \A x \in nodes, y \in Side : o \in under[t.child[y][x]] => Toward(y, o, x)
    <3>1. \A x \in nodes, y \in Side : \A m \in under[t.child[y][x]] : Toward(y, m, x)
      BY <1>3 DEF Tree, Sorted
    <3>2. \A y \in Side : under[t.child[y][o]] \subseteq nodes
      BY <1>3, <1>4, UnderIs
    <3>3. QED
      BY <1>4, <3>1, <3>2
  <2>2. QED
    BY <1>1, <1>4, <2>1, OrderIs
<1>7. \E U : Tree(t', nodes', U)
  BY <1>1, <1>3, <1>4, <1>5, <1>6, RenamedIsTree
<1>8. Level(t', nodes', Nil, "left") /\ Reds(t', Nil, Nil)
  <2>1. o # Nil
    BY <1>1
  <2>2. Level(t', (nodes \ {o}) \cup {n}, Nil, "left") /\ Reds(t', Nil, Nil)
    BY <1>1, <1>3, <1>4, <1>5, <2>1, RenamedLevel, RenamedReds
  <2>3. QED
    BY <1>1, <2>1, <2>2
<1>9. QED
  BY <1>1, <1>2, <1>7, <1>8 DEF RbInv, Settled

\* A node with at most one child is taken out: rb_erase_fix has to start at the
\* child if the node was black.
LEMMA SplicedKeeps ==
  ASSUME NEW tr, NEW ns, NEW under, Tree(tr, ns, under), Level(tr, ns, Nil, "left"),
         Reds(tr, Nil, Nil), NEW x \in ns, NEW c, OnlyChild(tr, x, c), NEW q, Spliced(tr, x, c, q)
  PROVE  /\ x \notin tr.red => Erasing(q, ns \ {x}, c, tr.parent[x])
         /\ x \in tr.red => Settled(q, ns \ {x})
<1> DEFINE u == tr.parent[x]
           N == ns \ {x}
           U == [m \in Link |-> IF m = x THEN {} ELSE under[m] \ {x}]
<1>1. /\ ns \subseteq Node /\ Nil \notin ns
      /\ u \in ns \cup {Nil} /\ u # x /\ (u = Nil <=> x = tr.root)
      /\ u # Nil => \E s \in Side : tr.child[s][u] = x
  <2>1. ns \subseteq Node /\ Nil \notin ns /\ u \in ns \cup {Nil}
    BY LinksAre DEF Tree
  <2>2. QED
    BY <2>1, HangsOnce
<1>2. Tree(q, N, U)
  <2> HIDE DEF U
  <2>1. U = [m \in Link |-> IF m = x THEN {} ELSE under[m] \ {x}]
    BY DEF U
  <2>2. QED
    BY <2>1, SplicedIsTree
<1>3. c \in N \cup {Nil}
  <2>1. PICK s \in Side : tr.child[s][x] = c
    BY DEF OnlyChild
  <2>2. c \in ns \cup {Nil} /\ c # x
    BY <2>1, LinksAre, UnderIs DEF Tree
  <2>3. QED
    BY <2>2
<1>4. /\ c # Nil => q.parent[c] = u
      /\ tr.root = x => q.root = c
      /\ \A s \in Side, m \in Node : m # x /\ tr.child[s][m] = x => q.child[s][m] = c
  <2>1. c # Nil => c \in Node /\ c # x
    BY <1>1, <1>3
  <2>2. QED
    BY <2>1 DEF Spliced
<1>5. PICK hs \in Side : u # Nil => tr.child[hs][u] = x
  BY <1>1, SidesAre
<1>6. /\ x \notin tr.red => Level(q, N, u, hs) /\ Reds(q, c, c)
      /\ x \in tr.red => Level(q, N, Nil, hs) /\ Reds(q, Nil, Nil)
  BY <1>5, SplicedIsBalanced
<1>7. N \subseteq Node
  BY <1>1
<1> HIDE DEF N, U
<1>8. ASSUME x \in tr.red PROVE Settled(q, N)
  BY <1>2, <1>6, <1>7, <1>8, AnyLevel DEF Settled
<1>9. ASSUME x \notin tr.red PROVE Erasing(q, N, c, u)
  <2>1. u \in N \cup {Nil}
    BY <1>1 DEF N
  <2>2. CASE u = Nil
    <3>1. Level(q, N, u, GapSideOf(q, c, u))
      BY <1>6, <1>7, <1>9, <2>2, AnyLevel
    <3>2. c = q.root
      BY <1>1, <1>4, <2>2
    <3> HIDE DEF u
    <3>3. QED
      BY <1>2, <1>3, <1>4, <1>6, <1>9, <2>1, <2>2, <3>1, <3>2 DEF Erasing
  <2>3. CASE u # Nil
    <3>1. u \in N /\ u \in Node /\ tr.child[hs][u] = x
      BY <1>1, <1>5, <2>1, <2>3
    <3>2. q.child[hs][u] = c
      BY <1>1, <1>4, <3>1
    <3>3. Level(q, N, u, hs) /\ Reds(q, c, c)
      BY <1>6, <1>9
    <3> HIDE DEF u
    <3>4. hs = IF q.child["left"][u] = q.child[hs][u] THEN "left" ELSE "right"
      BY <1>2, <3>1, <3>3, GapSide
    <3>5. hs = GapSideOf(q, c, u)
      BY <3>2, <3>4 DEF GapSideOf
    <3>6. QED
      BY <1>2, <1>3, <1>4, <2>1, <2>3, <3>2, <3>3, <3>5 DEF Erasing
  <2>4. QED
    BY <2>2, <2>3
<1>10. QED
  BY <1>8, <1>9 DEF N

\* Another node takes the place of a node, also before rb_erase_fix.
LEMMA RenamedKeeps ==
  ASSUME NEW tr, NEW ns, NEW o \in ns, NEW n \in Node, n \notin ns, NEW q, Renamed(tr, o, n, q),
         \E U : Tree(q, (ns \ {o}) \cup {n}, U)
  PROVE  /\ Settled(tr, ns) => Settled(q, (ns \ {o}) \cup {n})
         /\ \A c, u : Erasing(tr, ns, c, u) =>
              Erasing(q, (ns \ {o}) \cup {n}, IF c = o THEN n ELSE c, IF u = o THEN n ELSE u)
<1> DEFINE N == (ns \ {o}) \cup {n}
           fwd == Renaming(o, n)
<1>1. PICK V : Tree(q, N, V)
  OBVIOUS
<1>2. ASSUME Settled(tr, ns) PROVE Settled(q, N)
  <2>1. PICK under : Tree(tr, ns, under) /\ Level(tr, ns, Nil, "left") /\ Reds(tr, Nil, Nil)
    BY <1>2 DEF Settled
  <2>2. o # Nil
    BY <2>1, LinksAre DEF Tree
  <2>3. Level(q, N, Nil, "left") /\ Reds(q, Nil, Nil)
    BY <2>1, <2>2, RenamedLevel, RenamedReds
  <2> HIDE DEF N
  <2>4. QED
    BY <1>1, <2>2, <2>3 DEF Settled
<1>3. ASSUME NEW c, NEW u, Erasing(tr, ns, c, u)
      PROVE  Erasing(q, N, IF c = o THEN n ELSE c, IF u = o THEN n ELSE u)
  <2> DEFINE d == IF c = o THEN n ELSE c
             v == IF u = o THEN n ELSE u
             gs == GapSideOf(tr, c, u)
  <2>1. PICK under :
          /\ Tree(tr, ns, under) /\ Level(tr, ns, u, gs) /\ Reds(tr, c, c)
          /\ c \in ns \cup {Nil} /\ u \in ns \cup {Nil}
          /\ c # Nil => tr.parent[c] = u
          /\ IF u = Nil THEN c = tr.root ELSE tr.child[gs][u] = c
    BY <1>3 DEF Erasing
  <2>2. /\ ns \subseteq Node /\ Nil \notin ns /\ n # Nil /\ o # Nil
        /\ \A m \in ns, y \in Side : tr.child[y][m] \in ns \cup {Nil}
        /\ tr.root \in ns \cup {Nil}
    BY <2>1, LinksAre, NodesAre DEF Tree
  <2>3. Level(q, N, v, gs) /\ Reds(q, d, d)
    <3> HIDE DEF gs
    <3>1. c \in ns \cup {Nil} /\ u \in ns \cup {Nil} /\ Level(tr, ns, u, gs) /\ Reds(tr, c, c)
      BY <2>1
    <3>2. (v = IF u = o THEN n ELSE u) /\ (d = IF c = o THEN n ELSE c)
      OBVIOUS
    <3> HIDE DEF v, d
    <3>3. Tree(tr, ns, under)
      BY <2>1
    <3> HIDE DEF N, fwd
    <3>4. Level(q, (ns \ {o}) \cup {n}, v, gs)
      BY <3>1, <3>2, <3>3, RenamedLevel
    <3>5. Reds(q, d, d)
      BY <3>1, <3>2, <3>3, RenamedReds
    <3>6. QED
      BY <3>4, <3>5 DEF N
  <2>4. \A m \in ns \cup {Nil} : fwd[m] = IF m = o THEN n ELSE m
    BY <2>2 DEF Link, Renaming
  <2>5. /\ fwd[Nil] = Nil /\ (\A m \in ns \cup {Nil} : fwd[m] = Nil => m = Nil)
        /\ \A l, m \in ns \cup {Nil} : fwd[l] = fwd[m] => l = m
        /\ q.root = fwd[tr.root]
        /\ \A b \in ns : /\ q.parent[fwd[b]] = fwd[tr.parent[b]]
                         /\ \A y \in Side : q.child[y][fwd[b]] = fwd[tr.child[y][b]]
    <3> HIDE DEF fwd
    <3>1. fwd = Renaming(o, n)
      BY DEF fwd
    <3>2. QED
      BY <2>1, <3>1, RenamedIs
  <2> HIDE DEF fwd
  <2>6. d = fwd[c] /\ v = fwd[u]
    BY <2>1, <2>4
  <2>7. d \in N \cup {Nil} /\ v \in N \cup {Nil} /\ N \subseteq Node
    BY <2>1, <2>2
  <2>8. d # Nil => q.parent[d] = v
    BY <2>1, <2>5, <2>6
  <2>9. gs \in Side /\ GapSideOf(q, d, v) \in Side
    BY DEF GapSideOf, Side
  <2> HIDE DEF d, v
  <2>10. CASE u = Nil
    <3>1. v = Nil /\ d = q.root
      BY <2>1, <2>5, <2>6, <2>10
    <3>2. Level(q, N, v, GapSideOf(q, d, v))
      BY <2>3, <2>7, <3>1, AnyLevel
    <3> HIDE DEF N
    <3>3. Erasing(q, N, d, v)
      BY <1>1, <2>3, <2>7, <2>8, <3>1, <3>2 DEF Erasing
    <3>4. QED
      BY <3>3 DEF d, v
  <2>11. CASE u # Nil
    <3>1. u \in ns /\ v # Nil /\ tr.child[gs][u] = c
      BY <2>1, <2>5, <2>6, <2>11
    <3>2. \A y \in Side : q.child[y][v] = d <=> tr.child[y][u] = c
      BY <2>1, <2>2, <2>5, <2>6, <3>1
    <3>3. GapSideOf(q, d, v) = gs
      BY <3>2, SidesAre DEF GapSideOf
    <3>4. q.child[gs][v] = d
      BY <2>9, <3>1, <3>2
    <3> HIDE DEF N, gs
    <3>5. Erasing(q, N, d, v)
      BY <1>1, <2>3, <2>7, <2>8, <3>1, <3>3, <3>4 DEF Erasing
    <3>6. QED
      BY <3>5 DEF d, v
  <2>12. QED
    BY <2>10, <2>11
<1>4. QED
  BY <1>2, <1>3

\* A successor that was taken out fits in the place of its predecessor n.
LEMMA SuccessorFits ==
  ASSUME NEW tr, NEW ns, NEW under, Tree(tr, ns, under), NEW n \in ns, tr.child["right"][n] # Nil,
         NEW x, x = Neighbour(tr, n, "right"), NEW c, OnlyChild(tr, x, c), NEW mid, Spliced(tr, x, c, mid),
         NEW U, U = [m \in Link |-> IF m = x THEN {} ELSE under[m] \ {x}]
  PROVE  /\ x \in ns /\ x # n
         /\ \A y \in Side : \A m \in U[mid.child[y][n]] : Toward(y, m, x)
         /\ \A z \in ns \ {x}, y \in Side : n \in U[mid.child[y][z]] => Toward(y, x, z)
<1>1. /\ ns \subseteq Node /\ Nil \notin ns
      /\ \A m \in ns, y \in Side : tr.child[y][m] \in ns \cup {Nil}
      /\ under[Nil] = {} /\ \A m \in ns : under[m] \subseteq ns
  BY LinksAre, UnderIs DEF Tree, Sorted
<1>2. /\ x \in ns /\ x # n /\ x \in under[tr.child["right"][n]]
      /\ \A y \in under[tr.child["right"][n]] : y # x => Toward("left", x, y)
  BY SuccessorIs
<1>3. c \in ns \cup {Nil} /\ c # x /\ under[c] \subseteq under[x]
  <2>1. PICK s \in Side : tr.child[s][x] = c
    BY DEF OnlyChild
  <2>2. QED
    BY <1>1, <1>2, <2>1, UnderIs
<1>4. \A m \in ns \cup {Nil} : m # x => U[m] = under[m] \ {x}
  BY <1>1 DEF Link
<1>5. ASSUME NEW z \in ns, z # x, NEW y \in Side
      PROVE  U[mid.child[y][z]] \subseteq under[tr.child[y][z]] \ {x}
  <2>1. mid.child[y][z] = IF tr.child[y][z] = x THEN c ELSE tr.child[y][z]
    BY <1>1, <1>5 DEF Spliced
  <2>2. U[c] = under[c] \ {x}
    BY <1>3, <1>4
  <2>3. tr.child[y][z] # x => U[tr.child[y][z]] = under[tr.child[y][z]] \ {x}
    BY <1>1, <1>4
  <2>4. QED
    BY <1>3, <2>1, <2>2, <2>3
<1>6. \A z \in ns, y \in Side : \A m \in under[tr.child[y][z]] : Toward(y, m, z) /\ m \in Node
  BY <1>1 DEF Tree, Sorted
<1>7. ASSUME NEW y \in Side, NEW m \in U[mid.child[y][n]] PROVE Toward(y, m, x)
  <2>1. m \in under[tr.child[y][n]] /\ m # x
    BY <1>2, <1>5
  <2>2. Toward(y, m, n) /\ m \in Node
    BY <1>6, <2>1
  <2>3. x \in Node /\ n \in Node /\ Toward("right", x, n)
    BY <1>1, <1>2, <1>6, SidesAre
  <2>4. CASE y = "left"
    <3>1. Toward("left", n, x)
      BY <2>3, OrderIs, SidesAre
    <3>2. QED
      BY <2>2, <2>3, <2>4, <3>1, OrderIs
  <2>5. CASE y = "right"
    <3>1. Toward("left", x, m)
      BY <1>2, <2>1, <2>5
    <3>2. QED
      BY <2>2, <2>3, <2>5, <3>1, OrderIs, SidesAre
  <2>6. QED
    BY <2>4, <2>5 DEF Side
<1>8. ASSUME NEW z \in ns \ {x}, NEW y \in Side, n \in U[mid.child[y][z]]
      PROVE  Toward(y, x, z)
  <2>1. n \in under[tr.child[y][z]]
    BY <1>5, <1>8
  <2>2. under[n] \subseteq under[tr.child[y][z]]
    BY <2>1, SameSide
  <2>3. x \in under[n]
    BY <1>2, UnderIs, SidesAre
  <2>4. QED
    BY <1>6, <2>2, <2>3
<1>9. QED
  BY <1>2, <1>7, <1>8

\* mtree_delete.
LEMMA EraseKeeps ==
  ASSUME NEW n \in Node, RbInv, Erase(n)
  PROVE  RbInv'
<1> DEFINE x == Heir(n)
           two == t.child["left"][n] # Nil /\ t.child["right"][n] # Nil
           child == IF two THEN t.child["right"][x] ELSE x
           p == IF ~two THEN t.parent[n] ELSE IF x = t.child["right"][n] THEN x ELSE t.parent[x]
           wasBlack == (IF two THEN x ELSE n) \notin t.red
           moved == IF two THEN Promote(n, x)
                    ELSE IF x # Nil THEN [t EXCEPT !.parent[x] = t.parent[n]] ELSE t
<1>1. /\ pc = "idle" /\ n \in nodes /\ nodes' = nodes \ {n}
      /\ t' = Forget(Relink(moved, t.parent[n], n, x), n)
      /\ pc' = IF wasBlack THEN "erase" ELSE "idle"
      /\ cur' = IF wasBlack THEN child ELSE Nil
      /\ up' = IF wasBlack THEN p ELSE Nil
  BY DEF Erase, Black
<1>2. cur = Nil /\ up = Nil /\ Settled(t, nodes)
  BY <1>1 DEF RbInv
<1>3. PICK under : Tree(t, nodes, under) /\ Level(t, nodes, Nil, "left") /\ Reds(t, Nil, Nil)
  BY <1>2 DEF Settled
<1>4. nodes \subseteq Node /\ Nil \notin nodes
  BY <1>3, LinksAre DEF Tree
<1>5. SUFFICES IF wasBlack THEN Erasing(t', nodes', child, p) ELSE Settled(t', nodes')
  BY <1>1 DEF RbInv
<1>6. CASE ~two
  <2>1. child = x /\ p = t.parent[n] /\ (wasBlack <=> n \notin t.red)
    BY <1>6
  <2>2. OnlyChild(t, n, x)
    <3>1. x = IF t.child["left"][n] # Nil THEN t.child["left"][n] ELSE t.child["right"][n]
      BY <1>6 DEF Heir
    <3>2. QED
      BY <1>6, <3>1, SidesAre DEF OnlyChild
  <2>3. t' = LET mv == IF x # Nil THEN [t EXCEPT !.parent[x] = t.parent[n]] ELSE t
             IN  Forget(Relink(mv, t.parent[n], n, x), n)
    BY <1>1, <1>6
  <2> HIDE DEF x
  <2>4. Spliced(t, n, x, t')
    BY <1>1, <1>3, <2>2, <2>3, EraseOneIs
  <2>5. /\ n \notin t.red => Erasing(t', nodes \ {n}, x, t.parent[n])
        /\ n \in t.red => Settled(t', nodes \ {n})
    BY <1>1, <1>3, <2>2, <2>4, SplicedKeeps
  <2>6. QED
    BY <1>1, <2>1, <2>5
<1>7. CASE two
  <2> DEFINE c == t.child["right"][x]
             mid == Splicing(t, x, c)
             U == [m \in Link |-> IF m = x THEN {} ELSE under[m] \ {x}]
             N == ((nodes \ {x}) \ {n}) \cup {x}
  <2>1. x = Neighbour(t, n, "right") /\ c = t.child["right"][x] /\ mid = Splicing(t, x, c)
    BY <1>7 DEF Heir
  <2>2. t.child["left"][n] # Nil /\ t.child["right"][n] # Nil
    BY <1>7
  <2>3. t' = Forget(Relink(Promote(n, x), t.parent[n], n, x), n)
    BY <1>1, <1>7
  <2>4. /\ child = c /\ p = (IF x = t.child["right"][n] THEN x ELSE t.parent[x])
        /\ wasBlack <=> x \notin t.red
    BY <1>7
  <2>5. U = [m \in Link |-> IF m = x THEN {} ELSE under[m] \ {x}]
    OBVIOUS
  <2> HIDE DEF x, c, mid, U, two, child, p, wasBlack
  <2>6. OnlyChild(t, x, c) /\ Spliced(t, x, c, mid) /\ Renamed(mid, n, x, t')
    BY <1>1, <1>3, <2>1, <2>2, <2>3, EraseTwoIs
  <2>7. /\ x \in nodes /\ x # n
        /\ \A y \in Side : \A m \in U[mid.child[y][n]] : Toward(y, m, x)
        /\ \A z \in nodes \ {x}, y \in Side : n \in U[mid.child[y][z]] => Toward(y, x, z)
    <3>1. n \in nodes /\ t.child["right"][n] # Nil
      BY <1>1, <2>2
    <3> HIDE DEF N, moved
    <3>2. QED
      BY <1>3, <2>1, <2>5, <2>6, <3>1, SuccessorFits
  <2>8. Tree(mid, nodes \ {x}, U)
    BY <1>3, <2>5, <2>6, <2>7, SplicedIsTree
  <2>9. n \in nodes \ {x} /\ x \notin nodes \ {x} /\ x \in Node
    BY <1>1, <1>4, <2>7
  <2>10. \E V : Tree(t', N, V)
    BY <2>6, <2>7, <2>8, <2>9, RenamedIsTree
  <2>11. /\ x \notin t.red => Erasing(mid, nodes \ {x}, c, t.parent[x])
         /\ x \in t.red => Settled(mid, nodes \ {x})
    BY <1>3, <2>6, <2>7, SplicedKeeps
  <2>12. /\ Settled(mid, nodes \ {x}) => Settled(t', N)
         /\ \A a, b : Erasing(mid, nodes \ {x}, a, b) =>
              Erasing(t', N, IF a = n THEN x ELSE a, IF b = n THEN x ELSE b)
    BY <2>6, <2>9, <2>10, RenamedKeeps
  <2>13. N = nodes'
    BY <1>1, <2>7
  <2>14. c # n
    <3>1. x \in under[t.child["right"][n]] /\ n \notin under[t.child["right"][n]]
      BY <1>1, <1>3, <2>1, <2>2, SuccessorIs, UnderIs, SidesAre
    <3>2. under[x] \subseteq under[t.child["right"][n]]
      BY <1>1, <1>3, <3>1, SameSide, SidesAre
    <3>3. c # Nil => c \in under[x]
      BY <1>3, <2>1, <2>7, UnderIs, SidesAre
    <3>4. n # Nil
      BY <1>1, <1>4
    <3>5. QED
      BY <3>1, <3>2, <3>3, <3>4
  <2>15. p = IF t.parent[x] = n THEN x ELSE t.parent[x]
    <3>1. CASE x = t.child["right"][n]
      <4>1. t.parent[x] = n
        <5>1. t.child["right"][n] # Nil => t.parent[t.child["right"][n]] = n
          BY <1>1, <1>3, SidesAre DEF Tree, Linked
        <5>2. QED
          BY <2>2, <3>1, <5>1
      <4>2. QED
        BY <2>4, <3>1, <4>1
    <3>2. CASE x # t.child["right"][n]
      <4>1. t.parent[x] \in under[t.child["right"][n]]
        BY <1>1, <1>3, <2>1, <2>2, <3>2, SuccessorIs
      <4>2. n \notin under[t.child["right"][n]]
        BY <1>1, <1>3, UnderIs, SidesAre
      <4>3. QED
        BY <2>4, <3>2, <4>1, <4>2
    <3>3. QED
      BY <3>1, <3>2
  <2> HIDE DEF N
  <2>16. CASE x \in t.red
    BY <2>4, <2>11, <2>12, <2>13, <2>16
  <2>17. CASE x \notin t.red
    <3>1. Erasing(t', N, IF c = n THEN x ELSE c, IF t.parent[x] = n THEN x ELSE t.parent[x])
      BY <2>11, <2>12, <2>17
    <3>2. QED
      BY <2>4, <2>13, <2>14, <2>15, <2>17, <3>1
  <2>18. QED
    BY <2>16, <2>17
<1>8. QED
  BY <1>6, <1>7

(***************************************************************************)
(* The loop of rb_insert                                                   *)
(***************************************************************************)

\* At a node without a short side, the heights of both children are the same.
LEMMA NoGap ==
  ASSUME NEW n \in Node, NEW q, NEW b2, \A y \in Side : b2[q.child[y][n]] \in Nat
  PROVE  \A hs : RightAt(q, b2, Nil, hs, n) <=>
                   \A y \in Side : b2[n] = b2[q.child[y][n]] + Weight(q, n)
<1>1. \A hs, y : Gap(Nil, hs, n, y) = 0
  BY GapIs
<1>2. Weight(q, n) \in {0, 1}
  BY GapIs
<1>3. \A hs : \A y \in Side : b2[q.child[y][n]] + Gap(Nil, hs, n, y) + Weight(q, n)
                                = b2[q.child[y][n]] + Weight(q, n)
  BY <1>1, <1>2
<1>4. QED
  BY <1>3 DEF RightAt

\* The heights of a tree without a short side.
LEMMA HeightsAre ==
  ASSUME NEW tr, NEW ns, Linked(tr, ns), NEW bh, NEW gs, Balanced(tr, ns, bh, Nil, gs)
  PROVE  /\ bh \in [Link -> Nat] /\ bh[Nil] = 0
         /\ \A n \in ns \cup {Nil} : bh[n] \in Nat
         /\ \A n \in ns, y \in Side : bh[n] = bh[tr.child[y][n]] + Weight(tr, n)
<1>1. ns \subseteq Node /\ \A n \in ns, y \in Side : tr.child[y][n] \in ns \cup {Nil}
  BY LinksAre
<1>2. bh \in [Link -> Nat] /\ bh[Nil] = 0
  BY DEF Balanced
<1>3. \A n \in ns \cup {Nil} : n \in Link
  BY <1>1 DEF Link
<1>4. ASSUME NEW n \in ns, NEW y \in Side PROVE bh[n] = bh[tr.child[y][n]] + Weight(tr, n)
  <2>1. bh[n] = bh[tr.child[y][n]] + Gap(Nil, gs, n, y) + Weight(tr, n)
    BY DEF Balanced
  <2>2. Gap(Nil, gs, n, y) = 0 /\ Weight(tr, n) \in {0, 1} /\ bh[tr.child[y][n]] \in Nat
    BY <1>1, <1>2, <1>3, GapIs
  <2>3. QED
    BY <2>1, <2>2
<1>5. QED
  BY <1>2, <1>3, <1>4

\* Where the loop of rb_insert stands when it goes on.
LEMMA InsertPlace ==
  ASSUME NEW under, Tree(t, nodes, under), Reds(t, cur, Nil), cur \in t.red, ParentIsRed,
         NEW p, p = t.parent[cur], NEW g, g = t.parent[p]
  PROVE  /\ cur \in nodes /\ p \in nodes /\ g \in nodes /\ p \in t.red /\ g \notin t.red
         /\ cur # p /\ p # g /\ cur # g
         /\ InsertSide \in Side /\ Other(InsertSide) \in Side
         /\ t.child[InsertSide][g] = p /\ t.child[Other(InsertSide)][g] = Uncle
         /\ Uncle \in nodes \cup {Nil} /\ Uncle # p /\ Uncle # g /\ Uncle # cur
         /\ Uncle # Nil => t.parent[Uncle] = g
         /\ \A m \in nodes : t.parent[m] = g => m = p \/ m = Uncle
         /\ \E y \in Side : t.child[y][p] = cur
<1>1. /\ nodes \subseteq Node /\ Nil \notin nodes /\ t.red \subseteq nodes
      /\ \A n \in nodes, y \in Side : t.child[y][n] \in nodes \cup {Nil}
      /\ \A n \in nodes, y \in Side : t.child[y][n] # Nil => t.parent[t.child[y][n]] = n
      /\ \A n \in nodes, y \in Side : t.child[y][n] # n
  <2>1. \A n \in nodes, y \in Side : t.child[y][n] # n
    <3>1. \A n \in nodes, y \in Side : t.child[y][n] \in nodes \cup {Nil} /\ n # Nil
      BY LinksAre DEF Tree
    <3>2. QED
      BY <3>1, UnderIs
  <2>2. QED
    BY <2>1, LinksAre DEF Tree, Linked
<1>2. cur \in nodes /\ p \in nodes /\ p \in t.red /\ p # Nil /\ \E y \in Side : t.child[y][p] = cur
  <2>1. cur \in nodes /\ p # Nil /\ p \in t.red
    BY <1>1 DEF ParentIsRed, Red
  <2>2. QED
    BY <1>1, <2>1, HangsOnce
<1>3. cur # p
  BY <1>1, <1>2
<1>4. g # Nil /\ g \notin t.red
  BY <1>2, <1>3 DEF Reds
<1>5. /\ g \in nodes
      /\ \E y \in Side : t.child[y][g] = p /\ t.child[Other(y)][g] # p
      /\ \A m \in nodes : t.parent[m] = g => \E y \in Side : t.child[y][g] = m
  <2>1. g \in nodes /\ \E y \in Side : t.child[y][g] = p /\ t.child[Other(y)][g] # p
    BY <1>2, <1>4, HangsOnce
  <2>2. ASSUME NEW m \in nodes, t.parent[m] = g PROVE \E y \in Side : t.child[y][g] = m
    <3>1. t.parent[m] # Nil => \E y \in Side : t.child[y][t.parent[m]] = m
      BY HangsOnce
    <3>2. QED
      BY <1>4, <2>2, <3>1
  <2>3. QED
    BY <2>1, <2>2
<1>6. p # g /\ cur # g /\ \A m \in nodes : t.parent[m] # m
  <2>1. \A m \in nodes : t.parent[m] # m
    BY <1>1, HangsOnce
  <2>2. QED
    BY <1>2, <1>4, <2>1
<1>7. t.child[InsertSide][g] = p /\ InsertSide \in Side
  <2>1. InsertSide = IF t.child["left"][g] = p THEN "left" ELSE "right"
    BY DEF InsertSide
  <2>2. QED
    BY <1>5, <2>1 DEF Side
<1> DEFINE o == Other(InsertSide)
           u == Uncle
<1>8. o \in Side /\ o = Other(InsertSide) /\ o # InsertSide /\ u = t.child[o][g] /\ \A y \in Side : y = InsertSide \/ y = o
  <2>1. u = t.child[o][g]
    BY DEF Uncle
  <2>2. QED
    BY <1>7, <2>1, SidesAre
<1> HIDE DEF u, o
<1>9. u \in nodes \cup {Nil} /\ (u # Nil => t.parent[u] = g) /\ u # g
  <2>1. g \in nodes /\ o \in Side /\ u = t.child[o][g]
    BY <1>5, <1>8
  <2>2. /\ t.child[o][g] \in nodes \cup {Nil} /\ t.child[o][g] # g
        /\ t.child[o][g] # Nil => t.parent[t.child[o][g]] = g
    BY <1>1, <2>1
  <2>3. QED
    BY <2>1, <2>2
<1>10. u # p
  <2>1. PICK y \in Side : t.child[y][g] = p /\ t.child[Other(y)][g] # p
    BY <1>5
  <2>2. y = InsertSide
    <3>1. Other(o) = InsertSide
      BY <1>7, <1>8, SidesAre
    <3>2. y = o => FALSE
      BY <1>7, <2>1, <3>1
    <3>3. QED
      BY <1>8, <3>2
  <2>3. QED
    BY <1>8, <2>1, <2>2
<1>11. u # cur
  BY <1>2, <1>6, <1>9, <1>1
<1>12. \A m \in nodes : t.parent[m] = g => m = p \/ m = u
  BY <1>5, <1>6, <1>7, <1>8
<1>13. QED
  BY <1>2, <1>3, <1>4, <1>5, <1>6, <1>7, <1>8, <1>9, <1>10, <1>11, <1>12 DEF o, u

\* A red uncle.
LEMMA InsertRecolourKeeps ==
  ASSUME RbInv, InsertRecolour
  PROVE  RbInv'
<1> DEFINE p == t.parent[cur]
           g == t.parent[p]
           u == Uncle
<1>1. /\ pc = "insert" /\ ParentIsRed /\ u \in t.red
      /\ t' = SetBlack(SetBlack(SetRed(t, g), p), u)
      /\ nodes' = nodes /\ pc' = pc /\ cur' = g /\ up' = up
  BY DEF InsertRecolour, Red
<1>2. up = Nil /\ Inserting(t, nodes, cur)
  BY <1>1 DEF RbInv
<1>3. PICK under : /\ Tree(t, nodes, under) /\ Level(t, nodes, Nil, "left")
                   /\ cur \in t.red /\ Reds(t, cur, Nil)
  BY <1>2 DEF Inserting
<1> HIDE DEF u
<1>4. /\ cur \in nodes /\ p \in nodes /\ g \in nodes /\ p \in t.red /\ g \notin t.red
      /\ cur # p /\ p # g /\ cur # g /\ u # p /\ u # g
      /\ InsertSide \in Side /\ Other(InsertSide) \in Side
      /\ t.child[InsertSide][g] = p /\ t.child[Other(InsertSide)][g] = u
      /\ u # Nil => t.parent[u] = g
      /\ \A m \in nodes : t.parent[m] = g => m = p \/ m = u
  BY <1>1, <1>3, InsertPlace DEF u
<1>5. t.parent[cur] = p /\ t.parent[p] = g
  OBVIOUS
<1> HIDE DEF p, g
<1>6. /\ t \in Trees /\ nodes \subseteq Node /\ Nil \notin nodes /\ t.red \subseteq nodes
      /\ \A n \in nodes, y \in Side : t.child[y][n] \in nodes \cup {Nil}
      /\ \A n \in nodes, y \in Side : t.child[y][n] # Nil => t.parent[t.child[y][n]] = n
      /\ \A n \in nodes, y \in Side : t.child[y][n] # n
  <2>1. \A n \in nodes, y \in Side : t.child[y][n] \in nodes \cup {Nil} /\ n # Nil
    BY <1>3, LinksAre DEF Tree
  <2>2. \A n \in nodes, y \in Side : t.child[y][n] # n
    BY <1>3, <2>1, UnderIs
  <2>3. QED
    BY <1>3, <2>2, LinksAre DEF Tree, Linked
<1>7. u \in nodes /\ u # Nil /\ t.parent[u] = g
  BY <1>1, <1>4, <1>6
<1>8. Painted(t, t') /\ t'.red = ((t.red \cup {g}) \ {p}) \ {u}
  <2> DEFINE q1 == SetRed(t, g)
             q2 == SetBlack(q1, p)
  <2>1. g \in Node /\ p \in Link /\ u \in Link
    BY <1>4, <1>6, <1>7 DEF Link
  <2>2. Painted(t, q1) /\ q1.red = t.red \cup {g}
    BY <1>6, <2>1, PaintIs DEF Painted
  <2>3. t' = SetBlack(q2, u) /\ q2 = SetBlack(q1, p)
    BY <1>1
  <2> HIDE DEF q1, q2
  <2>4. Painted(q1, q2) /\ q2.red = q1.red \ {p}
    BY <2>1, <2>2, <2>3, PaintIs DEF Painted
  <2>5. Painted(q2, t') /\ t'.red = q2.red \ {u}
    BY <2>1, <2>3, <2>4, PaintIs DEF Painted
  <2>6. QED
    BY <2>2, <2>4, <2>5 DEF Painted
<1>9. Tree(t', nodes, under)
  <2>1. t'.red \subseteq nodes
    BY <1>4, <1>6, <1>8
  <2>2. QED
    BY <1>3, <1>8, <2>1, PaintedIsTree
<1>10. Level(t', nodes, Nil, "left")
  <2>1. PICK bh : Balanced(t, nodes, bh, Nil, "left")
    BY <1>3 DEF Level
  <2>2. /\ bh \in [Link -> Nat] /\ bh[Nil] = 0
        /\ \A n \in nodes \cup {Nil} : bh[n] \in Nat
        /\ \A n \in nodes, y \in Side : bh[n] = bh[t.child[y][n]] + Weight(t, n)
    BY <1>3, <2>1, HeightsAre DEF Tree
  <2> DEFINE b2 == [m \in Link |-> IF m = p \/ m = u THEN bh[m] + 1 ELSE bh[m]]
             X == {g, p, u}
  <2>3. /\ b2 \in [Link -> Nat] /\ b2[Nil] = 0 /\ b2[p] = bh[p] + 1 /\ b2[u] = bh[u] + 1
        /\ \A m \in nodes \cup {Nil} : m # p /\ m # u => b2[m] = bh[m]
    BY <1>4, <1>6, <1>7, <2>2 DEF Link
  <2> HIDE DEF b2
  <2>4. /\ Weight(t, p) = 0 /\ Weight(t, u) = 0 /\ Weight(t, g) = 1
        /\ Weight(t', p) = 1 /\ Weight(t', u) = 1 /\ Weight(t', g) = 0
    BY <1>1, <1>4, <1>8 DEF Weight
  <2>5. \A n \in nodes, y \in Side : t'.child[y][n] = t.child[y][n]
    BY <1>8 DEF Painted
  <2>6. \A n \in nodes : (\A y \in Side : b2[n] = b2[t.child[y][n]] + Weight(t', n))
                            => RightAt(t', b2, Nil, "left", n)
    <3> SUFFICES ASSUME NEW n \in nodes, \A y \in Side : b2[n] = b2[t.child[y][n]] + Weight(t', n)
                 PROVE  RightAt(t', b2, Nil, "left", n)
      OBVIOUS
    <3>1. n \in Node /\ \A y \in Side : b2[t'.child[y][n]] \in Nat
      BY <1>6, <2>3, <2>5 DEF Link
    <3>2. \A y \in Side : b2[n] = b2[t'.child[y][n]] + Weight(t', n)
      BY <2>5
    <3>3. QED
      BY <3>1, <3>2, NoGap
  <2>7. RightAt(t', b2, Nil, "left", g)
    <3>1. ASSUME NEW y \in Side PROVE b2[g] = b2[t.child[y][g]] + Weight(t', g)
      <4>1. t.child[y][g] = p \/ t.child[y][g] = u
        BY <1>4, SidesAre
      <4>2. b2[g] = bh[g] /\ bh[g] = bh[t.child[y][g]] + Weight(t, g)
        BY <1>4, <2>2, <2>3
      <4>3. bh[p] \in Nat /\ bh[u] \in Nat
        BY <1>4, <1>7, <2>2
      <4>4. QED
        BY <2>3, <2>4, <4>1, <4>2, <4>3
    <3>2. QED
      BY <1>4, <2>6, <3>1
  <2>8. ASSUME NEW n \in {p, u} PROVE RightAt(t', b2, Nil, "left", n)
    <3>1. n \in nodes /\ t.parent[n] = g /\ b2[n] = bh[n] + 1 /\ Weight(t, n) = 0 /\ Weight(t', n) = 1
      BY <1>4, <1>5, <1>7, <2>3, <2>4
    <3>2. ASSUME NEW y \in Side PROVE b2[n] = b2[t.child[y][n]] + Weight(t', n)
      <4> DEFINE d == t.child[y][n]
      <4>1. d \in nodes \cup {Nil} /\ (d # Nil => t.parent[d] = n) /\ bh[n] = bh[d] + Weight(t, n)
        BY <1>6, <2>2, <3>1
      <4> HIDE DEF d
      <4>2. d # p /\ d # u
        BY <1>4, <1>5, <1>6, <1>7, <4>1
      <4>3. b2[d] = bh[d] /\ bh[d] \in Nat
        BY <2>2, <2>3, <4>1, <4>2
      <4>4. b2[n] = b2[d] + Weight(t', n)
        BY <3>1, <4>1, <4>3
      <4>5. QED
        BY <4>4 DEF d
    <3>3. QED
      BY <2>6, <3>1, <3>2
  <2>9. SameOff(X, t, nodes, bh, Nil, "left", t', b2, Nil, "left")
    <3> SUFFICES ASSUME NEW n \in nodes, n # g, n # p, n # u
                 PROVE  b2[n] = bh[n] /\ Weight(t', n) = Weight(t, n)
      BY DEF SameOff
    <3>1. QED
      BY <1>8, <2>3 DEF Weight
  <2>10. \A n \in nodes, y \in Side : n \notin X /\ t.child[y][n] \in X =>
           b2[t.child[y][n]] = bh[t.child[y][n]]
    <3> SUFFICES ASSUME NEW n \in nodes, NEW y \in Side, n # g, t.child[y][n] \in {g, p, u}
                 PROVE  b2[t.child[y][n]] = bh[t.child[y][n]]
      OBVIOUS
    <3>1. t.parent[t.child[y][n]] = n
      BY <1>4, <1>6, <1>7
    <3>2. t.child[y][n] = g
      BY <1>5, <1>7, <3>1
    <3>3. QED
      BY <1>4, <2>3, <3>2
  <2>11. Nil \notin X /\ \A n \in X : RightAt(t', b2, Nil, "left", n)
    BY <1>4, <1>6, <1>7, <2>7, <2>8
  <2> HIDE DEF X
  <2>12. Balanced(t', nodes, b2, Nil, "left")
    BY <1>3, <1>8, <2>1, <2>3, <2>9, <2>10, <2>11, PaintedIsBalanced
  <2>13. QED
    BY <2>12 DEF Level
<1>11. Reds(t', g, Nil)
  <2> SUFFICES ASSUME NEW m \in t'.red, m # g
               PROVE  t'.parent[m] # Nil /\ t'.parent[m] \notin t'.red
    BY DEF Reds
  <2>1. m \in t.red /\ m # p /\ m # u /\ t'.parent[m] = t.parent[m] /\ m \in nodes
    BY <1>6, <1>8 DEF Painted
  <2>2. CASE m = cur
    BY <1>4, <1>5, <1>6, <1>8, <2>1, <2>2
  <2>3. CASE m # cur
    <3>1. t.parent[m] # Nil /\ t.parent[m] \notin t.red
      BY <1>3, <2>1, <2>3 DEF Reds
    <3>2. t.parent[m] # g
      BY <1>4, <2>1
    <3>3. QED
      BY <1>8, <2>1, <3>1, <3>2
  <2>4. QED
    BY <2>2, <2>3
<1>12. g \in t'.red
  BY <1>4, <1>8
<1>13. Inserting(t', nodes', cur')
  BY <1>1, <1>9, <1>10, <1>11, <1>12 DEF Inserting
<1>14. QED
  BY <1>1, <1>2, <1>13 DEF RbInv

\* The root turns black at the end.
LEMMA RootBlackened ==
  ASSUME NEW tr, NEW ns, NEW under, Tree(tr, ns, under), NEW gs, Level(tr, ns, Nil, gs),
         Reds(tr, tr.root, tr.root)
  PROVE  Settled(SetBlack(tr, tr.root), ns)
<1>1. /\ tr.root \in ns \cup {Nil} /\ ns \subseteq Node
      /\ tr.root # Nil => Nil = tr.parent[tr.root]
  BY LinksAre DEF Tree, Linked
<1>2. Level(tr, ns, Nil, "left") /\ "left" \in Side
  BY <1>1, AnyLevel, SidesAre
<1> DEFINE q == SetBlack(tr, tr.root)
<1>3. Tree(q, ns, under) /\ Level(q, ns, Nil, "left") /\ Reds(q, Nil, Nil)
  <2>1. q = SetBlack(tr, tr.root)
    OBVIOUS
  <2> HIDE DEF q
  <2>2. QED
    BY <1>1, <1>2, <2>1, BlackenedIs
<1>4. QED
  BY <1>3 DEF Settled

\* At the end of rb_insert the root turns black.
LEMMA InsertEndsKeeps ==
  ASSUME RbInv, InsertEnds
  PROVE  RbInv'
<1>1. /\ pc = "insert" /\ ~ParentIsRed /\ t' = SetBlack(t, t.root)
      /\ nodes' = nodes /\ pc' = "idle" /\ cur' = Nil /\ up' = up
  BY DEF InsertEnds
<1>2. up = Nil /\ Inserting(t, nodes, cur)
  BY <1>1 DEF RbInv
<1>3. PICK under : /\ Tree(t, nodes, under) /\ Level(t, nodes, Nil, "left")
                   /\ cur \in t.red /\ Reds(t, cur, Nil)
  BY <1>2 DEF Inserting
<1>4. cur \in nodes /\ (t.parent[cur] = Nil => cur = t.root)
  BY <1>3, LinksAre DEF Tree, Linked
<1>5. Reds(t, t.root, t.root)
  BY <1>1, <1>3, <1>4 DEF Reds, ParentIsRed, Red
<1>6. Settled(t', nodes')
  BY <1>1, <1>3, <1>5, RootBlackened
<1>7. QED
  BY <1>1, <1>2, <1>6 DEF RbInv

\* What the links of a tree are like around a node.
LEMMA ShapeIs ==
  ASSUME NEW tr, NEW ns, NEW under, Tree(tr, ns, under)
  PROVE  /\ tr \in Trees /\ ns \subseteq Node /\ Nil \notin ns /\ tr.red \subseteq ns
         /\ \A n \in ns : tr.parent[n] \in ns \cup {Nil} /\ tr.parent[n] # n
         /\ \A n \in ns, y \in Side : tr.child[y][n] \in ns \cup {Nil} /\ tr.child[y][n] # n
         /\ \A n \in ns, y \in Side : tr.child[y][n] # Nil => tr.parent[tr.child[y][n]] = n
         /\ tr.root \in ns \cup {Nil}
         /\ tr.root # Nil => tr.parent[tr.root] = Nil
         /\ \A n \in ns : tr.parent[n] = Nil => n = tr.root
         /\ \A n \in ns : tr.parent[n] # Nil => \E y \in Side : tr.child[y][tr.parent[n]] = n
<1>1. /\ tr \in Trees /\ ns \subseteq Node /\ Nil \notin ns /\ tr.red \subseteq ns
      /\ \A n \in ns : tr.parent[n] \in ns \cup {Nil}
      /\ \A n \in ns, y \in Side : tr.child[y][n] \in ns \cup {Nil}
      /\ \A n \in ns, y \in Side : tr.child[y][n] # Nil => tr.parent[tr.child[y][n]] = n
      /\ tr.root \in ns \cup {Nil}
      /\ tr.root # Nil => tr.parent[tr.root] = Nil
      /\ \A n \in ns : tr.parent[n] = Nil => n = tr.root
      /\ \A n \in ns : tr.parent[n] # Nil => \E y \in Side : tr.child[y][tr.parent[n]] = n
  BY LinksAre DEF Tree, Linked
<1>2. \A n \in ns, y \in Side : tr.child[y][n] # n
  BY <1>1, UnderIs
<1>3. \A n \in ns : tr.parent[n] # n
  BY <1>1, <1>2
<1>4. QED
  BY <1>1, <1>2, <1>3

\* A rotation and then colours: what is known of the links is the same.
LEMMA RotatedAndPainted ==
  ASSUME NEW tr, NEW x, NEW s, NEW r, NEW q0, Rotated(tr, x, s, r, q0), NEW q, Painted(q0, q)
  PROVE  Rotated(tr, x, s, r, q)
BY DEF Rotated, Painted

\* Below the grandparent g hang, to the same side, the two red nodes.
InsertReady(tr, ns, top, low, g, s) ==
  \E under :
    /\ Tree(tr, ns, under) /\ Level(tr, ns, Nil, "left") /\ Reds(tr, low, Nil)
    /\ top \in tr.red /\ low \in tr.red /\ top # low
    /\ g \in ns /\ g \notin tr.red
    /\ tr.child[s][g] = top /\ tr.child[s][top] = low /\ tr.child[Other(s)][g] \notin tr.red

\* The first rotation, which makes it so.
LEMMA InsertTurned ==
  ASSUME NEW tr, NEW ns, NEW under, Tree(tr, ns, under), Level(tr, ns, Nil, "left"),
         NEW c, Reds(tr, c, Nil), NEW p, NEW g, NEW s \in Side,
         c \in tr.red, p \in tr.red, g \in ns, g \notin tr.red, c # g, p # g,
         tr.child[s][g] = p, tr.child[Other(s)][p] = c, tr.child[Other(s)][g] \notin tr.red,
         NEW q, q = Rotate(tr, p, s)
  PROVE  InsertReady(q, ns, c, p, g, s)
<1> DEFINE a == tr.child[s][p]
           i == tr.child[s][c]
           w == tr.child[Other(s)][c]
<1>1. /\ ns \subseteq Node /\ Nil \notin ns /\ tr.red \subseteq ns /\ Other(s) \in Side /\ Other(s) # s
      /\ p \in ns /\ c \in ns /\ c # Nil
      /\ \A y \in Side : y = s \/ y = Other(s)
  BY ShapeIs, SidesAre
<1>2. q \in Trees /\ q.red = tr.red /\ Rotated(tr, p, s, c, q)
  BY <1>1, RotateIs
<1>3. \E U : Tree(q, ns, U)
  <2>1. q.red \subseteq ns /\ c = tr.child[Other(s)][p]
    BY <1>1, <1>2
  <2>2. Tree(q, ns, [under EXCEPT ![p] = {p} \cup under[tr.child[s][p]] \cup under[tr.child[s][c]],
                                  ![c] = under[p]])
    BY <1>1, <1>2, <2>1, RotatedIsTree
  <2>3. QED
    BY <2>2
<1>4. a = tr.child[s][p] /\ i = tr.child[s][c] /\ w = tr.child[Other(s)][c]
  OBVIOUS
<1> HIDE DEF a, i, w
<1>5. /\ a \in ns \cup {Nil} /\ i \in ns \cup {Nil} /\ w \in ns \cup {Nil}
      /\ p # c /\ tr.parent[c] = p
      /\ q.child[s][p] = a /\ q.child[Other(s)][p] = i /\ q.child[s][c] = p /\ q.child[Other(s)][c] = w
      /\ w # Nil => \A y \in Side : q.child[y][w] = tr.child[y][w]
      /\ \A n \in ns, y \in Side : n \notin {p, c} =>
           q.child[y][n] = IF tr.child[y][n] = p THEN c ELSE tr.child[y][n]
  <2>1. Rotation(tr, ns, p, s, c, q, a, i, w)
    BY <1>1, <1>2, <1>4, RotationIs
  <2>2. QED
    BY <2>1 DEF Rotation
<1>6. PICK bh : Balanced(tr, ns, bh, Nil, "left")
  BY DEF Level
<1>7. /\ bh \in [Link -> Nat] /\ bh[Nil] = 0
      /\ \A n \in ns \cup {Nil} : bh[n] \in Nat
      /\ \A n \in ns, y \in Side : bh[n] = bh[tr.child[y][n]] + Weight(tr, n)
  BY <1>6, HeightsAre DEF Tree
<1>8. /\ \A n : Weight(q, n) = Weight(tr, n)
      /\ Weight(tr, p) = 0 /\ Weight(tr, c) = 0
  BY <1>2 DEF Weight
<1>9. bh[p] = bh[a] /\ bh[p] = bh[c] /\ bh[c] = bh[i] /\ bh[c] = bh[w]
  <2>1. bh[p] = bh[a] + 0 /\ bh[p] = bh[c] + 0 /\ bh[c] = bh[i] + 0 /\ bh[c] = bh[w] + 0
    BY <1>1, <1>7, <1>8 DEF a, i, w
  <2>2. bh[a] \in Nat /\ bh[i] \in Nat /\ bh[w] \in Nat /\ bh[c] \in Nat
    BY <1>1, <1>5, <1>7
  <2>3. QED
    BY <2>1, <2>2
<1>10. Balanced(q, ns, bh, Nil, "left")
  <2>1. ASSUME NEW y \in Side PROVE bh[q.child[y][p]] = bh[p] /\ bh[q.child[y][c]] = bh[c]
    <3>1. /\ q.child[y][p] = a \/ q.child[y][p] = i
          /\ q.child[y][c] = p \/ q.child[y][c] = w
      BY <1>1, <1>5
    <3>2. QED
      BY <1>9, <3>1
  <2>2. bh[p] \in Nat /\ bh[c] \in Nat /\ p \in Node /\ c \in Node
    BY <1>1, <1>7
  <2>3. /\ \A y \in Side : bh[q.child[y][p]] \in Nat /\ bh[p] = bh[q.child[y][p]] + Weight(q, p)
        /\ \A y \in Side : bh[q.child[y][c]] \in Nat /\ bh[c] = bh[q.child[y][c]] + Weight(q, c)
    BY <1>8, <2>1, <2>2
  <2>4. RightAt(q, bh, Nil, "left", p) /\ RightAt(q, bh, Nil, "left", c)
    BY <2>2, <2>3, NoGap
  <2>5. ASSUME w # Nil PROVE RightAt(q, bh, Nil, "left", w)
    <3>1. w \in ns /\ w \in Node
      BY <1>1, <1>5, <2>5
    <3>2. \A y \in Side : tr.child[y][w] \in ns \cup {Nil} /\ bh[w] = bh[tr.child[y][w]] + Weight(tr, w)
      BY <1>7, <3>1, ShapeIs
    <3>3. \A y \in Side : bh[q.child[y][w]] \in Nat /\ bh[w] = bh[q.child[y][w]] + Weight(q, w)
      BY <1>5, <1>7, <1>8, <2>5, <3>2
    <3>4. QED
      BY <3>1, <3>3, NoGap
  <2>6. SameOff({p, c, w}, tr, ns, bh, Nil, "left", q, bh, Nil, "left")
    BY <1>8 DEF SameOff
  <2>7. c = tr.child[Other(s)][p] /\ w = tr.child[Other(s)][c] /\ bh[c] = bh[p]
    BY <1>9 DEF w
  <2>8. QED
    BY <1>1, <1>2, <1>6, <1>7, <2>4, <2>5, <2>6, <2>7, RotatedIsBalanced
<1>11. Reds(q, p, Nil)
  <2> SUFFICES ASSUME NEW m \in q.red, m # p PROVE q.parent[m] # Nil /\ q.parent[m] \notin q.red
    BY DEF Reds
  <2>1. m \in tr.red /\ m \in ns /\ m \in Node /\ m # Nil
    BY <1>1, <1>2
  <2>2. /\ \A n \in Node : q.parent[n] = IF n = p THEN c ELSE IF n = c THEN tr.parent[p]
                                         ELSE IF n = i THEN p ELSE tr.parent[n]
    BY <1>2 DEF Rotated, i
  <2>3. CASE m = c
    <3>1. tr.parent[p] = g
      BY <1>1, ShapeIs
    <3>2. QED
      BY <1>1, <1>2, <1>5, <2>1, <2>2, <2>3, <3>1
  <2>4. CASE m # c
    <3>1. tr.parent[m] # Nil /\ tr.parent[m] \notin tr.red
      BY <2>1, <2>4 DEF Reds
    <3>2. m # i
      <4>1. i # Nil => tr.parent[i] = c
        BY <1>1, ShapeIs DEF i
      <4>2. QED
        BY <2>1, <3>1, <4>1
    <3>3. QED
      BY <1>2, <2>1, <2>2, <2>4, <3>1, <3>2
  <2>5. QED
    BY <2>3, <2>4
<1>12. q.child[s][g] = c /\ q.child[Other(s)][g] \notin q.red
  <2>1. g \notin {p, c}
    OBVIOUS
  <2>2. tr.child[Other(s)][g] # p
    OBVIOUS
  <2>3. QED
    BY <1>1, <1>2, <1>5, <2>1, <2>2
<1>13. QED
  BY <1>2, <1>3, <1>5, <1>10, <1>11, <1>12 DEF InsertReady, Level

\* The second rotation.
LEMMA InsertFinished ==
  ASSUME NEW tr, NEW ns, NEW top, NEW low, NEW g, NEW s \in Side, InsertReady(tr, ns, top, low, g, s),
         NEW q, q = SetRed(SetBlack(Rotate(tr, g, Other(s)), top), g)
  PROVE  Settled(SetBlack(q, q.root), ns)
<1> DEFINE x == Other(s)
           a == tr.child[x][g]
           i == tr.child[x][top]
           q0 == Rotate(tr, g, x)
<1>1. PICK under :
        /\ Tree(tr, ns, under) /\ Level(tr, ns, Nil, "left") /\ Reds(tr, low, Nil)
        /\ top \in tr.red /\ low \in tr.red /\ top # low
        /\ g \in ns /\ g \notin tr.red
        /\ tr.child[s][g] = top /\ tr.child[s][top] = low /\ a \notin tr.red
  BY DEF InsertReady
<1>2. /\ ns \subseteq Node /\ Nil \notin ns /\ tr.red \subseteq ns
      /\ x \in Side /\ x # s /\ Other(x) = s
      /\ top \in ns /\ low \in ns /\ top # Nil /\ low # Nil /\ g # Nil
      /\ \A y \in Side : y = s \/ y = x
  BY <1>1, ShapeIs, SidesAre
<1>3. top = tr.child[Other(x)][g] /\ low = tr.child[Other(x)][top]
  BY <1>1, <1>2
<1>4. q = SetRed(SetBlack(q0, top), g) /\ q0 = Rotate(tr, g, x)
  OBVIOUS
<1>5. a = tr.child[x][g] /\ i = tr.child[x][top]
  OBVIOUS
<1> HIDE DEF x, a, i, q0
<1>6. q0 \in Trees /\ q0.red = tr.red /\ Rotated(tr, g, x, top, q0)
  BY <1>1, <1>2, <1>3, <1>4, RotateIs
<1>7. q \in Trees /\ Painted(q0, q) /\ q.red = (tr.red \ {top}) \cup {g}
  <2> DEFINE q1 == SetBlack(q0, top)
  <2>1. Painted(q0, q1) /\ q1.red = tr.red \ {top}
    BY <1>2, <1>6, PaintsAre DEF Link
  <2>2. q = SetRed(q1, g)
    BY <1>4
  <2> HIDE DEF q1
  <2>3. q1 \in Trees /\ g \in Node
    BY <1>1, <1>2, <2>1 DEF Painted
  <2>4. Painted(q1, q) /\ q.red = q1.red \cup {g}
    BY <2>2, <2>3, PaintsAre
  <2>5. QED
    BY <2>1, <2>4 DEF Painted
<1>8. Rotated(tr, g, x, top, q)
  BY <1>6, <1>7, RotatedAndPainted
<1>9. q.red \subseteq ns
  BY <1>1, <1>2, <1>7
<1>10. PICK U : Tree(q, ns, U)
  BY <1>1, <1>2, <1>3, <1>7, <1>8, <1>9, RotatedIsTree
<1>11. /\ a \in ns \cup {Nil} /\ i \in ns \cup {Nil}
       /\ g # top /\ low # g /\ low # top /\ a # g /\ a # top /\ a # low /\ i # g /\ i # top /\ i # low
       /\ tr.parent[top] = g /\ tr.parent[low] = top
       /\ q.child[x][g] = a /\ q.child[s][g] = i /\ q.child[x][top] = g /\ q.child[s][top] = low
       /\ \A y \in Side : q.child[y][low] = tr.child[y][low]
  <2>1. Rotation(tr, ns, g, x, top, q, a, i, low)
    BY <1>1, <1>2, <1>3, <1>5, <1>8, RotationIs
  <2>2. QED
    BY <1>2, <2>1 DEF Rotation
<1>12. PICK bh : Balanced(tr, ns, bh, Nil, "left")
  BY <1>1 DEF Level
<1>13. /\ bh \in [Link -> Nat] /\ bh[Nil] = 0
       /\ \A n \in ns \cup {Nil} : bh[n] \in Nat
       /\ \A n \in ns, y \in Side : bh[n] = bh[tr.child[y][n]] + Weight(tr, n)
  BY <1>1, <1>12, HeightsAre DEF Tree
<1>14. /\ Weight(tr, g) = 1 /\ Weight(tr, top) = 0 /\ Weight(tr, low) = 0
       /\ Weight(q, g) = 0 /\ Weight(q, top) = 1 /\ Weight(q, low) = 0
       /\ \A n : n # g /\ n # top => Weight(q, n) = Weight(tr, n)
  BY <1>1, <1>7, <1>11 DEF Weight
<1> DEFINE h == bh[top]
           b2 == [m \in Link |-> IF m = g THEN h ELSE IF m = top THEN h + 1 ELSE bh[m]]
<1>15. /\ h \in Nat /\ bh[g] = h + 1 /\ bh[a] = h /\ bh[i] = h /\ bh[low] = h
  <2>1. /\ bh[g] = bh[top] + 1 /\ bh[g] = bh[a] + 1 /\ bh[top] = bh[i] + 0 /\ bh[top] = bh[low] + 0
    BY <1>1, <1>2, <1>3, <1>5, <1>13, <1>14
  <2>2. bh[g] \in Nat /\ bh[top] \in Nat /\ bh[a] \in Nat /\ bh[i] \in Nat /\ bh[low] \in Nat
    BY <1>1, <1>2, <1>11, <1>13
  <2>3. QED
    BY <2>1, <2>2
<1>16. /\ b2 \in [Link -> Nat] /\ b2[Nil] = 0 /\ b2[g] = h /\ b2[top] = h + 1
       /\ \A m \in ns \cup {Nil} : m # g /\ m # top => b2[m] = bh[m]
  <2>1. Nil \in Link /\ g \in Link /\ top \in Link /\ \A m \in ns \cup {Nil} : m \in Link
    BY <1>1, <1>2 DEF Link
  <2> HIDE DEF h
  <2>2. QED
    BY <1>2, <1>11, <1>13, <1>15, <2>1
<1> HIDE DEF h, b2
<1>17. b2[a] = h /\ b2[i] = h /\ b2[low] = h
  BY <1>2, <1>11, <1>15, <1>16
<1>18. Balanced(q, ns, b2, Nil, "left")
  <2>1. /\ \A y \in Side : b2[q.child[y][g]] = h
        /\ \A y \in Side : b2[q.child[y][top]] = h
    BY <1>2, <1>11, <1>16, <1>17
  <2>2. RightAt(q, b2, Nil, "left", g) /\ RightAt(q, b2, Nil, "left", top)
    <3>1. /\ \A y \in Side : b2[q.child[y][g]] \in Nat /\ b2[g] = b2[q.child[y][g]] + Weight(q, g)
          /\ \A y \in Side : b2[q.child[y][top]] \in Nat /\ b2[top] = b2[q.child[y][top]] + Weight(q, top)
      BY <1>14, <1>15, <1>16, <2>1
    <3>2. g \in Node /\ top \in Node
      BY <1>1, <1>2
    <3>3. QED
      BY <3>1, <3>2, NoGap
  <2>3. RightAt(q, b2, Nil, "left", low)
    <3>1. ASSUME NEW y \in Side
          PROVE  b2[q.child[y][low]] \in Nat /\ b2[low] = b2[q.child[y][low]] + Weight(q, low)
      <4> DEFINE d == tr.child[y][low]
      <4>1. d \in ns \cup {Nil} /\ (d # Nil => tr.parent[d] = low) /\ bh[low] = bh[d] + Weight(tr, low)
        BY <1>1, <1>2, <1>13, ShapeIs
      <4>2. q.child[y][low] = d
        BY <1>11
      <4> HIDE DEF d
      <4>3. d # top /\ d # g
        <5>1. tr.parent[top] = g /\ g # low
          BY <1>11
        <5>2. d # top
          BY <1>2, <4>1, <5>1
        <5>3. d # g
          <6>1. d # Nil => d \in under[low]
            BY <1>1, <1>2, UnderIs DEF d
          <6>2. g \notin under[low]
            <7>1. under[low] \subseteq under[top] /\ g \notin under[top]
              BY <1>1, <1>2, UnderIs
            <7>2. QED
              BY <7>1
          <6>3. QED
            BY <1>2, <6>1, <6>2
        <5>4. QED
          BY <5>2, <5>3
      <4>4. b2[d] = bh[d] /\ bh[d] \in Nat
        BY <1>13, <1>16, <4>1, <4>3
      <4>5. QED
        BY <1>14, <1>15, <1>17, <4>1, <4>2, <4>4
    <3>2. low \in Node
      BY <1>2
    <3>3. QED
      BY <3>1, <3>2, NoGap
  <2>4. SameOff({g, top, low}, tr, ns, bh, Nil, "left", q, b2, Nil, "left")
    BY <1>14, <1>16 DEF SameOff
  <2>5. b2[top] = bh[g]
    BY <1>15, <1>16
  <2>6. QED
    BY <1>1, <1>2, <1>3, <1>8, <1>12, <1>16, <2>2, <2>3, <2>4, <2>5, RotatedIsBalanced
<1>19. ASSUME NEW m \in q.red, m # q.root PROVE q.parent[m] # Nil /\ q.parent[m] \notin q.red
  <2>1. m \in ns /\ m \in Node /\ m # Nil /\ m # top
    BY <1>2, <1>7, <1>9, <1>11
  <2>2. /\ \A n \in Node : q.parent[n] = IF n = g THEN top ELSE IF n = top THEN tr.parent[g]
                                         ELSE IF n = i THEN g ELSE tr.parent[n]
    BY <1>5, <1>8 DEF Rotated
  <2>3. CASE m = g
    BY <1>2, <1>7, <1>11, <2>1, <2>2, <2>3
  <2>4. CASE m = low
    BY <1>2, <1>7, <1>11, <2>1, <2>2, <2>4
  <2>5. CASE m # g /\ m # low
    <3>1. m \in tr.red
      BY <1>7, <2>5
    <3>2. tr.parent[m] # Nil /\ tr.parent[m] \notin tr.red
      BY <1>1, <2>5, <3>1 DEF Reds
    <3>3. m # i
      <4>1. i # Nil => tr.parent[i] = top
        BY <1>1, <1>2, <1>5, ShapeIs
      <4>2. QED
        BY <1>1, <2>1, <3>2, <4>1
    <3>4. tr.parent[m] # g
      <4>1. tr.parent[m] = g => m = a \/ m = top
        <5>1. tr.parent[m] # Nil => \E y \in Side : tr.child[y][tr.parent[m]] = m
          BY <1>1, <2>1, ShapeIs
        <5>2. QED
          BY <1>1, <1>2, <1>5, <5>1
      <4>2. QED
        BY <1>1, <2>1, <3>1, <4>1
    <3>5. QED
      BY <1>7, <2>1, <2>2, <2>5, <3>2, <3>3, <3>4
  <2>6. QED
    BY <2>3, <2>4, <2>5
<1>20. Reds(q, q.root, q.root)
  BY <1>19 DEF Reds
<1>21. QED
  BY <1>10, <1>18, <1>20, RootBlackened DEF Level

\* A black uncle, or none.
LEMMA InsertRotateKeeps ==
  ASSUME RbInv, InsertRotate
  PROVE  RbInv'
<1> DEFINE p == t.parent[cur]
           g == t.parent[p]
           s == InsertSide
           inner == t.child[Other(s)][p] = cur
           turned == IF inner THEN Rotate(t, p, s) ELSE t
           top == IF inner THEN cur ELSE p
           low == IF inner THEN p ELSE cur
           done == SetRed(SetBlack(Rotate(turned, g, Other(s)), top), g)
<1>1. /\ pc = "insert" /\ ParentIsRed /\ Uncle \notin t.red
      /\ t' = SetBlack(done, done.root)
      /\ nodes' = nodes /\ pc' = "idle" /\ cur' = Nil /\ up' = up
  BY DEF InsertRotate, Black
<1>2. up = Nil /\ Inserting(t, nodes, cur)
  BY <1>1 DEF RbInv
<1>3. PICK under : /\ Tree(t, nodes, under) /\ Level(t, nodes, Nil, "left")
                   /\ cur \in t.red /\ Reds(t, cur, Nil)
  BY <1>2 DEF Inserting
<1>4. /\ cur \in nodes /\ p \in nodes /\ g \in nodes /\ p \in t.red /\ g \notin t.red
      /\ cur # p /\ p # g /\ cur # g
      /\ s \in Side /\ Other(s) \in Side
      /\ t.child[s][g] = p /\ t.child[Other(s)][g] = Uncle
      /\ \E y \in Side : t.child[y][p] = cur
  BY <1>1, <1>3, InsertPlace
<1>5. InsertReady(turned, nodes, top, low, g, s)
  <2>1. CASE inner
    <3>1. turned = Rotate(t, p, s) /\ top = cur /\ low = p /\ t.child[Other(s)][p] = cur
      BY <2>1
    <3> HIDE DEF turned, top, low, p, g, s, inner
    <3>2. QED
      BY <1>1, <1>3, <1>4, <3>1, InsertTurned
  <2>2. CASE ~inner
    <3>1. turned = t /\ top = p /\ low = cur /\ t.child[s][p] = cur
      BY <1>4, <2>2, SidesAre
    <3> HIDE DEF turned, top, low, p, g, s, inner
    <3>2. QED
      BY <1>1, <1>3, <1>4, <3>1 DEF InsertReady
  <2>3. QED
    BY <2>1, <2>2
<1>6. done = SetRed(SetBlack(Rotate(turned, g, Other(s)), top), g)
  OBVIOUS
<1> HIDE DEF p, g, s, inner, turned, top, low, done
<1>7. Settled(t', nodes')
  BY <1>1, <1>4, <1>5, <1>6, InsertFinished
<1>8. QED
  BY <1>1, <1>2, <1>7 DEF RbInv

(***************************************************************************)
(* The loop of rb_erase_fix                                                *)
(***************************************************************************)

\* The heights of both children are the same but at the short side.
LEMMA NoGapAt ==
  ASSUME NEW n, NEW hu, n # hu, NEW q, NEW b2, \A y \in Side : b2[q.child[y][n]] \in Nat,
         \A y \in Side : b2[n] = b2[q.child[y][n]] + Weight(q, n)
  PROVE  \A hs : RightAt(q, b2, hu, hs, n)
<1>1. \A hs, y : Gap(hu, hs, n, y) = 0
  BY DEF Gap
<1>2. Weight(q, n) \in {0, 1}
  BY GapIs
<1>3. \A hs : \A y \in Side : b2[q.child[y][n]] + Gap(hu, hs, n, y) + Weight(q, n)
                                = b2[q.child[y][n]] + Weight(q, n)
  BY <1>1, <1>2
<1>4. QED
  BY <1>3 DEF RightAt

\* The heights of a tree that is short on side s of u.
LEMMA ShortHeightsAre ==
  ASSUME NEW tr, NEW ns, NEW under, Tree(tr, ns, under), NEW u \in ns, NEW s \in Side,
         NEW bh, Balanced(tr, ns, bh, u, s), NEW c, c = tr.child[s][u],
         NEW b, b = tr.child[Other(s)][u]
  PROVE  /\ bh \in [Link -> Nat] /\ bh[Nil] = 0
         /\ \A n \in ns \cup {Nil} : bh[n] \in Nat
         /\ \A n \in ns, y \in Side : n # u => bh[n] = bh[tr.child[y][n]] + Weight(tr, n)
         /\ bh[b] = bh[c] + 1 /\ bh[u] = bh[c] + 1 + Weight(tr, u)
         /\ b \in ns /\ b # c /\ c \in ns \cup {Nil} /\ tr.parent[b] = u
<1>1. /\ ns \subseteq Node /\ Nil \notin ns /\ Other(s) \in Side /\ Other(s) # s
      /\ \A n \in ns, y \in Side : tr.child[y][n] \in ns \cup {Nil}
      /\ \A n \in ns, y \in Side : tr.child[y][n] # Nil => tr.parent[tr.child[y][n]] = n
  BY ShapeIs, SidesAre
<1>2. bh \in [Link -> Nat] /\ bh[Nil] = 0 /\ \A n \in ns \cup {Nil} : bh[n] \in Nat
  <2>1. \A n \in ns \cup {Nil} : n \in Link
    BY <1>1 DEF Link
  <2>2. QED
    BY <2>1 DEF Balanced
<1>3. \A n \in ns, y \in Side : bh[n] = bh[tr.child[y][n]] + Gap(u, s, n, y) + Weight(tr, n)
  BY DEF Balanced
<1>4. \A n \in ns, y \in Side : n # u => bh[n] = bh[tr.child[y][n]] + Weight(tr, n)
  <2> SUFFICES ASSUME NEW n \in ns, NEW y \in Side, n # u PROVE bh[n] = bh[tr.child[y][n]] + Weight(tr, n)
    OBVIOUS
  <2>1. Gap(u, s, n, y) = 0
    BY DEF Gap
  <2>2. bh[tr.child[y][n]] \in Nat /\ Weight(tr, n) \in {0, 1}
    BY <1>1, <1>2, GapIs
  <2>3. bh[n] = bh[tr.child[y][n]] + Gap(u, s, n, y) + Weight(tr, n)
    BY <1>3
  <2>4. QED
    BY <2>1, <2>2, <2>3
<1>5. bh[b] = bh[c] + 1 /\ bh[u] = bh[c] + 1 + Weight(tr, u)
  <2>1. bh[u] = bh[c] + Gap(u, s, u, s) + Weight(tr, u)
    BY <1>3
  <2>2. bh[u] = bh[b] + Gap(u, s, u, Other(s)) + Weight(tr, u)
    BY <1>1, <1>3
  <2>3. Gap(u, s, u, s) = 1 /\ Gap(u, s, u, Other(s)) = 0
    BY <1>1 DEF Gap
  <2>4. bh[b] \in Nat /\ bh[c] \in Nat /\ Weight(tr, u) \in {0, 1}
    BY <1>1, <1>2, GapIs
  <2>5. QED
    BY <2>1, <2>2, <2>3, <2>4
<1>6. b \in ns /\ b # c /\ c \in ns \cup {Nil} /\ tr.parent[b] = u
  <2>1. b \in ns \cup {Nil} /\ c \in ns \cup {Nil}
    BY <1>1
  <2>2. b # Nil /\ b # c
    BY <1>2, <1>5, <2>1
  <2>3. QED
    BY <1>1, <2>1, <2>2
<1>7. QED
  BY <1>2, <1>4, <1>5, <1>6

\* The loop stands on the black node c, or none, on side s of u, and the brother
\* is black.
EraseReady(tr, ns, c, u, s) ==
  \E under :
    /\ Tree(tr, ns, under) /\ u \in ns /\ Level(tr, ns, u, s) /\ Reds(tr, c, c)
    /\ c \notin tr.red /\ tr.child[s][u] = c /\ tr.child[Other(s)][u] \notin tr.red

\* Colours and then a rotation: the links are those of the rotation.
LEMMA PaintedAndRotated ==
  ASSUME NEW tr, NEW ns, NEW under, Tree(tr, ns, under), NEW x \in ns, NEW s \in Side,
         NEW r, r = tr.child[Other(s)][x], r # Nil,
         NEW q1, Painted(tr, q1), q1.red \subseteq ns, NEW q, q = Rotate(q1, x, s)
  PROVE  q.red = q1.red /\ Rotated(tr, x, s, r, q) /\ \E U : Tree(q, ns, U)
<1>1. Tree(q1, ns, under)
  BY PaintedIsTree
<1>2. r = q1.child[Other(s)][x]
  BY DEF Painted
<1>3. q \in Trees /\ q.red = q1.red /\ Rotated(q1, x, s, r, q)
  BY <1>1, <1>2, RotateIs
<1>4. Rotated(tr, x, s, r, q)
  BY <1>3 DEF Painted, Rotated
<1>5. Tree(q, ns, [under EXCEPT ![x] = {x} \cup under[q1.child[s][x]] \cup under[q1.child[s][r]],
                               ![r] = under[x]])
  BY <1>1, <1>2, <1>3, RotatedIsTree
<1>6. QED
  BY <1>3, <1>4, <1>5

\* tr has become q, where the loop has a black brother, the children of which
\* have the colours they had.
BlackBrother(tr, ns, c, u, s, q) ==
  /\ EraseReady(q, ns, c, u, s)
  /\ \A y \in Side : q.child[y][q.child[Other(s)][u]] \in tr.red
                     <=> q.child[y][q.child[Other(s)][u]] \in q.red

\* A red brother is rotated above the parent.
LEMMA BrotherTurned ==
  ASSUME NEW tr, NEW ns, NEW under, Tree(tr, ns, under), NEW u \in ns, NEW s \in Side,
         Level(tr, ns, u, s), NEW c, c = tr.child[s][u], c \notin tr.red, Reds(tr, c, c),
         NEW b, b = tr.child[Other(s)][u], b \in tr.red,
         NEW q, q = Rotate(SetRed(SetBlack(tr, b), u), u, s)
  PROVE  BlackBrother(tr, ns, c, u, s, q)
<1> DEFINE i == tr.child[s][b]
           w == tr.child[Other(s)][b]
           q1 == SetBlack(tr, b)
           q2 == SetRed(q1, u)
<1>1. /\ i = tr.child[s][b] /\ w = tr.child[Other(s)][b] /\ q1 = SetBlack(tr, b)
      /\ q2 = SetRed(q1, u) /\ q = Rotate(q2, u, s)
  OBVIOUS
<1> HIDE DEF i, w, q1, q2
<1>2. PICK bh : Balanced(tr, ns, bh, u, s)
  BY DEF Level
<1>3. /\ bh \in [Link -> Nat] /\ bh[Nil] = 0
      /\ \A n \in ns \cup {Nil} : bh[n] \in Nat
      /\ \A n \in ns, y \in Side : n # u => bh[n] = bh[tr.child[y][n]] + Weight(tr, n)
      /\ bh[b] = bh[c] + 1 /\ bh[u] = bh[c] + 1 + Weight(tr, u)
      /\ b \in ns /\ b # c /\ c \in ns \cup {Nil} /\ tr.parent[b] = u
  BY <1>2, ShortHeightsAre
<1>4. /\ tr \in Trees /\ ns \subseteq Node /\ Nil \notin ns /\ tr.red \subseteq ns
      /\ Other(s) \in Side /\ Other(s) # s /\ \A y \in Side : y = s \/ y = Other(s)
      /\ \A n \in ns, y \in Side : tr.child[y][n] \in ns \cup {Nil}
      /\ \A n \in ns, y \in Side : tr.child[y][n] # Nil => tr.parent[tr.child[y][n]] = n
  BY ShapeIs, SidesAre
<1>5. u \notin tr.red
  <2>1. c # u
    BY ShapeIs
  <2>2. QED
    BY <1>3, <2>1 DEF Reds
<1>6. /\ Painted(tr, q2) /\ q2.red = (tr.red \ {b}) \cup {u}
  <2>1. Painted(tr, q1) /\ q1.red = tr.red \ {b}
    BY <1>1, <1>3, <1>4, PaintsAre DEF Link
  <2>2. q1 \in Trees /\ u \in Node
    BY <1>4, <2>1 DEF Painted
  <2>3. Painted(q1, q2) /\ q2.red = q1.red \cup {u}
    BY <1>1, <2>2, PaintsAre
  <2>4. QED
    BY <2>1, <2>3 DEF Painted
<1>7. b = tr.child[Other(s)][u] /\ b # Nil /\ q2.red \subseteq ns
  BY <1>3, <1>4, <1>6
<1>8. q.red = q2.red /\ Rotated(tr, u, s, b, q) /\ \E U : Tree(q, ns, U)
  BY <1>1, <1>6, <1>7, PaintedAndRotated
<1>9. Rotated(tr, u, s, b, q)
  BY <1>8
<1>10. q.red = (tr.red \ {b}) \cup {u} /\ q.red \subseteq ns
  BY <1>4, <1>6, <1>8
<1>11. PICK U : Tree(q, ns, U)
  BY <1>8
<1>12. Rotation(tr, ns, u, s, b, q, c, i, w)
  BY <1>1, <1>7, <1>9, RotationIs
<1>13. /\ i \in ns \cup {Nil} /\ w \in ns \cup {Nil}
       /\ u # b /\ c # u /\ c # b /\ i # u /\ i # b /\ w # u /\ w # b
       /\ q.child[s][u] = c /\ q.child[Other(s)][u] = i /\ q.child[s][b] = u /\ q.child[Other(s)][b] = w
       /\ w # Nil => \A y \in Side : q.child[y][w] = tr.child[y][w] /\ tr.child[y][w] \notin {u, b, w}
       /\ \A n \in ns, y \in Side : n \notin {u, b} =>
            /\ q.child[y][n] = IF tr.child[y][n] = u THEN b ELSE tr.child[y][n]
            /\ tr.child[y][n] # b
  BY <1>12 DEF Rotation
<1>14. /\ Weight(tr, u) = 1 /\ Weight(tr, b) = 0 /\ Weight(q, u) = 0 /\ Weight(q, b) = 1
       /\ \A n : n # u /\ n # b => Weight(q, n) = Weight(tr, n)
  BY <1>5, <1>10, <1>13 DEF Weight
<1> DEFINE h == bh[c]
           b2 == [m \in Link |-> IF m = u THEN h + 1 ELSE IF m = b THEN h + 2 ELSE bh[m]]
<1>15. h \in Nat /\ bh[u] = h + 2 /\ bh[b] = h + 1 /\ bh[i] = h + 1 /\ bh[w] = h + 1 /\ bh[c] = h
  <2>1. bh[b] = bh[i] + 0 /\ bh[b] = bh[w] + 0
    <3>1. b \in ns /\ b # u /\ Weight(tr, b) = 0
      BY <1>3, <1>13, <1>14
    <3>2. \A y \in Side : bh[b] = bh[tr.child[y][b]] + 0
      BY <1>3, <3>1
    <3>3. QED
      BY <1>1, <1>4, <3>2
  <2>2. bh[i] \in Nat /\ bh[w] \in Nat /\ bh[b] \in Nat /\ bh[c] \in Nat
    BY <1>3, <1>13
  <2>3. bh[u] = bh[c] + 1 + 1
    BY <1>3, <1>14
  <2>4. QED
    BY <1>3, <2>1, <2>2, <2>3
<1>16. i # Nil /\ i \in ns
  BY <1>3, <1>13, <1>15
<1>17. /\ b2 \in [Link -> Nat] /\ b2[Nil] = 0 /\ b2[u] = h + 1 /\ b2[b] = h + 2
       /\ \A m \in ns \cup {Nil} : m # u /\ m # b => b2[m] = bh[m]
  <2>1. Nil \in Link /\ u \in Link /\ b \in Link /\ \A m \in ns \cup {Nil} : m \in Link
    BY <1>3, <1>4 DEF Link
  <2> HIDE DEF h
  <2>2. Nil # u /\ Nil # b
    BY <1>3, <1>4
  <2>3. QED
    BY <1>3, <1>13, <1>15, <2>1, <2>2
<1> HIDE DEF h, b2
<1>18. b2[c] = h /\ b2[i] = h + 1 /\ b2[w] = h + 1
  BY <1>3, <1>13, <1>15, <1>17
<1>19. Level(q, ns, u, s)
  <2>1. RightAt(q, b2, u, s, u)
    <3> SUFFICES ASSUME NEW y \in Side
                 PROVE  b2[u] = b2[q.child[y][u]] + Gap(u, s, u, y) + Weight(q, u)
      BY DEF RightAt
    <3>1. CASE y = s
      <4>1. q.child[y][u] = c /\ Gap(u, s, u, y) = 1
        BY <1>13, <3>1 DEF Gap
      <4>2. QED
        BY <1>14, <1>15, <1>17, <1>18, <4>1
    <3>2. CASE y = Other(s)
      <4>1. q.child[y][u] = i /\ Gap(u, s, u, y) = 0
        BY <1>4, <1>13, <3>2 DEF Gap
      <4>2. QED
        BY <1>14, <1>15, <1>17, <1>18, <4>1
    <3>3. QED
      BY <1>4, <3>1, <3>2
  <2>2. RightAt(q, b2, u, s, b)
    <3>1. ASSUME NEW y \in Side
          PROVE  b2[q.child[y][b]] \in Nat /\ b2[b] = b2[q.child[y][b]] + Weight(q, b)
      <4> DEFINE d == q.child[y][b]
      <4>1. d = u \/ d = w
        BY <1>4, <1>13
      <4> HIDE DEF d
      <4>2. b2[d] = h + 1
        BY <1>17, <1>18, <4>1
      <4>3. Weight(q, b) = 1 /\ b2[b] = h + 2 /\ h \in Nat
        BY <1>14, <1>15, <1>17
      <4>4. b2[d] \in Nat /\ b2[b] = b2[d] + Weight(q, b)
        BY <4>2, <4>3
      <4>5. QED
        BY <4>4 DEF d
    <3>2. QED
      BY <1>13, <3>1, NoGapAt
  <2>3. ASSUME w # Nil PROVE RightAt(q, b2, u, s, w)
    <3>1. w \in ns
      BY <1>13, <2>3
    <3>2. ASSUME NEW y \in Side
          PROVE  b2[q.child[y][w]] \in Nat /\ b2[w] = b2[q.child[y][w]] + Weight(q, w)
      <4> DEFINE d == tr.child[y][w]
      <4>1. d \in ns \cup {Nil} /\ d # u /\ d # b /\ q.child[y][w] = d
        BY <1>4, <1>13, <2>3, <3>1
      <4>2. bh[w] = bh[d] + Weight(tr, w)
        BY <1>3, <1>13, <3>1
      <4> HIDE DEF d
      <4>3. b2[d] = bh[d] /\ bh[d] \in Nat
        BY <1>3, <1>17, <4>1
      <4>4. b2[w] = bh[w] /\ Weight(q, w) = Weight(tr, w)
        BY <1>13, <1>14, <1>17
      <4>5. QED
        BY <4>1, <4>2, <4>3, <4>4
    <3>3. QED
      BY <1>13, <3>2, NoGapAt
  <2>4. SameOff({u, b, w}, tr, ns, bh, u, s, q, b2, u, s)
    BY <1>14, <1>17 DEF SameOff
  <2>5. b2[b] = bh[u]
    BY <1>15, <1>17
  <2>6. Balanced(q, ns, b2, u, s)
    <3>1. b2 \in [Link -> Nat] /\ b2[Nil] = 0 /\ w = tr.child[Other(s)][b]
      BY <1>1, <1>17
    <3>2. QED
      BY <1>2, <1>7, <1>9, <2>1, <2>2, <2>3, <2>4, <2>5, <3>1, RotatedIsBalanced
  <2>7. QED
    BY <2>6 DEF Level
<1>20. i \notin tr.red
  <2>1. tr.parent[i] = b
    BY <1>1, <1>3, <1>4, <1>16
  <2>2. i # c
    <3>1. c # Nil => tr.parent[c] = u
      BY <1>4
    <3>2. QED
      BY <1>13, <1>16, <2>1, <3>1
  <2>3. QED
    BY <1>3, <2>1, <2>2 DEF Reds
<1>21. Reds(q, c, c)
  <2> SUFFICES ASSUME NEW m \in q.red, m # c PROVE q.parent[m] # Nil /\ q.parent[m] \notin q.red
    BY DEF Reds
  <2>1. m \in ns /\ m \in Node /\ m # Nil /\ m # b
    BY <1>4, <1>10, <1>13
  <2>2. /\ \A n \in Node : q.parent[n] = IF n = u THEN b ELSE IF n = b THEN tr.parent[u]
                                         ELSE IF n = i THEN u ELSE tr.parent[n]
    BY <1>1, <1>9 DEF Rotated
  <2>3. CASE m = u
    BY <1>4, <1>7, <1>10, <1>13, <2>1, <2>2, <2>3
  <2>4. CASE m # u
    <3>1. m \in tr.red /\ m # i
      BY <1>10, <1>20, <2>4
    <3>2. tr.parent[m] # Nil /\ tr.parent[m] \notin tr.red
      BY <3>1 DEF Reds
    <3>3. tr.parent[m] # u
      <4>1. tr.parent[m] # Nil => \E y \in Side : tr.child[y][tr.parent[m]] = m
        BY <2>1, ShapeIs
      <4>2. tr.parent[m] = u => m = c \/ m = b
        BY <1>4, <3>2, <4>1
      <4>3. QED
        BY <2>1, <4>2
    <3>4. QED
      BY <1>10, <2>1, <2>2, <2>4, <3>1, <3>2, <3>3
  <2>5. QED
    BY <2>3, <2>4
<1>22. ASSUME NEW y \in Side PROVE q.child[y][i] \in tr.red <=> q.child[y][i] \in q.red
  <2>1. tr.child[y][i] # u
    <3>1. tr.child[y][i] # Nil => tr.child[y][i] \in under[i]
      BY <1>16, UnderIs, <1>4
    <3>2. under[i] \subseteq under[b] /\ u \notin under[b]
      BY <1>1, <1>3, <1>4, UnderIs
    <3>3. QED
      BY <1>4, <3>1, <3>2
  <2>2. q.child[y][i] = tr.child[y][i] /\ tr.child[y][i] # b
    BY <1>13, <1>16, <2>1
  <2>3. QED
    BY <1>10, <2>1, <2>2
<1>23. c \notin q.red /\ i \notin q.red
  BY <1>10, <1>13, <1>20
<1>24. EraseReady(q, ns, c, u, s)
  BY <1>11, <1>13, <1>19, <1>21, <1>23 DEF EraseReady
<1>25. QED
  BY <1>13, <1>22, <1>24 DEF BlackBrother

\* The first part of a turn of rb_erase_fix.
LEMMA BrotheredIs ==
  ASSUME RbInv, pc = "erase", EraseLoops
  PROVE  /\ EraseReady(Brothered, nodes, cur, up, EraseSide) /\ EraseSide \in Side
         /\ BlackNephews <=> \A y \in Side : Brothered.child[y][Brother] \notin Brothered.red
<1> DEFINE s == EraseSide
           b == t.child[Other(s)][up]
<1>1. cur \notin t.red /\ cur # t.root /\ Erasing(t, nodes, cur, up)
  BY DEF EraseLoops, Black, RbInv
<1>2. s = GapSideOf(t, cur, up) /\ s \in Side
  BY DEF EraseSide, GapSideOf, Side
<1>3. /\ b = t.child[Other(s)][up]
      /\ Brothered = IF b \in t.red THEN Rotate(SetRed(SetBlack(t, b), up), up, s) ELSE t
      /\ Brother = Brothered.child[Other(s)][up]
  BY DEF Brothered, Brother, Red
<1>4. EraseSide = s
  OBVIOUS
<1> HIDE DEF s, b
<1>5. PICK under :
        /\ Tree(t, nodes, under) /\ Level(t, nodes, up, s) /\ Reds(t, cur, cur)
        /\ up \in nodes /\ cur = t.child[s][up]
  BY <1>1, <1>2 DEF Erasing
<1>6. CASE b \in t.red
  <2> DEFINE q == Brothered
  <2>1. q = Rotate(SetRed(SetBlack(t, b), up), up, s)
    BY <1>3, <1>6
  <2>2. /\ s \in Side /\ Tree(t, nodes, under) /\ Level(t, nodes, up, s) /\ Reds(t, cur, cur)
        /\ up \in nodes /\ cur = t.child[s][up] /\ cur \notin t.red
        /\ b = t.child[Other(s)][up] /\ b \in t.red
    BY <1>1, <1>2, <1>3, <1>5, <1>6
  <2> HIDE DEF q
  <2>3. BlackBrother(t, nodes, cur, up, s, q)
    BY <2>1, <2>2, BrotherTurned
  <2>4. \A y \in Side : Brothered.child[y][Brother] \in t.red <=> Brothered.child[y][Brother] \in Brothered.red
    BY <1>3, <2>3 DEF q, BlackBrother
  <2>5. EraseReady(Brothered, nodes, cur, up, s)
    BY <2>3 DEF q, BlackBrother
  <2>6. QED
    BY <1>2, <1>4, <2>4, <2>5 DEF BlackNephews, Black
<1>7. CASE b \notin t.red
  <2>1. Brothered = t
    BY <1>3, <1>7
  <2>2. EraseReady(Brothered, nodes, cur, up, s)
    BY <1>1, <1>3, <1>5, <1>7, <2>1 DEF EraseReady
  <2>3. QED
    BY <1>2, <1>4, <2>1, <2>2 DEF BlackNephews, Black
<1>8. QED
  BY <1>6, <1>7

\* Two black nephews: the way through the brother loses a black node as well, so
\* that it is the place of the parent that is short now.
LEMMA BrotherReddened ==
  ASSUME NEW tr, NEW ns, NEW c, NEW u, NEW s \in Side, EraseReady(tr, ns, c, u, s),
         NEW b, b = tr.child[Other(s)][u], \A y \in Side : tr.child[y][b] \notin tr.red,
         NEW q, q = SetRed(tr, b)
  PROVE  Erasing(q, ns, u, tr.parent[u])
<1> DEFINE p == tr.parent[u]
<1>1. PICK under : /\ Tree(tr, ns, under) /\ u \in ns /\ Level(tr, ns, u, s) /\ Reds(tr, c, c)
                   /\ c \notin tr.red /\ tr.child[s][u] = c /\ b \notin tr.red
  BY DEF EraseReady
<1>2. PICK bh : Balanced(tr, ns, bh, u, s)
  BY <1>1 DEF Level
<1>3. /\ bh \in [Link -> Nat] /\ bh[Nil] = 0
      /\ \A n \in ns \cup {Nil} : bh[n] \in Nat
      /\ \A n \in ns, y \in Side : n # u => bh[n] = bh[tr.child[y][n]] + Weight(tr, n)
      /\ bh[b] = bh[c] + 1 /\ bh[u] = bh[c] + 1 + Weight(tr, u)
      /\ b \in ns /\ b # c /\ c \in ns \cup {Nil} /\ tr.parent[b] = u
  BY <1>1, <1>2, ShortHeightsAre
<1>4. /\ tr \in Trees /\ ns \subseteq Node /\ Nil \notin ns /\ tr.red \subseteq ns
      /\ Other(s) \in Side /\ Other(s) # s /\ \A y \in Side : y = s \/ y = Other(s)
      /\ \A n \in ns, y \in Side : tr.child[y][n] \in ns \cup {Nil} /\ tr.child[y][n] # n
      /\ \A n \in ns, y \in Side : tr.child[y][n] # Nil => tr.parent[tr.child[y][n]] = n
      /\ \A n \in ns : tr.parent[n] \in ns \cup {Nil} /\ tr.parent[n] # n
  BY <1>1, ShapeIs, SidesAre
<1>5. p \in ns \cup {Nil} /\ p # u /\ b # u /\ c # u
  BY <1>1, <1>3, <1>4
<1>6. /\ p # Nil => \E y \in Side : tr.child[y][p] = u /\ tr.child[Other(y)][p] # u
      /\ p = Nil => u = tr.root
  BY <1>1, HangsOnce
<1>7. PICK hs \in Side : p # Nil => tr.child[hs][p] = u /\ tr.child[Other(hs)][p] # u
  BY <1>6, SidesAre
<1>8. p = tr.parent[u]
  OBVIOUS
<1> HIDE DEF p
<1>9. b # p
  <2>1. p # Nil => u \in under[p]
    BY <1>1, <1>5, <1>7, UnderIs
  <2>2. u \notin under[b]
    BY <1>1, <1>4, UnderIs
  <2>3. b # Nil
    BY <1>3, <1>4
  <2>4. QED
    BY <2>1, <2>2, <2>3
<1>10. Painted(tr, q) /\ q.red = tr.red \cup {b}
  BY <1>3, <1>4, PaintsAre
<1>11. Tree(q, ns, under)
  <2>1. q.red \subseteq ns
    BY <1>3, <1>4, <1>10
  <2>2. QED
    BY <1>1, <1>10, <2>1, PaintedIsTree
<1> DEFINE h == bh[c]
           b2 == [m \in Link |-> IF m = b THEN h ELSE IF m = u THEN h + Weight(tr, u) ELSE bh[m]]
           X == {b, u} \cup ({p} \ {Nil})
<1>12. h \in Nat /\ bh[b] = h + 1 /\ bh[u] = h + 1 + Weight(tr, u) /\ bh[c] = h
  BY <1>3
<1> HIDE DEF h
<1>13. /\ b2 \in [Link -> Nat] /\ b2[Nil] = 0 /\ b2[b] = h /\ b2[u] = h + Weight(tr, u)
       /\ \A m \in ns \cup {Nil} : m # b /\ m # u => b2[m] = bh[m]
  <2>1. Nil \in Link /\ u \in Link /\ b \in Link /\ \A m \in ns \cup {Nil} : m \in Link
    BY <1>1, <1>3, <1>4 DEF Link
  <2>2. Nil # u /\ Nil # b /\ h + Weight(tr, u) \in Nat
    BY <1>1, <1>3, <1>4, <1>12, GapIs
  <2>3. QED
    BY <1>3, <1>5, <1>12, <2>1, <2>2
<1> HIDE DEF b2
<1>14. /\ Weight(tr, b) = 1 /\ Weight(q, b) = 0
       /\ \A n : n # b => Weight(q, n) = Weight(tr, n)
       /\ \A y \in Side, n \in Node : q.child[y][n] = tr.child[y][n]
       /\ \A n : Weight(tr, n) \in {0, 1}
  BY <1>1, <1>10, GapIs DEF Weight, Painted
<1>15. RightAt(q, b2, p, hs, u)
  <2>1. ASSUME NEW y \in Side
        PROVE  b2[q.child[y][u]] \in Nat /\ b2[u] = b2[q.child[y][u]] + Weight(q, u)
    <3> DEFINE d == q.child[y][u]
    <3>1. d = c \/ d = b
      BY <1>1, <1>4, <1>14
    <3> HIDE DEF d
    <3>2. b2[d] = h
      BY <1>3, <1>5, <1>12, <1>13, <3>1
    <3>3. b2[d] \in Nat /\ b2[u] = b2[d] + Weight(q, u)
      BY <1>5, <1>12, <1>13, <1>14, <3>2
    <3>4. QED
      BY <3>3 DEF d
  <2>2. QED
    BY <1>5, <2>1, NoGapAt
<1>16. RightAt(q, b2, p, hs, b)
  <2>1. ASSUME NEW y \in Side
        PROVE  b2[q.child[y][b]] \in Nat /\ b2[b] = b2[q.child[y][b]] + Weight(q, b)
    <3> DEFINE d == tr.child[y][b]
    <3>1. d \in ns \cup {Nil} /\ d # b /\ (d # Nil => tr.parent[d] = b) /\ q.child[y][b] = d
      BY <1>3, <1>4, <1>14
    <3>2. bh[b] = bh[d] + 1
      <4>1. bh[b] = bh[d] + Weight(tr, b)
        BY <1>3, <1>5
      <4>2. QED
        BY <1>14, <4>1
    <3> HIDE DEF d
    <3>3. d # u
      BY <1>1, <1>4, <1>8, <1>9, <3>1
    <3>4. b2[d] = bh[d] /\ bh[d] \in Nat
      BY <1>3, <1>13, <3>1, <3>3
    <3>5. b2[d] = h
      BY <1>12, <3>2, <3>4
    <3>6. b2[d] \in Nat /\ b2[b] = b2[d] + Weight(q, b)
      BY <1>12, <1>13, <1>14, <3>5
    <3>7. QED
      BY <3>1, <3>6
  <2>2. QED
    BY <1>9, <2>1, NoGapAt
<1>17. ASSUME p # Nil PROVE RightAt(q, b2, p, hs, p)
  <2> SUFFICES ASSUME NEW y \in Side
               PROVE  b2[p] = b2[q.child[y][p]] + Gap(p, hs, p, y) + Weight(q, p)
    BY DEF RightAt
  <2> DEFINE d == tr.child[y][p]
  <2>1. p \in ns /\ p # b /\ p # u
    BY <1>5, <1>9, <1>17
  <2>2. d \in ns \cup {Nil} /\ (d # Nil => tr.parent[d] = p) /\ q.child[y][p] = d
    BY <1>4, <1>14, <2>1
  <2>3. bh[p] = bh[d] + Weight(tr, p)
    BY <1>3, <2>1
  <2>4. b2[p] = bh[p] /\ Weight(q, p) = Weight(tr, p)
    BY <1>13, <1>14, <2>1
  <2>5. CASE y = hs
    <3>1. d = u /\ Gap(p, hs, p, y) = 1
      BY <1>7, <1>17, <2>5 DEF Gap
    <3> HIDE DEF d
    <3>2. bh[d] = b2[d] + 1 /\ b2[d] \in Nat
      <4>1. Weight(tr, u) \in {0, 1}
        BY <1>14
      <4>2. bh[u] = h + 1 + Weight(tr, u) /\ b2[u] = h + Weight(tr, u) /\ h \in Nat
        BY <1>12, <1>13
      <4>3. bh[u] = b2[u] + 1 /\ b2[u] \in Nat
        BY <4>1, <4>2
      <4>4. QED
        BY <3>1, <4>3
    <3>3. Weight(tr, p) \in {0, 1}
      BY <1>14
    <3>4. QED
      BY <2>2, <2>3, <2>4, <3>1, <3>2, <3>3
  <2>6. CASE y # hs
    <3>1. d # u /\ Gap(p, hs, p, y) = 0
      <4>1. y = Other(hs)
        BY <2>6, SidesAre
      <4>2. QED
        BY <1>7, <1>17, <2>6, <4>1 DEF Gap
    <3> HIDE DEF d
    <3>2. d # b
      BY <1>3, <1>4, <1>5, <2>2
    <3>3. b2[d] = bh[d] /\ bh[d] \in Nat
      BY <1>3, <1>13, <2>2, <3>1, <3>2
    <3>4. Weight(tr, p) \in {0, 1}
      BY <1>14
    <3>5. QED
      BY <2>2, <2>3, <2>4, <3>1, <3>3, <3>4
  <2>7. QED
    BY <2>5, <2>6
<1>18. SameOff(X, tr, ns, bh, u, s, q, b2, p, hs)
  <2> SUFFICES ASSUME NEW n \in ns, n \notin X
               PROVE  /\ b2[n] = bh[n] /\ Weight(q, n) = Weight(tr, n)
                      /\ \A y \in Side : Gap(p, hs, n, y) = Gap(u, s, n, y)
    BY DEF SameOff
  <2>1. n # b /\ n # u /\ n # p
    BY <1>4
  <2>2. QED
    BY <1>13, <1>14, <2>1 DEF Gap
<1>19. /\ Nil \notin X /\ \A n \in X : RightAt(q, b2, p, hs, n)
       /\ \A n \in ns, y \in Side : n \notin X /\ tr.child[y][n] \in X =>
            b2[tr.child[y][n]] = bh[tr.child[y][n]]
  <2>1. Nil \notin X /\ \A n \in X : RightAt(q, b2, p, hs, n)
    BY <1>1, <1>3, <1>4, <1>15, <1>16, <1>17
  <2>2. ASSUME NEW n \in ns, NEW y \in Side, n \notin X, tr.child[y][n] \in X
        PROVE  b2[tr.child[y][n]] = bh[tr.child[y][n]]
    <3> DEFINE d == tr.child[y][n]
    <3>1. n # u /\ n # p /\ d \in X /\ d # Nil /\ tr.parent[d] = n
      BY <1>4, <2>1, <2>2
    <3> HIDE DEF d
    <3>2. d = p
      BY <1>3, <1>8, <3>1
    <3>3. b2[d] = bh[d]
      BY <1>5, <1>9, <1>13, <3>1, <3>2
    <3>4. QED
      BY <3>3 DEF d
  <2>3. QED
    BY <2>1, <2>2
<1> HIDE DEF X
<1>20. Level(q, ns, p, hs)
  <2>1. b2 \in [Link -> Nat] /\ b2[Nil] = 0
    BY <1>13
  <2>2. Balanced(q, ns, b2, p, hs)
    BY <1>1, <1>2, <1>10, <1>18, <1>19, <2>1, PaintedIsBalanced
  <2>3. QED
    BY <2>2 DEF Level
<1>21. Reds(q, u, u)
  <2> SUFFICES ASSUME NEW m \in q.red, m # u
               PROVE  q.parent[m] # Nil /\ (q.parent[m] \notin q.red \/ q.parent[m] = u)
    BY DEF Reds
  <2>1. q.parent[m] = tr.parent[m]
    BY <1>10 DEF Painted
  <2>2. CASE m = b
    BY <1>1, <1>3, <1>4, <2>1, <2>2
  <2>3. CASE m # b
    <3>1. m \in tr.red /\ m # c /\ m \in ns
      BY <1>1, <1>4, <1>10, <2>3
    <3>2. tr.parent[m] # Nil /\ tr.parent[m] \notin tr.red
      BY <1>1, <3>1 DEF Reds
    <3>3. tr.parent[m] # b
      <4>1. tr.parent[m] # Nil => \E y \in Side : tr.child[y][tr.parent[m]] = m
        BY <1>1, <3>1, ShapeIs
      <4>2. QED
        BY <3>1, <3>2, <4>1
    <3>4. QED
      BY <1>10, <2>1, <3>2, <3>3
  <2>4. QED
    BY <2>2, <2>3
<1>22. q.parent[u] = p /\ q.root = tr.root /\ (p # Nil => q.child[hs][p] = u)
  BY <1>7, <1>8, <1>10 DEF Painted
<1>23. CASE p = Nil
  <2>1. Level(q, ns, p, GapSideOf(q, u, p))
    BY <1>4, <1>20, <1>23, AnyLevel
  <2>2. u \in ns \cup {Nil} /\ p \in ns \cup {Nil} /\ u = q.root
    BY <1>1, <1>5, <1>6, <1>22, <1>23
  <2>3. Erasing(q, ns, u, p)
    BY <1>11, <1>21, <1>22, <1>23, <2>1, <2>2 DEF Erasing
  <2>4. QED
    BY <1>8, <2>3
<1>24. CASE p # Nil
  <2>1. p \in ns
    BY <1>5, <1>24
  <2>2. hs = IF q.child["left"][p] = q.child[hs][p] THEN "left" ELSE "right"
    BY <1>11, <1>20, <2>1, GapSide
  <2>3. hs = GapSideOf(q, u, p)
    BY <1>22, <1>24, <2>2 DEF GapSideOf
  <2>4. Erasing(q, ns, u, p)
    BY <1>1, <1>11, <1>20, <1>21, <1>22, <1>24, <2>1, <2>3 DEF Erasing
  <2>5. QED
    BY <1>8, <2>4
<1>25. QED
  BY <1>23, <1>24

\* Two black nephews: the place that is short moves up one level.
LEMMA EraseUpKeeps ==
  ASSUME RbInv, EraseUp
  PROVE  RbInv'
<1>1. /\ pc = "erase" /\ EraseLoops /\ BlackNephews
      /\ t' = SetRed(Brothered, Brother) /\ cur' = up /\ up' = Brothered.parent[up]
      /\ nodes' = nodes /\ pc' = pc
  BY DEF EraseUp
<1>2. /\ EraseReady(Brothered, nodes, cur, up, EraseSide) /\ EraseSide \in Side
      /\ \A y \in Side : Brothered.child[y][Brother] \notin Brothered.red
  BY <1>1, BrotheredIs
<1>3. Brother = Brothered.child[Other(EraseSide)][up]
  BY DEF Brother
<1>4. Erasing(t', nodes, up, Brothered.parent[up])
  BY <1>1, <1>2, <1>3, BrotherReddened
<1>5. QED
  BY <1>1, <1>4 DEF RbInv

\* At the end the node turns black, unless it is the root and is black already.
LEMMA EraseEndsKeeps ==
  ASSUME RbInv, EraseEnds
  PROVE  RbInv'
<1> DEFINE s == GapSideOf(t, cur, up)
<1>1. /\ pc = "erase" /\ (cur \in t.red \/ cur = t.root) /\ t' = SetBlack(t, cur)
      /\ pc' = "idle" /\ cur' = Nil /\ up' = Nil /\ nodes' = nodes
  BY DEF EraseEnds, EraseLoops, Black
<1>2. Erasing(t, nodes, cur, up)
  BY <1>1 DEF RbInv
<1>3. PICK under :
    /\ Tree(t, nodes, under) /\ Level(t, nodes, up, s) /\ Reds(t, cur, cur)
    /\ cur \in nodes \cup {Nil} /\ up \in nodes \cup {Nil}
    /\ cur # Nil => t.parent[cur] = up
    /\ IF up = Nil THEN cur = t.root ELSE t.child[s][up] = cur
  BY <1>2 DEF Erasing
<1>4. s \in Side
  BY DEF GapSideOf, Side
<1> HIDE DEF s
<1>5. cur \in t.red \/ up = Nil
  <2>1. CASE cur \in t.red
    BY <2>1
  <2>2. CASE cur = t.root /\ cur # Nil
    BY <1>3, <2>2, ShapeIs
  <2>3. CASE cur = t.root /\ cur = Nil
    BY <1>3, <2>3 DEF Tree, Linked
  <2>4. QED
    BY <1>1, <2>1, <2>2, <2>3
<1>6. Tree(t', nodes, under) /\ Level(t', nodes, Nil, "left") /\ Reds(t', Nil, Nil)
  <2>1. cur # Nil => up = t.parent[cur] /\ (up # Nil => t.child[s][up] = cur)
    BY <1>3
  <2>2. QED
    BY <1>1, <1>3, <1>4, <1>5, <2>1, BlackenedIs
<1>7. QED
  BY <1>1, <1>6 DEF RbInv, Settled

\* A nephew on the outer side is red, or the inner one is and is brought there.
LEMMA NephewTurned ==
  ASSUME NEW tr, NEW ns, NEW c, NEW u, NEW s \in Side, EraseReady(tr, ns, c, u, s),
         NEW b, tr.child[Other(s)][u] = b, NEW v, tr.child[s][b] = v, v \in tr.red,
         tr.child[Other(s)][b] \notin tr.red,
         NEW q, q = Rotate(SetRed(SetBlack(tr, v), b), b, Other(s))
  PROVE  /\ EraseReady(q, ns, c, u, s)
         /\ q.child[Other(s)][q.child[Other(s)][u]] \in q.red
<1> DEFINE o == Other(s)
           out == tr.child[o][b]
           i == tr.child[o][v]
           w == tr.child[s][v]
           q1 == SetBlack(tr, v)
           q2 == SetRed(q1, b)
<1>1. PICK under : /\ Tree(tr, ns, under) /\ u \in ns /\ Level(tr, ns, u, s) /\ Reds(tr, c, c)
                   /\ c \notin tr.red /\ tr.child[s][u] = c /\ b \notin tr.red
  BY DEF EraseReady
<1>2. PICK bh : Balanced(tr, ns, bh, u, s)
  BY <1>1 DEF Level
<1>3. /\ bh \in [Link -> Nat] /\ bh[Nil] = 0
      /\ \A m \in ns \cup {Nil} : bh[m] \in Nat
      /\ \A m \in ns, y \in Side : m # u => bh[m] = bh[tr.child[y][m]] + Weight(tr, m)
      /\ bh[b] = bh[c] + 1 /\ bh[u] = bh[c] + 1 + Weight(tr, u)
      /\ b \in ns /\ b # c /\ c \in ns \cup {Nil} /\ tr.parent[b] = u
  BY <1>1, <1>2, ShortHeightsAre
<1>4. /\ tr \in Trees /\ ns \subseteq Node /\ Nil \notin ns /\ tr.red \subseteq ns
      /\ o \in Side /\ o # s /\ Other(o) = s /\ \A y \in Side : y = s \/ y = o
  BY <1>1, ShapeIs, SidesAre
<1>5. /\ \A m \in ns, y \in Side : tr.child[y][m] \in ns \cup {Nil} /\ tr.child[y][m] # m
      /\ \A m \in ns, y \in Side : tr.child[y][m] # Nil => tr.parent[tr.child[y][m]] = m
  BY <1>1, ShapeIs
<1>6. \A m \in ns : tr.parent[m] # Nil => \E y \in Side : tr.child[y][tr.parent[m]] = m
  BY <1>1, ShapeIs
<1>7. /\ o = Other(s) /\ b = tr.child[o][u] /\ out = tr.child[o][b] /\ i = tr.child[o][v] /\ w = tr.child[s][v]
      /\ out \notin tr.red
      /\ q1 = SetBlack(tr, v) /\ q2 = SetRed(q1, b) /\ q = Rotate(q2, b, o)
  OBVIOUS
<1> HIDE DEF o, out, i, w, q1, q2
<1>8. v = tr.child[Other(o)][b]
  BY <1>4
<1>9. /\ v \in ns /\ v # Nil /\ tr.parent[v] = b /\ b # u
      /\ b \in ns /\ b # c /\ c \in ns \cup {Nil} /\ b # Nil /\ o \in Side
  BY <1>1, <1>3, <1>4, <1>5
<1>10. Painted(tr, q2) /\ q2.red = (tr.red \ {v}) \cup {b}
  <2>1. Painted(tr, q1) /\ q1.red = tr.red \ {v}
    BY <1>4, <1>7, <1>9, PaintsAre DEF Link
  <2>2. q1 \in Trees /\ b \in Node
    BY <1>3, <1>4, <2>1 DEF Painted
  <2>3. Painted(q1, q2) /\ q2.red = q1.red \cup {b}
    BY <1>7, <2>2, PaintsAre
  <2>4. QED
    BY <2>1, <2>3 DEF Painted
<1>11. q.red = q2.red /\ Rotated(tr, b, o, v, q) /\ \E U : Tree(q, ns, U)
  <2>1. q2.red \subseteq ns /\ b \in ns /\ o \in Side
    BY <1>3, <1>4, <1>10
  <2>2. QED
    BY <1>1, <1>7, <1>8, <1>9, <1>10, <2>1, PaintedAndRotated
<1>12. q.red = (tr.red \ {v}) \cup {b}
  BY <1>10, <1>11
<1>13. Rotated(tr, b, o, v, q)
  BY <1>11
<1>14. Rotation(tr, ns, b, o, v, q, out, i, w)
  BY <1>1, <1>3, <1>4, <1>7, <1>8, <1>9, <1>13, RotationIs
<1>15. /\ Other(o) = s /\ v = tr.child[s][b]
  BY <1>4
<1>16. /\ out \in ns \cup {Nil} /\ i \in ns \cup {Nil} /\ w \in ns \cup {Nil}
       /\ b # v /\ out # b /\ out # v /\ i # b /\ i # v /\ w # b /\ w # v
       /\ q.child[o][b] = out /\ q.child[s][b] = i /\ q.child[o][v] = b /\ q.child[s][v] = w
  BY <1>9, <1>14, <1>15 DEF Rotation
<1>17. w # Nil => \A y \in Side : q.child[y][w] = tr.child[y][w] /\ tr.child[y][w] \notin {b, v, w}
  BY <1>14 DEF Rotation
<1>18. \A m \in ns, y \in Side : m \notin {b, v} =>
          q.child[y][m] = IF tr.child[y][m] = b THEN v ELSE tr.child[y][m]
  BY <1>14 DEF Rotation
<1>19. u # v /\ (w # Nil => u # w)
  <2>1. v \in under[b] /\ under[v] \subseteq under[b]
    BY <1>1, <1>9, <1>15, UnderIs
  <2>2. b = tr.child[o][u]
    BY <1>7
  <2>3. u \notin under[b]
    BY <1>1, <1>9, <2>2, UnderIs
  <2>4. w # Nil => w \in under[v]
    BY <1>1, <1>7, <1>9, UnderIs
  <2>5. QED
    BY <2>1, <2>3, <2>4
<1>20. /\ Weight(tr, b) = 1 /\ Weight(tr, v) = 0 /\ Weight(q, b) = 0 /\ Weight(q, v) = 1
       /\ \A m : m # b /\ m # v => Weight(q, m) = Weight(tr, m)
  BY <1>1, <1>12, <1>16 DEF Weight
<1> DEFINE h == bh[c]
           b2 == [m \in Link |-> IF m = b THEN h ELSE IF m = v THEN h + 1 ELSE bh[m]]
<1>21. h \in Nat /\ bh[b] = h + 1 /\ bh[v] = h /\ bh[out] = h /\ bh[i] = h /\ bh[w] = h
  <2>1. bh[b] = bh[v] + 1 /\ bh[b] = bh[out] + 1
    <3>1. \A y \in Side : bh[b] = bh[tr.child[y][b]] + 1
      BY <1>3, <1>9, <1>20
    <3>2. QED
      BY <1>4, <1>7, <1>15, <3>1
  <2>2. bh[v] = bh[i] + 0 /\ bh[v] = bh[w] + 0
    <3>1. \A y \in Side : bh[v] = bh[tr.child[y][v]] + 0
      BY <1>3, <1>9, <1>19, <1>20
    <3>2. QED
      BY <1>4, <1>7, <3>1
  <2>3. bh[v] \in Nat /\ bh[out] \in Nat /\ bh[i] \in Nat /\ bh[w] \in Nat /\ bh[c] \in Nat
    BY <1>3, <1>9, <1>16
  <2>4. QED
    BY <1>3, <2>1, <2>2, <2>3
<1>22. /\ b2 \in [Link -> Nat] /\ b2[Nil] = 0 /\ b2[b] = h /\ b2[v] = h + 1
       /\ \A m \in ns \cup {Nil} : m # b /\ m # v => b2[m] = bh[m]
  <2>1. Nil \in Link /\ b \in Link /\ v \in Link /\ \A m \in ns \cup {Nil} : m \in Link
    BY <1>3, <1>4, <1>9 DEF Link
  <2> HIDE DEF h
  <2>2. Nil # b /\ Nil # v /\ b # v /\ h + 1 \in Nat /\ h \in Nat
    BY <1>9, <1>16, <1>21
  <2>3. QED
    BY <1>3, <2>1, <2>2
<1> HIDE DEF h, b2
<1>23. b2[out] = h /\ b2[i] = h /\ b2[w] = h
  BY <1>16, <1>21, <1>22
<1>24. Level(q, ns, u, s)
  <2>1. RightAt(q, b2, u, s, b) /\ RightAt(q, b2, u, s, v)
    <3>1. ASSUME NEW y \in Side
          PROVE  /\ b2[q.child[y][b]] \in Nat /\ b2[b] = b2[q.child[y][b]] + Weight(q, b)
                 /\ b2[q.child[y][v]] \in Nat /\ b2[v] = b2[q.child[y][v]] + Weight(q, v)
      <4>1. b2[q.child[y][b]] = h /\ b2[q.child[y][v]] = h
        <5>1. (q.child[y][b] = out \/ q.child[y][b] = i) /\ (q.child[y][v] = b \/ q.child[y][v] = w)
          BY <1>4, <1>16
        <5>2. QED
          BY <1>22, <1>23, <5>1
      <4>2. QED
        BY <1>20, <1>21, <1>22, <4>1
    <3>2. QED
      BY <1>9, <1>19, <3>1, NoGapAt
  <2>2. ASSUME w # Nil PROVE RightAt(q, b2, u, s, w)
    <3>1. w \in ns /\ w # u
      BY <1>16, <1>19, <2>2
    <3>2. ASSUME NEW y \in Side
          PROVE  b2[q.child[y][w]] \in Nat /\ b2[w] = b2[q.child[y][w]] + Weight(q, w)
      <4> DEFINE d == tr.child[y][w]
      <4>1. d \in ns \cup {Nil} /\ d # b /\ d # v /\ q.child[y][w] = d
        BY <1>5, <1>17, <2>2, <3>1
      <4>2. bh[w] = bh[d] + Weight(tr, w)
        BY <1>3, <3>1
      <4> HIDE DEF d
      <4>3. b2[d] = bh[d] /\ bh[d] \in Nat
        BY <1>3, <1>22, <4>1
      <4>4. b2[w] = bh[w] /\ Weight(q, w) = Weight(tr, w)
        BY <1>16, <1>20, <1>22
      <4>5. QED
        BY <4>1, <4>2, <4>3, <4>4
    <3>3. QED
      BY <3>1, <3>2, NoGapAt
  <2>3. SameOff({b, v, w}, tr, ns, bh, u, s, q, b2, u, s)
    BY <1>20, <1>22 DEF SameOff
  <2>4. Balanced(q, ns, b2, u, s)
    <3>1. b2 \in [Link -> Nat] /\ b2[Nil] = 0 /\ w = tr.child[Other(o)][v] /\ b2[v] = bh[b]
      BY <1>4, <1>7, <1>21, <1>22
    <3>2. v = tr.child[Other(o)][b] /\ v # Nil /\ o \in Side /\ b \in ns
      BY <1>8, <1>9
    <3>3. QED
      BY <1>1, <1>2, <1>13, <2>1, <2>2, <2>3, <3>1, <3>2, RotatedIsBalanced
  <2>5. QED
    BY <2>4 DEF Level
<1>25. Reds(q, c, c)
  <2> SUFFICES ASSUME NEW m \in q.red, m # c PROVE q.parent[m] # Nil /\ q.parent[m] \notin q.red
    BY DEF Reds
  <2>1. m \in ns /\ m \in Node /\ m # v
    BY <1>3, <1>4, <1>12, <1>16
  <2>2. /\ \A k \in Node : q.parent[k] = IF k = b THEN v ELSE IF k = v THEN tr.parent[b]
                                         ELSE IF k = i THEN b ELSE tr.parent[k]
    BY <1>7, <1>13 DEF Rotated
  <2>3. CASE m = b
    BY <1>9, <1>12, <1>16, <2>1, <2>2, <2>3
  <2>4. CASE m # b
    <3>1. m \in tr.red
      BY <1>12, <2>4
    <3>2. tr.parent[m] # Nil /\ tr.parent[m] \notin tr.red
      BY <1>1, <3>1 DEF Reds
    <3>3. m # i
      <4>1. i # Nil => tr.parent[i] = v
        BY <1>5, <1>7, <1>9
      <4>2. QED
        BY <1>4, <2>1, <3>2, <4>1
    <3>4. tr.parent[m] # b
      <4>1. tr.parent[m] = b => m = out \/ m = v
        BY <1>4, <1>6, <1>7, <1>8, <1>15, <2>1, <3>2
      <4>2. QED
        BY <1>7, <2>1, <3>1, <4>1
    <3>5. QED
      BY <1>12, <2>1, <2>2, <2>4, <3>2, <3>3, <3>4
  <2>5. QED
    BY <2>3, <2>4
<1>26. q.child[s][u] = c /\ q.child[o][u] = v
  <2>1. \A y \in Side : q.child[y][u] = IF tr.child[y][u] = b THEN v ELSE tr.child[y][u]
    BY <1>1, <1>9, <1>18, <1>19
  <2>2. tr.child[s][u] = c /\ c # b /\ tr.child[o][u] = b
    BY <1>1, <1>3, <1>7
  <2>3. QED
    BY <1>4, <2>1, <2>2
<1>27. c \notin q.red /\ v \notin q.red /\ q.child[o][v] \in q.red
  BY <1>1, <1>3, <1>12, <1>16
<1>28. EraseReady(q, ns, c, u, s)
  BY <1>1, <1>7, <1>11, <1>24, <1>25, <1>26, <1>27 DEF EraseReady
<1>29. QED
  BY <1>7, <1>26, <1>27, <1>28

\* The last rotation.
LEMMA EraseFinished ==
  ASSUME NEW tr, NEW ns, NEW c, NEW u, NEW s \in Side, EraseReady(tr, ns, c, u, s),
         NEW b, tr.child[Other(s)][u] = b, NEW v, tr.child[Other(s)][b] = v, v \in tr.red,
         NEW q, q = Rotate(SetBlack(SetBlack(TakeColour(tr, b, u), u), v), u, s)
  PROVE  Settled(SetBlack(q, q.root), ns)
<1> DEFINE o == Other(s)
           i == tr.child[s][b]
           q1 == TakeColour(tr, b, u)
           q2 == SetBlack(q1, u)
           q3 == SetBlack(q2, v)
<1>1. PICK under : /\ Tree(tr, ns, under) /\ u \in ns /\ Level(tr, ns, u, s) /\ Reds(tr, c, c)
                   /\ c \notin tr.red /\ tr.child[s][u] = c /\ b \notin tr.red
  BY DEF EraseReady
<1>2. PICK bh : Balanced(tr, ns, bh, u, s)
  BY <1>1 DEF Level
<1>3. /\ bh \in [Link -> Nat] /\ bh[Nil] = 0
      /\ \A m \in ns \cup {Nil} : bh[m] \in Nat
      /\ \A m \in ns, y \in Side : m # u => bh[m] = bh[tr.child[y][m]] + Weight(tr, m)
      /\ bh[b] = bh[c] + 1 /\ bh[u] = bh[c] + 1 + Weight(tr, u)
      /\ b \in ns /\ b # c /\ c \in ns \cup {Nil} /\ tr.parent[b] = u
  BY <1>1, <1>2, ShortHeightsAre
<1>4. /\ tr \in Trees /\ ns \subseteq Node /\ Nil \notin ns /\ tr.red \subseteq ns
      /\ o \in Side /\ o # s /\ \A y \in Side : y = s \/ y = o
      /\ \A m \in ns, y \in Side : tr.child[y][m] \in ns \cup {Nil} /\ tr.child[y][m] # m
      /\ \A m \in ns, y \in Side : tr.child[y][m] # Nil => tr.parent[tr.child[y][m]] = m
      /\ \A m \in ns : tr.parent[m] # Nil => \E y \in Side : tr.child[y][tr.parent[m]] = m
  BY <1>1, ShapeIs, SidesAre
<1>5. /\ o = Other(s) /\ i = tr.child[s][b] /\ v = tr.child[o][b] /\ b = tr.child[o][u]
      /\ q1 = TakeColour(tr, b, u) /\ q2 = SetBlack(q1, u) /\ q3 = SetBlack(q2, v)
      /\ q = Rotate(q3, u, s)
  OBVIOUS
<1> HIDE DEF o, i, q1, q2, q3
<1>6. v \in ns /\ v # Nil /\ b # u /\ b # Nil /\ tr.parent[v] = b
  <2>1. v \in ns /\ v # Nil /\ b \in ns /\ o \in Side /\ v = tr.child[o][b] /\ b = tr.child[o][u] /\ u \in ns
    BY <1>1, <1>3, <1>4, <1>5
  <2>2. QED
    BY <1>4, <2>1
<1>7. Painted(tr, q3) /\ q3.red = (IF u \in tr.red THEN tr.red \cup {b} ELSE tr.red \ {b}) \ {u, v}
  <2>1. tr \in Trees /\ b \in Node /\ u \in Node
    BY <1>1, <1>3, <1>4
  <2>2. Painted(tr, q1) /\ q1.red = IF u \in tr.red THEN tr.red \cup {b} ELSE tr.red \ {b}
    BY <1>5, <2>1, PaintsAre
  <2>3. q1 \in Trees /\ u \in Link /\ v \in Link
    BY <1>1, <1>4, <1>6, <2>2 DEF Painted, Link
  <2>4. Painted(q1, q2) /\ q2.red = q1.red \ {u}
    BY <1>5, <2>3, PaintsAre
  <2>5. q2 \in Trees
    BY <2>4 DEF Painted
  <2>6. Painted(q2, q3) /\ q3.red = q2.red \ {v}
    BY <1>5, <2>3, <2>5, PaintsAre
  <2>7. QED
    BY <2>2, <2>4, <2>6 DEF Painted
<1>8. q.red = q3.red /\ Rotated(tr, u, s, b, q) /\ \E U : Tree(q, ns, U)
  <2>1. q3.red \subseteq ns /\ b = tr.child[Other(s)][u]
    BY <1>3, <1>4, <1>7
  <2>2. QED
    BY <1>1, <1>5, <1>6, <1>7, <2>1, PaintedAndRotated
<1>9. Rotated(tr, u, s, b, q)
  BY <1>8
<1>10. PICK U : Tree(q, ns, U)
  BY <1>8
<1>11. /\ q.red \subseteq tr.red \cup {b} /\ u \notin q.red /\ v \notin q.red
       /\ b \in q.red <=> u \in tr.red
       /\ \A m : m # u /\ m # b /\ m # v => (m \in q.red <=> m \in tr.red)
  BY <1>1, <1>6, <1>7, <1>8
<1>12. Rotation(tr, ns, u, s, b, q, c, i, v)
  <2>1. b = tr.child[Other(s)][u] /\ c = tr.child[s][u] /\ v = tr.child[Other(s)][b]
    BY <1>1
  <2>2. QED
    BY <1>1, <1>5, <1>6, <1>9, <2>1, RotationIs
<1>13. /\ i \in ns \cup {Nil} /\ u # b /\ v # u /\ v # b
       /\ c # u /\ c # b /\ c # v /\ i # u /\ i # b /\ i # v
       /\ q.child[s][u] = c /\ q.child[o][u] = i /\ q.child[s][b] = u /\ q.child[o][b] = v
       /\ \A y \in Side : q.child[y][v] = tr.child[y][v] /\ tr.child[y][v] \notin {u, b, v}
  BY <1>5, <1>6, <1>12 DEF Rotation
<1>14. /\ Weight(tr, b) = 1 /\ Weight(tr, v) = 0
       /\ Weight(q, u) = 1 /\ Weight(q, v) = 1 /\ Weight(q, b) = Weight(tr, u)
       /\ \A m : m # u /\ m # b /\ m # v => Weight(q, m) = Weight(tr, m)
       /\ Weight(tr, u) \in {0, 1}
  BY <1>1, <1>11 DEF Weight
<1> DEFINE h == bh[c]
           b2 == [m \in Link |-> IF m = u \/ m = v THEN h + 1
                                 ELSE IF m = b THEN h + 1 + Weight(tr, u) ELSE bh[m]]
<1>15. h \in Nat /\ bh[u] = h + 1 + Weight(tr, u) /\ bh[v] = h /\ bh[i] = h /\ bh[c] = h
  <2>1. bh[b] = bh[v] + 1 /\ bh[b] = bh[i] + 1
    <3>1. \A y \in Side : bh[b] = bh[tr.child[y][b]] + 1
      BY <1>3, <1>6, <1>14
    <3>2. QED
      BY <1>4, <1>5, <3>1
  <2>2. bh[v] \in Nat /\ bh[i] \in Nat /\ bh[c] \in Nat
    BY <1>3, <1>6, <1>13
  <2>3. QED
    BY <1>3, <2>1, <2>2
<1>16. /\ b2 \in [Link -> Nat] /\ b2[Nil] = 0 /\ b2[u] = h + 1 /\ b2[v] = h + 1
       /\ b2[b] = h + 1 + Weight(tr, u)
       /\ \A m \in ns \cup {Nil} : m # u /\ m # b /\ m # v => b2[m] = bh[m]
  <2>1. Nil \in Link /\ u \in Link /\ b \in Link /\ v \in Link /\ \A m \in ns \cup {Nil} : m \in Link
    BY <1>1, <1>3, <1>4, <1>6 DEF Link
  <2> HIDE DEF h
  <2>2. Nil # u /\ Nil # b /\ Nil # v /\ h + 1 + Weight(tr, u) \in Nat /\ h + 1 \in Nat
    BY <1>1, <1>4, <1>6, <1>14, <1>15
  <2>3. QED
    BY <1>3, <1>13, <2>1, <2>2
<1> HIDE DEF h, b2
<1>17. b2[c] = h /\ b2[i] = h
  BY <1>3, <1>13, <1>15, <1>16
<1>18. Balanced(q, ns, b2, Nil, "left")
  <2>1. RightAt(q, b2, Nil, "left", u) /\ RightAt(q, b2, Nil, "left", b)
    <3>1. ASSUME NEW y \in Side
          PROVE  /\ b2[q.child[y][u]] \in Nat /\ b2[u] = b2[q.child[y][u]] + Weight(q, u)
                 /\ b2[q.child[y][b]] \in Nat /\ b2[b] = b2[q.child[y][b]] + Weight(q, b)
      <4>1. b2[q.child[y][u]] = h /\ b2[q.child[y][b]] = h + 1
        <5>1. (q.child[y][u] = c \/ q.child[y][u] = i) /\ (q.child[y][b] = u \/ q.child[y][b] = v)
          BY <1>4, <1>13
        <5>2. QED
          BY <1>16, <1>17, <5>1
      <4>2. QED
        BY <1>14, <1>15, <1>16, <4>1
    <3>2. u # Nil /\ b # Nil
      BY <1>1, <1>4, <1>6
    <3>3. QED
      BY <3>1, <3>2, NoGapAt
  <2>2. RightAt(q, b2, Nil, "left", v)
    <3>1. ASSUME NEW y \in Side
          PROVE  b2[q.child[y][v]] \in Nat /\ b2[v] = b2[q.child[y][v]] + Weight(q, v)
      <4> DEFINE d == tr.child[y][v]
      <4>1. d \in ns \cup {Nil} /\ d # u /\ d # b /\ d # v /\ q.child[y][v] = d
        BY <1>4, <1>6, <1>13
      <4>2. bh[v] = bh[d] + Weight(tr, v)
        BY <1>3, <1>6, <1>13
      <4> HIDE DEF d
      <4>3. b2[d] = bh[d] /\ bh[d] \in Nat
        BY <1>3, <1>16, <4>1
      <4>4. b2[d] \in Nat /\ b2[v] = b2[d] + Weight(q, v)
        BY <1>14, <1>15, <1>16, <4>2, <4>3
      <4>5. QED
        BY <4>1, <4>4
    <3>2. QED
      BY <1>6, <3>1, NoGapAt
  <2>3. SameOff({u, b, v}, tr, ns, bh, u, s, q, b2, Nil, "left")
    <3> SUFFICES ASSUME NEW m \in ns, m # u, m # b, m # v
                 PROVE  /\ b2[m] = bh[m] /\ Weight(q, m) = Weight(tr, m)
                        /\ \A y \in Side : Gap(Nil, "left", m, y) = Gap(u, s, m, y)
      BY DEF SameOff
    <3>1. m # Nil
      BY <1>4
    <3>2. QED
      BY <1>14, <1>16, <3>1 DEF Gap
  <2>4. /\ b2 \in [Link -> Nat] /\ b2[Nil] = 0 /\ v = tr.child[Other(s)][b] /\ b2[b] = bh[u]
        /\ b = tr.child[Other(s)][u]
    BY <1>15, <1>16
  <2>5. QED
    BY <1>1, <1>2, <1>6, <1>9, <2>1, <2>2, <2>3, <2>4, RotatedIsBalanced
<1>19. ASSUME NEW m \in q.red, m # q.root PROVE q.parent[m] # Nil /\ q.parent[m] \notin q.red
  <2>1. m \in ns /\ m \in Node /\ m # u /\ m # v
    BY <1>3, <1>4, <1>11
  <2>2. /\ \A k \in Node : q.parent[k] = IF k = u THEN b ELSE IF k = b THEN tr.parent[u]
                                         ELSE IF k = i THEN u ELSE tr.parent[k]
    BY <1>5, <1>9 DEF Rotated
  <2>3. CASE m = b
    <3>1. u \in tr.red /\ u # c
      BY <1>11, <1>13, <2>3
    <3>2. tr.parent[u] # Nil /\ tr.parent[u] \notin tr.red
      BY <1>1, <3>1 DEF Reds
    <3>3. tr.parent[u] # b
      <4>1. \A y \in Side : tr.child[y][b] = i \/ tr.child[y][b] = v
        BY <1>4, <1>5
      <4>2. QED
        BY <1>1, <1>4, <1>13, <3>2, <4>1
    <3>4. QED
      BY <1>11, <1>13, <2>1, <2>2, <2>3, <3>2, <3>3
  <2>4. CASE m # b
    <3>1. m \in tr.red /\ m # c
      BY <1>1, <1>11, <2>1, <2>4
    <3>2. tr.parent[m] # Nil /\ tr.parent[m] \notin tr.red
      BY <1>1, <3>1 DEF Reds
    <3>3. CASE m = i
      BY <1>1, <1>4, <1>11, <1>13, <2>1, <2>2, <3>3
    <3>4. CASE m # i
      <4>1. tr.parent[m] = b => m = i \/ m = v
        BY <1>4, <1>5, <2>1, <3>2
      <4>2. QED
        BY <1>11, <2>1, <2>2, <2>4, <3>2, <3>4, <4>1
    <3>5. QED
      BY <3>3, <3>4
  <2>5. QED
    BY <2>3, <2>4
<1>20. Reds(q, q.root, q.root)
  BY <1>19 DEF Reds
<1>21. QED
  BY <1>10, <1>18, <1>20, RootBlackened DEF Level

\* A red nephew.
LEMMA EraseRotateKeeps ==
  ASSUME RbInv, EraseRotate
  PROVE  RbInv'
<1> DEFINE s == EraseSide
           B == Brothered
           nephew == B.child[s][Brother]
           straight == B.child[Other(s)][Brother] \in B.red
           ready == IF straight THEN B ELSE Rotate(SetRed(SetBlack(B, nephew), Brother), Brother, Other(s))
           b == ready.child[Other(s)][up]
           n == ready.child[Other(s)][b]
           done == Rotate(SetBlack(SetBlack(TakeColour(ready, b, up), up), n), up, s)
<1>1. /\ pc = "erase" /\ EraseLoops /\ ~BlackNephews
      /\ t' = SetBlack(done, done.root)
      /\ nodes' = nodes /\ pc' = "idle" /\ cur' = Nil /\ up' = Nil
  BY DEF EraseRotate, Red
<1>2. /\ EraseReady(B, nodes, cur, up, s) /\ s \in Side
      /\ BlackNephews <=> \A y \in Side : B.child[y][Brother] \notin B.red
  BY <1>1, BrotheredIs
<1>3. Brother = B.child[Other(s)][up]
  BY DEF Brother
<1>4. straight \/ nephew \in B.red
  <2>1. PICK y \in Side : B.child[y][Brother] \in B.red
    BY <1>1, <1>2
  <2>2. y = s \/ y = Other(s)
    BY <1>2, SidesAre
  <2>3. QED
    BY <2>1, <2>2
<1>5. /\ done = Rotate(SetBlack(SetBlack(TakeColour(ready, b, up), up), n), up, s)
      /\ b = ready.child[Other(s)][up] /\ n = ready.child[Other(s)][b]
      /\ nephew = B.child[s][Brother]
      /\ straight <=> B.child[Other(s)][Brother] \in B.red
      /\ straight => ready = B
      /\ ~straight => ready = Rotate(SetRed(SetBlack(B, nephew), Brother), Brother, Other(s))
  OBVIOUS
<1> HIDE DEF s, B, nephew, straight, ready, b, n, done
<1>6. EraseReady(ready, nodes, cur, up, s) /\ n \in ready.red
  <2>1. CASE straight
    <3>1. ready = B
      BY <1>5, <2>1
    <3>2. b = Brother
      BY <1>3, <1>5, <3>1
    <3>3. QED
      BY <1>2, <1>5, <2>1, <3>1, <3>2
  <2>2. CASE ~straight
    <3>1. /\ nephew \in B.red /\ nephew = B.child[s][Brother]
          /\ B.child[Other(s)][Brother] \notin B.red
          /\ ready = Rotate(SetRed(SetBlack(B, nephew), Brother), Brother, Other(s))
      BY <1>4, <1>5, <2>2
    <3>2. /\ EraseReady(ready, nodes, cur, up, s)
          /\ ready.child[Other(s)][ready.child[Other(s)][up]] \in ready.red
      BY <1>2, <1>3, <3>1, NephewTurned
    <3>3. QED
      BY <1>5, <3>2
  <2>3. QED
    BY <2>1, <2>2
<1>7. Settled(SetBlack(done, done.root), nodes)
  BY <1>2, <1>5, <1>6, EraseFinished
<1>8. QED
  BY <1>1, <1>7 DEF RbInv

(***************************************************************************)
(* The invariant of the tree, and what follows from it                     *)
(***************************************************************************)

\* The empty tree has it.
LEMMA InitHasRbInv == Init => RbInv
<1> SUFFICES ASSUME Init PROVE RbInv
  OBVIOUS
<1>1. Settled(t, nodes)
  BY EmptyIsSettled DEF Init
<1>2. QED
  BY <1>1 DEF Init, RbInv

\* Every step keeps it: of mtree_add and rb_erase, and every turn of a fix-up.
LEMMA StepKeepsRbInv ==
  ASSUME RbInv, [Next]_vars
  PROVE  RbInv'
<1>1. CASE UNCHANGED vars
  BY <1>1 DEF vars, RbInv
<1>2. ASSUME NEW n \in Node, Insert(n) PROVE RbInv'
  BY <1>2, InsertKeeps
<1>3. ASSUME NEW n \in Node, Replace(n) PROVE RbInv'
  BY <1>3, ReplaceKeeps
<1>4. ASSUME NEW n \in Node, Erase(n) PROVE RbInv'
  BY <1>4, EraseKeeps
<1>5. CASE InsertTurn
  BY <1>5, InsertRecolourKeeps, InsertRotateKeeps, InsertEndsKeeps DEF InsertTurn
<1>6. CASE EraseTurn
  BY <1>6, EraseUpKeeps, EraseRotateKeeps, EraseEndsKeeps DEF EraseTurn
<1>7. QED
  BY <1>1, <1>2, <1>3, <1>4, <1>5, <1>6 DEF Next

\* At any time the links are an ordered tree of the nodes.
LEMMA TreeIs ==
  ASSUME RbInv
  PROVE  \E under : Tree(t, nodes, under)
BY DEF RbInv, Settled, Inserting, Erasing

\* The types.
LEMMA TypeIs ==
  ASSUME RbInv
  PROVE  TypeOK
<1>1. PICK under : Tree(t, nodes, under)
  BY TreeIs
<1>2. /\ t \in Trees /\ t.red \subseteq nodes /\ nodes \subseteq Node /\ t.root \in nodes \cup {Nil}
      /\ \A n \in nodes : t.parent[n] \in nodes \cup {Nil}
      /\ \A n \in nodes, s \in Side : t.child[s][n] \in nodes \cup {Nil}
  BY <1>1, LinksAre DEF Tree, Linked
<1>3. \A n \in Node : n \notin nodes => t.parent[n] = Nil /\ \A s \in Side : t.child[s][n] = Nil
  BY <1>1 DEF Tree, Linked
<1>4. t.child \in [Side -> [Node -> Link]] /\ t.parent \in [Node -> Link]
  BY <1>2 DEF Trees
<1>5. \A n \in Node : t.parent[n] \in nodes \cup {Nil} /\ \A s \in Side : t.child[s][n] \in nodes \cup {Nil}
  BY <1>2, <1>3
<1>6. t.parent \in [Node -> nodes \cup {Nil}]
  BY <1>4, <1>5
<1>7. t.child \in [Side -> [Node -> nodes \cup {Nil}]]
  <2>1. ASSUME NEW s \in Side PROVE t.child[s] \in [Node -> nodes \cup {Nil}]
    <3>1. t.child[s] \in [Node -> Link] /\ \A n \in Node : t.child[s][n] \in nodes \cup {Nil}
      BY <1>4, <1>5
    <3>2. QED
      BY <3>1
  <2>2. QED
    BY <1>4, <2>1
<1>8. /\ pc \in {"idle", "insert", "erase"}
      /\ cur \in nodes \cup {Nil} /\ up \in nodes \cup {Nil}
  <2>1. CASE pc = "idle"
    BY <2>1 DEF RbInv
  <2>2. CASE pc = "insert"
    BY <1>2, <2>2 DEF RbInv, Inserting
  <2>3. CASE pc = "erase"
    BY <2>3 DEF RbInv, Erasing
  <2>4. QED
    BY <2>1, <2>2, <2>3 DEF RbInv
<1>9. QED
  BY <1>2, <1>6, <1>7, <1>8 DEF TypeOK

\* Every node is linked once.
LEMMA LinksMatchIs ==
  ASSUME RbInv
  PROVE  LinksMatch
<1>1. PICK under : Tree(t, nodes, under)
  BY TreeIs
<1>2. ASSUME NEW n \in nodes, n # t.root
      PROVE  Cardinality({s \in Side : t.child[s][t.parent[n]] = n}) = 1
  <2>1. t.parent[n] # Nil
    BY <1>1, <1>2, HangsOnce
  <2>2. PICK s \in Side : t.child[s][t.parent[n]] = n /\ t.child[Other(s)][t.parent[n]] # n
    BY <1>1, <2>1, HangsOnce
  <2>3. {x \in Side : t.child[x][t.parent[n]] = n} = {s}
    BY <2>2, SidesAre
  <2>4. QED
    BY <2>3, FS_Singleton
<1>3. \A n \in nodes : /\ n = t.root => t.parent[n] = Nil
                       /\ \A s \in Side : t.child[s][n] # Nil => t.parent[t.child[s][n]] = n
  BY <1>1, ShapeIs
<1>4. QED
  BY <1>2, <1>3 DEF LinksMatch

\* The nodes with the least and with the greatest key.
LEMMA BestIs ==
  ASSUME NEW ks \in SUBSET Key, NEW k \in ks
  PROVE  /\ (\A j \in ks : k <= j) => k = Min(ks)
         /\ (\A j \in ks : k >= j) => k = Max(ks)
<1>1. KeyCount \in Nat /\ ks \in SUBSET (0..KeyCount) /\ ks \in SUBSET Nat /\ ks # {}
  BY RbTreeAssumption DEF Key, RbTreeAssumption
<1>2. Min(ks) \in ks /\ \A j \in ks : Min(ks) <= j
  BY <1>1, MinIs
<1>3. Max(ks) \in ks /\ \A j \in ks : Max(ks) >= j
  BY <1>1, MaxIs
<1> DEFINE a == Min(ks)
           b == Max(ks)
<1>4. a \in Nat /\ b \in Nat /\ k \in Nat /\ a \in ks /\ b \in ks /\ a = Min(ks) /\ b = Max(ks)
  BY <1>1, <1>2, <1>3
<1> HIDE DEF a, b
<1>5. (\A j \in ks : a <= j) /\ (\A j \in ks : b >= j)
  BY <1>2, <1>3, <1>4
<1>6. QED
  BY <1>4, <1>5

\* rb_next and rb_prev: of the nodes beyond n the nearest.
LEMMA NeighbourIsNext ==
  ASSUME NEW tr, NEW ns, NEW under, Tree(tr, ns, under), NEW n \in ns,
         NEW after, after = {k \in {KeyOf(m) : m \in ns} : k > KeyOf(n)},
         NEW before, before = {k \in {KeyOf(m) : m \in ns} : k < KeyOf(n)},
         NEW next, next = Neighbour(tr, n, "right"), NEW prev, prev = Neighbour(tr, n, "left")
  PROVE  /\ IF after = {} THEN next = Nil ELSE next \in ns /\ KeyOf(next) = Min(after)
         /\ IF before = {} THEN prev = Nil ELSE prev \in ns /\ KeyOf(prev) = Max(before)
<1>1. ns \subseteq Node /\ Nil \notin ns /\ \A m \in ns : KeyOf(m) \in Key /\ KeyOf(m) \in Nat
  BY ShapeIs, NodesAre
<1>2. /\ IsNeighbour(ns, n, "right", Neighbour(tr, n, "right"))
      /\ IsNeighbour(ns, n, "left", Neighbour(tr, n, "left"))
  BY NeighbourIs, SidesAre
<1>3. ASSUME NEW y, IsNeighbour(ns, n, "right", y),
             NEW ks, ks = {k \in {KeyOf(m) : m \in ns} : k > KeyOf(n)}
      PROVE  IF ks = {} THEN y = Nil ELSE y \in ns /\ KeyOf(y) = Min(ks)
  <2>1. ks \in SUBSET Key
    BY <1>1, <1>3
  <2>2. CASE y = Nil
    <3>1. \A x \in ns : ~(KeyOf(x) > KeyOf(n))
      BY <1>3, <2>2 DEF IsNeighbour, Toward
    <3>2. QED
      BY <1>3, <2>2, <3>1
  <2>3. CASE y # Nil
    <3>1. y \in ns /\ KeyOf(y) > KeyOf(n) /\ \A x \in ns : KeyOf(x) > KeyOf(n) => x = y \/ KeyOf(x) > KeyOf(y)
      BY <1>3, <2>3 DEF IsNeighbour, Toward
    <3>2. KeyOf(y) \in ks /\ \A j \in ks : KeyOf(y) <= j
      BY <1>1, <1>3, <3>1
    <3>3. KeyOf(y) = Min(ks)
      BY <2>1, <3>2, BestIs
    <3>4. QED
      BY <3>1, <3>2, <3>3
  <2>4. QED
    BY <2>2, <2>3
<1>4. ASSUME NEW y, IsNeighbour(ns, n, "left", y),
             NEW ks, ks = {k \in {KeyOf(m) : m \in ns} : k < KeyOf(n)}
      PROVE  IF ks = {} THEN y = Nil ELSE y \in ns /\ KeyOf(y) = Max(ks)
  <2>1. ks \in SUBSET Key
    BY <1>1, <1>4
  <2>2. CASE y = Nil
    <3>1. \A x \in ns : ~(KeyOf(x) < KeyOf(n))
      BY <1>4, <2>2 DEF IsNeighbour, Toward
    <3>2. QED
      BY <1>4, <2>2, <3>1
  <2>3. CASE y # Nil
    <3>1. y \in ns /\ KeyOf(y) < KeyOf(n) /\ \A x \in ns : KeyOf(x) < KeyOf(n) => x = y \/ KeyOf(x) < KeyOf(y)
      BY <1>4, <2>3 DEF IsNeighbour, Toward
    <3>2. KeyOf(y) \in ks /\ \A j \in ks : KeyOf(y) >= j
      BY <1>1, <1>4, <3>1
    <3>3. KeyOf(y) = Max(ks)
      BY <2>1, <3>2, BestIs
    <3>4. QED
      BY <3>1, <3>2, <3>3
  <2>4. QED
    BY <2>2, <2>3
<1>5. QED
  BY <1>2, <1>3, <1>4

\* The ends of the tree.
LEMMA ExtremeIsEnd ==
  ASSUME NEW tr, NEW ns, NEW under, Tree(tr, ns, under), NEW ks, ks = {KeyOf(m) : m \in ns}
  PROVE  /\ IF ks = {} THEN Extreme(tr, tr.root, "left") = Nil
            ELSE Extreme(tr, tr.root, "left") \in ns /\ KeyOf(Extreme(tr, tr.root, "left")) = Min(ks)
         /\ IF ks = {} THEN Extreme(tr, tr.root, "right") = Nil
            ELSE Extreme(tr, tr.root, "right") \in ns /\ KeyOf(Extreme(tr, tr.root, "right")) = Max(ks)
<1>1. ns \subseteq Node /\ Nil \notin ns /\ \A m \in ns : KeyOf(m) \in Key /\ KeyOf(m) \in Nat
  BY ShapeIs, NodesAre
<1>2. CASE tr.root = Nil
  <2>1. ns = {} /\ ks = {}
    BY <1>2 DEF Tree, Linked
  <2>2. QED
    BY <1>2, <2>1 DEF Extreme
<1>3. CASE tr.root # Nil
  <2> DEFINE a == Extreme(tr, tr.root, "left")
             b == Extreme(tr, tr.root, "right")
  <2>1. tr.root \in ns /\ under[tr.root] = ns
    BY <1>3 DEF Tree, Linked, Sorted
  <2>2. a \in ns /\ b \in ns /\ (\A y \in ns : y # a => Toward("left", a, y))
        /\ (\A y \in ns : y # b => Toward("right", b, y))
    BY <2>1, ExtremeIs, SidesAre
  <2> HIDE DEF a, b
  <2>3. (\A y \in ns : y # a => KeyOf(a) < KeyOf(y)) /\ (\A y \in ns : y # b => KeyOf(b) > KeyOf(y))
    BY <2>2 DEF Toward
  <2>4. /\ KeyOf(a) \in ks /\ \A j \in ks : KeyOf(a) <= j
        /\ KeyOf(b) \in ks /\ \A j \in ks : KeyOf(b) >= j
    BY <1>1, <2>2, <2>3
  <2>5. KeyOf(a) = Min(ks) /\ KeyOf(b) = Max(ks)
    BY <1>1, <2>4, BestIs
  <2>6. QED
    BY <2>2, <2>4, <2>5 DEF a, b
<1>4. QED
  BY <1>2, <1>3

\* The walks and the search.
LEMMA WalksIs ==
  ASSUME RbInv
  PROVE  WalksInOrder
<1> DEFINE ks == {KeyOf(n) : n \in nodes}
<1>1. PICK under : Tree(t, nodes, under)
  BY TreeIs
<1>2. /\ IsNext(Extreme(t, t.root, "left"), ks, Min)
      /\ IsNext(Extreme(t, t.root, "right"), ks, Max)
  BY <1>1, ExtremeIsEnd DEF IsNext
<1>3. ASSUME NEW n \in nodes
      PROVE  /\ IsNext(Neighbour(t, n, "right"), {k \in ks : k > KeyOf(n)}, Min)
             /\ IsNext(Neighbour(t, n, "left"), {k \in ks : k < KeyOf(n)}, Max)
  <2> DEFINE after == {k \in ks : k > KeyOf(n)}
             before == {k \in ks : k < KeyOf(n)}
             next == Neighbour(t, n, "right")
             prev == Neighbour(t, n, "left")
  <2>1. /\ after = {k \in {KeyOf(m) : m \in nodes} : k > KeyOf(n)} /\ next = Neighbour(t, n, "right")
        /\ before = {k \in {KeyOf(m) : m \in nodes} : k < KeyOf(n)} /\ prev = Neighbour(t, n, "left")
    OBVIOUS
  <2> HIDE DEF after, before, next, prev
  <2>2. /\ IF after = {} THEN next = Nil ELSE next \in nodes /\ KeyOf(next) = Min(after)
        /\ IF before = {} THEN prev = Nil ELSE prev \in nodes /\ KeyOf(prev) = Max(before)
    BY <1>1, <2>1, NeighbourIsNext
  <2>3. IsNext(next, after, Min) /\ IsNext(prev, before, Max)
    BY <2>2 DEF IsNext
  <2>4. QED
    BY <2>3 DEF after, before, next, prev
<1>4. ASSUME NEW n \in nodes PROVE Descend(t, KeyOf(n)) = n
  <2>1. KeyOf(n) \in Key
    BY <1>1, ShapeIs, NodesAre
  <2>2. QED
    BY <1>1, <2>1, DescendIs
<1>5. QED
  BY <1>2, <1>3, <1>4, LinksMatchIs DEF WalksInOrder

\* The parts of the black height, with the heights of the children in f.
Extra(n) == IF pc = "erase" /\ cur = n THEN 1 ELSE 0

\* What its place counts when there is no node.
EndOf(n, s) == IF pc = "erase" /\ cur = Nil /\ up = n /\ s = EraseSide THEN 1 ELSE 0

\* The count below a side of n.
Below(f, n, s) == IF t.child[s][n] # Nil THEN f[t.child[s][n]] ELSE EndOf(n, s)

\* The count of n.
HeightOf(f, n) ==
  IF Below(f, n, "left") = -1 \/ Below(f, n, "left") # Below(f, n, "right") THEN -1
  ELSE Below(f, n, "left") + Extra(n) + IF Red(t, n) THEN 0 ELSE 1

\* The recursion of BlackHeight.
Counts(f) == f = [n \in Node |-> HeightOf(f, n)]

\* The function BlackHeight counts this way.
LEMMA BlackHeightIs == BlackHeight = CHOOSE f : Counts(f)
BY DEF BlackHeight, Counts, HeightOf, Below, Extra, EndOf

\* What the node or the place that counts once more adds, is what is short there.
LEMMA ShortIs ==
  ASSUME RbInv
  PROVE  \E under, bh, gu, gs :
           /\ Tree(t, nodes, under) /\ Balanced(t, nodes, bh, gu, gs)
           /\ cur \in nodes \cup {Nil} /\ up \in nodes \cup {Nil}
           /\ \A n \in nodes, s \in Side :
                Gap(gu, gs, n, s) = IF t.child[s][n] # Nil THEN Extra(t.child[s][n]) ELSE EndOf(n, s)
<1>1. cur \in nodes \cup {Nil} /\ up \in nodes \cup {Nil} /\ Nil \notin nodes
  BY TypeIs, TreeIs, ShapeIs DEF TypeOK
<1>2. CASE pc # "erase"
  <2>1. PICK under : Tree(t, nodes, under) /\ Level(t, nodes, Nil, "left")
    BY <1>2 DEF RbInv, Settled, Inserting
  <2>2. PICK bh : Balanced(t, nodes, bh, Nil, "left")
    BY <2>1 DEF Level
  <2>3. \A n \in nodes, s \in Side :
          Gap(Nil, "left", n, s) = IF t.child[s][n] # Nil THEN Extra(t.child[s][n]) ELSE EndOf(n, s)
    BY <1>1, <1>2 DEF Gap, Extra, EndOf
  <2>4. QED
    BY <1>1, <2>1, <2>2, <2>3
<1>3. CASE pc = "erase"
  <2> DEFINE gs == GapSideOf(t, cur, up)
  <2>1. PICK under :
          /\ Tree(t, nodes, under) /\ Level(t, nodes, up, gs)
          /\ cur # Nil => t.parent[cur] = up
          /\ IF up = Nil THEN cur = t.root ELSE t.child[gs][up] = cur
    BY <1>3 DEF RbInv, Erasing
  <2>2. PICK bh : Balanced(t, nodes, bh, up, gs)
    BY <2>1 DEF Level
  <2>3. gs = EraseSide /\ gs \in Side
    BY DEF GapSideOf, EraseSide, Side
  <2> HIDE DEF gs
  <2>4. ASSUME NEW n \in nodes, NEW s \in Side
        PROVE  Gap(up, gs, n, s) = IF t.child[s][n] # Nil THEN Extra(t.child[s][n]) ELSE EndOf(n, s)
    <3>1. n # Nil /\ (t.child[s][n] # Nil => t.parent[t.child[s][n]] = n)
      BY <1>1, <2>1, ShapeIs
    <3>2. CASE n = up /\ s = gs
      BY <1>3, <2>1, <2>3, <3>1, <3>2 DEF Gap, Extra, EndOf
    <3>3. CASE n # up \/ s # gs
      <4>1. Gap(up, gs, n, s) = 0 /\ EndOf(n, s) = 0
        BY <2>3, <3>3 DEF Gap, EndOf
      <4>2. t.child[s][n] # Nil => t.child[s][n] # cur
        <5> SUFFICES ASSUME t.child[s][n] # Nil, t.child[s][n] = cur PROVE FALSE
          OBVIOUS
        <5>1. n = up /\ s # gs /\ up # Nil
          BY <2>1, <3>1, <3>3
        <5>2. t.child[gs][up] = cur /\ t.child[s][up] = cur
          BY <2>1, <5>1
        <5>3. up \in nodes /\ s = Other(gs)
          BY <1>1, <2>3, <5>1, SidesAre
        <5>4. t.child[gs][up] # t.child[Other(gs)][up]
          BY <2>1, <2>3, <5>2, <5>3, UnderIs
        <5>5. QED
          BY <5>2, <5>3, <5>4
      <4>3. QED
        BY <4>1, <4>2 DEF Extra
    <3>4. QED
      BY <3>2, <3>3
  <2>5. QED
    BY <1>1, <2>1, <2>2, <2>4
<1>4. QED
  BY <1>2, <1>3

\* Every way down from a node counts the same, so that the height is one.
LEMMA HeightsAgree ==
  ASSUME RbInv, t.root # Nil
  PROVE  BlackHeight[t.root] # -1
<1>1. PICK under, bh, gu, gs :
        /\ Tree(t, nodes, under) /\ Balanced(t, nodes, bh, gu, gs)
        /\ cur \in nodes \cup {Nil} /\ up \in nodes \cup {Nil}
        /\ \A n \in nodes, s \in Side :
             Gap(gu, gs, n, s) = IF t.child[s][n] # Nil THEN Extra(t.child[s][n]) ELSE EndOf(n, s)
  BY ShortIs
<1>2. /\ nodes \subseteq Node /\ Nil \notin nodes /\ t.red \subseteq nodes /\ t.root \in nodes
      /\ \A n \in nodes, s \in Side : t.child[s][n] \in nodes \cup {Nil}
      /\ \A n \in Node, s \in Side : n \notin nodes => t.child[s][n] = Nil
      /\ "left" \in Side /\ "right" \in Side
  <2>1. \A n \in Node, s \in Side : n \notin nodes => t.child[s][n] = Nil
    BY <1>1 DEF Tree, Linked
  <2>2. QED
    BY <1>1, <2>1, ShapeIs, SidesAre
<1>3. bh[Nil] = 0 /\ \A n \in nodes \cup {Nil} : bh[n] \in Nat
  <2>1. \A n \in nodes \cup {Nil} : n \in Link
    BY <1>2 DEF Link
  <2>2. QED
    BY <1>1, <2>1 DEF Balanced
<1>4. /\ \A n : Extra(n) \in {0, 1} /\ (IF Red(t, n) THEN 0 ELSE 1) \in {0, 1}
      /\ \A n, s : EndOf(n, s) \in {0, 1}
  BY DEF Extra, EndOf
<1>5. ASSUME NEW f, NEW n \in nodes,
             \A s \in Side : t.child[s][n] # Nil => f[t.child[s][n]] = bh[t.child[s][n]] + Extra(t.child[s][n])
      PROVE  HeightOf(f, n) = bh[n] + Extra(n) /\ HeightOf(f, n) \in Nat
  <2>1. ASSUME NEW s \in Side
        PROVE  /\ Below(f, n, s) \in Nat
               /\ bh[n] = Below(f, n, s) + IF Red(t, n) THEN 0 ELSE 1
    <3> DEFINE d == t.child[s][n]
    <3>1. bh[n] = bh[d] + Gap(gu, gs, n, s) + Weight(t, n)
      BY <1>1 DEF Balanced
    <3>2. Weight(t, n) = IF Red(t, n) THEN 0 ELSE 1
      BY DEF Weight, Red
    <3>3. Gap(gu, gs, n, s) = IF d # Nil THEN Extra(d) ELSE EndOf(n, s)
      BY <1>1
    <3>4. bh[d] \in Nat /\ d \in nodes \cup {Nil}
      BY <1>2, <1>3
    <3>5. Below(f, n, s) = IF d # Nil THEN f[d] ELSE EndOf(n, s)
      BY DEF Below
    <3>6. d # Nil => f[d] = bh[d] + Extra(d)
      BY <1>5
    <3> HIDE DEF d
    <3>7. Below(f, n, s) = bh[d] + Gap(gu, gs, n, s) /\ Gap(gu, gs, n, s) \in {0, 1}
      <4>1. CASE d = Nil
        BY <1>3, <1>4, <3>3, <3>5, <4>1
      <4>2. CASE d # Nil
        BY <1>4, <3>3, <3>5, <3>6, <4>2
      <4>3. QED
        BY <4>1, <4>2
    <3> DEFINE x == Below(f, n, s)
               y == Gap(gu, gs, n, s)
    <3>8. x = bh[d] + y /\ y \in {0, 1} /\ bh[n] = bh[d] + y + Weight(t, n)
      BY <3>1, <3>7
    <3> HIDE DEF x, y
    <3>9. x \in Nat /\ bh[n] = x + Weight(t, n)
      BY <3>4, <3>8
    <3>10. QED
      BY <3>2, <3>9 DEF x
  <2> DEFINE l == Below(f, n, "left")
             r == Below(f, n, "right")
             v == IF Red(t, n) THEN 0 ELSE 1
  <2>2. l \in Nat /\ r \in Nat /\ bh[n] = l + v /\ bh[n] = r + v
    BY <1>2, <2>1
  <2>3. v \in {0, 1} /\ Extra(n) \in {0, 1}
    BY <1>4
  <2>4. HeightOf(f, n) = IF l = -1 \/ l # r THEN -1 ELSE l + Extra(n) + v
    BY DEF HeightOf
  <2> HIDE DEF l, r, v
  <2>5. l = r /\ l # -1
    BY <2>2, <2>3
  <2>6. HeightOf(f, n) = l + Extra(n) + v
    BY <2>4, <2>5
  <2>7. QED
    BY <2>2, <2>3, <2>6
<1>6. \E f : Counts(f)
  <2> DEFINE f == [n \in Node |-> IF n \in nodes THEN bh[n] + Extra(n) ELSE 1]
  <2>1. \A n \in nodes : f[n] = bh[n] + Extra(n)
    BY <1>2
  <2>2. \A n \in Node : n \notin nodes => f[n] = 1
    OBVIOUS
  <2>3. DOMAIN f = Node /\ f = [n \in Node |-> f[n]]
    OBVIOUS
  <2> HIDE DEF f
  <2>4. ASSUME NEW n \in Node PROVE f[n] = HeightOf(f, n)
    <3>1. CASE n \in nodes
      <4>1. \A s \in Side : t.child[s][n] # Nil => f[t.child[s][n]] = bh[t.child[s][n]] + Extra(t.child[s][n])
        BY <1>2, <2>1, <3>1
      <4>2. HeightOf(f, n) = bh[n] + Extra(n)
        BY <1>5, <3>1, <4>1
      <4>3. QED
        BY <2>1, <3>1, <4>2
    <3>2. CASE n \notin nodes
      <4>1. n # cur /\ n # up
        BY <1>1, <1>2, <3>2, NodesAre
      <4>2. Extra(n) = 0 /\ EndOf(n, "left") = 0 /\ EndOf(n, "right") = 0
        BY <4>1 DEF Extra, EndOf
      <4>3. Below(f, n, "left") = 0 /\ Below(f, n, "right") = 0 /\ ~Red(t, n)
        BY <1>2, <3>2, <4>2 DEF Below, Red
      <4>4. HeightOf(f, n) = 1
        BY <4>2, <4>3 DEF HeightOf
      <4>5. QED
        BY <2>2, <3>2, <4>4
    <3>3. QED
      BY <3>1, <3>2
  <2>5. Counts(f)
    BY <2>3, <2>4 DEF Counts
  <2>6. QED
    BY <2>5
<1>7. Counts(BlackHeight)
  BY <1>6, BlackHeightIs
<1>8. \A n \in Node : BlackHeight[n] = HeightOf(BlackHeight, n)
  <2> DEFINE f == BlackHeight
  <2>1. f = [n \in Node |-> HeightOf(f, n)]
    BY <1>7 DEF Counts
  <2> HIDE DEF f
  <2>2. \A n \in Node : f[n] = HeightOf(f, n)
    BY <2>1
  <2>3. QED
    BY <2>2 DEF f
<1> DEFINE S == {n \in nodes : BlackHeight[n] = bh[n] + Extra(n) /\ BlackHeight[n] \in Nat}
<1>9. ASSUME NEW n \in nodes, \A s \in Side : t.child[s][n] # Nil => t.child[s][n] \in S
      PROVE  n \in S
  <2>1. \A s \in Side : t.child[s][n] # Nil =>
          BlackHeight[t.child[s][n]] = bh[t.child[s][n]] + Extra(t.child[s][n])
    BY <1>9
  <2>2. HeightOf(BlackHeight, n) = bh[n] + Extra(n) /\ HeightOf(BlackHeight, n) \in Nat
    BY <1>5, <2>1
  <2>3. QED
    BY <1>2, <1>8, <2>2
<1> HIDE DEF S
<1>10. \A n \in nodes : n \in S
  BY <1>1, <1>9, TreeInduction
<1>11. BlackHeight[t.root] \in Nat
  BY <1>2, <1>10 DEF S
<1>12. QED
  BY <1>11

\* The red-black rules.
LEMMA RedBlackIs ==
  ASSUME RbInv
  PROVE  RedBlack
<1>1. ASSUME NEW n \in t.red, n # cur
      PROVE  /\ t.parent[n] # Nil
             /\ Black(t, t.parent[n]) \/ (pc = "erase" /\ t.parent[n] = cur)
  <2>1. n # Nil
    BY TreeIs, ShapeIs
  <2>2. CASE pc = "idle"
    <3>1. Reds(t, Nil, Nil)
      BY <2>2 DEF RbInv, Settled
    <3>2. QED
      BY <2>1, <3>1 DEF Reds, Black
  <2>3. CASE pc = "insert"
    <3>1. Reds(t, cur, Nil)
      BY <2>3 DEF RbInv, Inserting
    <3>2. QED
      BY <1>1, <3>1 DEF Reds, Black
  <2>4. CASE pc = "erase"
    <3>1. Reds(t, cur, cur)
      BY <2>4 DEF RbInv, Erasing
    <3>2. QED
      BY <1>1, <2>4, <3>1 DEF Reds, Black
  <2>5. QED
    BY <2>2, <2>3, <2>4 DEF RbInv
<1>2. QED
  BY <1>1, HeightsAgree DEF RedBlack

(***************************************************************************)
(* __mtree_release                                                         *)
(***************************************************************************)

\* The function of the recursion of __mtree_release.
Frees(tr, f) ==
  f = [m \in Node |->
         {m} \cup UNION {IF tr.child[s][m] = Nil THEN {} ELSE f[tr.child[s][m]] : s \in Side}]

\* What a recursion over the children that frees every node it comes to frees.
LEMMA FreesIs ==
  ASSUME NEW tr, NEW f, NEW m \in Node, Frees(tr, f),
         NEW a, a = tr.child["left"][m], NEW b, b = tr.child["right"][m]
  PROVE  f[m] = {m} \cup (IF a = Nil THEN {} ELSE f[a]) \cup (IF b = Nil THEN {} ELSE f[b])
<1> DEFINE F(s) == IF tr.child[s][m] = Nil THEN {} ELSE f[tr.child[s][m]]
<1>1. f[m] = {m} \cup UNION {F(s) : s \in Side}
  BY DEF Frees
<1>2. F("left") = (IF a = Nil THEN {} ELSE f[a]) /\ F("right") = (IF b = Nil THEN {} ELSE f[b])
  OBVIOUS
<1> HIDE DEF F
<1>3. UNION {F(s) : s \in Side} = F("left") \cup F("right")
  BY DEF Side
<1>4. QED
  BY <1>1, <1>2, <1>3

\* The release of a tree frees the nodes of the tree, and nothing else.
LEMMA ReleasedIs ==
  ASSUME NEW tr, NEW ns, NEW under, Tree(tr, ns, under)
  PROVE  Released(tr, tr.root) = ns
<1> DEFINE g == [m \in Node |-> IF m \in ns THEN under[m] ELSE {m}]
           f == CHOOSE f : Frees(tr, f)
<1>1. /\ ns \subseteq Node /\ Nil \notin ns /\ under[Nil] = {}
      /\ \A m \in ns, s \in Side : tr.child[s][m] \in ns \cup {Nil}
      /\ \A m \in Node, s \in Side : m \notin ns => tr.child[s][m] = Nil
      /\ \A m \in ns : under[m] = {m} \cup under[tr.child["left"][m]] \cup under[tr.child["right"][m]]
  BY LinksAre DEF Tree, Linked, Sorted
<1>2. Frees(tr, g)
  <2>1. ASSUME NEW m \in Node
        PROVE  g[m] = {m} \cup UNION {IF tr.child[s][m] = Nil THEN {} ELSE g[tr.child[s][m]] : s \in Side}
    <3> DEFINE G(s) == IF tr.child[s][m] = Nil THEN {} ELSE g[tr.child[s][m]]
    <3>1. g[m] = {m} \cup G("left") \cup G("right")
      <4>1. CASE m \in ns
        <5>1. \A s \in Side : G(s) = under[tr.child[s][m]]
          BY <1>1, <4>1
        <5>2. g[m] = under[m]
          BY <4>1
        <5> HIDE DEF G, g
        <5>3. QED
          BY <1>1, <4>1, <5>1, <5>2, SidesAre
      <4>2. CASE m \notin ns
        <5>1. \A s \in Side : G(s) = {}
          BY <1>1, <4>2
        <5>2. g[m] = {m}
          BY <4>2
        <5> HIDE DEF G, g
        <5>3. QED
          BY <5>1, <5>2, SidesAre
      <4>3. QED
        BY <4>1, <4>2
    <3> HIDE DEF G
    <3>2. UNION {G(s) : s \in Side} = G("left") \cup G("right")
      BY DEF Side
    <3>3. g[m] = {m} \cup UNION {G(s) : s \in Side}
      BY <3>1, <3>2
    <3>4. QED
      BY <3>3 DEF G
  <2> DEFINE h == [m \in Node |->
         {m} \cup UNION {IF tr.child[s][m] = Nil THEN {} ELSE g[tr.child[s][m]] : s \in Side}]
  <2>2. g = h
    <3>1. \A m \in Node : g[m] = h[m]
      BY <2>1
    <3>2. QED
      BY <3>1
  <2>3. QED
    BY <2>2 DEF Frees
<1> HIDE DEF g
<1>3. Frees(tr, f)
  BY <1>2
<1>4. tr.root # Nil => Released(tr, tr.root) = f[tr.root]
  BY DEF Released, Frees
<1> HIDE DEF f
<1> DEFINE S == {m \in ns : f[m] = under[m]}
<1>5. ASSUME NEW m \in ns, \A x \in Side : tr.child[x][m] # Nil => tr.child[x][m] \in S
      PROVE  m \in S
  <2> DEFINE a == tr.child["left"][m]
             b == tr.child["right"][m]
  <2>1. f[m] = {m} \cup (IF a = Nil THEN {} ELSE f[a]) \cup (IF b = Nil THEN {} ELSE f[b])
    BY <1>1, <1>3, FreesIs
  <2>2. (a # Nil => f[a] = under[a]) /\ (b # Nil => f[b] = under[b])
    BY <1>5, SidesAre
  <2>3. f[m] = {m} \cup under[a] \cup under[b]
    BY <1>1, <2>1, <2>2
  <2>4. QED
    BY <1>1, <2>3
<1> HIDE DEF S
<1>6. \A m \in ns : m \in S
  BY <1>5, TreeInduction
<1>7. CASE tr.root = Nil
  <2>1. ns = {}
    BY <1>7 DEF Tree, Linked
  <2>2. QED
    BY <1>7, <2>1 DEF Released
<1>8. CASE tr.root # Nil
  <2>1. tr.root \in ns /\ under[tr.root] = ns
    BY <1>8 DEF Tree, Linked, Sorted
  <2>2. QED
    BY <1>4, <1>6, <1>8, <2>1 DEF S
<1>9. QED
  BY <1>7, <1>8

(***************************************************************************)
(* mtree_lower_bound and mtree_upper_bound                                 *)
(***************************************************************************)

\* Node n is on the right side of the bound k, or at it: for the lower bound,
\* which looks further on the left from there, s is "left".
Holds(s, k, n) == IF s = "left" THEN KeyOf(n) >= k ELSE KeyOf(n) <= k

\* The side the loop takes at node n.
BoundSide(s, k, n) == IF Holds(s, k, n) THEN s ELSE Other(s)

\* The function of the loops of the bounds.
Bounds(tr, s, k, f) ==
  f = [n \in Node |->
         LET below == IF tr.child[BoundSide(s, k, n)][n] = Nil THEN Nil
                      ELSE f[tr.child[BoundSide(s, k, n)][n]]
         IN  IF below = Nil /\ Holds(s, k, n) THEN n ELSE below]

\* y is the node nearest to the bound of those that hold, or none does.
AtBound(ns, s, k, y) ==
  IF y = Nil THEN \A m \in ns : ~Holds(s, k, m)
  ELSE y \in ns /\ Holds(s, k, y) /\ \A m \in ns : Holds(s, k, m) => m = y \/ Toward(Other(s), m, y)

\* What is beyond a node short of the bound is short of it too.
LEMMA HoldsIs ==
  ASSUME NEW s \in Side, NEW k \in Int
  PROVE  /\ \A m, n \in Node : Toward(s, m, n) /\ ~Holds(s, k, n) => ~Holds(s, k, m)
         /\ \A n : BoundSide(s, k, n) \in Side
         /\ \A n : Holds(s, k, n) => BoundSide(s, k, n) = s
         /\ \A n : ~Holds(s, k, n) => BoundSide(s, k, n) = Other(s)
<1>1. \A m, n \in Node : Toward(s, m, n) /\ ~Holds(s, k, n) => ~Holds(s, k, m)
  BY NodesAre DEF Toward, Holds
<1>2. QED
  BY <1>1, SidesAre DEF BoundSide

\* The loops end, since they go down.
LEMMA BoundExists ==
  ASSUME NEW tr, NEW ns, NEW under, Tree(tr, ns, under), NEW s \in Side, NEW k \in Int
  PROVE  \E f : Bounds(tr, s, k, f)
<1> DEFINE step == [n \in Node |-> tr.child[BoundSide(s, k, n)][n]]
           last == [n \in Node |-> IF Holds(s, k, n) THEN n ELSE Nil]
           back == [n \in Node |-> [v \in Link |-> IF v = Nil /\ Holds(s, k, n) THEN n ELSE v]]
<1>1. /\ \A n \in Node, y \in Side : tr.child[y][n] \in Link
      /\ \A n \in Node : BoundSide(s, k, n) \in Side
      /\ Nil \notin Node
  BY LinksAre, HoldsIs, NodesAre DEF Tree
<1>2. step \in [Node -> Node \cup {Nil}] /\ last \in [Node -> Link] /\ back \in [Node -> [Link -> Link]]
  BY <1>1 DEF Link
<1>3. \A n \in Node : step[n] # Nil => Size(under)[step[n]] < Size(under)[n]
  <2>1. \A n \in Node : step[n] # Nil => n \in ns
    BY <1>1 DEF Tree, Linked
  <2>2. QED
    BY <1>1, <2>1, SizeIs
<1>4. Size(under) \in [Node -> 0..Cardinality(Node)] /\ Cardinality(Node) \in Nat
  BY SizeIs, NodesAre
<1>5. PICK f \in [Node -> Link] : Loops(Node, Nil, step, last, back, f)
  <2> HIDE DEF step, last, back
  <2>1. QED
    BY <1>1, <1>2, <1>3, <1>4, LoopExists
<1>6. ASSUME NEW n \in Node
      PROVE  f[n] = LET below == IF tr.child[BoundSide(s, k, n)][n] = Nil THEN Nil
                                 ELSE f[tr.child[BoundSide(s, k, n)][n]]
                    IN  IF below = Nil /\ Holds(s, k, n) THEN n ELSE below
  <2> DEFINE c == tr.child[BoundSide(s, k, n)][n]
  <2>1. f[n] = IF step[n] = Nil THEN last[n] ELSE back[n][f[step[n]]]
    BY <1>5 DEF Loops
  <2>2. step[n] = c /\ last[n] = (IF Holds(s, k, n) THEN n ELSE Nil)
        /\ \A v \in Link : back[n][v] = IF v = Nil /\ Holds(s, k, n) THEN n ELSE v
    OBVIOUS
  <2>3. c # Nil => f[c] \in Link
    BY <1>1 DEF Link
  <2> HIDE DEF c, step, last, back
  <2>4. f[n] = LET below == IF c = Nil THEN Nil ELSE f[c]
               IN  IF below = Nil /\ Holds(s, k, n) THEN n ELSE below
    BY <2>1, <2>2, <2>3
  <2>5. QED
    BY <2>4 DEF c
<1>7. Bounds(tr, s, k, f)
  BY <1>6 DEF Bounds
<1>8. QED
  BY <1>7

\* The loops find the bound.
LEMMA BoundIs ==
  ASSUME NEW tr, NEW ns, NEW under, Tree(tr, ns, under), NEW s \in Side, NEW k \in Int,
         NEW f, Bounds(tr, s, k, f), NEW n \in ns
  PROVE  AtBound(under[n], s, k, f[n])
<1>1. /\ ns \subseteq Node /\ Nil \notin ns /\ Other(s) \in Side /\ Other(Other(s)) = s
      /\ \A m \in ns, x \in Side : tr.child[x][m] \in ns \cup {Nil}
      /\ under[Nil] = {}
  BY LinksAre, SidesAre DEF Tree, Sorted
<1> DEFINE S == {m \in ns : AtBound(under[m], s, k, f[m])}
<1>2. ASSUME NEW m \in ns, \A x \in Side : tr.child[x][m] # Nil => tr.child[x][m] \in S
      PROVE  m \in S
  <2> DEFINE c == tr.child[s][m]
             o == tr.child[Other(s)][m]
             w == tr.child[BoundSide(s, k, m)][m]
             v == IF w = Nil THEN Nil ELSE f[w]
  <2>1. f[m] = IF v = Nil /\ Holds(s, k, m) THEN m ELSE v
    BY <1>1 DEF Bounds
  <2>2. /\ under[m] = {m} \cup under[c] \cup under[o] /\ under[m] \subseteq Node /\ m \in Node
        /\ m # Nil /\ c \in ns \cup {Nil} /\ o \in ns \cup {Nil}
        /\ \A y \in under[c] : Toward(s, y, m) /\ y \in Node /\ y # Nil
        /\ \A y \in under[o] : Toward(Other(s), y, m) /\ y \in Node /\ y # Nil
    <3>1. under[m] = {m} \cup under[c] \cup under[o] /\ under[m] \subseteq ns
      BY UnderIs
    <3>2. \A x \in Side : \A y \in under[tr.child[x][m]] : Toward(x, y, m)
      BY DEF Tree, Sorted
    <3>3. QED
      BY <1>1, <3>1, <3>2
  <2>3. w = IF Holds(s, k, m) THEN c ELSE o
    BY HoldsIs DEF BoundSide
  <2>4. AtBound(under[w], s, k, v)
    <3>1. CASE w = Nil
      BY <1>1, <3>1 DEF AtBound
    <3>2. CASE w # Nil
      <4>1. w \in S
        BY <1>1, <1>2, <2>3, <3>2
      <4>2. QED
        BY <3>2, <4>1
    <3>3. QED
      BY <3>1, <3>2
  <2> HIDE DEF c, o, w, v
  <2>5. CASE Holds(s, k, m)
    <3>1. w = c
      BY <2>3, <2>5
    <3>2. CASE v = Nil
      <4>1. f[m] = m /\ \A y \in under[c] : ~Holds(s, k, y)
        BY <2>1, <2>4, <2>5, <3>1, <3>2 DEF AtBound
      <4>2. AtBound(under[m], s, k, m)
        BY <2>2, <2>5, <4>1 DEF AtBound
      <4>3. QED
        BY <4>1, <4>2
    <3>3. CASE v # Nil
      <4>1. /\ f[m] = v /\ v \in under[c] /\ Holds(s, k, v)
            /\ \A y \in under[c] : Holds(s, k, y) => y = v \/ Toward(Other(s), y, v)
        BY <2>1, <2>4, <3>1, <3>3 DEF AtBound
      <4>2. v \in Node /\ Toward(Other(s), m, v)
        BY <1>1, <2>2, <4>1, OrderIs
      <4>3. \A y \in under[o] : Toward(Other(s), y, v)
        BY <1>1, <2>2, <4>2, OrderIs
      <4>4. AtBound(under[m], s, k, v)
        BY <2>2, <3>3, <4>1, <4>2, <4>3 DEF AtBound
      <4>5. QED
        BY <4>1, <4>4
    <3>4. QED
      BY <3>2, <3>3
  <2>6. CASE ~Holds(s, k, m)
    <3>1. w = o /\ f[m] = v
      BY <2>1, <2>3, <2>6
    <3>2. \A y \in under[c] : ~Holds(s, k, y)
      BY <2>2, <2>6, HoldsIs
    <3>3. AtBound(under[m], s, k, v)
      BY <2>2, <2>4, <2>6, <3>1, <3>2 DEF AtBound
    <3>4. QED
      BY <3>1, <3>3
  <2>7. QED
    BY <2>5, <2>6
<1> HIDE DEF S
<1>3. n \in S
  BY <1>2, TreeInduction
<1>4. QED
  BY <1>3 DEF S

\* mtree_lower_bound, and mtree_upper_bound, in the tree.
LEMMA BoundsAre ==
  ASSUME NEW under, Tree(t, nodes, under), NEW k \in Int
  PROVE  /\ AtBound(nodes, "left", k, LowerBound(k))
         /\ AtBound(nodes, "right", k, UpperBound(k))
<1> DEFINE f == CHOOSE f : Bounds(t, "left", k, f)
           g == CHOOSE g : Bounds(t, "right", k, g)
<1>1. Bounds(t, "left", k, f) /\ Bounds(t, "right", k, g)
  BY BoundExists, SidesAre
<1>2. t.root # Nil => LowerBound(k) = f[t.root]
  BY DEF LowerBound, Bounds, BoundSide, Holds, Other
<1>3. t.root # Nil => UpperBound(k) = g[t.root]
  BY DEF UpperBound, Bounds, BoundSide, Holds, Other
<1> HIDE DEF f, g
<1>4. CASE t.root = Nil
  <2>1. nodes = {} /\ LowerBound(k) = Nil /\ UpperBound(k) = Nil
    BY <1>4 DEF Tree, Linked, LowerBound, UpperBound
  <2>2. QED
    BY <2>1 DEF AtBound
<1>5. CASE t.root # Nil
  <2>1. t.root \in nodes /\ under[t.root] = nodes
    BY <1>5 DEF Tree, Linked, Sorted
  <2>2. AtBound(under[t.root], "left", k, f[t.root])
    BY <1>1, <2>1, BoundIs, SidesAre
  <2>3. AtBound(under[t.root], "right", k, g[t.root])
    BY <1>1, <2>1, BoundIs, SidesAre
  <2>4. QED
    BY <1>2, <1>3, <1>5, <2>1, <2>2, <2>3
<1>6. QED
  BY <1>4, <1>5

(***************************************************************************)
(* The invariant of the memory tree                                        *)
(***************************************************************************)

\* c0 as in RbInv; c1 between two calls, with nodes of its own.
MtreeInv ==
  /\ RbInv
  /\ Settled(c1.tree, c1.nodes)
  /\ nodes \cap c1.nodes = {}
  /\ node \in Node \cup {Nil}

\* The nodes of the tree the iterator's node is in.
Mine == IF node \in nodes THEN nodes ELSE c1.nodes

\* Both trees are ordered trees of their nodes.
LEMMA BothAreTrees ==
  ASSUME MtreeInv
  PROVE  /\ \E under : Tree(t, nodes, under)
         /\ \E under : Tree(c1.tree, c1.nodes, under)
         /\ nodes \subseteq Node /\ c1.nodes \subseteq Node
<1>1. /\ \E under : Tree(t, nodes, under)
      /\ \E under : Tree(c1.tree, c1.nodes, under)
  BY TreeIs DEF MtreeInv, Settled
<1>2. QED
  BY <1>1, ShapeIs

\* Where a move of the iterator goes, also in the tree that was swapped away.
LEMMA MoveIs ==
  ASSUME MtreeInv, node \in Live, NEW s \in Side
  PROVE  /\ IsNeighbour(Mine, node, s, Neighbour(Around(node), node, s))
         /\ node \in Mine /\ Mine \subseteq Node
<1>1. CASE node \in nodes
  <2>1. node \notin c1.nodes /\ Mine = nodes /\ Around(node) = t
    BY <1>1 DEF MtreeInv, Mine, Around
  <2>2. QED
    BY <1>1, <2>1, BothAreTrees, NeighbourIs
<1>2. CASE node \notin nodes
  <2>1. node \in c1.nodes /\ Mine = c1.nodes /\ Around(node) = c1.tree
    BY <1>2 DEF Live, Mine, Around
  <2>2. QED
    BY <1>2, <2>1, BothAreTrees, NeighbourIs
<1>3. QED
  BY <1>1, <1>2

\* Where the iterator can go to: nodes, or the end.
LEMMA TargetsAre ==
  ASSUME MtreeInv
  PROVE  /\ \A k \in Sought : LowerBound(k) \in Node \cup {Nil} /\ UpperBound(k) \in Node \cup {Nil}
         /\ \A s \in Side : Extreme(t, t.root, s) \in Node \cup {Nil}
         /\ node \in Live => \A s \in Side : Neighbour(Around(node), node, s) \in Node \cup {Nil}
<1>1. PICK under : Tree(t, nodes, under)
  BY BothAreTrees
<1>2. nodes \subseteq Node
  BY BothAreTrees
<1>3. \A k \in Sought : k \in Int
  BY MtreeAssumption DEF MtreeAssumption, Key
<1>4. \A k \in Sought : LowerBound(k) \in Node \cup {Nil} /\ UpperBound(k) \in Node \cup {Nil}
  <2> TAKE k \in Sought
  <2>1. AtBound(nodes, "left", k, LowerBound(k)) /\ AtBound(nodes, "right", k, UpperBound(k))
    BY <1>1, <1>3, BoundsAre
  <2>2. QED
    BY <1>2, <2>1 DEF AtBound
<1>5. \A s \in Side : Extreme(t, t.root, s) \in Node \cup {Nil}
  <2>1. \A s \in Side : s = "left" \/ s = "right"
    BY DEF Side
  <2> DEFINE ks == {KeyOf(m) : m \in nodes}
  <2>2. ks = {KeyOf(m) : m \in nodes}
    OBVIOUS
  <2> HIDE DEF ks
  <2>3. /\ IF ks = {} THEN Extreme(t, t.root, "left") = Nil
           ELSE Extreme(t, t.root, "left") \in nodes
        /\ IF ks = {} THEN Extreme(t, t.root, "right") = Nil
           ELSE Extreme(t, t.root, "right") \in nodes
    BY <1>1, <2>2, ExtremeIsEnd
  <2>4. QED
    BY <1>2, <2>1, <2>3
<1>6. node \in Live => \A s \in Side : Neighbour(Around(node), node, s) \in Node \cup {Nil}
  <2> SUFFICES ASSUME node \in Live, NEW s \in Side
               PROVE  Neighbour(Around(node), node, s) \in Node \cup {Nil}
    OBVIOUS
  <2>1. IsNeighbour(Mine, node, s, Neighbour(Around(node), node, s)) /\ Mine \subseteq Node
    BY MoveIs
  <2>2. QED
    BY <2>1 DEF IsNeighbour
<1>7. QED
  BY <1>4, <1>5, <1>6

\* Two empty trees.
LEMMA InitHasMtreeInv == MtreeInit => MtreeInv
<1> SUFFICES ASSUME MtreeInit PROVE MtreeInv
  OBVIOUS
<1>1. RbInv
  BY InitHasRbInv DEF MtreeInit
<1>2. Settled(None.tree, {}) /\ None.nodes = {}
  BY EmptyIsSettled DEF None
<1>3. QED
  BY <1>1, <1>2 DEF MtreeInit, Init, MtreeInv

\* A call of the iterator leaves the trees alone and ends at a node or the end.
LEMMA SettlesKeeps ==
  ASSUME MtreeInv, NEW n \in Node \cup {Nil}, Settles(n)
  PROVE  MtreeInv'
BY DEF MtreeInv, RbInv, Settles, vars

\* mtree_add takes a node that neither tree has.
LEMMA AddKeepsMtreeInv ==
  ASSUME MtreeInv, NEW n \in Node, MtreeAdd(n)
  PROVE  MtreeInv'
<1>1. RbInv' /\ nodes' \subseteq nodes \cup {n} /\ n \notin c1.nodes /\ c1' = c1 /\ node' = node
  <2>1. CASE Insert(n)
    <3>1. RbInv'
      BY <2>1, InsertKeeps DEF MtreeInv
    <3>2. nodes' = nodes \cup {n}
      BY <2>1 DEF Insert
    <3>3. QED
      BY <3>1, <3>2 DEF MtreeAdd
  <2>2. CASE Replace(n)
    <3>1. RbInv'
      BY <2>2, ReplaceKeeps DEF MtreeInv
    <3>2. nodes' \subseteq nodes \cup {n}
      BY <2>2 DEF Replace
    <3>3. QED
      BY <3>1, <3>2 DEF MtreeAdd
  <2>3. QED
    BY <2>1, <2>2 DEF MtreeAdd
<1>2. QED
  BY <1>1 DEF MtreeInv

\* A turn of a fix-up, or an erase, adds no node.
LEMMA RbCallKeepsMtreeInv ==
  ASSUME MtreeInv, RbCall
  PROVE  MtreeInv'
<1>1. RbInv'
  <2>1. Next
    BY DEF RbCall, Next
  <2>2. QED
    BY <2>1, StepKeepsRbInv DEF MtreeInv
<1>2. nodes' \subseteq nodes
  <2>1. CASE InsertTurn
    BY <2>1 DEF InsertTurn, InsertRecolour, InsertRotate, InsertEnds
  <2>2. CASE EraseTurn
    BY <2>2 DEF EraseTurn, EraseUp, EraseRotate, EraseEnds
  <2>3. CASE \E n \in Node : Erase(n)
    BY <2>3 DEF Erase
  <2>4. QED
    BY <2>1, <2>2, <2>3 DEF RbCall
<1>3. QED
  BY <1>1, <1>2 DEF RbCall, MtreeInv

\* mtree_swap exchanges two trees that no fix-up is in.
LEMMA SwapKeepsMtreeInv ==
  ASSUME MtreeInv, MtreeSwap
  PROVE  MtreeInv'
BY DEF MtreeInv, MtreeSwap, RbInv

\* mtree_reset frees all of c1, and leaves an empty tree.
LEMMA ResetKeepsMtreeInv ==
  ASSUME MtreeInv, MtreeReset
  PROVE  MtreeInv'
<1>1. Released(c1.tree, c1.tree.root) = c1.nodes
  BY BothAreTrees, ReleasedIs
<1>2. c1'.nodes = {} /\ c1'.tree = None.tree
  BY <1>1 DEF MtreeReset, None
<1>3. Settled(None.tree, {})
  BY EmptyIsSettled DEF None
<1>4. QED
  BY <1>2, <1>3 DEF MtreeInv, MtreeReset, RbInv, vars

\* Every step keeps the invariant.
LEMMA StepKeepsMtreeInv ==
  ASSUME MtreeInv, [MtreeStep]_mtreeVars
  PROVE  MtreeInv'
<1>1. CASE UNCHANGED mtreeVars
  BY <1>1 DEF mtreeVars, vars, MtreeInv, RbInv
<1>2. ASSUME NEW n \in Node, MtreeAdd(n) PROVE MtreeInv'
  BY <1>2, AddKeepsMtreeInv
<1>3. CASE RbCall
  BY <1>3, RbCallKeepsMtreeInv
<1>4. CASE MtreeSwap
  BY <1>4, SwapKeepsMtreeInv
<1>5. CASE MtreeReset
  BY <1>5, ResetKeepsMtreeInv
<1>6. ASSUME NEW k \in Sought, MtreeLowerBound(k) \/ MtreeUpperBound(k) \/ MtreeLookup(k)
      PROVE  MtreeInv'
  <2>1. LowerBound(k) \in Node \cup {Nil} /\ UpperBound(k) \in Node \cup {Nil}
    BY TargetsAre
  <2> DEFINE found == IF LowerBound(k) # Nil /\ KeyOf(LowerBound(k)) = k THEN LowerBound(k) ELSE Nil
  <2>2. found \in Node \cup {Nil}
    BY <2>1
  <2>3. Settles(LowerBound(k)) \/ Settles(UpperBound(k)) \/ Settles(found)
    BY <1>6 DEF MtreeLowerBound, MtreeUpperBound, MtreeLookup
  <2> HIDE DEF found
  <2>4. QED
    BY <2>1, <2>2, <2>3, SettlesKeeps
<1>7. CASE MtreeBegin
  <2>1. Extreme(t, t.root, "left") \in Node \cup {Nil}
    BY TargetsAre, SidesAre
  <2>2. QED
    BY <1>7, <2>1, SettlesKeeps DEF MtreeBegin
<1>8. CASE MtreeEnd
  BY <1>8, SettlesKeeps DEF MtreeEnd
<1>9. CASE MtreeNext
  <2> DEFINE n == IF node = Nil THEN Nil ELSE Neighbour(Around(node), node, "right")
  <2>1. Settles(n) /\ Usable
    BY <1>9 DEF MtreeNext
  <2>2. n \in Node \cup {Nil}
    BY <2>1, TargetsAre, SidesAre DEF Usable
  <2> HIDE DEF n
  <2>3. QED
    BY <2>1, <2>2, SettlesKeeps
<1>10. CASE MtreePrev
  <2> DEFINE n == IF node = Extreme(t, t.root, "left") THEN node
                  ELSE IF node = Nil THEN Extreme(t, t.root, "right")
                  ELSE Neighbour(Around(node), node, "left")
  <2>1. Settles(n) /\ Usable
    BY <1>10 DEF MtreePrev
  <2>2. n \in Node \cup {Nil}
    <3>1. node \in Node \cup {Nil}
      BY DEF MtreeInv
    <3>2. QED
      BY <2>1, <3>1, TargetsAre, SidesAre DEF Usable
  <2> HIDE DEF n
  <2>3. QED
    BY <2>1, <2>2, SettlesKeeps
<1>11. QED
  BY <1>1, <1>2, <1>3, <1>4, <1>5, <1>6, <1>7, <1>8, <1>9, <1>10 DEF MtreeStep

\* The types of both trees and of the iterator.
LEMMA MtreeTypeIs ==
  ASSUME MtreeInv
  PROVE  MtreeTypeOK
<1>1. TypeOK
  BY TypeIs DEF MtreeInv
<1>2. c1.tree.root \in c1.nodes \cup {Nil}
  BY BothAreTrees, ShapeIs
<1>3. QED
  BY <1>1, <1>2 DEF MtreeInv, MtreeTypeOK

\* Both trees would be released in full.
LEMMA NothingLeaksIs ==
  ASSUME MtreeInv
  PROVE  NothingLeaks
BY BothAreTrees, ReleasedIs DEF NothingLeaks

(***************************************************************************)
(* The iterator                                                            *)
(***************************************************************************)

\* The node with the least key of some nodes, the one with the greatest, and
\* neither, if there are no nodes.
LEMMA BestNodeIs ==
  ASSUME NEW ns, ns \subseteq Node
  PROVE  /\ \A y \in ns : (\A m \in ns : KeyOf(y) <= KeyOf(m)) => IsBest(y, ns, Min)
         /\ \A y \in ns : (\A m \in ns : KeyOf(y) >= KeyOf(m)) => IsBest(y, ns, Max)
         /\ ns = {} => IsBest(Nil, ns, Min) /\ IsBest(Nil, ns, Max)
<1> DEFINE ks == {KeyOf(m) : m \in ns}
<1>1. ks \in SUBSET Key /\ \A m \in ns : KeyOf(m) \in ks
  BY NodesAre
<1>2. ASSUME NEW y \in ns, \A m \in ns : KeyOf(y) <= KeyOf(m) PROVE IsBest(y, ns, Min)
  <2>1. \A j \in ks : KeyOf(y) <= j
    BY <1>2
  <2> HIDE DEF ks
  <2>2. KeyOf(y) = Min(ks)
    BY <1>1, <2>1, BestIs
  <2>3. QED
    BY <2>2 DEF IsBest, ks
<1>3. ASSUME NEW y \in ns, \A m \in ns : KeyOf(y) >= KeyOf(m) PROVE IsBest(y, ns, Max)
  <2>1. \A j \in ks : KeyOf(y) >= j
    BY <1>3
  <2> HIDE DEF ks
  <2>2. KeyOf(y) = Max(ks)
    BY <1>1, <2>1, BestIs
  <2>3. QED
    BY <2>2 DEF IsBest, ks
<1>4. ns = {} => IsBest(Nil, ns, Min) /\ IsBest(Nil, ns, Max)
  BY DEF IsBest
<1>5. QED
  BY <1>2, <1>3, <1>4

\* The first and the last node.
LEMMA EndsAre ==
  ASSUME MtreeInv, NEW s \in Side, NEW e, e = Extreme(t, t.root, s)
  PROVE  IF nodes = {} THEN e = Nil
         ELSE e \in nodes /\ \A y \in nodes : y # e => Toward(s, e, y)
<1>1. PICK under : Tree(t, nodes, under)
  BY BothAreTrees
<1>2. CASE t.root = Nil
  BY <1>1, <1>2 DEF Tree, Linked, Extreme
<1>3. CASE t.root # Nil
  <2>1. t.root \in nodes /\ under[t.root] = nodes
    BY <1>1, <1>3 DEF Tree, Linked, Sorted
  <2>2. QED
    BY <1>1, <2>1, ExtremeIs
<1>4. QED
  BY <1>2, <1>3

\* mtree_next: the neighbour on the right, in the tree the node is in.
LEMMA NextFollowsMap ==
  ASSUME MtreeInv, MtreeNext, node # Nil
  PROVE  IsBest(node', After(Mine, KeyOf(node)), Min)
<1> DEFINE y == Neighbour(Around(node), node, "right")
           ns == After(Mine, KeyOf(node))
<1>1. node \in Live /\ node' = y
  BY DEF MtreeNext, Usable, Settles
<1>2. IsNeighbour(Mine, node, "right", y) /\ Mine \subseteq Node
  BY <1>1, MoveIs, SidesAre
<1> HIDE DEF y
<1>3. ns \subseteq Node
  BY <1>2 DEF After
<1>4. CASE y = Nil
  <2>1. ns = {}
    BY <1>2, <1>4 DEF IsNeighbour, Toward, After
  <2> HIDE DEF ns
  <2>2. QED
    BY <1>1, <1>3, <1>4, <2>1, BestNodeIs DEF ns
<1>5. CASE y # Nil
  <2>1. y \in ns /\ \A m \in ns : KeyOf(y) <= KeyOf(m)
    BY <1>2, <1>5, NodesAre DEF IsNeighbour, Toward, After
  <2> HIDE DEF ns
  <2>2. QED
    BY <1>1, <1>3, <2>1, BestNodeIs DEF ns
<1>6. QED
  BY <1>4, <1>5

\* mtree_prev from a node of the tree: the neighbour on the left, unless the node
\* is the first one.
LEMMA PrevFollowsMap ==
  ASSUME MtreeInv, MtreePrev, node \in nodes
  PROVE  IF Before(nodes, KeyOf(node)) = {} THEN node' = node
         ELSE IsBest(node', Before(nodes, KeyOf(node)), Max)
<1> DEFINE e == Extreme(t, t.root, "left")
           y == Neighbour(Around(node), node, "left")
           ns == Before(nodes, KeyOf(node))
<1>1. node \in Live /\ node # Nil /\ nodes \subseteq Node /\ Mine = nodes /\ node \in Node
  BY BothAreTrees, NodesAre DEF Live, Mine
<1>2. node' = IF node = e THEN node ELSE y
  BY <1>1 DEF MtreePrev, Settles
<1>3. e \in nodes /\ \A x \in nodes : x # e => KeyOf(e) < KeyOf(x)
  BY EndsAre, SidesAre DEF Toward
<1>4. IsNeighbour(nodes, node, "left", y)
  BY <1>1, MoveIs, SidesAre
<1> HIDE DEF e, y
<1>5. ns \subseteq Node
  BY <1>1 DEF Before
<1>6. CASE node = e
  <2>1. ns = {}
    BY <1>1, <1>3, <1>6, NodesAre DEF Before
  <2>2. QED
    BY <1>2, <1>6, <2>1
<1>7. CASE node # e
  <2>1. e \in ns
    BY <1>3, <1>7 DEF Before
  <2>2. y # Nil
    BY <1>3, <1>4, <1>7 DEF IsNeighbour, Toward
  <2>3. y \in ns /\ \A m \in ns : KeyOf(y) >= KeyOf(m)
    BY <1>1, <1>4, <2>2, NodesAre DEF IsNeighbour, Toward, Before
  <2>4. node' = y
    BY <1>2, <1>7
  <2> HIDE DEF ns
  <2>5. IsBest(y, ns, Max)
    BY <1>5, <2>3, BestNodeIs
  <2>6. QED
    BY <2>1, <2>4, <2>5 DEF ns
<1>8. QED
  BY <1>6, <1>7

\* mtree_prev from the end, and mtree_begin.
LEMMA EndsFollowMap ==
  ASSUME MtreeInv
  PROVE  /\ MtreePrev /\ node = Nil => IsBest(node', nodes, Max)
         /\ MtreeBegin => IsBest(node', nodes, Min)
<1> DEFINE a == Extreme(t, t.root, "left")
           b == Extreme(t, t.root, "right")
<1>1. /\ MtreePrev /\ node = Nil => node' = IF a = Nil THEN Nil ELSE b
      /\ MtreeBegin => node' = a
  BY DEF MtreePrev, MtreeBegin, Settles
<1>2. nodes \subseteq Node /\ Nil \notin Node
  BY BothAreTrees, NodesAre
<1>3. /\ IF nodes = {} THEN a = Nil ELSE a \in nodes /\ \A y \in nodes : y # a => KeyOf(a) < KeyOf(y)
      /\ IF nodes = {} THEN b = Nil ELSE b \in nodes /\ \A y \in nodes : y # b => KeyOf(b) > KeyOf(y)
  BY EndsAre, SidesAre DEF Toward
<1> HIDE DEF a, b
<1>4. CASE nodes = {}
  BY <1>1, <1>2, <1>3, <1>4, BestNodeIs
<1>5. CASE nodes # {}
  <2>1. a # Nil /\ (\A m \in nodes : KeyOf(a) <= KeyOf(m)) /\ (\A m \in nodes : KeyOf(b) >= KeyOf(m))
    BY <1>2, <1>3, <1>5, NodesAre
  <2>2. IsBest(a, nodes, Min) /\ IsBest(b, nodes, Max)
    BY <1>2, <1>3, <1>5, <2>1, BestNodeIs
  <2>3. QED
    BY <1>1, <2>1, <2>2
<1>6. QED
  BY <1>4, <1>5

\* mtree_lower_bound, mtree_upper_bound and mtree_lookup.
LEMMA BoundsFollowMap ==
  ASSUME MtreeInv, NEW k \in Sought
  PROVE  /\ MtreeLowerBound(k) => IsBest(node', After(nodes, k - 1), Min)
         /\ MtreeUpperBound(k) => IsBest(node', Before(nodes, k + 1), Max)
         /\ MtreeLookup(k) => IsBest(node', {m \in nodes : KeyOf(m) = k}, Min)
<1> DEFINE low == LowerBound(k)
           high == UpperBound(k)
           above == After(nodes, k - 1)
           below == Before(nodes, k + 1)
           same == {m \in nodes : KeyOf(m) = k}
<1>1. /\ MtreeLowerBound(k) => node' = low
      /\ MtreeUpperBound(k) => node' = high
      /\ MtreeLookup(k) => node' = IF low # Nil /\ KeyOf(low) = k THEN low ELSE Nil
  BY DEF MtreeLowerBound, MtreeUpperBound, MtreeLookup, Settles
<1>2. k \in Int /\ nodes \subseteq Node /\ Nil \notin Node /\ \A m \in nodes : KeyOf(m) \in Int
  BY MtreeAssumption, BothAreTrees, NodesAre DEF MtreeAssumption, Key
<1>3. AtBound(nodes, "left", k, low) /\ AtBound(nodes, "right", k, high)
  BY <1>2, BothAreTrees, BoundsAre
<1> HIDE DEF low, high
<1>4. /\ \A m \in nodes : m \in above <=> KeyOf(m) >= k
      /\ \A m \in nodes : m \in below <=> KeyOf(m) <= k
      /\ above \subseteq nodes /\ below \subseteq nodes /\ same \subseteq nodes
  BY <1>2 DEF After, Before
<1>5. IF low = Nil THEN above = {} ELSE low \in above /\ \A m \in above : KeyOf(low) <= KeyOf(m)
  <2> HIDE DEF above
  <2>1. QED
    BY <1>2, <1>3, <1>4, SidesAre DEF AtBound, Holds, Toward
<1>6. IF high = Nil THEN below = {} ELSE high \in below /\ \A m \in below : KeyOf(high) >= KeyOf(m)
  <2> HIDE DEF below
  <2>1. QED
    BY <1>2, <1>3, <1>4, SidesAre DEF AtBound, Holds, Toward
<1>7. IF low # Nil /\ KeyOf(low) = k THEN low \in same ELSE same = {}
  BY <1>2, <1>4, <1>5
<1>8. \A m, y \in same : KeyOf(y) <= KeyOf(m)
  BY <1>2
<1> HIDE DEF above, below, same
<1>9. IsBest(low, above, Min) /\ IsBest(high, below, Max)
  BY <1>2, <1>4, <1>5, <1>6, BestNodeIs
<1>10. IsBest(IF low # Nil /\ KeyOf(low) = k THEN low ELSE Nil, same, Min)
  BY <1>2, <1>4, <1>7, <1>8, BestNodeIs
<1>11. QED
  BY <1>1, <1>9, <1>10 DEF above, below, same

\* All calls.
LEMMA MovesFollowMap ==
  ASSUME MtreeInv
  PROVE  MoveFollowsMap
<1>1. MtreeNext /\ node # Nil => IsBest(node', After(Mine, KeyOf(node)), Min)
  BY NextFollowsMap
<1>2. MtreePrev /\ node \in nodes => IF Before(nodes, KeyOf(node)) = {} THEN node' = node
                                     ELSE IsBest(node', Before(nodes, KeyOf(node)), Max)
  BY PrevFollowsMap
<1>3. QED
  BY <1>1, <1>2, EndsFollowMap, BoundsFollowMap DEF MoveFollowsMap, Mine

(***************************************************************************)
(* How far up the tree a fix-up is                                         *)
(***************************************************************************)

\* The recursion of PlaceDepth.
Depths(pa, f) == f = [n \in Node |-> IF pa[n] = Nil THEN 0 ELSE 1 + f[pa[n]]]

\* The number of nodes above each node, by the parent links.
Depth(pa) == CHOOSE f : Depths(pa, f)

\* There is such a number.
LEMMA DepthExists ==
  ASSUME NEW tr, NEW ns, NEW under, Tree(tr, ns, under)
  PROVE  \E f : Depths(tr.parent, f)
<1> DEFINE top == Cardinality(Node)
           step == [n \in Node |-> tr.parent[n]]
           last == [n \in Node |-> 0]
           back == [n \in Node |-> [v \in Nat |-> 1 + v]]
           rank == [n \in Node |-> top - Size(under)[n]]
<1>1. /\ \A n \in Node : tr.parent[n] \in Link
      /\ \A n \in Node : tr.parent[n] # Nil => n \in ns
      /\ Nil \notin Node
  BY LinksAre, NodesAre DEF Tree, Linked
<1>2. step \in [Node -> Node \cup {Nil}] /\ last \in [Node -> Nat] /\ back \in [Node -> [Nat -> Nat]]
  BY <1>1 DEF Link
<1>3. /\ top \in Nat /\ Size(under) \in [Node -> 0..top]
      /\ \A n \in ns : tr.parent[n] # Nil => Size(under)[n] < Size(under)[tr.parent[n]]
  BY SizeIs, NodesAre
<1>4. rank \in [Node -> 0..top]
  BY <1>3
<1>5. \A n \in Node : step[n] # Nil => rank[step[n]] < rank[n]
  <2> SUFFICES ASSUME NEW n \in Node, step[n] # Nil PROVE rank[step[n]] < rank[n]
    OBVIOUS
  <2>1. step[n] = tr.parent[n] /\ tr.parent[n] \in Node /\ n \in ns
    BY <1>1 DEF Link
  <2>2. Size(under)[n] < Size(under)[tr.parent[n]]
    BY <1>3, <2>1
  <2>3. Size(under)[n] \in 0..top /\ Size(under)[tr.parent[n]] \in 0..top
    BY <1>3, <2>1
  <2> HIDE DEF step, top
  <2>4. QED
    BY <1>3, <2>1, <2>2, <2>3
<1>6. PICK f \in [Node -> Nat] : Loops(Node, Nil, step, last, back, f)
  <2> HIDE DEF step, last, back, rank, top
  <2>1. QED
    BY <1>1, <1>2, <1>3, <1>4, <1>5, LoopExists
<1>7. \A n \in Node : f[n] = IF tr.parent[n] = Nil THEN 0 ELSE 1 + f[tr.parent[n]]
  <2> TAKE n \in Node
  <2>1. tr.parent[n] # Nil => f[tr.parent[n]] \in Nat
    BY <1>1 DEF Link
  <2>2. f[n] = IF step[n] = Nil THEN last[n] ELSE back[n][f[step[n]]]
    BY <1>6 DEF Loops
  <2>3. QED
    BY <2>1, <2>2
<1>8. Depths(tr.parent, f)
  BY <1>7 DEF Depths
<1>9. QED
  BY <1>8

\* It is one more than that of the parent.
LEMMA DepthIs ==
  ASSUME NEW tr, NEW ns, NEW under, Tree(tr, ns, under), NEW d, d = Depth(tr.parent)
  PROVE  /\ \A n \in ns : d[n] \in Nat
         /\ \A n \in ns : d[n] = IF tr.parent[n] = Nil THEN 0 ELSE 1 + d[tr.parent[n]]
<1>1. Depths(tr.parent, d)
  BY DepthExists DEF Depth
<1>2. /\ ns \subseteq Node /\ Nil \notin ns
      /\ \A n \in ns, s \in Side : tr.child[s][n] # Nil => tr.child[s][n] \in ns /\ tr.parent[tr.child[s][n]] = n
      /\ ns # {} => tr.root \in ns /\ tr.parent[tr.root] = Nil
  BY ShapeIs DEF Tree, Linked
<1>3. \A n \in ns : d[n] = IF tr.parent[n] = Nil THEN 0 ELSE 1 + d[tr.parent[n]]
  BY <1>1, <1>2 DEF Depths
<1> DEFINE S == {n \in ns : d[n] \in Nat}
<1>4. ns # {} => tr.root \in S
  BY <1>2, <1>3
<1>5. \A n \in ns : \A s \in Side : n \in S /\ tr.child[s][n] # Nil => tr.child[s][n] \in S
  <2> SUFFICES ASSUME NEW n \in ns, NEW s \in Side, n \in S, tr.child[s][n] # Nil
               PROVE  tr.child[s][n] \in S
    OBVIOUS
  <2>1. tr.child[s][n] \in ns /\ tr.parent[tr.child[s][n]] = n /\ n # Nil /\ d[n] \in Nat
    BY <1>2
  <2>2. d[tr.child[s][n]] = 1 + d[n]
    BY <1>3, <2>1
  <2>3. QED
    BY <2>1, <2>2
<1> HIDE DEF S
<1>6. \A n \in ns : n \in S
  BY <1>4, <1>5, RootInduction
<1>7. QED
  BY <1>3, <1>6 DEF S

\* A rotation leaves the depth of what is not below it as it is, and the node that
\* comes up has the depth that the other one had.
LEMMA RotatedDepth ==
  ASSUME NEW tr, NEW ns, NEW under, Tree(tr, ns, under), NEW x \in ns, NEW s \in Side,
         NEW r, r = tr.child[Other(s)][x], r # Nil,
         NEW q, Rotated(tr, x, s, r, q), NEW after, Tree(q, ns, after),
         NEW d, d = Depth(tr.parent), NEW e, e = Depth(q.parent)
  PROVE  e[r] = d[x] /\ e[x] = 1 + d[x] /\ d[x] \in Nat
<1> DEFINE inner == tr.child[s][r]
           p == tr.parent[x]
<1>1. /\ ns \subseteq Node /\ Nil \notin ns /\ Other(s) \in Side /\ r \in ns /\ tr.parent[r] = x
      /\ p \in ns \cup {Nil} /\ inner \in ns \cup {Nil} /\ r # x
      /\ \A n \in ns, y \in Side : tr.child[y][n] # Nil => tr.child[y][n] \in ns /\ tr.parent[tr.child[y][n]] = n
      /\ ns # {} => tr.root \in ns /\ tr.parent[tr.root] = Nil
  <2>1. Other(s) \in Side
    BY SidesAre
  <2>2. QED
    BY <2>1, ShapeIs DEF Tree, Linked
<1>2. x \in under[x] /\ r \in under[x] /\ (inner # Nil => inner \in under[x])
  <2>1. x \in under[x] /\ r \in under[r] /\ under[r] \subseteq under[x]
    BY <1>1, UnderIs
  <2>2. inner # Nil => inner \in under[inner] /\ under[inner] \subseteq under[r]
    BY <1>1, UnderIs
  <2>3. QED
    BY <2>1, <2>2
<1>3. \A n \in ns : q.parent[n] = IF n = x THEN r ELSE IF n = r THEN p
                                  ELSE IF n = inner THEN x ELSE tr.parent[n]
  BY <1>1 DEF Rotated
<1> HIDE DEF inner
<1>4. /\ \A n \in ns : d[n] = IF tr.parent[n] = Nil THEN 0 ELSE 1 + d[tr.parent[n]]
      /\ \A n \in ns : e[n] = IF q.parent[n] = Nil THEN 0 ELSE 1 + e[q.parent[n]]
      /\ \A n \in ns : d[n] \in Nat
  BY DepthIs
<1> DEFINE S == {n \in ns : n \notin under[x] => e[n] = d[n]}
<1>5. ns # {} => tr.root \in S
  <2> SUFFICES ASSUME ns # {}, tr.root \notin under[x] PROVE e[tr.root] = d[tr.root]
    BY <1>1
  <2>1. q.parent[tr.root] = Nil /\ tr.parent[tr.root] = Nil
    BY <1>1, <1>2, <1>3
  <2>2. QED
    BY <1>1, <1>4, <2>1
<1>6. \A n \in ns : \A y \in Side : n \in S /\ tr.child[y][n] # Nil => tr.child[y][n] \in S
  <2> SUFFICES ASSUME NEW n \in ns, NEW y \in Side, n \in S, tr.child[y][n] # Nil,
                      tr.child[y][n] \notin under[x]
               PROVE  e[tr.child[y][n]] = d[tr.child[y][n]]
    BY <1>1
  <2> DEFINE c == tr.child[y][n]
  <2>1. c \in ns /\ tr.parent[c] = n /\ c \notin under[x] /\ n # Nil
    BY <1>1
  <2>2. c \in under[n]
    BY <2>1, UnderIs
  <2> HIDE DEF c
  <2>3. n \notin under[x]
    BY <2>1, <2>2, UnderUnder
  <2>4. q.parent[c] = n
    BY <1>1, <1>2, <1>3, <2>1
  <2>5. e[c] = d[c]
    BY <1>4, <2>1, <2>3, <2>4
  <2>6. QED
    BY <2>5 DEF c
<1> HIDE DEF S
<1>7. \A n \in ns : n \in S
  BY <1>5, <1>6, RootInduction
<1>8. p # Nil => e[p] = d[p]
  <2> SUFFICES ASSUME p # Nil PROVE e[p] = d[p]
    OBVIOUS
  <2>1. PICK y \in Side : p \in ns /\ tr.child[y][p] = x
    BY <1>1, ShapeIs
  <2>2. p \notin under[x]
    BY <2>1, UnderIs
  <2>3. QED
    BY <1>7, <2>1, <2>2 DEF S
<1>9. e[r] = d[x]
  BY <1>1, <1>3, <1>4, <1>8
<1>10. e[x] = 1 + e[r]
  <2>1. q.parent[x] = r /\ r # Nil
    BY <1>1, <1>3
  <2>2. QED
    BY <1>4, <2>1
<1>11. QED
  BY <1>4, <1>9, <1>10

\* The place of a fix-up, in terms of the depth.
LEMMA PlaceIs ==
  /\ PlaceDepth = IF cur # Nil THEN Depth(t.parent)[cur]
                  ELSE IF up # Nil THEN 1 + Depth(t.parent)[up] ELSE 0
  /\ PlaceDepth' = IF cur' # Nil THEN Depth(t'.parent)[cur']
                   ELSE IF up' # Nil THEN 1 + Depth(t'.parent)[up'] ELSE 0
BY DEF PlaceDepth, Depth, Depths

\* A turn of rb_insert that is not the last goes up two levels.
LEMMA InsertClimbs ==
  ASSUME RbInv, InsertRecolour
  PROVE  PlaceDepth' < PlaceDepth
<1> DEFINE p == t.parent[cur]
           g == t.parent[p]
           d == Depth(t.parent)
<1>1. pc = "insert" /\ ParentIsRed /\ cur' = g /\ t'.parent = t.parent
  <2>1. \A tr, n : SetRed(tr, n).parent = tr.parent /\ SetBlack(tr, n).parent = tr.parent
    BY DEF SetRed, SetBlack
  <2>2. QED
    BY <2>1 DEF InsertRecolour
<1>2. PICK under : Tree(t, nodes, under) /\ cur \in t.red /\ Reds(t, cur, Nil)
  BY <1>1 DEF RbInv, Inserting
<1>3. cur \in nodes /\ p \in nodes /\ g \in nodes /\ Nil \notin nodes
  BY <1>1, <1>2, InsertPlace, ShapeIs
<1>4. /\ \A n \in nodes : d[n] \in Nat
      /\ \A n \in nodes : d[n] = IF t.parent[n] = Nil THEN 0 ELSE 1 + d[t.parent[n]]
  BY <1>2, DepthIs
<1>5. d[cur] = 1 + d[p] /\ d[p] = 1 + d[g] /\ d[g] \in Nat
  BY <1>3, <1>4
<1>6. PlaceDepth = d[cur] /\ PlaceDepth' = d[g]
  BY <1>1, <1>3, PlaceIs
<1> HIDE DEF d, p, g
<1>7. QED
  BY <1>5, <1>6

\* A turn of rb_erase_fix that is not the last goes up one level, unless the
\* parent went down one with a rotation; it is red then.
LEMMA EraseClimbs ==
  ASSUME RbInv, EraseUp
  PROVE  PlaceDepth' < PlaceDepth \/ (PlaceDepth' = PlaceDepth /\ cur' \in t'.red)
<1> DEFINE s == EraseSide
           b == t.child[Other(s)][up]
           d == Depth(t.parent)
           e == Depth(t'.parent)
<1>1. /\ pc = "erase" /\ EraseLoops /\ cur' = up
      /\ t' = SetRed(Brothered, Brother)
  BY DEF EraseUp
<1>2. cur # t.root /\ Erasing(t, nodes, cur, up) /\ s \in Side /\ nodes' = nodes
  BY <1>1, SidesAre DEF EraseLoops, RbInv, EraseSide, EraseUp
<1>3. PICK under : /\ Tree(t, nodes, under) /\ up \in nodes /\ (cur # Nil => t.parent[cur] = up)
                   /\ cur \in nodes \cup {Nil} /\ (cur # Nil => cur \in nodes)
  BY <1>2 DEF Erasing
<1>4. up # Nil /\ Nil \notin nodes /\ nodes \subseteq Node
  BY <1>3, ShapeIs
<1>5. /\ \A n \in nodes : d[n] \in Nat
      /\ \A n \in nodes : d[n] = IF t.parent[n] = Nil THEN 0 ELSE 1 + d[t.parent[n]]
  BY <1>3, DepthIs
<1>6. PlaceDepth = 1 + d[up] /\ PlaceDepth' = e[up]
  <2>1. PlaceDepth' = e[up]
    BY <1>1, <1>4, PlaceIs
  <2>2. CASE cur # Nil
    BY <1>3, <1>4, <1>5, <2>1, <2>2, PlaceIs
  <2>3. CASE cur = Nil
    BY <1>4, <2>1, <2>3, PlaceIs
  <2>4. QED
    BY <2>2, <2>3
<1>7. t'.parent = Brothered.parent /\ Brothered.red \subseteq t'.red
  BY <1>1 DEF SetRed
<1>8. Brothered = IF b \in t.red THEN Rotate(SetRed(SetBlack(t, b), up), up, s) ELSE t
  BY DEF Brothered, Red
<1>9. CASE b \notin t.red
  <2>1. e = d
    BY <1>7, <1>8, <1>9
  <2>2. e[up] = d[up] /\ d[up] \in Nat
    BY <1>3, <1>5, <2>1
  <2> HIDE DEF d, e
  <2>3. QED
    BY <1>6, <2>2
<1>10. CASE b \in t.red
  <2> DEFINE q1 == SetRed(SetBlack(t, b), up)
             q == Rotate(q1, up, s)
  <2>1. b \in nodes /\ b \in Link /\ up \in Node /\ t \in Trees /\ b # Nil /\ t.red \subseteq nodes
    BY <1>3, <1>4, <1>10, ShapeIs DEF Link
  <2>2. Painted(t, q1) /\ q1.red = (t.red \ {b}) \cup {up}
    <3>1. Painted(t, SetBlack(t, b)) /\ SetBlack(t, b).red = t.red \ {b}
      BY <2>1, PaintsAre
    <3>2. Painted(SetBlack(t, b), q1) /\ q1.red = SetBlack(t, b).red \cup {up}
      BY <2>1, <3>1, PaintsAre DEF Painted
    <3>3. QED
      BY <3>1, <3>2 DEF Painted
  <2>3. q1.red \subseteq nodes /\ b = t.child[Other(s)][up] /\ q = Rotate(q1, up, s)
    BY <1>3, <2>1, <2>2
  <2>4. Brothered = q
    BY <1>8, <1>10
  <2> HIDE DEF q1, q, b
  <2>5. q.red = q1.red /\ Rotated(t, up, s, b, q) /\ \E U : Tree(q, nodes, U)
    BY <1>2, <1>3, <2>1, <2>2, <2>3, PaintedAndRotated
  <2>6. e = Depth(q.parent) /\ d = Depth(t.parent)
    BY <1>7, <2>4
  <2> HIDE DEF d, e
  <2>7. e[up] = 1 + d[up]
    BY <1>2, <1>3, <2>1, <2>3, <2>5, <2>6, RotatedDepth
  <2>8. up \in t'.red
    BY <1>7, <2>2, <2>4, <2>5
  <2>9. QED
    BY <1>1, <1>6, <2>7, <2>8
<1>11. QED
  BY <1>9, <1>10

\* No other step leaves a loop running that ran before.
LEMMA TurnsClimb ==
  ASSUME MtreeInv, [MtreeStep]_mtreeVars
  PROVE  [TurnClimbs]_vars
<1> SUFFICES ASSUME MtreeStep, pc # "idle", pc' = pc
             PROVE  \/ PlaceDepth' < PlaceDepth
                    \/ pc = "erase" /\ PlaceDepth' = PlaceDepth /\ cur' \in t'.red
  BY DEF TurnClimbs, mtreeVars
<1>1. RbInv
  BY DEF MtreeInv
<1>2. RbCall
  BY DEF MtreeStep, MtreeAdd, Insert, Replace, MtreeSwap, MtreeReset, Settles, MtreeLowerBound,
         MtreeUpperBound, MtreeLookup, MtreeBegin, MtreeEnd, MtreeNext, MtreePrev
<1>3. InsertRecolour \/ EraseUp
  BY <1>2 DEF RbCall, Erase, InsertTurn, EraseTurn, InsertRotate, InsertEnds, EraseRotate, EraseEnds
<1>4. CASE InsertRecolour
  BY <1>1, <1>4, InsertClimbs
<1>5. CASE EraseUp
  <2>1. pc = "erase"
    BY <1>5 DEF EraseUp
  <2>2. QED
    BY <1>1, <1>5, <2>1, EraseClimbs
<1>6. QED
  BY <1>3, <1>4, <1>5

(***************************************************************************)
(* The theorems                                                            *)
(***************************************************************************)

\* The invariant holds in every state of the memory tree, also between two turns
\* of a fix-up.
THEOREM MtreeInvHolds == MtreeSpec => []MtreeInv
<1>1. MtreeInv /\ [MtreeStep]_mtreeVars => MtreeInv'
  BY StepKeepsMtreeInv
<1>2. QED
  BY <1>1, InitHasMtreeInv, PTL DEF MtreeSpec

\* Type correctness: links, colours, the fix-up's place and the iterator are nodes
\* or none, and the two trees share no node.
THEOREM MtreeTypeCorrect == MtreeSpec => []MtreeTypeOK
<1>1. MtreeInv => MtreeTypeOK
  BY MtreeTypeIs
<1>2. QED
  BY <1>1, MtreeInvHolds, PTL

\* The links are the ordered map of the nodes at any time: rb_next, rb_prev,
\* rb_leftmost, rb_rightmost and the search of mtree_add find the right node.
THEOREM TreeIsTheMap == MtreeSpec => []WalksInOrder
<1>1. MtreeInv => WalksInOrder
  BY WalksIs DEF MtreeInv
<1>2. QED
  BY <1>1, MtreeInvHolds, PTL

\* rb_insert and rb_erase keep the red-black rules, and break them in the course of
\* a fix-up only where its loop stands.
THEOREM RulesAreKept == MtreeSpec => []RedBlack
<1>1. MtreeInv => RedBlack
  BY RedBlackIs DEF MtreeInv
<1>2. QED
  BY <1>1, MtreeInvHolds, PTL

\* mtree_reset would free each node that is allocated, and no other.
THEOREM NoNodeLeaks == MtreeSpec => []NothingLeaks
<1>1. MtreeInv => NothingLeaks
  BY NothingLeaksIs
<1>2. QED
  BY <1>1, MtreeInvHolds, PTL

\* The calls of the iterator go where the map says, whatever happened to the tree
\* since the last one.
THEOREM IteratorIsTrue == MtreeSpec => IterFollowsMap
<1>1. MtreeInv => [MoveFollowsMap]_mtreeVars
  BY MovesFollowMap
<1>2. QED
  BY <1>1, MtreeInvHolds, PTL DEF IterFollowsMap

\* The loops of rb_insert and rb_erase_fix go up the tree until they end.
THEOREM FixUpsEnd == MtreeSpec => FixUpClimbs
<1>1. MtreeInv /\ [MtreeStep]_mtreeVars => [TurnClimbs]_vars
  BY TurnsClimb
<1>2. QED
  BY <1>1, MtreeInvHolds, PTL DEF MtreeSpec, FixUpClimbs
=============================================================================
