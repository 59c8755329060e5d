---------------------------- MODULE CtreeProofs ----------------------------
(***************************************************************************)
(* Proofs about the builder and the iterator of lib/ctree.c, for every     *)
(* size of pages and items, any fan-out, trees of any height and any       *)
(* number of items and failures.                                           *)
(*                                                                         *)
(* The builder: what is written is a tree, in pages the builder holds and  *)
(* can give back, and it holds the items appended, in order.  This part    *)
(* knows nothing of the iterator, whose module extends the builder's.      *)
(*                                                                         *)
(* The iterator: what the builder leaves is a tree (Tree, from the         *)
(* invariant of the builder); every choice of positions is one of          *)
(* positions that exist (ChoicesAre), so a descent from the root, or from  *)
(* a level held, meets only nodes of the right level (DescendIs); a read   *)
(* that fails cuts the new way off above the old one (ReadIs).  Every call *)
(* is made of those.                                                       *)
(*                                                                         *)
(* The items below a node are consecutive, and its entries share them out  *)
(* (Shares).  So an item of a leaf has a number (Num), a step goes to the  *)
(* next or the previous number also where it changes the leaf (NextIs,     *)
(* PrevIs), and a search that keeps the key between the two ends of the    *)
(* node it is in (Near) ends at the first number from the key on           *)
(* (SearchIs).  That is what the cursor does (CtreeIsCursorHolds).         *)
(***************************************************************************)
EXTENDS CtreeIter, SequenceFacts, FiniteSetTheorems, TLAPS

(***************************************************************************)
(* Bytes and pages                                                         *)
(***************************************************************************)

\* BuilderAssumption, in the form the steps below use.
LEMMA ConstantsAre ==
  /\ MinFanout \in Nat \ {0} /\ PageSize \in Nat \ {0} /\ Header \in Nat \ {0}
  /\ Header <= PageSize /\ PtrSize \in Nat \ {0} /\ ItemSizes \subseteq Nat \ {0} /\ Gaps \subseteq Nat
  /\ MaxItems \in Nat /\ MaxFailures \in Nat
BY BuilderAssumption DEF BuilderAssumption

\* The pages that so many bytes need.
LEMMA PagesIs ==
  ASSUME NEW b \in Nat
  PROVE  /\ PagesOf(b) \in Nat
         /\ b <= PageSize * PagesOf(b) /\ PageSize * PagesOf(b) < b + PageSize
         /\ b > 0 => PagesOf(b) \in Nat \ {0}
<1> DEFINE q == PagesOf(b)
<1>1. PageSize \in Nat \ {0} /\ b + PageSize - 1 \in Nat
  BY ConstantsAre
<1>2. \A a \in Nat, n \in Nat \ {0} : /\ a \div n \in Nat
                                      /\ n * (a \div n) <= a /\ a < n * (a \div n) + n
  OBVIOUS
<1>3. q \in Nat /\ PageSize * q <= b + PageSize - 1 /\ b + PageSize - 1 < PageSize * q + PageSize
  BY <1>1, <1>2 DEF PagesOf
<1> HIDE DEF q
<1>4. PageSize * q \in Nat /\ (q = 0 => PageSize * q = 0)
  BY <1>1, <1>3
<1>5. q \in Nat /\ b <= PageSize * q /\ PageSize * q < b + PageSize /\ (b > 0 => q \in Nat \ {0})
  BY <1>1, <1>3, <1>4
<1>6. QED
  BY <1>5 DEF q

(***************************************************************************)
(* What the variables hold                                                 *)
(***************************************************************************)

OpenNode == [entries : Seq(Entry), bytes : Nat \ {0}, max : Nat]
Stored == [entries : Seq(Entry), level : Nat, size : Nat \ {0}]
Extent == [begin : Nat, end : Nat]

Shape ==
  /\ node \in Seq(OpenNode)
  /\ next \in Nat \ {0} /\ pages \in Nat /\ offs \in Nat
  /\ count \in 0..MaxItems /\ failures \in 0..MaxFailures
  /\ root \in [ptr : Nat, height : Nat]
  /\ pc \in PcSet /\ base \in Nat /\ carry \in Seq(Entry)

\* What a call has got to.
Stage ==
  /\ base <= Len(node) + 1
  /\ pc = "idle" => base = 0 /\ carry = <<>>
  /\ pc \in {"append", "write", "failed"} => IF base = 0 THEN carry # <<>> /\ count < MaxItems
                                             ELSE pc = "failed" \/ base <= Len(node)
  /\ pc = "failed" => Len(carry) = IF base = 0 THEN 1 ELSE 0
  /\ pc = "append" => Top <= Len(node) /\ (carry = <<>> => node[base].entries # <<>>)
  /\ pc = "write" => Top < Len(node) /\ node[Top + 1].entries # <<>>
  /\ pc = "overrun" => carry # <<>> /\ Top <= Len(node)
  /\ pc \in {"finish", "root"} => base >= 1 /\ carry = <<>> /\ (base = 1 \/ base <= Len(node))
  /\ pc = "root" => base >= 2

\* What ctree_node_setup, ctree_node_reset and ctree_node_append return.
LEMMA NodesAre ==
  /\ NewNode \in OpenNode /\ NewNode.entries = <<>> /\ NewNode.bytes = Header
  /\ \A nd \in OpenNode :
       /\ Reset(nd) \in OpenNode /\ Reset(nd).entries = <<>> /\ Reset(nd).max = nd.max
       /\ Reset(nd).bytes = Header
  /\ \A nd \in OpenNode, e \in Entry :
       /\ WithEntry(nd, e) \in OpenNode
       /\ WithEntry(nd, e).entries = Append(nd.entries, e)
       /\ WithEntry(nd, e).bytes = nd.bytes + e.size
       /\ WithEntry(nd, e).max = Grown(nd, e.size)
<1>1. PageSize \in Nat /\ Header \in Nat \ {0} /\ <<>> \in Seq(Entry)
  BY ConstantsAre
<1>2. \A nd \in OpenNode : Reset(nd) \in OpenNode /\ Reset(nd).entries = <<>>
                           /\ Reset(nd).max = nd.max /\ Reset(nd).bytes = Header
  BY <1>1 DEF Reset, OpenNode
<1>3. ASSUME NEW nd \in OpenNode, NEW e \in Entry PROVE WithEntry(nd, e) \in OpenNode
  <2>1. e.size \in Nat \ {0}
    BY ConstantsAre DEF Entry
  <2>2. nd.bytes \in Nat \ {0} /\ nd.max \in Nat /\ nd.entries \in Seq(Entry)
    BY DEF OpenNode
  <2>3. nd.bytes + e.size \in Nat \ {0}
    BY <2>1, <2>2
  <2>4. Grown(nd, e.size) \in Nat
    <3> DEFINE b == PageSize * PagesOf(nd.bytes + e.size)
    <3>1. PagesOf(nd.bytes + e.size) \in Nat
      BY <2>3, PagesIs
    <3>2. b \in Nat /\ 2 * nd.max \in Nat
      BY <1>1, <2>2, <3>1
    <3> HIDE DEF b
    <3>3. Min({2 * nd.max, b}) \in {2 * nd.max, b}
      BY <3>2, MinIs
    <3>4. QED
      BY <2>2, <3>2, <3>3 DEF Grown, b
  <2>5. Append(nd.entries, e) \in Seq(Entry)
    BY <2>2
  <2>6. QED
    BY <2>3, <2>4, <2>5 DEF WithEntry, OpenNode
<1>4. NewNode \in OpenNode /\ NewNode.entries = <<>> /\ NewNode.bytes = Header
  BY <1>1 DEF NewNode, OpenNode
<1>5. QED
  BY <1>2, <1>3, <1>4 DEF WithEntry

\* The last entry of carry, and those before it.
LEMMA CarryIs ==
  ASSUME NEW c \in Seq(Entry), c # <<>>
  PROVE  /\ Len(c) \in Nat \ {0} /\ Last(c) \in Entry /\ Last(c) = c[Len(c)]
         /\ Head(c) \in Entry /\ Head(c) = c[1]
         /\ Front(c) \in Seq(Entry) /\ Len(Front(c)) = Len(c) - 1
         /\ \A i \in 1..(Len(c) - 1) : Front(c)[i] = c[i]
<1>1. Len(c) \in Nat \ {0}
  BY EmptySeq
<1>2. Front(c) = [i \in 1..(Len(c) - 1) |-> c[i]]
  BY <1>1 DEF Front
<1>3. \A i \in 1..Len(c) : c[i] \in Entry
  OBVIOUS
<1>4. QED
  BY <1>1, <1>2, <1>3 DEF Last

\* ctree_builder_ensure_level adds an empty level above the others, or none.
LEMMA EnsuredIs ==
  ASSUME Shape, carry # <<>>, Top <= Len(node)
  PROVE  /\ Top \in Nat /\ Ensured \in Seq(OpenNode)
         /\ Len(Ensured) \in Nat /\ Len(node) \in Nat
         /\ Top + 1 <= Len(Ensured) /\ Len(node) <= Len(Ensured)
         /\ Len(Ensured) <= Len(node) + 1
         /\ \A l \in 1..Len(node) : Ensured[l] = node[l]
         /\ \A l \in 1..Len(Ensured) : l \in 1..Len(node) \/ Ensured[l] = NewNode
<1>1. Len(carry) \in Nat \ {0} /\ base \in Nat /\ Len(node) \in Nat /\ node \in Seq(OpenNode)
  BY CarryIs DEF Shape
<1>2. Top \in Nat
  BY <1>1 DEF Top
<1>3. CASE Top < Len(node)
  <2>1. Ensured = node
    BY <1>3 DEF Ensured
  <2>2. QED
    BY <1>1, <1>2, <1>3, <2>1
<1>4. CASE Top = Len(node)
  <2>1. Ensured = Append(node, NewNode)
    BY <1>1, <1>4 DEF Ensured
  <2>2. /\ Ensured \in Seq(OpenNode) /\ Len(Ensured) = Len(node) + 1
        /\ Ensured[Len(node) + 1] = NewNode
        /\ \A l \in 1..Len(node) : Ensured[l] = node[l]
    BY <1>1, <2>1, NodesAre, AppendProperties
  <2>3. \A l \in 1..Len(Ensured) : l \in 1..Len(node) \/ l = Len(node) + 1
    BY <1>1, <2>2
  <2>4. QED
    BY <1>1, <1>2, <1>4, <2>2, <2>3
<1>5. QED
  BY <1>1, <1>2, <1>3, <1>4

\* PutEntry: one node gets the entry, the others stay or are emptied.
LEMMA PutIs ==
  ASSUME Shape, Stage, PutEntry
  PROVE  /\ carry # <<>> /\ Top \in Nat /\ Ensured \in Seq(OpenNode)
         /\ node' \in Seq(OpenNode) /\ Len(node') = Len(Ensured) /\ Top + 1 \in 1..Len(node')
         /\ node'[Top + 1] = WithEntry(Ensured[Top + 1], Last(carry))
         /\ \A l \in 1..Len(node') : l # Top + 1 => node'[l] \in {Ensured[l], Reset(Ensured[l])}
<1>1. /\ carry # <<>> /\ Top <= Len(node)
      /\ node' = [l \in DOMAIN Ensured |->
                    IF l = Top + 1 THEN WithEntry(Ensured[l], Last(carry))
                    ELSE IF l = Top /\ (Len(carry) > 1 \/ Finishing) THEN Reset(Ensured[l])
                    ELSE Ensured[l]]
  BY DEF PutEntry, Stage
<1>2. /\ Top \in Nat /\ Ensured \in Seq(OpenNode) /\ Len(Ensured) \in Nat
      /\ Top + 1 <= Len(Ensured)
  BY <1>1, EnsuredIs
<1>3. Last(carry) \in Entry
  BY <1>1, CarryIs DEF Shape
<1> DEFINE E == Ensured
<1> HIDE DEF E
<1>4. DOMAIN E = 1..Len(E) /\ \A l \in 1..Len(E) : E[l] \in OpenNode
  BY <1>2 DEF E
<1>5. \A l \in 1..Len(E) : node'[l] \in OpenNode
  BY <1>1, <1>3, <1>4, NodesAre DEF E
<1>6. node' = [l \in 1..Len(E) |-> node'[l]]
  BY <1>1, <1>4 DEF E
<1>7. node' \in Seq(OpenNode) /\ Len(node') = Len(E)
  <2>1. Len(E) \in Nat
    BY <1>2 DEF E
  <2>2. node' \in [1..Len(E) -> OpenNode]
    BY <1>5, <1>6
  <2>3. QED
    BY <2>1, <2>2
<1>8. Top + 1 \in 1..Len(node')
  BY <1>2, <1>7 DEF E
<1>9. /\ node'[Top + 1] = WithEntry(E[Top + 1], Last(carry))
      /\ \A l \in 1..Len(E) : l # Top + 1 => node'[l] \in {E[l], Reset(E[l])}
  BY <1>1, <1>2, <1>4, <1>7, <1>8 DEF E
<1>10. QED
  BY <1>1, <1>2, <1>7, <1>8, <1>9 DEF E

\* A node that is flushed is one of those open, and not empty.
LEMMA FlushedIs ==
  ASSUME Shape, Stage, pc = "append",
         carry # <<>> => ~CanAppend(Ensured[Top + 1], Last(carry))
  PROVE  /\ Top \in Nat /\ Top < Len(node) /\ Len(node) \in Nat
         /\ node[Top + 1] \in OpenNode /\ node[Top + 1].entries # <<>>
<1>1. Len(carry) \in Nat /\ base \in Nat /\ Len(node) \in Nat /\ Top <= Len(node)
  BY DEF Shape, Stage
<1>2. CASE carry = <<>>
  <2>1. base # 0 /\ base <= Len(node) /\ node[base].entries # <<>> /\ Top = base - 1
    BY <1>1, <1>2 DEF Stage, Top
  <2>2. base \in 1..Len(node) /\ Top + 1 = base
    BY <1>1, <2>1
  <2>3. QED
    BY <1>1, <2>1, <2>2 DEF Shape
<1>3. CASE carry # <<>>
  <2> DEFINE E == Ensured
  <2>1. /\ Top \in Nat /\ E \in Seq(OpenNode) /\ Len(E) \in Nat /\ Top + 1 <= Len(E)
        /\ \A l \in 1..Len(node) : E[l] = node[l]
        /\ \A l \in 1..Len(E) : l \in 1..Len(node) \/ E[l] = NewNode
    BY <1>1, <1>3, EnsuredIs
  <2>2. ~(Len(E[Top + 1].entries) + 1 <= MinFanout)
    BY <1>3 DEF CanAppend
  <2> HIDE DEF E
  <2>3. E[Top + 1].entries # <<>>
    <3>1. Len(<<>>) + 1 <= MinFanout
      BY ConstantsAre
    <3>2. QED
      BY <2>2, <3>1
  <2>4. Top + 1 \in 1..Len(E)
    BY <2>1
  <2>5. Top + 1 \in 1..Len(node) /\ E[Top + 1] = node[Top + 1]
    BY <2>1, <2>3, <2>4, NodesAre
  <2>6. node[Top + 1] \in OpenNode
    BY <2>5 DEF Shape
  <2>7. QED
    BY <1>1, <2>1, <2>3, <2>5, <2>6
<1>4. QED
  BY <1>2, <1>3

(***************************************************************************)
(* Types and stages                                                        *)
(***************************************************************************)

\* What a step leaves to prove of Shape.
LEMMA ReserveTyped ==
  ASSUME Shape, NEW size \in Nat, Reserve(size)
  PROVE  /\ offs' \in Nat /\ offs' >= next /\ next' = offs' + size /\ next' \in Nat \ {0}
         /\ pages' = pages + size /\ pages' \in Nat
         /\ held' = held \cup offs'..(offs' + size - 1)
         /\ ranges' = AddRange(offs', size)
<1>1. PICK gap \in Gaps :
        /\ offs' = next + gap /\ next' = next + gap + size
        /\ held' = held \cup (next + gap)..(next + gap + size - 1)
        /\ ranges' = AddRange(next + gap, size) /\ pages' = pages + size
  BY DEF Reserve
<1>2. gap \in Nat /\ next \in Nat \ {0} /\ pages \in Nat
  BY ConstantsAre DEF Shape
<1>3. QED
  BY <1>1, <1>2

\* ctree_builder_append is called.
LEMMA CallAppendTyped ==
  ASSUME Shape, Stage, NEW size \in ItemSizes, CallAppend(size)
  PROVE  Shape' /\ Stage'
<1> DEFINE e == [key |-> count + 1, ptr |-> 0, size |-> size]
<1>1. /\ pc' = "append" /\ base' = 0 /\ carry' = <<e>> /\ count < MaxItems
      /\ node' = node /\ count' = count /\ root' = root /\ next' = next /\ pages' = pages
      /\ offs' = offs /\ failures' = failures
  BY DEF CallAppend, memVars, spaceVars
<1>2. e \in Entry
  BY <1>1, ConstantsAre DEF Shape, Entry
<1> HIDE DEF e
<1>3. <<e>> \in Seq(Entry) /\ <<e>> # <<>> /\ Len(<<e>>) = 1
  BY <1>2
<1>4. Len(node) \in Nat /\ Top' = 0
  BY <1>1, <1>3 DEF Shape, Top
<1>5. Shape'
  BY <1>1, <1>3 DEF Shape, PcSet
<1>6. Stage'
  BY <1>1, <1>3, <1>4 DEF Stage
<1>7. QED
  BY <1>5, <1>6

\* ctree_builder_flush, up to the reservation.
LEMMA FlushReserveTyped ==
  ASSUME Shape, Stage, FlushReserve
  PROVE  Shape' /\ Stage'
<1>1. /\ pc = "append" /\ pc' = "write" /\ base' = base /\ carry' = carry /\ node' = node
      /\ count' = count /\ root' = root /\ failures' = failures /\ Reserve(PagesOf(node[Top + 1].bytes))
  BY DEF FlushReserve, memVars
<1>2. Top \in Nat /\ Top < Len(node) /\ node[Top + 1] \in OpenNode /\ node[Top + 1].entries # <<>>
  BY FlushedIs DEF FlushReserve
<1>3. PagesOf(node[Top + 1].bytes) \in Nat
  BY <1>2, PagesIs DEF OpenNode
<1>4. offs' \in Nat /\ next' \in Nat \ {0} /\ pages' \in Nat
  BY <1>1, <1>3, ReserveTyped
<1>5. Top' = Top
  BY <1>1 DEF Top
<1>6. Shape'
  BY <1>1, <1>4 DEF Shape, PcSet
<1>7. Stage'
  BY <1>1, <1>2, <1>5 DEF Stage
<1>8. QED
  BY <1>6, <1>7

\* ctree_builder_flush writes the node: its entry goes up a level.
LEMMA FlushWriteTyped ==
  ASSUME Shape, Stage, FlushWrite
  PROVE  Shape' /\ Stage'
<1> DEFINE nd == node[Top + 1]
           e == [key |-> Head(nd.entries).key, ptr |-> offs, size |-> PtrSize]
<1>1. /\ pc = "write" /\ pc' = "append" /\ base' = base /\ carry' = Append(carry, e) /\ node' = node
      /\ count' = count /\ root' = root /\ failures' = failures
      /\ offs' = offs /\ next' = next /\ pages' = pages
  BY DEF FlushWrite, memVars, spaceVars
<1>2. Len(carry) \in Nat /\ base \in Nat /\ Len(node) \in Nat /\ Top < Len(node) /\ nd.entries # <<>>
  BY <1>1 DEF Shape, Stage
<1>3. Top \in Nat
  <2>1. base # 0 \/ carry # <<>>
    BY <1>1 DEF Stage
  <2>2. carry # <<>> => Len(carry) # 0
    BY EmptySeq DEF Shape
  <2>3. QED
    BY <1>2, <2>1, <2>2 DEF Top
<1>4. nd \in OpenNode
  BY <1>2, <1>3 DEF Shape
<1>5. e \in Entry
  <2>1. Head(nd.entries) \in Entry
    BY <1>2, <1>4 DEF OpenNode
  <2>2. QED
    BY <2>1 DEF Entry, Shape
<1> HIDE DEF e, nd
<1>6. /\ carry' \in Seq(Entry) /\ Len(carry') = Len(carry) + 1 /\ carry' # <<>>
  BY <1>1, <1>5 DEF Shape
<1>7. Top' = Top + 1 /\ Top + 1 <= Len(node)
  BY <1>1, <1>2, <1>3, <1>6 DEF Top
<1>8. Shape'
  BY <1>1, <1>6 DEF Shape, PcSet
<1>9. Stage'
  BY <1>1, <1>2, <1>6, <1>7 DEF Stage
<1>10. QED
  BY <1>8, <1>9

\* __ctree_builder_append puts the entry: the call is one level further down.
LEMMA PutEntryTyped ==
  ASSUME Shape, Stage, PutEntry
  PROVE  Shape' /\ Stage'
<1>1. /\ pc = "append" /\ carry # <<>> /\ carry' = Front(carry)
      /\ root' = root /\ failures' = failures /\ offs' = offs /\ next' = next /\ pages' = pages
      /\ IF Len(carry) > 1 THEN pc' = pc /\ base' = base /\ count' = count
         ELSE IF base > 0 THEN pc' = "finish" /\ base' = base + 1 /\ count' = count
         ELSE pc' = "idle" /\ count' = count + 1 /\ base' = base
  BY DEF PutEntry, spaceVars, Finishing
<1>2. /\ Top \in Nat /\ node' \in Seq(OpenNode) /\ Len(node') = Len(Ensured)
      /\ Top + 1 \in 1..Len(node') /\ Len(node) <= Len(node') /\ Top <= Len(node)
  BY <1>1, PutIs, EnsuredIs DEF Stage
<1>3. /\ Len(carry) \in Nat \ {0} /\ Front(carry) \in Seq(Entry) /\ Len(Front(carry)) = Len(carry) - 1
      /\ base \in Nat /\ Len(node) \in Nat /\ Len(node') \in Nat /\ count \in 0..MaxItems
      /\ Top = base + Len(carry) - 1
  BY <1>1, <1>2, CarryIs DEF Shape, Top
<1>4. CASE Len(carry) > 1
  <2>1. carry' # <<>> /\ Top' = Top - 1
    BY <1>1, <1>3, <1>4 DEF Top
  <2>2. Shape'
    BY <1>1, <1>2, <1>3, <1>4 DEF Shape
  <2>3. Top' <= Len(node') /\ base <= Len(node')
    BY <1>2, <1>3, <1>4, <2>1
  <2>4. Stage'
    BY <1>1, <1>3, <1>4, <2>1, <2>3 DEF Stage
  <2>5. QED
    BY <2>2, <2>4
<1>5. CASE ~(Len(carry) > 1)
  <2>1. Len(carry) = 1 /\ carry' = <<>> /\ Top = base
    BY <1>1, <1>3, <1>5
  <2>2. CASE base > 0
    <3>1. pc' = "finish" /\ base' = base + 1 /\ count' = count
      BY <1>1, <1>5, <2>2
    <3>2. base + 1 <= Len(node') /\ base + 1 \in Nat
      BY <1>2, <1>3, <2>1
    <3>3. Shape'
      BY <1>1, <1>2, <1>3, <3>1, <3>2 DEF Shape, PcSet
    <3>4. Stage'
      BY <1>3, <2>1, <2>2, <3>1, <3>2 DEF Stage
    <3>5. QED
      BY <3>3, <3>4
  <2>3. CASE base = 0
    <3>1. pc' = "idle" /\ base' = 0 /\ count' = count + 1
      BY <1>1, <1>3, <1>5, <2>3
    <3>2. count < MaxItems
      BY <1>1, <2>3 DEF Stage
    <3>3. Shape'
      BY <1>1, <1>2, <1>3, <3>1, <3>2, ConstantsAre DEF Shape, PcSet
    <3>4. Stage'
      BY <1>3, <2>1, <3>1 DEF Stage
    <3>5. QED
      BY <3>3, <3>4
  <2>4. QED
    BY <1>3, <2>2, <2>3
<1>6. QED
  BY <1>4, <1>5

\* ctree_builder_finish is called.
LEMMA CallFinishTyped ==
  ASSUME Shape, Stage, CallFinish
  PROVE  Shape' /\ Stage'
<1>1. /\ pc = "idle" /\ pc' = "finish" /\ base' = 1 /\ carry' = carry /\ node' = node
      /\ count' = count /\ root' = root /\ failures' = failures
      /\ offs' = offs /\ next' = next /\ pages' = pages
  BY DEF CallFinish, memVars, spaceVars
<1>2. Len(node) \in Nat
  BY DEF Shape
<1>3. Shape'
  BY <1>1 DEF Shape, PcSet
<1>4. Stage'
  BY <1>1, <1>2 DEF Stage
<1>5. QED
  BY <1>3, <1>4

\* ctree_builder_finish gets to a level that may have to be flushed.
LEMMA FinishLevelTyped ==
  ASSUME Shape, Stage, FinishLevel
  PROVE  Shape' /\ Stage'
<1>1. /\ pc = "finish" /\ base < Len(node) /\ carry' = carry /\ node' = node
      /\ count' = count /\ root' = root /\ failures' = failures
      /\ offs' = offs /\ next' = next /\ pages' = pages
      /\ IF node[base].entries = <<>> THEN base' = base + 1 /\ pc' = pc
         ELSE pc' = "append" /\ base' = base
  BY DEF FinishLevel, memVars, spaceVars
<1>2. Len(node) \in Nat /\ base \in Nat /\ base >= 1 /\ carry = <<>> /\ Len(<<>>) = 0
  BY <1>1 DEF Shape, Stage
<1>3. CASE node[base].entries = <<>>
  <2>1. Shape'
    BY <1>1, <1>2, <1>3 DEF Shape, PcSet
  <2>2. Stage'
    BY <1>1, <1>2, <1>3 DEF Stage
  <2>3. QED
    BY <2>1, <2>2
<1>4. CASE node[base].entries # <<>>
  <2>1. Shape'
    BY <1>1, <1>4 DEF Shape, PcSet
  <2>2. Top' = base - 1
    BY <1>1, <1>2, <1>4 DEF Top
  <2>3. Stage'
    BY <1>1, <1>2, <1>4, <2>2 DEF Stage
  <2>4. QED
    BY <2>1, <2>3
<1>5. QED
  BY <1>3, <1>4

\* ctree_builder_finish of a single leaf.
LEMMA FinishSingleTyped ==
  ASSUME Shape, Stage, FinishSingle
  PROVE  Shape' /\ Stage'
<1>1. /\ pc' = "done" /\ base' = base /\ carry' = carry /\ node' = node
      /\ count' = count /\ root' = [ptr |-> 0, height |-> 0] /\ failures' = failures
      /\ offs' = offs /\ next' = next /\ pages' = pages
  BY DEF FinishSingle, spaceVars
<1>2. Shape'
  BY <1>1 DEF Shape, PcSet
<1>3. Stage'
  BY <1>1 DEF Stage
<1>4. QED
  BY <1>2, <1>3

\* ctree_builder_finish reserves the pages of the root.
LEMMA RootReserveTyped ==
  ASSUME Shape, Stage, RootReserve
  PROVE  Shape' /\ Stage'
<1>1. /\ pc = "finish" /\ base > 1 /\ pc' = "root" /\ base' = base /\ carry' = carry /\ node' = node
      /\ count' = count /\ root' = root /\ failures' = failures /\ Reserve(PagesOf(node[base].bytes))
  BY DEF RootReserve, memVars
<1>2. base \in Nat /\ Len(node) \in Nat /\ base <= Len(node) /\ carry = <<>>
  BY <1>1 DEF Shape, Stage
<1>3. node[base] \in OpenNode
  BY <1>1, <1>2 DEF Shape
<1>4. PagesOf(node[base].bytes) \in Nat
  BY <1>3, PagesIs DEF OpenNode
<1>5. offs' \in Nat /\ next' \in Nat \ {0} /\ pages' \in Nat
  BY <1>1, <1>4, ReserveTyped
<1>6. Shape'
  BY <1>1, <1>5 DEF Shape, PcSet
<1>7. Stage'
  BY <1>1, <1>2 DEF Stage
<1>8. QED
  BY <1>6, <1>7

\* ctree_builder_finish writes the root.
LEMMA RootWriteTyped ==
  ASSUME Shape, Stage, RootWrite
  PROVE  Shape' /\ Stage'
<1>1. /\ pc = "root" /\ pc' = "done" /\ base' = base /\ carry' = carry
      /\ node' = [node EXCEPT ![base] = Reset(@)] /\ root' = [ptr |-> offs, height |-> base]
      /\ count' = count /\ failures' = failures /\ offs' = offs /\ next' = next /\ pages' = pages
  BY DEF RootWrite, spaceVars
<1>2. /\ base \in 1..Len(node) /\ Len(node) \in Nat /\ node[base] \in OpenNode
      /\ node \in Seq(OpenNode)
  BY <1>1 DEF Shape, Stage
<1>3. node' \in Seq(OpenNode) /\ Len(node') = Len(node)
  BY <1>1, <1>2, NodesAre
<1>4. [ptr |-> offs, height |-> base] \in [ptr : Nat, height : Nat]
  BY DEF Shape
<1>5. Shape'
  BY <1>1, <1>3, <1>4 DEF Shape, PcSet
<1>6. Stage'
  BY <1>1, <1>3 DEF Stage
<1>7. QED
  BY <1>5, <1>6

\* A call returns an error; at most an empty level was added.
LEMMA CallFailsTyped ==
  ASSUME Shape, Stage, CallFails
  PROVE  /\ Shape' /\ Stage' /\ Len(node) <= Len(node')
         /\ \A l \in 1..Len(node) : node'[l] = node[l]
         /\ \A l \in 1..Len(node') : l \in 1..Len(node) \/ node'[l] = NewNode
<1>1. /\ pc' = "failed" /\ base' = base /\ failures' = failures + 1 /\ failures < MaxFailures
      /\ carry' = IF base > 0 THEN <<>> ELSE <<Head(carry)>>
      /\ count' = count /\ root' = root /\ offs' = offs /\ next' = next /\ pages' = pages
      /\ pc \in {"append", "write", "root", "finish"}
      /\ \/ node' = node
         \/ pc = "append" /\ carry # <<>> /\ node' = Ensured
  BY DEF CallFails, spaceVars, Finishing
<1>2. base \in Nat /\ Len(node) \in Nat /\ MaxFailures \in Nat /\ failures \in 0..MaxFailures
  BY ConstantsAre DEF Shape
<1>3. /\ node' \in Seq(OpenNode) /\ Len(node') \in Nat /\ Len(node) <= Len(node')
      /\ \A l \in 1..Len(node) : node'[l] = node[l]
      /\ \A l \in 1..Len(node') : l \in 1..Len(node) \/ node'[l] = NewNode
  <2>1. CASE node' = node
    BY <1>2, <2>1 DEF Shape
  <2>2. CASE pc = "append" /\ carry # <<>> /\ node' = Ensured
    <3>1. Top <= Len(node)
      BY <2>2 DEF Stage
    <3>2. QED
      BY <2>2, <3>1, EnsuredIs
  <2>3. QED
    BY <1>1, <2>1, <2>2
<1>4. base = 0 => carry # <<>> /\ count < MaxItems
  BY <1>1 DEF Stage
<1>5. carry' \in Seq(Entry) /\ Len(carry') = IF base = 0 THEN 1 ELSE 0
  <2>1. CASE base = 0
    <3>1. Head(carry) \in Entry /\ carry' = <<Head(carry)>>
      BY <1>1, <1>4, <2>1, CarryIs DEF Shape
    <3> DEFINE h == Head(carry)
    <3> HIDE DEF h
    <3>2. h \in Entry /\ carry' = <<h>>
      BY <3>1 DEF h
    <3>3. QED
      BY <2>1, <3>2
  <2>2. CASE base # 0
    <3>1. carry' = <<>>
      BY <1>1, <1>2, <2>2
    <3>2. QED
      BY <2>2, <3>1
  <2>3. QED
    BY <2>1, <2>2
<1>6. base = 0 => carry' # <<>>
  <2>1. carry' = <<>> => Len(carry') = 0
    OBVIOUS
  <2>2. QED
    BY <1>5, <2>1
<1>7. Shape'
  BY <1>1, <1>2, <1>3, <1>5 DEF Shape, PcSet
<1>8. base <= Len(node') + 1
  BY <1>2, <1>3 DEF Stage
<1>9. Stage'
  BY <1>1, <1>4, <1>5, <1>6, <1>8 DEF Stage
<1>10. QED
  BY <1>3, <1>7, <1>9

\* The call that failed is made again.
LEMMA RetryTyped ==
  ASSUME Shape, Stage, Retry
  PROVE  Shape' /\ Stage'
<1>1. /\ pc = "failed" /\ carry' = carry /\ node' = node
      /\ count' = count /\ root' = root /\ failures' = failures
      /\ offs' = offs /\ next' = next /\ pages' = pages
      /\ IF base > 0 THEN pc' = "finish" /\ base' = 1 ELSE pc' = "append" /\ base' = base
  BY DEF Retry, memVars, spaceVars, Finishing
<1>2. /\ base \in Nat /\ Len(node) \in Nat /\ Len(carry) = IF base = 0 THEN 1 ELSE 0
      /\ base = 0 => carry # <<>> /\ count < MaxItems
  BY <1>1 DEF Shape, Stage
<1>3. CASE base > 0
  <2>1. carry = <<>>
    BY <1>2, <1>3, EmptySeq DEF Shape
  <2>2. Shape'
    BY <1>1, <1>3 DEF Shape, PcSet
  <2>3. Stage'
    BY <1>1, <1>2, <1>3, <2>1 DEF Stage
  <2>4. QED
    BY <2>2, <2>3
<1>4. CASE base = 0
  <2>1. pc' = "append" /\ base' = 0 /\ Top' = 0
    BY <1>1, <1>2, <1>4 DEF Top
  <2>2. Shape'
    BY <1>1, <2>1 DEF Shape, PcSet
  <2>3. Stage'
    BY <1>1, <1>2, <1>4, <2>1 DEF Stage
  <2>4. QED
    BY <2>2, <2>3
<1>5. QED
  BY <1>2, <1>3, <1>4

\* ctree_builder_cancel.
LEMMA CancelTyped ==
  ASSUME Shape, Stage, Cancel
  PROVE  Shape' /\ Stage'
<1>1. /\ pc' = "cancelled" /\ base' = base /\ carry' = carry /\ node' = node
      /\ count' = count /\ root' = root /\ failures' = failures
      /\ offs' = offs /\ next' = next /\ pages' = pages
  BY DEF Cancel, memVars
<1>2. Shape'
  BY <1>1 DEF Shape, PcSet
<1>3. Stage'
  BY <1>1 DEF Stage
<1>4. QED
  BY <1>2, <1>3

\* The append that ends past its buffer is the last step.
LEMMA OverrunTyped ==
  ASSUME Shape, Stage, Overrun
  PROVE  Shape' /\ Stage'
<1>1. /\ pc = "append" /\ carry # <<>> /\ pc' = "overrun"
      /\ base' = base /\ carry' = carry /\ node' = node
      /\ count' = count /\ root' = root /\ failures' = failures
      /\ offs' = offs /\ next' = next /\ pages' = pages
  BY DEF Overrun, memVars, spaceVars
<1>2. Top' = Top
  BY <1>1 DEF Top
<1>3. Shape'
  BY <1>1 DEF Shape, PcSet
<1>4. Stage'
  BY <1>1, <1>2 DEF Stage
<1>5. QED
  BY <1>3, <1>4

\* Every step keeps the types and the stage of the call.
LEMMA StepTyped ==
  ASSUME Shape, Stage, Next
  PROVE  Shape' /\ Stage'
BY CallAppendTyped, FlushReserveTyped, FlushWriteTyped, PutEntryTyped, CallFinishTyped,
   FinishLevelTyped, FinishSingleTyped, RootReserveTyped, RootWriteTyped, CallFailsTyped,
   RetryTyped, CancelTyped, OverrunTyped
   DEF Next

(***************************************************************************)
(* The nodes written, and the entries that name them                       *)
(***************************************************************************)

\* The entry e, of a node of level l, names a node of the level below.
PointsDown(d, e, l) ==
  /\ e.ptr \in DOMAIN d
  /\ d[e.ptr].level = l - 1
  /\ d[e.ptr].entries # <<>> /\ Head(d[e.ptr].entries).key = e.key

EntriesPoint(d, es, l) == \A i \in 1..Len(es) : PointsDown(d, es[i], l)

DiskPoints(d) ==
  \A o \in DOMAIN d : d[o] \in Stored /\ (d[o].level > 0 => EntriesPoint(d, d[o].entries, d[o].level))

NodesPoint(d, n) == \A l \in 1..Len(n) : l > 1 => EntriesPoint(d, n[l].entries, l - 1)

CarryPoints(d, c, b) == \A i \in 1..Len(c) : b + i > 1 => PointsDown(d, c[i], b + i - 1)

Points == DiskPoints(disk) /\ NodesPoint(disk, node) /\ CarryPoints(disk, carry, base)

\* Nothing on the disk is written over.
Grows(d, e) == \A o \in DOMAIN d : o \in DOMAIN e /\ e[o] = d[o]

\* An entry goes on naming its node while the disk only grows.
LEMMA PointsStay ==
  ASSUME NEW d, NEW e, Grows(d, e)
  PROVE  /\ \A x, l : PointsDown(d, x, l) => PointsDown(e, x, l)
         /\ \A es, l : EntriesPoint(d, es, l) => EntriesPoint(e, es, l)
         /\ \A n : NodesPoint(d, n) => NodesPoint(e, n)
         /\ \A c, b : CarryPoints(d, c, b) => CarryPoints(e, c, b)
<1>1. \A x, l : PointsDown(d, x, l) => PointsDown(e, x, l)
  BY DEF Grows, PointsDown
<1>2. \A es, l : EntriesPoint(d, es, l) => EntriesPoint(e, es, l)
  BY <1>1 DEF EntriesPoint
<1>3. \A n : NodesPoint(d, n) => NodesPoint(e, n)
  BY <1>2 DEF NodesPoint
<1>4. \A c, b : CarryPoints(d, c, b) => CarryPoints(e, c, b)
  BY <1>1 DEF CarryPoints
<1>5. QED
  BY <1>1, <1>2, <1>3, <1>4

\* ctree_node_write, to pages where no node is.
LEMMA StoreIs ==
  ASSUME NEW nd \in OpenNode, NEW level \in Nat, WriteNode(nd, level), offs \notin DOMAIN disk
  PROVE  /\ Grows(disk, disk') /\ DOMAIN disk' = DOMAIN disk \cup {offs}
         /\ disk'[offs] \in Stored /\ disk'[offs].entries = nd.entries
         /\ disk'[offs].level = level /\ disk'[offs].size = PagesOf(nd.bytes)
<1> DEFINE new == [entries |-> nd.entries, level |-> level, size |-> PagesOf(nd.bytes)]
<1>1. disk' = [o \in DOMAIN disk \cup {offs} |-> IF o = offs THEN new ELSE disk[o]]
  BY DEF WriteNode
<1>2. new \in Stored /\ new.entries = nd.entries /\ new.level = level
      /\ new.size = PagesOf(nd.bytes)
  <2>1. nd.bytes \in Nat \ {0} /\ nd.bytes \in Nat /\ nd.bytes > 0 /\ nd.entries \in Seq(Entry)
    BY DEF OpenNode
  <2>2. PagesOf(nd.bytes) \in Nat \ {0}
    BY <2>1, PagesIs
  <2>3. QED
    BY <2>1, <2>2 DEF Stored
<1> HIDE DEF new
<1>3. DOMAIN disk' = DOMAIN disk \cup {offs} /\ disk'[offs] = new
      /\ \A o \in DOMAIN disk : disk'[o] = disk[o]
  BY <1>1
<1>4. QED
  BY <1>2, <1>3 DEF Grows

\* The node written points down if it did in memory.
LEMMA StorePoints ==
  ASSUME NEW nd \in OpenNode, NEW level \in Nat, WriteNode(nd, level), offs \notin DOMAIN disk,
         DiskPoints(disk), level > 0 => EntriesPoint(disk, nd.entries, level)
  PROVE  DiskPoints(disk')
<1>1. /\ Grows(disk, disk') /\ DOMAIN disk' = DOMAIN disk \cup {offs}
      /\ disk'[offs] \in Stored /\ disk'[offs].entries = nd.entries /\ disk'[offs].level = level
  BY StoreIs
<1>2. \A o \in DOMAIN disk : /\ disk'[o] \in Stored
                             /\ disk'[o].level > 0 => EntriesPoint(disk', disk'[o].entries, disk'[o].level)
  <2> TAKE o \in DOMAIN disk
  <2>1. disk'[o] = disk[o]
    BY <1>1 DEF Grows
  <2>2. QED
    BY <1>1, <2>1, PointsStay DEF DiskPoints
<1>3. level > 0 => EntriesPoint(disk', disk'[offs].entries, level)
  BY <1>1, PointsStay
<1>4. QED
  BY <1>1, <1>2, <1>3 DEF DiskPoints

\* No entry is on its way.
LEMMA EmptyCarryPoints == \A d, b : CarryPoints(d, <<>>, b)
<1>1. 1..Len(<<>>) = {}
  OBVIOUS
<1>2. QED
  BY <1>1 DEF CarryPoints

\* The node written points down, and so does the entry for it.
LEMMA FlushWritePoints ==
  ASSUME Shape, Stage, Points, FlushWrite, offs \notin DOMAIN disk
  PROVE  Points'
<1> DEFINE nd == node[Top + 1]
           e == [key |-> Head(nd.entries).key, ptr |-> offs, size |-> PtrSize]
<1>1. /\ pc = "write" /\ base' = base /\ carry' = Append(carry, e) /\ node' = node
      /\ WriteNode(nd, Top)
  BY DEF FlushWrite, memVars
<1>2. Len(carry) \in Nat /\ base \in Nat /\ Len(node) \in Nat /\ Top < Len(node) /\ nd.entries # <<>>
      /\ carry \in Seq(Entry)
  BY <1>1 DEF Shape, Stage
<1>3. Top \in Nat /\ Top = base + Len(carry) - 1
  <2>1. base # 0 \/ carry # <<>>
    BY <1>1 DEF Stage
  <2>2. carry # <<>> => Len(carry) # 0
    BY EmptySeq DEF Shape
  <2>3. QED
    BY <1>2, <2>1, <2>2 DEF Top
<1>4. nd \in OpenNode
  BY <1>2, <1>3 DEF Shape
<1>5. Top > 0 => EntriesPoint(disk, nd.entries, Top)
  <2>1. Top + 1 \in 1..Len(node)
    BY <1>2, <1>3
  <2>2. Top + 1 > 1 => EntriesPoint(disk, nd.entries, (Top + 1) - 1)
    BY <2>1 DEF Points, NodesPoint
  <2>3. (Top + 1) - 1 = Top
    BY <1>3
  <2>4. QED
    BY <1>3, <2>2, <2>3
<1> HIDE DEF nd
<1>6. DiskPoints(disk') /\ Grows(disk, disk') /\ offs \in DOMAIN disk'
      /\ disk'[offs].entries = nd.entries /\ disk'[offs].level = Top
  BY <1>1, <1>3, <1>4, <1>5, StorePoints, StoreIs DEF Points
<1>7. NodesPoint(disk', node') /\ CarryPoints(disk', carry, base)
  BY <1>1, <1>6, PointsStay DEF Points
<1>8. PointsDown(disk', e, Top + 1)
  <2>1. e.ptr = offs /\ e.key = Head(nd.entries).key /\ (Top + 1) - 1 = Top
    BY <1>3
  <2> HIDE DEF e
  <2>2. QED
    BY <1>2, <1>6, <2>1 DEF PointsDown
<1> HIDE DEF e
<1>9. CarryPoints(disk', carry', base')
  <2> SUFFICES ASSUME NEW i \in 1..Len(carry'), base + i > 1
               PROVE  PointsDown(disk', carry'[i], base + i - 1)
    BY <1>1 DEF CarryPoints
  <2>1. /\ Len(carry') = Len(carry) + 1 /\ carry'[Len(carry) + 1] = e
        /\ \A j \in 1..Len(carry) : carry'[j] = carry[j]
    BY <1>1, <1>2
  <2>2. CASE i \in 1..Len(carry)
    BY <1>7, <2>1, <2>2 DEF CarryPoints
  <2>3. CASE i = Len(carry) + 1
    <3>1. carry'[i] = e /\ base + i - 1 = Top + 1
      BY <1>2, <1>3, <2>1, <2>3
    <3>2. QED
      BY <1>8, <3>1
  <2>4. QED
    BY <1>2, <2>1, <2>2, <2>3
<1>10. QED
  BY <1>6, <1>7, <1>9 DEF Points

\* The root points down, and its buffer is emptied.
LEMMA RootWritePoints ==
  ASSUME Shape, Stage, Points, RootWrite, offs \notin DOMAIN disk
  PROVE  Points'
<1>1. /\ pc = "root" /\ base' = base /\ carry' = carry /\ WriteNode(node[base], base - 1)
      /\ node' = [node EXCEPT ![base] = Reset(@)]
  BY DEF RootWrite
<1>2. /\ base \in 2..Len(node) /\ base - 1 \in Nat /\ base - 1 > 0 /\ Len(node) \in Nat
      /\ node[base] \in OpenNode /\ node \in Seq(OpenNode) /\ base > 1 /\ base \in 1..Len(node)
  BY <1>1 DEF Shape, Stage
<1>3. EntriesPoint(disk, node[base].entries, base - 1)
  BY <1>2 DEF Points, NodesPoint
<1>4. DiskPoints(disk') /\ Grows(disk, disk')
  BY <1>1, <1>2, <1>3, StorePoints, StoreIs DEF Points
<1>5. NodesPoint(disk', node) /\ CarryPoints(disk', carry, base)
  BY <1>4, PointsStay DEF Points
<1>6. NodesPoint(disk', node')
  <2> SUFFICES ASSUME NEW l \in 1..Len(node'), l > 1
               PROVE  EntriesPoint(disk', node'[l].entries, l - 1)
    BY DEF NodesPoint
  <2>1. l \in 1..Len(node) /\ node'[l] = IF l = base THEN Reset(node[base]) ELSE node[l]
    BY <1>1, <1>2
  <2>2. CASE l = base
    <3>1. node'[l].entries = <<>>
      BY <1>2, <2>1, <2>2, NodesAre
    <3>2. 1..Len(<<>>) = {}
      OBVIOUS
    <3>3. QED
      BY <3>1, <3>2 DEF EntriesPoint
  <2>3. CASE l # base
    BY <1>5, <2>1, <2>3 DEF NodesPoint
  <2>4. QED
    BY <2>2, <2>3
<1>7. QED
  BY <1>1, <1>4, <1>5, <1>6 DEF Points

\* The entry arrives at the level it was made for.
LEMMA PutEntryPoints ==
  ASSUME Shape, Stage, Points, PutEntry
  PROVE  Points'
<1>1. /\ pc = "append" /\ carry # <<>> /\ carry' = Front(carry) /\ disk' = disk
      /\ (Len(carry) > 1 => base' = base) /\ Top <= Len(node)
  BY DEF PutEntry, Stage
<1>2. /\ Top \in Nat /\ Ensured \in Seq(OpenNode) /\ Len(node') = Len(Ensured)
      /\ Top + 1 \in 1..Len(node')
      /\ node'[Top + 1] = WithEntry(Ensured[Top + 1], Last(carry))
      /\ \A l \in 1..Len(node') : l # Top + 1 => node'[l] \in {Ensured[l], Reset(Ensured[l])}
  BY PutIs
<1>3. /\ Len(carry) \in Nat \ {0} /\ Last(carry) \in Entry /\ Last(carry) = carry[Len(carry)]
      /\ Len(Front(carry)) = Len(carry) - 1 /\ base \in Nat /\ Len(node) \in Nat
      /\ \A i \in 1..(Len(carry) - 1) : Front(carry)[i] = carry[i]
      /\ Top = base + Len(carry) - 1
  BY <1>1, CarryIs DEF Shape, Top
<1>4. 1..Len(<<>>) = {}
  OBVIOUS
<1>5. ASSUME NEW l \in 1..Len(Ensured), l > 1 PROVE EntriesPoint(disk, Ensured[l].entries, l - 1)
  <2>1. (l \in 1..Len(node) /\ Ensured[l] = node[l]) \/ Ensured[l] = NewNode
    BY <1>1, EnsuredIs
  <2>2. CASE l \in 1..Len(node) /\ Ensured[l] = node[l]
    BY <1>5, <2>2 DEF Points, NodesPoint
  <2>3. CASE Ensured[l] = NewNode
    BY <1>4, <2>3, NodesAre DEF EntriesPoint
  <2>4. QED
    BY <2>1, <2>2, <2>3
<1>6. Top + 1 > 1 => PointsDown(disk, Last(carry), Top)
  <2>1. Len(carry) \in 1..Len(carry) /\ base + Len(carry) - 1 = Top
    BY <1>3
  <2>2. base + Len(carry) > 1 => PointsDown(disk, carry[Len(carry)], base + Len(carry) - 1)
    BY <2>1 DEF Points, CarryPoints
  <2>3. QED
    BY <1>3, <2>1, <2>2
<1>7. ASSUME NEW l \in 1..Len(node'), l > 1 PROVE EntriesPoint(disk, node'[l].entries, l - 1)
  <2> DEFINE E == Ensured[l]
  <2>1. E \in OpenNode /\ EntriesPoint(disk, E.entries, l - 1) /\ l \in 1..Len(Ensured)
    BY <1>2, <1>5, <1>7
  <2>2. CASE l = Top + 1
    <3>1. E.entries \in Seq(Entry)
      BY <2>1 DEF OpenNode
    <3>2. node'[l].entries = Append(E.entries, Last(carry))
      <4>1. node'[l] = WithEntry(E, Last(carry))
        BY <1>2, <2>2
      <4> HIDE DEF E
      <4>2. WithEntry(E, Last(carry)).entries = Append(E.entries, Last(carry))
        BY <1>3, <2>1, NodesAre
      <4>3. QED
        BY <4>1, <4>2
    <3> DEFINE es == E.entries
               x == Last(carry)
    <3>3. PointsDown(disk, x, l - 1)
      BY <1>2, <1>6, <1>7, <2>2
    <3> HIDE DEF es, x, E
    <3>4. \A i \in 1..Len(Append(es, x)) : (i \in 1..Len(es) /\ Append(es, x)[i] = es[i])
                                           \/ Append(es, x)[i] = x
      BY <3>1 DEF es
    <3>5. EntriesPoint(disk, Append(es, x), l - 1)
      BY <2>1, <3>3, <3>4 DEF EntriesPoint, es
    <3>6. QED
      BY <3>2, <3>5 DEF es, x
  <2>3. CASE l # Top + 1
    <3>1. node'[l] = E \/ node'[l] = Reset(E)
      BY <1>2, <2>3
    <3> HIDE DEF E
    <3>2. node'[l].entries = E.entries \/ node'[l].entries = <<>>
      BY <2>1, <3>1, NodesAre
    <3>3. QED
      BY <1>4, <2>1, <3>2 DEF EntriesPoint
  <2>4. QED
    BY <2>2, <2>3
<1>8. CarryPoints(disk, carry', base')
  <2>1. CASE Len(carry) > 1
    <3>1. \A i \in 1..Len(carry') : i \in 1..Len(carry) /\ carry'[i] = carry[i]
      BY <1>1, <1>3
    <3>2. QED
      BY <1>1, <2>1, <3>1 DEF Points, CarryPoints
  <2>2. CASE ~(Len(carry) > 1)
    <3>1. 1..Len(carry') = {}
      BY <1>1, <1>3, <2>2
    <3>2. QED
      BY <3>1 DEF CarryPoints
  <2>3. QED
    BY <2>1, <2>2
<1>9. QED
  BY <1>1, <1>7, <1>8 DEF Points, NodesPoint

\* The entries made on the way are dropped, whose nodes were not reset.
LEMMA CallFailsPoints ==
  ASSUME Shape, Stage, Points, CallFails
  PROVE  Points'
<1>1. /\ disk' = disk /\ base' = base
      /\ carry' = IF base > 0 THEN <<>> ELSE <<Head(carry)>>
  BY DEF CallFails, Finishing
<1>2. /\ \A l \in 1..Len(node) : node'[l] = node[l]
      /\ \A l \in 1..Len(node') : l \in 1..Len(node) \/ node'[l] = NewNode
  BY CallFailsTyped
<1>3. NodesPoint(disk, node')
  <2> SUFFICES ASSUME NEW l \in 1..Len(node'), l > 1
               PROVE  EntriesPoint(disk, node'[l].entries, l - 1)
    BY DEF NodesPoint
  <2>1. CASE l \in 1..Len(node)
    BY <1>2, <2>1 DEF Points, NodesPoint
  <2>2. CASE node'[l] = NewNode
    <3>1. 1..Len(<<>>) = {} /\ node'[l].entries = <<>>
      BY <2>2, NodesAre
    <3>2. QED
      BY <3>1 DEF EntriesPoint
  <2>3. QED
    BY <1>2, <2>1, <2>2
<1>4. CarryPoints(disk, carry', base)
  <2>1. base \in Nat
    BY DEF Shape
  <2>2. CASE base > 0
    BY <1>1, <2>2, EmptyCarryPoints
  <2>3. CASE base = 0
    <3>1. Len(carry') = 1
      BY <1>1, <2>3
    <3>2. \A i \in 1..Len(carry') : ~(base + i > 1)
      BY <2>3, <3>1
    <3>3. QED
      BY <3>2 DEF CarryPoints
  <2>4. QED
    BY <2>1, <2>2, <2>3
<1>5. QED
  BY <1>1, <1>3, <1>4 DEF Points

\* The steps that write nothing and append nothing.
LEMMA OthersPoint ==
  ASSUME Shape, Stage, Points,
         \/ \E size \in ItemSizes : CallAppend(size)
         \/ FlushReserve \/ CallFinish \/ FinishLevel \/ FinishSingle \/ RootReserve \/ Retry \/ Cancel
         \/ Overrun \/ UNCHANGED vars
  PROVE  Points'
<1>1. CASE \E size \in ItemSizes : CallAppend(size)
  <2>1. node' = node /\ disk' = disk /\ base' = 0 /\ Len(carry') = 1
    BY <1>1 DEF CallAppend, memVars
  <2>2. \A i \in 1..Len(carry') : ~(base' + i > 1)
    BY <2>1
  <2>3. QED
    BY <2>1, <2>2 DEF Points, CarryPoints
<1>2. CASE FlushReserve \/ FinishSingle \/ RootReserve \/ Cancel \/ Overrun \/ UNCHANGED vars
  <2>1. node' = node /\ disk' = disk /\ base' = base /\ carry' = carry
    BY <1>2 DEF FlushReserve, FinishSingle, RootReserve, Cancel, Overrun, vars, memVars
  <2>2. QED
    BY <2>1 DEF Points
<1>3. CASE CallFinish \/ FinishLevel \/ Retry
  <2>1. node' = node /\ disk' = disk /\ carry' = carry
    BY <1>3 DEF CallFinish, FinishLevel, Retry, memVars
  <2>2. carry = <<>> \/ base' = base
    <3>1. pc = "failed" /\ base > 0 => carry = <<>>
      BY EmptySeq DEF Shape, Stage
    <3>2. QED
      BY <1>3, <3>1 DEF CallFinish, FinishLevel, Retry, Stage, Finishing
  <2>3. QED
    BY <2>1, <2>2, EmptyCarryPoints DEF Points
<1>4. QED
  BY <1>1, <1>2, <1>3


(***************************************************************************)
(* Space                                                                   *)
(***************************************************************************)

RangesOf(rs) == UNION {rs[i].begin..(rs[i].end - 1) : i \in DOMAIN rs}

RangesOK(rs, top) ==
  /\ rs \in Seq(Extent)
  /\ \A i \in 1..Len(rs) : rs[i].begin < rs[i].end
  /\ rs # <<>> => rs[Len(rs)].end <= top

Space ==
  /\ RangesOK(ranges, next) /\ held \subseteq 1..(next - 1)
  /\ IF pc = "cancelled" THEN held = {} ELSE held = RangesOf(ranges) /\ pages = Cardinality(held)

\* A node takes pages.
LEMMA NodeTakesPages ==
  ASSUME NEW nd \in OpenNode
  PROVE  PagesOf(nd.bytes) \in Nat \ {0}
<1>1. nd.bytes \in Nat /\ nd.bytes > 0
  BY DEF OpenNode
<1>2. QED
  BY <1>1, PagesIs

\* Pages from a on.
LEMMA PagesFrom ==
  ASSUME NEW a \in Nat, NEW size \in Nat, size > 0
  PROVE  /\ a \in a..(a + size - 1)
         /\ IsFiniteSet(a..(a + size - 1)) /\ Cardinality(a..(a + size - 1)) = size
<1> DEFINE z == a + size - 1
<1>1. z \in Int /\ ~(a > z) /\ z - a + 1 = size /\ a \in a..z
  OBVIOUS
<1> HIDE DEF z
<1>2. IsFiniteSet(a..z) /\ Cardinality(a..z) = z - a + 1
  BY <1>1, FS_Interval
<1>3. QED
  BY <1>1, <1>2 DEF z

\* The range list after one more reservation.
LEMMA AddRangeIs ==
  ASSUME NEW top \in Nat, RangesOK(ranges, top), NEW at \in Nat, at >= top, NEW size \in Nat \ {0}
  PROVE  /\ RangesOK(AddRange(at, size), at + size)
         /\ RangesOf(AddRange(at, size)) = RangesOf(ranges) \cup at..(at + size - 1)
<1> DEFINE n == Len(ranges)
           new == [begin |-> at, end |-> at + size]
<1>0. size \in Nat /\ size > 0 /\ at + size \in Nat /\ at < at + size
  OBVIOUS
<1>1. /\ ranges \in Seq(Extent) /\ n \in Nat /\ DOMAIN ranges = 1..n
      /\ \A i \in 1..n : /\ ranges[i] \in Extent /\ ranges[i].begin \in Nat /\ ranges[i].end \in Nat
                         /\ ranges[i].begin < ranges[i].end
      /\ new \in Extent /\ new.begin = at /\ new.end = at + size
      /\ ranges # <<>> => ranges[n].end <= top
  <2>1. ranges \in Seq(Extent) /\ (\A i \in 1..n : ranges[i].begin < ranges[i].end)
        /\ (ranges # <<>> => ranges[n].end <= top)
    BY DEF RangesOK
  <2>2. \A i \in 1..n : ranges[i] \in Extent
    BY <2>1
  <2>3. \A x \in Extent : x.begin \in Nat /\ x.end \in Nat
    BY DEF Extent
  <2>4. new \in Extent /\ new.begin = at /\ new.end = at + size
    BY <1>0 DEF Extent
  <2>5. QED
    BY <2>1, <2>2, <2>3, <2>4
<1> HIDE DEF n
<1>2. CASE ranges # <<>> /\ Last(ranges).end = at
  <2> DEFINE wide == [ranges[n] EXCEPT !.end = at + size]
             A == AddRange(at, size)
  <2>1. n \in 1..n /\ Last(ranges) = ranges[n]
    BY <1>1, <1>2, EmptySeq DEF Last, n
  <2>2. A = [ranges EXCEPT ![n] = wide]
    BY <1>2 DEF AddRange, n
  <2>3. /\ wide \in Extent /\ wide.begin = ranges[n].begin /\ wide.end = at + size
        /\ ranges[n].end = at
    <3>1. at + size \in Nat
      OBVIOUS
    <3>2. QED
      BY <1>1, <1>2, <2>1, <3>1 DEF Extent
  <2> HIDE DEF wide, A
  <2>4. /\ A \in Seq(Extent) /\ Len(A) = n /\ A[n] = wide
        /\ \A i \in 1..n : i # n => A[i] = ranges[i]
    <3>1. Len(ranges) = n
      BY DEF n
    <3>2. QED
      BY <1>1, <2>1, <2>2, <2>3, <3>1
  <2>5. RangesOK(A, at + size)
    <3>1. \A i \in 1..n : A[i].begin < A[i].end
      <4> TAKE i \in 1..n
      <4>1. CASE i # n
        BY <1>1, <2>4, <4>1
      <4>2. CASE i = n
        <5>1. ranges[n].begin < ranges[n].end /\ ranges[n].begin \in Nat
          BY <1>1, <2>1
        <5>2. ranges[n].begin < at + size
          BY <1>0, <2>3, <5>1
        <5>3. QED
          BY <2>3, <2>4, <4>2, <5>2
      <4>3. QED
        BY <4>1, <4>2
    <3>2. A[n].end <= at + size
      BY <2>3, <2>4
    <3>3. QED
      BY <2>4, <3>1, <3>2 DEF RangesOK
  <2>6. wide.begin..(wide.end - 1) = ranges[n].begin..(ranges[n].end - 1) \cup at..(at + size - 1)
    <3>1. ranges[n].begin \in Nat /\ ranges[n].begin < at
      BY <1>1, <2>1, <2>3
    <3> DEFINE lo == ranges[n].begin
    <3> HIDE DEF lo
    <3>2. lo..(at + size - 1) = lo..(at - 1) \cup at..(at + size - 1)
      BY <1>0, <3>1 DEF lo
    <3>3. QED
      BY <2>3, <3>2 DEF lo
  <2>7. RangesOf(A) = RangesOf(ranges) \cup at..(at + size - 1)
    <3> DEFINE P(i) == ranges[i].begin..(ranges[i].end - 1)
               Q(i) == A[i].begin..(A[i].end - 1)
               new1 == at..(at + size - 1)
    <3>1. \A i \in 1..n : i # n => Q(i) = P(i)
      BY <2>4
    <3>2. Q(n) = P(n) \cup new1
      BY <2>4, <2>6
    <3>3. DOMAIN A = 1..n
      BY <1>1, <2>4
    <3>4. RangesOf(A) = UNION {Q(i) : i \in 1..n} /\ RangesOf(ranges) = UNION {P(i) : i \in 1..n}
      BY <1>1, <3>3 DEF RangesOf
    <3> HIDE DEF P, Q, new1
    <3>5. UNION {Q(i) : i \in 1..n} = (UNION {P(i) : i \in 1..n}) \cup new1
      BY <2>1, <3>1, <3>2
    <3>6. QED
      BY <3>4, <3>5 DEF new1
  <2>8. QED
    BY <2>5, <2>7 DEF A
<1>3. CASE ~(ranges # <<>> /\ Last(ranges).end = at)
  <2> DEFINE A == AddRange(at, size)
  <2>1. A = Append(ranges, new)
    BY <1>3 DEF AddRange
  <2> HIDE DEF A, new
  <2>2. /\ A \in Seq(Extent) /\ Len(A) = n + 1 /\ A[n + 1] = new
        /\ \A i \in 1..n : A[i] = ranges[i]
    <3>1. Len(ranges) = n
      BY DEF n
    <3>2. QED
      BY <1>1, <2>1, <3>1, AppendProperties
  <2>3. \A i \in 1..Len(A) : i \in 1..n \/ i = n + 1
    BY <1>1, <2>2
  <2>4. RangesOK(A, at + size)
    <3>1. \A i \in 1..Len(A) : A[i].begin < A[i].end
      BY <1>1, <2>2, <2>3
    <3>2. A[Len(A)].end <= at + size
      BY <1>1, <2>2
    <3>3. QED
      BY <2>2, <3>1, <3>2 DEF RangesOK
  <2>5. RangesOf(A) = RangesOf(ranges) \cup at..(at + size - 1)
    <3> DEFINE P(i) == ranges[i].begin..(ranges[i].end - 1)
               Q(i) == A[i].begin..(A[i].end - 1)
               new1 == at..(at + size - 1)
    <3>1. \A i \in 1..n : Q(i) = P(i)
      BY <2>2
    <3>2. Q(n + 1) = new1
      BY <1>1, <2>2
    <3>3. DOMAIN A = 1..n \cup {n + 1}
      BY <1>1, <2>2
    <3>4. /\ RangesOf(A) = UNION {Q(i) : i \in 1..n \cup {n + 1}}
          /\ RangesOf(ranges) = UNION {P(i) : i \in 1..n}
      BY <1>1, <3>3 DEF RangesOf
    <3> HIDE DEF P, Q, new1
    <3>5. UNION {Q(i) : i \in 1..n \cup {n + 1}} = (UNION {P(i) : i \in 1..n}) \cup new1
      BY <3>1, <3>2
    <3>6. QED
      BY <3>4, <3>5 DEF new1
  <2>6. QED
    BY <2>4, <2>5 DEF A
<1>4. QED
  BY <1>2, <1>3

\* ctree_builder_alloc
LEMMA ReserveSpace ==
  ASSUME Shape, Space, pc # "cancelled", pc' # "cancelled", NEW size \in Nat \ {0}, Reserve(size)
  PROVE  /\ Space' /\ offs' >= next /\ offs' \in Nat
         /\ held' = held \cup offs'..(offs' + size - 1)
         /\ held \cap offs'..(offs' + size - 1) = {}
<1> DEFINE new == offs'..(offs' + size - 1)
<1>0. size \in Nat /\ size > 0
  OBVIOUS
<1>1. /\ offs' \in Nat /\ offs' >= next /\ next' = offs' + size /\ next \in Nat \ {0}
      /\ pages' = pages + size /\ pages \in Nat
      /\ held' = held \cup new /\ ranges' = AddRange(offs', size)
  BY ReserveTyped DEF Shape
<1>2. RangesOK(ranges, next) /\ held \subseteq 1..(next - 1) /\ held = RangesOf(ranges)
      /\ pages = Cardinality(held)
  BY DEF Space
<1>3. RangesOK(ranges', next') /\ RangesOf(ranges') = RangesOf(ranges) \cup new
  BY <1>1, <1>2, AddRangeIs
<1>4. held \cap new = {} /\ new \subseteq 1..(next' - 1) /\ held \subseteq 1..(next' - 1)
  <2> DEFINE a == offs'
             z == next'
  <2>1. a \in Nat /\ a >= next /\ z = a + size /\ next \in Nat /\ next > 0
    BY <1>1
  <2> HIDE DEF a, z
  <2>2. /\ \A x \in a..(a + size - 1) : x \in 1..(z - 1) /\ ~(x \in 1..(next - 1))
        /\ \A x \in 1..(next - 1) : x \in 1..(z - 1)
    BY <1>0, <2>1
  <2>3. QED
    BY <1>2, <2>2 DEF a, z
<1>5. IsFiniteSet(new) /\ Cardinality(new) = size
  BY <1>0, <1>1, PagesFrom
<1>6. IsFiniteSet(held)
  <2>1. IsFiniteSet(1..(next - 1))
    BY <1>1, FS_Interval
  <2>2. QED
    BY <1>2, <2>1, FS_Subset
<1>7. Cardinality(held') = pages'
  <2> HIDE DEF new
  <2>1. Cardinality(held \cap new) = 0
    BY <1>4, FS_EmptySet
  <2>2. Cardinality(held \cup new) = Cardinality(held) + Cardinality(new) - 0
    BY <1>5, <1>6, <2>1, FS_Union
  <2>3. QED
    BY <1>1, <1>2, <1>5, <2>2
<1>8. Space'
  BY <1>1, <1>2, <1>3, <1>4, <1>7 DEF Space
<1>9. QED
  BY <1>1, <1>4, <1>8

\* The pages of a node, and those about to be written.
PagesAt(d, o) == o..(o + d[o].size - 1)

Pending == offs..(offs + PagesOf(node[IF pc = "write" THEN Top + 1 ELSE base].bytes) - 1)

Writing == pc \in {"write", "root"}

Fill ==
  /\ \A o \in DOMAIN disk : o \in Nat /\ disk[o] \in Stored
  /\ pc # "cancelled" =>
       /\ \A o \in DOMAIN disk : PagesAt(disk, o) \subseteq held
       /\ \A o, p \in DOMAIN disk : o # p => PagesAt(disk, o) \cap PagesAt(disk, p) = {}
       /\ Writing => /\ Pending \subseteq held /\ offs \in Pending
                     /\ \A o \in DOMAIN disk : PagesAt(disk, o) \cap Pending = {}
       /\ failures = 0 => held = (UNION {PagesAt(disk, o) : o \in DOMAIN disk})
                                 \cup (IF Writing THEN Pending ELSE {})

\* A node lies in its own first page.
LEMMA PagesAtIs ==
  ASSUME Fill, NEW o \in DOMAIN disk
  PROVE  o \in PagesAt(disk, o)
<1>1. o \in Nat /\ disk[o].size \in Nat \ {0}
  BY DEF Fill, Stored
<1>2. QED
  BY <1>1 DEF PagesAt

\* The pages about to be written hold no node.
LEMMA PendingIsFree ==
  ASSUME Fill, Writing
  PROVE  offs \notin DOMAIN disk
<1>1. pc # "cancelled"
  BY DEF Writing
<1>2. ASSUME offs \in DOMAIN disk PROVE FALSE
  BY <1>1, <1>2, PagesAtIs DEF Fill
<1>3. QED
  BY <1>2

\* After a reservation, with its pages about to be written.
LEMMA ReserveFills ==
  ASSUME Shape, Space, Fill, pc # "cancelled", ~Writing, Writing',
         NEW size \in Nat \ {0}, Reserve(size), Pending' = offs'..(offs' + size - 1),
         disk' = disk, failures' = failures
  PROVE  Space' /\ Fill'
<1>1. pc' # "cancelled"
  BY DEF Writing
<1>2. /\ Space' /\ offs' \in Nat /\ held' = held \cup Pending' /\ held \cap Pending' = {}
  BY <1>1, ReserveSpace
<1>3. offs' \in Pending'
  <2>1. size \in Nat /\ size > 0
    OBVIOUS
  <2>2. QED
    BY <1>2, <2>1, PagesFrom
<1>4. \A o \in DOMAIN disk : PagesAt(disk, o) \subseteq held
  BY DEF Fill
<1>5. \A o : PagesAt(disk', o) = PagesAt(disk, o)
  BY DEF PagesAt
<1>6. \A o \in DOMAIN disk : PagesAt(disk', o) \subseteq held' /\ PagesAt(disk', o) \cap Pending' = {}
  BY <1>2, <1>4, <1>5
<1>7. failures' = 0 => held' = (UNION {PagesAt(disk', o) : o \in DOMAIN disk'}) \cup Pending'
  <2>1. failures = 0 => held = UNION {PagesAt(disk, o) : o \in DOMAIN disk}
    BY DEF Fill
  <2>2. UNION {PagesAt(disk', o) : o \in DOMAIN disk'} = UNION {PagesAt(disk, o) : o \in DOMAIN disk}
    BY <1>5
  <2>3. QED
    BY <1>2, <2>1, <2>2
<1>8. \A o, p \in DOMAIN disk' : o # p => PagesAt(disk', o) \cap PagesAt(disk', p) = {}
  BY <1>5 DEF Fill
<1>9. Fill'
  BY <1>1, <1>2, <1>3, <1>6, <1>7, <1>8 DEF Fill
<1>10. QED
  BY <1>2, <1>9

\* ctree_builder_flush reserves as many pages as the node takes.
LEMMA FlushReserveFills ==
  ASSUME Shape, Stage, Space, Fill, FlushReserve
  PROVE  Space' /\ Fill'
<1> DEFINE size == PagesOf(node[Top + 1].bytes)
<1>1. /\ pc = "append" /\ pc' = "write" /\ Reserve(size) /\ node' = node /\ disk' = disk
      /\ base' = base /\ carry' = carry /\ failures' = failures
  BY DEF FlushReserve, memVars
<1>2. node[Top + 1] \in OpenNode
  BY FlushedIs DEF FlushReserve
<1>3. size \in Nat \ {0}
  BY <1>2, NodeTakesPages
<1>4. Top' = Top
  BY <1>1 DEF Top
<1>5. Pending' = offs'..(offs' + size - 1)
  BY <1>1, <1>4 DEF Pending
<1> HIDE DEF size
<1>6. QED
  BY <1>1, <1>3, <1>5, ReserveFills DEF Writing

\* ctree_builder_finish does so for the root.
LEMMA RootReserveFills ==
  ASSUME Shape, Stage, Space, Fill, RootReserve
  PROVE  Space' /\ Fill'
<1> DEFINE size == PagesOf(node[base].bytes)
<1>1. /\ pc = "finish" /\ base > 1 /\ pc' = "root" /\ Reserve(size) /\ node' = node /\ disk' = disk
      /\ base' = base /\ failures' = failures
  BY DEF RootReserve, memVars
<1>2. node[base] \in OpenNode
  BY <1>1 DEF Shape, Stage
<1>3. size \in Nat \ {0}
  BY <1>2, NodeTakesPages
<1>4. Pending' = offs'..(offs' + size - 1)
  BY <1>1 DEF Pending
<1> HIDE DEF size
<1>5. QED
  BY <1>1, <1>3, <1>4, ReserveFills DEF Writing

\* ctree_node_write: the pages about to be written are those of a node.
LEMMA StoreFills ==
  ASSUME Shape, Space, Fill, Writing, pc' \in PcSet \ {"write", "root", "cancelled"},
         NEW nd \in OpenNode, NEW level \in Nat, WriteNode(nd, level),
         Pending = offs..(offs + PagesOf(nd.bytes) - 1),
         ranges' = ranges, pages' = pages, next' = next, held' = held, failures' = failures
  PROVE  Space' /\ Fill'
<1>1. pc # "cancelled" /\ pc' # "cancelled" /\ ~Writing' /\ offs \in Nat
  BY DEF Writing, Shape
<1>2. Space'
  BY <1>1 DEF Space
<1>3. /\ Grows(disk, disk') /\ DOMAIN disk' = DOMAIN disk \cup {offs}
      /\ disk'[offs] \in Stored /\ disk'[offs].size = PagesOf(nd.bytes)
  BY PendingIsFree, StoreIs
<1>4. PagesAt(disk', offs) = Pending
  BY <1>3 DEF PagesAt
<1>5. \A o \in DOMAIN disk : disk'[o] = disk[o] /\ PagesAt(disk', o) = PagesAt(disk, o)
  BY <1>3 DEF Grows, PagesAt
<1>6. \A o \in DOMAIN disk' : o \in Nat /\ disk'[o] \in Stored
  BY <1>1, <1>3, <1>5 DEF Fill
<1>7. \A o \in DOMAIN disk' : PagesAt(disk', o) \subseteq held'
  BY <1>1, <1>3, <1>4, <1>5 DEF Fill
<1>8. \A o, p \in DOMAIN disk' : o # p => PagesAt(disk', o) \cap PagesAt(disk', p) = {}
  BY <1>1, <1>3, <1>4, <1>5 DEF Fill
<1>9. failures' = 0 => held' = UNION {PagesAt(disk', o) : o \in DOMAIN disk'}
  <2>1. UNION {PagesAt(disk', o) : o \in DOMAIN disk'}
          = (UNION {PagesAt(disk, o) : o \in DOMAIN disk}) \cup Pending
    BY <1>3, <1>4, <1>5
  <2>2. QED
    BY <1>1, <2>1 DEF Fill
<1>10. Fill'
  BY <1>1, <1>6, <1>7, <1>8, <1>9 DEF Fill
<1>11. QED
  BY <1>2, <1>10

\* ctree_builder_flush writes what it has reserved.
LEMMA FlushWriteFills ==
  ASSUME Shape, Stage, Space, Fill, FlushWrite
  PROVE  Space' /\ Fill'
<1>1. /\ pc = "write" /\ pc' = "append" /\ WriteNode(node[Top + 1], Top) /\ failures' = failures
      /\ ranges' = ranges /\ pages' = pages /\ next' = next /\ held' = held
  BY DEF FlushWrite, spaceVars
<1>2. Len(carry) \in Nat /\ base \in Nat /\ Len(node) \in Nat /\ Top < Len(node)
  BY <1>1 DEF Shape, Stage
<1>3. Top \in Nat
  <2>1. base # 0 \/ carry # <<>>
    BY <1>1 DEF Stage
  <2>2. carry # <<>> => Len(carry) # 0
    BY EmptySeq DEF Shape
  <2>3. QED
    BY <1>2, <2>1, <2>2 DEF Top
<1>4. node[Top + 1] \in OpenNode
  BY <1>2, <1>3 DEF Shape
<1>5. Pending = offs..(offs + PagesOf(node[Top + 1].bytes) - 1)
  BY <1>1 DEF Pending
<1>6. QED
  BY <1>1, <1>3, <1>4, <1>5, StoreFills DEF Writing, PcSet

\* ctree_builder_finish does so for the root.
LEMMA RootWriteFills ==
  ASSUME Shape, Stage, Space, Fill, RootWrite
  PROVE  Space' /\ Fill'
<1>1. /\ pc = "root" /\ pc' = "done" /\ WriteNode(node[base], base - 1) /\ failures' = failures
      /\ ranges' = ranges /\ pages' = pages /\ next' = next /\ held' = held
  BY DEF RootWrite, spaceVars
<1>2. base - 1 \in Nat /\ node[base] \in OpenNode
  BY <1>1 DEF Shape, Stage
<1>3. Pending = offs..(offs + PagesOf(node[base].bytes) - 1)
  BY <1>1 DEF Pending
<1>4. QED
  BY <1>1, <1>2, <1>3, StoreFills DEF Writing, PcSet

\* Steps that neither reserve nor write.
LEMMA IdleFills ==
  ASSUME Space, Fill, ~Writing', pc # "cancelled", pc' # "cancelled",
         disk' = disk, ranges' = ranges, pages' = pages, next' = next, held' = held,
         failures' # 0 => failures # 0 \/ TRUE, failures' = 0 => failures = 0 /\ ~Writing
  PROVE  Space' /\ Fill'
<1>1. \A o : PagesAt(disk', o) = PagesAt(disk, o)
  BY DEF PagesAt
<1>2. QED
  BY <1>1 DEF Space, Fill

\* ctree_builder_cancel gives every range back.
LEMMA CancelFills ==
  ASSUME Shape, Space, Fill, Cancel
  PROVE  Space' /\ Fill'
<1>1. /\ pc # "cancelled" /\ pc' = "cancelled" /\ disk' = disk /\ ranges' = ranges /\ next' = next
      /\ held' = held \ RangesOf(ranges)
  BY DEF Cancel, RangesOf
<1>2. held' = {}
  BY <1>1 DEF Space
<1>3. QED
  BY <1>1, <1>2 DEF Space, Fill

\* Every step keeps what is held and what is written in step.
LEMMA StepFills ==
  ASSUME Shape, Stage, Space, Fill, [Next]_vars
  PROVE  Space' /\ Fill'
<1>1. CASE \E size \in ItemSizes : CallAppend(size)
  <2>1. /\ pc = "idle" /\ pc' = "append" /\ disk' = disk /\ failures' = failures
        /\ ranges' = ranges /\ pages' = pages /\ next' = next /\ held' = held
    BY <1>1 DEF CallAppend, spaceVars
  <2>2. QED
    BY <2>1, IdleFills DEF Writing
<1>2. CASE PutEntry \/ Overrun
  <2>1. /\ pc = "append" /\ pc' \in {"append", "finish", "idle", "overrun"} /\ disk' = disk /\ failures' = failures
        /\ ranges' = ranges /\ pages' = pages /\ next' = next /\ held' = held
    BY <1>2 DEF PutEntry, Overrun, spaceVars
  <2>2. QED
    BY <2>1, IdleFills DEF Writing
<1>3. CASE CallFinish \/ FinishLevel \/ FinishSingle \/ Retry
  <2>1. /\ pc \in {"idle", "finish", "failed"} /\ pc' \in {"append", "finish", "done"}
        /\ disk' = disk /\ failures' = failures
        /\ ranges' = ranges /\ pages' = pages /\ next' = next /\ held' = held
    BY <1>3 DEF CallFinish, FinishLevel, FinishSingle, Retry, spaceVars
  <2>2. QED
    BY <2>1, IdleFills DEF Writing
<1>4. CASE CallFails
  <2>1. /\ pc \in {"append", "write", "root", "finish"} /\ pc' = "failed"
        /\ disk' = disk /\ failures' = failures + 1
        /\ ranges' = ranges /\ pages' = pages /\ next' = next /\ held' = held
    BY <1>4 DEF CallFails, spaceVars
  <2>2. failures' # 0
    BY <2>1, ConstantsAre DEF Shape
  <2>3. QED
    BY <2>1, <2>2, IdleFills DEF Writing
<1>5. CASE FlushReserve \/ RootReserve
  BY <1>5, FlushReserveFills, RootReserveFills
<1>6. CASE FlushWrite \/ RootWrite
  BY <1>6, FlushWriteFills, RootWriteFills
<1>7. CASE Cancel
  BY <1>7, CancelFills
<1>8. CASE UNCHANGED vars
  BY <1>8 DEF vars, Space, Fill, PagesAt, Writing, Pending, Top
<1>9. QED
  BY <1>1, <1>2, <1>3, <1>4, <1>5, <1>6, <1>7, <1>8 DEF Next

\* Every step keeps entries naming nodes, nothing being written over.
LEMMA StepPoints ==
  ASSUME Shape, Stage, Points, Fill, [Next]_vars
  PROVE  Points'
<1>1. CASE FlushWrite \/ RootWrite
  <2>1. Writing
    BY <1>1 DEF FlushWrite, RootWrite, Writing
  <2>2. QED
    BY <1>1, <2>1, PendingIsFree, FlushWritePoints, RootWritePoints
<1>2. CASE PutEntry \/ CallFails
  BY <1>2, PutEntryPoints, CallFailsPoints
<1>3. CASE ~(FlushWrite \/ RootWrite \/ PutEntry \/ CallFails)
  BY <1>3, OthersPoint DEF Next
<1>4. QED
  BY <1>1, <1>2, <1>3

(***************************************************************************)
(* Buffers                                                                 *)
(***************************************************************************)

\* The buffer of a node is of whole pages, and they hold it.
Fits(nd) ==
  /\ PageSize * PagesOf(nd.bytes) <= nd.max
  /\ \E k \in Nat : nd.max = PageSize * k

Buffers ==
  /\ \A l \in 1..Len(node) : Fits(node[l])
  /\ pc = "overrun" => Last(carry).size > Ensured[Top + 1].max

\* Whole pages that hold so many bytes hold the pages these take.
LEMMA WholePagesHold ==
  ASSUME NEW b \in Nat, NEW k \in Nat, b <= PageSize * k
  PROVE  PageSize * PagesOf(b) <= PageSize * k
<1> DEFINE p == PageSize
           q == PagesOf(b)
<1>1. p \in Nat /\ p > 0 /\ q \in Nat /\ p * q < b + p
  BY ConstantsAre, PagesIs
<1>2. b <= p * k
  OBVIOUS
<1> HIDE DEF p, q
<1>3. \A x, y, z \in Nat : y <= z => x * y <= x * z
  OBVIOUS
<1>4. p * q \in Nat /\ p * k \in Nat /\ p * (k + 1) = p * k + p
  BY <1>1
<1>5. ~(k + 1 <= q)
  <2>1. k + 1 <= q => p * (k + 1) <= p * q
    BY <1>1, <1>3
  <2>2. QED
    BY <1>1, <1>2, <1>4, <2>1
<1>6. q <= k
  BY <1>1, <1>5
<1>7. p * q <= p * k
  BY <1>1, <1>3, <1>6
<1>8. QED
  BY <1>7 DEF p, q

\* What ctree_ensure_entries makes of a buffer of whole pages: whole pages, and
\* enough of them unless twice the buffer is too little.
LEMMA GrownIs ==
  ASSUME NEW nd \in OpenNode, Fits(nd), NEW size \in Nat
  PROVE  /\ nd.bytes <= nd.max
         /\ \E k \in Nat : Grown(nd, size) = PageSize * k
         /\ Grown(nd, size) >= nd.bytes + size \/ Grown(nd, size) = 2 * nd.max
<1> DEFINE p == PageSize
           r == PagesOf(nd.bytes + size)
           b == p * r
           m == nd.max
           n == nd.bytes
           g == Grown(nd, size)
<1>1. p \in Nat /\ n \in Nat /\ m \in Nat /\ n + size \in Nat
  BY ConstantsAre DEF OpenNode
<1>2. r \in Nat /\ n + size <= b
  BY <1>1, PagesIs
<1>3. n <= m
  <2> DEFINE a == p * PagesOf(n)
  <2>1. PagesOf(n) \in Nat /\ n <= a
    BY <1>1, PagesIs
  <2>2. a <= m
    BY DEF Fits
  <2>3. a \in Nat
    BY <1>1, <2>1
  <2> HIDE DEF a, n, m
  <2>4. QED
    BY <1>1, <2>1, <2>2, <2>3
<1>4. PICK k \in Nat : m = p * k
  BY DEF Fits
<1>5. g = IF m < b THEN Min({2 * m, b}) ELSE m
  BY DEF Grown
<1> HIDE DEF p, r, m, n, g
<1>6. b \in Nat /\ 2 * m \in Nat /\ 2 * m = p * (2 * k)
  BY <1>1, <1>2, <1>4
<1> HIDE DEF b
<1>7. Min({2 * m, b}) \in {2 * m, b}
  BY <1>6, MinIs
<1>8. (g = m /\ m >= b) \/ g = 2 * m \/ g = b
  BY <1>1, <1>5, <1>6, <1>7
<1>9. \E i \in Nat : g = p * i
  <2>1. 2 * k \in Nat
    OBVIOUS
  <2>2. QED
    BY <1>2, <1>4, <1>6, <1>8, <2>1 DEF b
<1>10. g >= n + size \/ g = 2 * m
  BY <1>1, <1>2, <1>6, <1>8
<1>11. QED
  BY <1>3, <1>9, <1>10 DEF g, p, m, n

\* A new, an emptied and an appended node fit in their buffers, and an entry
\* that would not is larger than the buffer.
LEMMA FitsNodes ==
  /\ Fits(NewNode)
  /\ \A nd \in OpenNode : Fits(nd) =>
       /\ Fits(Reset(nd))
       /\ \A e \in Entry : IF Overruns(nd, e) THEN e.size > nd.max ELSE Fits(WithEntry(nd, e))
<1>1. PageSize \in Nat /\ PageSize > 0 /\ Header \in Nat /\ Header > 0 /\ Header <= PageSize
  BY ConstantsAre
<1>2. PageSize * PagesOf(Header) <= PageSize /\ PageSize * 1 = PageSize
  BY <1>1, WholePagesHold
<1>3. Fits(NewNode)
  <2>1. NewNode.bytes = Header /\ NewNode.max = PageSize
    BY DEF NewNode
  <2>2. QED
    BY <1>2, <2>1 DEF Fits
<1>4. ASSUME NEW nd \in OpenNode, Fits(nd) PROVE Fits(Reset(nd))
  <2>1. Reset(nd).bytes = Header /\ Reset(nd).max = nd.max
    BY NodesAre
  <2>2. nd.bytes \in Nat \ {0} /\ nd.bytes <= nd.max /\ nd.max \in Nat
    BY <1>4, GrownIs DEF OpenNode
  <2>3. PICK k \in Nat : nd.max = PageSize * k
    BY <1>4 DEF Fits
  <2>4. k # 0
    BY <1>1, <2>2, <2>3
  <2>5. PageSize * 1 <= PageSize * k
    <3>1. \A x, y, z \in Nat : y <= z => x * y <= x * z
      OBVIOUS
    <3>2. 1 <= k
      BY <2>4
    <3>3. QED
      BY <1>1, <3>1, <3>2
  <2>6. Header <= PageSize * k
    BY <1>1, <1>2, <2>2, <2>3, <2>5
  <2>7. PageSize * PagesOf(Header) <= PageSize * k
    BY <1>1, <2>6, WholePagesHold
  <2>8. QED
    BY <2>1, <2>3, <2>7 DEF Fits
<1>5. ASSUME NEW nd \in OpenNode, Fits(nd), NEW e \in Entry
      PROVE  IF Overruns(nd, e) THEN e.size > nd.max ELSE Fits(WithEntry(nd, e))
  <2> DEFINE g == Grown(nd, e.size)
  <2>1. e.size \in Nat /\ nd.bytes \in Nat /\ nd.max \in Nat
    BY ConstantsAre DEF Entry, OpenNode
  <2>2. /\ nd.bytes <= nd.max /\ \E k \in Nat : g = PageSize * k
        /\ g >= nd.bytes + e.size \/ g = 2 * nd.max
    BY <1>5, <2>1, GrownIs
  <2>3. PICK k \in Nat : g = PageSize * k
    BY <2>2
  <2>4. Overruns(nd, e) <=> nd.bytes + e.size > g
    BY DEF Overruns
  <2>5. WithEntry(nd, e).bytes = nd.bytes + e.size /\ WithEntry(nd, e).max = g
    BY NodesAre
  <2> HIDE DEF g
  <2>6. g \in Nat
    BY <1>1, <2>3
  <2>7. CASE Overruns(nd, e)
    BY <2>1, <2>2, <2>4, <2>6, <2>7
  <2>8. CASE ~Overruns(nd, e)
    <3>1. nd.bytes + e.size \in Nat /\ nd.bytes + e.size <= PageSize * k
      BY <2>1, <2>3, <2>4, <2>6, <2>8
    <3>2. PageSize * PagesOf(nd.bytes + e.size) <= PageSize * k
      BY <3>1, WholePagesHold
    <3>3. QED
      BY <2>3, <2>5, <2>8, <3>2 DEF Fits
  <2>9. QED
    BY <2>7, <2>8
<1>6. QED
  BY <1>3, <1>4, <1>5

\* Where the entry on its way up goes.
LEMMA TargetFits ==
  ASSUME Shape, Buffers, carry # <<>>, Top <= Len(node)
  PROVE  /\ Last(carry) \in Entry /\ Top + 1 \in 1..Len(Ensured)
         /\ \A l \in 1..Len(Ensured) : Ensured[l] \in OpenNode /\ Fits(Ensured[l])
<1>1. Last(carry) \in Entry
  BY CarryIs DEF Shape
<1>2. Top \in Nat /\ Len(Ensured) \in Nat /\ Top + 1 <= Len(Ensured)
  BY EnsuredIs
<1>3. \A l \in 1..Len(node) : node[l] \in OpenNode /\ Fits(node[l])
  BY DEF Shape, Buffers
<1>4. ASSUME NEW l \in 1..Len(Ensured) PROVE Ensured[l] \in OpenNode /\ Fits(Ensured[l])
  <2>1. (l \in 1..Len(node) /\ Ensured[l] = node[l]) \/ Ensured[l] = NewNode
    BY EnsuredIs
  <2>2. QED
    BY <1>3, <2>1, NodesAre, FitsNodes
<1>5. QED
  BY <1>1, <1>2, <1>4

\* Every step leaves every open node in a buffer that holds it, but for the
\* entry that is larger than the buffer.
LEMMA StepFits ==
  ASSUME Shape, Stage, Buffers, [Next]_vars
  PROVE  Buffers'
<1>1. /\ \A l \in 1..Len(node) : Fits(node[l]) /\ node[l] \in OpenNode
      /\ Len(node) \in Nat /\ node \in Seq(OpenNode)
  BY DEF Buffers, Shape
<1>2. CASE PutEntry
  <2>1. /\ carry # <<>> /\ Top <= Len(node) /\ ~Overruns(Ensured[Top + 1], Last(carry))
        /\ pc = "append" /\ pc' # "overrun"
    BY <1>2 DEF PutEntry, Stage
  <2>2. /\ Len(node') = Len(Ensured) /\ Top + 1 \in 1..Len(node')
        /\ node'[Top + 1] = WithEntry(Ensured[Top + 1], Last(carry))
        /\ \A l \in 1..Len(node') : l # Top + 1 => node'[l] \in {Ensured[l], Reset(Ensured[l])}
    BY <1>2, PutIs
  <2>3. ASSUME NEW l \in 1..Len(node') PROVE Fits(node'[l])
    <3>1. Last(carry) \in Entry /\ Ensured[l] \in OpenNode /\ Fits(Ensured[l])
      BY <2>1, <2>2, TargetFits
    <3>2. /\ Fits(Reset(Ensured[l]))
          /\ ~Overruns(Ensured[l], Last(carry)) => Fits(WithEntry(Ensured[l], Last(carry)))
      BY <3>1, FitsNodes
    <3>3. QED
      BY <2>1, <2>2, <3>1, <3>2
  <2>4. QED
    BY <2>1, <2>3 DEF Buffers
<1>3. CASE RootWrite
  <2>1. node' = [node EXCEPT ![base] = Reset(@)] /\ pc' = "done"
    BY <1>3 DEF RootWrite
  <2>2. Len(node') = Len(node) /\ \A l \in 1..Len(node) : node'[l] \in {node[l], Reset(node[l])}
    BY <1>1, <2>1
  <2>3. \A l \in 1..Len(node) : Fits(Reset(node[l]))
    BY <1>1, FitsNodes
  <2>4. QED
    BY <1>1, <2>1, <2>2, <2>3 DEF Buffers
<1>4. CASE CallFails
  <2>1. pc' = "failed"
    BY <1>4 DEF CallFails
  <2>2. \A l \in 1..Len(node') : Fits(node'[l])
    BY <1>1, <1>4, CallFailsTyped, FitsNodes
  <2>3. QED
    BY <2>1, <2>2 DEF Buffers
<1>5. CASE Overrun
  <2>1. /\ pc = "append" /\ carry # <<>> /\ Top <= Len(node)
        /\ Overruns(Ensured[Top + 1], Last(carry))
        /\ node' = node /\ carry' = carry /\ base' = base
    BY <1>5 DEF Overrun, Stage, memVars
  <2>2. Last(carry).size > Ensured[Top + 1].max
    BY <2>1, TargetFits, FitsNodes
  <2>3. Top' = Top /\ Ensured' = Ensured
    BY <2>1 DEF Top, Ensured
  <2>4. QED
    BY <1>1, <2>1, <2>2, <2>3 DEF Buffers
<1>6. CASE UNCHANGED vars
  BY <1>6 DEF vars, Buffers, Ensured, Top
<1>7. CASE ~(PutEntry \/ RootWrite \/ CallFails \/ Overrun \/ UNCHANGED vars)
  <2>1. node' = node /\ pc' # "overrun"
    BY <1>7 DEF Next, CallAppend, FlushReserve, FlushWrite, CallFinish, FinishLevel, FinishSingle,
                RootReserve, Retry, Cancel, memVars
  <2>2. QED
    BY <1>1, <2>1 DEF Buffers
<1>8. QED
  BY <1>2, <1>3, <1>4, <1>5, <1>6, <1>7

(***************************************************************************)
(* The root                                                                *)
(***************************************************************************)

\* The nodes a call has flushed on its way up are not emptied before it comes
\* back; so of the two levels at the top one has entries, and the loop of
\* ctree_builder_finish leaves it to the root.
Chain ==
  /\ pc \in {"append", "write"} =>
       /\ \A i \in 1..Len(carry) : base + i > 1 => node[base + i - 1].entries # <<>>
       /\ base > 0 => base < Len(node)
  /\ (Len(node) >= 2 /\ pc # "done") =>
       \/ node[Len(node)].entries # <<>>
       \/ /\ node[Len(node) - 1].entries # <<>>
          /\ pc \in {"finish", "append", "write"} => base < Len(node)
  /\ pc = "root" => base \in DOMAIN node /\ node[base].entries # <<>>
  /\ (pc = "done" /\ root.height > 0) =>
       /\ root.ptr \in DOMAIN disk /\ disk[root.ptr].level = root.height - 1
       /\ disk[root.ptr].entries # <<>>

\* __ctree_builder_append empties no level but the one below the entry.
LEMMA PutEntryChains ==
  ASSUME Shape, Stage, Chain, PutEntry
  PROVE  Chain'
<1> DEFINE E == Ensured
           n == Len(node)
           m == Len(node')
           T == Top + 1
           c == Len(carry)
<1>1. /\ pc = "append" /\ carry # <<>> /\ carry' = Front(carry) /\ disk' = disk /\ root' = root
      /\ IF c > 1 THEN pc' = pc /\ base' = base
         ELSE IF base > 0 THEN pc' = "finish" /\ base' = base + 1
         ELSE pc' = "idle" /\ base' = base
      /\ node' = [l \in DOMAIN E |->
                    IF l = Top + 1 THEN WithEntry(E[l], Last(carry))
                    ELSE IF l = Top /\ (c > 1 \/ Finishing) THEN Reset(E[l])
                    ELSE E[l]]
  BY DEF PutEntry, Finishing
<1>2. /\ Top \in Nat /\ E \in Seq(OpenNode) /\ m = Len(E) /\ T \in 1..m
      /\ node'[T] = WithEntry(E[T], Last(carry)) /\ Top <= n
  BY <1>1, PutIs DEF Stage
<1>3. /\ n \in Nat /\ m \in Nat /\ n <= m /\ m <= n + 1
      /\ \A l \in 1..n : E[l] = node[l]
  BY <1>1, <1>2, EnsuredIs
<1>4. \A l \in 1..m : l # T /\ l # Top => node'[l] = E[l]
  <2>1. DOMAIN E = 1..m
    BY <1>2
  <2>2. QED
    BY <1>1, <2>1
<1>5. node'[T].entries # <<>>
  <2>1. E[T] \in OpenNode /\ Last(carry) \in Entry
    BY <1>1, <1>2, CarryIs DEF Shape
  <2>2. node'[T].entries = Append(E[T].entries, Last(carry)) /\ E[T].entries \in Seq(Entry)
    BY <1>2, <2>1, NodesAre DEF OpenNode
  <2> DEFINE x == Last(carry)
             es == E[T].entries
  <2> HIDE DEF x, es, E
  <2>3. es \in Seq(Entry) /\ x \in Entry /\ node'[T].entries = Append(es, x)
    BY <2>1, <2>2 DEF x, es
  <2>4. Len(Append(es, x)) = Len(es) + 1 /\ Len(es) \in Nat
    BY <2>3
  <2>5. Append(es, x) # <<>>
    BY <2>4
  <2>6. QED
    BY <2>3, <2>5
<1>6. /\ c \in Nat \ {0} /\ base \in Nat /\ T = base + c /\ Len(carry') = c - 1
  BY <1>1, CarryIs DEF Shape, Top
<1>7. T < m => T < n /\ m = n
  <2>1. CASE Top < n
    <3>1. E = node
      BY <2>1 DEF Ensured
    <3>2. QED
      BY <1>2, <3>1
  <2>2. CASE Top = n
    BY <1>2, <1>3, <2>2
  <2>3. QED
    BY <1>2, <1>3, <2>1, <2>2
<1> HIDE DEF E, n, m, T, c
<1>8. CASE c > 1
  <2>1. pc' = "append" /\ base' = base
    BY <1>1, <1>8
  <2>2. \A i \in 1..Len(carry') : base + i > 1 => node'[base + i - 1].entries # <<>>
    <3> SUFFICES ASSUME NEW i \in 1..Len(carry'), base + i > 1
                 PROVE  node'[base + i - 1].entries # <<>>
      OBVIOUS
    <3>1. i \in 1..c /\ i < c
      BY <1>6
    <3>2. base + i - 1 \in 1..n /\ base + i - 1 \in 1..m /\ base + i - 1 # T /\ base + i - 1 # Top
      BY <1>2, <1>3, <1>6, <3>1 DEF T
    <3>3. node[base + i - 1].entries # <<>>
      BY <1>1, <3>1 DEF Chain, c
    <3>4. QED
      BY <1>3, <1>4, <3>2, <3>3
  <2>3. base > 0 => base < m
    <3>1. base > 0 => base < n
      BY <1>1 DEF Chain, n
    <3>2. QED
      BY <1>3, <1>6, <3>1
  <2>4. m >= 2 => \/ node'[m].entries # <<>>
                  \/ node'[m - 1].entries # <<>> /\ base < m
    <3> SUFFICES ASSUME m >= 2, T < m PROVE \/ node'[m].entries # <<>>
                                            \/ node'[m - 1].entries # <<>> /\ base < m
      BY <1>2, <1>5
    <3>1. n = m /\ T < n /\ T = Top + 1
      BY <1>7 DEF T
    <3>2. node'[n] = node[n]
      BY <1>2, <1>3, <1>4, <3>1
    <3>3. T # n - 1 => node'[n - 1] = node[n - 1]
      <4>1. n - 1 \in 1..n /\ n - 1 # Top
        BY <1>2, <1>3, <3>1
      <4>2. QED
        BY <1>3, <1>4, <3>1, <4>1
    <3>4. node[n].entries # <<>> \/ (node[n - 1].entries # <<>> /\ base < n)
      BY <1>1, <3>1 DEF Chain, n
    <3>5. QED
      BY <1>5, <3>1, <3>2, <3>3, <3>4
  <2>5. QED
    BY <2>1, <2>2, <2>3, <2>4 DEF Chain, m
<1>9. CASE c = 1
  <2>1. pc' \in {"finish", "idle"} /\ (pc' = "finish" => base' = T)
    BY <1>1, <1>6, <1>9
  <2>2. m >= 2 => \/ node'[m].entries # <<>>
                  \/ node'[m - 1].entries # <<>> /\ T < m
    <3> SUFFICES ASSUME m >= 2, T < m PROVE \/ node'[m].entries # <<>>
                                            \/ node'[m - 1].entries # <<>>
      BY <1>2, <1>5
    <3>1. n = m /\ T < n /\ T = Top + 1
      BY <1>7 DEF T
    <3>2. node'[n] = node[n]
      BY <1>2, <1>3, <1>4, <3>1
    <3>3. T # n - 1 => node'[n - 1] = node[n - 1]
      <4>1. n - 1 \in 1..n /\ n - 1 # Top
        BY <1>2, <1>3, <3>1
      <4>2. QED
        BY <1>3, <1>4, <3>1, <4>1
    <3>4. node[n].entries # <<>> \/ node[n - 1].entries # <<>>
      BY <1>1, <3>1 DEF Chain, n
    <3>5. QED
      BY <1>5, <3>1, <3>2, <3>3, <3>4
  <2>3. QED
    BY <2>1, <2>2 DEF Chain, m
<1>10. QED
  BY <1>6, <1>8, <1>9

\* A level that was added for an entry lies over one that has been flushed.
LEMMA CallFailsChains ==
  ASSUME Shape, Stage, Chain, CallFails
  PROVE  Chain'
<1>1. /\ pc' = "failed" /\ pc \in {"append", "write", "root", "finish"}
      /\ \/ node' = node
         \/ pc = "append" /\ carry # <<>> /\ Top = Len(node) /\ node' = Ensured
  BY DEF CallFails
<1>2. CASE node' = node
  BY <1>1, <1>2 DEF Chain
<1>3. CASE pc = "append" /\ carry # <<>> /\ Top = Len(node) /\ node' = Ensured
  <2>1. /\ Len(node) \in Nat /\ Len(node') \in Nat /\ Len(node') <= Len(node) + 1
        /\ Len(node) + 1 <= Len(node') /\ \A l \in 1..Len(node) : node'[l] = node[l]
    BY <1>3, EnsuredIs DEF Shape
  <2>2. Len(carry) \in Nat \ {0} /\ base \in Nat /\ Len(node) = base + Len(carry) - 1
    BY <1>3, CarryIs DEF Shape, Top
  <2>3. ASSUME Len(node') >= 2 PROVE node'[Len(node') - 1].entries # <<>>
    <3>1. Len(node') - 1 = Len(node) /\ Len(node) \in 1..Len(node)
      BY <2>1, <2>3
    <3>2. Len(carry) \in 1..Len(carry) /\ base + Len(carry) > 1
          /\ base + Len(carry) - 1 = Len(node)
      BY <2>2, <3>1
    <3>3. node[Len(node)].entries # <<>>
      BY <1>3, <3>2 DEF Chain
    <3>4. QED
      BY <2>1, <3>1, <3>3
  <2>4. QED
    BY <1>1, <2>3 DEF Chain
<1>4. QED
  BY <1>1, <1>2, <1>3

\* Every step keeps the levels at the top ready for a root.
LEMMA StepChains ==
  ASSUME Shape, Stage, Fill, Chain, [Next]_vars
  PROVE  Chain'
<1>1. CASE \E size \in ItemSizes : CallAppend(size)
  <2>1. /\ pc = "idle" /\ pc' = "append" /\ base' = 0 /\ Len(carry') = 1 /\ node' = node
    BY <1>1 DEF CallAppend, memVars
  <2>2. Len(node) \in Nat /\ \A i \in 1..Len(carry') : ~(0 + i > 1)
    BY <2>1 DEF Shape
  <2>3. QED
    BY <2>1, <2>2 DEF Chain
<1>2. CASE FlushReserve
  <2>1. /\ pc = "append" /\ pc' = "write" /\ base' = base /\ carry' = carry /\ node' = node
    BY <1>2 DEF FlushReserve, memVars
  <2>2. QED
    BY <2>1 DEF Chain
<1>3. CASE FlushWrite
  <2>1. /\ pc = "write" /\ pc' = "append" /\ base' = base /\ node' = node
        /\ \E e : carry' = Append(carry, e)
    BY <1>3 DEF FlushWrite, memVars
  <2>2. /\ carry \in Seq(Entry) /\ Len(carry) \in Nat /\ base \in Nat
        /\ node[Top + 1].entries # <<>> /\ Top = base + Len(carry) - 1
    BY <2>1 DEF Shape, Stage, Top
  <2>3. Len(carry') = Len(carry) + 1
    BY <2>1, <2>2
  <2>4. \A i \in 1..Len(carry') : base + i > 1 => node[base + i - 1].entries # <<>>
    <3> SUFFICES ASSUME NEW i \in 1..Len(carry'), base + i > 1
                 PROVE  node[base + i - 1].entries # <<>>
      OBVIOUS
    <3>1. CASE i \in 1..Len(carry)
      BY <2>1, <3>1 DEF Chain
    <3>2. CASE i = Len(carry) + 1
      <4>1. base + i - 1 = Top + 1
        BY <2>2, <3>2
      <4>2. QED
        BY <2>2, <4>1
    <3>3. QED
      BY <2>2, <2>3, <3>1, <3>2
  <2>5. QED
    BY <2>1, <2>4 DEF Chain
<1>4. CASE PutEntry \/ CallFails
  BY <1>4, PutEntryChains, CallFailsChains
<1>5. CASE CallFinish \/ Retry
  <2>1. /\ node' = node /\ pc' \in {"finish", "append"} /\ pc \in {"idle", "failed"}
        /\ pc' = "finish" => base' = 1
        /\ pc' = "append" => base' = base /\ carry' = carry /\ ~(base > 0) /\ pc = "failed"
    BY <1>5 DEF CallFinish, Retry, memVars, Finishing
  <2>2. Len(node) \in Nat /\ base \in Nat
    BY DEF Shape
  <2>3. pc' = "append" => base' = 0 /\ Len(carry') = 1
    BY <2>1, <2>2 DEF Stage
  <2>4. pc' = "append" => \A i \in 1..Len(carry') : ~(0 + i > 1)
    BY <2>3
  <2>5. QED
    BY <2>1, <2>2, <2>3, <2>4 DEF Chain
<1>6. CASE FinishLevel
  <2>1. /\ pc = "finish" /\ base < Len(node) /\ node' = node /\ carry' = carry
        /\ IF node[base].entries = <<>> THEN base' = base + 1 /\ pc' = pc
           ELSE pc' = "append" /\ base' = base
    BY <1>6 DEF FinishLevel, memVars
  <2>2. Len(node) \in Nat /\ base \in Nat /\ base >= 1 /\ carry = <<>>
    BY <2>1 DEF Shape, Stage
  <2>3. \A i \in 1..Len(carry') : FALSE
    BY <2>1, <2>2
  <2>4. CASE node[base].entries # <<>>
    BY <2>1, <2>2, <2>3, <2>4 DEF Chain
  <2>5. CASE node[base].entries = <<>>
    <3>1. Len(node) >= 2 /\ pc' = "finish" /\ base' = base + 1
      BY <2>1, <2>2, <2>5
    <3>2. node[Len(node)].entries # <<>> \/ (node[Len(node) - 1].entries # <<>> /\ base # Len(node) - 1)
      BY <2>1, <2>5, <3>1 DEF Chain
    <3>3. base # Len(node) - 1 => base + 1 < Len(node)
      BY <2>1, <2>2
    <3>4. QED
      BY <2>1, <3>1, <3>2, <3>3 DEF Chain
  <2>6. QED
    BY <2>4, <2>5
<1>7. CASE FinishSingle
  BY <1>7 DEF FinishSingle, Chain
<1>8. CASE RootReserve
  <2>1. /\ pc = "finish" /\ base >= Len(node) /\ base > 1 /\ pc' = "root" /\ node' = node /\ base' = base
    BY <1>8 DEF RootReserve, memVars
  <2>2. Len(node) \in Nat /\ base \in Nat /\ base = Len(node) /\ node \in Seq(OpenNode)
    BY <2>1 DEF Shape, Stage
  <2>3. Len(node) >= 2 /\ base \in DOMAIN node /\ ~(base < Len(node))
    BY <2>1, <2>2
  <2>4. node[base].entries # <<>>
    BY <2>1, <2>2, <2>3 DEF Chain
  <2>5. QED
    BY <2>1, <2>3, <2>4 DEF Chain
<1>9. CASE RootWrite
  <2>1. /\ pc = "root" /\ pc' = "done" /\ root' = [ptr |-> offs, height |-> base]
        /\ WriteNode(node[base], base - 1)
    BY <1>9 DEF RootWrite
  <2>2. /\ base - 1 \in Nat /\ node[base] \in OpenNode /\ node[base].entries # <<>>
    BY <2>1 DEF Shape, Stage, Chain
  <2>3. /\ offs \in DOMAIN disk' /\ disk'[offs].level = base - 1
        /\ disk'[offs].entries = node[base].entries
    BY <2>1, <2>2, PendingIsFree, StoreIs DEF Writing
  <2>4. QED
    BY <2>1, <2>2, <2>3 DEF Chain
<1>10. CASE Cancel \/ Overrun
  BY <1>10 DEF Cancel, Overrun, memVars, Chain
<1>11. CASE UNCHANGED vars
  BY <1>11 DEF vars, Chain
<1>12. QED
  BY <1>1, <1>2, <1>3, <1>4, <1>5, <1>6, <1>7, <1>8, <1>9, <1>10, <1>11 DEF Next

(***************************************************************************)
(* The inductive invariant, and the theorems                               *)
(***************************************************************************)

BuilderInv == Shape /\ Stage /\ Points /\ Space /\ Fill /\ Buffers /\ Chain

\* ctree_builder_setup
LEMMA BuilderInvStarts == Init => BuilderInv
<1> SUFFICES ASSUME Init PROVE BuilderInv
  OBVIOUS
<1>1. /\ <<>> \in Seq(OpenNode) /\ <<>> \in Seq(Entry) /\ <<>> \in Seq(Extent)
      /\ Len(<<>>) = 0 /\ 1..0 = {} /\ DOMAIN <<>> = {}
  OBVIOUS
<1>2. Shape
  BY <1>1, ConstantsAre DEF Init, Shape, PcSet
<1>3. Stage
  BY <1>1 DEF Init, Stage
<1>4. Points
  BY <1>1 DEF Init, Points, DiskPoints, NodesPoint, CarryPoints
<1>5. Space
  <2>1. RangesOf(<<>>) = {} /\ Cardinality({}) = 0
    BY <1>1, FS_EmptySet DEF RangesOf
  <2>2. RangesOK(<<>>, 1)
    BY <1>1 DEF RangesOK
  <2>3. QED
    BY <2>1, <2>2 DEF Init, Space
<1>6. Fill
  BY <1>1 DEF Init, Fill, Writing
<1>7. Buffers
  BY <1>1 DEF Init, Buffers
<1>8. Chain
  BY <1>1 DEF Init, Chain
<1>9. QED
  BY <1>2, <1>3, <1>4, <1>5, <1>6, <1>7, <1>8 DEF BuilderInv

\* A step of any call.
LEMMA BuilderInvStays ==
  ASSUME BuilderInv, [Next]_vars
  PROVE  BuilderInv'
<1>1. Shape' /\ Stage'
  BY StepTyped DEF BuilderInv, Shape, Stage, vars, Top
<1>2. Points' /\ Space' /\ Fill' /\ Buffers' /\ Chain'
  BY StepPoints, StepFills, StepFits, StepChains DEF BuilderInv
<1>3. QED
  BY <1>1, <1>2 DEF BuilderInv

\* struct ctree_builder, from ctree_builder_setup on: an entry on its way up
\* and the entries of open nodes name nodes that are on disk, and the pages
\* reserved are those of the nodes and of the one about to be written.
THEOREM BuilderInvHolds == Spec => []BuilderInv
BY BuilderInvStarts, BuilderInvStays, PTL DEF Spec

\* The invariant is stronger than the types.
LEMMA BuilderTyped ==
  ASSUME BuilderInv
  PROVE  TypeOK
<1>1. \A l \in DOMAIN node :
        node[l].entries \in Seq(Entry) /\ node[l].bytes \in Nat /\ node[l].max \in Nat
  <2>1. \A l \in DOMAIN node : node[l] \in OpenNode
    BY DEF BuilderInv, Shape
  <2>2. QED
    BY <2>1 DEF OpenNode
<1>2. \A o \in DOMAIN disk : disk[o].entries \in Seq(Entry) /\ disk[o].size \in Nat
  BY DEF BuilderInv, Fill, Stored
<1>3. \A i \in DOMAIN ranges : ranges[i].begin < ranges[i].end
  BY DEF BuilderInv, Space, RangesOK
<1>4. held \subseteq 1..(next - 1)
  BY DEF BuilderInv, Space
<1>5. QED
  BY <1>1, <1>2, <1>3, <1>4 DEF BuilderInv, Shape, Stage, TypeOK

\* Every variable stays within its type: a call never gets to a level past the
\* one above the top, and the ranges reserved are never empty.
THEOREM BuilderTypeCorrect == Spec => []TypeOK
BY BuilderTyped, BuilderInvHolds, PTL

\* ctree_builder_flush: an entry of an inner node names a node on disk, one
\* level down, by its first key; so do the trees a merge installs.
THEOREM EntriesPointDownHolds == Spec => []EntriesPointDown
<1>1. BuilderInv => EntriesPointDown
  <2> SUFFICES ASSUME BuilderInv, NEW o \in DOMAIN disk, disk[o].level > 0,
                      NEW i \in DOMAIN disk[o].entries
               PROVE  PointsDown(disk, disk[o].entries[i], disk[o].level)
    BY DEF EntriesPointDown, PointsDown
  <2>1. disk[o] \in Stored /\ EntriesPoint(disk, disk[o].entries, disk[o].level)
    BY DEF BuilderInv, Points, DiskPoints
  <2>2. i \in 1..Len(disk[o].entries)
    BY <2>1 DEF Stored
  <2>3. QED
    BY <2>1, <2>2 DEF EntriesPoint
<1>2. QED
  BY <1>1, BuilderInvHolds, PTL

\* ctree_builder_alloc and ctree_builder_cancel: the range list is what the
\* allocator holds for this builder, and cancelling leaves nothing.
THEOREM ReservedIsHeldHolds == Spec => []ReservedIsHeld
<1>1. BuilderInv => ReservedIsHeld
  BY DEF BuilderInv, Space, RangesOf, ReservedIsHeld
<1>2. QED
  BY <1>1, BuilderInvHolds, PTL

\* ctree_node_write: the nodes lie in pages of the builder, apart from each
\* other, and fill them when nothing failed.
THEOREM NodesFillThePagesHolds == Spec => []NodesFillThePages
<1>1. BuilderInv => NodesFillThePages
  <2> DEFINE place(o) == o..(o + disk[o].size - 1)
  <2> SUFFICES ASSUME BuilderInv, pc # "cancelled"
               PROVE  /\ \A o \in DOMAIN disk : place(o) \subseteq held
                      /\ \A o, p \in DOMAIN disk : o # p => place(o) \cap place(p) = {}
                      /\ (pc = "done" /\ failures = 0) => held = UNION {place(o) : o \in DOMAIN disk}
    BY DEF NodesFillThePages
  <2>1. \A o : place(o) = PagesAt(disk, o)
    BY DEF PagesAt
  <2> HIDE DEF place
  <2>2. /\ \A o \in DOMAIN disk : PagesAt(disk, o) \subseteq held
        /\ \A o, p \in DOMAIN disk : o # p => PagesAt(disk, o) \cap PagesAt(disk, p) = {}
        /\ failures = 0 => held = (UNION {PagesAt(disk, o) : o \in DOMAIN disk})
                                  \cup (IF Writing THEN Pending ELSE {})
    BY DEF BuilderInv, Fill
  <2>3. UNION {place(o) : o \in DOMAIN disk} = UNION {PagesAt(disk, o) : o \in DOMAIN disk}
    BY <2>1
  <2>4. pc = "done" => ~Writing
    BY DEF Writing
  <2>5. QED
    BY <2>1, <2>2, <2>3, <2>4
<1>2. QED
  BY <1>1, BuilderInvHolds, PTL

\* ctree_ensure_entries: an append ends past its buffer only when the entry
\* alone is larger than the buffer it finds, whatever the sizes of items and the
\* history of the node; every other node is in its buffer with all its pages.
THEOREM OnlyLargeEntriesOverrunHolds == Spec => []OnlyLargeEntriesOverrun
<1>1. BuilderInv => OnlyLargeEntriesOverrun
  <2> SUFFICES ASSUME BuilderInv PROVE OnlyLargeEntriesOverrun
    OBVIOUS
  <2>1. DOMAIN node = 1..Len(node)
    BY DEF BuilderInv, Shape
  <2>2. QED
    BY <2>1 DEF BuilderInv, Buffers, Fits, OnlyLargeEntriesOverrun
<1>2. QED
  BY <1>1, BuilderInvHolds, PTL

(***************************************************************************)
(* The items below a node                                                  *)
(***************************************************************************)

Typed(d) == \A o \in DOMAIN d : d[o].entries \in Seq(Entry)

Keys(es) == [i \in DOMAIN es |-> es[i].key]

\* What lies below each of the entries es, where h(s) lies below the entries s
\* of a node one level down.
Parts(d, h, es) ==
  [i \in DOMAIN es |-> IF es[i].ptr \in DOMAIN d THEN h[d[es[i].ptr].entries] ELSE <<>>]

BelowEntries(d, l, h, es) == IF l = 0 THEN Keys(es) ELSE FlattenSeq(Parts(d, h, es))

\* The levels up to n of ItemsBelow, one function each.
LevelsUpTo(d, n, h) == h = [l \in 0..n |-> [es \in Seq(Entry) |-> BelowEntries(d, l, h[l - 1], es)]]

\* Up to any level there is such a function.
LEMMA LevelsExist ==
  ASSUME NEW d, NEW n \in Nat
  PROVE  \E h : LevelsUpTo(d, n, h)
<1> DEFINE S == {k \in Nat : \E h : LevelsUpTo(d, k, h)}
<1>1. 0 \in S
  <2> DEFINE h == [l \in 0..0 |-> [es \in Seq(Entry) |-> Keys(es)]]
  <2>1. \A l \in 0..0 : l = 0
    OBVIOUS
  <2>2. \A l \in 0..0 : [es \in Seq(Entry) |-> BelowEntries(d, l, h[l - 1], es)] = [es \in Seq(Entry) |-> Keys(es)]
    BY <2>1 DEF BelowEntries
  <2>3. LevelsUpTo(d, 0, h)
    BY <2>2 DEF LevelsUpTo
  <2>4. QED
    BY <2>3
<1>2. ASSUME NEW k \in Nat, k \in S PROVE k + 1 \in S
  <2>1. PICK g : LevelsUpTo(d, k, g)
    BY <1>2
  <2> DEFINE top == [es \in Seq(Entry) |-> BelowEntries(d, k + 1, g[k], es)]
             h == [l \in 0..(k + 1) |-> IF l = k + 1 THEN top ELSE g[l]]
  <2>2. ASSUME NEW l \in 0..(k + 1)
        PROVE  h[l] = [es \in Seq(Entry) |-> BelowEntries(d, l, h[l - 1], es)]
    <3>1. CASE l = k + 1
      <4>1. l - 1 = k /\ k \in 0..(k + 1) /\ k # k + 1
        BY <3>1
      <4>2. h[l - 1] = g[k] /\ h[l] = top
        BY <3>1, <4>1
      <4> HIDE DEF h
      <4>3. QED
        BY <3>1, <4>2
    <3>2. CASE l # k + 1
      <4>1. l \in 0..k /\ h[l] = g[l]
        BY <3>2
      <4>2. g[l] = [es \in Seq(Entry) |-> BelowEntries(d, l, g[l - 1], es)]
        BY <2>1, <4>1 DEF LevelsUpTo
      <4>3. CASE l = 0
        <5>1. \A x, es : BelowEntries(d, l, x, es) = Keys(es)
          BY <4>3 DEF BelowEntries
        <5> HIDE DEF h
        <5>2. QED
          BY <4>1, <4>2, <5>1
      <4>4. CASE l # 0
        <5>1. l - 1 \in 0..(k + 1) /\ l - 1 # k + 1
          BY <4>1, <4>4
        <5>2. h[l - 1] = g[l - 1]
          BY <5>1
        <5> HIDE DEF h
        <5>3. QED
          BY <4>1, <4>2, <5>2
      <4>5. QED
        BY <4>3, <4>4
    <3>3. QED
      BY <3>1, <3>2
  <2>3. h = [l \in 0..(k + 1) |-> h[l]]
    OBVIOUS
  <2> HIDE DEF h
  <2>4. LevelsUpTo(d, k + 1, h)
    BY <2>2, <2>3 DEF LevelsUpTo
  <2>5. QED
    BY <2>4
<1> HIDE DEF S
<1>3. n \in S
  BY <1>1, <1>2, NaturalsIn
<1>4. QED
  BY <1>3 DEF S

\* A level is the same however far one goes.
LEMMA LevelsAgree ==
  ASSUME NEW d, NEW n \in Nat, NEW m \in Nat, NEW g, NEW h, LevelsUpTo(d, n, g), LevelsUpTo(d, m, h)
  PROVE  \A l \in Nat : l <= n /\ l <= m => g[l] = h[l]
<1> DEFINE S == {l \in Nat : l <= n /\ l <= m => g[l] = h[l]}
<1>1. /\ \A l \in 0..n : g[l] = [es \in Seq(Entry) |-> BelowEntries(d, l, g[l - 1], es)]
      /\ \A l \in 0..m : h[l] = [es \in Seq(Entry) |-> BelowEntries(d, l, h[l - 1], es)]
  BY DEF LevelsUpTo
<1>2. g[0] = h[0]
  <2>1. 0 \in 0..n /\ 0 \in 0..m
    OBVIOUS
  <2>2. /\ g[0] = [es \in Seq(Entry) |-> BelowEntries(d, 0, g[0 - 1], es)]
        /\ h[0] = [es \in Seq(Entry) |-> BelowEntries(d, 0, h[0 - 1], es)]
    BY <1>1, <2>1
  <2>3. \A x, es : BelowEntries(d, 0, x, es) = Keys(es)
    BY DEF BelowEntries
  <2>4. QED
    BY <2>2, <2>3
<1>3. ASSUME NEW l \in Nat, l \in S PROVE l + 1 \in S
  <2> SUFFICES ASSUME l + 1 <= n, l + 1 <= m PROVE g[l + 1] = h[l + 1]
    OBVIOUS
  <2>1. l + 1 \in 0..n /\ l + 1 \in 0..m /\ l <= n /\ l <= m
    OBVIOUS
  <2>2. g[l] = h[l]
    BY <1>3, <2>1
  <2>3. (l + 1) - 1 = l
    OBVIOUS
  <2>4. /\ g[l + 1] = [es \in Seq(Entry) |-> BelowEntries(d, l + 1, g[l], es)]
        /\ h[l + 1] = [es \in Seq(Entry) |-> BelowEntries(d, l + 1, h[l], es)]
    BY <1>1, <2>1, <2>3
  <2>5. QED
    BY <2>2, <2>4
<1>4. 0 \in S
  BY <1>2
<1> HIDE DEF S
<1>5. \A l \in Nat : l \in S
  BY <1>3, <1>4, NaturalsIn
<1>6. QED
  BY <1>5 DEF S

\* What ItemsBelow is the function of, for the nodes d.
Unfolds(d, f) ==
  f = [l \in Nat |->
         [es \in Seq(Entry) |->
            IF l = 0 THEN [i \in DOMAIN es |-> es[i].key]
            ELSE FlattenSeq([i \in DOMAIN es |->
                               IF es[i].ptr \in DOMAIN d
                               THEN f[l - 1][d[es[i].ptr].entries] ELSE <<>>])]]

\* There is such a function of all levels.
LEMMA BelowExists ==
  ASSUME NEW d
  PROVE  \E f : Unfolds(d, f)
<1> DEFINE H(n) == CHOOSE h : LevelsUpTo(d, n, h)
           f == [l \in Nat |-> H(l)[l]]
<1>1. \A n \in Nat : LevelsUpTo(d, n, H(n))
  BY LevelsExist
<1> HIDE DEF H
<1>2. ASSUME NEW l \in Nat
      PROVE  f[l] = [es \in Seq(Entry) |-> BelowEntries(d, l, f[l - 1], es)]
  <2>1. f[l] = H(l)[l]
    OBVIOUS
  <2>2. H(l)[l] = [es \in Seq(Entry) |-> BelowEntries(d, l, H(l)[l - 1], es)]
    <3>1. l \in 0..l /\ LevelsUpTo(d, l, H(l))
      BY <1>1
    <3>2. QED
      BY <3>1 DEF LevelsUpTo
  <2>3. CASE l = 0
    <3>1. \A x, es : BelowEntries(d, l, x, es) = Keys(es)
      BY <2>3 DEF BelowEntries
    <3> HIDE DEF f
    <3>2. QED
      BY <2>1, <2>2, <3>1
  <2>4. CASE l # 0
    <3>1. l - 1 \in Nat /\ l - 1 <= l
      BY <2>4
    <3>2. H(l)[l - 1] = H(l - 1)[l - 1]
      <4>1. LevelsUpTo(d, l, H(l)) /\ LevelsUpTo(d, l - 1, H(l - 1))
        BY <1>1, <3>1
      <4>2. QED
        BY <3>1, <4>1, LevelsAgree
    <3>3. f[l - 1] = H(l)[l - 1]
      BY <3>1, <3>2
    <3> HIDE DEF f
    <3>4. QED
      BY <2>1, <2>2, <3>3
  <2>5. QED
    BY <2>3, <2>4
<1>3. f = [l \in Nat |-> f[l]]
  OBVIOUS
<1> HIDE DEF f
<1>4. f = [l \in Nat |-> [es \in Seq(Entry) |-> BelowEntries(d, l, f[l - 1], es)]]
  BY <1>2, <1>3
<1>5. Unfolds(d, f)
  BY <1>4 DEF Unfolds, BelowEntries, Keys, Parts
<1>6. QED
  BY <1>5

\* ItemsBelow is that function, before and after a step.
LEMMA ItemsBelowUnfolds == Unfolds(disk, ItemsBelow) /\ Unfolds(disk', ItemsBelow')
<1>1. ASSUME NEW d PROVE Unfolds(d, CHOOSE f : Unfolds(d, f))
  BY BelowExists
<1>2. ItemsBelow = CHOOSE f : Unfolds(disk, f)
  BY DEF ItemsBelow, Unfolds
<1>3. ItemsBelow' = CHOOSE f : Unfolds(disk', f)
  BY DEF ItemsBelow, Unfolds
<1>4. QED
  BY <1>1, <1>2, <1>3

\* One level of it.
LEMMA BelowIs ==
  ASSUME NEW d, NEW f, Unfolds(d, f), NEW l \in Nat, NEW es \in Seq(Entry)
  PROVE  f[l][es] = BelowEntries(d, l, f[l - 1], es)
<1>1. f = [n \in Nat |-> [s \in Seq(Entry) |-> BelowEntries(d, n, f[n - 1], s)]]
  BY DEF Unfolds, BelowEntries, Keys, Parts
<1>2. f[l] = [s \in Seq(Entry) |-> BelowEntries(d, l, f[l - 1], s)]
  BY <1>1
<1>3. QED
  BY <1>2

\* Above the leaves, and in a leaf.
LEMMA BelowUnfolds ==
  ASSUME NEW d, NEW f, Unfolds(d, f), NEW es \in Seq(Entry)
  PROVE  /\ f[0][es] = Keys(es)
         /\ \A l \in Nat : f[l + 1][es] = FlattenSeq(Parts(d, f[l], es))
<1>1. f[0][es] = BelowEntries(d, 0, f[0 - 1], es)
  BY BelowIs
<1>2. ASSUME NEW l \in Nat PROVE f[l + 1][es] = FlattenSeq(Parts(d, f[l], es))
  <2>1. l + 1 \in Nat /\ l + 1 # 0 /\ (l + 1) - 1 = l
    OBVIOUS
  <2>2. f[l + 1][es] = BelowEntries(d, l + 1, f[(l + 1) - 1], es)
    BY <2>1, BelowIs
  <2>3. QED
    BY <2>1, <2>2 DEF BelowEntries
<1>3. QED
  BY <1>1, <1>2 DEF BelowEntries

\* The keys of entries, and what lies below each of them.
LEMMA PartsAre ==
  ASSUME NEW d, Typed(d), NEW h, \A s \in Seq(Entry) : h[s] \in Seq(Nat), NEW es \in Seq(Entry)
  PROVE  /\ Parts(d, h, es) \in Seq(Seq(Nat)) /\ Len(Parts(d, h, es)) = Len(es)
         /\ Keys(es) \in Seq(Nat) /\ Len(Keys(es)) = Len(es)
<1>1. Len(es) \in Nat /\ DOMAIN es = 1..Len(es) /\ \A i \in 1..Len(es) : es[i] \in Entry
  OBVIOUS
<1>2. \A i \in 1..Len(es) : es[i].key \in Nat
  BY <1>1, ConstantsAre DEF Entry
<1>3. Keys(es) \in [1..Len(es) -> Nat]
  BY <1>1, <1>2 DEF Keys
<1>4. \A i \in 1..Len(es) : (IF es[i].ptr \in DOMAIN d THEN h[d[es[i].ptr].entries] ELSE <<>>) \in Seq(Nat)
  <2>1. <<>> \in Seq(Nat)
    BY EmptySeq
  <2>2. QED
    BY <1>1, <2>1 DEF Typed
<1>5. Parts(d, h, es) \in [1..Len(es) -> Seq(Nat)]
  BY <1>1, <1>4 DEF Parts
<1>6. \A T : \A n \in Nat : \A q \in [1..n -> T] : q \in Seq(T) /\ Len(q) = n
  OBVIOUS
<1>7. QED
  BY <1>1, <1>3, <1>5, <1>6

\* What lies below entries is a sequence of numbers.
LEMMA BelowTyped ==
  ASSUME NEW d, NEW f, Typed(d), Unfolds(d, f), NEW n \in Nat
  PROVE  \A es \in Seq(Entry) : f[n][es] \in Seq(Nat)
<1> DEFINE S == {l \in Nat : \A es \in Seq(Entry) : f[l][es] \in Seq(Nat)}
<1>1. 0 \in S
  <2>1. ASSUME NEW es \in Seq(Entry) PROVE f[0][es] \in Seq(Nat)
    <3> DEFINE h == [s \in Seq(Entry) |-> <<>>]
    <3>1. \A s \in Seq(Entry) : h[s] \in Seq(Nat)
      BY EmptySeq
    <3> HIDE DEF h
    <3>2. f[0][es] = Keys(es) /\ Keys(es) \in Seq(Nat)
      BY <3>1, BelowUnfolds, PartsAre
    <3>3. QED
      BY <3>2
  <2>2. QED
    BY <2>1
<1>2. ASSUME NEW l \in Nat, l \in S PROVE l + 1 \in S
  <2>1. ASSUME NEW es \in Seq(Entry) PROVE f[l + 1][es] \in Seq(Nat)
    <3>1. Parts(d, f[l], es) \in Seq(Seq(Nat))
      BY <1>2, PartsAre
    <3>2. f[l + 1][es] = FlattenSeq(Parts(d, f[l], es))
      BY BelowUnfolds
    <3>3. QED
      BY <3>1, <3>2, FlattenTyped
  <2>2. QED
    BY <2>1
<1> HIDE DEF S
<1>3. n \in S
  BY <1>1, <1>2, NaturalsIn
<1>4. QED
  BY <1>3 DEF S

\* What the entry e of a node of level l stands for.
Stands(d, f, l, e) ==
  IF l = 0 THEN <<e.key>>
  ELSE IF e.ptr \in DOMAIN d THEN f[l - 1][d[e.ptr].entries] ELSE <<>>

\* Nothing lies below no entries; with an entry comes what it stands for.
LEMMA BelowAppends ==
  ASSUME NEW d, NEW f, Typed(d), Unfolds(d, f), NEW l \in Nat
  PROVE  /\ f[l][<<>>] = <<>>
         /\ \A es \in Seq(Entry), e \in Entry :
              /\ Stands(d, f, l, e) \in Seq(Nat)
              /\ f[l][Append(es, e)] = f[l][es] \o Stands(d, f, l, e)
<1>1. <<>> \in Seq(Entry)
  BY EmptySeq
<1>2. CASE l = 0
  <2>1. f[l][<<>>] = <<>>
    <3>1. f[0][<<>>] = Keys(<<>>)
      BY <1>1, BelowUnfolds
    <3>2. Keys(<<>>) = <<>>
      BY DEF Keys
    <3>3. QED
      BY <1>2, <3>1, <3>2
  <2>2. ASSUME NEW es \in Seq(Entry), NEW e \in Entry
        PROVE  /\ Stands(d, f, l, e) \in Seq(Nat)
               /\ f[l][Append(es, e)] = f[l][es] \o Stands(d, f, l, e)
    <3>1. Stands(d, f, l, e) = <<e.key>> /\ e.key \in Nat
      BY <1>2, ConstantsAre DEF Stands, Entry
    <3> DEFINE A == Append(es, e)
    <3>2. /\ A \in Seq(Entry) /\ Len(A) = Len(es) + 1 /\ A[Len(es) + 1] = e
          /\ \A i \in 1..Len(es) : A[i] = es[i]
      BY AppendProperties
    <3>3. Len(es) \in Nat /\ DOMAIN es = 1..Len(es) /\ DOMAIN A = 1..(Len(es) + 1)
      BY <3>2
    <3> HIDE DEF A
    <3>4. f[0][A] = Keys(A) /\ f[0][es] = Keys(es)
      BY <3>2, BelowUnfolds
    <3> DEFINE K == Keys(es)
               Q == Keys(A)
               k == e.key
    <3>5. /\ K \in Seq(Nat) /\ Len(K) = Len(es) /\ Q \in Seq(Nat) /\ Len(Q) = Len(es) + 1
          /\ Q[Len(es) + 1] = k /\ \A i \in 1..Len(es) : Q[i] = K[i]
      <4> DEFINE h == [s \in Seq(Entry) |-> <<>>]
      <4>1. \A s \in Seq(Entry) : h[s] \in Seq(Nat)
        BY EmptySeq
      <4> HIDE DEF h
      <4>2. K \in Seq(Nat) /\ Len(K) = Len(es) /\ Q \in Seq(Nat) /\ Len(Q) = Len(A)
        BY <3>2, <4>1, PartsAre
      <4>3. Q[Len(es) + 1] = k /\ \A i \in 1..Len(es) : Q[i] = K[i]
        BY <3>2, <3>3 DEF Keys
      <4>4. QED
        BY <3>2, <4>2, <4>3
    <3> HIDE DEF K, Q, k
    <3>6. Q = K \o <<k>>
      <4>1. k \in Nat
        BY <3>1 DEF k
      <4>2. QED
        BY <3>5, <4>1
    <3>7. <<k>> \in Seq(Nat)
      BY <3>1 DEF k
    <3>8. f[l][A] = f[l][es] \o <<k>>
      BY <1>2, <3>4, <3>6 DEF K, Q
    <3>9. Stands(d, f, l, e) = <<k>>
      BY <3>1 DEF k
    <3> HIDE DEF k
    <3>10. QED
      BY <3>7, <3>8, <3>9 DEF A
  <2>3. QED
    BY <2>1, <2>2
<1>3. CASE l # 0
  <2> DEFINE h == f[l - 1]
  <2>1. l - 1 \in Nat /\ (l - 1) + 1 = l
    BY <1>3
  <2>2. \A s \in Seq(Entry) : h[s] \in Seq(Nat)
    BY <2>1, BelowTyped
  <2>3. ASSUME NEW es \in Seq(Entry) PROVE f[l][es] = FlattenSeq(Parts(d, h, es))
    BY <2>1, BelowUnfolds
  <2> HIDE DEF h
  <2>4. f[l][<<>>] = <<>>
    <3>1. Parts(d, h, <<>>) = <<>>
      BY DEF Parts
    <3>2. QED
      BY <1>1, <2>3, <3>1, FlattenNothing
  <2>5. ASSUME NEW es \in Seq(Entry), NEW e \in Entry
        PROVE  /\ Stands(d, f, l, e) \in Seq(Nat)
               /\ f[l][Append(es, e)] = f[l][es] \o Stands(d, f, l, e)
    <3> DEFINE s == Stands(d, f, l, e)
               A == Append(es, e)
    <3>1. s = IF e.ptr \in DOMAIN d THEN h[d[e.ptr].entries] ELSE <<>>
      BY <1>3 DEF Stands, h
    <3>2. s \in Seq(Nat)
      BY <2>2, <3>1, EmptySeq DEF Typed
    <3>3. /\ A \in Seq(Entry) /\ Len(A) = Len(es) + 1 /\ A[Len(es) + 1] = e
          /\ \A i \in 1..Len(es) : A[i] = es[i]
      BY AppendProperties
    <3>4. /\ Parts(d, h, es) \in Seq(Seq(Nat)) /\ Len(Parts(d, h, es)) = Len(es)
          /\ Parts(d, h, A) \in Seq(Seq(Nat)) /\ Len(Parts(d, h, A)) = Len(A)
      BY <2>2, <3>3, PartsAre
    <3> HIDE DEF s, A
    <3>5. Len(es) \in Nat /\ DOMAIN es = 1..Len(es) /\ DOMAIN A = 1..(Len(es) + 1)
      BY <3>3
    <3>6. Parts(d, h, A)[Len(es) + 1] = s /\ \A i \in 1..Len(es) : Parts(d, h, A)[i] = Parts(d, h, es)[i]
      BY <3>1, <3>3, <3>5 DEF Parts
    <3> DEFINE P == Parts(d, h, es)
               Q == Parts(d, h, A)
    <3> HIDE DEF P, Q
    <3>7. Q = Append(P, s)
      <4>1. P \in Seq(Seq(Nat)) /\ Q \in Seq(Seq(Nat)) /\ Len(Q) = Len(P) + 1 /\ Len(P) \in Nat
            /\ Q[Len(P) + 1] = s /\ \A i \in 1..Len(P) : Q[i] = P[i]
        BY <3>3, <3>4, <3>5, <3>6 DEF P, Q
      <4>2. QED
        BY <4>1
    <3>8. FlattenSeq(Q) = FlattenSeq(P) \o s
      BY <3>2, <3>4, <3>7, FlattenAppends DEF P
    <3>9. QED
      BY <2>3, <3>2, <3>3, <3>8 DEF s, A, P, Q
  <2>6. QED
    BY <2>4, <2>5
<1>4. QED
  BY <1>2, <1>3

\* Nodes that are added change nothing below entries that point.
LEMMA BelowStays ==
  ASSUME NEW d, NEW e, Typed(d), Typed(e), DiskPoints(d), Grows(d, e),
         NEW f, NEW g, Unfolds(d, f), Unfolds(e, g), NEW n \in Nat
  PROVE  \A es \in Seq(Entry) : (n > 0 => EntriesPoint(d, es, n)) => g[n][es] = f[n][es]
<1> DEFINE S == {l \in Nat : \A es \in Seq(Entry) :
                               (l > 0 => EntriesPoint(d, es, l)) => g[l][es] = f[l][es]}
<1>1. 0 \in S
  BY BelowUnfolds
<1>2. ASSUME NEW l \in Nat, l \in S PROVE l + 1 \in S
  <2>1. ASSUME NEW es \in Seq(Entry), EntriesPoint(d, es, l + 1)
        PROVE  g[l + 1][es] = f[l + 1][es]
    <3>1. ASSUME NEW i \in DOMAIN es
          PROVE  /\ es[i].ptr \in DOMAIN d /\ es[i].ptr \in DOMAIN e
                 /\ g[l][e[es[i].ptr].entries] = f[l][d[es[i].ptr].entries]
      <4> DEFINE p == es[i].ptr
      <4>1. i \in 1..Len(es)
        OBVIOUS
      <4>2. p \in DOMAIN d /\ d[p].level = (l + 1) - 1
        BY <2>1, <4>1 DEF EntriesPoint, PointsDown
      <4>3. p \in DOMAIN e /\ e[p] = d[p] /\ d[p].entries \in Seq(Entry)
        BY <4>2 DEF Grows, Typed
      <4>4. d[p].level = l
        BY <4>2
      <4>5. l > 0 => EntriesPoint(d, d[p].entries, l)
        BY <4>2, <4>4 DEF DiskPoints
      <4>6. QED
        BY <1>2, <4>2, <4>3, <4>5
    <3>2. Parts(e, g[l], es) = Parts(d, f[l], es)
      BY <3>1 DEF Parts
    <3>3. QED
      BY <3>2, BelowUnfolds
  <2>2. l + 1 > 0
    OBVIOUS
  <2>3. QED
    BY <2>1, <2>2
<1> HIDE DEF S
<1>3. n \in S
  BY <1>1, <1>2, NaturalsIn
<1>4. QED
  BY <1>3 DEF S

(***************************************************************************)
(* The entries on their way up                                             *)
(***************************************************************************)

\* An entry stands for the node below it as that node is, still not reset; it
\* did not fit in the nodes passed; finishing, the levels below are empty.
Carries ==
  /\ \A i \in 1..Len(carry) : base + i > 1 =>
       /\ carry[i].size = PtrSize /\ base + i - 1 <= Len(node)
       /\ carry[i].ptr \in DOMAIN disk
       /\ disk[carry[i].ptr].entries = node[base + i - 1].entries
  /\ (base = 0 /\ carry # <<>>) => carry[1].key = count + 1
  /\ \A i \in 1..Len(carry) : (i < Len(carry) \/ pc = "write") =>
       base + i <= Len(node) /\ ~CanAppend(node[base + i], carry[i])
  /\ \A l \in 1..Len(node) : l < base => node[l].entries = <<>>

\* What PutEntry does to the nodes that were there, and to carry.
LEMMA PutsOne ==
  ASSUME Shape, Stage, PutEntry
  PROVE  /\ pc = "append" /\ disk' = disk /\ root' = root
         /\ Len(carry) \in Nat \ {0} /\ base \in Nat /\ Top = base + Len(carry) - 1 /\ Top \in Nat
         /\ Len(node) \in Nat /\ Len(node') \in Nat /\ Top <= Len(node)
         /\ Top + 1 <= Len(node') /\ Len(node) <= Len(node')
         /\ Len(node') = IF Top = Len(node) THEN Len(node) + 1 ELSE Len(node)
         /\ \A l \in 1..Len(node) : l # Top /\ l # Top + 1 => node'[l] = node[l]
         /\ Top > 0 => node'[Top].entries = <<>>
         /\ Last(carry) = carry[Len(carry)] /\ Last(carry) \in Entry
         /\ Top < Len(node) =>
              /\ CanAppend(node[Top + 1], Last(carry)) /\ node[Top + 1].entries \in Seq(Entry)
              /\ node'[Top + 1].entries = Append(node[Top + 1].entries, Last(carry))
         /\ Top = Len(node) => node'[Top + 1].entries = Append(<<>>, Last(carry))
         /\ Len(carry') = Len(carry) - 1 /\ \A i \in 1..(Len(carry) - 1) : carry'[i] = carry[i]
         /\ IF Len(carry) > 1 THEN pc' = "append" /\ base' = base /\ count' = count
            ELSE IF base > 0 THEN pc' = "finish" /\ base' = base + 1 /\ count' = count
            ELSE pc' = "idle" /\ base' = base /\ count' = count + 1
<1> DEFINE E == Ensured
           n == Len(node)
           m == Len(node')
           c == Len(carry)
<1>1. /\ pc = "append" /\ carry # <<>> /\ carry' = Front(carry) /\ disk' = disk /\ root' = root
      /\ IF c > 1 THEN pc' = pc /\ base' = base /\ count' = count
         ELSE IF base > 0 THEN pc' = "finish" /\ base' = base + 1 /\ count' = count
         ELSE pc' = "idle" /\ base' = base /\ count' = count + 1
      /\ CanAppend(E[Top + 1], Last(carry))
      /\ node' = [l \in DOMAIN E |->
                    IF l = Top + 1 THEN WithEntry(E[l], Last(carry))
                    ELSE IF l = Top /\ (c > 1 \/ base > 0) THEN Reset(E[l])
                    ELSE E[l]]
  BY DEF PutEntry, Finishing
<1>2. /\ Top \in Nat /\ E \in Seq(OpenNode) /\ m = Len(E) /\ Top + 1 \in 1..m
      /\ node'[Top + 1] = WithEntry(E[Top + 1], Last(carry)) /\ Top <= n
  BY <1>1, PutIs DEF Stage
<1>3. /\ n \in Nat /\ m \in Nat /\ n <= m /\ m <= n + 1
      /\ \A l \in 1..n : E[l] = node[l]
      /\ \A l \in 1..m : l \in 1..n \/ E[l] = NewNode
  BY <1>1, <1>2, EnsuredIs
<1>4. /\ c \in Nat \ {0} /\ base \in Nat /\ Top = base + c - 1
      /\ Last(carry) \in Entry /\ Last(carry) = carry[c]
      /\ Len(carry') = c - 1 /\ \A i \in 1..(c - 1) : carry'[i] = carry[i]
  BY <1>1, CarryIs DEF Shape, Top
<1>5. m = IF Top = n THEN n + 1 ELSE n
  <2>1. CASE Top = n
    BY <1>2, <1>3, <2>1
  <2>2. CASE Top # n
    <3>1. E = node
      BY <1>2, <1>3, <2>2 DEF Ensured
    <3>2. QED
      BY <1>2, <2>2, <3>1
  <2>3. QED
    BY <2>1, <2>2
<1>6. DOMAIN E = 1..m
  BY <1>2
<1>7. \A l \in 1..n : l # Top /\ l # Top + 1 => node'[l] = node[l]
  BY <1>1, <1>3, <1>6
<1>8. Top > 0 => node'[Top].entries = <<>>
  <2> SUFFICES ASSUME Top > 0 PROVE node'[Top].entries = <<>>
    OBVIOUS
  <2>1. Top \in 1..m /\ (c > 1 \/ base > 0) /\ Top # Top + 1
    BY <1>2, <1>3, <1>4
  <2>2. node'[Top] = Reset(E[Top]) /\ E[Top] \in OpenNode
    BY <1>1, <1>2, <1>6, <2>1
  <2>3. QED
    BY <2>2, NodesAre
<1>9. E[Top + 1] \in OpenNode
  BY <1>2
<1>10. node'[Top + 1].entries = Append(E[Top + 1].entries, Last(carry))
       /\ E[Top + 1].entries \in Seq(Entry)
  <2> DEFINE nd == E[Top + 1]
             x == Last(carry)
  <2>1. nd \in OpenNode /\ x \in Entry /\ node'[Top + 1] = WithEntry(nd, x)
    BY <1>2, <1>4, <1>9
  <2> HIDE DEF nd, x
  <2>2. node'[Top + 1].entries = Append(nd.entries, x) /\ nd.entries \in Seq(Entry)
    BY <2>1, NodesAre DEF OpenNode
  <2>3. QED
    BY <2>2 DEF nd, x
<1>11. Top < n => E[Top + 1] = node[Top + 1]
  BY <1>2, <1>3
<1>12. Top = n => E[Top + 1].entries = <<>>
  <2>1. Top = n => Top + 1 \in 1..m /\ Top + 1 \notin 1..n
    BY <1>2, <1>3
  <2>2. Top = n => E[Top + 1] = NewNode
    BY <1>3, <2>1
  <2>3. QED
    BY <2>2, NodesAre
<1> HIDE DEF E, n, m, c
<1>13. /\ Top < n => /\ CanAppend(node[Top + 1], Last(carry)) /\ node[Top + 1].entries \in Seq(Entry)
                     /\ node'[Top + 1].entries = Append(node[Top + 1].entries, Last(carry))
       /\ Top = n => node'[Top + 1].entries = Append(<<>>, Last(carry))
  BY <1>1, <1>10, <1>11, <1>12
<1>14. Top + 1 <= m
  BY <1>2, <1>3
<1>15. IF c > 1 THEN pc' = "append" /\ base' = base /\ count' = count
       ELSE IF base > 0 THEN pc' = "finish" /\ base' = base + 1 /\ count' = count
       ELSE pc' = "idle" /\ base' = base /\ count' = count + 1
  BY <1>1
<1>16. QED
  BY <1>1, <1>2, <1>3, <1>4, <1>5, <1>7, <1>8, <1>13, <1>14, <1>15 DEF n, m, c

\* A node is written: where it stands, and the entry made for it.
LEMMA FlushesOne ==
  ASSUME Shape, Stage, Fill, FlushWrite
  PROVE  /\ pc = "write" /\ pc' = "append" /\ base' = base /\ node' = node /\ count' = count /\ root' = root
         /\ base \in Nat /\ Len(carry) \in Nat /\ Len(node) \in Nat
         /\ Top = base + Len(carry) - 1 /\ Top \in Nat /\ Top < Len(node)
         /\ node[Top + 1].entries # <<>>
         /\ Grows(disk, disk') /\ offs \in DOMAIN disk'
         /\ disk'[offs].entries = node[Top + 1].entries
         /\ Len(carry') = Len(carry) + 1 /\ \A i \in 1..Len(carry) : carry'[i] = carry[i]
         /\ carry'[Len(carry) + 1].size = PtrSize /\ carry'[Len(carry) + 1].ptr = offs
         /\ base = 0 => carry # <<>>
<1> DEFINE nd == node[Top + 1]
           e == [key |-> Head(nd.entries).key, ptr |-> offs, size |-> PtrSize]
<1>1. /\ pc = "write" /\ pc' = "append" /\ base' = base /\ carry' = Append(carry, e) /\ node' = node
      /\ WriteNode(nd, Top) /\ count' = count /\ root' = root
  BY DEF FlushWrite, memVars
<1>2. Len(carry) \in Nat /\ base \in Nat /\ Len(node) \in Nat /\ Top < Len(node) /\ nd.entries # <<>>
      /\ carry \in Seq(Entry) /\ (base = 0 => carry # <<>>)
  BY <1>1 DEF Shape, Stage
<1>3. Top \in Nat /\ Top = base + Len(carry) - 1
  <2>1. carry # <<>> => Len(carry) # 0
    BY EmptySeq DEF Shape
  <2>2. QED
    BY <1>2, <2>1 DEF Top
<1>4. nd \in OpenNode
  BY <1>2, <1>3 DEF Shape
<1>5. offs \notin DOMAIN disk
  BY <1>1, PendingIsFree DEF Writing
<1>6. Grows(disk, disk') /\ offs \in DOMAIN disk' /\ disk'[offs].entries = nd.entries
  BY <1>1, <1>3, <1>4, <1>5, StoreIs
<1> HIDE DEF nd
<1>7. e \in [key : {Head(nd.entries).key}, ptr : {offs}, size : {PtrSize}]
  OBVIOUS
<1>8. e.size = PtrSize /\ e.ptr = offs
  BY <1>7
<1> HIDE DEF e
<1>9. /\ Len(carry') = Len(carry) + 1 /\ carry'[Len(carry) + 1] = e
      /\ \A i \in 1..Len(carry) : carry'[i] = carry[i]
  BY <1>1, <1>2
<1>10. QED
  BY <1>1, <1>2, <1>3, <1>6, <1>8, <1>9 DEF nd

\* The node flushed stays as it is until its entry is put.
LEMMA FlushWriteCarries ==
  ASSUME Shape, Stage, Fill, Carries, FlushWrite
  PROVE  Carries'
<1> DEFINE c == Len(carry)
<1>1. /\ pc = "write" /\ pc' = "append" /\ base' = base /\ node' = node /\ count' = count
      /\ base \in Nat /\ c \in Nat /\ Len(node) \in Nat /\ Top = base + c - 1 /\ Top < Len(node)
      /\ Grows(disk, disk') /\ offs \in DOMAIN disk'
      /\ disk'[offs].entries = node[Top + 1].entries
      /\ Len(carry') = c + 1 /\ \A i \in 1..c : carry'[i] = carry[i]
      /\ carry'[c + 1].size = PtrSize /\ carry'[c + 1].ptr = offs
      /\ base = 0 => carry # <<>>
  BY FlushesOne
<1>2. \A i \in 1..(c + 1) : i \in 1..c \/ i = c + 1
  BY <1>1
<1>3. ASSUME NEW i \in 1..Len(carry'), base + i > 1
      PROVE  /\ carry'[i].size = PtrSize /\ base + i - 1 <= Len(node)
             /\ carry'[i].ptr \in DOMAIN disk'
             /\ disk'[carry'[i].ptr].entries = node[base + i - 1].entries
  <2>1. CASE i \in 1..c
    <3>1. /\ carry[i].size = PtrSize /\ base + i - 1 <= Len(node)
          /\ carry[i].ptr \in DOMAIN disk
          /\ disk[carry[i].ptr].entries = node[base + i - 1].entries
      BY <1>3, <2>1 DEF Carries
    <3>2. QED
      BY <1>1, <2>1, <3>1 DEF Grows
  <2>2. CASE i = c + 1
    <3>1. base + i - 1 = Top + 1
      BY <1>1, <2>2
    <3>2. QED
      BY <1>1, <2>2, <3>1
  <2>3. QED
    BY <1>1, <1>2, <2>1, <2>2
<1>4. base = 0 => carry'[1].key = count + 1
  <2>1. base = 0 => 1 \in 1..c /\ carry[1].key = count + 1
    <3>1. base = 0 => c # 0
      BY <1>1, EmptySeq DEF Shape
    <3>2. QED
      BY <1>1, <3>1 DEF Carries
  <2>2. QED
    BY <1>1, <2>1
<1>5. ASSUME NEW i \in 1..Len(carry'), i < Len(carry')
      PROVE  base + i <= Len(node) /\ ~CanAppend(node[base + i], carry'[i])
  <2>1. Len(carry') = c + 1 /\ c \in Nat
    BY <1>1
  <2>2. i \in 1..c
    BY <1>5, <2>1
  <2>3. carry'[i] = carry[i]
    BY <1>1, <2>2
  <2>4. base + i <= Len(node) /\ ~CanAppend(node[base + i], carry[i])
    BY <1>1, <2>2 DEF Carries
  <2>5. QED
    BY <2>3, <2>4
<1>6. \A l \in 1..Len(node) : l < base => node[l].entries = <<>>
  BY DEF Carries
<1>7. pc' # "write"
  BY <1>1
<1> HIDE DEF c
<1>9. QED
  BY <1>1, <1>3, <1>4, <1>5, <1>6, <1>7 DEF Carries

\* An entry is put above the nodes the others stand for.
LEMMA PutEntryCarries ==
  ASSUME Shape, Stage, Carries, PutEntry
  PROVE  Carries'
<1> DEFINE c == Len(carry)
           n == Len(node)
           m == Len(node')
<1>1. /\ pc = "append" /\ disk' = disk /\ c \in Nat \ {0} /\ base \in Nat /\ Top = base + c - 1
      /\ n \in Nat /\ m \in Nat /\ Top <= n /\ n <= m /\ m <= n + 1 /\ Top + 1 <= m
      /\ \A l \in 1..n : l # Top /\ l # Top + 1 => node'[l] = node[l]
      /\ Top > 0 => node'[Top].entries = <<>>
      /\ Len(carry') = c - 1 /\ \A i \in 1..(c - 1) : carry'[i] = carry[i]
      /\ IF c > 1 THEN pc' = "append" /\ base' = base /\ count' = count
         ELSE IF base > 0 THEN pc' = "finish" /\ base' = base + 1 /\ count' = count
         ELSE pc' = "idle" /\ base' = base /\ count' = count + 1
  BY PutsOne
<1> HIDE DEF c, n, m
<1>2. pc' # "write"
  BY <1>1
<1>3. CASE c > 1
  <2>1. base' = base /\ count' = count
    BY <1>1, <1>3
  <2>2. ASSUME NEW i \in 1..(c - 1)
        PROVE  /\ i \in 1..c /\ carry'[i] = carry[i]
               /\ base + i > 1 => base + i - 1 \in 1..n /\ base + i - 1 # Top /\ base + i - 1 # Top + 1
               /\ base + i \in 1..n /\ (i < c - 1 => base + i # Top) /\ base + i # Top + 1 /\ i < c
    BY <1>1
  <2>3. ASSUME NEW i \in 1..(c - 1), base + i > 1
        PROVE  /\ carry'[i].size = PtrSize /\ base + i - 1 <= m
               /\ carry'[i].ptr \in DOMAIN disk
               /\ disk[carry'[i].ptr].entries = node'[base + i - 1].entries
    <3>1. /\ carry[i].size = PtrSize /\ base + i - 1 <= n /\ carry[i].ptr \in DOMAIN disk
          /\ disk[carry[i].ptr].entries = node[base + i - 1].entries
      BY <2>2, <2>3 DEF Carries, c, n
    <3>2. node'[base + i - 1] = node[base + i - 1]
      BY <1>1, <2>2, <2>3
    <3>3. base + i - 1 <= m
      BY <1>1, <3>1
    <3>4. QED
      BY <2>2, <3>1, <3>2, <3>3
  <2>4. base = 0 => carry'[1].key = count + 1
    <3>1. 1 \in 1..(c - 1)
      BY <1>1, <1>3
    <3>2. carry # <<>> => (base = 0 => carry[1].key = count + 1)
      BY DEF Carries
    <3>3. carry # <<>>
      <4>1. Len(<<>>) = 0
        OBVIOUS
      <4>2. QED
        BY <1>3, <4>1 DEF c
    <3>4. QED
      BY <1>1, <3>1, <3>2, <3>3
  <2>5. ASSUME NEW i \in 1..(c - 1), i < c - 1
        PROVE  base + i <= m /\ ~CanAppend(node'[base + i], carry'[i])
    <3>1. base + i <= n /\ ~CanAppend(node[base + i], carry[i])
      BY <2>2, <2>5 DEF Carries, c, n
    <3>2. node'[base + i] = node[base + i] /\ carry'[i] = carry[i]
      BY <1>1, <2>2, <2>5
    <3>3. base + i <= m
      BY <1>1, <3>1
    <3>4. QED
      BY <3>1, <3>2, <3>3
  <2>6. ASSUME NEW l \in 1..m, l < base PROVE node'[l].entries = <<>>
    <3>1. l \in 1..n /\ l # Top /\ l # Top + 1
      BY <1>1, <2>6
    <3>2. QED
      BY <1>1, <2>6, <3>1 DEF Carries, n
  <2>7. Len(carry') = c - 1
    BY <1>1
  <2>8. QED
    BY <1>1, <1>2, <2>1, <2>3, <2>4, <2>5, <2>6, <2>7 DEF Carries, m
<1>4. CASE ~(c > 1)
  <2>1. Len(carry') = 0
    BY <1>1, <1>4
  <2>2. carry' = <<>> /\ 1..Len(carry') = {}
    <3>1. carry' \in Seq(Entry)
      BY StepTyped DEF Next, Shape
    <3>2. QED
      BY <2>1, <3>1
  <2>3. ASSUME NEW l \in 1..m, l < base' PROVE node'[l].entries = <<>>
    <3>1. base > 0 /\ base' = base + 1 /\ Top = base
      BY <1>1, <1>4, <2>3
    <3>2. CASE l = Top
      BY <1>1, <3>1, <3>2
    <3>3. CASE l # Top
      <4>1. l \in 1..n /\ l < base /\ l # Top + 1
        BY <1>1, <2>3, <3>1, <3>3
      <4>2. QED
        BY <1>1, <3>3, <4>1 DEF Carries, n
    <3>4. QED
      BY <3>2, <3>3
  <2>4. QED
    BY <2>2, <2>3 DEF Carries, m
<1>5. QED
  BY <1>3, <1>4

\* The entries on the way are dropped, but for the item.
LEMMA CallFailsCarries ==
  ASSUME Shape, Stage, Carries, CallFails
  PROVE  Carries'
<1>1. /\ base' = base /\ count' = count /\ disk' = disk /\ pc' = "failed"
      /\ pc \in {"append", "write", "root", "finish"}
      /\ carry' = IF base > 0 THEN <<>> ELSE <<Head(carry)>>
  BY DEF CallFails, Finishing
<1>2. /\ Len(node) <= Len(node') /\ \A l \in 1..Len(node) : node'[l] = node[l]
      /\ \A l \in 1..Len(node') : l \in 1..Len(node) \/ node'[l] = NewNode
  BY CallFailsTyped
<1>3. \A l \in 1..Len(node') : l < base => node'[l].entries = <<>>
  BY <1>2, NodesAre DEF Carries
<1>4. base \in Nat /\ Len(<<>>) = 0
  BY DEF Shape
<1>5. CASE base > 0
  <2>1. 1..Len(carry') = {} /\ base' # 0
    BY <1>1, <1>4, <1>5
  <2>2. QED
    BY <1>1, <1>3, <2>1 DEF Carries
<1>6. CASE base = 0
  <2>1. carry # <<>>
    BY <1>1, <1>6 DEF Stage
  <2>2. Head(carry) = carry[1] /\ carry[1].key = count + 1
    BY <1>6, <2>1, CarryIs DEF Shape, Carries
  <2> DEFINE h == Head(carry)
  <2>3. carry' = <<h>> /\ h.key = count + 1
    BY <1>1, <1>6, <2>2
  <2> HIDE DEF h
  <2>4. carry'[1].key = count + 1 /\ Len(carry') = 1
    BY <2>3
  <2>5. \A i \in 1..Len(carry') : ~(0 + i > 1) /\ ~(i < Len(carry'))
    BY <2>4
  <2>6. QED
    BY <1>1, <1>3, <1>6, <2>4, <2>5 DEF Carries
<1>7. QED
  BY <1>4, <1>5, <1>6

\* A node that is full stays one that the entry before it has to wait for.
LEMMA FlushReserveCarries ==
  ASSUME Shape, Stage, Carries, FlushReserve
  PROVE  Carries'
<1>1. /\ pc = "append" /\ base' = base /\ carry' = carry /\ node' = node /\ disk' = disk
      /\ count' = count /\ pc' = "write"
      /\ carry # <<>> => ~CanAppend(Ensured[Top + 1], Last(carry))
  BY DEF FlushReserve, memVars
<1>2. Top \in Nat /\ Top < Len(node) /\ Len(node) \in Nat
  BY <1>1, FlushedIs
<1>3. ASSUME NEW i \in 1..Len(carry)
      PROVE  base + i <= Len(node) /\ ~CanAppend(node[base + i], carry[i])
  <2>1. CASE i < Len(carry)
    BY <2>1 DEF Carries
  <2>2. CASE ~(i < Len(carry))
    <3>1. carry # <<>> /\ Len(carry) \in Nat /\ base \in Nat /\ i = Len(carry)
      BY <2>2 DEF Shape
    <3>2. Ensured = node /\ Last(carry) = carry[i] /\ Top + 1 = base + i
      BY <1>2, <3>1 DEF Ensured, Last, Top
    <3>3. ~CanAppend(node[base + i], carry[i])
      BY <1>1, <3>1, <3>2
    <3>4. QED
      BY <1>2, <3>2, <3>3
  <2>3. QED
    BY <2>1, <2>2
<1>4. QED
  BY <1>1, <1>3 DEF Carries

\* No other step changes carry, or what its entries stand for.
LEMMA StepCarries ==
  ASSUME Shape, Stage, Fill, Carries, [Next]_vars
  PROVE  Carries'
<1>1. CASE \E size \in ItemSizes : CallAppend(size)
  <2>1. PICK size \in ItemSizes : CallAppend(size)
    BY <1>1
  <2> DEFINE e == [key |-> count + 1, ptr |-> 0, size |-> size]
  <2>2. /\ pc' = "append" /\ base' = 0 /\ carry' = <<e>> /\ count' = count
    BY <2>1 DEF CallAppend, memVars
  <2>3. e.key = count + 1
    OBVIOUS
  <2> HIDE DEF e
  <2>4. Len(carry') = 1 /\ carry'[1].key = count + 1
    BY <2>2, <2>3
  <2>5. \A i \in 1..Len(carry') : ~(0 + i > 1) /\ ~(i < Len(carry'))
    BY <2>4
  <2>6. \A l \in 1..Len(node') : ~(l < 0)
    BY <2>1 DEF Shape, CallAppend, memVars
  <2>7. QED
    BY <2>2, <2>4, <2>5, <2>6 DEF Carries
<1>2. CASE FlushReserve \/ FlushWrite \/ PutEntry \/ CallFails
  BY <1>2, FlushReserveCarries, FlushWriteCarries, PutEntryCarries, CallFailsCarries
<1>3. CASE CallFinish
  <2>1. pc = "idle" /\ carry' = carry /\ node' = node /\ base' = 1
    BY <1>3 DEF CallFinish, memVars
  <2>2. carry = <<>> /\ 1..Len(<<>>) = {}
    BY <2>1 DEF Stage
  <2>3. \A l \in 1..Len(node) : ~(l < 1)
    BY DEF Shape
  <2>4. QED
    BY <2>1, <2>2, <2>3 DEF Carries
<1>4. CASE FinishLevel
  <2>1. /\ pc = "finish" /\ carry' = carry /\ node' = node
        /\ base' = base \/ (base' = base + 1 /\ node[base].entries = <<>>)
    BY <1>4 DEF FinishLevel, memVars
  <2>2. carry = <<>> /\ 1..Len(<<>>) = {} /\ base' # 0 /\ base \in Nat
    BY <2>1 DEF Stage, Shape
  <2>3. \A l \in 1..Len(node) : l < base + 1 => l < base \/ l = base
    BY <2>2 DEF Shape
  <2>4. \A l \in 1..Len(node) : l < base' => node[l].entries = <<>>
    BY <2>1, <2>3 DEF Carries
  <2>5. QED
    BY <2>1, <2>2, <2>4 DEF Carries
<1>5. CASE FinishSingle \/ RootReserve
  <2>1. /\ pc = "finish" /\ pc' # "write" /\ carry' = carry /\ node' = node /\ base' = base
    BY <1>5 DEF FinishSingle, RootReserve, memVars
  <2>2. carry = <<>> /\ 1..Len(<<>>) = {}
    BY <2>1 DEF Stage
  <2>3. QED
    BY <2>1, <2>2 DEF Carries
<1>6. CASE RootWrite
  <2>1. /\ pc = "root" /\ carry' = carry /\ node' = [node EXCEPT ![base] = Reset(@)] /\ base' = base
    BY <1>6 DEF RootWrite
  <2>2. carry = <<>> /\ 1..Len(<<>>) = {} /\ node \in Seq(OpenNode) /\ base \in Nat
    BY <2>1 DEF Stage, Shape
  <2>3. Len(node') = Len(node) /\ \A l \in 1..Len(node) : l < base => node'[l] = node[l]
    BY <2>1, <2>2
  <2>4. QED
    BY <2>1, <2>2, <2>3 DEF Carries
<1>7. CASE Retry
  <2>1. /\ pc = "failed" /\ pc' # "write" /\ carry' = carry /\ node' = node /\ disk' = disk /\ count' = count
        /\ IF base > 0 THEN base' = 1 ELSE base' = base
    BY <1>7 DEF Retry, memVars, Finishing
  <2>2. base \in Nat /\ Len(carry) = IF base = 0 THEN 1 ELSE 0
    BY <2>1 DEF Shape, Stage
  <2>3. CASE base > 0
    <3>1. 1..Len(carry) = {} /\ base' = 1 /\ base' # 0
      BY <2>1, <2>2, <2>3
    <3>2. \A l \in 1..Len(node) : ~(l < 1)
      BY DEF Shape
    <3>3. QED
      BY <2>1, <3>1, <3>2 DEF Carries
  <2>4. CASE base = 0
    BY <2>1, <2>4 DEF Carries
  <2>5. QED
    BY <2>2, <2>3, <2>4
<1>8. CASE Cancel \/ Overrun
  BY <1>8 DEF Cancel, Overrun, memVars, Carries
<1>9. CASE UNCHANGED vars
  BY <1>9 DEF vars, Carries
<1>10. QED
  BY <1>1, <1>2, <1>3, <1>4, <1>5, <1>6, <1>7, <1>8, <1>9 DEF Next

(***************************************************************************)
(* The items in the open nodes                                             *)
(***************************************************************************)

\* What is below the open node of one level; all levels, from the top down.
Under(n, f, l) == f[l - 1][n[l].entries]

Contents(n, f) == [i \in 1..Len(n) |-> f[Len(n) - i][n[Len(n) + 1 - i].entries]]

\* The sequence of what is below the levels.
LEMMA ContentsAre ==
  ASSUME NEW d, NEW f, Typed(d), Unfolds(d, f), NEW n \in Seq(OpenNode)
  PROVE  /\ Contents(n, f) \in Seq(Seq(Nat)) /\ Len(Contents(n, f)) = Len(n)
         /\ \A l \in 1..Len(n) : /\ Under(n, f, l) \in Seq(Nat)
                                 /\ Contents(n, f)[Len(n) + 1 - l] = Under(n, f, l)
         /\ \A i \in 1..Len(n) : Contents(n, f)[i] = Under(n, f, Len(n) + 1 - i)
<1> DEFINE k == Len(n)
<1>1. k \in Nat /\ \A l \in 1..k : n[l].entries \in Seq(Entry)
  <2>1. \A l \in 1..k : n[l] \in OpenNode
    OBVIOUS
  <2>2. QED
    BY <2>1 DEF OpenNode
<1>2. \A l \in 1..k : Under(n, f, l) \in Seq(Nat)
  <2> TAKE l \in 1..k
  <2>1. l - 1 \in Nat /\ n[l].entries \in Seq(Entry)
    BY <1>1
  <2>2. QED
    BY <2>1, BelowTyped DEF Under
<1>3. \A i \in 1..k : /\ k + 1 - i \in 1..k /\ k - i = (k + 1 - i) - 1 /\ k + 1 - (k + 1 - i) = i
  BY <1>1
<1>4. Contents(n, f) = [i \in 1..k |-> Under(n, f, k + 1 - i)]
  BY <1>3 DEF Contents, Under
<1>5. Contents(n, f) \in [1..k -> Seq(Nat)]
  BY <1>2, <1>3, <1>4
<1>6. \A T : \A q \in [1..k -> T] : q \in Seq(T) /\ Len(q) = k
  BY <1>1
<1>7. \A i \in 1..k : Contents(n, f)[i] = Under(n, f, k + 1 - i)
  BY <1>4
<1>8. \A l \in 1..k : Contents(n, f)[k + 1 - l] = Under(n, f, l)
  BY <1>3, <1>7
<1>9. QED
  BY <1>2, <1>5, <1>6, <1>7, <1>8

\* Nodes that are written change nothing below the open ones.
LEMMA ContentsStay ==
  ASSUME NEW d, NEW e, Typed(d), Typed(e), DiskPoints(d), Grows(d, e),
         NEW f, NEW g, Unfolds(d, f), Unfolds(e, g),
         NEW n \in Seq(OpenNode), NodesPoint(d, n)
  PROVE  Contents(n, g) = Contents(n, f)
<1>1. ASSUME NEW l \in 1..Len(n) PROVE Under(n, g, l) = Under(n, f, l)
  <2>1. n[l] \in OpenNode /\ l - 1 \in Nat
    OBVIOUS
  <2>2. n[l].entries \in Seq(Entry)
    BY <2>1 DEF OpenNode
  <2>3. l - 1 > 0 => EntriesPoint(d, n[l].entries, l - 1)
    BY DEF NodesPoint
  <2>4. QED
    BY <2>1, <2>2, <2>3, BelowStays DEF Under
<1> DEFINE P == Contents(n, g)
           Q == Contents(n, f)
<1>2. \A i \in 1..Len(n) : Len(n) + 1 - i \in 1..Len(n)
  OBVIOUS
<1>3. \A i \in 1..Len(n) : P[i] = Under(n, g, Len(n) + 1 - i) /\ Q[i] = Under(n, f, Len(n) + 1 - i)
  BY ContentsAre
<1>4. \A i \in 1..Len(n) : P[i] = Q[i]
  BY <1>1, <1>2, <1>3
<1>5. P = [i \in 1..Len(n) |-> P[i]] /\ Q = [i \in 1..Len(n) |-> Q[i]]
  BY DEF Contents
<1> HIDE DEF P, Q
<1>6. P = Q
  BY <1>4, <1>5
<1>7. QED
  BY <1>6 DEF P, Q

\* An empty level on top adds nothing.
LEMMA ContentsPadded ==
  ASSUME NEW d, NEW f, Typed(d), Unfolds(d, f), NEW n \in Seq(OpenNode),
         NEW C \in Seq(Seq(Nat)), NEW m \in Nat, Len(C) = m, m = Len(n) \/ m = Len(n) + 1,
         \A l \in 1..Len(n) : C[m + 1 - l] = Under(n, f, l),
         m = Len(n) + 1 => C[1] = <<>>
  PROVE  FlattenSeq(C) = FlattenSeq(Contents(n, f))
<1> DEFINE D == Contents(n, f)
           k == Len(n)
<1>1. k \in Nat /\ D \in Seq(Seq(Nat)) /\ Len(D) = k /\ \A i \in 1..k : D[i] = Under(n, f, k + 1 - i)
  BY ContentsAre
<1>2. \A l \in 1..k : C[m + 1 - l] = Under(n, f, l)
  OBVIOUS
<1> HIDE DEF D, k
<1>3. CASE m = k
  <2>1. \A i \in 1..k : k + 1 - i \in 1..k /\ m + 1 - (k + 1 - i) = i
    BY <1>1, <1>3
  <2>2. \A i \in 1..k : C[i] = D[i]
    BY <1>1, <1>2, <2>1
  <2>3. C = D
    BY <1>1, <1>3, <2>2
  <2>4. QED
    BY <2>3 DEF D
<1>4. CASE m = k + 1
  <2>1. \A i \in 1..k : k + 1 - i \in 1..k /\ m + 1 - (k + 1 - i) = i + 1
    BY <1>1, <1>4
  <2>2. ASSUME NEW i \in 1..k PROVE C[i + 1] = D[i]
    <3> DEFINE l == k + 1 - i
    <3>1. l \in 1..k /\ m + 1 - l = i + 1
      BY <2>1
    <3>2. D[i] = Under(n, f, l)
      BY <1>1
    <3> HIDE DEF l
    <3>3. C[m + 1 - l] = Under(n, f, l)
      BY <1>2, <3>1
    <3>4. QED
      BY <3>1, <3>2, <3>3
  <2>3. C[1] = <<>> /\ Len(C) = Len(D) + 1
    BY <1>1, <1>4 DEF k
  <2>4. QED
    BY <1>1, <2>2, <2>3, FlattenShifts DEF D
<1>5. QED
  BY <1>3, <1>4 DEF k

\* The numbers up to the next one.
LEMMA UpToNext ==
  ASSUME NEW n \in Nat
  PROVE  UpTo(n) \o <<n + 1>> = UpTo(n + 1)
<1> DEFINE a == UpTo(n)
           b == UpTo(n + 1)
<1>1. a \in Seq(Nat) /\ Len(a) = n /\ b \in Seq(Nat) /\ Len(b) = n + 1 /\ b[n + 1] = n + 1
      /\ \A i \in 1..n : b[i] = a[i]
  BY DEF UpTo
<1> HIDE DEF a, b
<1>2. a \o <<n + 1>> = b
  BY <1>1
<1>3. QED
  BY <1>2 DEF a, b

\* What is below one level moves to the one above.
LEMMA LevelMoves ==
  ASSUME NEW C \in Seq(Seq(Nat)), NEW D \in Seq(Seq(Nat)), Len(D) = Len(C),
         NEW j \in 1..(Len(C) - 1), D[j] = C[j] \o C[j + 1], D[j + 1] = <<>>,
         \A i \in 1..Len(C) : i \in {j, j + 1} \/ D[i] = C[i]
  PROVE  FlattenSeq(D) = FlattenSeq(C)
<1> DEFINE x == D[j]
<1>1. x \in Seq(Nat)
  OBVIOUS
<1> HIDE DEF x
<1>2. x \o <<>> = x
  BY <1>1, ConcatEmptySeq
<1>3. C[j] \o C[j + 1] = D[j] \o D[j + 1]
  BY <1>2 DEF x
<1>4. QED
  BY <1>3, FlattenMoves

\* Everything there is to know about ItemsBelow.
LEMMA ItemsBelowIs ==
  ASSUME Fill, Fill'
  PROVE  /\ Typed(disk) /\ Typed(disk') /\ Unfolds(disk, ItemsBelow) /\ Unfolds(disk', ItemsBelow')
         /\ ItemsInOrder <=> (pc # "done" => FlattenSeq(Contents(node, ItemsBelow)) = UpTo(count))
         /\ ItemsInOrder' <=> (pc' # "done" => FlattenSeq(Contents(node', ItemsBelow')) = UpTo(count'))
<1>1. Typed(disk)
  BY DEF Typed, Fill, Stored
<1>2. Typed(disk')
  BY DEF Typed, Fill, Stored
<1>3. ItemsInOrder <=> (pc # "done" => FlattenSeq(Contents(node, ItemsBelow)) = UpTo(count))
  BY DEF ItemsInOrder, Contents
<1>4. ItemsInOrder' <=> (pc' # "done" => FlattenSeq(Contents(node', ItemsBelow')) = UpTo(count'))
  BY DEF ItemsInOrder, Contents, UpTo
<1>5. QED
  BY <1>1, <1>2, <1>3, <1>4, ItemsBelowUnfolds

\* Without a step of the disk ItemsBelow is the same.
LEMMA ItemsBelowSame ==
  ASSUME Fill, Fill', Points, disk' = disk
  PROVE  \A n \in Seq(OpenNode) : NodesPoint(disk, n) => Contents(n, ItemsBelow') = Contents(n, ItemsBelow)
<1>1. Grows(disk, disk') /\ DiskPoints(disk)
  BY DEF Grows, Points
<1> DEFINE f == ItemsBelow
           g == ItemsBelow'
<1>2. Typed(disk) /\ Typed(disk') /\ Unfolds(disk, f) /\ Unfolds(disk', g)
  BY ItemsBelowIs
<1> HIDE DEF f, g
<1>3. \A n \in Seq(OpenNode) : NodesPoint(disk, n) => Contents(n, g) = Contents(n, f)
  BY <1>1, <1>2, ContentsStay
<1>4. QED
  BY <1>3 DEF f, g

\* PutEntry moves what is below the node flushed up one level, or adds the item.
LEMMA PutEntryInOrder ==
  ASSUME Shape, Shape', Stage, Fill, Fill', Points, Points', Carries, ItemsInOrder, PutEntry
  PROVE  ItemsInOrder'
<1> DEFINE n == Len(node)
           m == Len(node')
           c == Len(carry)
           f == ItemsBelow
           g == ItemsBelow'
<1>1. /\ pc = "append" /\ disk' = disk /\ c \in Nat \ {0} /\ base \in Nat /\ Top = base + c - 1
      /\ Top \in Nat /\ n \in Nat /\ m \in Nat /\ Top <= n /\ Top + 1 <= m
      /\ m = IF Top = n THEN n + 1 ELSE n
      /\ \A l \in 1..n : l # Top /\ l # Top + 1 => node'[l] = node[l]
      /\ Top > 0 => node'[Top].entries = <<>>
      /\ Last(carry) = carry[c] /\ Last(carry) \in Entry
  BY PutsOne
<1>2. /\ Top < n => /\ node[Top + 1].entries \in Seq(Entry)
                    /\ node'[Top + 1].entries = Append(node[Top + 1].entries, Last(carry))
      /\ Top = n => node'[Top + 1].entries = Append(<<>>, Last(carry))
  BY PutsOne
<1>3. IF c > 1 THEN pc' = "append" /\ base' = base /\ count' = count
      ELSE IF base > 0 THEN pc' = "finish" /\ base' = base + 1 /\ count' = count
      ELSE pc' = "idle" /\ base' = base /\ count' = count + 1
  BY PutsOne
<1>4. /\ Typed(disk) /\ Unfolds(disk, f) /\ Typed(disk') /\ Unfolds(disk', g)
      /\ FlattenSeq(Contents(node, f)) = UpTo(count)
      /\ ItemsInOrder' <=> (pc' # "done" => FlattenSeq(Contents(node', g)) = UpTo(count'))
  BY <1>1, ItemsBelowIs
<1>5. node \in Seq(OpenNode) /\ node' \in Seq(OpenNode)
  BY DEF Shape
<1>6. Contents(node', g) = Contents(node', f)
  <2>1. NodesPoint(disk, node')
    BY <1>1 DEF Points
  <2>2. QED
    BY <1>1, <1>5, <2>1, ItemsBelowSame
<1> HIDE DEF f, g
<1> DEFINE C == [i \in 1..m |-> IF m + 1 - i \in 1..n THEN Under(node, f, m + 1 - i) ELSE <<>>]
           D == Contents(node', f)
           e == Last(carry)
           s == Stands(disk, f, Top, e)
<1>7. \A l \in 1..n : Under(node, f, l) \in Seq(Nat)
  BY <1>4, <1>5, ContentsAre
<1>8. /\ D \in Seq(Seq(Nat)) /\ Len(D) = m
      /\ \A l \in 1..m : Under(node', f, l) \in Seq(Nat)
      /\ \A i \in 1..m : D[i] = Under(node', f, m + 1 - i)
  BY <1>4, <1>5, ContentsAre
<1>9. e \in Entry
  BY <1>1
<1>10. C \in Seq(Seq(Nat)) /\ Len(C) = m
       /\ \A i \in 1..m : C[i] = IF m + 1 - i \in 1..n THEN Under(node, f, m + 1 - i) ELSE <<>>
  <2>1. C \in [1..m -> Seq(Nat)]
    BY <1>7, EmptySeq
  <2>2. \A T : \A q \in [1..m -> T] : q \in Seq(T) /\ Len(q) = m
    BY <1>1
  <2>3. QED
    BY <2>1, <2>2
<1> HIDE DEF C, D, n, m, c, e
<1>11. FlattenSeq(C) = UpTo(count)
  <2>1. m = n \/ m = n + 1
    BY <1>1
  <2>2. \A l \in 1..n : C[m + 1 - l] = Under(node, f, l)
    <3> TAKE l \in 1..n
    <3>1. m + 1 - l \in 1..m /\ m + 1 - (m + 1 - l) = l
      BY <1>1, <2>1
    <3>2. QED
      BY <1>10, <3>1
  <2>3. m = n + 1 => C[1] = <<>>
    <3>1. m = n + 1 => 1 \in 1..m /\ m + 1 - 1 \notin 1..n
      BY <1>1
    <3>2. QED
      BY <1>10, <3>1
  <2>4. m = Len(node) \/ m = Len(node) + 1
    BY <2>1 DEF n
  <2>5. (\A l \in 1..Len(node) : C[m + 1 - l] = Under(node, f, l)) /\ (m = Len(node) + 1 => C[1] = <<>>)
    BY <2>2, <2>3 DEF n
  <2>6. FlattenSeq(C) = FlattenSeq(Contents(node, f))
    BY <1>1, <1>4, <1>5, <1>10, <2>4, <2>5, ContentsPadded
  <2>7. QED
    BY <1>4, <2>6
<1>12. \A i \in 1..m : m + 1 - i # Top /\ m + 1 - i # Top + 1 => D[i] = C[i]
  <2> SUFFICES ASSUME NEW i \in 1..m, m + 1 - i # Top, m + 1 - i # Top + 1 PROVE D[i] = C[i]
    OBVIOUS
  <2>1. m + 1 - i \in 1..n
    BY <1>1
  <2>2. node'[m + 1 - i] = node[m + 1 - i]
    BY <1>1, <2>1
  <2>3. QED
    BY <1>8, <1>10, <2>1, <2>2 DEF Under
<1>13. s \in Seq(Nat) /\ Under(node', f, Top + 1) = C[m - Top] \o s
  <2>1. /\ f[Top][<<>>] = <<>> /\ s \in Seq(Nat)
        /\ \A es \in Seq(Entry) : f[Top][Append(es, e)] = f[Top][es] \o s
    <3>1. Top \in Nat
      BY <1>1
    <3>2. /\ f[Top][<<>>] = <<>>
          /\ \A es \in Seq(Entry), x \in Entry :
               /\ Stands(disk, f, Top, x) \in Seq(Nat)
               /\ f[Top][Append(es, x)] = f[Top][es] \o Stands(disk, f, Top, x)
      <4> HIDE DEF s
      <4>1. Typed(disk) /\ Unfolds(disk, f)
        BY <1>4
      <4>2. QED
        BY ONLY <3>1, <4>1, BelowAppends
    <3>3. <<>> \in Seq(Entry)
      BY EmptySeq
    <3>4. QED
      BY ONLY <3>2, <3>3, <1>9 DEF s
  <2> HIDE DEF s
  <2>2. m - Top \in 1..m /\ m + 1 - (m - Top) = Top + 1 /\ (Top + 1) - 1 = Top
        /\ (Top < n => Top + 1 \in 1..n) /\ (Top = n => Top + 1 \notin 1..n)
    BY <1>1
  <2>3. CASE Top < n
    <3>1. C[m - Top] = f[Top][node[Top + 1].entries]
      BY <1>10, <2>2, <2>3 DEF Under
    <3>2. Under(node', f, Top + 1) = f[Top][Append(node[Top + 1].entries, e)]
      BY <1>2, <2>2, <2>3 DEF Under, e
    <3>3. node[Top + 1].entries \in Seq(Entry)
      BY <1>2, <2>3
    <3>4. QED
      BY <2>1, <3>1, <3>2, <3>3
  <2>4. CASE Top = n
    <3>1. C[m - Top] = f[Top][<<>>]
      BY <1>10, <2>1, <2>2, <2>4
    <3>2. Under(node', f, Top + 1) = f[Top][Append(<<>>, e)]
      BY <1>2, <2>2, <2>4 DEF Under, e
    <3>3. <<>> \in Seq(Entry)
      BY EmptySeq
    <3>4. QED
      BY <2>1, <3>1, <3>2, <3>3
  <2>5. QED
    BY <1>1, <2>3, <2>4
<1>14. CASE Top = 0
  <2>1. c = 1 /\ base = 0 /\ count' = count + 1 /\ m \in Nat \ {0} /\ m - Top = m /\ m \in 1..m
    BY <1>1, <1>3, <1>14
  <2>2. e.key = count + 1
    <3>1. carry # <<>>
      <4>1. Len(<<>>) = 0
        OBVIOUS
      <4>2. QED
        BY <2>1, <4>1 DEF c
    <3>2. e = carry[1]
      BY <1>1, <2>1 DEF e
    <3>3. QED
      BY <2>1, <3>1, <3>2 DEF Carries
  <2>3. s = <<count + 1>>
    BY <1>14, <2>2 DEF Stands
  <2>4. D[m] = C[m] \o s
    <3>1. m + 1 - m = Top + 1
      BY <1>14, <2>1
    <3>2. QED
      BY <1>8, <1>13, <2>1, <3>1
  <2>5. \A i \in 1..(m - 1) : D[i] = C[i]
    <3> TAKE i \in 1..(m - 1)
    <3>1. i \in 1..m /\ m + 1 - i # Top /\ m + 1 - i # Top + 1
      BY <1>14, <2>1
    <3>2. QED
      BY <1>12, <3>1
  <2>6. count \in Nat
    BY ConstantsAre DEF Shape
  <2>7. FlattenSeq(D) = UpTo(count + 1)
    <3>1. C \in Seq(Seq(Nat)) /\ D \in Seq(Seq(Nat)) /\ Len(C) = m /\ Len(D) = m
      BY <1>8, <1>10
    <3>2. m \in Nat \ {0}
      BY <2>1
    <3> HIDE DEF s
    <3>3. s \in Seq(Nat)
      BY <1>13
    <3>4. D[Len(C)] = C[Len(C)] \o s /\ Len(C) # 0 /\ Len(D) = Len(C)
      BY <2>4, <3>1, <3>2
    <3>5. \A i \in 1..(Len(C) - 1) : D[i] = C[i]
      BY <2>5, <3>1
    <3>6. FlattenSeq(D) = FlattenSeq(C) \o s
      BY ONLY <3>1, <3>3, <3>4, <3>5, FlattenGrows
    <3>7. FlattenSeq(D) = UpTo(count) \o <<count + 1>>
      BY ONLY <3>6, <1>11, <2>3
    <3>8. QED
      BY <2>6, <3>7, UpToNext
  <2>8. QED
    BY <1>4, <1>6, <2>1, <2>7 DEF D
<1>15. CASE Top # 0
  <2>1. count' = count
    BY <1>1, <1>3, <1>15
  <2> DEFINE j == m - Top
  <2>2. /\ j \in 1..(m - 1) /\ j \in 1..m /\ j + 1 \in 1..m
        /\ m + 1 - j = Top + 1 /\ m + 1 - (j + 1) = Top /\ Top \in 1..n
    BY <1>1, <1>15
  <2>3. C[j + 1] = Under(node, f, Top)
    BY <1>10, <2>2
  <2>4. s = Under(node, f, Top)
    <3>1. c \in 1..c /\ base + c > 1 /\ base + c - 1 = Top
      BY <1>1, <1>15
    <3>2. e.ptr \in DOMAIN disk /\ disk[e.ptr].entries = node[Top].entries
      <4>1. /\ carry[c].ptr \in DOMAIN disk
            /\ disk[carry[c].ptr].entries = node[base + c - 1].entries
        BY <3>1 DEF Carries, c
      <4>2. QED
        BY <1>1, <3>1, <4>1 DEF e
    <3>3. QED
      BY <1>15, <3>2 DEF Stands, Under
  <2>5. D[j] = C[j] \o C[j + 1]
    BY <1>8, <1>13, <2>2, <2>3, <2>4
  <2>6. D[j + 1] = <<>>
    <3>1. D[j + 1] = f[Top - 1][node'[Top].entries]
      BY <1>8, <2>2 DEF Under
    <3>2. node'[Top].entries = <<>> /\ Top - 1 \in Nat
      BY <1>1, <1>15
    <3>3. f[Top - 1][<<>>] = <<>>
      BY <1>4, <3>2, BelowAppends
    <3>4. QED
      BY <3>1, <3>2, <3>3
  <2>7. \A i \in 1..m : i \in {j, j + 1} \/ D[i] = C[i]
    <3> TAKE i \in 1..m
    <3>1. i \notin {j, j + 1} => m + 1 - i # Top /\ m + 1 - i # Top + 1
      BY <1>1
    <3>2. QED
      BY <1>12, <3>1
  <2> HIDE DEF j
  <2>8. FlattenSeq(D) = FlattenSeq(C)
    BY <1>8, <1>10, <2>2, <2>5, <2>6, <2>7, LevelMoves
  <2>9. QED
    BY <1>4, <1>6, <1>11, <2>1, <2>8 DEF D
<1>16. QED
  BY <1>14, <1>15

\* ctree_node_write adds a node that no open one names yet.
LEMMA FlushWriteInOrder ==
  ASSUME Shape, Stage, Fill, Fill', Points, ItemsInOrder, FlushWrite
  PROVE  ItemsInOrder'
<1> DEFINE f == ItemsBelow
           g == ItemsBelow'
<1>1. pc = "write" /\ node' = node /\ count' = count /\ Grows(disk, disk')
  BY FlushesOne
<1>2. /\ Typed(disk) /\ Typed(disk') /\ Unfolds(disk, f) /\ Unfolds(disk', g)
      /\ FlattenSeq(Contents(node, f)) = UpTo(count)
      /\ ItemsInOrder' <=> (pc' # "done" => FlattenSeq(Contents(node', g)) = UpTo(count'))
  BY <1>1, ItemsBelowIs
<1>3. node \in Seq(OpenNode) /\ DiskPoints(disk) /\ NodesPoint(disk, node)
  BY DEF Shape, Points
<1> HIDE DEF f, g
<1>4. Contents(node, g) = Contents(node, f)
  BY <1>1, <1>2, <1>3, ContentsStay
<1>5. QED
  BY <1>1, <1>2, <1>4

\* A call that fails leaves the items where they are; the level that it may
\* have added is empty.
LEMMA CallFailsInOrder ==
  ASSUME Shape, Shape', Stage, Fill, Fill', Points, Points', ItemsInOrder, CallFails
  PROVE  ItemsInOrder'
<1> DEFINE f == ItemsBelow
           g == ItemsBelow'
           n == Len(node)
           m == Len(node')
           C == Contents(node', f)
<1>1. disk' = disk /\ count' = count /\ pc # "done"
  BY DEF CallFails
<1>2. /\ Typed(disk) /\ Unfolds(disk, f)
      /\ FlattenSeq(Contents(node, f)) = UpTo(count)
      /\ ItemsInOrder' <=> (pc' # "done" => FlattenSeq(Contents(node', g)) = UpTo(count'))
  BY <1>1, ItemsBelowIs
<1>3. node \in Seq(OpenNode) /\ node' \in Seq(OpenNode) /\ NodesPoint(disk, node')
  BY <1>1 DEF Shape, Points
<1>4. Contents(node', g) = C
  BY <1>1, <1>3, ItemsBelowSame
<1>5. /\ n <= m /\ \A l \in 1..n : node'[l] = node[l]
      /\ \A l \in 1..m : l \in 1..n \/ node'[l] = NewNode
  BY CallFailsTyped
<1>6. m = n \/ m = n + 1
  <2>1. CASE node' = node
    BY <2>1
  <2>2. CASE node' = Ensured
    BY <2>2, <1>3 DEF Ensured
  <2>3. QED
    BY <2>1, <2>2 DEF CallFails
<1> HIDE DEF f, g
<1>7. /\ C \in Seq(Seq(Nat)) /\ Len(C) = m
      /\ \A l \in 1..m : C[m + 1 - l] = Under(node', f, l)
  BY <1>2, <1>3, ContentsAre
<1>8. n \in Nat /\ m \in Nat
  BY <1>3
<1> HIDE DEF C, n, m
<1>9. \A l \in 1..n : C[m + 1 - l] = Under(node, f, l)
  <2> TAKE l \in 1..n
  <2>1. l \in 1..m /\ node'[l] = node[l]
    BY <1>5, <1>8
  <2>2. QED
    BY <1>7, <2>1 DEF Under
<1>10. m = n + 1 => C[1] = <<>>
  <2> SUFFICES ASSUME m = n + 1 PROVE C[1] = <<>>
    OBVIOUS
  <2>1. m \in 1..m /\ m \notin 1..n /\ m + 1 - m = 1 /\ m - 1 = n
    BY <1>8
  <2>2. C[1] = f[m - 1][node'[m].entries]
    BY <1>7, <2>1 DEF Under
  <2>3. node'[m].entries = <<>>
    BY <1>5, <2>1, NodesAre
  <2>4. f[n][<<>>] = <<>>
    BY <1>2, <1>8, BelowAppends
  <2>5. QED
    BY <2>1, <2>2, <2>3, <2>4
<1>11. FlattenSeq(C) = FlattenSeq(Contents(node, f))
  BY <1>2, <1>3, <1>6, <1>7, <1>8, <1>9, <1>10, ContentsPadded DEF n
<1>12. QED
  BY <1>1, <1>2, <1>4, <1>11

\* Every step keeps the items in order.
LEMMA StepInOrder ==
  ASSUME BuilderInv, BuilderInv', Carries, ItemsInOrder, [Next]_vars
  PROVE  ItemsInOrder'
<1> USE DEF BuilderInv
<1>1. CASE PutEntry \/ FlushWrite \/ CallFails
  BY <1>1, PutEntryInOrder, FlushWriteInOrder, CallFailsInOrder
<1>2. CASE FinishSingle \/ RootWrite
  BY <1>2 DEF FinishSingle, RootWrite, ItemsInOrder
<1>3. CASE \/ \E size \in ItemSizes : CallAppend(size)
           \/ FlushReserve \/ CallFinish \/ FinishLevel \/ RootReserve \/ Retry \/ Cancel
           \/ Overrun \/ UNCHANGED vars
  <2>1. node' = node /\ disk' = disk /\ count' = count /\ (pc = "done" => pc' = "done")
    BY <1>3 DEF CallAppend, FlushReserve, CallFinish, FinishLevel, RootReserve, Retry, Cancel, Overrun, vars,
                memVars
  <2> DEFINE f == ItemsBelow
             g == ItemsBelow'
  <2>2. /\ ItemsInOrder <=> (pc # "done" => FlattenSeq(Contents(node, f)) = UpTo(count))
        /\ ItemsInOrder' <=> (pc' # "done" => FlattenSeq(Contents(node', g)) = UpTo(count'))
    BY ItemsBelowIs
  <2>3. Contents(node, g) = Contents(node, f)
    BY <2>1, ItemsBelowSame DEF Shape, Points
  <2> HIDE DEF f, g
  <2>4. QED
    BY <2>1, <2>2, <2>3
<1>4. QED
  BY <1>1, <1>2, <1>3 DEF Next

\* ctree_builder_setup
LEMMA InOrderStarts == Init => Carries /\ ItemsInOrder
<1> SUFFICES ASSUME Init PROVE Carries /\ ItemsInOrder
  OBVIOUS
<1>1. Len(<<>>) = 0 /\ 1..0 = {}
  OBVIOUS
<1>2. Carries
  BY <1>1 DEF Init, Carries
<1>3. ItemsInOrder
  <2> DEFINE F == [i \in 1..Len(node) |-> ItemsBelow[Len(node) - i][node[Len(node) + 1 - i].entries]]
  <2>1. F = <<>>
    BY <1>1 DEF Init
  <2>2. UpTo(0) = <<>>
    BY DEF UpTo
  <2> HIDE DEF F
  <2>3. FlattenSeq(F) = UpTo(count)
    BY <2>1, <2>2, FlattenNothing DEF Init
  <2>4. QED
    BY <2>3 DEF ItemsInOrder, F
<1>4. QED
  BY <1>2, <1>3

(***************************************************************************)
(* The top level                                                           *)
(***************************************************************************)

\* No room for an entry of so many bytes.
Full(nd, size) == ~(Len(nd.entries) + 1 <= MinFanout \/ PagesOf(nd.bytes + size) = PagesOf(nd.bytes))

\* ctree_node_can_append says so.
LEMMA FullIs == \A nd, e : CanAppend(nd, e) <=> ~Full(nd, e.size)
BY DEF CanAppend, Full

Appending == base = 0 /\ pc \in {"append", "write", "failed"}

\* While there is one level nothing is on disk; the leaf has been written only
\* by an append that has not come back, and it is still too full for its item.
LeafAlone ==
  Len(node) <= 1 =>
    \/ pc \in {"cancelled", "overrun"}
    \/ disk = <<>> /\ pc # "write"
    \/ Appending /\ Len(node) = 1 /\ carry # <<>> /\ Full(node[1], carry[1].size)

\* What has been left by a call that failed after it had added the top level:
\* the nodes below, from the first that is not empty, are full, so that nothing
\* is put there before something gets to the top.
Blocked ==
  \/ /\ Appending /\ carry # <<>> /\ Full(node[1], carry[1].size)
     /\ \A l \in 2..(Len(node) - 1) : Full(node[l], PtrSize)
  \/ /\ base > 0
     /\ \E b \in 1..(Len(node) - 1) :
          /\ base <= b /\ b < Len(node) - 1 /\ node[b].entries # <<>>
          /\ \A l \in 1..(b - 1) : node[l].entries = <<>>
          /\ \A l \in (b + 1)..(Len(node) - 1) : Full(node[l], PtrSize)

\* Something below the top that is still to be flushed.
Remains == \E l \in 1..(Len(node) - 1) : l >= base /\ node[l].entries # <<>>

\* The top level has two entries, or will have.
TopIsShared ==
  Len(node) >= 2 =>
    \/ pc \in {"done", "cancelled", "overrun"}
    \/ Len(node[Len(node)].entries) >= 2
    \/ Len(node[Len(node)].entries) = 1 /\ (Appending \/ Remains)
    \/ node[Len(node)].entries = <<>> /\ Blocked

\* Every step keeps the leaf alone until something is above it.
LEMMA StepAlone ==
  ASSUME BuilderInv, Carries, Carries', LeafAlone, [Next]_vars
  PROVE  LeafAlone'
<1> SUFFICES ASSUME Len(node') <= 1
             PROVE  \/ pc' \in {"cancelled", "overrun"}
                    \/ disk' = <<>> /\ pc' # "write"
                    \/ Appending' /\ Len(node') = 1 /\ carry' # <<>> /\ Full(node'[1], carry'[1].size)
  BY DEF LeafAlone
<1>0. Shape /\ Stage /\ Fill /\ Chain /\ Len(node) \in Nat /\ base \in Nat /\ Len(carry) \in Nat
  BY DEF BuilderInv, Shape
<1>00. Len(node') <= 1
  OBVIOUS
<1> DEFINE Kept == Appending /\ Len(node) = 1 /\ carry # <<>> /\ Full(node[1], carry[1].size)
<1>1. CASE \E size \in ItemSizes : CallAppend(size)
  <2>1. pc = "idle" /\ pc' = "append" /\ disk' = disk /\ node' = node
    BY <1>1 DEF CallAppend, memVars
  <2>2. QED
    BY <2>1 DEF LeafAlone, Appending
<1>2. CASE FlushReserve
  <2>1. pc = "append" /\ pc' = "write" /\ disk' = disk /\ node' = node /\ carry' = carry /\ base' = base
    BY <1>2 DEF FlushReserve, memVars
  <2>2. base = 0 /\ carry # <<>>
    BY <1>0, <2>1 DEF Chain, Stage
  <2>3. 1 \in 1..Len(carry)
    BY <1>0, <2>2 DEF Shape
  <2>4. base + 1 <= Len(node) /\ ~CanAppend(node[base + 1], carry[1])
    BY <2>1, <2>3 DEF Carries
  <2>5. base + 1 = 1 /\ Len(node) = 1
    <3>1. base + 1 = 1
      BY <2>2
    <3>2. 1 <= Len(node)
      BY <2>4, <3>1
    <3>3. Len(node) <= 1
      BY <1>00, <2>1
    <3>4. Len(node) \in Nat
      BY <1>0
    <3>5. \A n \in Nat : 1 <= n /\ n <= 1 => n = 1
      OBVIOUS
    <3>6. QED
      BY <3>1, <3>2, <3>3, <3>4, <3>5
  <2>6. Full(node[1], carry[1].size)
    BY <2>4, <2>5, FullIs
  <2>7. QED
    BY <2>1, <2>2, <2>5, <2>6 DEF Appending
<1>3. CASE FlushWrite
  <2>1. /\ pc = "write" /\ pc' = "append" /\ base' = base /\ node' = node
        /\ Len(carry') = Len(carry) + 1 /\ \A i \in 1..Len(carry) : carry'[i] = carry[i]
    BY <1>0, <1>3, FlushesOne
  <2>2. Kept
    BY <2>1 DEF LeafAlone
  <2>3. 1 \in 1..Len(carry)
    BY <1>0, <2>2 DEF Shape
  <2>4. carry'[1] = carry[1] /\ Len(carry') # 0
    BY <1>0, <2>1, <2>3
  <2>5. carry' # <<>>
    <3>1. Len(<<>>) = 0
      OBVIOUS
    <3>2. QED
      BY <2>4, <3>1
  <2>6. QED
    BY <2>1, <2>2, <2>4, <2>5 DEF Appending
<1>4. CASE PutEntry
  <2>1. /\ pc = "append" /\ disk' = disk /\ Len(carry) \in Nat \ {0} /\ Top = base + Len(carry) - 1
        /\ Top + 1 <= Len(node') /\ Len(node') \in Nat /\ Top \in Nat
        /\ Last(carry) = carry[Len(carry)]
        /\ Top < Len(node) => CanAppend(node[Top + 1], Last(carry))
        /\ Len(node) <= Len(node')
        /\ IF Len(carry) > 1 THEN pc' = "append" ELSE IF base > 0 THEN pc' = "finish" ELSE pc' = "idle"
    BY <1>0, <1>4, PutsOne
  <2>2. Top = 0 /\ Len(carry) = 1 /\ Len(node) <= 1
    <3>1. Top = 0 /\ Len(node) <= 1
      BY <1>0, <1>00, <2>1
    <3>2. base + Len(carry) - 1 = 0 /\ Len(carry) \in Nat \ {0} /\ base \in Nat
      BY <1>0, <2>1, <3>1
    <3>3. Len(carry) = 1
      BY ONLY <3>2
    <3>4. QED
      BY <3>1, <3>3
  <2>3. ~Kept
    <3> SUFFICES ASSUME Kept PROVE FALSE
      OBVIOUS
    <3>1. CanAppend(node[1], carry[1])
      BY <2>1, <2>2
    <3>2. QED
      BY <3>1, FullIs
  <2>4. pc' # "write"
    BY <2>1
  <2>5. QED
    BY <2>1, <2>2, <2>3, <2>4 DEF LeafAlone
<1>5. CASE CallFinish \/ FinishSingle
  <2>1. pc \in {"idle", "finish"} /\ pc' \in {"finish", "done"} /\ disk' = disk /\ node' = node
    BY <1>5 DEF CallFinish, FinishSingle, memVars
  <2>2. QED
    BY <2>1 DEF LeafAlone, Appending
<1>6. CASE FinishLevel \/ RootReserve
  <2>1. pc = "finish" /\ node' = node /\ (base < Len(node) \/ base > 1)
    BY <1>6 DEF FinishLevel, RootReserve, memVars
  <2>2. QED
    BY <1>0, <2>1 DEF Stage
<1>7. CASE RootWrite
  <2>1. pc = "root" /\ node' = [node EXCEPT ![base] = Reset(@)]
    BY <1>7 DEF RootWrite
  <2>2. Len(node') = Len(node)
    BY <1>0, <2>1 DEF Shape
  <2>3. QED
    BY <1>0, <2>1, <2>2 DEF Stage
<1>8. CASE CallFails
  <2>1. /\ base' = base /\ disk' = disk /\ pc' = "failed" /\ pc \in {"append", "write", "root", "finish"}
        /\ carry' = IF base > 0 THEN <<>> ELSE <<Head(carry)>>
    BY <1>8 DEF CallFails, Finishing
  <2>2. /\ Len(node) <= Len(node') /\ \A l \in 1..Len(node) : node'[l] = node[l]
    BY <1>0, <1>8, CallFailsTyped
  <2>3. Len(node') \in Nat /\ Len(node) <= 1
    BY <1>0, <1>8, <2>2, StepTyped DEF Next, Shape
  <2>4. CASE Kept
    <3>1. Head(carry) = carry[1]
      BY <1>0, <2>4, CarryIs DEF Shape
    <3> DEFINE h == Head(carry)
    <3>2. carry' = <<h>>
      BY <2>1, <2>4 DEF Appending
    <3> HIDE DEF h
    <3>3. carry'[1] = h /\ carry' # <<>>
      BY <3>2
    <3>4. node'[1] = node[1] /\ Len(node') = 1
      <4>1. Len(node) = 1
        BY <2>4
      <4>2. node'[1] = node[1] /\ 1 <= Len(node')
        BY <2>2, <4>1
      <4>3. QED
        BY <1>00, <2>3, <4>2
    <3>5. QED
      BY <2>1, <2>4, <3>1, <3>3, <3>4 DEF Appending, h
  <2>5. CASE ~Kept
    BY <2>1, <2>3, <2>5 DEF LeafAlone
  <2>6. QED
    BY <2>4, <2>5
<1>9. CASE Retry
  <2>1. /\ pc = "failed" /\ carry' = carry /\ node' = node /\ disk' = disk
        /\ IF base > 0 THEN pc' = "finish" ELSE pc' = "append" /\ base' = base
    BY <1>9 DEF Retry, memVars, Finishing
  <2>2. QED
    BY <1>0, <2>1 DEF LeafAlone, Appending
<1>10. CASE Cancel \/ Overrun
  BY <1>10 DEF Cancel, Overrun
<1>11. CASE UNCHANGED vars
  BY <1>11 DEF vars, LeafAlone, Appending
<1>12. QED
  BY <1>1, <1>2, <1>3, <1>4, <1>5, <1>6, <1>7, <1>8, <1>9, <1>10, <1>11 DEF Next

\* The lowest level not flushed yet, below the top, has entries when one more
\* is on its way.
LEMMA BaseRemains ==
  ASSUME Shape, Chain, pc \in {"append", "write"}, carry # <<>>, base > 0
  PROVE  base \in 1..(Len(node) - 1) /\ node[base].entries # <<>>
<1>1. base < Len(node) /\ base \in Nat /\ Len(node) \in Nat
  BY DEF Shape, Chain
<1>2. 1 \in 1..Len(carry)
  BY CarryIs DEF Shape
<1>3. base + 1 > 1 /\ base + 1 - 1 = base
  BY <1>1
<1>4. node[base + 1 - 1].entries # <<>>
  BY <1>2, <1>3 DEF Chain
<1>5. QED
  BY <1>1, <1>3, <1>4

\* Nothing fits below an empty top level.
LEMMA NothingFits ==
  ASSUME Shape, Stage, Chain, Carries, Blocked, PutEntry, Top + 1 < Len(node)
  PROVE  FALSE
<1> DEFINE c == Len(carry)
           n == Len(node)
<1>1. /\ pc = "append" /\ c \in Nat \ {0} /\ base \in Nat /\ Top = base + c - 1 /\ n \in Nat
      /\ Last(carry) = carry[c] /\ Top \in Nat
      /\ Top < n => CanAppend(node[Top + 1], Last(carry))
  BY PutsOne
<1>2. carry # <<>>
  BY DEF PutEntry
<1> HIDE DEF c, n
<1>3. Top + 1 < n
  BY DEF n
<1>4. Top < n /\ Top + 1 = base + c
  BY <1>1, <1>3
<1>5. ~Full(node[base + c], carry[c].size)
  BY <1>1, <1>4, FullIs
<1>6. base + c > 1 => carry[c].size = PtrSize
  <2>1. c \in 1..c
    BY <1>1
  <2>2. QED
    BY <2>1 DEF Carries, c
<1>7. CASE base = 0
  <2>1. Full(node[1], carry[1].size) /\ \A l \in 2..(n - 1) : Full(node[l], PtrSize)
    BY <1>7 DEF Blocked, n
  <2>2. base + c = c
    BY <1>1, <1>7
  <2>3. CASE c = 1
    BY <1>5, <2>1, <2>2, <2>3
  <2>4. CASE c # 1
    <3>1. c \in 2..(n - 1) /\ base + c > 1
      BY <1>1, <1>3, <1>4, <2>2, <2>4
    <3>2. QED
      BY <1>5, <1>6, <2>1, <2>2, <3>1
  <2>5. QED
    BY <2>3, <2>4
<1>8. CASE base # 0
  <2>1. base \in 1..(n - 1) /\ node[base].entries # <<>> /\ base > 0
    <3>1. base > 0
      BY <1>1, <1>8
    <3>2. QED
      BY <1>1, <1>2, <3>1, BaseRemains DEF n
  <2>2. ~Appending
    BY <1>8 DEF Appending
  <2>3. PICK b \in 1..(n - 1) :
          /\ base <= b /\ b < n - 1
          /\ \A l \in 1..(b - 1) : node[l].entries = <<>>
          /\ \A l \in (b + 1)..(n - 1) : Full(node[l], PtrSize)
    BY <2>2 DEF Blocked, n
  <2>4. b \in Nat
    OBVIOUS
  <2>5. b = base
    <3>1. base \notin 1..(b - 1)
      BY <2>1, <2>3
    <3>2. QED
      BY <1>1, <2>1, <2>3, <2>4, <3>1
  <2>6. base + c \in (b + 1)..(n - 1) /\ base + c > 1
    BY <1>1, <1>3, <1>4, <1>8, <2>4, <2>5
  <2>7. QED
    BY <1>5, <1>6, <2>3, <2>6
<1>9. QED
  BY <1>7, <1>8

\* The entry goes to a level below the top, or makes the top's next one.
LEMMA PutEntryShares ==
  ASSUME Shape, Stage, Chain, Carries, TopIsShared, PutEntry
  PROVE  TopIsShared'
<1> DEFINE c == Len(carry)
           n == Len(node)
           m == Len(node')
<1>1. /\ pc = "append" /\ c \in Nat \ {0} /\ base \in Nat /\ Top = base + c - 1 /\ Top \in Nat
      /\ n \in Nat /\ m \in Nat /\ Top <= n /\ Top + 1 <= m
      /\ m = IF Top = n THEN n + 1 ELSE n
      /\ \A l \in 1..n : l # Top /\ l # Top + 1 => node'[l] = node[l]
      /\ Last(carry) = carry[c] /\ Last(carry) \in Entry
  BY PutsOne
<1>2. /\ Top < n => /\ node[Top + 1].entries \in Seq(Entry)
                    /\ node'[Top + 1].entries = Append(node[Top + 1].entries, Last(carry))
      /\ Top = n => node'[Top + 1].entries = Append(<<>>, Last(carry))
  BY PutsOne
<1>3. IF c > 1 THEN pc' = "append" /\ base' = base
      ELSE IF base > 0 THEN pc' = "finish" /\ base' = base + 1
      ELSE pc' = "idle" /\ base' = base
  BY PutsOne
<1>4. carry # <<>>
  BY DEF PutEntry
<1>5. n >= 2 => \/ Len(node[n].entries) >= 2
                \/ Len(node[n].entries) = 1
                \/ node[n].entries = <<>> /\ Blocked
  BY <1>1 DEF TopIsShared
<1> HIDE DEF c, n, m
<1>6. SUFFICES ASSUME m >= 2
               PROVE  \/ Len(node'[m].entries) >= 2
                      \/ Len(node'[m].entries) = 1 /\ (Appending' \/ Remains')
  BY DEF TopIsShared, m
\* What is below the top, unless the call comes back from the level below it.
<1>7. CASE Top + 1 < m \/ c > 1
  <2>1. Appending' \/ Remains'
    <3>1. CASE c > 1 /\ base = 0
      BY <1>3, <3>1 DEF Appending
    <3>2. CASE c > 1 /\ base # 0
      <4>1. base > 0
        BY <1>1, <3>2
      <4>2. base \in 1..(n - 1) /\ node[base].entries # <<>>
        BY <1>1, <1>4, <4>1, BaseRemains DEF n
      <4>3. base \in 1..n /\ base # Top /\ base # Top + 1 /\ base \in 1..(m - 1)
        BY <1>1, <3>2, <4>2
      <4>4. node'[base].entries # <<>> /\ base' = base
        BY <1>1, <1>3, <3>2, <4>2, <4>3
      <4>5. base >= base'
        BY <1>1, <4>4
      <4>6. QED
        BY <4>3, <4>4, <4>5 DEF Remains, m
    <3>3. CASE ~(c > 1)
      <4>1. c = 1 /\ Top = base /\ Top + 1 < m
        BY <1>1, <1>7, <3>3
      <4>2. Top < n /\ Top + 1 \in 1..(m - 1) /\ Top + 1 >= base'
        BY <1>1, <1>3, <4>1
      <4> DEFINE es == node[Top + 1].entries
                 e == Last(carry)
      <4>3. es \in Seq(Entry) /\ e \in Entry /\ node'[Top + 1].entries = Append(es, e)
        BY <1>1, <1>2, <4>2
      <4> HIDE DEF es, e
      <4>4. Append(es, e) # <<>>
        BY <4>3
      <4>5. node'[Top + 1].entries # <<>>
        BY <4>3, <4>4
      <4>6. QED
        BY <4>2, <4>5 DEF Remains, m
    <3>4. QED
      BY <3>1, <3>2, <3>3
  <2>2. CASE Top + 1 < m
    <3>1. m = n /\ Top + 1 < n /\ n >= 2 /\ n \in 1..n /\ n # Top /\ n # Top + 1
      BY <1>1, <1>6, <2>2
    <3>2. node'[m] = node[n]
      BY <1>1, <3>1
    <3>3. ~Blocked
      BY <3>1, NothingFits DEF n
    <3>4. QED
      BY <1>5, <2>1, <3>1, <3>2, <3>3
  <2>3. CASE ~(Top + 1 < m)
    <3>1. Len(node'[m].entries) >= 1
      <4>1. m = Top + 1
        BY <1>1, <2>3
      <4> DEFINE es == IF Top < n THEN node[Top + 1].entries ELSE <<>>
                 e == Last(carry)
      <4>2. es \in Seq(Entry) /\ e \in Entry /\ node'[m].entries = Append(es, e)
        <5>1. <<>> \in Seq(Entry)
          BY EmptySeq
        <5>2. Top < n \/ Top = n
          BY <1>1
        <5>3. QED
          BY <1>1, <1>2, <4>1, <5>1, <5>2
      <4> HIDE DEF es, e
      <4>3. Len(Append(es, e)) >= 1
        BY <4>2
      <4>4. QED
        BY <4>2, <4>3
    <3>2. Len(node'[m].entries) \in Nat
      <4>1. node' \in Seq(OpenNode) /\ m \in 1..Len(node')
        BY <1>1, <1>6, StepTyped DEF Next, Shape, m
      <4>2. node'[m] \in OpenNode
        BY <4>1
      <4>3. QED
        BY <4>2 DEF OpenNode
    <3>3. \A k \in Nat : k >= 1 => k >= 2 \/ k = 1
      OBVIOUS
    <3>4. QED
      BY <2>1, <3>1, <3>2, <3>3
  <2>4. QED
    BY <2>2, <2>3
<1>8. CASE ~(Top + 1 < m) /\ ~(c > 1)
  <2>1. c = 1 /\ Top = base /\ m = Top + 1 /\ base > 0
    BY <1>1, <1>6, <1>8
  <2>2. base < n
    BY <1>1, <2>1 DEF Chain, n
  <2>3. m = n /\ n >= 2 /\ Top < n /\ base = n - 1
    BY <1>1, <1>6, <2>1, <2>2
  <2>4. ~Blocked
    BY <1>1, <2>1, <2>3 DEF Blocked, Appending, n
  <2> DEFINE es == node[n].entries
             e == Last(carry)
  <2>5. es \in Seq(Entry) /\ e \in Entry /\ node'[m].entries = Append(es, e)
    BY <1>1, <1>2, <2>1, <2>3
  <2>6. Len(es) >= 1
    BY <1>5, <2>3, <2>4
  <2> HIDE DEF es, e
  <2>7. Len(Append(es, e)) >= 2
    BY <2>5, <2>6
  <2>8. QED
    BY <2>5, <2>7
<1>9. QED
  BY <1>7, <1>8

\* The level that was added for an entry lies over nodes that had no room.
LEMMA CallFailsShares ==
  ASSUME Shape, Stage, Chain, Carries, TopIsShared, CallFails
  PROVE  TopIsShared'
<1>1. /\ base' = base /\ pc' = "failed" /\ pc \in {"append", "write", "root", "finish"}
      /\ carry' = IF base > 0 THEN <<>> ELSE <<Head(carry)>>
  BY DEF CallFails, Finishing
<1>2. base \in Nat /\ Len(node) \in Nat
  BY DEF Shape
\* The entry for the item is kept.
<1>3. ASSUME base = 0, carry # <<>>
      PROVE  Appending' /\ carry' # <<>> /\ carry'[1] = carry[1]
  <2> DEFINE h == Head(carry)
  <2>1. carry' = <<h>> /\ h = carry[1]
    BY <1>1, <1>3, CarryIs DEF Shape
  <2> HIDE DEF h
  <2>2. carry' # <<>> /\ carry'[1] = h
    BY <2>1
  <2>3. QED
    BY <1>1, <1>3, <2>1, <2>2 DEF Appending
<1>4. CASE node' = node
  <2> SUFFICES ASSUME Len(node) >= 2
               PROVE  \/ Len(node[Len(node)].entries) >= 2
                      \/ Len(node[Len(node)].entries) = 1 /\ (Appending' \/ Remains')
                      \/ node[Len(node)].entries = <<>> /\ Blocked'
    BY <1>4 DEF TopIsShared
  <2>1. \/ Len(node[Len(node)].entries) >= 2
        \/ Len(node[Len(node)].entries) = 1 /\ (Appending \/ Remains)
        \/ node[Len(node)].entries = <<>> /\ Blocked
    BY <1>1 DEF TopIsShared
  <2>2. Appending => Appending'
    BY <1>1 DEF Appending
  <2>3. Remains => Remains'
    BY <1>1, <1>4 DEF Remains
  <2>4. Blocked => Blocked'
    <3>1. CASE base = 0
      <4>1. ~(base > 0)
        BY <3>1
      <4>2. QED
        BY <1>1, <1>3, <1>4, <3>1, <4>1 DEF Blocked
    <3>2. CASE base # 0
      BY <1>1, <1>4, <3>2 DEF Blocked, Appending
    <3>3. QED
      BY <3>1, <3>2
  <2>5. QED
    BY <2>1, <2>2, <2>3, <2>4
<1>5. CASE pc = "append" /\ carry # <<>> /\ Top = Len(node) /\ node' = Ensured
  <2> DEFINE n == Len(node)
             m == Len(node')
             c == Len(carry)
  <2>1. /\ m \in Nat /\ n + 1 <= m /\ m <= n + 1 /\ \A l \in 1..n : node'[l] = node[l]
        /\ \A l \in 1..m : l \in 1..n \/ node'[l] = NewNode
    BY <1>5, EnsuredIs DEF Shape
  <2>2. c \in Nat \ {0} /\ n = base + c - 1
    BY <1>5, CarryIs DEF Shape, Top
  <2>3. ASSUME NEW i \in 1..(c - 1)
        PROVE  Full(node[base + i], carry[i].size) /\ (base + i > 1 => carry[i].size = PtrSize)
    <3>1. i \in 1..c /\ i < c
      BY <2>2
    <3>2. ~CanAppend(node[base + i], carry[i]) /\ (base + i > 1 => carry[i].size = PtrSize)
      BY <3>1 DEF Carries
    <3>3. QED
      BY <3>2, FullIs
  <2>4. n \in Nat
    BY <1>2
  <2> HIDE DEF n, m, c
  <2>5. m = n + 1
    BY <2>1, <2>4
  <2> SUFFICES ASSUME m >= 2 PROVE node'[m].entries = <<>> /\ Blocked'
    BY DEF TopIsShared, m
  <2>6. node'[m].entries = <<>>
    <3>1. m \in 1..m /\ m \notin 1..n
      BY <2>4, <2>5
    <3>2. QED
      BY <2>1, <3>1, NodesAre
  <2>7. CASE base = 0
    <3>1. 1 \in 1..(c - 1) /\ 1 \in 1..n /\ base + 1 = 1 /\ n = c - 1
      BY <2>2, <2>4, <2>5, <2>7
    <3>2. Full(node'[1], carry[1].size)
      <4>1. Full(node[base + 1], carry[1].size)
        BY <2>3, <3>1
      <4>2. QED
        BY <2>1, <3>1, <4>1
    <3>3. ASSUME NEW l \in 2..(m - 1) PROVE Full(node'[l], PtrSize)
      <4>1. l \in 1..(c - 1) /\ l \in 1..n /\ base + l > 1 /\ base + l = l
        BY <2>4, <2>5, <2>7, <3>1
      <4>2. Full(node[l], PtrSize)
        BY <2>3, <4>1
      <4>3. QED
        BY <2>1, <4>1, <4>2
    <3>4. Appending' /\ carry' # <<>> /\ Full(node'[1], carry'[1].size)
      BY <1>3, <1>5, <2>7, <3>2
    <3>5. QED
      BY <2>6, <3>3, <3>4 DEF Blocked, m
  <2>8. CASE base # 0
    <3>1. base > 0 /\ base' > 0
      BY <1>1, <1>2, <2>8
    <3>2. base \in 1..(n - 1) /\ node[base].entries # <<>>
      BY <1>5, <3>1, BaseRemains DEF n
    <3>3. /\ base \in 1..(m - 1) /\ base' <= base /\ base < m - 1 /\ node'[base].entries # <<>>
      BY <1>1, <1>2, <2>1, <2>4, <2>5, <3>2
    <3>4. ASSUME NEW l \in 1..(base - 1) PROVE node'[l].entries = <<>>
      <4>1. l \in 1..n /\ l < base
        BY <1>2, <2>4, <3>2
      <4>2. node[l].entries = <<>>
        BY <4>1 DEF Carries, n
      <4>3. QED
        BY <2>1, <4>1, <4>2
    <3>5. ASSUME NEW l \in (base + 1)..(m - 1) PROVE Full(node'[l], PtrSize)
      <4> DEFINE i == l - base
      <4>1. base \in Nat /\ base > 0
        BY <2>4, <3>2
      <4>2. l \in Nat /\ base < l /\ l <= n
        BY <2>4, <2>5, <4>1
      <4>3. c - 1 = n - base
        BY <2>2, <2>4, <4>1
      <4>4. i \in 1..(c - 1) /\ l \in 1..n /\ base + i > 1 /\ base + i = l
        BY <2>4, <4>1, <4>2, <4>3
      <4> HIDE DEF i
      <4>5. Full(node[l], PtrSize)
        BY <2>3, <4>4
      <4>6. QED
        BY <2>1, <4>4, <4>5
    <3>6. QED
      BY <2>6, <3>1, <3>3, <3>4, <3>5 DEF Blocked, m
  <2>9. QED
    BY <2>7, <2>8
<1>6. QED
  BY <1>4, <1>5 DEF CallFails

\* Every step leaves the top level two entries, or some to come.
LEMMA StepShares ==
  ASSUME BuilderInv, Carries, TopIsShared, [Next]_vars
  PROVE  TopIsShared'
<1>0. Shape /\ Stage /\ Fill /\ Chain /\ Len(node) \in Nat /\ base \in Nat
  BY DEF BuilderInv, Shape
<1>1. CASE PutEntry \/ CallFails
  BY <1>0, <1>1, PutEntryShares, CallFailsShares
<1>2. CASE \E size \in ItemSizes : CallAppend(size)
  <2>1. pc = "idle" /\ pc' = "append" /\ node' = node /\ base' = 0
    BY <1>2 DEF CallAppend, memVars
  <2>2. ~Blocked /\ Appending'
    BY <1>0, <2>1 DEF Blocked, Appending, Stage
  <2>3. QED
    BY <2>1, <2>2 DEF TopIsShared
<1>3. CASE FlushReserve
  <2>1. pc = "append" /\ pc' = "write" /\ node' = node /\ base' = base /\ carry' = carry
    BY <1>3 DEF FlushReserve, memVars
  <2>2. (Appending => Appending') /\ (Remains => Remains')
    BY <2>1 DEF Appending, Remains
  <2>3. Blocked => Blocked'
    BY <2>1, <2>2 DEF Blocked
  <2>4. QED
    BY <2>1, <2>2, <2>3 DEF TopIsShared
<1>4. CASE FlushWrite
  <2>1. /\ pc = "write" /\ pc' = "append" /\ node' = node /\ base' = base /\ Len(carry) \in Nat
        /\ Len(carry') = Len(carry) + 1 /\ \A i \in 1..Len(carry) : carry'[i] = carry[i]
    BY <1>0, <1>4, FlushesOne
  <2>2. (Appending => Appending') /\ (Remains => Remains')
    BY <2>1 DEF Appending, Remains
  <2>3. carry # <<>> => carry' # <<>> /\ carry'[1] = carry[1]
    <3>1. carry # <<>> => 1 \in 1..Len(carry)
      BY <1>0, CarryIs DEF Shape
    <3>2. Len(<<>>) = 0 /\ Len(carry') # 0
      BY <2>1
    <3>3. QED
      BY <2>1, <3>1, <3>2
  <2>4. Blocked => Blocked'
    BY <2>1, <2>2, <2>3 DEF Blocked
  <2>5. QED
    BY <2>1, <2>2, <2>4 DEF TopIsShared
<1>5. CASE CallFinish
  <2>1. pc = "idle" /\ pc' = "finish" /\ node' = node /\ base' = 1
    BY <1>5 DEF CallFinish, memVars
  <2>2. ~Blocked /\ ~Appending
    BY <1>0, <2>1 DEF Blocked, Appending, Stage
  <2>3. Remains => Remains'
    BY <1>0, <2>1 DEF Remains
  <2>4. QED
    BY <2>1, <2>2, <2>3 DEF TopIsShared
<1>6. CASE FinishLevel
  <2>1. /\ pc = "finish" /\ base < Len(node) /\ node' = node
        /\ IF node[base].entries = <<>> THEN base' = base + 1 /\ pc' = pc
           ELSE pc' = "append" /\ base' = base
    BY <1>6 DEF FinishLevel, memVars
  <2>2. ~Appending
    BY <2>1 DEF Appending
  <2>3. Remains => Remains'
    <3> SUFFICES ASSUME NEW l \in 1..(Len(node) - 1), l >= base, node[l].entries # <<>>
                 PROVE  l >= base'
      BY <2>1 DEF Remains
    <3>1. base' = base + 1 => l # base
      BY <1>0, <2>1
    <3>2. base' = base + 1 \/ base' = base
      BY <2>1
    <3>3. QED
      BY <1>0, <3>1, <3>2
  <2>4. Blocked => Blocked'
    <3> SUFFICES ASSUME Blocked PROVE Blocked'
      OBVIOUS
    <3>1. PICK b \in 1..(Len(node) - 1) :
            /\ base <= b /\ b < Len(node) - 1 /\ node[b].entries # <<>>
            /\ \A l \in 1..(b - 1) : node[l].entries = <<>>
            /\ \A l \in (b + 1)..(Len(node) - 1) : Full(node[l], PtrSize)
      BY <2>2 DEF Blocked
    <3>2. base' <= b /\ base' > 0
      <4>1. base > 0
        BY <1>0, <2>1 DEF Stage
      <4>2. base' = base + 1 => b # base
        BY <1>0, <2>1, <3>1
      <4>3. base' = base + 1 \/ base' = base
        BY <2>1
      <4>4. QED
        BY <1>0, <3>1, <4>1, <4>2, <4>3
    <3>3. QED
      BY <2>1, <3>1, <3>2 DEF Blocked
  <2>5. QED
    BY <2>1, <2>2, <2>3, <2>4 DEF TopIsShared
<1>7. CASE FinishSingle \/ RootWrite \/ Cancel \/ Overrun
  BY <1>7 DEF FinishSingle, RootWrite, Cancel, Overrun, TopIsShared
<1>8. CASE RootReserve
  <2>1. pc = "finish" /\ base >= Len(node) /\ pc' = "root" /\ node' = node /\ base' = base
    BY <1>8 DEF RootReserve, memVars
  <2>2. ~Appending /\ ~Remains /\ ~Blocked
    BY <1>0, <2>1 DEF Appending, Remains, Blocked
  <2>3. QED
    BY <2>1, <2>2 DEF TopIsShared
<1>9. CASE Retry
  <2>1. /\ pc = "failed" /\ node' = node /\ carry' = carry
        /\ IF base > 0 THEN pc' = "finish" /\ base' = 1 ELSE pc' = "append" /\ base' = base
    BY <1>9 DEF Retry, memVars, Finishing
  <2>2. CASE base > 0
    <3>1. ~Appending
      BY <1>0, <2>2 DEF Appending
    <3>2. Remains => Remains'
      BY <1>0, <2>1, <2>2 DEF Remains
    <3>3. Blocked => Blocked'
      <4> SUFFICES ASSUME Blocked PROVE Blocked'
        OBVIOUS
      <4>1. PICK b \in 1..(Len(node) - 1) :
              /\ b < Len(node) - 1 /\ node[b].entries # <<>>
              /\ \A l \in 1..(b - 1) : node[l].entries = <<>>
              /\ \A l \in (b + 1)..(Len(node) - 1) : Full(node[l], PtrSize)
        BY <3>1 DEF Blocked
      <4>2. base' <= b /\ base' > 0
        BY <2>1, <2>2
      <4>3. QED
        BY <2>1, <4>1, <4>2 DEF Blocked
    <3>4. QED
      BY <2>1, <3>1, <3>2, <3>3 DEF TopIsShared
  <2>3. CASE ~(base > 0)
    <3>1. pc' = "append" /\ base' = base
      BY <2>1, <2>3
    <3>2. (Appending => Appending') /\ (Remains => Remains')
      BY <2>1, <3>1 DEF Appending, Remains
    <3>3. Blocked => Blocked'
      BY <2>1, <2>3, <3>1, <3>2 DEF Blocked
    <3>4. QED
      BY <2>1, <3>2, <3>3 DEF TopIsShared
  <2>4. QED
    BY <2>2, <2>3
<1>10. CASE UNCHANGED vars
  <2>1. pc' = pc /\ node' = node /\ base' = base /\ carry' = carry
    BY <1>10 DEF vars
  <2>2. QED
    BY <2>1 DEF TopIsShared, Blocked, Remains, Appending
<1>11. QED
  BY <1>1, <1>2, <1>3, <1>4, <1>5, <1>6, <1>7, <1>8, <1>9, <1>10 DEF Next

(***************************************************************************)
(* The finished tree                                                       *)
(***************************************************************************)

\* ctree_builder_finish comes to the root above all other levels; what it has
\* written is the whole tree.
Rooted ==
  /\ pc = "root" => base = Len(node)
  /\ (pc = "done" /\ root.height = 0) => Len(node) <= 1
  /\ (pc = "done" /\ root.height > 0) =>
       /\ Len(disk[root.ptr].entries) >= 2
       /\ ItemsBelow[root.height - 1][disk[root.ptr].entries] = UpTo(count)

\* The root holds all items when the levels below it are empty.
LEMMA RootHoldsAll ==
  ASSUME BuilderInv, Fill', Carries, ItemsInOrder, TopIsShared, pc = "root", base = Len(node)
  PROVE  /\ Len(node[base].entries) >= 2
         /\ ItemsBelow[base - 1][node[base].entries] = UpTo(count)
<1> DEFINE f == ItemsBelow
           n == Len(node)
           C == Contents(node, f)
<1>1. Shape /\ Stage /\ Fill /\ node \in Seq(OpenNode) /\ n \in Nat /\ base >= 2 /\ base = n
  BY DEF BuilderInv, Shape, Stage
<1>2. Typed(disk) /\ Unfolds(disk, f) /\ FlattenSeq(C) = UpTo(count)
  BY <1>1, ItemsBelowIs
<1>3. Len(node[n].entries) >= 2
  <2>1. ~Appending /\ ~Remains /\ ~Blocked
    BY <1>1 DEF Appending, Remains, Blocked
  <2>2. QED
    BY <1>1, <2>1 DEF TopIsShared
<1> HIDE DEF f
<1>4. /\ C \in Seq(Seq(Nat)) /\ Len(C) = n
      /\ \A i \in 1..n : C[i] = Under(node, f, n + 1 - i)
  BY <1>1, <1>2, ContentsAre
<1> HIDE DEF C, n
<1>5. ASSUME NEW i \in 2..n PROVE C[i] = <<>>
  <2> DEFINE l == n + 1 - i
  <2>1. i \in 1..n /\ l \in 1..n /\ l < base /\ l - 1 \in Nat
    BY <1>1
  <2>2. C[i] = Under(node, f, l)
    BY <1>4, <2>1
  <2> HIDE DEF l
  <2>3. node[l].entries = <<>>
    BY <2>1 DEF Carries, n
  <2>4. f[l - 1][<<>>] = <<>>
    BY <1>2, <2>1, BelowAppends
  <2>5. QED
    BY <2>2, <2>3, <2>4 DEF Under
<1>6. FlattenSeq(C) = C[1]
  <2>1. Len(C) # 0 /\ \A i \in 2..Len(C) : C[i] = <<>>
    BY <1>1, <1>4, <1>5
  <2>2. QED
    BY <1>4, <2>1, FlattenFirst
<1>7. C[1] = f[n - 1][node[n].entries]
  <2>1. 1 \in 1..n /\ n + 1 - 1 = n
    BY <1>1
  <2>2. QED
    BY <1>4, <2>1 DEF Under
<1>8. QED
  BY <1>1, <1>2, <1>3, <1>6, <1>7 DEF f

\* ctree_builder_finish writes the root.
LEMMA RootWriteRooted ==
  ASSUME BuilderInv, BuilderInv', Carries, ItemsInOrder, TopIsShared, Rooted, RootWrite
  PROVE  Rooted'
<1> DEFINE f == ItemsBelow
           g == ItemsBelow'
           es == node[base].entries
<1>1. /\ pc = "root" /\ pc' = "done" /\ root' = [ptr |-> offs, height |-> base]
      /\ WriteNode(node[base], base - 1) /\ count' = count
  BY DEF RootWrite
<1>2. /\ Shape /\ Stage /\ Fill /\ Fill' /\ Points /\ base >= 2 /\ base \in Nat
      /\ base = Len(node) /\ node \in Seq(OpenNode) /\ Len(node) \in Nat
  BY <1>1 DEF BuilderInv, Shape, Stage, Rooted
<1>3. node[base] \in OpenNode /\ base - 1 \in Nat /\ base \in 1..Len(node) /\ base > 1
  BY <1>2
<1>4. es \in Seq(Entry)
  BY <1>3 DEF OpenNode
<1>5. Grows(disk, disk') /\ offs \in DOMAIN disk' /\ disk'[offs].entries = es
  BY <1>1, <1>2, <1>3, PendingIsFree, StoreIs DEF Writing
<1>6. EntriesPoint(disk, es, base - 1) /\ DiskPoints(disk)
  BY <1>2, <1>3 DEF Points, NodesPoint
<1>7. /\ Typed(disk) /\ Typed(disk') /\ Unfolds(disk, f) /\ Unfolds(disk', g)
  BY <1>2, ItemsBelowIs
<1>8. Len(es) >= 2 /\ f[base - 1][es] = UpTo(count)
  BY <1>1, <1>2, RootHoldsAll
<1> HIDE DEF f, g, es
<1>9. g[base - 1][es] = f[base - 1][es]
  BY <1>3, <1>4, <1>5, <1>6, <1>7, BelowStays
<1>10. root'.ptr = offs /\ root'.height = base
  BY <1>1
<1>11. g[root'.height - 1][disk'[root'.ptr].entries] = UpTo(count')
  BY <1>1, <1>5, <1>8, <1>9, <1>10
<1>12. Len(disk'[root'.ptr].entries) >= 2
  BY <1>5, <1>8, <1>10
<1>13. base # 0
  BY <1>2
<1>14. QED
  BY <1>1, <1>10, <1>11, <1>12, <1>13 DEF Rooted, g, UpTo

\* No other step touches a finished tree.
LEMMA StepRooted ==
  ASSUME BuilderInv, BuilderInv', Carries, ItemsInOrder, TopIsShared, Rooted, [Next]_vars
  PROVE  Rooted'
<1>1. CASE RootWrite
  BY <1>1, RootWriteRooted
<1>2. CASE FinishSingle
  <2>1. /\ pc = "finish" /\ base >= Len(node) /\ base = 1 /\ pc' = "done" /\ node' = node
        /\ root' = [ptr |-> 0, height |-> 0]
    BY <1>2 DEF FinishSingle
  <2>2. root'.height = 0 /\ ~(root'.height > 0) /\ Len(node) <= 1
    BY <2>1
  <2>3. QED
    BY <2>1, <2>2 DEF Rooted
<1>3. CASE RootReserve
  <2>1. /\ pc = "finish" /\ base >= Len(node) /\ base > 1 /\ pc' = "root" /\ node' = node /\ base' = base
    BY <1>3 DEF RootReserve, memVars
  <2>2. Len(node) \in Nat /\ base \in Nat /\ base <= Len(node)
    BY <2>1 DEF BuilderInv, Shape, Stage
  <2>3. base = Len(node)
    BY <2>1, <2>2
  <2>4. QED
    BY <2>1, <2>3 DEF Rooted
<1>4. CASE \/ \E size \in ItemSizes : CallAppend(size)
           \/ FlushReserve \/ FlushWrite \/ PutEntry \/ CallFinish \/ FinishLevel \/ CallFails
           \/ Retry \/ Cancel \/ Overrun
  <2>1. pc' # "root" /\ pc' # "done"
    BY <1>4 DEF CallAppend, FlushReserve, FlushWrite, PutEntry, CallFinish, FinishLevel, CallFails,
                Retry, Cancel, Overrun
  <2>2. QED
    BY <2>1 DEF Rooted
<1>5. CASE UNCHANGED vars
  <2>1. node' = node /\ disk' = disk /\ root' = root /\ pc' = pc /\ base' = base /\ count' = count
    BY <1>5 DEF vars
  <2>2. ASSUME pc = "done", root.height > 0
        PROVE  ItemsBelow'[root.height - 1][disk[root.ptr].entries]
                 = ItemsBelow[root.height - 1][disk[root.ptr].entries]
    <3> DEFINE f == ItemsBelow
               g == ItemsBelow'
               es == disk[root.ptr].entries
               h == root.height - 1
    <3>1. /\ root.ptr \in DOMAIN disk /\ disk[root.ptr].level = h /\ h \in Nat
      BY <2>2 DEF BuilderInv, Chain, Shape
    <3>2. disk[root.ptr] \in Stored /\ DiskPoints(disk)
      BY <3>1 DEF BuilderInv, Fill, Points
    <3>3. es \in Seq(Entry)
      BY <3>2 DEF Stored
    <3>4. h > 0 => EntriesPoint(disk, es, h)
      BY <3>1, <3>2 DEF DiskPoints
    <3>5. Grows(disk, disk')
      BY <2>1 DEF Grows
    <3>6. Typed(disk) /\ Typed(disk') /\ Unfolds(disk, f) /\ Unfolds(disk', g)
      BY ItemsBelowIs DEF BuilderInv
    <3> HIDE DEF f, g, es, h
    <3>7. g[h][es] = f[h][es]
      BY <3>1, <3>2, <3>3, <3>4, <3>5, <3>6, BelowStays
    <3>8. QED
      BY <3>7 DEF f, g, es, h
  <2>3. (pc = "done" /\ root.height > 0) =>
          ItemsBelow'[root.height - 1][disk[root.ptr].entries] = UpTo(count)
    BY <2>2 DEF Rooted
  <2> DEFINE g == ItemsBelow'
  <2>4. (pc' = "done" /\ root'.height > 0) => g[root'.height - 1][disk'[root'.ptr].entries] = UpTo(count')
    BY <2>1, <2>3
  <2> HIDE DEF g
  <2>5. (pc' = "done" /\ root'.height > 0) => Len(disk'[root'.ptr].entries) >= 2
    BY <2>1 DEF Rooted
  <2>6. (pc' = "root" => base' = Len(node')) /\ ((pc' = "done" /\ root'.height = 0) => Len(node') <= 1)
    BY <2>1 DEF Rooted
  <2>7. QED
    BY <2>4, <2>5, <2>6 DEF Rooted, g, UpTo
<1>6. QED
  BY <1>1, <1>2, <1>3, <1>4, <1>5 DEF Next

(***************************************************************************)
(* What the tree holds                                                     *)
(***************************************************************************)

OrderInv == BuilderInv /\ Carries /\ ItemsInOrder /\ LeafAlone /\ TopIsShared /\ Rooted

\* ctree_builder_setup
LEMMA OrderInvStarts == Init => OrderInv
<1> SUFFICES ASSUME Init PROVE OrderInv
  OBVIOUS
<1>1. Len(node) = 0 /\ disk = <<>> /\ pc = "idle"
  BY DEF Init
<1>2. LeafAlone /\ TopIsShared /\ Rooted
  BY <1>1 DEF LeafAlone, TopIsShared, Rooted
<1>3. QED
  BY <1>2, BuilderInvStarts, InOrderStarts DEF OrderInv

\* A step of any call.
LEMMA OrderInvStays ==
  ASSUME OrderInv, [Next]_vars
  PROVE  OrderInv'
<1>1. /\ BuilderInv /\ Carries /\ ItemsInOrder /\ LeafAlone /\ TopIsShared /\ Rooted
      /\ Shape /\ Stage /\ Fill
  BY DEF OrderInv, BuilderInv
<1>2. BuilderInv'
  BY <1>1, BuilderInvStays
<1>3. Carries'
  BY <1>1, StepCarries
<1>4. ItemsInOrder'
  BY <1>1, <1>2, StepInOrder
<1>5. LeafAlone'
  BY <1>1, <1>3, StepAlone
<1>6. TopIsShared'
  BY <1>1, StepShares
<1>7. Rooted'
  BY <1>1, <1>2, StepRooted
<1>8. QED
  BY <1>2, <1>3, <1>4, <1>5, <1>6, <1>7 DEF OrderInv

\* __ctree_builder_append and ctree_builder_flush: what an entry on its way up
\* stands for is still in the open node below, and of the top two levels one
\* has the entries that the root will have.
THEOREM OrderInvHolds == Spec => []OrderInv
BY OrderInvStarts, OrderInvStays, PTL DEF Spec

\* ctree_builder_append: the open nodes hold every item appended so far, once
\* and in order, whatever has been flushed and whichever calls have failed.
THEOREM ItemsInOrderHolds == Spec => []ItemsInOrder
<1>1. OrderInv => ItemsInOrder
  BY DEF OrderInv
<1>2. QED
  BY <1>1, OrderInvHolds, PTL

\* ctree_builder_finish: the tree under builder->ptr holds every item, its root
\* has two entries or more, and it is empty only if nothing was ever flushed.
THEOREM FinishedTreeIsCompleteHolds == Spec => []FinishedTreeIsComplete
<1>1. OrderInv => FinishedTreeIsComplete
  <2> SUFFICES ASSUME OrderInv, pc = "done"
               PROVE  IF root.height = 0 THEN Len(node) <= 1 /\ disk = <<>>
                      ELSE /\ root.height = disk[root.ptr].level + 1
                           /\ Len(disk[root.ptr].entries) >= 2
                           /\ ItemsBelow[root.height - 1][disk[root.ptr].entries] = UpTo(count)
    BY DEF FinishedTreeIsComplete
  <2>1. Chain /\ LeafAlone /\ Rooted /\ root.height \in Nat
    BY DEF OrderInv, BuilderInv, Shape
  <2>2. CASE root.height = 0
    BY <2>1, <2>2 DEF Rooted, LeafAlone, Appending
  <2>3. CASE root.height # 0
    <3>1. root.height > 0
      BY <2>1, <2>3
    <3>2. disk[root.ptr].level = root.height - 1
      BY <2>1, <3>1 DEF Chain
    <3>3. root.height = disk[root.ptr].level + 1
      BY <2>1, <3>2
    <3>4. QED
      BY <2>1, <2>3, <3>1, <3>3 DEF Rooted
  <2>4. QED
    BY <2>2, <2>3
<1>2. QED
  BY <1>1, OrderInvHolds, PTL

(***************************************************************************)
(* The iterator                                                            *)
(***************************************************************************)

(***************************************************************************)
(* The items of a node                                                     *)
(***************************************************************************)

\* The items below the node o of the nodes d, the first and the last of them.
ItemsOf(d, f, o) == f[d[o].level][d[o].entries]
FirstOf(d, o) == d[o].entries[1].key
LastOf(d, f, o) == FirstOf(d, o) + Len(ItemsOf(d, f, o)) - 1

\* There are as many items as entries or more, and the first is the first key.
Starts(d, f, o) ==
  /\ ItemsOf(d, f, o) \in Seq(Nat) /\ Len(ItemsOf(d, f, o)) >= Len(d[o].entries)
  /\ ItemsOf(d, f, o)[1] = FirstOf(d, o)

\* What lies below the entries of a node one level up, entry by entry.
Children(d, f, o, l) ==
  LET es == d[o].entries
      F == Parts(d, f[l], es)
  IN  /\ F \in Seq(Seq(Nat)) /\ Len(F) = Len(es) /\ Len(es) \in Nat \ {0}
      /\ ItemsOf(d, f, o) = FlattenSeq(F)
      /\ \A i \in 1..Len(es) :
           /\ es[i].ptr \in DOMAIN d /\ d[es[i].ptr].level = l
           /\ d[es[i].ptr].entries # <<>> /\ FirstOf(d, es[i].ptr) = es[i].key
           /\ F[i] = ItemsOf(d, f, es[i].ptr)

\* Nodes of the right level, whose first keys are those of the entries.
LEMMA ChildrenAre ==
  ASSUME NEW d, NEW f, Typed(d), Unfolds(d, f), DiskPoints(d), NEW o \in DOMAIN d,
         NEW l \in Nat, d[o].level = l + 1, d[o].entries # <<>>
  PROVE  Children(d, f, o, l)
<1> DEFINE es == d[o].entries
           F == Parts(d, f[l], es)
<1>1. es \in Seq(Entry) /\ es # <<>> /\ Len(es) \in Nat \ {0}
  <2>1. es \in Seq(Entry) /\ es # <<>>
    BY DEF Typed
  <2>2. \A s \in Seq(Entry) : s # <<>> => Len(s) \in Nat \ {0}
    BY EmptySeq
  <2>3. QED
    BY <2>1, <2>2
<1>2. EntriesPoint(d, es, l + 1)
  <2>1. d[o].level > 0
    OBVIOUS
  <2>2. QED
    BY <2>1 DEF DiskPoints
<1>3. \A s \in Seq(Entry) : f[l][s] \in Seq(Nat)
  BY BelowTyped
<1> HIDE DEF es
<1>4. F \in Seq(Seq(Nat)) /\ Len(F) = Len(es)
  BY <1>1, <1>3, PartsAre
<1>5. ItemsOf(d, f, o) = FlattenSeq(F)
  <2>1. \A s \in Seq(Entry) : f[l + 1][s] = FlattenSeq(Parts(d, f[l], s))
    BY BelowUnfolds
  <2>2. f[l + 1][es] = FlattenSeq(F)
    BY <1>1, <2>1
  <2>3. QED
    BY <2>2 DEF ItemsOf, es
<1>6. ASSUME NEW i \in 1..Len(es)
      PROVE  /\ es[i].ptr \in DOMAIN d /\ d[es[i].ptr].level = l
             /\ d[es[i].ptr].entries # <<>> /\ FirstOf(d, es[i].ptr) = es[i].key
             /\ F[i] = ItemsOf(d, f, es[i].ptr)
  <2>1. PointsDown(d, es[i], l + 1)
    BY <1>2 DEF EntriesPoint
  <2> DEFINE p == es[i].ptr
  <2> HIDE DEF p
  <2>2. p \in DOMAIN d /\ d[p].level = (l + 1) - 1 /\ d[p].entries # <<>> /\ Head(d[p].entries).key = es[i].key
    BY <2>1 DEF PointsDown, p
  <2>3. d[p].level = l
    BY <2>2
  <2>4. FirstOf(d, p) = es[i].key
    BY <2>2 DEF FirstOf
  <2>5. F[i] = ItemsOf(d, f, p)
    <3>1. DOMAIN es = 1..Len(es)
      BY <1>1
    <3>2. F[i] = f[l][d[p].entries]
      BY <2>2, <3>1 DEF Parts, p
    <3>3. QED
      BY <2>3, <3>2 DEF ItemsOf
  <2>6. QED
    BY <2>2, <2>3, <2>4, <2>5 DEF p
<1>7. QED
  BY <1>1, <1>4, <1>5, <1>6 DEF Children, es

\* An entry names a node by its first key, so the first key of any node is its
\* first item.
LEMMA ItemsStart ==
  ASSUME NEW d, NEW f, Typed(d), Unfolds(d, f), DiskPoints(d)
  PROVE  \A o \in DOMAIN d : d[o].entries # <<>> => Starts(d, f, o)
<1> DEFINE S == {l \in Nat : \A o \in DOMAIN d :
                               d[o].level = l /\ d[o].entries # <<>> => Starts(d, f, o)}
<1>1. 0 \in S
  <2> SUFFICES ASSUME NEW o \in DOMAIN d, d[o].level = 0, d[o].entries # <<>>
               PROVE  Starts(d, f, o)
    OBVIOUS
  <2> DEFINE es == d[o].entries
  <2>1. es \in Seq(Entry) /\ es # <<>> /\ Len(es) \in Nat \ {0}
    <3>1. es \in Seq(Entry) /\ es # <<>>
      BY DEF Typed
    <3>2. \A s \in Seq(Entry) : s # <<>> => Len(s) \in Nat \ {0}
      BY EmptySeq
    <3>3. QED
      BY <3>1, <3>2
  <2> HIDE DEF es
  <2>2. ItemsOf(d, f, o) = Keys(es)
    <3>1. f[0][es] = Keys(es)
      BY <2>1, BelowUnfolds
    <3>2. QED
      BY <3>1 DEF ItemsOf, es
  <2>3. Keys(es) \in Seq(Nat) /\ Len(Keys(es)) = Len(es)
    <3>1. \A s \in Seq(Entry) : f[0][s] \in Seq(Nat)
      BY BelowTyped
    <3>2. QED
      BY <2>1, <3>1, PartsAre
  <2>4. Keys(es)[1] = es[1].key
    <3>1. 1 \in DOMAIN es
      BY <2>1
    <3>2. QED
      BY <3>1 DEF Keys
  <2>5. Len(es) >= Len(es)
    BY <2>1
  <2>6. QED
    BY <2>2, <2>3, <2>4, <2>5 DEF Starts, FirstOf, es
<1>2. ASSUME NEW l \in Nat, l \in S PROVE l + 1 \in S
  <2> SUFFICES ASSUME NEW o \in DOMAIN d, d[o].level = l + 1, d[o].entries # <<>>
               PROVE  Starts(d, f, o)
    OBVIOUS
  <2> DEFINE es == d[o].entries
             F == Parts(d, f[l], es)
  <2>1. /\ F \in Seq(Seq(Nat)) /\ Len(F) = Len(es) /\ Len(es) \in Nat \ {0}
        /\ ItemsOf(d, f, o) = FlattenSeq(F)
        /\ \A i \in 1..Len(es) :
             /\ es[i].ptr \in DOMAIN d /\ d[es[i].ptr].level = l
             /\ d[es[i].ptr].entries # <<>> /\ FirstOf(d, es[i].ptr) = es[i].key
             /\ F[i] = ItemsOf(d, f, es[i].ptr)
    <3>1. Children(d, f, o, l)
      BY ChildrenAre
    <3>2. QED
      BY <3>1 DEF Children
  <2> HIDE DEF F, es
  <2>2. ASSUME NEW i \in 1..Len(es) PROVE F[i] # <<>> /\ F[i][1] = es[i].key
    <3> DEFINE p == es[i].ptr
    <3>1. p \in DOMAIN d /\ d[p].level = l /\ d[p].entries # <<>>
      BY <2>1
    <3>2. Starts(d, f, p)
      BY <1>2, <3>1
    <3> HIDE DEF p
    <3>3. d[p].entries \in Seq(Entry)
      BY <3>1 DEF Typed
    <3>4. Len(d[p].entries) \in Nat \ {0}
      BY <3>1, <3>3, EmptySeq
    <3>5. Len(ItemsOf(d, f, p)) # 0 /\ ItemsOf(d, f, p) \in Seq(Nat)
      <4>1. ItemsOf(d, f, p) \in Seq(Nat) /\ Len(ItemsOf(d, f, p)) >= Len(d[p].entries)
        BY <3>2 DEF Starts
      <4>2. QED
        BY <3>4, <4>1
    <3>6. ItemsOf(d, f, p) # <<>>
      BY <3>5
    <3>7. F[i] = ItemsOf(d, f, p) /\ FirstOf(d, p) = es[i].key
      BY <2>1 DEF p
    <3>8. QED
      BY <3>2, <3>6, <3>7 DEF Starts
  <2>3. FlattenSeq(F) \in Seq(Nat) /\ FlattenSeq(F)[1] = F[1][1] /\ Len(FlattenSeq(F)) >= Len(F)
    <3>1. Len(F) # 0 /\ \A i \in 1..Len(F) : F[i] # <<>>
      BY <2>1, <2>2
    <3>2. QED
      BY <2>1, <3>1, FlattenStarts
  <2>4. 1 \in 1..Len(es)
    BY <2>1
  <2>5. F[1][1] = es[1].key
    BY <2>2, <2>4
  <2>6. QED
    BY <2>1, <2>3, <2>5 DEF Starts, FirstOf, es
<1> HIDE DEF S
<1>3. \A l \in Nat : l \in S
  BY <1>1, <1>2, NaturalsIn
<1>4. QED
  <2> TAKE o \in DOMAIN d
  <2>1. d[o].level \in Nat
    BY DEF DiskPoints, Stored
  <2>2. d[o].level \in S
    BY <1>3, <2>1
  <2>3. QED
    BY <2>2 DEF S

\* The items of o are consecutive, those of a leaf are its keys.
LeafSpans(d, f, o) ==
  /\ Len(ItemsOf(d, f, o)) = Len(d[o].entries)
  /\ \A i \in 1..Len(d[o].entries) : d[o].entries[i].key = FirstOf(d, o) + i - 1

\* The node p, under the entry i of o, has its part of the items of o.
ChildSpans(d, f, o, i, p) ==
  /\ Spans(ItemsOf(d, f, p), FirstOf(d, p)) /\ FirstOf(d, p) = d[o].entries[i].key
  /\ LastOf(d, f, p) <= LastOf(d, f, o)
  /\ i = Len(d[o].entries) => LastOf(d, f, p) = LastOf(d, f, o)
  /\ i < Len(d[o].entries) => d[o].entries[i + 1].key = LastOf(d, f, p) + 1

\* Consecutive items of a node are shared out among the nodes below.
LEMMA SpansShared ==
  ASSUME NEW d, NEW f, Typed(d), Unfolds(d, f), DiskPoints(d), NEW o \in DOMAIN d,
         d[o].entries # <<>>, Spans(ItemsOf(d, f, o), FirstOf(d, o))
  PROVE  /\ d[o].level = 0 => LeafSpans(d, f, o)
         /\ d[o].level > 0 => \A i \in 1..Len(d[o].entries) :
              ChildSpans(d, f, o, i, d[o].entries[i].ptr)
<1> DEFINE es == d[o].entries
<1>1. /\ es \in Seq(Entry) /\ es # <<>> /\ Len(es) \in Nat \ {0} /\ d[o].level \in Nat
      /\ FirstOf(d, o) \in Nat /\ es[1].key = FirstOf(d, o)
  <2>1. es \in Seq(Entry) /\ es # <<>> /\ d[o].level \in Nat
    BY DEF Typed, DiskPoints, Stored
  <2>2. \A s \in Seq(Entry) : s # <<>> => Len(s) \in Nat \ {0} /\ s[1] \in Entry
    BY EmptySeq
  <2>3. es[1].key = FirstOf(d, o)
    BY DEF FirstOf
  <2> HIDE DEF es
  <2>4. es[1].key \in Nat
    <3>1. es[1] \in Entry /\ MaxItems \in Nat
      BY <2>1, <2>2, ConstantsAre
    <3>2. es[1].key \in 1..MaxItems
      BY <3>1 DEF Entry
    <3>3. QED
      BY <3>1, <3>2
  <2>5. QED
    BY <2>1, <2>2, <2>3, <2>4
<1>2. CASE d[o].level = 0
  <2> HIDE DEF es
  <2>1. ItemsOf(d, f, o) = Keys(es)
    <3>1. f[0][es] = Keys(es)
      BY <1>1, BelowUnfolds
    <3>2. QED
      BY <1>2, <3>1 DEF ItemsOf, es
  <2>2. Len(Keys(es)) = Len(es) /\ \A i \in 1..Len(es) : Keys(es)[i] = es[i].key
    <3>1. \A s \in Seq(Entry) : f[0][s] \in Seq(Nat)
      BY BelowTyped
    <3>2. Len(Keys(es)) = Len(es)
      BY <1>1, <3>1, PartsAre
    <3>3. DOMAIN es = 1..Len(es)
      BY <1>1
    <3>4. QED
      BY <3>2, <3>3 DEF Keys
  <2>3. \A i \in 1..Len(es) : es[i].key = FirstOf(d, o) + i - 1
    BY <2>1, <2>2 DEF Spans
  <2>4. LeafSpans(d, f, o)
    BY <2>1, <2>2, <2>3 DEF LeafSpans, es
  <2>5. QED
    BY <1>2, <2>4
<1>3. CASE d[o].level > 0
  <2> DEFINE l == d[o].level - 1
             F == Parts(d, f[l], es)
             n == Len(es)
  <2>1. l \in Nat /\ d[o].level = l + 1
    BY <1>1, <1>3
  <2> HIDE DEF l
  <2>2. /\ F \in Seq(Seq(Nat)) /\ Len(F) = n /\ n \in Nat \ {0}
        /\ ItemsOf(d, f, o) = FlattenSeq(F)
        /\ \A i \in 1..n :
             /\ es[i].ptr \in DOMAIN d /\ d[es[i].ptr].level = l
             /\ d[es[i].ptr].entries # <<>> /\ FirstOf(d, es[i].ptr) = es[i].key
             /\ F[i] = ItemsOf(d, f, es[i].ptr)
    <3>1. Children(d, f, o, l)
      BY <2>1, ChildrenAre
    <3>2. QED
      BY <3>1 DEF Children
  <2> HIDE DEF F, es, n
  <2> DEFINE a == FirstOf(d, o)
             T == FlattenSeq(F)
  <2>3. PICK c \in [1..(n + 1) -> Nat] :
           /\ c[1] = a /\ c[n + 1] = a + Len(T)
           /\ \A i \in 1..n : Spans(F[i], c[i]) /\ c[i + 1] = c[i] + Len(F[i])
    <3>1. Len(F) # 0 /\ a \in Nat /\ Spans(FlattenSeq(F), a)
      BY <1>1, <2>2
    <3>2. QED
      BY <2>2, <3>1, FlattenSpans
  <2>4. ASSUME NEW i \in 1..n
        PROVE  /\ F[i] = ItemsOf(d, f, es[i].ptr) /\ Len(F[i]) \in Nat \ {0}
               /\ c[i] = es[i].key /\ FirstOf(d, es[i].ptr) = c[i]
    <3> DEFINE p == es[i].ptr
    <3>1. p \in DOMAIN d /\ d[p].entries # <<>> /\ FirstOf(d, p) = es[i].key /\ F[i] = ItemsOf(d, f, p)
      BY <2>2
    <3> HIDE DEF p
    <3>2. Starts(d, f, p)
      BY <3>1, ItemsStart
    <3>3. d[p].entries \in Seq(Entry)
      BY <3>1 DEF Typed
    <3>4. Len(d[p].entries) \in Nat \ {0}
      BY <3>1, <3>3, EmptySeq
    <3> DEFINE m == Len(F[i])
    <3>5. m \in Nat /\ m >= Len(d[p].entries) /\ F[i][1] = es[i].key
      <4>1. F[i] \in Seq(Nat) /\ Len(F[i]) >= Len(d[p].entries) /\ F[i][1] = FirstOf(d, p)
        BY <3>1, <3>2 DEF Starts
      <4>2. QED
        BY <3>1, <4>1
    <3>6. m \in Nat \ {0} /\ 1 \in 1..m
      <4> HIDE DEF m
      <4>1. QED
        BY <3>4, <3>5
    <3>7. F[i][1] = c[i] + 1 - 1
      BY <2>3, <3>6 DEF Spans
    <3>8. c[i] \in Nat
      <4>1. i \in 1..(n + 1)
        BY <2>2
      <4>2. QED
        BY <2>3, <4>1
    <3>9. c[i] = es[i].key
      BY <3>5, <3>7, <3>8
    <3>10. QED
      BY <3>1, <3>6, <3>9 DEF p
  <2>5. LastOf(d, f, o) = c[n + 1] - 1
    <3>1. LastOf(d, f, o) = a + Len(T) - 1
      BY <2>2 DEF LastOf
    <3>2. T \in Seq(Nat)
      BY <2>2, FlattenTyped
    <3> DEFINE x == Len(T)
    <3>3. x \in Nat /\ a \in Nat /\ c[n + 1] = a + x /\ LastOf(d, f, o) = a + x - 1
      BY <1>1, <2>3, <3>1, <3>2
    <3> HIDE DEF a, x, T
    <3>4. QED
      BY <3>3
  <2>6. ASSUME NEW i \in 1..n PROVE LastOf(d, f, es[i].ptr) = c[i + 1] - 1
    <3>1. LastOf(d, f, es[i].ptr) = c[i] + Len(F[i]) - 1
      BY <2>4 DEF LastOf
    <3>2. c[i + 1] = c[i] + Len(F[i])
      BY <2>3
    <3> DEFINE x == Len(F[i])
    <3>3. x \in Nat /\ c[i] \in Nat /\ c[i + 1] = c[i] + x /\ LastOf(d, f, es[i].ptr) = c[i] + x - 1
      <4>1. i \in 1..(n + 1)
        BY <2>2
      <4>2. QED
        BY <2>3, <2>4, <3>1, <3>2, <4>1
    <3> HIDE DEF x
    <3>4. QED
      BY <3>3
  <2>7. \A i \in 1..(n + 1) : c[i] \in Nat
    BY <2>3
  <2>8. \A i \in 1..n : c[i + 1] <= c[n + 1]
    <3> DEFINE S == {k \in Nat : k < n => c[n + 1 - k] <= c[n + 1]}
    <3>1. 0 \in S
      <4>1. n + 1 - 0 = n + 1 /\ n + 1 \in 1..(n + 1)
        BY <2>2
      <4>2. c[n + 1] \in Nat
        BY <2>7, <4>1
      <4>3. QED
        BY <4>1, <4>2
    <3>2. ASSUME NEW k \in Nat, k \in S PROVE k + 1 \in S
      <4> DEFINE j == n + 1 - (k + 1)
      <4> SUFFICES ASSUME k + 1 < n PROVE c[j] <= c[n + 1]
        OBVIOUS
      <4>1. j \in 1..n /\ j + 1 = n + 1 - k /\ k < n /\ j + 1 \in 1..(n + 1) /\ n + 1 \in 1..(n + 1)
            /\ j \in 1..(n + 1)
        BY <2>2
      <4>2. c[j + 1] <= c[n + 1]
        BY <3>2, <4>1
      <4> HIDE DEF j, S
      <4>3. c[j + 1] = c[j] + Len(F[j]) /\ Len(F[j]) \in Nat
        BY <2>3, <2>4, <4>1
      <4>4. c[j] \in Nat /\ c[n + 1] \in Nat
        BY <2>7, <4>1
      <4>5. QED
        BY <4>2, <4>3, <4>4
    <3> HIDE DEF S
    <3>3. \A k \in Nat : k \in S
      BY <3>1, <3>2, NaturalsIn
    <3>4. TAKE i \in 1..n
    <3>5. n - i \in Nat /\ n - i < n /\ n + 1 - (n - i) = i + 1
      BY <2>2
    <3>6. n - i \in S
      BY <3>3, <3>5
    <3>7. QED
      BY <3>5, <3>6 DEF S
  <2>9. ASSUME NEW i \in 1..n PROVE ChildSpans(d, f, o, i, es[i].ptr)
    <3> DEFINE p == es[i].ptr
    <3>1. Spans(ItemsOf(d, f, p), FirstOf(d, p)) /\ FirstOf(d, p) = es[i].key
      BY <2>3, <2>4
    <3>2. LastOf(d, f, p) = c[i + 1] - 1
      BY <2>6
    <3>3. i + 1 \in 1..(n + 1) /\ n + 1 \in 1..(n + 1)
      BY <2>2
    <3>4. c[i + 1] \in Nat /\ c[n + 1] \in Nat /\ c[i + 1] <= c[n + 1]
      BY <2>7, <2>8, <3>3
    <3> HIDE DEF p
    <3>5. LastOf(d, f, p) <= LastOf(d, f, o)
      BY <2>5, <3>2, <3>4
    <3>6. i = n => LastOf(d, f, p) = LastOf(d, f, o)
      BY <2>5, <3>2
    <3>7. i < n => es[i + 1].key = LastOf(d, f, p) + 1
      <4> SUFFICES ASSUME i < n PROVE es[i + 1].key = LastOf(d, f, p) + 1
        OBVIOUS
      <4>1. i + 1 \in 1..n
        BY <2>2
      <4>2. c[i + 1] = es[i + 1].key
        BY <2>4, <4>1
      <4>3. QED
        BY <3>2, <3>4, <4>2
    <3>8. QED
      BY <3>1, <3>5, <3>6, <3>7 DEF ChildSpans, p, es, n
  <2>10. QED
    BY <1>3, <2>9 DEF es, n
<1>4. QED
  BY <1>1, <1>2, <1>3

(***************************************************************************)
(* The finished tree                                                       *)
(***************************************************************************)

\* The first and the last item below a node, and the nodes whose items are
\* consecutive.
FirstItem(o) == FirstOf(disk, o)
LastItem(o) == LastOf(disk, ItemsBelow, o)
InTree(o) ==
  /\ o \in DOMAIN disk /\ Entries(o) # <<>> /\ LastItem(o) <= count
  /\ Spans(ItemsOf(disk, ItemsBelow, o), FirstItem(o))

\* A leaf holds its items; the entries of any other node share them out, in
\* order, and each names the first item of its part.
Shares(o) ==
  /\ FirstItem(o) \in Nat \ {0} /\ LastItem(o) \in Nat /\ FirstItem(o) <= LastItem(o)
  /\ Len(Entries(o)) \in 1..MaxItems /\ Entries(o)[1].key = FirstItem(o)
  /\ disk[o].level = 0 =>
       /\ Len(Entries(o)) = LastItem(o) - FirstItem(o) + 1
       /\ \A i \in 1..Len(Entries(o)) : Entries(o)[i].key = FirstItem(o) + i - 1
  /\ disk[o].level > 0 =>
       \A i \in 1..Len(Entries(o)) :
         /\ InTree(Entries(o)[i].ptr) /\ FirstItem(Entries(o)[i].ptr) = Entries(o)[i].key
         /\ i = Len(Entries(o)) => LastItem(Entries(o)[i].ptr) = LastItem(o)
         /\ i < Len(Entries(o)) => Entries(o)[i + 1].key = LastItem(Entries(o)[i].ptr) + 1

\* What the iterator uses of the tree the builder has left: there is a root,
\* every entry of an inner node leads to a node one level down with something
\* in it, and the items below the root are shared out among the nodes.
Tree ==
  /\ root.height \in Nat /\ count \in 0..MaxItems /\ MaxItems \in Nat
  /\ \A o \in DOMAIN disk : o \in Nat /\ o # Released /\ Entries(o) \in Seq(Entry)
  /\ \A o \in DOMAIN disk : disk[o].level > 0 =>
       \A i \in 1..Len(Entries(o)) :
         /\ Entries(o)[i].ptr \in DOMAIN disk
         /\ disk[Entries(o)[i].ptr].level = disk[o].level - 1
         /\ Entries(Entries(o)[i].ptr) # <<>>
  /\ \A o : InTree(o) => Shares(o) /\ LastItem(o) <= count
  /\ root.height > 0 => /\ root.ptr \in DOMAIN disk /\ disk[root.ptr].level = root.height - 1
                        /\ Entries(root.ptr) # <<>> /\ InTree(root.ptr)
                        /\ FirstItem(root.ptr) = 1 /\ LastItem(root.ptr) = count

\* The items of any node with something in it.
LEMMA ItemsAre ==
  ASSUME BuilderInv
  PROVE  /\ Typed(disk) /\ Unfolds(disk, ItemsBelow) /\ DiskPoints(disk)
         /\ \A o \in DOMAIN disk : Entries(o) # <<>> => Starts(disk, ItemsBelow, o)
<1> DEFINE f == ItemsBelow
<1>1. Typed(disk) /\ DiskPoints(disk)
  BY DEF BuilderInv, Fill, Stored, Typed, Points
<1>2. Unfolds(disk, f)
  BY ItemsBelowUnfolds
<1> HIDE DEF f
<1>3. \A o \in DOMAIN disk : Entries(o) # <<>> => Starts(disk, f, o)
  BY <1>1, <1>2, ItemsStart DEF Entries
<1>4. QED
  BY <1>1, <1>2, <1>3 DEF f

\* Consecutive items are shared out.
LEMMA SharesAre ==
  ASSUME BuilderInv, NEW o, InTree(o)
  PROVE  Shares(o)
<1> DEFINE f == ItemsBelow
           es == Entries(o)
           s == ItemsOf(disk, f, o)
           n == Len(es)
           m == Len(s)
           a == FirstItem(o)
           b == LastItem(o)
<1>1. /\ Typed(disk) /\ Unfolds(disk, f) /\ DiskPoints(disk) /\ o \in DOMAIN disk /\ es # <<>>
      /\ Starts(disk, f, o)
  BY ItemsAre DEF InTree
<1>2. MaxItems \in Nat /\ count \in 0..MaxItems
  BY ConstantsAre DEF BuilderInv, Shape
<1>3. es \in Seq(Entry) /\ disk[o].entries = es
  BY <1>1 DEF Typed, Entries
<1>4. n \in Nat \ {0} /\ es[1] \in Entry
  <2> HIDE DEF es
  <2>1. QED
    BY <1>1, <1>3, EmptySeq DEF es
<1>5. a = es[1].key
  BY <1>3 DEF FirstItem, FirstOf
<1>6. b = a + m - 1
  BY DEF LastItem, FirstItem, LastOf
<1>7. m >= n /\ m \in Nat
  <2>1. s \in Seq(Nat) /\ Len(s) >= Len(disk[o].entries)
    BY <1>1 DEF Starts
  <2>2. QED
    BY <1>3, <2>1
<1>8. b <= count /\ Spans(s, a)
  BY DEF InTree
<1>9. /\ disk[o].level = 0 => LeafSpans(disk, f, o)
      /\ disk[o].level > 0 => \A i \in 1..Len(disk[o].entries) :
           ChildSpans(disk, f, o, i, disk[o].entries[i].ptr)
  <2> HIDE DEF f
  <2>1. Spans(ItemsOf(disk, f, o), FirstOf(disk, o)) /\ disk[o].entries # <<>>
    BY <1>1, <1>3, <1>8 DEF FirstItem
  <2>2. QED
    BY <1>1, <2>1, SpansShared
<1> HIDE DEF f, es, s, m, n, a, b
<1>10. a \in Nat \ {0} /\ b \in Nat /\ a <= b /\ n \in 1..MaxItems
  <2>1. es[1].key \in 1..MaxItems
    BY <1>4 DEF Entry
  <2>2. a \in Nat \ {0}
    BY <1>2, <1>5, <2>1
  <2>3. QED
    BY <1>2, <1>4, <1>6, <1>7, <1>8, <2>2
<1>11. ASSUME disk[o].level = 0
       PROVE  n = b - a + 1 /\ \A i \in 1..n : es[i].key = a + i - 1
  <2>1. m = n /\ \A i \in 1..n : es[i].key = a + i - 1
    BY <1>3, <1>9, <1>11 DEF LeafSpans, FirstItem, a, m, n, s
  <2>2. QED
    BY <1>4, <1>6, <1>7, <1>10, <2>1
<1>12. ASSUME disk[o].level > 0, NEW i \in 1..n
       PROVE  /\ InTree(es[i].ptr) /\ FirstItem(es[i].ptr) = es[i].key
              /\ i = n => LastItem(es[i].ptr) = b
              /\ i < n => es[i + 1].key = LastItem(es[i].ptr) + 1
  <2> DEFINE p == es[i].ptr
  <2>1. ChildSpans(disk, f, o, i, p)
    BY <1>3, <1>9, <1>12 DEF n
  <2>2. /\ Spans(ItemsOf(disk, f, p), FirstOf(disk, p)) /\ FirstItem(p) = es[i].key
        /\ LastItem(p) <= b /\ (i = n => LastItem(p) = b)
        /\ i < n => es[i + 1].key = LastItem(p) + 1
    BY <1>3, <2>1 DEF ChildSpans, FirstItem, LastItem, f, b, n
  <2>3. Children(disk, f, o, disk[o].level - 1)
    <3>1. disk[o].level \in Nat
      BY <1>1 DEF DiskPoints, Stored
    <3>2. disk[o].level - 1 \in Nat /\ disk[o].level = (disk[o].level - 1) + 1
      BY <1>12, <3>1
    <3>3. QED
      BY <1>1, <1>3, <3>2, ChildrenAre
  <2>4. p \in DOMAIN disk /\ Entries(p) # <<>>
    BY <1>3, <2>3 DEF Children, n, Entries
  <2>5. i \in Nat /\ LastItem(p) <= count
    <3>1. LastItem(p) \in Int
      <4>1. Starts(disk, f, p) /\ disk[p].entries \in Seq(Entry) /\ disk[p].entries # <<>>
        BY <2>4, ItemsAre DEF f, Typed, Entries
      <4>2. Len(ItemsOf(disk, f, p)) \in Nat
        BY <4>1 DEF Starts
      <4>3. disk[p].entries[1] \in Entry
        BY <4>1, EmptySeq
      <4>4. FirstOf(disk, p) \in Nat
        <5>1. FirstOf(disk, p) \in 1..MaxItems
          BY <4>3 DEF FirstOf, Entry
        <5>2. QED
          BY <1>2, <5>1
      <4>5. LastItem(p) = FirstOf(disk, p) + Len(ItemsOf(disk, f, p)) - 1
        BY DEF LastItem, LastOf, f
      <4>6. QED
        BY <4>2, <4>4, <4>5
    <3>2. QED
      BY <1>2, <1>4, <1>8, <1>10, <2>2, <3>1
  <2>6. InTree(p)
    BY <2>2, <2>4, <2>5 DEF InTree, FirstItem, f
  <2>7. QED
    BY <2>2, <2>6
<1>13. QED
  BY <1>5, <1>10, <1>11, <1>12 DEF Shares, a, b, n, es

\* The root has all the items.
LEMMA RootIs ==
  ASSUME OrderInv, pc = "done", root.height > 0
  PROVE  /\ root.ptr \in DOMAIN disk /\ disk[root.ptr].level = root.height - 1
         /\ Entries(root.ptr) # <<>> /\ InTree(root.ptr)
         /\ FirstItem(root.ptr) = 1 /\ LastItem(root.ptr) = count
<1> DEFINE f == ItemsBelow
           o == root.ptr
           s == ItemsOf(disk, f, o)
<1>1. BuilderInv /\ Rooted /\ count \in Nat
  <2>1. BuilderInv /\ Rooted
    BY DEF OrderInv
  <2>2. count \in 0..MaxItems /\ MaxItems \in Nat
    BY <2>1, ConstantsAre DEF BuilderInv, Shape
  <2>3. QED
    BY <2>1, <2>2
<1>2. o \in DOMAIN disk /\ disk[o].level = root.height - 1 /\ Entries(o) # <<>>
  BY <1>1 DEF BuilderInv, Chain, Entries
<1>3. s = UpTo(count)
  BY <1>1, <1>2 DEF Rooted, ItemsOf
<1>4. Starts(disk, f, o)
  BY <1>1, <1>2, ItemsAre
<1> HIDE DEF f, o
<1>5. Len(UpTo(count)) = count /\ \A i \in 1..count : UpTo(count)[i] = i
  BY <1>1 DEF UpTo
<1>6. Len(s) = count /\ Len(s) # 0 /\ s[1] = FirstItem(o)
  <2>1. Typed(disk) /\ disk[o].entries # <<>>
    BY <1>1, <1>2, ItemsAre DEF Entries
  <2>2. disk[o].entries \in Seq(Entry)
    BY <1>2, <2>1 DEF Typed
  <2>3. Len(disk[o].entries) \in Nat \ {0}
    BY <2>1, <2>2, EmptySeq
  <2>4. Len(s) >= Len(disk[o].entries) /\ s[1] = FirstItem(o) /\ Len(s) = count
    BY <1>3, <1>4, <1>5 DEF Starts, FirstItem
  <2>5. QED
    BY <1>1, <2>3, <2>4
<1> HIDE DEF s
<1>7. FirstItem(o) = 1
  <2>1. 1 \in 1..count
    BY <1>1, <1>6
  <2>2. QED
    BY <1>3, <1>5, <1>6, <2>1
<1>8. LastItem(o) = count
  <2>1. LastItem(o) = 1 + Len(s) - 1
    BY <1>7 DEF LastItem, LastOf, FirstItem, s, f
  <2>2. QED
    BY <1>1, <1>6, <2>1
<1>9. Spans(s, FirstItem(o))
  <2>1. \A i \in 1..Len(s) : s[i] = 1 + i - 1
    BY <1>1, <1>3, <1>5, <1>6
  <2>2. QED
    BY <1>7, <2>1 DEF Spans
<1>10. count <= count
  BY <1>1
<1>11. InTree(o)
  BY <1>2, <1>8, <1>9, <1>10 DEF InTree, s, f
<1>12. QED
  BY <1>2, <1>7, <1>8, <1>11 DEF o

\* Every tree the builder finishes is one.
LEMMA TreeIs ==
  ASSUME OrderInv, pc = "done"
  PROVE  Tree
<1>0. BuilderInv
  BY DEF OrderInv
<1>1. root.height \in Nat /\ count \in 0..MaxItems /\ MaxItems \in Nat
  BY <1>0, ConstantsAre DEF BuilderInv, Shape
<1>2. \A o \in DOMAIN disk : o \in Nat /\ o # Released /\ Entries(o) \in Seq(Entry)
  <2> TAKE o \in DOMAIN disk
  <2>1. o \in Nat /\ disk[o] \in Stored /\ o \in PagesAt(disk, o)
    BY <1>0, PagesAtIs DEF BuilderInv, Fill
  <2>2. PagesAt(disk, o) \subseteq held /\ held \subseteq 1..(next - 1)
    BY <1>0 DEF BuilderInv, Fill, Space
  <2>3. o \in 1..(next - 1)
    BY <2>1, <2>2
  <2>4. o # 0
    BY <2>3
  <2>5. QED
    BY <2>1, <2>4 DEF Released, Entries, Stored
<1>3. \A o \in DOMAIN disk : disk[o].level > 0 =>
       \A i \in 1..Len(Entries(o)) :
         /\ Entries(o)[i].ptr \in DOMAIN disk
         /\ disk[Entries(o)[i].ptr].level = disk[o].level - 1
         /\ Entries(Entries(o)[i].ptr) # <<>>
  BY <1>0 DEF BuilderInv, Points, DiskPoints, EntriesPoint, PointsDown, Entries
<1>4. \A o : InTree(o) => Shares(o) /\ LastItem(o) <= count
  <2>1. \A o : InTree(o) => LastItem(o) <= count
    BY DEF InTree
  <2>2. QED
    BY <1>0, <2>1, SharesAre
<1>5. QED
  BY <1>1, <1>2, <1>3, <1>4, RootIs DEF Tree

(***************************************************************************)
(* Positions                                                               *)
(***************************************************************************)

Stand == [node : Nat, pos : 0..MaxItems]

\* How many positions there are in a node of level l: a leaf has an end.
Places(o, l) == Len(Entries(o)) + (IF l = 0 THEN 1 ELSE 0)

\* A node of level l of the tree, with something in it.
Holds(o, l) == o \in DOMAIN disk /\ disk[o].level = l /\ Entries(o) # <<>> /\ InTree(o)

\* A node is held at its level, at one of its positions.
Good(l, step) ==
  /\ step \in Stand /\ Holds(step.node, l)
  /\ step.pos < Places(step.node, l)

\* The node the one at level l has to be.
Below(p, l) == IF l = root.height - 1 THEN root.ptr ELSE ChildOf(p[l + 1])

Valid(choice) ==
  \A o \in DOMAIN disk, l \in Levels :
    Holds(o, l) => choice[o][l] \in Nat /\ choice[o][l] < Places(o, l)

\* There are no more positions than items, and the end of a leaf.
LEMMA PlacesAre ==
  ASSUME Tree, NEW o, NEW l, Holds(o, l)
  PROVE  /\ Len(Entries(o)) \in Nat \ {0} /\ Places(o, l) \in Nat /\ Places(o, l) <= MaxItems + 1
         /\ \A i \in Nat : i < Places(o, l) => i \in 0..MaxItems
<1> DEFINE n == Len(Entries(o))
<1>1. n \in 1..MaxItems /\ MaxItems \in Nat
  BY DEF Tree, Holds, Shares
<1> HIDE DEF n
<1>2. Places(o, l) = n + (IF l = 0 THEN 1 ELSE 0)
  BY DEF Places, n
<1>3. Places(o, l) \in Nat /\ Places(o, l) <= MaxItems + 1
  BY <1>1, <1>2
<1>4. \A i \in Nat : i < Places(o, l) => i \in 0..MaxItems
  BY <1>1, <1>3
<1>5. QED
  BY <1>1, <1>3, <1>4 DEF n

\* __ctree_node_lower_bound and __ctree_node_upper_bound stay in the node.
LEMMA BoundsAre ==
  ASSUME Tree, NEW o \in DOMAIN disk, NEW k
  PROVE  LowerPos(o, k) \in 0..Len(Entries(o)) /\ UpperPos(o, k) \in 0..Len(Entries(o))
<1> DEFINE n == Len(Entries(o))
<1>1. n \in Nat /\ DOMAIN Entries(o) = 1..n
  BY DEF Tree
<1> HIDE DEF n
<1>2. ASSUME NEW S \in SUBSET (1..n) PROVE Min(S \cup {n + 1}) - 1 \in 0..n
  <2>1. S \cup {n + 1} \in SUBSET Nat /\ S \cup {n + 1} # {}
    BY <1>1
  <2>2. Min(S \cup {n + 1}) \in S \cup {n + 1}
    BY <2>1, MinIs
  <2>3. \A x \in S \cup {n + 1} : x - 1 \in 0..n
    BY <1>1
  <2>4. QED
    BY <2>2, <2>3
<1>3. /\ {i \in DOMAIN Entries(o) : Place(Entries(o)[i].key) >= k} \in SUBSET (1..n)
      /\ {i \in DOMAIN Entries(o) : Place(Entries(o)[i].key) > k} \in SUBSET (1..n)
  BY <1>1
<1>4. QED
  BY <1>2, <1>3 DEF LowerPos, UpperPos, n

\* The positions ctree_begin, ctree_end, ctree_prev and the searches choose.
LEMMA ChoicesAre ==
  ASSUME Tree
  PROVE  Valid(AtFirst) /\ Valid(AtLast) /\ Valid(AtEnd) /\ \A k : Valid(AtSought(k))
<1>1. ASSUME NEW o \in DOMAIN disk, NEW l \in Levels, Holds(o, l)
      PROVE  Len(Entries(o)) \in Nat \ {0} /\ Places(o, l) \in Nat /\ Places(o, l) >= Len(Entries(o))
             /\ (l = 0 => Places(o, l) = Len(Entries(o)) + 1)
  <2>1. Entries(o) \in Seq(Entry) /\ Entries(o) # <<>>
    BY <1>1 DEF Tree, Holds
  <2>2. QED
    BY <2>1, EmptySeq DEF Places
<1>2. Valid(AtFirst)
  <2>1. \A o \in DOMAIN disk, l \in Levels : AtFirst[o][l] = 0
    BY DEF AtFirst, Choice
  <2>2. QED
    BY <1>1, <2>1 DEF Valid
<1>3. Valid(AtLast)
  <2>1. \A o \in DOMAIN disk, l \in Levels : AtLast[o][l] = Len(Entries(o)) - 1
    BY DEF AtLast, Choice
  <2>2. QED
    BY <1>1, <2>1 DEF Valid
<1>4. Valid(AtEnd)
  <2>1. \A o \in DOMAIN disk, l \in Levels :
          AtEnd[o][l] = Len(Entries(o)) - (IF l = 0 THEN 0 ELSE 1)
    BY DEF AtEnd, Choice
  <2>2. QED
    BY <1>1, <2>1 DEF Valid
<1>5. ASSUME NEW k PROVE Valid(AtSought(k))
  <2>1. \A o \in DOMAIN disk, l \in Levels :
          AtSought(k)[o][l] = IF l = 0 THEN LowerPos(o, k) ELSE Max({UpperPos(o, k) - 1, 0})
    BY DEF AtSought, Choice
  <2>2. ASSUME NEW o \in DOMAIN disk, NEW l \in Levels, Holds(o, l)
        PROVE  AtSought(k)[o][l] \in Nat /\ AtSought(k)[o][l] < Places(o, l)
    <3> DEFINE n == Len(Entries(o))
               u == UpperPos(o, k)
    <3>1. n \in Nat /\ n >= 1 /\ Places(o, l) \in Nat /\ Places(o, l) >= n
          /\ (l = 0 => Places(o, l) = n + 1)
      BY <1>1, <2>2
    <3>2. LowerPos(o, k) \in 0..n /\ u \in 0..n
      BY BoundsAre
    <3>3. CASE l = 0
      <4>1. AtSought(k)[o][l] = LowerPos(o, k)
        BY <2>1, <3>3
      <4> HIDE DEF n
      <4>2. LowerPos(o, k) \in Nat /\ LowerPos(o, k) < n + 1
        BY <3>1, <3>2
      <4>3. QED
        BY <3>1, <3>3, <4>1, <4>2
    <3>4. CASE l # 0
      <4> HIDE DEF u, n
      <4>1. CASE u = 0
        <5>1. Max({u - 1, 0}) = 0
          <6>1. {u - 1, 0} = {-1, 0}
            BY <4>1
          <6>2. Max({-1, 0}) = 0
            <7>1. \A x \in {-1, 0} : (\A j \in {-1, 0} : x >= j) => x = 0
              OBVIOUS
            <7>2. \A j \in {-1, 0} : 0 >= j
              OBVIOUS
            <7>3. QED
              BY <7>1, <7>2 DEF Max
          <6>3. QED
            BY <6>1, <6>2
        <5>2. AtSought(k)[o][l] = 0
          BY <2>1, <3>4, <5>1 DEF u
        <5>3. QED
          BY <3>1, <5>2
      <4>2. CASE u # 0
        <5>1. {u - 1, 0} \in SUBSET (0..n) /\ {u - 1, 0} # {}
          BY <3>1, <3>2, <4>2
        <5>2. Max({u - 1, 0}) \in {u - 1, 0}
          BY <3>1, <5>1, MaxIs
        <5>3. AtSought(k)[o][l] \in {u - 1, 0}
          BY <2>1, <3>4, <5>2 DEF u
        <5>4. QED
          BY <3>1, <3>2, <4>2, <5>3
      <4>3. QED
        BY <4>1, <4>2
    <3>5. QED
      BY <3>3, <3>4
  <2>3. QED
    BY <2>2 DEF Valid
<1>6. QED
  BY <1>2, <1>3, <1>4, <1>5

\* ctree_node_ptr: from a position of an inner node to a node one level down.
LEMMA ChildIs ==
  ASSUME Tree, NEW l \in Nat, NEW step, Good(l + 1, step)
  PROVE  Holds(ChildOf(step), l)
<1>1. /\ step.node \in DOMAIN disk /\ disk[step.node].level = l + 1 /\ step.pos \in Nat
      /\ step.pos < Len(Entries(step.node))
  <2>1. step.pos \in Nat /\ Holds(step.node, l + 1) /\ l + 1 # 0
    BY DEF Good, Stand
  <2>2. Len(Entries(step.node)) \in Nat
    BY <2>1 DEF Tree, Holds
  <2>3. Places(step.node, l + 1) = Len(Entries(step.node))
    BY <2>1, <2>2 DEF Places
  <2>4. QED
    BY <2>1, <2>3 DEF Good, Holds
<1>2. Len(Entries(step.node)) \in Nat
  BY <1>1 DEF Tree
<1>3. step.pos + 1 \in 1..Len(Entries(step.node)) /\ disk[step.node].level > 0
      /\ (l + 1) - 1 = l
  BY <1>1, <1>2
<1>4. InTree(ChildOf(step))
  <2>1. Shares(step.node)
    BY DEF Good, Holds, Tree
  <2>2. QED
    BY <1>3, <2>1 DEF Shares, ChildOf
<1>5. QED
  BY <1>1, <1>3, <1>4 DEF Tree, Holds, ChildOf

(***************************************************************************)
(* The way down                                                            *)
(***************************************************************************)

\* The node of level l and the position in it, on the way w.
OnTheWay(p, top, choice, w, l) ==
  IF l > top THEN p[l]
  ELSE LET o == IF l = root.height - 1 THEN root.ptr ELSE ChildOf(w[l + 1])
       IN  [node |-> o, pos |-> choice[o][l]]

\* w is the way Descend follows: each node by the position above it.
Way(p, top, choice, w) == w = [l \in Levels |-> OnTheWay(p, top, choice, w, l)]

\* There is such a way, though it is defined by itself: from the root down,
\* level by level.
LEMMA WayExists ==
  ASSUME root.height \in Nat, NEW p, NEW top \in Int, NEW choice
  PROVE  \E w : Way(p, top, choice, w)
<1> DEFINE h == root.height
           B(w, l) == OnTheWay(p, top, choice, w, l)
           S == {n \in Nat : \E w : \A l \in Levels : l >= h - n => w[l] = B(w, l)}
<1>1. \A w, x, l : l = h - 1 \/ x[l + 1] = w[l + 1] => B(x, l) = B(w, l)
  BY DEF OnTheWay
<1>2. Levels = 0..(h - 1) /\ h \in Nat
  BY DEF Levels
<1> HIDE DEF h, B
<1>3. 0 \in S
  <2>1. \A l \in Levels : ~(l >= h - 0)
    BY <1>2
  <2>2. QED
    BY <2>1
<1>4. ASSUME NEW n \in Nat, n \in S PROVE n + 1 \in S
  <2>1. PICK w : \A l \in Levels : l >= h - n => w[l] = B(w, l)
    BY <1>4
  <2> DEFINE x == [l \in Levels |-> IF l = h - (n + 1) THEN B(w, l) ELSE w[l]]
  <2>2. ASSUME NEW l \in Levels, l >= h - (n + 1) PROVE x[l] = B(x, l)
    <3>1. l = h - 1 \/ (l + 1 \in Levels /\ l + 1 # h - (n + 1))
      BY <1>2, <2>2
    <3>2. l = h - 1 \/ x[l + 1] = w[l + 1]
      BY <3>1
    <3>3. B(x, l) = B(w, l)
      BY <1>1, <3>2
    <3>4. CASE l = h - (n + 1)
      BY <3>3, <3>4
    <3>5. CASE l # h - (n + 1)
      <4>1. l >= h - n
        BY <1>2, <2>2, <3>5
      <4>2. x[l] = w[l]
        BY <3>5
      <4>3. QED
        BY <2>1, <3>3, <4>1, <4>2
    <3>6. QED
      BY <3>4, <3>5
  <2> HIDE DEF x
  <2>3. \E y : \A l \in Levels : l >= h - (n + 1) => y[l] = B(y, l)
    BY <2>2
  <2>4. QED
    BY <2>3
<1>5. h \in S
  <2> HIDE DEF S
  <2>1. \A n \in Nat : n \in S
    BY <1>3, <1>4, NaturalsIn
  <2>2. QED
    BY <1>2, <2>1
<1>6. PICK w : \A l \in Levels : l >= h - h => w[l] = B(w, l)
  BY <1>5
<1> DEFINE x == [l \in Levels |-> w[l]]
<1>7. \A l \in Levels : x[l] = B(x, l)
  <2> TAKE l \in Levels
  <2>1. l >= h - h
    BY <1>2
  <2>2. l = h - 1 \/ l + 1 \in Levels
    BY <1>2
  <2>3. l = h - 1 \/ x[l + 1] = w[l + 1]
    BY <2>2
  <2>4. B(x, l) = B(w, l)
    BY <1>1, <2>3
  <2>5. QED
    BY <1>6, <2>1, <2>4
<1>8. x = [l \in Levels |-> B(x, l)]
  <2>1. x = [l \in Levels |-> x[l]]
    OBVIOUS
  <2> HIDE DEF x
  <2>2. QED
    BY <1>7, <2>1
<1> HIDE DEF x
<1>9. QED
  BY <1>8 DEF Way, B

\* Descend is one.
LEMMA DescendUnfolds ==
  ASSUME root.height \in Nat, NEW p, NEW top \in Int, NEW choice
  PROVE  Way(p, top, choice, Descend(p, top, choice))
<1>1. Way(p, top, choice, CHOOSE w : Way(p, top, choice, w))
  BY WayExists
<1>2. Descend(p, top, choice) = CHOOSE w : Way(p, top, choice, w)
  BY DEF Descend, Way, OnTheWay
<1>3. QED
  BY <1>1, <1>2

\* From good levels above, or from the root, the way leads over good nodes.
LEMMA DescendIs ==
  ASSUME Tree, NEW p, NEW top \in Int, top < root.height, NEW choice, Valid(choice),
         \A l \in Levels : l > top => Good(l, p[l]), NEW w, w = Descend(p, top, choice)
  PROVE  /\ w \in [Levels -> Stand] /\ \A l \in Levels : Good(l, w[l])
         /\ \A l \in Levels : l > top => w[l] = p[l]
         /\ \A l \in Levels : l <= top => w[l].node = Below(w, l)
<1> DEFINE h == root.height
<1>1. h \in Nat /\ Levels = 0..(h - 1)
  BY DEF Tree, Levels
<1>2. w = [l \in Levels |-> OnTheWay(p, top, choice, w, l)]
  BY <1>1, DescendUnfolds DEF Way
<1>3. DOMAIN w = Levels /\ \A l \in Levels : w[l] = OnTheWay(p, top, choice, w, l)
  BY <1>2
<1>4. /\ \A l \in Levels : l > top => w[l] = p[l]
      /\ \A l \in Levels : ~(l > top) => w[l] = [node |-> Below(w, l), pos |-> choice[Below(w, l)][l]]
  BY <1>3 DEF OnTheWay, Below
<1>5. ASSUME NEW l \in Levels, l <= top, Holds(Below(w, l), l)
      PROVE  Good(l, w[l]) /\ w[l].node = Below(w, l)
  <2> DEFINE o == Below(w, l)
  <2>1. w[l] = [node |-> o, pos |-> choice[o][l]]
    BY <1>1, <1>4, <1>5
  <2>2. o \in DOMAIN disk /\ o \in Nat
    BY <1>5 DEF Holds, Tree
  <2>3. choice[o][l] \in 0..MaxItems /\ choice[o][l] \in Nat /\ choice[o][l] < Places(o, l)
    <3>1. choice[o][l] \in Nat /\ choice[o][l] < Places(o, l)
      BY <1>5, <2>2 DEF Valid
    <3>2. QED
      BY <1>5, <3>1, PlacesAre
  <2> HIDE DEF o
  <2>4. QED
    BY <1>5, <2>1, <2>2, <2>3 DEF Good, Stand, o
<1> DEFINE S == {n \in Nat : \A l \in Levels : (l <= top /\ l >= top - n) => Good(l, w[l]) /\ w[l].node = Below(w, l)}
<1>6. ASSUME NEW l \in Levels, l <= top, l < h - 1, Good(l + 1, w[l + 1])
      PROVE  Holds(Below(w, l), l)
  <2>1. l \in Nat /\ Below(w, l) = ChildOf(w[l + 1])
    BY <1>1, <1>6 DEF Below
  <2>2. QED
    BY <1>6, <2>1, ChildIs
<1>7. ASSUME h - 1 \in Levels, h - 1 <= top PROVE Holds(Below(w, h - 1), h - 1)
  BY <1>1, <1>7 DEF Below, Tree, Holds
<1> HIDE DEF h
<1>8. 0 \in S
  <2> SUFFICES ASSUME NEW l \in Levels, l <= top, l >= top - 0
               PROVE  Good(l, w[l]) /\ w[l].node = Below(w, l)
    OBVIOUS
  <2>1. l = top /\ 0 <= l
    BY <1>1
  <2>2. CASE l = h - 1
    BY <1>5, <1>7, <2>2
  <2>3. CASE l # h - 1
    <3>1. l < h - 1 /\ l + 1 \in Levels /\ l + 1 > top
      BY <1>1, <2>1, <2>3
    <3>2. Good(l + 1, w[l + 1])
      BY <1>4, <2>1, <3>1
    <3>3. QED
      BY <1>5, <1>6, <3>1, <3>2
  <2>4. QED
    BY <2>2, <2>3
<1>9. ASSUME NEW n \in Nat, n \in S PROVE n + 1 \in S
  <2> SUFFICES ASSUME NEW l \in Levels, l <= top, l >= top - (n + 1)
               PROVE  Good(l, w[l]) /\ w[l].node = Below(w, l)
    OBVIOUS
  <2>1. CASE l >= top - n
    BY <1>9, <2>1
  <2>2. CASE ~(l >= top - n)
    <3>1. l < h - 1 /\ l + 1 \in Levels /\ l + 1 <= top /\ l + 1 >= top - n
      <4>1. top < h
        BY DEF h
      <4>2. QED
        BY <1>1, <2>2, <4>1
    <3>2. Good(l + 1, w[l + 1])
      BY <1>9, <3>1
    <3>3. QED
      BY <1>5, <1>6, <3>1, <3>2
  <2>3. QED
    BY <2>1, <2>2
<1>10. \A l \in Levels : l <= top => Good(l, w[l]) /\ w[l].node = Below(w, l)
  <2> SUFFICES ASSUME NEW l \in Levels, l <= top PROVE Good(l, w[l]) /\ w[l].node = Below(w, l)
    OBVIOUS
  <2>1. top \in Nat /\ l >= top - top
    BY <1>1
  <2>2. top \in S
    <3> HIDE DEF S
    <3>1. \A n \in Nat : n \in S
      BY <1>8, <1>9, NaturalsIn
    <3>2. QED
      BY <2>1, <3>1
  <2>3. QED
    BY <2>1, <2>2
<1>11. \A l \in Levels : Good(l, w[l])
  <2> TAKE l \in Levels
  <2>1. CASE l > top
    BY <1>4, <2>1
  <2>2. CASE l <= top
    BY <1>10, <2>2
  <2>3. QED
    BY <1>1, <2>1, <2>2
<1>12. w \in [Levels -> Stand]
  <2>1. \A l \in Levels : OnTheWay(p, top, choice, w, l) \in Stand
    BY <1>3, <1>11 DEF Good
  <2>2. QED
    BY <1>2, <2>1
<1>13. QED
  BY <1>4, <1>10, <1>11, <1>12

(***************************************************************************)
(* Paths                                                                   *)
(***************************************************************************)

\* Only the lower part of the path is released.
Held(p) ==
  /\ p \in [Levels -> Stand]
  /\ \A l \in Levels : IF p[l].node = Released THEN \A m \in 0..l : p[m].node = Released
                       ELSE Good(l, p[l])

\* The way from the root to a leaf.
Whole(p) ==
  /\ p \in [Levels -> Stand]
  /\ \A l \in Levels : Good(l, p[l]) /\ p[l].node = Below(p, l)

\* What a call may lead to.
Lands(o) ==
  /\ o.path = <<>> \/ Held(o.path)
  /\ o.rc \notin {"error", "abort"} => Whole(o.path)

\* A whole path is held, and nothing of it is released.
LEMMA WholeIsHeld ==
  ASSUME Tree, NEW p, Whole(p)
  PROVE  Held(p) /\ \A l \in Levels : p[l].node # Released
<1>1. \A l \in Levels : p[l].node # Released
  BY DEF Whole, Good, Holds, Tree
<1>2. QED
  BY <1>1 DEF Whole, Held

\* The levels of a tree that is not empty.
LEMMA LevelsAre ==
  ASSUME Tree, root.height > 0
  PROVE  /\ root.height \in Nat \ {0} /\ Levels = 0..(root.height - 1) /\ 0 \in Levels
         /\ root.height - 1 \in Levels
         /\ \A l \in Levels : l \in Nat /\ 0..l \subseteq Levels
BY DEF Tree, Levels

\* ctree_node_read of a part of the way.
LEMMA ReadIs ==
  ASSUME Tree, root.height > 0, NEW p, Held(p), NEW top \in Int, top < root.height,
         NEW choice, Valid(choice), \A l \in Levels : l > top => Good(l, p[l]),
         NEW again, NEW o \in Read(p, top, choice, again)
  PROVE  /\ Held(o.path) /\ o.rc \in {"ok", "error"} /\ o = [path |-> o.path, rc |-> o.rc]
         /\ (o.rc = "ok" /\ \A l \in Levels : l > top => p[l].node = Below(p, l)) => Whole(o.path)
<1> DEFINE w == Descend(p, top, choice)
           h == root.height
<1>1. /\ h \in Nat \ {0} /\ Levels = 0..(h - 1)
      /\ \A l \in Levels : l \in Nat /\ 0..l \subseteq Levels
  BY LevelsAre
<1> HIDE DEF w
<1>2. /\ w \in [Levels -> Stand] /\ \A l \in Levels : Good(l, w[l])
      /\ \A l \in Levels : l > top => w[l] = p[l]
      /\ \A l \in Levels : l <= top => w[l].node = Below(w, l)
  <2>1. w = Descend(p, top, choice)
    BY DEF w
  <2>2. QED
    BY <2>1, DescendIs
<1> HIDE DEF h
<1>5. \A l \in Levels : w[l] \in Stand /\ w[l].node # Released
  BY <1>2 DEF Good, Holds, Tree
<1>7. Held(w)
  BY <1>2, <1>5 DEF Held
<1>8. CASE o = [path |-> w, rc |-> "ok"]
  <2>1. ASSUME \A l \in Levels : l > top => p[l].node = Below(p, l) PROVE Whole(w)
    <3>1. \A l \in Levels : l > top => w[l].node = Below(w, l)
      <4> SUFFICES ASSUME NEW l \in Levels, l > top PROVE w[l].node = Below(w, l)
        OBVIOUS
      <4>1. w[l] = p[l] /\ p[l].node = Below(p, l)
        BY <1>2, <2>1
      <4>2. l = h - 1 \/ (l + 1 \in Levels /\ l + 1 > top)
        BY <1>1
      <4>3. l = h - 1 \/ w[l + 1] = p[l + 1]
        BY <1>2, <4>2
      <4>4. QED
        BY <4>1, <4>3 DEF Below, h
    <3>2. \A l \in Levels : w[l].node = Below(w, l)
      BY <1>1, <1>2, <3>1
    <3>3. QED
      BY <1>2, <3>2 DEF Whole
  <2>2. QED
    BY <1>7, <1>8, <2>1
<1>9. CASE \E f \in 0..top : o = [path |-> [l \in Levels |-> IF l > f THEN w[l] ELSE p[l]], rc |-> "error"]
  <2>1. PICK f \in 0..top : o = [path |-> [l \in Levels |-> IF l > f THEN w[l] ELSE p[l]], rc |-> "error"]
    BY <1>9
  <2> DEFINE x == [l \in Levels |-> IF l > f THEN w[l] ELSE p[l]]
  <2>2. \A l \in Levels : x[l] \in Stand
    BY <1>5 DEF Held
  <2>3. x \in [Levels -> Stand]
    BY <2>2
  <2>4. ASSUME NEW l \in Levels
        PROVE  IF x[l].node = Released THEN \A m \in 0..l : x[m].node = Released ELSE Good(l, x[l])
    <3>1. CASE l > f
      <4>1. x[l] = w[l]
        BY <3>1
      <4> HIDE DEF x
      <4>2. QED
        BY <1>2, <1>5, <4>1
    <3>2. CASE ~(l > f)
      <4>1. x[l] = p[l] /\ \A m \in 0..l : x[m] = p[m]
        <5>1. \A m \in 0..l : m \in Levels /\ ~(m > f)
          BY <1>1, <3>2
        <5>2. QED
          BY <3>2, <5>1
      <4> HIDE DEF x
      <4>2. QED
        BY <4>1 DEF Held
    <3>3. QED
      BY <3>1, <3>2
  <2>5. Held(x)
    BY <2>3, <2>4 DEF Held
  <2> HIDE DEF x
  <2>6. o = [path |-> x, rc |-> "error"]
    BY <2>1 DEF x
  <2>7. QED
    BY <2>5, <2>6
<1>10. QED
  BY <1>8, <1>9 DEF Read, w

\* ctree_next and ctree_prev at the level found.
LEMMA StepAtIs ==
  ASSUME Tree, root.height > 0, NEW p, Held(p), NEW top \in Levels,
         \A l \in Levels : l >= top => p[l].node # Released,
         NEW by \in {1, -1}, HasRoom(p[top], by), NEW choice, Valid(choice),
         NEW o \in StepAt(p, top, by, choice)
  PROVE  /\ Held(o.path) /\ o.rc \in {"ok", "error"} /\ o = [path |-> o.path, rc |-> o.rc]
         /\ (o.rc = "ok" /\ Whole(p)) => Whole(o.path)
<1> DEFINE q == [l \in Levels |-> IF l < top THEN [p[l] EXCEPT !.node = Released]
                                  ELSE IF l = top THEN [p[l] EXCEPT !.pos = @ + by]
                                  ELSE p[l]]
           h == root.height
<1>1. /\ h \in Nat \ {0} /\ Levels = 0..(h - 1)
      /\ \A l \in Levels : l \in Nat /\ 0..l \subseteq Levels
  BY LevelsAre
<1>2. \A l \in Levels : l >= top => Good(l, p[l])
  BY DEF Held
<1>3. /\ p \in [Levels -> Stand] /\ p[top] \in Stand
  BY DEF Held
<1>4. /\ p[top].pos \in Nat /\ p[top].pos + by \in 0..MaxItems
      /\ p[top].pos + by < Places(p[top].node, top)
  <2> DEFINE s == p[top]
             n == Len(Entries(s.node))
  <2>1. Good(top, s) /\ s \in Stand /\ s.pos \in Nat
    BY <1>1, <1>2, <1>3 DEF Stand
  <2>2. n \in Nat /\ Places(s.node, top) \in Nat /\ Places(s.node, top) >= n
    <3>1. Entries(s.node) \in Seq(Entry)
      BY <2>1 DEF Good, Holds, Tree
    <3>2. n \in Nat
      BY <3>1
    <3> HIDE DEF s, n
    <3>3. QED
      BY <3>2 DEF Places, n
  <2>3. s.pos < Places(s.node, top)
    BY <2>1 DEF Good
  <2>4. IF by = 1 THEN s.pos + 1 < n ELSE s.pos > 0
    BY DEF HasRoom
  <2> HIDE DEF s, n
  <2>5. s.pos \in Nat /\ s.pos + by \in Nat /\ s.pos + by < Places(s.node, top)
    BY <2>1, <2>2, <2>3, <2>4
  <2>6. Holds(s.node, top)
    BY <2>1 DEF Good
  <2>7. s.pos + by \in 0..MaxItems
    BY <2>5, <2>6, PlacesAre
  <2>8. QED
    BY <2>5, <2>7 DEF s
<1>5. ASSUME NEW l \in Levels
      PROVE  /\ q[l] \in Stand
             /\ l < top => q[l].node = Released
             /\ l >= top => Good(l, q[l]) /\ q[l].node = p[l].node
             /\ l > top => q[l] = p[l]
  <2>1. p[l] \in Stand /\ l \in Nat /\ top \in Nat
    BY <1>1, <1>3
  <2>2. CASE l < top
    <3>1. q[l] = [p[l] EXCEPT !.node = Released]
      BY <2>2
    <3> HIDE DEF q
    <3>2. q[l] \in Stand /\ q[l].node = Released
      BY <2>1, <3>1 DEF Stand, Released
    <3>3. QED
      BY <2>1, <2>2, <3>2
  <2>3. CASE l = top
    <3>1. q[l] = [p[top] EXCEPT !.pos = p[top].pos + by]
      BY <2>1, <2>3
    <3> HIDE DEF q
    <3>2. q[l] \in Stand /\ q[l].node = p[top].node /\ q[l].pos = p[top].pos + by
      BY <1>3, <1>4, <3>1 DEF Stand
    <3>3. Good(top, p[top])
      BY <1>2, <2>1
    <3>4. Good(l, q[l])
      BY <1>4, <2>3, <3>2, <3>3 DEF Good
    <3>5. QED
      BY <2>1, <2>3, <3>2, <3>4
  <2>4. CASE l > top
    <3>1. q[l] = p[l]
      BY <2>1, <2>4
    <3> HIDE DEF q
    <3>2. QED
      BY <1>2, <2>1, <2>4, <3>1
  <2>5. QED
    BY <2>1, <2>2, <2>3, <2>4
<1>6. q \in [Levels -> Stand]
  BY <1>5
<1>7. o \in Read(q, top - 1, choice, FALSE)
  BY DEF StepAt
<1> HIDE DEF q, h
<1>8. Held(q)
  <2> SUFFICES ASSUME NEW l \in Levels
               PROVE  IF q[l].node = Released THEN \A m \in 0..l : q[m].node = Released
                      ELSE Good(l, q[l])
    BY <1>6 DEF Held
  <2>1. CASE l < top
    <3>1. \A m \in 0..l : m \in Levels /\ m < top
      BY <1>1, <2>1
    <3>2. QED
      BY <1>5, <2>1, <3>1
  <2>2. CASE ~(l < top)
    <3>1. Good(l, q[l])
      BY <1>1, <1>5, <2>2
    <3>2. q[l].node # Released
      BY <3>1 DEF Good, Holds, Tree
    <3>3. QED
      BY <3>1, <3>2
  <2>3. QED
    BY <2>1, <2>2
<1>9. \A l \in Levels : l > top - 1 => Good(l, q[l])
  <2>1. \A l \in Levels : l > top - 1 => l >= top
    BY <1>1
  <2>2. QED
    BY <1>5, <2>1
<1>10. top - 1 \in Int /\ top - 1 < root.height
  BY <1>1 DEF h
<1>11. Whole(p) => \A l \in Levels : l > top - 1 => q[l].node = Below(q, l)
  <2> SUFFICES ASSUME Whole(p), NEW l \in Levels, l > top - 1 PROVE q[l].node = Below(q, l)
    OBVIOUS
  <2>1. l >= top /\ (l = h - 1 \/ (l + 1 \in Levels /\ l + 1 > top))
    BY <1>1
  <2>2. q[l].node = p[l].node /\ (l = h - 1 \/ q[l + 1] = p[l + 1])
    BY <1>5, <2>1
  <2>3. p[l].node = Below(p, l)
    BY DEF Whole
  <2>4. QED
    BY <2>2, <2>3 DEF Below, h
<1> DEFINE u == top - 1
<1>12. u \in Int /\ u < root.height /\ o \in Read(q, u, choice, FALSE)
  BY <1>7, <1>10
<1>13. /\ \A l \in Levels : l > u => Good(l, q[l])
       /\ Whole(p) => \A l \in Levels : l > u => q[l].node = Below(q, l)
  BY <1>9, <1>11
<1> HIDE DEF u
<1>14. /\ Held(o.path) /\ o.rc \in {"ok", "error"} /\ o = [path |-> o.path, rc |-> o.rc]
       /\ (o.rc = "ok" /\ \A l \in Levels : l > u => q[l].node = Below(q, l)) => Whole(o.path)
  BY <1>8, <1>12, <1>13, ReadIs
<1>15. QED
  BY <1>13, <1>14

\* The loop of ctree_next and ctree_prev: no node it passes is released, so
\* either it steps, or there is nothing above and stay is where it stays.
LEMMA StepIs ==
  ASSUME Tree, root.height > 0, NEW p, Held(p), NEW by \in {1, -1}, NEW choice, Valid(choice),
         NEW stay, Held(stay), Whole(p) => Whole(stay), NEW o \in Step(p, by, choice, stay)
  PROVE  /\ Held(o.path) /\ o.rc \in {"ok", "error", "enoent", "abort"}
         /\ o = [path |-> o.path, rc |-> o.rc]
         /\ o.rc \in {"ok", "enoent"} /\ Whole(p) => Whole(o.path)
<1> DEFINE stops == {l \in Levels : p[l].node = Released \/ HasRoom(p[l], by)}
           top == Min(stops)
<1>1. CASE stops = {}
  <2>1. o = [path |-> stay, rc |-> "enoent"]
    BY <1>1 DEF Step
  <2>2. QED
    BY <2>1
<1>2. CASE stops # {} /\ p[top].node = Released
  <2>1. o = [path |-> p, rc |-> "abort"]
    BY <1>2 DEF Step
  <2>2. QED
    BY <2>1
<1>3. CASE stops # {} /\ p[top].node # Released
  <2>1. o \in StepAt(p, top, by, choice)
    BY <1>3 DEF Step
  <2>2. stops \in SUBSET Nat
    BY LevelsAre
  <2>3. top \in stops
    BY <1>3, <2>2, MinIs
  <2> HIDE DEF top
  <2>4. top \in Levels /\ HasRoom(p[top], by)
    BY <1>3, <2>3
  <2>5. \A l \in Levels : l >= top => p[l].node # Released
    <3> SUFFICES ASSUME NEW l \in Levels, l >= top, p[l].node = Released PROVE FALSE
      OBVIOUS
    <3>1. top \in 0..l
      BY <2>4, LevelsAre
    <3>2. p[top].node = Released
      BY <3>1 DEF Held
    <3>3. QED
      BY <1>3, <3>2
  <2>6. QED
    BY <2>1, <2>4, <2>5, StepAtIs
<1>4. QED
  BY <1>1, <1>2, <1>3

\* Past the last item of the last leaf.
LEMMA StaysIs ==
  ASSUME Tree, root.height > 0, NEW p, Held(p), \A l \in Levels : p[l].node # Released
  PROVE  Held(StaysAtEnd(p)) /\ (Whole(p) => Whole(StaysAtEnd(p)))
<1> DEFINE n == Len(Entries(p[0].node))
           q == [p EXCEPT ![0].pos = @ + 1]
<1>1. CASE p[0].pos = n
  BY <1>1 DEF StaysAtEnd
<1>2. CASE p[0].pos # n
  <2>1. StaysAtEnd(p) = q
    BY <1>2 DEF StaysAtEnd
  <2>2. /\ root.height \in Nat \ {0} /\ Levels = 0..(root.height - 1) /\ 0 \in Levels
        /\ \A l \in Levels : l \in Nat
    BY LevelsAre
  <2>3. p \in [Levels -> Stand] /\ Good(0, p[0]) /\ \A l \in Levels : Good(l, p[l])
    BY <2>2 DEF Held
  <2>4. p[0].pos \in Nat /\ n \in Nat /\ p[0].pos < n + 1
    <3>1. p[0].pos \in Nat /\ Entries(p[0].node) \in Seq(Entry)
      BY <2>3 DEF Good, Stand, Holds, Tree
    <3>2. n \in Nat /\ Places(p[0].node, 0) = n + 1
      BY <3>1 DEF Places
    <3>3. QED
      BY <2>3, <3>1, <3>2 DEF Good
  <2>5. q[0].node = p[0].node /\ q[0].pos = p[0].pos + 1 /\ q[0] \in Stand
    <3>1. q[0] = [p[0] EXCEPT !.pos = p[0].pos + 1] /\ p[0] \in Stand
      BY <2>2, <2>3
    <3> HIDE DEF q
    <3>2. p[0].pos + 1 \in 0..MaxItems
      <4>1. Holds(p[0].node, 0) /\ Places(p[0].node, 0) = n + 1
        BY <2>3, <2>4 DEF Good, Places
      <4>2. p[0].pos + 1 \in Nat /\ p[0].pos + 1 < Places(p[0].node, 0)
        BY <1>2, <2>4, <4>1
      <4>3. QED
        BY <4>1, <4>2, PlacesAre
    <3>3. QED
      BY <3>1, <3>2 DEF Stand
  <2>6. \A l \in Levels : l # 0 => q[l] = p[l]
    BY <2>3
  <2>7. q \in [Levels -> Stand]
    <3>1. DOMAIN q = Levels /\ q = [l \in Levels |-> q[l]]
      BY <2>3
    <3>2. \A l \in Levels : q[l] \in Stand
      <4> HIDE DEF q
      <4>1. QED
        BY <2>3, <2>5, <2>6
    <3> HIDE DEF q
    <3>3. QED
      BY <3>1, <3>2
  <2> HIDE DEF q, n
  <2>8. Good(0, q[0])
    <3>1. q[0].pos < n + 1
      BY <1>2, <2>4, <2>5
    <3>2. Places(q[0].node, 0) = n + 1
      BY <2>5 DEF Places, n
    <3>3. QED
      BY <2>3, <2>5, <3>1, <3>2 DEF Good
  <2>9. \A l \in Levels : Good(l, q[l])
    BY <2>3, <2>6, <2>8
  <2>10. \A l \in Levels : q[l].node = p[l].node
    BY <2>5, <2>6
  <2>11. Held(q)
    BY <2>7, <2>9, <2>10 DEF Held
  <2>12. ASSUME Whole(p) PROVE Whole(q)
    <3>1. ASSUME NEW l \in Levels PROVE q[l].node = Below(q, l)
      <4>1. q[l].node = Below(p, l)
        BY <2>10, <2>12 DEF Whole
      <4>2. l = root.height - 1 \/ (l + 1 \in Levels /\ l + 1 # 0)
        BY <2>2
      <4>3. l = root.height - 1 \/ q[l + 1] = p[l + 1]
        BY <2>6, <4>2
      <4>4. QED
        BY <4>1, <4>3 DEF Below
    <3>2. QED
      BY <2>7, <2>9, <3>1 DEF Whole
  <2>13. QED
    BY <2>1, <2>11, <2>12
<1>3. QED
  BY <1>1, <1>2

(***************************************************************************)
(* The calls                                                               *)
(***************************************************************************)

\* ctree_next and ctree_prev keep a whole path whole, unless they fail.
LEMMA NextAndPrevAre ==
  ASSUME Tree, root.height > 0, NEW p, Held(p), NEW o \in NextOf(p) \cup PrevOf(p)
  PROVE  /\ Held(o.path) /\ o.rc \in {"ok", "error", "enoent", "abort"}
         /\ o = [path |-> o.path, rc |-> o.rc]
         /\ o.rc \in {"ok", "enoent"} /\ Whole(p) => Whole(o.path)
<1>1. CASE o \in NextOf(p)
  <2> DEFINE stay == IF \A l \in Levels : p[l].node # Released THEN StaysAtEnd(p) ELSE p
  <2>1. Held(stay) /\ (Whole(p) => Whole(stay))
    BY StaysIs
  <2>2. o \in Step(p, 1, AtFirst, stay)
    BY <1>1 DEF NextOf
  <2> HIDE DEF stay
  <2>3. QED
    BY <2>1, <2>2, StepIs, ChoicesAre
<1>2. CASE o \in PrevOf(p)
  <2>1. o \in Step(p, -1, AtLast, p)
    BY <1>2 DEF PrevOf
  <2>2. QED
    BY <2>1, StepIs, ChoicesAre
<1>3. QED
  BY <1>1, <1>2

\* Reading the way from the root, prepared or not.
LEMMA PositionIs ==
  ASSUME Tree, root.height > 0, NEW p, p = <<>> \/ Held(p), NEW choice, Valid(choice), NEW again,
         NEW o \in NotPrepared(p) \cup Read(Prepared(p), root.height - 1, choice, again)
  PROVE  Lands(o) /\ o.rc \in {"ok", "error"}
<1>1. CASE o \in NotPrepared(p)
  <2>1. o = [path |-> p, rc |-> "error"]
    BY <1>1 DEF NotPrepared
  <2>2. QED
    BY <2>1 DEF Lands
<1>2. CASE o \in Read(Prepared(p), root.height - 1, choice, again)
  <2> DEFINE q == Prepared(p)
             top == root.height - 1
  <2>1. Held(q)
    <3>1. CASE p = <<>>
      <4> DEFINE s == [node |-> Released, pos |-> 0]
      <4>1. q = [l \in Levels |-> s] /\ s \in Stand /\ s.node = Released
        BY <3>1 DEF Prepared, Stand, Released, Tree
      <4> HIDE DEF q, s
      <4>2. q \in [Levels -> Stand] /\ \A l \in Levels : q[l] = s
        BY <4>1
      <4>3. \A l \in Levels : 0..l \subseteq Levels
        BY LevelsAre
      <4>4. QED
        BY <4>1, <4>2, <4>3 DEF Held
    <3>2. CASE p # <<>>
      BY <3>2 DEF Prepared
    <3>3. QED
      BY <3>1, <3>2
  <2>2. /\ top \in Int /\ top < root.height /\ \A l \in Levels : ~(l > top)
        /\ o \in Read(q, top, choice, again)
    BY <1>2, LevelsAre
  <2> HIDE DEF q, top
  <2>3. /\ Held(o.path) /\ o.rc \in {"ok", "error"}
        /\ (o.rc = "ok" /\ \A l \in Levels : l > top => q[l].node = Below(q, l)) => Whole(o.path)
    <3>1. \A l \in Levels : l > top => Good(l, q[l])
      BY <2>2
    <3>2. QED
      BY <2>1, <2>2, <3>1, ReadIs
  <2>4. QED
    BY <2>2, <2>3 DEF Lands
<1>3. QED
  BY <1>1, <1>2

\* ctree_lower_bound: after the search an item above may be in the next leaf.
LEMMA LowerBoundIs ==
  ASSUME Tree, root.height > 0, NEW p, p = <<>> \/ Held(p), NEW k, NEW o \in LowerBound(p, k)
  PROVE  Lands(o) /\ o.rc \in {"ok", "error", "abort"}
<1>1. PICK a \in LookupIn(p, k) :
        o \in (IF a.rc = "ok"
               THEN IF ~AtLeafEnd(a.path) THEN {[path |-> a.path, rc |-> "ok"]}
                    ELSE {IF b.rc = "enoent" THEN [b EXCEPT !.rc = "ok"] ELSE b : b \in NextOf(a.path)}
               ELSE {a})
  <2>1. root.height # 0
    OBVIOUS
  <2>2. QED
    BY <2>1 DEF LowerBound, Then
<1>2. Lands(a) /\ a.rc \in {"ok", "error"}
  BY PositionIs, ChoicesAre DEF LookupIn
<1>3. CASE a.rc # "ok"
  BY <1>1, <1>2, <1>3
<1>4. CASE a.rc = "ok" /\ o = [path |-> a.path, rc |-> "ok"]
  BY <1>2, <1>4 DEF Lands
<1>5. CASE a.rc = "ok" /\ \E b \in NextOf(a.path) :
             o = IF b.rc = "enoent" THEN [b EXCEPT !.rc = "ok"] ELSE b
  <2>1. PICK b \in NextOf(a.path) : o = IF b.rc = "enoent" THEN [b EXCEPT !.rc = "ok"] ELSE b
    BY <1>5
  <2>2. Whole(a.path) /\ Held(a.path)
    BY <1>2, <1>5, WholeIsHeld DEF Lands
  <2>3. /\ Held(b.path) /\ b.rc \in {"ok", "error", "enoent", "abort"}
        /\ b = [path |-> b.path, rc |-> b.rc]
        /\ b.rc \in {"ok", "enoent"} => Whole(b.path)
    BY <2>2, NextAndPrevAre
  <2>4. o.path = b.path /\ o.rc = IF b.rc = "enoent" THEN "ok" ELSE b.rc
    BY <2>1, <2>3
  <2>5. QED
    BY <2>3, <2>4 DEF Lands
<1>6. QED
  BY <1>1, <1>3, <1>4, <1>5

\* ctree_upper_bound and ctree_lookup.
LEMMA SearchesAre ==
  ASSUME Tree, root.height > 0, NEW p, p = <<>> \/ Held(p), NEW k,
         NEW o \in UpperBound(p, k) \cup Lookup(p, k)
  PROVE  Lands(o)
<1>1. CASE o \in UpperBound(p, k)
  <2>1. PICK a \in LowerBound(p, k) :
          o \in (IF a.rc = "ok"
                 THEN IF StandsOn(a.path, k) THEN NextOf(a.path) ELSE {[path |-> a.path, rc |-> "ok"]}
                 ELSE {a})
    BY <1>1 DEF UpperBound, Then
  <2>2. Lands(a)
    BY LowerBoundIs
  <2>3. CASE a.rc # "ok"
    BY <2>1, <2>2, <2>3
  <2>4. CASE a.rc = "ok"
    <3>1. Whole(a.path) /\ Held(a.path)
      BY <2>2, <2>4, WholeIsHeld DEF Lands
    <3>2. CASE o \in NextOf(a.path)
      BY <3>1, <3>2, NextAndPrevAre DEF Lands
    <3>3. CASE o = [path |-> a.path, rc |-> "ok"]
      BY <3>1, <3>3 DEF Lands
    <3>4. QED
      BY <2>1, <2>4, <3>2, <3>3
  <2>5. QED
    BY <2>3, <2>4
<1>2. CASE o \in Lookup(p, k)
  <2>1. PICK a \in LowerBound(p, k) :
          o \in (IF a.rc = "ok"
                 THEN {[path |-> a.path, rc |-> IF StandsOn(a.path, k) THEN "found" ELSE "absent"]}
                 ELSE {a})
    BY <1>2 DEF Lookup, Then
  <2>2. Lands(a)
    BY LowerBoundIs
  <2>3. CASE a.rc # "ok"
    BY <2>1, <2>2, <2>3
  <2>4. CASE a.rc = "ok"
    <3>1. Whole(a.path) /\ Held(a.path)
      BY <2>2, <2>4, WholeIsHeld DEF Lands
    <3>2. o.path = a.path
      BY <2>1, <2>4
    <3>3. QED
      BY <3>1, <3>2 DEF Lands
  <2>5. QED
    BY <2>3, <2>4
<1>3. QED
  BY <1>1, <1>2

(***************************************************************************)
(* The number of the item under the path                                   *)
(***************************************************************************)

\* The node held at one level, and the position in it.
At(l, step) ==
  /\ Shares(step.node) /\ disk[step.node].level = l /\ LastItem(step.node) <= count
  /\ Len(Entries(step.node)) \in Nat \ {0} /\ step.pos \in Nat
  /\ l = 0 => step.pos <= Len(Entries(step.node))
  /\ l > 0 => step.pos < Len(Entries(step.node))

LEMMA GoodIs ==
  ASSUME Tree, NEW l \in Nat, NEW step, Good(l, step)
  PROVE  At(l, step)
<1> DEFINE o == step.node
           n == Len(Entries(o))
<1>1. step \in Stand /\ Holds(o, l) /\ step.pos < Places(o, l) /\ MaxItems \in Nat
  BY DEF Good, Tree
<1>2. Shares(o) /\ disk[o].level = l /\ LastItem(o) <= count
  BY <1>1 DEF Holds, Tree
<1>3. n \in Nat \ {0} /\ Places(o, l) = n + (IF l = 0 THEN 1 ELSE 0)
  BY <1>1, PlacesAre DEF Places
<1>4. step.pos \in Nat
  BY <1>1 DEF Stand
<1> HIDE DEF n, o
<1>5. (l = 0 => step.pos <= n) /\ (l > 0 => step.pos < n)
  BY <1>1, <1>3, <1>4
<1>6. QED
  BY <1>2, <1>3, <1>4, <1>5 DEF At, n, o

\* The node c, under the entry before the position i of o.
PartUnder(o, i, c) ==
  /\ i \in 1..Len(Entries(o)) /\ FirstItem(c) = Entries(o)[i].key
  /\ i = 1 => FirstItem(c) = FirstItem(o)
  /\ i = Len(Entries(o)) => LastItem(c) = LastItem(o)
  /\ i < Len(Entries(o)) => Entries(o)[i + 1].key = LastItem(c) + 1

\* A node of the path has the part of the items of the node above that the
\* position there says.
LEMMA PartIs ==
  ASSUME Tree, NEW p, Whole(p), NEW l \in Levels, l + 1 \in Levels
  PROVE  PartUnder(p[l + 1].node, p[l + 1].pos + 1, p[l].node)
<1> DEFINE s == p[l + 1]
           o == s.node
           c == p[l].node
           n == Len(Entries(o))
<1>1. l \in Nat /\ l + 1 \in Nat /\ l + 1 > 0 /\ l # root.height - 1
  BY DEF Tree, Levels
<1>2. c = ChildOf(s) /\ Good(l + 1, s)
  BY <1>1 DEF Whole, Below
<1>3. At(l + 1, s)
  BY <1>1, <1>2, GoodIs
<1> HIDE DEF s, c
<1>4. Shares(o) /\ disk[o].level > 0 /\ n \in Nat \ {0} /\ s.pos \in Nat /\ s.pos < n
  BY <1>1, <1>3 DEF At
<1> DEFINE i == s.pos + 1
<1>5. i \in 1..n /\ c = Entries(o)[i].ptr
  BY <1>2, <1>4 DEF ChildOf
<1> HIDE DEF n, o, i
<1>6. /\ FirstItem(c) = Entries(o)[i].key /\ Entries(o)[1].key = FirstItem(o)
      /\ i = n => LastItem(c) = LastItem(o)
      /\ i < n => Entries(o)[i + 1].key = LastItem(c) + 1
  BY <1>4, <1>5 DEF Shares, n
<1>7. PartUnder(o, i, c)
  BY <1>5, <1>6 DEF PartUnder, n
<1>8. QED
  BY <1>7 DEF o, i, c, s

\* Where there is no room on the way up, the last item, or the first, is that
\* of the leaf.
LEMMA EdgesAgree ==
  ASSUME Tree, root.height > 0, NEW p, Whole(p), NEW m \in Levels
  PROVE  /\ (\A l \in 1..m : ~HasRoom(p[l], 1)) => LastItem(p[m].node) = LastItem(p[0].node)
         /\ (\A l \in 1..m : ~HasRoom(p[l], -1)) => FirstItem(p[m].node) = FirstItem(p[0].node)
<1> DEFINE U(n) == (\A l \in 1..n : ~HasRoom(p[l], 1)) => LastItem(p[n].node) = LastItem(p[0].node)
           V(n) == (\A l \in 1..n : ~HasRoom(p[l], -1)) => FirstItem(p[n].node) = FirstItem(p[0].node)
           S == {n \in Nat : n \in Levels => U(n) /\ V(n)}
<1>1. 0 \in S
  OBVIOUS
<1>2. ASSUME NEW n \in Nat, n \in S PROVE n + 1 \in S
  <2> DEFINE j == n + 1
  <2> SUFFICES ASSUME j \in Levels PROVE U(j) /\ V(j)
    OBVIOUS
  <2>1. n \in Levels /\ j \in Nat \ {0} /\ j \in 1..j /\ 1..n \subseteq 1..j
    BY LevelsAre
  <2>2. U(n) /\ V(n)
    BY <1>2, <2>1
  <2>3. PartUnder(p[j].node, p[j].pos + 1, p[n].node)
    BY <2>1, PartIs
  <2>4. At(j, p[j])
    BY <2>1, GoodIs DEF Whole
  <2> DEFINE o == p[j].node
             k == Len(Entries(o))
             x == p[j].pos
  <2>5. k \in Nat /\ x \in Nat /\ x < k
    BY <2>1, <2>4 DEF At
  <2>6. ~HasRoom(p[j], 1) => LastItem(p[n].node) = LastItem(o)
    <3>1. ~HasRoom(p[j], 1) => ~(x + 1 < k)
      BY DEF HasRoom
    <3>2. x + 1 = k => LastItem(p[n].node) = LastItem(o)
      BY <2>3 DEF PartUnder
    <3> HIDE DEF x, k
    <3>3. QED
      BY <2>5, <3>1, <3>2
  <2>7. ~HasRoom(p[j], -1) => FirstItem(p[n].node) = FirstItem(o)
    <3>1. ~HasRoom(p[j], -1) => ~(x > 0)
      BY DEF HasRoom
    <3>2. x + 1 = 1 => FirstItem(p[n].node) = FirstItem(o)
      BY <2>3 DEF PartUnder
    <3> HIDE DEF x, k
    <3>3. QED
      BY <2>5, <3>1, <3>2
  <2> HIDE DEF j
  <2>8. U(j)
    BY <2>1, <2>2, <2>6
  <2>9. V(j)
    BY <2>1, <2>2, <2>7
  <2>10. QED
    BY <2>8, <2>9
<1> HIDE DEF S
<1>3. \A n \in Nat : n \in S
  BY <1>1, <1>2, NaturalsIn
<1>4. m \in Nat
  BY LevelsAre
<1>5. QED
  BY <1>3, <1>4 DEF S

\* The number of the item under the iterator, or of the one after the leaf.
Num(p) == FirstItem(p[0].node) + p[0].pos

\* The way to an item, or to the end of the last leaf.
Fine(p) == Whole(p) /\ (AtLeafEnd(p) => LastItem(p[0].node) = count)

\* In a leaf the items are consecutive.
InLeaf(o, i, n) ==
  /\ n = Len(Entries(o)) /\ n \in Nat \ {0} /\ i \in 0..n
  /\ FirstItem(o) \in Nat \ {0} /\ LastItem(o) \in Nat /\ count \in Nat
  /\ LastItem(o) = FirstItem(o) + n - 1 /\ LastItem(o) <= count
  /\ \A j \in 1..n : Entries(o)[j].key = FirstItem(o) + j - 1

LEMMA LeafIs ==
  ASSUME Tree, root.height > 0, NEW p, Whole(p)
  PROVE  InLeaf(p[0].node, p[0].pos, Len(Entries(p[0].node)))
<1> DEFINE o == p[0].node
           i == p[0].pos
           n == Len(Entries(o))
<1>1. At(0, p[0])
  BY LevelsAre, GoodIs DEF Whole
<1>2. Shares(o) /\ disk[o].level = 0 /\ LastItem(o) <= count /\ n \in Nat \ {0} /\ i \in Nat /\ i <= n
  BY <1>1 DEF At
<1>3. /\ FirstItem(o) \in Nat \ {0} /\ LastItem(o) \in Nat
      /\ n = LastItem(o) - FirstItem(o) + 1
      /\ \A j \in 1..n : Entries(o)[j].key = FirstItem(o) + j - 1
  BY <1>2 DEF Shares
<1>4. count \in Nat
  BY DEF Tree
<1> HIDE DEF o, i, n
<1>5. i \in 0..n /\ LastItem(o) = FirstItem(o) + n - 1
  BY <1>2, <1>3
<1>6. QED
  BY <1>2, <1>3, <1>4, <1>5 DEF InLeaf, o, i, n

\* What ItemAt makes of it.
LEMMA ItemIs ==
  ASSUME Tree, root.height > 0, NEW p, Fine(p)
  PROVE  /\ Num(p) \in 1..(count + 1) /\ count \in Nat
         /\ ItemAt(p) = IF Num(p) <= count THEN Num(p) ELSE NoItem
<1> DEFINE o == p[0].node
           i == p[0].pos
           n == Len(Entries(o))
<1>1. InLeaf(o, i, n) /\ (i = n => LastItem(o) = count)
  BY LeafIs DEF Fine, AtLeafEnd
<1>2. o # Released /\ p # <<>>
  <2>1. Whole(p) /\ 0 \in Levels
    BY LevelsAre DEF Fine
  <2>2. o # Released
    BY <2>1, WholeIsHeld
  <2>3. DOMAIN p = Levels
    BY <2>1 DEF Whole
  <2>4. p # <<>>
    BY <2>1, <2>3
  <2>5. QED
    BY <2>2, <2>4
<1>3. ItemAt(p) = IF i = n THEN NoItem ELSE Entries(o)[i + 1].key
  BY <1>2 DEF ItemAt, AtLeafEnd
<1>4. Num(p) = FirstItem(o) + i
  BY DEF Num
<1> HIDE DEF o, i, n
<1>5. /\ n \in Nat \ {0} /\ i \in 0..n
      /\ FirstItem(o) \in Nat \ {0} /\ LastItem(o) \in Nat /\ count \in Nat
      /\ LastItem(o) = FirstItem(o) + n - 1 /\ LastItem(o) <= count
      /\ \A j \in 1..n : Entries(o)[j].key = FirstItem(o) + j - 1
  BY <1>1 DEF InLeaf
<1>6. CASE i = n
  <2>1. Num(p) = count + 1
    BY <1>1, <1>4, <1>5, <1>6
  <2>2. QED
    BY <1>3, <1>5, <1>6, <2>1
<1>7. CASE i # n
  <2>1. i + 1 \in 1..n
    BY <1>5, <1>7
  <2>2. Entries(o)[i + 1].key = FirstItem(o) + (i + 1) - 1
    BY <1>5, <2>1
  <2>3. Entries(o)[i + 1].key = Num(p) /\ Num(p) \in 1..count
    BY <1>4, <1>5, <2>1, <2>2
  <2>4. QED
    BY <1>3, <1>5, <1>7, <2>3
<1>8. QED
  BY <1>6, <1>7

(***************************************************************************)
(* Where ctree_next and ctree_prev go                                      *)
(***************************************************************************)

\* Down to the level top the way w is that of p, and from there on chosen.
Chosen(p, top, choice, w) ==
  \A l \in Levels : /\ l > top => w[l] = p[l]
                    /\ l <= top => w[l].pos = choice[w[l].node][l]

\* On the way down the positions are as chosen.
LEMMA DescendStands ==
  ASSUME Tree, NEW p, NEW top \in Int, NEW choice, NEW w, w = Descend(p, top, choice)
  PROVE  Chosen(p, top, choice, w)
<1>1. w = [l \in Levels |-> OnTheWay(p, top, choice, w, l)]
  BY DescendUnfolds DEF Way, Tree
<1>2. \A l \in Levels : w[l] = OnTheWay(p, top, choice, w, l)
  BY <1>1
<1>3. \A l \in Levels : l <= top => ~(l > top)
  BY DEF Levels
<1>4. \A l \in Levels : ~(l > top) => w[l] = [node |-> Below(w, l), pos |-> choice[Below(w, l)][l]]
  BY <1>2 DEF OnTheWay, Below
<1>5. \A l \in Levels : l > top => w[l] = p[l]
  BY <1>2 DEF OnTheWay
<1>6. \A l \in Levels : l <= top => w[l].pos = choice[w[l].node][l]
  <2> SUFFICES ASSUME NEW l \in Levels, l <= top PROVE w[l].pos = choice[w[l].node][l]
    OBVIOUS
  <2> DEFINE o == Below(w, l)
  <2>1. w[l] = [node |-> o, pos |-> choice[o][l]]
    BY <1>3, <1>4
  <2> HIDE DEF o
  <2>2. w[l].node = o /\ w[l].pos = choice[o][l]
    BY <2>1
  <2>3. QED
    BY <2>2
<1>7. QED
  BY <1>5, <1>6 DEF Chosen

\* A read that succeeds has gone down to the leaf.
LEMMA ReadGoes ==
  ASSUME NEW p, NEW top, NEW choice, NEW again, NEW o \in Read(p, top, choice, again)
  PROVE  o.rc = "error" \/ (o.rc = "ok" /\ o.path = Descend(p, top, choice))
BY DEF Read

\* The level found and the positions below it.
Stepped(p, w, top, by, choice) ==
  /\ w[top].node = p[top].node /\ w[top].pos = p[top].pos + by
  /\ \A l \in Levels : l < top => w[l].pos = choice[w[l].node][l]

\* The step itself.
LEMMA StepAtGoes ==
  ASSUME Tree, root.height > 0, NEW p, Whole(p), NEW top \in Levels, NEW by \in {1, -1},
         HasRoom(p[top], by), NEW choice, Valid(choice), NEW o \in StepAt(p, top, by, choice)
  PROVE  o.rc = "error" \/ (o.rc = "ok" /\ Whole(o.path) /\ Stepped(p, o.path, top, by, choice))
<1> DEFINE q == [l \in Levels |-> IF l < top THEN [p[l] EXCEPT !.node = Released]
                                  ELSE IF l = top THEN [p[l] EXCEPT !.pos = @ + by]
                                  ELSE p[l]]
           u == top - 1
<1>1. o \in Read(q, u, choice, FALSE)
  BY DEF StepAt
<1>2. top \in Nat /\ u \in Int /\ ~(top < top) /\ top > u /\ \A l \in Levels : l < top => l <= u
  BY LevelsAre
<1>3. p[top] \in Stand
  BY DEF Whole
<1>4. q[top] = [p[top] EXCEPT !.pos = p[top].pos + by]
  BY <1>2
<1> HIDE DEF q, u
<1>5. q[top].node = p[top].node /\ q[top].pos = p[top].pos + by
  BY <1>3, <1>4 DEF Stand
<1>6. o.rc = "error" \/ (o.rc = "ok" /\ o.path = Descend(q, u, choice))
  BY <1>1, ReadGoes
<1>7. ASSUME o.rc = "ok" PROVE Stepped(p, o.path, top, by, choice)
  <2> DEFINE w == o.path
  <2>1. w = Descend(q, u, choice)
    BY <1>6, <1>7
  <2> HIDE DEF w
  <2>2. \A l \in Levels : /\ l > u => w[l] = q[l]
                          /\ l <= u => w[l].pos = choice[w[l].node][l]
    BY <1>2, <2>1, DescendStands DEF Chosen
  <2>3. w[top] = q[top] /\ \A l \in Levels : l < top => w[l].pos = choice[w[l].node][l]
    BY <1>2, <2>2
  <2>4. QED
    BY <1>5, <2>3 DEF Stepped, w
<1>8. Held(p) /\ \A l \in Levels : l >= top => p[l].node # Released
  BY WholeIsHeld
<1>9. o.rc = "ok" => Whole(o.path)
  BY <1>8, StepAtIs
<1>10. QED
  BY <1>6, <1>7, <1>9

\* A step is taken at the lowest level with room, if there is one.
LEMMA StepGoes ==
  ASSUME Tree, root.height > 0, NEW p, Whole(p), NEW by \in {1, -1}, NEW choice, Valid(choice),
         NEW stay, NEW o \in Step(p, by, choice, stay), o.rc # "error"
  PROVE  \/ /\ o = [path |-> stay, rc |-> "enoent"]
            /\ \A l \in Levels : ~HasRoom(p[l], by)
         \/ /\ o.rc = "ok" /\ Whole(o.path)
            /\ \E top \in Levels : /\ HasRoom(p[top], by)
                                   /\ \A l \in Levels : l < top => ~HasRoom(p[l], by)
                                   /\ Stepped(p, o.path, top, by, choice)
<1> DEFINE stops == {l \in Levels : p[l].node = Released \/ HasRoom(p[l], by)}
           top == Min(stops)
<1>1. \A l \in Levels : p[l].node # Released
  BY WholeIsHeld
<1>2. CASE stops = {}
  <2>1. o = [path |-> stay, rc |-> "enoent"]
    BY <1>2 DEF Step
  <2>2. QED
    BY <1>2, <2>1
<1>3. CASE stops # {}
  <2>1. stops \in SUBSET Nat
    BY LevelsAre
  <2>2. top \in stops /\ \A j \in stops : top <= j
    BY <1>3, <2>1, MinIs
  <2>3. p[top].node # Released /\ top \in Levels
    BY <1>1, <2>2
  <2>4. o \in StepAt(p, top, by, choice)
    BY <1>3, <2>3 DEF Step
  <2> HIDE DEF top
  <2>5. HasRoom(p[top], by)
    BY <2>2, <2>3
  <2>6. \A l \in Levels : l < top => ~HasRoom(p[l], by)
    <3> SUFFICES ASSUME NEW l \in Levels, l < top, HasRoom(p[l], by) PROVE FALSE
      OBVIOUS
    <3>1. top <= l
      BY <2>2
    <3>2. top \in Nat /\ l \in Nat
      BY <2>3, LevelsAre
    <3>3. QED
      BY <3>1, <3>2
  <2>7. o.rc = "ok" /\ Whole(o.path) /\ Stepped(p, o.path, top, by, choice)
    BY <2>3, <2>4, <2>5, StepAtGoes
  <2>8. QED
    BY <2>3, <2>5, <2>6, <2>7
<1>4. QED
  BY <1>2, <1>3

\* No room for a step up or down at the leaf.
LEMMA LeafRoom ==
  ASSUME Tree, root.height > 0, NEW p, Whole(p)
  PROVE  /\ HasRoom(p[0], 1) <=> p[0].pos + 1 < Len(Entries(p[0].node))
         /\ HasRoom(p[0], -1) <=> p[0].pos > 0
         /\ AtLeafEnd(p) <=> p[0].pos = Len(Entries(p[0].node))
BY DEF HasRoom, AtLeafEnd

\* A step at the leaf.
LEMMA LeafStep ==
  ASSUME Tree, root.height > 0, NEW p, Whole(p), NEW w, Whole(w), NEW by \in {1, -1},
         HasRoom(p[0], by), w[0].node = p[0].node, w[0].pos = p[0].pos + by
  PROVE  /\ Num(w) = Num(p) + by /\ ~AtLeafEnd(w) /\ Num(w) \in 1..count
         /\ by = 1 => ~AtLeafEnd(p)
<1> DEFINE o == p[0].node
           i == p[0].pos
           n == Len(Entries(o))
<1>1. InLeaf(o, i, n)
  BY LeafIs
<1>2. (by = 1 /\ i + 1 < n) \/ (by = -1 /\ i > 0)
  BY LeafRoom
<1>3. Num(p) = FirstItem(o) + i /\ Num(w) = FirstItem(o) + (i + by)
  BY DEF Num
<1>4. (AtLeafEnd(w) <=> i + by = n) /\ (AtLeafEnd(p) <=> i = n)
  BY LeafRoom
<1> HIDE DEF o, i, n
<1>5. /\ n \in Nat \ {0} /\ i \in 0..n
      /\ FirstItem(o) \in Nat \ {0} /\ LastItem(o) \in Nat /\ count \in Nat
      /\ LastItem(o) = FirstItem(o) + n - 1 /\ LastItem(o) <= count
  BY <1>1 DEF InLeaf
<1>6. i + by \in Nat /\ i + by < n /\ (by = 1 => i # n)
  BY <1>2, <1>5
<1>7. QED
  BY <1>3, <1>4, <1>5, <1>6

\* After a step up to level m the leaf is the next one.
LEMMA NextLeaf ==
  ASSUME Tree, root.height > 0, NEW p, Whole(p), NEW w, Whole(w), NEW m \in Levels, m > 0,
         HasRoom(p[m], 1), \A l \in Levels : l < m => ~HasRoom(p[l], 1),
         Stepped(p, w, m, 1, AtFirst)
  PROVE  w[0].pos = 0 /\ FirstItem(w[0].node) = LastItem(p[0].node) + 1
<1> DEFINE j == m - 1
           o == p[m].node
           x == p[m].pos
<1>1. j \in Nat /\ j \in Levels /\ j + 1 = m /\ m \in Nat /\ m - 1 < m /\ 0 \in Levels
      /\ \A l \in 1..j : l \in Levels /\ l < m
  BY LevelsAre
<1>2. LastItem(p[j].node) = LastItem(p[0].node)
  BY <1>1, EdgesAgree
<1>3. \A l \in Levels : l < m => w[l].pos = 0
  <2> SUFFICES ASSUME NEW l \in Levels, l < m PROVE w[l].pos = 0
    OBVIOUS
  <2>1. w[l].node \in DOMAIN disk
    BY DEF Whole, Good, Holds
  <2>2. AtFirst[w[l].node][l] = 0
    BY <2>1 DEF AtFirst, Choice
  <2>3. QED
    BY <2>2 DEF Stepped
<1>4. FirstItem(w[j].node) = FirstItem(w[0].node)
  <2>1. \A l \in 1..j : ~HasRoom(w[l], -1)
    BY <1>1, <1>3 DEF HasRoom
  <2>2. QED
    BY <1>1, <2>1, EdgesAgree
<1>5. PartUnder(o, x + 1, p[j].node)
  BY <1>1, PartIs
<1>6. PartUnder(o, x + 1 + 1, w[j].node)
  <2>1. PartUnder(w[m].node, w[m].pos + 1, w[j].node)
    BY <1>1, PartIs
  <2>2. w[m].node = o /\ w[m].pos = x + 1
    BY DEF Stepped
  <2>3. QED
    BY <2>1, <2>2
<1>7. x + 1 < Len(Entries(o))
  BY DEF HasRoom
<1> HIDE DEF j, o, x
<1>8. Entries(o)[x + 1 + 1].key = LastItem(p[j].node) + 1
  BY <1>5, <1>7 DEF PartUnder
<1>9. FirstItem(w[j].node) = Entries(o)[x + 1 + 1].key
  BY <1>6 DEF PartUnder
<1>10. w[0].pos = 0
  <2>1. 0 < m
    BY <1>1
  <2>2. QED
    BY <1>1, <1>3, <2>1
<1>11. QED
  BY <1>2, <1>4, <1>8, <1>9, <1>10

\* After a step down to level m it is the one before.
LEMMA PrevLeaf ==
  ASSUME Tree, root.height > 0, NEW p, Whole(p), NEW w, Whole(w), NEW m \in Levels, m > 0,
         HasRoom(p[m], -1), \A l \in Levels : l < m => ~HasRoom(p[l], -1),
         Stepped(p, w, m, -1, AtLast)
  PROVE  w[0].pos = Len(Entries(w[0].node)) - 1 /\ FirstItem(p[0].node) = LastItem(w[0].node) + 1
<1> DEFINE j == m - 1
           o == p[m].node
           x == p[m].pos
<1>1. j \in Nat /\ j \in Levels /\ j + 1 = m /\ m \in Nat /\ m - 1 < m /\ 0 \in Levels
      /\ \A l \in 1..j : l \in Levels /\ l < m
  BY LevelsAre
<1>2. FirstItem(p[j].node) = FirstItem(p[0].node)
  BY <1>1, EdgesAgree
<1>3. \A l \in Levels : l < m => w[l].pos = Len(Entries(w[l].node)) - 1
  <2> SUFFICES ASSUME NEW l \in Levels, l < m PROVE w[l].pos = Len(Entries(w[l].node)) - 1
    OBVIOUS
  <2>1. w[l].node \in DOMAIN disk
    BY DEF Whole, Good, Holds
  <2>2. AtLast[w[l].node][l] = Len(Entries(w[l].node)) - 1
    BY <2>1 DEF AtLast, Choice
  <2>3. QED
    BY <2>2 DEF Stepped
<1>4. LastItem(w[j].node) = LastItem(w[0].node)
  <2>1. \A l \in 1..j : ~HasRoom(w[l], 1)
    <3> SUFFICES ASSUME NEW l \in 1..j PROVE ~HasRoom(w[l], 1)
      OBVIOUS
    <3>1. l \in Levels /\ l < m /\ l \in Nat
      BY <1>1
    <3>2. w[l].pos = Len(Entries(w[l].node)) - 1
      BY <1>3, <3>1
    <3>3. Len(Entries(w[l].node)) \in Nat
      BY <3>1, GoodIs DEF Whole, At
    <3>4. ~(w[l].pos + 1 < Len(Entries(w[l].node)))
      BY <3>2, <3>3
    <3>5. QED
      BY <3>4 DEF HasRoom
  <2>2. QED
    BY <1>1, <2>1, EdgesAgree
<1>5. PartUnder(o, x + 1, p[j].node)
  BY <1>1, PartIs
<1>6. At(m, p[m])
  BY <1>1, GoodIs DEF Whole
<1>7. x \in Nat /\ x > 0 /\ x < Len(Entries(o)) /\ Len(Entries(o)) \in Nat
  BY <1>1, <1>6 DEF HasRoom, At
<1>8. PartUnder(o, x, w[j].node)
  <2>1. PartUnder(w[m].node, w[m].pos + 1, w[j].node)
    BY <1>1, PartIs
  <2>2. w[m].node = o /\ w[m].pos = x + (-1)
    BY DEF Stepped
  <2>3. w[m].pos + 1 = x
    BY <1>7, <2>2
  <2>4. QED
    BY <2>1, <2>2, <2>3
<1> HIDE DEF j, o, x
<1>9. Entries(o)[x + 1].key = LastItem(w[j].node) + 1
  BY <1>7, <1>8 DEF PartUnder
<1>10. FirstItem(p[j].node) = Entries(o)[x + 1].key
  BY <1>5 DEF PartUnder
<1>11. w[0].pos = Len(Entries(w[0].node)) - 1
  <2>1. 0 < m
    BY <1>1
  <2>2. QED
    BY <1>1, <1>3, <2>1
<1>12. QED
  BY <1>2, <1>4, <1>9, <1>10, <1>11

\* ctree_next goes to the next item, from the end of a leaf to the first of
\* the next one, and stays at the end of the last.
LEMMA NextIs ==
  ASSUME Tree, root.height > 0, NEW p, Whole(p), NEW o \in NextOf(p), o.rc # "error"
  PROVE  /\ Fine(o.path) /\ Num(o.path) = (IF AtLeafEnd(p) THEN Num(p) ELSE Num(p) + 1)
         /\ o.rc = IF Num(o.path) > count THEN "enoent" ELSE "ok"
<1> DEFINE stay == StaysAtEnd(p)
           w == o.path
           a == p[0].node
           i == p[0].pos
           n == Len(Entries(a))
<1>1. InLeaf(a, i, n)
  BY LeafIs
<1>2. /\ n \in Nat \ {0} /\ i \in 0..n
      /\ FirstItem(a) \in Nat \ {0} /\ LastItem(a) \in Nat /\ count \in Nat
      /\ LastItem(a) = FirstItem(a) + n - 1 /\ LastItem(a) <= count
  BY <1>1 DEF InLeaf
<1>3. Num(p) = FirstItem(a) + i /\ (AtLeafEnd(p) <=> i = n) /\ (HasRoom(p[0], 1) <=> i + 1 < n)
  BY LeafRoom DEF Num
<1>4. 0 \in Levels /\ root.height - 1 \in Levels /\ \A l \in Levels : l \in Nat
  BY LevelsAre
<1>5. o \in Step(p, 1, AtFirst, stay)
  BY WholeIsHeld DEF NextOf
<1>6. \/ /\ o = [path |-> stay, rc |-> "enoent"]
         /\ \A l \in Levels : ~HasRoom(p[l], 1)
      \/ /\ o.rc = "ok" /\ Whole(w)
         /\ \E top \in Levels : /\ HasRoom(p[top], 1)
                                /\ \A l \in Levels : l < top => ~HasRoom(p[l], 1)
                                /\ Stepped(p, w, top, 1, AtFirst)
  BY <1>5, ChoicesAre, StepGoes
<1>7. CASE o = [path |-> stay, rc |-> "enoent"] /\ \A l \in Levels : ~HasRoom(p[l], 1)
  <2>1. LastItem(a) = count
    <3> DEFINE m == root.height - 1
    <3>1. m \in Levels /\ \A l \in 1..m : l \in Levels
      BY LevelsAre
    <3>2. p[m].node = root.ptr
      BY <3>1 DEF Whole, Below
    <3>3. LastItem(p[m].node) = LastItem(a)
      <4> HIDE DEF m
      <4>1. QED
        BY <1>7, <3>1, EdgesAgree
    <3>4. QED
      BY <3>2, <3>3 DEF Tree
  <2>2. Whole(stay)
    BY WholeIsHeld, StaysIs
  <2>3. stay[0].node = a /\ stay[0].pos = n
    <3>1. CASE i = n
      BY <3>1 DEF StaysAtEnd
    <3>2. CASE i # n
      <4>1. stay = [p EXCEPT ![0].pos = @ + 1]
        BY <3>2 DEF StaysAtEnd
      <4>2. p[0] \in Stand /\ DOMAIN p = Levels
        BY <1>4 DEF Whole
      <4>3. stay[0] = [p[0] EXCEPT !.pos = i + 1]
        BY <1>4, <4>1, <4>2
      <4> HIDE DEF stay
      <4>4. stay[0].node = a /\ stay[0].pos = i + 1
        BY <4>2, <4>3 DEF Stand
      <4> HIDE DEF a, i, n
      <4>5. i + 1 = n
        BY <1>2, <1>3, <1>4, <1>7, <3>2
      <4>6. QED
        BY <4>4, <4>5
    <3>3. QED
      BY <3>1, <3>2
  <2>4. w = stay /\ o.rc = "enoent"
    BY <1>7
  <2> HIDE DEF stay, w
  <2>5. Num(w) = FirstItem(a) + n /\ AtLeafEnd(w)
    BY <2>3, <2>4 DEF Num, AtLeafEnd, n
  <2>6. Fine(w)
    BY <2>1, <2>2, <2>3, <2>4 DEF Fine
  <2> HIDE DEF a, i, n
  <2>7. i = n \/ i + 1 = n
    BY <1>2, <1>3, <1>4, <1>7
  <2>8. Num(w) = count + 1 /\ Num(w) > count
    BY <1>2, <2>1, <2>5
  <2>9. Num(w) = IF AtLeafEnd(p) THEN Num(p) ELSE Num(p) + 1
    BY <1>2, <1>3, <2>5, <2>7
  <2>10. QED
    BY <2>4, <2>6, <2>8, <2>9 DEF w
<1>8. CASE /\ o.rc = "ok" /\ Whole(w)
           /\ \E top \in Levels : /\ HasRoom(p[top], 1)
                                  /\ \A l \in Levels : l < top => ~HasRoom(p[l], 1)
                                  /\ Stepped(p, w, top, 1, AtFirst)
  <2>1. PICK m \in Levels : /\ HasRoom(p[m], 1)
                            /\ \A l \in Levels : l < m => ~HasRoom(p[l], 1)
                            /\ Stepped(p, w, m, 1, AtFirst)
    BY <1>8
  <2> HIDE DEF w
  <2>2. ASSUME ~AtLeafEnd(w), Num(w) \in 1..count, Num(w) = IF AtLeafEnd(p) THEN Num(p) ELSE Num(p) + 1
        PROVE  Fine(w) /\ o.rc = IF Num(w) > count THEN "enoent" ELSE "ok"
    <3>1. Fine(w)
      BY <1>8, <2>2 DEF Fine
    <3>2. ~(Num(w) > count)
      BY <1>2, <2>2
    <3>3. QED
      BY <1>8, <3>1, <3>2
  <2>3. CASE m = 0
    <3>1. HasRoom(p[0], 1) /\ w[0].node = p[0].node /\ w[0].pos = p[0].pos + 1
      BY <2>1, <2>3 DEF Stepped
    <3>2. Num(w) = Num(p) + 1 /\ ~AtLeafEnd(w) /\ Num(w) \in 1..count /\ ~AtLeafEnd(p)
      BY <1>8, <3>1, LeafStep
    <3>3. QED
      BY <2>2, <3>2 DEF w
  <2>4. CASE m # 0
    <3> DEFINE b == w[0].node
    <3>1. m > 0 /\ 0 < m
      BY <1>4, <2>4
    <3>2. w[0].pos = 0 /\ FirstItem(b) = LastItem(a) + 1
      BY <1>8, <2>1, <3>1, NextLeaf
    <3>3. i = n \/ i + 1 = n
      <4>1. ~HasRoom(p[0], 1)
        BY <1>4, <2>1, <3>1
      <4> HIDE DEF a, i, n
      <4>2. QED
        BY <1>2, <1>3, <4>1
    <3>4. InLeaf(b, 0, Len(Entries(b)))
      BY <1>8, <3>2, LeafIs
    <3>5. Len(Entries(b)) \in Nat \ {0} /\ LastItem(b) = FirstItem(b) + Len(Entries(b)) - 1
          /\ LastItem(b) <= count /\ LastItem(b) \in Nat
      BY <3>4 DEF InLeaf
    <3>6. ~AtLeafEnd(w)
      BY <3>2, <3>5 DEF AtLeafEnd
    <3>7. Num(w) = FirstItem(b) + 0
      BY <3>2 DEF Num
    <3> DEFINE k == Len(Entries(b))
    <3>8. k \in Nat \ {0} /\ LastItem(b) = FirstItem(b) + k - 1
      BY <3>5
    <3> HIDE DEF k, b, a, i, n
    <3>9. Num(w) = LastItem(a) + 1 /\ Num(w) \in 1..count
      BY <1>2, <3>2, <3>5, <3>7, <3>8
    <3>10. Num(w) = IF AtLeafEnd(p) THEN Num(p) ELSE Num(p) + 1
      BY <1>2, <1>3, <3>3, <3>9
    <3>11. QED
      BY <2>2, <3>6, <3>9, <3>10 DEF w
  <2>5. QED
    BY <2>3, <2>4
<1>9. QED
  BY <1>6, <1>7, <1>8

\* ctree_prev goes to the item before, and stays at the first.
LEMMA PrevIs ==
  ASSUME Tree, root.height > 0, NEW p, Fine(p), NEW o \in PrevOf(p), o.rc # "error"
  PROVE  IF Num(p) = 1 THEN o.path = p /\ o.rc = "enoent"
         ELSE Fine(o.path) /\ Num(o.path) = Num(p) - 1 /\ o.rc = "ok"
<1> DEFINE w == o.path
           a == p[0].node
           i == p[0].pos
           n == Len(Entries(a))
<1>0. Whole(p)
  BY DEF Fine
<1>1. InLeaf(a, i, n)
  BY <1>0, LeafIs
<1>2. /\ n \in Nat \ {0} /\ i \in 0..n
      /\ FirstItem(a) \in Nat \ {0} /\ LastItem(a) \in Nat /\ count \in Nat
      /\ LastItem(a) = FirstItem(a) + n - 1 /\ LastItem(a) <= count
  BY <1>1 DEF InLeaf
<1>3. Num(p) = FirstItem(a) + i /\ (HasRoom(p[0], -1) <=> i > 0)
  BY <1>0, LeafRoom DEF Num
<1>4. 0 \in Levels /\ root.height - 1 \in Levels /\ \A l \in Levels : l \in Nat
  BY LevelsAre
<1>5. o \in Step(p, -1, AtLast, p)
  BY DEF PrevOf
<1>6. \/ /\ o = [path |-> p, rc |-> "enoent"]
         /\ \A l \in Levels : ~HasRoom(p[l], -1)
      \/ /\ o.rc = "ok" /\ Whole(w)
         /\ \E top \in Levels : /\ HasRoom(p[top], -1)
                                /\ \A l \in Levels : l < top => ~HasRoom(p[l], -1)
                                /\ Stepped(p, w, top, -1, AtLast)
  BY <1>0, <1>5, ChoicesAre, StepGoes
<1>7. CASE o = [path |-> p, rc |-> "enoent"] /\ \A l \in Levels : ~HasRoom(p[l], -1)
  <2>1. FirstItem(a) = 1
    <3> DEFINE m == root.height - 1
    <3>1. m \in Levels /\ \A l \in 1..m : l \in Levels
      BY LevelsAre
    <3>2. p[m].node = root.ptr
      BY <1>0, <3>1 DEF Whole, Below
    <3>3. FirstItem(p[m].node) = FirstItem(a)
      <4> HIDE DEF m
      <4>1. QED
        BY <1>0, <1>7, <3>1, EdgesAgree
    <3>4. QED
      BY <3>2, <3>3 DEF Tree
  <2>2. o.path = p /\ o.rc = "enoent"
    BY <1>7
  <2> HIDE DEF a, i, n
  <2>3. i = 0
    BY <1>2, <1>3, <1>4, <1>7
  <2>4. Num(p) = 1
    BY <1>3, <2>1, <2>3
  <2>5. QED
    BY <2>2, <2>4
<1>8. CASE /\ o.rc = "ok" /\ Whole(w)
           /\ \E top \in Levels : /\ HasRoom(p[top], -1)
                                  /\ \A l \in Levels : l < top => ~HasRoom(p[l], -1)
                                  /\ Stepped(p, w, top, -1, AtLast)
  <2>1. PICK m \in Levels : /\ HasRoom(p[m], -1)
                            /\ \A l \in Levels : l < m => ~HasRoom(p[l], -1)
                            /\ Stepped(p, w, m, -1, AtLast)
    BY <1>8
  <2> HIDE DEF w
  <2>2. ASSUME ~AtLeafEnd(w), Num(w) \in Nat \ {0}, Num(p) = Num(w) + 1
        PROVE  Num(p) # 1 /\ Fine(w) /\ Num(w) = Num(p) - 1
    <3>1. Fine(w)
      BY <1>8, <2>2 DEF Fine
    <3>2. Num(p) # 1 /\ Num(w) = Num(p) - 1
      BY <2>2
    <3>3. QED
      BY <3>1, <3>2
  <2>3. CASE m = 0
    <3>1. HasRoom(p[0], -1) /\ w[0].node = p[0].node /\ w[0].pos = p[0].pos + (-1)
      BY <2>1, <2>3 DEF Stepped
    <3>2. Num(w) = Num(p) + (-1) /\ ~AtLeafEnd(w) /\ Num(w) \in 1..count
      BY <1>0, <1>8, <3>1, LeafStep
    <3> HIDE DEF a, i, n
    <3>3. Num(p) = Num(w) + 1 /\ Num(w) \in Nat \ {0}
      BY <1>2, <1>3, <3>2
    <3>4. QED
      BY <1>8, <2>2, <3>2, <3>3 DEF w
  <2>4. CASE m # 0
    <3> DEFINE b == w[0].node
               k == Len(Entries(b))
    <3>1. m > 0 /\ 0 < m
      BY <1>4, <2>4
    <3>2. w[0].pos = k - 1 /\ FirstItem(a) = LastItem(b) + 1
      BY <1>0, <1>8, <2>1, <3>1, PrevLeaf
    <3>3. i = 0
      <4>1. ~HasRoom(p[0], -1)
        BY <1>4, <2>1, <3>1
      <4> HIDE DEF a, i, n
      <4>2. QED
        BY <1>2, <1>3, <4>1
    <3>4. InLeaf(b, w[0].pos, k)
      BY <1>8, LeafIs
    <3>5. /\ k \in Nat \ {0} /\ LastItem(b) = FirstItem(b) + k - 1
          /\ FirstItem(b) \in Nat \ {0} /\ LastItem(b) \in Nat
      BY <3>4 DEF InLeaf
    <3>6. (AtLeafEnd(w) <=> w[0].pos = k) /\ Num(w) = FirstItem(b) + w[0].pos
      BY DEF AtLeafEnd, Num
    <3> HIDE DEF k, b, a, i, n
    <3>7. ~AtLeafEnd(w) /\ Num(w) = LastItem(b) /\ Num(w) \in Nat \ {0} /\ Num(p) = Num(w) + 1
      BY <1>2, <1>3, <3>2, <3>3, <3>5, <3>6
    <3>8. QED
      BY <1>8, <2>2, <3>7 DEF w
  <2>5. QED
    BY <2>3, <2>4
<1>9. QED
  BY <1>6, <1>7, <1>8

(***************************************************************************)
(* Where the positioning calls go                                          *)
(***************************************************************************)

\* The path is whole, and its positions are the ones chosen.
Positioned(o, choice) ==
  o.rc = "ok" /\ Whole(o.path) /\ \A l \in Levels : o.path[l].pos = choice[o.path[l].node][l]

\* A positioning call that succeeds goes the whole way from the root.
LEMMA PositionGoes ==
  ASSUME Tree, root.height > 0, NEW p, p = <<>> \/ Held(p), NEW choice, Valid(choice), NEW again,
         NEW o \in NotPrepared(p) \cup Read(Prepared(p), root.height - 1, choice, again)
  PROVE  o.rc = "error" \/ Positioned(o, choice)
<1> DEFINE q == Prepared(p)
           top == root.height - 1
           w == o.path
<1>1. CASE o \in NotPrepared(p)
  BY <1>1 DEF NotPrepared
<1>2. CASE o \in Read(q, top, choice, again) /\ o.rc # "error"
  <2>1. o.rc = "ok" /\ w = Descend(q, top, choice)
    BY <1>2, ReadGoes
  <2>2. Whole(w)
    BY <1>2, <2>1, PositionIs DEF Lands
  <2>3. top \in Int /\ \A l \in Levels : l <= top
    BY LevelsAre
  <2>4. Chosen(q, top, choice, w)
    <3> HIDE DEF q, top, w
    <3>1. QED
      BY <2>1, <2>3, DescendStands
  <2>5. \A l \in Levels : w[l].pos = choice[w[l].node][l]
    BY <2>3, <2>4 DEF Chosen
  <2>6. QED
    BY <2>1, <2>2, <2>5 DEF Positioned
<1>3. QED
  BY <1>1, <1>2

\* The first node of every level has the first item, the last one the last.
LEMMA RootHasAll ==
  ASSUME Tree, root.height > 0, NEW p, Whole(p)
  PROVE  /\ (\A l \in Levels : l > 0 => ~HasRoom(p[l], 1)) => LastItem(p[0].node) = count
         /\ (\A l \in Levels : l > 0 => ~HasRoom(p[l], -1)) => FirstItem(p[0].node) = 1
<1> DEFINE m == root.height - 1
<1>1. m \in Levels /\ \A l \in 1..m : l \in Levels /\ l > 0
  BY LevelsAre
<1>2. p[m].node = root.ptr
  BY <1>1 DEF Whole, Below
<1>3. FirstItem(root.ptr) = 1 /\ LastItem(root.ptr) = count
  BY DEF Tree
<1> HIDE DEF m
<1>4. /\ (\A l \in 1..m : ~HasRoom(p[l], 1)) => LastItem(p[m].node) = LastItem(p[0].node)
      /\ (\A l \in 1..m : ~HasRoom(p[l], -1)) => FirstItem(p[m].node) = FirstItem(p[0].node)
  BY <1>1, EdgesAgree
<1>5. QED
  BY <1>1, <1>2, <1>3, <1>4

\* ctree_begin
LEMMA BeginIs ==
  ASSUME Tree, root.height > 0, NEW p, p = <<>> \/ Held(p), NEW again,
         NEW o \in NotPrepared(p) \cup Read(Prepared(p), root.height - 1, AtFirst, again)
  PROVE  o.rc = "error" \/ (o.rc = "ok" /\ Fine(o.path) /\ Num(o.path) = 1)
<1> DEFINE w == o.path
<1> SUFFICES ASSUME o.rc # "error" PROVE o.rc = "ok" /\ Fine(w) /\ Num(w) = 1
  OBVIOUS
<1>1. o.rc = "ok" /\ Whole(w) /\ \A l \in Levels : w[l].pos = AtFirst[w[l].node][l]
  BY PositionGoes, ChoicesAre DEF Positioned
<1> HIDE DEF w
<1>2. \A l \in Levels : w[l].pos = 0
  <2> SUFFICES ASSUME NEW l \in Levels PROVE w[l].pos = 0
    OBVIOUS
  <2>1. w[l].node \in DOMAIN disk
    BY <1>1 DEF Whole, Good, Holds
  <2>2. AtFirst[w[l].node][l] = 0
    BY <2>1 DEF AtFirst, Choice
  <2>3. QED
    BY <1>1, <2>2
<1>3. FirstItem(w[0].node) = 1
  <2>1. \A l \in Levels : ~HasRoom(w[l], -1)
    BY <1>2 DEF HasRoom
  <2>2. QED
    BY <1>1, <2>1, RootHasAll
<1>4. w[0].pos = 0
  BY <1>2, LevelsAre
<1>5. Len(Entries(w[0].node)) # 0
  BY <1>1, LeafIs DEF InLeaf
<1>6. Num(w) = 1
  BY <1>3, <1>4 DEF Num
<1>7. QED
  BY <1>1, <1>4, <1>5, <1>6 DEF Fine, AtLeafEnd

\* ctree_end
LEMMA EndIs ==
  ASSUME Tree, root.height > 0, NEW p, p = <<>> \/ Held(p), NEW again,
         NEW o \in NotPrepared(p) \cup Read(Prepared(p), root.height - 1, AtEnd, again)
  PROVE  o.rc = "error" \/ (o.rc = "ok" /\ Fine(o.path) /\ Num(o.path) = count + 1)
<1> DEFINE w == o.path
<1> SUFFICES ASSUME o.rc # "error" PROVE o.rc = "ok" /\ Fine(w) /\ Num(w) = count + 1
  OBVIOUS
<1>1. o.rc = "ok" /\ Whole(w) /\ \A l \in Levels : w[l].pos = AtEnd[w[l].node][l]
  <2>1. Valid(AtEnd)
    BY ChoicesAre
  <2> DEFINE c == AtEnd
  <2>2. o \in NotPrepared(p) \cup Read(Prepared(p), root.height - 1, c, again) /\ Valid(c)
    BY <2>1
  <2> HIDE DEF c
  <2>3. o.rc = "error" \/ Positioned(o, c)
    BY <2>2, PositionGoes
  <2>4. QED
    BY <2>3 DEF Positioned, c
<1> HIDE DEF w
<1>2. \A l \in Levels : w[l].pos = Len(Entries(w[l].node)) - (IF l = 0 THEN 0 ELSE 1)
  <2> SUFFICES ASSUME NEW l \in Levels
               PROVE  w[l].pos = Len(Entries(w[l].node)) - (IF l = 0 THEN 0 ELSE 1)
    OBVIOUS
  <2>1. w[l].node \in DOMAIN disk
    BY <1>1 DEF Whole, Good, Holds
  <2>2. AtEnd[w[l].node][l] = Len(Entries(w[l].node)) - (IF l = 0 THEN 0 ELSE 1)
    BY <2>1 DEF AtEnd, Choice
  <2>3. QED
    BY <1>1, <2>2
<1>3. LastItem(w[0].node) = count
  <2>1. ASSUME NEW l \in Levels, l > 0 PROVE ~HasRoom(w[l], 1)
    <3>1. l \in Nat /\ l # 0
      BY <2>1, LevelsAre
    <3>2. Len(Entries(w[l].node)) \in Nat
      BY <1>1, <3>1, GoodIs DEF Whole, At
    <3>3. w[l].pos = Len(Entries(w[l].node)) - 1
      BY <1>2, <3>1
    <3>4. ~(w[l].pos + 1 < Len(Entries(w[l].node)))
      BY <3>2, <3>3
    <3>5. QED
      BY <3>4 DEF HasRoom
  <2>2. QED
    BY <1>1, <2>1, RootHasAll
<1> DEFINE b == w[0].node
           k == Len(Entries(b))
<1>4. InLeaf(b, w[0].pos, k) /\ w[0].pos = k - 0 /\ Num(w) = FirstItem(b) + w[0].pos
  BY <1>1, <1>2, LeafIs, LevelsAre DEF Num
<1> HIDE DEF b, k
<1>5. Num(w) = count + 1
  <2>1. /\ k \in Nat /\ LastItem(b) = FirstItem(b) + k - 1 /\ FirstItem(b) \in Nat
    BY <1>4 DEF InLeaf
  <2>2. LastItem(b) = count
    BY <1>3 DEF b
  <2>3. QED
    BY <1>4, <2>1, <2>2
<1>6. QED
  BY <1>1, <1>3, <1>5 DEF Fine

\* What the least of the indices is that have a property, or one past the last.
LEMMA LeastIs ==
  ASSUME NEW n \in Nat, NEW S \in SUBSET (1..n)
  PROVE  LET u == Min(S \cup {n + 1}) - 1
         IN  /\ u \in 0..n /\ \A i \in 1..u : i \notin S
             /\ u < n => u + 1 \in S
<1> DEFINE R == S \cup {n + 1}
           m == Min(R)
<1>1. R \in SUBSET Nat /\ R # {} /\ \A j \in R : j \in 1..(n + 1)
  OBVIOUS
<1>2. m \in R /\ \A j \in R : m <= j
  BY <1>1, MinIs
<1>3. m \in 1..(n + 1)
  BY <1>1, <1>2
<1>4. ASSUME NEW i \in 1..(m - 1), i \in S PROVE FALSE
  <2>1. m <= i
    BY <1>2, <1>4
  <2>2. m \in Nat
    BY <1>3
  <2> HIDE DEF m
  <2>3. QED
    BY <2>1, <2>2
<1>5. m - 1 < n => (m - 1) + 1 \in S
  <2>1. m # n + 1 => m \in S
    BY <1>2
  <2> HIDE DEF m, R
  <2>2. QED
    BY <1>3, <2>1
<1>6. QED
  <2>1. m - 1 \in 0..n
    <3> HIDE DEF m, R
    <3>1. QED
      BY <1>3
  <2>2. QED
    BY <1>4, <1>5, <2>1

\* k lies at an item of o or just past one, unless o is the first or the last.
Near(o, k) ==
  /\ Place(FirstItem(o)) <= k \/ FirstItem(o) = 1
  /\ k < Place(LastItem(o) + 1) \/ LastItem(o) = count

\* i is the first of n items from the place k on, or one past the last.
FirstFrom(n, i, k) ==
  /\ i \in 1..(n + 1) /\ (i = 1 \/ Place(i - 1) < k)
  /\ i <= n => Place(i) >= k

\* __ctree_lookup goes down by the last entry that is not past k.
LEMMA SearchDown ==
  ASSUME Tree, root.height > 0, NEW p, Whole(p), NEW k \in Nat, NEW l \in Levels, l + 1 \in Levels,
         p[l + 1].pos = AtSought(k)[p[l + 1].node][l + 1], Near(p[l + 1].node, k)
  PROVE  Near(p[l].node, k)
<1> DEFINE s == p[l + 1]
           o == s.node
           c == p[l].node
           n == Len(Entries(o))
           key(i) == Entries(o)[i].key
           u == UpperPos(o, k)
           S == {i \in 1..n : Place(key(i)) > k}
<1>1. l \in Nat /\ l + 1 \in Nat /\ l + 1 # 0
  BY LevelsAre
<1>2. Good(l + 1, s) /\ Good(l, p[l]) /\ o \in DOMAIN disk
  BY DEF Whole, Good, Holds
<1>3. At(l + 1, s) /\ At(l, p[l])
  BY <1>1, <1>2, GoodIs
<1>4. Shares(o) /\ n \in Nat \ {0} /\ Entries(o)[1].key = FirstItem(o) /\ FirstItem(o) \in Nat
      /\ LastItem(o) \in Nat
  BY <1>3 DEF At, Shares
<1>5. Shares(c) /\ FirstItem(c) \in Nat /\ LastItem(c) \in Nat /\ FirstItem(c) <= LastItem(c)
  BY <1>3 DEF At, Shares
<1>6. PartUnder(o, s.pos + 1, c)
  BY PartIs
<1>7. s.pos = Max({u - 1, 0})
  <2>1. AtSought(k)[o][l + 1] = Max({UpperPos(o, k) - 1, 0})
    BY <1>1, <1>2 DEF AtSought, Choice
  <2>2. QED
    BY <2>1
<1>8. u \in 0..n /\ (\A i \in 1..u : i \notin S) /\ (u < n => u + 1 \in S)
  <2>1. DOMAIN Entries(o) = 1..n
    BY <1>2 DEF Tree
  <2>2. u = Min(S \cup {n + 1}) - 1
    BY <2>1 DEF UpperPos
  <2>3. S \in SUBSET (1..n) /\ n \in Nat
    BY <1>4
  <2> HIDE DEF S, u, n
  <2>4. QED
    BY <2>2, <2>3, LeastIs
<1>9. Near(o, k)
  OBVIOUS
<1> HIDE DEF s, o, c, n
<1>10. \A i \in 1..n : i \in S <=> Place(key(i)) > k
  OBVIOUS
<1> HIDE DEF S
<1>11. CASE u = 0
  <2>1. s.pos = 0
    <3>1. {u - 1, 0} = {-1, 0}
      BY <1>11
    <3>2. Max({-1, 0}) = 0
      <4>1. \A x \in {-1, 0} : (\A j \in {-1, 0} : x >= j) => x = 0
        OBVIOUS
      <4>2. \A j \in {-1, 0} : 0 >= j
        OBVIOUS
      <4>3. QED
        BY <4>1, <4>2 DEF Max
    <3>3. QED
      BY <1>7, <3>1, <3>2
  <2>2. FirstItem(c) = FirstItem(o)
    BY <1>6, <2>1 DEF PartUnder
  <2>3. Place(FirstItem(o)) > k
    <3>1. 1 \in 1..n /\ u < n /\ u + 1 = 1
      BY <1>4, <1>11
    <3>2. Place(key(1)) > k
      BY <1>8, <1>10, <3>1
    <3>3. QED
      BY <1>4, <3>2
  <2>4. FirstItem(c) = 1
    <3>1. ~(Place(FirstItem(o)) <= k)
      BY <1>4, <2>3 DEF Place
    <3>2. QED
      BY <1>9, <2>2, <3>1 DEF Near
  <2>5. k < Place(LastItem(c) + 1)
    BY <1>5, <2>2, <2>3 DEF Place
  <2>6. QED
    BY <2>4, <2>5 DEF Near, c
<1>12. CASE u # 0
  <2>1. s.pos = u - 1
    <3>1. u - 1 \in 0..n /\ {u - 1, 0} \in SUBSET (0..n) /\ {u - 1, 0} # {}
      BY <1>4, <1>8, <1>12
    <3>2. Max({u - 1, 0}) \in {u - 1, 0} /\ \A j \in {u - 1, 0} : Max({u - 1, 0}) >= j
      BY <1>4, <3>1, MaxIs
    <3> HIDE DEF u
    <3>3. QED
      BY <1>7, <3>1, <3>2
  <2>2. u \in 1..n /\ s.pos + 1 = u /\ u \in 1..u
    BY <1>4, <1>8, <1>12, <2>1
  <2> HIDE DEF u, key
  <2>3. PartUnder(o, u, c)
    BY <1>6, <2>2
  <2>4. FirstItem(c) = key(u)
    BY <2>3 DEF PartUnder, key
  <2>5. Place(FirstItem(c)) <= k
    <3>1. ~(Place(key(u)) > k)
      BY <1>8, <1>10, <2>2
    <3>2. QED
      BY <1>5, <2>4, <3>1 DEF Place
  <2>6. CASE u = n
    <3>1. LastItem(c) = LastItem(o)
      BY <2>3, <2>6 DEF PartUnder, n
    <3>2. QED
      BY <1>9, <2>5, <3>1 DEF Near, c
  <2>7. CASE u # n
    <3>1. u < n /\ u + 1 \in 1..n
      BY <1>4, <2>2, <2>7
    <3>2. key(u + 1) = LastItem(c) + 1
      BY <2>3, <3>1 DEF PartUnder, n, key
    <3>3. Place(key(u + 1)) > k
      BY <1>8, <1>10, <3>1
    <3>4. k < Place(LastItem(c) + 1)
      BY <1>5, <3>2, <3>3 DEF Place
    <3>5. QED
      BY <2>5, <3>4 DEF Near, c
  <2>8. QED
    BY <2>6, <2>7
<1>13. QED
  BY <1>11, <1>12

\* In the leaf it goes to the first item from k on, or past the last.
LEMMA SearchLeaf ==
  ASSUME Tree, root.height > 0, NEW p, Whole(p), NEW k \in Nat,
         p[0].pos = LowerPos(p[0].node, k), Near(p[0].node, k)
  PROVE  FirstFrom(count, Num(p), k)
<1> DEFINE o == p[0].node
           n == Len(Entries(o))
           key(i) == Entries(o)[i].key
           u == p[0].pos
           S == {i \in 1..n : Place(key(i)) >= k}
<1>1. InLeaf(o, u, n)
  BY LeafIs
<1>2. /\ n \in Nat \ {0} /\ FirstItem(o) \in Nat \ {0} /\ LastItem(o) \in Nat /\ count \in Nat
      /\ LastItem(o) = FirstItem(o) + n - 1 /\ LastItem(o) <= count
      /\ \A j \in 1..n : key(j) = FirstItem(o) + j - 1
  BY <1>1 DEF InLeaf
<1>3. u \in 0..n /\ (\A i \in 1..u : i \notin S) /\ (u < n => u + 1 \in S)
  <2>1. DOMAIN Entries(o) = 1..n
    BY DEF Whole, Good, Holds, Tree, Levels
  <2>2. u = Min(S \cup {n + 1}) - 1
    BY <2>1 DEF LowerPos
  <2>3. S \in SUBSET (1..n) /\ n \in Nat
    BY <1>2
  <2> HIDE DEF S, u, n
  <2>4. QED
    BY <2>2, <2>3, LeastIs
<1>4. Num(p) = FirstItem(o) + u
  BY DEF Num
<1>5. Near(o, k)
  OBVIOUS
<1>6. \A i \in 1..n : i \in S <=> Place(key(i)) >= k
  OBVIOUS
<1> HIDE DEF o, n, key, u, S
<1>7. Num(p) \in 1..(count + 1)
  BY <1>2, <1>3, <1>4
<1>8. Num(p) = 1 \/ Place(Num(p) - 1) < k
  <2>1. CASE u = 0
    <3>1. FirstItem(o) = Num(p)
      BY <1>2, <1>4, <2>1
    <3>2. Place(Num(p)) <= k \/ Num(p) = 1
      BY <1>5, <3>1 DEF Near
    <3>3. QED
      BY <1>7, <3>2 DEF Place
  <2>2. CASE u # 0
    <3>1. u \in 1..u /\ u \in 1..n
      BY <1>2, <1>3, <2>2
    <3>2. ~(Place(key(u)) >= k)
      BY <1>3, <1>6, <3>1
    <3>3. key(u) = Num(p) - 1
      BY <1>2, <1>4, <3>1
    <3>4. QED
      BY <1>7, <3>2, <3>3 DEF Place
  <2>3. QED
    BY <2>1, <2>2
<1>9. ASSUME Num(p) <= count PROVE Place(Num(p)) >= k
  <2>1. CASE u < n
    <3>1. u + 1 \in 1..n
      BY <1>2, <1>3, <2>1
    <3>2. Place(key(u + 1)) >= k
      BY <1>3, <1>6, <2>1, <3>1
    <3>3. key(u + 1) = Num(p)
      BY <1>2, <1>3, <1>4, <3>1
    <3>4. QED
      BY <3>2, <3>3
  <2>2. CASE ~(u < n)
    <3>1. Num(p) = LastItem(o) + 1
      BY <1>2, <1>3, <1>4, <2>2
    <3>2. LastItem(o) # count
      BY <1>2, <1>9, <3>1
    <3>3. k < Place(Num(p))
      BY <1>5, <3>1, <3>2 DEF Near
    <3>4. QED
      BY <1>7, <3>3 DEF Place
  <2>3. QED
    BY <2>1, <2>2
<1>10. QED
  BY <1>7, <1>8, <1>9 DEF FirstFrom

\* The whole search.
LEMMA SearchIs ==
  ASSUME Tree, root.height > 0, NEW p, Whole(p), NEW k \in Nat,
         \A l \in Levels : p[l].pos = AtSought(k)[p[l].node][l]
  PROVE  FirstFrom(count, Num(p), k)
<1> DEFINE h == root.height
           S == {n \in Nat : n < h => Near(p[h - 1 - n].node, k)}
<1>1. h \in Nat \ {0} /\ Levels = 0..(h - 1)
  BY LevelsAre
<1>2. 0 \in S
  <2>1. h - 1 - 0 = h - 1 /\ h - 1 \in Levels
    BY <1>1
  <2>2. p[h - 1].node = root.ptr
    BY <2>1 DEF Whole, Below
  <2>3. FirstItem(root.ptr) = 1 /\ LastItem(root.ptr) = count
    BY DEF Tree
  <2>4. Near(root.ptr, k)
    BY <2>3 DEF Near
  <2>5. QED
    BY <2>1, <2>2, <2>4
<1>3. ASSUME NEW n \in Nat, n \in S PROVE n + 1 \in S
  <2> DEFINE l == h - 1 - (n + 1)
  <2> SUFFICES ASSUME n + 1 < h PROVE Near(p[l].node, k)
    OBVIOUS
  <2>1. l \in Levels /\ l + 1 \in Levels /\ l + 1 = h - 1 - n /\ n < h
    BY <1>1
  <2>2. Near(p[l + 1].node, k)
    BY <1>3, <2>1
  <2> HIDE DEF l
  <2>3. QED
    BY <2>1, <2>2, SearchDown
<1> HIDE DEF S
<1>4. \A n \in Nat : n \in S
  BY <1>2, <1>3, NaturalsIn
<1>5. h - 1 \in S /\ h - 1 < h /\ h - 1 - (h - 1) = 0 /\ 0 \in Levels
  BY <1>1, <1>4
<1>6. Near(p[0].node, k)
  BY <1>5 DEF S
<1>7. p[0].pos = LowerPos(p[0].node, k)
  <2>1. p[0].node \in DOMAIN disk
    BY <1>5 DEF Whole, Good, Holds
  <2>2. AtSought(k)[p[0].node][0] = LowerPos(p[0].node, k)
    BY <1>5, <2>1 DEF AtSought, Choice
  <2>3. QED
    BY <1>5, <2>2
<1>8. QED
  BY <1>6, <1>7, SearchLeaf

\* A search that succeeds.
LEMMA LookupInGoes ==
  ASSUME Tree, root.height > 0, NEW p, p = <<>> \/ Held(p), NEW k \in Nat, NEW o \in LookupIn(p, k)
  PROVE  o.rc = "error" \/ (o.rc = "ok" /\ Whole(o.path) /\ FirstFrom(count, Num(o.path), k))
<1> DEFINE c == AtSought(k)
<1>1. Valid(c) /\ o \in NotPrepared(p) \cup Read(Prepared(p), root.height - 1, c, FALSE)
  BY ChoicesAre DEF LookupIn
<1> HIDE DEF c
<1>2. o.rc = "error" \/ Positioned(o, c)
  BY <1>1, PositionGoes
<1>3. CASE Positioned(o, c)
  <2> DEFINE w == o.path
  <2>1. o.rc = "ok" /\ Whole(w) /\ \A l \in Levels : w[l].pos = AtSought(k)[w[l].node][l]
    BY <1>3 DEF Positioned, c
  <2> HIDE DEF w
  <2>2. FirstFrom(count, Num(w), k)
    BY <2>1, SearchIs
  <2>3. QED
    BY <2>1, <2>2 DEF w
<1>4. QED
  BY <1>2, <1>3

\* ctree_lower_bound
LEMMA LowerBoundGoes ==
  ASSUME Tree, root.height > 0, NEW p, p = <<>> \/ Held(p), NEW k \in Nat, NEW o \in LowerBound(p, k)
  PROVE  o.rc = "error" \/ (o.rc = "ok" /\ Fine(o.path) /\ FirstFrom(count, Num(o.path), k))
<1>1. PICK a \in LookupIn(p, k) :
        o \in (IF a.rc = "ok"
               THEN IF ~AtLeafEnd(a.path) THEN {[path |-> a.path, rc |-> "ok"]}
                    ELSE {IF b.rc = "enoent" THEN [b EXCEPT !.rc = "ok"] ELSE b : b \in NextOf(a.path)}
               ELSE {a})
  <2>1. root.height # 0
    OBVIOUS
  <2>2. QED
    BY <2>1 DEF LowerBound, Then
<1>2. a.rc = "error" \/ (a.rc = "ok" /\ Whole(a.path) /\ FirstFrom(count, Num(a.path), k))
  BY LookupInGoes
<1>3. CASE a.rc # "ok"
  BY <1>1, <1>2, <1>3
<1>4. CASE a.rc = "ok" /\ ~AtLeafEnd(a.path)
  BY <1>1, <1>2, <1>4 DEF Fine
<1>5. CASE a.rc = "ok" /\ AtLeafEnd(a.path)
  <2>1. PICK b \in NextOf(a.path) : o = IF b.rc = "enoent" THEN [b EXCEPT !.rc = "ok"] ELSE b
    BY <1>1, <1>5
  <2>2. Whole(a.path) /\ Held(a.path)
    BY <1>2, <1>5, WholeIsHeld
  <2>3. b = [path |-> b.path, rc |-> b.rc]
    BY <2>2, NextAndPrevAre
  <2>4. b.rc # "error" =>
          Fine(b.path) /\ Num(b.path) = Num(a.path) /\ b.rc \in {"ok", "enoent"}
    BY <1>5, <2>2, NextIs
  <2>5. o.path = b.path /\ o.rc = IF b.rc = "enoent" THEN "ok" ELSE b.rc
    BY <2>1, <2>3
  <2>6. QED
    BY <1>2, <1>5, <2>4, <2>5
<1>6. QED
  BY <1>3, <1>4, <1>5

\* Where a fine path stands.
LEMMA FineStands ==
  ASSUME Tree, root.height > 0, NEW p, Fine(p), NEW k \in Nat
  PROVE  /\ Num(p) \in 1..(count + 1) /\ count \in Nat
         /\ StandsOn(p, k) <=> Num(p) <= count /\ Place(Num(p)) = k
<1> DEFINE i == Num(p)
<1>1. i \in 1..(count + 1) /\ count \in Nat /\ ItemAt(p) = IF i <= count THEN i ELSE NoItem
  BY ItemIs
<1> HIDE DEF i
<1>2. ItemAt(p) # NoItem <=> i <= count
  BY <1>1 DEF NoItem
<1>3. QED
  BY <1>1, <1>2 DEF StandsOn, i

\* ctree_upper_bound
LEMMA UpperBoundGoes ==
  ASSUME Tree, root.height > 0, NEW p, p = <<>> \/ Held(p), NEW k \in Nat, NEW o \in UpperBound(p, k)
  PROVE  \/ o.rc = "error"
         \/ /\ Fine(o.path) /\ FirstFrom(count, Num(o.path), k + 1)
            /\ o.rc = "ok" \/ (o.rc = "enoent" /\ Num(o.path) > count)
<1>1. PICK a \in LowerBound(p, k) :
        o \in (IF a.rc = "ok"
               THEN IF StandsOn(a.path, k) THEN NextOf(a.path) ELSE {[path |-> a.path, rc |-> "ok"]}
               ELSE {a})
  BY DEF UpperBound, Then
<1>2. a.rc = "error" \/ (a.rc = "ok" /\ Fine(a.path) /\ FirstFrom(count, Num(a.path), k))
  BY LowerBoundGoes
<1>3. CASE a.rc # "ok"
  BY <1>1, <1>2, <1>3
<1>4. CASE a.rc = "ok"
  <2> DEFINE i == Num(a.path)
  <2>1. Fine(a.path) /\ Whole(a.path) /\ FirstFrom(count, i, k)
    BY <1>2, <1>4 DEF Fine
  <2>2. i \in 1..(count + 1) /\ count \in Nat /\ (StandsOn(a.path, k) <=> i <= count /\ Place(i) = k)
    BY <2>1, FineStands
  <2>3. CASE ~StandsOn(a.path, k)
    <3>1. o.path = a.path /\ o.rc = "ok"
      BY <1>1, <1>4, <2>3
    <3> HIDE DEF i
    <3>2. FirstFrom(count, i, k + 1)
      BY <2>1, <2>2, <2>3 DEF FirstFrom, Place
    <3>3. QED
      BY <2>1, <3>1, <3>2 DEF i
  <2>4. CASE StandsOn(a.path, k) /\ o.rc # "error"
    <3>1. o \in NextOf(a.path) /\ ~AtLeafEnd(a.path)
      <4>1. ItemAt(a.path) # NoItem
        BY <2>4 DEF StandsOn
      <4>2. QED
        BY <1>1, <1>4, <2>4, <4>1 DEF ItemAt
    <3>2. /\ Fine(o.path) /\ Num(o.path) = i + 1
          /\ o.rc = IF Num(o.path) > count THEN "enoent" ELSE "ok"
      BY <2>1, <2>4, <3>1, NextIs
    <3>3. Num(o.path) \in 1..(count + 1)
      BY <3>2, ItemIs
    <3> HIDE DEF i
    <3>4. FirstFrom(count, Num(o.path), k + 1)
      BY <2>2, <2>4, <3>2, <3>3 DEF FirstFrom, Place
    <3>5. QED
      BY <3>2, <3>4
  <2>5. QED
    BY <2>3, <2>4
<1>5. QED
  BY <1>3, <1>4

\* ctree_lookup
LEMMA LookupGoes ==
  ASSUME Tree, root.height > 0, NEW p, p = <<>> \/ Held(p), NEW k \in Nat, NEW o \in Lookup(p, k)
  PROVE  \/ o.rc = "error"
         \/ /\ Fine(o.path) /\ FirstFrom(count, Num(o.path), k)
            /\ o.rc = IF Num(o.path) <= count /\ Place(Num(o.path)) = k THEN "found" ELSE "absent"
<1>1. PICK a \in LowerBound(p, k) :
        o \in (IF a.rc = "ok"
               THEN {[path |-> a.path, rc |-> IF StandsOn(a.path, k) THEN "found" ELSE "absent"]}
               ELSE {a})
  BY DEF Lookup, Then
<1>2. a.rc = "error" \/ (a.rc = "ok" /\ Fine(a.path) /\ FirstFrom(count, Num(a.path), k))
  BY LowerBoundGoes
<1>3. CASE a.rc # "ok"
  BY <1>1, <1>2, <1>3
<1>4. CASE a.rc = "ok"
  <2>1. Fine(a.path) /\ FirstFrom(count, Num(a.path), k)
    BY <1>2, <1>4
  <2>2. StandsOn(a.path, k) <=> Num(a.path) <= count /\ Place(Num(a.path)) = k
    BY <2>1, FineStands
  <2>3. o.path = a.path /\ o.rc = IF StandsOn(a.path, k) THEN "found" ELSE "absent"
    BY <1>1, <1>4
  <2>4. QED
    BY <2>1, <2>2, <2>3
<1>5. QED
  BY <1>3, <1>4

(***************************************************************************)
(* What each call does, over a tree of any height, the empty one too       *)
(***************************************************************************)

\* The number of items there are to walk; in the empty tree there is no path.
Walked == IF root.height > 0 THEN count ELSE 0

\* The number of the item under the path, or one past the last.
Spot(p) == IF ItemAt(p) = NoItem THEN Walked + 1 ELSE ItemAt(p)

\* A path that stands on an item, or past the last.
Settled(p) ==
  /\ ItemAt(p) = NoItem \/ ItemAt(p) \in 1..Walked
  /\ root.height > 0 => Fine(p)

\* It stands at the item i.
To(o, i) == Settled(o.path) /\ Spot(o.path) = i

\* What any outcome is, whatever failed.
Safe(o) == (o.path = <<>> \/ Held(o.path)) /\ o.rc \in Cursor!Results

\* Before the first positioning call there is no path, except in the empty tree.
Usable(p) == (p = <<>> \/ Held(p)) /\ (root.height > 0 => p # <<>>)

LEMMA WalkedIs ==
  ASSUME Tree
  PROVE  /\ Walked \in 0..MaxItems /\ MaxItems \in Nat
         /\ root.height > 0 => Walked = count
         /\ ~(root.height > 0) => Walked = 0 /\ root.height = 0 /\ Levels = {}
BY DEF Tree, Walked, Levels

\* A fine path stands where its number says.
LEMMA FineSettles ==
  ASSUME Tree, root.height > 0, NEW p, Fine(p)
  PROVE  Settled(p) /\ Spot(p) = Num(p) /\ Num(p) \in 1..(Walked + 1) /\ Walked = count
<1> DEFINE i == Num(p)
<1>1. i \in 1..(count + 1) /\ count \in Nat /\ ItemAt(p) = IF i <= count THEN i ELSE NoItem
  BY ItemIs
<1>2. Walked = count
  BY DEF Walked
<1> HIDE DEF i
<1>3. i \in 1..count => i # NoItem
  BY DEF NoItem
<1>4. ItemAt(p) = NoItem \/ ItemAt(p) \in 1..count
  BY <1>1
<1>5. Spot(p) = i
  <2>1. CASE i <= count
    BY <1>1, <1>3, <2>1 DEF Spot
  <2>2. CASE ~(i <= count)
    <3>1. i = count + 1
      BY <1>1, <2>2
    <3>2. QED
      BY <1>1, <1>2, <2>2, <3>1 DEF Spot
  <2>3. QED
    BY <2>1, <2>2
<1>6. QED
  BY <1>1, <1>2, <1>4, <1>5 DEF Settled, i

\* Where it may be.
LEMMA SpotIs ==
  ASSUME Tree, NEW p, Settled(p)
  PROVE  /\ Spot(p) \in 1..(Walked + 1) /\ Walked \in Nat
         /\ ItemAt(p) = IF Spot(p) <= Walked THEN Spot(p) ELSE NoItem
<1> DEFINE w == Walked
           i == ItemAt(p)
<1>1. w \in Nat /\ (i = NoItem \/ i \in 1..w) /\ Spot(p) = IF i = NoItem THEN w + 1 ELSE i
  BY WalkedIs DEF Settled, Spot
<1> HIDE DEF w, i
<1>2. Spot(p) \in 1..(w + 1) /\ i = IF Spot(p) <= w THEN Spot(p) ELSE NoItem
  <2>1. CASE i = NoItem
    <3>1. Spot(p) = w + 1 /\ ~(w + 1 <= w) /\ w + 1 \in 1..(w + 1)
      BY <1>1, <2>1
    <3>2. QED
      BY <2>1, <3>1
  <2>2. CASE i # NoItem
    <3>1. Spot(p) = i /\ i \in 1..w
      BY <1>1, <2>2
    <3>2. i <= w /\ i \in 1..(w + 1)
      BY <1>1, <3>1
    <3>3. QED
      BY <3>1, <3>2
  <2>3. QED
    BY <2>1, <2>2
<1>3. QED
  BY <1>1, <1>2 DEF w, i

\* In the empty tree every path is past the last item.
LEMMA FlatSettles ==
  ASSUME Tree, ~(root.height > 0), NEW p
  PROVE  Settled(p) /\ Spot(p) = 1 /\ Walked = 0 /\ root.height = 0
BY WalkedIs DEF Settled, Spot, ItemAt

\* The path a positioning call leaves there.
LEMMA FlatRead ==
  ASSUME Tree, ~(root.height > 0), NEW p, NEW choice, NEW again,
         NEW o \in NotPrepared(p) \cup Read(Prepared(p), root.height - 1, choice, again)
  PROVE  (o.rc = "error" /\ o.path = p) \/ (o.rc = "ok" /\ Held(o.path))
<1>1. root.height = 0 /\ Levels = {} /\ root.height \in Nat
  BY WalkedIs DEF Tree
<1>2. CASE o \in NotPrepared(p)
  BY <1>2 DEF NotPrepared
<1>3. CASE o \in Read(Prepared(p), root.height - 1, choice, again)
  <2> DEFINE q == Prepared(p)
             top == root.height - 1
             w == Descend(q, top, choice)
  <2>1. top \in Int /\ \A f : f \notin 0..top
    BY <1>1
  <2>2. o = [path |-> w, rc |-> "ok"]
    <3> HIDE DEF q, top
    <3>1. o \in Read(q, top, choice, again)
      BY <1>3 DEF q, top
    <3>2. QED
      BY <2>1, <3>1 DEF Read
  <2> HIDE DEF q, top
  <2>3. w = [l \in Levels |-> OnTheWay(q, top, choice, w, l)]
    BY <1>1, <2>1, DescendUnfolds DEF Way
  <2> HIDE DEF w
  <2>4. w \in [Levels -> Stand]
    BY <1>1, <2>3
  <2>5. Held(w)
    BY <1>1, <2>4 DEF Held
  <2>6. QED
    BY <2>2, <2>5
<1>4. QED
  BY <1>2, <1>3

\* ctree_begin goes to the first item ...
LEMMA BeginDoes ==
  ASSUME Tree, NEW p, p = <<>> \/ Held(p), NEW again,
         NEW o \in NotPrepared(p) \cup Read(Prepared(p), root.height - 1, AtFirst, again)
  PROVE  Safe(o) /\ (o.rc = "error" \/ (o.rc = "ok" /\ To(o, 1)))
<1>1. CASE root.height > 0
  <2>1. Lands(o) /\ o.rc \in {"ok", "error"}
    BY <1>1, PositionIs, ChoicesAre
  <2>2. o.rc = "error" \/ (o.rc = "ok" /\ Fine(o.path) /\ Num(o.path) = 1)
    BY <1>1, BeginIs
  <2>3. QED
    BY <1>1, <2>1, <2>2, FineSettles DEF Lands, Safe, To, Cursor!Results
<1>2. CASE ~(root.height > 0)
  BY <1>2, FlatRead, FlatSettles DEF Safe, To, Cursor!Results
<1>3. QED
  BY <1>1, <1>2

\* ... and ctree_end past the last.
LEMMA EndDoes ==
  ASSUME Tree, NEW p, p = <<>> \/ Held(p), NEW again,
         NEW o \in NotPrepared(p) \cup Read(Prepared(p), root.height - 1, AtEnd, again)
  PROVE  Safe(o) /\ (o.rc = "error" \/ (o.rc = "ok" /\ To(o, Walked + 1)))
<1>1. CASE root.height > 0
  <2>1. Valid(AtEnd)
    BY ChoicesAre
  <2> DEFINE c == AtEnd
  <2>2. Valid(c) /\ o \in NotPrepared(p) \cup Read(Prepared(p), root.height - 1, c, again)
    BY <2>1
  <2> HIDE DEF c
  <2>3. Lands(o) /\ o.rc \in {"ok", "error"}
    BY <1>1, <2>2, PositionIs
  <2>4. o.rc = "error" \/ (o.rc = "ok" /\ Fine(o.path) /\ Num(o.path) = count + 1)
    BY <1>1, EndIs
  <2>5. QED
    BY <1>1, <2>3, <2>4, FineSettles DEF Lands, Safe, To, Cursor!Results
<1>2. CASE ~(root.height > 0)
  <2>1. (o.rc = "error" /\ o.path = p) \/ (o.rc = "ok" /\ Held(o.path))
    BY <1>2, FlatRead
  <2>2. QED
    BY <1>2, <2>1, FlatSettles DEF Safe, To, Cursor!Results
<1>3. QED
  BY <1>1, <1>2

\* ctree_lower_bound goes to the first item from k on ...
LEMMA LowerBoundDoes ==
  ASSUME Tree, NEW p, p = <<>> \/ Held(p), NEW k \in Nat, NEW o \in LowerBound(p, k)
  PROVE  /\ Safe(o)
         /\ o.rc = "error" \/ (o.rc = "ok" /\ \E i : To(o, i) /\ FirstFrom(Walked, i, k))
<1>1. CASE root.height > 0
  <2>1. Lands(o) /\ o.rc \in {"ok", "error", "abort"}
    BY <1>1, LowerBoundIs
  <2>2. o.rc = "error" \/ (o.rc = "ok" /\ Fine(o.path) /\ FirstFrom(count, Num(o.path), k))
    BY <1>1, LowerBoundGoes
  <2>3. QED
    BY <1>1, <2>1, <2>2, FineSettles DEF Lands, Safe, To, Cursor!Results
<1>2. CASE ~(root.height > 0)
  <2>1. o = [path |-> p, rc |-> "ok"]
    BY <1>2, WalkedIs DEF LowerBound
  <2>2. Settled(p) /\ Spot(p) = 1 /\ Walked = 0
    BY <1>2, FlatSettles
  <2>3. FirstFrom(0, 1, k)
    BY DEF FirstFrom
  <2>4. QED
    BY <2>1, <2>2, <2>3 DEF Safe, To, Cursor!Results
<1>3. QED
  BY <1>1, <1>2

\* ... ctree_upper_bound past it ...
LEMMA UpperBoundDoes ==
  ASSUME Tree, NEW p, p = <<>> \/ Held(p), NEW k \in Nat, NEW o \in UpperBound(p, k)
  PROVE  /\ Safe(o)
         /\ \/ o.rc = "error"
            \/ \E i : /\ To(o, i) /\ FirstFrom(Walked, i, k + 1)
                      /\ o.rc = "ok" \/ (o.rc = "enoent" /\ i > Walked)
<1>1. CASE root.height > 0
  <2>1. Lands(o)
    BY <1>1, SearchesAre
  <2>2. \/ o.rc = "error"
        \/ /\ Fine(o.path) /\ FirstFrom(count, Num(o.path), k + 1)
           /\ o.rc = "ok" \/ (o.rc = "enoent" /\ Num(o.path) > count)
    BY <1>1, UpperBoundGoes
  <2>3. QED
    BY <1>1, <2>1, <2>2, FineSettles DEF Lands, Safe, To, Cursor!Results
<1>2. CASE ~(root.height > 0)
  <2>1. LowerBound(p, k) = {[path |-> p, rc |-> "ok"]} /\ ItemAt(p) = NoItem
    BY <1>2, WalkedIs DEF LowerBound, ItemAt
  <2>2. o = [path |-> p, rc |-> "ok"]
    BY <2>1 DEF UpperBound, Then, StandsOn
  <2>3. Settled(p) /\ Spot(p) = 1 /\ Walked = 0
    BY <1>2, FlatSettles
  <2>4. FirstFrom(0, 1, k + 1)
    BY DEF FirstFrom
  <2>5. QED
    BY <2>2, <2>3, <2>4 DEF Safe, To, Cursor!Results
<1>3. QED
  BY <1>1, <1>2

\* ... and ctree_lookup tells whether k is there.
LEMMA LookupDoes ==
  ASSUME Tree, NEW p, p = <<>> \/ Held(p), NEW k \in Nat, NEW o \in Lookup(p, k)
  PROVE  /\ Safe(o)
         /\ \/ o.rc = "error"
            \/ \E i : /\ To(o, i) /\ FirstFrom(Walked, i, k)
                      /\ o.rc = IF i <= Walked /\ Place(i) = k THEN "found" ELSE "absent"
<1>1. CASE root.height > 0
  <2>1. Lands(o)
    BY <1>1, SearchesAre
  <2>2. \/ o.rc = "error"
        \/ /\ Fine(o.path) /\ FirstFrom(count, Num(o.path), k)
           /\ o.rc = IF Num(o.path) <= count /\ Place(Num(o.path)) = k THEN "found" ELSE "absent"
    BY <1>1, LookupGoes
  <2>3. QED
    BY <1>1, <2>1, <2>2, FineSettles DEF Lands, Safe, To, Cursor!Results
<1>2. CASE ~(root.height > 0)
  <2>1. LowerBound(p, k) = {[path |-> p, rc |-> "ok"]} /\ ItemAt(p) = NoItem
    BY <1>2, WalkedIs DEF LowerBound, ItemAt
  <2>2. o = [path |-> p, rc |-> "absent"]
    BY <2>1 DEF Lookup, Then, StandsOn
  <2>3. Settled(p) /\ Spot(p) = 1 /\ Walked = 0
    BY <1>2, FlatSettles
  <2>4. FirstFrom(0, 1, k)
    BY DEF FirstFrom
  <2>5. QED
    BY <2>2, <2>3, <2>4 DEF Safe, To, Cursor!Results
<1>3. QED
  BY <1>1, <1>2

\* ctree_next goes one item up ...
LEMMA NextDoes ==
  ASSUME Tree, NEW p, Usable(p), NEW o \in NextOf(p)
  PROVE  /\ Safe(o)
         /\ Settled(p) =>
              LET i == Spot(p)
                  j == IF i > Walked THEN i ELSE i + 1
              IN  o.rc = "error" \/ (To(o, j) /\ o.rc = IF j > Walked THEN "enoent" ELSE "ok")
<1>1. CASE root.height > 0
  <2>1. Held(p)
    BY <1>1 DEF Usable
  <2>2. Held(o.path) /\ o.rc \in {"ok", "error", "enoent", "abort"}
    BY <1>1, <2>1, NextAndPrevAre
  <2>3. ASSUME Settled(p), o.rc # "error"
        PROVE  LET i == Spot(p)
                   j == IF i > Walked THEN i ELSE i + 1
               IN  To(o, j) /\ o.rc = IF j > Walked THEN "enoent" ELSE "ok"
    <3>1. Fine(p) /\ Whole(p)
      BY <1>1, <2>3 DEF Settled, Fine
    <3>2. /\ Fine(o.path) /\ Num(o.path) = (IF AtLeafEnd(p) THEN Num(p) ELSE Num(p) + 1)
          /\ o.rc = IF Num(o.path) > count THEN "enoent" ELSE "ok"
      BY <1>1, <2>3, <3>1, NextIs
    <3>3. Settled(o.path) /\ Spot(o.path) = Num(o.path) /\ Num(o.path) \in 1..(Walked + 1)
      BY <1>1, <3>2, FineSettles
    <3>4. Spot(p) = Num(p) /\ Num(p) \in 1..(Walked + 1) /\ Walked = count /\ Walked \in Nat
      BY <1>1, <2>3, <3>1, FineSettles, SpotIs
    <3>5. AtLeafEnd(p) => Num(p) > Walked
      <4>1. AtLeafEnd(p) => ItemAt(p) = NoItem
        BY DEF ItemAt
      <4>2. QED
        BY <3>4, <4>1 DEF Spot
    <3>6. Num(o.path) = IF Num(p) > Walked THEN Num(p) ELSE Num(p) + 1
      BY <3>2, <3>3, <3>4, <3>5
    <3>7. QED
      BY <3>2, <3>3, <3>4, <3>6 DEF To
  <2>4. QED
    BY <2>2, <2>3 DEF Safe, Cursor!Results
<1>2. CASE ~(root.height > 0)
  <2>1. root.height = 0 /\ Levels = {} /\ Walked = 0 /\ Settled(p) /\ Spot(p) = 1
    BY <1>2, WalkedIs, FlatSettles
  <2>2. StaysAtEnd(p) = p
    BY <1>2 DEF StaysAtEnd
  <2>3. o = [path |-> p, rc |-> "enoent"]
    BY <2>1, <2>2 DEF NextOf, Step
  <2>4. QED
    BY <2>1, <2>3 DEF Safe, Usable, To, Cursor!Results
<1>3. QED
  BY <1>1, <1>2

\* ... and ctree_prev one down.
LEMMA PrevDoes ==
  ASSUME Tree, NEW p, Usable(p), NEW o \in PrevOf(p)
  PROVE  /\ Safe(o)
         /\ Settled(p) =>
              \/ o.rc = "error"
              \/ Spot(p) = 1 /\ To(o, 1) /\ o.rc = "enoent"
              \/ Spot(p) # 1 /\ To(o, Spot(p) - 1) /\ o.rc = "ok"
<1>1. CASE root.height > 0
  <2>1. Held(p)
    BY <1>1 DEF Usable
  <2>2. Held(o.path) /\ o.rc \in {"ok", "error", "enoent", "abort"}
    BY <1>1, <2>1, NextAndPrevAre
  <2>3. ASSUME Settled(p), o.rc # "error"
        PROVE  \/ Spot(p) = 1 /\ To(o, 1) /\ o.rc = "enoent"
               \/ Spot(p) # 1 /\ To(o, Spot(p) - 1) /\ o.rc = "ok"
    <3>1. Fine(p)
      BY <1>1, <2>3 DEF Settled
    <3>2. IF Num(p) = 1 THEN o.path = p /\ o.rc = "enoent"
          ELSE Fine(o.path) /\ Num(o.path) = Num(p) - 1 /\ o.rc = "ok"
      BY <1>1, <2>3, <3>1, PrevIs
    <3>3. Spot(p) = Num(p)
      BY <1>1, <3>1, FineSettles
    <3>4. CASE Num(p) = 1
      BY <2>3, <3>2, <3>3, <3>4 DEF To
    <3>5. CASE Num(p) # 1
      <4>1. Settled(o.path) /\ Spot(o.path) = Num(p) - 1
        BY <1>1, <3>2, <3>5, FineSettles
      <4>2. QED
        BY <3>2, <3>3, <3>5, <4>1 DEF To
    <3>6. QED
      BY <3>4, <3>5
  <2>4. QED
    BY <2>2, <2>3 DEF Safe, Cursor!Results
<1>2. CASE ~(root.height > 0)
  <2>1. Levels = {} /\ Settled(p) /\ Spot(p) = 1
    BY <1>2, WalkedIs, FlatSettles
  <2>2. o = [path |-> p, rc |-> "enoent"]
    BY <2>1 DEF PrevOf, Step
  <2>3. QED
    BY <2>1, <2>2 DEF Safe, Usable, To, Cursor!Results
<1>3. QED
  BY <1>1, <1>2

\* Whatever failed, the item under the path is one of the tree's.
LEMMA HeldItem ==
  ASSUME Tree, NEW p, p = <<>> \/ Held(p)
  PROVE  ItemAt(p) \in 1..MaxItems \cup {NoItem}
<1> DEFINE s == p[0]
           es == Entries(s.node)
<1>1. CASE ItemAt(p) # NoItem
  <2>1. root.height > 0 /\ Held(p) /\ s.node # Released /\ ~AtLeafEnd(p)
        /\ ItemAt(p) = es[s.pos + 1].key
    <3>1. root.height # 0 /\ p # <<>> /\ s.node # Released /\ ~AtLeafEnd(p)
          /\ ItemAt(p) = es[s.pos + 1].key
      BY <1>1 DEF ItemAt
    <3>2. QED
      BY <3>1 DEF Tree
  <2>2. Good(0, s) /\ 0 \in Nat /\ 0 \in Levels
    BY <2>1, LevelsAre DEF Held
  <2>3. At(0, s)
    BY <2>2, GoodIs
  <2> DEFINE n == Len(es)
             f == FirstItem(s.node)
             m == LastItem(s.node)
  <2>4. /\ n \in Nat /\ s.pos \in Nat /\ s.pos <= n /\ f \in Nat \ {0} /\ m \in Nat
        /\ n = m - f + 1 /\ m <= count
        /\ \A i \in 1..n : es[i].key = f + i - 1
    BY <2>3 DEF At, Shares
  <2>5. s.pos # n
    BY <2>1 DEF AtLeafEnd
  <2>6. count \in 0..MaxItems /\ MaxItems \in Nat
    BY DEF Tree
  <2> HIDE DEF n, f, m, es, s
  <2>7. s.pos + 1 \in 1..n
    BY <2>4, <2>5
  <2>8. ItemAt(p) = f + s.pos
    BY <2>1, <2>4, <2>7
  <2>9. QED
    BY <2>4, <2>5, <2>6, <2>8
<1>2. QED
  BY <1>1

(***************************************************************************)
(* The inductive invariant                                                 *)
(***************************************************************************)

\* The tree is one the builder makes; until it is finished the iterator has not
\* been used, and from then on its path is held, and while it is ready whole,
\* and at the end of a leaf only in the last one.
IterInv ==
  /\ OrderInv
  /\ pc # "done" => path = <<>> /\ ~ready
  /\ pc = "done" => (path = <<>> \/ Held(path)) /\ (ready /\ root.height > 0 => Fine(path))
  /\ ready \in BOOLEAN /\ call \in Cursor!Calls /\ rc \in Cursor!Results

\* Nothing below a node changes while the disk does not.
LEMMA ItemsStay ==
  ASSUME disk' = disk
  PROVE  ItemsBelow' = ItemsBelow
<1>1. ItemsBelow = CHOOSE f : Unfolds(disk, f)
  BY DEF ItemsBelow, Unfolds
<1>2. ItemsBelow' = CHOOSE f : Unfolds(disk', f)
  BY DEF ItemsBelow, Unfolds
<1>3. QED
  BY <1>1, <1>2

\* A finished tree stays as it is.
LEMMA DoneIsDone == pc = "done" => ~Next
BY DEF Next, CallAppend, FlushReserve, FlushWrite, PutEntry, CallFinish, FinishLevel, FinishSingle,
       RootReserve, RootWrite, CallFails, Retry, Cancel, Overrun

\* The invariant holds before anything is built or read ...
LEMMA IterInvStarts == IterInit => IterInv
<1> SUFFICES ASSUME IterInit PROVE IterInv
  OBVIOUS
<1>1. OrderInv /\ pc # "done" /\ path = <<>> /\ ~ready
  BY OrderInvStarts DEF IterInit, Init
<1>2. ready \in BOOLEAN /\ call = <<"setup", 0>> /\ rc = "ok"
  BY DEF IterInit
<1>3. call \in Cursor!Calls /\ rc \in Cursor!Results
  BY <1>2 DEF Cursor!Calls, Cursor!Results
<1>4. QED
  BY <1>1, <1>2, <1>3 DEF IterInv

\* The calls, with the keys they are given.
LEMMA CallsAre ==
  /\ <<"begin", 0>> \in Cursor!Calls /\ <<"end", 0>> \in Cursor!Calls
  /\ <<"next", 0>> \in Cursor!Calls /\ <<"prev", 0>> \in Cursor!Calls
  /\ \A k \in Sought : /\ <<"lower_bound", k>> \in Cursor!Calls
                       /\ <<"upper_bound", k>> \in Cursor!Calls
                       /\ <<"lookup", k>> \in Cursor!Calls
  /\ Cursor!Key = Sought
<1>1. MaxItems \in Nat
  BY BuilderAssumption
<1>2. Cursor!Key = Sought
  BY <1>1 DEF Cursor!Key, Sought
<1>3. QED
  BY <1>2 DEF Cursor!Calls

\* While it is ready the iterator stands on an item or past the last.
LEMMA ReadySettles ==
  ASSUME IterInv, pc = "done"
  PROVE  Tree /\ (path = <<>> \/ Held(path)) /\ (ready => Settled(path))
<1>1. Tree /\ (path = <<>> \/ Held(path)) /\ (ready /\ root.height > 0 => Fine(path))
  BY TreeIs DEF IterInv
<1>2. QED
  BY <1>1, FineSettles, FlatSettles

\* What a call that is answered does to the invariant.
LEMMA AnswerKeeps ==
  ASSUME IterInv, pc = "done", UNCHANGED vars, call' \in Cursor!Calls, ready' \in BOOLEAN,
         NEW o, Safe(o), path' = o.path, rc' = o.rc, ready' => Settled(o.path)
  PROVE  IterInv'
<1>1. OrderInv'
  BY OrderInvStays DEF IterInv
<1>2. root' = root /\ disk' = disk /\ pc' = pc /\ count' = count /\ ItemsBelow' = ItemsBelow
  BY ItemsStay DEF vars
<1>3. (path' = <<>> \/ Held(path')) /\ (ready' /\ root.height > 0 => Fine(path'))
  BY DEF Safe, Settled
<1>4. ((path = <<>> \/ Held(path)) /\ (ready /\ root.height > 0 => Fine(path)))'
  BY <1>2, <1>3
     DEF Held, Fine, Whole, AtLeafEnd, Good, Holds, Places, Entries, Below, ChildOf, Levels, InTree,
         FirstItem, LastItem
<1>5. rc' \in Cursor!Results /\ (call \in Cursor!Calls)' /\ (rc \in Cursor!Results)'
  BY DEF Safe, Cursor!Results, Cursor!Calls, Cursor!Key
<1>6. QED
  BY <1>1, <1>2, <1>4, <1>5 DEF IterInv

(***************************************************************************)
(* The iterator is a cursor over the items                                 *)
(***************************************************************************)

\* The map of the refinement, and the place of an item in it.
Items ==
  [k \in Sought |-> IF root.height > 0 /\ k % 2 = 0 /\ k \div 2 <= count THEN k \div 2 ELSE NoItem]
Past == 2 * MaxItems + 2
Stop(i) == IF i <= Walked THEN Place(i) ELSE Past
Mark(p) == IF ItemAt(p) = NoItem THEN Past ELSE Place(ItemAt(p))

\* The keys the abstract cursor sees.
LEMMA PresentIs ==
  ASSUME Tree
  PROVE  /\ Cursor!Present = {Place(i) : i \in 1..Walked}
         /\ \A i \in 1..Walked : Place(i) \in Sought /\ Place(i) < Past /\ Items[Place(i)] = i
<1>1. Walked \in 0..MaxItems /\ MaxItems \in Nat
      /\ (root.height > 0 => Walked = count) /\ (~(root.height > 0) => Walked = 0)
  BY WalkedIs
<1>2. ASSUME NEW i \in 1..Walked
      PROVE  Place(i) \in Sought /\ Place(i) < Past /\ Items[Place(i)] = i /\ i # NoItem
  <2>1. Place(i) = 2 * i /\ 2 * i \in Sought /\ 2 * i < Past
    BY <1>1 DEF Place, Sought, Past
  <2>2. (2 * i) % 2 = 0 /\ (2 * i) \div 2 = i
    OBVIOUS
  <2>3. root.height > 0 /\ i <= count /\ i # NoItem
    BY <1>1 DEF NoItem
  <2>4. QED
    BY <2>1, <2>2, <2>3 DEF Items
<1>3. ASSUME NEW k \in Sought, Items[k] # NoItem PROVE \E i \in 1..Walked : k = Place(i)
  <2>1. root.height > 0 /\ k % 2 = 0 /\ k \div 2 <= count /\ k \div 2 # NoItem
    BY <1>3 DEF Items
  <2>2. k \in Nat
    BY DEF Sought
  <2>3. k = 2 * (k \div 2) /\ k \div 2 \in Nat
    BY <2>1, <2>2
  <2>4. k \div 2 \in 1..Walked
    BY <1>1, <2>1, <2>3 DEF NoItem
  <2>5. QED
    BY <2>3, <2>4 DEF Place
<1>4. Cursor!Present = {k \in Sought : Items[k] # NoItem}
  BY CallsAre DEF Cursor!Present, Items
<1>5. QED
  BY <1>2, <1>3, <1>4

\* Where the cursor goes when it looks for the next key from k on.
LEMMA FromIs ==
  ASSUME Tree, NEW k \in Nat, NEW i, FirstFrom(Walked, i, k)
  PROVE  Cursor!From(k) = Stop(i)
<1> DEFINE S == {j \in Cursor!Present : j >= k} \cup {Past}
           a == Stop(i)
           w == Walked
<1>1. w \in Nat /\ MaxItems \in Nat /\ w <= MaxItems /\ Past \in Nat
  BY WalkedIs DEF Past
<1>2. /\ i \in 1..(w + 1) /\ (i = 1 \/ Place(i - 1) < k)
      /\ i <= w => Place(i) >= k
  BY DEF FirstFrom
<1>3. \A x : x \in S <=> x = Past \/ (\E j \in 1..w : x = Place(j) /\ x >= k)
  BY PresentIs
<1>4. \A j \in 1..w : Place(j) < Past /\ Place(j) \in Nat
  BY <1>1, PresentIs DEF Place
<1> HIDE DEF S
<1>5. S \in SUBSET Nat /\ S # {}
  BY <1>1, <1>3, <1>4
<1>6. Min(S) \in S /\ \A j \in S : Min(S) <= j
  BY <1>5, MinIs
<1>7. a = IF i <= w THEN Place(i) ELSE Past
  BY DEF Stop
<1> HIDE DEF a, w
<1>8. a \in S
  BY <1>1, <1>2, <1>3, <1>7
<1>9. ASSUME NEW j \in 1..w, Place(j) >= k PROVE a <= Place(j)
  <2>1. j >= i
    <3>1. CASE i = 1
      BY <3>1
    <3>2. CASE i # 1
      BY <1>1, <1>2, <1>9, <3>2 DEF Place
    <3>3. QED
      BY <3>1, <3>2
  <2>2. i <= w
    BY <1>1, <1>2, <2>1
  <2>3. QED
    BY <1>1, <1>2, <1>7, <2>1, <2>2 DEF Place
<1>10. \A x \in S : a <= x
  <2>1. a <= Past
    BY <1>1, <1>2, <1>4, <1>7
  <2>2. QED
    BY <1>3, <1>9, <2>1
<1>11. Cursor!From(k) = Min(S)
  BY DEF Cursor!From, Min, Cursor!Min, S, Past
<1>12. Min(S) = a
  <2> DEFINE m == Min(S)
  <2>1. m \in Nat /\ a \in Nat /\ m <= a /\ a <= m
    BY <1>5, <1>6, <1>8, <1>10
  <2> HIDE DEF m
  <2>2. m = a
    BY ONLY <2>1
  <2>3. QED
    BY <2>2 DEF m
<1>13. QED
  BY <1>11, <1>12 DEF a

\* What the cursor does when a call is answered.
LEMMA AnswerMoves ==
  ASSUME Tree, UNCHANGED vars, ready' = TRUE, NEW o, path' = o.path, rc' = o.rc, NEW i, To(o, i)
  PROVE  Cursor!MoveTo(Stop(i), o.rc)
<1>1. root' = root /\ disk' = disk /\ count' = count
  BY DEF vars
<1>2. ItemAt(path)' = ItemAt(o.path)
  BY <1>1 DEF ItemAt, AtLeafEnd, Entries
<1>3. Items' = Items
  BY <1>1 DEF Items
<1>4. i \in 1..(Walked + 1) /\ Walked \in Nat /\ ItemAt(o.path) = IF i <= Walked THEN i ELSE NoItem
  BY SpotIs DEF To
<1>5. CASE i <= Walked
  <2>1. i \in 1..Walked /\ ItemAt(o.path) = i
    BY <1>4, <1>5
  <2>2. Place(i) < Past /\ Items[Place(i)] = i /\ i # NoItem /\ Place(i) # Past
    BY <2>1, PresentIs DEF NoItem, Place, Past
  <2>3. Mark(path)' = Place(i)
    BY <1>2, <2>1, <2>2 DEF Mark, Past, Place
  <2>4. Stop(i) = Place(i)
    BY <1>5 DEF Stop
  <2>5. Cursor!ValueAt(Place(i)) = i
    BY <2>2 DEF Cursor!ValueAt, Items, Past
  <2>6. QED
    BY <1>2, <1>3, <2>1, <2>3, <2>4, <2>5 DEF Cursor!MoveTo, Items, Mark, Past
<1>6. CASE ~(i <= Walked)
  <2>1. ItemAt(o.path) = NoItem
    BY <1>4, <1>6
  <2>2. Mark(path)' = Past
    BY <1>2, <2>1 DEF Mark, Past
  <2>3. Stop(i) = Past
    BY <1>6 DEF Stop
  <2>4. Cursor!ValueAt(Past) = NoItem
    BY DEF Cursor!ValueAt, Past
  <2>5. QED
    BY <1>2, <1>3, <2>1, <2>2, <2>3, <2>4 DEF Cursor!MoveTo, Items, Mark, Past
<1>7. QED
  BY <1>5, <1>6

\* ... and when it fails.
LEMMA AnswerFails ==
  ASSUME Tree, UNCHANGED vars, ready' = FALSE, call' \in Cursor!Calls, NEW o, Safe(o),
         path' = o.path, rc' = o.rc, ready => o.rc = "error"
  PROVE  Cursor!Fail
<1>1. root' = root /\ disk' = disk /\ count' = count
  BY DEF vars
<1>2. ItemAt(path)' = ItemAt(o.path)
  BY <1>1 DEF ItemAt, AtLeafEnd, Entries
<1>3. Items' = Items
  BY <1>1 DEF Items
<1>4. ItemAt(o.path) \in 1..MaxItems \cup {NoItem} /\ MaxItems \in Nat
  BY HeldItem DEF Safe, Tree
<1>5. Mark(path)' \in 1..Past
  <2>1. Mark(path)' = IF ItemAt(o.path) = NoItem THEN Past ELSE 2 * ItemAt(o.path)
    BY <1>2 DEF Mark, Past, Place
  <2>2. Past = 2 * MaxItems + 2
    BY DEF Past
  <2> HIDE DEF Mark
  <2>3. QED
    BY <1>4, <2>1, <2>2
<1>6. rc' \in Cursor!Results
  BY DEF Safe
<1>7. QED
  BY <1>2, <1>3, <1>4, <1>5, <1>6 DEF Cursor!Fail, Items, Mark, Past

\* A positioning call moves the cursor, unless it fails.
LEMMA PositionsMove ==
  ASSUME IterInv, NEW name, NEW k, <<name, k>> \in Cursor!Calls, NEW S, Positions(name, k, S),
         \A o \in S : Safe(o) /\ (o.rc = "error" \/ (Settled(o.path) /\ o.rc # "abort"))
  PROVE  /\ IterInv'
         /\ \/ Cursor!Fail
            \/ \E o \in S : /\ o.rc # "error" /\ call' = <<name, k>>
                            /\ \A i : To(o, i) => Cursor!MoveTo(Stop(i), o.rc)
<1>1. pc = "done" /\ UNCHANGED vars /\ call' = <<name, k>> /\ call' \in Cursor!Calls
  BY DEF Positions, CanCall
<1>2. PICK o \in S : path' = o.path /\ rc' = o.rc /\ ready' = (o.rc \notin {"error", "abort"})
  BY DEF Positions
<1>3. Safe(o) /\ (o.rc = "error" \/ (Settled(o.path) /\ o.rc # "abort"))
  OBVIOUS
<1>4. Tree
  BY <1>1, ReadySettles
<1>5. IterInv'
  <2>1. ready' \in BOOLEAN /\ (ready' => Settled(o.path))
    BY <1>2, <1>3
  <2>2. QED
    BY <1>1, <1>2, <1>3, <2>1, AnswerKeeps
<1>6. CASE o.rc = "error"
  <2>1. ready' = FALSE
    BY <1>2, <1>6
  <2>2. Cursor!Fail
    BY <1>1, <1>2, <1>3, <1>4, <1>6, <2>1, AnswerFails
  <2>3. QED
    BY <1>5, <2>2
<1>7. CASE o.rc # "error"
  <2>1. ready' = TRUE
    BY <1>2, <1>3, <1>7
  <2>2. \A i : To(o, i) => Cursor!MoveTo(Stop(i), o.rc)
    BY <1>1, <1>2, <1>4, <2>1, AnswerMoves
  <2>3. QED
    BY <1>1, <1>5, <1>7, <2>2
<1>8. QED
  BY <1>6, <1>7

\* A step moves it too, when it is ready; if not, it goes anywhere.
LEMMA StepsMove ==
  ASSUME IterInv, NEW name, <<name, 0>> \in Cursor!Calls, NEW S, Steps(name, S),
         \A o \in S : /\ Safe(o)
                      /\ Settled(path) /\ o.rc # "error" => Settled(o.path) /\ o.rc # "abort"
  PROVE  /\ IterInv'
         /\ \/ Cursor!Fail
            \/ \E o \in S : /\ ready /\ o.rc # "error" /\ call' = <<name, 0>>
                            /\ \A i : To(o, i) => Cursor!MoveTo(Stop(i), o.rc)
<1>1. pc = "done" /\ UNCHANGED vars /\ call' = <<name, 0>> /\ call' \in Cursor!Calls
  BY DEF Steps, CanCall
<1>2. PICK o \in S : /\ path' = o.path /\ rc' = o.rc
                     /\ ready' = (ready /\ o.rc \notin {"error", "abort"})
  BY DEF Steps
<1>3. Safe(o) /\ (Settled(path) /\ o.rc # "error" => Settled(o.path) /\ o.rc # "abort")
  OBVIOUS
<1>4. Tree /\ (ready => Settled(path)) /\ ready \in BOOLEAN
  BY <1>1, ReadySettles DEF IterInv
<1>5. IterInv'
  <2>1. ready' \in BOOLEAN /\ (ready' => Settled(o.path))
    BY <1>2, <1>3, <1>4
  <2>2. QED
    BY <1>1, <1>2, <1>3, <2>1, AnswerKeeps
<1>6. CASE ~ready \/ o.rc = "error"
  <2>1. ready' = FALSE
    BY <1>2, <1>6
  <2>2. Cursor!Fail
    BY <1>1, <1>2, <1>3, <1>4, <1>6, <2>1, AnswerFails
  <2>3. QED
    BY <1>5, <2>2
<1>7. CASE ready /\ o.rc # "error"
  <2>1. ready' = TRUE
    BY <1>2, <1>3, <1>4, <1>7
  <2>2. \A i : To(o, i) => Cursor!MoveTo(Stop(i), o.rc)
    BY <1>1, <1>2, <1>4, <2>1, AnswerMoves
  <2>3. QED
    BY <1>1, <1>5, <1>7, <2>2
<1>8. QED
  BY <1>6, <1>7

\* ctree_begin
LEMMA BeginMoves ==
  ASSUME IterInv, CtreeBegin
  PROVE  IterInv' /\ Cursor!Next
<1> DEFINE S == NotPrepared(path) \cup Read(Prepared(path), root.height - 1, AtFirst, TRUE)
<1>1. Positions("begin", 0, S) /\ pc = "done"
  BY DEF CtreeBegin, Positions, CanCall
<1>2. Tree /\ (path = <<>> \/ Held(path))
  BY <1>1, ReadySettles
<1>3. \A o \in S : Safe(o) /\ (o.rc = "error" \/ (o.rc = "ok" /\ To(o, 1)))
  BY <1>2, BeginDoes
<1> HIDE DEF S
<1>4. /\ IterInv'
      /\ \/ Cursor!Fail
         \/ \E o \in S : /\ o.rc # "error" /\ call' = <<"begin", 0>>
                         /\ \A i : To(o, i) => Cursor!MoveTo(Stop(i), o.rc)
  <2>1. \A o \in S : Safe(o) /\ (o.rc = "error" \/ (Settled(o.path) /\ o.rc # "abort"))
    BY <1>3 DEF To
  <2>2. QED
    BY <1>1, <2>1, CallsAre, PositionsMove
<1>5. CASE ~Cursor!Fail
  <2>1. call' = <<"begin", 0>> /\ Cursor!MoveTo(Stop(1), "ok")
    BY <1>3, <1>4, <1>5
  <2>2. FirstFrom(Walked, 1, 1)
    BY <1>2, WalkedIs DEF FirstFrom, Place
  <2>3. Cursor!From(1) = Stop(1)
    BY <1>2, <2>2, FromIs
  <2>4. Cursor!First
    BY <2>1, <2>3 DEF Cursor!First
  <2>5. QED
    BY <1>4, <2>4 DEF Cursor!Next
<1>6. QED
  BY <1>4, <1>5 DEF Cursor!Next

\* ctree_end
LEMMA EndMoves ==
  ASSUME IterInv, CtreeEnd
  PROVE  IterInv' /\ Cursor!Next
<1> DEFINE S == NotPrepared(path) \cup Read(Prepared(path), root.height - 1, AtEnd, TRUE)
<1>1. Positions("end", 0, S) /\ pc = "done"
  BY DEF CtreeEnd, Positions, CanCall
<1>2. Tree /\ (path = <<>> \/ Held(path))
  BY <1>1, ReadySettles
<1>3. \A o \in S : Safe(o) /\ (o.rc = "error" \/ (o.rc = "ok" /\ To(o, Walked + 1)))
  BY <1>2, EndDoes
<1> HIDE DEF S
<1>4. /\ IterInv'
      /\ \/ Cursor!Fail
         \/ \E o \in S : /\ o.rc # "error" /\ call' = <<"end", 0>>
                         /\ \A i : To(o, i) => Cursor!MoveTo(Stop(i), o.rc)
  <2>1. \A o \in S : Safe(o) /\ (o.rc = "error" \/ (Settled(o.path) /\ o.rc # "abort"))
    BY <1>3 DEF To
  <2>2. QED
    BY <1>1, <2>1, CallsAre, PositionsMove
<1>5. CASE ~Cursor!Fail
  <2>1. call' = <<"end", 0>> /\ Cursor!MoveTo(Stop(Walked + 1), "ok")
    BY <1>3, <1>4, <1>5
  <2>2. Stop(Walked + 1) = Past
    BY <1>2, WalkedIs DEF Stop
  <2>3. Cursor!PastLast
    BY <2>1, <2>2 DEF Cursor!PastLast, Past
  <2>4. QED
    BY <1>4, <2>3 DEF Cursor!Next
<1>6. QED
  BY <1>4, <1>5 DEF Cursor!Next

\* ctree_lower_bound
LEMMA LowerBoundMoves ==
  ASSUME IterInv, NEW k \in Sought, CtreeLowerBound(k)
  PROVE  IterInv' /\ Cursor!Next
<1> DEFINE S == LowerBound(path, k)
<1>1. Positions("lower_bound", k, S) /\ pc = "done" /\ k \in Nat
  BY DEF CtreeLowerBound, Positions, CanCall, Sought
<1>2. Tree /\ (path = <<>> \/ Held(path))
  BY <1>1, ReadySettles
<1>3. \A o \in S : /\ Safe(o)
                   /\ o.rc = "error" \/ (o.rc = "ok" /\ \E i : To(o, i) /\ FirstFrom(Walked, i, k))
  BY <1>1, <1>2, LowerBoundDoes
<1> HIDE DEF S
<1>4. /\ IterInv'
      /\ \/ Cursor!Fail
         \/ \E o \in S : /\ o.rc # "error" /\ call' = <<"lower_bound", k>>
                         /\ \A i : To(o, i) => Cursor!MoveTo(Stop(i), o.rc)
  <2>1. \A o \in S : Safe(o) /\ (o.rc = "error" \/ (Settled(o.path) /\ o.rc # "abort"))
    BY <1>3 DEF To
  <2>2. QED
    BY <1>1, <2>1, CallsAre, PositionsMove
<1>5. CASE ~Cursor!Fail
  <2>1. PICK i : /\ FirstFrom(Walked, i, k) /\ call' = <<"lower_bound", k>>
                 /\ Cursor!MoveTo(Stop(i), "ok")
    BY <1>3, <1>4, <1>5
  <2>2. Cursor!From(k) = Stop(i)
    BY <1>1, <1>2, <2>1, FromIs
  <2>3. Cursor!Seek(k)
    BY <2>1, <2>2 DEF Cursor!Seek
  <2>4. QED
    BY <1>4, <2>3, CallsAre DEF Cursor!Next
<1>6. QED
  BY <1>4, <1>5 DEF Cursor!Next

\* ctree_upper_bound
LEMMA UpperBoundMoves ==
  ASSUME IterInv, NEW k \in Sought, CtreeUpperBound(k)
  PROVE  IterInv' /\ Cursor!Next
<1> DEFINE S == UpperBound(path, k)
<1>1. Positions("upper_bound", k, S) /\ pc = "done" /\ k \in Nat
  BY DEF CtreeUpperBound, Positions, CanCall, Sought
<1>2. Tree /\ (path = <<>> \/ Held(path))
  BY <1>1, ReadySettles
<1>3. \A o \in S : /\ Safe(o)
                   /\ \/ o.rc = "error"
                      \/ \E i : /\ To(o, i) /\ FirstFrom(Walked, i, k + 1)
                                /\ o.rc = "ok" \/ (o.rc = "enoent" /\ i > Walked)
  BY <1>1, <1>2, UpperBoundDoes
<1> HIDE DEF S
<1>4. /\ IterInv'
      /\ \/ Cursor!Fail
         \/ \E o \in S : /\ o.rc # "error" /\ call' = <<"upper_bound", k>>
                         /\ \A i : To(o, i) => Cursor!MoveTo(Stop(i), o.rc)
  <2>1. \A o \in S : Safe(o) /\ (o.rc = "error" \/ (Settled(o.path) /\ o.rc # "abort"))
    BY <1>3 DEF To
  <2>2. QED
    BY <1>1, <2>1, CallsAre, PositionsMove
<1>5. CASE ~Cursor!Fail
  <2>1. PICK o, i : /\ FirstFrom(Walked, i, k + 1) /\ call' = <<"upper_bound", k>>
                    /\ Cursor!MoveTo(Stop(i), o.rc)
                    /\ o.rc = "ok" \/ (o.rc = "enoent" /\ i > Walked)
    BY <1>3, <1>4, <1>5
  <2>2. Cursor!From(k + 1) = Stop(i)
    BY <1>1, <1>2, <2>1, FromIs
  <2>3. i > Walked => Stop(i) = Past
    <3>1. i \in Nat /\ Walked \in Nat
      BY <1>2, <2>1, WalkedIs DEF FirstFrom
    <3>2. QED
      BY <3>1 DEF Stop
  <2>4. Cursor!SeekPast(k)
    BY <2>1, <2>2, <2>3 DEF Cursor!SeekPast, Past
  <2>5. QED
    BY <1>4, <2>4, CallsAre DEF Cursor!Next
<1>6. QED
  BY <1>4, <1>5 DEF Cursor!Next

\* ctree_lookup
LEMMA LookupMoves ==
  ASSUME IterInv, NEW k \in Sought, CtreeLookup(k)
  PROVE  IterInv' /\ Cursor!Next
<1> DEFINE S == Lookup(path, k)
<1>1. Positions("lookup", k, S) /\ pc = "done" /\ k \in Nat
  BY DEF CtreeLookup, Positions, CanCall, Sought
<1>2. Tree /\ (path = <<>> \/ Held(path))
  BY <1>1, ReadySettles
<1>3. \A o \in S : /\ Safe(o)
                   /\ \/ o.rc = "error"
                      \/ \E i : /\ To(o, i) /\ FirstFrom(Walked, i, k)
                                /\ o.rc = IF i <= Walked /\ Place(i) = k THEN "found" ELSE "absent"
  BY <1>1, <1>2, LookupDoes
<1> HIDE DEF S
<1>4. /\ IterInv'
      /\ \/ Cursor!Fail
         \/ \E o \in S : /\ o.rc # "error" /\ call' = <<"lookup", k>>
                         /\ \A i : To(o, i) => Cursor!MoveTo(Stop(i), o.rc)
  <2>1. \A o \in S : Safe(o) /\ (o.rc = "error" \/ (Settled(o.path) /\ o.rc # "abort"))
    BY <1>3 DEF To
  <2>2. QED
    BY <1>1, <2>1, CallsAre, PositionsMove
<1>5. CASE ~Cursor!Fail
  <2>1. PICK o, i : /\ FirstFrom(Walked, i, k) /\ call' = <<"lookup", k>>
                    /\ Cursor!MoveTo(Stop(i), o.rc)
                    /\ o.rc = IF i <= Walked /\ Place(i) = k THEN "found" ELSE "absent"
    BY <1>3, <1>4, <1>5
  <2>2. Cursor!From(k) = Stop(i)
    BY <1>1, <1>2, <2>1, FromIs
  <2>3. Stop(i) = k <=> i <= Walked /\ Place(i) = k
    <3>1. k < Past
      <4>1. MaxItems \in Nat
        BY BuilderAssumption
      <4>2. QED
        BY <4>1 DEF Sought, Past
    <3>2. QED
      BY <1>1, <3>1 DEF Stop
  <2>4. Cursor!Lookup(k)
    BY <2>1, <2>2, <2>3 DEF Cursor!Lookup
  <2>5. QED
    BY <1>4, <2>4, CallsAre DEF Cursor!Next
<1>6. QED
  BY <1>4, <1>5 DEF Cursor!Next

\* Before ctree_begin, ctree_end or a search there is nothing to step from.
LEMMA StepsFrom ==
  ASSUME IterInv, NEW name, NEW S, Steps(name, S)
  PROVE  Tree /\ Usable(path) /\ (ready => Settled(path))
<1>1. pc = "done" /\ (path # <<>> \/ root.height = 0)
  BY DEF Steps, CanCall
<1>2. QED
  BY <1>1, ReadySettles DEF Usable

\* ctree_next
LEMMA NextMoves ==
  ASSUME IterInv, CtreeNext
  PROVE  IterInv' /\ Cursor!Next
<1> DEFINE S == NextOf(path)
           i == Spot(path)
           j == IF i > Walked THEN i ELSE i + 1
<1>1. Steps("next", S)
  BY DEF CtreeNext
<1>2. Tree /\ Usable(path) /\ (ready => Settled(path))
  BY <1>1, StepsFrom
<1>3. \A o \in S :
        /\ Safe(o)
        /\ Settled(path) => o.rc = "error" \/ (To(o, j) /\ o.rc = IF j > Walked THEN "enoent" ELSE "ok")
  BY <1>2, NextDoes
<1> HIDE DEF S, j, i
<1>4. /\ IterInv'
      /\ \/ Cursor!Fail
         \/ \E o \in S : /\ ready /\ o.rc # "error" /\ call' = <<"next", 0>>
                         /\ \A x : To(o, x) => Cursor!MoveTo(Stop(x), o.rc)
  <2>1. \A o \in S : /\ Safe(o)
                     /\ Settled(path) /\ o.rc # "error" => Settled(o.path) /\ o.rc # "abort"
    BY <1>3 DEF To
  <2>2. QED
    BY <1>1, <2>1, CallsAre, StepsMove
<1>5. CASE ~Cursor!Fail
  <2>1. /\ ready /\ call' = <<"next", 0>>
        /\ Cursor!MoveTo(Stop(j), IF j > Walked THEN "enoent" ELSE "ok")
    BY <1>2, <1>3, <1>4, <1>5
  <2>2. /\ i \in 1..(Walked + 1) /\ Walked \in Nat /\ j = IF i > Walked THEN i ELSE i + 1
        /\ ItemAt(path) = IF i <= Walked THEN i ELSE NoItem
    BY <1>2, <2>1, SpotIs DEF i, j
  <2>3. Mark(path) = Stop(i)
    <3>1. i <= Walked => i # NoItem
      BY <2>2 DEF NoItem
    <3>2. QED
      BY <2>2, <3>1 DEF Mark, Stop
  <2>4. \A x \in 1..Walked : Place(x) < Past /\ Place(x) # Past
    BY <1>2, PresentIs DEF Place, Past
  <2>5. CASE i > Walked
    <3>1. Stop(i) = Past /\ j = i
      BY <2>2, <2>5 DEF Stop
    <3>2. Cursor!Next1
      BY <2>1, <2>3, <2>5, <3>1 DEF Cursor!Next1, Mark, Past
    <3>3. QED
      BY <1>4, <3>2 DEF Cursor!Next
  <2>6. CASE ~(i > Walked)
    <3>1. i \in 1..Walked /\ j = i + 1 /\ Stop(i) = Place(i) /\ Place(i) # Past
      BY <2>2, <2>4, <2>6 DEF Stop
    <3>2. FirstFrom(Walked, j, Place(i) + 1) /\ Place(i) + 1 \in Nat
      BY <2>2, <3>1 DEF FirstFrom, Place
    <3>3. Cursor!From(Place(i) + 1) = Stop(j)
      BY <1>2, <3>2, FromIs
    <3>4. Stop(j) = Past <=> j > Walked
      <4>1. CASE j > Walked
        BY <2>2, <3>1, <4>1 DEF Stop
      <4>2. CASE ~(j > Walked)
        <5>1. j \in 1..Walked
          BY <2>2, <3>1, <4>2
        <5>2. QED
          BY <2>4, <4>2, <5>1 DEF Stop
      <4>3. QED
        BY <4>1, <4>2
    <3>5. Cursor!Next1
      BY <2>1, <2>3, <3>1, <3>3, <3>4 DEF Cursor!Next1, Mark, Past
    <3>6. QED
      BY <1>4, <3>5 DEF Cursor!Next
  <2>7. QED
    BY <2>5, <2>6
<1>6. QED
  BY <1>4, <1>5 DEF Cursor!Next

\* The keys below an item are those of the items before it.
LEMMA KeysBelow ==
  ASSUME Tree, NEW i \in 1..(Walked + 1)
  PROVE  LET below == {k \in Cursor!Present : k < Stop(i)}
         IN  IF i = 1 THEN below = {} ELSE below # {} /\ Max(below) = Stop(i - 1)
<1> DEFINE below == {k \in Cursor!Present : k < Stop(i)}
           w == Walked
<1>1. w \in Nat /\ Past \in Nat
  BY WalkedIs DEF Past
<1>2. \A j \in 1..w : Place(j) < Past /\ Place(j) \in Nat
  BY <1>1, PresentIs DEF Place
<1>3. \A k : k \in below <=> \E j \in 1..w : k = Place(j) /\ Place(j) < Stop(i)
  BY PresentIs
<1>4. Stop(i) = IF i <= w THEN Place(i) ELSE Past
  BY DEF Stop
<1> HIDE DEF below, w
<1>5. i \in 1..(w + 1)
  BY DEF w
<1>6. \A j \in 1..w : Place(j) < Stop(i) <=> j < i
  <2> SUFFICES ASSUME NEW j \in 1..w PROVE Place(j) < Stop(i) <=> j < i
    OBVIOUS
  <2>1. CASE i <= w
    BY <1>1, <1>4, <1>5, <2>1 DEF Place
  <2>2. CASE ~(i <= w)
    BY <1>1, <1>2, <1>4, <1>5, <2>2
  <2>3. QED
    BY <2>1, <2>2
<1>7. CASE i = 1
  BY <1>1, <1>3, <1>6, <1>7 DEF below, w
<1>8. CASE i # 1
  <2> DEFINE a == Place(i - 1)
             m == Max(below)
  <2>1. i - 1 \in 1..w /\ i - 1 < i /\ \A j \in 1..w : j < i => Place(j) <= a
    BY <1>1, <1>5, <1>8 DEF Place
  <2>2. a \in below /\ \A k \in below : k <= a
    BY <1>3, <1>6, <2>1
  <2>3. a \in Nat /\ \A k \in below : k \in 0..Past
    BY <1>1, <1>2, <1>3, <2>1
  <2>4. below \in SUBSET (0..Past) /\ below # {}
    BY <2>2, <2>3
  <2>5. m \in below /\ \A k \in below : m >= k
    BY <1>1, <2>4, MaxIs
  <2>6. Stop(i - 1) = a
    BY <1>1, <2>1 DEF Stop, w
  <2> HIDE DEF a, m
  <2>7. m \in Nat /\ m >= a /\ m <= a /\ a \in Nat
    BY <2>2, <2>3, <2>5
  <2>8. m = a
    BY ONLY <2>7
  <2>9. QED
    BY <1>8, <2>4, <2>6, <2>8 DEF below, m
<1>9. QED
  BY <1>7, <1>8

\* ctree_prev
LEMMA PrevMoves ==
  ASSUME IterInv, CtreePrev
  PROVE  IterInv' /\ Cursor!Next
<1> DEFINE S == PrevOf(path)
           i == Spot(path)
<1>1. Steps("prev", S)
  BY DEF CtreePrev
<1>2. Tree /\ Usable(path) /\ (ready => Settled(path))
  BY <1>1, StepsFrom
<1>3. \A o \in S :
        /\ Safe(o)
        /\ Settled(path) =>
             \/ o.rc = "error"
             \/ i = 1 /\ To(o, 1) /\ o.rc = "enoent"
             \/ i # 1 /\ To(o, i - 1) /\ o.rc = "ok"
  BY <1>2, PrevDoes
<1> HIDE DEF S, i
<1>4. /\ IterInv'
      /\ \/ Cursor!Fail
         \/ \E o \in S : /\ ready /\ o.rc # "error" /\ call' = <<"prev", 0>>
                         /\ \A x : To(o, x) => Cursor!MoveTo(Stop(x), o.rc)
  <2>1. \A o \in S : /\ Safe(o)
                     /\ Settled(path) /\ o.rc # "error" => Settled(o.path) /\ o.rc # "abort"
    BY <1>3 DEF To
  <2>2. QED
    BY <1>1, <2>1, CallsAre, StepsMove
<1>5. CASE ~Cursor!Fail
  <2> DEFINE below == {k \in Cursor!Present : k < Mark(path)}
  <2>1. /\ ready /\ call' = <<"prev", 0>>
        /\ \/ i = 1 /\ Cursor!MoveTo(Stop(1), "enoent")
           \/ i # 1 /\ Cursor!MoveTo(Stop(i - 1), "ok")
    BY <1>2, <1>3, <1>4, <1>5
  <2>2. /\ i \in 1..(Walked + 1) /\ Walked \in Nat
        /\ ItemAt(path) = IF i <= Walked THEN i ELSE NoItem
    BY <1>2, <2>1, SpotIs DEF i
  <2>3. Mark(path) = Stop(i)
    <3>1. i <= Walked => i # NoItem
      BY <2>2 DEF NoItem
    <3>2. QED
      BY <2>2, <3>1 DEF Mark, Stop
  <2>4. IF i = 1 THEN below = {} ELSE below # {} /\ Max(below) = Stop(i - 1)
    BY <1>2, <2>2, <2>3, KeysBelow
  <2>5. CASE i = 1
    <3>1. Cursor!MoveTo(Mark(path), "enoent") /\ below = {}
      BY <2>1, <2>3, <2>4, <2>5
    <3>2. Cursor!Prev1
      BY <2>1, <3>1 DEF Cursor!Prev1, Mark, Past
    <3>3. QED
      BY <1>4, <3>2 DEF Cursor!Next
  <2>6. CASE i # 1
    <3>1. Cursor!MoveTo(Max(below), "ok") /\ below # {}
      BY <2>1, <2>4, <2>6
    <3>2. Cursor!Prev1
      BY <2>1, <3>1 DEF Cursor!Prev1, Mark, Past, Max, Cursor!Max
    <3>3. QED
      BY <1>4, <3>2 DEF Cursor!Next
  <2>7. QED
    BY <2>5, <2>6
<1>6. QED
  BY <1>4, <1>5 DEF Cursor!Next

\* ... and every step of the builder and every call keeps the invariant, and
\* the calls move the cursor.
LEMMA IterInvStays ==
  ASSUME IterInv, [IterNext]_allVars
  PROVE  IterInv' /\ (pc = "done" => Cursor!Next \/ UNCHANGED allVars)
<1>1. CASE Next /\ UNCHANGED iterVars
  <2>1. OrderInv'
    BY <1>1, OrderInvStays DEF IterInv
  <2>2. pc # "done" /\ path = <<>> /\ ~ready
    BY <1>1, DoneIsDone DEF IterInv
  <2>3. path' = <<>> /\ ready' = ready /\ call' = call /\ rc' = rc
    BY <1>1, <2>2 DEF iterVars
  <2>4. QED
    BY <2>1, <2>2, <2>3 DEF IterInv, Cursor!Calls, Cursor!Results, Cursor!Key
<1>2. CASE UNCHANGED allVars
  <2>1. UNCHANGED vars /\ path' = path /\ ready' = ready /\ call' = call /\ rc' = rc
    BY <1>2 DEF allVars, iterVars
  <2>2. OrderInv'
    BY <2>1, OrderInvStays DEF IterInv
  <2>3. root' = root /\ disk' = disk /\ pc' = pc /\ count' = count /\ ItemsBelow' = ItemsBelow
    BY <2>1, ItemsStay DEF vars
  <2>4. (pc = "done" => (path = <<>> \/ Held(path)) /\ (ready /\ root.height > 0 => Fine(path)))'
    BY <2>1, <2>3
       DEF IterInv, Held, Fine, Whole, AtLeafEnd, Good, Holds, Places, Entries, Below, ChildOf,
           Levels, InTree, FirstItem, LastItem
  <2>5. QED
    BY <1>2, <2>1, <2>2, <2>3, <2>4 DEF IterInv, Cursor!Calls, Cursor!Results, Cursor!Key
<1>3. QED
  BY <1>1, <1>2, BeginMoves, EndMoves, LowerBoundMoves, UpperBoundMoves, LookupMoves, NextMoves,
     PrevMoves DEF IterNext

\* Whatever is built and however the calls are mixed, the invariant holds.
THEOREM IterInvHolds == IterSpec => []IterInv
BY IterInvStarts, IterInvStays, PTL DEF IterSpec

\* Over every tree the builder finishes an iterator is a cursor over the items
\* appended: it goes through all of them in both directions, finds what is
\* there and nothing else, and any positioning call repairs it after a failed
\* read.
THEOREM CtreeIsCursorHolds == IterSpec => CtreeIsCursor
<1>1. IterInv /\ [IterNext]_allVars =>
        [pc = "done" => Cursor!Next \/ UNCHANGED Cursor!cursorVars]_allVars
  BY IterInvStays DEF allVars
<1>2. QED
  BY <1>1, IterInvHolds, PTL DEF IterSpec, CtreeIsCursor

\* Every variable has its type: the path has a node of the disk, or none, and
\* a position at each level of the tree.
THEOREM IterTypeOKHolds == IterSpec => []IterTypeOK
<1>1. IterInv => IterTypeOK
  <2> SUFFICES ASSUME IterInv PROVE IterTypeOK
    OBVIOUS
  <2>1. TypeOK
    BY BuilderTyped DEF IterInv, OrderInv
  <2> DEFINE step == [node : DOMAIN disk \cup {Released}, pos : 0..MaxItems]
  <2>2. ASSUME path # <<>> PROVE path \in [Levels -> step]
    <3>1. path \in [Levels -> Stand] /\ Held(path)
      BY <2>2 DEF IterInv, Held
    <3>2. \A l \in Levels : path[l].node \in DOMAIN disk \cup {Released}
      BY <3>1 DEF Held, Good, Holds
    <3>3. \A l \in Levels : path[l] \in step
      BY <3>1, <3>2 DEF Stand
    <3> HIDE DEF step
    <3>4. QED
      BY <3>1, <3>3
  <2>3. QED
    BY <2>1, <2>2 DEF IterTypeOK, IterInv
<1>2. QED
  BY <1>1, IterInvHolds, PTL

\* Every ctree_iter call: whatever failed half way through, the path is held
\* from the root down to some level and released below it, and no position is
\* past its node.
THEOREM HeldPositionsExistHolds == IterSpec => []HeldPositionsExist
<1>1. IterInv => HeldPositionsExist
  <2> SUFFICES ASSUME IterInv, path # <<>>, NEW l \in Levels
               PROVE  IF path[l].node = Released THEN \A m \in 0..l : path[m].node = Released
                      ELSE /\ disk[path[l].node].level = l
                           /\ path[l].pos < Len(Entries(path[l].node)) + (IF l = 0 THEN 1 ELSE 0)
    BY DEF HeldPositionsExist
  <2>1. pc = "done" /\ OrderInv
    BY DEF IterInv
  <2>2. root.height \in Nat /\ Levels = 0..(root.height - 1)
    BY <2>1, TreeIs DEF Tree, Levels
  <2>3. root.height > 0
    BY <2>2
  <2>4. Held(path)
    BY <2>1, <2>3 DEF IterInv
  <2>5. QED
    BY <2>4 DEF Held, Good, Holds, Places
<1>2. QED
  BY <1>1, IterInvHolds, PTL

\* ctree_node_read, ctree_next and ctree_prev: while nothing has failed the
\* path is the way from the root to a leaf.
THEOREM ReadyPathIsWholeHolds == IterSpec => []ReadyPathIsWhole
<1>1. IterInv => ReadyPathIsWhole
  <2> SUFFICES ASSUME IterInv, ready, root.height > 0 PROVE Whole(path)
    BY DEF ReadyPathIsWhole, Whole, Good, Places, Below
  <2>1. QED
    BY DEF IterInv, Fine
<1>2. QED
  BY <1>1, IterInvHolds, PTL
=============================================================================
