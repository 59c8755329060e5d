--------------------------- MODULE LsmSpaceProofs ---------------------------
(***************************************************************************)
(* For any number of trees, pages and merges: what LsmSpace says of the    *)
(* trees a process has written.  A tree is safe because its pages are      *)
(* reserved and are not of the running merge; that is kept by the merges   *)
(* because the builder only ever gives back what it holds itself, and by a *)
(* restart because no merge number is used twice.                          *)
(***************************************************************************)
EXTENDS LsmSpace, TLAPS

\* The inductive invariant.
SpaceInv ==
  /\ TypeOK
  /\ TreesOfThisRunAreWhole
  /\ NumbersInOrder
  /\ GotIsWritten

\* A process starts without trees and without reservations.
LEMMA InitInv == Init => SpaceInv
<1> SUFFICES ASSUME Init PROVE SpaceInv
  OBVIOUS
<1> USE SpaceAssumption DEF Init, NoTree, Descriptor
<1>1. TypeOK
  BY DEF TypeOK
<1>2. \A t \in Descriptors : t = NoTree
  BY DEF Descriptors, Trees
<1>3. TreesOfThisRunAreWhole
  BY <1>2 DEF TreesOfThisRunAreWhole
<1>4. NumbersInOrder
  BY <1>2 DEF NumbersInOrder
<1>5. GotIsWritten
  BY DEF GotIsWritten
<1> QED
  BY <1>1, <1>3, <1>4, <1>5 DEF SpaceInv

\* Every step keeps every variable in its type.
LEMMA NextType == SpaceInv /\ [Next]_vars => TypeOK'
<1> SUFFICES ASSUME SpaceInv, [Next]_vars PROVE TypeOK'
  OBVIOUS
<1> USE SpaceAssumption DEF SpaceInv, TypeOK, Descriptor, NoTree
<1>1. ASSUME NEW t \in 1..DiskTrees, MergeBegin(t) PROVE TypeOK'
  BY <1>1 DEF MergeBegin
<1>2. ASSUME NEW t \in 2..DiskTrees, MergeSwap(t) PROVE TypeOK'
  <2>1. t \in Trees /\ t + 1 \in Trees
    BY DEF Trees, Last
  <2>2. tree[t] \in Descriptor /\ tree[t + 1] \in Descriptor
    BY <2>1
  <2>3. tree' \in [Trees -> Descriptor]
    BY <1>2, <2>1, <2>2 DEF MergeSwap
  <2> QED
    BY <1>2, <2>3 DEF MergeSwap
<1>3. ASSUME NEW p \in Pages, WritePage(p) PROVE TypeOK'
  BY <1>3 DEF WritePage
<1>4. CASE MergeFails
  BY <1>4 DEF MergeFails
<1>5. CASE Install
  <2>1. Built \in Descriptor
    BY DEF Built
  <2> QED
    BY <1>5, <2>1 DEF Install
<1>6. CASE Clear
  BY <1>6 DEF Clear
<1>7. CASE Dump
  BY <1>7 DEF Dump
<1>8. CASE Restart
  BY <1>8 DEF Restart
<1>9. CASE UNCHANGED vars
  BY <1>9 DEF vars
<1> QED
  BY <1>1, <1>2, <1>3, <1>4, <1>5, <1>6, <1>7, <1>8, <1>9 DEF Next

\* A descriptor after a step was there before it, names no pages, or is of the
\* tree that has just been built.
LEMMA WhereFrom ==
  ASSUME SpaceInv, [Next]_vars, NEW t \in Descriptors'
  PROVE  t \in Descriptors \/ t = NoTree \/ (Install /\ t = Built)
<1> USE SpaceAssumption DEF SpaceInv, TypeOK, Descriptors
<1>1. ASSUME NEW i \in 1..DiskTrees, MergeBegin(i) PROVE t \in Descriptors
  BY <1>1 DEF MergeBegin
<1>2. ASSUME NEW i \in 2..DiskTrees, MergeSwap(i) PROVE t \in Descriptors
  BY <1>2 DEF MergeSwap, Trees, Last
<1>3. ASSUME NEW p \in Pages, WritePage(p) PROVE t \in Descriptors
  BY <1>3 DEF WritePage
<1>4. CASE MergeFails
  BY <1>4 DEF MergeFails
<1>5. CASE Install
  BY <1>5 DEF Install
<1>6. CASE Clear
  BY <1>6 DEF Clear
<1>7. CASE Dump
  BY <1>7 DEF Dump
<1>8. CASE Restart
  BY <1>8 DEF Restart
<1>9. CASE UNCHANGED vars
  BY <1>9 DEF vars
<1> QED
  BY <1>1, <1>2, <1>3, <1>4, <1>5, <1>6, <1>7, <1>8, <1>9 DEF Next

\* Every step keeps the rest of the invariant.
LEMMA NextInv == SpaceInv /\ [Next]_vars => SpaceInv'
<1> SUFFICES ASSUME SpaceInv, [Next]_vars PROVE SpaceInv'
  OBVIOUS
<1>1. TypeOK'
  BY NextType
<1> USE SpaceAssumption DEF SpaceInv, TypeOK
<1>2. merges <= merges' /\ boot <= boot' /\ (boot' # boot => Restart)
  BY DEF Next, vars, MergeBegin, MergeSwap, WritePage, MergeFails, Install, Clear, Dump, Restart
<1>3. NumbersInOrder'
  <2> SUFFICES ASSUME NEW t \in Descriptors' PROVE t.merge <= merges'
    BY DEF NumbersInOrder
  <2>1. t \in Descriptors => t.merge \in Nat
    BY DEF Descriptors, Descriptor
  <2>2. t \in Descriptors => t.merge <= merges'
    BY <1>1, <1>2, <2>1 DEF NumbersInOrder
  <2>3. t \in {NoTree, Built} => t.merge \in Nat /\ t.merge <= merges
    BY DEF NoTree, Built
  <2> QED
    BY <1>1, <1>2, <2>2, <2>3, WhereFrom
<1>4. GotIsWritten'
  <2> USE DEF GotIsWritten
  <2>1. ASSUME NEW t \in 1..DiskTrees, MergeBegin(t) PROVE GotIsWritten'
    BY <2>1 DEF MergeBegin
  <2>2. ASSUME NEW t \in 2..DiskTrees, MergeSwap(t) PROVE GotIsWritten'
    BY <2>2 DEF MergeSwap
  <2>3. ASSUME NEW p \in Pages, WritePage(p) PROVE GotIsWritten'
    BY <2>3 DEF WritePage
  <2>4. CASE MergeFails \/ Install \/ Clear \/ Dump \/ Restart \/ UNCHANGED vars
    BY <2>4 DEF MergeFails, Install, Clear, Dump, Restart, vars
  <2> QED
    BY <2>1, <2>2, <2>3, <2>4 DEF Next
<1>5. TreesOfThisRunAreWhole'
  <2> SUFFICES ASSUME NEW t \in Descriptors', t.merge > boot'
               PROVE  Whole(t)' /\ t.pages \subseteq held' \ got'
    BY DEF TreesOfThisRunAreWhole
  <2>1. CASE Restart
    BY <1>3, <2>1 DEF NumbersInOrder, Restart, Descriptors, Descriptor
  <2>2. CASE Install /\ t = Built
    <3>1. t.pages \subseteq got /\ (got # {} => t.merge = merges)
      BY <2>2 DEF Built, NoTree
    <3>2. \A p \in got : content[p] = merges
      BY DEF GotIsWritten
    <3> QED
      BY <2>2, <3>1, <3>2 DEF Install, Whole
  <2>3. CASE ~Restart /\ t \in Descriptors
    <3>1. Whole(t) /\ t.pages \subseteq held \ got
      BY <1>2, <2>3 DEF TreesOfThisRunAreWhole
    <3>2. ASSUME NEW p \in Pages, WritePage(p) PROVE Whole(t)' /\ t.pages \subseteq held' \ got'
      BY <3>1, <3>2 DEF WritePage, Whole
    <3>3. CASE \A p \in Pages : ~WritePage(p)
      BY <2>3, <3>1, <3>3
      DEF Next, vars, MergeBegin, MergeSwap, MergeFails, Install, Clear, Dump, Whole
    <3> QED
      BY <3>2, <3>3
  <2>4. CASE t = NoTree
    BY <1>1, <2>4 DEF NoTree, Whole
  <2> QED
    BY <2>1, <2>2, <2>3, <2>4, WhereFrom
<1> QED
  BY <1>1, <1>3, <1>4, <1>5

\* Type correctness, for every disk and any number of trees and merges.
THEOREM SpaceTypeCorrect == Spec => []TypeOK
<1>1. SpaceInv => TypeOK
  BY DEF SpaceInv
<1> QED
  BY <1>1, InitInv, NextInv, PTL DEF Spec

\* No merge, failed or not, touches a page of a tree this process has written
\* while a descriptor in memory or in the last dump names it.
THEOREM TreesStayWhole == Spec => []TreesOfThisRunAreWhole
<1>1. SpaceInv => TreesOfThisRunAreWhole
  BY DEF SpaceInv
<1> QED
  BY <1>1, InitInv, NextInv, PTL DEF Spec
=============================================================================
