------------------------------ MODULE MCMtree ------------------------------
(***************************************************************************)
(* A bound for the run of Mtree: small trees of any nodes, or larger       *)
(* trees of some shapes.                                                   *)
(***************************************************************************)
EXTENDS Mtree

CONSTANTS
  SmallCount,   \* one tree, without an iterator, of keys up to this one
  IterCount     \* two trees and an iterator on keys up to this one

UpTo(k) == \A n \in Live : KeyOf(n) <= k

\* At most one key below the largest is missing.  Fourteen keys then make trees of
\* black height three, in which the loop of rb_erase_fix goes up and meets each
\* of its cases on the higher level, and states stay few.
Dense ==
  \A n \in nodes : Cardinality({k \in 1..KeyOf(n) : \A m \in nodes : KeyOf(m) # k}) <= 1

OneTree == c1.nodes = {} /\ node = Nil

SmallOrDense ==
  \/ UpTo(IterCount)
  \/ OneTree /\ (UpTo(SmallCount) \/ (Dense /\ \A n \in nodes : n[2] = 1))
=============================================================================
