------------------------------- MODULE MCLsm -------------------------------
(***************************************************************************)
(* Bounds of the runs of Lsm: all of its state is finite, only the number  *)
(* of combinations of trees has to be cut.                                 *)
(***************************************************************************)
EXTENDS Lsm

\* Nothing is dumped: a restart starts from empty trees.
NeverDumped == disk = [i \in 2..Last |-> EmptyTree]
=============================================================================
