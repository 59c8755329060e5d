--------------------------- MODULE SnapshotStore ---------------------------
(***************************************************************************)
(* What a log-structured merge tree promises to its caller, with no trees: *)
(* one map and three older snapshots of it.  An update changes the map     *)
(* alone.  The snapshots only ever move forward, each to the value of the  *)
(* one before it: an LSM tree freezes its memory tree, merges what it      *)
(* froze into the disk trees, and saves where the disk trees are.  After a *)
(* restart everything is the saved snapshot: the caller has lost the       *)
(* updates since then, and nothing else.                                   *)
(***************************************************************************)
CONSTANTS Key, Value, None

VARIABLES
  map,      \* what a lookup returns for each key
  frozen,   \* the map when the memory tree was last set aside for a merge
  merged,   \* what the disk trees hold
  durable   \* what a restart comes back with

storeVars == <<map, frozen, merged, durable>>

Map == [Key -> Value \cup {None}]

EmptyMap == [k \in Key |-> None]

StoreTypeOK ==
  /\ map \in Map
  /\ frozen \in Map
  /\ merged \in Map
  /\ durable \in Map

Init ==
  /\ map = EmptyMap
  /\ frozen = EmptyMap
  /\ merged = EmptyMap
  /\ durable = EmptyMap

\* An update; v = None is a delete.
Put(k, v) ==
  /\ map' = [map EXCEPT ![k] = v]
  /\ UNCHANGED <<frozen, merged, durable>>

Freeze ==
  /\ frozen' = map
  /\ UNCHANGED <<map, merged, durable>>

Merge ==
  /\ merged' = frozen
  /\ UNCHANGED <<map, frozen, durable>>

Save ==
  /\ durable' = merged
  /\ UNCHANGED <<map, frozen, merged>>

Restart ==
  /\ map' = durable
  /\ frozen' = durable
  /\ merged' = durable
  /\ UNCHANGED durable

Next ==
  \/ \E k \in Key, v \in Value \cup {None} : Put(k, v)
  \/ Freeze
  \/ Merge
  \/ Save
  \/ Restart

Spec == Init /\ [][Next]_storeVars
=============================================================================
