---------------------------- MODULE OrderedMap ----------------------------
(***************************************************************************)
(* What a BAFS tree promises its users: a map from keys to values that     *)
(* insert_into_tree and delete_from_tree change one key at a time.         *)
(***************************************************************************)
CONSTANTS Key, Value, NoValue

VARIABLE map

MapInit == map \in [Key -> Value \cup {NoValue}]

Put(k, v) == map' = [map EXCEPT ![k] = v]

Remove(k) == map[k] # NoValue /\ map' = [map EXCEPT ![k] = NoValue]

MapNext == \E k \in Key : Remove(k) \/ \E v \in Value : Put(k, v)

MapSpec == MapInit /\ [][MapNext]_map
===========================================================================
