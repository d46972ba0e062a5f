---------------------------- MODULE KeyValueMap ----------------------------
(***************************************************************************)
(* What the tree promises its user: a map from keys to payloads.  An       *)
(* insert gives one key its payload and touches no other key.              *)
(***************************************************************************)
CONSTANTS
  Keys,       \* primary keys
  Payloads,   \* records
  Nothing     \* the key has no record

VARIABLE map

MapInit == map = [k \in Keys |-> Nothing]

Put(k, v) == map' = [map EXCEPT ![k] = v]

MapNext == \E k \in Keys, v \in Payloads : Put(k, v)

MapSpec == MapInit /\ [][MapNext]_map
============================================================================
