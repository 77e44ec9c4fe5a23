----------------------------- MODULE ServiceMap -----------------------------
(***************************************************************************)
(* The keyed store every Service of the trading system inherits            *)
(* (genericclasses/soa.hpp): an unordered_map from keys to data, here a    *)
(* function whose domain is the set of keys that were added.  No service   *)
(* ever erases a key.                                                      *)
(***************************************************************************)

\* A service that has received nothing.
EmptyMap == [key \in {} |-> key]

ExistingData(map, key) == key \in DOMAIN map

\* unordered_map::insert: a key that is already there keeps its old data.
AddData_Overwrites(map, key, data) ==                               \* mutant
    [k \in DOMAIN map \cup {key} |-> IF k = key THEN data ELSE map[k]]
AddData(map, key, data) ==
    [k \in DOMAIN map \cup {key} |-> IF k \in DOMAIN map THEN map[k] ELSE data]

\* A key that is not there stays absent.
UpdateData_Dropped(map, key, data) == map                           \* mutant
UpdateData(map, key, data) ==
    [k \in DOMAIN map |-> IF k = key THEN data ELSE map[k]]

\* unordered_map::at; undefined for an absent key, where the code throws.
GetData(map, key) == map[key]
=============================================================================
