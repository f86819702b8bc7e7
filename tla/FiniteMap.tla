------------------------------ MODULE FiniteMap ------------------------------
(***************************************************************************)
(* What the hash table promises: a map from keys to values in which a key, *)
(* once bound, has the value it was last given.  An operation may go on    *)
(* working after that (`busy').  All that this work may do to the map is   *)
(* to forget keys that were last given the unspecified value.              *)
(***************************************************************************)
CONSTANTS
  Key,
  Value,
  Unspecified, \* a value that need not be kept
  Absent       \* the map has no such key

VARIABLES map, busy

Init ==
  /\ map = [k \in Key |-> Absent]
  /\ busy = FALSE

Bind(k, v) ==
  /\ ~ busy
  /\ map' = [map EXCEPT ![k] = v]
  /\ busy' \in BOOLEAN

Forget(k) ==
  /\ busy
  /\ map[k] = Unspecified
  /\ map' = [map EXCEPT ![k] = Absent]
  /\ UNCHANGED busy

Finish ==
  /\ busy
  /\ busy' = FALSE
  /\ UNCHANGED map

Next ==
  \/ \E k \in Key : Forget(k) \/ \E v \in Value : Bind(k, v)
  \/ Finish

Spec == Init /\ [][Next]_<<map, busy>>
=============================================================================
