----------------------------- MODULE MCHashTable -----------------------------
(***************************************************************************)
(* Small instances of HashTable for TLC.                                   *)
(***************************************************************************)
EXTENDS HashTable
=============================================================================
