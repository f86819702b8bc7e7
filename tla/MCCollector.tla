----------------------------- MODULE MCCollector -----------------------------
(***************************************************************************)
(* Small instances of Collector for TLC.                                   *)
(***************************************************************************)
EXTENDS Collector, TLC

\* addresses are interchangeable
CellSymmetry == Permutations(Cell)
=============================================================================
