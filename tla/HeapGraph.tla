------------------------------ MODULE HeapGraph ------------------------------
(***************************************************************************)
(* The heap of quuz as a graph: cells with a fixed number of slots, each   *)
(* holding a cell or something that is not one.                            *)
(***************************************************************************)
EXTENDS Naturals, FiniteSets

CONSTANTS
  Cell,        \* the addresses malloc can return
  NoCell,      \* any object that is not a cell: (), fixnums, symbols, ...
  Width        \* how many slots a cell has (2 for pairs and closures)

ASSUME HeapGraphAssumption ==
  /\ NoCell \notin Cell
  /\ IsFiniteSet(Cell)
  /\ Width \in Nat \ {0}

Slot == 1 .. Width
Ref  == Cell \cup {NoCell}

\* the slots of a cell that refers to nothing
NoSlots == [s \in Slot |-> NoCell]

\* how many slots of f hold c
Occurrences(f, c) == Cardinality({s \in Slot : f[s] = c})

\* what can be reached from the cells of S through the slots of h
ReachableIn(h, S) ==
  LET Closed(T) == \A c \in T, s \in Slot : h[c][s] = NoCell \/ h[c][s] \in T
  IN {c \in Cell : \A T \in SUBSET Cell : S \subseteq T /\ Closed(T) => c \in T}
=============================================================================
