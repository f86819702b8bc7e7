---------------------------- MODULE AbstractHeap -----------------------------
(***************************************************************************)
(* What reference counting and cycle collection promise the interpreter:   *)
(* a heap in which it makes cells, takes and drops references and writes   *)
(* slots, and from which only cells it cannot reach ever disappear.        *)
(***************************************************************************)
EXTENDS HeapGraph

VARIABLES
  alloc,     \* the cells in the heap
  handle,    \* references owned by the interpreter
  slots      \* the slots of each cell

vars == <<alloc, handle, slots>>

Held == {c \in Cell : handle[c] > 0}
Live == ReachableIn(slots, Held)

Init ==
  /\ alloc = {}
  /\ handle = [c \in Cell |-> 0]
  /\ slots = [c \in Cell |-> NoSlots]

\* a new cell takes over the references put into it
Make ==
  \E c \in Cell \ alloc, f \in [Slot -> Ref] :
    /\ \A d \in Cell : Occurrences(f, d) <= handle[d]
    /\ alloc' = alloc \cup {c}
    /\ handle' = [d \in Cell |-> IF d = c THEN 1
                                 ELSE handle[d] - Occurrences(f, d)]
    /\ slots' = [slots EXCEPT ![c] = f]

Take ==
  \E c \in Live :
    /\ handle' = [handle EXCEPT ![c] = @ + 1]
    /\ UNCHANGED <<alloc, slots>>

Drop ==
  \E c \in Held :
    /\ handle' = [handle EXCEPT ![c] = @ - 1]
    /\ UNCHANGED <<alloc, slots>>

\* overwriting a slot: the old value goes, ...
Clear ==
  \E c \in Held, s \in Slot :
    /\ slots' = [slots EXCEPT ![c][s] = NoCell]
    /\ UNCHANGED <<alloc, handle>>

\* ... then the new one comes, with the reference the interpreter gives up
Put ==
  \E c \in Held, s \in Slot, d \in Held :
    /\ slots[c][s] = NoCell
    /\ slots' = [slots EXCEPT ![c][s] = d]
    /\ handle' = [handle EXCEPT ![d] = @ - 1]
    /\ UNCHANGED alloc

\* garbage is reclaimed, one cell at a time, at any moment
Free ==
  \E c \in alloc \ Live :
    /\ alloc' = alloc \ {c}
    /\ slots' = [slots EXCEPT ![c] = NoSlots]
    /\ UNCHANGED handle

Next == Make \/ Take \/ Drop \/ Clear \/ Put \/ Free

Spec == Init /\ [][Next]_vars
=============================================================================
