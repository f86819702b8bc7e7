------------------------------ MODULE Collector ------------------------------
(***************************************************************************)
(* The synchronous cycle collector of quuz (quuz-collector.c): reference   *)
(* counts, a bounded buffer of possible roots, and the mark / scan /       *)
(* collect passes that find garbage cycles.                                *)
(*                                                                         *)
(* The C functions call one another recursively.  Here the C call stack is *)
(* a variable: a sequence of pending calls, the next one at its head.  A   *)
(* call that visits the children of a cell pushes one pending call per     *)
(* slot, and what remains of the caller after the visit is a pending call  *)
(* of its own.  A pending call reads its slot when it runs, as             *)
(* all_children does.                                                      *)
(*                                                                         *)
(* The rest of the interpreter (the mutator) is known to the collector     *)
(* only by the references it owns: st->env, the symbol tables, the safety  *)
(* buffer, C locals.  `handle' counts them for each cell.                  *)
(***************************************************************************)
EXTENDS HeapGraph, Sequences

CONSTANTS
  Capacity,    \* QZ_ROOT_BUFFER_CAPACITY
  MaxHandles   \* bound: references the mutator owns to one cell

ASSUME CollectorAssumption ==
  /\ Capacity \in Nat \ {0}
  /\ MaxHandles \in Nat \ {0}

VARIABLES
  alloc,     \* the cells malloc'd and not freed
  rc,        \* qz_refcount
  color,     \* qz_color
  buffered,  \* qz_buffered
  field,     \* the slots of each cell
  roots,     \* st->root_buffer, its size st->root_buffer_size
  stack,     \* pending calls of the collector, innermost first
  handle,    \* references owned by the interpreter
  fault,     \* how the program died, "none" while it runs
  exposed    \* history: a collection began where a count was already
             \* dropped for an edge that is still in the heap

vars == <<alloc, rc, color, buffered, field, roots, stack, handle, fault,
          exposed>>

Color == {"black", "gray", "white", "purple"}

MutatorFn   == {"decrement", "release_cell", "store"}
VisitFn     == {"decr_and_mark_gray", "scan", "incr_and_scan_black",
                "collect_white", "free_cell"}
LoopFn      == {"mark_roots", "scan_roots", "collect_roots", "free_roots"}
CollectorFn == VisitFn \cup LoopFn

(***************************************************************************)
(* A pending call.  Slot 0 is the cell itself, slot s > 0 its s-th child.  *)
(* `val' is the new content of a slot that is being overwritten; i and j   *)
(* are the indexes of a loop over the root buffer.                         *)
(***************************************************************************)
CellTask(fn, c, s) == [fn |-> fn, cell |-> c, slot |-> s]
StoreTask(c, s, d) == [fn |-> "store", cell |-> c, slot |-> s, val |-> d]
LoopTask(fn, i, j) == [fn |-> fn, i |-> i, j |-> j]

CellTaskSet  == [fn : {"decrement", "release_cell"} \cup VisitFn,
                 cell : Cell, slot : 0 .. Width]
StoreTaskSet == [fn : {"store"}, cell : Cell, slot : Slot, val : Ref]
LoopTaskSet  == [fn : LoopFn, i : Nat \ {0}, j : Nat \ {0}]
TaskSet      == CellTaskSet \cup StoreTaskSet \cup LoopTaskSet

\* all_children: one call per slot, in order
AllChildren(fn, c) == [s \in Slot |-> CellTask(fn, c, s)]

Target(t) == IF t.slot = 0 THEN t.cell ELSE field[t.cell][t.slot]

\* the cells a pending call reads or writes
Touched(t) ==
  IF t.fn \in LoopFn
  THEN IF t.fn # "scan_roots" /\ t.i <= Len(roots) THEN {roots[t.i]} ELSE {}
  ELSE IF t.fn = "store" THEN {t.cell}
  ELSE {t.cell} \cup ({Target(t)} \ {NoCell})

Init ==
  /\ alloc = {}
  /\ rc = [c \in Cell |-> 0]
  /\ color = [c \in Cell |-> "black"]
  /\ buffered = [c \in Cell |-> FALSE]
  /\ field = [c \in Cell |-> NoSlots]
  /\ roots = <<>>
  /\ stack = <<>>
  /\ handle = [c \in Cell |-> 0]
  /\ fault = "none"
  /\ exposed = FALSE

(***************************************************************************)
(* Steps of the collector.                                                 *)
(***************************************************************************)
Top  == Head(stack)
Rest == Tail(stack)

\* the next pending call is a call of fn on a valid, allocated cell
Calls(fn) ==
  /\ fault = "none"
  /\ stack # <<>>
  /\ Top.fn = fn
  /\ Touched(Top) \subseteq alloc

Visits(fn) ==
  /\ Calls(fn)
  /\ Target(Top) # NoCell

\* the pass over the root buffer has an element left
InLoop(fn)   == Calls(fn) /\ Top.i <= Len(roots)
LoopDone(fn) == Calls(fn) /\ Top.i > Len(roots)

\* free_cell: the memory goes back to malloc
Freed(c) ==
  /\ alloc' = alloc \ {c}
  /\ rc' = [rc EXCEPT ![c] = 0]
  /\ color' = [color EXCEPT ![c] = "black"]
  /\ buffered' = [buffered EXCEPT ![c] = FALSE]
  /\ field' = [field EXCEPT ![c] = NoSlots]

\* call_if_valid_cell: nothing to do for an object that is not a cell
SkipInvalidCell ==
  /\ fault = "none"
  /\ stack # <<>>
  /\ Top.fn \notin LoopFn \cup {"store"}
  /\ Touched(Top) \subseteq alloc
  /\ Target(Top) = NoCell
  /\ stack' = Rest
  /\ UNCHANGED <<alloc, rc, color, buffered, field, roots, handle, fault,
                 exposed>>

\* collect_white comes back to a cell that this pass already freed
VisitsFreedWhite ==
  /\ stack # <<>>
  /\ Top.fn = "collect_white"
  /\ Top.cell \in alloc
  /\ ~ (Touched(Top) \subseteq alloc)

\* any other access to memory that was freed: what it does is open, so the
\* model stops here
UseAfterFree ==
  /\ fault = "none"
  /\ stack # <<>>
  /\ ~ (Touched(Top) \subseteq alloc)
  /\ ~ VisitsFreedWhite
  /\ fault' = "use_after_free"
  /\ UNCHANGED <<alloc, rc, color, buffered, field, roots, stack, handle,
                 exposed>>

\* assert(qz_refcount(cell) != 0)
AssertRefcount ==
  /\ \E fn \in {"decrement", "decr_and_mark_gray"} : Visits(fn)
  /\ rc[Target(Top)] = 0
  /\ fault' = "assert"
  /\ UNCHANGED <<alloc, rc, color, buffered, field, roots, stack, handle,
                 exposed>>

(***************************************************************************)
(* A pending call t has already dropped a count for an edge that all the   *)
(* passes still see: a buffered cell in the middle of release_cell, or a   *)
(* slot whose old value was unref'd and not yet overwritten.               *)
(***************************************************************************)
DropsEarly(t) ==
  \/ t.fn = "release_cell" /\ buffered[t.cell]
  \/ t.fn = "store"

\* mutant: a pass that starts before the first element
CollectTasksFromZero ==
  << LoopTask("mark_roots", 0, 1), LoopTask("scan_roots", 1, 1),
     LoopTask("collect_roots", 1, 1), LoopTask("free_roots", 1, 1) >>

CollectTasks == << LoopTask("mark_roots", 1, 1), LoopTask("scan_roots", 1, 1),
                   LoopTask("collect_roots", 1, 1),
                   LoopTask("free_roots", 1, 1) >>

\* qz_collect, called with the calls in `below' pending
BeginCollect(below) ==
  /\ stack' = CollectTasks \o below
  /\ exposed' = (exposed \/ \E k \in DOMAIN below : DropsEarly(below[k]))

\* the count that decrement gives up is the last one
LastReferenceOffByOne(c) == rc[c] \in 1 .. 2       \* mutant
LastReference(c) == rc[c] = 1

\* decrement of a count of 1, and the first line of release_cell
DecrementToZero ==
  /\ Visits("decrement")
  /\ LET c == Target(Top) IN
       /\ LastReference(c)
       /\ rc' = [rc EXCEPT ![c] = @ - 1]
       /\ stack' = AllChildren("decrement", c)
                     \o << CellTask("release_cell", c, 0) >> \o Rest
  /\ UNCHANGED <<alloc, color, buffered, field, roots, handle, fault, exposed>>

\* possible_root has nothing to add to the buffer
AlreadyPossibleRoot(c) == color[c] = "purple" \/ buffered[c]

\* the buffer of n cells must be emptied now
BufferFullTooLate(n) == n > Capacity       \* mutant
BufferFull(n) == n = Capacity

\* decrement of a larger count, and possible_root
DecrementToPossibleRoot ==
  /\ Visits("decrement")
  /\ LET c == Target(Top) IN
       /\ rc[c] > 0 /\ ~ LastReference(c)
       /\ rc' = [rc EXCEPT ![c] = @ - 1]
       /\ color' = [color EXCEPT ![c] = "purple"]
       /\ IF AlreadyPossibleRoot(c)
          THEN /\ stack' = Rest
               /\ UNCHANGED <<buffered, roots, exposed>>
          ELSE /\ buffered' = [buffered EXCEPT ![c] = TRUE]
               /\ roots' = Append(roots, c)
               /\ IF BufferFull(Len(roots) + 1)
                  THEN BeginCollect(Rest)
                  ELSE stack' = Rest /\ UNCHANGED exposed
  /\ UNCHANGED <<alloc, field, handle, fault>>

\* a released cell must wait until mark_roots drops it from the buffer
MustStayNever(c) == FALSE       \* mutant
MustStay(c) == buffered[c]

\* release_cell after its children: free, or leave to mark_roots
ReleaseCell ==
  /\ Visits("release_cell")
  /\ LET c == Target(Top) IN
       IF MustStay(c)
       THEN /\ color' = [color EXCEPT ![c] = "black"]
            /\ UNCHANGED <<alloc, rc, buffered, field>>
       ELSE Freed(c)
  /\ stack' = Rest
  /\ UNCHANGED <<roots, handle, fault, exposed>>

\* the assignment that follows the qz_unref of the old value of a slot; the
\* new value's reference moves from the mutator to the slot
Store ==
  /\ Calls("store")
  /\ field' = [field EXCEPT ![Top.cell][Top.slot] = Top.val]
  /\ handle' = IF Top.val = NoCell THEN handle
               ELSE [handle EXCEPT ![Top.val] = @ - 1]
  /\ stack' = Rest
  /\ UNCHANGED <<alloc, rc, color, buffered, roots, fault, exposed>>

\* mark_roots, one element: keep and mark a purple cell, ...
MarkRootsKeep ==
  /\ InLoop("mark_roots")
  /\ LET c == roots[Top.i] IN
       /\ color[c] = "purple"
       /\ color' = [color EXCEPT ![c] = "gray"]
       /\ roots' = [roots EXCEPT ![Top.j] = c]
       /\ stack' = AllChildren("decr_and_mark_gray", c)
                     \o << LoopTask("mark_roots", Top.i + 1, Top.j + 1) >>
                     \o Rest
  /\ UNCHANGED <<alloc, rc, buffered, field, handle, fault, exposed>>

\* a released cell that was only waiting to leave the buffer
WasReleasedNever(c) == FALSE       \* mutant
WasReleased(c) == color[c] = "black" /\ rc[c] = 0

\* the loop after a cell is dropped from the buffer
AfterDiscardStuck(t) == LoopTask("mark_roots", t.i, t.j)       \* mutant
AfterDiscard(t) == LoopTask("mark_roots", t.i + 1, t.j)

\* ... discard any other, and free it if it was only waiting for that
MarkRootsDiscard ==
  /\ InLoop("mark_roots")
  /\ LET c == roots[Top.i] IN
       /\ color[c] # "purple"
       /\ IF WasReleased(c)
          THEN Freed(c)
          ELSE /\ buffered' = [buffered EXCEPT ![c] = FALSE]
               /\ UNCHANGED <<alloc, rc, color, field>>
       /\ stack' = << AfterDiscard(Top) >> \o Rest
  /\ UNCHANGED <<roots, handle, fault, exposed>>

MarkRootsDone ==
  /\ LoopDone("mark_roots")
  /\ roots' = SubSeq(roots, 1, Top.j - 1)
  /\ stack' = Rest
  /\ UNCHANGED <<alloc, rc, color, buffered, field, handle, fault, exposed>>

\* decr_and_mark_gray and mark_gray
DecrAndMarkGray ==
  /\ Visits("decr_and_mark_gray")
  /\ LET c == Target(Top) IN
       /\ rc[c] # 0
       /\ rc' = [rc EXCEPT ![c] = @ - 1]
       /\ color' = [color EXCEPT ![c] = "gray"]
       /\ stack' = IF color[c] = "gray" THEN Rest
                   ELSE AllChildren("decr_and_mark_gray", c) \o Rest
  /\ UNCHANGED <<alloc, buffered, field, roots, handle, fault, exposed>>

\* scan_roots: scan of every cell left in the buffer
ScanRoots ==
  /\ Calls("scan_roots")
  /\ stack' = [k \in 1 .. Len(roots) |-> CellTask("scan", roots[k], 0)] \o Rest
  /\ UNCHANGED <<alloc, rc, color, buffered, field, roots, handle, fault,
                 exposed>>

\* a count is left after the internal edges were subtracted
ReferencedFromOutsideTwice(c) == rc[c] > 1       \* mutant
ReferencedFromOutside(c) == rc[c] > 0

\* scan: a gray cell is either referenced from outside (scan_black) or not
Scan ==
  /\ Visits("scan")
  /\ LET c == Target(Top) IN
       IF color[c] # "gray"
       THEN stack' = Rest /\ UNCHANGED color
       ELSE IF ReferencedFromOutside(c)
       THEN /\ color' = [color EXCEPT ![c] = "black"]
            /\ stack' = AllChildren("incr_and_scan_black", c) \o Rest
       ELSE /\ color' = [color EXCEPT ![c] = "white"]
            /\ stack' = AllChildren("scan", c) \o Rest
  /\ UNCHANGED <<alloc, rc, buffered, field, roots, handle, fault, exposed>>

\* scan_black gives back the count that mark_gray took along an edge
RestoredOnce(c) ==       \* mutant
  IF color[c] = "black" THEN rc ELSE [rc EXCEPT ![c] = @ + 1]
Restored(c) == [rc EXCEPT ![c] = @ + 1]

\* incr_and_scan_black and scan_black
IncrAndScanBlack ==
  /\ Visits("incr_and_scan_black")
  /\ LET c == Target(Top) IN
       /\ rc' = Restored(c)
       /\ color' = [color EXCEPT ![c] = "black"]
       /\ stack' = IF color[c] = "black" THEN Rest
                   ELSE AllChildren("incr_and_scan_black", c) \o Rest
  /\ UNCHANGED <<alloc, buffered, field, roots, handle, fault, exposed>>

\* collect_roots, first loop: one element of the buffer
CollectRoots ==
  /\ InLoop("collect_roots")
  /\ LET c == roots[Top.i]
         next == << LoopTask("collect_roots", Top.i + 1, 1) >>
     IN /\ buffered' = [buffered EXCEPT ![c] = FALSE]
        /\ IF color[c] = "white"
           THEN /\ color' = [color EXCEPT ![c] = "black"]
                /\ stack' = AllChildren("collect_white", c) \o next \o Rest
           ELSE stack' = next \o Rest /\ UNCHANGED color
  /\ UNCHANGED <<alloc, rc, field, roots, handle, fault, exposed>>

CollectRootsDone ==
  /\ LoopDone("collect_roots")
  /\ stack' = Rest
  /\ UNCHANGED <<alloc, rc, color, buffered, field, roots, handle, fault,
                 exposed>>

\* collect_white: blacken an unbuffered white cell, visit its children, ...
CollectWhite ==
  /\ Visits("collect_white")
  /\ LET c == Target(Top) IN
       IF color[c] = "white" /\ ~ buffered[c]
       THEN /\ color' = [color EXCEPT ![c] = "black"]
            /\ stack' = AllChildren("collect_white", c)
                          \o << CellTask("free_cell", c, 0) >> \o Rest
       ELSE stack' = Rest /\ UNCHANGED color
  /\ UNCHANGED <<alloc, rc, buffered, field, roots, handle, fault, exposed>>

(***************************************************************************)
(* collect_white reads the color of a freed cell, which C leaves           *)
(* undefined.  What a build reads: nothing is malloc'd during a pass and   *)
(* the cell was blackened just before free, so the bits are untouched or   *)
(* free overwrote the word with a free-list link, whose top byte (type,    *)
(* color, flags) is 0; both are black, and the call returns.  So this is   *)
(* no fault of the model, but the touch is there: NoFaultButRevisits       *)
(* excepts it by name, and NeverRevisitsFreed says it does not happen.     *)
(***************************************************************************)
CollectWhiteFreed ==
  /\ fault = "none"
  /\ VisitsFreedWhite
  /\ stack' = Rest
  /\ UNCHANGED <<alloc, rc, color, buffered, field, roots, handle, fault,
                 exposed>>

\* ... then free it
FreeWhite ==
  /\ Visits("free_cell")
  /\ Freed(Target(Top))
  /\ stack' = Rest
  /\ UNCHANGED <<roots, handle, fault, exposed>>

\* collect_roots, second loop: free the roots that turned out to be garbage
FreeRoots ==
  /\ InLoop("free_roots")
  /\ LET c == roots[Top.i] IN
       IF color[c] = "black" /\ rc[c] = 0
       THEN Freed(c)
       ELSE UNCHANGED <<alloc, rc, color, buffered, field>>
  /\ stack' = << LoopTask("free_roots", Top.i + 1, 1) >> \o Rest
  /\ UNCHANGED <<roots, handle, fault, exposed>>

FreeRootsDone ==
  /\ LoopDone("free_roots")
  /\ roots' = <<>>
  /\ stack' = Rest
  /\ UNCHANGED <<alloc, rc, color, buffered, field, handle, fault, exposed>>

CollectorStep ==
  \/ SkipInvalidCell \/ UseAfterFree \/ AssertRefcount
  \/ DecrementToZero \/ DecrementToPossibleRoot \/ ReleaseCell \/ Store
  \/ MarkRootsKeep \/ MarkRootsDiscard \/ MarkRootsDone \/ DecrAndMarkGray
  \/ ScanRoots \/ Scan \/ IncrAndScanBlack
  \/ CollectRoots \/ CollectRootsDone \/ CollectWhite \/ CollectWhiteFreed
  \/ FreeWhite
  \/ FreeRoots \/ FreeRootsDone

(***************************************************************************)
(* The mutator: the operations of the interpreter on cells.  It runs when  *)
(* no call of the collector is pending.                                    *)
(***************************************************************************)
Idle == fault = "none" /\ stack = <<>>

\* qz_make_cell and the constructors that steal references to the children
Make ==
  /\ Idle
  /\ \E c \in Cell \ alloc, f \in [Slot -> Ref] :
       /\ \A d \in Cell : Occurrences(f, d) <= handle[d]
       /\ alloc' = alloc \cup {c}
       /\ rc' = [rc EXCEPT ![c] = 1]
       /\ field' = [field EXCEPT ![c] = f]
       /\ handle' = [d \in Cell |-> IF d = c THEN 1
                                    ELSE handle[d] - Occurrences(f, d)]
  /\ UNCHANGED <<color, buffered, roots, stack, fault, exposed>>

\* a cell the mutator owns a reference to, or reads out of such a cell
Borrowed(c) ==
  \/ handle[c] > 0
  \/ \E d \in Cell, s \in Slot : handle[d] > 0 /\ field[d][s] = c

\* qz_ref: increment
Increment ==
  /\ Idle
  /\ \E c \in Cell :
       /\ Borrowed(c)
       /\ handle[c] < MaxHandles
       /\ handle' = [handle EXCEPT ![c] = @ + 1]
       /\ rc' = [rc EXCEPT ![c] = @ + 1]
       /\ color' = [color EXCEPT ![c] = "black"]
  /\ UNCHANGED <<alloc, buffered, field, roots, stack, fault, exposed>>

\* qz_unref: give up one reference
Unref ==
  /\ Idle
  /\ \E c \in Cell :
       /\ handle[c] > 0
       /\ handle' = [handle EXCEPT ![c] = @ - 1]
       /\ stack' = << CellTask("decrement", c, 0) >>
  /\ UNCHANGED <<alloc, rc, color, buffered, field, roots, fault, exposed>>

\* set-car!, set-cdr!, vector-set!, set! and the like: unref what the slot
\* holds, then overwrite it with a reference the mutator owns
SetSlot ==
  /\ Idle
  /\ \E c \in Cell, s \in Slot, d \in Ref :
       /\ handle[c] > 0
       /\ d # NoCell => handle[d] > (IF d = c THEN 1 ELSE 0)
       /\ stack' = << CellTask("decrement", c, s), StoreTask(c, s, d) >>
  /\ UNCHANGED <<alloc, rc, color, buffered, field, roots, handle, fault,
                 exposed>>

\* the end of qz_free: every reference has been given up
Shutdown ==
  /\ Idle
  /\ roots # <<>>
  /\ \A c \in Cell : handle[c] = 0
  /\ BeginCollect(<<>>)
  /\ UNCHANGED <<alloc, rc, color, buffered, field, roots, handle, fault>>

MutatorStep == Make \/ Increment \/ Unref \/ SetSlot \/ Shutdown

Next == CollectorStep \/ MutatorStep

Spec == Init /\ [][Next]_vars

\* a call that was entered runs on: the program is a single thread
FairSpec == Spec /\ WF_vars(CollectorStep)

(***************************************************************************)
(* What the heap means to the mutator.  While a slot is being overwritten  *)
(* its old value no longer belongs to the heap.                            *)
(***************************************************************************)
Overwriting(c, s) ==
  \E k \in DOMAIN stack :
    stack[k].fn = "store" /\ stack[k].cell = c /\ stack[k].slot = s

HeapNow == [c \in Cell |-> [s \in Slot |->
              IF Overwriting(c, s) THEN NoCell ELSE field[c][s]]]

Held == {c \in Cell : handle[c] > 0}
Live == ReachableIn(HeapNow, Held)

(***************************************************************************)
(* Types.                                                                  *)
(***************************************************************************)
TypeOK ==
  /\ alloc \in SUBSET Cell
  /\ rc \in [Cell -> Nat]
  /\ color \in [Cell -> Color]
  /\ buffered \in [Cell -> BOOLEAN]
  /\ field \in [Cell -> [Slot -> Ref]]
  /\ roots \in Seq(Cell)
  /\ stack \in Seq(TaskSet)
  /\ handle \in [Cell -> Nat]
  /\ fault \in {"none", "assert", "use_after_free"}
  /\ exposed \in BOOLEAN

(***************************************************************************)
(* Safety.                                                                 *)
(***************************************************************************)

\* what the next step of the collector reads or writes was freed
TouchesFreed == stack # <<>> /\ ~ (Touched(Top) \subseteq alloc)

(* The assertions on the count (decrement, decr_and_mark_gray) hold, and   *)
(* the collector touches a freed cell in one place only, where it does so  *)
(* indeed: collect_white may come back, through a slot of a cell that is   *)
(* allocated, to a cell that was freed, and read its color                 *)
(* (quuz-collector.c:155, called from :158).  This is unless a collection  *)
(* was started from inside the release of a buffered cell or between the   *)
(* unref and the overwrite of a slot.                                      *)
NoFaultButRevisits ==
  ~ exposed =>
    /\ fault = "none"
    /\ TouchesFreed => VisitsFreedWhite

(* free_cell is never called on a cell the interpreter can still reach,    *)
(* not even in the middle of a pass, when counts are tentative.            *)
LiveNeverFreed == ~ exposed => Live \subseteq alloc

(* Between operations every count is what it should be: the references     *)
(* the interpreter owns and the slots, of cells not yet released, that     *)
(* hold the cell.  So every pass restored exactly what it subtracted.      *)
InEdges(c) ==
  {e \in Cell \X Slot : rc[e[1]] > 0 /\ field[e[1]][e[2]] = c}
CountsExact ==
  Idle /\ ~ exposed =>
    \A c \in alloc : rc[c] = handle[c] + Cardinality(InEdges(c))

(* Between operations every cell that is garbage but not freed can be      *)
(* found again from the root buffer, so the next collection reclaims it;   *)
(* in particular nothing is left after the collection of qz_free.          *)
InBuffer == {roots[i] : i \in DOMAIN roots}
GarbageIsFindable ==
  Idle /\ ~ exposed => alloc \ Live \subseteq ReachableIn(field, InBuffer)

(* Between operations the buffer holds exactly the cells whose buffered    *)
(* bit is set, each once, and the passes left no gray or white cell and no *)
(* possible root outside the buffer.                                       *)
BufferConsistent ==
  Idle /\ ~ exposed =>
    /\ \A i, k \in DOMAIN roots : roots[i] = roots[k] => i = k
    /\ InBuffer = {c \in alloc : buffered[c]}
    /\ \A c \in alloc : color[c] # "black" => color[c] = "purple" /\ buffered[c]

(* The buffer never grows past the array st->root_buffer, and it is full   *)
(* only while qz_collect runs, whatever went wrong before.                 *)
BufferBounded ==
  /\ Len(roots) <= Capacity
  /\ Len(roots) = Capacity =>
       \E k \in DOMAIN stack : stack[k].fn = "free_roots"

(***************************************************************************)
(* The discipline of the call stack, which makes the bound on the buffer   *)
(* inductive: the passes never call back into the counting functions, and  *)
(* mark_roots has nothing above it but its own visits.                     *)
(***************************************************************************)
Pending(s) == {s[k] : k \in 1 .. Len(s)}

Layered(s) ==
  \A i, k \in 1 .. Len(s) : i < k =>
    /\ s[k].fn \in LoopFn => s[i].fn \in CollectorFn
    /\ s[k].fn = "mark_roots" => s[i].fn = "decr_and_mark_gray"

StoreLast(s) == \A k \in 1 .. Len(s) : s[k].fn = "store" => k = Len(s)

StoreOwned ==
  \A t \in Pending(stack) : t.fn = "store" /\ t.val # NoCell => handle[t.val] > 0

MarkIndexes ==
  \A t \in Pending(stack) : t.fn = "mark_roots" =>
    t.j <= t.i /\ t.i <= Len(roots) + 1

FullOnlyInPass ==
  Len(roots) = Capacity => \E t \in Pending(stack) : t.fn = "free_roots"

ControlInv ==
  /\ TypeOK
  /\ Layered(stack)
  /\ StoreLast(stack)
  /\ StoreOwned
  /\ MarkIndexes
  /\ Len(roots) <= Capacity
  /\ FullOnlyInPass

(***************************************************************************)
(* Refinement.  As long as no collection has started where it is not safe, *)
(* every step is a step of the abstract heap or changes nothing the        *)
(* interpreter can see: a pass may do what it likes to the counts, but it  *)
(* only ever removes cells that cannot be reached.                         *)
(***************************************************************************)
Abstract == INSTANCE AbstractHeap WITH slots <- HeapNow

ImplementsUntilExposed ==
  Abstract!Init /\ [][Abstract!Next \/ exposed']_(Abstract!vars)

(* With a root buffer that cannot fill (Capacity above the number of       *)
(* cells) qz_collect runs only at the end of qz_free: nothing can be       *)
(* exposed and the collector implements the abstract heap outright.        *)
ImplementsHeap == Abstract!Spec

(***************************************************************************)
(* Liveness.                                                               *)
(***************************************************************************)

(* Every operation of the collector returns (or the program has died):     *)
(* the passes terminate on cyclic structures.                              *)
OperationsReturn == stack # <<>> ~> (stack = <<>> \/ fault # "none")

(***************************************************************************)
(* What the assertions at quuz-collector.c:69 and :120 claim.              *)
(***************************************************************************)
RefcountNeverUnderflows == fault # "assert"

(***************************************************************************)
(* What the comment at quuz-collector.c:165 sees as the danger to avoid:   *)
(* no pass comes back to a cell it has freed.                              *)
(***************************************************************************)
NeverRevisitsFreed == ~ VisitsFreedWhite
=============================================================================
