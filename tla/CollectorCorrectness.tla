------------------------ MODULE CollectorCorrectness ------------------------
(***************************************************************************)
(* The collector is right, for every heap, every buffer and every program  *)
(* of the interpreter: the inductive invariant put together, the safety    *)
(* properties that follow from it, the refinement of the abstract heap,    *)
(* and that garbage is never lost.                                         *)
(***************************************************************************)
EXTENDS CollectorPasses

(***************************************************************************)
(* No call touches freed memory, save the one whose outcome is harmless.   *)
(***************************************************************************)

(* A counted cell is allocated.                                            *)
LEMMA CountedAlloc ==
  ASSUME ControlInv, Good, NEW c \in Cell,
         \/ rc[c] > 0
         \/ handle[c] > 0
         \/ \E d \in Cell, s \in 0 .. Width : EdgeTarget(d, s) = c /\ Counts(d, s)
  PROVE  c \in alloc /\ rc[c] > 0
<1>1. rc[c] > 0
  BY CountAtLeast DEF Good, ControlInv
<1> QED
  BY <1>1 DEF Good, FreshInv

(* The elements that the loops over the buffer look at.                    *)
LEMMA LoopTouchesAlloc ==
  ASSUME ControlInv, Good, stack # <<>>, Top.fn \in LoopFn
  PROVE  Touched(Top) \subseteq alloc
<1>1. Top \in TaskSet /\ Top \in Pending(stack) /\ Pending(stack) = {Top} \cup Pending(Rest)
      /\ \A u \in Pending(Rest) : u.fn \in Below(Top.fn)
  BY TopFacts DEF Good
<1>2. Top.fn \in CollectorFn
  BY DEF CollectorFn
<1>3. InPass
  BY <1>2, PassFacts DEF Good
<1>4. SUFFICES ASSUME Top.fn # "scan_roots", Top.i <= Len(roots)
               PROVE  roots[Top.i] \in alloc
  BY DEF Touched
<1>5. Top.i \in DOMAIN roots /\ roots[Top.i] \in Cell
  <2>1. Top.i \in Nat \ {0} /\ roots \in Seq(Cell)
    BY <1>1, TaskTypes DEF ControlInv, TypeOK
  <2> QED
    BY <1>4, <2>1, ElementOfSeq, LenProperties
<1>6. \A t \in Pending(stack) : t.fn = Top.fn => t = Top
  <2>1. Top.fn \notin Below(Top.fn)
    BY DEF Below, LoopFn, MutatorFn
  <2> QED
    BY <1>1, <2>1
<1>7. CASE Top.fn = "mark_roots"
  <2>1. Calling("mark_roots") /\ Calling("collect_roots") /\ Tracing
    BY <1>2, <1>7, PassFacts DEF Good
  <2>2. Top.i \in InUse
    <3>1. \A t \in Pending(stack) : t.fn = "mark_roots" => t.i <= Top.i
      BY <1>1, <1>6, <1>7, TaskTypes
    <3> QED
      BY <1>5, <3>1 DEF InUse
  <2>3. \A t \in Pending(stack) : t.fn = "collect_roots" => t.i = 1
    BY <2>1 DEF Good, TaskInv, TaskGood
  <2>4. Top.i \in StillBuffered
    <3>1. 1 <= Top.i
      BY <1>1, TaskTypes
    <3> QED
      BY <2>1, <2>2, <2>3, <3>1 DEF StillBuffered
  <2>5. buffered[roots[Top.i]]
    BY <1>5, <2>4 DEF Good, BufferInv
  <2> QED
    BY <1>5, <2>5 DEF Good, FreshInv
<1>8. CASE Top.fn = "collect_roots"
  <2>1. Calling("collect_roots") /\ ~ Tracing
    BY <1>2, <1>8, PassFacts DEF Good
  <2> QED
    BY <1>3, <1>5, <2>1 DEF Good, BufferInv
<1>9. CASE Top.fn = "free_roots"
  <2>1. ~ Tracing
    BY <1>2, <1>9, PassFacts DEF Good
  <2>2. \A t \in Pending(stack) : t.fn = "free_roots" => t.i <= Top.i
    BY <1>1, <1>6, <1>9, TaskTypes
  <2> QED
    BY <1>3, <1>5, <2>1, <2>2 DEF Good, BufferInv
<1> QED
  BY <1>4, <1>7, <1>8, <1>9 DEF LoopFn

(* The cells that the visits and the overwrite look at.                    *)
LEMMA VisitTouchesAlloc ==
  ASSUME ControlInv, Good, stack # <<>>, Top.fn \notin LoopFn, ~ VisitsFreedWhite
  PROVE  Touched(Top) \subseteq alloc
<1> SUFFICES ASSUME NEW d, NEW s, NEW c, d = Top.cell, s = Top.slot, c = Target(Top)
             PROVE  Touched(Top) \subseteq alloc
  OBVIOUS
<1>1. /\ Top \in TaskSet /\ Top \in Pending(stack)
      /\ NeedsAttendant(Top, InBuffer) => \E u \in Pending(Rest) : Attends(u, Top)
      /\ Pending(stack) = {Top} \cup Pending(Rest)
      /\ TaskGood(Top)
      /\ \A u \in Pending(Rest) : u \in TaskSet /\ TaskGood(u)
  BY TopFacts DEF Good, TaskInv
<1>2. Top.fn \in {"decrement", "release_cell", "store"} \cup VisitFn
  BY <1>1, TaskTypes DEF CollectorFn, MutatorFn
<1>3. d \in Cell /\ s \in 0 .. Width
  BY <1>1, TaskTypes
<1>4. c \in Ref /\ EdgeTarget(d, s) = c
  <2>1. s # 0 => s \in Slot
    BY <1>3, HeapGraphAssumption DEF Slot
  <2> QED
    BY <1>3, <2>1 DEF Target, EdgeTarget, ControlInv, TypeOK, Ref
<1>5. Top.fn # "store" => Top = CellTask(Top.fn, d, s)
  BY <1>1, IsCellTask
<1>6. CASE Top.fn = "store"
  <2>1. handle[d] > 0
    BY <1>1, <1>6 DEF TaskGood
  <2> QED
    BY <1>3, <1>6, <2>1, CountedAlloc DEF Touched, LoopFn
<1>7. ASSUME Top.fn # "store", d \in alloc, c # NoCell => c \in alloc
      PROVE  Touched(Top) \subseteq alloc
  BY <1>7 DEF Touched
<1>8. CASE Top.fn = "decrement"
  <2>1. Counts(d, s)
    BY <1>1, <1>5, <1>8 DEF Counts, Pend
  <2>2. c # NoCell => c \in alloc
    BY <1>3, <1>4, <2>1, CountedAlloc DEF Ref
  <2>3. CASE s = 0
    BY <1>3, <1>4, <1>7, <1>8, <2>2, <2>3, HeapGraphAssumption DEF EdgeTarget
  <2>4. CASE s # 0
    <3>1. PICK u \in Pending(Rest) : Attends(u, Top)
      BY <1>1, <1>8, <2>4 DEF NeedsAttendant
    <3>2. d \in alloc
      BY <1>1, <1>3, <1>8, <3>1, CountedAlloc DEF Attends, TaskGood
    <3> QED
      BY <1>7, <1>8, <2>2, <3>2
  <2> QED
    BY <2>3, <2>4
<1>9. CASE Top.fn = "decr_and_mark_gray"
  <2>1. Counts(d, s)
    BY <1>1, <1>5, <1>9 DEF Counts, Pend
  <2>2. c # NoCell => c \in alloc
    BY <1>3, <1>4, <2>1, CountedAlloc DEF Ref
  <2>3. d \in alloc
    BY <1>1, <1>3, <1>9 DEF TaskGood, Good, FreshInv
  <2> QED
    BY <1>7, <1>9, <2>2, <2>3
<1>10. CASE Top.fn \in {"scan", "incr_and_scan_black"}
  <2>1. c # NoCell => c \in alloc
    BY <1>1, <1>10 DEF TaskGood, Visited
  <2>2. d \in alloc
    BY <1>1, <1>3, <1>10, CountedAlloc DEF TaskGood
  <2> QED
    BY <1>7, <1>10, <2>1, <2>2
<1>11. CASE Top.fn \in {"release_cell", "free_cell"}
  <2>1. d \in alloc /\ s = 0
    BY <1>1, <1>11 DEF TaskGood
  <2> QED
    BY <1>4, <1>7, <1>11, <2>1 DEF EdgeTarget
<1>12. CASE Top.fn = "collect_white"
  <2>1. d \in alloc
    BY <1>1, <1>12 DEF TaskGood
  <2> QED
    BY <1>12, <2>1 DEF VisitsFreedWhite
<1> QED
  BY <1>2, <1>6, <1>8, <1>9, <1>10, <1>11, <1>12 DEF VisitFn

(* The count that a decrement is about to take is there.                   *)
LEMMA NoFaultStep ==
  ASSUME ControlInv, Good
  PROVE  ~ UseAfterFree /\ ~ AssertRefcount
<1>1. ~ UseAfterFree
  BY LoopTouchesAlloc, VisitTouchesAlloc DEF UseAfterFree
<1>2. ASSUME NEW fn \in {"decrement", "decr_and_mark_gray"}, Visits(fn)
      PROVE  rc[Target(Top)] > 0
  <2> SUFFICES ASSUME NEW d, NEW s, NEW c, d = Top.cell, s = Top.slot, c = Target(Top)
               PROVE  rc[c] > 0
    OBVIOUS
  <2>1. /\ stack # <<>> /\ Top.fn = fn /\ d \in Cell /\ s \in 0 .. Width
        /\ Top = CellTask(fn, d, s) /\ EdgeTarget(d, s) = c /\ c \in Cell
    BY <1>2, VisitFacts DEF Good, VisitFn
  <2>2. Top \in Pending(stack)
    BY <2>1, TopFacts DEF Good
  <2>3. Counts(d, s)
    BY <1>2, <2>1, <2>2 DEF Counts, Pend
  <2> QED
    BY <2>1, <2>3, CountedAlloc
<1> QED
  BY <1>1, <1>2 DEF AssertRefcount

(***************************************************************************)
(* The inductive invariant.                                                *)
(***************************************************************************)

(* The empty heap.                                                         *)
LEMMA InitGood == Init => Good
<1> SUFFICES ASSUME Init
             PROVE  Good
  OBVIOUS
<1>1. /\ stack = <<>> /\ roots = <<>> /\ fault = "none" /\ alloc = {}
      /\ \A c \in Cell : /\ rc[c] = 0 /\ handle[c] = 0 /\ color[c] = "black"
                         /\ ~ buffered[c] /\ field[c] = NoSlots
  BY DEF Init
<1>2. Pending(stack) = {} /\ GoodStack(stack, InBuffer)
  BY <1>1, EmptyStack
<1>3. OnlyMutator /\ NoPass
  BY <1>2, OutsidePass DEF OnlyMutator
<1>4. StackInv
  BY <1>2, <1>3 DEF StackInv, GoodStack, NoPass
<1>5. CountInv
  <2>1. ASSUME NEW c \in Cell
        PROVE  Cardinality(InRefs(c)) = 0
    <3>1. InRefs(c) = {}
      BY <1>1, <1>2 DEF InRefs, Edge, Counts, Pend, Settled
    <3> QED
      BY <3>1, FS_EmptySet
  <2> QED
    BY <1>1, <2>1 DEF CountInv
<1>6. FreshInv /\ ColorInv /\ TaskInv
  BY <1>1, <1>2 DEF FreshInv, ColorInv, TaskInv
<1>7. BufferInv
  <2>1. DOMAIN roots = {}
    BY <1>1, EmptySeq, LenProperties
  <2> QED
    BY <1>1, <1>3, <2>1 DEF BufferInv, NoPass
<1> QED
  BY <1>1, <1>3, <1>4, <1>5, <1>6, <1>7 DEF Good, NoPass

(* A collection that has begun too early is not forgotten.                 *)
LEMMA ExposedStays ==
  ASSUME exposed, [Next]_vars
  PROVE  exposed'
<1>1. CASE CollectorStep
  BY <1>1 DEF CollectorStep, SkipInvalidCell, UseAfterFree, AssertRefcount,
     DecrementToZero, DecrementToPossibleRoot, BeginCollect, ReleaseCell, Store,
     MarkRootsKeep, MarkRootsDiscard, MarkRootsDone, DecrAndMarkGray,
     ScanRoots, Scan, IncrAndScanBlack, CollectRoots, CollectRootsDone,
     CollectWhite, CollectWhiteFreed, FreeWhite, FreeRoots, FreeRootsDone
<1>2. CASE MutatorStep
  BY <1>2 DEF MutatorStep, Make, Increment, Unref, SetSlot, Shutdown, BeginCollect
<1>3. CASE UNCHANGED vars
  BY <1>3 DEF vars
<1> QED
  BY <1>1, <1>2, <1>3 DEF Next

(* Good says nothing of anything but the variables.                        *)
LEMMA GoodStutters ==
  ASSUME Good, UNCHANGED vars
  PROVE  Good'
<1>0. UNCHANGED <<alloc, rc, color, buffered, field, roots, stack, handle, fault>>
  BY DEF vars
<1>1. StackInv' /\ FreshInv' /\ ColorInv'
  BY <1>0 DEF Good, StackInv, FreshInv, ColorInv, InBuffer, Needed, Calling, Pend, InPass,
     Marking, Tracing
<1>2. CountInv'
  BY <1>0 DEF Good, CountInv, InRefs, EdgeTarget, Counts, Pend, Settled, Storing
<1>3. VisitedInv' /\ TaskInv'
  BY <1>0 DEF Good, VisitedInv, Visited, TaskInv, TaskGood, Target, InBuffer, Calling, Pend,
     InPass, Tracing
<1>4. BufferInv' /\ FoundInv'
  BY <1>0 DEF Good, BufferInv, FoundInv, InUse, StillBuffered, Kept, Calling, InPass,
     Tracing, Colored, TargetsOf, RootsAt, InBuffer, Target
<1> QED
  BY <1>0, <1>1, <1>2, <1>3, <1>4 DEF Good

(* A step that does not start a collection too early keeps Good.           *)
LEMMA GoodStep ==
  ASSUME ControlInv, ControlInv', Good, [Next]_vars, ~ exposed'
  PROVE  Good'
<1>1. CASE CollectorStep
  BY <1>1, SkipInvalidCellStep, NoFaultStep, DecrementToZeroStep,
     DecrementToPossibleRootStep, ReleaseCellStep, StoreStep, MarkRootsKeepStep,
     MarkRootsDiscardStep, MarkRootsDoneStep, DecrAndMarkGrayStep, ScanRootsStep,
     ScanStep, IncrAndScanBlackStep, CollectRootsStep, CollectRootsDoneStep,
     CollectWhiteStep, CollectWhiteFreedStep, FreeWhiteStep, FreeRootsStep,
     FreeRootsDoneStep
     DEF CollectorStep
<1>2. CASE MutatorStep
  BY <1>2, MakeStep, IncrementStep, UnrefStep, SetSlotStep, ShutdownStep DEF MutatorStep
<1>3. CASE UNCHANGED vars
  BY <1>3, GoodStutters
<1> QED
  BY <1>1, <1>2, <1>3 DEF Next

(* In every reachable state the stack is that of a chain of calls, and, as *)
(* long as no collection has started while a count was given up early,     *)
(* counts, colors, buffer and pending calls agree with one another, the    *)
(* middle of a pass included.                                              *)
THEOREM CollectorInvariant == Spec => []IInv
<1>1. IInv /\ [Next]_vars => IInv'
  <2> SUFFICES ASSUME IInv, [Next]_vars
               PROVE  IInv'
    OBVIOUS
  <2>1. ControlInv'
    <3>1. CASE CollectorStep
      BY <3>1, CountingSteps, MarkingSteps, ScanningSteps, CollectingSteps
         DEF CollectorStep, IInv
    <3>2. CASE MutatorStep
      BY <3>2, MutatorSteps DEF IInv
    <3>3. CASE UNCHANGED vars
      BY <3>3 DEF IInv, vars, ControlInv, TypeOK, StoreOwned, MarkIndexes, FullOnlyInPass
    <3> QED
      BY <3>1, <3>2, <3>3 DEF Next
  <2>2. exposed' \/ Good'
    BY <2>1, ExposedStays, GoodStep DEF IInv
  <2> QED
    BY <2>1, <2>2 DEF IInv
<1>2. Init => IInv
  BY InitControl, InitGood DEF IInv
<1> QED
  BY <1>1, <1>2, PTL DEF Spec

(***************************************************************************)
(* What the interpreter can reach is never freed.                          *)
(***************************************************************************)

\* the cells that a count or the colors of a pass still vouch for
Safe ==
  {c \in Cell : Settled(c) \/ (Tracing /\ color[c] \in {"gray", "white"})}

(* A cell with a count is vouched for.                                     *)
LEMMA CountedSafe ==
  ASSUME ControlInv, Good, NEW c \in Cell, rc[c] > 0
  PROVE  c \in Safe
<1>1. color[c] \in Color /\ color[c] # "white"
  BY DEF ControlInv, TypeOK, Good, ColorInv
<1>2. color[c] = "gray" => Tracing
  BY DEF Good, ColorInv
<1> QED
  BY <1>1, <1>2 DEF Safe, Settled, Color

(* Nothing freed is vouched for.                                           *)
LEMMA SafeAlloc ==
  ASSUME Good
  PROVE  Safe \subseteq alloc
BY DEF Safe, Settled, Good, FreshInv

\* no slot of a cell of T leads out of T
ClosedUnder(h, T) == \A c \in T, s \in Slot : h[c][s] = NoCell \/ h[c][s] \in T

(* The heap that the interpreter sees.                                     *)
LEMMA HeapNowFacts ==
  ASSUME ControlInv, NEW c \in Cell, NEW s \in Slot
  PROVE  /\ HeapNow[c][s] = IF Storing(c, s) THEN NoCell ELSE field[c][s]
         /\ field[c][s] \in Ref
<1>1. DOMAIN stack = 1 .. Len(stack)
  BY LenProperties DEF ControlInv, TypeOK
<1>2. Overwriting(c, s) <=> Storing(c, s)
  BY <1>1 DEF Overwriting, Storing, Pending
<1> QED
  BY <1>2 DEF HeapNow, ControlInv, TypeOK

(* A slot of such a cell leads to another, unless it is being overwritten. *)
LEMMA SafeClosed ==
  ASSUME ControlInv, Good
  PROVE  ClosedUnder(HeapNow, Safe)
<1> SUFFICES ASSUME NEW c \in Safe, NEW s \in Slot, HeapNow[c][s] # NoCell
             PROVE  HeapNow[c][s] \in Safe
  BY DEF ClosedUnder
<1> SUFFICES ASSUME NEW e, e = field[c][s], ~ Storing(c, s), e \in Cell, c \in Cell
             PROVE  e \in Safe
  BY HeapNowFacts DEF Safe, Ref
<1>1. s \in 0 .. Width /\ s # 0 /\ EdgeTarget(c, s) = e
  BY HeapGraphAssumption DEF Slot, EdgeTarget
<1>2. ASSUME Counts(c, s)
      PROVE  e \in Safe
  BY <1>1, <1>2, CountedAlloc, CountedSafe
<1>3. ASSUME Tracing, Visited(e)
      PROVE  e \in Safe
  BY <1>3 DEF Visited, Safe, Settled
<1>4. CASE Settled(c)
  <2>1. CASE Pend("incr_and_scan_black", c, s)
    <3>1. Tracing
      BY <2>1, CellTaskFields DEF Tracing, Calling, Pend
    <3>2. Target(CellTask("incr_and_scan_black", c, s)) = e
      BY <1>1, CellTaskFields DEF Target
    <3>3. TaskGood(CellTask("incr_and_scan_black", c, s))
      BY <2>1 DEF Good, TaskInv, Pend
    <3>4. Visited(e)
      BY <3>2, <3>3, CellTaskFields, HeapGraphAssumption DEF TaskGood
    <3> QED
      BY <1>3, <3>1, <3>4
  <2>2. CASE ~ Pend("incr_and_scan_black", c, s)
    <3>1. Counts(c, s)
      BY <1>1, <1>4, <2>2 DEF Counts
    <3> QED
      BY <1>2, <3>1
  <2> QED
    BY <2>1, <2>2
<1>5. CASE Tracing /\ color[c] \in {"gray", "white"}
  <2>1. CASE Pend("decr_and_mark_gray", c, s)
    BY <1>2, <2>1 DEF Counts
  <2>2. CASE ~ Pend("decr_and_mark_gray", c, s)
    <3>1. Visited(e)
      BY <1>5, <2>2, HeapGraphAssumption DEF Good, VisitedInv
    <3> QED
      BY <1>3, <1>5, <3>1
  <2> QED
    BY <2>1, <2>2
<1> QED
  BY <1>4, <1>5 DEF Safe

(* A closed set that holds the roots holds all that can be reached.        *)
LEMMA ReachableLeast ==
  ASSUME NEW h, NEW S, NEW T \in SUBSET Cell, S \subseteq T, ClosedUnder(h, T)
  PROVE  ReachableIn(h, S) \subseteq T
BY DEF ReachableIn, ClosedUnder

(* What can be reached holds the roots and is closed.                      *)
LEMMA ReachableCloses ==
  ASSUME NEW h, NEW S \in SUBSET Cell, \A c \in Cell, s \in Slot : h[c][s] \in Ref
  PROVE  /\ S \subseteq ReachableIn(h, S)
         /\ ClosedUnder(h, ReachableIn(h, S))
<1>1. S \subseteq ReachableIn(h, S)
  BY DEF ReachableIn
<1>2. ASSUME NEW c \in ReachableIn(h, S), NEW s \in Slot, h[c][s] # NoCell
      PROVE  h[c][s] \in ReachableIn(h, S)
  <2>1. c \in Cell
    BY DEF ReachableIn
  <2>2. h[c][s] \in Cell
    BY <1>2, <2>1 DEF Ref
  <2>3. ASSUME NEW T \in SUBSET Cell, S \subseteq T,
               \A d \in T, r \in Slot : h[d][r] = NoCell \/ h[d][r] \in T
        PROVE  h[c][s] \in T
    <3>1. c \in T
      BY <2>3 DEF ReachableIn
    <3> QED
      BY <1>2, <2>3, <3>1
  <2> QED
    BY <2>2, <2>3 DEF ReachableIn
<1> QED
  BY <1>1, <1>2 DEF ClosedUnder

(* What the interpreter can reach is vouched for.                          *)
LEMMA LiveSafe ==
  ASSUME ControlInv, Good
  PROVE  Live \subseteq Safe
<1>1. Held \subseteq Safe
  <2> SUFFICES ASSUME NEW c \in Cell, handle[c] > 0
               PROVE  c \in Safe
    BY DEF Held
  <2> QED
    BY CountedAlloc, CountedSafe
<1>2. Safe \in SUBSET Cell
  BY DEF Safe
<1> QED
  BY <1>1, <1>2, SafeClosed, ReachableLeast DEF Live

(***************************************************************************)
(* The safety properties.                                                  *)
(***************************************************************************)

(* The assertions of decrement and decr_and_mark_gray hold, and what the   *)
(* collector touches is allocated but for one read, that of the color of a *)
(* freed cell to which collect_white comes back (quuz-collector.c:155 from *)
(* :158, which does happen: NeverRevisitsFreed), for heaps of any size and *)
(* shape, unless a collection was started where a count had been dropped   *)
(* early.                                                                  *)
THEOREM CollectorSafe == Spec => []NoFaultButRevisits
<1>1. IInv => NoFaultButRevisits
  <2> SUFFICES ASSUME ControlInv, Good
               PROVE  fault = "none" /\ (TouchesFreed => VisitsFreedWhite)
    BY DEF IInv, NoFaultButRevisits
  <2>1. TouchesFreed => VisitsFreedWhite
    BY LoopTouchesAlloc, VisitTouchesAlloc DEF TouchesFreed
  <2> QED
    BY <2>1 DEF Good
<1> QED
  BY <1>1, CollectorInvariant, PTL

(* free_cell is never called on a cell that the interpreter can reach, not *)
(* even in the middle of a pass.                                           *)
THEOREM LiveCellsKept == Spec => []LiveNeverFreed
<1>1. IInv => LiveNeverFreed
  BY LiveSafe, SafeAlloc DEF IInv, LiveNeverFreed
<1> QED
  BY <1>1, CollectorInvariant, PTL

(* Between operations every count is the number of references, so mark,    *)
(* scan and collect gave back all that they took.                          *)
THEOREM CountsAreExact == Spec => []CountsExact
<1>1. IInv => CountsExact
  <2> SUFFICES ASSUME ControlInv, Good, Idle, NEW c \in alloc
               PROVE  rc[c] = handle[c] + Cardinality(InEdges(c))
    BY DEF IInv, CountsExact
  <2>1. c \in Cell
    BY DEF ControlInv, TypeOK
  <2>2. \A x \in Cell, y \in 0 .. Width : Counts(x, y) <=> y # 0 /\ rc[x] > 0
    BY IdleFacts
  <2>3. InRefs(c) = InEdges(c)
    <3>1. ASSUME NEW x \in Cell, NEW y \in 0 .. Width
          PROVE  EdgeTarget(x, y) = c /\ Counts(x, y)
                   <=> y \in Slot /\ rc[x] > 0 /\ field[x][y] = c
      BY <2>2, HeapGraphAssumption DEF EdgeTarget, Slot
    <3>2. Slot \subseteq 0 .. Width
      BY HeapGraphAssumption DEF Slot
    <3>3. InRefs(c) \subseteq InEdges(c)
      BY <3>1 DEF InRefs, InEdges, Edge
    <3>4. InEdges(c) \subseteq InRefs(c)
      BY <3>1, <3>2 DEF InRefs, InEdges, Edge
    <3> QED
      BY <3>3, <3>4
  <2> QED
    BY <2>1, <2>3 DEF Good, CountInv
<1> QED
  BY <1>1, CollectorInvariant, PTL

(* Between operations the root buffer holds the cells with the buffered    *)
(* bit, each once, and only those may be anything but black.               *)
THEOREM BufferIsConsistent == Spec => []BufferConsistent
<1>1. IInv => BufferConsistent
  <2> SUFFICES ASSUME ControlInv, Good, Idle
               PROVE  /\ \A i, k \in DOMAIN roots : roots[i] = roots[k] => i = k
                      /\ InBuffer = {c \in alloc : buffered[c]}
                      /\ \A c \in alloc : color[c] # "black" => color[c] = "purple" /\ buffered[c]
    BY DEF IInv, BufferConsistent
  <2>1. NoPass /\ alloc \subseteq Cell
    BY IdleFacts DEF ControlInv, TypeOK
  <2>2. \A k \in DOMAIN roots : roots[k] \in Cell
    BY ElementOfSeq, LenProperties DEF ControlInv, TypeOK
  <2>3. \A i, k \in DOMAIN roots : roots[i] = roots[k] => i = k
    BY <2>1 DEF NoPass, Good, BufferInv
  <2>4. \A c \in Cell : buffered[c] <=> c \in InBuffer
    BY <2>1 DEF NoPass, Good, BufferInv, InBuffer
  <2>5. \A c \in Cell : buffered[c] => c \in alloc
    BY DEF Good, FreshInv
  <2>6. InBuffer = {c \in alloc : buffered[c]}
    BY <2>1, <2>2, <2>4, <2>5 DEF InBuffer
  <2>7. \A c \in alloc : color[c] # "black" => color[c] = "purple" /\ buffered[c]
    BY <2>1, IdleFacts
  <2> QED
    BY <2>3, <2>6, <2>7
<1> QED
  BY <1>1, CollectorInvariant, PTL

(***************************************************************************)
(* Steps seen from the interpreter.                                        *)
(***************************************************************************)

\* the call at the top is no overwrite and gives way to others that are none
TopReplaced ==
  /\ stack # <<>> /\ Top.fn # "store"
  /\ \/ stack' = Rest
     \/ \E p : MayReplace(p, Top) /\ stack' = p \o Rest

(* Then the same overwrites are pending.                                   *)
LEMMA StoresKept ==
  ASSUME ControlInv, TopReplaced
  PROVE  \A t : t.fn = "store" => (t \in Pending(stack') <=> t \in Pending(stack))
<1>1. StackOK(stack)
  BY DEF ControlInv, TypeOK, StackOK
<1>2. Pending(stack) = {Top} \cup Pending(Rest)
  BY <1>1, BelowTop DEF Top, Rest, TopReplaced
<1>3. ASSUME NEW p, MayReplace(p, Top), stack' = p \o Rest
      PROVE  /\ Pending(stack') = Pending(p) \cup Pending(Rest)
             /\ \A t \in Pending(p) : t.fn # "store"
  <2>1. Pending(stack') = Pending(p) \cup Pending(Rest)
    BY <1>1, <1>3, ReplaceTop DEF Top, Rest, TopReplaced
  <2> QED
    BY <1>3, <2>1 DEF MayReplace, Pending
<1> QED
  BY <1>2, <1>3 DEF TopReplaced

(* An action of the collector replaces the call at the top.                *)
LEMMA CollectorReplacesTop ==
  ASSUME ControlInv, CollectorStep, ~ UseAfterFree, ~ AssertRefcount, ~ Store
  PROVE  TopReplaced
<1>1. CASE SkipInvalidCell
  BY <1>1 DEF SkipInvalidCell, TopReplaced
<1>2. CASE DecrementToZero
  <2> DEFINE c == Target(Top)
             u == CellTask("release_cell", c, 0)
             p == AllChildren("decrement", c) \o <<u>>
  <2>1. stack # <<>> /\ Top \in TaskSet /\ Top.fn = "decrement" /\ c \in Cell
    BY <1>2, VisitTarget DEF DecrementToZero
  <2>2. u \in TaskSet /\ u.fn = "release_cell"
    BY <2>1, CellTaskType, HeapGraphAssumption
  <2>3. MayReplace(p, Top)
    BY <2>1, <2>2, ChildrenThenMayReplace DEF CollectorFn, VisitFn, LoopFn
  <2>4. stack' = p \o Rest
    <3>1. stack' = AllChildren("decrement", c) \o <<u>> \o Rest
      BY <1>2 DEF DecrementToZero
    <3> QED
      BY <3>1
  <2> QED
    BY <2>1, <2>3, <2>4 DEF TopReplaced
<1>3. CASE DecrementToPossibleRoot
  <2>1. stack # <<>> /\ Top \in TaskSet /\ Top.fn = "decrement"
    BY <1>3, VisitTarget DEF DecrementToPossibleRoot
  <2>2. MayReplace(CollectTasks, Top)
    BY <2>1, CollectMayReplace DEF CollectorFn, VisitFn, LoopFn
  <2>3. stack' = Rest \/ stack' = CollectTasks \o Rest
    BY <1>3 DEF DecrementToPossibleRoot, BeginCollect
  <2> QED
    BY <2>1, <2>2, <2>3 DEF TopReplaced
<1>4. CASE ReleaseCell \/ FreeWhite \/ CollectRootsDone \/ CollectWhiteFreed
           \/ FreeRootsDone \/ MarkRootsDone
  BY <1>4 DEF ReleaseCell, FreeWhite, CollectRootsDone, CollectWhiteFreed, FreeRootsDone,
     MarkRootsDone, Visits, LoopDone, Calls, VisitsFreedWhite, TopReplaced
<1>5. CASE MarkRootsKeep
  <2> DEFINE c == roots[Top.i]
             u == LoopTask("mark_roots", Top.i + 1, Top.j + 1)
             p == AllChildren("decr_and_mark_gray", c) \o <<u>>
  <2>1. /\ stack # <<>> /\ Top \in TaskSet /\ Top.fn = "mark_roots"
        /\ Top.i \in Nat \ {0} /\ Top.j \in Nat \ {0} /\ c \in Cell
    BY <1>5, LoopTop DEF MarkRootsKeep, InLoop, LoopFn
  <2>2. u \in TaskSet /\ u.fn = "mark_roots"
    BY <2>1, LoopTaskType DEF LoopFn
  <2>3. MayReplace(p, Top)
    BY <2>1, <2>2, ChildrenThenMayReplace DEF CollectorFn, VisitFn, LoopFn
  <2>4. stack' = p \o Rest
    <3>1. stack' = AllChildren("decr_and_mark_gray", c) \o <<u>> \o Rest
      BY <1>5 DEF MarkRootsKeep
    <3> QED
      BY <3>1
  <2> QED
    BY <2>1, <2>3, <2>4 DEF TopReplaced
<1>6. CASE MarkRootsDiscard
  <2> DEFINE u == LoopTask("mark_roots", Top.i + 1, Top.j)
  <2>1. /\ stack # <<>> /\ Top \in TaskSet /\ Top.fn = "mark_roots"
        /\ Top.i \in Nat \ {0} /\ Top.j \in Nat \ {0}
    BY <1>6, LoopTop DEF MarkRootsDiscard, InLoop, LoopFn
  <2>2. u \in TaskSet /\ u.fn = "mark_roots"
    BY <2>1, LoopTaskType DEF LoopFn
  <2>3. MayReplace(<<u>>, Top)
    BY <2>1, <2>2, OneMayReplace DEF CollectorFn, VisitFn, LoopFn
  <2>4. stack' = <<u>> \o Rest
    BY <1>6 DEF MarkRootsDiscard, AfterDiscard
  <2> QED
    BY <2>1, <2>3, <2>4 DEF TopReplaced
<1>7. CASE DecrAndMarkGray
  <2> DEFINE c == Target(Top)
  <2>1. stack # <<>> /\ Top \in TaskSet /\ Top.fn = "decr_and_mark_gray" /\ c \in Cell
    BY <1>7, VisitTarget DEF DecrAndMarkGray, VisitFn
  <2>2. MayReplace(AllChildren("decr_and_mark_gray", c), Top)
    BY <2>1, ChildrenMayReplace DEF CollectorFn, VisitFn
  <2>3. stack' = Rest \/ stack' = AllChildren("decr_and_mark_gray", c) \o Rest
    BY <1>7 DEF DecrAndMarkGray
  <2> QED
    BY <2>1, <2>2, <2>3 DEF TopReplaced
<1>8. CASE ScanRoots
  <2> DEFINE p == [k \in 1 .. Len(roots) |-> CellTask("scan", roots[k], 0)]
  <2>1. stack # <<>> /\ Top \in TaskSet /\ Top.fn = "scan_roots" /\ roots \in Seq(Cell)
    BY <1>8, LoopTop DEF ScanRoots, LoopFn, ControlInv, TypeOK
  <2>2. MayReplace(p, Top)
    BY <2>1, ScansMayReplace
  <2>3. stack' = p \o Rest
    BY <1>8 DEF ScanRoots
  <2> QED
    BY <2>1, <2>2, <2>3 DEF TopReplaced
<1>9. CASE Scan \/ IncrAndScanBlack
  <2> DEFINE c == Target(Top)
  <2>1. /\ stack # <<>> /\ Top \in TaskSet /\ Top.fn \in {"scan", "incr_and_scan_black"}
        /\ c \in Cell
    BY <1>9, VisitTarget DEF Scan, IncrAndScanBlack, VisitFn
  <2>2. MayReplace(AllChildren("scan", c), Top) /\ MayReplace(AllChildren("incr_and_scan_black", c), Top)
    BY <2>1, ChildrenMayReplace DEF CollectorFn, VisitFn
  <2>3. \/ stack' = Rest \/ stack' = AllChildren("scan", c) \o Rest
        \/ stack' = AllChildren("incr_and_scan_black", c) \o Rest
    BY <1>9 DEF Scan, IncrAndScanBlack
  <2> QED
    BY <2>1, <2>2, <2>3 DEF TopReplaced
<1>10. CASE CollectRoots
  <2> DEFINE c == roots[Top.i]
             u == LoopTask("collect_roots", Top.i + 1, 1)
             p == AllChildren("collect_white", c) \o <<u>>
  <2>1. /\ stack # <<>> /\ Top \in TaskSet /\ Top.fn = "collect_roots"
        /\ Top.i \in Nat \ {0} /\ c \in Cell
    BY <1>10, LoopTop DEF CollectRoots, InLoop, LoopFn
  <2>2. u \in TaskSet /\ u.fn = "collect_roots"
    BY <2>1, LoopTaskType DEF LoopFn
  <2>3. MayReplace(p, Top) /\ MayReplace(<<u>>, Top)
    BY <2>1, <2>2, ChildrenThenMayReplace, OneMayReplace DEF CollectorFn, VisitFn, LoopFn
  <2>4. stack' = p \o Rest \/ stack' = <<u>> \o Rest
    <3>1. stack' = AllChildren("collect_white", c) \o <<u>> \o Rest \/ stack' = <<u>> \o Rest
      BY <1>10 DEF CollectRoots
    <3> QED
      BY <3>1
  <2> QED
    BY <2>1, <2>3, <2>4 DEF TopReplaced
<1>11. CASE CollectWhite
  <2> DEFINE c == Target(Top)
             u == CellTask("free_cell", c, 0)
             p == AllChildren("collect_white", c) \o <<u>>
  <2>1. stack # <<>> /\ Top \in TaskSet /\ Top.fn = "collect_white" /\ c \in Cell
    BY <1>11, VisitTarget DEF CollectWhite, VisitFn
  <2>2. u \in TaskSet /\ u.fn = "free_cell"
    BY <2>1, CellTaskType, HeapGraphAssumption DEF VisitFn
  <2>3. MayReplace(p, Top)
    BY <2>1, <2>2, ChildrenThenMayReplace DEF CollectorFn, VisitFn, LoopFn
  <2>4. stack' = p \o Rest \/ stack' = Rest
    <3>1. stack' = AllChildren("collect_white", c) \o <<u>> \o Rest \/ stack' = Rest
      BY <1>11 DEF CollectWhite
    <3> QED
      BY <3>1
  <2> QED
    BY <2>1, <2>3, <2>4 DEF TopReplaced
<1>12. CASE FreeRoots
  <2> DEFINE u == LoopTask("free_roots", Top.i + 1, 1)
  <2>1. /\ stack # <<>> /\ Top \in TaskSet /\ Top.fn = "free_roots" /\ Top.i \in Nat \ {0}
    BY <1>12, LoopTop DEF FreeRoots, InLoop, LoopFn
  <2>2. u \in TaskSet /\ u.fn = "free_roots"
    BY <2>1, LoopTaskType DEF LoopFn
  <2>3. MayReplace(<<u>>, Top)
    BY <2>1, <2>2, OneMayReplace DEF CollectorFn, VisitFn, LoopFn
  <2>4. stack' = <<u>> \o Rest
    BY <1>12 DEF FreeRoots
  <2> QED
    BY <2>1, <2>3, <2>4 DEF TopReplaced
<1> QED
  BY <1>1, <1>2, <1>3, <1>4, <1>5, <1>6, <1>7, <1>8, <1>9, <1>10, <1>11, <1>12
     DEF CollectorStep

(* A step of the collector frees a cell that nothing vouches for, or       *)
(* leaves memory and slots as they are.                                    *)
LEMMA CollectorFrees ==
  ASSUME ControlInv, Good, CollectorStep, ~ Store
  PROVE  /\ handle' = handle
         /\ \/ UNCHANGED <<alloc, field>>
            \/ \E c \in alloc : c \notin Safe /\ Freed(c)
<1>1. \A c \in Cell : rc[c] = 0 /\ color[c] \in {"black", "purple"} => c \notin Safe
  BY DEF Safe, Settled
<1>2. CASE ReleaseCell
  <2> SUFFICES ASSUME NEW c, c = Target(Top)
               PROVE  /\ handle' = handle
                      /\ \/ UNCHANGED <<alloc, field>>
                         \/ \E x \in alloc : x \notin Safe /\ Freed(x)
    OBVIOUS
  <2>1. /\ stack # <<>> /\ Top.fn = "release_cell" /\ c = EdgeTarget(Top.cell, Top.slot)
        /\ c \in alloc /\ c \in Cell
    BY <1>2, VisitFacts DEF ReleaseCell, Good
  <2>2. TaskGood(Top)
    BY <2>1, TopFacts DEF Good, TaskInv
  <2>3. rc[c] = 0 /\ color[c] \in {"black", "purple"}
    BY <2>1, <2>2 DEF TaskGood, EdgeTarget
  <2> QED
    BY <1>1, <1>2, <2>1, <2>3 DEF ReleaseCell
<1>3. CASE FreeWhite
  <2> SUFFICES ASSUME NEW c, c = Target(Top)
               PROVE  /\ handle' = handle
                      /\ \/ UNCHANGED <<alloc, field>>
                         \/ \E x \in alloc : x \notin Safe /\ Freed(x)
    OBVIOUS
  <2>1. /\ stack # <<>> /\ Top.fn = "free_cell" /\ c = EdgeTarget(Top.cell, Top.slot)
        /\ c \in alloc /\ c \in Cell
    BY <1>3, VisitFacts DEF FreeWhite, Good, VisitFn
  <2>2. TaskGood(Top)
    BY <2>1, TopFacts DEF Good, TaskInv
  <2>3. rc[c] = 0 /\ color[c] = "black"
    BY <2>1, <2>2 DEF TaskGood, EdgeTarget
  <2> QED
    BY <1>1, <1>3, <2>1, <2>3 DEF FreeWhite
<1>4. CASE MarkRootsDiscard \/ FreeRoots
  <2> SUFFICES ASSUME NEW c, c = roots[Top.i]
               PROVE  /\ handle' = handle
                      /\ \/ UNCHANGED <<alloc, field>>
                         \/ \E x \in alloc : x \notin Safe /\ Freed(x)
    OBVIOUS
  <2>1. c \in alloc /\ c \in Cell
    BY <1>4, LoopFacts DEF MarkRootsDiscard, FreeRoots, InLoop, LoopFn
  <2>2. /\ handle' = handle
        /\ \/ UNCHANGED <<alloc, field>>
           \/ color[c] = "black" /\ rc[c] = 0 /\ Freed(c)
    BY <1>4 DEF MarkRootsDiscard, FreeRoots, WasReleased
  <2> QED
    BY <1>1, <2>1, <2>2
<1>5. CASE ~ (ReleaseCell \/ FreeWhite \/ MarkRootsDiscard \/ FreeRoots)
  BY <1>5 DEF CollectorStep, SkipInvalidCell, UseAfterFree, AssertRefcount,
     DecrementToZero, DecrementToPossibleRoot, MarkRootsKeep, MarkRootsDone,
     DecrAndMarkGray, ScanRoots, Scan, IncrAndScanBlack, CollectRoots,
     CollectRootsDone, CollectWhite, CollectWhiteFreed, FreeRootsDone
<1> QED
  BY <1>2, <1>3, <1>4, <1>5

(***************************************************************************)
(* The abstract heap.                                                      *)
(***************************************************************************)

(* The two speak of the same things.                                       *)
LEMMA SameHeap ==
  /\ Abstract!Held = Held /\ Abstract!Live = Live /\ Abstract!Slot = Slot
  /\ Abstract!NoSlots = NoSlots /\ Abstract!Ref = Ref
BY DEF Abstract!Held, Abstract!Live, Abstract!ReachableIn, Abstract!Slot, Abstract!NoSlots,
   Abstract!Ref, Held, Live, ReachableIn, Slot, NoSlots, Ref

(* The heap that the interpreter sees depends on the slots and on the      *)
(* overwrites that are pending.                                            *)
LEMMA HeapNowIs ==
  ASSUME ControlInv
  PROVE  HeapNow = [c \in Cell |-> [s \in Slot |->
                      IF Storing(c, s) THEN NoCell ELSE field[c][s]]]
<1>1. DOMAIN stack = 1 .. Len(stack)
  BY LenProperties DEF ControlInv, TypeOK
<1>2. \A c, s : Overwriting(c, s) <=> Storing(c, s)
  BY <1>1 DEF Overwriting, Storing, Pending
<1> QED
  BY <1>2 DEF HeapNow

(* A step of the collector between the calls of the interpreter.           *)
LEMMA CollectorImplements ==
  ASSUME ControlInv, ControlInv', Good, CollectorStep, ~ Store
  PROVE  Abstract!Next \/ UNCHANGED Abstract!vars
<1>1. TopReplaced
  BY CollectorReplacesTop, NoFaultStep
<1>2. \A c, s : Storing(c, s)' <=> Storing(c, s)
  BY <1>1, StoresKept DEF Storing
<1>3. /\ HeapNow = [c \in Cell |-> [s \in Slot |->
                      IF Storing(c, s) THEN NoCell ELSE field[c][s]]]
      /\ HeapNow' = [c \in Cell |-> [s \in Slot |->
                      IF Storing(c, s) THEN NoCell ELSE field'[c][s]]]
  <2>1. HeapNow' = [c \in Cell |-> [s \in Slot |->
                      IF Storing(c, s)' THEN NoCell ELSE field'[c][s]]]
    <3>1. ControlInv'
      OBVIOUS
    <3>2. (HeapNow = [c \in Cell |-> [s \in Slot |->
                      IF Storing(c, s) THEN NoCell ELSE field[c][s]]])'
      BY <3>1, HeapNowIs, PTL
    <3> QED
      BY <3>2
  <2> QED
    BY <1>2, <2>1, HeapNowIs
<1>4. CASE UNCHANGED <<alloc, field>>
  <2>1. handle' = handle
    BY CollectorFrees
  <2>2. HeapNow' = HeapNow
    BY <1>3, <1>4
  <2> QED
    BY <1>4, <2>1, <2>2 DEF Abstract!vars
<1>5. CASE \E c \in alloc : c \notin Safe /\ Freed(c)
  <2>1. PICK c \in alloc : c \notin Safe /\ Freed(c)
    BY <1>5
  <2>2. c \in Cell /\ c \notin Live
    BY <2>1, LiveSafe DEF ControlInv, TypeOK
  <2>3. handle' = handle
    BY CollectorFrees
  <2>4. alloc' = alloc \ {c}
        /\ \A x \in Cell : field'[x] = IF x = c THEN NoSlots ELSE field[x]
    BY <2>1, <2>2, FreedFacts
  <2>5. HeapNow' = [HeapNow EXCEPT ![c] = NoSlots]
    BY <1>3, <2>2, <2>4 DEF NoSlots
  <2>6. Abstract!Free
    BY <2>1, <2>2, <2>3, <2>4, <2>5, SameHeap DEF Abstract!Free
  <2> QED
    BY <2>6 DEF Abstract!Next
<1> QED
  BY <1>4, <1>5, CollectorFrees

(* The heap after a step, in which the overwrites in Q are pending.        *)
LEMMA HeapNowNext ==
  ASSUME ControlInv'
  PROVE  HeapNow' = [c \in Cell |-> [s \in Slot |->
                      IF Storing(c, s)' THEN NoCell ELSE field'[c][s]]]
<1>1. ControlInv'
  OBVIOUS
<1>2. (HeapNow = [c \in Cell |-> [s \in Slot |->
                    IF Storing(c, s) THEN NoCell ELSE field[c][s]]])'
  BY <1>1, HeapNowIs, PTL
<1> QED
  BY <1>2

(* Writing one slot.                                                       *)
LEMMA OverwriteSlot ==
  ASSUME NEW h, NEW g, NEW d \in Cell, NEW s \in Slot, NEW e, NEW o,
         h = [x \in Cell |-> [y \in Slot |-> IF x = d /\ y = s THEN o ELSE g[x][y]]]
  PROVE  [h EXCEPT ![d][s] = e]
           = [x \in Cell |-> [y \in Slot |-> IF x = d /\ y = s THEN e ELSE g[x][y]]]
<1>1. [h[d] EXCEPT ![s] = e] = [y \in Slot |-> IF d = d /\ y = s THEN e ELSE g[d][y]]
  BY DEF Slot
<1> QED
  BY <1>1

(* The overwrite puts the new reference into the slot.                     *)
LEMMA StoreImplements ==
  ASSUME ControlInv, ControlInv', Good, Store
  PROVE  Abstract!Next \/ UNCHANGED Abstract!vars
<1> SUFFICES ASSUME NEW d, NEW s, NEW e, d = Top.cell, s = Top.slot, e = Top.val
             PROVE  Abstract!Next \/ UNCHANGED Abstract!vars
  OBVIOUS
<1>1. stack # <<>> /\ Top.fn = "store"
  BY DEF Store, Calls
<1>2. /\ Top \in TaskSet /\ Top \in Pending(stack)
      /\ Pending(stack) = {Top} \cup Pending(Rest)
  BY <1>1, TopFacts DEF Good
<1>3. d \in Cell /\ s \in Slot /\ e \in Ref
  BY <1>1, <1>2, TaskTypes
<1>4. Rest = <<>>
  <2>1. stack \in Seq(TaskSet) /\ Len(stack) \in Nat \ {0} /\ Top = stack[1]
    BY <1>1, HeadTailProperties, LenProperties, EmptySeq DEF ControlInv, TypeOK, Top
  <2>2. Len(stack) = 1
    <3>1. StoreLast(stack) /\ 1 \in 1 .. Len(stack) /\ stack[1].fn = "store"
      BY <1>1, <2>1 DEF ControlInv
    <3> QED
      BY <3>1 DEF StoreLast
  <2>3. Rest \in Seq(TaskSet) /\ Len(Rest) = 0
    BY <1>1, <2>1, <2>2, HeadTailProperties DEF Rest
  <2> QED
    BY <2>3, EmptySeq
<1>5. Pending(Rest) = {}
  BY <1>4, EmptyStack
<1>6. \A x, y : Storing(x, y) <=> x = d /\ y = s
  BY <1>1, <1>2, <1>5 DEF Storing
<1>7. \A x, y : ~ Storing(x, y)'
  BY <1>5 DEF Store, Storing
<1>8. /\ field' = [field EXCEPT ![d][s] = e]
      /\ handle' = IF e = NoCell THEN handle ELSE [handle EXCEPT ![e] = @ - 1]
      /\ alloc' = alloc
  BY DEF Store
<1>9. /\ HeapNow = [x \in Cell |-> [y \in Slot |->
                      IF x = d /\ y = s THEN NoCell ELSE field[x][y]]]
      /\ HeapNow' = [x \in Cell |-> [y \in Slot |-> field'[x][y]]]
  BY <1>6, <1>7, HeapNowIs, HeapNowNext
<1>10. \A x \in Cell, y \in Slot :
         field'[x][y] = IF x = d /\ y = s THEN e ELSE field[x][y]
  BY <1>3, <1>8 DEF ControlInv, TypeOK
<1>11. CASE e = NoCell
  <2>1. HeapNow' = HeapNow
    BY <1>9, <1>10, <1>11
  <2> QED
    BY <1>8, <1>11, <2>1 DEF Abstract!vars
<1>12. CASE e # NoCell
  <2>1. e \in Held
    BY <1>1, <1>2, <1>3, <1>12 DEF ControlInv, StoreOwned, Held, Ref
  <2>2. d \in Held
    BY <1>1, <1>2, <1>3 DEF Good, TaskInv, TaskGood, Held
  <2>3. HeapNow[d][s] = NoCell
    BY <1>3, <1>9
  <2>4. HeapNow' = [HeapNow EXCEPT ![d][s] = e]
    <3>1. HeapNow' = [x \in Cell |-> [y \in Slot |->
                        IF x = d /\ y = s THEN e ELSE field[x][y]]]
      BY <1>9, <1>10
    <3>2. d \in Cell /\ s \in Slot
      BY <1>3
    <3>3. HeapNow = [x \in Cell |-> [y \in Slot |->
                       IF x = d /\ y = s THEN NoCell ELSE field[x][y]]]
      BY <1>9
    <3>4. [HeapNow EXCEPT ![d][s] = e] = [x \in Cell |-> [y \in Slot |->
                        IF x = d /\ y = s THEN e ELSE field[x][y]]]
      BY ONLY <3>2, <3>3, OverwriteSlot
    <3> QED
      BY <3>1, <3>4
  <2>5. Abstract!Put
    BY <1>3, <1>8, <1>12, <2>1, <2>2, <2>3, <2>4, SameHeap DEF Abstract!Put
  <2> QED
    BY <2>5 DEF Abstract!Next
<1> QED
  BY <1>11, <1>12

(* The operations of the interpreter are those of the abstract heap.       *)
LEMMA MutatorImplements ==
  ASSUME ControlInv, ControlInv', Good, MutatorStep
  PROVE  Abstract!Next \/ UNCHANGED Abstract!vars
<1>1. Idle /\ Pending(stack) = {}
  <2>1. Idle
    BY DEF MutatorStep, Make, Increment, Unref, SetSlot, Shutdown
  <2> QED
    BY <2>1, IdleFacts
<1>2. HeapNow = field
  <2>1. HeapNow = [c \in Cell |-> [s \in Slot |-> field[c][s]]]
    BY <1>1, HeapNowIs DEF Storing
  <2>2. field \in [Cell -> [Slot -> Ref]]
    BY DEF ControlInv, TypeOK
  <2> QED
    BY <2>1, <2>2
<1>3. ASSUME \A c, s : ~ Storing(c, s)'
      PROVE  HeapNow' = field'
  <2>1. HeapNow' = [c \in Cell |-> [s \in Slot |-> field'[c][s]]]
    BY <1>3, HeapNowNext
  <2>2. field' \in [Cell -> [Slot -> Ref]]
    BY DEF ControlInv, TypeOK
  <2> QED
    BY <2>1, <2>2
<1>4. ASSUME stack' = stack
      PROVE  HeapNow' = field'
  BY <1>1, <1>3, <1>4 DEF Storing
<1>5. CASE Make
  <2>1. HeapNow' = field'
    BY <1>4, <1>5 DEF Make
  <2>2. PICK c \in Cell \ alloc, f \in [Slot -> Ref] :
          /\ \A d \in Cell : Occurrences(f, d) <= handle[d]
          /\ alloc' = alloc \cup {c}
          /\ field' = [field EXCEPT ![c] = f]
          /\ handle' = [d \in Cell |-> IF d = c THEN 1
                                       ELSE handle[d] - Occurrences(f, d)]
    BY <1>5 DEF Make
  <2>3. \A x : Abstract!Occurrences(f, x) = Occurrences(f, x)
    BY DEF Abstract!Occurrences, Occurrences, Abstract!Slot, Slot, Abstract!Cardinality, Cardinality
  <2>4. /\ \A d \in Cell : Abstract!Occurrences(f, d) <= handle[d]
        /\ handle' = [d \in Cell |-> IF d = c THEN 1
                                     ELSE handle[d] - Abstract!Occurrences(f, d)]
        /\ f \in [Abstract!Slot -> Abstract!Ref]
        /\ HeapNow' = [HeapNow EXCEPT ![c] = f]
        /\ alloc' = alloc \cup {c}
    BY <1>2, <2>1, <2>2, <2>3, SameHeap
  <2>5. Abstract!Make
    BY <2>4 DEF Abstract!Make
  <2> QED
    BY <2>5 DEF Abstract!Next
<1>6. CASE Increment
  <2>1. HeapNow' = field' /\ field' = field /\ alloc' = alloc
    BY <1>4, <1>6 DEF Increment
  <2>2. PICK c \in Cell : Borrowed(c) /\ handle' = [handle EXCEPT ![c] = @ + 1]
    BY <1>6 DEF Increment
  <2>3. Held \subseteq Live /\ ClosedUnder(field, Live)
    <3>1. Held \in SUBSET Cell /\ \A x \in Cell, y \in Slot : field[x][y] \in Ref
      BY DEF Held, ControlInv, TypeOK
    <3> QED
      BY <1>2, <3>1, ReachableCloses DEF Live
  <2>4. c \in Live
    <3>1. CASE handle[c] > 0
      BY <2>3, <3>1 DEF Held
    <3>2. CASE \E d \in Cell, s \in Slot : handle[d] > 0 /\ field[d][s] = c
      BY <2>3, <3>2, HeapGraphAssumption DEF Held, ClosedUnder
    <3> QED
      BY <2>2, <3>1, <3>2 DEF Borrowed
  <2>5. Abstract!Take
    BY <1>2, <2>1, <2>2, <2>4, SameHeap DEF Abstract!Take
  <2> QED
    BY <2>5 DEF Abstract!Next
<1>7. CASE Unref
  <2>1. PICK c \in Cell : /\ handle[c] > 0
                          /\ handle' = [handle EXCEPT ![c] = @ - 1]
                          /\ stack' = << CellTask("decrement", c, 0) >>
    BY <1>7 DEF Unref
  <2>2. Pending(stack') = {CellTask("decrement", c, 0)}
    BY <2>1 DEF Pending
  <2>3. HeapNow' = field' /\ field' = field /\ alloc' = alloc
    BY <1>3, <1>7, <2>2, CellTaskFields DEF Unref, Storing
  <2>4. Abstract!Drop
    BY <1>2, <2>1, <2>3, SameHeap DEF Abstract!Drop, Held
  <2> QED
    BY <2>4 DEF Abstract!Next
<1>8. CASE SetSlot
  <2>1. PICK c \in Cell, s \in Slot, e \in Ref :
          /\ handle[c] > 0
          /\ stack' = << CellTask("decrement", c, s), StoreTask(c, s, e) >>
    BY <1>8 DEF SetSlot
  <2>2. Pending(stack') = {CellTask("decrement", c, s), StoreTask(c, s, e)}
    BY <2>1 DEF Pending
  <2>3. /\ StoreTask(c, s, e).fn = "store" /\ StoreTask(c, s, e).cell = c
        /\ StoreTask(c, s, e).slot = s
    BY DEF StoreTask
  <2>4. \A x, y : Storing(x, y)' <=> x = c /\ y = s
    BY <2>2, <2>3, CellTaskFields DEF Storing
  <2>5. alloc' = alloc /\ handle' = handle /\ field' = field
    BY <1>8 DEF SetSlot
  <2>6. HeapNow' = [x \in Cell |-> [y \in Slot |->
                      IF x = c /\ y = s THEN NoCell ELSE field[x][y]]]
    BY <2>4, <2>5, HeapNowNext
  <2>7. HeapNow' = [HeapNow EXCEPT ![c][s] = NoCell]
    BY <1>2, <2>6 DEF ControlInv, TypeOK
  <2>8. Abstract!Clear
    BY <2>1, <2>5, <2>7, SameHeap DEF Abstract!Clear, Held
  <2> QED
    BY <2>8 DEF Abstract!Next
<1>9. CASE Shutdown
  <2>1. stack' = CollectTasks \o <<>> /\ alloc' = alloc /\ handle' = handle /\ field' = field
    BY <1>9 DEF Shutdown, BeginCollect
  <2>2. GoodStack(<<>>, InBuffer) /\ Pending(<<>>) = {}
    BY EmptyStack
  <2>3. Pending(stack') = { LoopTask(fn, 1, 1) : fn \in LoopFn }
    BY <2>1, <2>2, PushCollect
  <2>4. \A fn \in LoopFn : LoopTask(fn, 1, 1).fn # "store"
    BY DEF LoopTask, LoopFn
  <2>5. HeapNow' = field'
    BY <1>3, <2>3, <2>4 DEF Storing
  <2> QED
    BY <1>2, <2>1, <2>5 DEF Abstract!vars
<1> QED
  BY <1>5, <1>6, <1>7, <1>8, <1>9 DEF MutatorStep

(* Every step while nothing is exposed.                                    *)
LEMMA StepImplements ==
  ASSUME IInv, IInv', [Next]_vars, ~ exposed
  PROVE  Abstract!Next \/ UNCHANGED Abstract!vars
<1>1. ControlInv /\ ControlInv' /\ Good
  BY DEF IInv
<1>2. CASE CollectorStep
  BY <1>1, <1>2, CollectorImplements, StoreImplements
<1>3. CASE MutatorStep
  BY <1>1, <1>3, MutatorImplements
<1>4. CASE UNCHANGED vars
  BY <1>4 DEF vars, Abstract!vars, HeapNow, Overwriting
<1> QED
  BY <1>2, <1>3, <1>4 DEF Next

(* The empty heap is the abstract one.                                     *)
LEMMA InitImplements == Init => Abstract!Init
<1> SUFFICES ASSUME Init
             PROVE  Abstract!Init
  OBVIOUS
<1>1. ControlInv
  BY InitControl
<1>2. Pending(stack) = {}
  BY EmptyStack DEF Init
<1>3. HeapNow = [c \in Cell |-> NoSlots]
  BY <1>1, <1>2, HeapNowIs DEF Storing, Init, NoSlots
<1> QED
  BY <1>3, SameHeap DEF Init, Abstract!Init

(* The collector implements the abstract heap: as long as no collection    *)
(* has started too early, all the interpreter ever sees happen to its heap *)
(* is what it did itself and the disappearance of cells out of its reach.  *)
THEOREM CollectorRefinesHeap == Spec => ImplementsUntilExposed
<1>1. IInv /\ IInv' /\ [Next]_vars => [Abstract!Next \/ exposed']_(Abstract!vars)
  <2> SUFFICES ASSUME IInv, IInv', [Next]_vars, ~ exposed'
               PROVE  Abstract!Next \/ UNCHANGED Abstract!vars
    OBVIOUS
  <2>1. ~ exposed
    BY ExposedStays
  <2> QED
    BY <2>1, StepImplements
<1> QED
  BY <1>1, InitImplements, CollectorInvariant, PTL DEF Spec, ImplementsUntilExposed

(* With room for every cell the buffer never fills up, so qz_collect runs  *)
(* only at the end of qz_free and is never too early.                      *)
LEMMA RoomyBuffer ==
  ASSUME Capacity > Cardinality(Cell), IInv, ~ exposed, [Next]_vars
  PROVE  ~ exposed'
<1>1. ControlInv /\ Good
  BY DEF IInv
<1>2. CASE DecrementToPossibleRoot
  <2> SUFFICES ASSUME NEW c, c = Target(Top), ~ AlreadyPossibleRoot(c),
                      BufferFull(Len(roots) + 1)
               PROVE  FALSE
    BY <1>2 DEF DecrementToPossibleRoot
  <2>1. c \in Cell /\ ~ buffered[c]
    BY <1>1, <1>2, VisitTarget DEF DecrementToPossibleRoot, AlreadyPossibleRoot
  <2>2. NoPass
    BY <1>1, <1>2, DecrementFacts, OutsidePass DEF DecrementToPossibleRoot
  <2>3. /\ roots \in Seq(Cell) /\ Len(roots) \in Nat /\ DOMAIN roots = 1 .. Len(roots)
        /\ \A k \in DOMAIN roots : roots[k] \in Cell
    BY <1>1, ElementOfSeq, LenProperties DEF ControlInv, TypeOK
  <2>4. \A k, m \in DOMAIN roots : roots[k] = roots[m] => k = m
    BY <1>1, <2>2 DEF NoPass, Good, BufferInv
  <2>5. \A k \in DOMAIN roots : roots[k] # c
    BY <1>1, <2>1, <2>2 DEF NoPass, Good, BufferInv
  <2>6. roots \in [1 .. Len(roots) -> Cell \ {c}]
    BY <2>3, <2>5
  <2>7. IsFiniteSet(Cell \ {c}) /\ Cardinality(Cell \ {c}) = Cardinality(Cell) - 1
    BY <2>1, HeapGraphAssumption, FS_RemoveElement
  <2>8. IsFiniteSet(1 .. Len(roots)) /\ Cardinality(1 .. Len(roots)) = Len(roots)
    BY <2>3, FS_Interval
  <2>9. ~ (Cardinality(Cell \ {c}) < Cardinality(1 .. Len(roots)))
    <3>1. \A k, m \in 1 .. Len(roots) : ~ (k # m /\ roots[k] = roots[m])
      BY <2>3, <2>4
    <3> QED
      BY <2>6, <2>7, <2>8, <3>1, FS_PigeonHole
  <2>10. Cardinality(Cell) \in Nat
    BY HeapGraphAssumption, FS_CardinalityType
  <2> QED
    BY <2>3, <2>7, <2>8, <2>9, <2>10, CollectorAssumption DEF BufferFull
<1>3. CASE Shutdown
  <2>1. DOMAIN <<>> = {}
    BY EmptySeq, LenProperties
  <2> QED
    BY <1>3, <2>1 DEF Shutdown, BeginCollect
<1>4. CASE CollectorStep /\ ~ DecrementToPossibleRoot
  BY <1>4 DEF CollectorStep, SkipInvalidCell, UseAfterFree, AssertRefcount,
     DecrementToZero, ReleaseCell, Store,
     MarkRootsKeep, MarkRootsDiscard, MarkRootsDone, DecrAndMarkGray,
     ScanRoots, Scan, IncrAndScanBlack, CollectRoots, CollectRootsDone,
     CollectWhite, CollectWhiteFreed, FreeWhite, FreeRoots, FreeRootsDone
<1>5. CASE MutatorStep /\ ~ Shutdown
  BY <1>5 DEF MutatorStep, Make, Increment, Unref, SetSlot
<1>6. CASE UNCHANGED vars
  BY <1>6 DEF vars
<1> QED
  BY <1>2, <1>3, <1>4, <1>5, <1>6 DEF Next

(* Then the collector implements the abstract heap outright.               *)
THEOREM RoomyCollectorRefinesHeap ==
  ASSUME Capacity > Cardinality(Cell)
  PROVE  Spec => ImplementsHeap
<1>1. IInv /\ ~ exposed /\ [Next]_vars => ~ exposed'
  BY RoomyBuffer
<1>2. Init => ~ exposed
  BY DEF Init
<1>3. IInv /\ IInv' /\ ~ exposed /\ [Next]_vars => [Abstract!Next]_(Abstract!vars)
  BY StepImplements
<1> QED
  BY <1>1, <1>2, <1>3, InitImplements, CollectorInvariant, PTL
     DEF Spec, ImplementsHeap, Abstract!Spec

(***************************************************************************)
(* What the collector can find: the cells with a count from the root       *)
(* buffer and from what the interpreter holds, and those without a count   *)
(* in a pass or a pending call.                                            *)
(***************************************************************************)

\* the cells with a count that no pass has touched
SettledCells == {c \in Cell : Settled(c)}

\* a pending call is about to take back a reference to c
Claimed(c) ==
  \E d \in Cell, s \in 0 .. Width :
    /\ Pend("decrement", d, s) \/ Pend("decr_and_mark_gray", d, s)
    /\ EdgeTarget(d, s) = c

\* the interpreter holds it, it is a possible root, or about to be one
Anchors == {c \in Cell : handle[c] > 0 \/ color[c] = "purple" \/ Claimed(c)}

\* every settled cell can be found from one of those
KnownInv == FoundFrom(HeapNow, SettledCells, Anchors)

\* an element of the buffer that free_roots has yet to come to
WillBeFreed(c) ==
  /\ Calling("free_roots") /\ ~ Tracing
  /\ \E k \in DOMAIN roots :
       roots[k] = c /\ \A t \in Pending(stack) : t.fn = "free_roots" => t.i <= k

\* a cell without references is in the hands of a pass or a pending call
LeftInv ==
  \A c \in alloc :
    rc[c] = 0 =>
      \/ color[c] \in {"gray", "white"} \/ buffered[c]
      \/ Pend("release_cell", c, 0) \/ Pend("free_cell", c, 0)
      \/ WillBeFreed(c)

(* When cells, slots and anchors change: what was an anchor still is one   *)
(* or hangs on one, and so does what hung on a slot that is gone.          *)
LEMMA FoundStep ==
  ASSUME NEW h, NEW S \in SUBSET Cell, NEW B, FoundFrom(h, S, B),
         NEW h2, NEW S2 \in SUBSET Cell, NEW B2,
         \A x \in B \cap S \cap S2 :
           x \in B2 \/ \E d \in B2 \cap S2, s \in Slot : h2[d][s] = x,
         \A d \in S, s \in Slot : h[d][s] \in S \cap S2 =>
           (d \in S2 /\ h2[d][s] = h[d][s]) \/ h[d][s] \in B2,
         \A x \in S2 \ S :
           x \in B2 \/ \E d \in S \cap S2, s \in Slot : h2[d][s] = x
  PROVE  FoundFrom(h2, S2, B2)
<1> SUFFICES ASSUME NEW T2 \in SUBSET Cell, B2 \cap S2 \subseteq T2,
                    \A d \in T2 \cap S2, s \in Slot : h2[d][s] \in S2 => h2[d][s] \in T2
             PROVE  S2 \subseteq T2
  BY DEF FoundFrom
<1> DEFINE T == T2 \cup (S \ S2)
<1>1. B \cap S \subseteq T
  OBVIOUS
<1>2. \A d \in T \cap S, s \in Slot : h[d][s] \in S => h[d][s] \in T
  OBVIOUS
<1>3. S \subseteq T
  <2>1. T \in SUBSET Cell
    OBVIOUS
  <2> HIDE DEF T
  <2> QED
    BY <1>1, <1>2, <2>1 DEF FoundFrom
<1> QED
  BY <1>3

(* What is pending after a call pushes others.                             *)
LEMMA PendingConcat ==
  ASSUME NEW p \in Seq(TaskSet), NEW r \in Seq(TaskSet)
  PROVE  Pending(p \o r) = Pending(p) \cup Pending(r)
<1>1. /\ Len(p) \in Nat /\ Len(r) \in Nat /\ Len(p \o r) = Len(p) + Len(r)
      /\ \A k \in 1 .. Len(p) : (p \o r)[k] = p[k]
      /\ \A k \in 1 .. Len(r) : (p \o r)[Len(p) + k] = r[k]
  BY ConcatProperties, LenProperties
<1> DEFINE n == Len(p)
           m == Len(r)
           q == p \o r
<1> HIDE DEF n, m, q
<1>2. /\ n \in Nat /\ m \in Nat /\ Len(q) = n + m
      /\ \A k \in 1 .. n : q[k] = p[k]
      /\ \A k \in 1 .. m : q[n + k] = r[k]
  BY <1>1 DEF n, m, q
<1>3. \A k \in 1 .. (n + m) : k \in 1 .. n \/ (k - n \in 1 .. m /\ k = n + (k - n))
  BY <1>2
<1>4. (\A k \in 1 .. n : k \in 1 .. (n + m)) /\ (\A k \in 1 .. m : n + k \in 1 .. (n + m))
  BY <1>2
<1>5. {q[k] : k \in 1 .. (n + m)} \subseteq {p[k] : k \in 1 .. n} \cup {r[k] : k \in 1 .. m}
  <2> SUFFICES ASSUME NEW k \in 1 .. (n + m)
               PROVE  q[k] \in {p[j] : j \in 1 .. n} \cup {r[j] : j \in 1 .. m}
    OBVIOUS
  <2>1. CASE k \in 1 .. n
    BY <1>2, <2>1
  <2>2. CASE k - n \in 1 .. m /\ k = n + (k - n)
    BY <1>2, <2>2
  <2> QED
    BY <1>3, <2>1, <2>2
<1>6. {p[k] : k \in 1 .. n} \cup {r[k] : k \in 1 .. m} \subseteq {q[k] : k \in 1 .. (n + m)}
  BY <1>2, <1>4
<1>7. Pending(q) = {p[k] : k \in 1 .. n} \cup {r[k] : k \in 1 .. m}
  BY <1>2, <1>5, <1>6 DEF Pending
<1> QED
  BY <1>7 DEF Pending, n, m, q

(* The same for the calls that the collector pushes.                       *)
LEMMA PendingPushed ==
  ASSUME ControlInv, StackInv, stack # <<>>
  PROVE  /\ \A fn \in {"decrement"} \cup VisitFn, c \in Cell :
              Pending(AllChildren(fn, c) \o Rest) = Tasks(fn, c) \cup Pending(Rest)
         /\ \A fn \in {"decrement"} \cup VisitFn, c \in Cell, u \in TaskSet :
              Pending(AllChildren(fn, c) \o <<u>> \o Rest)
                = Tasks(fn, c) \cup {u} \cup Pending(Rest)
         /\ \A u \in TaskSet : Pending(<<u>> \o Rest) = {u} \cup Pending(Rest)
<1>1. Rest \in Seq(TaskSet)
  BY TopFacts DEF GoodStack
<1>2. ASSUME NEW fn \in {"decrement"} \cup VisitFn, NEW c \in Cell
      PROVE  Pending(AllChildren(fn, c) \o Rest) = Tasks(fn, c) \cup Pending(Rest)
  BY <1>1, ChildrenPushed, PendingConcat
<1>3. ASSUME NEW fn \in {"decrement"} \cup VisitFn, NEW c \in Cell, NEW u \in TaskSet
      PROVE  Pending(AllChildren(fn, c) \o <<u>> \o Rest)
               = Tasks(fn, c) \cup {u} \cup Pending(Rest)
  <2>1. /\ AllChildren(fn, c) \o <<u>> \in Seq(TaskSet)
        /\ Pending(AllChildren(fn, c) \o <<u>>) = Tasks(fn, c) \cup {u}
    BY ONLY <1>3, ChildrenThenPushed
  <2> QED
    BY ONLY <1>1, <2>1, PendingConcat
<1>4. ASSUME NEW u \in TaskSet
      PROVE  Pending(<<u>> \o Rest) = {u} \cup Pending(Rest)
  <2>1. <<u>> \in Seq(TaskSet) /\ Pending(<<u>>) = {u}
    BY DEF Pending
  <2> QED
    BY <1>1, <2>1, PendingConcat
<1> QED
  BY <1>2, <1>3, <1>4

(* A cell whose slots are being given up is allocated.                     *)
LEMMA ClaimerAlloc ==
  ASSUME ControlInv, Good, NEW d \in Cell, NEW s, s # 0,
         Pend("decrement", d, s) \/ Pend("decr_and_mark_gray", d, s)
  PROVE  d \in alloc
<1>1. CASE Pend("decrement", d, s)
  <2>1. PICK i \in 1 .. Len(stack) : stack[i] = CellTask("decrement", d, s)
    BY <1>1 DEF Pend, Pending
  <2>2. NeedsAttendant(stack[i], InBuffer) /\ stack[i].cell = d
    BY <2>1, CellTaskFields DEF NeedsAttendant
  <2>3. PICK k \in 1 .. Len(stack) : Attends(stack[k], stack[i])
    BY <2>2 DEF Good, StackInv, Attended
  <2>4. stack[k] \in Pending(stack) /\ TaskGood(stack[k])
    BY DEF Pending, Good, TaskInv
  <2>5. stack[k].cell = d /\ stack[k].fn \in {"release_cell", "store", "free_cell"}
    BY <2>2, <2>3 DEF Attends
  <2> QED
    BY <2>4, <2>5, CountedAlloc DEF TaskGood
<1>2. CASE Pend("decr_and_mark_gray", d, s)
  <2>1. color[d] = "gray"
    BY <1>2, CellTaskFields DEF Pend, Good, TaskInv, TaskGood
  <2> QED
    BY <2>1 DEF Good, FreshInv
<1> QED
  BY <1>1, <1>2

\* slots are given up by allocated cells only
ClaimersAlloc ==
  \A d \in Cell, s \in Slot :
    Pend("decrement", d, s) \/ Pend("decr_and_mark_gray", d, s) => d \in alloc

(* So they are.                                                            *)
LEMMA AllClaimersAlloc == ControlInv /\ Good => ClaimersAlloc
<1>1. \A s \in Slot : s # 0
  BY DEF Slot
<1> QED
  BY <1>1, ClaimerAlloc DEF ClaimersAlloc

\* what a step of the collector asks of the cells that it lets go of,
\* unsettles or settles
KeepsAnchors ==
  /\ \A x \in Cell :
       Settled(x) /\ Settled(x)' /\ color[x] = "purple" => color'[x] = "purple"
  /\ Top.fn \in {"decrement", "decr_and_mark_gray"} =>
       \A x \in Cell : Target(Top) = x /\ Settled(x)' => color'[x] = "purple"
  /\ \A d \in Cell : Settled(d) /\ ~ Settled(d)' =>
       /\ field' = field
       /\ \A s \in Slot : Pend("decrement", d, s)' \/ Pend("decr_and_mark_gray", d, s)'
  /\ \A x \in Cell : Settled(x)' /\ ~ Settled(x) =>
       \/ handle'[x] > 0
       \/ Claimed(x)'
       \/ \E d \in Cell, s \in Slot :
            Settled(d) /\ Settled(d)' /\ ~ Storing(d, s) /\ field[d][s] = x

(* A step of the collector that does keeps every settled cell findable.    *)
LEMMA KnownStep ==
  ASSUME ControlInv, ControlInv', Good, Good', KnownInv, CollectorStep, ~ Store,
         KeepsAnchors
  PROVE  KnownInv'
<1> USE DEF KeepsAnchors
<1>1. TopReplaced
  BY CollectorReplacesTop, NoFaultStep
<1>2. \A c, s : Storing(c, s)' <=> Storing(c, s)
  BY <1>1, StoresKept DEF Storing
<1>3. handle' = handle
  BY CollectorFrees
<1>4. \A d \in Cell : d \in alloc' \/ Settled(d) => field'[d] = field[d]
  <2>1. CASE UNCHANGED <<alloc, field>>
    BY <2>1
  <2>2. CASE \E c \in alloc : c \notin Safe /\ Freed(c)
    <3>1. PICK c \in alloc : c \notin Safe /\ Freed(c)
      BY <2>2
    <3>2. c \in Cell
      BY DEF ControlInv, TypeOK
    <3>3. alloc' = alloc \ {c} /\ \A x \in Cell : x # c => field'[x] = field[x]
      <4>1. Freed(c) /\ ControlInv
        BY <3>1
      <4>2. /\ alloc' = alloc \ {c}
            /\ \A x \in Cell : field'[x] = IF x = c THEN NoSlots ELSE field[x]
        BY ONLY <3>2, <4>1, FreedFacts
      <4> QED
        BY <4>2
    <3>4. ~ Settled(c)
      BY <3>1, <3>2 DEF Safe
    <3> QED
      BY <3>3, <3>4
  <2> QED
    BY <2>1, <2>2, CollectorFrees
<1>5. \A c \in Cell, s \in Slot :
        /\ HeapNow[c][s] = IF Storing(c, s) THEN NoCell ELSE field[c][s]
        /\ HeapNow'[c][s] = IF Storing(c, s) THEN NoCell ELSE field'[c][s]
  BY <1>2, HeapNowIs, HeapNowNext
<1>6. \A t \in Pending(stack) : t = Top \/ t \in Pending(stack')
  <2>1. StackOK(stack) /\ stack # <<>>
    BY <1>1 DEF ControlInv, TypeOK, StackOK, TopReplaced
  <2>2. Pending(stack) = {Top} \cup Pending(Rest)
    BY <2>1, BelowTop DEF Top, Rest
  <2>3. ASSUME NEW p, MayReplace(p, Top), stack' = p \o Rest
        PROVE  Pending(stack') = Pending(p) \cup Pending(Rest)
    BY <2>1, <2>3, ReplaceTop DEF Top, Rest
  <2> QED
    BY <1>1, <2>2, <2>3 DEF TopReplaced
<1>7. ASSUME NEW x \in Cell, Claimed(x), Settled(x), Settled(x)'
      PROVE  x \in Anchors'
  <2>1. PICK d \in Cell, s \in 0 .. Width :
          /\ Pend("decrement", d, s) \/ Pend("decr_and_mark_gray", d, s)
          /\ EdgeTarget(d, s) = x
    BY <1>7 DEF Claimed
  <2>2. PICK fn \in {"decrement", "decr_and_mark_gray"} : CellTask(fn, d, s) \in Pending(stack)
    BY <2>1 DEF Pend
  <2>3. CASE CellTask(fn, d, s) = Top
    <3>1. Top.fn = fn /\ Target(Top) = x
      BY <2>1, <2>3, CellTaskFields DEF Target, EdgeTarget
    <3> QED
      BY <1>7, <3>1 DEF Anchors
  <2>4. CASE CellTask(fn, d, s) \in Pending(stack')
    <3>1. Pend(fn, d, s)'
      BY <2>4 DEF Pend
    <3>2. EdgeTarget(d, s)' = x
      <4>1. CASE s = 0
        BY <2>1, <4>1 DEF EdgeTarget
      <4>2. CASE s # 0
        <5>1. (d \in alloc)'
          <6>1. Pend("decrement", d, s)' \/ Pend("decr_and_mark_gray", d, s)'
            BY <3>1
          <6>2. ControlInv' /\ Good'
            OBVIOUS
          <6>3. ClaimersAlloc'
            BY <6>2, AllClaimersAlloc, PTL
          <6>4. s \in Slot
            BY <4>2 DEF Slot
          <6> QED
            BY <6>1, <6>3, <6>4 DEF ClaimersAlloc
        <5> QED
          BY <1>4, <2>1, <4>2, <5>1 DEF EdgeTarget
      <4> QED
        BY <4>1, <4>2
    <3>3. Claimed(x)'
      BY <3>1, <3>2 DEF Claimed
    <3> QED
      BY <3>3 DEF Anchors
  <2> QED
    BY <1>6, <2>2, <2>3, <2>4
<1>8. \A x \in Anchors \cap SettledCells \cap SettledCells' : x \in Anchors'
  <2> SUFFICES ASSUME NEW x \in Cell, x \in Anchors, Settled(x), Settled(x)'
               PROVE  x \in Anchors'
    BY DEF SettledCells
  <2>1. CASE handle[x] > 0
    BY <1>3, <2>1 DEF Anchors
  <2>2. CASE color[x] = "purple"
    BY <2>2 DEF Anchors
  <2>3. CASE Claimed(x)
    BY <1>7, <2>3
  <2> QED
    BY <2>1, <2>2, <2>3 DEF Anchors
<1>9. ASSUME NEW d \in SettledCells, NEW s \in Slot,
             HeapNow[d][s] \in SettledCells \cap SettledCells'
      PROVE  \/ d \in SettledCells' /\ HeapNow'[d][s] = HeapNow[d][s]
             \/ HeapNow[d][s] \in Anchors'
  <2> SUFFICES ASSUME NEW e, e = HeapNow[d][s], ~ Settled(d)'
               PROVE  e \in Anchors'
    <3>1. d \in Cell /\ Settled(d)
      BY DEF SettledCells
    <3> QED
      BY <1>4, <1>5, <3>1 DEF SettledCells
  <2>1. d \in Cell /\ Settled(d) /\ e \in Cell
    BY <1>9 DEF SettledCells
  <2>2. e = field[d][s]
    BY <1>5, <2>1, HeapGraphAssumption
  <2>3. /\ field' = field
        /\ Pend("decrement", d, s)' \/ Pend("decr_and_mark_gray", d, s)'
    BY <2>1
  <2>4. s \in 0 .. Width /\ EdgeTarget(d, s)' = e
    BY <2>2, <2>3, HeapGraphAssumption DEF EdgeTarget, Slot
  <2>5. Claimed(e)'
    BY <2>1, <2>3, <2>4 DEF Claimed
  <2> QED
    BY <2>1, <2>5 DEF Anchors
<1>10. ASSUME NEW x \in SettledCells' \ SettledCells
       PROVE  \/ x \in Anchors'
              \/ \E d \in SettledCells \cap SettledCells', s \in Slot : HeapNow'[d][s] = x
  <2>1. x \in Cell /\ Settled(x)' /\ ~ Settled(x)
    BY DEF SettledCells
  <2>2. CASE \E d \in Cell, s \in Slot :
               Settled(d) /\ Settled(d)' /\ ~ Storing(d, s) /\ field[d][s] = x
    BY <1>4, <1>5, <2>2 DEF SettledCells
  <2>3. CASE handle'[x] > 0 \/ Claimed(x)'
    BY <2>1, <2>3 DEF Anchors
  <2> QED
    BY <2>1, <2>2, <2>3
<1>11. SettledCells \in SUBSET Cell /\ SettledCells' \in SUBSET Cell
  BY DEF SettledCells
<1>12. FoundFrom(HeapNow, SettledCells, Anchors)
  BY DEF KnownInv
<1>13. FoundFrom(HeapNow', SettledCells', Anchors')
  BY ONLY <1>8, <1>9, <1>10, <1>11, <1>12, FoundStep, ZenonT(60)
<1> QED
  BY <1>13 DEF KnownInv, FoundFrom

(* Steps of qz_unref.                                                      *)
LEMMA UnrefKeepsAnchors ==
  ASSUME ControlInv, Good, DecrementToZero \/ DecrementToPossibleRoot
  PROVE  KeepsAnchors
<1> SUFFICES ASSUME NEW d, NEW s, NEW c, d = Top.cell, s = Top.slot, c = Target(Top)
             PROVE  KeepsAnchors
  OBVIOUS
<1>0. Visits("decrement")
  BY DEF DecrementToZero, DecrementToPossibleRoot
<1>1. /\ stack # <<>> /\ Top.fn = "decrement" /\ c \in Cell
      /\ Settled(c) /\ rc[c] \in Nat
  BY <1>0, VisitFacts, DecrementFacts DEF Good
<1>2. field' = field
  BY DEF DecrementToZero, DecrementToPossibleRoot
<1>3. \A x \in Cell : x # c => rc'[x] = rc[x] /\ color'[x] = color[x]
  BY <1>1 DEF DecrementToZero, DecrementToPossibleRoot, ControlInv, TypeOK
<1>4. \A x \in Cell : x # c => (Settled(x)' <=> Settled(x))
  BY <1>3 DEF Settled
<1>5. CASE DecrementToZero
  <2> DEFINE u == CellTask("release_cell", c, 0)
  <2>1. rc'[c] = 0
    BY <1>1, <1>5 DEF DecrementToZero, LastReference, ControlInv, TypeOK
  <2>2. u \in TaskSet
    BY <1>1, CellTaskType, HeapGraphAssumption
  <2>3. stack' = AllChildren("decrement", c) \o <<u>> \o Rest
    BY <1>5 DEF DecrementToZero
  <2> HIDE DEF u
  <2>4. Pending(stack') = Tasks("decrement", c) \cup {u} \cup Pending(Rest)
    BY <1>1, <2>2, <2>3, PendingPushed DEF Good
  <2>5. \A y \in Slot : Pend("decrement", c, y)'
    BY <2>4 DEF Pend, Tasks
  <2>6. ~ Settled(c)'
    BY <2>1 DEF Settled
  <2> QED
    BY <1>1, <1>2, <1>3, <1>4, <2>5, <2>6 DEF KeepsAnchors
<1>6. CASE DecrementToPossibleRoot
  <2>1. color'[c] = "purple"
    BY <1>1, <1>6 DEF DecrementToPossibleRoot, ControlInv, TypeOK
  <2>2. rc'[c] > 0
    BY <1>1, <1>6 DEF DecrementToPossibleRoot, LastReference, ControlInv, TypeOK
  <2>3. Settled(c)'
    BY <2>1, <2>2 DEF Settled
  <2> QED
    BY <1>1, <1>2, <1>3, <1>4, <2>1, <2>3 DEF KeepsAnchors
<1> QED
  BY <1>5, <1>6

(* Steps that leave the settled cells alone.                               *)
LEMMA QuietKeepsAnchors ==
  ASSUME Top.fn \notin {"decrement", "decr_and_mark_gray"} \/ Target(Top) = NoCell,
         \A x \in Cell : \/ rc'[x] = rc[x] /\ color'[x] = color[x]
                         \/ ~ Settled(x) /\ ~ Settled(x)'
                         \/ Settled(x) /\ Settled(x)' /\ color[x] # "purple"
  PROVE  KeepsAnchors
<1>1. \A x \in Cell : Settled(x)' <=> Settled(x)
  BY DEF Settled
<1> QED
  BY <1>1, HeapGraphAssumption DEF KeepsAnchors

(* Steps that color no settled cell.                                       *)
LEMMA OtherKeepsAnchors ==
  ASSUME ControlInv, Good,
         \/ SkipInvalidCell \/ ReleaseCell \/ MarkRootsDiscard \/ MarkRootsDone
         \/ ScanRoots \/ CollectRoots \/ CollectRootsDone \/ CollectWhite
         \/ CollectWhiteFreed \/ FreeWhite \/ FreeRoots \/ FreeRootsDone
  PROVE  KeepsAnchors
<1>1. /\ rc \in [Cell -> Nat] /\ color \in [Cell -> Color]
      /\ \A x \in Cell : color[x] = "white" => rc[x] = 0
  BY DEF ControlInv, TypeOK, Good, ColorInv
<1>2. CASE SkipInvalidCell
  BY <1>2, QuietKeepsAnchors DEF SkipInvalidCell
<1>3. CASE MarkRootsDone \/ ScanRoots \/ CollectRootsDone \/ CollectWhiteFreed \/ FreeRootsDone
  BY <1>3, QuietKeepsAnchors DEF MarkRootsDone, ScanRoots, CollectRootsDone,
     CollectWhiteFreed, FreeRootsDone, LoopDone, Calls, VisitsFreedWhite
<1>4. CASE ReleaseCell \/ FreeWhite
  <2> SUFFICES ASSUME NEW c, c = Target(Top)
               PROVE  KeepsAnchors
    OBVIOUS
  <2>1. /\ stack # <<>> /\ Top.fn \in {"release_cell", "free_cell"}
        /\ c = EdgeTarget(Top.cell, Top.slot) /\ c \in Cell
    BY <1>4, VisitFacts DEF ReleaseCell, FreeWhite, Good, VisitFn
  <2>2. TaskGood(Top)
    BY <2>1, TopFacts DEF Good, TaskInv
  <2>3. rc[c] = 0
    BY <2>1, <2>2 DEF TaskGood, EdgeTarget
  <2>4. \A x \in Cell : /\ x # c => rc'[x] = rc[x] /\ color'[x] = color[x]
                        /\ rc'[c] = 0
    BY <1>1, <1>4, <2>1, <2>3 DEF ReleaseCell, FreeWhite, Freed
  <2>5. ~ Settled(c) /\ ~ Settled(c)'
    BY <2>1, <2>3, <2>4 DEF Settled
  <2> QED
    BY <2>1, <2>4, <2>5, QuietKeepsAnchors
<1>5. CASE MarkRootsDiscard \/ FreeRoots
  <2> SUFFICES ASSUME NEW c, c = roots[Top.i]
               PROVE  KeepsAnchors
    OBVIOUS
  <2>1. /\ Top.fn \in {"mark_roots", "free_roots"} /\ c \in Cell
    BY <1>5, LoopFacts DEF MarkRootsDiscard, FreeRoots, InLoop, LoopFn
  <2>2. \/ UNCHANGED <<rc, color>>
        \/ rc[c] = 0 /\ Freed(c)
    BY <1>5 DEF MarkRootsDiscard, FreeRoots, WasReleased
  <2>3. \A x \in Cell : \/ rc'[x] = rc[x] /\ color'[x] = color[x]
                        \/ ~ Settled(x) /\ ~ Settled(x)'
    BY <1>1, <2>1, <2>2 DEF Freed, Settled
  <2> QED
    BY <2>1, <2>3, QuietKeepsAnchors
<1>6. CASE CollectRoots \/ CollectWhite
  <2>1. Top.fn \in {"collect_roots", "collect_white"} /\ rc' = rc
    BY <1>6 DEF CollectRoots, CollectWhite, InLoop, Visits, Calls
  <2>2. \A x \in Cell : color'[x] = color[x] \/ color[x] = "white"
    BY <1>1, <1>6 DEF CollectRoots, CollectWhite
  <2>3. \A x \in Cell : \/ rc'[x] = rc[x] /\ color'[x] = color[x]
                        \/ ~ Settled(x) /\ ~ Settled(x)'
    BY <1>1, <2>1, <2>2 DEF Settled
  <2> QED
    BY <2>1, <2>3, QuietKeepsAnchors
<1> QED
  BY <1>2, <1>3, <1>4, <1>5, <1>6

(* mark_roots marks a possible root.                                       *)
LEMMA MarkRootsKeepAnchors ==
  ASSUME ControlInv, Good, MarkRootsKeep
  PROVE  KeepsAnchors
<1> SUFFICES ASSUME NEW c, c = roots[Top.i], NEW u, u = LoopTask("mark_roots", Top.i + 1, Top.j + 1)
             PROVE  KeepsAnchors
  OBVIOUS
<1>1. /\ stack # <<>> /\ Top.fn = "mark_roots" /\ c \in Cell
      /\ Top.i \in Nat \ {0} /\ Top.j \in Nat \ {0}
  BY LoopFacts DEF MarkRootsKeep, InLoop, LoopFn
<1>2. /\ rc' = rc /\ field' = field /\ color' = [color EXCEPT ![c] = "gray"]
      /\ stack' = AllChildren("decr_and_mark_gray", c) \o <<u>> \o Rest
  BY DEF MarkRootsKeep
<1>3. \A x \in Cell : /\ rc'[x] = rc[x]
                      /\ color'[x] = IF x = c THEN "gray" ELSE color[x]
  BY <1>1, <1>2 DEF ControlInv, TypeOK
<1>4. \A x \in Cell : x # c => (Settled(x)' <=> Settled(x))
  BY <1>3 DEF Settled
<1>5. ~ Settled(c)'
  BY <1>1, <1>3 DEF Settled
<1>6. u \in TaskSet
  BY <1>1 DEF TaskSet, LoopTaskSet, LoopTask, LoopFn
<1>7. Pending(stack') = Tasks("decr_and_mark_gray", c) \cup {u} \cup Pending(Rest)
  BY <1>1, <1>2, <1>6, PendingPushed DEF Good, VisitFn
<1>8. \A y \in Slot : Pend("decr_and_mark_gray", c, y)'
  BY <1>7 DEF Pend, Tasks
<1> QED
  BY <1>1, <1>2, <1>3, <1>4, <1>5, <1>8 DEF KeepsAnchors

(* mark_gray takes a reference back and marks the cell.                    *)
LEMMA DecrAndMarkGrayKeepsAnchors ==
  ASSUME ControlInv, Good, DecrAndMarkGray
  PROVE  KeepsAnchors
<1> SUFFICES ASSUME NEW c, c = Target(Top)
             PROVE  KeepsAnchors
  OBVIOUS
<1>1. stack # <<>> /\ c \in Cell
  BY VisitFacts DEF DecrAndMarkGray, Good, VisitFn
<1>2. /\ rc' = [rc EXCEPT ![c] = @ - 1]
      /\ field' = field /\ color' = [color EXCEPT ![c] = "gray"]
      /\ color[c] # "gray" => stack' = AllChildren("decr_and_mark_gray", c) \o Rest
  BY DEF DecrAndMarkGray
<1>3. \A x \in Cell : /\ x # c => rc'[x] = rc[x]
                      /\ color'[x] = IF x = c THEN "gray" ELSE color[x]
  BY <1>1, <1>2 DEF ControlInv, TypeOK
<1>4. \A x \in Cell : x # c => (Settled(x)' <=> Settled(x))
  BY <1>3 DEF Settled
<1>5. ~ Settled(c)'
  BY <1>1, <1>3 DEF Settled
<1>6. Settled(c) => \A y \in Slot : Pend("decr_and_mark_gray", c, y)'
  <2> SUFFICES ASSUME Settled(c) PROVE \A y \in Slot : Pend("decr_and_mark_gray", c, y)'
    OBVIOUS
  <2>1. color[c] # "gray"
    BY DEF Settled
  <2>2. Pending(stack') = Tasks("decr_and_mark_gray", c) \cup Pending(Rest)
    BY <1>1, <1>2, <2>1, PendingPushed DEF Good, VisitFn
  <2> QED
    BY <2>2 DEF Pend, Tasks
<1> QED
  BY <1>1, <1>2, <1>3, <1>4, <1>5, <1>6 DEF KeepsAnchors

(* A cell that is still referenced is claimed, or hangs on a settled cell. *)
LEMMA StillCounted ==
  ASSUME ControlInv, Good, InPass, NEW c \in Cell, rc[c] > 0
  PROVE  \/ handle[c] > 0 \/ Claimed(c)
         \/ \E d \in Cell, s \in Slot : Settled(d) /\ ~ Storing(d, s) /\ field[d][s] = c
<1>1. rc[c] = handle[c] + Cardinality(InRefs(c)) /\ handle[c] \in Nat
  BY DEF Good, CountInv, ControlInv, TypeOK
<1>2. CASE InRefs(c) = {}
  BY <1>1, <1>2, FS_EmptySet
<1>3. ASSUME NEW e \in InRefs(c)
      PROVE  \/ Claimed(c)
             \/ \E d \in Cell, s \in Slot : Settled(d) /\ ~ Storing(d, s) /\ field[d][s] = c
  <2>1. PICK d \in Cell, s \in 0 .. Width : EdgeTarget(d, s) = c /\ Counts(d, s)
    BY <1>3 DEF InRefs, Edge
  <2>2. CASE Pend("decrement", d, s) \/ Pend("decr_and_mark_gray", d, s)
    BY <2>1, <2>2 DEF Claimed
  <2>3. CASE s # 0 /\ Settled(d) /\ ~ Storing(d, s)
    <3>1. s \in Slot /\ field[d][s] = c
      BY <2>1, <2>3 DEF Slot, EdgeTarget
    <3> QED
      BY <2>3, <3>1
  <2> QED
    BY <2>1, <2>2, <2>3 DEF Counts
<1> QED
  BY <1>1, <1>2, <1>3

(* scan finds a cell that is referenced from outside, or whitens one.      *)
LEMMA ScanKeepsAnchors ==
  ASSUME ControlInv, Good, Scan
  PROVE  KeepsAnchors
<1> SUFFICES ASSUME NEW c, c = Target(Top)
             PROVE  KeepsAnchors
  OBVIOUS
<1>1. /\ stack # <<>> /\ Top.fn = "scan" /\ c \in Cell /\ InPass
      /\ Pending(stack) = {Top} \cup Pending(Rest)
  <2>1. Visits("scan")
    BY DEF Scan
  <2> QED
    BY <2>1, TraceFacts DEF VisitFn
<1>2. rc' = rc /\ field' = field /\ handle' = handle
  BY DEF Scan
<1>3. CASE color' = color
  BY <1>1, <1>2, <1>3, QuietKeepsAnchors
<1>4. CASE color[c] = "gray" /\ color' = [color EXCEPT ![c] = "white"]
  <2>1. \A x \in Cell : color'[x] = IF x = c THEN "white" ELSE color[x]
    BY <1>1, <1>4 DEF ControlInv, TypeOK
  <2>2. \A x \in Cell : \/ rc'[x] = rc[x] /\ color'[x] = color[x]
                        \/ ~ Settled(x) /\ ~ Settled(x)'
    BY <1>2, <1>4, <2>1 DEF Settled
  <2> QED
    BY <1>1, <2>2, QuietKeepsAnchors
<1>5. CASE /\ color[c] = "gray" /\ rc[c] > 0
           /\ color' = [color EXCEPT ![c] = "black"]
           /\ stack' = AllChildren("incr_and_scan_black", c) \o Rest
  <2>1. \A x \in Cell : /\ rc'[x] = rc[x]
                        /\ color'[x] = IF x = c THEN "black" ELSE color[x]
    BY <1>1, <1>2, <1>5 DEF ControlInv, TypeOK
  <2>2. ~ Settled(c)
    BY <1>5 DEF Settled
  <2>3. \A x \in Cell : x # c => (Settled(x)' <=> Settled(x))
    BY <2>1 DEF Settled
  <2>4. Pending(stack') = Tasks("incr_and_scan_black", c) \cup Pending(Rest)
    BY <1>1, <1>5, PendingPushed DEF Good, VisitFn
  <2>5. \A x, y : /\ Pend("decrement", x, y) => Pend("decrement", x, y)'
                  /\ Pend("decr_and_mark_gray", x, y) => Pend("decr_and_mark_gray", x, y)'
    BY <1>1, <2>4, CellTaskFields DEF Pend
  <2>6. Claimed(c) => Claimed(c)'
    BY <1>2, <2>5 DEF Claimed, EdgeTarget
  <2>7. \/ handle'[c] > 0 \/ Claimed(c)'
        \/ \E d \in Cell, s \in Slot :
             Settled(d) /\ Settled(d)' /\ ~ Storing(d, s) /\ field[d][s] = c
    BY <1>1, <1>2, <1>5, <2>2, <2>3, <2>6, StillCounted
  <2>8. \A x \in Cell : Settled(x) => Settled(x)' /\ color'[x] = color[x]
    BY <2>1, <2>2, <2>3
  <2>9. \A x \in Cell : Settled(x)' /\ ~ Settled(x) => x = c
    BY <2>3
  <2> QED
    BY <1>1, <2>7, <2>8, <2>9 DEF KeepsAnchors
<1> QED
  BY <1>3, <1>4, <1>5 DEF Scan, ReferencedFromOutside

(* scan_black restores a cell that hangs on one that is restored.          *)
LEMMA IncrAndScanBlackKeepsAnchors ==
  ASSUME ControlInv, Good, IncrAndScanBlack
  PROVE  KeepsAnchors
<1> SUFFICES ASSUME NEW d, NEW s, NEW c, d = Top.cell, s = Top.slot, c = Target(Top)
             PROVE  KeepsAnchors
  OBVIOUS
<1>1. /\ Top.fn = "incr_and_scan_black" /\ c \in Cell /\ c # NoCell /\ InPass /\ TaskGood(Top)
      /\ d \in Cell /\ s \in Slot /\ field[d][s] = c /\ ~ Storing(d, s) /\ rc[c] \in Nat
  <2>1. Visits("incr_and_scan_black")
    BY DEF IncrAndScanBlack
  <2> QED
    BY <2>1, TraceFacts DEF VisitFn
<1>2. /\ color[d] = "black" /\ rc[d] > 0 /\ Visited(c)
  BY <1>1 DEF TaskGood
<1>3. \A x \in Cell : /\ rc'[x] = IF x = c THEN rc[c] + 1 ELSE rc[x]
                      /\ color'[x] = IF x = c THEN "black" ELSE color[x]
  BY <1>1 DEF IncrAndScanBlack, Restored, ControlInv, TypeOK
<1>4. \A x \in Cell : x # c => (Settled(x)' <=> Settled(x)) /\ color'[x] = color[x]
  BY <1>3 DEF Settled
<1>5. Settled(c)'
  BY <1>1, <1>3 DEF Settled
<1>6. color[c] # "purple"
  BY <1>2 DEF Visited
<1>7. Settled(d) /\ Settled(d)'
  <2>1. Settled(d)
    BY <1>2 DEF Settled
  <2> QED
    BY <1>1, <1>4, <1>5, <2>1
<1>8. \A x \in Cell : Settled(x) => Settled(x)'
  BY <1>4, <1>5
<1>9. \A x \in Cell : Settled(x)' /\ ~ Settled(x) => x = c
  BY <1>4
<1> QED
  BY <1>1, <1>4, <1>6, <1>7, <1>8, <1>9 DEF KeepsAnchors

(* So does every step of the collector but the overwrite of a slot.        *)
LEMMA CollectorKeepsAnchors ==
  ASSUME ControlInv, Good, CollectorStep, ~ Store
  PROVE  KeepsAnchors
<1>1. ~ UseAfterFree /\ ~ AssertRefcount
  BY NoFaultStep DEF UseAfterFree, AssertRefcount, Good
<1> QED
  BY <1>1, UnrefKeepsAnchors, OtherKeepsAnchors, MarkRootsKeepAnchors,
     DecrAndMarkGrayKeepsAnchors, ScanKeepsAnchors, IncrAndScanBlackKeepsAnchors
     DEF CollectorStep

(* Nothing is pending below the assignment to a slot.                      *)
LEMMA StoreAlone ==
  ASSUME ControlInv, stack # <<>>, Top.fn = "store"
  PROVE  Pending(Rest) = {}
<1>1. /\ stack \in Seq(TaskSet) /\ Len(stack) \in Nat \ {0} /\ Top = stack[1]
      /\ Rest \in Seq(TaskSet) /\ Len(Rest) = Len(stack) - 1
  BY HeadTailProperties, LenProperties, EmptySeq DEF ControlInv, TypeOK, Top, Rest
<1>2. 1 = Len(stack)
  BY <1>1 DEF ControlInv, StoreLast
<1>3. Len(Rest) = 0
  BY <1>1, <1>2
<1> QED
  BY <1>3 DEF Pending

(* The overwrite of a slot: the new value hangs on a cell that is held.    *)
LEMMA KnownStore ==
  ASSUME ControlInv, ControlInv', Good, KnownInv, Store
  PROVE  KnownInv'
<1> SUFFICES ASSUME NEW c, NEW r, NEW v, c = Top.cell, r = Top.slot, v = Top.val
             PROVE  KnownInv'
  OBVIOUS
<1>1. stack # <<>> /\ Top.fn = "store"
  BY DEF Store, Calls
<1>2. /\ Top \in TaskSet /\ Top \in Pending(stack)
      /\ Pending(stack) = {Top} \cup Pending(Rest)
  BY <1>1, TopFacts DEF Good
<1>3. c \in Cell /\ r \in Slot /\ v \in Ref
  BY <1>1, <1>2, TaskTypes
<1>4. Pending(Rest) = {}
  BY <1>1, StoreAlone
<1>5. \A x, y : Storing(x, y) <=> x = c /\ y = r
  BY <1>1, <1>2, <1>4 DEF Storing
<1>6. stack' = Rest /\ rc' = rc /\ color' = color
      /\ field' = [field EXCEPT ![c][r] = v]
      /\ handle' = IF v = NoCell THEN handle ELSE [handle EXCEPT ![v] = @ - 1]
  BY DEF Store
<1>7. \A x, y : ~ Storing(x, y)'
  BY <1>4, <1>6 DEF Storing
<1>8. /\ handle[c] > 0 /\ (v = c => handle[c] > 1) /\ ~ InPass
  BY <1>1, <1>2 DEF Good, TaskInv, TaskGood
<1>9. \A x \in Cell : Settled(x)' <=> Settled(x)
  BY <1>6 DEF Settled
<1>10. Settled(c)
  <2>1. rc[c] >= handle[c] /\ handle[c] \in Nat /\ rc[c] \in Nat
    BY <1>3, CountAtLeast DEF Good, ControlInv
  <2>2. rc[c] > 0
    BY <1>8, <2>1
  <2>3. NoPass
    BY <1>1, <1>2, <1>4, OutsidePass DEF OnlyMutator, MutatorFn
  <2>4. color[c] \in Color /\ color[c] # "gray" /\ color[c] # "white"
    BY <1>3, <2>3 DEF NoPass, Good, ColorInv, ControlInv, TypeOK
  <2> QED
    BY <2>2, <2>4 DEF Settled, Color
<1>11. \A x : ~ Claimed(x)
  BY <1>1, <1>2, <1>4, CellTaskFields DEF Claimed, Pend
<1>12. \A x \in Cell : /\ x # v => handle'[x] = handle[x]
                       /\ handle'[x] \in Nat
  BY <1>6 DEF ControlInv, TypeOK
<1>13. \A x \in Cell, y \in Slot :
         /\ HeapNow[x][y] = IF x = c /\ y = r THEN NoCell ELSE field[x][y]
         /\ HeapNow'[x][y] = IF x = c /\ y = r THEN v ELSE field[x][y]
  <2>1. \A x \in Cell, y \in Slot :
          field'[x][y] = IF x = c /\ y = r THEN v ELSE field[x][y]
    BY <1>3, <1>6 DEF ControlInv, TypeOK
  <2>2. \A x \in Cell, y \in Slot : HeapNow'[x][y] = field'[x][y]
    BY <1>7, HeapNowNext
  <2>3. \A x \in Cell, y \in Slot :
          HeapNow[x][y] = IF x = c /\ y = r THEN NoCell ELSE field[x][y]
    BY <1>5, HeapNowIs
  <2> QED
    BY <2>1, <2>2, <2>3
<1>14. \A x \in Anchors \cap SettledCells \cap SettledCells' :
         \/ x \in Anchors'
         \/ \E d \in Anchors' \cap SettledCells', s \in Slot : HeapNow'[d][s] = x
  <2> SUFFICES ASSUME NEW x \in Cell, x \in Anchors, Settled(x), x \notin Anchors'
               PROVE  \E d \in Anchors' \cap SettledCells', s \in Slot : HeapNow'[d][s] = x
    BY DEF SettledCells
  <2>1. handle[x] > 0 /\ ~ (handle'[x] > 0)
    BY <1>6, <1>11 DEF Anchors
  <2>2. x = v
    BY <1>12, <2>1
  <2>3. x # c
    BY <1>3, <1>6, <1>8, <2>1, <2>2, HeapGraphAssumption DEF ControlInv, TypeOK
  <2>4. c \in Anchors' /\ c \in SettledCells'
    BY <1>3, <1>8, <1>9, <1>10, <1>12, <2>2, <2>3 DEF Anchors, SettledCells
  <2> QED
    BY <1>3, <1>13, <2>2, <2>4
<1>15. \A d \in SettledCells, s \in Slot : HeapNow[d][s] \in SettledCells \cap SettledCells' =>
         (d \in SettledCells' /\ HeapNow'[d][s] = HeapNow[d][s]) \/ HeapNow[d][s] \in Anchors'
  BY <1>9, <1>13, HeapGraphAssumption DEF SettledCells
<1>16. SettledCells' \ SettledCells = {}
  BY <1>9 DEF SettledCells
<1>17. SettledCells \in SUBSET Cell /\ SettledCells' \in SUBSET Cell
  BY DEF SettledCells
<1>18. FoundFrom(HeapNow, SettledCells, Anchors)
  BY DEF KnownInv
<1>19. \A x \in SettledCells' \ SettledCells :
         \/ x \in Anchors'
         \/ \E d \in SettledCells \cap SettledCells', s \in Slot : HeapNow'[d][s] = x
  BY <1>16
<1>20. FoundFrom(HeapNow', SettledCells', Anchors')
  BY ONLY <1>14, <1>15, <1>17, <1>18, <1>19, FoundStep, ZenonT(60)
<1> QED
  BY <1>20 DEF KnownInv, FoundFrom

(* The operations of the interpreter.                                      *)
LEMMA KnownMutator ==
  ASSUME ControlInv, ControlInv', Good, Good', KnownInv, MutatorStep
  PROVE  KnownInv'
<1>1. Idle
  BY DEF MutatorStep, Make, Increment, Unref, SetSlot, Shutdown
<1>2. /\ Pending(stack) = {}
      /\ \A x \in Cell : Settled(x) <=> rc[x] > 0
      /\ \A x \in Cell : color[x] \in {"black", "purple"}
      /\ \A x \in Cell : handle[x] \in Nat /\ rc[x] \in Nat
  BY <1>1, IdleFacts
<1>3. \A x \in Cell, y \in Slot : HeapNow[x][y] = field[x][y]
  BY <1>2, HeapNowIs DEF Storing
<1>4. \A x : ~ Claimed(x)
  BY <1>2 DEF Claimed, Pend
<1>5. SettledCells \in SUBSET Cell /\ SettledCells' \in SUBSET Cell
  BY DEF SettledCells
<1>6. FoundFrom(HeapNow, SettledCells, Anchors)
  BY DEF KnownInv
<1> SUFFICES
      /\ \A x \in Anchors \cap SettledCells \cap SettledCells' :
           x \in Anchors' \/ \E d \in Anchors' \cap SettledCells', s \in Slot : HeapNow'[d][s] = x
      /\ \A d \in SettledCells, s \in Slot : HeapNow[d][s] \in SettledCells \cap SettledCells' =>
           (d \in SettledCells' /\ HeapNow'[d][s] = HeapNow[d][s]) \/ HeapNow[d][s] \in Anchors'
      /\ \A x \in SettledCells' \ SettledCells :
           x \in Anchors' \/ \E d \in SettledCells \cap SettledCells', s \in Slot : HeapNow'[d][s] = x
  <2>1. ASSUME \A x \in Anchors \cap SettledCells \cap SettledCells' :
                 x \in Anchors' \/ \E d \in Anchors' \cap SettledCells', s \in Slot : HeapNow'[d][s] = x,
               \A d \in SettledCells, s \in Slot : HeapNow[d][s] \in SettledCells \cap SettledCells' =>
                 (d \in SettledCells' /\ HeapNow'[d][s] = HeapNow[d][s]) \/ HeapNow[d][s] \in Anchors',
               \A x \in SettledCells' \ SettledCells :
                 x \in Anchors' \/ \E d \in SettledCells \cap SettledCells', s \in Slot : HeapNow'[d][s] = x
        PROVE  FoundFrom(HeapNow', SettledCells', Anchors')
    BY ONLY <1>5, <1>6, <2>1, FoundStep, ZenonT(60)
  <2> QED
    BY <2>1 DEF KnownInv, FoundFrom
<1> USE DEF SettledCells
<1>7. CASE Make
  <2>1. PICK c \in Cell \ alloc, f \in [Slot -> Ref] :
          /\ \A d \in Cell : Occurrences(f, d) <= handle[d]
          /\ rc' = [rc EXCEPT ![c] = 1]
          /\ field' = [field EXCEPT ![c] = f]
          /\ handle' = [d \in Cell |-> IF d = c THEN 1
                                       ELSE handle[d] - Occurrences(f, d)]
    BY <1>7 DEF Make
  <2>2. stack' = stack /\ color' = color
    BY <1>7 DEF Make
  <2>3. /\ \A x \in Cell : rc'[x] = IF x = c THEN 1 ELSE rc[x]
        /\ \A x \in Cell : field'[x] = IF x = c THEN f ELSE field[x]
    BY <2>1 DEF ControlInv, TypeOK
  <2>4. \A x \in Cell, y \in Slot : HeapNow'[x][y] = field'[x][y]
    BY <1>2, <2>2, HeapNowNext DEF Storing
  <2>5. ~ Settled(c)
    BY <2>1 DEF Good, FreshInv, Settled
  <2>6. Settled(c)' /\ c \in Anchors'
    BY <1>2, <2>1, <2>2, <2>3 DEF Settled, Anchors
  <2>7. \A x \in Cell : x # c => (Settled(x)' <=> Settled(x)) /\ field'[x] = field[x]
    BY <2>2, <2>3 DEF Settled
  <2>8. ASSUME NEW x \in Cell, x \in Anchors, x # c, x \notin Anchors'
        PROVE  \E s \in Slot : f[s] = x
    <3>1. handle[x] > 0 /\ ~ (handle'[x] > 0)
      BY <1>4, <2>2, <2>8 DEF Anchors
    <3>2. Occurrences(f, x) # 0
      BY <1>2, <2>1, <2>8, <3>1
    <3> QED
      BY <3>2, SlotsAsEdges
  <2>9. \A s \in Slot : HeapNow'[c][s] = f[s]
    BY <2>3, <2>4
  <2> QED
    BY <1>3, <2>4, <2>5, <2>6, <2>7, <2>8, <2>9
<1>8. CASE Increment
  <2>1. PICK c \in Cell : /\ handle' = [handle EXCEPT ![c] = @ + 1]
                          /\ rc' = [rc EXCEPT ![c] = @ + 1]
                          /\ color' = [color EXCEPT ![c] = "black"]
    BY <1>8 DEF Increment
  <2>2. stack' = stack /\ field' = field
    BY <1>8 DEF Increment
  <2>3. \A x \in Cell : /\ rc'[x] = IF x = c THEN rc[x] + 1 ELSE rc[x]
                        /\ color'[x] = IF x = c THEN "black" ELSE color[x]
                        /\ handle'[x] = IF x = c THEN handle[x] + 1 ELSE handle[x]
    BY <2>1 DEF ControlInv, TypeOK
  <2>4. \A x \in Cell, y \in Slot : HeapNow'[x][y] = field[x][y]
    BY <1>2, <2>2, HeapNowNext DEF Storing
  <2>5. c \in Anchors'
    BY <1>2, <2>3 DEF Anchors
  <2>6. \A x \in Cell : x # c => (Settled(x)' <=> Settled(x))
    BY <2>3 DEF Settled
  <2>7. Settled(c)'
    BY <1>2, <2>3 DEF Settled
  <2>8. \A x \in Anchors : x \in Anchors'
    BY <1>4, <2>3, <2>5 DEF Anchors
  <2> QED
    BY <1>3, <2>4, <2>5, <2>6, <2>7, <2>8
<1>9. CASE Unref
  <2>1. PICK c \in Cell : /\ handle' = [handle EXCEPT ![c] = @ - 1]
                          /\ stack' = << CellTask("decrement", c, 0) >>
    BY <1>9 DEF Unref
  <2>2. rc' = rc /\ color' = color /\ field' = field
    BY <1>9 DEF Unref
  <2>3. Pending(stack') = {CellTask("decrement", c, 0)}
    BY <2>1 DEF Pending
  <2>4. \A x \in Cell, y \in Slot : HeapNow'[x][y] = field[x][y]
    BY <2>2, <2>3, HeapNowNext, CellTaskFields DEF Storing
  <2>5. c \in Anchors'
    <3>1. Pend("decrement", c, 0)' /\ EdgeTarget(c, 0)' = c /\ 0 \in 0 .. Width
      BY <2>3, HeapGraphAssumption DEF Pend, EdgeTarget
    <3> QED
      BY <2>1, <3>1 DEF Anchors, Claimed
  <2>6. \A x \in Cell : x # c => handle'[x] = handle[x]
    BY <2>1 DEF ControlInv, TypeOK
  <2>7. \A x \in Anchors : x \in Anchors'
    BY <1>4, <2>2, <2>5, <2>6 DEF Anchors
  <2>8. \A x \in Cell : Settled(x)' <=> Settled(x)
    BY <2>2 DEF Settled
  <2> QED
    BY <1>3, <2>4, <2>7, <2>8
<1>10. CASE SetSlot
  <2>1. PICK c \in Cell, s \in Slot, e \in Ref :
          stack' = << CellTask("decrement", c, s), StoreTask(c, s, e) >>
    BY <1>10 DEF SetSlot
  <2>2. rc' = rc /\ color' = color /\ field' = field /\ handle' = handle
    BY <1>10 DEF SetSlot
  <2>3. Pending(stack') = {CellTask("decrement", c, s), StoreTask(c, s, e)}
    BY <2>1 DEF Pending
  <2>4. /\ StoreTask(c, s, e).fn = "store" /\ StoreTask(c, s, e).cell = c
        /\ StoreTask(c, s, e).slot = s
    BY DEF StoreTask
  <2>5. \A x, y : Storing(x, y)' <=> x = c /\ y = s
    BY <2>3, <2>4, CellTaskFields DEF Storing
  <2>6. \A x \in Cell, y \in Slot :
          HeapNow'[x][y] = IF x = c /\ y = s THEN NoCell ELSE field[x][y]
    BY <2>2, <2>5, HeapNowNext
  <2>7. field[c][s] \in Cell => field[c][s] \in Anchors'
    <3>1. Pend("decrement", c, s)' /\ EdgeTarget(c, s)' = field[c][s] /\ s \in 0 .. Width
      BY <2>2, <2>3, HeapGraphAssumption DEF Pend, EdgeTarget, Slot
    <3> QED
      BY <2>1, <3>1 DEF Anchors, Claimed
  <2>8. \A x \in Anchors : x \in Anchors'
    BY <1>4, <2>2 DEF Anchors
  <2>9. \A x \in Cell : Settled(x)' <=> Settled(x)
    BY <2>2 DEF Settled
  <2> QED
    BY <1>3, <2>6, <2>7, <2>8, <2>9
<1>11. CASE Shutdown
  <2>1. stack' = CollectTasks \o <<>> /\ handle' = handle /\ field' = field
        /\ rc' = rc /\ color' = color
    BY <1>11 DEF Shutdown, BeginCollect
  <2>2. Pending(stack') = { LoopTask(fn, 1, 1) : fn \in LoopFn }
    <3>1. GoodStack(<<>>, InBuffer) /\ Pending(<<>>) = {}
      BY EmptyStack
    <3> QED
      BY <2>1, <3>1, PushCollect
  <2>3. \A fn \in LoopFn : LoopTask(fn, 1, 1).fn # "store"
    BY DEF LoopTask, LoopFn
  <2>4. \A x \in Cell, y \in Slot : HeapNow'[x][y] = field[x][y]
    BY <2>1, <2>2, <2>3, HeapNowNext DEF Storing
  <2>5. \A x \in Anchors : x \in Anchors'
    BY <1>4, <2>1 DEF Anchors
  <2>6. \A x \in Cell : Settled(x)' <=> Settled(x)
    BY <2>1 DEF Settled
  <2> QED
    BY <1>3, <2>4, <2>5, <2>6
<1> QED
  BY <1>7, <1>8, <1>9, <1>10, <1>11 DEF MutatorStep

(***************************************************************************)
(* No cell without references is forgotten.                                *)
(***************************************************************************)

\* a pass or a pending call will come back to c, which has no references
InHand(c) ==
  \/ color[c] \in {"gray", "white"} \/ buffered[c]
  \/ Pend("release_cell", c, 0) \/ Pend("free_cell", c, 0)
  \/ WillBeFreed(c)

(* A step of the collector ends one pending call only.                     *)
LEMMA OthersStay ==
  ASSUME ControlInv, Good, CollectorStep, ~ Store
  PROVE  /\ stack # <<>>
         /\ \A t \in Pending(stack) : t = Top \/ t \in Pending(stack')
<1>1. TopReplaced
  BY CollectorReplacesTop, NoFaultStep
<1>2. StackOK(stack) /\ stack # <<>>
  BY <1>1 DEF ControlInv, TypeOK, StackOK, TopReplaced
<1>3. Pending(stack) = {Top} \cup Pending(Rest)
  BY <1>2, BelowTop DEF Top, Rest
<1>4. ASSUME NEW p, MayReplace(p, Top), stack' = p \o Rest
      PROVE  Pending(stack') = Pending(p) \cup Pending(Rest)
  BY <1>2, <1>4, ReplaceTop DEF Top, Rest
<1> QED
  BY <1>1, <1>2, <1>3, <1>4 DEF TopReplaced

(* Only the last loops of qz_collect leave cells to free_roots.            *)
LEMMA NotToFree ==
  ASSUME ControlInv, Good, stack # <<>>,
         Top.fn \notin {"collect_roots", "free_roots", "collect_white", "free_cell"}
  PROVE  \A x : ~ WillBeFreed(x)
<1>1. Top \in TaskSet /\ Top \in Pending(stack) /\ Pending(stack) = {Top} \cup Pending(Rest)
      /\ \A u \in Pending(Rest) : u.fn \in Below(Top.fn)
  BY TopFacts DEF Good
<1>2. CASE Top.fn \in CollectorFn
  <2>1. Top.fn \in {"decr_and_mark_gray", "mark_roots", "scan_roots", "scan",
                    "incr_and_scan_black"}
    BY <1>2 DEF CollectorFn, VisitFn, LoopFn
  <2>2. Tracing
    BY <1>2, <2>1, PassFacts DEF Good
  <2> QED
    BY <2>2 DEF WillBeFreed
<1>3. CASE Top.fn \in MutatorFn
  <2>1. \A u \in Pending(stack) : u.fn \in MutatorFn
    <3>1. \A fn \in MutatorFn : Below(fn) \subseteq MutatorFn
      BY DEF Below, MutatorFn
    <3> QED
      BY <1>1, <1>3, <3>1
  <2>2. ~ Calling("free_roots")
    BY <2>1 DEF Calling, MutatorFn
  <2> QED
    BY <2>2 DEF WillBeFreed
<1>4. Top.fn \in CollectorFn \cup MutatorFn
  BY <1>1 DEF TaskSet, CellTaskSet, StoreTaskSet, LoopTaskSet, CollectorFn, MutatorFn
<1> QED
  BY <1>2, <1>3, <1>4

(* free_roots still comes to them while the other calls return.            *)
LEMMA StillToFree ==
  ASSUME roots' = roots,
         \A t \in Pending(stack') :
           t.fn \in {"mark_roots", "scan_roots", "scan", "incr_and_scan_black", "free_roots"}
             => t \in Pending(stack),
         \A t \in Pending(stack) : t.fn = "free_roots" => t \in Pending(stack')
  PROVE  \A x : WillBeFreed(x) => WillBeFreed(x)'
<1>1. Tracing' => Tracing
  BY DEF Tracing, Calling
<1>2. Calling("free_roots") => Calling("free_roots")'
  BY DEF Calling
<1> QED
  BY <1>1, <1>2 DEF WillBeFreed

(* What a step owes to the cells without references.                       *)
LEMMA LeftKept ==
  ASSUME LeftInv,
         \A x \in alloc' : rc'[x] = 0 =>
           \/ InHand(x)'
           \/ /\ x \in alloc /\ rc[x] = 0 /\ color'[x] = color[x] /\ buffered'[x] = buffered[x]
              /\ Pend("release_cell", x, 0) => Pend("release_cell", x, 0)'
              /\ Pend("free_cell", x, 0) => Pend("free_cell", x, 0)'
              /\ WillBeFreed(x) => WillBeFreed(x)'
  PROVE  LeftInv'
<1> SUFFICES ASSUME NEW x \in alloc', rc'[x] = 0
             PROVE  InHand(x)'
  BY DEF LeftInv, InHand
<1>1. CASE /\ x \in alloc /\ rc[x] = 0 /\ color'[x] = color[x] /\ buffered'[x] = buffered[x]
           /\ Pend("release_cell", x, 0) => Pend("release_cell", x, 0)'
           /\ Pend("free_cell", x, 0) => Pend("free_cell", x, 0)'
           /\ WillBeFreed(x) => WillBeFreed(x)'
  <2>1. InHand(x)
    BY <1>1 DEF LeftInv, InHand
  <2> QED
    BY <1>1, <2>1 DEF InHand
<1> QED
  BY <1>1

(* Calls of qz_unref, and of the passes that mark and scan.                *)
LEMMA LeftEarly ==
  ASSUME ControlInv, Good, LeftInv,
         \/ DecrementToZero \/ DecrementToPossibleRoot \/ ReleaseCell
         \/ MarkRootsKeep \/ MarkRootsDiscard \/ MarkRootsDone \/ DecrAndMarkGray
         \/ ScanRoots \/ Scan \/ IncrAndScanBlack
  PROVE  LeftInv'
<1>1. CollectorStep /\ ~ Store
  <2>1. Top.fn # "store"
    BY DEF DecrementToZero, DecrementToPossibleRoot, ReleaseCell, MarkRootsKeep,
       MarkRootsDiscard, MarkRootsDone, DecrAndMarkGray, ScanRoots, Scan, IncrAndScanBlack,
       Visits, InLoop, LoopDone, Calls
  <2> QED
    BY <2>1 DEF CollectorStep, Store, Calls
<1>2. /\ stack # <<>>
      /\ \A t \in Pending(stack) : t = Top \/ t \in Pending(stack')
  BY <1>1, OthersStay
<1>3. \A x : ~ WillBeFreed(x)
  <2>1. Top.fn \notin {"collect_roots", "free_roots", "collect_white", "free_cell"}
    BY DEF DecrementToZero, DecrementToPossibleRoot, ReleaseCell, MarkRootsKeep,
       MarkRootsDiscard, MarkRootsDone, DecrAndMarkGray, ScanRoots, Scan, IncrAndScanBlack,
       Visits, InLoop, LoopDone, Calls
  <2> QED
    BY <1>2, <2>1, NotToFree
<1>4. \A x : Pend("free_cell", x, 0) => Pend("free_cell", x, 0)'
  <2>1. Top.fn # "free_cell"
    BY DEF DecrementToZero, DecrementToPossibleRoot, ReleaseCell, MarkRootsKeep,
       MarkRootsDiscard, MarkRootsDone, DecrAndMarkGray, ScanRoots, Scan, IncrAndScanBlack,
       Visits, InLoop, LoopDone, Calls
  <2> QED
    BY <1>2, <2>1, CellTaskFields DEF Pend
<1>5. \A x : Top.fn = "release_cell" => x = Top.cell
        \/ (Pend("release_cell", x, 0) => Pend("release_cell", x, 0)')
  BY <1>2, CellTaskFields DEF Pend
<1>6. Top.fn # "release_cell" =>
        \A x : Pend("release_cell", x, 0) => Pend("release_cell", x, 0)'
  BY <1>2, CellTaskFields DEF Pend
<1>7. /\ rc \in [Cell -> Nat] /\ color \in [Cell -> Color]
      /\ buffered \in [Cell -> BOOLEAN] /\ alloc \in SUBSET Cell
  BY DEF ControlInv, TypeOK
<1>8. ASSUME NEW c \in Cell, Top.fn # "release_cell", alloc' \subseteq alloc,
             \A x \in Cell \ {c} :
               rc'[x] = rc[x] /\ color'[x] = color[x] /\ buffered'[x] = buffered[x],
             c \in alloc' /\ rc'[c] = 0 => InHand(c)'
      PROVE  LeftInv'
  <2>1. \A x \in alloc' : rc'[x] = 0 =>
           \/ InHand(x)'
           \/ /\ x \in alloc /\ rc[x] = 0 /\ color'[x] = color[x] /\ buffered'[x] = buffered[x]
              /\ Pend("release_cell", x, 0) => Pend("release_cell", x, 0)'
              /\ Pend("free_cell", x, 0) => Pend("free_cell", x, 0)'
              /\ WillBeFreed(x) => WillBeFreed(x)'
    BY <1>3, <1>4, <1>6, <1>7, <1>8
  <2> QED
    BY ONLY LeftInv, <2>1, LeftKept
<1>9. ASSUME Top.fn # "release_cell", UNCHANGED <<alloc, rc, color, buffered>>
      PROVE  LeftInv'
  <2>1. \A x \in alloc' : rc'[x] = 0 =>
           \/ InHand(x)'
           \/ /\ x \in alloc /\ rc[x] = 0 /\ color'[x] = color[x] /\ buffered'[x] = buffered[x]
              /\ Pend("release_cell", x, 0) => Pend("release_cell", x, 0)'
              /\ Pend("free_cell", x, 0) => Pend("free_cell", x, 0)'
              /\ WillBeFreed(x) => WillBeFreed(x)'
    BY <1>3, <1>4, <1>6, <1>9
  <2> QED
    BY ONLY LeftInv, <2>1, LeftKept
<1>10. CASE DecrementToZero \/ DecrementToPossibleRoot
  <2> SUFFICES ASSUME NEW c, c = Target(Top)
               PROVE  LeftInv'
    OBVIOUS
  <2>1. Visits("decrement")
    BY <1>10 DEF DecrementToZero, DecrementToPossibleRoot
  <2>2. Top.fn = "decrement" /\ c \in Cell
    BY <2>1, VisitFacts DEF Good
  <2>3. \A x \in Cell \ {c} :
          rc'[x] = rc[x] /\ color'[x] = color[x] /\ buffered'[x] = buffered[x]
    BY <1>7, <1>10, <2>2 DEF DecrementToZero, DecrementToPossibleRoot
  <2>4. alloc' = alloc
    BY <1>10 DEF DecrementToZero, DecrementToPossibleRoot
  <2>5. ASSUME DecrementToZero PROVE InHand(c)'
    <3> DEFINE u == CellTask("release_cell", c, 0)
    <3>1. u \in TaskSet
      BY <2>2, CellTaskType, HeapGraphAssumption
    <3>2. stack' = AllChildren("decrement", c) \o <<u>> \o Rest
      BY <2>5 DEF DecrementToZero
    <3> HIDE DEF u
    <3>3. Pending(stack') = Tasks("decrement", c) \cup {u} \cup Pending(Rest)
      BY <1>2, <2>2, <3>1, <3>2, PendingPushed DEF Good
    <3> QED
      BY <3>3 DEF u, Pend, InHand
  <2>6. ASSUME DecrementToPossibleRoot PROVE rc'[c] # 0
    BY <1>7, <2>2, <2>6 DEF DecrementToPossibleRoot, LastReference
  <2> QED
    BY <1>8, <1>10, <2>2, <2>3, <2>4, <2>5, <2>6
<1>11. CASE ReleaseCell
  <2> SUFFICES ASSUME NEW c, c = Target(Top)
               PROVE  LeftInv'
    OBVIOUS
  <2>1. Top.fn = "release_cell" /\ c = EdgeTarget(Top.cell, Top.slot) /\ c \in Cell
    BY <1>11, VisitFacts DEF ReleaseCell, Good
  <2>2. Top.cell = c
    <3>1. TaskGood(Top)
      BY <1>2, TopFacts DEF Good, TaskInv
    <3> QED
      BY <2>1, <3>1 DEF TaskGood, EdgeTarget
  <2>3. CASE buffered[c] /\ color' = [color EXCEPT ![c] = "black"]
             /\ UNCHANGED <<alloc, rc, buffered>>
    <3>1. \A x \in alloc' : rc'[x] = 0 =>
           \/ InHand(x)'
           \/ /\ x \in alloc /\ rc[x] = 0 /\ color'[x] = color[x] /\ buffered'[x] = buffered[x]
              /\ Pend("release_cell", x, 0) => Pend("release_cell", x, 0)'
              /\ Pend("free_cell", x, 0) => Pend("free_cell", x, 0)'
              /\ WillBeFreed(x) => WillBeFreed(x)'
      <4> SUFFICES ASSUME NEW x \in alloc, rc'[x] = 0
                   PROVE  \/ InHand(x)'
                          \/ /\ rc[x] = 0 /\ color'[x] = color[x] /\ buffered'[x] = buffered[x]
                             /\ Pend("release_cell", x, 0) => Pend("release_cell", x, 0)'
                             /\ Pend("free_cell", x, 0) => Pend("free_cell", x, 0)'
                             /\ WillBeFreed(x) => WillBeFreed(x)'
        BY <2>3
      <4>1. CASE x = c
        BY <2>3, <4>1 DEF InHand
      <4>2. CASE x # c
        BY <1>3, <1>4, <1>5, <1>7, <2>1, <2>2, <2>3, <4>2
      <4> QED
        BY <4>1, <4>2
    <3> QED
      BY ONLY LeftInv, <3>1, LeftKept
  <2>4. CASE Freed(c)
    <3>1. \A x \in alloc' : /\ x \in alloc /\ x # c /\ rc'[x] = rc[x]
                            /\ color'[x] = color[x] /\ buffered'[x] = buffered[x]
      BY <1>7, <2>4 DEF Freed
    <3>2. \A x \in alloc' : rc'[x] = 0 =>
           \/ InHand(x)'
           \/ /\ x \in alloc /\ rc[x] = 0 /\ color'[x] = color[x] /\ buffered'[x] = buffered[x]
              /\ Pend("release_cell", x, 0) => Pend("release_cell", x, 0)'
              /\ Pend("free_cell", x, 0) => Pend("free_cell", x, 0)'
              /\ WillBeFreed(x) => WillBeFreed(x)'
      BY <1>3, <1>4, <1>5, <2>1, <2>2, <3>1
    <3> QED
      BY ONLY LeftInv, <3>2, LeftKept
  <2> QED
    BY <1>11, <2>3, <2>4 DEF ReleaseCell, MustStay
<1>12. CASE MarkRootsKeep \/ MarkRootsDiscard
  <2> SUFFICES ASSUME NEW c, c = roots[Top.i]
               PROVE  LeftInv'
    OBVIOUS
  <2>1. Top.fn = "mark_roots" /\ c \in Cell
    BY <1>12, LoopFacts DEF MarkRootsKeep, MarkRootsDiscard, InLoop, LoopFn
  <2>2. CASE MarkRootsKeep
    <3>1. /\ alloc' = alloc /\ color'[c] = "gray"
          /\ \A x \in Cell \ {c} :
               rc'[x] = rc[x] /\ color'[x] = color[x] /\ buffered'[x] = buffered[x]
      BY <1>7, <2>1, <2>2 DEF MarkRootsKeep
    <3> QED
      BY <1>8, <2>1, <3>1 DEF InHand
  <2>3. CASE MarkRootsDiscard
    <3>1. CASE Freed(c)
      <4>1. /\ alloc' = alloc \ {c}
            /\ \A x \in Cell \ {c} :
                 rc'[x] = rc[x] /\ color'[x] = color[x] /\ buffered'[x] = buffered[x]
        BY <1>7, <3>1 DEF Freed
      <4> QED
        BY <1>8, <2>1, <4>1
    <3>2. CASE /\ ~ (color[c] = "black" /\ rc[c] = 0) /\ color[c] # "purple"
               /\ buffered' = [buffered EXCEPT ![c] = FALSE]
               /\ UNCHANGED <<alloc, rc, color, field>>
      <4>1. rc[c] = 0 => color[c] \in {"gray", "white"}
        BY <1>7, <2>1, <3>2 DEF Color
      <4>2. c \in alloc' /\ rc'[c] = 0 => InHand(c)'
        BY <3>2, <4>1 DEF InHand
      <4>3. \A x \in Cell \ {c} :
              rc'[x] = rc[x] /\ color'[x] = color[x] /\ buffered'[x] = buffered[x]
        BY <1>7, <2>1, <3>2
      <4> QED
        BY <1>8, <2>1, <3>2, <4>2, <4>3
    <3> QED
      BY <2>3, <3>1, <3>2 DEF MarkRootsDiscard, WasReleased
  <2> QED
    BY <1>12, <2>2, <2>3
<1>13. CASE MarkRootsDone \/ ScanRoots
  BY <1>9, <1>13 DEF MarkRootsDone, ScanRoots, LoopDone, Calls
<1>14. CASE DecrAndMarkGray \/ Scan \/ IncrAndScanBlack
  <2> SUFFICES ASSUME NEW c, c = Target(Top)
               PROVE  LeftInv'
    OBVIOUS
  <2>1. Top.fn # "release_cell" /\ c \in Cell
    BY <1>14, VisitFacts DEF DecrAndMarkGray, Scan, IncrAndScanBlack, Good, VisitFn
  <2>2. CASE DecrAndMarkGray
    <3>1. /\ alloc' = alloc /\ color'[c] = "gray"
          /\ \A x \in Cell \ {c} :
               rc'[x] = rc[x] /\ color'[x] = color[x] /\ buffered'[x] = buffered[x]
      BY <1>7, <2>1, <2>2 DEF DecrAndMarkGray
    <3> QED
      BY <1>8, <2>1, <3>1 DEF InHand
  <2>3. CASE Scan
    <3>1. /\ alloc' = alloc /\ rc' = rc /\ buffered' = buffered
          /\ \/ color' = color
             \/ color' = [color EXCEPT ![c] = "black"] /\ rc[c] > 0
             \/ color' = [color EXCEPT ![c] = "white"]
      BY <2>3 DEF Scan, ReferencedFromOutside
    <3>2. CASE color' = color
      BY <1>9, <2>1, <3>1, <3>2
    <3>3. CASE \/ color' = [color EXCEPT ![c] = "black"] /\ rc[c] > 0
               \/ color' = [color EXCEPT ![c] = "white"]
      <4>1. rc'[c] = 0 => color'[c] = "white"
        BY <1>7, <2>1, <3>1, <3>3
      <4>2. \A x \in Cell \ {c} :
               rc'[x] = rc[x] /\ color'[x] = color[x] /\ buffered'[x] = buffered[x]
        BY <1>7, <2>1, <3>1, <3>3
      <4> QED
        BY <1>8, <2>1, <3>1, <4>1, <4>2 DEF InHand
    <3> QED
      BY <3>1, <3>2, <3>3
  <2>4. CASE IncrAndScanBlack
    <3>1. /\ alloc' = alloc /\ rc'[c] # 0
          /\ \A x \in Cell \ {c} :
               rc'[x] = rc[x] /\ color'[x] = color[x] /\ buffered'[x] = buffered[x]
      BY <1>7, <2>1, <2>4 DEF IncrAndScanBlack, Restored
    <3> QED
      BY <1>8, <2>1, <3>1
  <2> QED
    BY <1>14, <2>2, <2>3, <2>4
<1> QED
  BY <1>10, <1>11, <1>12, <1>13, <1>14

(* Calls that return in the last loops of qz_collect, or on no cell.       *)
LEMMA LeftReturn ==
  ASSUME ControlInv, Good, LeftInv,
         SkipInvalidCell \/ CollectRootsDone \/ CollectWhiteFreed \/ FreeWhite
  PROVE  LeftInv'
<1>1. CollectorStep /\ ~ Store
  <2>1. Top.fn # "store"
    BY DEF SkipInvalidCell, CollectRootsDone, CollectWhiteFreed, FreeWhite, VisitsFreedWhite,
       Visits, LoopDone, Calls
  <2> QED
    BY <2>1 DEF CollectorStep, Store, Calls
<1>2. /\ stack # <<>> /\ stack' = Rest /\ roots' = roots
      /\ \A t \in Pending(stack) : t = Top \/ t \in Pending(stack')
  BY <1>1, OthersStay DEF SkipInvalidCell, CollectRootsDone, CollectWhiteFreed, FreeWhite
<1>3. \A t \in Pending(stack') : t \in Pending(stack)
  BY <1>2, TopFacts DEF Good
<1>4. Top.fn # "free_roots"
  BY DEF SkipInvalidCell, CollectRootsDone, CollectWhiteFreed, FreeWhite, VisitsFreedWhite,
     Visits, LoopDone, Calls, LoopFn
<1>5. \A x : WillBeFreed(x) => WillBeFreed(x)'
  BY <1>2, <1>3, <1>4, StillToFree
<1>6. \A x \in alloc' :
        /\ x \in alloc /\ rc'[x] = rc[x] /\ color'[x] = color[x] /\ buffered'[x] = buffered[x]
        /\ Pend("release_cell", x, 0) => Pend("release_cell", x, 0)'
        /\ Pend("free_cell", x, 0) => Pend("free_cell", x, 0)'
  <2>1. CASE SkipInvalidCell
    <3>1. Target(Top) = NoCell /\ UNCHANGED <<alloc, rc, color, buffered>>
      BY <2>1 DEF SkipInvalidCell
    <3>2. \A x \in Cell : \A fn : Top # CellTask(fn, x, 0)
      BY <3>1, CellTaskFields, HeapGraphAssumption DEF Target
    <3>3. alloc' = alloc /\ rc' = rc /\ color' = color /\ buffered' = buffered /\ alloc \subseteq Cell
      BY <3>1 DEF ControlInv, TypeOK
    <3>4. ASSUME NEW x, x \in alloc
          PROVE  /\ Pend("release_cell", x, 0) => Pend("release_cell", x, 0)'
                 /\ Pend("free_cell", x, 0) => Pend("free_cell", x, 0)'
      BY <1>2, <3>2, <3>3, <3>4 DEF Pend
    <3> QED
      BY <3>3, <3>4
  <2>2. CASE CollectRootsDone \/ CollectWhiteFreed
    <3>1. /\ Top.fn \in {"collect_roots", "collect_white"}
          /\ alloc' = alloc /\ rc' = rc /\ color' = color /\ buffered' = buffered
      BY <2>2 DEF CollectRootsDone, CollectWhiteFreed, LoopDone, Calls, VisitsFreedWhite
    <3>2. \A x : /\ Pend("release_cell", x, 0) => Pend("release_cell", x, 0)'
                 /\ Pend("free_cell", x, 0) => Pend("free_cell", x, 0)'
      BY <1>2, <3>1, CellTaskFields DEF Pend
    <3> QED
      BY <3>1, <3>2
  <2>3. CASE FreeWhite
    <3> SUFFICES ASSUME NEW c, c = Target(Top)
                 PROVE  \A x \in alloc' :
                          /\ x \in alloc /\ rc'[x] = rc[x] /\ color'[x] = color[x]
                          /\ buffered'[x] = buffered[x]
                          /\ Pend("release_cell", x, 0) => Pend("release_cell", x, 0)'
                          /\ Pend("free_cell", x, 0) => Pend("free_cell", x, 0)'
      OBVIOUS
    <3>1. Top.fn = "free_cell" /\ c = EdgeTarget(Top.cell, Top.slot) /\ c \in Cell
      BY <2>3, VisitFacts DEF FreeWhite, Good, VisitFn
    <3>2. Top.cell = c
      <4>1. TaskGood(Top)
        BY <1>2, TopFacts DEF Good, TaskInv
      <4> QED
        BY <3>1, <4>1 DEF TaskGood, EdgeTarget
    <3>3. Freed(c)
      BY <2>3 DEF FreeWhite
    <3>4. \A x \in alloc' : /\ x \in alloc /\ x # c /\ rc'[x] = rc[x] /\ color'[x] = color[x]
                            /\ buffered'[x] = buffered[x]
      BY <3>1, <3>3, FreedFacts DEF ControlInv, TypeOK
    <3>5. \A x : x # c => /\ Pend("release_cell", x, 0) => Pend("release_cell", x, 0)'
                          /\ Pend("free_cell", x, 0) => Pend("free_cell", x, 0)'
      <4>1. ASSUME NEW x, Top = CellTask("release_cell", x, 0)
            PROVE  FALSE
        BY <3>1, <4>1, CellTaskFields
      <4>2. ASSUME NEW x, Top = CellTask("free_cell", x, 0)
            PROVE  x = c
        BY <3>2, <4>2, CellTaskFields
      <4> QED
        BY <1>2, <4>1, <4>2 DEF Pend
    <3> QED
      BY ONLY <3>4, <3>5
  <2> QED
    BY <2>1, <2>2, <2>3
<1>7. \A x \in alloc' : rc'[x] = 0 =>
        \/ InHand(x)'
        \/ /\ x \in alloc /\ rc[x] = 0 /\ color'[x] = color[x] /\ buffered'[x] = buffered[x]
           /\ Pend("release_cell", x, 0) => Pend("release_cell", x, 0)'
           /\ Pend("free_cell", x, 0) => Pend("free_cell", x, 0)'
           /\ WillBeFreed(x) => WillBeFreed(x)'
  BY <1>5, <1>6
<1> QED
  BY ONLY LeftInv, <1>7, LeftKept

(* collect_white blackens a cell and will free it.                         *)
LEMMA LeftCollectWhite ==
  ASSUME ControlInv, Good, LeftInv, CollectWhite
  PROVE  LeftInv'
<1> SUFFICES ASSUME NEW c, c = Target(Top)
             PROVE  LeftInv'
  OBVIOUS
<1> DEFINE u == CellTask("free_cell", c, 0)
<1>1. Visits("collect_white")
  BY DEF CollectWhite
<1>2. stack # <<>> /\ Top.fn = "collect_white" /\ c \in Cell
  BY <1>1, VisitFacts DEF Good, VisitFn
<1>3. Pending(stack) = {Top} \cup Pending(Rest)
  BY <1>2, TopFacts DEF Good
<1>4. UNCHANGED <<alloc, rc, buffered, roots>>
  BY DEF CollectWhite
<1>5. \/ stack' = Rest /\ color' = color
      \/ /\ color' = [color EXCEPT ![c] = "black"]
         /\ Pending(stack') = Tasks("collect_white", c) \cup {u} \cup Pending(Rest)
  <2>1. u \in TaskSet
    BY <1>2, CellTaskType, HeapGraphAssumption DEF VisitFn
  <2>2. \/ stack' = Rest /\ color' = color
        \/ /\ color' = [color EXCEPT ![c] = "black"]
           /\ stack' = AllChildren("collect_white", c) \o <<u>> \o Rest
    BY DEF CollectWhite
  <2> HIDE DEF u
  <2>3. ASSUME stack' = AllChildren("collect_white", c) \o <<u>> \o Rest
        PROVE  Pending(stack') = Tasks("collect_white", c) \cup {u} \cup Pending(Rest)
    BY <1>2, <2>1, <2>3, PendingPushed DEF Good, VisitFn
  <2> QED
    BY <2>2, <2>3
<1>6. \A t : t.fn \notin {"collect_white", "free_cell"}
        => (t \in Pending(stack') <=> t \in Pending(stack))
  BY <1>2, <1>3, <1>5, CellTaskFields DEF Tasks
<1>7. \A x : WillBeFreed(x) => WillBeFreed(x)'
  BY <1>4, <1>6, StillToFree
<1>8. \A x : /\ Pend("release_cell", x, 0) => Pend("release_cell", x, 0)'
             /\ Pend("free_cell", x, 0) => Pend("free_cell", x, 0)'
  <2>1. \A t \in Pending(stack) : t.fn # "collect_white" => t \in Pending(stack')
    BY <1>2, <1>3, <1>5
  <2> QED
    BY <2>1, CellTaskFields DEF Pend
<1>9. \A x \in Cell : color'[x] # color[x] => x = c /\ Pend("free_cell", x, 0)'
  BY <1>2, <1>5 DEF Pend, ControlInv, TypeOK
<1>10. \A x \in alloc' : rc'[x] = 0 =>
        \/ InHand(x)'
        \/ /\ x \in alloc /\ rc[x] = 0 /\ color'[x] = color[x] /\ buffered'[x] = buffered[x]
           /\ Pend("release_cell", x, 0) => Pend("release_cell", x, 0)'
           /\ Pend("free_cell", x, 0) => Pend("free_cell", x, 0)'
           /\ WillBeFreed(x) => WillBeFreed(x)'
  <2>1. alloc \subseteq Cell
    BY DEF ControlInv, TypeOK
  <2> QED
    BY <1>4, <1>7, <1>8, <1>9, <2>1 DEF InHand
<1> QED
  BY ONLY LeftInv, <1>10, LeftKept

(* collect_roots leaves what it blackens to free_roots.                    *)
LEMMA LeftCollectRoots ==
  ASSUME ControlInv, Good, LeftInv, CollectRoots
  PROVE  LeftInv'
<1> SUFFICES ASSUME NEW c, c = roots[Top.i]
             PROVE  LeftInv'
  OBVIOUS
<1> DEFINE u == LoopTask("collect_roots", Top.i + 1, 1)
<1>1. Calls("collect_roots") /\ Top.i <= Len(roots)
  BY DEF CollectRoots, InLoop
<1>2. /\ stack # <<>> /\ Top.fn = "collect_roots" /\ c \in Cell
      /\ Top.i \in Nat \ {0} /\ Top.i \in DOMAIN roots
      /\ Pending(stack) = {Top} \cup Pending(Rest)
      /\ \A v \in Pending(Rest) : v.fn \in Below("collect_roots")
  BY <1>1, LoopFacts DEF LoopFn
<1>3. UNCHANGED <<alloc, rc, roots>> /\ buffered' = [buffered EXCEPT ![c] = FALSE]
  BY DEF CollectRoots
<1>4. \/ color[c] # "white" /\ color' = color /\ Pending(stack') = {u} \cup Pending(Rest)
      \/ /\ color' = [color EXCEPT ![c] = "black"]
         /\ Pending(stack') = Tasks("collect_white", c) \cup {u} \cup Pending(Rest)
  <2>1. u \in TaskSet
    BY <1>2, LoopTaskType DEF LoopFn
  <2>2. \/ color[c] # "white" /\ color' = color /\ stack' = <<u>> \o Rest
        \/ /\ color' = [color EXCEPT ![c] = "black"]
           /\ stack' = AllChildren("collect_white", c) \o <<u>> \o Rest
    BY DEF CollectRoots
  <2> HIDE DEF u
  <2>3. ASSUME stack' = AllChildren("collect_white", c) \o <<u>> \o Rest
        PROVE  Pending(stack') = Tasks("collect_white", c) \cup {u} \cup Pending(Rest)
    BY <1>2, <2>1, <2>3, PendingPushed DEF Good, VisitFn
  <2>4. ASSUME stack' = <<u>> \o Rest
        PROVE  Pending(stack') = {u} \cup Pending(Rest)
    BY <1>2, <2>1, <2>4, PendingPushed DEF Good
  <2> QED
    BY <2>2, <2>3, <2>4
<1>5. u.fn = "collect_roots"
  BY DEF LoopTask
<1> HIDE DEF u
<1>6. \A t : t.fn \notin {"collect_white", "collect_roots"}
        => (t \in Pending(stack') <=> t \in Pending(stack))
  BY <1>2, <1>4, <1>5, CellTaskFields DEF Tasks
<1>7. \A x : WillBeFreed(x) => WillBeFreed(x)'
  BY <1>3, <1>6, StillToFree
<1>8. \A x : /\ Pend("release_cell", x, 0) => Pend("release_cell", x, 0)'
             /\ Pend("free_cell", x, 0) => Pend("free_cell", x, 0)'
  BY <1>6, CellTaskFields DEF Pend
<1>9. WillBeFreed(c)'
  <2>1. ~ Tracing /\ InPass /\ Calling("collect_roots")
    BY <1>2, PassFacts DEF Good, CollectorFn, LoopFn
  <2>2. ~ Tracing'
    BY <1>6, <2>1 DEF Tracing, Calling
  <2>3. Calling("free_roots")'
    BY <1>6, <2>1 DEF InPass, Calling
  <2>4. \A t \in Pending(stack') : t.fn = "free_roots" => t.i = 1
    BY <1>6, <2>1 DEF Good, TaskInv, TaskGood
  <2>5. 1 <= Top.i /\ roots'[Top.i] = c
    BY <1>2, <1>3
  <2> QED
    BY <1>2, <1>3, <2>2, <2>3, <2>4, <2>5 DEF WillBeFreed
<1>10. \A x \in alloc' : rc'[x] = 0 =>
        \/ InHand(x)'
        \/ /\ x \in alloc /\ rc[x] = 0 /\ color'[x] = color[x] /\ buffered'[x] = buffered[x]
           /\ Pend("release_cell", x, 0) => Pend("release_cell", x, 0)'
           /\ Pend("free_cell", x, 0) => Pend("free_cell", x, 0)'
           /\ WillBeFreed(x) => WillBeFreed(x)'
  <2> SUFFICES ASSUME NEW x \in alloc, rc[x] = 0, x # c
               PROVE  color'[x] = color[x] /\ buffered'[x] = buffered[x]
    BY <1>3, <1>7, <1>8, <1>9 DEF InHand
  <2>1. x \in Cell
    BY DEF ControlInv, TypeOK
  <2> QED
    BY <1>3, <1>4, <2>1 DEF ControlInv, TypeOK
<1> QED
  BY ONLY LeftInv, <1>10, LeftKept

(* free_roots frees what it comes to, if it has no references.             *)
LEMMA LeftFreeRoots ==
  ASSUME ControlInv, Good, LeftInv, FreeRoots \/ FreeRootsDone
  PROVE  LeftInv'
<1>1. CollectorStep /\ ~ Store
  <2>1. Top.fn # "store"
    BY DEF FreeRoots, FreeRootsDone, InLoop, LoopDone, Calls
  <2> QED
    BY <2>1 DEF CollectorStep, Store, Calls
<1>2. Calls("free_roots")
  BY DEF FreeRoots, FreeRootsDone, InLoop, LoopDone
<1>3. /\ stack # <<>> /\ Top.fn = "free_roots" /\ Top.i \in Nat \ {0}
      /\ Pending(stack) = {Top} \cup Pending(Rest) /\ Top \in Pending(stack)
      /\ \A k \in DOMAIN roots : roots[k] \in Cell /\ k \in Nat
      /\ DOMAIN roots = 1 .. Len(roots) /\ Len(roots) \in Nat
  BY <1>2, LoopFacts DEF LoopFn
<1>4. /\ \A x \in Cell : color[x] = "black" /\ ~ buffered[x]
      /\ \A t \in Pending(Rest) : t.fn \in {"decrement", "release_cell"}
  BY <1>2, FreeingFacts
<1>5. \A t \in Pending(stack) : t = Top \/ t \in Pending(stack')
  BY <1>1, OthersStay
<1>6. \A x : /\ Pend("release_cell", x, 0) => Pend("release_cell", x, 0)'
             /\ Pend("free_cell", x, 0) => Pend("free_cell", x, 0)'
  BY <1>3, <1>5, CellTaskFields DEF Pend
<1>7. \A x : WillBeFreed(x) => \E k \in DOMAIN roots : roots[k] = x /\ Top.i <= k
  BY <1>3 DEF WillBeFreed
<1>8. CASE FreeRoots
  <2> SUFFICES ASSUME NEW c, c = roots[Top.i], NEW u, u = LoopTask("free_roots", Top.i + 1, 1)
               PROVE  LeftInv'
    OBVIOUS
  <2>1. Top.i \in DOMAIN roots /\ c \in Cell
    BY <1>3, <1>8 DEF FreeRoots, InLoop
  <2>2. u \in TaskSet /\ u.fn = "free_roots" /\ u.i = Top.i + 1
    BY <1>3, LoopTaskType DEF LoopFn, LoopTask
  <2>3. Pending(stack') = {u} \cup Pending(Rest)
    <3>1. stack' = <<u>> \o Rest
      BY <1>8 DEF FreeRoots
    <3> QED
      BY <1>3, <2>2, <3>1, PendingPushed DEF Good
  <2>4. roots' = roots
    BY <1>8 DEF FreeRoots
  <2>5. \A x \in alloc' : rc'[x] = 0 =>
          /\ x # c /\ x \in alloc /\ rc[x] = 0
          /\ color'[x] = color[x] /\ buffered'[x] = buffered[x]
    <3>1. CASE Freed(c)
      BY <2>1, <3>1, FreedFacts DEF ControlInv, TypeOK
    <3>2. CASE rc[c] # 0 /\ UNCHANGED <<alloc, rc, color, buffered>>
      BY <3>2
    <3> QED
      BY <1>4, <1>8, <2>1, <3>1, <3>2 DEF FreeRoots
  <2>6. ASSUME NEW x, x # c, WillBeFreed(x)
        PROVE  WillBeFreed(x)'
    <3>1. PICK k \in DOMAIN roots : roots[k] = x /\ Top.i <= k
      BY <1>7, <2>6
    <3>2. Top.i + 1 <= k
      BY <1>3, <2>6, <3>1
    <3>3. \A t \in Pending(stack') : t.fn = "free_roots" => t.i <= k
      BY <1>4, <2>2, <2>3, <3>2
    <3>4. Calling("free_roots")' /\ ~ Tracing'
      BY <1>4, <2>2, <2>3 DEF Calling, Tracing
    <3> QED
      BY <2>4, <3>1, <3>3, <3>4 DEF WillBeFreed
  <2>7. \A x \in alloc' : rc'[x] = 0 =>
          \/ InHand(x)'
          \/ /\ x \in alloc /\ rc[x] = 0 /\ color'[x] = color[x] /\ buffered'[x] = buffered[x]
             /\ Pend("release_cell", x, 0) => Pend("release_cell", x, 0)'
             /\ Pend("free_cell", x, 0) => Pend("free_cell", x, 0)'
             /\ WillBeFreed(x) => WillBeFreed(x)'
    BY <1>6, <2>5, <2>6
  <2> QED
    BY ONLY LeftInv, <2>7, LeftKept
<1>9. CASE FreeRootsDone
  <2>1. \A x : ~ WillBeFreed(x)
    BY <1>3, <1>7, <1>9 DEF FreeRootsDone, LoopDone
  <2>2. UNCHANGED <<alloc, rc, color, buffered>>
    BY <1>9 DEF FreeRootsDone
  <2>3. \A x \in alloc' : rc'[x] = 0 =>
          \/ InHand(x)'
          \/ /\ x \in alloc /\ rc[x] = 0 /\ color'[x] = color[x] /\ buffered'[x] = buffered[x]
             /\ Pend("release_cell", x, 0) => Pend("release_cell", x, 0)'
             /\ Pend("free_cell", x, 0) => Pend("free_cell", x, 0)'
             /\ WillBeFreed(x) => WillBeFreed(x)'
    BY <1>6, <2>1, <2>2
  <2> QED
    BY ONLY LeftInv, <2>3, LeftKept
<1> QED
  BY <1>8, <1>9

(* The overwrite of a slot, and the operations of the interpreter.         *)
LEMMA LeftMutator ==
  ASSUME ControlInv, Good, LeftInv, Store \/ MutatorStep
  PROVE  LeftInv'
<1>1. CASE Store
  <2>1. stack # <<>> /\ Top.fn = "store"
    BY <1>1 DEF Store, Calls
  <2>2. UNCHANGED <<alloc, rc, color, buffered>>
    BY <1>1 DEF Store
  <2>3. Pending(stack) = {Top}
    BY <2>1, TopFacts, StoreAlone DEF Good
  <2>4. \A x : ~ Pend("release_cell", x, 0) /\ ~ Pend("free_cell", x, 0)
    BY <2>1, <2>3, CellTaskFields DEF Pend
  <2>5. \A x : ~ WillBeFreed(x)
    BY <2>1, <2>3 DEF WillBeFreed, Calling
  <2>6. \A x \in alloc' : rc'[x] = 0 =>
          \/ InHand(x)'
          \/ /\ x \in alloc /\ rc[x] = 0 /\ color'[x] = color[x] /\ buffered'[x] = buffered[x]
             /\ Pend("release_cell", x, 0) => Pend("release_cell", x, 0)'
             /\ Pend("free_cell", x, 0) => Pend("free_cell", x, 0)'
             /\ WillBeFreed(x) => WillBeFreed(x)'
    BY <2>2, <2>4, <2>5
  <2> QED
    BY ONLY LeftInv, <2>6, LeftKept
<1>2. CASE MutatorStep
  <2>1. Idle
    BY <1>2 DEF MutatorStep, Make, Increment, Unref, SetSlot, Shutdown
  <2>2. /\ Pending(stack) = {}
        /\ \A x \in Cell : color[x] \in {"black", "purple"}
        /\ \A x \in Cell : rc[x] \in Nat
    BY <2>1, IdleFacts
  <2>3. \A x \in alloc : rc[x] = 0 => buffered[x]
    <3> SUFFICES ASSUME NEW x \in alloc, rc[x] = 0 PROVE buffered[x]
      OBVIOUS
    <3>1. x \in Cell
      BY DEF ControlInv, TypeOK
    <3> QED
      BY <2>2, <3>1 DEF LeftInv, Pend, WillBeFreed, Calling
  <2>4. \A x \in alloc' : rc'[x] = 0 => x \in alloc /\ rc[x] = 0
    BY <1>2, <2>2 DEF MutatorStep, Make, Increment, Unref, SetSlot, Shutdown, ControlInv, TypeOK
  <2>5. buffered' = buffered
    BY <1>2 DEF MutatorStep, Make, Increment, Unref, SetSlot, Shutdown
  <2> QED
    BY <2>3, <2>4, <2>5 DEF LeftInv
<1> QED
  BY <1>1, <1>2

(* Every step of the collector.                                            *)
LEMMA LeftStep ==
  ASSUME ControlInv, Good, LeftInv, CollectorStep
  PROVE  LeftInv'
<1>1. ~ UseAfterFree /\ ~ AssertRefcount
  BY NoFaultStep
<1> QED
  BY <1>1, LeftEarly, LeftReturn, LeftCollectWhite, LeftCollectRoots, LeftFreeRoots, LeftMutator
     DEF CollectorStep

(***************************************************************************)
(* Garbage is not forgotten.                                               *)
(***************************************************************************)

\* nothing is lost sight of, as long as nothing is exposed
KnownOrExposed == exposed \/ (KnownInv /\ LeftInv)

LEMMA InitKnown ==
  ASSUME Init
  PROVE  KnownOrExposed
<1>1. SettledCells = {} /\ LeftInv
  BY DEF Init, SettledCells, Settled, LeftInv
<1> QED
  BY <1>1, FoundNone DEF KnownOrExposed, KnownInv

LEMMA KnownStutters ==
  ASSUME KnownInv, LeftInv, UNCHANGED vars
  PROVE  KnownInv' /\ LeftInv'
<1>1. KnownInv'
  BY DEF KnownInv, vars, SettledCells, Settled, Anchors, Claimed, Pend, EdgeTarget, HeapNow,
     Overwriting
<1>2. LeftInv'
  BY DEF LeftInv, vars, Pend, WillBeFreed, Calling, Tracing
<1> QED
  BY <1>1, <1>2

LEMMA KnownOrExposedStep ==
  ASSUME IInv, IInv', KnownOrExposed, [Next]_vars
  PROVE  KnownOrExposed'
<1>1. CASE exposed
  BY <1>1, ExposedStays DEF KnownOrExposed
<1>2. CASE exposed'
  BY <1>2 DEF KnownOrExposed
<1>3. CASE ~ exposed /\ ~ exposed'
  <2>1. ControlInv /\ ControlInv' /\ Good /\ Good' /\ KnownInv /\ LeftInv
    BY <1>3 DEF IInv, KnownOrExposed
  <2>2. CASE CollectorStep /\ ~ Store
    BY ONLY <2>1, <2>2, KnownStep, CollectorKeepsAnchors, LeftStep DEF KnownOrExposed
  <2>3. CASE CollectorStep /\ Store
    BY ONLY <2>1, <2>3, KnownStore, LeftStep DEF KnownOrExposed
  <2>4. CASE MutatorStep
    BY ONLY <2>1, <2>4, KnownMutator, LeftMutator DEF KnownOrExposed
  <2>5. CASE UNCHANGED vars
    BY ONLY <2>1, <2>5, KnownStutters DEF KnownOrExposed
  <2> QED
    BY <2>2, <2>3, <2>4, <2>5 DEF Next
<1> QED
  BY <1>1, <1>2, <1>3

(* Between operations, whatever the interpreter can no longer reach can be *)
(* found from the root buffer, so the next qz_collect comes to it.         *)
LEMMA IdleFindable ==
  ASSUME ControlInv, Good, KnownInv, LeftInv, Idle
  PROVE  alloc \ Live \subseteq ReachableIn(field, InBuffer)
<1> DEFINE R == ReachableIn(field, InBuffer)
<1>1. /\ Pending(stack) = {} /\ NoPass
      /\ \A x \in Cell : color[x] \in {"black", "purple"} /\ (Settled(x) <=> rc[x] > 0)
      /\ \A x \in Cell : color[x] = "purple" => buffered[x]
      /\ \A x \in Cell : rc[x] \in Nat
  BY IdleFacts
<1>2. field \in [Cell -> [Slot -> Ref]] /\ alloc \subseteq Cell
  BY DEF ControlInv, TypeOK
<1>3. HeapNow = field
  <2>1. HeapNow = [c \in Cell |-> [s \in Slot |-> field[c][s]]]
    BY <1>1, HeapNowIs DEF Storing
  <2> QED
    BY <1>2, <2>1
<1>4. InBuffer \in SUBSET Cell /\ \A x \in Cell : buffered[x] => x \in InBuffer
  <2>1. \A k \in DOMAIN roots : roots[k] \in Cell
    BY ElementOfSeq, LenProperties DEF ControlInv, TypeOK
  <2> QED
    BY <1>1, <2>1 DEF NoPass, Good, BufferInv, InBuffer
<1>5. InBuffer \subseteq R /\ ClosedUnder(field, R) /\ R \subseteq Cell
  <2>1. InBuffer \subseteq R /\ ClosedUnder(field, R)
    BY <1>2, <1>4, ReachableCloses
  <2> QED
    BY <2>1 DEF ReachableIn
<1>6. Held \subseteq Live /\ ClosedUnder(field, Live) /\ Live \subseteq Cell
  <2>1. Held \in SUBSET Cell
    BY DEF Held
  <2>2. Held \subseteq Live /\ ClosedUnder(field, Live)
    BY <1>2, <1>3, <2>1, ReachableCloses DEF Live
  <2> QED
    BY <2>2 DEF Live, ReachableIn
<1> HIDE DEF R
<1>7. SettledCells \subseteq Live \cup R
  <2>1. FoundFrom(field, SettledCells, Anchors) /\ SettledCells \subseteq Cell
    BY <1>3 DEF KnownInv, SettledCells
  <2>2. Anchors \subseteq Live \cup R
    BY <1>1, <1>4, <1>5, <1>6 DEF Anchors, Held, Claimed, Pend
  <2>3. \A d \in (Live \cup R) \cap SettledCells, s \in Slot :
          field[d][s] \in SettledCells => field[d][s] \in Live \cup R
    BY <1>5, <1>6, <2>1, HeapGraphAssumption DEF ClosedUnder
  <2>4. Live \cup R \in SUBSET Cell
    BY <1>5, <1>6
  <2> QED
    BY <2>1, <2>2, <2>3, <2>4 DEF FoundFrom
<1>8. ASSUME NEW c \in alloc, c \notin Live
      PROVE  c \in R
  <2>1. CASE rc[c] > 0
    BY <1>1, <1>2, <1>7, <1>8, <2>1 DEF SettledCells
  <2>2. CASE rc[c] = 0
    <3>1. buffered[c]
      BY <1>1, <1>2, <2>2 DEF LeftInv, Pend, WillBeFreed, Calling
    <3> QED
      BY <1>2, <1>4, <1>5, <3>1
  <2> QED
    BY <1>1, <1>2, <2>1, <2>2
<1> QED
  BY <1>8 DEF R

(* Between operations every cell that is garbage but not freed can be      *)
(* found again from the root buffer.                                       *)
THEOREM GarbageFindable == Spec => []GarbageIsFindable
<1>1. Init => KnownOrExposed
  BY InitKnown
<1>2. IInv /\ IInv' /\ KnownOrExposed /\ [Next]_vars => KnownOrExposed'
  BY KnownOrExposedStep
<1>3. IInv /\ KnownOrExposed => GarbageIsFindable
  BY IdleFindable DEF IInv, KnownOrExposed, GarbageIsFindable
<1> QED
  BY <1>1, <1>2, <1>3, CollectorInvariant, PTL DEF Spec
=============================================================================
