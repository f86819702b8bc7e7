-------------------------- MODULE CollectorPasses ---------------------------
(***************************************************************************)
(* The proof that the collector is right, second part: the steps of the    *)
(* passes of qz_collect, which mark, scan and collect.                     *)
(***************************************************************************)
EXTENDS CollectorProofs

(***************************************************************************)
(* The phases of qz_collect.                                               *)
(***************************************************************************)

\* the same loops over the root buffer are pending
SameLoops ==
  \A t : t.fn \in LoopFn => (t \in Pending(stack') <=> t \in Pending(stack))

(* Then the buffer means what it meant.                                    *)
LEMMA LoopsKept ==
  ASSUME SameLoops, roots' = roots
  PROVE  /\ \A fn \in LoopFn : Calling(fn)' <=> Calling(fn)
         /\ InPass' <=> InPass
         /\ Marking' <=> Marking
         /\ InUse' = InUse /\ StillBuffered' = StillBuffered /\ Kept' = Kept
         /\ InBuffer' = InBuffer
<1>1. \A fn \in LoopFn : Calling(fn)' <=> Calling(fn)
  BY DEF SameLoops, Calling
<1>2. (InPass' <=> InPass) /\ (Marking' <=> Marking)
  BY <1>1 DEF InPass, Marking, LoopFn
<1>3. \A t : t.fn \in {"mark_roots", "collect_roots"} =>
        (t \in Pending(stack') <=> t \in Pending(stack))
  BY DEF SameLoops, LoopFn
<1>4. InUse' = InUse
  BY <1>3 DEF InUse
<1>5. StillBuffered' = StillBuffered
  BY <1>1, <1>2, <1>3, <1>4 DEF StillBuffered, LoopFn
<1>6. Kept' = Kept
  BY <1>3, <1>4 DEF Kept
<1> QED
  BY <1>1, <1>2, <1>4, <1>5, <1>6 DEF InBuffer

(* What a call that runs says about the pass.                              *)
LEMMA PassFacts ==
  ASSUME ControlInv, StackInv, stack # <<>>, Top.fn \in CollectorFn
  PROVE  /\ InPass /\ Calling(Top.fn)
         /\ Top.fn \in {"decr_and_mark_gray", "mark_roots"} =>
              /\ Calling("mark_roots") /\ Calling("scan_roots") /\ Calling("collect_roots")
              /\ Tracing
         /\ Top.fn \in {"scan_roots", "scan", "incr_and_scan_black"} =>
              /\ ~ Calling("mark_roots") /\ ~ Calling("decr_and_mark_gray")
              /\ Calling("collect_roots") /\ Tracing
         /\ Top.fn \in {"scan", "incr_and_scan_black"} => ~ Calling("scan_roots")
         /\ Top.fn \in {"collect_white", "free_cell", "collect_roots", "free_roots"} =>
              /\ ~ Tracing
              /\ ~ Calling("mark_roots") /\ ~ Calling("decr_and_mark_gray")
              /\ ~ Calling("scan_roots")
         /\ Top.fn \in {"collect_white", "free_cell"} => Calling("collect_roots")
         /\ Top.fn = "free_roots" =>
              /\ ~ Calling("collect_roots")
              /\ ~ Calling("collect_white") /\ ~ Calling("free_cell")
<1>1. /\ Top \in Pending(stack) /\ Pending(stack) = {Top} \cup Pending(Rest)
      /\ \A u \in Pending(Rest) : u.fn \in Below(Top.fn)
  BY TopFacts
<1>2. Calling(Top.fn)
  BY <1>1 DEF Calling
<1>3. \A fn : Calling(fn) => fn = Top.fn \/ fn \in Below(Top.fn)
  BY <1>1 DEF Calling
<1>4. Needed
  BY DEF StackInv
<1>5. InPass
  BY <1>2, <1>4 DEF Needed, CollectorFn, VisitFn, LoopFn, InPass
<1>6. ASSUME Top.fn \in {"decr_and_mark_gray", "mark_roots"}
      PROVE  /\ Calling("mark_roots") /\ Calling("scan_roots") /\ Calling("collect_roots")
             /\ Tracing
  BY <1>2, <1>4, <1>6 DEF Needed, Tracing
<1>7. ASSUME Top.fn \in {"scan_roots", "scan", "incr_and_scan_black"}
      PROVE  /\ ~ Calling("mark_roots") /\ ~ Calling("decr_and_mark_gray")
             /\ Calling("collect_roots") /\ Tracing
  BY <1>2, <1>3, <1>4, <1>7 DEF Needed, Tracing, Below, MutatorFn
<1>8. Top.fn \in {"scan", "incr_and_scan_black"} => ~ Calling("scan_roots")
  BY <1>3 DEF Below, MutatorFn
<1>9. ASSUME Top.fn \in {"collect_white", "free_cell", "collect_roots", "free_roots"}
      PROVE  /\ ~ Tracing
             /\ ~ Calling("mark_roots") /\ ~ Calling("decr_and_mark_gray")
             /\ ~ Calling("scan_roots")
  BY <1>3, <1>9 DEF Tracing, Below, MutatorFn
<1>10. Top.fn \in {"collect_white", "free_cell"} => Calling("collect_roots")
  BY <1>2, <1>4 DEF Needed
<1>11. Top.fn = "free_roots" =>
         ~ Calling("collect_roots") /\ ~ Calling("collect_white") /\ ~ Calling("free_cell")
  BY <1>3 DEF Below, MutatorFn
<1> QED
  BY <1>2, <1>5, <1>6, <1>7, <1>8, <1>9, <1>10, <1>11

(* The pending visits once the one at the top is done.                     *)
LEMMA BelowVisit ==
  ASSUME ControlInv, StackInv, stack # <<>>,
         NEW f, NEW d, NEW s, Top = CellTask(f, d, s)
  PROVE  /\ \A fn, x, y : fn # f \/ f \notin Often =>
              (CellTask(fn, x, y) \in Pending(Rest) <=>
                 Pend(fn, x, y) /\ ~ (fn = f /\ x = d /\ y = s))
         /\ \A t : t.fn # f => (t \in Pending(Rest) <=> t \in Pending(stack))
<1>1. /\ Pending(stack) = {Top} \cup Pending(Rest)
      /\ Top.fn \notin Often => Top \notin Pending(Rest)
  BY TopFacts
<1>2. Top.fn = f
  BY CellTaskFields
<1>3. \A fn, x, y : CellTask(fn, x, y) = Top <=> fn = f /\ x = d /\ y = s
  BY SameCellTask
<1> QED
  BY <1>1, <1>2, <1>3 DEF Pend

(* No slot is being overwritten during a pass.                             *)
LEMMA NoStoreInPass ==
  ASSUME TaskInv, InPass
  PROVE  /\ \A t \in Pending(stack) : t.fn # "store"
         /\ \A x, y : ~ Storing(x, y)
BY DEF TaskInv, TaskGood, Storing

(* FoundFrom with more to start from.                                      *)
LEMMA FoundWider ==
  ASSUME NEW h, NEW S, NEW B, FoundFrom(h, S, B), NEW B2, B \cap S \subseteq B2
  PROVE  FoundFrom(h, S, B2)
BY FoundMore

(* As long as the graph is traced every cell of the buffer is buffered, so *)
(* none was freed.                                                         *)
LEMMA WholeBuffer ==
  ASSUME ControlInv, Good, InPass, Tracing, ~ Calling("mark_roots"),
         Calling("collect_roots")
  PROVE  /\ InUse = DOMAIN roots /\ StillBuffered = DOMAIN roots
         /\ RootsAt(StillBuffered) = InBuffer
         /\ \A k \in DOMAIN roots : roots[k] \in alloc
         /\ \A c \in Cell : buffered[c] <=> c \in InBuffer
<1>1. InUse = DOMAIN roots
  BY DEF InUse, Calling
<1>2. \A t \in Pending(stack) : t.fn = "collect_roots" => t.i = 1
  BY DEF Good, TaskInv, TaskGood
<1>3. DOMAIN roots = 1 .. Len(roots) /\ Len(roots) \in Nat /\ roots \in Seq(Cell)
  BY LenProperties DEF ControlInv, TypeOK
<1>4. \A k \in DOMAIN roots : k \in Nat /\ 1 <= k /\ roots[k] \in Cell
  BY <1>3, ElementOfSeq
<1>5. StillBuffered = DOMAIN roots
  BY <1>1, <1>2, <1>4 DEF StillBuffered
<1>6. \A c \in Cell : buffered[c] <=> c \in InBuffer
  BY <1>5 DEF Good, BufferInv, InBuffer
<1>7. \A k \in DOMAIN roots : roots[k] \in alloc
  BY <1>4, <1>6 DEF Good, FreshInv, InBuffer
<1> QED
  BY <1>1, <1>5, <1>6, <1>7 DEF RootsAt, InBuffer

(* A visit of scan or scan_black that is done: either the trace goes on,   *)
(* or it was the last and no gray cell is left.                            *)
LEMMA TracedStep ==
  ASSUME ControlInv, Good, SameLoops, InPass, Tracing,
         ~ Calling("mark_roots"), ~ Calling("scan_roots"), Calling("collect_roots"),
         roots' = roots, alloc' = alloc, buffered' = buffered,
         FoundFrom(field', Colored({"gray"})',
                   TargetsOf({"scan", "incr_and_scan_black"})'),
         FoundFrom(field', Colored({"gray", "white"})',
                   InBuffer \cup TargetsOf({"incr_and_scan_black"})')
  PROVE  /\ BufferInv' /\ FoundInv'
         /\ ~ Tracing' => Colored({"gray"})' = {}
<1>1. /\ \A fn \in LoopFn : Calling(fn)' <=> Calling(fn)
      /\ InPass' /\ ~ Calling("mark_roots")' /\ ~ Calling("scan_roots")'
      /\ Calling("collect_roots")'
      /\ InUse' = InUse /\ StillBuffered' = StillBuffered /\ Kept' = Kept
      /\ InBuffer' = InBuffer
  BY LoopsKept DEF LoopFn
<1>2. /\ InUse = DOMAIN roots /\ StillBuffered = DOMAIN roots
      /\ RootsAt(StillBuffered) = InBuffer
      /\ \A k \in DOMAIN roots : roots[k] \in alloc
  BY WholeBuffer
<1>3. BufferInv'
  BY <1>1, <1>2 DEF BufferInv, Good
<1>4. ASSUME ~ Tracing'
      PROVE  /\ TargetsOf({"scan", "incr_and_scan_black"})' = {}
             /\ TargetsOf({"incr_and_scan_black"})' = {}
             /\ Colored({"gray"})' = {}
  <2>1. ~ Calling("scan")' /\ ~ Calling("incr_and_scan_black")'
    BY <1>4 DEF Tracing
  <2>2. /\ TargetsOf({"scan", "incr_and_scan_black"})' = {}
        /\ TargetsOf({"incr_and_scan_black"})' = {}
    BY <2>1 DEF TargetsOf, Calling
  <2> QED
    BY <2>2, FoundGone
<1>5. ASSUME ~ Tracing'
      PROVE  FoundFrom(field', Colored({"white"})',
                       RootsAt(StillBuffered)' \cup TargetsOf({"collect_white"})')
  <2>1. Colored({"gray", "white"})' = Colored({"white"})'
    BY <1>4, <1>5 DEF Colored
  <2>2. RootsAt(StillBuffered)' = InBuffer
    BY <1>1, <1>2 DEF RootsAt
  <2> QED
    BY <1>4, <1>5, <2>1, <2>2, FoundWider
<1>6. FoundInv'
  BY <1>1, <1>5 DEF FoundInv
<1> QED
  BY <1>3, <1>4, <1>6

(* A visit of mark_gray that is done.                                      *)
LEMMA MarkedStep ==
  ASSUME Good, SameLoops, InPass, Calling("mark_roots"), Calling("scan_roots"),
         roots' = roots, alloc' = alloc, buffered' = buffered,
         \A x \in Cell : color[x] = "gray" => color'[x] = "gray",
         roots \in Seq(Cell),
         FoundFrom(field', Colored({"gray"})', RootsAt(Kept))
  PROVE  BufferInv' /\ FoundInv' /\ Tracing'
<1>1. /\ Calling("mark_roots")' /\ Calling("scan_roots")'
      /\ InPass' /\ Tracing'
      /\ InUse' = InUse /\ StillBuffered' = StillBuffered /\ Kept' = Kept
  BY LoopsKept DEF LoopFn, Tracing
<1>2. \A k \in Kept : roots[k] \in Cell
  BY ElementOfSeq, LenProperties DEF Kept, InUse
<1>3. BufferInv'
  BY <1>1, <1>2 DEF BufferInv, Good
<1>4. FoundInv'
  BY <1>1 DEF FoundInv, RootsAt
<1> QED
  BY <1>1, <1>3, <1>4

(* A visit that pushes nothing and at most corrects the count of its       *)
(* target, which keeps the color that ends the visit.                      *)
LEMMA PopVisitStep ==
  ASSUME ControlInv, Good, stack # <<>>, CountInv', fault' = fault,
         NEW d \in Cell, NEW s \in 0 .. Width, NEW c, EdgeTarget(d, s) = c,
         NEW f \in {"decrement"} \cup (VisitFn \ {"free_cell"}), Top = CellTask(f, d, s),
         stack' = Rest,
         alloc' = alloc, color' = color, buffered' = buffered, field' = field,
         roots' = roots, handle' = handle,
         \A x \in Cell : \/ rc'[x] = rc[x]
                         \/ /\ x = c /\ InPass
                            /\ color[x] = "gray" \/ (color[x] = "black" /\ rc[x] > 0 /\ rc'[x] > 0),
         f = "decr_and_mark_gray" => c = NoCell \/ color[c] = "gray",
         f \in {"scan", "incr_and_scan_black"} => c = NoCell \/ color[c] # "gray",
         f = "incr_and_scan_black" => c = NoCell \/ color[c] # "white",
         f = "collect_white" => c = NoCell \/ color[c] # "white" \/ c \in RootsAt(StillBuffered)
  PROVE  Good'
<1>1. /\ Top \in TaskSet /\ Top \in Pending(stack) /\ Pending(stack) = {Top} \cup Pending(Rest)
      /\ GoodStack(Rest, InBuffer)
      /\ \A v \in Pending(Rest) : v \in TaskSet /\ v.fn \in Below(Top.fn)
      /\ Top.fn = f /\ Top.cell = d /\ Top.slot = s
  BY TopFacts, CellTaskFields DEF Good
<1>2. /\ \A fn, x, y : fn # f \/ f \notin Often =>
           (Pend(fn, x, y)' <=> Pend(fn, x, y) /\ ~ (fn = f /\ x = d /\ y = s))
      /\ \A t : t.fn # f => (t \in Pending(stack') <=> t \in Pending(stack))
  BY BelowVisit DEF Good, Pend
<1>3. f \notin LoopFn /\ f \notin {"release_cell", "free_cell", "store"}
  BY DEF VisitFn, LoopFn
<1>4. SameLoops
  BY <1>2, <1>3 DEF SameLoops
<1>5. /\ \A fn \in LoopFn : Calling(fn)' <=> Calling(fn)
      /\ InPass' <=> InPass
      /\ Marking' <=> Marking
      /\ InUse' = InUse /\ StillBuffered' = StillBuffered /\ Kept' = Kept
      /\ InBuffer' = InBuffer
  BY <1>4, LoopsKept
<1>6. \A fn : Calling(fn)' => Calling(fn)
  BY <1>1 DEF Calling
<1>7. Tracing' => Tracing
  BY <1>6 DEF Tracing
<1>8. \A x, y : Pend("release_cell", x, y)' <=> Pend("release_cell", x, y)
  BY <1>2, <1>3
<1>9. \A t \in Pending(Rest) : TaskGood(t) /\ (t.fn \notin LoopFn => t.cell \in Cell)
  BY <1>1, TaskTypes DEF Good, TaskInv
<1>10. \A x \in Cell : Visited(x) => Visited(x)'
  BY DEF Visited
<1>11. \A t : Target(t)' = Target(t)
  BY DEF Target
<1>12. StackInv'
  <2>1. Needed'
    BY <1>5, <1>6 DEF Good, StackInv, Needed, LoopFn
  <2> QED
    BY <1>1, <1>5, <2>1 DEF StackInv, GoodStack
<1>13. FreshInv'
  BY DEF Good, FreshInv
<1>14. VisitedInv'
  <2> SUFFICES ASSUME Tracing', NEW x \in Cell, NEW y \in Slot,
                      color[x] \in {"gray", "white"}, ~ Pend("decr_and_mark_gray", x, y)',
                      field[x][y] # NoCell
               PROVE  Visited(field[x][y])'
    BY DEF VisitedInv
  <2>1. y # 0 /\ field[x][y] \in Cell
    <3>1. field[x][y] \in Ref
      BY DEF ControlInv, TypeOK
    <3> QED
      BY <3>1, HeapGraphAssumption DEF Ref, Slot
  <2>2. CASE Pend("decr_and_mark_gray", x, y)
    <3>1. f = "decr_and_mark_gray" /\ x = d /\ y = s
      BY <1>2, <2>2 DEF Often
    <3>2. field[x][y] = c
      BY <2>1, <3>1 DEF EdgeTarget
    <3>3. color[c] = "gray" /\ c \in Cell
      BY <2>1, <3>1, <3>2
    <3>4. c \in alloc
      BY <3>3 DEF Good, FreshInv
    <3> QED
      BY <3>2, <3>3, <3>4 DEF Visited
  <2>3. CASE ~ Pend("decr_and_mark_gray", x, y)
    BY <1>7, <1>10, <2>1, <2>3 DEF Good, VisitedInv
  <2> QED
    BY <2>2, <2>3
<1>15. TaskInv'
  <2> SUFFICES ASSUME NEW t \in Pending(Rest) PROVE TaskGood(t)'
    BY DEF TaskInv
  <2>1. TaskGood(t) /\ (t.fn \notin LoopFn => t.cell \in Cell)
    BY <1>9
  <2>2. t.fn \in LoopFn => TaskGood(t)'
    BY <1>5, <1>7, <2>1 DEF TaskGood, LoopFn
  <2>3. t.fn \in {"scan", "incr_and_scan_black"} /\ Target(t) # NoCell => Visited(Target(t))'
    <3>1. t.fn \in {"scan", "incr_and_scan_black"} /\ Target(t) # NoCell => Target(t) \in Cell
      <4>1. t.fn \in {"scan", "incr_and_scan_black"} => t.slot \in 0 .. Width /\ t.cell \in Cell
        BY <1>1, TaskTypes DEF LoopFn
      <4> QED
        BY <4>1, HeapGraphAssumption DEF Target, ControlInv, TypeOK, Slot, Ref
    <3> SUFFICES ASSUME t.fn \in {"scan", "incr_and_scan_black"}, Target(t) # NoCell
                 PROVE  Visited(Target(t))'
      OBVIOUS
    <3>2. Visited(Target(t)) /\ Target(t) \in Cell /\ Target(t)' = Target(t)
      BY <1>11, <2>1, <3>1 DEF TaskGood
    <3> QED
      BY <3>2 DEF Visited
  <2>4. t.fn \notin LoopFn => TaskGood(t)'
    BY <1>5, <1>8, <1>11, <2>1, <2>3 DEF TaskGood, LoopFn
  <2> QED
    BY <2>2, <2>4
<1>16. CASE f = "decrement"
  <2>1. \A v \in Pending(stack) : v.fn \in MutatorFn
    BY <1>1, <1>16 DEF Below, MutatorFn
  <2>2. OnlyMutator /\ OnlyMutator'
    BY <1>1, <2>1 DEF OnlyMutator
  <2>3. NoPass /\ NoPass'
    BY <2>2, OutsidePass, PTL
  <2>4. \A x \in Cell : rc'[x] = rc[x]
    BY <2>3 DEF NoPass
  <2>5. ColorInv'
    BY <1>8, <2>3, <2>4 DEF Good, ColorInv, NoPass
  <2>6. BufferInv'
    BY <2>3 DEF Good, BufferInv, NoPass
  <2> QED
    BY <1>12, <1>13, <1>15, <2>3, <2>5, <2>6 DEF Good, NoPass
<1>17. ASSUME f # "decrement", BufferInv', FoundInv', ~ Tracing' => Colored({"gray"})' = {}
       PROVE  Good'
  <2>1. \A x \in Cell : color[x] = "gray" => Tracing'
    BY <1>17 DEF Colored
  <2>2. ColorInv'
    BY <1>5, <1>8, <2>1 DEF Good, ColorInv, LoopFn
  <2> QED
    BY <1>12, <1>13, <1>14, <1>15, <1>17, <2>2 DEF Good
<1>18. f # "decrement" => f \in {"decr_and_mark_gray", "scan", "incr_and_scan_black", "collect_white"}
  BY DEF VisitFn
<1>19. f # "decrement" => Top.fn \in CollectorFn
  BY <1>1, <1>18 DEF CollectorFn, VisitFn
<1>20. \A C : Colored(C)' = Colored(C)
  BY DEF Colored
<1>21. \A F : \A x \in TargetsOf(F) \cap Cell : x # c \/ f \notin F => x \in TargetsOf(F)'
  <2> SUFFICES ASSUME NEW F, NEW x \in Cell, x \in TargetsOf(F), x # c \/ f \notin F
               PROVE  x \in TargetsOf(F)'
    OBVIOUS
  <2>1. PICK t \in Pending(stack) : t.fn \in F /\ x = Target(t)
    BY DEF TargetsOf
  <2>2. Target(Top) = c
    BY <1>1 DEF Target, EdgeTarget
  <2>3. t # Top
    BY <1>1, <2>1, <2>2
  <2>4. t \in Pending(stack')
    BY <1>1, <2>1, <2>3
  <2> QED
    BY <1>11, <2>1, <2>4 DEF TargetsOf
<1>22. CASE f = "decr_and_mark_gray"
  <2>1. InPass /\ Calling("mark_roots") /\ Calling("scan_roots")
    BY <1>1, <1>19, <1>22, PassFacts DEF Good
  <2>2. BufferInv' /\ FoundInv' /\ Tracing'
    BY <1>4, <1>20, <2>1, MarkedStep DEF Good, FoundInv, ControlInv, TypeOK
  <2> QED
    BY <1>17, <1>22, <2>2
<1>23. CASE f \in {"scan", "incr_and_scan_black"}
  <2>1. /\ InPass /\ Tracing /\ ~ Calling("mark_roots") /\ ~ Calling("scan_roots")
        /\ Calling("collect_roots")
    BY <1>1, <1>19, <1>23, PassFacts DEF Good
  <2>2. \A C : Colored(C) \subseteq Cell
    BY DEF Colored
  <2>3. c \notin Colored({"gray"})
    BY <1>23, HeapGraphAssumption DEF Colored
  <2>4. FoundFrom(field', Colored({"gray"})', TargetsOf({"scan", "incr_and_scan_black"})')
    <3>1. FoundFrom(field, Colored({"gray"}), TargetsOf({"scan", "incr_and_scan_black"}))
      BY <2>1 DEF Good, FoundInv
    <3>2. TargetsOf({"scan", "incr_and_scan_black"}) \cap Colored({"gray"})
            \subseteq TargetsOf({"scan", "incr_and_scan_black"})'
      BY <1>21, <2>2, <2>3
    <3> QED
      BY <1>20, <3>1, <3>2, FoundWider
  <2>5. FoundFrom(field', Colored({"gray", "white"})',
                  InBuffer \cup TargetsOf({"incr_and_scan_black"})')
    <3>1. FoundFrom(field, Colored({"gray", "white"}),
                    InBuffer \cup TargetsOf({"incr_and_scan_black"}))
      BY <2>1 DEF Good, FoundInv
    <3>2. f = "incr_and_scan_black" => c \notin Colored({"gray", "white"})
      BY HeapGraphAssumption DEF Colored
    <3>3. TargetsOf({"incr_and_scan_black"}) \cap Colored({"gray", "white"})
            \subseteq TargetsOf({"incr_and_scan_black"})'
      BY <1>21, <2>2, <3>2
    <3>4. (InBuffer \cup TargetsOf({"incr_and_scan_black"})) \cap Colored({"gray", "white"})
            \subseteq InBuffer \cup TargetsOf({"incr_and_scan_black"})'
      BY <3>3
    <3> QED
      BY <1>20, <3>1, <3>4, FoundWider
  <2> QED
    BY <1>4, <1>17, <1>23, <2>1, <2>4, <2>5, TracedStep
<1>24. CASE f = "collect_white"
  <2>1. InPass /\ ~ Tracing /\ ~ Calling("scan_roots") /\ Calling("collect_roots")
    BY <1>1, <1>19, <1>24, PassFacts DEF Good
  <2>2. BufferInv'
    BY <1>5, <1>4, <2>1 DEF Good, BufferInv, LoopFn, SameLoops
  <2>3. \A C : Colored(C) \subseteq Cell
    BY DEF Colored
  <2>4. \A F : Colored({"gray"}) = {}
    BY <2>1 DEF Colored, Good, ColorInv
  <2>5. FoundFrom(field', Colored({"white"})',
                  RootsAt(StillBuffered)' \cup TargetsOf({"collect_white"})')
    <3>1. FoundFrom(field, Colored({"white"}),
                    RootsAt(StillBuffered) \cup TargetsOf({"collect_white"}))
      BY <2>1 DEF Good, FoundInv
    <3>2. RootsAt(StillBuffered)' = RootsAt(StillBuffered)
      BY <1>5 DEF RootsAt
    <3>3. c \in Colored({"white"}) => c \in RootsAt(StillBuffered)
      BY <1>24, HeapGraphAssumption DEF Colored
    <3>4. (RootsAt(StillBuffered) \cup TargetsOf({"collect_white"})) \cap Colored({"white"})
            \subseteq RootsAt(StillBuffered)' \cup TargetsOf({"collect_white"})'
      BY <1>21, <2>3, <3>2, <3>3
    <3> QED
      BY <1>20, <3>1, <3>4, FoundWider
  <2>6. FoundFrom(field', Colored({"gray"})', TargetsOf({"scan", "incr_and_scan_black"})')
    BY <1>20, <2>4, FoundNone
  <2>7. FoundInv'
    BY <1>5, <1>7, <2>1, <2>5, <2>6 DEF FoundInv, LoopFn
  <2> QED
    BY <1>17, <1>20, <1>24, <2>2, <2>4, <2>7
<1> QED
  BY <1>16, <1>18, <1>22, <1>23, <1>24

(***************************************************************************)
(* Visits that push nothing.                                               *)
(***************************************************************************)

(* A slot that holds no cell.                                              *)
LEMMA SkipInvalidCellStep ==
  ASSUME ControlInv, Good, SkipInvalidCell
  PROVE  Good'
<1> SUFFICES ASSUME NEW f, NEW d, NEW s, f = Top.fn, d = Top.cell, s = Top.slot
             PROVE  Good'
  OBVIOUS
<1>1. /\ stack # <<>> /\ f \notin LoopFn \cup {"store"} /\ Target(Top) = NoCell
      /\ stack' = Rest
      /\ UNCHANGED <<alloc, rc, color, buffered, field, roots, handle, fault>>
  BY DEF SkipInvalidCell
<1>2. Top \in TaskSet /\ Top \in Pending(stack)
  BY <1>1, TopFacts DEF Good
<1>3. Top = CellTask(f, d, s) /\ d \in Cell /\ s \in 0 .. Width
  BY <1>1, <1>2, IsCellTask, TaskTypes
<1>4. f \in MutatorFn \cup CollectorFn
  BY <1>2, TaskTypes
<1>5. s # 0 /\ EdgeTarget(d, s) = NoCell
  BY <1>1, <1>3, HeapGraphAssumption DEF Target, EdgeTarget
<1>6. f \in {"decrement"} \cup (VisitFn \ {"free_cell"})
  BY <1>1, <1>2, <1>4, <1>5 DEF Good, TaskInv, TaskGood, MutatorFn, CollectorFn, VisitFn, LoopFn
<1>7. CountInv'
  <2>1. \A x \in Cell, y \in 0 .. Width : EdgeTarget(x, y)' = EdgeTarget(x, y)
    BY <1>1 DEF EdgeTarget
  <2>2. \A fn, x, y : fn \notin Often =>
          (Pend(fn, x, y)' <=> Pend(fn, x, y) /\ ~ (fn = f /\ x = d /\ y = s))
    BY <1>1, <1>3, BelowVisit DEF Good, Pend
  <2>3. \A x, y : Storing(x, y)' <=> Storing(x, y)
    <3>1. \A t : t.fn # f => (t \in Pending(stack') <=> t \in Pending(stack))
      BY <1>1, <1>3, BelowVisit DEF Good
    <3> QED
      BY <1>1, <3>1 DEF Storing
  <2>4. \A x \in Cell, y \in 0 .. Width :
          EdgeTarget(x, y) # NoCell => (Counts(x, y)' <=> Counts(x, y))
    <3> TAKE x \in Cell, y \in 0 .. Width
    <3> HAVE EdgeTarget(x, y) # NoCell
    <3>1. ~ (x = d /\ y = s)
      BY <1>5
    <3>2. \A fn \in {"decrement", "decr_and_mark_gray", "incr_and_scan_black"} :
            Pend(fn, x, y)' <=> Pend(fn, x, y)
      BY <2>2, <3>1 DEF Often
    <3> QED
      BY <1>1, <2>3, <3>2 DEF Counts, Settled
  <2> QED
    BY <1>1, <2>1, <2>4, CountKept DEF Counted, Good
<1> QED
  BY <1>1, <1>3, <1>5, <1>6, <1>7, PopVisitStep

(* A visit in the middle of a pass finds a cell whose count is known.      *)
LEMMA TraceFacts ==
  ASSUME ControlInv, Good, NEW f \in VisitFn, Visits(f),
         NEW d, NEW s, NEW c, d = Top.cell, s = Top.slot, c = Target(Top)
  PROVE  /\ fault = "none" /\ stack # <<>> /\ Top.fn = f /\ Top = CellTask(f, d, s)
         /\ d \in Cell /\ s \in 0 .. Width /\ EdgeTarget(d, s) = c
         /\ c \in Cell /\ c \in alloc /\ c # NoCell
         /\ rc[c] \in Nat /\ color[c] \in Color
         /\ Top \in Pending(stack) /\ Pending(stack) = {Top} \cup Pending(Rest)
         /\ GoodStack(Rest, InBuffer)
         /\ \A u \in Pending(Rest) : u \in TaskSet /\ u.fn \in Below(f)
         /\ TaskGood(Top)
         /\ InPass
         /\ \A t \in Pending(stack) : t.fn # "store"
         /\ \A x, y : ~ Storing(x, y)
         /\ f \in {"decr_and_mark_gray", "incr_and_scan_black", "collect_white"} =>
              s # 0 /\ s \in Slot /\ field[d][s] = c
<1>1. /\ fault = "none" /\ stack # <<>> /\ Top.fn = f /\ Top = CellTask(f, d, s)
      /\ d \in Cell /\ s \in 0 .. Width /\ EdgeTarget(d, s) = c
      /\ c \in Cell /\ c \in alloc
  BY VisitFacts DEF Good
<1>2. /\ Top \in Pending(stack) /\ Pending(stack) = {Top} \cup Pending(Rest)
      /\ GoodStack(Rest, InBuffer)
      /\ \A u \in Pending(Rest) : u \in TaskSet /\ u.fn \in Below(f)
  BY <1>1, TopFacts DEF Good
<1>3. TaskGood(Top)
  BY <1>2 DEF Good, TaskInv
<1>4. InPass
  BY <1>1, PassFacts DEF Good, CollectorFn
<1>5. /\ \A t \in Pending(stack) : t.fn # "store"
      /\ \A x, y : ~ Storing(x, y)
  BY <1>4, NoStoreInPass DEF Good
<1>6. f \in {"decr_and_mark_gray", "incr_and_scan_black", "collect_white"} => s # 0
  BY <1>1, <1>3 DEF TaskGood
<1>7. s # 0 => s \in Slot /\ field[d][s] = c
  BY <1>1, HeapGraphAssumption DEF EdgeTarget, Slot
<1>8. rc[c] \in Nat /\ color[c] \in Color /\ c # NoCell
  BY <1>1, HeapGraphAssumption DEF ControlInv, TypeOK
<1> QED
  BY <1>1, <1>2, <1>3, <1>4, <1>5, <1>6, <1>7, <1>8

(***************************************************************************)
(* mark_gray.                                                              *)
(***************************************************************************)

(* decr_and_mark_gray takes away the count of the edge it comes along; the *)
(* edges of a cell that turns gray are still to be visited.                *)
LEMMA DecrAndMarkGrayStep ==
  ASSUME ControlInv, Good, DecrAndMarkGray
  PROVE  Good'
<1> SUFFICES ASSUME NEW d, NEW s, NEW c, d = Top.cell, s = Top.slot, c = Target(Top)
             PROVE  Good'
  OBVIOUS
<1> DEFINE f == "decr_and_mark_gray"
<1>1. /\ fault = "none" /\ stack # <<>> /\ Top.fn = f /\ Top = CellTask(f, d, s)
      /\ d \in Cell /\ s \in 0 .. Width /\ EdgeTarget(d, s) = c
      /\ c \in Cell /\ c \in alloc /\ c # NoCell
      /\ rc[c] \in Nat /\ color[c] \in Color
      /\ Top \in Pending(stack) /\ Pending(stack) = {Top} \cup Pending(Rest)
      /\ GoodStack(Rest, InBuffer)
      /\ \A u \in Pending(Rest) : u \in TaskSet /\ u.fn \in Below(f)
      /\ InPass
      /\ \A t \in Pending(stack) : t.fn # "store"
      /\ \A x, y : ~ Storing(x, y)
      /\ s # 0 /\ s \in Slot /\ field[d][s] = c
  BY TraceFacts DEF DecrAndMarkGray, VisitFn
<1>2. color[d] = "gray"
  BY <1>1 DEF Good, TaskInv, TaskGood
<1>3. /\ rc[c] > 0
      /\ rc' = [rc EXCEPT ![c] = @ - 1]
      /\ color' = [color EXCEPT ![c] = "gray"]
      /\ stack' = IF color[c] = "gray" THEN Rest ELSE AllChildren(f, c) \o Rest
      /\ UNCHANGED <<alloc, buffered, field, roots, handle, fault, exposed>>
  BY <1>1 DEF DecrAndMarkGray
<1>4. \A x \in Cell : /\ rc'[x] = IF x = c THEN rc[c] - 1 ELSE rc[x]
                      /\ color'[x] = IF x = c THEN "gray" ELSE color[x]
  BY <1>1, <1>3 DEF ControlInv, TypeOK
<1>5. /\ Calling("mark_roots") /\ Calling("scan_roots") /\ Calling("collect_roots") /\ Tracing
  BY <1>1, PassFacts DEF Good, CollectorFn, VisitFn
<1>6. color[c] \in {"black", "purple", "gray"} /\ (color[c] # "gray" => Settled(c) /\ c # d)
  BY <1>1, <1>2, <1>3, <1>5 DEF Good, ColorInv, Color, Settled
<1>7. ~ Pend("decrement", d, s)
  <2> SUFFICES ASSUME Pend("decrement", d, s) PROVE FALSE
    OBVIOUS
  <2>1. NeedsAttendant(CellTask("decrement", d, s), InBuffer)
    BY <1>1, CellTaskFields DEF NeedsAttendant
  <2>2. PICK v \in Pending(Rest) : Attends(v, CellTask("decrement", d, s))
    BY <1>1, <2>1, TopFacts DEF Good, Pend
  <2>3. v \in Pending(stack) /\ v.fn = "release_cell" /\ v.cell = d
    BY <1>1, <2>2, CellTaskFields DEF Attends
  <2> QED
    BY <1>2, <2>3 DEF Good, TaskInv, TaskGood
<1>8. \A x, y : ~ Pend("incr_and_scan_black", x, y)
  BY <1>1, CellTaskFields DEF Pend, Below, MutatorFn
<1>9. \A y : Pend(f, c, y) => color[c] = "gray"
  BY CellTaskFields DEF Good, TaskInv, TaskGood, Pend
<1>10. /\ GoodStack(stack', InBuffer)
       /\ Pending(stack') =
            Pending(Rest) \cup (IF color[c] = "gray" THEN {} ELSE Tasks(f, c))
  <2>1. CASE color[c] = "gray"
    BY <1>1, <1>3, <2>1
  <2>2. CASE color[c] # "gray"
    <3>1. Tasks(f, c) \cap Pending(Rest) = {}
      BY <1>1, <1>9, <2>2 DEF Tasks, Pend
    <3>2. \A y \in Slot : ~ NeedsAttendant(CellTask(f, c, y), InBuffer)
      BY CellTaskFields DEF NeedsAttendant
    <3>3. f \in Below(f) /\ f \in {"decrement"} \cup VisitFn
      BY DEF Below, MutatorFn, VisitFn
    <3>4. /\ GoodStack(AllChildren(f, c) \o Rest, InBuffer)
          /\ Pending(AllChildren(f, c) \o Rest) = Tasks(f, c) \cup Pending(Rest)
      BY <1>1, <3>1, <3>2, <3>3, PushChildren
    <3> QED
      BY <1>3, <2>2, <3>4
  <2> QED
    BY <2>1, <2>2
<1>11. \A t : t.fn # f => (t \in Pending(stack') <=> t \in Pending(stack))
  <2>1. \A t \in Tasks(f, c) : t.fn = f
    BY CellTaskFields DEF Tasks
  <2> QED
    BY <1>1, <1>10, <2>1
<1>12. SameLoops
  BY <1>11 DEF SameLoops, LoopFn
<1>13. \A x, y : Pend(f, x, y)' <=>
                   \/ Pend(f, x, y) /\ ~ (x = d /\ y = s)
                   \/ color[c] # "gray" /\ x = c /\ y \in Slot
  <2>1. \A x, y : CellTask(f, x, y) \in Pending(Rest) <=> Pend(f, x, y) /\ ~ (x = d /\ y = s)
    BY <1>1, BelowVisit DEF Good, Often
  <2>2. \A x, y : CellTask(f, x, y) \in Tasks(f, c) <=> x = c /\ y \in Slot
    BY SameCellTask DEF Tasks
  <2> QED
    BY <1>10, <2>1, <2>2 DEF Pend
<1>14. \A fn, x, y : fn # f => (Pend(fn, x, y)' <=> Pend(fn, x, y))
  BY <1>11, CellTaskFields DEF Pend
<1>15. \A x \in Cell : Settled(x)' <=> Settled(x) /\ x # c
  BY <1>4, <1>6 DEF Settled
<1>16. CountInv'
  <2>1. \A x, y : Storing(x, y)' <=> Storing(x, y)
    BY <1>11 DEF Storing
  <2>2. \A y \in 0 .. Width : y # 0 <=> y \in Slot
    BY HeapGraphAssumption DEF Slot
  <2>3. \A x \in Cell, y \in 0 .. Width :
          Counts(x, y)' <=> Counts(x, y) /\ ~ (x = d /\ y = s)
    <3> TAKE x \in Cell, y \in 0 .. Width
    <3>1. CASE x = d /\ y = s
      <4>1. ~ Settled(d)
        BY <1>2 DEF Settled
      <4> QED
        BY <1>1, <1>6, <1>7, <1>13, <1>14, <1>15, <3>1, <4>1 DEF Counts
    <3>2. CASE ~ (x = d /\ y = s)
      <4>1. CASE x = c /\ color[c] # "gray"
        BY <1>1, <1>6, <1>8, <1>13, <1>14, <1>15, <2>1, <2>2, <3>2, <4>1 DEF Counts
      <4>2. CASE x # c \/ color[c] = "gray"
        <5>1. Settled(x)' <=> Settled(x)
          BY <1>15, <4>2 DEF Settled
        <5> QED
          BY <1>13, <1>14, <2>1, <3>2, <4>2, <5>1 DEF Counts
      <4> QED
        BY <4>1, <4>2
    <3> QED
      BY <3>1, <3>2
  <2>4. \A x \in Cell, y \in 0 .. Width : EdgeTarget(x, y)' = EdgeTarget(x, y)
    BY <1>3 DEF EdgeTarget
  <2>5. Counts(d, s)
    BY <1>1 DEF Counts, Pend
  <2>6. \A x \in Cell, y \in 0 .. Width :
          Counted(x, y)' <=> Counted(x, y) /\ ~ (x = d /\ y = s)
    BY <2>3, <2>4 DEF Counted
  <2>7. TypeOK /\ CountInv
    BY DEF ControlInv, Good
  <2> QED
    BY <1>1, <1>3, <2>4, <2>5, <2>6, <2>7, CountLess
<1>17. CASE color[c] = "gray"
  <2>1. color' = color
    BY <1>1, <1>3, <1>17 DEF ControlInv, TypeOK
  <2>2. stack' = Rest /\ f \in {"decrement"} \cup (VisitFn \ {"free_cell"})
    BY <1>3, <1>17 DEF VisitFn
  <2> QED
    BY <1>1, <1>3, <1>4, <1>16, <1>17, <2>1, <2>2, PopVisitStep
<1>18. CASE color[c] # "gray"
  <2>1. /\ \A fn \in LoopFn : Calling(fn)' <=> Calling(fn)
        /\ InPass' <=> InPass
        /\ Marking' <=> Marking
        /\ InUse' = InUse /\ StillBuffered' = StillBuffered /\ Kept' = Kept
        /\ InBuffer' = InBuffer
    BY <1>3, <1>12, LoopsKept
  <2>2. BufferInv' /\ FoundInv' /\ Tracing'
    <3>1. \A x \in Cell : color[x] = "gray" => color'[x] = "gray"
      BY <1>4
    <3>2. Colored({"gray"})' = Colored({"gray"}) \cup {field[d][s]}
      BY <1>1, <1>4 DEF Colored
    <3>3. FoundFrom(field, Colored({"gray"}), RootsAt(Kept))
      BY <1>5 DEF Good, FoundInv
    <3>4. d \in Colored({"gray"})
      BY <1>1, <1>2 DEF Colored
    <3>5. FoundFrom(field, Colored({"gray"}) \cup {field[d][s]}, RootsAt(Kept))
      BY <1>1, <3>3, <3>4, FoundReach
    <3>6. FoundFrom(field', Colored({"gray"})', RootsAt(Kept))
      BY <1>3, <3>2, <3>5
    <3> QED
      BY <1>1, <1>3, <1>5, <1>12, <3>1, <3>6, MarkedStep DEF ControlInv, TypeOK
  <2>3. StackInv'
    <3>1. Needed'
      BY <1>5, <2>1 DEF Needed, LoopFn, Good, StackInv
    <3> QED
      BY <1>10, <2>1, <3>1 DEF StackInv, GoodStack
  <2>4. FreshInv'
    BY <1>1, <1>3, <1>4 DEF Good, FreshInv
  <2>5. ColorInv'
    BY <1>3, <1>4, <1>5, <1>14, <2>1, <2>2 DEF Good, ColorInv, LoopFn
  <2>7. VisitedInv'
    <3> SUFFICES ASSUME NEW x \in Cell, NEW y \in Slot,
                        color'[x] \in {"gray", "white"}, ~ Pend(f, x, y)',
                        field[x][y] # NoCell
                 PROVE  Visited(field[x][y])'
      BY <1>3 DEF VisitedInv
    <3>1. field[x][y] \in Cell
      BY DEF ControlInv, TypeOK, Ref
    <3>2. x # c /\ color[x] \in {"gray", "white"}
      BY <1>4, <1>13, <1>18
    <3>3. CASE x = d /\ y = s
      <4>1. field[x][y] = c /\ field'[x][y] = c
        BY <1>1, <1>3, <3>3
      <4> QED
        BY <1>1, <1>3, <1>4, <4>1 DEF Visited
    <3>4. CASE ~ (x = d /\ y = s)
      <4>1. ~ Pend(f, x, y)
        BY <1>13, <3>4
      <4>2. Visited(field[x][y])
        BY <1>5, <3>1, <3>2, <4>1 DEF Good, VisitedInv
      <4>3. field'[x][y] = field[x][y]
        BY <1>3
      <4> QED
        BY <1>1, <1>3, <1>4, <3>1, <4>2, <4>3 DEF Visited
    <3> QED
      BY <3>3, <3>4
  <2>8. TaskInv'
    <3> SUFFICES ASSUME NEW t \in Pending(stack') PROVE TaskGood(t)'
      BY DEF TaskInv
    <3>1. CASE t \in Tasks(f, c)
      <4>1. t.fn = f /\ t.cell = c /\ t.slot # 0
        BY <3>1, CellTaskFields DEF Tasks, Slot
      <4> QED
        BY <1>1, <1>4, <4>1 DEF TaskGood
    <3>2. CASE t \in Pending(Rest)
      <4>1. TaskGood(t) /\ (t.fn \notin LoopFn => t.cell \in Cell) /\ t.fn # "store"
        BY <1>1, <3>2, TaskTypes DEF Good, TaskInv
      <4>2. t.fn \in MutatorFn \cup {f} \cup LoopFn
        BY <1>1, <3>2 DEF Below, MutatorFn, LoopFn
      <4>3. t.fn = "release_cell" => t.cell # c
        BY <1>1, <1>3, <4>1 DEF TaskGood
      <4>4. CASE t.fn \in LoopFn
        BY <1>5, <2>1, <4>1, <4>4 DEF TaskGood, LoopFn
      <4>5. CASE t.fn \in MutatorFn \cup {f}
        BY <1>3, <1>4, <2>1, <4>1, <4>3, <4>5 DEF TaskGood, MutatorFn, LoopFn
      <4> QED
        BY <4>2, <4>4, <4>5
    <3> QED
      BY <1>10, <1>18, <3>1, <3>2
  <2> QED
    BY <1>1, <1>3, <1>16, <2>2, <2>3, <2>4, <2>5, <2>7, <2>8 DEF Good
<1> QED
  BY <1>17, <1>18

(***************************************************************************)
(* scan and scan_black.                                                    *)
(***************************************************************************)

(* The calls pending after a visit of scan or scan_black went on to the    *)
(* children of its target.                                                 *)
LEMMA TracePending ==
  ASSUME NEW r, GoodStack(r, InBuffer), TaskInv, NEW c \in Cell, color[c] # "black",
         Pending(r) \subseteq Pending(stack),
         \A u \in Pending(r) : u.fn \in Below("scan"),
         NEW g, g = "scan" \/ g = "incr_and_scan_black"
  PROVE  LET q == AllChildren(g, c) \o r IN
         /\ GoodStack(q, InBuffer)
         /\ Pending(q) = Tasks(g, c) \cup Pending(r)
<1>1. \A y \in Slot : CellTask("incr_and_scan_black", c, y) \notin Pending(stack)
  BY CellTaskFields DEF TaskInv, TaskGood
<1>2. g \in Often \/ Tasks(g, c) \cap Pending(r) = {}
  BY <1>1 DEF Tasks, Often
<1>3. \A y \in Slot : ~ NeedsAttendant(CellTask(g, c, y), InBuffer)
  BY CellTaskFields DEF NeedsAttendant
<1>4. g \in Below(g) /\ Below(g) = Below("scan")
  BY DEF Below, MutatorFn
<1>5. \A u \in Pending(r) : u.fn \in Below(g)
  BY <1>4
<1>6. g \in {"decrement"} \cup VisitFn
  BY DEF VisitFn
<1> QED
  BY <1>2, <1>3, <1>4, <1>5, <1>6, PushChildren

(* A visit that recolors its target and goes on to the children: scan      *)
(* turns a gray cell white, scan_black a gray or a white one black.        *)
LEMMA TracePushStep ==
  ASSUME ControlInv, Good, CountInv', fault' = fault,
         NEW f \in {"scan", "incr_and_scan_black"}, Visits(f),
         NEW d, NEW s, NEW c, d = Top.cell, s = Top.slot, c = Target(Top),
         color[c] \in {"gray", "white"},
         NEW g \in {"scan", "incr_and_scan_black"}, NEW b,
         stack' = AllChildren(g, c) \o Rest,
         color' = [color EXCEPT ![c] = b],
         alloc' = alloc, buffered' = buffered, field' = field, roots' = roots,
         handle' = handle,
         \A x \in Cell : x # c => rc'[x] = rc[x],
         \/ g = "scan" /\ b = "white" /\ rc'[c] = 0 /\ f = "scan" /\ color[c] = "gray"
         \/ g = "incr_and_scan_black" /\ b = "black" /\ rc'[c] > 0
  PROVE  Good'
<1>1. /\ fault = "none" /\ stack # <<>> /\ Top.fn = f /\ Top = CellTask(f, d, s)
      /\ d \in Cell /\ s \in 0 .. Width /\ EdgeTarget(d, s) = c
      /\ c \in Cell /\ c \in alloc /\ c # NoCell
      /\ Top \in Pending(stack) /\ Pending(stack) = {Top} \cup Pending(Rest)
      /\ GoodStack(Rest, InBuffer)
      /\ \A u \in Pending(Rest) : u \in TaskSet /\ u.fn \in Below(f)
      /\ InPass
      /\ \A t \in Pending(stack) : t.fn # "store"
  BY TraceFacts DEF VisitFn
<1>2. \A x \in Cell : color'[x] = IF x = c THEN b ELSE color[x]
  BY <1>1 DEF ControlInv, TypeOK
<1>3. /\ ~ Calling("mark_roots") /\ ~ Calling("decr_and_mark_gray") /\ ~ Calling("scan_roots")
      /\ Calling("collect_roots") /\ Tracing
  BY <1>1, PassFacts DEF Good, CollectorFn, VisitFn
<1>4. /\ c \in Cell /\ color[c] # "black" /\ TaskInv /\ GoodStack(Rest, InBuffer)
      /\ Pending(Rest) \subseteq Pending(stack)
      /\ \A u \in Pending(Rest) : u.fn \in Below("scan")
  BY <1>1 DEF Good, Below
<1>5. /\ GoodStack(stack', InBuffer)
      /\ Pending(stack') = Tasks(g, c) \cup Pending(Rest)
  <2>1. g = "scan" \/ g = "incr_and_scan_black"
    OBVIOUS
  <2>2. /\ GoodStack(AllChildren(g, c) \o Rest, InBuffer)
        /\ Pending(AllChildren(g, c) \o Rest) = Tasks(g, c) \cup Pending(Rest)
    BY <1>4, <2>1, TracePending
  <2> QED
    BY <2>2
<1>6. \A t : t.fn \notin {f, g} => (t \in Pending(stack') <=> t \in Pending(stack))
  <2>1. \A t \in Tasks(g, c) : t.fn = g
    BY CellTaskFields DEF Tasks
  <2> QED
    BY <1>1, <1>5, <2>1
<1>7. SameLoops
  BY <1>6 DEF SameLoops, LoopFn
<1>8. /\ \A fn \in LoopFn : Calling(fn)' <=> Calling(fn)
      /\ InPass' <=> InPass
      /\ Marking' <=> Marking
      /\ InUse' = InUse /\ StillBuffered' = StillBuffered /\ Kept' = Kept
      /\ InBuffer' = InBuffer
  BY <1>7, LoopsKept
<1>9. /\ \A fn, x, y : fn \notin {f, g} => (Pend(fn, x, y)' <=> Pend(fn, x, y))
      /\ \A x, y : ~ Pend("decr_and_mark_gray", x, y) /\ ~ Pend("decr_and_mark_gray", x, y)'
  <2>1. \A fn, x, y : fn \notin {f, g} => (Pend(fn, x, y)' <=> Pend(fn, x, y))
    BY <1>6, CellTaskFields DEF Pend
  <2>2. \A x, y : ~ Pend("decr_and_mark_gray", x, y)
    BY <1>3, CellTaskFields DEF Calling, Pend
  <2> QED
    BY <2>1, <2>2
<1>10. \A F : \A x \in TargetsOf(F) \cap Cell : x # c \/ f \notin F => x \in TargetsOf(F)'
  <2> SUFFICES ASSUME NEW F, NEW x \in Cell, x \in TargetsOf(F), x # c \/ f \notin F
               PROVE  x \in TargetsOf(F)'
    OBVIOUS
  <2>1. PICK t \in Pending(stack) : t.fn \in F /\ x = Target(t)
    BY DEF TargetsOf
  <2>2. t # Top
    BY <1>1, <2>1
  <2>3. t \in Pending(stack')
    BY <1>1, <1>5, <2>1, <2>2
  <2>4. Target(t)' = Target(t)
    BY DEF Target
  <2> QED
    BY <2>1, <2>3, <2>4 DEF TargetsOf
<1>11. \A F : g \in F => \A y \in Slot : field[c][y] \in TargetsOf(F)'
  <2> SUFFICES ASSUME NEW F, g \in F, NEW y \in Slot PROVE field[c][y] \in TargetsOf(F)'
    OBVIOUS
  <2>1. CellTask(g, c, y) \in Pending(stack')
    BY <1>5 DEF Tasks
  <2>2. Target(CellTask(g, c, y))' = field[c][y]
    <3>1. y # 0 /\ field' = field
      BY HeapGraphAssumption DEF Slot
    <3> QED
      BY ONLY <3>1, CellTaskFields DEF Target
  <2> QED
    BY <2>1, <2>2, CellTaskFields DEF TargetsOf
<1>12. \A C : Colored(C) \subseteq Cell
  BY DEF Colored
<1>13. FoundFrom(field', Colored({"gray"})', TargetsOf({"scan", "incr_and_scan_black"})')
  <2> DEFINE F == {"scan", "incr_and_scan_black"}
             S == Colored({"gray"})
  <2>1. FoundFrom(field, S, TargetsOf(F))
    BY <1>1, <1>3 DEF Good, FoundInv
  <2>2. (TargetsOf(F) \cap S) \ {c} \subseteq TargetsOf(F)'
    BY <1>10, <1>12
  <2>3. \A y \in Slot : field[c][y] \in TargetsOf(F)'
    BY <1>11
  <2>4. S' = S \ {c}
    BY <1>1, <1>2 DEF Colored
  <2> HIDE DEF F, S
  <2>5. FoundFrom(field, S \ {c}, TargetsOf(F)')
    BY <1>1, <2>1, <2>2, <2>3, FoundLess
  <2> QED
    BY <2>4, <2>5 DEF F, S
<1>14. FoundFrom(field', Colored({"gray", "white"})',
                 InBuffer \cup TargetsOf({"incr_and_scan_black"})')
  <2> DEFINE F == {"incr_and_scan_black"}
             S == Colored({"gray", "white"})
  <2>1. FoundFrom(field, S, InBuffer \cup TargetsOf(F))
    BY <1>1, <1>3 DEF Good, FoundInv
  <2>2. CASE b = "black"
    <3>1. S' = S \ {c} /\ g \in F
      BY <1>1, <1>2, <2>2 DEF Colored
    <3>2. \A y \in Slot : field[c][y] \in InBuffer \cup TargetsOf(F)'
      BY <1>11, <3>1
    <3>3. ((InBuffer \cup TargetsOf(F)) \cap S) \ {c} \subseteq InBuffer \cup TargetsOf(F)'
      BY <1>10, <1>12
    <3> HIDE DEF F, S
    <3>4. FoundFrom(field, S \ {c}, InBuffer \cup TargetsOf(F)')
      BY <1>1, <2>1, <3>2, <3>3, FoundLess
    <3> QED
      BY <3>1, <3>4 DEF F, S
  <2>3. CASE b # "black"
    <3>1. S' = S /\ f \notin F
      BY <1>1, <1>2, <2>3 DEF Colored
    <3>2. (InBuffer \cup TargetsOf(F)) \cap S \subseteq InBuffer \cup TargetsOf(F)'
      BY <1>10, <1>12, <3>1
    <3> HIDE DEF F, S
    <3>3. FoundFrom(field, S, InBuffer \cup TargetsOf(F)')
      BY <2>1, <3>2, FoundWider
    <3> QED
      BY <3>1, <3>3 DEF F, S
  <2> QED
    BY <2>2, <2>3
<1>15. /\ BufferInv' /\ FoundInv'
       /\ ~ Tracing' => Colored({"gray"})' = {}
  BY <1>1, <1>3, <1>7, <1>13, <1>14, TracedStep
<1>16. StackInv'
  <2>1. \A fn : Calling(fn)' => Calling(fn) \/ fn = g
    BY <1>1, <1>5, CellTaskFields DEF Calling, Tasks
  <2>2. Needed'
    BY <1>1, <1>3, <1>8, <2>1 DEF Needed, LoopFn, Good, StackInv, InPass
  <2> QED
    BY <1>5, <1>8, <2>2 DEF StackInv, GoodStack
<1>17. FreshInv'
  BY <1>1, <1>2 DEF Good, FreshInv
<1>18. ColorInv'
  <2>1. \A x \in Cell : color'[x] = "gray" => Tracing'
    BY <1>15 DEF Colored
  <2>2. \A x, y : Pend("release_cell", x, y)' <=> Pend("release_cell", x, y)
    BY <1>9
  <2>3. \A x \in Cell : color'[x] = "white" => rc'[x] = 0
    BY <1>2 DEF Good, ColorInv
  <2>4. \A x \in Cell : color'[x] = "purple" => x # c /\ color[x] = "purple" /\ rc'[x] = rc[x]
    BY <1>2
  <2> QED
    BY <1>3, <1>8, <2>1, <2>2, <2>3, <2>4 DEF Good, ColorInv, LoopFn
<1>20. VisitedInv'
  <2> SUFFICES ASSUME NEW x \in Cell, NEW y \in Slot,
                      color'[x] \in {"gray", "white"}, field[x][y] # NoCell
               PROVE  Visited(field[x][y])'
    BY DEF VisitedInv
  <2>1. color[x] \in {"gray", "white"}
    BY <1>2
  <2>2. Visited(field[x][y])
    BY <1>3, <1>9, <2>1 DEF Good, VisitedInv
  <2>3. field'[x][y] = field[x][y] /\ field[x][y] \in Cell
    BY DEF ControlInv, TypeOK, Ref
  <2> QED
    BY <1>1, <1>2, <2>2, <2>3 DEF Visited
<1>21. TaskInv'
  <2> SUFFICES ASSUME NEW t \in Pending(stack') PROVE TaskGood(t)'
    BY DEF TaskInv
  <2>1. ASSUME t.fn \in {"scan", "incr_and_scan_black"}, t.cell \in Cell, t.slot \in 0 .. Width,
               Target(t) # NoCell, Visited(Target(t))
        PROVE  Visited(Target(t))'
    <3>1. Target(t)' = Target(t) /\ Target(t) \in Cell
      <4>1. Target(t)' = Target(t)
        BY DEF Target
      <4>2. t.slot # 0 => t.slot \in Slot
        BY <2>1 DEF Slot
      <4>3. Target(t) \in Ref
        BY <2>1, <4>2 DEF Target, ControlInv, TypeOK, Ref
      <4> QED
        BY <2>1, <4>1, <4>3 DEF Ref
    <3> QED
      BY <1>1, <1>2, <2>1, <3>1 DEF Visited
  <2>2. CASE t \in Tasks(g, c)
    <3>1. PICK y \in Slot : t = CellTask(g, c, y)
      BY <2>2 DEF Tasks
    <3>2. /\ t.fn = g /\ t.cell = c /\ t.slot = y /\ y # 0 /\ y \in 0 .. Width
          /\ Target(t) = field[c][y]
      <4>1. t.fn = g /\ t.cell = c /\ t.slot = y
        BY <3>1, CellTaskFields
      <4>2. y # 0 /\ y \in 0 .. Width
        BY HeapGraphAssumption DEF Slot
      <4> QED
        BY <4>1, <4>2 DEF Target
    <3>3. Target(t) # NoCell => Visited(Target(t))
      BY <1>1, <1>3, <1>9, <3>2 DEF Good, VisitedInv
    <3>4. (Target(t) # NoCell)' => Visited(Target(t))'
      <4>1. Target(t)' = Target(t)
        BY DEF Target
      <4> QED
        BY <1>1, <2>1, <3>2, <3>3, <4>1
    <3> QED
      BY <1>1, <1>2, <3>2, <3>4 DEF TaskGood
  <2>3. CASE t \in Pending(Rest)
    <3>1. TaskGood(t) /\ (t.fn \notin LoopFn => t.cell \in Cell /\ t.slot \in 0 .. Width) /\ t.fn # "store"
      BY <1>1, <2>3, TaskTypes DEF Good, TaskInv
    <3>2. t.fn \in {"decrement", "release_cell", "scan", "incr_and_scan_black", "collect_roots", "free_roots"}
      BY <1>1, <2>3, <3>1 DEF Below, MutatorFn
    <3>3. Target(t)' = Target(t)
      BY DEF Target
    <3>4. t.fn \in {"scan", "incr_and_scan_black"} => TaskGood(t)'
      <4> SUFFICES ASSUME t.fn \in {"scan", "incr_and_scan_black"} PROVE TaskGood(t)'
        OBVIOUS
      <4>1. t.cell \in Cell /\ t.slot \in 0 .. Width
        BY <3>1 DEF LoopFn
      <4>2. (Target(t) # NoCell)' => Visited(Target(t))'
        BY <2>1, <3>1, <3>3, <4>1 DEF TaskGood
      <4>3. t.fn = "incr_and_scan_black" => t.cell # c
        BY <3>1 DEF TaskGood
      <4> QED
        BY <1>2, <3>1, <4>1, <4>2, <4>3 DEF TaskGood
    <3>5. t.fn \in {"decrement", "release_cell"} => TaskGood(t)'
      <4>1. t.fn = "release_cell" => t.cell # c /\ t.cell \in Cell
        BY <3>1 DEF TaskGood, LoopFn
      <4> QED
        BY <1>2, <1>8, <3>1, <4>1 DEF TaskGood
    <3>6. t.fn \in {"collect_roots", "free_roots"} => TaskGood(t)'
      BY <1>3, <1>8, <3>1 DEF TaskGood, LoopFn
    <3> QED
      BY <3>2, <3>4, <3>5, <3>6
  <2> QED
    BY <1>5, <2>2, <2>3
<1> QED
  BY <1>1, <1>15, <1>16, <1>17, <1>18, <1>20, <1>21 DEF Good

(* scan restores nothing yet: a cell that scan_black is to be restored     *)
(* from has its children's calls pending.                                  *)
LEMMA ScanStep ==
  ASSUME ControlInv, Good, Scan
  PROVE  Good'
<1> SUFFICES ASSUME NEW d, NEW s, NEW c, d = Top.cell, s = Top.slot, c = Target(Top)
             PROVE  Good'
  OBVIOUS
<1>1. /\ fault = "none" /\ stack # <<>> /\ Top.fn = "scan" /\ Top = CellTask("scan", d, s)
      /\ d \in Cell /\ s \in 0 .. Width /\ EdgeTarget(d, s) = c
      /\ c \in Cell /\ c \in alloc /\ c # NoCell
      /\ rc[c] \in Nat /\ color[c] \in Color
      /\ Top \in Pending(stack) /\ Pending(stack) = {Top} \cup Pending(Rest)
      /\ GoodStack(Rest, InBuffer)
      /\ \A u \in Pending(Rest) : u \in TaskSet /\ u.fn \in Below("scan")
  BY TraceFacts DEF Scan, VisitFn
<1>2. UNCHANGED <<alloc, rc, buffered, field, roots, handle, fault, exposed>>
  BY DEF Scan
<1>3. \A x \in Cell, y \in 0 .. Width : EdgeTarget(x, y)' = EdgeTarget(x, y)
  BY <1>2 DEF EdgeTarget
<1>4. /\ \A fn, x, y : fn \notin Often => (CellTask(fn, x, y) \in Pending(Rest) <=> Pend(fn, x, y))
      /\ \A t : t.fn # "scan" => (t \in Pending(Rest) <=> t \in Pending(stack))
  BY <1>1, BelowVisit DEF Good, Often
<1>8. /\ c \in Cell /\ TaskInv /\ GoodStack(Rest, InBuffer)
      /\ Pending(Rest) \subseteq Pending(stack)
      /\ \A u \in Pending(Rest) : u.fn \in Below("scan")
      /\ color[c] = "gray" => color[c] # "black"
  BY <1>1 DEF Good
<1>5. CASE color[c] # "gray"
  <2>1. stack' = Rest /\ color' = color
    BY <1>5 DEF Scan
  <2>2. SameAccounting
    <3>1. \A fn, x, y : fn \notin Often => (Pend(fn, x, y)' <=> Pend(fn, x, y))
      BY <1>4, <2>1 DEF Pend
    <3>2. \A x, y : Storing(x, y)' <=> Storing(x, y)
      BY <1>4, <2>1 DEF Storing
    <3> QED
      BY <3>1, <3>2 DEF SameAccounting, Often
  <2>3. CountInv'
    BY <1>2, <2>1, <2>2, QuietCount DEF Good, Settled
  <2>4. "scan" \in {"decrement"} \cup (VisitFn \ {"free_cell"})
    BY DEF VisitFn
  <2> QED
    BY <1>1, <1>2, <1>5, <2>1, <2>3, <2>4, PopVisitStep
<1>6. CASE color[c] = "gray" /\ rc[c] > 0
  <2>1. /\ stack' = AllChildren("incr_and_scan_black", c) \o Rest
        /\ color' = [color EXCEPT ![c] = "black"]
    BY <1>6 DEF Scan, ReferencedFromOutside
  <2>2. Pending(stack') = Tasks("incr_and_scan_black", c) \cup Pending(Rest)
    BY <1>6, <1>8, <2>1, TracePending
  <2>3. \A fn, x, y : fn \notin Often =>
          (Pend(fn, x, y)' <=>
             Pend(fn, x, y) \/ (fn = "incr_and_scan_black" /\ x = c /\ y \in Slot))
    <3>1. \A fn, x, y : CellTask(fn, x, y) \in Tasks("incr_and_scan_black", c) <=>
                          fn = "incr_and_scan_black" /\ x = c /\ y \in Slot
      BY SameCellTask DEF Tasks
    <3> QED
      BY <1>4, <2>2, <3>1 DEF Pend
  <2>4. \A x, y : Storing(x, y)' <=> Storing(x, y)
    <3>1. \A t \in Tasks("incr_and_scan_black", c) : t.fn # "store"
      BY CellTaskFields DEF Tasks
    <3> QED
      BY <1>4, <2>2, <3>1 DEF Storing
  <2>5. \A x \in Cell : color'[x] = IF x = c THEN "black" ELSE color[x]
    BY <1>1, <2>1 DEF ControlInv, TypeOK
  <2>6. \A x \in Cell : x # c => (Settled(x)' <=> Settled(x))
    BY <1>2, <2>5 DEF Settled
  <2>7. ~ Settled(c)
    BY <1>6 DEF Settled
  <2>8. \A y \in 0 .. Width : y # 0 => y \in Slot
    BY HeapGraphAssumption DEF Slot
  <2>9. \A x \in Cell, y \in 0 .. Width : Counts(x, y)' <=> Counts(x, y)
    <3> TAKE x \in Cell, y \in 0 .. Width
    <3>1. CASE x = c
      BY <2>3, <2>7, <2>8, <3>1 DEF Counts, Often
    <3>2. CASE x # c
      BY <2>3, <2>4, <2>6, <3>2 DEF Counts, Often
    <3> QED
      BY <3>1, <3>2
  <2>10. CountInv'
    BY <1>2, <1>3, <2>9, CountKept DEF Good, Counted
  <2> QED
    BY <1>1, <1>2, <1>6, <2>1, <2>10, TracePushStep DEF Scan
<1>7. CASE color[c] = "gray" /\ ~ (rc[c] > 0)
  <2>1. /\ stack' = AllChildren("scan", c) \o Rest
        /\ color' = [color EXCEPT ![c] = "white"]
    BY <1>7 DEF Scan, ReferencedFromOutside
  <2>2. Pending(stack') = Tasks("scan", c) \cup Pending(Rest)
    BY <1>7, <1>8, <2>1, TracePending
  <2>3. \A t \in Tasks("scan", c) : t.fn = "scan"
    BY CellTaskFields DEF Tasks
  <2>4. SameAccounting
    <3>1. \A fn, x, y : fn \notin Often => (Pend(fn, x, y)' <=> Pend(fn, x, y))
      BY <1>4, <2>2, <2>3, CellTaskFields DEF Pend, Often
    <3>2. \A x, y : Storing(x, y)' <=> Storing(x, y)
      BY <1>4, <2>2, <2>3 DEF Storing
    <3> QED
      BY <3>1, <3>2 DEF SameAccounting, Often
  <2>5. \A x \in Cell : Settled(x)' <=> Settled(x)
    BY <1>1, <1>2, <1>7, <2>1 DEF Settled, ControlInv, TypeOK
  <2>6. CountInv'
    BY <1>2, <2>4, <2>5, QuietCount DEF Good
  <2>7. rc'[c] = 0
    BY <1>1, <1>2, <1>7
  <2> QED
    BY <1>1, <1>2, <1>7, <2>1, <2>6, <2>7, TracePushStep DEF Scan
<1> QED
  BY <1>5, <1>6, <1>7

(* scan_black gives the count of an edge back.                             *)
LEMMA IncrAndScanBlackStep ==
  ASSUME ControlInv, Good, IncrAndScanBlack
  PROVE  Good'
<1> SUFFICES ASSUME NEW d, NEW s, NEW c, d = Top.cell, s = Top.slot, c = Target(Top)
             PROVE  Good'
  OBVIOUS
<1> DEFINE f == "incr_and_scan_black"
<1>1. /\ fault = "none" /\ stack # <<>> /\ Top.fn = f /\ Top = CellTask(f, d, s)
      /\ d \in Cell /\ s \in 0 .. Width /\ EdgeTarget(d, s) = c
      /\ c \in Cell /\ c \in alloc /\ c # NoCell
      /\ rc[c] \in Nat /\ color[c] \in Color
      /\ Top \in Pending(stack) /\ Pending(stack) = {Top} \cup Pending(Rest)
      /\ GoodStack(Rest, InBuffer)
      /\ \A u \in Pending(Rest) : u \in TaskSet /\ u.fn \in Below(f)
      /\ TaskGood(Top) /\ InPass
      /\ \A x, y : ~ Storing(x, y)
      /\ s # 0 /\ s \in Slot /\ field[d][s] = c
  BY TraceFacts DEF IncrAndScanBlack, VisitFn
<1>2. /\ rc' = [rc EXCEPT ![c] = @ + 1]
      /\ color' = [color EXCEPT ![c] = "black"]
      /\ stack' = IF color[c] = "black" THEN Rest ELSE AllChildren(f, c) \o Rest
      /\ UNCHANGED <<alloc, buffered, field, roots, handle, fault, exposed>>
  BY DEF IncrAndScanBlack, Restored
<1>3. color[d] = "black" /\ rc[d] > 0 /\ Visited(c)
  BY <1>1 DEF TaskGood
<1>4. color[c] \in {"gray", "white"} \/ (color[c] = "black" /\ rc[c] > 0)
  BY <1>3 DEF Visited
<1>5. \A x \in Cell : /\ rc'[x] = IF x = c THEN rc[c] + 1 ELSE rc[x]
                      /\ color'[x] = IF x = c THEN "black" ELSE color[x]
  BY <1>1, <1>2 DEF ControlInv, TypeOK
<1>6. Pending(stack') = Pending(Rest) \cup (IF color[c] = "black" THEN {} ELSE Tasks(f, c))
  <2>1. CASE color[c] = "black"
    BY <1>2, <2>1
  <2>2. CASE color[c] # "black"
    <3>1. /\ TaskInv /\ Pending(Rest) \subseteq Pending(stack)
          /\ c \in Cell /\ GoodStack(Rest, InBuffer)
          /\ \A u \in Pending(Rest) : u.fn \in Below("scan")
      BY <1>1 DEF Good, Below
    <3>2. stack' = AllChildren(f, c) \o Rest
      BY <1>2, <2>2
    <3>3. Pending(AllChildren(f, c) \o Rest) = Tasks(f, c) \cup Pending(Rest)
      BY <2>2, <3>1, TracePending
    <3> QED
      BY <2>2, <3>2, <3>3
  <2> QED
    BY <2>1, <2>2
<1>7. \A t \in Tasks(f, c) : t.fn = f
  BY CellTaskFields DEF Tasks
<1>8. \A fn, x, y : CellTask(fn, x, y) \in Tasks(f, c) <=> fn = f /\ x = c /\ y \in Slot
  BY SameCellTask DEF Tasks
<1>9. /\ \A fn, x, y : fn \notin Often =>
           (Pend(fn, x, y)' <=>
              \/ Pend(fn, x, y) /\ ~ (fn = f /\ x = d /\ y = s)
              \/ color[c] # "black" /\ fn = f /\ x = c /\ y \in Slot)
      /\ \A t : t.fn # f => (t \in Pending(stack') <=> t \in Pending(stack))
  <2>1. /\ \A fn, x, y : fn \notin Often =>
             (CellTask(fn, x, y) \in Pending(Rest) <=>
                Pend(fn, x, y) /\ ~ (fn = f /\ x = d /\ y = s))
        /\ \A t : t.fn # f => (t \in Pending(Rest) <=> t \in Pending(stack))
    BY <1>1, BelowVisit DEF Good
  <2> QED
    BY <1>6, <1>7, <1>8, <2>1 DEF Pend
<1>10. \A x, y : ~ Storing(x, y)'
  BY <1>1, <1>9 DEF Storing
<1>11. ~ Pend("decrement", d, s)
  <2> SUFFICES ASSUME Pend("decrement", d, s) PROVE FALSE
    OBVIOUS
  <2>1. NeedsAttendant(CellTask("decrement", d, s), InBuffer)
    BY <1>1, CellTaskFields DEF NeedsAttendant
  <2>2. PICK v \in Pending(Rest) : Attends(v, CellTask("decrement", d, s))
    BY <1>1, <2>1, TopFacts DEF Good, Pend
  <2>3. v \in Pending(stack)
    BY <1>1, <2>2
  <2>4. v.fn = "release_cell" /\ v.cell = d
    BY <1>1, <2>2, <2>3, NoStoreInPass, CellTaskFields DEF Attends, Good
  <2> QED
    BY <1>3, <2>3, <2>4 DEF Good, TaskInv, TaskGood
<1>12. ~ Pend("decr_and_mark_gray", d, s)
  <2>1. ~ Calling("decr_and_mark_gray")
    BY <1>1, PassFacts DEF Good, CollectorFn, VisitFn
  <2> QED
    BY <2>1, CellTaskFields DEF Pend, Calling
<1>13. Pend(f, d, s)
  BY <1>1 DEF Pend
<1>14. CountInv'
  <2>1. \A x \in Cell : x # c => (Settled(x)' <=> Settled(x))
    BY <1>5 DEF Settled
  <2>2. Settled(c)' /\ (Settled(c) <=> color[c] = "black")
    BY <1>1, <1>4, <1>5 DEF Settled
  <2>3. \A y \in 0 .. Width : y # 0 => y \in Slot
    BY HeapGraphAssumption DEF Slot
  <2>4. ~ Counts(d, s)
    BY <1>11, <1>12, <1>13 DEF Counts
  <2>5. \A x \in Cell, y \in 0 .. Width : Counts(x, y)' <=> Counts(x, y) \/ (x = d /\ y = s)
    <3> TAKE x \in Cell, y \in 0 .. Width
    <3>1. CASE x = d /\ y = s
      <4>1. Settled(d)'
        BY <1>1, <1>3, <1>5 DEF Settled
      <4>2. ~ Pend(f, d, s)'
        BY <1>3, <1>9 DEF Often
      <4> QED
        BY <1>1, <1>10, <3>1, <4>1, <4>2 DEF Counts
    <3>2. CASE ~ (x = d /\ y = s)
      <4>1. CASE x = c /\ color[c] # "black"
        BY <1>9, <2>2, <2>3, <3>2, <4>1 DEF Counts, Often
      <4>2. CASE x # c \/ color[c] = "black"
        <5>1. Settled(x)' <=> Settled(x)
          BY <2>1, <2>2, <4>2
        <5> QED
          BY <1>1, <1>9, <1>10, <3>2, <4>2, <5>1 DEF Counts, Often
      <4> QED
        BY <4>1, <4>2
    <3> QED
      BY <3>1, <3>2
  <2>6. \A x \in Cell, y \in 0 .. Width : EdgeTarget(x, y)' = EdgeTarget(x, y)
    BY <1>2 DEF EdgeTarget
  <2>7. \A x \in Cell, y \in 0 .. Width :
          Counted(x, y)' <=> Counted(x, y) \/ (x = d /\ y = s)
    BY <1>1, <2>5, <2>6 DEF Counted
  <2>8. ~ Counted(d, s) /\ EdgeTarget(d, s)' = c
    BY <1>1, <2>4, <2>6 DEF Counted
  <2>9. /\ TypeOK /\ CountInv /\ d \in Cell /\ s \in 0 .. Width /\ c \in Cell
    BY <1>1, <1>2 DEF ControlInv, Good
  <2>10. \/ rc' = [rc EXCEPT ![c] = @ + 1] /\ handle' = handle
         \/ rc' = rc /\ handle' = [handle EXCEPT ![c] = @ - 1] /\ handle[c] > 0
    BY <1>2
  <2>11. \A x \in Cell, y \in 0 .. Width :
           Counted(x, y) => EdgeTarget(x, y)' = EdgeTarget(x, y)
    BY <2>6
  <2>12. ~ Counted(d, s)
    BY <2>8
  <2> QED
    BY <2>7, <2>8, <2>9, <2>10, <2>11, <2>12, CountMore
<1>15. CASE color[c] = "black"
  <2>1. color' = color
    BY <1>1, <1>2, <1>15 DEF ControlInv, TypeOK
  <2>2. f \in {"decrement"} \cup (VisitFn \ {"free_cell"}) /\ stack' = Rest
    BY <1>2, <1>15 DEF VisitFn
  <2>3. rc[c] > 0 /\ rc'[c] > 0
    BY <1>1, <1>4, <1>5, <1>15
  <2> QED
    BY <1>1, <1>2, <1>5, <1>14, <1>15, <2>1, <2>2, <2>3, PopVisitStep
<1>16. CASE color[c] # "black"
  <2>1. rc'[c] > 0 /\ \A x \in Cell : x # c => rc'[x] = rc[x]
    BY <1>1, <1>5
  <2>2. /\ Visits(f) /\ color[c] \in {"gray", "white"} /\ stack' = AllChildren(f, c) \o Rest
        /\ color' = [color EXCEPT ![c] = "black"]
        /\ fault' = fault /\ alloc' = alloc /\ buffered' = buffered /\ field' = field
        /\ roots' = roots /\ handle' = handle
    BY <1>2, <1>4, <1>16 DEF IncrAndScanBlack
  <2> QED
    BY <1>14, <2>1, <2>2, TracePushStep
<1> QED
  BY <1>15, <1>16

(* A loop over the buffer that runs, and what is pending below it.         *)
LEMMA LoopFacts ==
  ASSUME ControlInv, Good, NEW fn \in LoopFn, Calls(fn)
  PROVE  /\ fault = "none" /\ stack # <<>> /\ Top.fn = fn
         /\ Top.i \in Nat \ {0} /\ Top.j \in Nat \ {0}
         /\ Top \in Pending(stack) /\ Pending(stack) = {Top} \cup Pending(Rest)
         /\ GoodStack(Rest, InBuffer)
         /\ \A u \in Pending(Rest) : u \in TaskSet /\ u.fn \in Below(fn)
         /\ Top \notin Pending(Rest)
         /\ InPass
         /\ \A t \in Pending(stack) : t.fn # "store"
         /\ roots \in Seq(Cell) /\ Len(roots) \in Nat /\ DOMAIN roots = 1 .. Len(roots)
         /\ \A k \in DOMAIN roots : roots[k] \in Cell /\ k \in Nat
         /\ fn # "scan_roots" /\ Top.i <= Len(roots) =>
              /\ Top.i \in DOMAIN roots /\ roots[Top.i] \in alloc /\ roots[Top.i] \in Cell
         /\ \A t : t.fn \in LoopFn /\ t.fn # fn => (t \in Pending(Rest) <=> t \in Pending(stack))
         /\ \A t \in Pending(stack) : t.fn = fn => t = Top
<1>1. /\ fault = "none" /\ stack # <<>> /\ Top.fn = fn /\ Touched(Top) \subseteq alloc
      /\ Top.i \in Nat \ {0} /\ Top.j \in Nat \ {0}
  BY LoopTop DEF Calls
<1>2. fn \notin Often /\ fn \notin Below(fn) /\ fn \in CollectorFn
  BY DEF Often, LoopFn, Below, MutatorFn, CollectorFn
<1>3. /\ Top \in Pending(stack) /\ Pending(stack) = {Top} \cup Pending(Rest)
      /\ GoodStack(Rest, InBuffer)
      /\ \A u \in Pending(Rest) : u \in TaskSet /\ u.fn \in Below(fn)
      /\ Top \notin Pending(Rest)
  BY <1>1, <1>2, TopFacts DEF Good
<1>4. InPass
  BY <1>1, <1>2, PassFacts DEF Good
<1>5. \A t \in Pending(stack) : t.fn # "store"
  BY <1>4, NoStoreInPass DEF Good
<1>6. /\ roots \in Seq(Cell) /\ Len(roots) \in Nat /\ DOMAIN roots = 1 .. Len(roots)
      /\ \A k \in DOMAIN roots : roots[k] \in Cell /\ k \in Nat
  BY ElementOfSeq, LenProperties DEF ControlInv, TypeOK
<1>7. ASSUME fn # "scan_roots", Top.i <= Len(roots)
      PROVE  Top.i \in DOMAIN roots /\ roots[Top.i] \in alloc /\ roots[Top.i] \in Cell
  BY <1>1, <1>6, <1>7 DEF Touched
<1>8. \A t \in Pending(stack) : t.fn = fn => t = Top
  BY <1>2, <1>3
<1> QED
  BY <1>1, <1>3, <1>4, <1>5, <1>6, <1>7, <1>8

(* scan_roots visits the cells that mark_roots kept.                       *)
LEMMA ScanRootsStep ==
  ASSUME ControlInv, Good, ScanRoots
  PROVE  Good'
<1>1. /\ fault = "none" /\ stack # <<>> /\ Top.fn = "scan_roots"
      /\ Top \in Pending(stack) /\ Pending(stack) = {Top} \cup Pending(Rest)
      /\ GoodStack(Rest, InBuffer)
      /\ \A u \in Pending(Rest) : u \in TaskSet /\ u.fn \in Below("scan_roots")
      /\ InPass
      /\ \A t \in Pending(stack) : t.fn # "store"
      /\ roots \in Seq(Cell) /\ Len(roots) \in Nat /\ DOMAIN roots = 1 .. Len(roots)
      /\ \A k \in DOMAIN roots : roots[k] \in Cell /\ k \in Nat
  BY LoopFacts DEF ScanRoots, LoopFn
<1> DEFINE P == { CellTask("scan", roots[k], 0) : k \in 1 .. Len(roots) }
<1>2. /\ stack' = [k \in 1 .. Len(roots) |-> CellTask("scan", roots[k], 0)] \o Rest
      /\ UNCHANGED <<alloc, rc, color, buffered, field, roots, handle, fault, exposed>>
  BY DEF ScanRoots
<1>3. /\ ~ Calling("mark_roots") /\ ~ Calling("decr_and_mark_gray")
      /\ Calling("scan_roots") /\ Calling("collect_roots") /\ Tracing
  BY <1>1, PassFacts DEF Good, CollectorFn, LoopFn
<1>4. GoodStack(stack', InBuffer) /\ Pending(stack') = P \cup Pending(Rest)
  <2>1. \A u \in Pending(Rest) : u.fn \in Below("scan")
    BY <1>1 DEF Below
  <2> HIDE DEF P
  <2>2. LET q == [k \in 1 .. Len(roots) |-> CellTask("scan", roots[k], 0)] \o Rest IN
        GoodStack(q, InBuffer) /\ Pending(q) = P \cup Pending(Rest)
    BY <1>1, <2>1, PushScans DEF P
  <2> QED
    BY <1>2, <2>2
<1>5. \A k \in DOMAIN roots : /\ CellTask("scan", roots[k], 0).fn = "scan"
                              /\ CellTask("scan", roots[k], 0).cell = roots[k]
                              /\ CellTask("scan", roots[k], 0).slot = 0
  BY CellTaskFields
<1>6. \A t \in P : \E k \in DOMAIN roots :
        t = CellTask("scan", roots[k], 0) /\ t.fn = "scan" /\ t.cell = roots[k] /\ t.slot = 0
  BY <1>1, <1>5
<1>7. \A k \in DOMAIN roots : CellTask("scan", roots[k], 0) \in Pending(stack')
  BY <1>1, <1>4
<1> HIDE DEF P
<1>8. \A t : t.fn \notin {"scan_roots", "scan"} => (t \in Pending(stack') <=> t \in Pending(stack))
  BY <1>1, <1>4, <1>6
<1>9. /\ ~ Calling("scan_roots")' /\ ~ Calling("mark_roots")'
      /\ Calling("collect_roots")' /\ InPass'
  <2>1. ~ Calling("scan_roots")'
    BY <1>1, <1>4, <1>6 DEF Calling, Below, MutatorFn
  <2> QED
    BY <1>1, <1>3, <1>8, <2>1 DEF Calling, InPass
<1>10. /\ InUse = DOMAIN roots /\ StillBuffered = DOMAIN roots
       /\ RootsAt(StillBuffered) = InBuffer
       /\ \A k \in DOMAIN roots : roots[k] \in alloc
  BY <1>1, <1>3, WholeBuffer
<1>11. Kept = DOMAIN roots /\ \A k \in DOMAIN roots : color[roots[k]] = "gray"
  <2>1. Kept = DOMAIN roots
    BY <1>3, <1>10 DEF Kept, Calling
  <2> QED
    BY <1>3, <2>1 DEF Good, BufferInv
<1>12. InUse' = InUse /\ StillBuffered' = StillBuffered /\ InBuffer' = InBuffer
  <2>1. InUse' = InUse
    BY <1>2, <1>3, <1>9 DEF InUse, Calling
  <2> QED
    BY <1>1, <1>2, <1>3, <1>8, <1>9, <2>1 DEF StillBuffered, InBuffer
<1>13. BufferInv'
  BY <1>2, <1>9, <1>10, <1>12 DEF Good, BufferInv
<1>14. FoundFrom(field, Colored({"gray"}), TargetsOf({"scan", "incr_and_scan_black"})')
  <2>1. FoundFrom(field, Colored({"gray"}), RootsAt(Kept))
    BY <1>3 DEF Good, FoundInv
  <2>2. ASSUME NEW k \in DOMAIN roots
        PROVE  roots[k] \in TargetsOf({"scan", "incr_and_scan_black"})'
    <3>1. PICK t \in Pending(stack') : t.fn = "scan" /\ t.cell = roots[k] /\ t.slot = 0
      BY <1>5, <1>7
    <3>2. Target(t)' = roots[k]
      BY <3>1 DEF Target
    <3> QED
      BY <3>1, <3>2 DEF TargetsOf
  <2>3. RootsAt(Kept) \subseteq TargetsOf({"scan", "incr_and_scan_black"})'
    BY <1>11, <2>2 DEF RootsAt
  <2> QED
    BY <2>1, <2>3, FoundWider
<1>15. \A C : Colored(C)' = Colored(C)
  BY <1>2 DEF Colored
<1>16. Colored({"white"}) = {} /\ Colored({"gray", "white"}) = Colored({"gray"})
  <2>1. \A x \in Cell : color[x] # "white"
    BY <1>3 DEF Good, ColorInv
  <2> QED
    BY <2>1 DEF Colored
<1>17. FoundFrom(field, Colored({"gray"}),
                 InBuffer \cup TargetsOf({"incr_and_scan_black"})')
  <2>1. FoundFrom(field, Colored({"gray"}), RootsAt(Kept))
    BY <1>3 DEF Good, FoundInv
  <2>2. RootsAt(Kept) = InBuffer
    BY <1>11 DEF RootsAt, InBuffer
  <2> QED
    BY <2>1, <2>2, FoundWider
<1>18. ~ Tracing' => Colored({"gray"}) = {}
  <2> SUFFICES ASSUME ~ Tracing' PROVE Colored({"gray"}) = {}
    OBVIOUS
  <2>1. ~ Calling("scan")' /\ ~ Calling("incr_and_scan_black")'
    BY DEF Tracing
  <2>2. TargetsOf({"scan", "incr_and_scan_black"})' = {}
    BY <2>1 DEF TargetsOf, Calling
  <2> QED
    BY <1>14, <2>2, FoundGone
<1>19. FoundInv'
  <2>1. FoundFrom(field', Colored({"gray"})', TargetsOf({"scan", "incr_and_scan_black"})')
    BY <1>2, <1>14, <1>15
  <2>2. FoundFrom(field', Colored({"gray", "white"})',
                  InBuffer' \cup TargetsOf({"incr_and_scan_black"})')
    BY <1>2, <1>12, <1>15, <1>16, <1>17
  <2>3. FoundFrom(field', Colored({"white"})',
                  RootsAt(StillBuffered)' \cup TargetsOf({"collect_white"})')
    BY <1>15, <1>16, FoundNone
  <2> QED
    BY <1>9, <2>1, <2>2, <2>3 DEF FoundInv
<1>20. ColorInv'
  <2>1. \A x \in Cell : color[x] = "gray" => Tracing'
    BY <1>18 DEF Colored
  <2>2. \A x : Pend("release_cell", x, 0)' <=> Pend("release_cell", x, 0)
    BY <1>8, CellTaskFields DEF Pend
  <2>3. \A x \in Cell : color[x] # "purple"
    BY <1>1, <1>3 DEF Good, ColorInv, Marking, Calling
  <2> QED
    BY <1>2, <1>9, <2>1, <2>2, <2>3 DEF Good, ColorInv
<1>21. VisitedInv'
  <2>1. \A x, y : ~ Pend("decr_and_mark_gray", x, y)
    BY <1>3, CellTaskFields DEF Pend, Calling
  <2> QED
    BY <1>2, <1>3, <2>1 DEF Good, VisitedInv, Visited
<1>22. TaskInv'
  <2> SUFFICES ASSUME NEW t \in Pending(stack') PROVE TaskGood(t)'
    BY DEF TaskInv
  <2>1. CASE t \in P
    <3>1. PICK k \in DOMAIN roots :
            t.fn = "scan" /\ t.cell = roots[k] /\ t.slot = 0
      BY <1>6, <2>1
    <3>2. roots[k] \in alloc /\ color[roots[k]] = "gray"
      BY <1>10, <1>11
    <3>3. Target(t)' = roots[k]
      BY <3>1 DEF Target
    <3>4. Visited(Target(t))'
      BY <1>2, <3>2, <3>3 DEF Visited
    <3> QED
      BY <1>2, <3>1, <3>2, <3>4 DEF TaskGood
  <2>2. CASE t \in Pending(Rest)
    <3>1. TaskGood(t) /\ t.fn # "store"
      BY <1>1, <2>2 DEF Good, TaskInv
    <3>2. t.fn \in {"decrement", "release_cell", "collect_roots", "free_roots"}
      BY <1>1, <2>2, <3>1 DEF Below, MutatorFn
    <3> QED
      BY <1>1, <1>2, <1>3, <1>9, <1>12, <3>1, <3>2 DEF TaskGood
  <2> QED
    BY <1>4, <2>1, <2>2
<1>23. CountInv'
  <2>1. SameAccounting
    <3>1. \A fn, x, y : fn \notin {"scan", "scan_roots"} => (Pend(fn, x, y)' <=> Pend(fn, x, y))
      BY <1>8, CellTaskFields DEF Pend
    <3>2. \A x, y : Storing(x, y)' <=> Storing(x, y)
      BY <1>8 DEF Storing
    <3> QED
      BY <3>1, <3>2 DEF SameAccounting
  <2> QED
    BY <1>2, <2>1, QuietCount DEF Good, Settled
<1>24. StackInv'
  <2>1. Needed'
    <3>1. ~ Calling("decr_and_mark_gray")'
      BY <1>3, <1>8 DEF Calling
    <3> QED
      BY <1>9, <3>1 DEF Needed, InPass
  <2> QED
    BY <1>4, <1>12, <2>1 DEF StackInv, GoodStack
<1>25. FreshInv'
  BY <1>2 DEF Good, FreshInv
<1> QED
  BY <1>1, <1>2, <1>13, <1>19, <1>20, <1>21, <1>22, <1>23, <1>24, <1>25 DEF Good

(***************************************************************************)
(* mark_roots.                                                             *)
(***************************************************************************)

(* mark_roots at the index i, with j - 1 cells kept.                       *)
LEMMA MarkRootsFacts ==
  ASSUME ControlInv, Good, Calls("mark_roots"), NEW i, NEW j, i = Top.i, j = Top.j
  PROVE  /\ fault = "none" /\ stack # <<>> /\ Top.fn = "mark_roots"
         /\ i \in Nat \ {0} /\ j \in Nat \ {0} /\ j <= i /\ i <= Len(roots) + 1
         /\ Pending(stack) = {Top} \cup Pending(Rest)
         /\ GoodStack(Rest, InBuffer)
         /\ \A u \in Pending(Rest) :
              u \in TaskSet /\ u.fn \in {"decrement", "release_cell", "scan_roots",
                                         "collect_roots", "free_roots"}
         /\ InPass /\ Tracing
         /\ Calling("mark_roots") /\ Calling("scan_roots") /\ Calling("collect_roots")
         /\ \A t \in Pending(stack) : t.fn = "mark_roots" => t.i = i /\ t.j = j
         /\ InUse = {k \in DOMAIN roots : k < j \/ i <= k} /\ StillBuffered = InUse
         /\ Kept = {k \in DOMAIN roots : k < j}
         /\ \A x \in Cell : color[x] # "white"
         /\ \A x \in Cell, y \in 0 .. Width :
              ~ Pend("decr_and_mark_gray", x, y) /\ ~ Pend("incr_and_scan_black", x, y)
         /\ \A t \in Pending(Rest) : t.fn = "collect_roots" => t.i = 1
<1>1. /\ fault = "none" /\ stack # <<>> /\ Top.fn = "mark_roots"
      /\ i \in Nat \ {0} /\ j \in Nat \ {0}
      /\ Top \in Pending(stack) /\ Pending(stack) = {Top} \cup Pending(Rest)
      /\ GoodStack(Rest, InBuffer)
      /\ \A u \in Pending(Rest) : u \in TaskSet /\ u.fn \in Below("mark_roots")
      /\ InPass
      /\ \A t \in Pending(stack) : t.fn # "store"
      /\ DOMAIN roots = 1 .. Len(roots) /\ \A k \in DOMAIN roots : k \in Nat
      /\ \A t \in Pending(stack) : t.fn = "mark_roots" => t = Top
  BY LoopFacts DEF LoopFn
<1>2. j <= i /\ i <= Len(roots) + 1
  BY LoopTop DEF LoopFn
<1>3. /\ Calling("mark_roots") /\ Calling("scan_roots") /\ Calling("collect_roots")
      /\ Tracing
  BY <1>1, PassFacts DEF Good, CollectorFn, LoopFn
<1>4. \A u \in Pending(Rest) :
        u \in TaskSet /\ u.fn \in {"decrement", "release_cell", "scan_roots",
                                   "collect_roots", "free_roots"}
  BY <1>1 DEF Below, MutatorFn
<1>5. InUse = {k \in DOMAIN roots : k < j \/ i <= k}
  BY <1>1 DEF InUse
<1>6. Kept = {k \in DOMAIN roots : k < j}
  BY <1>1, <1>5 DEF Kept
<1>7. \A t \in Pending(stack) : t.fn = "collect_roots" => t.i = 1
  BY <1>3 DEF Good, TaskInv, TaskGood
<1>8. StillBuffered = InUse
  BY <1>1, <1>3, <1>5, <1>7 DEF StillBuffered
<1>9. \A x \in Cell : color[x] # "white"
  BY <1>3 DEF Good, ColorInv
<1>10. \A x \in Cell, y \in 0 .. Width :
         ~ Pend("decr_and_mark_gray", x, y) /\ ~ Pend("incr_and_scan_black", x, y)
  BY <1>1, <1>4, CellTaskFields DEF Pend
<1> QED
  BY <1>1, <1>2, <1>3, <1>4, <1>5, <1>6, <1>7, <1>8, <1>9, <1>10

(* mark_roots is done: what it kept is the whole buffer now.               *)
LEMMA MarkRootsDoneStep ==
  ASSUME ControlInv, Good, MarkRootsDone
  PROVE  Good'
<1> SUFFICES ASSUME NEW i, NEW j, i = Top.i, j = Top.j
             PROVE  Good'
  OBVIOUS
<1>1. /\ fault = "none" /\ stack # <<>> /\ Top.fn = "mark_roots"
      /\ i \in Nat \ {0} /\ j \in Nat \ {0} /\ j <= i /\ i <= Len(roots) + 1
      /\ Pending(stack) = {Top} \cup Pending(Rest)
      /\ GoodStack(Rest, InBuffer)
      /\ \A u \in Pending(Rest) :
           u \in TaskSet /\ u.fn \in {"decrement", "release_cell", "scan_roots",
                                      "collect_roots", "free_roots"}
      /\ InPass /\ Tracing
      /\ Calling("mark_roots") /\ Calling("scan_roots") /\ Calling("collect_roots")
      /\ InUse = {k \in DOMAIN roots : k < j \/ i <= k} /\ StillBuffered = InUse
      /\ Kept = {k \in DOMAIN roots : k < j}
      /\ \A x \in Cell : color[x] # "white"
      /\ \A t \in Pending(Rest) : t.fn = "collect_roots" => t.i = 1
  BY MarkRootsFacts DEF MarkRootsDone, LoopDone
<1>2. /\ i > Len(roots)
      /\ roots' = SubSeq(roots, 1, j - 1) /\ stack' = Rest
      /\ UNCHANGED <<alloc, rc, color, buffered, field, handle, fault, exposed>>
  BY DEF MarkRootsDone, LoopDone
<1>3. /\ roots \in Seq(Cell) /\ Len(roots) \in Nat /\ DOMAIN roots = 1 .. Len(roots)
      /\ i = Len(roots) + 1
  BY <1>1, <1>2, LenProperties DEF ControlInv, TypeOK
<1>4. InUse = 1 .. j - 1 /\ Kept = 1 .. j - 1
  BY <1>1, <1>3
<1>5. DOMAIN roots' = 1 .. j - 1 /\ \A k \in 1 .. j - 1 : roots'[k] = roots[k]
  BY <1>1, <1>2, <1>3, SubSeqProperties
<1>6. /\ ~ Calling("mark_roots")'
      /\ Calling("scan_roots")' /\ Calling("collect_roots")' /\ InPass' /\ Tracing'
  BY <1>1, <1>2 DEF Calling, InPass, Tracing
<1>7. InUse' = 1 .. j - 1 /\ Kept' = 1 .. j - 1 /\ StillBuffered' = 1 .. j - 1
  <2>1. InUse' = 1 .. j - 1
    BY <1>5, <1>6 DEF InUse, Calling
  <2>2. \A k \in 1 .. j - 1 : 1 <= k
    OBVIOUS
  <2> QED
    BY <1>1, <1>2, <1>6, <2>1, <2>2 DEF Kept, StillBuffered, Calling
<1>8. InBuffer' \subseteq InBuffer
  BY <1>1, <1>4, <1>5 DEF InBuffer
<1>9. \A x \in Cell : color[x] # "purple"
  <2> SUFFICES ASSUME NEW x \in Cell, color[x] = "purple" PROVE FALSE
    OBVIOUS
  <2>1. buffered[x]
    BY DEF Good, ColorInv
  <2>2. PICK k \in StillBuffered : roots[k] = x
    BY <2>1 DEF Good, BufferInv
  <2> QED
    BY <1>1, <1>4, <2>2 DEF Good, BufferInv
<1>10. BufferInv'
  <2>1. \A k, m \in 1 .. j - 1 : roots'[k] = roots'[m] => k = m
    BY <1>4, <1>5 DEF Good, BufferInv
  <2>2. \A x \in Cell : buffered[x] <=> \E k \in 1 .. j - 1 : roots'[k] = x
    BY <1>1, <1>4, <1>5 DEF Good, BufferInv
  <2>3. \A k \in 1 .. j - 1 : color[roots'[k]] = "gray"
    BY <1>1, <1>4, <1>5 DEF Good, BufferInv
  <2> QED
    BY <1>2, <1>6, <1>7, <2>1, <2>2, <2>3 DEF BufferInv
<1>11. FoundInv'
  <2>1. RootsAt(Kept)' = RootsAt(Kept)
    BY <1>4, <1>5, <1>7 DEF RootsAt
  <2>2. Colored({"gray"})' = Colored({"gray"})
    BY <1>2 DEF Colored
  <2>3. FoundFrom(field, Colored({"gray"}), RootsAt(Kept))
    BY <1>1 DEF Good, FoundInv
  <2> QED
    BY <1>2, <1>6, <2>1, <2>2, <2>3 DEF FoundInv
<1>12. \A fn, x, y : fn # "mark_roots" => (Pend(fn, x, y)' <=> Pend(fn, x, y))
  BY <1>1, <1>2, CellTaskFields DEF Pend
<1>13. CountInv'
  <2>1. \A x, y : Storing(x, y)' <=> Storing(x, y)
    BY <1>1, <1>2 DEF Storing
  <2>2. SameAccounting
    BY <1>12, <2>1 DEF SameAccounting
  <2> QED
    BY <1>2, <2>2, QuietCount DEF Good, Settled
<1>14. FreshInv'
  BY <1>2 DEF Good, FreshInv
<1>15. ColorInv'
  BY <1>1, <1>2, <1>6, <1>9 DEF ColorInv
<1>16. VisitedInv'
  BY <1>1, <1>2, <1>12 DEF Good, VisitedInv, Visited
<1>17. TaskInv'
  <2> SUFFICES ASSUME NEW t \in Pending(Rest) PROVE TaskGood(t)'
    BY <1>2 DEF TaskInv
  <2>1. TaskGood(t)
    BY <1>1 DEF Good, TaskInv
  <2>2. t.fn \in {"decrement", "release_cell", "scan_roots", "collect_roots", "free_roots"}
    BY <1>1
  <2> QED
    BY <1>1, <1>2, <1>8, <2>1, <2>2 DEF TaskGood
<1>18. StackInv'
  <2>1. GoodStack(Rest, InBuffer')
    BY <1>1, OtherBuffer
  <2>2. Needed'
    <3>1. ~ Calling("decr_and_mark_gray")'
      BY <1>1, <1>2 DEF Calling
    <3> QED
      BY <1>6, <3>1 DEF Needed, InPass
  <2> QED
    BY <1>2, <2>1, <2>2 DEF StackInv, GoodStack
<1> QED
  BY <1>1, <1>2, <1>10, <1>11, <1>13, <1>14, <1>15, <1>16, <1>17, <1>18 DEF Good

(* mark_roots drops a cell from the buffer: it is not a possible root any  *)
(* more, and if all its references are gone, neither is it in use.         *)
LEMMA MarkRootsDiscardStep ==
  ASSUME ControlInv, Good, MarkRootsDiscard
  PROVE  Good'
<1> SUFFICES ASSUME NEW i, NEW j, NEW c, i = Top.i, j = Top.j, c = roots[i]
             PROVE  Good'
  OBVIOUS
<1> DEFINE u == LoopTask("mark_roots", i + 1, j)
<1>0. Calls("mark_roots") /\ i <= Len(roots)
  BY DEF MarkRootsDiscard, InLoop
<1>1. /\ fault = "none" /\ stack # <<>> /\ Top.fn = "mark_roots"
      /\ i \in Nat \ {0} /\ j \in Nat \ {0} /\ j <= i /\ i <= Len(roots)
      /\ Pending(stack) = {Top} \cup Pending(Rest)
      /\ GoodStack(Rest, InBuffer)
      /\ \A v \in Pending(Rest) :
           v \in TaskSet /\ v.fn \in {"decrement", "release_cell", "scan_roots",
                                      "collect_roots", "free_roots"}
      /\ InPass /\ Tracing
      /\ Calling("mark_roots") /\ Calling("scan_roots") /\ Calling("collect_roots")
      /\ InUse = {k \in DOMAIN roots : k < j \/ i <= k} /\ StillBuffered = InUse
      /\ Kept = {k \in DOMAIN roots : k < j}
      /\ \A x \in Cell, y \in 0 .. Width :
           ~ Pend("decr_and_mark_gray", x, y) /\ ~ Pend("incr_and_scan_black", x, y)
      /\ \A t \in Pending(Rest) : t.fn = "collect_roots" => t.i = 1
  BY <1>0, MarkRootsFacts
<1>2. /\ i \in DOMAIN roots /\ c \in alloc /\ c \in Cell
      /\ \A k \in DOMAIN roots : roots[k] \in Cell /\ k \in Nat
      /\ \A t \in Pending(stack) : t.fn = "mark_roots" => t = Top
  BY <1>0, LoopFacts DEF LoopFn
<1>3. /\ color[c] # "purple"
      /\ \/ color[c] = "black" /\ rc[c] = 0 /\ Freed(c)
         \/ /\ buffered' = [buffered EXCEPT ![c] = FALSE]
            /\ UNCHANGED <<alloc, rc, color, field>>
      /\ stack' = <<u>> \o Rest
      /\ UNCHANGED <<roots, handle, fault, exposed>>
  BY DEF MarkRootsDiscard, AfterDiscard, WasReleased
<1>4. u \in TaskSet /\ u.fn = "mark_roots" /\ u.i = i + 1 /\ u.j = j
  BY <1>1, LoopTaskType DEF LoopFn, LoopTask
<1> HIDE DEF u
<1>5. GoodStack(stack', InBuffer) /\ Pending(stack') = {u} \cup Pending(Rest)
  <2>1. \A v \in Pending(Rest) : v.fn \in Below(u.fn)
    BY <1>1, <1>4 DEF Below, MutatorFn
  <2>2. u \notin Pending(Rest)
    BY <1>1, <1>4
  <2>3. ~ NeedsAttendant(u, InBuffer)
    BY <1>4 DEF NeedsAttendant
  <2> QED
    BY <1>1, <1>3, <1>4, <2>1, <2>2, <2>3, PushOne
<1>6. /\ \A t : t.fn # "mark_roots" => (t \in Pending(stack') <=> t \in Pending(stack))
      /\ \A t \in Pending(stack') : t.fn = "mark_roots" => t = u
      /\ u \in Pending(stack')
  BY <1>1, <1>4, <1>5
<1>7. \A fn : Calling(fn)' <=> Calling(fn)
  BY <1>1, <1>4, <1>5 DEF Calling
<1>8. \A fn, x, y : fn # "mark_roots" => (Pend(fn, x, y)' <=> Pend(fn, x, y))
  BY <1>6, CellTaskFields DEF Pend
<1>9. InPass' /\ Tracing' /\ (Marking' <=> Marking)
  BY <1>1, <1>7 DEF InPass, Tracing, Marking
<1>10. InUse' = InUse \ {i} /\ StillBuffered' = InUse \ {i} /\ Kept' = Kept /\ InBuffer' = InBuffer
  <2>1. InUse' = {k \in DOMAIN roots : k < j \/ i + 1 <= k}
    BY <1>3, <1>4, <1>6 DEF InUse
  <2>2. InUse' = InUse \ {i}
    BY <1>1, <1>2, <2>1
  <2>3. Kept' = Kept
    BY <1>1, <1>2, <1>4, <1>6, <2>2 DEF Kept
  <2>4. \A t \in Pending(stack') : t.fn = "collect_roots" => t.i = 1
    BY <1>1, <1>4, <1>5
  <2>5. \A k \in InUse' : 1 <= k
    <3>1. DOMAIN roots = 1 .. Len(roots)
      BY LenProperties DEF ControlInv, TypeOK
    <3> QED
      BY <1>1, <2>2, <3>1
  <2>6. StillBuffered' = InUse'
    BY <1>1, <1>7, <2>4, <2>5 DEF StillBuffered
  <2> QED
    BY <1>3, <2>2, <2>3, <2>6 DEF InBuffer
<1>11. i \in InUse /\ c \in InBuffer /\ \A k \in InUse : roots[k] = c => k = i
  BY <1>1, <1>2 DEF InBuffer, Good, BufferInv
<1>12. \A x \in Cell : /\ rc'[x] = rc[x] /\ color'[x] = color[x]
                       /\ buffered'[x] = IF x = c THEN FALSE ELSE buffered[x]
                       /\ \/ field'[x] = field[x] /\ (x \in alloc' <=> x \in alloc)
                          \/ /\ x = c /\ color[x] = "black" /\ rc[x] = 0
                             /\ field'[x] = NoSlots /\ x \notin alloc'
  <2>1. CASE color[c] = "black" /\ rc[c] = 0 /\ Freed(c)
    <3>1. /\ alloc' = alloc \ {c}
          /\ \A x \in Cell : /\ rc'[x] = IF x = c THEN 0 ELSE rc[x]
                             /\ color'[x] = IF x = c THEN "black" ELSE color[x]
                             /\ buffered'[x] = IF x = c THEN FALSE ELSE buffered[x]
                             /\ field'[x] = IF x = c THEN NoSlots ELSE field[x]
      BY <1>2, <2>1, FreedFacts
    <3> QED
      BY <2>1, <3>1
  <2>2. CASE /\ buffered' = [buffered EXCEPT ![c] = FALSE]
             /\ UNCHANGED <<alloc, rc, color, field>>
    BY <2>2 DEF ControlInv, TypeOK
  <2> QED
    BY <1>3, <2>1, <2>2
<1>13. CountInv'
  <2>1. SameAccounting
    <3>1. \A x, y : Storing(x, y)' <=> Storing(x, y)
      BY <1>6 DEF Storing
    <3> QED
      BY <1>8, <3>1 DEF SameAccounting
  <2>2. CASE color[c] = "black" /\ rc[c] = 0 /\ Freed(c)
    <3>1. ~ \E t \in Pending(Rest) : t.fn = "release_cell" /\ t.cell = c
      BY <1>1, <1>11 DEF Good, TaskInv, TaskGood
    <3>2. \A y \in 0 .. Width : ~ Pend("decrement", c, y)
      BY <1>1, <1>2, <2>2, <3>1, NoDecrementOf DEF Good
    <3>3. CountInv /\ handle' = handle /\ rc[c] = 0
      BY <1>3, <2>2 DEF Good
    <3>4. \A y \in 0 .. Width : /\ ~ Pend("decrement", c, y)
                                /\ ~ Pend("decr_and_mark_gray", c, y)
      BY <1>1, <1>2, <3>2
    <3> QED
      BY <1>2, <2>1, <2>2, <3>3, <3>4, FreedCount
  <2>3. CASE /\ buffered' = [buffered EXCEPT ![c] = FALSE]
             /\ UNCHANGED <<alloc, rc, color, field>>
    BY <1>3, <2>1, <2>3, QuietCount DEF Good, Settled
  <2> QED
    BY <1>3, <2>2, <2>3
<1>14. FreshInv'
  <2> SUFFICES ASSUME NEW x \in Cell, x \notin alloc'
               PROVE  rc'[x] = 0 /\ color'[x] = "black" /\ ~ buffered'[x] /\ field'[x] = NoSlots
    BY DEF FreshInv
  <2>1. CASE field'[x] = field[x] /\ x \notin alloc
    BY <1>12, <2>1 DEF Good, FreshInv
  <2>2. CASE x = c /\ color[x] = "black" /\ rc[x] = 0 /\ field'[x] = NoSlots
    BY <1>12, <2>2
  <2> QED
    BY <1>12, <2>1, <2>2
<1>15. ColorInv'
  <2> SUFFICES ASSUME NEW x \in Cell
               PROVE  /\ color'[x] = "purple" =>
                           /\ buffered'[x] /\ (InPass' => Marking')
                           /\ rc'[x] > 0 \/ Pend("release_cell", x, 0)'
                      /\ color'[x] = "gray" => Tracing'
                      /\ color'[x] # "white"
    BY DEF ColorInv
  <2>1. color'[x] # "white"
    <3>1. color[x] # "white"
      BY <1>1 DEF Good, ColorInv
    <3> QED
      BY <1>12, <3>1
  <2>2. Pend("release_cell", x, 0)' <=> Pend("release_cell", x, 0)
    BY <1>8
  <2> QED
    <3>1. /\ color[x] = "purple" =>
               /\ buffered[x] /\ (InPass => Marking)
               /\ rc[x] > 0 \/ Pend("release_cell", x, 0)
          /\ rc'[x] = rc[x] /\ color'[x] = color[x]
          /\ color[x] = "purple" => x # c
      BY <1>3, <1>12 DEF Good, ColorInv
    <3>2. x # c => buffered'[x] = buffered[x]
      BY <1>12
    <3>3. ASSUME color'[x] = "purple"
          PROVE  /\ buffered'[x] /\ (InPass' => Marking')
                 /\ rc'[x] > 0 \/ Pend("release_cell", x, 0)'
      <4>1. buffered'[x]
        BY <3>1, <3>2, <3>3
      <4>2. InPass' => Marking'
        BY <1>1, <1>9, <3>1, <3>3
      <4>3. rc'[x] > 0 \/ Pend("release_cell", x, 0)
        BY <3>1, <3>3
      <4> QED
        BY <2>2, <4>1, <4>2, <4>3
    <3> QED
      BY <1>9, <2>1, <3>3
<1>16. VisitedInv'
  <2> SUFFICES ASSUME NEW x \in Cell, NEW y \in Slot, NEW z, z = field'[x][y],
                      color'[x] \in {"gray", "white"}, z # NoCell
               PROVE  Visited(z)'
    BY DEF VisitedInv
  <2>1. color[x] \in {"gray", "white"} /\ field'[x] = field[x]
    BY <1>12
  <2>2. ~ Pend("decr_and_mark_gray", x, y)
    BY <1>1 DEF Slot
  <2>3. field[x][y] = z /\ z \in Cell
    BY <2>1 DEF ControlInv, TypeOK, Ref
  <2>4. Visited(z)
    BY <1>1, <2>1, <2>2, <2>3 DEF Good, VisitedInv
  <2> QED
    <3>1. rc'[z] = rc[z] /\ color'[z] = color[z]
      BY <1>12, <2>3
    <3>2. z \in alloc /\ ~ (color[z] = "black" /\ rc[z] = 0)
      BY <2>4 DEF Visited
    <3>3. z \in alloc'
      BY <1>12, <2>3, <3>2
    <3> QED
      BY <2>4, <3>1, <3>3 DEF Visited
<1>17. TaskInv'
  <2> SUFFICES ASSUME NEW t \in Pending(stack') PROVE TaskGood(t)'
    BY DEF TaskInv
  <2>1. CASE t = u
    BY <1>4, <2>1 DEF TaskGood
  <2>2. CASE t \in Pending(Rest)
    <3>1. TaskGood(t)
      BY <1>1, <2>2 DEF Good, TaskInv
    <3>2. t.fn \in {"decrement", "release_cell", "scan_roots", "collect_roots", "free_roots"}
      BY <1>1, <2>2
    <3>3. ASSUME t.fn = "release_cell" PROVE TaskGood(t)'
      <4>1. t.cell \in Cell
        BY <1>1, <2>2, <3>3, TaskTypes DEF LoopFn
      <4> QED
        BY <1>1, <1>9, <1>10, <1>11, <1>12, <3>1, <3>3, <4>1 DEF TaskGood
    <3>4. t.fn # "release_cell" => TaskGood(t)'
      BY <1>1, <1>7, <1>9, <2>2, <3>1, <3>2 DEF TaskGood
    <3> QED
      BY <3>3, <3>4
  <2> QED
    BY <1>5, <2>1, <2>2
<1>18. BufferInv'
  <2>1. \A k, m \in InUse \ {i} : roots[k] = roots[m] => k = m
    BY DEF Good, BufferInv
  <2>2. \A x \in Cell : buffered'[x] <=> \E k \in InUse \ {i} : roots[k] = x
    <3> TAKE x \in Cell
    <3>1. buffered[x] <=> \E k \in InUse : roots[k] = x
      BY <1>1 DEF Good, BufferInv
    <3>2. buffered[x] \in BOOLEAN /\ buffered'[x] = IF x = c THEN FALSE ELSE buffered[x]
      BY <1>12 DEF ControlInv, TypeOK
    <3>3. CASE x = c
      BY <1>11, <3>2, <3>3
    <3>4. CASE x # c
      BY <1>2, <3>1, <3>2, <3>4
    <3> QED
      BY <3>3, <3>4
  <2>3. \A k \in Kept : color'[roots[k]] = "gray"
    <3> SUFFICES ASSUME NEW k \in Kept PROVE color'[roots[k]] = "gray"
      OBVIOUS
    <3>1. color[roots[k]] = "gray"
      BY <1>1 DEF Good, BufferInv
    <3>2. k \in DOMAIN roots
      BY <1>1
    <3>3. roots[k] \in Cell
      BY <3>2, ElementOfSeq, LenProperties DEF ControlInv, TypeOK
    <3> QED
      BY <1>12, <3>1, <3>3
  <2> QED
    BY <1>3, <1>9, <1>10, <2>1, <2>2, <2>3 DEF BufferInv
<1>19. FoundInv'
  <2>1. RootsAt(Kept)' = RootsAt(Kept)
    BY <1>3, <1>10 DEF RootsAt
  <2>2. Colored({"gray"})' = Colored({"gray"})
    BY <1>12 DEF Colored
  <2>3. FoundFrom(field, Colored({"gray"}), RootsAt(Kept))
    BY <1>1 DEF Good, FoundInv
  <2>4. \A x \in Colored({"gray"}), y \in Slot : field'[x][y] = field[x][y]
    BY <1>12 DEF Colored
  <2>5. FoundFrom(field', Colored({"gray"}), RootsAt(Kept))
    BY <2>3, <2>4, FoundHeap
  <2> QED
    BY <1>1, <1>7, <1>9, <2>1, <2>2, <2>5 DEF FoundInv
<1>20. StackInv'
  BY <1>5, <1>7, <1>10 DEF Good, StackInv, GoodStack, Needed
<1> QED
  BY <1>1, <1>3, <1>13, <1>14, <1>15, <1>16, <1>17, <1>18, <1>19, <1>20 DEF Good

(* What mark_roots leaves pending when it keeps a cell.                    *)
LEMMA PushMarks ==
  ASSUME NEW c \in Cell, NEW u \in TaskSet, u.fn = "mark_roots",
         NEW R, NEW r, GoodStack(r, R),
         \A v \in Pending(r) : v.fn \in Below("mark_roots")
  PROVE  /\ GoodStack(AllChildren("decr_and_mark_gray", c) \o <<u>> \o r, R)
         /\ Pending(AllChildren("decr_and_mark_gray", c) \o <<u>> \o r)
              = Tasks("decr_and_mark_gray", c) \cup {u} \cup Pending(r)
<1> DEFINE f == "decr_and_mark_gray"
<1>1. u.fn # f /\ u.fn \in Below(f) /\ f \in Below(f) /\ f \in {"decrement"} \cup VisitFn
  BY DEF Below, MutatorFn, VisitFn
<1>2. \A v \in Pending(r) : v.fn \in Below(f) /\ v.fn \in Below(u.fn)
  BY DEF Below, MutatorFn
<1>3. u \notin Pending(r)
  BY DEF Below, MutatorFn
<1>4. Tasks(f, c) \cap Pending(r) = {}
  BY CellTaskFields DEF Tasks, Below, MutatorFn
<1>5. \A s \in Slot : ~ NeedsAttendant(CellTask(f, c, s), R)
  BY CellTaskFields DEF NeedsAttendant
<1>6. ~ NeedsAttendant(u, R)
  BY DEF NeedsAttendant
<1> HIDE DEF f
<1>7. /\ GoodStack(AllChildren(f, c) \o <<u>> \o r, R)
      /\ Pending(AllChildren(f, c) \o <<u>> \o r) = Tasks(f, c) \cup {u} \cup Pending(r)
  BY <1>1, <1>2, <1>3, <1>4, <1>5, <1>6, PushChildrenThen
<1> QED
  BY <1>7 DEF f

(* mark_roots keeps a possible root and marks what can be reached from it. *)
LEMMA MarkRootsKeepStep ==
  ASSUME ControlInv, Good, MarkRootsKeep
  PROVE  Good'
<1> SUFFICES ASSUME NEW i, NEW j, NEW c, i = Top.i, j = Top.j, c = roots[i]
             PROVE  Good'
  OBVIOUS
<1> DEFINE u == LoopTask("mark_roots", i + 1, j + 1)
           f == "decr_and_mark_gray"
<1>0. Calls("mark_roots") /\ i <= Len(roots)
  BY DEF MarkRootsKeep, InLoop
<1>1. /\ fault = "none" /\ stack # <<>> /\ Top.fn = "mark_roots"
      /\ i \in Nat \ {0} /\ j \in Nat \ {0} /\ j <= i /\ i <= Len(roots)
      /\ Pending(stack) = {Top} \cup Pending(Rest)
      /\ GoodStack(Rest, InBuffer)
      /\ \A v \in Pending(Rest) :
           v \in TaskSet /\ v.fn \in {"decrement", "release_cell", "scan_roots",
                                      "collect_roots", "free_roots"}
      /\ InPass /\ Tracing
      /\ Calling("mark_roots") /\ Calling("scan_roots") /\ Calling("collect_roots")
      /\ InUse = {k \in DOMAIN roots : k < j \/ i <= k} /\ StillBuffered = InUse
      /\ Kept = {k \in DOMAIN roots : k < j}
      /\ \A x \in Cell : color[x] # "white"
      /\ \A x \in Cell, y \in 0 .. Width :
           ~ Pend(f, x, y) /\ ~ Pend("incr_and_scan_black", x, y)
      /\ \A t \in Pending(Rest) : t.fn = "collect_roots" => t.i = 1
  BY <1>0, MarkRootsFacts
<1>2. /\ i \in DOMAIN roots /\ c \in alloc /\ c \in Cell
      /\ DOMAIN roots = 1 .. Len(roots) /\ Len(roots) \in Nat
      /\ \A k \in DOMAIN roots : roots[k] \in Cell /\ k \in Nat
      /\ \A t \in Pending(stack) : t.fn = "mark_roots" => t = Top
  BY <1>0, LoopFacts DEF LoopFn
<1>3. /\ color[c] = "purple"
      /\ color' = [color EXCEPT ![c] = "gray"]
      /\ roots' = [roots EXCEPT ![j] = c]
      /\ stack' = AllChildren(f, c) \o <<u>> \o Rest
      /\ UNCHANGED <<alloc, rc, buffered, field, handle, fault, exposed>>
  BY DEF MarkRootsKeep
<1>4. u \in TaskSet /\ u.fn = "mark_roots" /\ u.i = i + 1 /\ u.j = j + 1
  BY <1>1, LoopTaskType DEF LoopFn, LoopTask
<1> HIDE DEF u
<1>5. /\ DOMAIN roots' = DOMAIN roots /\ j \in DOMAIN roots
      /\ roots'[j] = c /\ \A k \in DOMAIN roots : k # j => roots'[k] = roots[k]
      /\ InBuffer' \subseteq InBuffer /\ c \in InBuffer
  <2>1. j \in DOMAIN roots
    BY <1>1, <1>2
  <2>2. /\ DOMAIN roots' = DOMAIN roots
        /\ \A k \in DOMAIN roots : roots'[k] = IF k = j THEN c ELSE roots[k]
    BY <1>3, <2>1
  <2> QED
    BY <1>2, <2>1, <2>2 DEF InBuffer
<1>6. /\ GoodStack(stack', InBuffer')
      /\ Pending(stack') = Tasks(f, c) \cup {u} \cup Pending(Rest)
  <2>1. GoodStack(Rest, InBuffer')
    BY <1>1, <1>5, OtherBuffer
  <2>2. \A v \in Pending(Rest) : v.fn \in Below("mark_roots")
    BY <1>1 DEF Below, MutatorFn
  <2>3. /\ GoodStack(AllChildren(f, c) \o <<u>> \o Rest, InBuffer')
        /\ Pending(AllChildren(f, c) \o <<u>> \o Rest)
             = Tasks(f, c) \cup {u} \cup Pending(Rest)
    <3>1. c \in Cell /\ u \in TaskSet /\ u.fn = "mark_roots"
      BY <1>2, <1>4
    <3> QED
      BY ONLY <3>1, <2>1, <2>2, PushMarks
  <2> QED
    BY <1>3, <2>3
<1>7. /\ \A t \in Tasks(f, c) : t.fn = f /\ t.cell = c /\ t.slot # 0
      /\ \A t \in Pending(stack') : t.fn = "mark_roots" => t = u
      /\ u \in Pending(stack')
      /\ \A t : t.fn \notin {"mark_roots", f} =>
           (t \in Pending(stack') <=> t \in Pending(stack))
  <2>1. \A t \in Tasks(f, c) : t.fn = f /\ t.cell = c /\ t.slot # 0
    BY CellTaskFields DEF Tasks, Slot
  <2> QED
    BY <1>1, <1>4, <1>6, <2>1
<1>8. \A fn : fn # f => (Calling(fn)' <=> Calling(fn))
  BY <1>1, <1>4, <1>6, <1>7 DEF Calling
<1>9. InPass' /\ Tracing' /\ Marking' /\ Marking
  BY <1>1, <1>8 DEF InPass, Tracing, Marking
<1>10. /\ \A fn, x, y : fn \notin {"mark_roots", f} => (Pend(fn, x, y)' <=> Pend(fn, x, y))
       /\ \A x, y : Pend(f, x, y)' <=> x = c /\ y \in Slot
  <2>1. \A x, y : CellTask(f, x, y) \in Tasks(f, c) <=> x = c /\ y \in Slot
    BY SameCellTask DEF Tasks
  <2>2. \A x, y : CellTask(f, x, y) \notin {u} \cup Pending(Rest)
    BY <1>1, <1>4, CellTaskFields
  <2> QED
    BY <1>6, <1>7, <2>1, <2>2, CellTaskFields DEF Pend
<1>11. /\ InUse' = (InUse \ {i}) \cup {j} /\ StillBuffered' = (InUse \ {i}) \cup {j}
       /\ Kept' = Kept \cup {j}
  <2>1. InUse' = {k \in DOMAIN roots : k < j + 1 \/ i + 1 <= k}
    BY <1>4, <1>5, <1>7 DEF InUse
  <2>2. InUse' = (InUse \ {i}) \cup {j}
    BY <1>1, <1>2, <1>5, <2>1
  <2>3. Kept' = {k \in DOMAIN roots : k < j + 1}
    BY <1>1, <1>2, <1>4, <1>7, <2>1 DEF Kept
  <2>4. Kept' = Kept \cup {j}
    BY <1>1, <1>2, <1>5, <2>3
  <2>5. \A t \in Pending(stack') : t.fn = "collect_roots" => t.i = 1
    BY <1>1, <1>4, <1>6, <1>7
  <2>6. \A k \in InUse' : 1 <= k
    BY <1>2, <2>1
  <2>7. StillBuffered' = InUse'
    BY <1>1, <1>8, <2>5, <2>6 DEF StillBuffered
  <2> QED
    BY <2>2, <2>4, <2>7
<1>12. i \in InUse /\ buffered[c] /\ \A k \in InUse : roots[k] = c => k = i
  BY <1>1, <1>2, <1>3 DEF Good, BufferInv, ColorInv
<1>13. Settled(c) /\ ~ Pend("release_cell", c, 0)
  <2>1. ~ Pend("release_cell", c, 0)
    BY <1>1, <1>5, CellTaskFields DEF Good, TaskInv, TaskGood, Pend
  <2> QED
    BY <1>2, <1>3, <2>1 DEF Good, ColorInv, Settled
<1>14. \A x \in Cell : color'[x] = IF x = c THEN "gray" ELSE color[x]
  BY <1>2, <1>3 DEF ControlInv, TypeOK
<1>15. CountInv'
  <2>1. \A x \in Cell : Settled(x)' <=> Settled(x) /\ x # c
    BY <1>3, <1>14 DEF Settled
  <2>2. \A x, y : ~ Storing(x, y)' /\ ~ Storing(x, y)
    <3>1. \A t \in Pending(stack) : t.fn # "store"
      BY <1>1
    <3> QED
      BY <1>7, <3>1 DEF Storing
  <2>3. \A y \in 0 .. Width : y # 0 <=> y \in Slot
    BY HeapGraphAssumption DEF Slot
  <2>4. \A x \in Cell, y \in 0 .. Width : Counts(x, y)' <=> Counts(x, y)
    <3> TAKE x \in Cell, y \in 0 .. Width
    <3>1. Pend("decrement", x, y)' <=> Pend("decrement", x, y)
      BY <1>10
    <3>2. Pend(f, x, y)' <=> x = c /\ y \in Slot
      BY <1>10
    <3>3. ~ Pend("incr_and_scan_black", x, y) /\ ~ Pend("incr_and_scan_black", x, y)'
      BY <1>1, <1>10
    <3>4. ~ Pend(f, x, y)
      BY <1>1
    <3> QED
      BY <1>13, <2>1, <2>2, <2>3, <3>1, <3>2, <3>3, <3>4 DEF Counts
  <2>5. \A x \in Cell, y \in 0 .. Width : EdgeTarget(x, y)' = EdgeTarget(x, y)
    BY <1>3 DEF EdgeTarget
  <2>6. \A x \in Cell, y \in 0 .. Width : Counted(x, y)' <=> Counted(x, y)
    BY <2>4, <2>5 DEF Counted
  <2>7. CountInv /\ rc' = rc /\ handle' = handle
    BY <1>3 DEF Good
  <2> QED
    BY <2>5, <2>6, <2>7, CountKept
<1>16. FreshInv'
  BY <1>2, <1>3, <1>14 DEF Good, FreshInv
<1>17. ColorInv'
  <2> SUFFICES ASSUME NEW x \in Cell
               PROVE  /\ color'[x] = "purple" =>
                           /\ buffered[x] /\ (InPass' => Marking')
                           /\ rc[x] > 0 \/ Pend("release_cell", x, 0)'
                      /\ color'[x] = "gray" => Tracing'
                      /\ color'[x] # "white"
    BY <1>3 DEF ColorInv
  <2>1. color'[x] # "white"
    BY <1>1, <1>14
  <2>2. Pend("release_cell", x, 0)' <=> Pend("release_cell", x, 0)
    BY <1>10
  <2>3. color[x] = "purple" => buffered[x] /\ (rc[x] > 0 \/ Pend("release_cell", x, 0))
    BY DEF Good, ColorInv
  <2>4. color'[x] = "purple" => color[x] = "purple"
    BY <1>14
  <2> QED
    BY <1>9, <2>1, <2>2, <2>3, <2>4
<1>18. VisitedInv'
  <2> SUFFICES ASSUME NEW x \in Cell, NEW y \in Slot, NEW z, z = field[x][y],
                      color'[x] \in {"gray", "white"}, ~ Pend(f, x, y)',
                      z # NoCell
               PROVE  Visited(z)'
    BY <1>3 DEF VisitedInv
  <2>1. x # c /\ color[x] \in {"gray", "white"}
    BY <1>10, <1>14
  <2>2. ~ Pend(f, x, y)
    BY <1>1 DEF Slot
  <2>3. z \in Cell
    BY DEF ControlInv, TypeOK, Ref
  <2>4. Visited(z)
    BY <1>1, <2>1, <2>2, <2>3 DEF Good, VisitedInv
  <2> QED
    BY <1>3, <1>14, <2>3, <2>4 DEF Visited
<1>19. TaskInv'
  <2> SUFFICES ASSUME NEW t \in Pending(stack') PROVE TaskGood(t)'
    BY DEF TaskInv
  <2>1. CASE t = u
    BY <1>4, <2>1 DEF TaskGood
  <2>2. CASE t \in Tasks(f, c)
    <3>1. t.fn = f /\ t.cell = c /\ t.slot # 0 /\ color'[c] = "gray"
      BY <1>2, <1>7, <1>14, <2>2
    <3> QED
      BY <3>1 DEF TaskGood
  <2>3. CASE t \in Pending(Rest)
    <3>1. TaskGood(t)
      BY <1>1, <2>3 DEF Good, TaskInv
    <3>2. t.fn \in {"decrement", "release_cell", "scan_roots", "collect_roots", "free_roots"}
      BY <1>1, <2>3
    <3>3. ASSUME t.fn = "release_cell" PROVE TaskGood(t)'
      <4>1. t.cell \in Cell
        BY <1>1, <2>3, <3>3, TaskTypes DEF LoopFn
      <4>2. t.cell # c /\ t.cell \notin InBuffer'
        BY <1>1, <1>5, <3>1, <3>3 DEF TaskGood
      <4> QED
        BY <1>3, <1>14, <3>1, <3>3, <4>1, <4>2 DEF TaskGood
    <3>4. t.fn # "release_cell" => TaskGood(t)'
      BY <1>1, <1>8, <1>9, <2>3, <3>1, <3>2 DEF TaskGood
    <3> QED
      BY <3>3, <3>4
  <2> QED
    BY <1>6, <2>1, <2>2, <2>3
<1>20. BufferInv'
  <2>1. \A k \in InUse : k \in DOMAIN roots /\ (k = j => k = i)
    BY <1>1
  <2>2. \A k \in InUse \ {i} : roots'[k] = roots[k] /\ roots[k] # c
    BY <1>5, <1>12, <2>1
  <2>3. \A k, m \in (InUse \ {i}) \cup {j} : roots'[k] = roots'[m] => k = m
    <3>1. \A k, m \in InUse : roots[k] = roots[m] => k = m
      BY DEF Good, BufferInv
    <3> QED
      BY <1>5, <2>2, <3>1
  <2>4. \A x \in Cell : buffered[x] <=> \E k \in (InUse \ {i}) \cup {j} : roots'[k] = x
    <3> TAKE x \in Cell
    <3>1. buffered[x] <=> \E k \in InUse : roots[k] = x
      BY <1>1 DEF Good, BufferInv
    <3>2. CASE x = c
      BY <1>5, <1>12, <3>2
    <3>3. CASE x # c
      BY <1>2, <1>5, <2>2, <3>1, <3>3
    <3> QED
      BY <3>2, <3>3
  <2>5. \A k \in Kept \cup {j} : color'[roots'[k]] = "gray"
    <3>1. ASSUME NEW k \in Kept
          PROVE  color'[roots'[k]] = "gray"
      <4>1. k \in DOMAIN roots /\ k # j
        BY <1>1, <1>2
      <4>2. roots'[k] = roots[k] /\ roots[k] \in Cell /\ color[roots[k]] = "gray"
        BY <1>1, <1>2, <1>5, <4>1 DEF Good, BufferInv
      <4> QED
        BY <1>14, <4>2
    <3>2. color'[roots'[j]] = "gray"
      BY <1>2, <1>5, <1>14
    <3> QED
      BY <3>1, <3>2
  <2> QED
    BY <1>3, <1>9, <1>11, <2>3, <2>4, <2>5 DEF BufferInv
<1>21. FoundInv'
  <2>1. RootsAt(Kept)' = RootsAt(Kept) \cup {c}
    <3>1. \A k \in Kept : roots'[k] = roots[k]
      BY <1>1, <1>2, <1>5
    <3> QED
      BY <1>5, <1>11, <3>1 DEF RootsAt
  <2>2. Colored({"gray"})' = Colored({"gray"}) \cup {c}
    BY <1>2, <1>14 DEF Colored
  <2>3. FoundFrom(field, Colored({"gray"}), RootsAt(Kept))
    BY <1>1 DEF Good, FoundInv
  <2>4. FoundFrom(field, Colored({"gray"}) \cup {c}, RootsAt(Kept) \cup {c})
    BY <2>3, FoundMore
  <2> QED
    BY <1>1, <1>3, <1>8, <1>9, <2>1, <2>2, <2>4 DEF FoundInv
<1>22. StackInv'
  <2>1. Needed'
    BY <1>1, <1>8, <1>9 DEF Good, StackInv, Needed, InPass
  <2> QED
    BY <1>6, <2>1 DEF StackInv, GoodStack
<1> QED
  BY <1>1, <1>3, <1>15, <1>16, <1>17, <1>18, <1>19, <1>20, <1>21, <1>22 DEF Good

(***************************************************************************)
(* collect_roots.                                                          *)
(***************************************************************************)

(* What collect_roots and collect_white leave pending when they go on to   *)
(* the children of a white cell.                                           *)
LEMMA PushWhites ==
  ASSUME NEW c \in Cell, NEW u \in TaskSet, NEW R, NEW r, GoodStack(r, R),
         \/ u.fn = "collect_roots" /\ c \in R
         \/ u = CellTask("free_cell", c, 0),
         \A v \in Pending(r) : v.fn \in Below("collect_white") /\ v.fn \in Below(u.fn),
         u \notin Pending(r)
  PROVE  /\ GoodStack(AllChildren("collect_white", c) \o <<u>> \o r, R)
         /\ Pending(AllChildren("collect_white", c) \o <<u>> \o r)
              = Tasks("collect_white", c) \cup {u} \cup Pending(r)
<1> DEFINE f == "collect_white"
<1>1. u.fn = "collect_roots" \/ u.fn = "free_cell"
  BY CellTaskFields
<1>2. u.fn # f /\ u.fn \in Below(f) /\ f \in Below(f) /\ f \in {"decrement"} \cup VisitFn
  BY <1>1 DEF Below, MutatorFn, VisitFn
<1>3. f \in Often
  BY DEF Often
<1>4. \A s \in Slot : NeedsAttendant(CellTask(f, c, s), R) => Attends(u, CellTask(f, c, s))
  BY CellTaskFields DEF NeedsAttendant, Attends
<1>5. ~ NeedsAttendant(u, R)
  BY <1>1 DEF NeedsAttendant
<1> HIDE DEF f
<1>6. \A v \in Pending(r) : v.fn \in Below(f) /\ v.fn \in Below(u.fn)
  BY DEF f
<1>7. /\ GoodStack(AllChildren(f, c) \o <<u>> \o r, R)
      /\ Pending(AllChildren(f, c) \o <<u>> \o r) = Tasks(f, c) \cup {u} \cup Pending(r)
  BY <1>2, <1>3, <1>4, <1>5, <1>6, PushChildrenThen
<1> QED
  BY <1>7 DEF f

(* In the last two passes nothing is marked any more.                      *)
LEMMA CollectingFacts ==
  ASSUME ControlInv, Good, InPass, ~ Tracing
  PROVE  /\ \A x \in Cell : color[x] \in {"black", "white"}
         /\ Colored({"gray"}) = {}
         /\ InUse = DOMAIN roots
<1>1. \A x \in Cell : color[x] \in {"black", "white"}
  <2> TAKE x \in Cell
  <2>1. color[x] \in Color
    BY DEF ControlInv, TypeOK
  <2> QED
    BY <2>1 DEF Good, ColorInv, Color, Tracing, Marking
<1>2. Colored({"gray"}) = {}
  BY <1>1 DEF Colored
<1>3. InUse = DOMAIN roots
  BY DEF InUse, Tracing, Calling
<1> QED
  BY <1>1, <1>2, <1>3

(* collect_roots takes a cell out of the buffer, and collects it if it is  *)
(* still white.                                                            *)
LEMMA CollectRootsStep ==
  ASSUME ControlInv, Good, CollectRoots
  PROVE  Good'
<1> SUFFICES ASSUME NEW i, NEW c, i = Top.i, c = roots[i]
             PROVE  Good'
  OBVIOUS
<1> DEFINE u == LoopTask("collect_roots", i + 1, 1)
           f == "collect_white"
<1>0. Calls("collect_roots") /\ i <= Len(roots)
  BY DEF CollectRoots, InLoop
<1>1. /\ fault = "none" /\ stack # <<>> /\ Top.fn = "collect_roots"
      /\ i \in Nat \ {0}
      /\ Top \in Pending(stack) /\ Pending(stack) = {Top} \cup Pending(Rest)
      /\ GoodStack(Rest, InBuffer)
      /\ \A v \in Pending(Rest) : v \in TaskSet /\ v.fn \in Below("collect_roots")
      /\ InPass
      /\ \A t \in Pending(stack) : t.fn # "store"
      /\ DOMAIN roots = 1 .. Len(roots) /\ Len(roots) \in Nat
      /\ \A k \in DOMAIN roots : roots[k] \in Cell /\ k \in Nat
      /\ i \in DOMAIN roots /\ c \in alloc /\ c \in Cell
      /\ \A t \in Pending(stack) : t.fn = "collect_roots" => t = Top
  BY <1>0, LoopFacts DEF LoopFn
<1>2. /\ ~ Tracing /\ ~ Calling("mark_roots") /\ ~ Calling("decr_and_mark_gray")
      /\ ~ Calling("scan_roots") /\ Calling("collect_roots")
  BY <1>1, PassFacts DEF Good, CollectorFn, LoopFn
<1>3. /\ \A x \in Cell : color[x] \in {"black", "white"}
      /\ Colored({"gray"}) = {}
      /\ InUse = DOMAIN roots
  BY <1>1, <1>2, CollectingFacts
<1>4. \A v \in Pending(Rest) : v.fn \in {"decrement", "release_cell", "free_roots"}
  BY <1>1 DEF Below, MutatorFn
<1>5. /\ buffered' = [buffered EXCEPT ![c] = FALSE]
      /\ IF color[c] = "white"
         THEN /\ color' = [color EXCEPT ![c] = "black"]
              /\ stack' = AllChildren(f, c) \o <<u>> \o Rest
         ELSE stack' = <<u>> \o Rest /\ color' = color
      /\ UNCHANGED <<alloc, rc, field, roots, handle, fault, exposed>>
  BY DEF CollectRoots
<1>6. u \in TaskSet /\ u.fn = "collect_roots" /\ u.i = i + 1
  BY <1>1, LoopTaskType DEF LoopFn, LoopTask
<1> HIDE DEF u
<1>7. i \in StillBuffered /\ StillBuffered = {k \in DOMAIN roots : i <= k}
  BY <1>1, <1>2, <1>3 DEF StillBuffered
<1>8. buffered[c] /\ c \in InBuffer /\ \A k \in DOMAIN roots : roots[k] = c => k = i
  BY <1>1, <1>3, <1>7 DEF Good, BufferInv, InBuffer
<1>9. /\ GoodStack(stack', InBuffer)
      /\ Pending(stack') =
           (IF color[c] = "white" THEN Tasks(f, c) ELSE {}) \cup {u} \cup Pending(Rest)
  <2>1. c \in Cell /\ u \in TaskSet /\ u.fn = "collect_roots" /\ c \in InBuffer
    BY <1>1, <1>6, <1>8
  <2>2. GoodStack(Rest, InBuffer) /\ u \notin Pending(Rest)
    BY <1>1, <1>4, <1>6
  <2>3. \A v \in Pending(Rest) : v.fn \in Below("collect_white") /\ v.fn \in Below(u.fn)
    BY <1>4, <1>6 DEF Below, MutatorFn
  <2>4. ~ NeedsAttendant(u, InBuffer)
    BY <1>6 DEF NeedsAttendant
  <2>5. /\ GoodStack(AllChildren(f, c) \o <<u>> \o Rest, InBuffer)
        /\ Pending(AllChildren(f, c) \o <<u>> \o Rest) = Tasks(f, c) \cup {u} \cup Pending(Rest)
    <3>1. \/ u.fn = "collect_roots" /\ c \in InBuffer
          \/ u = CellTask("free_cell", c, 0)
      BY <2>1
    <3>2. c \in Cell /\ u \in TaskSet
      BY <2>1
    <3> QED
      BY ONLY <2>2, <2>3, <3>1, <3>2, PushWhites
  <2>6. /\ GoodStack(<<u>> \o Rest, InBuffer)
        /\ Pending(<<u>> \o Rest) = {u} \cup Pending(Rest)
    BY ONLY <2>1, <2>2, <2>3, <2>4, PushOne
  <2> QED
    BY <1>5, <2>5, <2>6
<1>10. /\ \A t \in Tasks(f, c) : t.fn = f /\ t.cell = c /\ t.slot # 0
       /\ \A t \in Pending(stack') : t.fn = "collect_roots" => t = u
       /\ u \in Pending(stack')
       /\ \A t : t.fn \notin {"collect_roots", f} =>
            (t \in Pending(stack') <=> t \in Pending(stack))
  <2>1. \A t \in Tasks(f, c) : t.fn = f /\ t.cell = c /\ t.slot # 0
    BY CellTaskFields DEF Tasks, Slot
  <2> QED
    BY <1>1, <1>4, <1>6, <1>9, <2>1
<1>11. \A fn : fn # f => (Calling(fn)' <=> Calling(fn))
  BY <1>1, <1>6, <1>10 DEF Calling
<1>12. /\ InPass' /\ ~ Tracing' /\ Calling("collect_roots")'
       /\ ~ Calling("scan_roots")' /\ ~ Calling("mark_roots")'
  BY <1>1, <1>2, <1>11 DEF InPass, Tracing
<1>13. \A fn, x, y : fn \notin {"collect_roots", f} => (Pend(fn, x, y)' <=> Pend(fn, x, y))
  BY <1>10, CellTaskFields DEF Pend
<1>14. /\ InUse' = DOMAIN roots /\ StillBuffered' = StillBuffered \ {i}
       /\ InBuffer' = InBuffer
  <2>1. InUse' = DOMAIN roots
    BY <1>5, <1>12 DEF InUse, Calling
  <2>2. StillBuffered' = {k \in DOMAIN roots : i + 1 <= k}
    BY <1>6, <1>10, <1>12, <2>1 DEF StillBuffered
  <2>3. StillBuffered' = StillBuffered \ {i}
    BY <1>1, <1>7, <2>2
  <2> QED
    BY <1>5, <2>1, <2>3 DEF InBuffer
<1>15. \A x \in Cell :
         /\ color'[x] = IF x = c THEN "black" ELSE color[x]
         /\ buffered'[x] = IF x = c THEN FALSE ELSE buffered[x]
  <2>1. CASE color[c] = "white"
    BY <1>1, <1>5, <2>1 DEF ControlInv, TypeOK
  <2>2. CASE color[c] # "white"
    BY <1>1, <1>3, <1>5, <2>2 DEF ControlInv, TypeOK
  <2> QED
    BY <2>1, <2>2
<1>16. \A x \in Cell : color[x] = "white" => rc[x] = 0
  BY DEF Good, ColorInv
<1>17. CountInv'
  <2>1. \A x, y : Storing(x, y)' <=> Storing(x, y)
    BY <1>10 DEF Storing
  <2>2. SameAccounting
    BY <1>13, <2>1 DEF SameAccounting
  <2>3. \A x \in Cell : Settled(x)' <=> Settled(x)
    <3> TAKE x \in Cell
    <3>1. rc'[x] = rc[x] /\ (color[x] = "white" => rc[x] = 0)
      BY <1>5, <1>16
    <3>2. CASE color[x] = "white"
      <4>1. rc[x] = 0 /\ rc'[x] = 0
        BY <3>1, <3>2
      <4> QED
        BY <4>1 DEF Settled
    <3>3. CASE color[x] = "black"
      <4>1. color'[x] = color[x]
        BY <1>15, <3>3
      <4> QED
        BY <3>1, <4>1 DEF Settled
    <3> QED
      BY <1>3, <3>2, <3>3
  <2> QED
    BY <1>5, <2>2, <2>3, QuietCount DEF Good
<1>18. FreshInv'
  BY <1>1, <1>5, <1>15 DEF Good, FreshInv
<1>19. ColorInv'
  <2> SUFFICES ASSUME NEW x \in Cell
               PROVE  /\ color'[x] \in {"black", "white"}
                      /\ color'[x] = "white" => rc'[x] = 0
    BY <1>12 DEF ColorInv
  <2> QED
    BY <1>3, <1>5, <1>15, <1>16
<1>20. VisitedInv'
  BY <1>12 DEF VisitedInv
<1>21. TaskInv'
  <2> SUFFICES ASSUME NEW t \in Pending(stack') PROVE TaskGood(t)'
    BY DEF TaskInv
  <2>1. CASE t = u
    BY <1>6, <1>12, <2>1 DEF TaskGood
  <2>2. CASE color[c] = "white" /\ t \in Tasks(f, c)
    <3>1. /\ t.fn = f /\ t.cell = c /\ t.slot # 0 /\ color'[c] = "black"
          /\ rc'[c] = 0 /\ c \in alloc'
      BY <1>1, <1>5, <1>10, <1>15, <1>16, <2>2
    <3> QED
      BY <3>1 DEF TaskGood
  <2>3. CASE t \in Pending(Rest)
    <3>1. TaskGood(t) /\ t.fn \in {"decrement", "release_cell", "free_roots"}
      BY <1>1, <1>4, <2>3 DEF Good, TaskInv
    <3>2. t.fn = "release_cell" => t.cell \in Cell
      BY <1>1, <2>3, TaskTypes DEF LoopFn
    <3> QED
      BY <1>1, <1>2, <1>5, <1>8, <1>14, <1>15, <3>1, <3>2 DEF TaskGood
  <2> QED
    BY <1>9, <2>1, <2>2, <2>3
<1>22. BufferInv'
  <2>1. \A k, m \in DOMAIN roots : roots[k] = roots[m] => k = m
    BY <1>3 DEF Good, BufferInv
  <2>2. \A x \in Cell : buffered'[x] <=> \E k \in StillBuffered \ {i} : roots[k] = x
    <3> TAKE x \in Cell
    <3>1. buffered[x] <=> \E k \in StillBuffered : roots[k] = x
      BY DEF Good, BufferInv
    <3>2. StillBuffered \subseteq DOMAIN roots
      BY <1>7
    <3>3. CASE x = c
      BY <1>8, <1>15, <3>2, <3>3
    <3>4. CASE x # c
      BY <1>15, <3>1, <3>4
    <3> QED
      BY <3>3, <3>4
  <2>3. \A k \in DOMAIN roots :
          roots[k] \in alloc /\ (k \notin StillBuffered => color[roots[k]] = "black")
    BY <1>1, <1>2 DEF Good, BufferInv
  <2>4. \A k \in DOMAIN roots : k \notin StillBuffered \ {i} => color'[roots[k]] = "black"
    BY <1>1, <1>15, <2>3
  <2> QED
    BY <1>5, <1>12, <1>14, <2>1, <2>2, <2>3, <2>4 DEF BufferInv
<1>23. FoundInv'
  <2>1. Colored({"gray"})' = {} /\ Colored({"white"})' = Colored({"white"}) \ {c}
    BY <1>3, <1>15 DEF Colored
  <2> DEFINE B == RootsAt(StillBuffered) \cup TargetsOf({f})
             B2 == RootsAt(StillBuffered)' \cup TargetsOf({f})'
  <2>2. FoundFrom(field, Colored({"white"}), B)
    BY <1>2 DEF Good, FoundInv
  <2>3. TargetsOf({f}) = {}
    BY <1>1, <1>4 DEF TargetsOf
  <2>4. RootsAt(StillBuffered) \ {c} \subseteq RootsAt(StillBuffered)'
    BY <1>5, <1>14 DEF RootsAt
  <2>5. ASSUME c \in Colored({"white"}), NEW y \in Slot
        PROVE  field[c][y] \in TargetsOf({f})'
    <3> DEFINE t == CellTask(f, c, y)
    <3>1. t \in Pending(stack') /\ t.fn = f /\ t.cell = c /\ t.slot = y /\ y # 0
      BY <1>9, <2>5, CellTaskFields DEF Tasks, Colored, Slot
    <3> HIDE DEF t
    <3>2. Target(t)' = field[c][y]
      BY <1>5, <3>1 DEF Target
    <3> QED
      BY <3>1, <3>2 DEF TargetsOf
  <2>6. (B \cap Colored({"white"})) \ {c} \subseteq B2
    BY <2>3, <2>4
  <2>7. c \in Colored({"white"}) =>
          \A s \in Slot : field[c][s] \in Colored({"white"}) \ {c} => field[c][s] \in B2
    BY <2>5
  <2> HIDE DEF B, B2
  <2>8. FoundFrom(field, Colored({"white"}) \ {c}, B2)
    BY <1>1, <2>2, <2>6, <2>7, FoundLess
  <2>9. FoundFrom(field', Colored({"white"})', B2)
    BY <1>5, <2>1, <2>8
  <2>10. FoundFrom(field', Colored({"gray"})', TargetsOf({"scan", "incr_and_scan_black"})')
    BY <2>1, FoundNone
  <2> QED
    BY <1>12, <2>9, <2>10 DEF FoundInv, B2
<1>24. StackInv'
  <2>1. Needed'
    BY <1>2, <1>11, <1>12 DEF Good, StackInv, Needed, InPass
  <2> QED
    BY <1>9, <1>14, <2>1 DEF StackInv, GoodStack
<1> QED
  BY <1>1, <1>5, <1>17, <1>18, <1>19, <1>20, <1>21, <1>22, <1>23, <1>24 DEF Good

(* collect_roots is done: no white cell is left.                           *)
LEMMA CollectRootsDoneStep ==
  ASSUME ControlInv, Good, CollectRootsDone
  PROVE  Good'
<1> SUFFICES ASSUME NEW i, i = Top.i
             PROVE  Good'
  OBVIOUS
<1>0. Calls("collect_roots") /\ i > Len(roots)
  BY DEF CollectRootsDone, LoopDone
<1>1. /\ fault = "none" /\ stack # <<>> /\ Top.fn = "collect_roots"
      /\ i \in Nat \ {0}
      /\ Top \in Pending(stack) /\ Pending(stack) = {Top} \cup Pending(Rest)
      /\ GoodStack(Rest, InBuffer)
      /\ \A v \in Pending(Rest) : v \in TaskSet /\ v.fn \in Below("collect_roots")
      /\ InPass
      /\ \A t \in Pending(stack) : t.fn # "store"
      /\ DOMAIN roots = 1 .. Len(roots) /\ Len(roots) \in Nat
      /\ \A t : t.fn \in LoopFn /\ t.fn # "collect_roots" =>
           (t \in Pending(Rest) <=> t \in Pending(stack))
  BY <1>0, LoopFacts DEF LoopFn
<1>2. /\ ~ Tracing /\ ~ Calling("mark_roots") /\ ~ Calling("decr_and_mark_gray")
      /\ ~ Calling("scan_roots") /\ Calling("collect_roots")
  BY <1>1, PassFacts DEF Good, CollectorFn, LoopFn
<1>3. /\ \A x \in Cell : color[x] \in {"black", "white"}
      /\ Colored({"gray"}) = {}
      /\ InUse = DOMAIN roots
  BY <1>1, <1>2, CollectingFacts
<1>4. \A v \in Pending(Rest) : v.fn \in {"decrement", "release_cell", "free_roots"}
  BY <1>1 DEF Below, MutatorFn
<1>5. /\ stack' = Rest
      /\ UNCHANGED <<alloc, rc, color, buffered, field, roots, handle, fault, exposed>>
  BY DEF CollectRootsDone
<1>6. StillBuffered = {}
  BY <1>0, <1>1, <1>3 DEF StillBuffered
<1>7. Colored({"white"}) = {}
  <2>1. TargetsOf({"collect_white"}) = {} /\ RootsAt(StillBuffered) = {}
    BY <1>1, <1>4, <1>6 DEF TargetsOf, RootsAt
  <2>2. FoundFrom(field, Colored({"white"}),
                  RootsAt(StillBuffered) \cup TargetsOf({"collect_white"}))
    BY <1>2 DEF Good, FoundInv
  <2>3. (RootsAt(StillBuffered) \cup TargetsOf({"collect_white"})) \cap Colored({"white"}) = {}
    BY <2>1
  <2> QED
    BY <2>2, <2>3, FoundGone
<1>8. \A fn : Calling(fn)' => fn \in {"decrement", "release_cell", "free_roots"}
  BY <1>4, <1>5 DEF Calling
<1>9. InPass' /\ ~ Tracing' /\ ~ Calling("collect_roots")' /\ ~ Calling("scan_roots")'
  <2>1. InPass'
    BY <1>1, <1>5 DEF InPass, Calling
  <2> QED
    BY <1>8, <2>1 DEF Tracing
<1>10. \A fn, x, y : fn # "collect_roots" => (Pend(fn, x, y)' <=> Pend(fn, x, y))
  BY <1>1, <1>5, CellTaskFields DEF Pend
<1>11. InUse' = DOMAIN roots /\ StillBuffered' = {} /\ InBuffer' = InBuffer
  <2>1. InUse' = DOMAIN roots
    BY <1>5, <1>8 DEF InUse, Calling
  <2> QED
    BY <1>5, <1>9, <2>1 DEF StillBuffered, InBuffer
<1>12. BufferInv'
  <2>1. \A k \in DOMAIN roots : roots[k] \in alloc
    BY <1>1, <1>2 DEF Good, BufferInv
  <2>2. \A x \in Cell : ~ buffered[x]
    BY <1>6 DEF Good, BufferInv
  <2>3. \A k, m \in DOMAIN roots : roots[k] = roots[m] => k = m
    BY <1>3 DEF Good, BufferInv
  <2> QED
    BY <1>5, <1>9, <1>11, <2>1, <2>2, <2>3 DEF BufferInv
<1>13. FoundInv'
  <2>1. Colored({"gray"})' = {}
    BY <1>3, <1>5 DEF Colored
  <2>2. FoundFrom(field', Colored({"gray"})', TargetsOf({"scan", "incr_and_scan_black"})')
    BY <2>1, FoundNone
  <2> QED
    BY <1>9, <2>2 DEF FoundInv
<1>14. CountInv'
  <2>1. \A x, y : Storing(x, y)' <=> Storing(x, y)
    BY <1>1, <1>5 DEF Storing
  <2>2. SameAccounting
    BY <1>10, <2>1 DEF SameAccounting
  <2> QED
    BY <1>5, <2>2, QuietCount DEF Good, Settled
<1>15. FreshInv'
  BY <1>5 DEF Good, FreshInv
<1>16. ColorInv'
  <2>1. \A x \in Cell : color[x] = "black"
    BY <1>3, <1>7 DEF Colored
  <2> QED
    BY <1>5, <2>1 DEF ColorInv
<1>17. VisitedInv'
  BY <1>9 DEF VisitedInv
<1>18. TaskInv'
  <2> SUFFICES ASSUME NEW t \in Pending(Rest) PROVE TaskGood(t)'
    BY <1>5 DEF TaskInv
  <2>1. TaskGood(t) /\ t.fn \in {"decrement", "release_cell", "free_roots"}
    BY <1>1, <1>4 DEF Good, TaskInv
  <2> QED
    BY <1>1, <1>5, <1>9, <1>11, <2>1 DEF TaskGood
<1>19. StackInv'
  <2>1. Needed'
    BY <1>8, <1>9 DEF Needed
  <2> QED
    BY <1>1, <1>5, <1>11, <2>1 DEF StackInv, GoodStack
<1> QED
  BY <1>1, <1>5, <1>12, <1>13, <1>14, <1>15, <1>16, <1>17, <1>18, <1>19 DEF Good

(***************************************************************************)
(* collect_white.                                                          *)
(***************************************************************************)

(* collect_white leaves a cell that is not white, or still in the buffer,  *)
(* and goes on from any other.                                             *)
LEMMA CollectWhiteStep ==
  ASSUME ControlInv, Good, CollectWhite
  PROVE  Good'
<1> SUFFICES ASSUME NEW d, NEW s, NEW c, d = Top.cell, s = Top.slot, c = Target(Top)
             PROVE  Good'
  OBVIOUS
<1> DEFINE u == CellTask("free_cell", c, 0)
           f == "collect_white"
<1>1. /\ fault = "none" /\ stack # <<>> /\ Top.fn = f /\ Top = CellTask(f, d, s)
      /\ d \in Cell /\ s \in 0 .. Width /\ EdgeTarget(d, s) = c
      /\ c \in Cell /\ c \in alloc /\ c # NoCell
      /\ Top \in Pending(stack) /\ Pending(stack) = {Top} \cup Pending(Rest)
      /\ GoodStack(Rest, InBuffer)
      /\ \A v \in Pending(Rest) : v \in TaskSet /\ v.fn \in Below(f)
      /\ InPass
      /\ \A t \in Pending(stack) : t.fn # "store"
      /\ s # 0 /\ s \in Slot /\ field[d][s] = c
  BY TraceFacts DEF CollectWhite, VisitFn
<1>2. /\ ~ Tracing /\ ~ Calling("mark_roots") /\ ~ Calling("decr_and_mark_gray")
      /\ ~ Calling("scan_roots") /\ Calling("collect_roots")
  BY <1>1, PassFacts DEF Good, CollectorFn, VisitFn
<1>3. /\ \A x \in Cell : color[x] \in {"black", "white"}
      /\ Colored({"gray"}) = {}
      /\ InUse = DOMAIN roots
  BY <1>1, <1>2, CollectingFacts
<1>4. /\ IF color[c] = "white" /\ ~ buffered[c]
         THEN /\ color' = [color EXCEPT ![c] = "black"]
              /\ stack' = AllChildren(f, c) \o <<u>> \o Rest
         ELSE stack' = Rest /\ color' = color
      /\ UNCHANGED <<alloc, rc, buffered, field, roots, handle, fault, exposed>>
  BY DEF CollectWhite
<1>5. CASE ~ (color[c] = "white" /\ ~ buffered[c])
  <2>1. \A t : t.fn # f => (t \in Pending(stack') <=> t \in Pending(stack))
    BY <1>1, <1>4, <1>5
  <2>2. SameAccounting
    <3>1. \A fn, x, y : fn # f => (Pend(fn, x, y)' <=> Pend(fn, x, y))
      BY <2>1, CellTaskFields DEF Pend
    <3>2. \A x, y : Storing(x, y)' <=> Storing(x, y)
      BY <2>1 DEF Storing
    <3> QED
      BY <3>1, <3>2 DEF SameAccounting
  <2>3. CountInv'
    BY <1>4, <1>5, <2>2, QuietCount DEF Good, Settled
  <2>4. color[c] # "white" \/ c \in RootsAt(StillBuffered)
    BY <1>1, <1>5 DEF Good, BufferInv, RootsAt
  <2>5. f \in {"decrement"} \cup (VisitFn \ {"free_cell"}) /\ stack' = Rest
    BY <1>4, <1>5 DEF VisitFn
  <2> QED
    BY <1>1, <1>4, <1>5, <2>3, <2>4, <2>5, PopVisitStep
<1>6. ASSUME color[c] = "white", ~ buffered[c]
      PROVE  Good'
  <2>1. /\ color' = [color EXCEPT ![c] = "black"]
        /\ stack' = AllChildren(f, c) \o <<u>> \o Rest
    BY <1>4, <1>6
  <2>2. c \notin InBuffer
    BY <1>1, <1>2, <1>6 DEF Good, BufferInv, InBuffer
  <2>3. rc[c] = 0
    BY <1>1, <1>6 DEF Good, ColorInv
  <2>4. /\ u \in TaskSet /\ u.fn = "free_cell" /\ u.cell = c /\ u.slot = 0
    BY <1>1, CellTaskType, CellTaskFields, HeapGraphAssumption DEF VisitFn
  <2>5. u \notin Pending(Rest)
    BY <1>1, <1>6, <2>4 DEF Good, TaskInv, TaskGood
  <2>6. ~ Pend("release_cell", c, 0)
    BY <1>1, <1>6, CellTaskFields DEF Good, TaskInv, TaskGood, Pend
  <2>7. /\ GoodStack(stack', InBuffer)
        /\ Pending(stack') = Tasks(f, c) \cup {u} \cup Pending(Rest)
    <3>1. \/ u.fn = "collect_roots" /\ c \in InBuffer
          \/ u = CellTask("free_cell", c, 0)
      OBVIOUS
    <3>2. c \in Cell /\ u \in TaskSet /\ GoodStack(Rest, InBuffer) /\ u \notin Pending(Rest)
      BY <1>1, <2>4, <2>5
    <3>3. \A v \in Pending(Rest) : v.fn \in Below("collect_white") /\ v.fn \in Below(u.fn)
      BY <1>1, <2>4 DEF Below, MutatorFn
    <3> HIDE DEF u
    <3>4. /\ GoodStack(AllChildren(f, c) \o <<u>> \o Rest, InBuffer)
          /\ Pending(AllChildren(f, c) \o <<u>> \o Rest) = Tasks(f, c) \cup {u} \cup Pending(Rest)
      BY ONLY <3>1, <3>2, <3>3, PushWhites
    <3> QED
      BY <2>1, <3>4
  <2> HIDE DEF u
  <2>8. \A t \in Tasks(f, c) : t.fn = f /\ t.cell = c /\ t.slot # 0
    BY CellTaskFields DEF Tasks, Slot
  <2>9. \A t : t.fn \notin {"free_cell", f} =>
          (t \in Pending(stack') <=> t \in Pending(stack))
    BY <1>1, <2>4, <2>7, <2>8
  <2>10. SameLoops
    BY <2>9 DEF SameLoops, LoopFn
  <2>11. /\ \A fn \in LoopFn : Calling(fn)' <=> Calling(fn)
         /\ InPass' <=> InPass
         /\ InUse' = InUse /\ StillBuffered' = StillBuffered /\ Kept' = Kept
         /\ InBuffer' = InBuffer
    BY <1>4, <2>10, LoopsKept
  <2>12. /\ InPass' /\ ~ Tracing' /\ Calling("collect_roots")' /\ ~ Calling("scan_roots")'
         /\ ~ Calling("decr_and_mark_gray")'
    <3>1. ~ Calling("scan")' /\ ~ Calling("incr_and_scan_black")' /\ ~ Calling("decr_and_mark_gray")'
      BY <1>2, <2>9 DEF Calling, Tracing
    <3> QED
      BY <1>1, <1>2, <2>11, <3>1 DEF Tracing, LoopFn
  <2>13. \A fn, x, y : fn \notin {"free_cell", f} => (Pend(fn, x, y)' <=> Pend(fn, x, y))
    BY <2>9, CellTaskFields DEF Pend
  <2>14. \A x \in Cell : color'[x] = IF x = c THEN "black" ELSE color[x]
    BY <1>1, <2>1 DEF ControlInv, TypeOK
  <2>15. CountInv'
    <3>1. \A x, y : Storing(x, y)' <=> Storing(x, y)
      BY <2>9 DEF Storing
    <3>2. SameAccounting
      BY <2>13, <3>1 DEF SameAccounting
    <3>3. \A x \in Cell : Settled(x)' <=> Settled(x)
      <4> TAKE x \in Cell
      <4>1. CASE x = c
        <5>1. ~ (rc[x] > 0) /\ ~ (rc'[x] > 0)
          BY <1>4, <2>3, <4>1
        <5> QED
          BY <5>1 DEF Settled
      <4>2. CASE x # c
        <5>1. rc'[x] = rc[x] /\ color'[x] = color[x]
          BY <1>4, <2>14, <4>2
        <5> QED
          BY <5>1 DEF Settled
      <4> QED
        BY <4>1, <4>2
    <3> QED
      BY <1>4, <3>2, <3>3, QuietCount DEF Good
  <2>16. FreshInv'
    BY <1>1, <1>4, <2>14 DEF Good, FreshInv
  <2>17. ColorInv'
    <3> SUFFICES ASSUME NEW x \in Cell
                 PROVE  /\ color'[x] \in {"black", "white"}
                        /\ color'[x] = "white" => rc'[x] = 0
      BY <2>12 DEF ColorInv
    <3>1. color[x] = "white" => rc[x] = 0
      BY DEF Good, ColorInv
    <3> QED
      BY <1>3, <1>4, <2>14, <3>1
  <2>18. VisitedInv'
    BY <2>12 DEF VisitedInv
  <2>19. TaskInv'
    <3> SUFFICES ASSUME NEW t \in Pending(stack') PROVE TaskGood(t)'
      BY DEF TaskInv
    <3>1. CASE t = u
      <4>1. /\ c \in alloc' /\ color'[c] = "black" /\ rc'[c] = 0
            /\ c \notin InBuffer' /\ ~ Pend("release_cell", c, 0)'
        BY <1>1, <1>4, <2>2, <2>3, <2>6, <2>11, <2>13, <2>14
      <4> QED
        BY <2>4, <3>1, <4>1 DEF TaskGood
    <3>2. CASE t \in Tasks(f, c)
      <4>1. /\ t.fn = f /\ t.cell = c /\ t.slot # 0
            /\ c \in alloc' /\ color'[c] = "black" /\ rc'[c] = 0
        BY <1>1, <1>4, <2>3, <2>8, <2>14, <3>2
      <4> QED
        BY <4>1 DEF TaskGood
    <3>3. CASE t \in Pending(Rest)
      <4>1. TaskGood(t) /\ t.fn # "store" /\ (t.fn \notin LoopFn => t.cell \in Cell)
        BY <1>1, <3>3, TaskTypes DEF Good, TaskInv
      <4>2. t.fn \in {"decrement", "release_cell", "collect_white", "free_cell",
                      "collect_roots", "free_roots"}
        BY <1>1, <3>3, <4>1 DEF Below, MutatorFn
      <4>3. CASE t.fn \in LoopFn
        BY <1>2, <2>12, <4>1, <4>2, <4>3 DEF TaskGood, LoopFn
      <4>4. CASE t.fn \notin LoopFn
        <5>1. color'[t.cell] = color[t.cell] \/ color'[t.cell] = "black"
          BY <2>14, <4>1, <4>4
        <5>2. Pend("release_cell", t.cell, 0)' <=> Pend("release_cell", t.cell, 0)
          BY <2>13
        <5> QED
          BY <1>1, <1>4, <2>11, <4>1, <4>2, <4>4, <5>1, <5>2 DEF TaskGood, LoopFn
      <4> QED
        BY <4>3, <4>4
    <3> QED
      BY <2>7, <3>1, <3>2, <3>3
  <2>20. BufferInv'
    <3>1. \A k \in DOMAIN roots : roots[k] \in Cell
      BY ElementOfSeq, LenProperties DEF ControlInv, TypeOK
    <3>2. \A k \in DOMAIN roots : color[roots[k]] = "black" => color'[roots[k]] = "black"
      BY <2>14, <3>1
    <3>3. \A t : t.fn = "free_roots" => (t \in Pending(stack') <=> t \in Pending(stack))
      BY <2>9
    <3>4. \A k \in DOMAIN roots :
            roots[k] \in alloc /\ (k \notin StillBuffered => color[roots[k]] = "black")
      BY <1>1, <1>2 DEF Good, BufferInv
    <3> QED
      BY <1>4, <2>11, <2>12, <3>2, <3>4 DEF Good, BufferInv
  <2>21. FoundInv'
    <3>1. Colored({"gray"})' = {} /\ Colored({"white"})' = Colored({"white"}) \ {c}
      BY <1>3, <2>14 DEF Colored
    <3> DEFINE B == RootsAt(StillBuffered) \cup TargetsOf({f})
               B2 == RootsAt(StillBuffered)' \cup TargetsOf({f})'
    <3>2. FoundFrom(field, Colored({"white"}), B)
      BY <1>2 DEF Good, FoundInv
    <3>3. RootsAt(StillBuffered)' = RootsAt(StillBuffered)
      BY <1>4, <2>11 DEF RootsAt
    <3>4. TargetsOf({f}) \ {c} \subseteq TargetsOf({f})'
      <4> SUFFICES ASSUME NEW t \in Pending(stack), t.fn = f, Target(t) # c
                   PROVE  Target(t) \in TargetsOf({f})'
        BY DEF TargetsOf
      <4>1. t \in Pending(Rest)
        BY <1>1
      <4>2. t \in Pending(stack')
        BY <2>7, <4>1
      <4>3. Target(t)' = Target(t)
        BY <1>4 DEF Target
      <4> QED
        BY <4>2, <4>3 DEF TargetsOf
    <3>5. ASSUME NEW y \in Slot
          PROVE  field[c][y] \in TargetsOf({f})'
      <4> DEFINE t == CellTask(f, c, y)
      <4>1. t \in Pending(stack') /\ t.fn = f /\ t.cell = c /\ t.slot = y /\ y # 0
        BY <2>7, CellTaskFields DEF Tasks, Slot
      <4> HIDE DEF t
      <4>2. Target(t)' = field[c][y]
        BY <1>4, <4>1 DEF Target
      <4> QED
        BY <4>1, <4>2 DEF TargetsOf
    <3>6. (B \cap Colored({"white"})) \ {c} \subseteq B2
      BY <3>3, <3>4
    <3>7. c \in Colored({"white"}) =>
            \A y \in Slot : field[c][y] \in Colored({"white"}) \ {c} => field[c][y] \in B2
      BY <3>5
    <3> HIDE DEF B, B2
    <3>8. FoundFrom(field, Colored({"white"}) \ {c}, B2)
      BY <1>1, <3>2, <3>6, <3>7, FoundLess
    <3>9. FoundFrom(field', Colored({"white"})', B2)
      BY <1>4, <3>1, <3>8
    <3>10. FoundFrom(field', Colored({"gray"})', TargetsOf({"scan", "incr_and_scan_black"})')
      BY <3>1, FoundNone
    <3> QED
      BY <2>12, <3>9, <3>10 DEF FoundInv, B2
  <2>22. StackInv'
    <3>1. Needed'
      BY <2>12 DEF Needed, InPass, Tracing
    <3> QED
      BY <2>7, <2>11, <3>1 DEF StackInv, GoodStack
  <2> QED
    BY <1>1, <1>4, <2>15, <2>16, <2>17, <2>18, <2>19, <2>20, <2>21, <2>22 DEF Good
<1> QED
  BY <1>5, <1>6

(* collect_white comes back to a cell that was freed: nothing happens.     *)
LEMMA CollectWhiteFreedStep ==
  ASSUME ControlInv, Good, CollectWhiteFreed
  PROVE  Good'
<1> SUFFICES ASSUME NEW d, NEW s, NEW c, d = Top.cell, s = Top.slot, c = Target(Top)
             PROVE  Good'
  OBVIOUS
<1> DEFINE f == "collect_white"
<1>1. /\ stack # <<>> /\ Top.fn = f /\ d \in alloc /\ ~ (Touched(Top) \subseteq alloc)
      /\ stack' = Rest
      /\ UNCHANGED <<alloc, rc, color, buffered, field, roots, handle, fault, exposed>>
  BY DEF CollectWhiteFreed, VisitsFreedWhite
<1>2. /\ Top \in TaskSet /\ Pending(stack) = {Top} \cup Pending(Rest)
  BY <1>1, TopFacts DEF Good
<1>3. Top = CellTask(f, d, s) /\ d \in Cell /\ s \in 0 .. Width
  BY <1>1, <1>2, IsCellTask, TaskTypes DEF LoopFn
<1>4. c \notin alloc /\ c # NoCell
  BY <1>1 DEF Touched, LoopFn
<1>5. EdgeTarget(d, s) = c
  BY DEF EdgeTarget, Target
<1>6. c \in Cell
  BY <1>3, <1>4, <1>5, HeapGraphAssumption DEF EdgeTarget, ControlInv, TypeOK, Slot, Ref
<1>7. color[c] = "black"
  BY <1>4, <1>6 DEF Good, FreshInv
<1>8. \A t : t.fn # f => (t \in Pending(stack') <=> t \in Pending(stack))
  BY <1>1, <1>2
<1>9. CountInv'
  <2>1. \A fn, x, y : fn # f => (Pend(fn, x, y)' <=> Pend(fn, x, y))
    BY <1>8, CellTaskFields DEF Pend
  <2>2. \A x, y : Storing(x, y)' <=> Storing(x, y)
    BY <1>8 DEF Storing
  <2>3. SameAccounting
    BY <2>1, <2>2 DEF SameAccounting
  <2> QED
    BY <1>1, <2>3, QuietCount DEF Good, Settled
<1>10. f \in {"decrement"} \cup (VisitFn \ {"free_cell"})
  BY DEF VisitFn
<1> QED
  BY <1>1, <1>3, <1>5, <1>7, <1>9, <1>10, PopVisitStep

(***************************************************************************)
(* free_cell and free_roots.                                               *)
(***************************************************************************)

(* free_cell, once collect_white is done with the children: no call that   *)
(* is still pending uses the cell.                                         *)
LEMMA FreeWhiteStep ==
  ASSUME ControlInv, Good, FreeWhite
  PROVE  Good'
<1> SUFFICES ASSUME NEW c, c = Target(Top)
             PROVE  Good'
  OBVIOUS
<1> DEFINE f == "free_cell"
<1>1. /\ fault = "none" /\ stack # <<>> /\ Top.fn = f /\ Top = CellTask(f, Top.cell, Top.slot)
      /\ c \in Cell /\ c \in alloc /\ c # NoCell
      /\ Top \in Pending(stack) /\ Pending(stack) = {Top} \cup Pending(Rest)
      /\ GoodStack(Rest, InBuffer)
      /\ \A v \in Pending(Rest) : v \in TaskSet /\ v.fn \in Below(f)
      /\ TaskGood(Top)
      /\ InPass
      /\ \A t \in Pending(stack) : t.fn # "store"
  BY TraceFacts DEF FreeWhite, VisitFn
<1>2. /\ ~ Tracing /\ ~ Calling("mark_roots") /\ ~ Calling("decr_and_mark_gray")
      /\ ~ Calling("scan_roots") /\ Calling("collect_roots")
  BY <1>1, PassFacts DEF Good, CollectorFn, VisitFn
<1>3. /\ \A x \in Cell : color[x] \in {"black", "white"}
      /\ Colored({"gray"}) = {}
      /\ InUse = DOMAIN roots
  BY <1>1, <1>2, CollectingFacts
<1>4. /\ Top.slot = 0 /\ Top.cell = c /\ color[c] = "black" /\ rc[c] = 0
      /\ c \notin InBuffer /\ ~ Pend("release_cell", c, 0)
  BY <1>1 DEF TaskGood, Target
<1>5. /\ Freed(c) /\ stack' = Rest
      /\ UNCHANGED <<roots, handle, fault, exposed>>
  BY DEF FreeWhite
<1>6. /\ alloc' = alloc \ {c}
      /\ \A x \in Cell : /\ rc'[x] = IF x = c THEN 0 ELSE rc[x]
                         /\ color'[x] = IF x = c THEN "black" ELSE color[x]
                         /\ buffered'[x] = IF x = c THEN FALSE ELSE buffered[x]
                         /\ field'[x] = IF x = c THEN NoSlots ELSE field[x]
  BY <1>1, <1>5, FreedFacts
<1>7. \A t \in Pending(Rest) :
        t.fn \in {"decrement", "release_cell", "collect_white", "free_cell",
                  "collect_roots", "free_roots"}
  BY <1>1 DEF Below, MutatorFn
<1>8. \A t \in Pending(Rest) : t.fn = f => t.cell # c
  <2> SUFFICES ASSUME NEW t \in Pending(Rest), t.fn = f, t.cell = c PROVE FALSE
    OBVIOUS
  <2>1. t.slot = 0 /\ t \in TaskSet
    BY <1>1 DEF Good, TaskInv, TaskGood
  <2>2. t = Top
    BY <1>1, <1>4, <2>1, IsCellTask DEF LoopFn
  <2> QED
    BY <1>1, <2>2, TopFacts DEF Good, Often
<1>9. \A t \in Pending(Rest) : t.fn = "collect_white" => t.cell # c
  <2> SUFFICES ASSUME NEW t \in Pending(Rest), t.fn = "collect_white", t.cell = c PROVE FALSE
    OBVIOUS
  <2>1. NeedsAttendant(t, InBuffer)
    BY <1>4 DEF NeedsAttendant
  <2>2. PICK v \in Pending(Rest) : Attends(v, t)
    BY <1>1, <2>1 DEF GoodStack, Attended, Pending
  <2> QED
    BY <1>8, <2>2 DEF Attends
<1>10. \A t \in Pending(Rest) : t.fn = "release_cell" => t.cell # c
  <2> SUFFICES ASSUME NEW t \in Pending(Rest), t.fn = "release_cell", t.cell = c PROVE FALSE
    OBVIOUS
  <2>1. t.slot = 0 /\ t \in TaskSet
    BY <1>1 DEF Good, TaskInv, TaskGood
  <2>2. t = CellTask("release_cell", c, 0)
    BY <2>1, IsCellTask DEF LoopFn
  <2> QED
    BY <1>1, <1>4, <2>2 DEF Pend
<1>11. \A t : t.fn # f => (t \in Pending(stack') <=> t \in Pending(stack))
  BY <1>1, <1>5
<1>12. /\ \A fn \in LoopFn : Calling(fn)' <=> Calling(fn)
       /\ InPass' <=> InPass
       /\ InUse' = InUse /\ StillBuffered' = StillBuffered /\ Kept' = Kept
       /\ InBuffer' = InBuffer
  <2>1. SameLoops
    BY <1>11 DEF SameLoops, LoopFn
  <2> QED
    BY <1>5, <2>1, LoopsKept
<1>13. /\ InPass' /\ ~ Tracing' /\ Calling("collect_roots")' /\ ~ Calling("scan_roots")'
       /\ ~ Calling("decr_and_mark_gray")'
  <2>1. ~ Calling("scan")' /\ ~ Calling("incr_and_scan_black")' /\ ~ Calling("decr_and_mark_gray")'
    BY <1>2, <1>11 DEF Calling, Tracing
  <2> QED
    BY <1>1, <1>2, <1>12, <2>1 DEF Tracing, LoopFn
<1>14. \A fn, x, y : fn # f => (Pend(fn, x, y)' <=> Pend(fn, x, y))
  BY <1>11, CellTaskFields DEF Pend
<1>15. \A x \in Cell : buffered'[x] <=> buffered[x]
  <2>1. ~ buffered[c]
    BY <1>1, <1>3, <1>4 DEF Good, BufferInv, InBuffer, StillBuffered
  <2> QED
    BY <1>6, <2>1
<1>16. CountInv'
  <2>1. \A x, y : Storing(x, y)' <=> Storing(x, y)
    BY <1>11 DEF Storing
  <2>2. SameAccounting
    BY <1>14, <2>1 DEF SameAccounting
  <2>3. ~ \E t \in Pending(Rest) : t.fn = "release_cell" /\ t.cell = c
    BY <1>10
  <2>4. \A y \in 0 .. Width : ~ Pend("decrement", c, y)
    BY <1>1, <1>4, <2>3, NoDecrementOf DEF Good
  <2>5. \A y : ~ Pend("decr_and_mark_gray", c, y)
    BY <1>2, CellTaskFields DEF Calling, Pend
  <2>6. \A y \in 0 .. Width : /\ ~ Pend("decrement", c, y)
                              /\ ~ Pend("decr_and_mark_gray", c, y)
    BY <2>4, <2>5
  <2>7. CountInv /\ handle' = handle /\ rc[c] = 0
    BY <1>4, <1>5 DEF Good
  <2> QED
    BY <1>1, <1>5, <2>2, <2>6, <2>7, FreedCount
<1>17. FreshInv'
  BY <1>6 DEF Good, FreshInv
<1>18. ColorInv'
  <2> SUFFICES ASSUME NEW x \in Cell
               PROVE  /\ color'[x] \in {"black", "white"}
                      /\ color'[x] = "white" => rc'[x] = 0
    BY <1>13 DEF ColorInv
  <2>1. color[x] = "white" => rc[x] = 0
    BY DEF Good, ColorInv
  <2> QED
    BY <1>3, <1>6, <2>1
<1>19. VisitedInv'
  BY <1>13 DEF VisitedInv
<1>20. TaskInv'
  <2> SUFFICES ASSUME NEW t \in Pending(Rest) PROVE TaskGood(t)'
    BY <1>5 DEF TaskInv
  <2>1. TaskGood(t) /\ (t.fn \notin LoopFn => t.cell \in Cell)
    BY <1>1, TaskTypes DEF Good, TaskInv
  <2>2. t.fn \in {"decrement", "release_cell", "collect_white", "free_cell",
                  "collect_roots", "free_roots"}
    BY <1>7
  <2>3. CASE t.fn \in LoopFn
    BY <1>2, <1>13, <2>1, <2>2, <2>3 DEF TaskGood, LoopFn
  <2>4. CASE t.fn = "decrement"
    BY <2>4 DEF TaskGood
  <2>5. CASE t.fn \notin LoopFn \cup {"decrement"}
    <3>1. t.cell # c
      BY <1>8, <1>9, <1>10, <2>2, <2>5 DEF LoopFn
    <3>2. /\ t.cell \in Cell
          /\ rc'[t.cell] = rc[t.cell] /\ color'[t.cell] = color[t.cell]
          /\ t.cell \in alloc' <=> t.cell \in alloc
      BY <1>6, <2>1, <2>5, <3>1
    <3>3. Pend("release_cell", t.cell, 0)' <=> Pend("release_cell", t.cell, 0)
      BY <1>14
    <3> QED
      BY <1>1, <1>12, <2>1, <2>2, <2>5, <3>2, <3>3 DEF TaskGood, LoopFn
  <2> QED
    BY <2>3, <2>4, <2>5
<1>21. BufferInv'
  <2>1. \A k \in DOMAIN roots : roots[k] \in Cell /\ roots[k] # c
    BY <1>4, ElementOfSeq, LenProperties DEF ControlInv, TypeOK, InBuffer
  <2>2. \A k \in DOMAIN roots :
          roots[k] \in alloc /\ (k \notin StillBuffered => color[roots[k]] = "black")
    BY <1>1, <1>2 DEF Good, BufferInv
  <2>3. \A k \in DOMAIN roots :
          roots[k] \in alloc' /\ (k \notin StillBuffered => color'[roots[k]] = "black")
    <3> TAKE k \in DOMAIN roots
    <3>1. color'[roots[k]] = color[roots[k]]
      BY <1>6, <2>1
    <3>2. roots[k] \in alloc'
      BY <1>6, <2>1, <2>2
    <3> QED
      BY <2>2, <3>1, <3>2
  <2>4. \A x \in Cell : buffered'[x] <=> \E k \in StillBuffered : roots[k] = x
    BY <1>15 DEF Good, BufferInv
  <2> QED
    BY <1>5, <1>12, <1>13, <2>3, <2>4 DEF Good, BufferInv
<1>22. FoundInv'
  <2> DEFINE B == RootsAt(StillBuffered) \cup TargetsOf({"collect_white"})
  <2>1. Colored({"gray"})' = {} /\ Colored({"white"})' = Colored({"white"})
    BY <1>3, <1>4, <1>6 DEF Colored
  <2>2. FoundFrom(field, Colored({"white"}), B)
    BY <1>2 DEF Good, FoundInv
  <2>3. RootsAt(StillBuffered)' = RootsAt(StillBuffered)
    BY <1>5, <1>12 DEF RootsAt
  <2>4. \A t \in Pending(stack) : t.fn = "collect_white" =>
          t \in Pending(stack') /\ Target(t)' = Target(t)
    <3> SUFFICES ASSUME NEW t \in Pending(stack), t.fn = "collect_white"
                 PROVE  t \in Pending(stack') /\ Target(t)' = Target(t)
      OBVIOUS
    <3>1. t \in Pending(Rest)
      BY <1>1
    <3>2. t.cell # c /\ t.cell \in Cell
      BY <1>1, <1>9, <3>1, TaskTypes DEF LoopFn
    <3>3. field'[t.cell] = field[t.cell]
      BY <1>6, <3>2
    <3> QED
      BY <1>5, <3>1, <3>3 DEF Target
  <2>5. TargetsOf({"collect_white"}) \subseteq TargetsOf({"collect_white"})'
    BY <2>4 DEF TargetsOf
  <2>6. \A x \in Colored({"white"}), y \in Slot : field'[x][y] = field[x][y]
    BY <1>4, <1>6 DEF Colored
  <2> HIDE DEF B
  <2>7. FoundFrom(field', Colored({"white"}), B)
    BY <2>2, <2>6, FoundHeap
  <2>8. B \subseteq RootsAt(StillBuffered)' \cup TargetsOf({"collect_white"})'
    BY <2>3, <2>5 DEF B
  <2>9. FoundFrom(field', Colored({"white"})',
                  RootsAt(StillBuffered)' \cup TargetsOf({"collect_white"})')
    BY <2>1, <2>7, <2>8, FoundWider
  <2>10. FoundFrom(field', Colored({"gray"})', TargetsOf({"scan", "incr_and_scan_black"})')
    BY <2>1, FoundNone
  <2> QED
    BY <1>13, <2>9, <2>10 DEF FoundInv
<1>23. StackInv'
  <2>1. Needed'
    BY <1>13 DEF Needed, InPass, Tracing
  <2> QED
    BY <1>1, <1>5, <1>12, <2>1 DEF StackInv, GoodStack
<1> QED
  BY <1>1, <1>5, <1>16, <1>17, <1>18, <1>19, <1>20, <1>21, <1>22, <1>23 DEF Good

(* In the last pass every cell is black and out of the buffer.             *)
LEMMA FreeingFacts ==
  ASSUME ControlInv, Good, Calls("free_roots")
  PROVE  /\ ~ Tracing /\ ~ Calling("collect_roots") /\ ~ Calling("scan_roots")
         /\ \A x \in Cell : color[x] = "black" /\ ~ buffered[x]
         /\ InUse = DOMAIN roots /\ StillBuffered = {}
         /\ \A t \in Pending(Rest) : t.fn \in {"decrement", "release_cell"}
<1>1. /\ stack # <<>> /\ Top.fn = "free_roots" /\ InPass
      /\ Pending(stack) = {Top} \cup Pending(Rest)
      /\ \A t \in Pending(stack) : t.fn # "store"
      /\ \A u \in Pending(Rest) : u \in TaskSet /\ u.fn \in Below("free_roots")
  BY LoopFacts DEF LoopFn
<1>2. ~ Tracing /\ ~ Calling("collect_roots") /\ ~ Calling("scan_roots")
  BY <1>1, PassFacts DEF Good, CollectorFn, LoopFn
<1>3. (\A x \in Cell : color[x] \in {"black", "white"}) /\ InUse = DOMAIN roots
  BY <1>1, <1>2, CollectingFacts
<1>4. \A x \in Cell : color[x] # "white"
  BY <1>2 DEF Good, ColorInv
<1>5. StillBuffered = {}
  BY <1>1, <1>2 DEF StillBuffered
<1>6. \A x \in Cell : ~ buffered[x]
  BY <1>5 DEF Good, BufferInv
<1>7. \A t \in Pending(Rest) : t.fn \in {"decrement", "release_cell"}
  BY <1>1 DEF Below, MutatorFn
<1> QED
  BY <1>2, <1>3, <1>4, <1>5, <1>6, <1>7

(* The second loop of collect_roots frees the roots that were collected.   *)
LEMMA FreeRootsStep ==
  ASSUME ControlInv, Good, FreeRoots
  PROVE  Good'
<1> SUFFICES ASSUME NEW i, NEW c, i = Top.i, c = roots[i]
             PROVE  Good'
  OBVIOUS
<1> DEFINE u == LoopTask("free_roots", i + 1, 1)
<1>0. Calls("free_roots") /\ i <= Len(roots)
  BY DEF FreeRoots, InLoop
<1>1. /\ fault = "none" /\ stack # <<>> /\ Top.fn = "free_roots"
      /\ i \in Nat \ {0}
      /\ Top \in Pending(stack) /\ Pending(stack) = {Top} \cup Pending(Rest)
      /\ GoodStack(Rest, InBuffer)
      /\ \A v \in Pending(Rest) : v \in TaskSet
      /\ InPass
      /\ \A k \in DOMAIN roots : roots[k] \in Cell /\ k \in Nat
      /\ i \in DOMAIN roots /\ c \in alloc /\ c \in Cell
      /\ \A t \in Pending(stack) : t.fn = "free_roots" => t = Top
  BY <1>0, LoopFacts DEF LoopFn
<1>2. /\ ~ Tracing /\ ~ Calling("collect_roots") /\ ~ Calling("scan_roots")
      /\ \A x \in Cell : color[x] = "black" /\ ~ buffered[x]
      /\ InUse = DOMAIN roots /\ StillBuffered = {}
      /\ \A t \in Pending(Rest) : t.fn \in {"decrement", "release_cell"}
  BY <1>0, FreeingFacts
<1>3. /\ \/ rc[c] = 0 /\ Freed(c)
         \/ UNCHANGED <<alloc, rc, color, buffered, field>>
      /\ stack' = <<u>> \o Rest
      /\ UNCHANGED <<roots, handle, fault, exposed>>
  BY DEF FreeRoots
<1>4. u \in TaskSet /\ u.fn = "free_roots" /\ u.i = i + 1
  BY <1>1, LoopTaskType DEF LoopFn, LoopTask
<1> HIDE DEF u
<1>5. GoodStack(stack', InBuffer) /\ Pending(stack') = {u} \cup Pending(Rest)
  <2>1. \A v \in Pending(Rest) : v.fn \in Below(u.fn)
    BY <1>2, <1>4 DEF Below, MutatorFn
  <2>2. u \notin Pending(Rest)
    BY <1>2, <1>4
  <2>3. ~ NeedsAttendant(u, InBuffer)
    BY <1>4 DEF NeedsAttendant
  <2>4. u \in TaskSet /\ GoodStack(Rest, InBuffer)
    BY <1>1, <1>4
  <2>5. GoodStack(<<u>> \o Rest, InBuffer) /\ Pending(<<u>> \o Rest) = {u} \cup Pending(Rest)
    BY ONLY <2>1, <2>2, <2>3, <2>4, PushOne
  <2> QED
    BY <1>3, <2>5
<1>6. \A fn : Calling(fn)' <=> Calling(fn)
  BY <1>1, <1>4, <1>5 DEF Calling
<1>7. InPass' /\ ~ Tracing' /\ ~ Calling("collect_roots")' /\ ~ Calling("scan_roots")'
  BY <1>1, <1>2, <1>6 DEF InPass, Tracing
<1>8. InUse' = DOMAIN roots /\ StillBuffered' = {} /\ InBuffer' = InBuffer
  <2>1. ~ Calling("mark_roots")'
    BY <1>7 DEF Tracing
  <2>2. InUse' = DOMAIN roots
    BY <1>3, <2>1 DEF InUse, Calling
  <2> QED
    BY <1>3, <1>7, <2>2 DEF StillBuffered, InBuffer
<1>9. \A t : t.fn # "free_roots" => (t \in Pending(stack') <=> t \in Pending(stack))
  BY <1>1, <1>4, <1>5
<1>10. \A fn, x, y : fn # "free_roots" => (Pend(fn, x, y)' <=> Pend(fn, x, y))
  BY <1>9, CellTaskFields DEF Pend
<1>11. \A x \in Cell : /\ rc'[x] = rc[x] /\ color'[x] = "black" /\ ~ buffered'[x]
                       /\ \/ field'[x] = field[x] /\ (x \in alloc' <=> x \in alloc)
                          \/ /\ x = c /\ rc[x] = 0 /\ field'[x] = NoSlots /\ x \notin alloc'
  <2>1. CASE rc[c] = 0 /\ Freed(c)
    <3>1. /\ alloc' = alloc \ {c}
          /\ \A x \in Cell : /\ rc'[x] = IF x = c THEN 0 ELSE rc[x]
                             /\ color'[x] = IF x = c THEN "black" ELSE color[x]
                             /\ buffered'[x] = IF x = c THEN FALSE ELSE buffered[x]
                             /\ field'[x] = IF x = c THEN NoSlots ELSE field[x]
      BY <1>1, <2>1, FreedFacts
    <3> QED
      BY <1>2, <2>1, <3>1
  <2>2. CASE UNCHANGED <<alloc, rc, color, buffered, field>>
    BY <1>2, <2>2
  <2> QED
    BY <1>3, <2>1, <2>2
<1>12. \A t \in Pending(Rest) : t.fn = "release_cell" => t.cell \in Cell /\ t.cell # c
  <2>1. c \in InBuffer
    BY <1>1 DEF InBuffer
  <2> QED
    BY <1>1, <2>1, TaskTypes DEF Good, TaskInv, TaskGood, LoopFn
<1>13. CountInv'
  <2>1. \A x, y : Storing(x, y)' <=> Storing(x, y)
    BY <1>9 DEF Storing
  <2>2. SameAccounting
    BY <1>10, <2>1 DEF SameAccounting
  <2>3. CASE rc[c] = 0 /\ Freed(c)
    <3>1. ~ \E t \in Pending(Rest) : t.fn = "release_cell" /\ t.cell = c
      BY <1>12
    <3>2. \A y \in 0 .. Width : ~ Pend("decrement", c, y)
      BY <1>1, <2>3, <3>1, NoDecrementOf DEF Good
    <3>3. \A y : ~ Pend("decr_and_mark_gray", c, y)
      BY <1>1, <1>2, CellTaskFields DEF Pend
    <3>4. \A y \in 0 .. Width : /\ ~ Pend("decrement", c, y)
                                /\ ~ Pend("decr_and_mark_gray", c, y)
      BY <3>2, <3>3
    <3>5. CountInv /\ handle' = handle
      BY <1>3 DEF Good
    <3> QED
      BY <1>1, <2>2, <2>3, <3>4, <3>5, FreedCount
  <2>4. CASE UNCHANGED <<alloc, rc, color, buffered, field>>
    BY <1>3, <2>2, <2>4, QuietCount DEF Good, Settled
  <2> QED
    BY <1>3, <2>3, <2>4
<1>14. FreshInv'
  <2> SUFFICES ASSUME NEW x \in Cell, x \notin alloc'
               PROVE  rc'[x] = 0 /\ color'[x] = "black" /\ ~ buffered'[x] /\ field'[x] = NoSlots
    BY DEF FreshInv
  <2>1. CASE field'[x] = field[x] /\ x \notin alloc
    BY <1>11, <2>1 DEF Good, FreshInv
  <2>2. CASE x = c /\ rc[x] = 0 /\ field'[x] = NoSlots
    BY <1>11, <2>2
  <2> QED
    BY <1>11, <2>1, <2>2
<1>15. ColorInv'
  BY <1>11 DEF ColorInv
<1>16. VisitedInv'
  BY <1>7 DEF VisitedInv
<1>17. TaskInv'
  <2> SUFFICES ASSUME NEW t \in Pending(stack') PROVE TaskGood(t)'
    BY DEF TaskInv
  <2>1. CASE t = u
    BY <1>4, <1>7, <2>1 DEF TaskGood
  <2>2. CASE t \in Pending(Rest)
    <3>1. TaskGood(t) /\ t.fn \in {"decrement", "release_cell"}
      BY <1>1, <1>2, <2>2 DEF Good, TaskInv
    <3>2. ASSUME t.fn = "release_cell"
          PROVE  t.cell \in alloc' /\ rc'[t.cell] = 0 /\ color'[t.cell] = "black"
      BY <1>11, <1>12, <2>2, <3>1, <3>2 DEF TaskGood
    <3> QED
      BY <1>1, <1>8, <3>1, <3>2 DEF TaskGood
  <2> QED
    BY <1>5, <2>1, <2>2
<1>18. BufferInv'
  <2>1. \A k, m \in DOMAIN roots : roots[k] = roots[m] => k = m
    BY <1>2 DEF Good, BufferInv
  <2>2. ASSUME NEW k \in DOMAIN roots, u.i <= k
        PROVE  roots[k] \in alloc'
    <3>1. i <= k /\ k # i
      BY <1>1, <1>4, <2>2
    <3>2. roots[k] \in alloc
      BY <1>1, <1>2, <3>1 DEF Good, BufferInv
    <3>3. roots[k] # c
      BY <1>1, <2>1, <3>1
    <3> QED
      BY <1>1, <1>11, <3>2, <3>3
  <2>3. \A k \in DOMAIN roots :
          (\A t \in Pending(stack') : t.fn = "free_roots" => t.i <= k) => roots[k] \in alloc'
    BY <1>4, <1>5, <2>2
  <2> QED
    BY <1>3, <1>7, <1>8, <1>11, <2>1, <2>3 DEF BufferInv
<1>19. FoundInv'
  <2>1. Colored({"gray"})' = {}
    BY <1>11 DEF Colored
  <2>2. FoundFrom(field', Colored({"gray"})', TargetsOf({"scan", "incr_and_scan_black"})')
    BY <2>1, FoundNone
  <2> QED
    BY <1>7, <2>2 DEF FoundInv
<1>20. StackInv'
  BY <1>5, <1>6, <1>8 DEF Good, StackInv, GoodStack, Needed
<1> QED
  BY <1>1, <1>3, <1>13, <1>14, <1>15, <1>16, <1>17, <1>18, <1>19, <1>20 DEF Good

(* The end of qz_collect: the buffer is empty.                             *)
LEMMA FreeRootsDoneStep ==
  ASSUME ControlInv, Good, FreeRootsDone
  PROVE  Good'
<1>0. Calls("free_roots")
  BY DEF FreeRootsDone, LoopDone
<1>1. /\ fault = "none" /\ stack # <<>> /\ Top.fn = "free_roots"
      /\ Pending(stack) = {Top} \cup Pending(Rest)
      /\ GoodStack(Rest, InBuffer)
  BY <1>0, LoopFacts DEF LoopFn
<1>2. /\ \A x \in Cell : color[x] = "black" /\ ~ buffered[x]
      /\ \A t \in Pending(Rest) : t.fn \in {"decrement", "release_cell"}
  BY <1>0, FreeingFacts
<1>3. /\ roots' = <<>> /\ stack' = Rest
      /\ UNCHANGED <<alloc, rc, color, buffered, field, handle, fault, exposed>>
  BY DEF FreeRootsDone
<1>4. NoPass'
  <2>1. OnlyMutator'
    BY <1>2, <1>3 DEF OnlyMutator, MutatorFn
  <2> QED
    BY <2>1, OutsidePass, PTL
<1>5. DOMAIN roots' = {} /\ InBuffer' = {}
  <2>1. DOMAIN roots' = {}
    BY <1>3
  <2> QED
    BY <2>1 DEF InBuffer
<1>6. \A fn, x, y : fn # "free_roots" => (Pend(fn, x, y)' <=> Pend(fn, x, y))
  BY <1>1, <1>3, CellTaskFields DEF Pend
<1>7. CountInv'
  <2>1. \A x, y : Storing(x, y)' <=> Storing(x, y)
    BY <1>1, <1>3 DEF Storing
  <2>2. SameAccounting
    BY <1>6, <2>1 DEF SameAccounting
  <2> QED
    BY <1>3, <2>2, QuietCount DEF Good, Settled
<1>8. FreshInv'
  BY <1>3 DEF Good, FreshInv
<1>9. ColorInv'
  BY <1>2, <1>3 DEF ColorInv
<1>10. TaskInv'
  <2> SUFFICES ASSUME NEW t \in Pending(Rest) PROVE TaskGood(t)'
    BY <1>3 DEF TaskInv
  <2>1. TaskGood(t) /\ t.fn \in {"decrement", "release_cell"}
    BY <1>1, <1>2 DEF Good, TaskInv
  <2> QED
    BY <1>3, <1>4, <2>1 DEF TaskGood, NoPass
<1>11. BufferInv'
  BY <1>2, <1>3, <1>4, <1>5 DEF BufferInv, NoPass
<1>12. StackInv'
  <2>1. GoodStack(Rest, InBuffer')
    BY <1>1, <1>2, OtherBuffer
  <2> QED
    BY <1>3, <1>4, <2>1 DEF StackInv, GoodStack, NoPass
<1> QED
  BY <1>1, <1>3, <1>4, <1>7, <1>8, <1>9, <1>10, <1>11, <1>12 DEF Good, NoPass
=============================================================================
