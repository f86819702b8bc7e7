-------------------------- MODULE CollectorInvariant --------------------------
(***************************************************************************)
(* Why the collector is right: what holds in every state, the middle of a  *)
(* pass included, as long as no collection has started where it is not     *)
(* safe.  The stack keeps the order of a chain of C calls; every reference *)
(* is counted or a pending call will account for it; the colors say how    *)
(* far the passes have come.                                               *)
(***************************************************************************)
EXTENDS Collector

Calling(fn) == \E t \in Pending(stack) : t.fn = fn
Pend(fn, c, s) == CellTask(fn, c, s) \in Pending(stack)

\* qz_collect is running; its passes mark and scan; they mark
InPass  == Calling("free_roots")
Marking == Calling("mark_roots")
Tracing == \/ Calling("mark_roots") \/ Calling("scan_roots")
           \/ Calling("scan") \/ Calling("incr_and_scan_black")

(***************************************************************************)
(* The stack.                                                              *)
(***************************************************************************)

\* the functions that may be pending below a call of fn
Below(fn) ==
  MutatorFn \cup
  CASE fn \in MutatorFn -> {}
    [] fn = "decr_and_mark_gray" ->
         {"decr_and_mark_gray", "mark_roots", "scan_roots", "collect_roots", "free_roots"}
    [] fn = "mark_roots" -> {"scan_roots", "collect_roots", "free_roots"}
    [] fn = "scan_roots" -> {"collect_roots", "free_roots"}
    [] fn \in {"scan", "incr_and_scan_black"} ->
         {"scan", "incr_and_scan_black", "collect_roots", "free_roots"}
    [] fn \in {"collect_white", "free_cell"} ->
         {"collect_white", "free_cell", "collect_roots", "free_roots"}
    [] fn = "collect_roots" -> {"free_roots"}
    [] fn = "free_roots" -> {}

Nested(s) == \A i, k \in 1 .. Len(s) : i < k => s[k].fn \in Below(s[i].fn)

\* two visits of the same slot are never pending at once, where it matters
Unique(s) ==
  \A i, k \in 1 .. Len(s) :
    s[i] = s[k] /\ s[i].fn \notin {"scan", "collect_white"} => i = k

\* a visit of a child may need its cell to be kept until the call u is done:
\* the end of release_cell or collect_white, or the overwrite of the slot
NeedsAttendant(t, R) ==
  \/ t.fn = "decrement" /\ t.slot # 0
  \/ t.fn = "collect_white" /\ t.cell \notin R

Attends(u, t) ==
  /\ u.cell = t.cell
  /\ \/ t.fn = "decrement" /\ u.fn = "release_cell"
     \/ t.fn = "decrement" /\ u.fn = "store" /\ u.slot = t.slot
     \/ t.fn = "collect_white" /\ u.fn = "free_cell"

Attended(s, R) ==
  \A i \in 1 .. Len(s) :
    NeedsAttendant(s[i], R) => \E k \in 1 .. Len(s) : i < k /\ Attends(s[k], s[i])

\* a pass that is running has the later ones before it
Needed ==
  /\ Calling("decr_and_mark_gray") => Calling("mark_roots")
  /\ Calling("mark_roots") => Calling("scan_roots")
  /\ Calling("scan_roots") \/ Calling("scan") \/ Calling("incr_and_scan_black")
       \/ Calling("collect_white") \/ Calling("free_cell") => Calling("collect_roots")
  /\ Calling("collect_roots") => Calling("free_roots")

StackInv == Nested(stack) /\ Unique(stack) /\ Attended(stack, InBuffer) /\ Needed

(***************************************************************************)
(* The counts.  Slot 0 stands for the reference that qz_unref gives up.    *)
(***************************************************************************)
EdgeTarget(d, s) == IF s = 0 THEN d ELSE field[d][s]

Settled(d) == rc[d] > 0 /\ color[d] \in {"black", "purple"}

\* the slot is being overwritten
Storing(d, s) ==
  \E t \in Pending(stack) : t.fn = "store" /\ t.cell = d /\ t.slot = s

\* the count of the cell in slot s of d includes this slot
Counts(d, s) ==
  \/ Pend("decrement", d, s)
  \/ Pend("decr_and_mark_gray", d, s)
  \/ /\ s # 0 /\ Settled(d)
     /\ ~ Pend("incr_and_scan_black", d, s) /\ ~ Storing(d, s)

Edge == Cell \X (0 .. Width)

InRefs(c) == {e \in Edge : EdgeTarget(e[1], e[2]) = c /\ Counts(e[1], e[2])}

CountInv == \A c \in Cell : rc[c] = handle[c] + Cardinality(InRefs(c))

(***************************************************************************)
(* Cells.                                                                  *)
(***************************************************************************)
FreshInv ==
  \A c \in Cell \ alloc :
    rc[c] = 0 /\ color[c] = "black" /\ ~ buffered[c] /\ field[c] = NoSlots

ColorInv ==
  \A c \in Cell :
    /\ color[c] = "purple" =>
         /\ buffered[c] /\ (InPass => Marking)
         /\ rc[c] > 0 \/ Pend("release_cell", c, 0)
    /\ color[c] = "gray" => Tracing
    /\ color[c] = "white" => rc[c] = 0 /\ Calling("collect_roots") /\ ~ Calling("scan_roots")

\* mark_gray came by, or scan_black has been here again
Visited(c) ==
  c \in alloc /\ (color[c] \in {"gray", "white"} \/ (color[c] = "black" /\ rc[c] > 0))

VisitedInv ==
  Tracing =>
    \A d \in Cell, s \in Slot :
      color[d] \in {"gray", "white"} /\ ~ Pend("decr_and_mark_gray", d, s)
        /\ field[d][s] # NoCell => Visited(field[d][s])

(***************************************************************************)
(* Pending calls.                                                          *)
(***************************************************************************)
TaskGood(t) ==
  /\ t.fn = "release_cell" =>
       /\ t.slot = 0 /\ t.cell \in alloc /\ rc[t.cell] = 0
       /\ color[t.cell] \in {"black", "purple"}
       /\ InPass => t.cell \notin InBuffer
  /\ t.fn = "store" =>
       /\ ~ InPass /\ handle[t.cell] > 0
       /\ t.val = t.cell => handle[t.cell] > 1
  /\ t.fn = "decr_and_mark_gray" => t.slot # 0 /\ color[t.cell] = "gray"
  /\ t.fn = "scan" =>
       /\ t.cell \in alloc
       /\ Target(t) # NoCell => Visited(Target(t))
  /\ t.fn = "incr_and_scan_black" =>
       /\ t.slot # 0 /\ color[t.cell] = "black" /\ rc[t.cell] > 0
       /\ Target(t) # NoCell => Visited(Target(t))
  /\ t.fn = "collect_white" =>
       t.slot # 0 /\ t.cell \in alloc /\ color[t.cell] = "black" /\ rc[t.cell] = 0
  /\ t.fn = "free_cell" =>
       /\ t.slot = 0 /\ t.cell \in alloc /\ color[t.cell] = "black" /\ rc[t.cell] = 0
       /\ t.cell \notin InBuffer /\ ~ Pend("release_cell", t.cell, 0)
  /\ t.fn = "collect_roots" /\ Tracing => t.i = 1
  /\ t.fn = "free_roots" /\ Calling("collect_roots") => t.i = 1

TaskInv == \A t \in Pending(stack) : TaskGood(t)

(***************************************************************************)
(* The root buffer.                                                        *)
(***************************************************************************)

\* the elements that mark_roots has kept or has yet to see
InUse ==
  {k \in DOMAIN roots :
     \A t \in Pending(stack) : t.fn = "mark_roots" => k < t.j \/ t.i <= k}

\* those of them whose buffered bit is still set
StillBuffered ==
  {k \in InUse :
     /\ \A t \in Pending(stack) : t.fn = "collect_roots" => t.i <= k
     /\ InPass => Calling("collect_roots")}

\* the elements that mark_roots has kept
Kept ==
  {k \in InUse : \A t \in Pending(stack) : t.fn = "mark_roots" => k < t.j}

BufferInv ==
  /\ \A k, m \in InUse : roots[k] = roots[m] => k = m
  /\ \A c \in Cell : buffered[c] <=> \E k \in StillBuffered : roots[k] = c
  /\ Calling("scan_roots") => \A k \in Kept : color[roots[k]] = "gray"
  /\ InPass /\ ~ Tracing => \A k \in DOMAIN roots :
       /\ Calling("collect_roots") => roots[k] \in alloc
       /\ k \notin StillBuffered /\ Calling("collect_roots") => color[roots[k]] = "black"
       /\ (\A t \in Pending(stack) : t.fn = "free_roots" => t.i <= k) => roots[k] \in alloc

(***************************************************************************)
(* No cell is left behind: the cells of S can be reached from those of B   *)
(* through cells of S.                                                     *)
(***************************************************************************)
FoundFrom(h, S, B) ==
  \A T \in SUBSET Cell :
    /\ B \cap S \subseteq T
    /\ \A d \in T \cap S, s \in Slot : h[d][s] \in S => h[d][s] \in T
    => S \subseteq T

Colored(C) == {c \in Cell : color[c] \in C}
TargetsOf(fns) == {Target(t) : t \in {u \in Pending(stack) : u.fn \in fns}}
RootsAt(I) == {roots[k] : k \in I}

FoundInv ==
  /\ Calling("scan_roots") =>
       FoundFrom(field, Colored({"gray"}), RootsAt(Kept))
  /\ InPass /\ ~ Calling("scan_roots") =>
       FoundFrom(field, Colored({"gray"}), TargetsOf({"scan", "incr_and_scan_black"}))
  /\ Tracing /\ ~ Calling("scan_roots") =>
       FoundFrom(field, Colored({"gray", "white"}),
                 InBuffer \cup TargetsOf({"incr_and_scan_black"}))
  /\ Calling("collect_roots") /\ ~ Tracing =>
       FoundFrom(field, Colored({"white"}),
                 RootsAt(StillBuffered) \cup TargetsOf({"collect_white"}))

Good ==
  /\ fault = "none"
  /\ StackInv /\ CountInv /\ FreshInv /\ ColorInv /\ VisitedInv /\ TaskInv
  /\ BufferInv /\ FoundInv

IInv == ControlInv /\ (exposed \/ Good)
=============================================================================
