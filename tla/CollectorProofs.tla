--------------------------- MODULE CollectorProofs ---------------------------
(***************************************************************************)
(* Proofs about Collector, for any set of cells, any width of a cell and   *)
(* any capacity of the root buffer: the types, that the passes never       *)
(* overflow the buffer (BufferBounded), and the first part of the proof    *)
(* that the collector is right: the call stack, the arithmetic of the      *)
(* counts, and the steps that run outside the passes of qz_collect, which  *)
(* are the operations of the interpreter and the functions that give up a  *)
(* reference.                                                              *)
(***************************************************************************)
EXTENDS CollectorInvariant, SequenceTheorems, FiniteSetTheorems, TLAPS

(***************************************************************************)
(* Pending calls.                                                          *)
(***************************************************************************)

(* A pending call has the components its function needs.                   *)
LEMMA TaskTypes ==
  ASSUME NEW t \in TaskSet
  PROVE  /\ t.fn \in MutatorFn \cup CollectorFn
         /\ t.fn \in LoopFn => t.i \in Nat \ {0} /\ t.j \in Nat \ {0}
         /\ t.fn = "store" => t.cell \in Cell /\ t.slot \in Slot /\ t.val \in Ref
         /\ t.fn \notin LoopFn => t.cell \in Cell /\ t.slot \in 0 .. Width
  <1>1. CASE t \in CellTaskSet
    BY <1>1 DEF CellTaskSet, VisitFn, LoopFn, CollectorFn, MutatorFn
  <1>2. CASE t \in StoreTaskSet
    BY <1>2, HeapGraphAssumption
       DEF StoreTaskSet, LoopFn, CollectorFn, MutatorFn, Slot
  <1>3. CASE t \in LoopTaskSet
    BY <1>3 DEF LoopTaskSet, LoopFn, CollectorFn, MutatorFn
  <1> QED BY <1>1, <1>2, <1>3 DEF TaskSet

(* The constructors build pending calls.                                   *)
LEMMA CellTaskType ==
  ASSUME NEW fn \in {"decrement", "release_cell"} \cup VisitFn,
         NEW c \in Cell, NEW s \in 0 .. Width
  PROVE  CellTask(fn, c, s) \in TaskSet /\ CellTask(fn, c, s).fn = fn
  BY DEF CellTask, TaskSet, CellTaskSet

LEMMA LoopTaskType ==
  ASSUME NEW fn \in LoopFn, NEW i \in Nat \ {0}, NEW j \in Nat \ {0}
  PROVE  /\ LoopTask(fn, i, j) \in TaskSet
         /\ LoopTask(fn, i, j).fn = fn
         /\ LoopTask(fn, i, j).i = i
         /\ LoopTask(fn, i, j).j = j
  BY DEF LoopTask, TaskSet, LoopTaskSet

(* all_children makes one call per slot, all of the same function.         *)
LEMMA AllChildrenType ==
  ASSUME NEW fn \in {"decrement"} \cup VisitFn, NEW c \in Cell
  PROVE  /\ AllChildren(fn, c) \in Seq(TaskSet)
         /\ \A k \in 1 .. Len(AllChildren(fn, c)) : AllChildren(fn, c)[k].fn = fn
  <1>1. \A s \in Slot : CellTask(fn, c, s) \in TaskSet /\ CellTask(fn, c, s).fn = fn
    BY CellTaskType, HeapGraphAssumption DEF Slot
  <1>2. AllChildren(fn, c) \in [1 .. Width -> TaskSet]
    BY <1>1 DEF AllChildren, Slot
  <1>3. AllChildren(fn, c) \in Seq(TaskSet)
    BY <1>2, SeqDef, HeapGraphAssumption
  <1>4. Len(AllChildren(fn, c)) = Width
    BY <1>2, <1>3, LenProperties, HeapGraphAssumption
  <1> QED BY <1>1, <1>3, <1>4 DEF AllChildren, Slot

(***************************************************************************)
(* The stack.                                                              *)
(***************************************************************************)

StackOK(s) == s \in Seq(TaskSet) /\ Layered(s) /\ StoreLast(s)

\* the calls p may take the place of the call t at the top of a stack
MayReplace(p, t) ==
  /\ p \in Seq(TaskSet)
  /\ Layered(p)
  /\ \A k \in 1 .. Len(p) : p[k].fn # "store"
  /\ t.fn \in CollectorFn => \A k \in 1 .. Len(p) : p[k].fn \in CollectorFn
  /\ t.fn = "decr_and_mark_gray" =>
       \A k \in 1 .. Len(p) : p[k].fn = "decr_and_mark_gray"

(* Replacing the call at the top keeps the discipline of the stack; what   *)
(* is pending afterwards is what was pushed and what was below the top.    *)
LEMMA ReplaceTop ==
  ASSUME NEW s, StackOK(s), s # <<>>,
         NEW p, MayReplace(p, Head(s))
  PROVE  /\ StackOK(p \o Tail(s))
         /\ Pending(p \o Tail(s)) = Pending(p) \cup Pending(Tail(s))
  <1> DEFINE r == Tail(s)
             q == p \o r
  <1>1. /\ s \in Seq(TaskSet) /\ r \in Seq(TaskSet) /\ p \in Seq(TaskSet)
        /\ Len(s) \in Nat \ {0} /\ Len(r) = Len(s) - 1 /\ Len(p) \in Nat
        /\ Head(s) = s[1]
        /\ \A k \in 1 .. Len(r) : r[k] = s[k + 1]
    BY HeadTailProperties, LenProperties, EmptySeq DEF StackOK, MayReplace
  <1>2. /\ q \in Seq(TaskSet)
        /\ Len(q) = Len(p) + Len(r)
        /\ \A k \in 1 .. Len(p) : q[k] = p[k]
        /\ \A k \in 1 .. Len(r) : q[Len(p) + k] = r[k]
    BY <1>1, ConcatProperties
  <1> HIDE DEF q, r
  <1>3. \A k \in 1 .. Len(q) : k \in 1 .. Len(p) \/ k - Len(p) \in 1 .. Len(r)
    BY <1>1, <1>2
  <1>4. \A k \in 1 .. Len(q) : k \notin 1 .. Len(p) =>
            /\ k - Len(p) + 1 \in 2 .. Len(s)
            /\ q[k] = s[k - Len(p) + 1]
    <2> SUFFICES ASSUME NEW k \in 1 .. Len(q), k \notin 1 .. Len(p)
                 PROVE  /\ k - Len(p) + 1 \in 2 .. Len(s)
                        /\ q[k] = s[k - Len(p) + 1]
      OBVIOUS
    <2> DEFINE m == k - Len(p)
    <2>1. m \in 1 .. Len(r) /\ Len(p) + m = k
      BY <1>1, <1>3
    <2>2. q[Len(p) + m] = r[m] /\ r[m] = s[m + 1]
      BY <2>1, <1>1, <1>2
    <2>3. m + 1 \in 2 .. Len(s)
      BY <2>1, <1>1
    <2> QED BY <2>1, <2>2, <2>3
  <1>5. Layered(q)
    <2> SUFFICES ASSUME NEW i \in 1 .. Len(q), NEW k \in 1 .. Len(q), i < k
                 PROVE  /\ q[k].fn \in LoopFn => q[i].fn \in CollectorFn
                        /\ q[k].fn = "mark_roots" => q[i].fn = "decr_and_mark_gray"
      BY DEF Layered
    <2>1. CASE k \in 1 .. Len(p)
      <3>1. i \in 1 .. Len(p)
        BY <2>1, <1>1, <1>2
      <3> QED BY <2>1, <3>1, <1>2 DEF MayReplace, Layered
    <2>2. CASE k \notin 1 .. Len(p) /\ i \in 1 .. Len(p)
      <3>1. /\ q[k].fn \in LoopFn => Head(s).fn \in CollectorFn
            /\ q[k].fn = "mark_roots" => Head(s).fn = "decr_and_mark_gray"
        <4> DEFINE kk == k - Len(p) + 1
        <4>1. kk \in 1 .. Len(s) /\ 1 \in 1 .. Len(s) /\ 1 < kk /\ q[k] = s[kk]
          BY <2>2, <1>1, <1>4
        <4> HIDE DEF kk
        <4> QED BY <4>1, <1>1 DEF StackOK, Layered
      <3> QED BY <2>2, <3>1, <1>2 DEF MayReplace
    <2>3. CASE k \notin 1 .. Len(p) /\ i \notin 1 .. Len(p)
      <3> DEFINE kk == k - Len(p) + 1
                 ii == i - Len(p) + 1
      <3>1. /\ kk \in 1 .. Len(s) /\ ii \in 1 .. Len(s) /\ ii < kk
            /\ q[k] = s[kk] /\ q[i] = s[ii]
        BY <2>3, <1>1, <1>2, <1>4
      <3> HIDE DEF kk, ii
      <3> QED BY <3>1 DEF StackOK, Layered
    <2> QED BY <2>1, <2>2, <2>3
  <1>6. StoreLast(q)
    <2> SUFFICES ASSUME NEW k \in 1 .. Len(q), q[k].fn = "store"
                 PROVE  k = Len(q)
      BY DEF StoreLast
    <2>1. k \notin 1 .. Len(p)
      BY <1>2 DEF MayReplace
    <2> DEFINE kk == k - Len(p) + 1
    <2>2. kk \in 1 .. Len(s) /\ s[kk].fn = "store"
      BY <2>1, <1>1, <1>4
    <2> HIDE DEF kk
    <2>3. kk = Len(s)
      BY <2>2 DEF StackOK, StoreLast
    <2>4. k - Len(p) + 1 = Len(s)
      BY <2>3 DEF kk
    <2> QED BY <2>4, <1>1, <1>2
  <1>7. Pending(q) \subseteq Pending(p) \cup Pending(r)
    <2> SUFFICES ASSUME NEW k \in 1 .. Len(q)
                 PROVE  q[k] \in Pending(p) \cup Pending(r)
      BY DEF Pending
    <2>1. CASE k \in 1 .. Len(p)
      BY <2>1, <1>2 DEF Pending
    <2>2. CASE k - Len(p) \in 1 .. Len(r)
      <3>1. q[k] = r[k - Len(p)]
        BY <2>2, <1>1, <1>2
      <3> QED BY <2>2, <3>1 DEF Pending
    <2> QED BY <2>1, <2>2, <1>3
  <1>8. Pending(p) \cup Pending(r) \subseteq Pending(q)
    <2>1. \A k \in 1 .. Len(p) : k \in 1 .. Len(q)
      BY <1>1, <1>2
    <2>2. \A k \in 1 .. Len(r) : Len(p) + k \in 1 .. Len(q)
      BY <1>1, <1>2
    <2> QED BY <2>1, <2>2, <1>2 DEF Pending
  <1> QED BY <1>2, <1>5, <1>6, <1>7, <1>8 DEF StackOK, q, r

(* Returning from the call at the top: a replacement by no calls.          *)
LEMMA PopTop ==
  ASSUME NEW s, StackOK(s), s # <<>>
  PROVE  StackOK(Tail(s)) /\ Pending(Tail(s)) \subseteq Pending(s)
  <1>1. /\ s \in Seq(TaskSet) /\ Tail(s) \in Seq(TaskSet)
        /\ Len(s) \in Nat \ {0} /\ Len(Tail(s)) = Len(s) - 1
        /\ \A k \in 1 .. Len(Tail(s)) : Tail(s)[k] = s[k + 1]
    BY HeadTailProperties, LenProperties, EmptySeq DEF StackOK
  <1>2. \A k \in 1 .. Len(Tail(s)) : k + 1 \in 1 .. Len(s)
    BY <1>1
  <1>3. Layered(Tail(s))
    BY <1>1, <1>2 DEF StackOK, Layered
  <1>4. StoreLast(Tail(s))
    <2> SUFFICES ASSUME NEW k \in 1 .. Len(Tail(s)), Tail(s)[k].fn = "store"
                 PROVE  k = Len(Tail(s))
      BY DEF StoreLast
    <2> DEFINE kk == k + 1
    <2>1. kk \in 1 .. Len(s) /\ s[kk].fn = "store"
      BY <1>1, <1>2
    <2> HIDE DEF kk
    <2>2. kk = Len(s)
      BY <2>1 DEF StackOK, StoreLast
    <2> QED BY <2>2, <1>1 DEF kk
  <1> QED BY <1>1, <1>2, <1>3, <1>4 DEF StackOK, Pending

(* What may lie below the call at the top.                                 *)
LEMMA BelowTop ==
  ASSUME NEW s, StackOK(s), s # <<>>
  PROVE  /\ Head(s) \in TaskSet
         /\ Head(s) \in Pending(s)
         /\ Pending(s) = {Head(s)} \cup Pending(Tail(s))
         /\ Head(s).fn # "decr_and_mark_gray" =>
              \A t \in Pending(Tail(s)) : t.fn # "mark_roots"
         /\ Head(s).fn \notin CollectorFn =>
              \A t \in Pending(Tail(s)) : t.fn \notin LoopFn
  <1>1. /\ s \in Seq(TaskSet) /\ Tail(s) \in Seq(TaskSet)
        /\ Len(s) \in Nat \ {0} /\ Len(Tail(s)) = Len(s) - 1
        /\ Head(s) = s[1]
        /\ \A k \in 1 .. Len(Tail(s)) : Tail(s)[k] = s[k + 1]
    BY HeadTailProperties, LenProperties, EmptySeq DEF StackOK
  <1>2. \A k \in 1 .. Len(Tail(s)) : k + 1 \in 1 .. Len(s) /\ 1 < k + 1
    BY <1>1
  <1>3. \A k \in 1 .. Len(s) : k = 1 \/ k - 1 \in 1 .. Len(Tail(s))
    BY <1>1
  <1>4. \A k \in 1 .. Len(s) : k # 1 => s[k] = Tail(s)[k - 1]
    BY <1>1, <1>3
  <1>5. Head(s) \in TaskSet /\ 1 \in 1 .. Len(s)
    BY <1>1, ElementOfSeq
  <1>6. Pending(s) = {Head(s)} \cup Pending(Tail(s))
    BY <1>1, <1>2, <1>3, <1>4, <1>5 DEF Pending
  <1>7. \A k \in 1 .. Len(Tail(s)) :
          /\ Head(s).fn # "decr_and_mark_gray" => Tail(s)[k].fn # "mark_roots"
          /\ Head(s).fn \notin CollectorFn => Tail(s)[k].fn \notin LoopFn
    BY <1>1, <1>2, <1>5 DEF StackOK, Layered
  <1> QED BY <1>5, <1>6, <1>7 DEF Pending

(***************************************************************************)
(* The calls pushed by the steps of the collector.                         *)
(***************************************************************************)

(* A visit of the children, alone.                                         *)
LEMMA ChildrenMayReplace ==
  ASSUME NEW fn \in {"decrement"} \cup VisitFn, NEW c \in Cell,
         NEW t \in TaskSet,
         t.fn \in CollectorFn => fn \in CollectorFn,
         t.fn = "decr_and_mark_gray" => fn = "decr_and_mark_gray"
  PROVE  /\ MayReplace(AllChildren(fn, c), t)
         /\ \A u \in Pending(AllChildren(fn, c)) : u.fn = fn
  <1>1. fn \notin LoopFn /\ fn # "store"
    BY DEF VisitFn, LoopFn
  <1> QED BY <1>1, AllChildrenType DEF MayReplace, Layered, Pending, LoopFn

(* A visit of the children and then one more call u.                       *)
LEMMA ChildrenThenMayReplace ==
  ASSUME NEW fn \in {"decrement"} \cup VisitFn, NEW c \in Cell,
         NEW t \in TaskSet, NEW u \in TaskSet,
         u.fn # "store",
         t.fn # "decr_and_mark_gray",
         t.fn \in CollectorFn => fn \in CollectorFn /\ u.fn \in CollectorFn,
         u.fn \in LoopFn => fn \in CollectorFn,
         u.fn = "mark_roots" => fn = "decr_and_mark_gray"
  PROVE  /\ MayReplace(AllChildren(fn, c) \o <<u>>, t)
         /\ \A v \in Pending(AllChildren(fn, c) \o <<u>>) : v.fn = fn \/ v = u
         /\ u \in Pending(AllChildren(fn, c) \o <<u>>)
  <1> DEFINE a == AllChildren(fn, c)
             q == a \o <<u>>
  <1>1. /\ a \in Seq(TaskSet) /\ Len(a) \in Nat
        /\ \A k \in 1 .. Len(a) : a[k].fn = fn
        /\ <<u>> \in Seq(TaskSet) /\ Len(<<u>>) = 1 /\ <<u>>[1] = u
    BY AllChildrenType, LenProperties
  <1>2. /\ q \in Seq(TaskSet)
        /\ Len(q) = Len(a) + 1
        /\ \A k \in 1 .. Len(a) : q[k].fn = fn
        /\ q[Len(a) + 1] = u
    BY <1>1, ConcatProperties
  <1> HIDE DEF a, q
  <1>3. \A k \in 1 .. Len(q) : k \in 1 .. Len(a) \/ k = Len(a) + 1
    BY <1>1, <1>2
  <1>4. \A k \in 1 .. Len(q) : q[k].fn = fn \/ q[k] = u
    BY <1>2, <1>3
  <1>5. Layered(q)
    <2> SUFFICES ASSUME NEW i \in 1 .. Len(q), NEW k \in 1 .. Len(q), i < k
                 PROVE  /\ q[k].fn \in LoopFn => q[i].fn \in CollectorFn
                        /\ q[k].fn = "mark_roots" => q[i].fn = "decr_and_mark_gray"
      BY DEF Layered
    <2>1. i \in 1 .. Len(a)
      BY <1>1, <1>2
    <2>2. q[i].fn = fn
      BY <2>1, <1>2
    <2>3. fn \notin LoopFn
      BY DEF VisitFn, LoopFn
    <2> QED BY <2>2, <2>3, <1>4 DEF LoopFn
  <1>6. \A k \in 1 .. Len(q) : q[k].fn # "store"
    BY <1>4 DEF VisitFn
  <1>7. Len(a) + 1 \in 1 .. Len(q)
    BY <1>1, <1>2
  <1>8. MayReplace(q, t)
    BY <1>2, <1>4, <1>5, <1>6 DEF MayReplace
  <1> QED BY <1>2, <1>4, <1>7, <1>8 DEF Pending, a, q

(* One call u.                                                             *)
LEMMA OneMayReplace ==
  ASSUME NEW t \in TaskSet, NEW u \in TaskSet,
         u.fn # "store",
         t.fn # "decr_and_mark_gray",
         t.fn \in CollectorFn => u.fn \in CollectorFn
  PROVE  MayReplace(<<u>>, t) /\ Pending(<<u>>) = {u}
  <1>1. <<u>> \in Seq(TaskSet) /\ Len(<<u>>) = 1 /\ <<u>>[1] = u
    OBVIOUS
  <1>2. \A k \in 1 .. Len(<<u>>) : k = 1
    BY <1>1
  <1>3. Layered(<<u>>)
    BY <1>1, <1>2 DEF Layered
  <1> QED BY <1>1, <1>2, <1>3 DEF MayReplace, Pending

(* qz_collect.                                                             *)
LEMMA CollectMayReplace ==
  ASSUME NEW t \in TaskSet, t.fn \notin CollectorFn
  PROVE  /\ MayReplace(CollectTasks, t)
         /\ \A u \in Pending(CollectTasks) : u.fn # "store" /\ u.i = 1 /\ u.j = 1
         /\ \E u \in Pending(CollectTasks) : u.fn = "free_roots"
  <1> DEFINE q == CollectTasks
  <1>1. \A fn \in LoopFn : /\ LoopTask(fn, 1, 1) \in TaskSet
                           /\ LoopTask(fn, 1, 1).fn = fn
                           /\ LoopTask(fn, 1, 1).i = 1
                           /\ LoopTask(fn, 1, 1).j = 1
    BY LoopTaskType
  <1>2. /\ q \in Seq(TaskSet) /\ Len(q) = 4
        /\ q[1] = LoopTask("mark_roots", 1, 1)
        /\ q[2] = LoopTask("scan_roots", 1, 1)
        /\ q[3] = LoopTask("collect_roots", 1, 1)
        /\ q[4] = LoopTask("free_roots", 1, 1)
    BY <1>1 DEF CollectTasks, LoopFn
  <1>3. \A k \in 1 .. Len(q) : k \in {1, 2, 3, 4}
    BY <1>2
  <1>4. \A k \in 1 .. Len(q) : /\ q[k].fn \in LoopFn
                               /\ q[k].fn = "mark_roots" => k = 1
                               /\ q[k].i = 1 /\ q[k].j = 1
    BY <1>1, <1>2, <1>3 DEF LoopFn
  <1>5. 4 \in 1 .. Len(q) /\ q[4].fn = "free_roots"
    BY <1>1, <1>2 DEF LoopFn
  <1>6. Layered(q)
    <2> SUFFICES ASSUME NEW i \in 1 .. Len(q), NEW k \in 1 .. Len(q), i < k
                 PROVE  q[i].fn \in CollectorFn /\ q[k].fn # "mark_roots"
      BY DEF Layered
    <2>1. k # 1
      BY <1>2
    <2> QED BY <2>1, <1>4 DEF CollectorFn
  <1>7. \A k \in 1 .. Len(q) : q[k].fn # "store" /\ q[k].fn \in CollectorFn
    BY <1>4 DEF LoopFn, CollectorFn
  <1>8. MayReplace(q, t)
    <2>1. t.fn # "decr_and_mark_gray"
      BY DEF CollectorFn, VisitFn
    <2> QED BY <1>2, <1>6, <1>7, <2>1 DEF MayReplace
  <1> QED BY <1>4, <1>5, <1>7, <1>8 DEF Pending

(* scan_roots.                                                             *)
LEMMA ScansMayReplace ==
  ASSUME NEW t \in TaskSet, t.fn = "scan_roots", NEW rs \in Seq(Cell)
  PROVE  LET q == [k \in 1 .. Len(rs) |-> CellTask("scan", rs[k], 0)]
         IN  MayReplace(q, t) /\ \A u \in Pending(q) : u.fn = "scan"
  <1> DEFINE q == [k \in 1 .. Len(rs) |-> CellTask("scan", rs[k], 0)]
  <1>1. Len(rs) \in Nat /\ \A k \in 1 .. Len(rs) : rs[k] \in Cell
    BY LenProperties, ElementOfSeq
  <1>2. \A k \in 1 .. Len(rs) : /\ CellTask("scan", rs[k], 0) \in TaskSet
                                /\ CellTask("scan", rs[k], 0).fn = "scan"
    BY <1>1, CellTaskType, HeapGraphAssumption DEF VisitFn
  <1>3. q \in [1 .. Len(rs) -> TaskSet]
    BY <1>2
  <1>4. q \in Seq(TaskSet)
    BY <1>1, <1>3, SeqDef
  <1>5. Len(q) = Len(rs)
    BY <1>1, <1>3, <1>4, LenProperties
  <1>6. \A k \in 1 .. Len(q) : q[k].fn = "scan"
    BY <1>2, <1>5
  <1> HIDE DEF q
  <1>7. Layered(q)
    BY <1>6 DEF Layered, LoopFn
  <1>8. MayReplace(q, t)
    BY <1>4, <1>6, <1>7 DEF MayReplace, CollectorFn, VisitFn
  <1>9. \A u \in Pending(q) : u.fn = "scan"
    BY <1>6 DEF Pending
  <1> QED BY <1>8, <1>9 DEF q

(***************************************************************************)
(* Steps that leave the buffer and the references of the interpreter.      *)
(***************************************************************************)

\* the parts of ControlInv about the stack and the buffer
StackAndBufferOK ==
  /\ StackOK(stack)
  /\ StoreOwned
  /\ MarkIndexes
  /\ Len(roots) <= Capacity
  /\ FullOnlyInPass

(* A call replaced by calls that are neither mark_roots nor an assignment. *)
LEMMA QuietStep ==
  ASSUME ControlInv, stack # <<>>,
         NEW p, MayReplace(p, Top), stack' = p \o Rest,
         \A u \in Pending(p) : u.fn # "mark_roots",
         Top.fn = "free_roots" => \E u \in Pending(p) : u.fn = "free_roots",
         roots' = roots, handle' = handle
  PROVE  StackAndBufferOK'
  <1>1. StackOK(stack)
    BY DEF ControlInv, TypeOK, StackOK
  <1>2. StackOK(stack') /\ Pending(stack') = Pending(p) \cup Pending(Rest)
    BY <1>1, ReplaceTop DEF Top, Rest
  <1>3. Pending(stack) = {Top} \cup Pending(Rest)
    BY <1>1, BelowTop DEF Top, Rest
  <1>4. \A u \in Pending(p) : u.fn # "store"
    BY DEF MayReplace, Pending
  <1>5. StoreOwned'
    BY <1>2, <1>3, <1>4 DEF ControlInv, StoreOwned
  <1>6. MarkIndexes'
    BY <1>2, <1>3 DEF ControlInv, MarkIndexes
  <1>7. FullOnlyInPass'
    BY <1>2, <1>3 DEF ControlInv, FullOnlyInPass
  <1> QED BY <1>2, <1>5, <1>6, <1>7 DEF StackAndBufferOK, ControlInv

(* A call that returns.                                                    *)
LEMMA QuietPop ==
  ASSUME ControlInv, stack # <<>>, stack' = Rest, Top.fn # "free_roots",
         roots' = roots, handle' = handle
  PROVE  StackAndBufferOK'
  <1>1. StackOK(stack)
    BY DEF ControlInv, TypeOK, StackOK
  <1>2. StackOK(stack')
    BY <1>1, PopTop DEF Rest
  <1>3. Pending(stack) = {Top} \cup Pending(stack')
    BY <1>1, BelowTop DEF Top, Rest
  <1>4. StoreOwned' /\ MarkIndexes' /\ FullOnlyInPass'
    BY <1>3 DEF ControlInv, StoreOwned, MarkIndexes, FullOnlyInPass
  <1> QED BY <1>2, <1>4 DEF StackAndBufferOK, ControlInv

(* The cell that a visit is about.                                         *)
LEMMA VisitTarget ==
  ASSUME ControlInv, NEW fn \in {"decrement", "release_cell"} \cup VisitFn,
         Visits(fn)
  PROVE  /\ stack # <<>> /\ Top \in TaskSet /\ Top.fn = fn
         /\ Target(Top) \in Cell
  <1>1. StackOK(stack) /\ stack # <<>> /\ Top.fn = fn /\ Target(Top) # NoCell
    BY DEF ControlInv, TypeOK, StackOK, Visits, Calls
  <1>2. Top \in TaskSet
    BY <1>1, BelowTop DEF Top
  <1>3. Top.cell \in Cell /\ Top.slot \in 0 .. Width
    BY <1>1, <1>2, TaskTypes DEF VisitFn, LoopFn
  <1>4. Top.slot # 0 => Top.slot \in Slot
    BY <1>3, HeapGraphAssumption DEF Slot
  <1>5. Target(Top) \in Ref
    BY <1>3, <1>4 DEF ControlInv, TypeOK, Target, Ref
  <1> QED BY <1>1, <1>2, <1>5 DEF Ref

(* The element of the buffer that a loop is at.                            *)
LEMMA LoopTop ==
  ASSUME ControlInv, NEW fn \in LoopFn, Calls(fn)
  PROVE  /\ stack # <<>> /\ Top \in TaskSet /\ Top.fn = fn
         /\ Top.i \in Nat \ {0} /\ Top.j \in Nat \ {0}
         /\ Top.i <= Len(roots) => roots[Top.i] \in Cell
         /\ fn = "mark_roots" => Top.j <= Top.i /\ Top.i <= Len(roots) + 1
         /\ \A t \in Pending(Rest) : t.fn # "mark_roots"
  <1>1. StackOK(stack) /\ stack # <<>> /\ Top.fn = fn
    BY DEF ControlInv, TypeOK, StackOK, Calls
  <1>2. Top \in TaskSet /\ Top \in Pending(stack)
    BY <1>1, BelowTop DEF Top
  <1>3. Top.i \in Nat \ {0} /\ Top.j \in Nat \ {0}
    BY <1>1, <1>2, TaskTypes
  <1>4. Top.i <= Len(roots) => roots[Top.i] \in Cell
    BY <1>3, ElementOfSeq, LenProperties DEF ControlInv, TypeOK
  <1>5. fn = "mark_roots" => Top.j <= Top.i /\ Top.i <= Len(roots) + 1
    BY <1>1, <1>2 DEF ControlInv, MarkIndexes
  <1>6. \A t \in Pending(Rest) : t.fn # "mark_roots"
    BY <1>1, BelowTop DEF Top, Rest, LoopFn
  <1> QED BY <1>1, <1>2, <1>3, <1>4, <1>5, <1>6

\* the part of TypeOK about the memory of the cells
CellsOK ==
  /\ alloc \in SUBSET Cell
  /\ rc \in [Cell -> Nat]
  /\ color \in [Cell -> Color]
  /\ buffered \in [Cell -> BOOLEAN]
  /\ field \in [Cell -> [Slot -> Ref]]

(* Freeing a cell keeps the types.                                         *)
LEMMA FreedTypes ==
  ASSUME TypeOK, NEW c \in Cell, Freed(c)
  PROVE  CellsOK'
  <1>1. NoSlots \in [Slot -> Ref]
    BY DEF NoSlots, Ref
  <1> QED BY <1>1 DEF TypeOK, CellsOK, Freed, Color

(***************************************************************************)
(* ControlInv is inductive.                                                *)
(***************************************************************************)

ReferencesOK ==
  /\ handle \in [Cell -> Nat]
  /\ fault \in {"none", "assert", "use_after_free"}
  /\ exposed \in BOOLEAN

(* The parts of ControlInv put together again.                             *)
LEMMA Reassemble ==
  ASSUME CellsOK', ReferencesOK', StackAndBufferOK', (roots \in Seq(Cell))'
  PROVE  ControlInv'
  BY DEF CellsOK, ReferencesOK, StackAndBufferOK, StackOK, ControlInv, TypeOK

(* The state in which the interpreter starts.                              *)
LEMMA InitControl == Init => ControlInv
  <1> SUFFICES ASSUME Init PROVE ControlInv
    OBVIOUS
  <1>1. stack = <<>> /\ roots = <<>> /\ Len(stack) = 0 /\ Len(roots) = 0
    BY DEF Init
  <1>2. TypeOK
    <2>1. roots \in Seq(Cell) /\ stack \in Seq(TaskSet)
      BY <1>1, EmptySeq
    <2>2. NoSlots \in [Slot -> Ref]
      BY DEF NoSlots, Ref
    <2> QED BY <2>1, <2>2 DEF Init, TypeOK, Color
  <1>3. Pending(stack) = {} /\ Layered(stack) /\ StoreLast(stack)
    BY <1>1 DEF Pending, Layered, StoreLast
  <1>4. Len(roots) <= Capacity /\ Len(roots) # Capacity
    BY <1>1, CollectorAssumption
  <1> QED BY <1>2, <1>3, <1>4
       DEF ControlInv, StoreOwned, MarkIndexes, FullOnlyInPass

(* The steps of the counting functions and of call_if_valid_cell.          *)
LEMMA CountingSteps ==
  ASSUME ControlInv,
         \/ SkipInvalidCell \/ UseAfterFree \/ AssertRefcount
         \/ DecrementToZero \/ DecrementToPossibleRoot \/ ReleaseCell \/ Store
  PROVE  ControlInv'
  <1> USE DEF ControlInv, TypeOK
  <1>1. CASE SkipInvalidCell
    <2>1. stack # <<>> /\ Top.fn # "free_roots"
      BY <1>1 DEF SkipInvalidCell, LoopFn
    <2>2. StackAndBufferOK'
      BY <1>1, <2>1, QuietPop DEF SkipInvalidCell
    <2> QED BY <1>1, <2>2, Reassemble DEF SkipInvalidCell, CellsOK, ReferencesOK
  <1>2. CASE UseAfterFree
    BY <1>2 DEF UseAfterFree, StoreOwned, MarkIndexes, FullOnlyInPass
  <1>3. CASE AssertRefcount
    BY <1>3 DEF AssertRefcount, StoreOwned, MarkIndexes, FullOnlyInPass
  <1>4. CASE DecrementToZero
    <2> DEFINE c == Target(Top)
               u == CellTask("release_cell", c, 0)
               p == AllChildren("decrement", c) \o << u >>
    <2>1. stack # <<>> /\ Top \in TaskSet /\ Top.fn = "decrement" /\ c \in Cell
      BY <1>4, VisitTarget DEF DecrementToZero
    <2>2. u \in TaskSet /\ u.fn = "release_cell"
      BY <2>1, CellTaskType, HeapGraphAssumption
    <2> HIDE DEF u, c
    <2>3. MayReplace(p, Top) /\ \A v \in Pending(p) : v.fn = "decrement" \/ v = u
      BY <2>1, <2>2, ChildrenThenMayReplace DEF CollectorFn, VisitFn, LoopFn
    <2>4. rc[c] \in Nat /\ rc[c] # 0 /\ rc' = [rc EXCEPT ![c] = @ - 1]
      BY <1>4, <2>1 DEF DecrementToZero, LastReference, c
    <2>5. stack' = p \o Rest /\ roots' = roots /\ handle' = handle
      BY <1>4 DEF DecrementToZero, c, u
    <2> HIDE DEF p
    <2>6. StackAndBufferOK'
      BY <2>1, <2>2, <2>3, <2>5, QuietStep
    <2>7. rc' \in [Cell -> Nat]
      BY <2>1, <2>4
    <2> QED BY <1>4, <2>5, <2>6, <2>7, Reassemble
         DEF DecrementToZero, CellsOK, ReferencesOK
  <1>5. CASE DecrementToPossibleRoot
    <2> DEFINE c == Target(Top)
    <2>1. stack # <<>> /\ Top \in TaskSet /\ Top.fn = "decrement" /\ c \in Cell
      BY <1>5, VisitTarget DEF DecrementToPossibleRoot
    <2>2. /\ rc' \in [Cell -> Nat]
          /\ color' \in [Cell -> Color]
          /\ UNCHANGED <<alloc, field, handle, fault>>
      BY <1>5, <2>1 DEF DecrementToPossibleRoot, Color
    <2>3. CASE AlreadyPossibleRoot(c)
      <3>1. stack' = Rest /\ UNCHANGED <<buffered, roots, exposed>>
        BY <1>5, <2>3 DEF DecrementToPossibleRoot
      <3>2. StackAndBufferOK'
        BY <2>1, <2>2, <3>1, QuietPop
      <3> QED BY <2>2, <3>1, <3>2, Reassemble DEF CellsOK, ReferencesOK
    <2>4. CASE ~ AlreadyPossibleRoot(c)
      <3>1. /\ buffered' = [buffered EXCEPT ![c] = TRUE]
            /\ roots' = Append(roots, c)
            /\ IF BufferFull(Len(roots) + 1)
               THEN BeginCollect(Rest)
               ELSE stack' = Rest /\ UNCHANGED exposed
        BY <1>5, <2>4 DEF DecrementToPossibleRoot
      <3>2. /\ roots' \in Seq(Cell)
            /\ Len(roots) \in Nat /\ Len(roots') = Len(roots) + 1
        BY <2>1, <3>1, LenProperties
      <3>3. buffered' \in [Cell -> BOOLEAN] /\ exposed' \in BOOLEAN
        BY <3>1 DEF BeginCollect
      <3>4. StackOK(stack)
        BY DEF StackOK
      <3>5. /\ Pending(stack) = {Top} \cup Pending(Rest)
            /\ \A t \in Pending(Rest) : t.fn \notin LoopFn
        BY <2>1, <3>4, BelowTop DEF Top, Rest, CollectorFn, VisitFn, LoopFn
      <3>6. Len(roots) < Capacity
        BY <2>1, <3>2, <3>5, CollectorAssumption DEF FullOnlyInPass, LoopFn
      <3>7. CASE BufferFull(Len(roots) + 1)
        <4>1. stack' = CollectTasks \o Rest
          BY <3>1, <3>7 DEF BeginCollect
        <4>2. /\ MayReplace(CollectTasks, Top)
              /\ \A t \in Pending(CollectTasks) : t.fn # "store" /\ t.i = 1 /\ t.j = 1
              /\ \E t \in Pending(CollectTasks) : t.fn = "free_roots"
          BY <2>1, CollectMayReplace DEF CollectorFn, VisitFn, LoopFn
        <4>3. /\ StackOK(stack')
              /\ Pending(stack') = Pending(CollectTasks) \cup Pending(Rest)
          BY <2>1, <3>4, <4>1, <4>2, ReplaceTop DEF Top, Rest
        <4>4. StoreOwned'
          BY <2>2, <3>5, <4>2, <4>3 DEF StoreOwned
        <4>5. MarkIndexes'
          BY <3>2, <3>5, <4>2, <4>3 DEF MarkIndexes, LoopFn
        <4>6. FullOnlyInPass'
          BY <4>2, <4>3 DEF FullOnlyInPass
        <4>7. StackAndBufferOK'
          BY <3>2, <3>6, <4>3, <4>4, <4>5, <4>6, CollectorAssumption
             DEF StackAndBufferOK
        <4> QED BY <2>2, <3>2, <3>3, <4>7, Reassemble DEF CellsOK, ReferencesOK
      <3>8. CASE ~ BufferFull(Len(roots) + 1)
        <4>1. stack' = Rest /\ Len(roots') # Capacity
          BY <3>1, <3>2, <3>8 DEF BufferFull
        <4>2. StackOK(stack')
          BY <2>1, <3>4, <4>1, PopTop DEF Rest
        <4>3. StoreOwned'
          BY <2>2, <3>5, <4>1 DEF StoreOwned
        <4>4. MarkIndexes'
          BY <3>5, <4>1 DEF MarkIndexes, LoopFn
        <4>5. FullOnlyInPass'
          BY <4>1 DEF FullOnlyInPass
        <4>6. StackAndBufferOK'
          BY <3>2, <3>6, <4>2, <4>3, <4>4, <4>5, CollectorAssumption
             DEF StackAndBufferOK
        <4> QED BY <2>2, <3>2, <3>3, <4>6, Reassemble DEF CellsOK, ReferencesOK
      <3> QED BY <3>7, <3>8
    <2> QED BY <2>3, <2>4
  <1>6. CASE ReleaseCell
    <2> DEFINE c == Target(Top)
    <2>1. stack # <<>> /\ Top \in TaskSet /\ Top.fn = "release_cell" /\ c \in Cell
      BY <1>6, VisitTarget DEF ReleaseCell
    <2>2. CellsOK'
      <3>1. CASE MustStay(c)
        BY <1>6, <3>1 DEF ReleaseCell, CellsOK, Color
      <3>2. CASE ~ MustStay(c)
        BY <1>6, <2>1, <3>2, FreedTypes DEF ReleaseCell
      <3> QED BY <3>1, <3>2
    <2>3. StackAndBufferOK'
      BY <1>6, <2>1, QuietPop DEF ReleaseCell
    <2> QED BY <1>6, <2>2, <2>3, Reassemble DEF ReleaseCell, ReferencesOK
  <1>7. CASE Store
    <2>1. StackOK(stack) /\ stack # <<>> /\ Top.fn = "store"
      BY <1>7 DEF Store, Calls, StackOK
    <2>2. /\ Top \in TaskSet /\ Top \in Pending(stack)
          /\ Pending(stack) = {Top} \cup Pending(Rest)
      BY <2>1, BelowTop DEF Top, Rest
    <2>3. Top.cell \in Cell /\ Top.slot \in Slot /\ Top.val \in Ref
      BY <2>1, <2>2, TaskTypes
    <2>4. handle' \in [Cell -> Nat]
      <3>1. CASE Top.val = NoCell
        BY <1>7, <3>1 DEF Store
      <3>2. CASE Top.val # NoCell
        <4> DEFINE d == Top.val
        <4>1. d \in Cell /\ handle[d] > 0 /\ handle[d] \in Nat
          BY <2>1, <2>2, <2>3, <3>2 DEF StoreOwned, Ref
        <4>2. handle' = [handle EXCEPT ![d] = @ - 1]
          BY <1>7, <3>2 DEF Store
        <4> HIDE DEF d
        <4> QED BY <4>1, <4>2
      <3> QED BY <3>1, <3>2
    <2>5. field' \in [Cell -> [Slot -> Ref]]
      BY <1>7, <2>3 DEF Store
    <2>6. /\ stack \in Seq(TaskSet) /\ Len(stack) \in Nat \ {0} /\ Top = stack[1]
          /\ Rest \in Seq(TaskSet) /\ Len(Rest) = Len(stack) - 1
      BY <2>1, HeadTailProperties, EmptySeq DEF StackOK, Top, Rest
    <2>7. Len(stack) = 1
      BY <2>1, <2>6 DEF StoreLast
    <2>8. Len(Rest) = 0 /\ Pending(Rest) = {}
      BY <2>6, <2>7 DEF Pending
    <2>9. StackOK(Rest)
      BY <2>1, PopTop DEF Rest
    <2>10. stack' = Rest /\ roots' = roots
      BY <1>7 DEF Store
    <2>11. StoreOwned' /\ MarkIndexes' /\ FullOnlyInPass'
      BY <2>1, <2>2, <2>8, <2>10 DEF StoreOwned, MarkIndexes, FullOnlyInPass
    <2>12. StackAndBufferOK'
      BY <2>9, <2>10, <2>11 DEF StackAndBufferOK
    <2> QED BY <1>7, <2>4, <2>5, <2>12, Reassemble DEF Store, CellsOK, ReferencesOK
  <1> QED BY <1>1, <1>2, <1>3, <1>4, <1>5, <1>6, <1>7

(* The steps of mark_roots and mark_gray.                                  *)
LEMMA MarkingSteps ==
  ASSUME ControlInv,
         MarkRootsKeep \/ MarkRootsDiscard \/ MarkRootsDone \/ DecrAndMarkGray
  PROVE  ControlInv'
  <1> USE DEF ControlInv, TypeOK
  <1>0. StackOK(stack) /\ Len(roots) \in Nat
    BY LenProperties DEF StackOK
  <1>1. CASE MarkRootsKeep
    <2> DEFINE c == roots[Top.i]
               u == LoopTask("mark_roots", Top.i + 1, Top.j + 1)
               p == AllChildren("decr_and_mark_gray", c) \o << u >>
    <2>1. /\ stack # <<>> /\ Top \in TaskSet /\ Top.fn = "mark_roots"
          /\ Top.i \in Nat \ {0} /\ Top.j \in Nat \ {0}
          /\ Top.i <= Len(roots) /\ Top.j <= Top.i /\ c \in Cell
          /\ \A t \in Pending(Rest) : t.fn # "mark_roots"
      BY <1>1, LoopTop DEF MarkRootsKeep, InLoop, LoopFn
    <2>2. u \in TaskSet /\ u.fn = "mark_roots" /\ u.i = Top.i + 1 /\ u.j = Top.j + 1
      <3> DEFINE ii == Top.i + 1
                 jj == Top.j + 1
      <3>0. Top.i \in Nat \ {0} /\ Top.j \in Nat \ {0}
        BY <2>1
      <3>1. ii \in Nat \ {0} /\ jj \in Nat \ {0} /\ "mark_roots" \in LoopFn
        BY ONLY <3>0 DEF LoopFn
      <3>2. u = LoopTask("mark_roots", ii, jj)
        OBVIOUS
      <3> HIDE DEF ii, jj, u
      <3>3. u \in TaskSet /\ u.fn = "mark_roots" /\ u.i = ii /\ u.j = jj
        BY <3>1, <3>2, LoopTaskType
      <3> QED BY <3>3 DEF ii, jj
    <2>3. /\ stack' = p \o Rest
          /\ roots' = [roots EXCEPT ![Top.j] = c]
          /\ color' = [color EXCEPT ![c] = "gray"]
          /\ UNCHANGED <<alloc, rc, buffered, field, handle, fault, exposed>>
      BY <1>1 DEF MarkRootsKeep
    <2> HIDE DEF c, u
    <2>4. /\ MayReplace(p, Top)
          /\ \A v \in Pending(p) : v.fn = "decr_and_mark_gray" \/ v = u
      BY <2>1, <2>2, ChildrenThenMayReplace DEF CollectorFn, VisitFn, LoopFn
    <2> HIDE DEF p
    <2>5. Top.j \in 1 .. Len(roots)
      BY <1>0, <2>1
    <2>6. roots' \in Seq(Cell) /\ Len(roots') = Len(roots)
      BY <2>1, <2>3, <2>5, ExceptSeq
    <2>7. /\ StackOK(stack')
          /\ Pending(stack') = Pending(p) \cup Pending(Rest)
          /\ Pending(stack) = {Top} \cup Pending(Rest)
      BY <1>0, <2>1, <2>3, <2>4, ReplaceTop, BelowTop DEF Top, Rest
    <2>8. \A v \in Pending(p) : v.fn # "store"
      BY <2>4 DEF MayReplace, Pending
    <2>9. StoreOwned'
      BY <2>3, <2>7, <2>8 DEF StoreOwned
    <2>10. MarkIndexes'
      <3>1. u.j <= u.i /\ u.i <= Len(roots') + 1
        BY <1>0, <2>1, <2>2, <2>6
      <3> QED BY <2>1, <2>4, <2>7, <3>1 DEF MarkIndexes
    <2>11. FullOnlyInPass'
      BY <2>1, <2>6, <2>7 DEF FullOnlyInPass
    <2>12. StackAndBufferOK'
      BY <2>6, <2>7, <2>9, <2>10, <2>11 DEF StackAndBufferOK
    <2>13. CellsOK' /\ ReferencesOK'
      BY <2>1, <2>3 DEF CellsOK, ReferencesOK, Color
    <2> QED BY <2>6, <2>12, <2>13, Reassemble
  <1>2. CASE MarkRootsDiscard
    <2> DEFINE c == roots[Top.i]
               u == LoopTask("mark_roots", Top.i + 1, Top.j)
    <2>1. /\ stack # <<>> /\ Top \in TaskSet /\ Top.fn = "mark_roots"
          /\ Top.i \in Nat \ {0} /\ Top.j \in Nat \ {0}
          /\ Top.i <= Len(roots) /\ Top.j <= Top.i /\ c \in Cell
          /\ \A t \in Pending(Rest) : t.fn # "mark_roots"
      BY <1>2, LoopTop DEF MarkRootsDiscard, InLoop, LoopFn
    <2>2. u \in TaskSet /\ u.fn = "mark_roots" /\ u.i = Top.i + 1 /\ u.j = Top.j
      <3> DEFINE ii == Top.i + 1
      <3>0. Top.i \in Nat \ {0} /\ Top.j \in Nat \ {0}
        BY <2>1
      <3>1. ii \in Nat \ {0} /\ "mark_roots" \in LoopFn
        BY ONLY <3>0 DEF LoopFn
      <3>2. u = LoopTask("mark_roots", ii, Top.j)
        OBVIOUS
      <3> HIDE DEF ii, u
      <3>3. u \in TaskSet /\ u.fn = "mark_roots" /\ u.i = ii /\ u.j = Top.j
        BY <3>0, <3>1, <3>2, LoopTaskType
      <3> QED BY <3>3 DEF ii
    <2>3. stack' = << u >> \o Rest /\ UNCHANGED <<roots, handle, fault, exposed>>
      BY <1>2 DEF MarkRootsDiscard, AfterDiscard
    <2>4. CellsOK'
      <3>1. CASE WasReleased(c)
        BY <1>2, <2>1, <3>1, FreedTypes DEF MarkRootsDiscard
      <3>2. CASE ~ WasReleased(c)
        BY <1>2, <3>2 DEF MarkRootsDiscard, CellsOK
      <3> QED BY <3>1, <3>2
    <2> HIDE DEF c, u
    <2>5. MayReplace(<<u>>, Top) /\ Pending(<<u>>) = {u}
      BY <2>1, <2>2, OneMayReplace DEF CollectorFn, LoopFn
    <2>6. /\ StackOK(stack')
          /\ Pending(stack') = {u} \cup Pending(Rest)
          /\ Pending(stack) = {Top} \cup Pending(Rest)
      BY <1>0, <2>1, <2>3, <2>5, ReplaceTop, BelowTop DEF Top, Rest
    <2>7. StoreOwned' /\ FullOnlyInPass'
      BY <2>1, <2>2, <2>3, <2>6 DEF StoreOwned, FullOnlyInPass
    <2>8. MarkIndexes'
      <3>1. u.j <= u.i /\ u.i <= Len(roots') + 1
        BY <1>0, <2>1, <2>2, <2>3
      <3> QED BY <2>1, <2>6, <3>1 DEF MarkIndexes
    <2>9. StackAndBufferOK'
      BY <2>3, <2>6, <2>7, <2>8 DEF StackAndBufferOK
    <2> QED BY <2>3, <2>4, <2>9, Reassemble DEF ReferencesOK
  <1>3. CASE MarkRootsDone
    <2>1. /\ stack # <<>> /\ Top.fn = "mark_roots"
          /\ Top.i \in Nat \ {0} /\ Top.j \in Nat \ {0}
          /\ Top.j <= Top.i /\ Top.i <= Len(roots) + 1
          /\ \A t \in Pending(Rest) : t.fn # "mark_roots"
      BY <1>3, LoopTop DEF MarkRootsDone, LoopDone, LoopFn
    <2>2. /\ stack' = Rest /\ roots' = SubSeq(roots, 1, Top.j - 1)
          /\ UNCHANGED <<alloc, rc, color, buffered, field, handle, fault, exposed>>
      BY <1>3 DEF MarkRootsDone
    <2> DEFINE n == Top.j - 1
    <2>3. n \in 0 .. Len(roots)
      BY <1>0, <2>1
    <2> HIDE DEF n
    <2>4. \A k \in 1 .. n : roots[k] \in Cell
      BY <1>0, <2>3, ElementOfSeq
    <2>5. roots' \in Seq(Cell) /\ Len(roots') = n
      <3>1. /\ SubSeq(roots, 1, n) \in Seq(Cell)
            /\ Len(SubSeq(roots, 1, n)) = IF 1 <= n THEN n - 1 + 1 ELSE 0
        BY <2>3, <2>4, SubSeqProperties
      <3> QED BY <2>2, <2>3, <3>1 DEF n
    <2>6. StackOK(stack') /\ Pending(stack) = {Top} \cup Pending(stack')
      BY <1>0, <2>1, <2>2, PopTop, BelowTop DEF Top, Rest
    <2>7. StoreOwned' /\ MarkIndexes'
      BY <2>1, <2>2, <2>6 DEF StoreOwned, MarkIndexes
    <2>8. Len(roots') <= Len(roots) /\ Len(roots') \in Nat
      BY <1>0, <2>3, <2>5
    <2>9. Len(roots') <= Capacity /\ (Len(roots') = Capacity => Len(roots) = Capacity)
      BY <1>0, <2>8, CollectorAssumption
    <2>10. FullOnlyInPass'
      BY <2>1, <2>6, <2>9 DEF FullOnlyInPass
    <2>11. StackAndBufferOK'
      BY <2>6, <2>7, <2>9, <2>10 DEF StackAndBufferOK
    <2> QED BY <2>2, <2>5, <2>11, Reassemble DEF CellsOK, ReferencesOK
  <1>4. CASE DecrAndMarkGray
    <2> DEFINE c == Target(Top)
    <2>1. /\ stack # <<>> /\ Top \in TaskSet /\ Top.fn = "decr_and_mark_gray"
          /\ c \in Cell
      BY <1>4, VisitTarget DEF DecrAndMarkGray, VisitFn
    <2>2. /\ rc[c] # 0
          /\ rc' = [rc EXCEPT ![c] = @ - 1]
          /\ color' = [color EXCEPT ![c] = "gray"]
          /\ stack' = IF color[c] = "gray" THEN Rest
                      ELSE AllChildren("decr_and_mark_gray", c) \o Rest
          /\ UNCHANGED <<alloc, buffered, field, roots, handle, fault, exposed>>
      BY <1>4 DEF DecrAndMarkGray
    <2> HIDE DEF c
    <2>3. rc' \in [Cell -> Nat] /\ color' \in [Cell -> Color]
      BY <2>1, <2>2 DEF Color
    <2>4. StackAndBufferOK'
      <3>1. CASE color[c] = "gray"
        BY <2>1, <2>2, <3>1, QuietPop
      <3>2. CASE color[c] # "gray"
        <4>1. /\ MayReplace(AllChildren("decr_and_mark_gray", c), Top)
              /\ \A v \in Pending(AllChildren("decr_and_mark_gray", c)) :
                   v.fn = "decr_and_mark_gray"
          BY <2>1, ChildrenMayReplace DEF VisitFn
        <4> QED BY <2>1, <2>2, <3>2, <4>1, QuietStep
      <3> QED BY <3>1, <3>2
    <2> QED BY <2>2, <2>3, <2>4, Reassemble DEF CellsOK, ReferencesOK
  <1> QED BY <1>1, <1>2, <1>3, <1>4

(* The steps of scan_roots, scan and scan_black.                           *)
LEMMA ScanningSteps ==
  ASSUME ControlInv, ScanRoots \/ Scan \/ IncrAndScanBlack
  PROVE  ControlInv'
  <1> USE DEF ControlInv, TypeOK
  <1>1. CASE ScanRoots
    <2> DEFINE p == [k \in 1 .. Len(roots) |-> CellTask("scan", roots[k], 0)]
    <2>1. stack # <<>> /\ Top \in TaskSet /\ Top.fn = "scan_roots"
      BY <1>1, LoopTop DEF ScanRoots, LoopFn
    <2>2. MayReplace(p, Top) /\ \A v \in Pending(p) : v.fn = "scan"
      BY <2>1, ScansMayReplace
    <2>3. stack' = p \o Rest
          /\ UNCHANGED <<alloc, rc, color, buffered, field, roots, handle, fault,
                         exposed>>
      BY <1>1 DEF ScanRoots
    <2> HIDE DEF p
    <2>4. StackAndBufferOK'
      BY <2>1, <2>2, <2>3, QuietStep
    <2> QED BY <2>3, <2>4, Reassemble DEF CellsOK, ReferencesOK
  <1>2. CASE Scan
    <2> DEFINE c == Target(Top)
    <2>1. /\ stack # <<>> /\ Top \in TaskSet /\ Top.fn = "scan"
          /\ c \in Cell
      BY <1>2, VisitTarget DEF Scan, VisitFn
    <2>2. /\ UNCHANGED <<alloc, rc, buffered, field, roots, handle, fault, exposed>>
          /\ \/ stack' = Rest
             \/ stack' = AllChildren("incr_and_scan_black", c) \o Rest
             \/ stack' = AllChildren("scan", c) \o Rest
      BY <1>2 DEF Scan
    <2>3. color' \in [Cell -> Color]
      BY <1>2 DEF Scan, Color
    <2> HIDE DEF c
    <2>4. \A fn \in {"incr_and_scan_black", "scan"} :
            /\ MayReplace(AllChildren(fn, c), Top)
            /\ \A v \in Pending(AllChildren(fn, c)) : v.fn = fn
      BY <2>1, ChildrenMayReplace DEF VisitFn, CollectorFn
    <2>5. StackAndBufferOK'
      <3>1. CASE stack' = Rest
        BY <2>1, <2>2, <3>1, QuietPop
      <3>2. ASSUME NEW fn \in {"incr_and_scan_black", "scan"},
                   stack' = AllChildren(fn, c) \o Rest
            PROVE  StackAndBufferOK'
        BY <2>1, <2>2, <2>4, <3>2, QuietStep
      <3> QED BY <2>2, <3>1, <3>2
    <2> QED BY <2>2, <2>3, <2>5, Reassemble DEF CellsOK, ReferencesOK
  <1>3. CASE IncrAndScanBlack
    <2> DEFINE c == Target(Top)
    <2>1. /\ stack # <<>> /\ Top \in TaskSet /\ Top.fn = "incr_and_scan_black"
          /\ c \in Cell
      BY <1>3, VisitTarget DEF IncrAndScanBlack, VisitFn
    <2>2. /\ rc' = [rc EXCEPT ![c] = @ + 1]
          /\ color' = [color EXCEPT ![c] = "black"]
          /\ UNCHANGED <<alloc, buffered, field, roots, handle, fault, exposed>>
          /\ \/ stack' = Rest
             \/ stack' = AllChildren("incr_and_scan_black", c) \o Rest
      BY <1>3 DEF IncrAndScanBlack, Restored
    <2> HIDE DEF c
    <2>3. rc' \in [Cell -> Nat] /\ color' \in [Cell -> Color]
      BY <2>1, <2>2 DEF Color
    <2>4. /\ MayReplace(AllChildren("incr_and_scan_black", c), Top)
          /\ \A v \in Pending(AllChildren("incr_and_scan_black", c)) :
               v.fn = "incr_and_scan_black"
      BY <2>1, ChildrenMayReplace DEF VisitFn, CollectorFn
    <2>5. StackAndBufferOK'
      <3>1. CASE stack' = Rest
        BY <2>1, <2>2, <3>1, QuietPop
      <3>2. CASE stack' = AllChildren("incr_and_scan_black", c) \o Rest
        BY <2>1, <2>2, <2>4, <3>2, QuietStep
      <3> QED BY <2>2, <3>1, <3>2
    <2> QED BY <2>2, <2>3, <2>5, Reassemble DEF CellsOK, ReferencesOK
  <1> QED BY <1>1, <1>2, <1>3

(* The steps of collect_roots and collect_white.                           *)
LEMMA CollectingSteps ==
  ASSUME ControlInv,
         \/ CollectRoots \/ CollectRootsDone \/ CollectWhite \/ CollectWhiteFreed
         \/ FreeWhite \/ FreeRoots \/ FreeRootsDone
  PROVE  ControlInv'
  <1> USE DEF ControlInv, TypeOK
  <1>1. CASE CollectRoots
    <2> DEFINE c == roots[Top.i]
               u == LoopTask("collect_roots", Top.i + 1, 1)
    <2>1. /\ stack # <<>> /\ Top \in TaskSet /\ Top.fn = "collect_roots"
          /\ Top.i \in Nat \ {0} /\ c \in Cell
      BY <1>1, LoopTop DEF CollectRoots, InLoop, LoopFn
    <2>2. u \in TaskSet /\ u.fn = "collect_roots"
      <3> DEFINE ii == Top.i + 1
      <3>1. ii \in Nat \ {0} /\ 1 \in Nat \ {0} /\ "collect_roots" \in LoopFn
        BY <2>1 DEF LoopFn
      <3> HIDE DEF ii
      <3>2. LoopTask("collect_roots", ii, 1) \in TaskSet /\ LoopTask("collect_roots", ii, 1).fn = "collect_roots"
        BY <3>1, LoopTaskType
      <3> QED BY <3>2 DEF ii
    <2>3. /\ buffered' = [buffered EXCEPT ![c] = FALSE]
          /\ color' \in [Cell -> Color]
          /\ UNCHANGED <<alloc, rc, field, roots, handle, fault, exposed>>
          /\ \/ stack' = << u >> \o Rest
             \/ stack' = AllChildren("collect_white", c) \o << u >> \o Rest
      BY <1>1 DEF CollectRoots, Color
    <2> HIDE DEF c, u
    <2>4. buffered' \in [Cell -> BOOLEAN]
      BY <2>1, <2>3
    <2>5. StackAndBufferOK'
      <3>1. CASE stack' = << u >> \o Rest
        <4>1. MayReplace(<<u>>, Top) /\ Pending(<<u>>) = {u}
          BY <2>1, <2>2, OneMayReplace DEF CollectorFn, LoopFn
        <4> QED BY <2>1, <2>2, <2>3, <3>1, <4>1, QuietStep
      <3>2. CASE stack' = AllChildren("collect_white", c) \o << u >> \o Rest
        <4> DEFINE p == AllChildren("collect_white", c) \o << u >>
        <4>1. /\ MayReplace(p, Top)
              /\ \A v \in Pending(p) : v.fn = "collect_white" \/ v = u
          BY <2>1, <2>2, ChildrenThenMayReplace DEF CollectorFn, VisitFn, LoopFn
        <4> HIDE DEF p
        <4>2. stack' = p \o Rest
          BY <3>2 DEF p
        <4> QED BY <2>1, <2>2, <2>3, <4>1, <4>2, QuietStep
      <3> QED BY <2>3, <3>1, <3>2
    <2> QED BY <2>3, <2>4, <2>5, Reassemble DEF CellsOK, ReferencesOK
  <1>2. CASE CollectRootsDone
    <2>1. stack # <<>> /\ Top.fn = "collect_roots"
      BY <1>2, LoopTop DEF CollectRootsDone, LoopDone, LoopFn
    <2>2. /\ stack' = Rest
          /\ UNCHANGED <<alloc, rc, color, buffered, field, roots, handle, fault,
                         exposed>>
      BY <1>2 DEF CollectRootsDone
    <2>3. StackAndBufferOK'
      BY <2>1, <2>2, QuietPop
    <2> QED BY <2>2, <2>3, Reassemble DEF CellsOK, ReferencesOK
  <1>3. CASE CollectWhite
    <2> DEFINE c == Target(Top)
               u == CellTask("free_cell", c, 0)
    <2>1. /\ stack # <<>> /\ Top \in TaskSet /\ Top.fn = "collect_white"
          /\ c \in Cell
      BY <1>3, VisitTarget DEF CollectWhite, VisitFn
    <2>2. u \in TaskSet /\ u.fn = "free_cell"
      BY <2>1, CellTaskType, HeapGraphAssumption DEF VisitFn
    <2>3. /\ color' \in [Cell -> Color]
          /\ UNCHANGED <<alloc, rc, buffered, field, roots, handle, fault, exposed>>
          /\ \/ stack' = Rest
             \/ stack' = AllChildren("collect_white", c) \o << u >> \o Rest
      BY <1>3 DEF CollectWhite, Color
    <2> HIDE DEF c, u
    <2>4. StackAndBufferOK'
      <3>1. CASE stack' = Rest
        BY <2>1, <2>3, <3>1, QuietPop
      <3>2. CASE stack' = AllChildren("collect_white", c) \o << u >> \o Rest
        <4> DEFINE p == AllChildren("collect_white", c) \o << u >>
        <4>1. /\ MayReplace(p, Top)
              /\ \A v \in Pending(p) : v.fn = "collect_white" \/ v = u
          BY <2>1, <2>2, ChildrenThenMayReplace DEF CollectorFn, VisitFn, LoopFn
        <4> HIDE DEF p
        <4>2. stack' = p \o Rest
          BY <3>2 DEF p
        <4> QED BY <2>1, <2>2, <2>3, <4>1, <4>2, QuietStep
      <3> QED BY <2>3, <3>1, <3>2
    <2> QED BY <2>3, <2>4, Reassemble DEF CellsOK, ReferencesOK
  <1>4. CASE CollectWhiteFreed
    <2>1. stack # <<>> /\ Top.fn # "free_roots"
      BY <1>4 DEF CollectWhiteFreed, VisitsFreedWhite
    <2>2. /\ stack' = Rest
          /\ UNCHANGED <<alloc, rc, color, buffered, field, roots, handle, fault,
                         exposed>>
      BY <1>4 DEF CollectWhiteFreed
    <2>3. StackAndBufferOK'
      BY <2>1, <2>2, QuietPop
    <2> QED BY <2>2, <2>3, Reassemble DEF CellsOK, ReferencesOK
  <1>5. CASE FreeWhite
    <2>1. stack # <<>> /\ Top.fn = "free_cell" /\ Target(Top) \in Cell
      BY <1>5, VisitTarget DEF FreeWhite, VisitFn
    <2>2. /\ stack' = Rest /\ Freed(Target(Top))
          /\ UNCHANGED <<roots, handle, fault, exposed>>
      BY <1>5 DEF FreeWhite
    <2>3. CellsOK'
      BY <2>1, <2>2, FreedTypes
    <2>4. StackAndBufferOK'
      BY <2>1, <2>2, QuietPop
    <2> QED BY <2>2, <2>3, <2>4, Reassemble DEF ReferencesOK
  <1>6. CASE FreeRoots
    <2> DEFINE c == roots[Top.i]
               u == LoopTask("free_roots", Top.i + 1, 1)
    <2>1. /\ stack # <<>> /\ Top \in TaskSet /\ Top.fn = "free_roots"
          /\ Top.i \in Nat \ {0} /\ c \in Cell
      BY <1>6, LoopTop DEF FreeRoots, InLoop, LoopFn
    <2>2. u \in TaskSet /\ u.fn = "free_roots"
      <3> DEFINE ii == Top.i + 1
      <3>1. ii \in Nat \ {0} /\ 1 \in Nat \ {0} /\ "free_roots" \in LoopFn
        BY <2>1 DEF LoopFn
      <3> HIDE DEF ii
      <3>2. LoopTask("free_roots", ii, 1) \in TaskSet /\ LoopTask("free_roots", ii, 1).fn = "free_roots"
        BY <3>1, LoopTaskType
      <3> QED BY <3>2 DEF ii
    <2>3. CellsOK'
      <3>1. Freed(c) \/ UNCHANGED <<alloc, rc, color, buffered, field>>
        BY <1>6 DEF FreeRoots
      <3> QED BY <2>1, <3>1, FreedTypes DEF CellsOK
    <2>4. stack' = << u >> \o Rest /\ UNCHANGED <<roots, handle, fault, exposed>>
      BY <1>6 DEF FreeRoots
    <2> HIDE DEF c, u
    <2>5. MayReplace(<<u>>, Top) /\ Pending(<<u>>) = {u}
      BY <2>1, <2>2, OneMayReplace DEF CollectorFn, LoopFn
    <2>6. StackAndBufferOK'
      BY <2>1, <2>2, <2>4, <2>5, QuietStep
    <2> QED BY <2>3, <2>4, <2>6, Reassemble DEF ReferencesOK
  <1>7. CASE FreeRootsDone
    <2>1. /\ stack # <<>> /\ Top.fn = "free_roots"
          /\ \A t \in Pending(Rest) : t.fn # "mark_roots"
      BY <1>7, LoopTop DEF FreeRootsDone, LoopDone, LoopFn
    <2>2. /\ stack' = Rest /\ roots' = <<>>
          /\ UNCHANGED <<alloc, rc, color, buffered, field, handle, fault, exposed>>
      BY <1>7 DEF FreeRootsDone
    <2>3. StackOK(stack)
      BY DEF StackOK
    <2>4. StackOK(stack') /\ Pending(stack) = {Top} \cup Pending(stack')
      BY <2>1, <2>2, <2>3, PopTop, BelowTop DEF Top, Rest
    <2>5. Len(roots') = 0 /\ roots' \in Seq(Cell)
      BY <2>2, EmptySeq
    <2>6. Len(roots') <= Capacity /\ Len(roots') # Capacity
      BY <2>5, CollectorAssumption
    <2>7. StoreOwned' /\ MarkIndexes' /\ FullOnlyInPass'
      BY <2>1, <2>2, <2>4, <2>6 DEF StoreOwned, MarkIndexes, FullOnlyInPass
    <2>8. StackAndBufferOK'
      BY <2>4, <2>6, <2>7 DEF StackAndBufferOK
    <2> QED BY <2>2, <2>5, <2>8, Reassemble DEF CellsOK, ReferencesOK
  <1> QED BY <1>1, <1>2, <1>3, <1>4, <1>5, <1>6, <1>7

(* The operations of the interpreter: they start with no call pending.     *)
LEMMA MutatorSteps ==
  ASSUME ControlInv, MutatorStep
  PROVE  ControlInv'
  <1> USE DEF ControlInv, TypeOK
  <1>1. /\ stack = <<>> /\ Len(stack) = 0 /\ Pending(stack) = {} /\ StackOK(stack)
        /\ Len(roots) # Capacity
    BY DEF MutatorStep, Make, Increment, Unref, SetSlot, Shutdown, Idle, Pending,
           FullOnlyInPass, StackOK
  <1>2. ASSUME stack' = stack, roots' = roots
        PROVE  StackAndBufferOK'
    BY <1>1, <1>2 DEF StackAndBufferOK, StackOK, StoreOwned, MarkIndexes,
                      FullOnlyInPass
  <1>3. CASE Make
    <2>1. PICK c \in Cell \ alloc, f \in [Slot -> Ref] :
            /\ \A d \in Cell : Occurrences(f, d) <= handle[d]
            /\ alloc' = alloc \cup {c}
            /\ rc' = [rc EXCEPT ![c] = 1]
            /\ field' = [field EXCEPT ![c] = f]
            /\ handle' = [d \in Cell |-> IF d = c THEN 1
                                         ELSE handle[d] - Occurrences(f, d)]
      BY <1>3 DEF Make
    <2>2. UNCHANGED <<color, buffered, roots, stack, fault, exposed>>
      BY <1>3 DEF Make
    <2>3. \A d \in Cell : Occurrences(f, d) \in Nat
      <3> TAKE d \in Cell
      <3>1. IsFiniteSet(Slot)
        BY HeapGraphAssumption, FS_Interval DEF Slot
      <3>2. IsFiniteSet({s \in Slot : f[s] = d})
        BY <3>1, FS_Subset
      <3> QED BY <3>2, FS_CardinalityType DEF Occurrences
    <2>4. \A d \in Cell : handle[d] - Occurrences(f, d) \in Nat
      BY <2>1, <2>3
    <2>5. handle' \in [Cell -> Nat]
      BY <2>1, <2>4
    <2>6. CellsOK'
      BY <2>1, <2>2 DEF CellsOK
    <2>7. StackAndBufferOK'
      BY <1>2, <2>2
    <2> QED BY <2>2, <2>5, <2>6, <2>7, Reassemble DEF ReferencesOK
  <1>4. CASE Increment
    <2>1. /\ rc' \in [Cell -> Nat] /\ handle' \in [Cell -> Nat]
          /\ color' \in [Cell -> Color]
          /\ UNCHANGED <<alloc, buffered, field, roots, stack, fault, exposed>>
      BY <1>4 DEF Increment, Color
    <2>2. StackAndBufferOK'
      BY <1>2, <2>1
    <2> QED BY <2>1, <2>2, Reassemble DEF CellsOK, ReferencesOK
  <1>5. CASE Unref
    <2>1. PICK c \in Cell :
            /\ handle[c] > 0
            /\ handle' = [handle EXCEPT ![c] = @ - 1]
            /\ stack' = << CellTask("decrement", c, 0) >>
      BY <1>5 DEF Unref
    <2>2. UNCHANGED <<alloc, rc, color, buffered, field, roots, fault, exposed>>
      BY <1>5 DEF Unref
    <2> DEFINE u == CellTask("decrement", c, 0)
    <2>3. u \in TaskSet /\ u.fn = "decrement"
      BY CellTaskType, HeapGraphAssumption
    <2>4. stack' = << u >>
      BY <2>1
    <2> HIDE DEF u
    <2>5. /\ stack' \in Seq(TaskSet) /\ Len(stack') = 1
          /\ \A k \in 1 .. Len(stack') : k = 1 /\ stack'[k] = u
      BY <2>3, <2>4
    <2>6. StackOK(stack') /\ Pending(stack') \subseteq {u}
      BY <2>3, <2>5 DEF StackOK, Layered, StoreLast, Pending
    <2>7. handle' \in [Cell -> Nat]
      BY <2>1
    <2>8. StackAndBufferOK'
      BY <1>1, <2>2, <2>3, <2>6
         DEF StackAndBufferOK, StoreOwned, MarkIndexes, FullOnlyInPass
    <2> QED BY <2>2, <2>7, <2>8, Reassemble DEF CellsOK, ReferencesOK
  <1>6. CASE SetSlot
    <2>1. PICK c \in Cell, s \in Slot, d \in Ref :
            /\ handle[c] > 0
            /\ d # NoCell => handle[d] > (IF d = c THEN 1 ELSE 0)
            /\ stack' = << CellTask("decrement", c, s), StoreTask(c, s, d) >>
      BY <1>6 DEF SetSlot
    <2>2. UNCHANGED <<alloc, rc, color, buffered, field, roots, handle, fault,
                      exposed>>
      BY <1>6 DEF SetSlot
    <2> DEFINE u == CellTask("decrement", c, s)
               v == StoreTask(c, s, d)
    <2>3. u \in TaskSet /\ u.fn = "decrement"
      BY CellTaskType, HeapGraphAssumption DEF Slot
    <2>4. v \in TaskSet /\ v.fn = "store" /\ v.val = d
      BY DEF StoreTask, TaskSet, StoreTaskSet
    <2>5. stack' = << u, v >>
      BY <2>1
    <2> HIDE DEF u, v
    <2>6. /\ stack' \in Seq(TaskSet) /\ Len(stack') = 2
          /\ stack'[1] = u /\ stack'[2] = v
          /\ \A k \in 1 .. Len(stack') : k = 1 \/ k = 2
      BY <2>3, <2>4, <2>5
    <2>7. Layered(stack')
      BY <2>3, <2>4, <2>6 DEF Layered, LoopFn
    <2>8. StoreLast(stack')
      BY <2>3, <2>6 DEF StoreLast
    <2>9. Pending(stack') \subseteq {u, v}
      BY <2>6 DEF Pending
    <2>10. d # NoCell => handle[d] > 0
      <3>1. CASE d = NoCell
        BY <3>1
      <3>2. CASE d # NoCell
        <4>1. d \in Cell /\ handle[d] \in Nat
          BY <3>2 DEF Ref
        <4> QED BY <2>1, <3>2, <4>1
      <3> QED BY <3>1, <3>2
    <2>11. StoreOwned'
      BY <2>2, <2>3, <2>4, <2>9, <2>10 DEF StoreOwned
    <2>12. MarkIndexes' /\ FullOnlyInPass'
      BY <1>1, <2>2, <2>3, <2>4, <2>9 DEF MarkIndexes, FullOnlyInPass
    <2>13. StackAndBufferOK'
      BY <2>2, <2>6, <2>7, <2>8, <2>11, <2>12 DEF StackAndBufferOK, StackOK
    <2> QED BY <2>2, <2>13, Reassemble DEF CellsOK, ReferencesOK
  <1>7. CASE Shutdown
    <2>1. /\ stack' = CollectTasks \o <<>>
          /\ UNCHANGED <<alloc, rc, color, buffered, field, roots, handle, fault>>
          /\ exposed' \in BOOLEAN
      BY <1>7 DEF Shutdown, BeginCollect
    <2> DEFINE t == CellTask("decrement", CHOOSE c \in Cell : TRUE, 0)
    <2>2. \E c \in Cell : TRUE
      <3>1. Len(roots) \in Nat \ {0}
        BY <1>7, EmptySeq DEF Shutdown
      <3>2. roots[1] \in Cell
        BY <3>1, ElementOfSeq
      <3> QED BY <3>2
    <2>3. t \in TaskSet /\ t.fn = "decrement"
      BY <2>2, CellTaskType, HeapGraphAssumption
    <2> HIDE DEF t
    <2>4. /\ MayReplace(CollectTasks, t)
          /\ \A u \in Pending(CollectTasks) : u.fn # "store" /\ u.i = 1 /\ u.j = 1
          /\ \E u \in Pending(CollectTasks) : u.fn = "free_roots"
      BY <2>3, CollectMayReplace DEF CollectorFn, VisitFn, LoopFn
    <2>5. stack' = CollectTasks
      BY <2>1, <2>4, ConcatEmptySeq DEF MayReplace
    <2>6. StackOK(stack')
      BY <2>4, <2>5 DEF MayReplace, StackOK, StoreLast
    <2>7. Len(roots) \in Nat
      BY LenProperties
    <2>8. StoreOwned' /\ MarkIndexes' /\ FullOnlyInPass'
      BY <2>1, <2>4, <2>5, <2>7 DEF StoreOwned, MarkIndexes, FullOnlyInPass
    <2>9. StackAndBufferOK'
      BY <2>1, <2>6, <2>8 DEF StackAndBufferOK
    <2> QED BY <2>1, <2>9, Reassemble DEF CellsOK, ReferencesOK
  <1> QED BY <1>3, <1>4, <1>5, <1>6, <1>7 DEF MutatorStep

(***************************************************************************)
(* The theorems.                                                           *)
(***************************************************************************)

(* Every reachable state satisfies the discipline of the call stack: the   *)
(* passes of qz_collect never call back into qz_unref, an overwrite is the *)
(* last thing pending, and mark_roots shifts the buffer within its bounds. *)
THEOREM ControlInvariant == Spec => []ControlInv
  <1>1. ControlInv /\ [Next]_vars => ControlInv'
    <2> SUFFICES ASSUME ControlInv, [Next]_vars PROVE ControlInv'
      OBVIOUS
    <2>1. CASE CollectorStep
      BY <2>1, CountingSteps, MarkingSteps, ScanningSteps, CollectingSteps
         DEF CollectorStep
    <2>2. CASE MutatorStep
      BY <2>2, MutatorSteps
    <2>3. CASE UNCHANGED vars
      BY <2>3 DEF vars, ControlInv, TypeOK, StoreOwned, MarkIndexes, FullOnlyInPass
    <2> QED BY <2>1, <2>2, <2>3 DEF Next
  <1> QED BY <1>1, InitControl, PTL DEF Spec

(* Types: counts and owned references never go below zero, and the root    *)
(* buffer and the call stack hold only what their readers expect.          *)
THEOREM TypeCorrect == Spec => []TypeOK
  <1>1. ControlInv => TypeOK
    BY DEF ControlInv
  <1> QED BY <1>1, ControlInvariant, PTL

(* st->root_buffer never overflows, and it is full only while qz_collect   *)
(* runs, whatever the capacity and even after a premature collection has   *)
(* corrupted the counts.                                                   *)
THEOREM RootBufferBounded == Spec => []BufferBounded
  <1>1. ControlInv => BufferBounded
    <2> SUFFICES ASSUME ControlInv PROVE BufferBounded
      OBVIOUS
    <2>1. DOMAIN stack = 1 .. Len(stack)
      BY LenProperties DEF ControlInv, TypeOK
    <2> QED BY <2>1 DEF ControlInv, FullOnlyInPass, Pending, BufferBounded
  <1> QED BY <1>1, ControlInvariant, PTL

(***************************************************************************)
(* The stack.                                                              *)
(***************************************************************************)

\* a stack such as a chain of calls makes it, R the cells in the buffer
GoodStack(s, R) == s \in Seq(TaskSet) /\ Nested(s) /\ Unique(s) /\ Attended(s, R)

\* the visits that may be pending twice for one slot
Often == {"scan", "collect_white"}

(* What a pending visit is made of.                                        *)
LEMMA CellTaskFields ==
  ASSUME NEW fn, NEW c, NEW s
  PROVE  /\ CellTask(fn, c, s).fn = fn
         /\ CellTask(fn, c, s).cell = c
         /\ CellTask(fn, c, s).slot = s
BY DEF CellTask

(* A pending call that is neither a loop nor an overwrite is a visit.      *)
LEMMA IsCellTask ==
  ASSUME NEW t \in TaskSet, t.fn \notin LoopFn, t.fn # "store"
  PROVE  t = CellTask(t.fn, t.cell, t.slot)
<1>1. t \in CellTaskSet
  BY DEF TaskSet, StoreTaskSet, LoopTaskSet
<1> QED
  BY <1>1 DEF CellTaskSet, CellTask

(* The call at the top of a good stack returns: what is left is good, its  *)
(* calls may all lie below the top, and whoever attended a call that is    *)
(* left, or the top, is still there.                                       *)
LEMMA PopStack ==
  ASSUME NEW R, NEW s, GoodStack(s, R), s # <<>>
  PROVE  /\ Head(s) \in TaskSet
         /\ Pending(s) = {Head(s)} \cup Pending(Tail(s))
         /\ GoodStack(Tail(s), R)
         /\ \A u \in Pending(Tail(s)) : u \in TaskSet /\ u.fn \in Below(Head(s).fn)
         /\ Head(s).fn \notin Often => Head(s) \notin Pending(Tail(s))
         /\ \A t \in Pending(s) :
              NeedsAttendant(t, R) => \E u \in Pending(Tail(s)) : Attends(u, t)
<1> DEFINE r == Tail(s)
<1>1. /\ s \in Seq(TaskSet) /\ r \in Seq(TaskSet)
      /\ Len(s) \in Nat \ {0} /\ Len(r) = Len(s) - 1
      /\ Head(s) = s[1]
      /\ \A k \in 1 .. Len(r) : r[k] = s[k + 1]
  BY HeadTailProperties, LenProperties, EmptySeq DEF GoodStack
<1>2. \A k \in 1 .. Len(r) : k + 1 \in 1 .. Len(s) /\ 1 < k + 1 /\ k \in Nat
  BY <1>1
<1>3. \A k \in 1 .. Len(s) : k = 1 \/ (k - 1 \in 1 .. Len(r) /\ k = (k - 1) + 1)
  BY <1>1
<1>4. 1 \in 1 .. Len(s) /\ Head(s) \in TaskSet
  BY <1>1, ElementOfSeq
<1> HIDE DEF r
<1>5. Pending(s) = {Head(s)} \cup Pending(r)
  <2>1. ASSUME NEW k \in 1 .. Len(s)
        PROVE  s[k] \in {Head(s)} \cup Pending(r)
    <3>1. CASE k = 1
      BY <1>1, <3>1
    <3>2. CASE k - 1 \in 1 .. Len(r) /\ k = (k - 1) + 1
      BY <1>1, <3>2 DEF Pending
    <3> QED
      BY <1>3, <3>1, <3>2
  <2>2. ASSUME NEW k \in 1 .. Len(r)
        PROVE  r[k] \in Pending(s)
    BY <1>1, <1>2 DEF Pending
  <2> QED
    BY <1>1, <1>4, <2>1, <2>2 DEF Pending
<1>6. Nested(r)
  BY <1>1, <1>2 DEF GoodStack, Nested
<1>7. Unique(r)
  <2> SUFFICES ASSUME NEW i \in 1 .. Len(r), NEW k \in 1 .. Len(r),
                      r[i] = r[k], r[i].fn \notin {"scan", "collect_white"}
               PROVE  i = k
    BY DEF Unique
  <2>1. i + 1 = k + 1
    BY <1>1, <1>2 DEF GoodStack, Unique
  <2> QED
    BY <1>2, <2>1
<1>8. Attended(r, R)
  <2> SUFFICES ASSUME NEW i \in 1 .. Len(r), NeedsAttendant(r[i], R)
               PROVE  \E k \in 1 .. Len(r) : i < k /\ Attends(r[k], r[i])
    BY DEF Attended
  <2>1. r[i] = s[i + 1] /\ i + 1 \in 1 .. Len(s) /\ i \in Nat
    BY <1>1, <1>2
  <2>2. PICK k \in 1 .. Len(s) : i + 1 < k /\ Attends(s[k], s[i + 1])
    BY <2>1 DEF GoodStack, Attended
  <2>3. k - 1 \in 1 .. Len(r) /\ i < k - 1 /\ r[k - 1] = s[k]
    BY <1>1, <2>1, <2>2
  <2> QED
    BY <2>1, <2>2, <2>3
<1>9. \A k \in 1 .. Len(r) : r[k] \in TaskSet /\ r[k].fn \in Below(Head(s).fn)
  <2> SUFFICES ASSUME NEW k \in 1 .. Len(r)
               PROVE  r[k] \in TaskSet /\ r[k].fn \in Below(Head(s).fn)
    OBVIOUS
  <2>1. r[k] \in TaskSet
    BY <1>1, ElementOfSeq
  <2>2. r[k].fn \in Below(Head(s).fn)
    BY <1>1, <1>2, <1>4 DEF GoodStack, Nested
  <2> QED
    BY <2>1, <2>2
<1>10. Head(s).fn \notin Often => \A k \in 1 .. Len(r) : r[k] # Head(s)
  <2> SUFFICES ASSUME Head(s).fn \notin Often, NEW k \in 1 .. Len(r), r[k] = Head(s)
               PROVE  FALSE
    OBVIOUS
  <2>1. k + 1 = 1
    BY <1>1, <1>2, <1>4 DEF GoodStack, Unique, Often
  <2> QED
    BY <1>2, <2>1
<1>11. ASSUME NEW t \in Pending(s), NeedsAttendant(t, R)
       PROVE  \E u \in Pending(r) : Attends(u, t)
  <2>1. PICK i \in 1 .. Len(s) : t = s[i]
    BY <1>11 DEF Pending
  <2>2. PICK k \in 1 .. Len(s) : i < k /\ Attends(s[k], s[i])
    BY <1>11, <2>1 DEF GoodStack, Attended
  <2>3. k # 1 /\ k - 1 \in 1 .. Len(r) /\ r[k - 1] = s[k]
    BY <1>1, <1>3, <2>2
  <2> QED
    BY <2>1, <2>2, <2>3 DEF Pending
<1>12. \A u \in Pending(r) : u \in TaskSet /\ u.fn \in Below(Head(s).fn)
  BY <1>9 DEF Pending
<1>13. Head(s).fn \notin Often => Head(s) \notin Pending(r)
  BY <1>10 DEF Pending
<1>14. GoodStack(r, R)
  BY <1>1, <1>6, <1>7, <1>8 DEF GoodStack
<1> QED
  BY <1>4, <1>5, <1>11, <1>12, <1>13, <1>14 DEF r

(* Calls pushed on a good stack, each of which may lie on what was there.  *)
LEMMA PushStack ==
  ASSUME NEW R, NEW r, GoodStack(r, R),
         NEW p \in Seq(TaskSet), Nested(p), Unique(p),
         \A u \in Pending(p), v \in Pending(r) : v.fn \in Below(u.fn) /\ (u = v => u.fn \in Often),
         Attended(p, R)
  PROVE  /\ GoodStack(p \o r, R)
         /\ Pending(p \o r) = Pending(p) \cup Pending(r)
<1> DEFINE q == p \o r
<1>1. /\ r \in Seq(TaskSet) /\ q \in Seq(TaskSet)
      /\ Len(p) \in Nat /\ Len(r) \in Nat /\ Len(q) = Len(p) + Len(r)
      /\ \A k \in 1 .. Len(p) : q[k] = p[k]
      /\ \A k \in 1 .. Len(r) : q[Len(p) + k] = r[k]
  BY LenProperties, ConcatProperties DEF GoodStack
<1> HIDE DEF q
<1>2. \A k \in 1 .. Len(p) : k \in 1 .. Len(q) /\ k \in Nat
  BY <1>1
<1>3. \A k \in 1 .. Len(q) :
        \/ k \in 1 .. Len(p) /\ q[k] = p[k]
        \/ k > Len(p) /\ k - Len(p) \in 1 .. Len(r) /\ q[k] = r[k - Len(p)]
  <2> TAKE k \in 1 .. Len(q)
  <2>1. CASE k <= Len(p)
    BY <1>1, <2>1
  <2>2. CASE k > Len(p)
    <3>1. k - Len(p) \in 1 .. Len(r) /\ Len(p) + (k - Len(p)) = k
      BY <1>1, <2>2
    <3>2. q[Len(p) + (k - Len(p))] = r[k - Len(p)]
      BY <1>1, <3>1
    <3> QED
      BY <2>2, <3>1, <3>2
  <2> QED
    BY <1>1, <2>1, <2>2
<1>4. Pending(q) = Pending(p) \cup Pending(r)
  <2>1. Pending(q) \subseteq Pending(p) \cup Pending(r)
    BY <1>3 DEF Pending
  <2>2. \A k \in 1 .. Len(r) : Len(p) + k \in 1 .. Len(q)
    BY <1>1
  <2>3. Pending(p) \cup Pending(r) \subseteq Pending(q)
    BY <1>1, <1>2, <2>2 DEF Pending
  <2> QED
    BY <2>1, <2>3
<1>5. Nested(q)
  <2> SUFFICES ASSUME NEW i \in 1 .. Len(q), NEW k \in 1 .. Len(q), i < k
               PROVE  q[k].fn \in Below(q[i].fn)
    BY DEF Nested
  <2>1. CASE k \in 1 .. Len(p) /\ q[k] = p[k]
    <3>1. i \in 1 .. Len(p) /\ q[i] = p[i]
      BY <1>1, <2>1
    <3> QED
      BY <2>1, <3>1 DEF Nested
  <2>2. CASE k > Len(p) /\ k - Len(p) \in 1 .. Len(r) /\ q[k] = r[k - Len(p)]
    <3>1. CASE i \in 1 .. Len(p) /\ q[i] = p[i]
      BY <2>2, <3>1 DEF Pending
    <3>2. CASE i > Len(p) /\ i - Len(p) \in 1 .. Len(r) /\ q[i] = r[i - Len(p)]
      <4>1. i - Len(p) < k - Len(p)
        BY <1>1, <2>2, <3>2
      <4> QED
        BY <2>2, <3>2, <4>1 DEF GoodStack, Nested
    <3> QED
      BY <1>3, <3>1, <3>2
  <2> QED
    BY <1>3, <2>1, <2>2
<1>6. Unique(q)
  <2> SUFFICES ASSUME NEW i \in 1 .. Len(q), NEW k \in 1 .. Len(q),
                      q[i] = q[k], q[i].fn \notin Often
               PROVE  i = k
    BY DEF Unique, Often
  <2>1. CASE i \in 1 .. Len(p) /\ q[i] = p[i] /\ k \in 1 .. Len(p) /\ q[k] = p[k]
    BY <2>1 DEF Unique, Often
  <2>2. CASE /\ i > Len(p) /\ i - Len(p) \in 1 .. Len(r) /\ q[i] = r[i - Len(p)]
             /\ k > Len(p) /\ k - Len(p) \in 1 .. Len(r) /\ q[k] = r[k - Len(p)]
    <3>1. i - Len(p) = k - Len(p)
      BY <2>2 DEF GoodStack, Unique, Often
    <3> QED
      BY <1>1, <2>2, <3>1
  <2>3. CASE /\ i \in 1 .. Len(p) /\ q[i] = p[i]
             /\ k - Len(p) \in 1 .. Len(r) /\ q[k] = r[k - Len(p)]
    BY <2>3 DEF Pending
  <2>4. CASE /\ k \in 1 .. Len(p) /\ q[k] = p[k]
             /\ i - Len(p) \in 1 .. Len(r) /\ q[i] = r[i - Len(p)]
    BY <2>4 DEF Pending
  <2>5. /\ \/ i \in 1 .. Len(p) /\ q[i] = p[i]
           \/ i > Len(p) /\ i - Len(p) \in 1 .. Len(r) /\ q[i] = r[i - Len(p)]
        /\ \/ k \in 1 .. Len(p) /\ q[k] = p[k]
           \/ k > Len(p) /\ k - Len(p) \in 1 .. Len(r) /\ q[k] = r[k - Len(p)]
    BY <1>3
  <2> QED
    BY <2>1, <2>2, <2>3, <2>4, <2>5
<1>7. Attended(q, R)
  <2> SUFFICES ASSUME NEW i \in 1 .. Len(q), NeedsAttendant(q[i], R)
               PROVE  \E k \in 1 .. Len(q) : i < k /\ Attends(q[k], q[i])
    BY DEF Attended
  <2>1. CASE i \in 1 .. Len(p) /\ q[i] = p[i]
    BY <1>1, <1>2, <2>1 DEF Attended
  <2>2. CASE i > Len(p) /\ i - Len(p) \in 1 .. Len(r) /\ q[i] = r[i - Len(p)]
    <3>1. PICK k \in 1 .. Len(r) : i - Len(p) < k /\ Attends(r[k], r[i - Len(p)])
      BY <2>2 DEF GoodStack, Attended
    <3>2. Len(p) + k \in 1 .. Len(q) /\ i < Len(p) + k /\ q[Len(p) + k] = r[k]
      BY <1>1, <2>2, <3>1
    <3> QED
      BY <2>2, <3>1, <3>2
  <2> QED
    BY <1>3, <2>1, <2>2
<1> QED
  BY <1>1, <1>4, <1>5, <1>6, <1>7 DEF GoodStack, q

(* The calls that are pushed.                                              *)
Tasks(fn, c) == {CellTask(fn, c, s) : s \in Slot}

(* The visits that all_children makes: one for each slot, no two the same. *)
LEMMA ChildrenPushed ==
  ASSUME NEW fn \in {"decrement"} \cup VisitFn, NEW c \in Cell
  PROVE  LET p == AllChildren(fn, c) IN
         /\ p \in Seq(TaskSet) /\ Len(p) = Width /\ Width \in Nat
         /\ \A k \in 1 .. Len(p) : p[k] = CellTask(fn, c, k) /\ k \in Slot
         /\ Pending(p) = Tasks(fn, c)
         /\ Unique(p)
<1> DEFINE p == AllChildren(fn, c)
<1>1. p \in Seq(TaskSet)
  BY AllChildrenType
<1>2. Width \in Nat
  BY HeapGraphAssumption
<1>3. p \in [1 .. Width -> TaskSet]
  <2>1. DOMAIN p = 1 .. Width
    BY DEF AllChildren, Slot
  <2>2. \A s \in Slot : CellTask(fn, c, s) \in TaskSet
    BY CellTaskType, HeapGraphAssumption DEF Slot
  <2> QED
    BY <2>2 DEF AllChildren, Slot
<1>4. Len(p) = Width
  BY <1>1, <1>2, <1>3, LenProperties
<1>5. \A k \in 1 .. Len(p) : p[k] = CellTask(fn, c, k) /\ k \in Slot
  BY <1>4 DEF AllChildren, Slot
<1> HIDE DEF p
<1>6. Pending(p) = Tasks(fn, c)
  BY <1>4, <1>5 DEF Pending, Tasks, Slot
<1>7. Unique(p)
  BY <1>5, CellTaskFields DEF Unique
<1> QED
  BY <1>1, <1>2, <1>4, <1>5, <1>6, <1>7 DEF p

(* The same, and then the rest of the caller.                              *)
LEMMA ChildrenThenPushed ==
  ASSUME NEW fn \in {"decrement"} \cup VisitFn, NEW c \in Cell, NEW u \in TaskSet
  PROVE  LET p == AllChildren(fn, c) \o <<u>> IN
         /\ p \in Seq(TaskSet) /\ Len(p) = Width + 1 /\ Width \in Nat
         /\ \A k \in 1 .. Width : p[k] = CellTask(fn, c, k) /\ k \in Slot
         /\ p[Width + 1] = u
         /\ Pending(p) = Tasks(fn, c) \cup {u}
<1> DEFINE a == AllChildren(fn, c)
           p == a \o <<u>>
<1>1. /\ a \in Seq(TaskSet) /\ Len(a) = Width /\ Width \in Nat
      /\ \A k \in 1 .. Len(a) : a[k] = CellTask(fn, c, k) /\ k \in Slot
      /\ Pending(a) = Tasks(fn, c)
  BY ChildrenPushed
<1>2. <<u>> \in Seq(TaskSet) /\ Len(<<u>>) = 1 /\ <<u>>[1] = u
  OBVIOUS
<1> HIDE DEF a
<1>3. /\ p \in Seq(TaskSet) /\ Len(p) = Width + 1
      /\ \A k \in 1 .. Width : p[k] = a[k]
      /\ p[Width + 1] = u
  BY <1>1, <1>2, ConcatProperties
<1> HIDE DEF p
<1>4. \A k \in 1 .. Width + 1 : k \in 1 .. Width \/ k = Width + 1
  BY <1>1
<1>5. 1 .. Width \subseteq 1 .. Width + 1 /\ Width + 1 \in 1 .. Width + 1
  BY <1>1
<1>6. Pending(p) = Pending(a) \cup {u}
  BY <1>1, <1>3, <1>4, <1>5 DEF Pending
<1> QED
  BY <1>1, <1>3, <1>6 DEF p, a

(* A visit of the children and then the call u, on top of the calls of r.   *)
LEMMA PushChildrenThen ==
  ASSUME NEW fn \in {"decrement"} \cup VisitFn, NEW c \in Cell, NEW u \in TaskSet,
         NEW R, NEW r, GoodStack(r, R),
         u.fn # fn, u.fn \in Below(fn), fn \in Below(fn),
         \A v \in Pending(r) : v.fn \in Below(fn) /\ v.fn \in Below(u.fn),
         u \notin Pending(r),
         fn \in Often \/ Tasks(fn, c) \cap Pending(r) = {},
         \A s \in Slot : NeedsAttendant(CellTask(fn, c, s), R) => Attends(u, CellTask(fn, c, s)),
         ~ NeedsAttendant(u, R)
  PROVE  LET q == AllChildren(fn, c) \o <<u>> \o r IN
         /\ GoodStack(q, R)
         /\ Pending(q) = Tasks(fn, c) \cup {u} \cup Pending(r)
<1> DEFINE p == AllChildren(fn, c) \o <<u>>
<1>1. /\ p \in Seq(TaskSet) /\ Len(p) = Width + 1 /\ Width \in Nat
      /\ \A k \in 1 .. Width : p[k] = CellTask(fn, c, k) /\ k \in Slot
      /\ p[Width + 1] = u
      /\ Pending(p) = Tasks(fn, c) \cup {u}
  BY ChildrenThenPushed
<1>2. \A k \in 1 .. Len(p) : (k \in 1 .. Width /\ k < Width + 1) \/ k = Width + 1
  BY <1>1
<1> HIDE DEF p
<1>3. \A k \in 1 .. Width : p[k].fn = fn /\ p[k].slot = k
  BY <1>1, CellTaskFields
<1>4. Nested(p)
  <2> SUFFICES ASSUME NEW i \in 1 .. Len(p), NEW k \in 1 .. Len(p), i < k
               PROVE  p[k].fn \in Below(p[i].fn)
    BY DEF Nested
  <2>1. i \in 1 .. Width
    BY <1>1, <1>2
  <2> QED
    BY <1>1, <1>2, <1>3, <2>1
<1>5. Unique(p)
  <2> SUFFICES ASSUME NEW i \in 1 .. Len(p), NEW k \in 1 .. Len(p), p[i] = p[k]
               PROVE  i = k
    BY DEF Unique
  <2> QED
    BY <1>1, <1>2, <1>3
<1>6. Attended(p, R)
  <2> SUFFICES ASSUME NEW i \in 1 .. Len(p), NeedsAttendant(p[i], R)
               PROVE  \E k \in 1 .. Len(p) : i < k /\ Attends(p[k], p[i])
    BY DEF Attended
  <2>1. i \in 1 .. Width /\ i < Width + 1
    BY <1>1, <1>2
  <2>2. Width + 1 \in 1 .. Len(p)
    BY <1>1
  <2>3. Attends(p[Width + 1], p[i])
    BY <1>1, <2>1
  <2> QED
    BY <2>1, <2>2, <2>3
<1>7. \A w \in Pending(p) : (w \in Tasks(fn, c) /\ w.fn = fn) \/ w = u
  BY <1>1, CellTaskFields DEF Tasks
<1>8. \A w \in Pending(p), v \in Pending(r) : v.fn \in Below(w.fn) /\ (w = v => w.fn \in Often)
  BY <1>7
<1> QED
  BY <1>1, <1>4, <1>5, <1>6, <1>8, PushStack DEF p

(* A visit of the children alone.                                          *)
LEMMA PushChildren ==
  ASSUME NEW fn \in {"decrement"} \cup VisitFn, NEW c \in Cell,
         NEW R, NEW r, GoodStack(r, R),
         fn \in Below(fn),
         \A v \in Pending(r) : v.fn \in Below(fn),
         fn \in Often \/ Tasks(fn, c) \cap Pending(r) = {},
         \A s \in Slot : ~ NeedsAttendant(CellTask(fn, c, s), R)
  PROVE  LET q == AllChildren(fn, c) \o r IN
         /\ GoodStack(q, R)
         /\ Pending(q) = Tasks(fn, c) \cup Pending(r)
<1> DEFINE p == AllChildren(fn, c)
<1>1. /\ p \in Seq(TaskSet) /\ Len(p) = Width /\ Width \in Nat
      /\ \A k \in 1 .. Len(p) : p[k] = CellTask(fn, c, k) /\ k \in Slot
      /\ Pending(p) = Tasks(fn, c)
      /\ Unique(p)
  BY ChildrenPushed
<1> HIDE DEF p
<1>2. Nested(p)
  BY <1>1, CellTaskFields DEF Nested
<1>3. Attended(p, R)
  BY <1>1 DEF Attended
<1>4. \A w \in Pending(p) : w \in Tasks(fn, c) /\ w.fn = fn
  BY <1>1, CellTaskFields DEF Tasks
<1>5. \A w \in Pending(p), v \in Pending(r) : v.fn \in Below(w.fn) /\ (w = v => w.fn \in Often)
  BY <1>4
<1> QED
  BY <1>1, <1>2, <1>3, <1>5, PushStack DEF p

(* One call.                                                               *)
LEMMA PushOne ==
  ASSUME NEW u \in TaskSet, NEW R, NEW r, GoodStack(r, R),
         \A v \in Pending(r) : v.fn \in Below(u.fn),
         u \notin Pending(r),
         ~ NeedsAttendant(u, R)
  PROVE  /\ GoodStack(<<u>> \o r, R)
         /\ Pending(<<u>> \o r) = {u} \cup Pending(r)
<1> DEFINE p == <<u>>
<1>1. p \in Seq(TaskSet) /\ Len(p) = 1 /\ p[1] = u
  OBVIOUS
<1> HIDE DEF p
<1>2. \A k \in 1 .. Len(p) : k = 1 /\ p[k] = u
  BY <1>1
<1>3. Nested(p) /\ Unique(p) /\ Attended(p, R)
  BY <1>2 DEF Nested, Unique, Attended
<1>4. 1 \in 1 .. Len(p)
  BY <1>1
<1>5. Pending(p) = {u}
  BY <1>1, <1>2, <1>4 DEF Pending
<1>6. \A w \in Pending(p), v \in Pending(r) : v.fn \in Below(w.fn) /\ (w = v => w.fn \in Often)
  BY <1>5
<1> QED
  BY <1>1, <1>3, <1>5, <1>6, PushStack DEF p

(* qz_collect starts with only calls of the mutator pending.               *)
LEMMA PushCollect ==
  ASSUME NEW R, NEW r, GoodStack(r, R),
         \A v \in Pending(r) : v.fn \in MutatorFn
  PROVE  /\ GoodStack(CollectTasks \o r, R)
         /\ Pending(CollectTasks \o r) =
              { LoopTask(fn, 1, 1) : fn \in LoopFn } \cup Pending(r)
<1> DEFINE p == CollectTasks
<1>1. \A fn \in LoopFn : LoopTask(fn, 1, 1) \in TaskSet /\ LoopTask(fn, 1, 1).fn = fn
  BY LoopTaskType
<1>2. /\ p \in Seq(TaskSet) /\ Len(p) = 4
      /\ p[1] = LoopTask("mark_roots", 1, 1)
      /\ p[2] = LoopTask("scan_roots", 1, 1)
      /\ p[3] = LoopTask("collect_roots", 1, 1)
      /\ p[4] = LoopTask("free_roots", 1, 1)
  BY <1>1 DEF CollectTasks, LoopFn
<1> HIDE DEF p
<1>3. \A k \in 1 .. Len(p) : k \in {1, 2, 3, 4}
  BY <1>2
<1>4. {1, 2, 3, 4} \subseteq 1 .. Len(p)
  BY <1>2
<1>5. /\ p[1].fn = "mark_roots" /\ p[2].fn = "scan_roots"
      /\ p[3].fn = "collect_roots" /\ p[4].fn = "free_roots"
  BY <1>1, <1>2 DEF LoopFn
<1>6. Pending(p) = { LoopTask(fn, 1, 1) : fn \in LoopFn }
  <2>1. \A k \in 1 .. Len(p) : p[k] \in { LoopTask(fn, 1, 1) : fn \in LoopFn }
    BY <1>2, <1>3 DEF LoopFn
  <2>2. \A fn \in LoopFn : LoopTask(fn, 1, 1) \in Pending(p)
    BY <1>2, <1>4 DEF LoopFn, Pending
  <2> QED
    BY <2>1, <2>2 DEF Pending
<1>7. Nested(p)
  <2> SUFFICES ASSUME NEW i \in 1 .. Len(p), NEW k \in 1 .. Len(p), i < k
               PROVE  p[k].fn \in Below(p[i].fn)
    BY DEF Nested
  <2>1. \/ i = 1 /\ k \in {2, 3, 4}
        \/ i = 2 /\ k \in {3, 4}
        \/ i = 3 /\ k = 4
    BY <1>3
  <2> QED
    BY <1>5, <2>1 DEF Below, MutatorFn
<1>8. Unique(p)
  BY <1>3, <1>5 DEF Unique
<1>9. \A k \in 1 .. Len(p) : p[k].fn \in LoopFn
  BY <1>3, <1>5 DEF LoopFn
<1>10. Attended(p, R)
  BY <1>9 DEF Attended, NeedsAttendant, LoopFn
<1>11. \A w \in Pending(p), v \in Pending(r) : v.fn \in Below(w.fn) /\ w # v
  BY <1>9 DEF Pending, Below, LoopFn, MutatorFn
<1> QED
  BY <1>2, <1>6, <1>7, <1>8, <1>10, <1>11, PushStack DEF p

(* scan_roots visits the cells of the buffer.                              *)
LEMMA PushScans ==
  ASSUME NEW b \in Seq(Cell), NEW R, NEW r, GoodStack(r, R),
         \A v \in Pending(r) : v.fn \in Below("scan")
  PROVE  LET q == [k \in 1 .. Len(b) |-> CellTask("scan", b[k], 0)] \o r IN
         /\ GoodStack(q, R)
         /\ Pending(q) = { CellTask("scan", b[k], 0) : k \in 1 .. Len(b) } \cup Pending(r)
<1> DEFINE p == [k \in 1 .. Len(b) |-> CellTask("scan", b[k], 0)]
<1>1. Len(b) \in Nat /\ \A k \in 1 .. Len(b) : b[k] \in Cell
  BY LenProperties, ElementOfSeq
<1>2. \A k \in 1 .. Len(b) : CellTask("scan", b[k], 0) \in TaskSet
  BY <1>1, CellTaskType, HeapGraphAssumption DEF VisitFn
<1>3. p \in [1 .. Len(b) -> TaskSet]
  BY <1>2
<1>4. p \in Seq(TaskSet)
  BY <1>1, <1>3, SeqDef
<1>5. Len(p) = Len(b)
  BY <1>1, <1>3, <1>4, LenProperties
<1>6. \A k \in 1 .. Len(p) : p[k] = CellTask("scan", b[k], 0) /\ p[k].fn = "scan"
  BY <1>5, CellTaskFields
<1>7. Pending(p) = { CellTask("scan", b[k], 0) : k \in 1 .. Len(b) }
  BY <1>5, <1>6 DEF Pending
<1> HIDE DEF p
<1>8. Nested(p) /\ Unique(p) /\ Attended(p, R)
  BY <1>6 DEF Nested, Unique, Attended, NeedsAttendant, Below
<1>9. \A w \in Pending(p), v \in Pending(r) : v.fn \in Below(w.fn) /\ (w = v => w.fn \in Often)
  BY <1>6 DEF Pending, Often
<1> QED
  BY <1>4, <1>7, <1>8, <1>9, PushStack DEF p

(* Without collect_white the buffer makes no difference.                   *)
LEMMA OtherBuffer ==
  ASSUME NEW R, NEW R2, NEW s, GoodStack(s, R),
         \A t \in Pending(s) : t.fn = "collect_white" => R \subseteq R2
  PROVE  GoodStack(s, R2)
<1>1. \A i \in 1 .. Len(s) : NeedsAttendant(s[i], R2) => NeedsAttendant(s[i], R)
  BY DEF Pending, NeedsAttendant
<1> QED
  BY <1>1 DEF GoodStack, Attended

(***************************************************************************)
(* Records.                                                                *)
(***************************************************************************)

(* Pending visits are the same when function, cell and slot are.            *)
LEMMA SameCellTask ==
  ASSUME NEW f, NEW c, NEW s, NEW g, NEW d, NEW r
  PROVE  CellTask(f, c, s) = CellTask(g, d, r) <=> f = g /\ c = d /\ s = r
<1>1. CellTask(f, c, s) = CellTask(g, d, r) => f = g /\ c = d /\ s = r
  BY CellTaskFields
<1> QED
  BY <1>1

(***************************************************************************)
(* The counts.                                                             *)
(***************************************************************************)

\* the slot s of d holds a reference to a cell, and the cell's count has it
Counted(d, s) == EdgeTarget(d, s) # NoCell /\ Counts(d, s)

(* The references to a cell can be counted.                                *)
LEMMA RefsFinite ==
  ASSUME NEW c
  PROVE  IsFiniteSet(InRefs(c)) /\ Cardinality(InRefs(c)) \in Nat
<1>1. IsFiniteSet(0 .. Width)
  BY HeapGraphAssumption, FS_Interval
<1>2. IsFiniteSet(Edge)
  BY <1>1, HeapGraphAssumption, FS_Product DEF Edge
<1>3. InRefs(c) \in SUBSET Edge
  BY DEF InRefs
<1> QED
  BY <1>2, <1>3, FS_Subset, FS_CardinalityType

(* A counted reference and one of the interpreter are two.                 *)
LEMMA CountAtLeast ==
  ASSUME TypeOK, CountInv, NEW c \in Cell
  PROVE  /\ rc[c] >= handle[c]
         /\ handle[c] \in Nat /\ rc[c] \in Nat
         /\ \A d \in Cell, s \in 0 .. Width :
              EdgeTarget(d, s) = c /\ Counts(d, s) => rc[c] > handle[c]
<1>1. IsFiniteSet(InRefs(c)) /\ Cardinality(InRefs(c)) \in Nat
  BY RefsFinite
<1>2. rc[c] = handle[c] + Cardinality(InRefs(c)) /\ handle[c] \in Nat /\ rc[c] \in Nat
  BY DEF CountInv, TypeOK
<1>3. ASSUME NEW d \in Cell, NEW s \in 0 .. Width, EdgeTarget(d, s) = c, Counts(d, s)
      PROVE  Cardinality(InRefs(c)) > 0
  <2>1. <<d, s>> \in InRefs(c)
    BY <1>3 DEF InRefs, Edge
  <2> QED
    BY <1>1, <2>1, FS_EmptySet
<1> QED
  BY <1>1, <1>2, <1>3

(* The same references are counted, and lead where they led.               *)
LEMMA RefsKept ==
  ASSUME NEW c \in Cell,
         \A d \in Cell, s \in 0 .. Width : Counted(d, s)' <=> Counted(d, s),
         \A d \in Cell, s \in 0 .. Width :
           Counted(d, s) => EdgeTarget(d, s)' = EdgeTarget(d, s)
  PROVE  InRefs(c)' = InRefs(c)
<1>1. c # NoCell
  BY HeapGraphAssumption
<1>2. ASSUME NEW e \in Edge
      PROVE  e \in InRefs(c)' <=> e \in InRefs(c)
  <2>1. e[1] \in Cell /\ e[2] \in 0 .. Width
    BY DEF Edge
  <2>2. e \in InRefs(c) <=> EdgeTarget(e[1], e[2]) = c /\ Counted(e[1], e[2])
    BY <1>1 DEF InRefs, Counted
  <2>3. e \in InRefs(c)' <=> EdgeTarget(e[1], e[2])' = c /\ Counted(e[1], e[2])'
    BY <1>1 DEF InRefs, Counted
  <2> QED
    BY <2>1, <2>2, <2>3
<1>3. InRefs(c) \subseteq Edge /\ InRefs(c)' \subseteq Edge
  BY DEF InRefs
<1> QED
  BY <1>2, <1>3

(* One reference is counted no more.                                       *)
LEMMA RefsLess ==
  ASSUME NEW c \in Cell, NEW d0 \in Cell, NEW s0 \in 0 .. Width,
         \A d \in Cell, s \in 0 .. Width :
           Counted(d, s)' <=> Counted(d, s) /\ ~ (d = d0 /\ s = s0),
         \A d \in Cell, s \in 0 .. Width :
           Counted(d, s)' => EdgeTarget(d, s)' = EdgeTarget(d, s)
  PROVE  InRefs(c)' = InRefs(c) \ {<<d0, s0>>}
<1>1. c # NoCell
  BY HeapGraphAssumption
<1>2. ASSUME NEW e \in Edge
      PROVE  e \in InRefs(c)' <=> e \in InRefs(c) \ {<<d0, s0>>}
  <2>1. e[1] \in Cell /\ e[2] \in 0 .. Width /\ e = <<e[1], e[2]>>
    BY DEF Edge
  <2>2. e \in InRefs(c) <=> EdgeTarget(e[1], e[2]) = c /\ Counted(e[1], e[2])
    BY <1>1 DEF InRefs, Counted
  <2>3. e \in InRefs(c)' <=> EdgeTarget(e[1], e[2])' = c /\ Counted(e[1], e[2])'
    BY <1>1 DEF InRefs, Counted
  <2>4. e = <<d0, s0>> <=> e[1] = d0 /\ e[2] = s0
    BY <2>1
  <2> QED
    BY <2>1, <2>2, <2>3, <2>4
<1>3. InRefs(c) \subseteq Edge /\ InRefs(c)' \subseteq Edge
  BY DEF InRefs
<1> QED
  BY <1>2, <1>3

(* One more reference is counted.                                          *)
LEMMA RefsMore ==
  ASSUME NEW c \in Cell, NEW d0 \in Cell, NEW s0 \in 0 .. Width,
         \A d \in Cell, s \in 0 .. Width :
           Counted(d, s)' <=> Counted(d, s) \/ (d = d0 /\ s = s0),
         \A d \in Cell, s \in 0 .. Width :
           Counted(d, s) => EdgeTarget(d, s)' = EdgeTarget(d, s)
  PROVE  InRefs(c)' =
           IF c = EdgeTarget(d0, s0)' THEN InRefs(c) \cup {<<d0, s0>>} ELSE InRefs(c)
<1>1. c # NoCell
  BY HeapGraphAssumption
<1>2. ASSUME NEW e \in Edge
      PROVE  e \in InRefs(c)' <=>
               e \in InRefs(c) \/ (e = <<d0, s0>> /\ c = EdgeTarget(d0, s0)')
  <2>1. e[1] \in Cell /\ e[2] \in 0 .. Width /\ e = <<e[1], e[2]>>
    BY DEF Edge
  <2>2. e \in InRefs(c) <=> EdgeTarget(e[1], e[2]) = c /\ Counted(e[1], e[2])
    BY <1>1 DEF InRefs, Counted
  <2>3. e \in InRefs(c)' <=> EdgeTarget(e[1], e[2])' = c /\ Counted(e[1], e[2])'
    BY <1>1 DEF InRefs, Counted
  <2>4. e = <<d0, s0>> <=> e[1] = d0 /\ e[2] = s0
    BY <2>1
  <2>5. CASE e[1] = d0 /\ e[2] = s0
    <3>1. EdgeTarget(e[1], e[2])' = EdgeTarget(d0, s0)'
      BY <2>5
    <3> QED
      BY <2>1, <2>2, <2>3, <2>4, <2>5, <3>1
  <2>6. CASE ~ (e[1] = d0 /\ e[2] = s0)
    BY <2>1, <2>2, <2>3, <2>4, <2>6
  <2> QED
    BY <2>5, <2>6
<1>3. InRefs(c) \subseteq Edge /\ InRefs(c)' \subseteq Edge /\ <<d0, s0>> \in Edge
  BY DEF InRefs, Edge
<1> QED
  BY <1>2, <1>3

(* Every count stays, and so does every counted reference.                 *)
LEMMA CountKept ==
  ASSUME CountInv,
         \A d \in Cell, s \in 0 .. Width : Counted(d, s)' <=> Counted(d, s),
         \A d \in Cell, s \in 0 .. Width :
           Counted(d, s) => EdgeTarget(d, s)' = EdgeTarget(d, s),
         rc' = rc, handle' = handle
  PROVE  CountInv'
<1>1. \A c \in Cell : InRefs(c)' = InRefs(c)
  BY RefsKept
<1> QED
  BY <1>1 DEF CountInv

(* A count goes down with the reference of a slot.                         *)
LEMMA CountLess ==
  ASSUME TypeOK, CountInv, NEW d0 \in Cell, NEW s0 \in 0 .. Width, NEW c0 \in Cell,
         Counts(d0, s0), EdgeTarget(d0, s0) = c0,
         \A d \in Cell, s \in 0 .. Width :
           Counted(d, s)' <=> Counted(d, s) /\ ~ (d = d0 /\ s = s0),
         \A d \in Cell, s \in 0 .. Width :
           Counted(d, s)' => EdgeTarget(d, s)' = EdgeTarget(d, s),
         rc' = [rc EXCEPT ![c0] = @ - 1], handle' = handle
  PROVE  CountInv'
<1> SUFFICES ASSUME NEW c \in Cell
             PROVE  rc'[c] = handle'[c] + Cardinality(InRefs(c)')
  BY DEF CountInv
<1>1. InRefs(c)' = InRefs(c) \ {<<d0, s0>>}
  BY RefsLess
<1>2. IsFiniteSet(InRefs(c)) /\ Cardinality(InRefs(c)) \in Nat
  BY RefsFinite
<1>3. <<d0, s0>> \in InRefs(c) <=> c = c0
  BY DEF InRefs, Edge
<1>4. Cardinality(InRefs(c)') =
        IF c = c0 THEN Cardinality(InRefs(c)) - 1 ELSE Cardinality(InRefs(c))
  BY <1>1, <1>2, <1>3, FS_RemoveElement
<1>5. rc'[c] = IF c = c0 THEN rc[c] - 1 ELSE rc[c]
  BY DEF TypeOK
<1>6. rc[c] = handle[c] + Cardinality(InRefs(c)) /\ rc[c] \in Nat /\ handle[c] \in Nat
  BY DEF CountInv, TypeOK
<1> QED
  BY <1>2, <1>4, <1>5, <1>6

(* A slot's reference is counted: the count goes up, or it is one that the *)
(* interpreter gives away.                                                 *)
LEMMA CountMore ==
  ASSUME TypeOK, CountInv, NEW d0 \in Cell, NEW s0 \in 0 .. Width, NEW c0 \in Cell,
         ~ Counted(d0, s0), EdgeTarget(d0, s0)' = c0,
         \A d \in Cell, s \in 0 .. Width :
           Counted(d, s)' <=> Counted(d, s) \/ (d = d0 /\ s = s0),
         \A d \in Cell, s \in 0 .. Width :
           Counted(d, s) => EdgeTarget(d, s)' = EdgeTarget(d, s),
         \/ rc' = [rc EXCEPT ![c0] = @ + 1] /\ handle' = handle
         \/ rc' = rc /\ handle' = [handle EXCEPT ![c0] = @ - 1] /\ handle[c0] > 0
  PROVE  CountInv'
<1> SUFFICES ASSUME NEW c \in Cell
             PROVE  rc'[c] = handle'[c] + Cardinality(InRefs(c)')
  BY DEF CountInv
<1>1. InRefs(c)' = IF c = c0 THEN InRefs(c) \cup {<<d0, s0>>} ELSE InRefs(c)
  BY RefsMore
<1>2. IsFiniteSet(InRefs(c)) /\ Cardinality(InRefs(c)) \in Nat
  BY RefsFinite
<1>3. <<d0, s0>> \notin InRefs(c)
  BY HeapGraphAssumption DEF InRefs, Counted
<1>4. Cardinality(InRefs(c)') =
        IF c = c0 THEN Cardinality(InRefs(c)) + 1 ELSE Cardinality(InRefs(c))
  BY <1>1, <1>2, <1>3, FS_AddElement
<1>5. rc'[c] - handle'[c] = IF c = c0 THEN rc[c] - handle[c] + 1 ELSE rc[c] - handle[c]
  BY DEF TypeOK
<1>6. /\ rc[c] = handle[c] + Cardinality(InRefs(c)) /\ rc[c] \in Nat /\ handle[c] \in Nat
  BY DEF CountInv, TypeOK
<1>7. rc'[c] \in Int /\ handle'[c] \in Int
  BY DEF TypeOK
<1> QED
  BY <1>2, <1>4, <1>5, <1>6, <1>7

(***************************************************************************)
(* What can be found.                                                      *)
(***************************************************************************)

(* Nothing to find.                                                        *)
LEMMA FoundNone ==
  ASSUME NEW h, NEW B
  PROVE  FoundFrom(h, {}, B)
BY DEF FoundFrom

(* What can be found from nothing is nothing.                              *)
LEMMA FoundGone ==
  ASSUME NEW h, NEW B, NEW S, FoundFrom(h, S, B), B \cap S = {}
  PROVE  S = {}
<1>1. {} \in SUBSET Cell
  OBVIOUS
<1>2. S \subseteq {}
  BY <1>1 DEF FoundFrom
<1> QED
  BY <1>2

(* More cells to find, more cells to start from.                           *)
LEMMA FoundMore ==
  ASSUME NEW h, NEW S, NEW B, FoundFrom(h, S, B),
         NEW S2, NEW B2, S \subseteq S2, S2 \ S \subseteq B2, B \cap S \subseteq B2
  PROVE  FoundFrom(h, S2, B2)
<1> SUFFICES ASSUME NEW T \in SUBSET Cell, B2 \cap S2 \subseteq T,
                    \A d \in T \cap S2, s \in Slot : h[d][s] \in S2 => h[d][s] \in T
             PROVE  S2 \subseteq T
  BY DEF FoundFrom
<1>1. B \cap S \subseteq T
  OBVIOUS
<1>2. S \subseteq T
  BY <1>1 DEF FoundFrom
<1> QED
  BY <1>2

(* One more cell to find, in a slot of one that is found.                  *)
LEMMA FoundReach ==
  ASSUME NEW h, NEW S, NEW B, FoundFrom(h, S, B),
         NEW d \in S, NEW s \in Slot, NEW B2, B \cap S \subseteq B2
  PROVE  FoundFrom(h, S \cup {h[d][s]}, B2)
<1> DEFINE S2 == S \cup {h[d][s]}
<1> SUFFICES ASSUME NEW T \in SUBSET Cell, B2 \cap S2 \subseteq T,
                    \A e \in T \cap S2, r \in Slot : h[e][r] \in S2 => h[e][r] \in T
             PROVE  S2 \subseteq T
  BY DEF FoundFrom
<1>1. B \cap S \subseteq T
  OBVIOUS
<1>2. S \subseteq T
  BY <1>1 DEF FoundFrom
<1> QED
  BY <1>2

(* One cell less to find; what it led to is started from.                  *)
LEMMA FoundLess ==
  ASSUME NEW h, NEW S, NEW B, FoundFrom(h, S, B),
         NEW c \in Cell, NEW B2, (B \cap S) \ {c} \subseteq B2,
         c \in S => \A s \in Slot : h[c][s] \in S \ {c} => h[c][s] \in B2
  PROVE  FoundFrom(h, S \ {c}, B2)
<1> DEFINE S2 == S \ {c}
<1> SUFFICES ASSUME NEW T \in SUBSET Cell, B2 \cap S2 \subseteq T,
                    \A e \in T \cap S2, r \in Slot : h[e][r] \in S2 => h[e][r] \in T
             PROVE  S2 \subseteq T
  BY DEF FoundFrom
<1> DEFINE U == T \cup {c}
<1>1. U \in SUBSET Cell /\ B \cap S \subseteq U
  OBVIOUS
<1>2. ASSUME NEW e \in U \cap S, NEW r \in Slot, h[e][r] \in S
      PROVE  h[e][r] \in U
  <2>1. CASE e = c
    BY <1>2, <2>1
  <2>2. CASE e # c
    BY <1>2, <2>2
  <2> QED
    BY <2>1, <2>2
<1>3. S \subseteq U
  BY <1>1, <1>2 DEF FoundFrom
<1> QED
  BY <1>3

(* Only the slots of the cells to find matter.                             *)
LEMMA FoundHeap ==
  ASSUME NEW h, NEW S, NEW B, FoundFrom(h, S, B),
         NEW h2, \A d \in S, s \in Slot : h2[d][s] = h[d][s]
  PROVE  FoundFrom(h2, S, B)
<1> SUFFICES ASSUME NEW T \in SUBSET Cell, B \cap S \subseteq T,
                    \A e \in T \cap S, r \in Slot : h2[e][r] \in S => h2[e][r] \in T
             PROVE  S \subseteq T
  BY DEF FoundFrom
<1>1. \A e \in T \cap S, r \in Slot : h[e][r] \in S => h[e][r] \in T
  OBVIOUS
<1> QED
  BY <1>1 DEF FoundFrom

(***************************************************************************)
(* The phases.                                                             *)
(***************************************************************************)

\* no call of qz_collect is pending
OnlyMutator == \A t \in Pending(stack) : t.fn \in MutatorFn

\* nothing is marked, and the whole buffer is in use
NoPass ==
  /\ ~ InPass /\ ~ Marking /\ ~ Tracing
  /\ ~ Calling("mark_roots") /\ ~ Calling("scan_roots")
  /\ ~ Calling("collect_roots") /\ ~ Calling("free_roots")
  /\ Needed /\ VisitedInv /\ FoundInv
  /\ InUse = DOMAIN roots /\ StillBuffered = DOMAIN roots

(* Outside qz_collect nothing is being marked.                             *)
LEMMA OutsidePass == OnlyMutator => NoPass
<1> SUFFICES ASSUME OnlyMutator PROVE NoPass
  OBVIOUS
<1>1. \A fn : Calling(fn) => fn \in MutatorFn
  BY DEF OnlyMutator, Calling
<1>2. /\ ~ InPass /\ ~ Marking /\ ~ Tracing
  BY <1>1 DEF InPass, Marking, Tracing, MutatorFn
<1>3. /\ VisitedInv /\ FoundInv /\ Needed
  BY <1>1, <1>2 DEF VisitedInv, FoundInv, Needed, MutatorFn
<1>4. InUse = DOMAIN roots
  BY DEF InUse, OnlyMutator, MutatorFn
<1>5. StillBuffered = DOMAIN roots
  BY <1>2, <1>4 DEF StillBuffered, OnlyMutator, MutatorFn
<1>6. /\ ~ Calling("mark_roots") /\ ~ Calling("scan_roots")
      /\ ~ Calling("collect_roots") /\ ~ Calling("free_roots")
  BY <1>1 DEF MutatorFn
<1> QED
  BY <1>2, <1>3, <1>4, <1>5, <1>6 DEF NoPass

(* The call at the top and those below it.                                 *)
LEMMA TopFacts ==
  ASSUME ControlInv, StackInv, stack # <<>>
  PROVE  /\ Top \in TaskSet /\ Top \in Pending(stack)
         /\ Pending(stack) = {Top} \cup Pending(Rest)
         /\ GoodStack(Rest, InBuffer)
         /\ \A u \in Pending(Rest) : u \in TaskSet /\ u.fn \in Below(Top.fn)
         /\ Top.fn \notin Often => Top \notin Pending(Rest)
         /\ \A t \in Pending(stack) :
              NeedsAttendant(t, InBuffer) => \E u \in Pending(Rest) : Attends(u, t)
<1>1. GoodStack(stack, InBuffer)
  BY DEF ControlInv, TypeOK, StackInv, GoodStack
<1>2. stack # <<>>
  OBVIOUS
<1>3. /\ Top \in TaskSet
      /\ Pending(stack) = {Top} \cup Pending(Rest)
      /\ GoodStack(Rest, InBuffer)
      /\ \A u \in Pending(Rest) : u \in TaskSet /\ u.fn \in Below(Top.fn)
      /\ Top.fn \notin Often => Top \notin Pending(Rest)
      /\ \A t \in Pending(stack) :
           NeedsAttendant(t, InBuffer) => \E u \in Pending(Rest) : Attends(u, t)
  BY ONLY <1>1, <1>2, PopStack DEF Top, Rest
<1> QED
  BY ONLY <1>3

(* A call that visits a cell.                                              *)
LEMMA VisitFacts ==
  ASSUME ControlInv, StackInv, NEW fn \in {"decrement", "release_cell"} \cup VisitFn,
         Visits(fn)
  PROVE  /\ fault = "none" /\ stack # <<>> /\ Top.fn = fn
         /\ Top.cell \in Cell /\ Top.slot \in 0 .. Width
         /\ Top = CellTask(fn, Top.cell, Top.slot)
         /\ Target(Top) = EdgeTarget(Top.cell, Top.slot)
         /\ Target(Top) \in Cell /\ Target(Top) \in alloc /\ Top.cell \in alloc
<1>1. stack # <<>> /\ Top.fn = fn /\ fault = "none" /\ Target(Top) # NoCell
  BY DEF Visits, Calls
<1>2. Top \in TaskSet
  BY <1>1, TopFacts
<1>3. fn \notin LoopFn /\ fn # "store"
  BY DEF VisitFn, LoopFn
<1>4. Top = CellTask(fn, Top.cell, Top.slot) /\ Top.cell \in Cell /\ Top.slot \in 0 .. Width
  BY <1>1, <1>2, <1>3, IsCellTask, TaskTypes
<1>5. Touched(Top) = {Top.cell} \cup {Target(Top)}
  BY <1>1, <1>3 DEF Touched
<1>6. Target(Top) \in alloc /\ Top.cell \in alloc /\ alloc \subseteq Cell
  BY <1>5 DEF Visits, Calls, ControlInv, TypeOK
<1>7. Target(Top) = EdgeTarget(Top.cell, Top.slot)
  BY DEF Target, EdgeTarget
<1> QED
  BY <1>1, <1>4, <1>6, <1>7

(***************************************************************************)
(* qz_unref.                                                               *)
(***************************************************************************)

(* A decrement that is about to run.                                       *)
LEMMA DecrementFacts ==
  ASSUME ControlInv, Good, Visits("decrement"),
         NEW d, NEW s, NEW c, d = Top.cell, s = Top.slot, c = Target(Top)
  PROVE  /\ OnlyMutator
         /\ Counts(d, s) /\ rc[c] > handle[c] /\ handle[c] \in Nat /\ rc[c] \in Nat
         /\ Settled(c)
         /\ ~ \E t \in Pending(Rest) : t.fn = "release_cell" /\ t.cell = c
         /\ s # 0 => \/ d # c /\ rc[d] = 0
                     \/ \E t \in Pending(Rest) : t.fn = "store" /\ t.cell = d /\ t.slot = s
<1> USE DEF Good
<1>1. /\ stack # <<>> /\ Top.fn = "decrement" /\ d \in Cell /\ s \in 0 .. Width
      /\ Top = CellTask("decrement", d, s) /\ EdgeTarget(d, s) = c /\ c \in Cell
  BY VisitFacts
<1>2. /\ Top \in Pending(stack) /\ Pending(stack) = {Top} \cup Pending(Rest)
      /\ \A u \in Pending(Rest) : u \in TaskSet /\ u.fn \in Below(Top.fn)
      /\ NeedsAttendant(Top, InBuffer) => \E u \in Pending(Rest) : Attends(u, Top)
  BY <1>1, TopFacts
<1>3. \A u \in Pending(Rest) : u.fn \in MutatorFn
  BY <1>1, <1>2 DEF Below, MutatorFn
<1>4. OnlyMutator
  BY <1>1, <1>2, <1>3 DEF OnlyMutator, MutatorFn
<1>5. Counts(d, s)
  BY <1>1, <1>2 DEF Counts, Pend
<1>6. rc[c] > handle[c] /\ handle[c] \in Nat /\ rc[c] \in Nat
  BY <1>1, <1>5, CountAtLeast DEF ControlInv
<1>7. Settled(c)
  <2>1. NoPass
    BY <1>4, OutsidePass
  <2>2. color[c] \in Color
    BY <1>1 DEF ControlInv, TypeOK
  <2>3. color[c] \notin {"gray", "white"}
    BY <1>1, <2>1 DEF NoPass, ColorInv, MutatorFn
  <2> QED
    BY <1>6, <2>2, <2>3 DEF Settled, Color
<1>8. ASSUME NEW t \in Pending(stack), t.fn = "release_cell"
      PROVE  rc[t.cell] = 0
  BY <1>8 DEF TaskInv, TaskGood
<1>9. ASSUME s # 0
      PROVE  \/ d # c /\ rc[d] = 0
             \/ \E t \in Pending(Rest) : t.fn = "store" /\ t.cell = d /\ t.slot = s
  <2>1. PICK u \in Pending(Rest) : Attends(u, Top)
    BY <1>1, <1>2, <1>9 DEF NeedsAttendant
  <2>2. CASE u.fn = "release_cell" /\ u.cell = d
    BY <1>2, <1>6, <1>8, <2>2
  <2>3. CASE u.fn = "store" /\ u.cell = d /\ u.slot = s
    BY <2>3
  <2> QED
    BY <1>1, <2>1, <2>2, <2>3 DEF Attends
<1> QED
  BY <1>2, <1>4, <1>5, <1>6, <1>7, <1>8, <1>9

(* decrement of the last count: the children's references are now those    *)
(* that the pending calls will give up.                                    *)
LEMMA DecrementToZeroStep ==
  ASSUME ControlInv, Good, DecrementToZero
  PROVE  Good'
<1> DEFINE d == Top.cell
           s == Top.slot
           c == Target(Top)
           u == CellTask("release_cell", c, 0)
<1>1. /\ fault = "none" /\ stack # <<>> /\ Top.fn = "decrement"
      /\ d \in Cell /\ s \in 0 .. Width
      /\ Top = CellTask("decrement", d, s) /\ EdgeTarget(d, s) = c
      /\ c \in Cell /\ c \in alloc
  BY VisitFacts DEF DecrementToZero, Good
<1>2. /\ Top \in TaskSet /\ Top \in Pending(stack) /\ Pending(stack) = {Top} \cup Pending(Rest)
      /\ GoodStack(Rest, InBuffer)
      /\ \A v \in Pending(Rest) : v \in TaskSet /\ v.fn \in MutatorFn
      /\ Top \notin Pending(Rest)
      /\ \A t \in Pending(stack) :
           NeedsAttendant(t, InBuffer) => \E v \in Pending(Rest) : Attends(v, t)
  BY <1>1, TopFacts DEF Good, Below, MutatorFn, Often
<1>3. /\ OnlyMutator
      /\ Counts(d, s) /\ rc[c] > handle[c] /\ handle[c] \in Nat /\ rc[c] \in Nat
      /\ Settled(c)
      /\ ~ \E t \in Pending(Rest) : t.fn = "release_cell" /\ t.cell = c
      /\ s # 0 => \/ d # c /\ rc[d] = 0
                  \/ \E t \in Pending(Rest) : t.fn = "store" /\ t.cell = d /\ t.slot = s
  BY DecrementFacts DEF DecrementToZero
<1>4. /\ rc[c] = 1
      /\ rc' = [rc EXCEPT ![c] = @ - 1]
      /\ stack' = AllChildren("decrement", c) \o << u >> \o Rest
      /\ UNCHANGED <<alloc, color, buffered, field, roots, handle, fault, exposed>>
  BY DEF DecrementToZero, LastReference
<1> HIDE DEF d, s, c
<1>5. \A t \in Pending(stack) : t.fn = "store" => t.cell # c
  BY <1>3, <1>4 DEF Good, TaskInv, TaskGood
<1>6. \A r \in Slot : CellTask("decrement", c, r) \notin Pending(stack)
  <2> SUFFICES ASSUME NEW r \in Slot, CellTask("decrement", c, r) \in Pending(stack)
               PROVE  FALSE
    OBVIOUS
  <2>1. NeedsAttendant(CellTask("decrement", c, r), InBuffer)
    BY CellTaskFields DEF NeedsAttendant, Slot
  <2>2. PICK v \in Pending(Rest) : Attends(v, CellTask("decrement", c, r))
    BY <1>2, <2>1
  <2> QED
    BY <1>2, <1>3, <1>5, <2>2, CellTaskFields DEF Attends
<1>7. u \in TaskSet /\ u.fn = "release_cell" /\ u.cell = c /\ u.slot = 0 /\ u \notin Pending(Rest)
  BY <1>1, <1>3, CellTaskType, CellTaskFields, HeapGraphAssumption
<1>8. /\ GoodStack(stack', InBuffer)
      /\ Pending(stack') = Tasks("decrement", c) \cup {u} \cup Pending(Rest)
  <2>1. Tasks("decrement", c) \cap Pending(Rest) = {}
    BY <1>2, <1>6 DEF Tasks
  <2>2. \A r \in Slot : Attends(u, CellTask("decrement", c, r))
    BY <1>7, CellTaskFields DEF Attends
  <2>3. ~ NeedsAttendant(u, InBuffer)
    BY <1>7 DEF NeedsAttendant
  <2>4. /\ u.fn # "decrement" /\ u.fn \in Below("decrement") /\ "decrement" \in Below("decrement")
        /\ \A v \in Pending(Rest) : v.fn \in Below("decrement") /\ v.fn \in Below(u.fn)
    BY <1>2, <1>7 DEF Below, MutatorFn
  <2>5. c \in Cell /\ u \in TaskSet /\ GoodStack(Rest, InBuffer) /\ u \notin Pending(Rest)
    BY <1>1, <1>2, <1>7
  <2> HIDE DEF u
  <2>6. /\ GoodStack(AllChildren("decrement", c) \o << u >> \o Rest, InBuffer)
        /\ Pending(AllChildren("decrement", c) \o << u >> \o Rest)
             = Tasks("decrement", c) \cup {u} \cup Pending(Rest)
    BY <2>1, <2>2, <2>3, <2>4, <2>5, PushChildrenThen
  <2> QED
    BY <1>4, <2>6
<1>9. OnlyMutator'
  BY <1>2, <1>7, <1>8, CellTaskFields DEF OnlyMutator, Tasks, MutatorFn
<1>10. NoPass /\ NoPass'
  BY <1>3, <1>9, OutsidePass, PTL
<1>11. \A x \in Cell, y \in 0 .. Width :
         /\ Pend("decrement", x, y)' <=>
              \/ Pend("decrement", x, y) /\ ~ (x = d /\ y = s)
              \/ x = c /\ y # 0
         /\ Pend("release_cell", x, y)' <=> Pend("release_cell", x, y) \/ (x = c /\ y = 0)
         /\ ~ Pend("decr_and_mark_gray", x, y)' /\ ~ Pend("decr_and_mark_gray", x, y)
         /\ ~ Pend("incr_and_scan_black", x, y)' /\ ~ Pend("incr_and_scan_black", x, y)
         /\ Storing(x, y)' <=> Storing(x, y)
  <2> TAKE x \in Cell, y \in 0 .. Width
  <2>1. \A fn : CellTask(fn, x, y) \in Tasks("decrement", c) <=> fn = "decrement" /\ x = c /\ y # 0
    BY SameCellTask DEF Tasks, Slot
  <2>2. \A fn : CellTask(fn, x, y) = u <=> fn = "release_cell" /\ x = c /\ y = 0
    BY SameCellTask
  <2>3. \A fn : CellTask(fn, x, y) = Top <=> fn = "decrement" /\ x = d /\ y = s
    BY <1>1, SameCellTask
  <2>4. \A t \in Tasks("decrement", c) : t.fn = "decrement"
    BY CellTaskFields DEF Tasks
  <2> HIDE DEF u
  <2>5. \A fn : fn \notin MutatorFn => CellTask(fn, x, y) \notin Pending(Rest)
    BY <1>2, CellTaskFields
  <2>6. Storing(x, y)' <=> Storing(x, y)
    BY <1>1, <1>2, <1>7, <1>8, <2>4 DEF Storing
  <2> QED
    BY <1>2, <1>8, <2>1, <2>2, <2>3, <2>5, <2>6 DEF Pend, MutatorFn
<1>12. CountInv'
  <2>1. \A x \in Cell, y \in 0 .. Width : EdgeTarget(x, y)' = EdgeTarget(x, y)
    BY <1>4 DEF EdgeTarget
  <2>2. \A x \in Cell : rc'[x] = IF x = c THEN 0 ELSE rc[x]
    BY <1>1, <1>4 DEF ControlInv, TypeOK
  <2>3. Settled(c) /\ \A x \in Cell : Settled(x)' <=> Settled(x) /\ x # c
    BY <1>3, <1>4, <2>2 DEF Settled
  <2>4. \A y : ~ Storing(c, y)
    BY <1>5 DEF Storing
  <2>5. s # 0 => (d # c /\ ~ Settled(d)) \/ Storing(d, s)
    BY <1>2, <1>3 DEF Settled, Storing
  <2>6. \A x \in Cell, y \in 0 .. Width :
          Counts(x, y)' <=> Counts(x, y) /\ ~ (x = d /\ y = s)
    <3> TAKE x \in Cell, y \in 0 .. Width
    <3>1. CASE x = d /\ y = s
      BY <1>11, <2>3, <2>4, <2>5, <3>1 DEF Counts
    <3>2. CASE ~ (x = d /\ y = s)
      BY <1>11, <2>3, <2>4, <3>2 DEF Counts
    <3> QED
      BY <3>1, <3>2
  <2> QED
    BY <1>1, <1>3, <1>4, <2>1, <2>6, CountLess DEF Counted, Good, ControlInv
<1>13. FreshInv'
  BY <1>1, <1>4 DEF Good, FreshInv
<1>14. ColorInv'
  <2>1. \A x \in Cell : Pend("release_cell", x, 0)' <=> x = c \/ Pend("release_cell", x, 0)
    BY <1>11, HeapGraphAssumption
  <2> QED
    BY <1>1, <1>4, <1>10, <2>1 DEF Good, ColorInv, NoPass
<1>15. TaskInv'
  <2> SUFFICES ASSUME NEW t \in Pending(stack') PROVE TaskGood(t)'
    BY DEF TaskInv
  <2>1. t \in Tasks("decrement", c) \/ t = u \/ t \in Pending(Rest)
    BY <1>8
  <2>2. CASE t \in Tasks("decrement", c)
    BY <2>2, CellTaskFields DEF TaskGood, Tasks
  <2>3. CASE t = u
    BY <1>1, <1>3, <1>4, <1>7, <1>10, <2>3 DEF TaskGood, NoPass, Settled, ControlInv, TypeOK
  <2>4. CASE t \in Pending(Rest)
    <3>1. TaskGood(t) /\ t.fn \in MutatorFn
      BY <1>2, <2>4 DEF Good, TaskInv
    <3>2. t.fn = "release_cell" => t.cell # c
      BY <1>3, <2>4
    <3> QED
      BY <1>1, <1>4, <1>10, <3>1, <3>2 DEF TaskGood, MutatorFn, NoPass
  <2> QED
    BY <2>1, <2>2, <2>3, <2>4
<1>16. BufferInv'
  BY <1>4, <1>10 DEF Good, BufferInv, NoPass
<1>17. StackInv'
  BY <1>4, <1>8, <1>10 DEF StackInv, GoodStack, NoPass, InBuffer
<1> QED
  BY <1>1, <1>4, <1>10, <1>12, <1>13, <1>14, <1>15, <1>16, <1>17 DEF Good, NoPass

(* qz_collect begins: its loops are pending and nothing is marked yet.     *)
LEMMA PassBegins ==
  ASSUME NEW Q, \A t \in Q : t.fn \in MutatorFn,
         Pending(stack') = { LoopTask(fn, 1, 1) : fn \in LoopFn } \cup Q,
         Len(roots') \in Nat, DOMAIN roots' = 1 .. Len(roots'),
         \A x \in Cell : color'[x] \notin {"gray", "white"}
  PROVE  /\ InPass' /\ Marking' /\ Tracing'
         /\ Calling("mark_roots")' /\ Calling("scan_roots")'
         /\ Calling("collect_roots")' /\ Calling("free_roots")'
         /\ \A t \in Pending(stack') :
              \/ t.fn \in LoopFn /\ t.i = 1 /\ t.j = 1
              \/ t.fn \in MutatorFn /\ t \in Q
         /\ Needed' /\ VisitedInv' /\ FoundInv'
         /\ InUse' = DOMAIN roots' /\ StillBuffered' = DOMAIN roots' /\ Kept' = {}
<1>1. \A fn \in LoopFn : /\ LoopTask(fn, 1, 1).fn = fn /\ LoopTask(fn, 1, 1).i = 1
                         /\ LoopTask(fn, 1, 1).j = 1
  BY DEF LoopTask
<1>2. \A t \in Pending(stack') :
        \/ t.fn \in LoopFn /\ t.i = 1 /\ t.j = 1
        \/ t.fn \in MutatorFn /\ t \in Q
  BY <1>1
<1>3. \A fn \in LoopFn : Calling(fn)'
  BY <1>1 DEF Calling
<1>4. \A fn : Calling(fn)' => fn \in LoopFn \cup MutatorFn
  BY <1>2 DEF Calling
<1>5. /\ InPass' /\ Marking' /\ Tracing'
      /\ Calling("mark_roots")' /\ Calling("scan_roots")'
      /\ Calling("collect_roots")' /\ Calling("free_roots")'
  BY <1>3 DEF InPass, Marking, Tracing, LoopFn
<1>6. Needed'
  BY <1>5 DEF Needed
<1>7. VisitedInv'
  BY DEF VisitedInv
<1>8. \A k \in DOMAIN roots' : k \in Nat /\ k >= 1
  OBVIOUS
<1>9. InUse' = DOMAIN roots'
  BY <1>2, <1>8 DEF InUse, MutatorFn
<1>10. StillBuffered' = DOMAIN roots'
  BY <1>2, <1>5, <1>8, <1>9 DEF StillBuffered, MutatorFn
<1>11. Kept' = {}
  <2>1. PICK t \in Pending(stack') : t.fn = "mark_roots" /\ t.j = 1
    BY <1>1 DEF LoopFn
  <2> QED
    BY <1>8, <1>9, <2>1 DEF Kept
<1>12. FoundInv'
  <2>1. Colored({"gray"})' = {}
    BY DEF Colored
  <2> QED
    BY <1>5, <2>1, FoundNone DEF FoundInv
<1> QED
  BY <1>2, <1>5, <1>6, <1>7, <1>9, <1>10, <1>11, <1>12

(* decrement of a larger count: the cell becomes a possible root, and the  *)
(* buffer may fill up.                                                     *)
LEMMA DecrementToPossibleRootStep ==
  ASSUME ControlInv, ControlInv', Good, DecrementToPossibleRoot, ~ exposed'
  PROVE  Good'
<1> DEFINE d == Top.cell
           s == Top.slot
           c == Target(Top)
           Full == stack' = CollectTasks \o Rest
<1>1. /\ fault = "none" /\ stack # <<>> /\ Top.fn = "decrement"
      /\ d \in Cell /\ s \in 0 .. Width
      /\ Top = CellTask("decrement", d, s) /\ EdgeTarget(d, s) = c
      /\ c \in Cell /\ c \in alloc
  BY VisitFacts DEF DecrementToPossibleRoot, Good
<1>2. /\ Top \in TaskSet /\ Top \in Pending(stack) /\ Pending(stack) = {Top} \cup Pending(Rest)
      /\ GoodStack(Rest, InBuffer)
      /\ \A v \in Pending(Rest) : v \in TaskSet /\ v.fn \in MutatorFn
      /\ Top \notin Pending(Rest)
  BY <1>1, TopFacts DEF Good, Below, MutatorFn, Often
<1>3. /\ OnlyMutator
      /\ Counts(d, s) /\ rc[c] > handle[c] /\ handle[c] \in Nat /\ rc[c] \in Nat
      /\ Settled(c)
      /\ ~ \E t \in Pending(Rest) : t.fn = "release_cell" /\ t.cell = c
      /\ s # 0 => \/ d # c /\ rc[d] = 0
                  \/ \E t \in Pending(Rest) : t.fn = "store" /\ t.cell = d /\ t.slot = s
  BY DecrementFacts DEF DecrementToPossibleRoot
<1>4. /\ rc[c] # 1
      /\ rc' = [rc EXCEPT ![c] = @ - 1]
      /\ color' = [color EXCEPT ![c] = "purple"]
      /\ UNCHANGED <<alloc, field, handle, fault>>
  BY <1>3 DEF DecrementToPossibleRoot, LastReference
<1>5. \/ /\ AlreadyPossibleRoot(c) /\ stack' = Rest
         /\ UNCHANGED <<buffered, roots>>
      \/ /\ ~ AlreadyPossibleRoot(c)
         /\ buffered' = [buffered EXCEPT ![c] = TRUE]
         /\ roots' = Append(roots, c)
         /\ stack' = Rest \/ (Full /\ ~ \E k \in DOMAIN Rest : DropsEarly(Rest[k]))
  BY DEF DecrementToPossibleRoot, BeginCollect
<1> HIDE DEF d, s, c
<1>6. NoPass
  BY <1>3, OutsidePass
<1>7. \A x \in Cell : buffered[x] <=> x \in InBuffer
  BY <1>6 DEF Good, BufferInv, NoPass, InBuffer
<1>8. /\ buffered' = [buffered EXCEPT ![c] = TRUE]
      /\ InBuffer' = InBuffer \cup {c}
      /\ \A k, m \in DOMAIN roots' : roots'[k] = roots'[m] => k = m
      /\ Len(roots') \in Nat /\ DOMAIN roots' = 1 .. Len(roots')
  <2>1. /\ roots \in Seq(Cell) /\ roots' \in Seq(Cell) /\ buffered \in [Cell -> BOOLEAN]
    BY DEF ControlInv, TypeOK
  <2>2. Len(roots) \in Nat /\ DOMAIN roots = 1 .. Len(roots)
    BY <2>1, LenProperties
  <2>3. \A k, m \in DOMAIN roots : roots[k] = roots[m] => k = m
    BY <1>6 DEF Good, BufferInv, NoPass
  <2>4. CASE AlreadyPossibleRoot(c) /\ UNCHANGED <<buffered, roots>>
    <3>1. buffered[c]
      BY <1>1, <2>4 DEF AlreadyPossibleRoot, Good, ColorInv
    <3> QED
      BY <1>1, <1>7, <2>1, <2>2, <2>3, <2>4, <3>1 DEF InBuffer
  <2>5. CASE /\ ~ AlreadyPossibleRoot(c)
             /\ buffered' = [buffered EXCEPT ![c] = TRUE]
             /\ roots' = Append(roots, c)
    <3>1. c \notin InBuffer
      BY <1>1, <1>7, <2>5 DEF AlreadyPossibleRoot
    <3>2. /\ Len(roots') = Len(roots) + 1
          /\ \A k \in 1 .. Len(roots) : roots'[k] = roots[k]
          /\ roots'[Len(roots) + 1] = c
      BY <1>1, <2>1, <2>5, AppendProperties
    <3>3. DOMAIN roots' = 1 .. Len(roots')
      BY <2>1, LenProperties
    <3>4. \A k \in DOMAIN roots' : k \in DOMAIN roots \/ k = Len(roots) + 1
      BY <2>2, <3>2, <3>3
    <3>5. \A k \in DOMAIN roots : roots[k] # c /\ k \in DOMAIN roots'
      BY <2>2, <3>1, <3>2, <3>3 DEF InBuffer
    <3>6. Len(roots) + 1 \in DOMAIN roots'
      BY <2>2, <3>2, <3>3
    <3>7. InBuffer' = InBuffer \cup {c}
      BY <2>2, <3>2, <3>4, <3>5, <3>6 DEF InBuffer
    <3>8. \A k, m \in DOMAIN roots' : roots'[k] = roots'[m] => k = m
      BY <2>2, <2>3, <3>2, <3>4, <3>5
    <3> QED
      BY <2>2, <2>5, <3>2, <3>3, <3>7, <3>8
  <2> QED
    BY <1>5, <2>4, <2>5
<1>9. \A x \in Cell : color'[x] = IF x = c THEN "purple" ELSE color[x]
  BY <1>1, <1>4 DEF ControlInv, TypeOK
<1>10. \A x \in Cell : rc'[x] = IF x = c THEN rc[c] - 1 ELSE rc[x]
  BY <1>1, <1>4 DEF ControlInv, TypeOK
<1>11. \A x \in Cell : color[x] \notin {"gray", "white"} /\ color'[x] \notin {"gray", "white"}
  BY <1>6, <1>9 DEF Good, ColorInv, NoPass
<1>12. /\ GoodStack(stack', InBuffer')
       /\ Pending(Rest) \subseteq Pending(stack')
       /\ \A t \in Pending(stack') :
            \/ t.fn \in LoopFn /\ t.i = 1 /\ t.j = 1
            \/ t.fn \in MutatorFn /\ t \in Pending(Rest)
       /\ InPass' => Marking' /\ Tracing' /\ \A t \in Pending(Rest) : ~ DropsEarly(t)
       /\ Needed' /\ VisitedInv' /\ FoundInv'
       /\ InUse' = DOMAIN roots' /\ StillBuffered' = DOMAIN roots'
       /\ Calling("scan_roots")' => Kept' = {}
  <2>1. CASE Full /\ ~ \E k \in DOMAIN Rest : DropsEarly(Rest[k])
    <3>1. /\ GoodStack(stack', InBuffer)
          /\ Pending(stack') = { LoopTask(fn, 1, 1) : fn \in LoopFn } \cup Pending(Rest)
      BY <1>2, <2>1, PushCollect
    <3>2. GoodStack(stack', InBuffer')
      BY <1>8, <3>1, OtherBuffer
    <3>3. \A t \in Pending(Rest) : ~ DropsEarly(t)
      <4>1. DOMAIN Rest = 1 .. Len(Rest)
        BY <1>2, LenProperties DEF GoodStack
      <4> QED
        BY <2>1, <4>1 DEF Pending
    <3>4. /\ InPass' /\ Marking' /\ Tracing'
          /\ \A t \in Pending(stack') :
               \/ t.fn \in LoopFn /\ t.i = 1 /\ t.j = 1
               \/ t.fn \in MutatorFn /\ t \in Pending(Rest)
          /\ Needed' /\ VisitedInv' /\ FoundInv'
          /\ InUse' = DOMAIN roots' /\ StillBuffered' = DOMAIN roots' /\ Kept' = {}
      BY <1>2, <1>8, <1>11, <3>1, PassBegins
    <3> QED
      BY <3>1, <3>2, <3>3, <3>4
  <2>2. CASE stack' = Rest
    <3>1. GoodStack(stack', InBuffer')
      BY <1>2, <1>8, <2>2, OtherBuffer
    <3>2. OnlyMutator'
      BY <1>2, <2>2 DEF OnlyMutator
    <3>3. NoPass'
      BY <3>2, OutsidePass, PTL
    <3> QED
      BY <1>2, <2>2, <3>1, <3>3 DEF NoPass
  <2> QED
    BY <1>5, <2>1, <2>2
<1>13. \A x \in Cell, y \in 0 .. Width :
         /\ Pend("decrement", x, y)' <=> Pend("decrement", x, y) /\ ~ (x = d /\ y = s)
         /\ Pend("release_cell", x, y)' <=> Pend("release_cell", x, y)
         /\ ~ Pend("decr_and_mark_gray", x, y)' /\ ~ Pend("decr_and_mark_gray", x, y)
         /\ ~ Pend("incr_and_scan_black", x, y)' /\ ~ Pend("incr_and_scan_black", x, y)
         /\ Storing(x, y)' <=> Storing(x, y)
  <2> TAKE x \in Cell, y \in 0 .. Width
  <2>1. \A fn : fn \notin LoopFn =>
          (CellTask(fn, x, y) \in Pending(stack') <=> CellTask(fn, x, y) \in Pending(Rest))
    BY <1>12, CellTaskFields
  <2>2. \A fn : CellTask(fn, x, y) = Top <=> fn = "decrement" /\ x = d /\ y = s
    BY <1>1, SameCellTask
  <2>3. \A fn : fn \notin MutatorFn => CellTask(fn, x, y) \notin Pending(Rest)
    BY <1>2, CellTaskFields
  <2>4. Storing(x, y)' <=> Storing(x, y)
    BY <1>1, <1>2, <1>12 DEF Storing, LoopFn
  <2> QED
    BY <1>2, <2>1, <2>2, <2>3, <2>4 DEF Pend, MutatorFn, LoopFn
<1>14. CountInv'
  <2>1. \A x \in Cell, y \in 0 .. Width : EdgeTarget(x, y)' = EdgeTarget(x, y)
    BY <1>4 DEF EdgeTarget
  <2>2. \A x \in Cell : Settled(x)' <=> Settled(x)
    BY <1>3, <1>4, <1>9, <1>10 DEF Settled
  <2>3. s # 0 => ~ Settled(d) \/ Storing(d, s)
    BY <1>2, <1>3 DEF Settled, Storing
  <2>4. \A x \in Cell, y \in 0 .. Width :
          Counts(x, y)' <=> Counts(x, y) /\ ~ (x = d /\ y = s)
    BY <1>13, <2>2, <2>3 DEF Counts
  <2> QED
    BY <1>1, <1>3, <1>4, <2>1, <2>4, CountLess DEF Counted, Good, ControlInv
<1>15. FreshInv'
  <2>1. buffered \in [Cell -> BOOLEAN]
    BY DEF ControlInv, TypeOK
  <2> QED
    BY <1>1, <1>4, <1>8, <1>9, <1>10, <2>1 DEF Good, FreshInv
<1>16. ColorInv'
  <2>1. \A x \in Cell : buffered'[x] = IF x = c THEN TRUE ELSE buffered[x]
    BY <1>8 DEF ControlInv, TypeOK
  <2>2. \A x \in Cell : Pend("release_cell", x, 0)' <=> Pend("release_cell", x, 0)
    BY <1>13, HeapGraphAssumption
  <2>3. rc'[c] > 0
    BY <1>1, <1>3, <1>4, <1>10
  <2> QED
    BY <1>9, <1>10, <1>11, <1>12, <2>1, <2>2, <2>3 DEF Good, ColorInv
<1>17. TaskInv'
  <2> SUFFICES ASSUME NEW t \in Pending(stack') PROVE TaskGood(t)'
    BY DEF TaskInv
  <2>1. CASE t.fn \in LoopFn /\ t.i = 1 /\ t.j = 1
    BY <2>1 DEF TaskGood, LoopFn
  <2>2. CASE t.fn \in MutatorFn /\ t \in Pending(Rest)
    <3>1. TaskGood(t) /\ t.cell \in Cell
      BY <1>2, <2>2, TaskTypes DEF Good, TaskInv, MutatorFn, LoopFn
    <3>2. t.fn = "release_cell" => t.cell # c
      BY <1>3, <2>2
    <3>3. InPass' => t.fn # "store" /\ (t.fn = "release_cell" => ~ buffered[t.cell])
      BY <1>12, <2>2 DEF DropsEarly
    <3> QED
      BY <1>4, <1>7, <1>8, <1>9, <1>10, <2>2, <3>1, <3>2, <3>3 DEF TaskGood, MutatorFn
  <2> QED
    BY <1>12, <2>1, <2>2
<1>18. BufferInv'
  <2>1. \A x \in Cell : buffered'[x] <=> x \in InBuffer'
    BY <1>7, <1>8 DEF ControlInv, TypeOK
  <2> QED
    BY <1>8, <1>12, <2>1 DEF BufferInv, InBuffer
<1>19. StackInv'
  BY <1>12 DEF StackInv, GoodStack
<1> QED
  BY <1>1, <1>4, <1>12, <1>14, <1>15, <1>16, <1>17, <1>18, <1>19 DEF Good

(***************************************************************************)
(* Freeing a cell.                                                         *)
(***************************************************************************)

(* What free_cell leaves.                                                  *)
LEMMA FreedFacts ==
  ASSUME ControlInv, NEW c \in Cell, Freed(c)
  PROVE  /\ alloc' = alloc \ {c}
         /\ \A x \in Cell : /\ rc'[x] = IF x = c THEN 0 ELSE rc[x]
                            /\ color'[x] = IF x = c THEN "black" ELSE color[x]
                            /\ buffered'[x] = IF x = c THEN FALSE ELSE buffered[x]
                            /\ field'[x] = IF x = c THEN NoSlots ELSE field[x]
BY DEF Freed, ControlInv, TypeOK

\* the pending calls account for the same references as before
SameAccounting ==
  \A x \in Cell, y \in 0 .. Width :
    /\ Pend("decrement", x, y)' <=> Pend("decrement", x, y)
    /\ Pend("decr_and_mark_gray", x, y)' <=> Pend("decr_and_mark_gray", x, y)
    /\ Pend("incr_and_scan_black", x, y)' <=> Pend("incr_and_scan_black", x, y)
    /\ Storing(x, y)' <=> Storing(x, y)

(* A step that counts nothing.                                             *)
LEMMA QuietCount ==
  ASSUME CountInv, SameAccounting, field' = field, rc' = rc, handle' = handle,
         \A x \in Cell : Settled(x)' <=> Settled(x)
  PROVE  CountInv'
<1>1. \A x \in Cell, y \in 0 .. Width : Counts(x, y)' <=> Counts(x, y)
  BY DEF SameAccounting, Counts
<1>2. \A x \in Cell, y \in 0 .. Width : EdgeTarget(x, y)' = EdgeTarget(x, y)
  BY DEF EdgeTarget
<1> QED
  BY <1>1, <1>2, CountKept DEF Counted

(* No decrement is pending for the children of a cell without references,  *)
(* unless it is being released.                                            *)
LEMMA NoDecrementOf ==
  ASSUME ControlInv, StackInv, CountInv, TaskInv, stack # <<>>,
         NEW c \in Cell, rc[c] = 0,
         ~ \E t \in Pending(Rest) : t.fn = "release_cell" /\ t.cell = c
  PROVE  \A y \in 0 .. Width : ~ Pend("decrement", c, y)
<1> SUFFICES ASSUME NEW y \in 0 .. Width, Pend("decrement", c, y)
             PROVE  FALSE
  OBVIOUS
<1>1. rc[c] >= handle[c] /\ handle[c] \in Nat /\ ~ (EdgeTarget(c, y) = c /\ Counts(c, y))
  BY CountAtLeast DEF ControlInv
<1>2. y # 0
  BY <1>1 DEF EdgeTarget, Counts
<1>3. PICK v \in Pending(Rest) : Attends(v, CellTask("decrement", c, y))
  BY <1>2, TopFacts, CellTaskFields DEF Pend, NeedsAttendant
<1>4. v \in Pending(stack)
  BY TopFacts
<1>5. v.fn = "store" /\ v.cell = c
  BY <1>3, CellTaskFields DEF Attends
<1> QED
  BY <1>1, <1>4, <1>5 DEF TaskInv, TaskGood

(* A cell whose slots are not counted takes nothing with it.               *)
LEMMA FreedCount ==
  ASSUME ControlInv, CountInv, SameAccounting, handle' = handle,
         NEW c \in Cell, Freed(c), rc[c] = 0,
         \A y \in 0 .. Width : /\ ~ Pend("decrement", c, y)
                               /\ ~ Pend("decr_and_mark_gray", c, y)
  PROVE  CountInv'
<1>1. \A x \in Cell : /\ rc'[x] = IF x = c THEN 0 ELSE rc[x]
                      /\ color'[x] = IF x = c THEN "black" ELSE color[x]
                      /\ field'[x] = IF x = c THEN NoSlots ELSE field[x]
  BY FreedFacts
<1>2. \A x \in Cell : Settled(x)' <=> Settled(x)
  BY <1>1 DEF Settled
<1>3. ~ Settled(c)
  BY DEF Settled
<1>4. \A x \in Cell, y \in 0 .. Width : Counts(x, y)' <=> Counts(x, y)
  BY <1>2 DEF SameAccounting, Counts
<1>5. \A y \in 0 .. Width : ~ Counts(c, y)
  BY <1>3 DEF Counts
<1>6. \A x \in Cell, y \in 0 .. Width :
        x # c => EdgeTarget(x, y)' = EdgeTarget(x, y)
  BY <1>1 DEF EdgeTarget
<1>7. rc' = rc
  BY <1>1 DEF Freed, ControlInv, TypeOK
<1> QED
  BY <1>4, <1>5, <1>6, <1>7, CountKept DEF Counted

(* release_cell after its children.                                        *)
LEMMA ReleaseCellStep ==
  ASSUME ControlInv, Good, ReleaseCell
  PROVE  Good'
<1> DEFINE c == Target(Top)
<1>1. /\ fault = "none" /\ stack # <<>> /\ Top.fn = "release_cell"
      /\ Top = CellTask("release_cell", Top.cell, Top.slot)
      /\ c \in Cell /\ c \in alloc
  BY VisitFacts DEF ReleaseCell, Good
<1>2. /\ Top \in TaskSet /\ Top \in Pending(stack) /\ Pending(stack) = {Top} \cup Pending(Rest)
      /\ GoodStack(Rest, InBuffer)
      /\ \A v \in Pending(Rest) : v \in TaskSet /\ v.fn \in MutatorFn
      /\ Top \notin Pending(Rest)
  BY <1>1, TopFacts DEF Good, Below, MutatorFn, Often
<1>3. OnlyMutator
  BY <1>1, <1>2 DEF OnlyMutator, MutatorFn
<1>4. /\ Top.slot = 0 /\ Top.cell = c /\ rc[c] = 0 /\ color[c] \in {"black", "purple"}
  BY <1>1, <1>2 DEF Good, TaskInv, TaskGood, Target
<1>5. /\ stack' = Rest /\ UNCHANGED <<roots, handle, fault, exposed>>
      /\ \/ /\ buffered[c] /\ color' = [color EXCEPT ![c] = "black"]
            /\ UNCHANGED <<alloc, rc, buffered, field>>
         \/ ~ buffered[c] /\ Freed(c)
  BY DEF ReleaseCell, MustStay
<1>6. OnlyMutator'
  BY <1>2, <1>5 DEF OnlyMutator
<1>7. NoPass /\ NoPass'
  BY <1>3, <1>6, OutsidePass, PTL
<1>8. ~ \E t \in Pending(Rest) : t.fn = "release_cell" /\ t.cell = c
  <2> SUFFICES ASSUME NEW t \in Pending(Rest), t.fn = "release_cell", t.cell = c
               PROVE  FALSE
    OBVIOUS
  <2>1. t.slot = 0 /\ t \in TaskSet
    BY <1>2 DEF Good, TaskInv, TaskGood
  <2>2. t = CellTask("release_cell", c, 0)
    BY <2>1, IsCellTask DEF LoopFn
  <2> QED
    BY <1>1, <1>2, <1>4, <2>2
<1> HIDE DEF c
<1>9. \A y \in 0 .. Width : ~ Pend("decrement", c, y)
  BY <1>1, <1>4, <1>8, NoDecrementOf DEF Good
<1>10. \A x \in Cell, y \in 0 .. Width :
         /\ Pend("release_cell", x, y)' <=> Pend("release_cell", x, y) /\ ~ (x = c /\ y = 0)
         /\ ~ Pend("decr_and_mark_gray", x, y)
  <2> TAKE x \in Cell, y \in 0 .. Width
  <2>1. \A fn : CellTask(fn, x, y) = Top <=> fn = "release_cell" /\ x = c /\ y = 0
    BY <1>1, <1>4, SameCellTask
  <2>2. CellTask("decr_and_mark_gray", x, y) \notin Pending(Rest)
    BY <1>2, CellTaskFields DEF MutatorFn
  <2> QED
    BY <1>2, <1>5, <2>1, <2>2 DEF Pend
<1>11. SameAccounting
  <2>1. \A fn, x, y : fn # "release_cell" => CellTask(fn, x, y) # Top
    BY <1>1, CellTaskFields
  <2>2. \A fn, x, y : fn # "release_cell" => (Pend(fn, x, y)' <=> Pend(fn, x, y))
    BY <1>2, <1>5, <2>1 DEF Pend
  <2>3. \A x, y : Storing(x, y)' <=> Storing(x, y)
    BY <1>1, <1>2, <1>5 DEF Storing
  <2> QED
    BY <2>2, <2>3 DEF SameAccounting
<1>12. \A x \in Cell : /\ rc'[x] = rc[x]
                       /\ color'[x] = IF x = c THEN "black" ELSE color[x]
                       /\ buffered'[x] = buffered[x]
                       /\ x # c \/ buffered[x] => field'[x] = field[x]
                       /\ x # c \/ buffered[x] => (x \in alloc' <=> x \in alloc)
                       /\ x = c /\ ~ buffered[x] => field'[x] = NoSlots /\ x \notin alloc'
  <2>1. CASE ~ buffered[c] /\ Freed(c)
    <3>1. /\ alloc' = alloc \ {c}
          /\ \A x \in Cell : /\ rc'[x] = IF x = c THEN 0 ELSE rc[x]
                             /\ color'[x] = IF x = c THEN "black" ELSE color[x]
                             /\ buffered'[x] = IF x = c THEN FALSE ELSE buffered[x]
                             /\ field'[x] = IF x = c THEN NoSlots ELSE field[x]
      BY <1>1, <2>1, FreedFacts
    <3>2. buffered[c] \in BOOLEAN
      BY <1>1 DEF ControlInv, TypeOK
    <3> QED
      BY <1>4, <2>1, <3>1, <3>2
  <2>2. CASE /\ buffered[c] /\ color' = [color EXCEPT ![c] = "black"]
             /\ UNCHANGED <<alloc, rc, buffered, field>>
    BY <1>1, <2>2 DEF ControlInv, TypeOK
  <2> QED
    BY <1>5, <2>1, <2>2
<1>13. CountInv'
  <2>1. CASE ~ buffered[c] /\ Freed(c)
    BY <1>1, <1>4, <1>5, <1>9, <1>10, <1>11, <2>1, FreedCount DEF Good
  <2>2. CASE /\ buffered[c] /\ color' = [color EXCEPT ![c] = "black"]
             /\ UNCHANGED <<alloc, rc, buffered, field>>
    <3>1. \A x \in Cell : Settled(x)' <=> Settled(x)
      BY <1>4, <1>12 DEF Settled
    <3> QED
      BY <1>5, <1>11, <2>2, <3>1, QuietCount DEF Good
  <2> QED
    BY <1>5, <2>1, <2>2
<1>14. FreshInv'
  BY <1>1, <1>4, <1>12 DEF Good, FreshInv
<1>15. ColorInv'
  <2>1. \A x \in Cell : x # c => (Pend("release_cell", x, 0)' <=> Pend("release_cell", x, 0))
    BY <1>10, HeapGraphAssumption
  <2> QED
    BY <1>4, <1>7, <1>12, <2>1 DEF Good, ColorInv, NoPass
<1>16. TaskInv'
  <2> SUFFICES ASSUME NEW t \in Pending(stack') PROVE TaskGood(t)'
    BY DEF TaskInv
  <2>1. t \in Pending(Rest) /\ t.fn \in MutatorFn /\ TaskGood(t) /\ t.cell \in Cell
    BY <1>2, <1>5, TaskTypes DEF Good, TaskInv, MutatorFn, LoopFn
  <2>2. t.fn = "release_cell" => t.cell # c
    BY <1>8, <2>1
  <2> QED
    BY <1>5, <1>7, <1>12, <2>1, <2>2 DEF TaskGood, MutatorFn, NoPass
<1>17. BufferInv'
  BY <1>5, <1>7, <1>12 DEF Good, BufferInv, NoPass
<1>18. StackInv'
  BY <1>2, <1>5, <1>7 DEF StackInv, GoodStack, NoPass, InBuffer
<1> QED
  BY <1>1, <1>5, <1>7, <1>13, <1>14, <1>15, <1>16, <1>17, <1>18 DEF Good, NoPass

(* The overwrite of a slot: the interpreter's reference to the new value   *)
(* becomes that of the slot.                                               *)
LEMMA StoreStep ==
  ASSUME ControlInv, Good, Store
  PROVE  Good'
<1> SUFFICES ASSUME NEW c, NEW s, NEW v, c = Top.cell, s = Top.slot, v = Top.val
             PROVE  Good'
  OBVIOUS
<1>1. /\ fault = "none" /\ stack # <<>> /\ Top.fn = "store"
      /\ field' = [field EXCEPT ![c][s] = v]
      /\ handle' = IF v = NoCell THEN handle ELSE [handle EXCEPT ![v] = @ - 1]
      /\ stack' = Rest
      /\ UNCHANGED <<alloc, rc, color, buffered, roots, fault, exposed>>
  BY DEF Store, Calls
<1>2. /\ Top \in TaskSet /\ Top \in Pending(stack) /\ Pending(stack) = {Top} \cup Pending(Rest)
      /\ GoodStack(Rest, InBuffer)
  BY <1>1, TopFacts DEF Good
<1>3. Pending(Rest) = {}
  <2>1. /\ stack \in Seq(TaskSet) /\ Len(stack) \in Nat \ {0} /\ Top = stack[1]
        /\ Rest \in Seq(TaskSet) /\ Len(Rest) = Len(stack) - 1
    BY <1>1, HeadTailProperties, LenProperties, EmptySeq DEF ControlInv, TypeOK, Top, Rest
  <2>2. 1 = Len(stack)
    BY <1>1, <2>1 DEF ControlInv, StoreLast
  <2>3. Len(Rest) = 0
    BY <2>1, <2>2
  <2> QED
    BY <2>3 DEF Pending
<1>4. Pending(stack) = {Top} /\ Pending(stack') = {}
  BY <1>1, <1>2, <1>3
<1>5. c \in Cell /\ s \in Slot /\ v \in Ref /\ s \in 0 .. Width /\ s # 0
  BY <1>1, <1>2, TaskTypes, HeapGraphAssumption DEF Slot
<1>6. handle[c] > 0 /\ (v # NoCell => v \in Cell /\ handle[v] > 0)
  BY <1>1, <1>4, <1>5 DEF Good, TaskInv, TaskGood, ControlInv, StoreOwned, Ref
<1>7. OnlyMutator /\ OnlyMutator'
  BY <1>1, <1>4 DEF OnlyMutator, MutatorFn
<1>8. NoPass /\ NoPass'
  BY <1>7, OutsidePass, PTL
<1>9. rc[c] > 0 /\ c \in alloc
  <2>1. rc[c] >= handle[c] /\ rc[c] \in Nat /\ handle[c] \in Nat
    BY <1>5, CountAtLeast DEF Good, ControlInv
  <2> QED
    BY <1>5, <1>6, <2>1 DEF Good, FreshInv
<1>10. Settled(c)
  <2>1. color[c] \in Color
    BY <1>5 DEF ControlInv, TypeOK
  <2> QED
    BY <1>5, <1>8, <1>9, <2>1 DEF Settled, Good, ColorInv, NoPass, Color
<1>11. \A x \in Cell, y \in 0 .. Width :
         /\ ~ Pend("decrement", x, y) /\ ~ Pend("decrement", x, y)'
         /\ ~ Pend("decr_and_mark_gray", x, y) /\ ~ Pend("decr_and_mark_gray", x, y)'
         /\ ~ Pend("incr_and_scan_black", x, y) /\ ~ Pend("incr_and_scan_black", x, y)'
         /\ ~ Storing(x, y)' /\ (Storing(x, y) <=> x = c /\ y = s)
  <2>1. \A x, y, fn : fn # "store" => CellTask(fn, x, y) # Top
    BY <1>1, CellTaskFields
  <2>2. \A x, y : ~ Storing(x, y)' /\ (Storing(x, y) <=> x = c /\ y = s)
    BY <1>1, <1>4 DEF Storing
  <2> QED
    BY <1>4, <2>1, <2>2 DEF Pend
<1>12. \A x \in Cell, y \in 0 .. Width :
         EdgeTarget(x, y)' = IF x = c /\ y = s THEN v ELSE EdgeTarget(x, y)
  <2> TAKE x \in Cell, y \in 0 .. Width
  <2>1. y # 0 => y \in Slot
    BY HeapGraphAssumption DEF Slot
  <2>2. field[x] \in [Slot -> Ref] /\ field \in [Cell -> [Slot -> Ref]]
    BY DEF ControlInv, TypeOK
  <2>3. y # 0 => field'[x][y] = IF x = c /\ y = s THEN v ELSE field[x][y]
    BY <1>1, <1>5, <2>1, <2>2
  <2> QED
    BY <1>5, <2>3 DEF EdgeTarget
<1>13. \A x \in Cell, y \in 0 .. Width :
         Counts(x, y)' <=> Counts(x, y) \/ (x = c /\ y = s)
  <2>1. \A x \in Cell : Settled(x)' <=> Settled(x)
    BY <1>1 DEF Settled
  <2> QED
    BY <1>5, <1>10, <1>11, <2>1 DEF Counts
<1>14. ~ Counts(c, s)
  BY <1>5, <1>11 DEF Counts
<1>15. CountInv'
  <2>1. CASE v = NoCell
    <3>1. \A x \in Cell, y \in 0 .. Width : Counted(x, y)' <=> Counted(x, y)
      BY <1>12, <1>13, <1>14, <2>1 DEF Counted
    <3>2. \A x \in Cell, y \in 0 .. Width :
            Counted(x, y) => EdgeTarget(x, y)' = EdgeTarget(x, y)
      BY <1>12, <1>14 DEF Counted
    <3> QED
      BY <1>1, <2>1, <3>1, <3>2, CountKept DEF Good
  <2>2. CASE v # NoCell
    <3>1. ~ Counted(c, s) /\ EdgeTarget(c, s)' = v
      BY <1>5, <1>12, <1>14 DEF Counted
    <3>2. \A x \in Cell, y \in 0 .. Width :
            Counted(x, y)' <=> Counted(x, y) \/ (x = c /\ y = s)
      BY <1>12, <1>13, <1>14, <2>2 DEF Counted
    <3>3. \A x \in Cell, y \in 0 .. Width :
            Counted(x, y) => EdgeTarget(x, y)' = EdgeTarget(x, y)
      BY <1>12, <3>1
    <3>4. v \in Cell /\ rc' = rc /\ handle' = [handle EXCEPT ![v] = @ - 1] /\ handle[v] > 0
      BY <1>1, <1>6, <2>2
    <3>5. TypeOK /\ CountInv
      BY DEF Good, ControlInv
    <3>6. c \in Cell /\ s \in 0 .. Width
      BY <1>5
    <3> QED
      BY ONLY <3>1, <3>2, <3>3, <3>4, <3>5, <3>6, CountMore
  <2> QED
    BY <2>1, <2>2
<1>16. FreshInv'
  <2>1. \A x \in Cell : x # c => field'[x] = field[x]
    BY <1>1 DEF ControlInv, TypeOK
  <2> QED
    BY <1>1, <1>9, <2>1 DEF Good, FreshInv
<1>17. ColorInv'
  <2>1. \A x \in Cell : ~ Pend("release_cell", x, 0)
    BY <1>1, <1>4, CellTaskFields DEF Pend
  <2> QED
    BY <1>1, <1>8, <2>1 DEF Good, ColorInv, NoPass
<1>18. TaskInv' /\ BufferInv'
  BY <1>1, <1>4, <1>8 DEF TaskInv, Good, BufferInv, NoPass
<1>19. StackInv'
  BY <1>1, <1>2, <1>8 DEF StackInv, GoodStack, NoPass, InBuffer
<1> QED
  BY <1>1, <1>8, <1>15, <1>16, <1>17, <1>18, <1>19 DEF Good, NoPass

(***************************************************************************)
(* The operations of the interpreter.                                      *)
(***************************************************************************)

(* Between operations nothing is pending.                                  *)
LEMMA IdleFacts ==
  ASSUME ControlInv, Good, Idle
  PROVE  /\ stack = <<>> /\ Pending(stack) = {} /\ OnlyMutator /\ NoPass
         /\ \A x \in Cell : color[x] \in {"black", "purple"} /\ (Settled(x) <=> rc[x] > 0)
         /\ \A x \in Cell : color[x] = "purple" => rc[x] > 0 /\ buffered[x]
         /\ \A x \in Cell : handle[x] \in Nat /\ rc[x] \in Nat /\ handle[x] <= rc[x]
         /\ \A x \in Cell : rc[x] > 0 => x \in alloc
         /\ \A x \in Cell, y \in 0 .. Width : Counts(x, y) <=> y # 0 /\ rc[x] > 0
<1>1. stack = <<>> /\ Pending(stack) = {} /\ OnlyMutator
  BY DEF Idle, Pending, OnlyMutator
<1>2. NoPass
  BY <1>1, OutsidePass
<1>3. \A x \in Cell : color[x] \in {"black", "purple"}
  BY <1>2 DEF Good, ColorInv, NoPass, ControlInv, TypeOK, Color
<1>4. \A x \in Cell : color[x] = "purple" => rc[x] > 0 /\ buffered[x]
  BY <1>1 DEF Good, ColorInv, Pend
<1>5. \A x \in Cell : Settled(x) <=> rc[x] > 0
  BY <1>3 DEF Settled
<1>6. \A x \in Cell, y \in 0 .. Width : Counts(x, y) <=> y # 0 /\ rc[x] > 0
  BY <1>1, <1>5 DEF Counts, Pend, Storing
<1>7. \A x \in Cell : handle[x] \in Nat /\ rc[x] \in Nat /\ handle[x] <= rc[x]
  BY CountAtLeast DEF Good, ControlInv
<1>8. \A x \in Cell : rc[x] > 0 => x \in alloc
  BY DEF Good, FreshInv
<1> QED
  BY <1>1, <1>2, <1>3, <1>4, <1>5, <1>6, <1>7, <1>8

(* qz_ref.                                                                 *)
LEMMA IncrementStep ==
  ASSUME ControlInv, Good, Increment
  PROVE  Good'
<1>1. PICK c \in Cell :
        /\ Borrowed(c)
        /\ handle' = [handle EXCEPT ![c] = @ + 1]
        /\ rc' = [rc EXCEPT ![c] = @ + 1]
        /\ color' = [color EXCEPT ![c] = "black"]
  BY DEF Increment
<1>2. Idle /\ UNCHANGED <<alloc, buffered, field, roots, stack, fault, exposed>>
  BY DEF Increment
<1>3. /\ stack = <<>> /\ Pending(stack) = {} /\ OnlyMutator /\ NoPass
      /\ \A x \in Cell : color[x] \in {"black", "purple"} /\ (Settled(x) <=> rc[x] > 0)
      /\ \A x \in Cell : color[x] = "purple" => rc[x] > 0 /\ buffered[x]
      /\ \A x \in Cell : handle[x] \in Nat /\ rc[x] \in Nat /\ handle[x] <= rc[x]
      /\ \A x \in Cell : rc[x] > 0 => x \in alloc
      /\ \A x \in Cell, y \in 0 .. Width : Counts(x, y) <=> y # 0 /\ rc[x] > 0
  BY <1>2, IdleFacts
<1>4. rc[c] > 0
  <2>1. CASE handle[c] > 0
    BY <1>3, <2>1
  <2>2. ASSUME NEW d \in Cell, NEW s \in Slot, handle[d] > 0, field[d][s] = c
        PROVE  rc[c] > 0
    <3>1. rc[d] > 0
      BY <1>3, <2>2
    <3>2. s \in 0 .. Width /\ s # 0
      BY HeapGraphAssumption DEF Slot
    <3>3. Counts(d, s) /\ EdgeTarget(d, s) = c
      BY <1>3, <2>2, <3>1, <3>2 DEF EdgeTarget
    <3>4. rc[c] > handle[c]
      BY <3>2, <3>3, CountAtLeast DEF Good, ControlInv
    <3> QED
      BY <1>3, <3>4
  <2> QED
    BY <1>1, <2>1, <2>2 DEF Borrowed
<1>5. Pending(stack') = {} /\ OnlyMutator'
  BY <1>2, <1>3 DEF OnlyMutator
<1>6. NoPass'
  BY <1>5, OutsidePass, PTL
<1>7. \A x \in Cell : /\ rc'[x] = IF x = c THEN rc[x] + 1 ELSE rc[x]
                      /\ handle'[x] = IF x = c THEN handle[x] + 1 ELSE handle[x]
                      /\ color'[x] = IF x = c THEN "black" ELSE color[x]
  BY <1>1 DEF ControlInv, TypeOK
<1>8. CountInv'
  <2>1. \A x \in Cell : Settled(x)' <=> Settled(x)
    BY <1>3, <1>4, <1>7 DEF Settled
  <2>2. \A x \in Cell, y \in 0 .. Width : Counts(x, y)' <=> Counts(x, y)
    BY <1>2, <2>1 DEF Counts, Pend, Storing
  <2>3. \A x \in Cell, y \in 0 .. Width : EdgeTarget(x, y)' = EdgeTarget(x, y)
    BY <1>2 DEF EdgeTarget
  <2>4. \A x \in Cell : InRefs(x)' = InRefs(x)
    BY <2>2, <2>3, RefsKept DEF Counted
  <2>5. \A x \in Cell : Cardinality(InRefs(x)) \in Nat
    BY RefsFinite
  <2> SUFFICES ASSUME NEW x \in Cell
               PROVE  rc'[x] = handle'[x] + Cardinality(InRefs(x)')
    BY DEF CountInv
  <2>6. rc[x] = handle[x] + Cardinality(InRefs(x))
    BY DEF Good, CountInv
  <2> QED
    BY <1>3, <1>7, <2>4, <2>5, <2>6
<1>9. FreshInv'
  BY <1>2, <1>3, <1>4, <1>7 DEF Good, FreshInv
<1>10. ColorInv'
  BY <1>2, <1>3, <1>6, <1>7 DEF ColorInv, NoPass
<1>11. TaskInv' /\ BufferInv'
  BY <1>2, <1>3, <1>5, <1>6 DEF TaskInv, Good, BufferInv, NoPass
<1>12. StackInv'
  BY <1>2, <1>6 DEF Good, StackInv, NoPass, InBuffer
<1> QED
  BY <1>2, <1>6, <1>8, <1>9, <1>10, <1>11, <1>12 DEF Good, NoPass

(* Few calls of the mutator, pushed on an empty stack.                     *)
LEMMA EmptyStack == ASSUME NEW R PROVE GoodStack(<<>>, R) /\ Pending(<<>>) = {}
BY DEF GoodStack, Nested, Unique, Attended, Pending

(* qz_unref.                                                               *)
LEMMA UnrefStep ==
  ASSUME ControlInv, Good, Unref
  PROVE  Good'
<1>1. PICK c \in Cell :
        /\ handle[c] > 0
        /\ handle' = [handle EXCEPT ![c] = @ - 1]
        /\ stack' = << CellTask("decrement", c, 0) >>
  BY DEF Unref
<1>2. Idle /\ UNCHANGED <<alloc, rc, color, buffered, field, roots, fault, exposed>>
  BY DEF Unref
<1>3. /\ stack = <<>> /\ Pending(stack) = {} /\ OnlyMutator /\ NoPass
      /\ \A x \in Cell : color[x] \in {"black", "purple"} /\ (Settled(x) <=> rc[x] > 0)
      /\ \A x \in Cell : color[x] = "purple" => rc[x] > 0 /\ buffered[x]
      /\ \A x \in Cell, y \in 0 .. Width : Counts(x, y) <=> y # 0 /\ rc[x] > 0
  BY <1>2, IdleFacts
<1> DEFINE u == CellTask("decrement", c, 0)
<1>4. u \in TaskSet /\ u.fn = "decrement" /\ u.slot = 0 /\ u.cell = c
  BY CellTaskType, CellTaskFields, HeapGraphAssumption
<1>5. GoodStack(stack', InBuffer) /\ Pending(stack') = {u}
  <2>1. /\ <<>> \in Seq(TaskSet) /\ <<u>> \o <<>> = <<u>>
    BY <1>4
  <2>2. ~ NeedsAttendant(u, InBuffer)
    BY <1>4 DEF NeedsAttendant
  <2> HIDE DEF u
  <2>3. GoodStack(<<u>> \o <<>>, InBuffer) /\ Pending(<<u>> \o <<>>) = {u} \cup {}
    BY <1>4, <2>2, EmptyStack, PushOne
  <2> QED
    BY <1>1, <2>1, <2>3 DEF u
<1>6. OnlyMutator'
  BY <1>4, <1>5 DEF OnlyMutator, MutatorFn
<1>7. NoPass'
  BY <1>6, OutsidePass, PTL
<1>8. CountInv'
  <2>1. \A x \in Cell : Settled(x)' <=> Settled(x)
    BY <1>2 DEF Settled
  <2>2. \A x \in Cell, y \in 0 .. Width :
          /\ Pend("decrement", x, y)' <=> x = c /\ y = 0
          /\ ~ Pend("decr_and_mark_gray", x, y)'
          /\ ~ Pend("incr_and_scan_black", x, y)'
          /\ ~ Storing(x, y)'
    BY <1>4, <1>5, SameCellTask DEF Pend, Storing
  <2>3. \A x \in Cell, y \in 0 .. Width :
          Counts(x, y)' <=> Counts(x, y) \/ (x = c /\ y = 0)
    BY <1>3, <2>1, <2>2 DEF Counts
  <2>4. \A x \in Cell, y \in 0 .. Width : EdgeTarget(x, y)' = EdgeTarget(x, y)
    BY <1>2 DEF EdgeTarget
  <2>5. 0 \in 0 .. Width /\ c # NoCell
    BY HeapGraphAssumption
  <2>6. ~ Counted(c, 0) /\ EdgeTarget(c, 0)' = c
    BY <1>3, <2>5 DEF EdgeTarget, Counted
  <2>7. \A x \in Cell, y \in 0 .. Width :
          Counted(x, y)' <=> Counted(x, y) \/ (x = c /\ y = 0)
    BY <2>3, <2>4, <2>5 DEF Counted, EdgeTarget
  <2> QED
    BY <1>1, <1>2, <2>4, <2>5, <2>6, <2>7, CountMore DEF Good, ControlInv
<1>9. FreshInv'
  BY <1>2 DEF Good, FreshInv
<1>10. ColorInv'
  BY <1>2, <1>3, <1>7 DEF ColorInv, NoPass
<1>11. TaskInv'
  BY <1>4, <1>5 DEF TaskInv, TaskGood
<1>12. BufferInv'
  BY <1>2, <1>3, <1>7 DEF Good, BufferInv, NoPass
<1>13. StackInv'
  BY <1>2, <1>5, <1>7 DEF StackInv, GoodStack, NoPass, InBuffer
<1> QED
  BY <1>2, <1>7, <1>8, <1>9, <1>10, <1>11, <1>12, <1>13 DEF Good, NoPass

(* set-car! and its like: the old value is given up, then overwritten.     *)
LEMMA SetSlotStep ==
  ASSUME ControlInv, Good, SetSlot
  PROVE  Good'
<1>1. PICK c \in Cell, s \in Slot, d \in Ref :
        /\ handle[c] > 0
        /\ d # NoCell => handle[d] > (IF d = c THEN 1 ELSE 0)
        /\ stack' = << CellTask("decrement", c, s), StoreTask(c, s, d) >>
  BY DEF SetSlot
<1>2. Idle /\ UNCHANGED <<alloc, rc, color, buffered, field, roots, handle, fault, exposed>>
  BY DEF SetSlot
<1>3. /\ stack = <<>> /\ Pending(stack) = {} /\ OnlyMutator /\ NoPass
      /\ \A x \in Cell : color[x] \in {"black", "purple"} /\ (Settled(x) <=> rc[x] > 0)
      /\ \A x \in Cell : color[x] = "purple" => rc[x] > 0 /\ buffered[x]
      /\ \A x \in Cell : handle[x] \in Nat /\ rc[x] \in Nat /\ handle[x] <= rc[x]
      /\ \A x \in Cell, y \in 0 .. Width : Counts(x, y) <=> y # 0 /\ rc[x] > 0
  BY <1>2, IdleFacts
<1> DEFINE u == CellTask("decrement", c, s)
           w == StoreTask(c, s, d)
<1>4. u \in TaskSet /\ u.fn = "decrement" /\ u.slot = s /\ u.cell = c /\ s # 0 /\ s \in 0 .. Width
  BY CellTaskType, CellTaskFields, HeapGraphAssumption DEF Slot
<1>5. w \in TaskSet /\ w.fn = "store" /\ w.cell = c /\ w.slot = s /\ w.val = d
  BY DEF StoreTask, TaskSet, StoreTaskSet
<1>6. GoodStack(stack', InBuffer) /\ Pending(stack') = {u, w}
  <2> HIDE DEF u, w
  <2>1. stack' = <<u, w>>
    BY <1>1 DEF u, w
  <2>2. /\ stack' \in Seq(TaskSet) /\ Len(stack') = 2
        /\ stack'[1] = u /\ stack'[2] = w
        /\ \A k \in 1 .. Len(stack') : k = 1 \/ k = 2
        /\ 1 \in 1 .. Len(stack') /\ 2 \in 1 .. Len(stack')
    BY <1>4, <1>5, <2>1
  <2>3. Pending(stack') = {u, w}
    BY <2>2 DEF Pending
  <2>4. Nested(stack')
    <3> SUFFICES ASSUME NEW i \in 1 .. Len(stack'), NEW k \in 1 .. Len(stack'), i < k
                 PROVE  stack'[k].fn \in Below(stack'[i].fn)
      BY DEF Nested
    <3>1. k = 2
      BY <2>2
    <3> QED
      BY <1>5, <2>2, <3>1 DEF Below, MutatorFn
  <2>5. Unique(stack')
    BY <1>4, <1>5, <2>2 DEF Unique
  <2>6. Attended(stack', InBuffer)
    <3>1. Attends(w, u) /\ ~ NeedsAttendant(w, InBuffer)
      BY <1>4, <1>5 DEF Attends, NeedsAttendant
    <3> QED
      BY <2>2, <3>1 DEF Attended
  <2> QED
    BY <2>2, <2>3, <2>4, <2>5, <2>6 DEF GoodStack
<1> HIDE DEF w
<1>7. OnlyMutator'
  BY <1>4, <1>5, <1>6 DEF OnlyMutator, MutatorFn
<1>8. NoPass'
  BY <1>7, OutsidePass, PTL
<1>9. CountInv'
  <2>1. \A x \in Cell : Settled(x)' <=> Settled(x)
    BY <1>2 DEF Settled
  <2>2. \A x \in Cell, y \in 0 .. Width :
          /\ Pend("decrement", x, y)' <=> x = c /\ y = s
          /\ ~ Pend("decr_and_mark_gray", x, y)'
          /\ ~ Pend("incr_and_scan_black", x, y)'
          /\ Storing(x, y)' <=> x = c /\ y = s
    <3> TAKE x \in Cell, y \in 0 .. Width
    <3>1. \A fn : fn # "store" => CellTask(fn, x, y) # w
      BY <1>5, CellTaskFields
    <3>2. \A fn : CellTask(fn, x, y) = u <=> fn = "decrement" /\ x = c /\ y = s
      BY SameCellTask
    <3>3. Storing(x, y)' <=> x = c /\ y = s
      BY <1>4, <1>5, <1>6 DEF Storing
    <3> HIDE DEF u
    <3> QED
      BY <1>6, <3>1, <3>2, <3>3 DEF Pend
  <2>3. rc[c] > 0
    BY <1>1, <1>3
  <2>4. \A x \in Cell, y \in 0 .. Width : Counts(x, y)' <=> Counts(x, y)
    BY <1>3, <1>4, <2>1, <2>2, <2>3 DEF Counts
  <2>5. \A x \in Cell, y \in 0 .. Width : EdgeTarget(x, y)' = EdgeTarget(x, y)
    BY <1>2 DEF EdgeTarget
  <2> QED
    BY <1>2, <2>4, <2>5, CountKept DEF Good, Counted
<1>10. FreshInv'
  BY <1>2 DEF Good, FreshInv
<1>11. ColorInv'
  BY <1>2, <1>3, <1>8 DEF ColorInv, NoPass
<1>12. TaskInv'
  <2>1. TaskGood(u)'
    BY <1>4 DEF TaskGood
  <2>2. d = c => handle[c] > 1
    BY <1>1, HeapGraphAssumption
  <2>3. TaskGood(w)'
    BY <1>1, <1>2, <1>5, <1>8, <2>2 DEF TaskGood, NoPass
  <2> QED
    BY <1>6, <2>1, <2>3 DEF TaskInv
<1>13. BufferInv'
  BY <1>2, <1>3, <1>8 DEF Good, BufferInv, NoPass
<1>14. StackInv'
  BY <1>2, <1>6, <1>8 DEF StackInv, GoodStack, NoPass, InBuffer
<1> QED
  BY <1>2, <1>8, <1>9, <1>10, <1>11, <1>12, <1>13, <1>14 DEF Good, NoPass

\* the slots of f that hold x, as edges of the cell c
SlotEdges(f, c, x) == {<<c, s>> : s \in {r \in Slot : f[r] = x}}

(* There are as many of them as occurrences of x in f.                     *)
LEMMA SlotsAsEdges ==
  ASSUME NEW f, NEW c, NEW x
  PROVE  /\ IsFiniteSet(SlotEdges(f, c, x))
         /\ Cardinality(SlotEdges(f, c, x)) = Occurrences(f, x)
         /\ Occurrences(f, x) \in Nat
         /\ (\A r \in Slot : f[r] # x) => Occurrences(f, x) = 0
         /\ \A r \in Slot : f[r] = x => Occurrences(f, x) > 0
<1> DEFINE S == {r \in Slot : f[r] = x}
           E == {<<c, s>> : s \in S}
           g == [s \in S |-> <<c, s>>]
<1>1. IsFiniteSet(S) /\ Cardinality(S) \in Nat
  <2>1. IsFiniteSet(Slot)
    BY HeapGraphAssumption, FS_Interval DEF Slot
  <2> QED
    BY <2>1, FS_Subset, FS_CardinalityType
<1>2. Occurrences(f, x) = Cardinality(S)
  BY DEF Occurrences
<1>3. (S = {} => Cardinality(S) = 0) /\ (S # {} => Cardinality(S) > 0)
  BY <1>1, FS_EmptySet
<1>4. ((\A r \in Slot : f[r] # x) => S = {}) /\ (\A r \in Slot : f[r] = x => S # {})
  OBVIOUS
<1> HIDE DEF S
<1>5. g \in Bijection(S, E)
  <2>1. g \in [S -> E]
    OBVIOUS
  <2>2. \A a, b \in S : g[a] = g[b] => a = b
    OBVIOUS
  <2>3. \A t \in E : \E s \in S : g[s] = t
    OBVIOUS
  <2> QED
    BY <2>1, <2>2, <2>3 DEF Bijection, Injection, Surjection, IsInjective
<1>6. ExistsBijection(S, E)
  BY <1>5 DEF ExistsBijection
<1>7. IsFiniteSet(E) /\ Cardinality(E) = Cardinality(S)
  BY <1>1, <1>6, FS_Bijection
<1> QED
  BY <1>1, <1>2, <1>3, <1>4, <1>7 DEF S, SlotEdges

(* A constructor: the references given to it become those of its slots.    *)
LEMMA MakeStep ==
  ASSUME ControlInv, Good, Make
  PROVE  Good'
<1>1. PICK c \in Cell \ alloc, f \in [Slot -> Ref] :
        /\ \A d \in Cell : Occurrences(f, d) <= handle[d]
        /\ alloc' = alloc \cup {c}
        /\ rc' = [rc EXCEPT ![c] = 1]
        /\ field' = [field EXCEPT ![c] = f]
        /\ handle' = [d \in Cell |-> IF d = c THEN 1 ELSE handle[d] - Occurrences(f, d)]
  BY DEF Make
<1>2. Idle /\ UNCHANGED <<color, buffered, roots, stack, fault, exposed>>
  BY DEF Make
<1>3. /\ stack = <<>> /\ Pending(stack) = {} /\ OnlyMutator /\ NoPass
      /\ \A x \in Cell : color[x] \in {"black", "purple"} /\ (Settled(x) <=> rc[x] > 0)
      /\ \A x \in Cell : color[x] = "purple" => rc[x] > 0 /\ buffered[x]
      /\ \A x \in Cell : handle[x] \in Nat /\ rc[x] \in Nat /\ handle[x] <= rc[x]
      /\ \A x \in Cell, y \in 0 .. Width : Counts(x, y) <=> y # 0 /\ rc[x] > 0
  BY <1>2, IdleFacts
<1>4. c \in Cell /\ rc[c] = 0 /\ handle[c] = 0
  <2>1. rc[c] = 0
    BY DEF Good, FreshInv
  <2> QED
    BY <1>3, <2>1
<1>5. /\ OnlyMutator' /\ Pending(stack') = {}
  BY <1>2, <1>3 DEF OnlyMutator
<1>6. NoPass'
  BY <1>5, OutsidePass, PTL
<1>7. \A x \in Cell : /\ rc'[x] = IF x = c THEN 1 ELSE rc[x]
                      /\ handle'[x] = IF x = c THEN 1 ELSE handle[x] - Occurrences(f, x)
                      /\ field'[x] = IF x = c THEN f ELSE field[x]
  BY <1>1 DEF ControlInv, TypeOK
<1>8. CountInv'
  <2>1. \A x \in Cell : Settled(x)' <=> rc'[x] > 0
    BY <1>2, <1>3 DEF Settled
  <2>2. \A x \in Cell, y \in 0 .. Width : Counts(x, y)' <=> y # 0 /\ (x = c \/ rc[x] > 0)
    BY <1>5, <1>7, <2>1 DEF Counts, Pend, Storing
  <2>3. \A x \in Cell, y \in 0 .. Width :
          x # c => EdgeTarget(x, y)' = EdgeTarget(x, y)
    BY <1>7 DEF EdgeTarget
  <2>4. \A y \in Slot : EdgeTarget(c, y)' = f[y] /\ y \in 0 .. Width /\ y # 0
    BY <1>4, <1>7, HeapGraphAssumption DEF EdgeTarget, Slot
  <2> SUFFICES ASSUME NEW x \in Cell
               PROVE  rc'[x] = handle'[x] + Cardinality(InRefs(x)')
    BY DEF CountInv
  <2> DEFINE E == SlotEdges(f, c, x)
  <2>5. InRefs(x)' = InRefs(x) \cup E
    <3>1. ASSUME NEW e \in Edge
          PROVE  e \in InRefs(x)' <=> e \in InRefs(x) \cup E
      <4>1. e[1] \in Cell /\ e[2] \in 0 .. Width /\ e = <<e[1], e[2]>>
        BY DEF Edge
      <4>2. e[2] # 0 => e[2] \in Slot
        BY <4>1, HeapGraphAssumption DEF Slot
      <4>3. e \in InRefs(x) <=> EdgeTarget(e[1], e[2]) = x /\ e[2] # 0 /\ rc[e[1]] > 0
        BY <1>3, <4>1 DEF InRefs
      <4>4. e \in InRefs(x)' <=>
              EdgeTarget(e[1], e[2])' = x /\ e[2] # 0 /\ (e[1] = c \/ rc[e[1]] > 0)
        BY <2>2, <4>1 DEF InRefs
      <4>5. CASE e[1] = c
        <5>1. e \in E <=> e[2] \in Slot /\ f[e[2]] = x
          BY <4>1, <4>5 DEF SlotEdges
        <5>2. e[2] \in Slot => EdgeTarget(e[1], e[2])' = f[e[2]] /\ e[2] # 0
          BY <2>4, <4>5
        <5>3. ~ (rc[e[1]] > 0)
          BY <1>4, <4>5
        <5> HIDE DEF E
        <5> QED
          BY <4>1, <4>2, <4>3, <4>4, <4>5, <5>1, <5>2, <5>3
      <4>6. CASE e[1] # c
        <5>1. e \notin E
          BY <4>1, <4>6 DEF SlotEdges
        <5> HIDE DEF E
        <5> QED
          BY <2>3, <4>1, <4>3, <4>4, <4>6, <5>1
      <4> QED
        BY <4>5, <4>6
    <3>2. InRefs(x) \subseteq Edge /\ InRefs(x)' \subseteq Edge
      BY DEF InRefs
    <3>3. E \subseteq Edge
      BY <1>4, <2>4 DEF Edge, SlotEdges
    <3> HIDE DEF E
    <3> QED
      BY <3>1, <3>2, <3>3
  <2>6. InRefs(x) \cap E = {}
    <3> SUFFICES ASSUME NEW s \in Slot, <<c, s>> \in InRefs(x)
                 PROVE  FALSE
      BY DEF SlotEdges
    <3>1. Counts(c, s) /\ s \in 0 .. Width
      BY <2>4 DEF InRefs
    <3> QED
      BY <1>3, <1>4, <3>1
  <2>7. /\ IsFiniteSet(E) /\ Cardinality(E) = Occurrences(f, x) /\ Occurrences(f, x) \in Nat
    BY SlotsAsEdges
  <2>8. IsFiniteSet(InRefs(x)) /\ Cardinality(InRefs(x)) \in Nat
    BY RefsFinite
  <2> HIDE DEF E
  <2>9. Cardinality(InRefs(x)') = Cardinality(InRefs(x)) + Occurrences(f, x)
    <3>1. Cardinality(InRefs(x) \cup E) =
            Cardinality(InRefs(x)) + Cardinality(E) - Cardinality(InRefs(x) \cap E)
      BY <2>7, <2>8, FS_Union
    <3>2. Cardinality(InRefs(x) \cap E) = 0
      BY <2>6, FS_EmptySet
    <3> QED
      BY <2>5, <2>7, <2>8, <3>1, <3>2
  <2>10. rc[x] = handle[x] + Cardinality(InRefs(x)) /\ Occurrences(f, x) <= handle[x]
    BY <1>1 DEF Good, CountInv
  <2> QED
    BY <1>3, <1>4, <1>7, <2>7, <2>8, <2>9, <2>10
<1>9. FreshInv'
  BY <1>1, <1>2, <1>4, <1>7 DEF Good, FreshInv
<1>10. ColorInv'
  BY <1>2, <1>3, <1>6, <1>7 DEF ColorInv, NoPass
<1>11. TaskInv' /\ BufferInv'
  BY <1>2, <1>3, <1>5, <1>6 DEF TaskInv, Good, BufferInv, NoPass
<1>12. StackInv'
  BY <1>2, <1>6 DEF Good, StackInv, NoPass, InBuffer
<1> QED
  BY <1>2, <1>6, <1>8, <1>9, <1>10, <1>11, <1>12 DEF Good, NoPass

(* The collection at the end of qz_free.                                   *)
LEMMA ShutdownStep ==
  ASSUME ControlInv, ControlInv', Good, Shutdown
  PROVE  Good'
<1>1. /\ Idle /\ stack' = CollectTasks \o <<>>
      /\ UNCHANGED <<alloc, rc, color, buffered, field, roots, handle, fault>>
  BY DEF Shutdown, BeginCollect
<1>2. /\ stack = <<>> /\ Pending(stack) = {} /\ NoPass
      /\ \A x \in Cell : color[x] \in {"black", "purple"} /\ (Settled(x) <=> rc[x] > 0)
      /\ \A x \in Cell : color[x] = "purple" => rc[x] > 0 /\ buffered[x]
  BY <1>1, IdleFacts
<1>3. /\ GoodStack(stack', InBuffer)
      /\ Pending(stack') = { LoopTask(fn, 1, 1) : fn \in LoopFn } \cup {}
  <2>1. GoodStack(<<>>, InBuffer) /\ Pending(<<>>) = {}
    BY EmptyStack
  <2> QED
    BY <1>1, <2>1, PushCollect
<1>4. /\ InPass' /\ Marking' /\ Tracing'
      /\ \A t \in Pending(stack') : t.fn \in LoopFn /\ t.i = 1 /\ t.j = 1
      /\ Needed' /\ VisitedInv' /\ FoundInv'
      /\ InUse' = DOMAIN roots' /\ StillBuffered' = DOMAIN roots' /\ Kept' = {}
  <2>1. Len(roots') \in Nat /\ DOMAIN roots' = 1 .. Len(roots')
    BY LenProperties DEF ControlInv, TypeOK
  <2>2. \A x \in Cell : color'[x] \notin {"gray", "white"}
    BY <1>1, <1>2
  <2> DEFINE Q == {}
  <2>3. \A t \in Q : t.fn \in MutatorFn /\ t \notin Q
    OBVIOUS
  <2>4. Pending(stack') = { LoopTask(fn, 1, 1) : fn \in LoopFn } \cup Q
    BY <1>3
  <2> HIDE DEF Q
  <2> QED
    BY <2>1, <2>2, <2>3, <2>4, PassBegins
<1>5. SameAccounting
  <2>1. \A fn, x, y : fn \notin LoopFn => ~ Pend(fn, x, y)' /\ ~ Pend(fn, x, y)
    BY <1>2, <1>4, CellTaskFields DEF Pend
  <2>2. \A x, y : ~ Storing(x, y)' /\ ~ Storing(x, y)
    BY <1>2, <1>4 DEF Storing, LoopFn
  <2> QED
    BY <2>1, <2>2 DEF SameAccounting, LoopFn
<1>6. CountInv'
  BY <1>1, <1>5, QuietCount DEF Good, Settled
<1>7. FreshInv'
  BY <1>1 DEF Good, FreshInv
<1>8. ColorInv'
  BY <1>1, <1>2, <1>4 DEF ColorInv
<1>9. TaskInv'
  BY <1>4 DEF TaskInv, TaskGood, LoopFn
<1>10. BufferInv'
  BY <1>1, <1>2, <1>4 DEF Good, BufferInv, NoPass
<1>11. StackInv'
  BY <1>1, <1>3, <1>4 DEF StackInv, GoodStack, InBuffer
<1> QED
  BY <1>1, <1>4, <1>6, <1>7, <1>8, <1>9, <1>10, <1>11 DEF Good, Idle
=============================================================================
