------------------------------- MODULE Objects --------------------------------
(***************************************************************************)
(* The two walks over a data structure: write (src/quuz-write.c) and       *)
(* equal? (src/quuz-object.c:340).  Both are recursive C functions; their  *)
(* pending calls are the frames of stack, the innermost first.  The        *)
(* structure does not change under them: nothing else runs.                *)
(***************************************************************************)
EXTENDS InfoWord, Sequences, FiniteSets, SequencesExt

CONSTANTS
  Cell,      \* the addresses of the structure's cells
  Null,      \* the empty list: a cell reference that is NULL
  Atom,      \* an object that is not a cell: a fixnum, a symbol, a bool, ...
  Heaps,     \* the structures to walk
  Kept,      \* info words without marks
  Programs   \* the sequences of walks that programs make

\* all_children and write_cell know these; a record's are not walked
Two   == {"pair", "fun", "promise", "error"}
Many  == {"vector", "hash"}
Plain == {"string", "bytevector", "port", "real"}

\* the walks a program can ask for
Walk == [job : {"write"}, args : Cell \X {Null}] \cup
        [job : {"equal"}, args : {xy \in Cell \X Cell : xy[1] # xy[2]}]

ASSUME ObjectsAssumption ==
  /\ IsFiniteSet(Cell)
  /\ Null \notin Cell /\ Atom \notin Cell /\ Null # Atom
  /\ \A h \in Heaps, c \in Cell :
       /\ h[c].type \in Two \cup Many \cup Plain \cup {"record"}
       /\ h[c].slots \in Seq(Cell \cup {Null, Atom})
       /\ h[c].type \in Two => Len(h[c].slots) = 2
       /\ h[c].type \in Plain => h[c].slots = <<>>
  /\ Kept \subseteq Word
  /\ \A w \in Kept : ~ qz_dirty(w)
  /\ Programs \subseteq Seq(Walk)

VARIABLES
  heap,      \* what each cell holds: its type, its slots, its characters
  info,      \* each cell's info word
  job,       \* "write", "equal" or "none"
  args,      \* what the current or last walk was called with
  stack,     \* its pending calls
  printed,   \* the cells the current or last write printed out ...
  elided,    \* ... and the ones it printed as "..."
  answer,    \* what the last equal? returned
  fault,     \* how the program stopped, if it did
  program,   \* the walks to come
  messy      \* HISTORY: the dirty cells when the current or last walk began

vars == <<heap, info, job, args, stack, printed, elided, answer, fault,
          program, messy>>

Obj == Cell \cup {Null, Atom}

IsPair(x)   == x \in Cell /\ heap[x].type = "pair"
first(c)    == heap[c].slots[1]
rest(c)     == heap[c].slots[2]
slots(c)    == heap[c].slots
Dirty(c)    == qz_dirty(info[c])
DirtyCells  == {c \in Cell : Dirty(c)}

\* the cells that next leads to from x, through cells of S only (x among them)
Closed(T, S, next(_)) == \A p \in T : next(p) \cap S \subseteq T
Closure(S, x, next(_)) ==
  {c \in S : \A T \in SUBSET S : (x \in S => x \in T) /\ Closed(T, S, next) => c \in T}

Children(c) == {d \in Cell : \E i \in DOMAIN slots(c) : slots(c)[i] = d}
ReachedWithin(S, x) == Closure(S, x, Children)
Reached(x) == ReachedWithin(Cell, x)

Init ==
  /\ heap \in Heaps
  /\ info \in [Cell -> Kept]
  /\ job = "none" /\ args = <<Null, Null>> /\ stack = <<>>
  /\ printed = {} /\ elided = {}
  /\ answer = "none" /\ fault = "none" /\ messy = {}
  /\ program \in Programs

(***************************************************************************)
(* Frames: what a pending C call still has to do.                          *)
(***************************************************************************)
WriteObject(x)    == [do |-> "object", a |-> x, b |-> x, n |-> 0]
WriteList(c)      == [do |-> "list", a |-> c, b |-> c, n |-> 0]
WriteRest(c)      == [do |-> "rest", a |-> c, b |-> c, n |-> 0]
WriteSlots(c, i)  == [do |-> "slots", a |-> c, b |-> c, n |-> i]
Equal(x, y)       == [do |-> "equal", a |-> x, b |-> y, n |-> 0]
EqualElements(c, d, i) == [do |-> "elements", a |-> c, b |-> d, n |-> i]

top == Head(stack)

\* the call on top is replaced by the frames of fs
Continue(fs) == stack' = fs \o Tail(stack)

Begin(name) ==
  /\ job = "none" /\ fault = "none"
  /\ program # <<>> /\ Head(program).job = name
  /\ job' = name /\ args' = Head(program).args
  /\ program' = Tail(program) /\ messy' = DirtyCells
  /\ UNCHANGED <<heap, info, fault>>

Stop(how) ==
  /\ fault' = how
  /\ stack' = <<>>

(***************************************************************************)
(* write and display                                                       *)
(***************************************************************************)
BeginWrite ==
  /\ Begin("write")
  /\ stack' = <<WriteObject(args'[1])>>
  /\ printed' = {} /\ elided' = {}
  /\ UNCHANGED answer

\* what write_cell does with a cell it has just marked
WriteCell(c) ==
  \/ heap[c].type = "pair" /\ Continue(<<WriteList(c)>>) /\ UNCHANGED fault
  \/ /\ heap[c].type \in (Two \ {"pair"}) \cup Many
     /\ Continue(<<WriteSlots(c, 1)>>) /\ UNCHANGED fault
  \/ heap[c].type \in Plain /\ Continue(<<>>) /\ UNCHANGED fault
  \/ heap[c].type = "record" /\ Stop("unknown cell type")

write_object ==
  /\ job = "write" /\ stack # <<>> /\ top.do = "object"
  /\ LET x == top.a IN
       \/ /\ x \notin Cell
          /\ Continue(<<>>)
          /\ UNCHANGED <<info, printed, elided, fault>>
       \/ /\ x \in Cell /\ Dirty(x)
          /\ elided' = elided \cup {x}
          /\ Continue(<<>>)
          /\ UNCHANGED <<info, printed, fault>>
       \/ /\ x \in Cell /\ ~ Dirty(x)
          /\ info' = [info EXCEPT ![x] = qz_set_dirty(@, Raised)]
          /\ printed' = printed \cup {x}
          /\ WriteCell(x)
          /\ UNCHANGED elided
  /\ UNCHANGED <<heap, job, args, answer, program, messy>>

\* one turn of the loop over a list: its first, ...
write_first ==
  /\ job = "write" /\ stack # <<>> /\ top.do = "list"
  /\ printed' = printed \cup {top.a}
  /\ Continue(<<WriteObject(first(top.a)), WriteRest(top.a)>>)
  /\ UNCHANGED <<heap, info, job, args, elided, answer, fault, program, messy>>

AfterFirstUnchecked(r) == IF r = Null THEN <<>> ELSE <<WriteList(r)>>       \* mutant
\* ... then on to the next pair, which is not marked, or to the list's end
AfterFirst(r) == CASE r = Null -> <<>>
                   [] IsPair(r) -> <<WriteList(r)>>
                   [] OTHER -> <<WriteObject(r)>>

write_rest ==
  /\ job = "write" /\ stack # <<>> /\ top.do = "rest"
  /\ Continue(AfterFirst(rest(top.a)))
  /\ UNCHANGED <<heap, info, job, args, printed, elided, answer, fault, program,
                 messy>>

AllWrittenEarly(c, i) == i >= Len(slots(c))       \* mutant
\* write_pair, and the loops over a vector and over a hash table
AllWritten(c, i) == i > Len(slots(c))
NextSlotStuck(i) == i       \* mutant
NextSlot(i) == i + 1

write_slots ==
  /\ job = "write" /\ stack # <<>> /\ top.do = "slots"
  /\ Continue(IF AllWritten(top.a, top.n) THEN <<>>
              ELSE <<WriteObject(slots(top.a)[top.n]),
                     WriteSlots(top.a, NextSlot(top.n))>>)
  /\ UNCHANGED <<heap, info, job, args, printed, elided, answer, fault, program,
                 messy>>

ClearedAlone(x) == DirtyCells \cap {x}       \* mutant
\* clear_dirty goes on from a cell only when it finds it dirty
Cleared(x) == ReachedWithin(DirtyCells, x)

clear_dirty ==
  /\ job = "write" /\ stack = <<>> /\ fault = "none"
  /\ info' = [c \in Cell |-> IF c \in Cleared(args[1])
                             THEN qz_set_dirty(info[c], Lowered) ELSE info[c]]
  /\ job' = "none"
  /\ UNCHANGED <<heap, args, stack, printed, elided, answer, fault, program,
                 messy>>

(***************************************************************************)
(* equal?: a call that returns 0 makes every pending one return 0; one     *)
(* that returns 1 lets the caller go on.                                   *)
(***************************************************************************)
BeginEqual ==
  /\ Begin("equal")
  /\ stack' = <<Equal(args'[1], args'[2])>>
  /\ answer' = "none"
  /\ UNCHANGED <<printed, elided>>

Yes        == Continue(<<>>) /\ UNCHANGED <<answer, fault>>
No         == stack' = <<>> /\ answer' = "no" /\ UNCHANGED fault
GoOn(fs)   == Continue(fs) /\ UNCHANGED <<answer, fault>>
Crash(how) == Stop(how) /\ UNCHANGED answer

\* a nested call for every two cells: one more call is nested in itself
MaxDepth == Cardinality(Cell) * Cardinality(Cell) + 1

IsRef(x) == x \in Cell \cup {Null}

SameButNull(x, y) == x = y /\ x # Null       \* mutant
Same(x, y) == x = y
SameData(x, y) == heap[x].data = heap[y].data

ComparePairsTwice(x, y) == <<Equal(first(y), first(y)), Equal(rest(y), rest(y))>>       \* mutant
\* the second half of a pair: both arguments are the second pair's
ComparePairs(x, y) == <<Equal(first(x), first(y)), Equal(rest(y), rest(y))>>

\* two cells of one type, or not; two objects of which one is no cell
OneType(x, y) == {x, y} \subseteq Cell /\ heap[x].type = heap[y].type
Are(x, y, types) == OneType(x, y) /\ heap[x].type \in types

Unlike(x, y) ==
  \/ ~ (IsRef(x) /\ IsRef(y))
  \/ {x, y} \subseteq Cell /\ heap[x].type # heap[y].type
  \/ Are(x, y, {"vector"}) /\ Len(slots(x)) # Len(slots(y))
  \/ Are(x, y, Plain \ {"port"}) /\ ~ SameData(x, y)

Pursue(fs) == IF Len(stack) > MaxDepth THEN Crash("recursion") ELSE GoOn(fs)

qz_equal ==
  /\ job = "equal" /\ stack # <<>> /\ top.do = "equal"
  /\ LET x == top.a
         y == top.b
     IN \/ Same(x, y) /\ Yes
        \/ ~ Same(x, y) /\ Unlike(x, y) /\ No
        \/ /\ ~ Same(x, y) /\ ~ Unlike(x, y)
           /\ \/ Null \in {x, y} /\ Crash("null")
              \/ Are(x, y, {"pair", "fun", "promise"}) /\ Pursue(ComparePairs(x, y))
              \/ Are(x, y, {"vector"}) /\ Pursue(<<EqualElements(x, y, 1)>>)
              \/ Are(x, y, Plain \ {"port"}) /\ Yes
              \/ Are(x, y, {"error", "hash", "record", "port"}) /\ Crash("unknown cell type")
  /\ UNCHANGED <<heap, info, job, args, printed, elided, program, messy>>

equal_elements ==
  /\ job = "equal" /\ stack # <<>> /\ top.do = "elements"
  /\ IF top.n > Len(slots(top.a)) THEN Yes
     ELSE GoOn(<<Equal(slots(top.a)[top.n], slots(top.b)[top.n]),
                 EqualElements(top.a, top.b, NextSlot(top.n))>>)
  /\ UNCHANGED <<heap, info, job, args, printed, elided, program, messy>>

equal_returns ==
  /\ job = "equal" /\ stack = <<>> /\ fault = "none"
  /\ job' = "none"
  /\ answer' = IF answer = "no" THEN "no" ELSE "yes"
  /\ UNCHANGED <<heap, info, args, stack, printed, elided, fault, program, messy>>

Step == \/ write_object \/ write_first \/ write_rest \/ write_slots \/ clear_dirty
        \/ qz_equal \/ equal_elements \/ equal_returns

Next == BeginWrite \/ BeginEqual \/ Step

\* a C function that has been called goes on
Spec == Init /\ [][Next]_vars /\ WF_vars(Step)

(***************************************************************************)
(* Properties                                                              *)
(***************************************************************************)
Frame == [do : {"object", "equal"}, a : Obj, b : Obj, n : {0}] \cup
         [do : {"list", "rest"}, a : {c \in Cell : IsPair(c)}, b : Cell, n : {0}] \cup
         [do : {"slots", "elements"}, a : Cell, b : Cell, n : Nat \ {0}]

\* The variables have their types; the loop over a list is at a pair.
TypeOK ==
  /\ info \in [Cell -> Word]
  /\ job \in {"none", "write", "equal"}
  /\ args \in Obj \X Obj /\ stack \in Seq(Frame)
  /\ printed \subseteq Cell /\ elided \subseteq Cell /\ messy \subseteq Cell
  /\ answer \in {"none", "yes", "no"}
  /\ fault \in {"none", "null", "recursion", "unknown cell type"}
  /\ program \in Seq(Walk)

\* cells that the loop over a list passes without marking them, and what
\* hangs below them
PassedUnmarked == {c \in Cell : \E p \in Cell : IsPair(p) /\ IsPair(c) /\ rest(p) = c}
BehindTails == UNION {Reached(c) : c \in PassedUnmarked}

Idle == job = "none" /\ fault = "none"
Wrote    == Idle /\ args[1] \in Cell /\ args[2] = Null
Compared == Idle /\ args[1] \in Cell /\ args[2] \in Cell

\* Between walks no cell is dirty, except behind the second or a later pair
\* of some list: the marks clear_dirty cannot find are those write_cell sets
\* below pairs it does not mark (quuz-write.c:64, :121).
DirtOnlyBehindTails == Idle => DirtyCells \subseteq BehindTails

\* A write prints every cell of the structure that it does not reach only
\* through marks left by another, all of them if there are none; and "..."
\* only for a cell that had such a mark or is printed elsewhere
\* (quuz-write.c:100, :121).
PrintsUpToMarks ==
  Wrote => /\ ReachedWithin(Cell \ messy, args[1]) \subseteq printed
           /\ printed \subseteq Reached(args[1])
           /\ elided \subseteq printed \cup messy

\* Walking a structure, whatever its shape, leaves the reference count, type,
\* color and buffered flag of every cell as they were (quuz-object.c:163).
InfoKept == [][\A c \in Cell : Fields(info'[c]) = Fields(info[c])]_vars

\* a list whose rests lead back into it
Circular(c) ==
  LET After[n \in Nat] == IF n = 0 THEN c
                         ELSE IF IsPair(After[n - 1]) THEN rest(After[n - 1]) ELSE Atom
  IN IsPair(After[Cardinality(Cell)])

\* write returns, or stops at a cell it does not know, unless it reaches a
\* list that is circular through its rests: cycles of any other kind end at a
\* mark (src/TODO:2).
WriteReturns ==
  (job = "write" /\ ~ \E c \in Reached(args[1]) : Circular(c))
    ~> (job = "none" \/ fault # "none")

\* what equal? should compare: R relates different cells that agree in type
\* and data and whose slots are the same or related
Different == {xy \in Cell \X Cell : xy[1] # xy[2]}
Agree(x, y) ==
  /\ heap[x].type = heap[y].type /\ Len(slots(x)) = Len(slots(y))
  /\ heap[x].type \in Plain => SameData(x, y)
Respects(R, slot(_)) ==
  \A p \in R :
    /\ Agree(p[1], p[2])
    /\ \A i \in slot(p[1]) :
         LET q == <<slots(p[1])[i], slots(p[2])[i]>> IN q[1] = q[2] \/ q \in R

Similar(x, y, slot(_)) ==
  x = y \/ \E R \in SUBSET Different : Respects(R, slot) /\ <<x, y>> \in R

AllSlots(c) == DOMAIN slots(c)
\* the slots that qz_equal does compare
ComparedSlots(c) == IF heap[c].type \in Two THEN {1} ELSE DOMAIN slots(c)

\* equal? never says no to two structures of the same shape and content,
\* whether or not they share cells or are cyclic, and says yes only where
\* everything but the rests of pairs is the same.  (Of the rests it compares
\* the second one with itself: quuz-object.c:371.)
EqualAnswers ==
  Compared => /\ answer = "no" => ~ Similar(args[1], args[2], AllSlots)
              /\ answer = "yes" => Similar(args[1], args[2], ComparedSlots)

\* The comment at quuz-object.c:369: pairs are compared recursively.
ComparesPairs ==
  Compared /\ answer = "yes" => Similar(args[1], args[2], AllSlots)

\* equal? can recurse without end only where both structures are cyclic
\* through slots it compares, and dereferences the empty list only where the
\* two structures differ.
ComparedChildren(c) == {d \in Cell : \E i \in ComparedSlots(c) : slots(c)[i] = d}
OnCompared(x) == Closure(Cell, x, ComparedChildren)
Cyclic(x) == \E c \in OnCompared(x) : \E d \in ComparedChildren(c) : c \in OnCompared(d)
FailsOnlyWhere ==
  job = "equal" =>
    /\ fault = "recursion" => Cyclic(args[1]) /\ Cyclic(args[2])
    /\ fault = "null" => ~ Similar(args[1], args[2], AllSlots)
===============================================================================
