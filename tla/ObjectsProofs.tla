---------------------------- MODULE ObjectsProofs -----------------------------
(***************************************************************************)
(* The two walks over every finite structure: what they leave in the info  *)
(* words, what write prints, and what the answers of equal? mean.          *)
(***************************************************************************)
EXTENDS Objects, FiniteSetTheorems, TLAPS

\* The setters of quuz-object.c:163: a value that fits its field is read
\* back, and a field that lies apart is not touched.
LEMMA SetBitsReadBack ==
  ASSUME NEW w \in Word, NEW pos \in Nat, NEW len \in Nat,
         pos + len <= WordBits, NEW v \in SUBSET Field(0, len)
  PROVE  get_bits(set_bits(w, pos, len, v), pos, len) = v
<1>1. ASSUME NEW b \in Field(0, len)
      PROVE  b + pos \in set_bits(w, pos, len, v) <=> b \in v
  <2>1. b \in Nat /\ b + pos \in Field(0, WordBits) /\ b + pos \in Field(pos, len)
    BY <1>1, InfoWordAssumption
       DEF Field, WordBits, DirtyPos, DirtyBits, BufferedPos, BufferedBits,
           ColorPos, ColorBits, TypePos, TypeBits
  <2>2. (\E i \in v : b + pos = i + pos) <=> b \in v
    BY <2>1 DEF Field
  <2>. QED
    BY <2>1, <2>2 DEF set_bits, Shifted
<1>. QED
  BY <1>1 DEF get_bits

LEMMA SetBitsElsewhere ==
  ASSUME NEW w \in Word, NEW pos \in Nat, NEW len \in Nat,
         NEW v \in SUBSET Field(0, len), NEW pos2 \in Nat, NEW len2 \in Nat,
         pos2 + len2 <= pos \/ pos + len <= pos2
  PROVE  get_bits(set_bits(w, pos, len, v), pos2, len2) = get_bits(w, pos2, len2)
<1>1. ASSUME NEW b \in Field(0, len2)
      PROVE  b + pos2 \in set_bits(w, pos, len, v) <=> b + pos2 \in w
  <2>1. b \in Nat /\ b + pos2 \notin Field(pos, len)
    BY <1>1 DEF Field
  <2>2. b + pos2 \notin Shifted(v, pos)
    BY <2>1 DEF Shifted, Field
  <2>. QED
    BY <2>1, <2>2 DEF set_bits
<1>. QED
  BY <1>1 DEF get_bits

LEMMA Positions ==
  /\ RefcountBits \in Nat
  /\ TypePos = RefcountBits /\ ColorPos = RefcountBits + 4
  /\ BufferedPos = RefcountBits + 6 /\ DirtyPos = RefcountBits + 7
  /\ WordBits = RefcountBits + 8
BY InfoWordAssumption
   DEF TypePos, ColorPos, BufferedPos, DirtyPos, WordBits, TypeBits, ColorBits,
       BufferedBits, DirtyBits

LEMMA SetBitsIsWord ==
  ASSUME NEW w \in Word, NEW pos, NEW len, NEW v
  PROVE  set_bits(w, pos, len, v) \in Word
BY DEF Word, set_bits, Shifted

\* Setting or clearing the dirty flag keeps a word a word and the other
\* fields as they were.
LEMMA SetDirtyKeeps ==
  ASSUME NEW w \in Word, NEW v \in {Raised, Lowered}
  PROVE  qz_set_dirty(w, v) \in Word /\ Fields(qz_set_dirty(w, v)) = Fields(w)
<1>1. v \in SUBSET Field(0, 1)
  BY DEF Raised, Lowered, Field
<1>2. \A p, l \in Nat : p + l <= DirtyPos =>
        get_bits(qz_set_dirty(w, v), p, l) = get_bits(w, p, l)
  BY <1>1, SetBitsElsewhere, Positions DEF qz_set_dirty, DirtyBits
<1>3. /\ qz_refcount(qz_set_dirty(w, v)) = qz_refcount(w)
      /\ qz_type(qz_set_dirty(w, v)) = qz_type(w)
      /\ qz_color(qz_set_dirty(w, v)) = qz_color(w)
      /\ qz_buffered(qz_set_dirty(w, v)) = qz_buffered(w)
  BY <1>2, Positions
     DEF qz_refcount, qz_type, qz_color, qz_buffered, TypeBits, ColorBits, BufferedBits
<1>. QED
  BY <1>3, SetBitsIsWord DEF Fields, qz_set_dirty

InfoType == info \in [Cell -> Word]

LEMMA InfoTypeInit == Init => InfoType
BY ObjectsAssumption DEF Init, InfoType

\* every step keeps the info words words, and their other fields
LEMMA StepKeepsInfo ==
  ASSUME InfoType, [Next]_vars
  PROVE  InfoType' /\ \A c \in Cell : Fields(info'[c]) = Fields(info[c])
<1>. USE DEF InfoType
<1>1. CASE UNCHANGED info
  BY <1>1
<1>2. CASE write_object /\ ~ UNCHANGED info
  <2>1. PICK x \in Cell : info' = [info EXCEPT ![x] = qz_set_dirty(@, Raised)]
    BY <1>2 DEF write_object
  <2>. QED
    BY <2>1, SetDirtyKeeps
<1>3. CASE clear_dirty
  <2>1. info' = [c \in Cell |-> IF c \in Cleared(args[1])
                                THEN qz_set_dirty(info[c], Lowered) ELSE info[c]]
    BY <1>3 DEF clear_dirty
  <2>. QED
    BY <2>1, SetDirtyKeeps
<1>. QED
  BY <1>1, <1>2, <1>3
     DEF Next, Step, vars, BeginWrite, BeginEqual, Begin, write_first, write_rest,
         write_slots, qz_equal, equal_elements, equal_returns

\* For every structure: neither write nor equal? changes a reference count, a
\* type, a color or a buffered flag.
THEOREM WalksKeepInfo == Spec => InfoKept
<1>1. Spec => []InfoType
  BY InfoTypeInit, StepKeepsInfo, PTL DEF Spec
<1>2. InfoType /\ [Next]_vars => [\A c \in Cell : Fields(info'[c]) = Fields(info[c])]_vars
  BY StepKeepsInfo
<1>. QED
  BY <1>1, <1>2, PTL DEF Spec, InfoKept

-------------------------------------------------------------------------------
(* Reachability *)

LEMMA RootReached ==
  ASSUME NEW S, NEW x \in S
  PROVE  x \in ReachedWithin(S, x)
BY DEF ReachedWithin, Closure

LEMMA ChildReached ==
  ASSUME NEW S, NEW x, NEW p \in ReachedWithin(S, x), NEW d \in Children(p), d \in S
  PROVE  d \in ReachedWithin(S, x)
BY DEF ReachedWithin, Closure, Closed

LEMMA ReachedGrows ==
  ASSUME NEW S, NEW S2, S \subseteq S2, NEW x
  PROVE  ReachedWithin(S, x) \subseteq ReachedWithin(S2, x)
<1>. SUFFICES ASSUME NEW c \in ReachedWithin(S, x), NEW T2 \in SUBSET S2,
                     x \in S2 => x \in T2, Closed(T2, S2, Children)
              PROVE  c \in T2
  BY DEF ReachedWithin, Closure
<1>1. Closed(T2 \cap S, S, Children)
  BY DEF Closed
<1>. QED
  BY <1>1 DEF ReachedWithin, Closure

LEMMA BehindTailsClosed ==
  ASSUME NEW c \in BehindTails, NEW d \in Children(c)
  PROVE  d \in BehindTails
<1>1. PICK t \in PassedUnmarked : c \in Reached(t)
  BY DEF BehindTails
<1>2. d \in Cell
  BY DEF Children
<1>3. d \in Reached(t)
  BY <1>1, <1>2, ChildReached DEF Reached
<1>. QED
  BY <1>1, <1>3 DEF BehindTails

LEMMA TailsAreBehindTails ==
  ASSUME NEW c \in PassedUnmarked
  PROVE  c \in BehindTails
BY RootReached DEF BehindTails, PassedUnmarked, Reached

-------------------------------------------------------------------------------
(* The marks *)

LEMMA SetDirtySetsIt ==
  ASSUME NEW w \in Word
  PROVE  qz_dirty(qz_set_dirty(w, Raised)) /\ ~ qz_dirty(qz_set_dirty(w, Lowered))
<1>1. \A v \in {Raised, Lowered} :
        get_bits(qz_set_dirty(w, v), DirtyPos, DirtyBits) = v
  <2>1. Raised \in SUBSET Field(0, 1) /\ Lowered \in SUBSET Field(0, 1)
    BY DEF Raised, Lowered, Field
  <2>. QED
    BY <2>1, SetBitsReadBack, Positions DEF qz_set_dirty, DirtyBits
<1>. QED
  BY <1>1 DEF qz_dirty, Raised, Lowered

\* where a pending call of write can be: at the root, below a cell that
\* clear_dirty will find or that is behind a tail, or at such a cell itself
Findable == Cleared(args[1]) \cup BehindTails
FrameOK(f) ==
  /\ f.do \in {"object", "list", "rest", "slots"}
  /\ f.do = "object" /\ f.a \in Cell =>
       \/ f.a = args[1] \/ f.a \in Findable
       \/ \E p \in Findable : f.a \in Children(p)
  /\ f.do # "object" => f.a \in Findable
  /\ f.do \in {"list", "rest"} => IsPair(f.a)
  /\ f.do = "slots" => f.n \in Nat \ {0}
Calls == {"object", "list", "rest", "slots", "equal", "elements"}
GoodFrames == {f \in [do : Calls, a : Obj, b : Obj, n : Nat] : FrameOK(f)}

Marks ==
  /\ heap \in Heaps
  /\ InfoType
  /\ program \in Seq(Walk)
  /\ job # "write" => DirtyCells \subseteq BehindTails
  /\ job = "write" => DirtyCells \subseteq Findable /\ stack \in Seq(GoodFrames)

LEMMA GoodStays ==
  ASSUME UNCHANGED <<heap, args>>, Findable \subseteq Findable'
  PROVE  GoodFrames \subseteq GoodFrames'
BY DEF GoodFrames, FrameOK, Children, slots, IsPair

\* a write that replaces the call on top by calls that are where they may be
LEMMA WriteGoesOn ==
  ASSUME Marks, job = "write", job' = job, stack # <<>>, UNCHANGED <<heap, args, program>>,
         InfoType', Findable \subseteq Findable', DirtyCells' \subseteq Findable',
         NEW fs \in Seq(GoodFrames'), stack' = fs \o Tail(stack)
  PROVE  Marks'
<1>1. Tail(stack) \in Seq(GoodFrames')
  <2>1. stack \in Seq(GoodFrames')
    <3>1. stack \in Seq(GoodFrames)
      BY DEF Marks
    <3>. QED
      BY <3>1, GoodStays
  <2>. QED
    BY <2>1
<1>2. stack' \in Seq(GoodFrames')
  BY <1>1
<1>. QED
  BY <1>2 DEF Marks

\* the same, when no mark changes
LEMMA WriteGoesOnSilently ==
  ASSUME Marks, job = "write", job' = job, stack # <<>>,
         UNCHANGED <<heap, args, program, info>>,
         NEW fs \in Seq(GoodFrames), stack' = fs \o Tail(stack)
  PROVE  Marks'
<1>1. Findable' = Findable /\ DirtyCells' = DirtyCells /\ InfoType'
  BY DEF Findable, Cleared, DirtyCells, Dirty, BehindTails, PassedUnmarked, Reached,
         ReachedWithin, Closure, Closed, Children, slots, rest, IsPair, Marks, InfoType
<1>2. fs \in Seq(GoodFrames')
  BY <1>1, GoodStays
<1>. QED
  BY <1>1, <1>2, WriteGoesOn DEF Marks

\* what hangs below a cell that is findable
LEMMA BelowFindable ==
  ASSUME NEW p \in Findable, NEW x \in Obj, NEW i \in DOMAIN slots(p), x = slots(p)[i]
  PROVE  WriteObject(x) \in GoodFrames
<1>1. x \in Cell => x \in Children(p)
  BY DEF Children
<1>. QED
  BY <1>1 DEF GoodFrames, FrameOK, WriteObject, Calls

LEMMA HeapType ==
  ASSUME Marks, NEW c \in Cell
  PROVE  /\ slots(c) \in Seq(Obj)
         /\ heap[c].type \in Two => 1 \in DOMAIN slots(c) /\ 2 \in DOMAIN slots(c)
BY ObjectsAssumption DEF Marks, slots, Obj

LEMMA FindableAreCells == Findable \subseteq Cell
BY DEF Findable, Cleared, ReachedWithin, Closure, BehindTails, Reached, DirtyCells

LEMMA MarksInit == Init => Marks
<1>. SUFFICES ASSUME Init PROVE Marks
  OBVIOUS
<1>1. DirtyCells = {}
  BY ObjectsAssumption DEF Init, DirtyCells, Dirty
<1>. QED
  BY <1>1, InfoTypeInit, ObjectsAssumption DEF Init, Marks

LEMMA MarksNext ==
  ASSUME Marks, [Next]_vars
  PROVE  Marks'
<1>0. InfoType'
  BY StepKeepsInfo DEF Marks
<1>1. CASE BeginWrite
  <2>1. /\ heap' = heap /\ info' = info /\ job' = "write" /\ job = "none"
        /\ args'[1] \in Cell /\ program' \in Seq(Walk)
        /\ stack' = <<WriteObject(args'[1])>>
    BY <1>1 DEF BeginWrite, Begin, Marks, Walk
  <2>2. DirtyCells' \subseteq BehindTails'
    BY <2>1 DEF Marks, DirtyCells, Dirty, BehindTails, PassedUnmarked, Reached,
         ReachedWithin, Closure, Closed, Children, slots, rest, IsPair
  <2>3. WriteObject(args'[1]) \in GoodFrames'
    BY <2>1 DEF GoodFrames, FrameOK, WriteObject, Obj, Calls
  <2>. QED
    BY <2>1, <2>2, <2>3, <1>0 DEF Marks, Findable
<1>2. CASE write_object
  <2>. DEFINE x == top.a
  <2>1. /\ job = "write" /\ job' = job /\ stack # <<>>
        /\ UNCHANGED <<heap, args, program>>
    BY <1>2 DEF write_object
  <2>2. top \in GoodFrames /\ top.do = "object"
    BY <1>2, <2>1 DEF Marks, top, write_object
  <2>3. CASE UNCHANGED info /\ Continue(<<>>)
    <3>1. <<>> \in Seq(GoodFrames) /\ stack' = <<>> \o Tail(stack)
      BY <2>3 DEF Continue
    <3>. QED
      BY <2>1, <2>3, <3>1, WriteGoesOnSilently
  <2>4. CASE /\ x \in Cell /\ ~ Dirty(x)
             /\ info' = [info EXCEPT ![x] = qz_set_dirty(@, Raised)]
             /\ WriteCell(x)
    <3>1. DirtyCells' = DirtyCells \cup {x}
      BY <2>4, SetDirtySetsIt DEF DirtyCells, Dirty, Marks, InfoType
    <3>2. BehindTails' = BehindTails
      BY <2>1 DEF BehindTails, PassedUnmarked, Reached, ReachedWithin, Closure, Closed,
           Children, slots, rest, IsPair
    <3>3. Cleared(args[1]) \subseteq Cleared(args[1])'
      <4>1. \A S, y : ReachedWithin(S, y)' = ReachedWithin(S, y)
        BY <2>1 DEF ReachedWithin, Closure, Closed, Children, slots
      <4>. QED
        BY <3>1, <4>1, <2>1, ReachedGrows DEF Cleared
    <3>4. x \in Findable'
      <4>1. CASE x = args[1]
        <5>1. \A S, y : y \in S => y \in ReachedWithin(S, y)'
          BY DEF ReachedWithin, Closure
        <5>2. x \in DirtyCells' /\ args' = args
          BY <3>1, <2>1
        <5>. QED
          BY <4>1, <5>1, <5>2 DEF Findable, Cleared
      <4>2. CASE x \in Findable
        BY <4>2, <3>2, <3>3 DEF Findable
      <4>3. ASSUME NEW p \in Cleared(args[1]), x \in Children(p)
            PROVE  x \in Findable'
        <5>1. p \in Cleared(args[1])' /\ x \in Children(p)' /\ x \in DirtyCells'
          BY <4>3, <3>1, <3>3, <2>1, <2>4 DEF Children, slots
        <5>2. \A S, y, q, d : q \in ReachedWithin(S, y)' /\ d \in Children(q)' /\ d \in S
                => d \in ReachedWithin(S, y)'
          BY DEF ReachedWithin, Closure, Closed
        <5>. QED
          BY <5>1, <5>2 DEF Findable, Cleared
      <4>4. ASSUME NEW p \in BehindTails, x \in Children(p)
            PROVE  x \in Findable'
        BY <4>4, <3>2, BehindTailsClosed DEF Findable
      <4>. QED
        BY <4>1, <4>2, <4>3, <4>4, <2>2, <2>4 DEF GoodFrames, FrameOK, Findable
    <3>5. DirtyCells' \subseteq Findable' /\ Findable \subseteq Findable'
      BY <3>1, <3>2, <3>3, <3>4, <2>1 DEF Marks, Findable
    <3>6. CASE Continue(<<>>)
      <4>1. <<>> \in Seq(GoodFrames') /\ stack' = <<>> \o Tail(stack)
        BY <3>6 DEF Continue
      <4>. QED
        BY <4>1, <3>5, <2>1, <1>0, WriteGoesOn
    <3>7. CASE heap[x].type = "pair" /\ Continue(<<WriteList(x)>>)
      <4>1. WriteList(x) \in GoodFrames'
        BY <3>4, <3>7, <2>1, <2>4 DEF GoodFrames, FrameOK, WriteList, Obj, Calls, IsPair
      <4>2. <<WriteList(x)>> \in Seq(GoodFrames') /\ stack' = <<WriteList(x)>> \o Tail(stack)
        BY <3>7, <4>1 DEF Continue
      <4>. QED
        BY <4>2, <3>5, <2>1, <1>0, WriteGoesOn
    <3>8. CASE Continue(<<WriteSlots(x, 1)>>)
      <4>1. WriteSlots(x, 1) \in GoodFrames'
        BY <3>4, <2>4 DEF GoodFrames, FrameOK, WriteSlots, Obj, Calls
      <4>2. /\ <<WriteSlots(x, 1)>> \in Seq(GoodFrames')
            /\ stack' = <<WriteSlots(x, 1)>> \o Tail(stack)
        BY <3>8, <4>1 DEF Continue
      <4>. QED
        BY <4>2, <3>5, <2>1, <1>0, WriteGoesOn
    <3>9. CASE stack' = <<>>
      <4>1. stack' \in Seq(GoodFrames')
        BY <3>9
      <4>. QED
        BY <4>1, <3>5, <2>1, <1>0 DEF Marks
    <3>. QED
      BY <2>4, <3>6, <3>7, <3>8, <3>9 DEF WriteCell, Stop
  <2>. QED
    BY <1>2, <2>3, <2>4 DEF write_object
<1>3. CASE write_first
  <2>1. /\ job = "write" /\ job' = job /\ stack # <<>>
        /\ UNCHANGED <<heap, args, program, info>>
        /\ stack' = <<WriteObject(first(top.a)), WriteRest(top.a)>> \o Tail(stack)
    BY <1>3 DEF write_first, Continue
  <2>2. top \in GoodFrames /\ top.do = "list"
    BY <1>3, <2>1 DEF Marks, top, write_first
  <2>3. top.a \in Findable /\ top.a \in Cell /\ IsPair(top.a)
    BY <2>2, FindableAreCells DEF GoodFrames, FrameOK
  <2>4. WriteObject(first(top.a)) \in GoodFrames
    <3>1. 1 \in DOMAIN slots(top.a) /\ first(top.a) = slots(top.a)[1] /\ first(top.a) \in Obj
      BY <2>3, HeapType DEF IsPair, Two, slots, first
    <3>. QED
      BY <3>1, <2>3, BelowFindable
  <2>5. WriteRest(top.a) \in GoodFrames
    BY <2>3 DEF GoodFrames, FrameOK, WriteRest, Obj, Calls
  <2>6. <<WriteObject(first(top.a)), WriteRest(top.a)>> \in Seq(GoodFrames)
    BY <2>4, <2>5
  <2>. QED
    BY <2>1, <2>6, WriteGoesOnSilently
<1>4. CASE write_rest
  <2>1. /\ job = "write" /\ job' = job /\ stack # <<>>
        /\ UNCHANGED <<heap, args, program, info>>
        /\ stack' = AfterFirst(rest(top.a)) \o Tail(stack)
    BY <1>4 DEF write_rest, Continue
  <2>2. top \in GoodFrames /\ top.do = "rest"
    BY <1>4, <2>1 DEF Marks, top, write_rest
  <2>3. top.a \in Findable /\ top.a \in Cell /\ IsPair(top.a)
    BY <2>2, FindableAreCells DEF GoodFrames, FrameOK
  <2>4. 2 \in DOMAIN slots(top.a) /\ rest(top.a) = slots(top.a)[2] /\ rest(top.a) \in Obj
    BY <2>3, HeapType DEF IsPair, Two, slots, rest
  <2>5. WriteObject(rest(top.a)) \in GoodFrames
    BY <2>3, <2>4, BelowFindable
  <2>6. IsPair(rest(top.a)) => WriteList(rest(top.a)) \in GoodFrames
    <3>1. ASSUME IsPair(rest(top.a))
          PROVE  rest(top.a) \in Findable
      <4>1. rest(top.a) \in PassedUnmarked
        BY <3>1, <2>3 DEF PassedUnmarked, IsPair
      <4>. QED
        BY <4>1, TailsAreBehindTails DEF Findable
    <3>. QED
      BY <3>1, <2>4 DEF GoodFrames, FrameOK, WriteList, Calls
  <2>7. AfterFirst(rest(top.a)) \in Seq(GoodFrames)
    BY <2>5, <2>6 DEF AfterFirst
  <2>. QED
    BY <2>1, <2>7, WriteGoesOnSilently
<1>5. CASE write_slots
  <2>. DEFINE fs == IF AllWritten(top.a, top.n) THEN <<>>
                    ELSE <<WriteObject(slots(top.a)[top.n]),
                           WriteSlots(top.a, NextSlot(top.n))>>
  <2>1. /\ job = "write" /\ job' = job /\ stack # <<>>
        /\ UNCHANGED <<heap, args, program, info>>
        /\ stack' = fs \o Tail(stack)
    BY <1>5 DEF write_slots, Continue
  <2>2. top \in GoodFrames /\ top.do = "slots"
    BY <1>5, <2>1 DEF Marks, top, write_slots
  <2>3. top.a \in Findable /\ top.a \in Cell /\ top.n \in Nat \ {0}
    BY <2>2, FindableAreCells DEF GoodFrames, FrameOK
  <2>4. ASSUME ~ AllWritten(top.a, top.n)
        PROVE  WriteObject(slots(top.a)[top.n]) \in GoodFrames
    <3>1. top.n \in DOMAIN slots(top.a) /\ slots(top.a)[top.n] \in Obj
      BY <2>4, <2>3, HeapType DEF AllWritten
    <3>. QED
      BY <3>1, <2>3, BelowFindable
  <2>5. WriteSlots(top.a, NextSlot(top.n)) \in GoodFrames
    BY <2>3 DEF GoodFrames, FrameOK, WriteSlots, Obj, Calls, NextSlot
  <2>6. fs \in Seq(GoodFrames)
    BY <2>4, <2>5
  <2>. QED
    BY <2>1, <2>6, WriteGoesOnSilently
<1>6. CASE clear_dirty
  <2>1. /\ heap' = heap /\ program' = program /\ job = "write" /\ job' = "none"
        /\ info' = [c \in Cell |-> IF c \in Cleared(args[1])
                                   THEN qz_set_dirty(info[c], Lowered) ELSE info[c]]
    BY <1>6 DEF clear_dirty
  <2>2. DirtyCells' \subseteq DirtyCells \ Cleared(args[1])
    BY <2>1, SetDirtySetsIt DEF DirtyCells, Dirty, Marks, InfoType
  <2>3. BehindTails' = BehindTails
    BY <2>1 DEF BehindTails, PassedUnmarked, Reached, ReachedWithin, Closure, Closed,
         Children, slots, rest, IsPair
  <2>. QED
    BY <1>0, <2>1, <2>2, <2>3 DEF Marks, Findable
<1>7. CASE BeginEqual \/ qz_equal \/ equal_elements \/ equal_returns
  <2>1. /\ heap' = heap /\ info' = info /\ job # "write" /\ job' # "write"
        /\ program' \in Seq(Walk)
    <3>1. CASE BeginEqual
      BY <3>1 DEF BeginEqual, Begin, Marks
    <3>2. CASE qz_equal
      BY <3>2 DEF qz_equal, Marks
    <3>3. CASE equal_elements
      BY <3>3 DEF equal_elements, Marks
    <3>4. CASE equal_returns
      BY <3>4 DEF equal_returns, Marks
    <3>. QED
      BY <1>7, <3>1, <3>2, <3>3, <3>4
  <2>2. DirtyCells' = DirtyCells /\ BehindTails' = BehindTails
    BY <2>1 DEF DirtyCells, Dirty, BehindTails, PassedUnmarked, Reached,
         ReachedWithin, Closure, Closed, Children, slots, rest, IsPair
  <2>. QED
    BY <1>0, <2>1, <2>2 DEF Marks
<1>8. CASE UNCHANGED vars
  <2>1. DirtyCells' = DirtyCells /\ BehindTails' = BehindTails /\ Findable' = Findable
        /\ GoodFrames' = GoodFrames
    BY <1>8 DEF vars, DirtyCells, Dirty, BehindTails, PassedUnmarked, Reached, Findable,
         Cleared, ReachedWithin, Closure, Closed, Children, slots, rest, IsPair,
         GoodFrames, FrameOK
  <2>. QED
    BY <1>0, <1>8, <2>1 DEF Marks, vars
<1>. QED
  BY <1>1, <1>2, <1>3, <1>4, <1>5, <1>6, <1>7, <1>8 DEF Next, Step

\* For every structure and every sequence of walks: between walks a cell is
\* dirty only behind the second or a later pair of some list.
THEOREM MarksAreFound == Spec => []DirtOnlyBehindTails
<1>1. Marks => DirtOnlyBehindTails
  BY DEF Marks, DirtOnlyBehindTails, Idle
<1>. QED
  BY <1>1, MarksInit, MarksNext, PTL DEF Spec

-------------------------------------------------------------------------------
(* Types *)

Vectors(c, d) ==
  heap[c].type = "vector" /\ heap[d].type = "vector" /\ Len(slots(c)) = Len(slots(d))
WriteFrame == {f \in Frame : f.do \in {"object", "list", "rest", "slots"}}
EqualFrame == {f \in Frame : f.do = "equal" \/ (f.do = "elements" /\ Vectors(f.a, f.b))}

Types ==
  /\ heap \in Heaps
  /\ TypeOK
  /\ job = "write" => stack \in Seq(WriteFrame)
  /\ job = "equal" => stack \in Seq(EqualFrame) /\ args \in Cell \X Cell
  /\ job = "none" => stack = <<>>
  /\ fault # "none" => stack = <<>>

\* what a structure holds
LEMMA Slots ==
  ASSUME heap \in Heaps, NEW c \in Cell
  PROVE  /\ slots(c) \in Seq(Obj)
         /\ heap[c].type \in Two \cup Many \cup Plain \cup {"record"}
         /\ heap[c].type \in Two => Len(slots(c)) = 2 /\ first(c) \in Obj /\ rest(c) \in Obj
         /\ heap[c].type \in Plain => slots(c) = <<>>
<1>1. /\ heap[c].slots \in Seq(Cell \cup {Null, Atom})
      /\ heap[c].type \in Two \cup Many \cup Plain \cup {"record"}
      /\ heap[c].type \in Two => Len(heap[c].slots) = 2
      /\ heap[c].type \in Plain => heap[c].slots = <<>>
  BY ObjectsAssumption
<1>2. ASSUME heap[c].type \in Two
      PROVE  first(c) \in Obj /\ rest(c) \in Obj
  BY <1>1, <1>2 DEF first, rest, Obj
<1>. QED
  BY <1>1, <1>2 DEF slots, Obj

\* the structure does not change, and so neither do the frames
LEMMA FramesStay ==
  ASSUME heap' = heap
  PROVE  Frame' = Frame /\ WriteFrame' = WriteFrame /\ EqualFrame' = EqualFrame
BY DEF Frame, WriteFrame, EqualFrame, IsPair, Vectors, slots

LEMMA TopFrame ==
  ASSUME NEW S, stack \in Seq(S), stack # <<>>
  PROVE  /\ top \in S /\ Tail(stack) \in Seq(S)
         /\ ToSet(stack) = {top} \cup ToSet(Tail(stack))
<1>1. top = stack[1] /\ 1 \in DOMAIN stack /\ top \in S /\ Tail(stack) \in Seq(S)
  BY DEF top
<1>2. \A k \in DOMAIN Tail(stack) : k + 1 \in DOMAIN stack /\ Tail(stack)[k] = stack[k + 1]
  OBVIOUS
<1>3. \A k \in DOMAIN stack : k # 1 => k - 1 \in DOMAIN Tail(stack) /\ stack[k] = Tail(stack)[k - 1]
  OBVIOUS
<1>4. ToSet(stack) \subseteq {top} \cup ToSet(Tail(stack))
  BY <1>1, <1>3, ZenonT(60) DEF ToSet
<1>5. {top} \cup ToSet(Tail(stack)) \subseteq ToSet(stack)
  BY <1>1, <1>2 DEF ToSet
<1>. QED
  BY <1>1, <1>4, <1>5

LEMMA ToSetConcat ==
  ASSUME NEW S, NEW s \in Seq(S), NEW t \in Seq(S)
  PROVE  ToSet(s \o t) = ToSet(s) \cup ToSet(t)
<1>1. DOMAIN (s \o t) = 1 .. Len(s) + Len(t)
  OBVIOUS
<1>2. \A k \in DOMAIN s : k \in DOMAIN (s \o t) /\ (s \o t)[k] = s[k]
  OBVIOUS
<1>3. \A k \in DOMAIN t : k + Len(s) \in DOMAIN (s \o t) /\ (s \o t)[k + Len(s)] = t[k]
  OBVIOUS
<1>4. \A k \in DOMAIN (s \o t) :
        k \in DOMAIN s \/ (k - Len(s) \in DOMAIN t /\ (s \o t)[k] = t[k - Len(s)])
  OBVIOUS
<1>5. ToSet(s \o t) \subseteq ToSet(s) \cup ToSet(t)
  BY <1>2, <1>4 DEF ToSet
<1>6. ToSet(s) \cup ToSet(t) \subseteq ToSet(s \o t)
  BY <1>2, <1>3 DEF ToSet
<1>. QED
  BY <1>5, <1>6

LEMMA NewTypes ==
  /\ \A x \in Obj : WriteObject(x) \in WriteFrame
  /\ \A c \in Cell : IsPair(c) => WriteList(c) \in WriteFrame /\ WriteRest(c) \in WriteFrame
  /\ \A c \in Cell, i \in Nat \ {0} : WriteSlots(c, i) \in WriteFrame
  /\ \A x, y \in Obj : Equal(x, y) \in EqualFrame
  /\ \A c, d \in Cell, i \in Nat \ {0} : Vectors(c, d) => EqualElements(c, d, i) \in EqualFrame
BY DEF WriteFrame, EqualFrame, Frame, WriteObject, WriteList, WriteRest, WriteSlots, Equal,
       EqualElements, IsPair

\* a write that replaces the call on top
LEMMA WriteTypes ==
  ASSUME Types, job = "write", job' = job, stack # <<>>,
         UNCHANGED <<heap, args, answer, fault, program, messy>>,
         info' \in [Cell -> Word], printed' \subseteq Cell, elided' \subseteq Cell,
         NEW fs \in Seq(WriteFrame), stack' = fs \o Tail(stack)
  PROVE  Types'
<1>1. stack' \in Seq(WriteFrame)
  BY TopFrame DEF Types
<1>2. stack' \in Seq(WriteFrame') /\ stack' \in Seq(Frame')
  <2>1. WriteFrame \subseteq Frame
    BY DEF WriteFrame
  <2>. QED
    BY <1>1, <2>1, FramesStay
<1>3. TypeOK'
  BY <1>2 DEF Types, TypeOK
<1>. QED
  BY <1>2, <1>3, TopFrame DEF Types

LEMMA EqualTypes ==
  ASSUME Types, job = "equal", job' = job, stack # <<>>,
         UNCHANGED <<heap, args, info, printed, elided, answer, fault, program, messy>>,
         NEW fs \in Seq(EqualFrame), stack' = fs \o Tail(stack)
  PROVE  Types'
<1>1. stack' \in Seq(EqualFrame)
  BY TopFrame DEF Types
<1>2. stack' \in Seq(EqualFrame') /\ stack' \in Seq(Frame')
  <2>1. EqualFrame \subseteq Frame
    BY DEF EqualFrame
  <2>. QED
    BY <1>1, <2>1, FramesStay
<1>3. TypeOK'
  BY <1>2 DEF Types, TypeOK
<1>. QED
  BY <1>2, <1>3 DEF Types

LEMMA TypesInit == Init => Types
<1>. SUFFICES ASSUME Init PROVE Types
  OBVIOUS
<1>1. program \in Seq(Walk) /\ info \in [Cell -> Word] /\ heap \in Heaps
  BY ObjectsAssumption DEF Init
<1>. QED
  BY <1>1 DEF Init, Types, TypeOK, Obj

\* what a program asks for
LEMMA WalkArgs ==
  ASSUME Types, NEW name, Begin(name)
  PROVE  /\ name \in {"write", "equal"} /\ job' = name /\ job = "none" /\ stack = <<>>
         /\ heap' = heap /\ info' = info /\ fault' = fault /\ fault = "none"
         /\ program' \in Seq(Walk) /\ messy' = DirtyCells /\ messy' \subseteq Cell
         /\ name = "write" => args' \in Cell \X {Null}
         /\ name = "equal" => args' \in Cell \X Cell /\ args'[1] # args'[2]
<1>1. program \in Seq(Walk) /\ program # <<>> /\ Head(program) \in Walk
  BY DEF Types, TypeOK, Begin
<1>. QED
  BY <1>1 DEF Begin, Types, Walk, DirtyCells

LEMMA TypesNext ==
  ASSUME Types, [Next]_vars
  PROVE  Types'
<1>0. info' \in [Cell -> Word]
  BY StepKeepsInfo DEF Types, TypeOK, InfoType
<1>1. CASE BeginWrite
  <2>1. /\ heap' = heap /\ info' = info /\ fault' = fault /\ fault = "none" /\ job' = "write"
        /\ program' \in Seq(Walk) /\ messy' \subseteq Cell /\ args' \in Cell \X {Null}
    BY <1>1, WalkArgs DEF BeginWrite
  <2>2. stack' = <<WriteObject(args'[1])>> /\ printed' = {} /\ elided' = {} /\ answer' = answer
    BY <1>1 DEF BeginWrite
  <2>3. WriteObject(args'[1]) \in WriteFrame
    BY <2>1, NewTypes DEF Obj
  <2>4. stack' \in Seq(WriteFrame') /\ stack' \in Seq(Frame')
    BY <2>1, <2>2, <2>3, FramesStay DEF WriteFrame
  <2>. QED
    BY <1>0, <2>1, <2>2, <2>4 DEF Types, TypeOK, Obj
<1>2. CASE BeginEqual
  <2>1. /\ heap' = heap /\ info' = info /\ fault' = fault /\ fault = "none" /\ job' = "equal"
        /\ program' \in Seq(Walk) /\ messy' \subseteq Cell /\ args' \in Cell \X Cell
    BY <1>2, WalkArgs DEF BeginEqual
  <2>2. /\ stack' = <<Equal(args'[1], args'[2])>> /\ printed' = printed /\ elided' = elided
        /\ answer' = "none"
    BY <1>2 DEF BeginEqual
  <2>3. Equal(args'[1], args'[2]) \in EqualFrame
    BY <2>1, NewTypes DEF Obj
  <2>4. stack' \in Seq(EqualFrame') /\ stack' \in Seq(Frame')
    BY <2>1, <2>2, <2>3, FramesStay DEF EqualFrame
  <2>. QED
    BY <1>0, <2>1, <2>2, <2>4 DEF Types, TypeOK, Obj
<1>3. ASSUME UNCHANGED <<heap, args, program, messy>>, job' = job, stack' = <<>>,
             fault' \in {"none", "null", "recursion", "unknown cell type"},
             answer' \in {"none", "yes", "no"},
             printed' \subseteq Cell, elided' \subseteq Cell
      PROVE  Types'
  <2>1. stack' \in Seq(WriteFrame') /\ stack' \in Seq(EqualFrame') /\ stack' \in Seq(Frame')
    <3>1. stack' = <<>>
      BY <1>3
    <3>2. <<>> \in Seq(WriteFrame) /\ <<>> \in Seq(EqualFrame) /\ <<>> \in Seq(Frame)
      OBVIOUS
    <3>. QED
      BY <1>3, <3>1, <3>2, FramesStay
  <2>. QED
    BY <1>0, <1>3, <2>1 DEF Types, TypeOK
<1>4. CASE write_object
  <2>1. /\ job = "write" /\ job' = job /\ stack # <<>>
        /\ UNCHANGED <<heap, args, answer, program, messy>>
    BY <1>4 DEF write_object
  <2>2. printed' \subseteq Cell /\ elided' \subseteq Cell
    BY <1>4 DEF write_object, Types, TypeOK
  <2>3. CASE Continue(<<>>) /\ UNCHANGED fault
    <3>1. <<>> \in Seq(WriteFrame) /\ stack' = <<>> \o Tail(stack)
      BY <2>3 DEF Continue
    <3>. QED
      BY <1>0, <2>1, <2>2, <2>3, <3>1, WriteTypes
  <2>4. CASE /\ top.a \in Cell /\ WriteCell(top.a)
    <3>1. CASE heap[top.a].type = "pair" /\ Continue(<<WriteList(top.a)>>) /\ UNCHANGED fault
      <4>1. <<WriteList(top.a)>> \in Seq(WriteFrame)
        BY <2>4, <3>1, NewTypes DEF IsPair
      <4>. QED
        BY <1>0, <2>1, <2>2, <3>1, <4>1, WriteTypes DEF Continue
    <3>2. CASE Continue(<<WriteSlots(top.a, 1)>>) /\ UNCHANGED fault
      <4>1. <<WriteSlots(top.a, 1)>> \in Seq(WriteFrame)
        BY <2>4, NewTypes
      <4>. QED
        BY <1>0, <2>1, <2>2, <3>2, <4>1, WriteTypes DEF Continue
    <3>3. CASE Stop("unknown cell type")
      BY <1>3, <2>1, <2>2, <3>3 DEF Stop, Types, TypeOK
    <3>4. CASE Continue(<<>>) /\ UNCHANGED fault
      BY <2>3, <3>4
    <3>. QED
      BY <2>4, <3>1, <3>2, <3>3, <3>4 DEF WriteCell
  <2>. QED
    BY <1>4, <2>3, <2>4 DEF write_object
<1>5. CASE write_first
  <2>1. /\ job = "write" /\ job' = job /\ stack # <<>> /\ top.do = "list"
        /\ UNCHANGED <<heap, info, args, elided, answer, fault, program, messy>>
        /\ printed' = printed \cup {top.a}
        /\ stack' = <<WriteObject(first(top.a)), WriteRest(top.a)>> \o Tail(stack)
    BY <1>5 DEF write_first, Continue
  <2>2. top \in WriteFrame
    BY <2>1, TopFrame DEF Types
  <2>3. top.a \in Cell /\ IsPair(top.a)
    BY <2>1, <2>2 DEF WriteFrame, Frame
  <2>4. first(top.a) \in Obj
    BY <2>3, Slots DEF Types, IsPair, Two
  <2>5. <<WriteObject(first(top.a)), WriteRest(top.a)>> \in Seq(WriteFrame)
    BY <2>3, <2>4, NewTypes
  <2>. QED
    BY <1>0, <2>1, <2>3, <2>5, WriteTypes DEF Types, TypeOK
<1>6. CASE write_rest
  <2>1. /\ job = "write" /\ job' = job /\ stack # <<>> /\ top.do = "rest"
        /\ UNCHANGED <<heap, info, args, printed, elided, answer, fault, program, messy>>
        /\ stack' = AfterFirst(rest(top.a)) \o Tail(stack)
    BY <1>6 DEF write_rest, Continue
  <2>2. top \in WriteFrame
    BY <2>1, TopFrame DEF Types
  <2>3. top.a \in Cell /\ IsPair(top.a)
    BY <2>1, <2>2 DEF WriteFrame, Frame
  <2>4. rest(top.a) \in Obj
    BY <2>3, Slots DEF Types, IsPair, Two
  <2>5. WriteObject(rest(top.a)) \in WriteFrame
        /\ (IsPair(rest(top.a)) => WriteList(rest(top.a)) \in WriteFrame)
    BY <2>4, NewTypes DEF IsPair
  <2>6. AfterFirst(rest(top.a)) \in Seq(WriteFrame)
    BY <2>5 DEF AfterFirst
  <2>. QED
    BY <1>0, <2>1, <2>6, WriteTypes DEF Types, TypeOK
<1>7. CASE write_slots
  <2>. DEFINE fs == IF AllWritten(top.a, top.n) THEN <<>>
                    ELSE <<WriteObject(slots(top.a)[top.n]),
                           WriteSlots(top.a, NextSlot(top.n))>>
  <2>1. /\ job = "write" /\ job' = job /\ stack # <<>> /\ top.do = "slots"
        /\ UNCHANGED <<heap, info, args, printed, elided, answer, fault, program, messy>>
        /\ stack' = fs \o Tail(stack)
    BY <1>7 DEF write_slots, Continue
  <2>2. top \in WriteFrame
    BY <2>1, TopFrame DEF Types
  <2>3. top.a \in Cell /\ top.n \in Nat \ {0}
    BY <2>1, <2>2 DEF WriteFrame, Frame
  <2>4. ~ AllWritten(top.a, top.n) => slots(top.a)[top.n] \in Obj
    BY <2>3, Slots DEF Types, AllWritten
  <2>5. WriteSlots(top.a, NextSlot(top.n)) \in WriteFrame
    BY <2>3, NewTypes DEF NextSlot
  <2>6. fs \in Seq(WriteFrame)
    BY <2>4, <2>5, NewTypes
  <2>. QED
    BY <1>0, <2>1, <2>6, WriteTypes DEF Types, TypeOK
<1>8. CASE clear_dirty
  BY <1>0, <1>8, FramesStay DEF clear_dirty, Types, TypeOK
<1>9. CASE qz_equal
  <2>1. /\ job = "equal" /\ job' = job /\ stack # <<>> /\ top.do = "equal"
        /\ UNCHANGED <<heap, info, args, printed, elided, program, messy>>
    BY <1>9 DEF qz_equal
  <2>2. top \in EqualFrame /\ top.a \in Obj /\ top.b \in Obj
    BY <2>1, TopFrame DEF Types, EqualFrame, Frame
  <2>3. ASSUME NEW fs \in Seq(EqualFrame), GoOn(fs)
        PROVE  Types'
    BY <2>1, <2>3, EqualTypes DEF GoOn, Continue
  <2>4. CASE Yes
    <3>1. <<>> \in Seq(EqualFrame) /\ GoOn(<<>>)
      BY <2>4 DEF Yes, GoOn
    <3>. QED
      BY <2>3, <3>1
  <2>5. CASE No
    BY <1>3, <2>1, <2>5 DEF No, Types, TypeOK
  <2>6. ASSUME NEW how \in {"null", "recursion", "unknown cell type"}, Crash(how)
        PROVE  Types'
    BY <1>3, <2>1, <2>6 DEF Crash, Stop, Types, TypeOK
  <2>7. ASSUME Are(top.a, top.b, {"pair", "fun", "promise"}), Pursue(ComparePairs(top.a, top.b))
        PROVE  Types'
    <3>1. first(top.a) \in Obj /\ first(top.b) \in Obj /\ rest(top.b) \in Obj
      BY <2>2, <2>7, Slots DEF Are, OneType, Types, Two
    <3>2. ComparePairs(top.a, top.b) \in Seq(EqualFrame)
      BY <3>1, NewTypes DEF ComparePairs
    <3>. QED
      BY <2>3, <2>6, <2>7, <3>2 DEF Pursue
  <2>8. ASSUME Are(top.a, top.b, {"vector"}), ~ Unlike(top.a, top.b),
               Pursue(<<EqualElements(top.a, top.b, 1)>>)
        PROVE  Types'
    <3>1. top.a \in Cell /\ top.b \in Cell /\ Vectors(top.a, top.b)
      BY <2>8 DEF Are, OneType, Unlike, Vectors
    <3>2. <<EqualElements(top.a, top.b, 1)>> \in Seq(EqualFrame)
      BY <3>1, NewTypes
    <3>. QED
      BY <2>3, <2>6, <2>8, <3>2 DEF Pursue
  <2>. QED
    BY <1>9, <2>4, <2>5, <2>6, <2>7, <2>8 DEF qz_equal
<1>10. CASE equal_elements
  <2>1. /\ job = "equal" /\ job' = job /\ stack # <<>> /\ top.do = "elements"
        /\ UNCHANGED <<heap, info, args, printed, elided, program, messy>>
    BY <1>10 DEF equal_elements
  <2>2. top \in EqualFrame
    BY <2>1, TopFrame DEF Types
  <2>3. /\ top.a \in Cell /\ top.b \in Cell /\ top.n \in Nat \ {0}
        /\ Vectors(top.a, top.b)
    BY <2>1, <2>2 DEF EqualFrame, Frame
  <2>4. CASE Yes
    <3>1. <<>> \in Seq(EqualFrame)
      OBVIOUS
    <3>. QED
      BY <2>1, <2>4, <3>1, EqualTypes DEF Yes, Continue
  <2>5. CASE /\ ~ top.n > Len(slots(top.a))
             /\ GoOn(<<Equal(slots(top.a)[top.n], slots(top.b)[top.n]),
                       EqualElements(top.a, top.b, NextSlot(top.n))>>)
    <3>1. slots(top.a) \in Seq(Obj) /\ slots(top.b) \in Seq(Obj) /\ top.n <= Len(slots(top.a))
          /\ Len(slots(top.a)) = Len(slots(top.b))
      BY <2>3, <2>5, Slots DEF Types, Vectors
    <3>2. slots(top.a)[top.n] \in Obj /\ slots(top.b)[top.n] \in Obj
      BY <2>3, <3>1
    <3>3. EqualElements(top.a, top.b, NextSlot(top.n)) \in EqualFrame
      BY <2>3, NewTypes DEF NextSlot
    <3>4. <<Equal(slots(top.a)[top.n], slots(top.b)[top.n]),
            EqualElements(top.a, top.b, NextSlot(top.n))>> \in Seq(EqualFrame)
      BY <3>2, <3>3, NewTypes
    <3>. QED
      BY <2>1, <2>5, <3>4, EqualTypes DEF GoOn, Continue
  <2>. QED
    BY <1>10, <2>4, <2>5 DEF equal_elements
<1>11. CASE equal_returns
  BY <1>0, <1>11, FramesStay DEF equal_returns, Types, TypeOK
<1>12. CASE UNCHANGED vars
  BY <1>12, FramesStay DEF vars, Types, TypeOK
<1>. QED
  BY <1>1, <1>2, <1>4, <1>5, <1>6, <1>7, <1>8, <1>9, <1>10, <1>11, <1>12 DEF Next, Step

\* For every structure and every sequence of walks: the walks stay within the
\* structure, the loop over a list is at a pair and that over two vectors
\* at two vectors (quuz-write.c:121, quuz-object.c:387).
THEOREM TypeCorrect == Spec => []TypeOK
<1>1. Types => TypeOK
  BY DEF Types
<1>. QED
  BY <1>1, TypesInit, TypesNext, PTL DEF Spec

-------------------------------------------------------------------------------
(* What write prints *)

\* the call f will get to slot i of the cell p, which is printed already
Pending(f, p, i) ==
  \/ f.do = "object" /\ f.a = slots(p)[i]
  \/ f.do = "list" /\ (f.a = p \/ f.a = slots(p)[i])
  \/ f.do = "rest" /\ f.a = p /\ i = 2
  \/ f.do = "slots" /\ f.a = p /\ f.n <= i

Seen == printed \cup messy

WithinReach ==
  /\ args \in Cell \X {Null}
  /\ printed \subseteq Reached(args[1])
  /\ \A f \in ToSet(stack) : f.a \in Cell => f.a \in Reached(args[1])
  /\ DirtyCells \subseteq Seen /\ elided \subseteq Seen

\* what is not printed yet hangs on a pending call, or on a mark of another write
NothingSkipped ==
  /\ args[1] \in Seen \/ \E f \in ToSet(stack) : f.do = "object" /\ f.a = args[1]
  /\ \A p \in printed : \A i \in DOMAIN slots(p) :
       slots(p)[i] \in Cell =>
         slots(p)[i] \in Seen \/ \E f \in ToSet(stack) : Pending(f, p, i)

Prints ==
  /\ job = "write" => WithinReach /\ (fault = "none" => NothingSkipped)
  /\ PrintsUpToMarks

LEMMA ReachedStays ==
  ASSUME heap' = heap
  PROVE  /\ \A S, x : ReachedWithin(S, x)' = ReachedWithin(S, x)
         /\ \A x : Reached(x)' = Reached(x)
BY DEF Reached, ReachedWithin, Closure, Closed, Children, slots

LEMMA ReachedIsCells ==
  ASSUME NEW S, NEW x
  PROVE  ReachedWithin(S, x) \subseteq S
BY DEF ReachedWithin, Closure

\* a slot of a cell that is reached is reached
LEMMA SlotReached ==
  ASSUME NEW x, NEW p \in Reached(x), NEW i \in DOMAIN slots(p), slots(p)[i] \in Cell
  PROVE  slots(p)[i] \in Reached(x)
<1>1. slots(p)[i] \in Children(p)
  BY DEF Children
<1>. QED
  BY <1>1, ChildReached DEF Reached

\* the calls fs take over what the call on top had to do
LEMMA WritePrints ==
  ASSUME Types, Prints, job = "write", job' = job, stack # <<>>,
         UNCHANGED <<heap, args, fault, messy>>,
         NEW fs \in Seq(WriteFrame), stack' = fs \o Tail(stack),
         printed \subseteq printed', printed' \subseteq Reached(args[1]),
         DirtyCells' \subseteq Seen', elided' \subseteq Seen',
         \A f \in ToSet(fs) : f.a \in Cell => f.a \in Reached(args[1]),
         top.do = "object" /\ top.a = args[1] => args[1] \in Seen',
         \A p \in printed' : \A i \in DOMAIN slots(p) :
           /\ slots(p)[i] \in Cell
           /\ p \notin printed \/ Pending(top, p, i)
           => slots(p)[i] \in Seen' \/ \E f \in ToSet(fs) : Pending(f, p, i)
  PROVE  Prints'
<1>1. /\ stack \in Seq(WriteFrame) /\ fault = "none" /\ Tail(stack) \in Seq(WriteFrame)
      /\ ToSet(stack) = {top} \cup ToSet(Tail(stack))
  BY TopFrame DEF Types
<1>2. ToSet(stack') = ToSet(fs) \cup ToSet(Tail(stack))
  <2>1. fs \in Seq(WriteFrame) /\ Tail(stack) \in Seq(WriteFrame)
    BY <1>1
  <2>2. ToSet(fs \o Tail(stack)) = ToSet(fs) \cup ToSet(Tail(stack))
    BY ONLY <2>1, ToSetConcat, ZenonT(60)
  <2>. QED
    BY <2>2 DEF ToSet
<1>3. WithinReach /\ NothingSkipped
  BY <1>1 DEF Prints
<1>4. /\ Reached(args[1])' = Reached(args[1])
      /\ \A p, i : slots(p)' = slots(p)
      /\ \A f, p, i : Pending(f, p, i)' <=> Pending(f, p, i)
  <2>1. Reached(args[1])' = Reached(args[1])
    BY ReachedStays
  <2>. QED
    BY <2>1 DEF slots, Pending
<1>5. WithinReach'
  <2>1. \A f \in ToSet(stack') : f.a \in Cell => f.a \in Reached(args[1])
    BY <1>1, <1>2, <1>3 DEF WithinReach
  <2>. QED
    BY <1>3, <1>4, <2>1 DEF WithinReach
<1>6. NothingSkipped'
  <2>1. Seen \subseteq Seen'
    BY DEF Seen
  <2>2. args[1] \in Seen' \/ \E f \in ToSet(stack') : f.do = "object" /\ f.a = args[1]
    BY <1>1, <1>2, <1>3, <2>1 DEF NothingSkipped
  <2>3. ASSUME NEW p \in printed', NEW i \in DOMAIN slots(p), slots(p)[i] \in Cell
        PROVE  slots(p)[i] \in Seen' \/ \E f \in ToSet(stack') : Pending(f, p, i)
    <3>1. CASE p \notin printed \/ Pending(top, p, i)
      BY <1>2, <2>3, <3>1
    <3>2. CASE p \in printed /\ ~ Pending(top, p, i)
      BY <1>1, <1>2, <1>3, <2>1, <2>3, <3>2 DEF NothingSkipped
    <3>. QED
      BY <3>1, <3>2
  <2>. QED
    BY <1>4, <2>2, <2>3 DEF NothingSkipped
<1>7. PrintsUpToMarks'
  BY DEF PrintsUpToMarks, Wrote, Idle
<1>. QED
  BY <1>5, <1>6, <1>7 DEF Prints

LEMMA PrintsInit == Init => Prints
BY ObjectsAssumption DEF Init, Prints, PrintsUpToMarks, Wrote

\* what is reached through unmarked cells only has been printed
LEMMA AllPrinted ==
  ASSUME Types, WithinReach, NothingSkipped, stack = <<>>
  PROVE  ReachedWithin(Cell \ messy, args[1]) \subseteq printed
<1>1. ToSet(stack) = {}
  BY DEF ToSet
<1>2. printed \subseteq Cell
  BY DEF Types, TypeOK
<1>. SUFFICES ASSUME NEW c \in ReachedWithin(Cell \ messy, args[1])
              PROVE  c \in printed
  OBVIOUS
<1>3. args[1] \in Cell \ messy => args[1] \in printed
  BY <1>1 DEF NothingSkipped, Seen
<1>4. ASSUME NEW p \in printed \ messy, NEW d \in Children(p) \cap (Cell \ messy)
      PROVE  d \in printed
  BY <1>1, <1>4 DEF NothingSkipped, Children, Seen
<1>5. Closed(printed \ messy, Cell \ messy, Children)
  BY <1>4 DEF Closed
<1>. QED
  BY <1>2, <1>3, <1>5 DEF ReachedWithin, Closure

LEMMA PrintsNext ==
  ASSUME Types, Prints, [Next]_vars
  PROVE  Prints'
<1>1. CASE BeginWrite
  <2>1. /\ heap' = heap /\ info' = info /\ job' = "write" /\ messy' = DirtyCells
        /\ args' \in Cell \X {Null} /\ printed' = {} /\ elided' = {}
        /\ stack' = <<WriteObject(args'[1])>>
    BY <1>1, WalkArgs DEF BeginWrite
  <2>2. \E y : y = args'[1]
    OBVIOUS
  <2>3. PICK y : y = args'[1]
    BY <2>2
  <2>4. y \in Cell /\ y \in Reached(y)
    BY <2>1, <2>3, RootReached DEF Reached
  <2>5. args'[1] \in Reached(args[1])'
    BY <2>1, <2>3, <2>4, ReachedStays
  <2>6. ToSet(stack') = {WriteObject(args'[1])}
    BY <2>1 DEF ToSet
  <2>7. DirtyCells' = DirtyCells
    BY <2>1 DEF DirtyCells, Dirty
  <2>8. WithinReach'
    BY <2>1, <2>5, <2>6, <2>7 DEF WithinReach, Seen, WriteObject
  <2>9. NothingSkipped'
    BY <2>1, <2>6 DEF NothingSkipped, WriteObject
  <2>. QED
    BY <2>1, <2>8, <2>9 DEF Prints, PrintsUpToMarks, Wrote, Idle
<1>2. CASE write_object
  <2>1. /\ job = "write" /\ job' = job /\ stack # <<>> /\ top.do = "object"
        /\ UNCHANGED <<heap, args, messy>>
    BY <1>2 DEF write_object
  <2>2. WithinReach /\ printed \subseteq Reached(args[1]) /\ fault = "none"
    BY <2>1 DEF Prints, WithinReach, Types
  <2>3. top \in ToSet(stack)
    BY <2>1, TopFrame DEF Types
  <2>4. ASSUME NEW i, NEW p, Pending(top, p, i)
        PROVE  top.a = slots(p)[i]
    BY <2>1, <2>4 DEF Pending
  <2>5. CASE /\ top.a \notin Cell /\ Continue(<<>>)
             /\ UNCHANGED <<info, printed, elided, fault>>
    <3>1. <<>> \in Seq(WriteFrame) /\ ToSet(<<>>) = {} /\ stack' = <<>> \o Tail(stack)
      BY <2>5 DEF Continue, ToSet
    <3>2. DirtyCells' = DirtyCells /\ Seen' = Seen
      BY <2>1, <2>5 DEF DirtyCells, Dirty, Seen
    <3>3. args[1] \in Cell
      BY <2>2 DEF WithinReach
    <3>. QED
      BY <2>1, <2>2, <2>4, <2>5, <3>1, <3>2, <3>3, WritePrints DEF WithinReach
  <2>6. CASE /\ top.a \in Cell /\ Dirty(top.a) /\ elided' = elided \cup {top.a}
             /\ Continue(<<>>) /\ UNCHANGED <<info, printed, fault>>
    <3>1. <<>> \in Seq(WriteFrame) /\ ToSet(<<>>) = {} /\ stack' = <<>> \o Tail(stack)
      BY <2>6 DEF Continue, ToSet
    <3>2. DirtyCells' = DirtyCells /\ Seen' = Seen
      BY <2>1, <2>6 DEF DirtyCells, Dirty, Seen
    <3>3. top.a \in Seen
      BY <2>2, <2>6 DEF WithinReach, DirtyCells
    <3>. QED
      BY <2>1, <2>2, <2>4, <2>6, <3>1, <3>2, <3>3, WritePrints DEF WithinReach
  <2>7. CASE /\ top.a \in Cell /\ ~ Dirty(top.a)
             /\ info' = [info EXCEPT ![top.a] = qz_set_dirty(@, Raised)]
             /\ printed' = printed \cup {top.a}
             /\ WriteCell(top.a)
             /\ UNCHANGED elided
    <3>1. \E x : x = top.a
      OBVIOUS
    <3>2. PICK x : x = top.a
      BY <3>1
    <3>3. DirtyCells' \subseteq DirtyCells \cup {x}
      <4>1. \A c \in Cell : c # x => info'[c] = info[c]
        BY <2>7, <3>2 DEF Types, TypeOK
      <4>. QED
        BY <4>1 DEF DirtyCells, Dirty
    <3>4. x \in Reached(args[1]) /\ x \in Cell
      BY <2>2, <2>3, <2>7, <3>2 DEF WithinReach
    <3>5. /\ printed' \subseteq Reached(args[1]) /\ printed \subseteq printed'
          /\ DirtyCells' \subseteq Seen' /\ elided' \subseteq Seen' /\ x \in Seen'
      BY <2>1, <2>2, <2>7, <3>2, <3>3, <3>4 DEF WithinReach, Seen
    <3>6. ASSUME fault' = fault, NEW fs \in Seq(WriteFrame), stack' = fs \o Tail(stack),
                 \A f \in ToSet(fs) : f.a = x,
                 \A i \in DOMAIN slots(x) :
                   slots(x)[i] \in Cell => \E f \in ToSet(fs) : Pending(f, x, i)
          PROVE  Prints'
      <4>1. \A f \in ToSet(fs) : f.a \in Cell => f.a \in Reached(args[1])
        BY <3>4, <3>6
      <4>2. ASSUME NEW p \in printed', NEW i \in DOMAIN slots(p), slots(p)[i] \in Cell,
                   p \notin printed \/ Pending(top, p, i)
            PROVE  slots(p)[i] \in Seen' \/ \E f \in ToSet(fs) : Pending(f, p, i)
        <5>1. CASE p \notin printed
          BY <2>7, <3>2, <3>6, <4>2, <5>1
        <5>2. CASE Pending(top, p, i)
          BY <2>4, <3>2, <3>5, <5>2
        <5>. QED
          BY <4>2, <5>1, <5>2
      <4>3. top.do = "object" /\ top.a = args[1] => args[1] \in Seen'
        BY <3>2, <3>5
      <4>. QED
        BY <2>1, <3>5, <3>6, <4>1, <4>2, <4>3, WritePrints
    <3>7. CASE heap[x].type = "pair" /\ Continue(<<WriteList(x)>>) /\ UNCHANGED fault
      <4>1. <<WriteList(x)>> \in Seq(WriteFrame) /\ ToSet(<<WriteList(x)>>) = {WriteList(x)}
        BY <3>4, <3>7, NewTypes DEF IsPair, ToSet
      <4>2. \A i \in DOMAIN slots(x) : Pending(WriteList(x), x, i)
        BY DEF Pending, WriteList
      <4>3. WriteList(x).a = x
        BY DEF WriteList
      <4>. QED
        BY <3>6, <3>7, <4>1, <4>2, <4>3 DEF Continue
    <3>8. CASE Continue(<<WriteSlots(x, 1)>>) /\ UNCHANGED fault
      <4>1. /\ <<WriteSlots(x, 1)>> \in Seq(WriteFrame)
            /\ ToSet(<<WriteSlots(x, 1)>>) = {WriteSlots(x, 1)}
        BY <3>4, NewTypes DEF ToSet
      <4>2. \A i \in DOMAIN slots(x) : Pending(WriteSlots(x, 1), x, i)
        <5>1. slots(x) \in Seq(Obj)
          BY <3>4, Slots DEF Types
        <5>. QED
          BY <5>1 DEF Pending, WriteSlots
      <4>3. WriteSlots(x, 1).a = x
        BY DEF WriteSlots
      <4>. QED
        BY <3>6, <3>8, <4>1, <4>2, <4>3 DEF Continue
    <3>9. CASE heap[x].type \in Plain /\ Continue(<<>>) /\ UNCHANGED fault
      <4>1. slots(x) = <<>> /\ <<>> \in Seq(WriteFrame) /\ ToSet(<<>>) = {}
        BY <3>4, <3>9, Slots DEF Types, ToSet
      <4>2. stack' = <<>> \o Tail(stack) /\ fault' = fault /\ DOMAIN slots(x) = {}
        BY <3>9, <4>1 DEF Continue
      <4>. QED
        BY <3>6, <4>1, <4>2
    <3>10. CASE Stop("unknown cell type")
      <4>0. ToSet(<<>>) = {}
        BY DEF ToSet
      <4>1. fault' # "none" /\ ToSet(stack') = {} /\ args' = args
        BY <2>1, <3>10, <4>0 DEF Stop
      <4>2. Reached(args[1])' = Reached(args[1])
        BY <2>1, ReachedStays
      <4>3. WithinReach'
        BY <2>1, <2>2, <3>5, <4>1, <4>2 DEF WithinReach
      <4>. QED
        BY <2>1, <4>1, <4>3 DEF Prints, PrintsUpToMarks, Wrote, Idle
    <3>. QED
      BY <2>7, <3>2, <3>7, <3>8, <3>9, <3>10 DEF WriteCell
  <2>. QED
    BY <1>2, <2>5, <2>6, <2>7 DEF write_object
<1>3. CASE write_first
  <2>1. /\ job = "write" /\ job' = job /\ stack # <<>> /\ top.do = "list"
        /\ UNCHANGED <<heap, info, args, elided, fault, messy>>
        /\ printed' = printed \cup {top.a}
        /\ stack' = <<WriteObject(first(top.a)), WriteRest(top.a)>> \o Tail(stack)
    BY <1>3 DEF write_first, Continue
  <2>2. top \in WriteFrame /\ top \in ToSet(stack) /\ WithinReach
    BY <2>1, TopFrame DEF Types, Prints
  <2>3. PICK x : x = top.a /\ x \in Cell /\ IsPair(x) /\ x \in Reached(args[1])
    BY <2>1, <2>2 DEF WriteFrame, Frame, WithinReach
  <2>4. /\ slots(x) \in Seq(Obj) /\ Len(slots(x)) = 2 /\ first(x) \in Obj
        /\ first(x) = slots(x)[1] /\ DOMAIN slots(x) = {1, 2}
    BY <2>3, Slots DEF Types, IsPair, Two, first, slots
  <2>5. PICK fs : fs = <<WriteObject(first(x)), WriteRest(x)>>
    OBVIOUS
  <2>6. /\ fs \in Seq(WriteFrame) /\ ToSet(fs) = {WriteObject(first(x)), WriteRest(x)}
    <3>1. DOMAIN fs = {1, 2} /\ fs[1] = WriteObject(first(x)) /\ fs[2] = WriteRest(x)
      BY <2>5
    <3>. QED
      BY <2>3, <2>4, <2>5, <3>1, NewTypes DEF ToSet
  <2>7. /\ WriteObject(first(x)).a = first(x) /\ WriteObject(first(x)).do = "object"
        /\ WriteRest(x).a = x /\ WriteRest(x).do = "rest"
    BY DEF WriteObject, WriteRest
  <2>8. first(x) \in Cell => first(x) \in Reached(args[1])
    BY <2>3, <2>4, SlotReached
  <2>9. DirtyCells' \subseteq Seen' /\ elided' \subseteq Seen' /\ x \in Seen'
        /\ printed' \subseteq Reached(args[1]) /\ printed \subseteq printed'
    BY <2>1, <2>2, <2>3 DEF WithinReach, Seen, DirtyCells, Dirty
  <2>10. ASSUME NEW p \in printed', NEW i \in DOMAIN slots(p), slots(p)[i] \in Cell,
                p \notin printed \/ Pending(top, p, i)
         PROVE  slots(p)[i] \in Seen' \/ \E f \in ToSet(fs) : Pending(f, p, i)
    <3>1. p = x \/ slots(p)[i] = x
      BY <2>1, <2>3, <2>10 DEF Pending
    <3>2. CASE p = x
      BY <2>4, <2>6, <2>7, <2>10, <3>2 DEF Pending
    <3>. QED
      BY <2>9, <3>1, <3>2
  <2>11. \A f \in ToSet(fs) : f.a \in Cell => f.a \in Reached(args[1])
    BY <2>3, <2>6, <2>7, <2>8
  <2>. QED
    BY <2>1, <2>3, <2>5, <2>6, <2>9, <2>10, <2>11, WritePrints
<1>4. CASE write_rest
  <2>1. /\ job = "write" /\ job' = job /\ stack # <<>> /\ top.do = "rest"
        /\ UNCHANGED <<heap, info, args, printed, elided, fault, messy>>
        /\ stack' = AfterFirst(rest(top.a)) \o Tail(stack)
    BY <1>4 DEF write_rest, Continue
  <2>2. top \in WriteFrame /\ top \in ToSet(stack) /\ WithinReach
    BY <2>1, TopFrame DEF Types, Prints
  <2>3. PICK x : x = top.a /\ x \in Cell /\ IsPair(x) /\ x \in Reached(args[1])
    BY <2>1, <2>2 DEF WriteFrame, Frame, WithinReach
  <2>4. /\ slots(x) \in Seq(Obj) /\ rest(x) \in Obj /\ rest(x) = slots(x)[2] /\ 2 \in DOMAIN slots(x)
    BY <2>3, Slots DEF Types, IsPair, Two, rest, slots
  <2>5. PICK fs : fs = AfterFirst(rest(x))
    OBVIOUS
  <2>6. /\ fs \in Seq(WriteFrame)
        /\ \A f \in ToSet(fs) : f.a = rest(x)
        /\ rest(x) \in Cell => \E f \in ToSet(fs) : f.a = rest(x) /\ f.do \in {"object", "list"}
    <3>1. CASE rest(x) = Null
      <4>1. fs = <<>> /\ <<>> \in Seq(WriteFrame) /\ ToSet(<<>>) = {}
        <5>1. fs = <<>>
          BY <2>5, <3>1, ObjectsAssumption DEF AfterFirst, IsPair
        <5>. QED
          BY <5>1 DEF ToSet
      <4>2. rest(x) \notin Cell
        BY <3>1, ObjectsAssumption
      <4>. QED
        BY <4>1, <4>2
    <3>2. CASE rest(x) # Null /\ IsPair(rest(x))
      <4>1. fs = <<WriteList(rest(x))>> /\ WriteList(rest(x)) \in WriteFrame
        BY <2>5, <3>2, NewTypes DEF AfterFirst, IsPair
      <4>2. ToSet(fs) = {WriteList(rest(x))} /\ fs \in Seq(WriteFrame)
        BY <4>1 DEF ToSet
      <4>. QED
        BY <4>2 DEF WriteList
    <3>3. CASE rest(x) # Null /\ ~ IsPair(rest(x))
      <4>1. fs = <<WriteObject(rest(x))>> /\ WriteObject(rest(x)) \in WriteFrame
        BY <2>4, <2>5, <3>3, NewTypes DEF AfterFirst
      <4>2. ToSet(fs) = {WriteObject(rest(x))} /\ fs \in Seq(WriteFrame)
        BY <4>1 DEF ToSet
      <4>. QED
        BY <4>2 DEF WriteObject
    <3>. QED
      BY <3>1, <3>2, <3>3
  <2>7. rest(x) \in Cell => rest(x) \in Reached(args[1])
    BY <2>3, <2>4, SlotReached
  <2>8. DirtyCells' = DirtyCells /\ Seen' = Seen
    BY <2>1 DEF DirtyCells, Dirty, Seen
  <2>9. ASSUME NEW p \in printed', NEW i \in DOMAIN slots(p), slots(p)[i] \in Cell,
               p \notin printed \/ Pending(top, p, i)
        PROVE  slots(p)[i] \in Seen' \/ \E f \in ToSet(fs) : Pending(f, p, i)
    <3>1. p = x /\ i = 2
      BY <2>1, <2>3, <2>9 DEF Pending
    <3>. QED
      BY <2>4, <2>6, <2>9, <3>1 DEF Pending
  <2>10. stack' = fs \o Tail(stack) /\ top.do # "object"
    BY <2>1, <2>3, <2>5
  <2>11. /\ printed \subseteq printed' /\ printed' \subseteq Reached(args[1])
         /\ DirtyCells' \subseteq Seen' /\ elided' \subseteq Seen'
    BY <2>1, <2>2, <2>8 DEF WithinReach
  <2>12. \A f \in ToSet(fs) : f.a \in Cell => f.a \in Reached(args[1])
    BY <2>6, <2>7
  <2>. QED
    BY <2>1, <2>6, <2>9, <2>10, <2>11, <2>12, WritePrints
<1>5. CASE write_slots
  <2>1. /\ job = "write" /\ job' = job /\ stack # <<>> /\ top.do = "slots"
        /\ UNCHANGED <<heap, info, args, printed, elided, fault, messy>>
        /\ stack' = (IF AllWritten(top.a, top.n) THEN <<>>
                     ELSE <<WriteObject(slots(top.a)[top.n]),
                            WriteSlots(top.a, NextSlot(top.n))>>) \o Tail(stack)
    BY <1>5 DEF write_slots, Continue
  <2>2. top \in WriteFrame /\ top \in ToSet(stack) /\ WithinReach
    BY <2>1, TopFrame DEF Types, Prints
  <2>3. PICK x, n : x = top.a /\ n = top.n /\ x \in Cell /\ n \in Nat \ {0} /\ x \in Reached(args[1])
    BY <2>1, <2>2 DEF WriteFrame, Frame, WithinReach
  <2>4. slots(x) \in Seq(Obj)
    BY <2>3, Slots DEF Types
  <2>5. DirtyCells' = DirtyCells /\ Seen' = Seen
    BY <2>1 DEF DirtyCells, Dirty, Seen
  <2>6. ASSUME NEW p \in printed', NEW i \in DOMAIN slots(p),
               p \notin printed \/ Pending(top, p, i)
        PROVE  p = x /\ n <= i
    BY <2>1, <2>3, <2>6 DEF Pending
  <2>7. CASE AllWritten(x, n)
    <3>1. <<>> \in Seq(WriteFrame) /\ ToSet(<<>>) = {} /\ stack' = <<>> \o Tail(stack)
      BY <2>1, <2>3, <2>7 DEF ToSet
    <3>2. \A p \in printed' : \A i \in DOMAIN slots(p) :
            ~ (p \notin printed \/ Pending(top, p, i))
      BY <2>3, <2>4, <2>6, <2>7 DEF AllWritten
    <3>. QED
      BY <2>1, <2>2, <2>5, <3>1, <3>2, WritePrints DEF WithinReach
  <2>8. CASE ~ AllWritten(x, n)
    <3>1. n \in DOMAIN slots(x) /\ slots(x)[n] \in Obj
      BY <2>3, <2>4, <2>8 DEF AllWritten
    <3>2. PICK fs : fs = <<WriteObject(slots(x)[n]), WriteSlots(x, NextSlot(n))>>
      OBVIOUS
    <3>3. /\ fs \in Seq(WriteFrame)
          /\ ToSet(fs) = {WriteObject(slots(x)[n]), WriteSlots(x, NextSlot(n))}
      <4>1. DOMAIN fs = {1, 2} /\ fs[1] = WriteObject(slots(x)[n]) /\ fs[2] = WriteSlots(x, NextSlot(n))
        BY <3>2
      <4>2. WriteObject(slots(x)[n]) \in WriteFrame /\ WriteSlots(x, NextSlot(n)) \in WriteFrame
        BY <2>3, <3>1, NewTypes DEF NextSlot
      <4>. QED
        BY <3>2, <4>1, <4>2 DEF ToSet
    <3>4. slots(x)[n] \in Cell => slots(x)[n] \in Reached(args[1])
      BY <2>3, <3>1, SlotReached
    <3>5. \A f \in ToSet(fs) : f.a \in Cell => f.a \in Reached(args[1])
      BY <2>3, <3>3, <3>4 DEF WriteObject, WriteSlots
    <3>6. ASSUME NEW p \in printed', NEW i \in DOMAIN slots(p),
                 p \notin printed \/ Pending(top, p, i)
          PROVE  \E f \in ToSet(fs) : Pending(f, p, i)
      <4>1. p = x /\ n <= i /\ i \in Nat
        BY <2>4, <2>6, <3>6
      <4>2. CASE i = n
        BY <3>3, <4>1, <4>2 DEF Pending, WriteObject
      <4>3. CASE i # n
        BY <2>3, <3>3, <4>1, <4>3 DEF Pending, WriteSlots, NextSlot
      <4>. QED
        BY <4>2, <4>3
    <3>7. stack' = fs \o Tail(stack)
      BY <2>1, <2>3, <2>8, <3>2
    <3>. QED
      BY <2>1, <2>2, <2>5, <3>3, <3>5, <3>6, <3>7, WritePrints DEF WithinReach
  <2>. QED
    BY <2>7, <2>8
<1>6. CASE clear_dirty
  <2>1. /\ job = "write" /\ job' = "none" /\ stack = <<>> /\ fault = "none"
        /\ UNCHANGED <<heap, args, printed, elided, messy>>
    BY <1>6 DEF clear_dirty
  <2>2. /\ ReachedWithin(Cell \ messy, args[1]) \subseteq printed
        /\ printed \subseteq Reached(args[1]) /\ elided \subseteq printed \cup messy
    BY <2>1, AllPrinted DEF Prints, WithinReach, Seen
  <2>3. /\ ReachedWithin(Cell \ messy, args[1])' = ReachedWithin(Cell \ messy, args[1])
        /\ Reached(args[1])' = Reached(args[1])
    BY <2>1, ReachedStays
  <2>. QED
    BY <2>1, <2>2, <2>3 DEF Prints, PrintsUpToMarks
<1>7. CASE BeginEqual \/ qz_equal \/ equal_elements \/ equal_returns
  <2>1. job' = "equal" \/ (job = "equal" /\ job' = "none" /\ args' = args)
    BY <1>7, WalkArgs DEF BeginEqual, qz_equal, equal_elements, equal_returns
  <2>2. job = "equal" => args[2] # Null
    BY ObjectsAssumption DEF Types
  <2>. QED
    BY <2>1, <2>2 DEF Prints, PrintsUpToMarks, Wrote, Idle
<1>8. CASE UNCHANGED vars
  <2>1. /\ \A S, x : ReachedWithin(S, x)' = ReachedWithin(S, x)
        /\ Reached(args[1])' = Reached(args[1])
        /\ ReachedWithin(Cell \ messy, args[1])' = ReachedWithin(Cell \ messy, args[1])
        /\ DirtyCells' = DirtyCells
    BY <1>8, ReachedStays DEF vars, DirtyCells, Dirty
  <2>2. (\A f, p, i : Pending(f, p, i)' <=> Pending(f, p, i)) /\ \A p : slots(p)' = slots(p)
    BY <1>8 DEF vars, Pending, slots
  <2>3. WithinReach' <=> WithinReach
    BY <1>8, <2>1 DEF vars, WithinReach, Seen
  <2>4. NothingSkipped' <=> NothingSkipped
    BY <1>8, <2>2 DEF vars, NothingSkipped, Seen
  <2>5. PrintsUpToMarks' <=> PrintsUpToMarks
    BY <1>8, <2>1 DEF vars, PrintsUpToMarks, Wrote, Idle
  <2>. QED
    BY <1>8, <2>3, <2>4, <2>5 DEF vars, Prints
<1>. QED
  BY <1>1, <1>2, <1>3, <1>4, <1>5, <1>6, <1>7, <1>8 DEF Next, Step

\* For every structure, shared and cyclic ones included: write prints every
\* cell it can reach without passing a mark that another write has left, each
\* either out or as "..." (quuz-write.c:100, :121).
THEOREM PrintsAll == Spec => []PrintsUpToMarks
<1>1. Types /\ Prints /\ [Next]_vars => (Types /\ Prints)'
  BY TypesNext, PrintsNext
<1>2. Types /\ Prints => PrintsUpToMarks
  BY DEF Prints
<1>. QED
  BY <1>1, <1>2, TypesInit, PrintsInit, PTL DEF Spec

-------------------------------------------------------------------------------
(* What the answers of equal? mean *)

Related(R, x, y) == x = y \/ <<x, y>> \in R

\* what the pending call f has still to compare is related
FrameIn(f, R) ==
  /\ f.do = "equal" => Related(R, f.a, f.b)
  /\ f.do = "elements" =>
       \A i \in DOMAIN slots(f.a) : f.n <= i => Related(R, slots(f.a)[i], slots(f.b)[i])

\* no relation that respects every slot contains two objects to which equal?
\* says no
Denials ==
  args \in Cell \X Cell =>
    \A R \in SUBSET Different :
      Respects(R, AllSlots) /\ Related(R, args[1], args[2]) =>
        /\ job = "equal" => \A f \in ToSet(stack) : FrameIn(f, R)
        /\ answer # "no" /\ fault # "null"

Alike(x, y) == Similar(x, y, ComparedSlots)
FrameAlike(f) ==
  /\ f.do = "equal" => Alike(f.a, f.b)
  /\ f.do = "elements" =>
       \A i \in DOMAIN slots(f.a) : f.n <= i => Alike(slots(f.a)[i], slots(f.b)[i])

\* if what is still to be compared is alike, so are the arguments
Confirmations ==
  args \in Cell \X Cell =>
    /\ /\ job = "equal" /\ answer # "no" /\ fault = "none"
       /\ \A f \in ToSet(stack) : FrameAlike(f)
       => Alike(args[1], args[2])
    /\ job = "none" /\ answer = "yes" => Alike(args[1], args[2])

Answers ==
  /\ job = "write" => args \notin Cell \X Cell
  /\ Denials /\ Confirmations

LEMMA AnswersStay ==
  ASSUME heap' = heap
  PROVE  /\ \A R : Respects(R, AllSlots)' <=> Respects(R, AllSlots)
         /\ \A R, f : FrameIn(f, R)' <=> FrameIn(f, R)
         /\ \A x, y : Alike(x, y)' <=> Alike(x, y)
         /\ \A f : FrameAlike(f)' <=> FrameAlike(f)
<1>1. \A x, y : Alike(x, y)' <=> Alike(x, y)
  BY DEF Alike, Similar, Respects, Agree, SameData, ComparedSlots, slots
<1>2. \A f : FrameAlike(f)' <=> FrameAlike(f)
  BY <1>1 DEF FrameAlike, slots
<1>. QED
  BY <1>1, <1>2 DEF Respects, Agree, SameData, AllSlots, slots, FrameIn, Related

\* two cells are alike if they agree and their slots are alike
LEMMA AlikeUp ==
  ASSUME NEW x \in Cell, NEW y \in Cell, x # y, Agree(x, y),
         \A i \in ComparedSlots(x) : Alike(slots(x)[i], slots(y)[i])
  PROVE  Alike(x, y)
<1>1. PICK S : S = {p \in Different : Alike(p[1], p[2])} \cup {<<x, y>>}
  OBVIOUS
<1>2. S \in SUBSET Different /\ <<x, y>> \in S
  BY <1>1 DEF Different
<1>3. ASSUME NEW u, NEW v, Alike(u, v), u # v
      PROVE  <<u, v>> \in S
  BY <1>1, <1>3 DEF Alike, Similar
<1>4. ASSUME NEW p \in S
      PROVE  /\ Agree(p[1], p[2])
             /\ \A i \in ComparedSlots(p[1]) :
                  \/ slots(p[1])[i] = slots(p[2])[i]
                  \/ <<slots(p[1])[i], slots(p[2])[i]>> \in S
  <2>1. CASE p = <<x, y>>
    BY <1>3, <2>1
  <2>2. CASE p \in Different /\ Alike(p[1], p[2])
    <3>1. p = <<p[1], p[2]>> /\ p[1] # p[2]
      BY <2>2 DEF Different
    <3>2. PICK R \in SUBSET Different : Respects(R, ComparedSlots) /\ p \in R
      BY <2>2, <3>1 DEF Alike, Similar
    <3>3. \A q \in R : Alike(q[1], q[2])
      <4>1. \A q \in R : q = <<q[1], q[2]>>
        BY DEF Different
      <4>. QED
        BY <3>2, <4>1 DEF Alike, Similar
    <3>4. ASSUME NEW i \in ComparedSlots(p[1]), slots(p[1])[i] # slots(p[2])[i]
          PROVE  <<slots(p[1])[i], slots(p[2])[i]>> \in S
      <4>1. <<slots(p[1])[i], slots(p[2])[i]>> \in R
        BY <3>2, <3>4 DEF Respects
      <4>. QED
        BY <1>1, <3>3, <4>1
    <3>. QED
      BY <3>2, <3>4 DEF Respects
  <2>. QED
    BY <1>1, <2>1, <2>2
<1>5. Respects(S, ComparedSlots)
  BY <1>4 DEF Respects
<1>. QED
  BY <1>2, <1>5 DEF Alike, Similar

\* the calls fs take over what the call on top had to compare
LEMMA EqualGoesOn ==
  ASSUME Types, Answers, job = "equal", job' = job, stack # <<>>,
         UNCHANGED <<heap, args, answer, fault>>,
         NEW fs \in Seq(EqualFrame), stack' = fs \o Tail(stack),
         \A R \in SUBSET Different :
           Respects(R, AllSlots) /\ FrameIn(top, R) => \A f \in ToSet(fs) : FrameIn(f, R),
         (\A f \in ToSet(fs) : FrameAlike(f)) => FrameAlike(top)
  PROVE  Answers'
<1>1. /\ stack \in Seq(EqualFrame) /\ Tail(stack) \in Seq(EqualFrame)
      /\ ToSet(stack) = {top} \cup ToSet(Tail(stack))
  BY TopFrame DEF Types
<1>2. ToSet(stack') = ToSet(fs) \cup ToSet(Tail(stack))
  <2>1. fs \in Seq(EqualFrame) /\ Tail(stack) \in Seq(EqualFrame)
    BY <1>1
  <2>2. ToSet(fs \o Tail(stack)) = ToSet(fs) \cup ToSet(Tail(stack))
    BY ONLY <2>1, ToSetConcat, ZenonT(60)
  <2>. QED
    BY <2>2 DEF ToSet
<1>3. Denials'
  <2>. SUFFICES ASSUME args \in Cell \X Cell, NEW R \in SUBSET Different,
                       Respects(R, AllSlots), Related(R, args[1], args[2])
                PROVE  /\ \A f \in ToSet(stack') : FrameIn(f, R)
                       /\ answer # "no" /\ fault # "null"
    BY AnswersStay DEF Denials, Related, Different
  <2>. QED
    BY <1>1, <1>2 DEF Answers, Denials
<1>4. Confirmations'
  <2>1. (\A f \in ToSet(stack') : FrameAlike(f)) => \A f \in ToSet(stack) : FrameAlike(f)
    BY <1>1, <1>2
  <2>. QED
    BY <2>1, AnswersStay DEF Answers, Confirmations
<1>. QED
  BY <1>3, <1>4 DEF Answers

LEMMA AnswersInit == Init => Answers
BY ObjectsAssumption DEF Init, Answers, Denials, Confirmations

\* equal? stops: with an answer, or with a fault that says nothing of null
LEMMA EqualStops ==
  ASSUME Types, Answers, job = "equal", job' = job, UNCHANGED <<heap, args>>,
         stack' = <<>>, answer' = "no" \/ fault' # "none",
         \A R \in SUBSET Different :
           Respects(R, AllSlots) /\ Related(R, args[1], args[2]) =>
             answer' # "no" /\ fault' # "null"
  PROVE  Answers'
<1>1. Denials'
  <2>1. ToSet(stack') = {}
    BY DEF ToSet
  <2>. SUFFICES ASSUME args \in Cell \X Cell, NEW R \in SUBSET Different,
                       Respects(R, AllSlots), Related(R, args[1], args[2])
                PROVE  /\ \A f \in ToSet(stack') : FrameIn(f, R)
                       /\ answer' # "no" /\ fault' # "null"
    BY AnswersStay DEF Denials, Related, Different
  <2>. QED
    BY <2>1
<1>2. Confirmations'
  BY DEF Confirmations
<1>. QED
  BY <1>1, <1>2 DEF Answers

\* a relation that respects every slot of two cells it contains
LEMMA RespectsTop ==
  ASSUME Types, NEW R \in SUBSET Different, Respects(R, AllSlots),
         NEW x, NEW y, Related(R, x, y), x # y
  PROVE  /\ x \in Cell /\ y \in Cell /\ Agree(x, y)
         /\ \A i \in DOMAIN slots(x) : Related(R, slots(x)[i], slots(y)[i])
<1>1. <<x, y>> \in R /\ <<x, y>> \in Different
  BY DEF Related
<1>2. x \in Cell /\ y \in Cell
  BY <1>1 DEF Different
<1>. QED
  BY <1>1, <1>2 DEF Respects, AllSlots, Related

LEMMA ComparedPair ==
  ASSUME Types, NEW x \in Cell, NEW y \in Cell, x # y,
         Are(x, y, {"pair", "fun", "promise"})
  PROVE  /\ Agree(x, y) /\ ComparedSlots(x) = {1} /\ DOMAIN slots(x) = {1, 2}
         /\ first(x) = slots(x)[1] /\ first(y) = slots(y)[1]
<1>1. heap[x].type = heap[y].type /\ heap[x].type \in {"pair", "fun", "promise"}
  BY DEF Are, OneType
<1>2. heap[x].type \in Two /\ heap[y].type \in Two /\ heap[x].type \notin Plain
  BY <1>1 DEF Two, Plain
<1>3. /\ slots(x) \in Seq(Obj) /\ Len(slots(x)) = 2
      /\ slots(y) \in Seq(Obj) /\ Len(slots(y)) = 2
  BY <1>2, Slots DEF Types
<1>. QED
  BY <1>1, <1>2, <1>3 DEF Agree, ComparedSlots, first, slots

LEMMA QzEqualAnswers ==
  ASSUME Types, Answers, qz_equal
  PROVE  Answers'
<1>1. /\ job = "equal" /\ job' = job /\ stack # <<>> /\ top.do = "equal"
      /\ heap' = heap /\ args' = args
  BY DEF qz_equal
<1>2. /\ top \in EqualFrame /\ top \in ToSet(stack) /\ top.a \in Obj /\ top.b \in Obj
      /\ args \in Cell \X Cell
  BY <1>1, TopFrame DEF Types, EqualFrame, Frame
<1>3. \A R : FrameIn(top, R) <=> Related(R, top.a, top.b)
  BY <1>1 DEF FrameIn
<1>4. FrameAlike(top) <=> Alike(top.a, top.b)
  BY <1>1 DEF FrameAlike
<1>5. ASSUME NEW fs \in Seq(EqualFrame), GoOn(fs),
             \A R \in SUBSET Different :
               Respects(R, AllSlots) /\ Related(R, top.a, top.b) =>
                 \A f \in ToSet(fs) : FrameIn(f, R),
             (\A f \in ToSet(fs) : FrameAlike(f)) => Alike(top.a, top.b)
      PROVE  Answers'
  BY <1>1, <1>3, <1>4, <1>5, EqualGoesOn DEF GoOn, Continue
<1>6. ASSUME Yes, Alike(top.a, top.b)
      PROVE  Answers'
  <2>1. <<>> \in Seq(EqualFrame) /\ GoOn(<<>>)
    BY <1>6 DEF Yes, GoOn
  <2>2. ToSet(<<>>) = {}
    BY DEF ToSet
  <2>. QED
    BY <1>5, <1>6, <2>1, <2>2
<1>7. ASSUME NEW R \in SUBSET Different, Respects(R, AllSlots), Related(R, args[1], args[2])
      PROVE  Related(R, top.a, top.b) /\ answer # "no" /\ fault # "null"
  BY <1>1, <1>2, <1>3, <1>7 DEF Answers, Denials
<1>8. CASE Same(top.a, top.b) /\ Yes
  BY <1>6, <1>8 DEF Same, Alike, Similar
<1>9. CASE ~ Same(top.a, top.b) /\ Unlike(top.a, top.b) /\ No
  <2>1. ASSUME NEW R \in SUBSET Different, Respects(R, AllSlots), Related(R, top.a, top.b)
        PROVE  FALSE
    BY <1>9, <2>1, RespectsTop DEF Same, Unlike, Agree, IsRef, Are, OneType
  <2>. QED
    BY <1>1, <1>7, <1>9, <2>1, EqualStops DEF No
<1>10. ASSUME NEW how \in {"recursion", "unknown cell type"}, Crash(how)
       PROVE  Answers'
  BY <1>1, <1>7, <1>10, EqualStops DEF Crash, Stop
<1>11. CASE ~ Same(top.a, top.b) /\ Null \in {top.a, top.b} /\ Crash("null")
  <2>1. ASSUME NEW R \in SUBSET Different, Respects(R, AllSlots), Related(R, top.a, top.b)
        PROVE  FALSE
    BY <1>11, <2>1, RespectsTop, ObjectsAssumption DEF Same
  <2>. QED
    BY <1>1, <1>7, <1>11, <2>1, EqualStops DEF Crash, Stop
<1>12. CASE /\ ~ Same(top.a, top.b) /\ Are(top.a, top.b, {"pair", "fun", "promise"})
            /\ Pursue(ComparePairs(top.a, top.b))
  <2>1. top.a \in Cell /\ top.b \in Cell /\ top.a # top.b
    BY <1>12 DEF Are, OneType, Same
  <2>2. /\ Agree(top.a, top.b) /\ ComparedSlots(top.a) = {1} /\ DOMAIN slots(top.a) = {1, 2}
        /\ first(top.a) = slots(top.a)[1] /\ first(top.b) = slots(top.b)[1]
    BY <1>12, <2>1, ComparedPair
  <2>3. ComparePairs(top.a, top.b) \in Seq(EqualFrame)
    <3>1. first(top.a) \in Obj /\ first(top.b) \in Obj /\ rest(top.b) \in Obj
      BY <1>12, <2>1, Slots DEF Are, OneType, Types, Two
    <3>. QED
      BY <3>1, NewTypes DEF ComparePairs
  <2>4. ToSet(ComparePairs(top.a, top.b)) =
          {Equal(first(top.a), first(top.b)), Equal(rest(top.b), rest(top.b))}
    BY DEF ComparePairs, ToSet
  <2>5. ASSUME NEW R \in SUBSET Different, Respects(R, AllSlots), Related(R, top.a, top.b)
        PROVE  \A f \in ToSet(ComparePairs(top.a, top.b)) : FrameIn(f, R)
    <3>1. Related(R, first(top.a), first(top.b)) /\ Related(R, rest(top.b), rest(top.b))
      BY <2>1, <2>2, <2>5, RespectsTop DEF Related
    <3>. QED
      BY <2>4, <3>1 DEF FrameIn, Equal
  <2>6. ASSUME \A f \in ToSet(ComparePairs(top.a, top.b)) : FrameAlike(f)
        PROVE  Alike(top.a, top.b)
    <3>1. Alike(first(top.a), first(top.b))
      BY <2>4, <2>6 DEF FrameAlike, Equal
    <3>. QED
      BY <2>1, <2>2, <3>1, AlikeUp
  <2>. QED
    BY <1>5, <1>10, <1>12, <2>3, <2>5, <2>6 DEF Pursue
<1>13. CASE /\ ~ Same(top.a, top.b) /\ ~ Unlike(top.a, top.b)
            /\ Are(top.a, top.b, {"vector"}) /\ Pursue(<<EqualElements(top.a, top.b, 1)>>)
  <2>1. /\ top.a \in Cell /\ top.b \in Cell /\ top.a # top.b
        /\ Vectors(top.a, top.b)
    BY <1>13 DEF Are, OneType, Same, Unlike, Vectors
  <2>2. /\ Agree(top.a, top.b) /\ ComparedSlots(top.a) = DOMAIN slots(top.a)
    BY <2>1 DEF Agree, Vectors, ComparedSlots, Two, Plain
  <2>3. <<EqualElements(top.a, top.b, 1)>> \in Seq(EqualFrame)
    BY <2>1, NewTypes
  <2>4. ToSet(<<EqualElements(top.a, top.b, 1)>>) = {EqualElements(top.a, top.b, 1)}
    BY DEF ToSet
  <2>5. ASSUME NEW R \in SUBSET Different, Respects(R, AllSlots), Related(R, top.a, top.b)
        PROVE  \A f \in ToSet(<<EqualElements(top.a, top.b, 1)>>) : FrameIn(f, R)
    BY <2>1, <2>4, <2>5, RespectsTop DEF FrameIn, EqualElements
  <2>6. ASSUME \A f \in ToSet(<<EqualElements(top.a, top.b, 1)>>) : FrameAlike(f)
        PROVE  Alike(top.a, top.b)
    <3>1. \A i \in DOMAIN slots(top.a) : 1 <= i
      BY <2>1, Slots DEF Types
    <3>2. FrameAlike(EqualElements(top.a, top.b, 1))
      BY <2>4, <2>6
    <3>3. \A i \in DOMAIN slots(top.a) : Alike(slots(top.a)[i], slots(top.b)[i])
      BY <3>1, <3>2 DEF FrameAlike, EqualElements
    <3>. QED
      BY <2>1, <2>2, <3>3, AlikeUp
  <2>. QED
    BY <1>5, <1>10, <1>13, <2>3, <2>5, <2>6 DEF Pursue
<1>14. CASE /\ ~ Same(top.a, top.b) /\ ~ Unlike(top.a, top.b)
            /\ Are(top.a, top.b, Plain \ {"port"}) /\ Yes
  <2>1. /\ top.a \in Cell /\ top.b \in Cell /\ top.a # top.b
        /\ heap[top.a].type = heap[top.b].type /\ heap[top.a].type \in Plain
        /\ SameData(top.a, top.b)
    BY <1>14 DEF Are, OneType, Same, Unlike
  <2>2. slots(top.a) = <<>> /\ slots(top.b) = <<>>
    BY <2>1, Slots DEF Types
  <2>3. Agree(top.a, top.b) /\ ComparedSlots(top.a) = {}
    BY <2>1, <2>2 DEF Agree, ComparedSlots, Two, Plain
  <2>. QED
    BY <1>6, <1>14, <2>1, <2>3, AlikeUp
<1>. QED
  BY <1>8, <1>9, <1>10, <1>11, <1>12, <1>13, <1>14 DEF qz_equal

LEMMA ElementsAnswers ==
  ASSUME Types, Answers, equal_elements
  PROVE  Answers'
<1>1. /\ job = "equal" /\ job' = job /\ stack # <<>> /\ top.do = "elements"
      /\ heap' = heap /\ args' = args
  BY DEF equal_elements
<1>2. top \in EqualFrame
  BY <1>1, TopFrame DEF Types
<1>3. /\ top.a \in Cell /\ top.b \in Cell /\ top.n \in Nat \ {0}
      /\ Vectors(top.a, top.b)
  BY <1>1, <1>2 DEF EqualFrame, Frame
<1>4. /\ slots(top.a) \in Seq(Obj) /\ slots(top.b) \in Seq(Obj)
      /\ Len(slots(top.a)) = Len(slots(top.b))
  BY <1>3, Slots DEF Types, Vectors
<1>5. CASE top.n > Len(slots(top.a)) /\ Yes
  <2>1. <<>> \in Seq(EqualFrame) /\ stack' = <<>> \o Tail(stack) /\ UNCHANGED <<answer, fault>>
    BY <1>5 DEF Yes, Continue
  <2>2. ToSet(<<>>) = {}
    BY DEF ToSet
  <2>3. \A i \in DOMAIN slots(top.a) : ~ top.n <= i
    BY <1>3, <1>4, <1>5
  <2>4. FrameAlike(top)
    BY <1>1, <2>3 DEF FrameAlike
  <2>. QED
    BY <1>1, <2>1, <2>2, <2>4, EqualGoesOn
<1>6. CASE /\ ~ top.n > Len(slots(top.a))
           /\ GoOn(<<Equal(slots(top.a)[top.n], slots(top.b)[top.n]),
                     EqualElements(top.a, top.b, NextSlot(top.n))>>)
  <2>1. PICK e, r : /\ e = Equal(slots(top.a)[top.n], slots(top.b)[top.n])
                    /\ r = EqualElements(top.a, top.b, NextSlot(top.n))
    OBVIOUS
  <2>2. stack' = <<e, r>> \o Tail(stack) /\ UNCHANGED <<answer, fault>>
    BY <1>6, <2>1 DEF GoOn, Continue
  <2>3. top.n \in DOMAIN slots(top.a) /\ NextSlot(top.n) \in Nat \ {0}
    BY <1>3, <1>4, <1>6 DEF NextSlot
  <2>4. <<e, r>> \in Seq(EqualFrame)
    <3>1. slots(top.a)[top.n] \in Obj /\ slots(top.b)[top.n] \in Obj
      BY <1>4, <2>3
    <3>. QED
      BY <1>3, <2>1, <2>3, <3>1, NewTypes
  <2>5. ToSet(<<e, r>>) = {e, r}
    BY DEF ToSet
  <2>6. ASSUME NEW R \in SUBSET Different, Respects(R, AllSlots), FrameIn(top, R)
        PROVE  \A f \in ToSet(<<e, r>>) : FrameIn(f, R)
    <3>1. \A i \in DOMAIN slots(top.a) :
            top.n <= i => Related(R, slots(top.a)[i], slots(top.b)[i])
      BY <1>1, <2>6 DEF FrameIn
    <3>2. FrameIn(e, R)
      BY <1>3, <2>1, <2>3, <3>1 DEF FrameIn, Equal
    <3>3. \A i \in DOMAIN slots(top.a) : NextSlot(top.n) <= i => top.n <= i
      BY <1>3, <1>4 DEF NextSlot
    <3>4. FrameIn(r, R)
      BY <2>1, <3>1, <3>3 DEF FrameIn, EqualElements
    <3>. QED
      BY <2>5, <3>2, <3>4
  <2>7. ASSUME \A f \in ToSet(<<e, r>>) : FrameAlike(f)
        PROVE  FrameAlike(top)
    <3>1. Alike(slots(top.a)[top.n], slots(top.b)[top.n])
      BY <2>1, <2>5, <2>7 DEF FrameAlike, Equal
    <3>2. \A i \in DOMAIN slots(top.a) :
            NextSlot(top.n) <= i => Alike(slots(top.a)[i], slots(top.b)[i])
      <4>1. FrameAlike(r) /\ r.do = "elements" /\ r.a = top.a /\ r.b = top.b
            /\ r.n = NextSlot(top.n)
        BY <2>1, <2>5, <2>7 DEF EqualElements
      <4>. QED
        BY <4>1 DEF FrameAlike
    <3>3. \A i \in DOMAIN slots(top.a) : top.n <= i => i = top.n \/ NextSlot(top.n) <= i
      BY <1>3, <1>4 DEF NextSlot
    <3>. QED
      BY <1>1, <3>1, <3>2, <3>3 DEF FrameAlike
  <2>. QED
    BY <1>1, <2>2, <2>4, <2>6, <2>7, EqualGoesOn
<1>. QED
  BY <1>5, <1>6 DEF equal_elements

LEMMA AnswersNext ==
  ASSUME Types, Answers, [Next]_vars
  PROVE  Answers'
<1>1. CASE BeginWrite
  <2>1. job' = "write" /\ args' \in Cell \X {Null}
    BY <1>1, WalkArgs DEF BeginWrite
  <2>2. args' \notin Cell \X Cell
    BY <2>1, ObjectsAssumption
  <2>. QED
    BY <2>2 DEF Answers, Denials, Confirmations
<1>2. CASE BeginEqual
  <2>1. /\ heap' = heap /\ fault' = fault /\ fault = "none" /\ job' = "equal"
        /\ args' \in Cell \X Cell
    BY <1>2, WalkArgs DEF BeginEqual
  <2>2. PICK f : f = Equal(args'[1], args'[2])
    OBVIOUS
  <2>3. stack' = <<f>> /\ answer' = "none" /\ ToSet(stack') = {f}
    BY <1>2, <2>2 DEF BeginEqual, ToSet
  <2>4. f.do = "equal" /\ f.a = args'[1] /\ f.b = args'[2]
    BY <2>2 DEF Equal
  <2>5. Denials'
    <3>1. \A R : Related(R, args[1], args[2])' => FrameIn(f, R)
      BY <2>4 DEF FrameIn, Related
    <3>. QED
      BY <2>1, <2>3, <3>1, AnswersStay DEF Denials
  <2>6. Confirmations'
    <3>1. FrameAlike(f) => Alike(args'[1], args'[2])
      BY <2>4 DEF FrameAlike
    <3>. QED
      BY <2>1, <2>3, <3>1, AnswersStay DEF Confirmations
  <2>. QED
    BY <2>1, <2>5, <2>6 DEF Answers
<1>3. CASE \/ write_object \/ write_first \/ write_rest \/ write_slots \/ clear_dirty
  <2>1. job = "write" /\ job' \in {"write", "none"} /\ args' = args
    BY <1>3 DEF write_object, write_first, write_rest, write_slots, clear_dirty
  <2>2. args' \notin Cell \X Cell
    BY <2>1 DEF Answers
  <2>. QED
    BY <2>2 DEF Answers, Denials, Confirmations
<1>4. CASE qz_equal
  BY <1>4, QzEqualAnswers
<1>5. CASE equal_elements
  BY <1>5, ElementsAnswers
<1>6. CASE equal_returns
  <2>1. /\ job = "equal" /\ job' = "none" /\ stack = <<>> /\ fault = "none"
        /\ answer' = IF answer = "no" THEN "no" ELSE "yes"
        /\ UNCHANGED <<heap, args, stack, fault>>
    BY <1>6 DEF equal_returns
  <2>2. \A f \in ToSet(stack) : FrameAlike(f)
    BY <2>1 DEF ToSet
  <2>3. Denials'
    BY <2>1, AnswersStay DEF Answers, Denials, Related, Different
  <2>4. Confirmations'
    BY <2>1, <2>2, AnswersStay DEF Answers, Confirmations
  <2>. QED
    BY <2>1, <2>3, <2>4 DEF Answers
<1>7. CASE UNCHANGED vars
  <2>1. UNCHANGED <<heap, args, job, stack, answer, fault>>
    BY <1>7 DEF vars
  <2>2. Denials'
    BY <2>1, AnswersStay DEF Answers, Denials, Related, Different
  <2>3. Confirmations'
    BY <2>1, AnswersStay DEF Answers, Confirmations
  <2>. QED
    BY <2>1, <2>2, <2>3 DEF Answers
<1>. QED
  BY <1>1, <1>2, <1>3, <1>4, <1>5, <1>6, <1>7 DEF Next, Step

\* two objects that are the same in every slot are related by such a relation
LEMMA SimilarIsRelated ==
  ASSUME NEW x, NEW y, Similar(x, y, AllSlots)
  PROVE  \E R \in SUBSET Different : Respects(R, AllSlots) /\ Related(R, x, y)
<1>1. CASE x = y
  <2>1. {} \in SUBSET Different /\ Respects({}, AllSlots) /\ Related({}, x, y)
    BY <1>1 DEF Respects, Related
  <2>. QED
    BY <2>1
<1>2. CASE \E R \in SUBSET Different : Respects(R, AllSlots) /\ <<x, y>> \in R
  BY <1>2 DEF Related
<1>. QED
  BY <1>1, <1>2 DEF Similar

\* what Answers says, once equal? has returned
LEMMA AnswersTell ==
  ASSUME Types, Answers
  PROVE  EqualAnswers
<1>. SUFFICES ASSUME Compared PROVE
       /\ answer = "no" => ~ Similar(args[1], args[2], AllSlots)
       /\ answer = "yes" => Similar(args[1], args[2], ComparedSlots)
  BY DEF EqualAnswers
<1>1. args \in Cell \X Cell /\ job = "none"
  BY DEF Compared, Idle, Types, TypeOK
<1>2. Similar(args[1], args[2], AllSlots) => answer # "no"
  BY <1>1, SimilarIsRelated DEF Answers, Denials
<1>3. answer = "yes" => Similar(args[1], args[2], ComparedSlots)
  BY <1>1 DEF Answers, Confirmations, Alike
<1>. QED
  BY <1>2, <1>3

\* For every two structures: equal? says no only where no relation of their
\* cells makes them the same, and yes only where one makes all the slots it
\* compares the same (quuz-object.c:340).
THEOREM AnswersMean == Spec => []EqualAnswers
<1>1. Types /\ Answers /\ [Next]_vars => (Types /\ Answers)'
  BY TypesNext, AnswersNext
<1>2. Types /\ Answers => EqualAnswers
  BY AnswersTell
<1>. QED
  BY <1>1, <1>2, TypesInit, AnswersInit, PTL DEF Spec

-------------------------------------------------------------------------------
(* Where equal? fails *)

Size(c) == Cardinality(OnCompared(c))
Side(f, s) == IF s = 1 THEN f.a ELSE f.b

\* the call f, whose objects differ, compares a cell that the walk reaches on
\* side s
Descends(f, s) == f.a # f.b /\ Side(f, s) \in Cell

\* d calls are left for a walk of the cells below Side(f, s)
RoomFor(f, s, d) ==
  Descends(f, s) => /\ Side(f, s) \in OnCompared(args[s])
                    /\ d + Size(Side(f, s)) <= Cardinality(Cell) + 1

\* where the arguments are not cyclic, every call has the cells below it left
Shallow ==
  job = "equal" =>
    /\ \A s \in {1, 2} : ~ Cyclic(args[s]) =>
         \A k \in DOMAIN stack : RoomFor(stack[k], s, Len(stack) - k + 1)
    /\ fault = "recursion" => Cyclic(args[1]) /\ Cyclic(args[2])

LEMMA ComparedStays ==
  ASSUME heap' = heap
  PROVE  /\ \A x : OnCompared(x)' = OnCompared(x)
         /\ \A x : Cyclic(x)' <=> Cyclic(x)
<1>1. \A x : OnCompared(x)' = OnCompared(x)
  BY DEF OnCompared, Closure, Closed, ComparedChildren, ComparedSlots, slots
<1>2. \A x : ComparedChildren(x)' = ComparedChildren(x)
  BY DEF ComparedChildren, ComparedSlots, slots
<1>. QED
  BY <1>1, <1>2 DEF Cyclic

LEMMA RootCompared ==
  ASSUME NEW x \in Cell
  PROVE  x \in OnCompared(x)
BY DEF OnCompared, Closure

LEMMA SizeType ==
  ASSUME NEW x
  PROVE  /\ OnCompared(x) \in SUBSET Cell /\ IsFiniteSet(OnCompared(x))
         /\ Size(x) \in Nat /\ Size(x) <= Cardinality(Cell) /\ Cardinality(Cell) \in Nat
         /\ x \in Cell => 1 <= Size(x)
<1>1. OnCompared(x) \in SUBSET Cell
  BY DEF OnCompared, Closure
<1>2. /\ IsFiniteSet(OnCompared(x)) /\ Size(x) <= Cardinality(Cell)
  BY <1>1, FS_Subset, ObjectsAssumption DEF Size
<1>3. Size(x) \in Nat /\ Cardinality(Cell) \in Nat
  BY <1>2, FS_CardinalityType, ObjectsAssumption DEF Size
<1>4. ASSUME x \in Cell
      PROVE  Size(x) # 0
  BY <1>2, <1>4, RootCompared, FS_EmptySet DEF Size
<1>. QED
  BY <1>1, <1>2, <1>3, <1>4

\* a walk that is not cyclic has one cell less left with every cell it goes down
LEMMA GoesDown ==
  ASSUME NEW r, ~ Cyclic(r), NEW x \in OnCompared(r), NEW d \in ComparedChildren(x)
  PROVE  d \in OnCompared(r) /\ Size(d) + 1 <= Size(x)
<1>1. x \in Cell /\ d \in Cell
  BY SizeType DEF ComparedChildren
<1>2. d \in OnCompared(r)
  BY <1>1 DEF OnCompared, Closure, Closed
<1>3. x \in OnCompared(x)
  BY <1>1, RootCompared
<1>4. OnCompared(d) \subseteq OnCompared(x)
  BY <1>1 DEF OnCompared, Closure, Closed
<1>5. x \notin OnCompared(d)
  BY DEF Cyclic
<1>6. OnCompared(d) \in SUBSET (OnCompared(x) \ {x})
  BY <1>4, <1>5
<1>7. /\ IsFiniteSet(OnCompared(x) \ {x})
      /\ Cardinality(OnCompared(x) \ {x}) = Size(x) - 1
  BY <1>3, SizeType, FS_RemoveElement DEF Size
<1>8. Size(d) <= Size(x) - 1
  BY <1>6, <1>7, FS_Subset DEF Size
<1>. QED
  BY <1>2, <1>8, SizeType

\* the calls fs leave as much room as the call on top had
LEMMA ShallowGoesOn ==
  ASSUME Types, Shallow, job = "equal", job' = job, stack # <<>>,
         UNCHANGED <<heap, args, fault>>,
         NEW fs \in Seq(EqualFrame), stack' = fs \o Tail(stack),
         \A s \in {1, 2}, k \in DOMAIN fs :
           ~ Cyclic(args[s]) /\ Descends(fs[k], s) =>
             /\ Descends(top, s)
             /\ Side(top, s) \in OnCompared(args[s]) =>
                  /\ Side(fs[k], s) \in OnCompared(args[s])
                  /\ Len(fs) - k + Size(Side(fs[k], s)) <= Size(Side(top, s))
  PROVE  Shallow'
<1>0. stack \in Seq(EqualFrame) /\ Tail(stack) \in Seq(EqualFrame) /\ top = stack[1]
  BY TopFrame DEF Types, top
<1>1. ASSUME NEW s \in {1, 2}, ~ Cyclic(args[s]), NEW k \in DOMAIN stack'
      PROVE  RoomFor(stack'[k], s, Len(stack') - k + 1)
  <2>1. \A j \in DOMAIN stack : RoomFor(stack[j], s, Len(stack) - j + 1)
    BY <1>1 DEF Shallow
  <2>2. Len(stack') = Len(fs) + Len(stack) - 1 /\ 1 \in DOMAIN stack /\ k \in Nat
    BY <1>0, <1>1
  <2>3. CASE k \in DOMAIN fs /\ Descends(fs[k], s)
    <3>1. stack'[k] = fs[k]
      BY <1>0, <2>3
    <3>2. RoomFor(top, s, Len(stack))
      BY <1>0, <2>1, <2>2
    <3>3. /\ Side(fs[k], s) \in OnCompared(args[s])
          /\ Len(fs) - k + Size(Side(fs[k], s)) <= Size(Side(top, s))
          /\ Len(stack) + Size(Side(top, s)) <= Cardinality(Cell) + 1
      BY <1>1, <2>3, <3>2 DEF RoomFor
    <3>4. /\ Len(fs) \in Nat /\ Len(stack) \in Nat /\ Size(Side(fs[k], s)) \in Nat
          /\ Size(Side(top, s)) \in Nat /\ Cardinality(Cell) \in Nat
      BY <1>0, SizeType
    <3>5. Len(stack') - k + 1 + Size(Side(fs[k], s)) <= Cardinality(Cell) + 1
      BY <2>2, <3>3, <3>4, SMTT(60)
    <3>. QED
      BY <3>1, <3>3, <3>5 DEF RoomFor
  <2>4. CASE k \in DOMAIN fs /\ ~ Descends(fs[k], s)
    <3>1. stack'[k] = fs[k]
      BY <1>0, <2>4
    <3>. QED
      BY <2>4, <3>1 DEF RoomFor
  <2>5. CASE k \notin DOMAIN fs
    <3>1. PICK j : j = k - Len(fs) + 1
      OBVIOUS
    <3>2. j \in DOMAIN stack /\ stack'[k] = stack[j] /\ Len(stack') - k + 1 = Len(stack) - j + 1
      BY <1>0, <1>1, <2>2, <2>5, <3>1
    <3>. QED
      BY <2>1, <3>2
  <2>. QED
    BY <2>3, <2>4, <2>5
<1>2. \A s \in {1, 2} : ~ Cyclic(args[s])' =>
        \A k \in DOMAIN stack' : RoomFor(stack[k], s, Len(stack) - k + 1)'
  <2>1. \A f, s, d : RoomFor(f, s, d)' <=> RoomFor(f, s, d)
    BY ComparedStays DEF RoomFor, Descends, Side, Size
  <2>. QED
    BY <1>1, <2>1, ComparedStays
<1>3. (fault = "recursion" => Cyclic(args[1]) /\ Cyclic(args[2]))'
  BY ComparedStays DEF Shallow
<1>. QED
  BY <1>2, <1>3 DEF Shallow

\* a walk that has not reached a cell of a cycle stays below the limit
LEMMA CyclicWhenDeep ==
  ASSUME Types, Shallow, job = "equal", stack # <<>>, top.a \in Cell, top.b \in Cell,
         top.a # top.b, Len(stack) > MaxDepth
  PROVE  Cyclic(args[1]) /\ Cyclic(args[2])
<1>. SUFFICES ASSUME NEW s \in {1, 2}, ~ Cyclic(args[s]) PROVE FALSE
  OBVIOUS
<1>1. stack \in Seq(EqualFrame) /\ top = stack[1] /\ 1 \in DOMAIN stack
  BY TopFrame DEF Types, top
<1>2. RoomFor(top, s, Len(stack) - 1 + 1)
  BY <1>1 DEF Shallow
<1>3. Descends(top, s) /\ Side(top, s) \in Cell
  BY DEF Descends, Side
<1>4. Len(stack) - 1 + 1 + Size(Side(top, s)) <= Cardinality(Cell) + 1
  BY <1>2, <1>3 DEF RoomFor
<1>5. Size(Side(top, s)) \in Nat /\ 1 <= Size(Side(top, s)) /\ Cardinality(Cell) \in Nat
      /\ Len(stack) \in Nat
  BY <1>1, <1>3, SizeType
<1>6. \A n \in Nat : n <= n * n + 1
  OBVIOUS
<1>. QED
  BY <1>4, <1>5, <1>6 DEF MaxDepth

LEMMA ShallowStops ==
  ASSUME Shallow, job' = job, heap' = heap, args' = args, stack' = <<>>,
         fault' = "recursion" => fault = "recursion" \/ (Cyclic(args[1]) /\ Cyclic(args[2]))
  PROVE  Shallow'
<1>1. DOMAIN stack' = {}
  OBVIOUS
<1>2. job = "equal" /\ fault' = "recursion" => Cyclic(args[1])' /\ Cyclic(args[2])'
  BY ComparedStays DEF Shallow
<1>. QED
  BY <1>1, <1>2 DEF Shallow

\* the first slot of a pair, or any slot of a vector, is below it
LEMMA SlotGoesDown ==
  ASSUME Types, NEW r, ~ Cyclic(r), NEW x \in OnCompared(r), NEW i \in ComparedSlots(x),
         slots(x)[i] \in Cell
  PROVE  slots(x)[i] \in OnCompared(r) /\ 1 + Size(slots(x)[i]) <= Size(x)
<1>1. slots(x)[i] \in ComparedChildren(x)
  BY DEF ComparedChildren
<1>. QED
  BY <1>1, GoesDown, SizeType

LEMMA ShallowInit == Init => Shallow
BY DEF Init, Shallow

LEMMA QzEqualShallow ==
  ASSUME Types, Shallow, qz_equal
  PROVE  Shallow'
<1>1. /\ job = "equal" /\ job' = job /\ stack # <<>> /\ top.do = "equal"
      /\ heap' = heap /\ args' = args
  BY DEF qz_equal
<1>2. CASE Yes
  <2>1. PICK fs : fs = <<>>
    OBVIOUS
  <2>2. fs \in Seq(EqualFrame) /\ DOMAIN fs = {} /\ stack' = fs \o Tail(stack) /\ fault' = fault
    BY <1>2, <2>1 DEF Yes, Continue
  <2>. QED
    BY <1>1, <2>2, ShallowGoesOn
<1>3. CASE No
  BY <1>1, <1>3, ShallowStops DEF No
<1>4. ASSUME NEW how \in {"null", "unknown cell type"}, Crash(how)
      PROVE  Shallow'
  BY <1>1, <1>4, ShallowStops DEF Crash, Stop
<1>5. ASSUME top.a \in Cell, top.b \in Cell, top.a # top.b, Len(stack) > MaxDepth,
             Crash("recursion")
      PROVE  Shallow'
  <2>1. Cyclic(args[1]) /\ Cyclic(args[2])
    BY <1>1, <1>5, CyclicWhenDeep
  <2>. QED
    BY <1>1, <1>5, <2>1, ShallowStops DEF Crash, Stop
<1>6. CASE /\ ~ Same(top.a, top.b) /\ Are(top.a, top.b, {"pair", "fun", "promise"})
           /\ Pursue(ComparePairs(top.a, top.b))
  <2>1. top.a \in Cell /\ top.b \in Cell /\ top.a # top.b
    BY <1>6 DEF Are, OneType, Same
  <2>2. CASE Len(stack) > MaxDepth
    BY <1>5, <1>6, <2>1, <2>2 DEF Pursue
  <2>3. CASE ~ Len(stack) > MaxDepth
    <3>1. PICK e, r : e = Equal(first(top.a), first(top.b)) /\ r = Equal(rest(top.b), rest(top.b))
      OBVIOUS
    <3>2. stack' = <<e, r>> \o Tail(stack) /\ fault' = fault
      BY <1>6, <2>3, <3>1 DEF Pursue, GoOn, Continue, ComparePairs
    <3>3. first(top.a) \in Obj /\ first(top.b) \in Obj /\ rest(top.b) \in Obj
      BY <1>6, <2>1, Slots DEF Are, OneType, Types, Two
    <3>4. <<e, r>> \in Seq(EqualFrame)
      BY <3>1, <3>3, NewTypes
    <3>5. /\ ComparedSlots(top.a) = {1} /\ first(top.a) = slots(top.a)[1]
          /\ ComparedSlots(top.b) = {1} /\ first(top.b) = slots(top.b)[1]
      <4>1. heap[top.a].type \in Two /\ heap[top.b].type \in Two
        BY <1>6 DEF Are, OneType, Two
      <4>. QED
        BY <4>1 DEF ComparedSlots, first, slots
    <3>6. ASSUME NEW s \in {1, 2}, NEW k \in DOMAIN <<e, r>>, ~ Cyclic(args[s]),
                 Descends(<<e, r>>[k], s)
          PROVE  /\ Descends(top, s)
                 /\ Side(top, s) \in OnCompared(args[s]) =>
                      /\ Side(<<e, r>>[k], s) \in OnCompared(args[s])
                      /\ Len(<<e, r>>) - k + Size(Side(<<e, r>>[k], s)) <= Size(Side(top, s))
      <4>1. Descends(top, s)
        BY <2>1 DEF Descends, Side
      <4>2. ~ Descends(r, s)
        BY <3>1 DEF Equal, Descends
      <4>3. k = 1 /\ <<e, r>>[k] = e /\ Len(<<e, r>>) = 2
        BY <3>6, <4>2
      <4>4. Side(e, s) = slots(Side(top, s))[1] /\ ComparedSlots(Side(top, s)) = {1}
        BY <3>1, <3>5 DEF Equal, Side
      <4>5. Side(e, s) \in Cell
        BY <3>6, <4>3 DEF Descends
      <4>6. ASSUME Side(top, s) \in OnCompared(args[s])
            PROVE  Side(e, s) \in OnCompared(args[s]) /\ 1 + Size(Side(e, s)) <= Size(Side(top, s))
        <5>1. slots(Side(top, s))[1] \in Cell /\ 1 \in ComparedSlots(Side(top, s))
          BY <4>4, <4>5
        <5>. QED
          BY <3>6, <4>4, <4>6, <5>1, SlotGoesDown
      <4>. QED
        BY <4>1, <4>3, <4>6
    <3>. QED
      BY <1>1, <3>2, <3>4, <3>6, ShallowGoesOn
  <2>. QED
    BY <2>2, <2>3
<1>7. CASE /\ ~ Same(top.a, top.b) /\ ~ Unlike(top.a, top.b)
           /\ Are(top.a, top.b, {"vector"}) /\ Pursue(<<EqualElements(top.a, top.b, 1)>>)
  <2>1. /\ top.a \in Cell /\ top.b \in Cell /\ top.a # top.b
        /\ Vectors(top.a, top.b)
    BY <1>7 DEF Are, OneType, Same, Unlike, Vectors
  <2>2. CASE Len(stack) > MaxDepth
    BY <1>5, <1>7, <2>1, <2>2 DEF Pursue
  <2>3. CASE ~ Len(stack) > MaxDepth
    <3>1. PICK e : e = EqualElements(top.a, top.b, 1)
      OBVIOUS
    <3>2. stack' = <<e>> \o Tail(stack) /\ fault' = fault
      BY <1>7, <2>3, <3>1 DEF Pursue, GoOn, Continue
    <3>3. <<e>> \in Seq(EqualFrame)
      BY <2>1, <3>1, NewTypes
    <3>4. ASSUME NEW s \in {1, 2}, NEW k \in DOMAIN <<e>>
          PROVE  /\ Descends(top, s)
                 /\ Side(top, s) \in OnCompared(args[s]) =>
                      /\ Side(<<e>>[k], s) \in OnCompared(args[s])
                      /\ Len(<<e>>) - k + Size(Side(<<e>>[k], s)) <= Size(Side(top, s))
      <4>1. Descends(top, s)
        BY <2>1 DEF Descends, Side
      <4>2. k = 1 /\ <<e>>[k] = e /\ Len(<<e>>) = 1
        OBVIOUS
      <4>3. Side(e, s) = Side(top, s)
        BY <3>1 DEF EqualElements, Side
      <4>4. Size(Side(top, s)) \in Nat
        BY SizeType
      <4>. QED
        BY <4>1, <4>2, <4>3, <4>4
    <3>. QED
      BY <1>1, <3>2, <3>3, <3>4, ShallowGoesOn
  <2>. QED
    BY <2>2, <2>3
<1>. QED
  BY <1>2, <1>3, <1>4, <1>6, <1>7 DEF qz_equal

LEMMA ElementsShallow ==
  ASSUME Types, Shallow, equal_elements
  PROVE  Shallow'
<1>1. /\ job = "equal" /\ job' = job /\ stack # <<>> /\ top.do = "elements"
      /\ heap' = heap /\ args' = args
  BY DEF equal_elements
<1>2. top \in EqualFrame
  BY <1>1, TopFrame DEF Types
<1>3. /\ top.a \in Cell /\ top.b \in Cell /\ top.n \in Nat \ {0}
      /\ Vectors(top.a, top.b)
  BY <1>1, <1>2 DEF EqualFrame, Frame
<1>4. /\ slots(top.a) \in Seq(Obj) /\ slots(top.b) \in Seq(Obj)
      /\ Len(slots(top.a)) = Len(slots(top.b))
      /\ ComparedSlots(top.a) = DOMAIN slots(top.a)
      /\ ComparedSlots(top.b) = DOMAIN slots(top.b)
  BY <1>3, Slots DEF Types, Vectors, ComparedSlots, Two
<1>5. CASE Yes
  <2>1. PICK fs : fs = <<>>
    OBVIOUS
  <2>2. fs \in Seq(EqualFrame) /\ DOMAIN fs = {} /\ stack' = fs \o Tail(stack) /\ fault' = fault
    BY <1>5, <2>1 DEF Yes, Continue
  <2>. QED
    BY <1>1, <2>2, ShallowGoesOn
<1>6. CASE /\ ~ top.n > Len(slots(top.a))
           /\ GoOn(<<Equal(slots(top.a)[top.n], slots(top.b)[top.n]),
                     EqualElements(top.a, top.b, NextSlot(top.n))>>)
  <2>1. PICK e, r : /\ e = Equal(slots(top.a)[top.n], slots(top.b)[top.n])
                    /\ r = EqualElements(top.a, top.b, NextSlot(top.n))
    OBVIOUS
  <2>2. stack' = <<e, r>> \o Tail(stack) /\ fault' = fault
    BY <1>6, <2>1 DEF GoOn, Continue
  <2>3. /\ top.n \in DOMAIN slots(top.a) /\ top.n \in DOMAIN slots(top.b)
        /\ NextSlot(top.n) \in Nat \ {0}
    BY <1>3, <1>4, <1>6 DEF NextSlot
  <2>4. <<e, r>> \in Seq(EqualFrame)
    <3>1. slots(top.a)[top.n] \in Obj /\ slots(top.b)[top.n] \in Obj
      BY <1>4, <2>3
    <3>. QED
      BY <1>3, <2>1, <2>3, <3>1, NewTypes
  <2>5. ASSUME NEW s \in {1, 2}, NEW k \in DOMAIN <<e, r>>, ~ Cyclic(args[s]),
               Descends(<<e, r>>[k], s)
        PROVE  /\ Descends(top, s)
               /\ Side(top, s) \in OnCompared(args[s]) =>
                    /\ Side(<<e, r>>[k], s) \in OnCompared(args[s])
                    /\ Len(<<e, r>>) - k + Size(Side(<<e, r>>[k], s)) <= Size(Side(top, s))
    <3>1. Len(<<e, r>>) = 2 /\ k \in {1, 2} /\ <<e, r>>[1] = e /\ <<e, r>>[2] = r
      OBVIOUS
    <3>2. CASE k = 1
      <4>1. Descends(e, s)
        BY <2>5, <3>1, <3>2
      <4>2. top.a # top.b
        BY <2>1, <4>1 DEF Descends, Equal
      <4>3. Side(e, s) = slots(Side(top, s))[top.n] /\ top.n \in ComparedSlots(Side(top, s))
        BY <1>4, <2>1, <2>3 DEF Equal, Side
      <4>4. Side(e, s) \in Cell
        BY <4>1 DEF Descends
      <4>5. ASSUME Side(top, s) \in OnCompared(args[s])
            PROVE  Side(e, s) \in OnCompared(args[s]) /\ 1 + Size(Side(e, s)) <= Size(Side(top, s))
        BY <2>5, <4>3, <4>4, <4>5, SlotGoesDown
      <4>6. Descends(top, s)
        BY <1>3, <4>2 DEF Descends, Side
      <4>. QED
        BY <3>1, <3>2, <4>5, <4>6
    <3>3. CASE k = 2
      <4>1. Descends(r, s)
        BY <2>5, <3>1, <3>3
      <4>2. r.a = top.a /\ r.b = top.b /\ Side(r, s) = Side(top, s)
        BY <2>1 DEF EqualElements, Side
      <4>3. Size(Side(top, s)) \in Nat
        BY SizeType
      <4>4. Descends(top, s)
        BY <4>1, <4>2 DEF Descends
      <4>. QED
        BY <3>1, <3>3, <4>2, <4>3, <4>4
    <3>. QED
      BY <3>1, <3>2, <3>3
  <2>. QED
    BY <1>1, <2>2, <2>4, <2>5, ShallowGoesOn
<1>. QED
  BY <1>5, <1>6 DEF equal_elements

LEMMA ShallowNext ==
  ASSUME Types, Shallow, [Next]_vars
  PROVE  Shallow'
<1>1. CASE BeginEqual
  <2>1. /\ heap' = heap /\ fault' = "none" /\ job' = "equal" /\ args' \in Cell \X Cell
    BY <1>1, WalkArgs DEF BeginEqual
  <2>2. PICK x, y : x = args'[1] /\ y = args'[2]
    OBVIOUS
  <2>3. stack' = <<Equal(x, y)>> /\ x \in Cell /\ y \in Cell
    BY <1>1, <2>1, <2>2 DEF BeginEqual
  <2>4. Len(stack') = 1 /\ DOMAIN stack' = {1} /\ stack'[1] = Equal(x, y)
    BY <2>3
  <2>5. ASSUME NEW s \in {1, 2}
        PROVE  RoomFor(stack[1], s, 1)'
    <3>1. Side(stack'[1], s) = args'[s] /\ args'[s] \in Cell
      BY <2>2, <2>3, <2>4 DEF Side, Equal
    <3>2. args'[s] \in OnCompared(args'[s])
      BY <3>1, RootCompared
    <3>3. 1 + Size(args'[s]) <= Cardinality(Cell) + 1
      BY SizeType
    <3>. QED
      BY <2>1, <3>1, <3>2, <3>3, ComparedStays DEF RoomFor, Size, Side
  <2>6. \A s \in {1, 2}, k \in DOMAIN stack' : RoomFor(stack[k], s, Len(stack) - k + 1)'
    <3>1. \A k \in DOMAIN stack' : k = 1 /\ Len(stack') - k + 1 = 1
      BY <2>4
    <3>. QED
      BY <2>5, <3>1
  <2>. QED
    BY <2>1, <2>6 DEF Shallow
<1>2. CASE qz_equal
  BY <1>2, QzEqualShallow
<1>3. CASE equal_elements
  BY <1>3, ElementsShallow
<1>4. ASSUME UNCHANGED <<heap, args, job, stack, fault>>
      PROVE  Shallow'
  <2>1. \A f, s, d : RoomFor(f, s, d)' <=> RoomFor(f, s, d)
    BY <1>4, ComparedStays DEF RoomFor, Descends, Side, Size
  <2>. QED
    BY <1>4, <2>1, ComparedStays DEF Shallow
<1>5. CASE \/ BeginWrite \/ write_object \/ write_first \/ write_rest \/ write_slots
           \/ clear_dirty \/ equal_returns
  <2>1. job' # "equal"
    BY <1>5 DEF BeginWrite, Begin, write_object, write_first, write_rest, write_slots,
                clear_dirty, equal_returns
  <2>. QED
    BY <2>1 DEF Shallow
<1>. QED
  BY <1>1, <1>2, <1>3, <1>4, <1>5 DEF Next, Step, vars

\* For every two structures: equal? runs out of stack only where both are
\* cyclic through what it compares, and dereferences NULL only where no
\* relation makes the two the same (quuz-object.c:340, :360).
THEOREM FailsWhere == Spec => []FailsOnlyWhere
<1>1. Types /\ Answers /\ Shallow /\ [Next]_vars => (Types /\ Answers /\ Shallow)'
  BY TypesNext, AnswersNext, ShallowNext
<1>2. Types /\ Answers /\ Shallow => FailsOnlyWhere
  <2>. SUFFICES ASSUME Types, Answers, Shallow, job = "equal"
                PROVE  /\ fault = "recursion" => Cyclic(args[1]) /\ Cyclic(args[2])
                       /\ fault = "null" => ~ Similar(args[1], args[2], AllSlots)
    BY DEF FailsOnlyWhere
  <2>1. fault = "recursion" => Cyclic(args[1]) /\ Cyclic(args[2])
    BY DEF Shallow
  <2>2. args \in Cell \X Cell
    BY DEF Types
  <2>3. Similar(args[1], args[2], AllSlots) => fault # "null"
    BY <2>2, SimilarIsRelated DEF Answers, Denials
  <2>. QED
    BY <2>1, <2>3
<1>. QED
  BY <1>1, <1>2, TypesInit, AnswersInit, ShallowInit, PTL DEF Spec
===============================================================================
