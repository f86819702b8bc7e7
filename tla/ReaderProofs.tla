----------------------------- MODULE ReaderProofs -----------------------------
(***************************************************************************)
(* Proofs about Reader, for any grammar whose calls are bracketed, any     *)
(* texts, any capacity and any symbols made before: the stack and the      *)
(* calls to come fit together, no array is written behind its end, and     *)
(* symbols are unique.                                                     *)
(***************************************************************************)
EXTENDS Reader, SequenceTheorems, FiniteSetTheorems, TLAPS

(***************************************************************************)
(* Sequences.                                                              *)
(***************************************************************************)
IsSeq(s) == \E C : s \in Seq(C)

(* What is left of a sequence without its last element.                    *)
LEMMA FrontLast ==
  ASSUME NEW C, NEW s \in Seq(C), s # <<>>
  PROVE  /\ Front(s) \in Seq(C)
         /\ Len(s) \in Nat \ {0} /\ Len(Front(s)) = Len(s) - 1
         /\ \A i \in 1 .. Len(s) - 1 : Front(s)[i] = s[i]
         /\ Last(s) = s[Len(s)] /\ Last(s) \in C
<1>1. Len(s) \in Nat \ {0} /\ \A i \in 1 .. Len(s) : s[i] \in C  BY EmptySeq, ElementOfSeq
<1>2. \A i \in 1 .. Len(s) - 1 : s[i] \in C  BY <1>1
<1>3. /\ SubSeq(s, 1, Len(s) - 1) \in Seq(C)
      /\ Len(SubSeq(s, 1, Len(s) - 1)) = Len(s) - 1
      /\ \A i \in 1 .. Len(s) - 1 : SubSeq(s, 1, Len(s) - 1)[i] = s[i]
  <2> DEFINE n == Len(s) - 1
  <2>1. 1 \in Int /\ n \in Int /\ (1 <= n => n - 1 + 1 = n) /\ (~(1 <= n) => n = 0)
    <3>1. Len(s) \in Nat /\ Len(s) # 0  BY <1>1
    <3>2. n \in Int /\ n >= 0  BY <3>1
    <3> HIDE DEF n
    <3> QED  BY <3>2
  <2>2. \A i \in 1 .. n : s[i] \in C  BY <1>2
  <2> HIDE DEF n
  <2>3. /\ SubSeq(s, 1, n) \in Seq(C)
        /\ Len(SubSeq(s, 1, n)) = IF 1 <= n THEN n - 1 + 1 ELSE 0
        /\ \A i \in 1 .. n - 1 + 1 : SubSeq(s, 1, n)[i] = s[1 + i - 1]
    BY <2>1, <2>2, SubSeqProperties
  <2>4. Len(SubSeq(s, 1, n)) = n  BY <2>1, <2>3
  <2>5. \A i \in 1 .. n : SubSeq(s, 1, n)[i] = s[i]
    <3> TAKE i \in 1 .. n
    <3>1. i \in 1 .. n - 1 + 1 /\ 1 + i - 1 = i  BY <2>1
    <3> QED  BY <2>3, <3>1
  <2> QED  BY <2>3, <2>4, <2>5 DEF n
<1> QED  BY <1>1, <1>3 DEF Front, Last

(* A sequence and one more element.                                        *)
LEMMA OneMore ==
  ASSUME NEW C, NEW s \in Seq(C), NEW x
  PROVE  /\ Append(s, x) \in Seq(C \cup {x})
         /\ Len(s) \in Nat /\ Len(Append(s, x)) = Len(s) + 1 /\ Append(s, x) # <<>>
         /\ DOMAIN s = 1 .. Len(s) /\ DOMAIN Append(s, x) = 1 .. Len(s) + 1
         /\ \A i \in 1 .. Len(s) : Append(s, x)[i] = s[i]
         /\ Append(s, x)[Len(s) + 1] = x
<1>1. s \in Seq(C \cup {x})  BY SeqMonotonic
<1> QED  BY <1>1, AppendProperties, LenProperties

(***************************************************************************)
(* Counting calls.                                                         *)
(***************************************************************************)

(* A count is a number, and leaving a call away counts it no more.         *)
LEMMA CountNext ==
  ASSUME NEW C, NEW c \in Seq(C), NEW D, NEW k \in 1 .. Len(c)
  PROVE  /\ CountFrom(c, k, D) \in Nat /\ CountFrom(c, k + 1, D) \in Nat
         /\ CountFrom(c, k, D) = CountFrom(c, k + 1, D) + IF c[k].do \in D THEN 1 ELSE 0
<1> DEFINE A == {i \in k .. Len(c) : c[i].do \in D}
           B == {i \in k + 1 .. Len(c) : c[i].do \in D}
<1>1. Len(c) \in Nat  BY LenProperties
<1>2. IsFiniteSet(A) /\ IsFiniteSet(B)
  <2>1. IsFiniteSet(k .. Len(c)) /\ IsFiniteSet(k + 1 .. Len(c))  BY <1>1, FS_Interval
  <2> QED  BY <2>1, FS_Subset
<1>3. Cardinality(A) \in Nat /\ Cardinality(B) \in Nat  BY <1>2, FS_CardinalityType
<1>4. k \notin B /\ A = IF c[k].do \in D THEN B \cup {k} ELSE B  BY <1>1
<1>5. Cardinality(B \cup {k}) = Cardinality(B) + 1  BY <1>2, <1>4, FS_AddElement
<1>6. CountFrom(c, k, D) = Cardinality(A) /\ CountFrom(c, k + 1, D) = Cardinality(B)
  BY DEF CountFrom
<1> HIDE DEF A, B
<1> QED  BY <1>3, <1>4, <1>5, <1>6

(* Nothing is counted behind the end.                                      *)
LEMMA CountNone ==
  ASSUME NEW D
  PROVE  CountFrom(<<>>, 1, D) = 0
<1>1. {i \in 1 .. Len(<<>>) : <<>>[i].do \in D} = {}  OBVIOUS
<1> QED  BY <1>1, FS_EmptySet DEF CountFrom

(* The calls after the first, counted where they now are.                  *)
LEMMA CountTail ==
  ASSUME NEW C, NEW c \in Seq(C), c # <<>>, NEW D, NEW k \in Nat \ {0}
  PROVE  CountFrom(Tail(c), k, D) = CountFrom(c, k + 1, D)
<1> DEFINE A == {i \in k .. Len(Tail(c)) : Tail(c)[i].do \in D}
           B == {i \in k + 1 .. Len(c) : c[i].do \in D}
           f == [i \in A |-> i + 1]
<1>1. /\ Len(c) \in Nat \ {0} /\ Len(Tail(c)) = Len(c) - 1
      /\ \A i \in 1 .. Len(c) - 1 : Tail(c)[i] = c[i + 1]
  BY EmptySeq, HeadTailProperties
<1>2. IsFiniteSet(A)
  <2>1. IsFiniteSet(k .. Len(Tail(c)))  BY <1>1, FS_Interval
  <2> QED  BY <2>1, FS_Subset
<1>3. \A i \in A : i \in Nat /\ i + 1 \in B  BY <1>1
<1>4. \A j \in B : j \in Nat /\ j - 1 \in A /\ (j - 1) + 1 = j  BY <1>1
<1>5. f \in Bijection(A, B)
  <2>1. f \in [A -> B]  BY <1>3
  <2>2. \A i, j \in A : f[i] = f[j] => i = j  BY <1>3
  <2>3. \A j \in B : \E i \in A : f[i] = j  BY <1>4
  <2> QED  BY <2>1, <2>2, <2>3 DEF Bijection, Injection, Surjection, IsInjective
<1>6. ExistsBijection(A, B)  BY <1>5 DEF ExistsBijection
<1>7. Cardinality(A) = Cardinality(B)  BY <1>2, <1>6, FS_Bijection
<1> QED  BY <1>7 DEF CountFrom

(***************************************************************************)
(* Objects.  An object may hold objects to any depth, so what is true of   *)
(* all of them is said of a set that holds the elements of its members.    *)
(***************************************************************************)
IsArray(x) == x.type \in {"string", "bytevector", "vector"}

\* what an object is made of, its elements in S
ElementsIn(x, S) ==
  /\ x.type = "pair" => x.of \in Seq(S) /\ x.of # <<>> /\ x.rest \in S
  /\ x.type = "vector" => x.of \in Seq(S)
  /\ IsArray(x) => x.capacity \in Nat \ {0} /\ IsSeq(x.of) /\ Len(x.of) <= x.capacity

\* an object that is nowhere written any more: a string has its null
Written(x, S) == ElementsIn(x, S) /\ (x.type = "string" => Len(x.of) < x.capacity)
World(S) == Null \in S /\ None \in S /\ \A x \in S : Written(x, S)

\* an object on the stack
Stacked(x, S) ==
  /\ x.type \in {"null", "pair", "string", "bytevector", "vector"}
  /\ x.type = "pair" => x = [type |-> "pair", of |-> x.of, rest |-> x.rest]
  /\ IsArray(x) => x = Array(x.type, x.of, x.capacity)
  /\ ElementsIn(x, S)
IsList(x) == x.type \in {"null", "pair"}

(* More objects take nothing from an object.                               *)
LEMMA MoreObjects ==
  ASSUME NEW S, NEW T, S \subseteq T, NEW x
  PROVE  /\ Written(x, S) => Written(x, T)
         /\ Stacked(x, S) => Stacked(x, T)
<1>1. \A s \in Seq(S) : s \in Seq(T)  BY SeqMonotonic
<1>2. ElementsIn(x, S) => ElementsIn(x, T)  BY <1>1 DEF ElementsIn
<1> QED  BY <1>2 DEF Written, Stacked

(* An object made of members is one more of them.                          *)
LEMMA NewObject ==
  ASSUME NEW S, World(S), NEW x, Written(x, S)
  PROVE  World(S \cup {x}) /\ x \in S \cup {x} /\ S \subseteq S \cup {x}
<1>1. \A y \in S \cup {x} : Written(y, S)  BY DEF World
<1> QED  BY <1>1, MoreObjects DEF World

(* A list is a pair if it has an element, whatever is behind it.           *)
LEMMA NewList ==
  ASSUME NEW S, NEW e \in Seq(S), e # <<>>, NEW x \in S
  PROVE  Stacked(List(e, x), S) /\ IsList(List(e, x))
<1>1. List(e, x) = [type |-> "pair", of |-> e, rest |-> x]  BY DEF List
<1> QED  BY <1>1 DEF Stacked, ElementsIn, IsArray, IsList

(* An array begins with room.                                              *)
LEMMA NewArray ==
  ASSUME NEW S, NEW ty \in {"string", "bytevector", "vector"}
  PROVE  Stacked(make_array(ty), S) /\ Stacked(Null, S) /\ IsList(Null)
<1>1. <<>> \in Seq(S) /\ Len(<<>>) = 0 /\ IsSeq(<<>>)  BY EmptySeq DEF IsSeq
<1>2. INITIAL_CAPACITY \in Nat \ {0}  BY ReaderAssumption
<1>3. /\ make_array(ty).type = ty /\ make_array(ty).of = <<>>
      /\ make_array(ty).capacity = INITIAL_CAPACITY
      /\ make_array(ty) = Array(ty, <<>>, INITIAL_CAPACITY)
  BY DEF make_array, Array
<1>4. ElementsIn(make_array(ty), S)  BY <1>1, <1>2, <1>3 DEF ElementsIn
<1>5. Stacked(make_array(ty), S)  BY <1>3, <1>4 DEF Stacked
<1> QED  BY <1>5 DEF Null, Stacked, ElementsIn, IsArray, IsList

(* A capacity doubles before it is exceeded.                               *)
LEMMA GrowsInTime ==
  ASSUME NEW n \in Nat, NEW cap \in Nat \ {0}, n <= cap
  PROVE  grow_array(n, cap) \in Nat \ {0} /\ n + 1 <= grow_array(n, cap)
BY DEF grow_array

(* What is written to an array stays in its bounds.                        *)
LEMMA ExtendedStacked ==
  ASSUME NEW S, NEW a, Stacked(a, S), IsArray(a), NEW x, a.type = "vector" => x \in S
  PROVE  Stacked(Extended(a, x), S) /\ Extended(a, x).type = a.type
<1> DEFINE b == Extended(a, x)
<1>1. /\ a = Array(a.type, a.of, a.capacity) /\ a.capacity \in Nat \ {0}
      /\ IsSeq(a.of) /\ Len(a.of) <= a.capacity /\ (a.type = "vector" => a.of \in Seq(S))
  BY DEF Stacked, ElementsIn
<1>2. /\ b = Array(a.type, Append(a.of, x), grow_array(Len(a.of), a.capacity))
      /\ b.type = a.type /\ b.of = Append(a.of, x)
      /\ b.capacity = grow_array(Len(a.of), a.capacity)
  <2>1. b = Array(a.type, Append(a.of, x), grow_array(Len(a.of), a.capacity))
    BY DEF Extended
  <2> QED  BY <2>1 DEF Array
<1>3. PICK C : a.of \in Seq(C)  BY <1>1 DEF IsSeq
<1>4. /\ Len(a.of) \in Nat /\ Len(b.of) = Len(a.of) + 1 /\ b.of \in Seq(C \cup {x})
  BY <1>2, <1>3, OneMore
<1>5. b.capacity \in Nat \ {0} /\ Len(b.of) <= b.capacity  BY <1>1, <1>2, <1>4, GrowsInTime
<1>6. ASSUME b.type = "vector" PROVE b.of \in Seq(S)
  <2>1. a.of \in Seq(S) /\ x \in S  BY <1>1, <1>2, <1>6
  <2> QED  BY <1>2, <2>1, AppendProperties
<1>7. IsSeq(b.of)  BY <1>4 DEF IsSeq
<1>8. b.type # "pair" /\ b.type \in {"null", "pair", "string", "bytevector", "vector"}
  BY <1>2 DEF IsArray
<1>9. b = Array(b.type, b.of, b.capacity)  BY <1>2
<1> HIDE DEF b
<1>10. ElementsIn(b, S)  BY <1>5, <1>6, <1>7, <1>8 DEF ElementsIn
<1>11. Stacked(b, S)  BY <1>8, <1>9, <1>10 DEF Stacked
<1> QED  BY <1>2, <1>11 DEF b

(* What leaves the stack is written for good.                              *)
LEMMA TerminatedWritten ==
  ASSUME NEW S, NEW a, Stacked(a, S)
  PROVE  Written(Terminated(a), S) /\ Terminated(a).type = a.type
<1>1. CASE a.type # "string"  BY <1>1 DEF Terminated, Written, Stacked
<1>2. CASE a.type = "string"
  <2> DEFINE b == Terminated(a)
  <2>1. /\ a = Array(a.type, a.of, a.capacity) /\ a.capacity \in Nat \ {0}
        /\ IsSeq(a.of) /\ Len(a.of) <= a.capacity
    BY <1>2 DEF Stacked, ElementsIn, IsArray
  <2>2. /\ b.type = a.type /\ b.of = a.of /\ b.capacity = grow_array(Len(a.of), a.capacity)
    BY <1>2, <2>1 DEF Terminated, Array
  <2>3. PICK C : a.of \in Seq(C)  BY <2>1 DEF IsSeq
  <2>4. Len(a.of) \in Nat  BY <2>3, LenProperties
  <2>5. b.capacity \in Nat \ {0} /\ Len(b.of) + 1 <= b.capacity  BY <2>1, <2>2, <2>4, GrowsInTime
  <2>6. Len(b.of) \in Nat /\ IsSeq(b.of) /\ b.type = "string"  BY <1>2, <2>1, <2>2, <2>4
  <2> HIDE DEF b
  <2>7. Len(b.of) < b.capacity /\ Len(b.of) <= b.capacity  BY <2>5, <2>6
  <2>8. ElementsIn(b, S)  BY <2>5, <2>6, <2>7 DEF ElementsIn
  <2>9. Written(b, S)  BY <2>7, <2>8 DEF Written
  <2> QED  BY <2>2, <2>9 DEF b
<1> QED  BY <1>1, <1>2

(***************************************************************************)
(* The state of the reader while it performs a call.                       *)
(***************************************************************************)
State(r) ==
  r = [stack |-> r.stack, capacity |-> r.capacity, names |-> r.names, cells |-> r.cells,
       fault |-> r.fault]

\* the symbol table: its names are different, and those that were read end with a null
Table(n) ==
  /\ IsSeq(n) /\ Len(n) >= Len(Interned)
  /\ \A i, j \in DOMAIN n : n[i].of = n[j].of => i = j
  /\ \A i \in DOMAIN n \ DOMAIN Interned : n[i].type = "string" => Len(n[i].of) < n[i].capacity

Sound(r, S) ==
  /\ State(r) /\ World(S) /\ Table(r.names)
  /\ IsSeq(r.stack) /\ \A i \in DOMAIN r.stack : Stacked(r.stack[i], S)
  /\ r.fault = "none" =>
       /\ r.capacity \in Nat \ {0}
       /\ r.stack # <<>> /\ IsList(r.stack[1]) /\ Len(r.stack) <= r.capacity

(* What the parts of a function change.                                    *)
LEMMA Changes ==
  ASSUME NEW r, State(r), NEW x
  PROVE  /\ State(NewCells(r, x)) /\ NewCells(r, x).stack = r.stack
         /\ NewCells(r, x).capacity = r.capacity /\ NewCells(r, x).names = r.names
         /\ NewCells(r, x).fault = r.fault
         /\ State(SetTop(r, x)) /\ SetTop(r, x).stack = Append(Front(r.stack), x)
         /\ SetTop(r, x).capacity = r.capacity /\ SetTop(r, x).names = r.names
         /\ SetTop(r, x).fault = r.fault
         /\ State(Fails(r, x)) /\ Fails(r, x).stack = r.stack
         /\ Fails(r, x).capacity = r.capacity /\ Fails(r, x).names = r.names
         /\ Fails(r, x).fault = x
         /\ State(Drop(r)) /\ Drop(r).stack = Front(r.stack)
         /\ Drop(r).capacity = r.capacity /\ Drop(r).names = r.names
         /\ Drop(r).fault = r.fault
         /\ State(push(r, x)) /\ push(r, x).stack = Append(r.stack, x)
         /\ push(r, x).capacity = grow_array(Len(r.stack), r.capacity)
         /\ push(r, x).names = r.names /\ push(r, x).fault = r.fault
<1>1. /\ State(NewCells(r, x)) /\ NewCells(r, x).stack = r.stack
      /\ NewCells(r, x).capacity = r.capacity /\ NewCells(r, x).names = r.names
      /\ NewCells(r, x).fault = r.fault
  BY DEF State, NewCells
<1>2. /\ State(SetTop(r, x)) /\ SetTop(r, x).stack = Append(Front(r.stack), x)
      /\ SetTop(r, x).capacity = r.capacity /\ SetTop(r, x).names = r.names
      /\ SetTop(r, x).fault = r.fault
  BY DEF State, SetTop
<1>3. /\ State(Fails(r, x)) /\ Fails(r, x).stack = r.stack
      /\ Fails(r, x).capacity = r.capacity /\ Fails(r, x).names = r.names
      /\ Fails(r, x).fault = x
  BY DEF State, Fails
<1>4. /\ State(Drop(r)) /\ Drop(r).stack = Front(r.stack)
      /\ Drop(r).capacity = r.capacity /\ Drop(r).names = r.names
      /\ Drop(r).fault = r.fault
  BY DEF State, Drop
<1>5. /\ State(push(r, x)) /\ push(r, x).stack = Append(r.stack, x)
      /\ push(r, x).capacity = grow_array(Len(r.stack), r.capacity)
      /\ push(r, x).names = r.names /\ push(r, x).fault = r.fault
  <2> DEFINE q == WithRoom(r)
  <2>1. /\ State(q) /\ q.stack = r.stack /\ q.names = r.names /\ q.fault = r.fault
        /\ q.capacity = grow_array(Len(r.stack), r.capacity)
    BY DEF State, WithRoom
  <2>2. push(r, x) = [q EXCEPT !.stack = Append(@, x)]  BY DEF push
  <2> HIDE DEF q
  <2>3. State(push(r, x))  BY <2>1, <2>2 DEF State
  <2> QED  BY <2>1, <2>2, <2>3 DEF State
<1> QED  BY <1>1, <1>2, <1>3, <1>4, <1>5

(* A count of cells and a fault break nothing.                             *)
LEMMA CountsAndFaults ==
  ASSUME NEW r, NEW S, Sound(r, S), NEW n, NEW f, f # "none"
  PROVE  Sound(NewCells(r, n), S) /\ Sound(Fails(r, f), S)
BY Changes DEF Sound

(* The stack of a sound state that has not failed.                         *)
LEMMA StackIs ==
  ASSUME NEW r, NEW S, Sound(r, S), r.fault = "none"
  PROVE  /\ Len(r.stack) \in Nat \ {0} /\ DOMAIN r.stack = 1 .. Len(r.stack)
         /\ TopOf(r) = r.stack[Len(r.stack)] /\ Stacked(TopOf(r), S)
<1>1. PICK C : r.stack \in Seq(C)  BY DEF Sound, IsSeq
<1>2. r.stack # <<>> /\ DOMAIN r.stack = 1 .. Len(r.stack)  BY <1>1, LenProperties DEF Sound
<1>3. Len(r.stack) \in Nat \ {0} /\ Last(r.stack) = r.stack[Len(r.stack)]
  BY <1>1, <1>2, FrontLast
<1> QED  BY <1>2, <1>3 DEF Sound, TopOf

(* A container begun is on the stack, for which there is room.             *)
LEMMA PushSound ==
  ASSUME NEW r, NEW S, Sound(r, S), r.fault = "none", NEW x, Stacked(x, S)
  PROVE  /\ Sound(push(r, x), S) /\ push(r, x).fault = "none"
         /\ Len(push(r, x).stack) = Len(r.stack) + 1
<1> DEFINE q == push(r, x)
<1>1. /\ State(q) /\ q.stack = Append(r.stack, x) /\ q.names = r.names /\ q.fault = "none"
      /\ q.capacity = grow_array(Len(r.stack), r.capacity)
  BY Changes DEF Sound
<1>2. PICK C : r.stack \in Seq(C)  BY DEF Sound, IsSeq
<1>3. /\ q.stack \in Seq(C \cup {x}) /\ Len(q.stack) = Len(r.stack) + 1
      /\ DOMAIN r.stack = 1 .. Len(r.stack) /\ DOMAIN q.stack = 1 .. Len(r.stack) + 1
      /\ \A i \in 1 .. Len(r.stack) : q.stack[i] = r.stack[i]
      /\ q.stack[Len(r.stack) + 1] = x /\ q.stack # <<>>
  BY <1>1, <1>2, OneMore
<1>4. Len(r.stack) \in Nat \ {0}  BY StackIs
<1>5. r.capacity \in Nat \ {0} /\ Len(r.stack) <= r.capacity  BY DEF Sound
<1>6. q.capacity \in Nat \ {0} /\ Len(q.stack) <= q.capacity
  BY <1>1, <1>3, <1>4, <1>5, GrowsInTime
<1> HIDE DEF q
<1>7. \A i \in DOMAIN q.stack : Stacked(q.stack[i], S)  BY <1>3, <1>4 DEF Sound
<1>8. IsList(q.stack[1])  BY <1>3, <1>4 DEF Sound
<1>9. IsSeq(q.stack)  BY <1>3 DEF IsSeq
<1>10. Sound(q, S)  BY <1>1, <1>3, <1>6, <1>7, <1>8, <1>9 DEF Sound
<1> QED  BY <1>1, <1>3, <1>10 DEF q

(* The top of the stack changes, but a list stays a list.                  *)
LEMMA SetTopSound ==
  ASSUME NEW r, NEW S, Sound(r, S), r.fault = "none",
         NEW T, S \subseteq T, World(T),
         NEW x, Stacked(x, T), IsList(TopOf(r)) => IsList(x)
  PROVE  /\ Sound(SetTop(r, x), T) /\ SetTop(r, x).fault = "none"
         /\ Len(SetTop(r, x).stack) = Len(r.stack)
<1> DEFINE q == SetTop(r, x)
<1>1. /\ State(q) /\ q.stack = Append(Front(r.stack), x) /\ q.names = r.names
      /\ q.fault = "none" /\ q.capacity = r.capacity
  BY Changes DEF Sound
<1>2. PICK C : r.stack \in Seq(C)  BY DEF Sound, IsSeq
<1>3. /\ Len(r.stack) \in Nat \ {0} /\ r.stack # <<>>
      /\ TopOf(r) = r.stack[Len(r.stack)]
  BY StackIs DEF Sound
<1>4. /\ q.stack \in Seq(C \cup {x}) /\ Len(q.stack) = Len(r.stack)
      /\ DOMAIN q.stack = 1 .. Len(r.stack) /\ DOMAIN r.stack = 1 .. Len(r.stack)
      /\ \A i \in 1 .. Len(r.stack) : q.stack[i] = IF i = Len(r.stack) THEN x ELSE r.stack[i]
  <2>1. PICK f : f = Front(r.stack)  OBVIOUS
  <2>2. /\ f \in Seq(C) /\ Len(f) = Len(r.stack) - 1
        /\ \A i \in 1 .. Len(r.stack) - 1 : f[i] = r.stack[i]
    BY <1>2, <1>3, <2>1, FrontLast
  <2>3. q.stack = Append(f, x)  BY <1>1, <2>1
  <2> HIDE DEF q
  <2>4. /\ q.stack \in Seq(C \cup {x}) /\ Len(q.stack) = Len(f) + 1
        /\ DOMAIN q.stack = 1 .. Len(f) + 1
        /\ \A i \in 1 .. Len(f) : q.stack[i] = f[i]
        /\ q.stack[Len(f) + 1] = x
    BY <2>2, <2>3, OneMore
  <2>5. Len(f) + 1 = Len(r.stack) /\ DOMAIN r.stack = 1 .. Len(r.stack)
    BY <1>2, <1>3, <2>2, LenProperties
  <2> QED  BY <1>3, <2>2, <2>4, <2>5
<1> HIDE DEF q
<1>5. \A i \in DOMAIN q.stack : Stacked(q.stack[i], T)  BY <1>3, <1>4, MoreObjects DEF Sound
<1>6. IsList(q.stack[1])
  <2>1. q.stack[1] = IF 1 = Len(r.stack) THEN x ELSE r.stack[1]
    <3>1. 1 \in 1 .. Len(r.stack)  BY <1>3
    <3> QED  BY <1>4, <3>1
  <2>2. IsList(r.stack[1])  BY DEF Sound
  <2> QED  BY <1>3, <2>1, <2>2
<1>7. q.stack # <<>> /\ IsSeq(q.stack)  BY <1>3, <1>4 DEF IsSeq
<1>8. Sound(q, T)  BY <1>1, <1>4, <1>5, <1>6, <1>7 DEF Sound
<1> QED  BY <1>1, <1>4, <1>8 DEF q

(* What is begun may be taken off the stack.                               *)
LEMMA DropSound ==
  ASSUME NEW r, NEW S, Sound(r, S), r.fault = "none", Len(r.stack) > 1
  PROVE  /\ Sound(Drop(r), S) /\ Drop(r).fault = "none"
         /\ Len(Drop(r).stack) = Len(r.stack) - 1
<1> DEFINE q == Drop(r)
<1>1. /\ State(q) /\ q.stack = Front(r.stack) /\ q.names = r.names
      /\ q.fault = "none" /\ q.capacity = r.capacity
  BY Changes DEF Sound
<1>2. PICK C : r.stack \in Seq(C)  BY DEF Sound, IsSeq
<1>3. r.stack # <<>> /\ IsList(r.stack[1]) /\ r.capacity \in Nat \ {0} /\ Len(r.stack) <= r.capacity
  BY DEF Sound
<1>4. /\ q.stack \in Seq(C) /\ Len(r.stack) \in Nat \ {0} /\ Len(q.stack) = Len(r.stack) - 1
      /\ \A i \in 1 .. Len(r.stack) - 1 : q.stack[i] = r.stack[i]
  BY <1>1, <1>2, <1>3, FrontLast
<1>5. DOMAIN q.stack = 1 .. Len(r.stack) - 1 /\ DOMAIN r.stack = 1 .. Len(r.stack)
  BY <1>2, <1>4, LenProperties
<1> HIDE DEF q
<1>6. \A i \in DOMAIN q.stack : Stacked(q.stack[i], S)  BY <1>4, <1>5 DEF Sound
<1>7. q.stack # <<>> /\ q.stack[1] = r.stack[1] /\ Len(q.stack) <= q.capacity
  BY <1>1, <1>3, <1>4
<1>8. IsSeq(q.stack)  BY <1>4 DEF IsSeq
<1>9. Sound(q, S)  BY <1>1, <1>3, <1>6, <1>7, <1>8 DEF Sound
<1> QED  BY <1>1, <1>4, <1>9 DEF q

(***************************************************************************)
(* The functions of the reader.                                            *)
(***************************************************************************)

\* after a function the stack has d more containers, unless it failed, and
\* the objects are those of before and some more
Done(r, q, S, d) ==
  /\ \E T : S \subseteq T /\ Sound(q, T)
  /\ q.fault # "pop"
  /\ q.fault = "none" => Len(q.stack) = Len(r.stack) + d

(* A character is written in the bounds of its array.                      *)
LEMMA ConcatDone ==
  ASSUME NEW r, NEW S, Sound(r, S), r.fault = "none", NEW c
  PROVE  Done(r, concat(r, c), S, 0)
<1>1. Len(r.stack) \in Nat /\ Stacked(TopOf(r), S) /\ State(r)  BY StackIs DEF Sound
<1>2. CASE TopOf(r).type \in {"string", "bytevector"}
  <2> DEFINE x == Extended(TopOf(r), c)
  <2>1. concat(r, c) = SetTop(r, x)  BY <1>2 DEF concat
  <2>2. Stacked(x, S) /\ x.type = TopOf(r).type  BY <1>1, <1>2, ExtendedStacked DEF IsArray
  <2>3. ~IsList(TopOf(r)) /\ World(S)  BY <1>2 DEF IsList, Sound
  <2> HIDE DEF x
  <2>4. /\ Sound(SetTop(r, x), S) /\ SetTop(r, x).fault = "none"
        /\ Len(SetTop(r, x).stack) = Len(r.stack)
    BY <2>2, <2>3, SetTopSound
  <2> QED  BY <1>1, <2>1, <2>4 DEF Done
<1>3. CASE TopOf(r).type \notin {"string", "bytevector"}
  <2>1. concat(r, c) = Fails(r, "concat")  BY <1>3 DEF concat
  <2>2. Sound(Fails(r, "concat"), S)  BY CountsAndFaults
  <2>3. Fails(r, "concat").fault = "concat"  BY <1>1, Changes
  <2> QED  BY <2>1, <2>2, <2>3 DEF Done
<1> QED  BY <1>2, <1>3

(* The last pair of a list, or the next slot of a vector, takes an object. *)
LEMMA AppendDone ==
  ASSUME NEW r, NEW S, Sound(r, S), r.fault = "none", NEW x, Written(x, S)
  PROVE  Done(r, append(r, x), S, 0)
<1> DEFINE top == TopOf(r)
           T   == S \cup {x}
<1>1. Len(r.stack) \in Nat /\ Stacked(top, S) /\ State(r)  BY StackIs DEF Sound
<1>2. World(T) /\ x \in T /\ S \subseteq T  BY NewObject DEF Sound
<1>3. Null \in T  BY <1>2 DEF World
<1>4. Stacked(top, T)  BY <1>1, <1>2, MoreObjects
<1> HIDE DEF T
<1>5. ASSUME NEW y, Stacked(y, T), IsList(top) => IsList(y), NEW n,
             append(r, x) \in {SetTop(r, y), NewCells(SetTop(r, y), n)}
      PROVE  Done(r, append(r, x), S, 0)
  <2> DEFINE q == SetTop(r, y)
  <2>1. Sound(q, T) /\ q.fault = "none" /\ Len(q.stack) = Len(r.stack)
    BY <1>2, <1>5, SetTopSound
  <2> HIDE DEF q
  <2>2. Sound(NewCells(q, n), T)  BY <2>1, CountsAndFaults
  <2>3. NewCells(q, n).fault = "none" /\ NewCells(q, n).stack = q.stack
    BY <2>1, Changes DEF Sound
  <2>4. append(r, x) = q \/ append(r, x) = NewCells(q, n)  BY <1>5 DEF q
  <2>5. PICK p : p = append(r, x)  OBVIOUS
  <2>6. Sound(p, T) /\ p.fault = "none" /\ Len(p.stack) = Len(r.stack)
    BY <2>1, <2>2, <2>3, <2>4, <2>5
  <2>7. Done(r, p, S, 0)  BY <1>1, <1>2, <2>6 DEF Done
  <2> QED  BY <2>5, <2>7
<1>6. CASE top.type = "null"
  <2>1. append(r, x) = NewCells(SetTop(r, List(<<x>>, Null)), 1)  BY <1>6 DEF append
  <2>2. <<x>> \in Seq(T) /\ <<x>> # <<>>  BY <1>2
  <2>3. Stacked(List(<<x>>, Null), T) /\ IsList(List(<<x>>, Null))  BY <1>3, <2>2, NewList
  <2> QED  BY <1>5, <2>1, <2>3
<1>7. CASE top.type = "pair" /\ top.rest.type = "null"
  <2> DEFINE e == Append(top.of, x)
  <2>1. append(r, x) = NewCells(SetTop(r, List(e, Null)), 1)  BY <1>7 DEF append
  <2>2. top.of \in Seq(T)  BY <1>4, <1>7 DEF Stacked, ElementsIn
  <2>3. e \in Seq(T) /\ e # <<>>  BY <1>2, <2>2, AppendProperties
  <2> HIDE DEF e
  <2>4. Stacked(List(e, Null), T) /\ IsList(List(e, Null))  BY <1>3, <2>3, NewList
  <2> QED  BY <1>5, <2>1, <2>4
<1>8. CASE top.type = "vector"
  <2>1. append(r, x) = SetTop(r, Extended(top, x))  BY <1>8 DEF append
  <2>2. Stacked(Extended(top, x), T)  BY <1>2, <1>4, <1>8, ExtendedStacked DEF IsArray
  <2>3. ~IsList(top)  BY <1>8 DEF IsList
  <2> QED  BY <1>5, <2>1, <2>2, <2>3
<1>9. CASE ~(\/ top.type = "null"
             \/ top.type = "pair" /\ top.rest.type = "null"
             \/ top.type = "vector")
  <2>1. append(r, x) = Fails(r, "append")  BY <1>9 DEF append
  <2>2. Sound(Fails(r, "append"), S)  BY CountsAndFaults
  <2>3. Fails(r, "append").fault = "append"  BY <1>1, Changes
  <2> QED  BY <2>1, <2>2, <2>3 DEF Done
<1> QED  BY <1>6, <1>7, <1>8, <1>9

(* What was begun is ended: it is appended to the container below.         *)
LEMMA PopDone ==
  ASSUME NEW r, NEW S, Sound(r, S), r.fault = "none", Len(r.stack) > 1
  PROVE  Done(r, pop(r), S, 0 - 1)
<1> DEFINE x == Terminated(TopOf(r))
           q == Drop(r)
<1>1. Len(r.stack) \in Nat /\ Stacked(TopOf(r), S)  BY StackIs
<1>2. Written(x, S)  BY <1>1, TerminatedWritten
<1>3. Sound(q, S) /\ q.fault = "none" /\ Len(q.stack) = Len(r.stack) - 1  BY DropSound
<1>4. pop(r) = append(q, x)  BY DEF pop
<1> HIDE DEF q, x
<1>5. Done(q, append(q, x), S, 0)  BY <1>2, <1>3, AppendDone
<1> QED  BY <1>1, <1>3, <1>4, <1>5 DEF Done

(* The symbol of a name is looked for before one is made.                  *)
LEMMA MakeSymKeepsTable ==
  ASSUME NEW n, Table(n), NEW s, s.type = "string" => Len(s.of) < s.capacity,
         \A i \in DOMAIN n : n[i].of # s.of
  PROVE  Table(Append(n, s))
<1> DEFINE m == Append(n, s)
<1>1. PICK C : n \in Seq(C)  BY DEF Table, IsSeq
<1>2. /\ m \in Seq(C \cup {s}) /\ Len(n) \in Nat /\ Len(m) = Len(n) + 1
      /\ DOMAIN n = 1 .. Len(n) /\ DOMAIN m = 1 .. Len(n) + 1
      /\ \A i \in 1 .. Len(n) : m[i] = n[i]
      /\ m[Len(n) + 1] = s
  BY <1>1, OneMore
<1> HIDE DEF m
<1>3. \A i \in DOMAIN m : (i \in DOMAIN n /\ m[i] = n[i]) \/ (i = Len(n) + 1 /\ m[i] = s)
  BY <1>2
<1>4. \A i, j \in DOMAIN m : m[i].of = m[j].of => i = j
  BY <1>3 DEF Table
<1>5. \A i \in DOMAIN m \ DOMAIN Interned :
        m[i].type = "string" => Len(m[i].of) < m[i].capacity
  BY <1>3 DEF Table
<1>6. Len(m) >= Len(Interned)
  <2>1. Len(Interned) \in Nat  BY ReaderAssumption, LenProperties
  <2> QED  BY <1>2, <2>1 DEF Table
<1> QED  BY <1>2, <1>4, <1>5, <1>6 DEF Table, IsSeq, m

(* A symbol is an object, and its table stays one.                         *)
LEMMA MakeSymSound ==
  ASSUME NEW r, NEW S, Sound(r, S), NEW s, s.type = "string" => Len(s.of) < s.capacity
  PROVE  LET made == qz_make_sym(r, s) IN
           /\ Sound(made.r, S) /\ made.r.fault = r.fault /\ made.r.stack = r.stack
           /\ Written(Sym(made.sym), S)
<1> DEFINE made == qz_make_sym(r, s)
           known == \E i \in DOMAIN r.names : r.names[i].of = s.of
<1>1. Written(Sym(made.sym), S)  BY DEF Written, ElementsIn, IsArray, Sym
<1>2. CASE known
  <2>1. made.r = NewCells(r, 0 - 1)  BY <1>2 DEF qz_make_sym
  <2>2. /\ Sound(NewCells(r, 0 - 1), S) /\ NewCells(r, 0 - 1).fault = r.fault
        /\ NewCells(r, 0 - 1).stack = r.stack
    <3>1. Sound(NewCells(r, 0 - 1), S)
      BY Changes DEF Sound
    <3> QED  BY <3>1, Changes DEF Sound
  <2> QED  BY <1>1, <2>1, <2>2
<1>3. CASE ~known
  <2> DEFINE q == [r EXCEPT !.names = Append(@, s)]
  <2>1. made.r = q  BY <1>3 DEF qz_make_sym
  <2>2. /\ State(q) /\ q.names = Append(r.names, s) /\ q.stack = r.stack /\ q.fault = r.fault
        /\ q.capacity = r.capacity
    BY DEF Sound, State
  <2>3. Table(q.names)  BY <1>3, <2>2, MakeSymKeepsTable DEF Sound
  <2> HIDE DEF q
  <2>4. Sound(q, S)  BY <2>2, <2>3 DEF Sound
  <2> QED  BY <1>1, <2>1, <2>2, <2>4
<1> QED  BY <1>2, <1>3

(* A name is ended: its symbol is appended.                                *)
LEMMA PopSymDone ==
  ASSUME NEW r, NEW S, Sound(r, S), r.fault = "none", Len(r.stack) > 1
  PROVE  Done(r, pop_sym(r), S, 0 - 1)
<1> DEFINE s == Terminated(TopOf(r))
           q == Drop(r)
<1>1. Len(r.stack) \in Nat /\ Stacked(TopOf(r), S)  BY StackIs
<1>2. s.type = "string" => Len(s.of) < s.capacity  BY <1>1, TerminatedWritten DEF Written
<1>3. Sound(q, S) /\ q.fault = "none" /\ Len(q.stack) = Len(r.stack) - 1  BY DropSound
<1>4. pop_sym(r) = append(qz_make_sym(q, s).r, Sym(qz_make_sym(q, s).sym))  BY DEF pop_sym
<1> HIDE DEF q, s
<1> DEFINE p == qz_make_sym(q, s).r
           y == Sym(qz_make_sym(q, s).sym)
<1>5. Sound(p, S) /\ p.fault = "none" /\ p.stack = q.stack /\ Written(y, S)
  BY <1>2, <1>3, MakeSymSound
<1>6. pop_sym(r) = append(p, y)  BY <1>4
<1> HIDE DEF p, y
<1>7. Done(p, append(p, y), S, 0)  BY <1>5, AppendDone
<1> QED  BY <1>1, <1>3, <1>5, <1>6, <1>7 DEF Done

(* The last pair of a list goes, and there is a pair before it or a fault. *)
LEMMA ElideDone ==
  ASSUME NEW r, NEW S, Sound(r, S), r.fault = "none"
  PROVE  Done(r, elide_pair(r), S, 0)
<1> DEFINE top == TopOf(r)
<1>1. Len(r.stack) \in Nat /\ Stacked(top, S) /\ State(r) /\ World(S)  BY StackIs DEF Sound
<1>2. ASSUME NEW f \in {"elide", "prev"}, elide_pair(r) = Fails(r, f)
      PROVE  Done(r, elide_pair(r), S, 0)
  <2>1. Sound(Fails(r, f), S)  BY CountsAndFaults
  <2>2. Fails(r, f).fault = f  BY <1>1, Changes
  <2> QED  BY <1>2, <2>1, <2>2 DEF Done
<1>3. CASE top.type # "pair"
  <2>1. elide_pair(r) = Fails(r, "elide")  BY <1>3 DEF elide_pair
  <2> QED  BY <1>2, <2>1
<1>4. CASE top.type = "pair" /\ Len(top.of) = 1
  <2>1. elide_pair(r) = Fails(r, "prev")  BY <1>4 DEF elide_pair
  <2> QED  BY <1>2, <2>1
<1>5. CASE top.type = "pair" /\ Len(top.of) # 1
  <2> DEFINE tail == Last(top.of)
             e    == Front(top.of)
             y    == IF tail.type = "pair" THEN List(e \o tail.of, tail.rest) ELSE List(e, tail)
  <2>1. elide_pair(r) = NewCells(SetTop(r, y), 0 - 1)  BY <1>5 DEF elide_pair
  <2>2. top.of \in Seq(S) /\ top.of # <<>>  BY <1>1, <1>5 DEF Stacked, ElementsIn
  <2>3. e \in Seq(S) /\ tail \in S /\ Len(e) # 0
    <3>1. e \in Seq(S) /\ tail \in S /\ Len(top.of) \in Nat \ {0} /\ Len(e) = Len(top.of) - 1
      BY <2>2, FrontLast
    <3> QED  BY <1>5, <3>1
  <2> HIDE DEF e, tail
  <2>4. e # <<>>  BY <2>3
  <2>5. Stacked(y, S) /\ IsList(y)
    <3>1. CASE tail.type = "pair"
      <4>1. tail.of \in Seq(S) /\ tail.rest \in S  BY <1>1, <2>3, <3>1 DEF World, Written, ElementsIn
      <4>2. e \o tail.of \in Seq(S) /\ Len(e \o tail.of) = Len(e) + Len(tail.of)
        BY <2>3, <4>1, ConcatProperties
      <4>3. Len(e) \in Nat /\ Len(tail.of) \in Nat  BY <2>3, <4>1, LenProperties
      <4>4. e \o tail.of # <<>>  BY <2>3, <4>2, <4>3
      <4> QED  BY <3>1, <4>1, <4>2, <4>4, NewList
    <3>2. CASE tail.type # "pair"  BY <2>3, <2>4, <3>2, NewList
    <3> QED  BY <3>1, <3>2
  <2> DEFINE q == SetTop(r, y)
  <2> HIDE DEF y
  <2>6. Sound(q, S) /\ q.fault = "none" /\ Len(q.stack) = Len(r.stack)
    BY <1>1, <2>5, SetTopSound
  <2>7. elide_pair(r) = NewCells(q, 0 - 1)  BY <2>1
  <2> HIDE DEF q
  <2>8. Sound(NewCells(q, 0 - 1), S)  BY <2>6, CountsAndFaults
  <2>9. NewCells(q, 0 - 1).fault = "none" /\ NewCells(q, 0 - 1).stack = q.stack
    BY <2>6, Changes DEF Sound
  <2> QED  BY <1>1, <2>6, <2>7, <2>8, <2>9 DEF Done
<1> QED  BY <1>3, <1>4, <1>5

\* how a call changes the height of the stack
Height(call) ==
  IF call.do \in BeginCalls THEN 1 ELSE IF call.do \in EndCalls THEN 0 - 1 ELSE 0

(* Every call keeps the state sound and changes the height as the grammar  *)
(* counts it.                                                              *)
LEMMA PerformDone ==
  ASSUME NEW r, NEW S, Sound(r, S), r.fault = "none", NEW call, IsCall(call),
         call.do \in EndCalls => Len(r.stack) > 1
  PROVE  Done(r, Perform(r, call), S, Height(call))
<1>1. Len(r.stack) \in Nat /\ World(S)  BY StackIs DEF Sound
<1>2. ASSUME NEW x, Stacked(x, S), NEW n, call.do \in BeginCalls,
             Perform(r, call) \in {push(r, x), NewCells(push(r, x), n)}
      PROVE  Done(r, Perform(r, call), S, Height(call))
  <2> DEFINE q == push(r, x)
  <2>1. Sound(q, S) /\ q.fault = "none" /\ Len(q.stack) = Len(r.stack) + 1  BY <1>2, PushSound
  <2>2. Perform(r, call) = q \/ Perform(r, call) = NewCells(q, n)  BY <1>2
  <2> HIDE DEF q
  <2>3. Sound(NewCells(q, n), S)  BY <2>1, CountsAndFaults
  <2>4. NewCells(q, n).fault = "none" /\ NewCells(q, n).stack = q.stack
    BY <2>1, Changes DEF Sound
  <2>5. Height(call) = 1  BY <1>2 DEF Height
  <2>6. PICK p : p = Perform(r, call)  OBVIOUS
  <2>7. Sound(p, S) /\ p.fault = "none" /\ Len(p.stack) = Len(r.stack) + 1
    BY <2>1, <2>2, <2>3, <2>4, <2>6
  <2> QED  BY <2>5, <2>6, <2>7 DEF Done
<1>3. CASE call.do = "push_pair"
  <2>1. Perform(r, call) = push(r, Null)  BY <1>3 DEF Perform
  <2> QED  BY <1>2, <1>3, <2>1, NewArray DEF BeginCalls
<1>4. CASE call.do = "push_string"
  <2>1. Perform(r, call) = NewCells(push(r, make_array("string")), 1)  BY <1>4 DEF Perform
  <2> QED  BY <1>2, <1>4, <2>1, NewArray DEF BeginCalls
<1>5. CASE call.do = "push_bytevector"
  <2>1. Perform(r, call) = NewCells(push(r, make_array("bytevector")), 1)  BY <1>5 DEF Perform
  <2> QED  BY <1>2, <1>5, <2>1, NewArray DEF BeginCalls
<1>6. CASE call.do = "push_vector"
  <2>1. Perform(r, call) = NewCells(push(r, make_array("vector")), 1)  BY <1>6 DEF Perform
  <2> QED  BY <1>2, <1>6, <2>1, NewArray DEF BeginCalls
<1>7. CASE call.do = "pop"
  <2>1. Perform(r, call) = pop(r) /\ Height(call) = 0 - 1 /\ call.do \in EndCalls
    BY <1>7 DEF Perform, Height, BeginCalls, EndCalls
  <2> QED  BY <2>1, PopDone
<1>8. CASE call.do = "pop_sym"
  <2>1. Perform(r, call) = pop_sym(r) /\ Height(call) = 0 - 1 /\ call.do \in EndCalls
    BY <1>8 DEF Perform, Height, BeginCalls, EndCalls
  <2> QED  BY <2>1, PopSymDone
<1>9. CASE call.do = "append"
  <2>1. Perform(r, call) = append(r, call.of) /\ Height(call) = 0
    BY <1>9 DEF Perform, Height, BeginCalls, EndCalls
  <2>2. Written(call.of, S)  BY <1>9 DEF IsCall, Written, ElementsIn, IsArray
  <2> QED  BY <2>1, <2>2, AppendDone
<1>10. CASE call.do = "concat"
  <2>1. Perform(r, call) = concat(r, call.of) /\ Height(call) = 0
    BY <1>10 DEF Perform, Height, BeginCalls, EndCalls
  <2> QED  BY <2>1, ConcatDone
<1>11. CASE call.do = "elide_pair"
  <2>1. Perform(r, call) = elide_pair(r) /\ Height(call) = 0
    BY <1>11 DEF Perform, Height, BeginCalls, EndCalls
  <2> QED  BY <2>1, ElideDone
<1> QED
  BY <1>3, <1>4, <1>5, <1>6, <1>7, <1>8, <1>9, <1>10, <1>11 DEF IsCall, BeginCalls, EndCalls

(***************************************************************************)
(* The invariant.                                                          *)
(***************************************************************************)

\* the objects are those of a world, those on the stack still written
Objects(S) ==
  /\ World(S) /\ result \in S
  /\ IsSeq(g_stack) /\ \A i \in DOMAIN g_stack : Stacked(g_stack[i], S)

CallsToCome == IsSeq(todo) /\ \A i \in DOMAIN todo : IsCall(todo[i])

\* the stack has room, its bottom is a list, and the calls to come end all above it
StackFits ==
  /\ capacity \in Nat \ {0} /\ g_stack # <<>> /\ IsList(g_stack[1]) /\ Len(g_stack) <= capacity
  /\ EndsWhatItBegins(todo)
  /\ Len(g_stack) + CountFrom(todo, 1, BeginCalls) = 1 + CountFrom(todo, 1, EndCalls)

RInv ==
  /\ phase \in {"idle", "reading", "done"} /\ (phase = "reading" => text \in Text)
  /\ \E S : Objects(S)
  /\ Table(names) /\ CallsToCome /\ RootKept
  /\ phase # "reading" => g_stack = <<>> /\ todo = <<>>
  /\ phase = "reading" /\ fault = "none" => StackFits

(* The world at the start: nothing is read, and the symbols made before    *)
(* have different names.                                                   *)
LEMMA InitInv == Init => RInv
<1> SUFFICES ASSUME Init PROVE RInv
  OBVIOUS
<1>1. Objects({Null, None})
  <2>1. World({Null, None})  BY DEF World, Written, ElementsIn, IsArray, Null, None
  <2>2. IsSeq(<<>>) /\ DOMAIN <<>> = {}  BY EmptySeq, LenProperties DEF IsSeq
  <2> QED  BY <2>1, <2>2 DEF Init, Objects
<1>2. Table(names)
  <2>1. Interned \in Seq(Range(Interned)) /\ IsInjective(Interned)  BY ReaderAssumption
  <2>2. DOMAIN Interned = 1 .. Len(Interned) /\ Len(Interned) \in Nat  BY <2>1, LenProperties
  <2> DEFINE n(i) == Array("string", Interned[i], Len(Interned[i]))
             C    == {n(i) : i \in 1 .. Len(Interned)}
  <2>3. names = [i \in 1 .. Len(Interned) |-> n(i)]  BY <2>2 DEF Init
  <2>4. names \in Seq(C)
    <3>1. \A i \in 1 .. Len(Interned) : n(i) \in C  OBVIOUS
    <3> HIDE DEF C
    <3>2. names \in [1 .. Len(Interned) -> C]  BY <2>3, <3>1
    <3> QED  BY <2>2, <3>2
  <2>5. DOMAIN names = 1 .. Len(Interned) /\ \A i \in DOMAIN names : names[i].of = Interned[i]
    BY <2>3 DEF Array
  <2>6. Len(names) = Len(Interned)  BY <2>2, <2>3, <2>4, LenProperties
  <2>7. \A i, j \in DOMAIN names : names[i].of = names[j].of => i = j
    BY <2>1, <2>2, <2>5 DEF IsInjective
  <2>8. DOMAIN names \ DOMAIN Interned = {}  BY <2>2, <2>5
  <2>9. IsSeq(names)  BY <2>4 DEF IsSeq
  <2> QED  BY <2>2, <2>6, <2>7, <2>8, <2>9 DEF Table
<1>3. CallsToCome
  <2>1. IsSeq(<<>>) /\ DOMAIN <<>> = {}  BY EmptySeq, LenProperties DEF IsSeq
  <2> QED  BY <2>1 DEF Init, CallsToCome
<1> QED  BY <1>1, <1>2, <1>3 DEF Init, RInv, RootKept

(* A datum is begun: the calls of its text end what they begin.            *)
LEMMA BeginReadInv == ASSUME RInv, NEW t \in Text, BeginRead(t) PROVE RInv'
<1>1. /\ phase' = "reading" /\ text' = t /\ todo' = Calls(t) /\ g_stack' = <<Null>>
      /\ capacity' = INITIAL_CAPACITY /\ UNCHANGED <<names, result, fault>>
  BY DEF BeginRead
<1>2. /\ Calls(t) \in Seq(Range(Calls(t))) /\ Bracketed(Calls(t))
      /\ \A i \in DOMAIN Calls(t) : IsCall(Calls(t)[i])
  BY GrammarAssumption
<1>3. INITIAL_CAPACITY \in Nat \ {0}  BY ReaderAssumption
<1>4. \E S : Objects(S)'
  <2>1. PICK S : Objects(S)  BY DEF RInv
  <2>2. <<Null>> \in Seq({Null}) /\ DOMAIN <<Null>> = 1 .. 1 /\ <<Null>>[1] = Null
    OBVIOUS
  <2>3. Stacked(Null, S)  BY NewArray
  <2>4. IsSeq(<<Null>>)  BY <2>2 DEF IsSeq
  <2> QED  BY <1>1, <2>1, <2>2, <2>3, <2>4 DEF Objects
<1>5. StackFits'
  <2>1. Len(<<Null>>) = 1 /\ <<Null>> # <<>> /\ <<Null>>[1] = Null  OBVIOUS
  <2>2. IsList(Null)  BY NewArray
  <2> QED  BY <1>1, <1>2, <1>3, <2>1, <2>2 DEF StackFits, Bracketed
<1>6. CallsToCome'  BY <1>1, <1>2 DEF CallsToCome, IsSeq
<1>7. RootKept' /\ Table(names)'  BY <1>1 DEF RInv, RootKept
<1> QED  BY <1>1, <1>4, <1>5, <1>6, <1>7 DEF RInv

(* A text that does not parse: what its calls would have ended is not begun. *)
LEMMA SyntaxErrorInv == ASSUME RInv, SyntaxError PROVE RInv'
<1>1. /\ phase = "reading" /\ todo = Calls(text) /\ todo' = <<>>
      /\ UNCHANGED <<phase, text, g_stack, capacity, names, cells, result, fault>>
  BY DEF SyntaxError
<1>2. CallsToCome'
  <2>1. IsSeq(<<>>) /\ DOMAIN <<>> = {}  BY EmptySeq, LenProperties DEF IsSeq
  <2> QED  BY <1>1, <2>1 DEF CallsToCome
<1>3. ASSUME fault = "none" PROVE StackFits'
  <2>1. StackFits /\ text \in Text  BY <1>1, <1>3 DEF RInv
  <2>2. Calls(text) \in Seq(Range(Calls(text))) /\ Bracketed(Calls(text))
    BY <2>1, GrammarAssumption
  <2>3. CountFrom(todo, 1, BeginCalls) = CountFrom(todo, 1, EndCalls)  BY <1>1, <2>2 DEF Bracketed
  <2>4. todo # <<>> /\ 1 \in 1 .. Len(todo)  BY <1>1, <2>2, EmptySeq DEF SyntaxError
  <2>5. CountFrom(todo, 1, EndCalls) \in Nat  BY <1>1, <2>2, <2>4, CountNext
  <2>6. PICK C : g_stack \in Seq(C)  BY DEF RInv, Objects, IsSeq
  <2>7. Len(g_stack) \in Nat  BY <2>6, LenProperties
  <2>8. Len(g_stack) = 1
    <3>1. Len(g_stack) + CountFrom(todo, 1, BeginCalls) = 1 + CountFrom(todo, 1, EndCalls)
      BY <2>1 DEF StackFits
    <3>2. PICK b : b = CountFrom(todo, 1, BeginCalls)  OBVIOUS
    <3>3. PICK e : e = CountFrom(todo, 1, EndCalls)  OBVIOUS
    <3>4. PICK n : n = Len(g_stack)  OBVIOUS
    <3>5. b \in Nat /\ n \in Nat /\ b = e /\ n + b = 1 + e
      BY <2>3, <2>5, <2>7, <3>1, <3>2, <3>3, <3>4
    <3> QED  BY <3>4, <3>5
  <2>9. CountFrom(<<>>, 1, BeginCalls) = 0 /\ CountFrom(<<>>, 1, EndCalls) = 0  BY CountNone
  <2>10. EndsWhatItBegins(<<>>)
    <3>1. DOMAIN <<>> = {}  BY EmptySeq, LenProperties
    <3> QED  BY <3>1 DEF EndsWhatItBegins
  <2> QED  BY <1>1, <2>1, <2>8, <2>9, <2>10 DEF StackFits
<1>4. \E S : Objects(S)'  BY <1>1 DEF RInv, Objects
<1>5. RootKept' /\ Table(names)'  BY <1>1 DEF RInv, RootKept
<1> QED  BY <1>1, <1>2, <1>3, <1>4, <1>5 DEF RInv

(* A call is performed: the stack is as high as the calls to come need it. *)
LEMMA ActionInv == ASSUME RInv, Action PROVE RInv'
<1> DEFINE call == Head(todo)
           r    == Perform(Ready, call)
<1>1. /\ todo # <<>> /\ fault = "none" /\ todo' = Tail(todo)
      /\ g_stack' = r.stack /\ capacity' = r.capacity /\ names' = r.names /\ fault' = r.fault
      /\ UNCHANGED <<phase, text, result>>
  BY DEF Action
<1>2. phase = "reading" /\ text \in Text /\ StackFits  BY <1>1 DEF RInv
<1>3. PICK S : Objects(S)  BY DEF RInv
<1>4. /\ Ready.stack = g_stack /\ Ready.fault = "none" /\ Ready.names = names
      /\ Ready.capacity = capacity /\ State(Ready)
  BY DEF Ready, State
<1>5. Sound(Ready, S)  BY <1>2, <1>3, <1>4 DEF Sound, Objects, RInv, StackFits
<1>6. PICK C : todo \in Seq(C)  BY DEF RInv, CallsToCome, IsSeq
<1>7. /\ Len(todo) \in Nat \ {0} /\ DOMAIN todo = 1 .. Len(todo) /\ call = todo[1]
      /\ Tail(todo) \in Seq(C) /\ Len(Tail(todo)) = Len(todo) - 1
      /\ DOMAIN Tail(todo) = 1 .. Len(todo) - 1
      /\ \A i \in 1 .. Len(todo) - 1 : Tail(todo)[i] = todo[i + 1]
  BY <1>1, <1>6, EmptySeq, LenProperties, HeadTailProperties
<1>8. IsCall(call)  BY <1>7 DEF RInv, CallsToCome
<1> DEFINE B(k) == CountFrom(todo, k, BeginCalls)
           E(k) == CountFrom(todo, k, EndCalls)
<1>9. /\ B(1) \in Nat /\ B(2) \in Nat /\ E(1) \in Nat /\ E(2) \in Nat
      /\ B(1) = B(2) + (IF call.do \in BeginCalls THEN 1 ELSE 0)
      /\ E(1) = E(2) + (IF call.do \in EndCalls THEN 1 ELSE 0)
  <2>1. 1 \in 1 .. Len(todo) /\ 1 + 1 = 2  BY <1>7
  <2> QED  BY <1>6, <1>7, <2>1, CountNext
<1>10. \A k \in 1 .. Len(todo) - 1 :
         /\ CountFrom(Tail(todo), k, BeginCalls) = B(k + 1)
         /\ CountFrom(Tail(todo), k, EndCalls) = E(k + 1)
  BY <1>1, <1>6, <1>7, CountTail
<1>11. CountFrom(Tail(todo), 1, BeginCalls) = B(2) /\ CountFrom(Tail(todo), 1, EndCalls) = E(2)
  BY <1>1, <1>6, CountTail
<1>12. B(2) <= E(2)
  <2>1. CASE Len(todo) = 1
    <3>1. Len(Tail(todo)) = 0  BY <1>7, <2>1
    <3>2. Tail(todo) = <<>>  BY <1>7, <3>1, EmptySeq
    <3>3. CountFrom(<<>>, 1, BeginCalls) = 0 /\ CountFrom(<<>>, 1, EndCalls) = 0  BY CountNone
    <3>4. B(2) = 0 /\ E(2) = 0  BY <1>11, <3>2, <3>3
    <3> QED  BY <3>4
  <2>2. CASE Len(todo) # 1
    <3>1. 2 \in DOMAIN todo  BY <1>7, <2>2
    <3> QED  BY <1>2, <3>1 DEF StackFits, EndsWhatItBegins
  <2> QED  BY <2>1, <2>2
<1>13. Len(g_stack) \in Nat /\ Len(g_stack) + B(1) = 1 + E(1)
  BY <1>2, <1>4, <1>5, StackIs DEF StackFits
<1>14. BeginCalls \cap EndCalls = {}  BY DEF BeginCalls, EndCalls
<1> HIDE DEF call, B, E
<1>15. call.do \in EndCalls => Len(g_stack) > 1  BY <1>9, <1>12, <1>13, <1>14
<1>16. Len(g_stack) + Height(call) + B(2) = 1 + E(2)  BY <1>9, <1>13, <1>14 DEF Height
<1>17. Done(Ready, r, S, Height(call))  BY <1>4, <1>5, <1>8, <1>15, PerformDone
<1> HIDE DEF r
<1>18. PICK T : S \subseteq T /\ Sound(r, T)  BY <1>17 DEF Done
<1>19. Objects(T)'  BY <1>1, <1>3, <1>18 DEF Objects, Sound
<1>20. CallsToCome'
  <2>1. \A i \in DOMAIN Tail(todo) : IsCall(Tail(todo)[i])  BY <1>7 DEF RInv, CallsToCome
  <2> QED  BY <1>1, <1>7, <2>1 DEF CallsToCome, IsSeq
<1>21. ASSUME r.fault = "none" PROVE StackFits'
  <2>1. /\ r.capacity \in Nat \ {0} /\ r.stack # <<>> /\ IsList(r.stack[1])
        /\ Len(r.stack) <= r.capacity /\ Len(r.stack) = Len(g_stack) + Height(call)
    BY <1>4, <1>17, <1>18, <1>21 DEF Sound, Done
  <2>2. EndsWhatItBegins(Tail(todo))
    <3> SUFFICES ASSUME NEW k \in 1 .. Len(todo) - 1 PROVE B(k + 1) <= E(k + 1)
      BY <1>7, <1>10 DEF EndsWhatItBegins
    <3>1. k + 1 \in DOMAIN todo  BY <1>7
    <3> QED  BY <1>2, <3>1 DEF StackFits, EndsWhatItBegins, B, E
  <2> QED  BY <1>1, <1>11, <1>16, <2>1, <2>2 DEF StackFits
<1>22. RootKept' /\ Table(names)'  BY <1>1, <1>17, <1>18 DEF Done, RootKept, Sound
<1> QED  BY <1>1, <1>2, <1>19, <1>20, <1>21, <1>22 DEF RInv

(* What was read is a part of what was on the stack.                       *)
LEMMA EndReadInv == ASSUME RInv, EndRead PROVE RInv'
<1>1. /\ phase = "reading" /\ todo = <<>> /\ fault = "none" /\ phase' = "done"
      /\ result' = Kept /\ g_stack' = <<>> /\ UNCHANGED <<text, todo, names, fault>>
  BY DEF EndRead
<1>2. PICK S : Objects(S)  BY DEF RInv
<1>3. StackFits  BY <1>1 DEF RInv
<1>4. Kept \in S
  <2>1. PICK C : g_stack \in Seq(C)  BY <1>2 DEF Objects, IsSeq
  <2>2. /\ g_stack # <<>> /\ Head(g_stack) = g_stack[1] /\ DOMAIN g_stack = 1 .. Len(g_stack)
        /\ Len(g_stack) \in Nat \ {0}
    BY <1>3, <2>1, EmptySeq, LenProperties DEF StackFits
  <2>3. Stacked(g_stack[1], S)  BY <1>2, <2>2 DEF Objects
  <2>4. CASE g_stack[1].type = "pair"
    <3>1. g_stack[1].of \in Seq(S) /\ g_stack[1].of # <<>>
      BY <2>3, <2>4 DEF Stacked, ElementsIn
    <3>2. Head(g_stack[1].of) \in S  BY <3>1, HeadTailProperties
    <3> QED  BY <2>2, <2>4, <3>2 DEF Kept
  <2>5. CASE g_stack[1].type # "pair"
    <3>1. Kept = None  BY <2>2, <2>5 DEF Kept
    <3> QED  BY <1>2, <3>1 DEF Objects, World
  <2> QED  BY <2>4, <2>5
<1>5. Objects(S)'
  <2>1. IsSeq(<<>>) /\ DOMAIN <<>> = {}  BY EmptySeq, LenProperties DEF IsSeq
  <2> QED  BY <1>1, <1>2, <1>4, <2>1 DEF Objects
<1>6. CallsToCome' /\ RootKept' /\ Table(names)'  BY <1>1 DEF RInv, CallsToCome, RootKept
<1> QED  BY <1>1, <1>5, <1>6 DEF RInv

(* The program lets go of what was read.                                   *)
LEMMA ReleaseInv == ASSUME RInv, Release PROVE RInv'
<1>1. /\ phase = "done" /\ phase' = "idle" /\ result' = None
      /\ UNCHANGED <<todo, g_stack, capacity, names, fault>>
  BY DEF Release
<1>2. PICK S : Objects(S)  BY DEF RInv
<1>3. Objects(S)'  BY <1>1, <1>2 DEF Objects, World
<1>4. CallsToCome' /\ RootKept' /\ Table(names)'  BY <1>1 DEF RInv, CallsToCome, RootKept
<1> QED  BY <1>1, <1>3, <1>4 DEF RInv

(* The calls to come fit the stack, every object is made of whole objects, *)
(* and the table of symbols is one, whatever the grammar does between      *)
(* brackets.                                                               *)
THEOREM ReaderInvariant == Spec => []RInv
<1>1. RInv /\ [Next]_vars => RInv'
  <2> SUFFICES ASSUME RInv, [Next]_vars PROVE RInv'
    OBVIOUS
  <2>1. CASE \E t \in Text : BeginRead(t)  BY <2>1, BeginReadInv
  <2>2. CASE SyntaxError  BY <2>2, SyntaxErrorInv
  <2>3. CASE Action  BY <2>3, ActionInv
  <2>4. CASE EndRead  BY <2>4, EndReadInv
  <2>5. CASE Release  BY <2>5, ReleaseInv
  <2>6. CASE UNCHANGED vars
    <3>1. \E S : Objects(S)'  BY <2>6 DEF vars, RInv, Objects
    <3> QED  BY <2>6, <3>1 DEF vars, RInv, CallsToCome, RootKept, StackFits
  <2> QED  BY <2>1, <2>2, <2>3, <2>4, <2>5, <2>6 DEF Next
<1> QED  BY <1>1, InitInv, PTL DEF Spec

(***************************************************************************)
(* What follows from it.                                                   *)
(***************************************************************************)

(* The bottom of the stack is a list, and what is begun and not ended is   *)
(* above it: the calls still to come end all of it, for every text of      *)
(* every grammar whose calls are bracketed.                                *)
THEOREM TypeCorrect == Spec => []TypeOK
<1>1. RInv => TypeOK
  <2> SUFFICES ASSUME RInv PROVE TypeOK
    OBVIOUS
  <2>1. ASSUME phase = "reading", fault = "none"
        PROVE  /\ Head(g_stack).type \in {"null", "pair"} /\ Len(g_stack) <= capacity
               /\ Len(g_stack) + CountFrom(todo, 1, BeginCalls) = 1 + CountFrom(todo, 1, EndCalls)
    <3>1. StackFits  BY <2>1 DEF RInv
    <3>2. PICK C : g_stack \in Seq(C)  BY DEF RInv, Objects, IsSeq
    <3>3. Head(g_stack) = g_stack[1]  BY <3>1, <3>2, HeadTailProperties DEF StackFits
    <3> QED  BY <3>1, <3>3 DEF StackFits, IsList
  <2> QED  BY <2>1 DEF RInv, TypeOK
<1> QED  BY <1>1, ReaderInvariant, PTL

(* The assertion in pop holds: the root is never popped.                   *)
THEOREM RootIsKept == Spec => []RootKept
<1>1. RInv => RootKept  BY DEF RInv
<1> QED  BY <1>1, ReaderInvariant, PTL

(* No two symbols have the same name, whatever is read and however often.  *)
THEOREM SymbolsAreUnique == Spec => []SymbolsUnique
<1>1. RInv => SymbolsUnique  BY DEF RInv, Table, SymbolsUnique
<1> QED  BY <1>1, ReaderInvariant, PTL

(* No array is written behind its end, whatever the capacity it begins     *)
(* with, the length of what is read and the depth of its nesting.          *)
THEOREM ArraysInBounds == Spec => []InBounds
<1>1. RInv => InBounds
  <2> SUFFICES ASSUME RInv PROVE InBounds
    OBVIOUS
  <2>1. PICK S : Objects(S)  BY DEF RInv
  <2>2. \A x \in S : x.type = "string" => Len(x.of) < x.capacity
    BY <2>1 DEF Objects, World, Written
  <2>3. ASSUME NEW i \in DOMAIN g_stack
        PROVE  /\ Elements(g_stack[i]) \subseteq S
               /\ IsArray(g_stack[i]) => Len(g_stack[i].of) <= g_stack[i].capacity
    <3>1. Stacked(g_stack[i], S)  BY <2>1 DEF Objects
    <3>2. \A s \in Seq(S) : Range(s) \subseteq S  BY ElementOfSeq, LenProperties DEF Range
    <3>3. Elements(g_stack[i]) \subseteq S
      BY <3>1, <3>2 DEF Stacked, ElementsIn, Elements
    <3> QED  BY <3>1, <3>3 DEF Stacked, ElementsIn
  <2>4. \A i \in DOMAIN g_stack : \A a \in Elements(g_stack[i]) : a \in S  BY <2>3
  <2>5. result \in S  BY <2>1 DEF Objects
  <2>6. \A i \in DOMAIN names \ DOMAIN Interned :
          names[i].type = "string" => Len(names[i].of) < names[i].capacity
    BY DEF RInv, Table
  <2>7. \A a \in Popped : a.type = "string" => Len(a.of) < a.capacity
    <3> TAKE a \in Popped
    <3>1. a \in S \/ \E i \in DOMAIN names \ DOMAIN Interned : a = names[i]
      <4>1. \/ \E i \in DOMAIN g_stack : a \in Elements(g_stack[i])
            \/ \E i \in DOMAIN names \ DOMAIN Interned : a = names[i]
            \/ a = result
        BY DEF Popped
      <4> QED  BY <2>4, <2>5, <4>1
    <3> QED  BY <2>2, <2>6, <3>1
  <2> QED  BY <2>3, <2>7 DEF InBounds, IsArray
<1> QED  BY <1>1, ReaderInvariant, PTL
===============================================================================
