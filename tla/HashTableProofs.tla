--------------------------- MODULE HashTableProofs ---------------------------
(***************************************************************************)
(* For every set of keys and values, every hash function, every width of   *)
(* the machine word and every initial capacity: the searches of a table    *)
(* end and are exact, its load stays bounded, and the table implements the *)
(* map of FiniteMap.                                                       *)
(***************************************************************************)
EXTENDS HashTable, FiniteSetTheorems, WellFoundedInduction, TLAPS

\* A set of natural numbers has a least element: the strict-subset order on the
\* intervals 0 .. n is well-founded.
LEMMA LeastExists ==
  ASSUME NEW S \in SUBSET Nat, S # {}
  PROVE  \E n \in S : \A m \in S : n <= m
<1> DEFINE R == StrictSubsetOrdering(Nat)
           T == {0 .. n : n \in S}
<1>1. \A n \in S : IsFiniteSet(0 .. n) /\ 0 .. n \subseteq Nat
  BY FS_Interval
<1>2. T \subseteq FiniteSubsetsOf(Nat)
  BY <1>1 DEF FiniteSubsetsOf
<1>3. IsWellFoundedOn(R, FiniteSubsetsOf(Nat))
  BY FS_StrictSubsetOrderingWellFounded
<1>4. T # {}
  OBVIOUS
<1> HIDE DEF R, T
<1>5. PICK x \in T : \A y \in T : ~ (<<y, x>> \in R)
  BY <1>2, <1>3, <1>4, WFMin
<1>6. PICK n \in S : x = 0 .. n
  BY DEF T
<1>7. ASSUME NEW m \in S, m < n
      PROVE  FALSE
  <2>1. 0 .. m \in T
    BY DEF T
  <2>2. 0 .. m \subseteq 0 .. n /\ 0 .. m # 0 .. n
    <3>1. n \in 0 .. n /\ n \notin 0 .. m
      BY <1>7
    <3> QED
      BY <1>7, <3>1
  <2>3. <<0 .. m, 0 .. n>> \in R
    BY <2>2 DEF R, StrictSubsetOrdering
  <2> QED
    BY <1>5, <1>6, <2>1, <2>3
<1> QED
  BY <1>7

\* The operators of get_hash over a table given as arguments (h the hash
\* function, d the pairs, c the capacity), so that the lemmas apply before and
\* after a step.
At(h, c, k, n) == ((h[k] + n) % Word) % c

Hitting(h, d, c, k) ==
  {n \in 0 .. Word - 1 : d[At(h, c, k, n)].first \in {None, k}}

Found(h, d, c, k) ==
  At(h, c, k, CHOOSE n \in Hitting(h, d, c, k) : \A m \in Hitting(h, d, c, k) : n <= m)

Table(h, d, c) ==
  /\ h \in [Key -> Hashes]
  /\ c \in 1 .. MaxCapacity
  /\ d \in [Index(c) -> Pair]

\* The remainders that SlotAt takes.
LEMMA ModRange ==
  ASSUME NEW a \in Int, NEW b \in Nat, b > 0
  PROVE  a % b \in 0 .. b - 1
OBVIOUS

LEMMA ModSmall ==
  ASSUME NEW b \in Nat, NEW a \in 0 .. b - 1
  PROVE  a % b = a /\ (a + b) % b = a
OBVIOUS

\* What a table and the assumption on the constants give of its parameters.
LEMMA Bounds ==
  ASSUME NEW h, NEW d, NEW c, Table(h, d, c), NEW k \in Key
  PROVE  /\ Word \in Nat /\ Word > 0
         /\ h[k] \in 0 .. Word - 1
         /\ c \in Nat /\ c > 0 /\ c <= Word
<1>1. h[k] \in Hashes /\ c \in 1 .. MaxCapacity
  BY DEF Table
<1>2. /\ Word \in Nat /\ MaxCapacity \in Nat
      /\ Hashes \subseteq 0 .. Word - 1 /\ MaxCapacity <= Word
  BY HashTableAssumption DEF HashTableAssumption
<1>3. Word > 0 /\ c > 0 /\ c <= Word /\ c \in Nat
  BY <1>1, <1>2
<1>4. h[k] \in 0 .. Word - 1
  BY <1>1, <1>2
<1> QED
  BY <1>2, <1>3, <1>4

\* A probe looks at a slot of the table.
LEMMA AtInTable ==
  ASSUME NEW h, NEW d, NEW c, Table(h, d, c), NEW k \in Key, NEW n \in Nat
  PROVE  At(h, c, k, n) \in Index(c)
<1>1. h[k] + n \in Nat /\ c \in Nat /\ c > 0 /\ Word \in Nat /\ Word > 0
  BY Bounds
<1>2. (h[k] + n) % Word \in 0 .. Word - 1
  BY <1>1, ModRange
<1>3. (h[k] + n) % Word \in Nat
  BY <1>1, <1>2
<1> QED
  BY <1>1, <1>3, ModRange DEF At, Index

\* Every slot is looked at by some probe, the wrap of the index notwithstanding.
LEMMA EverySlotProbed ==
  ASSUME NEW h, NEW d, NEW c, Table(h, d, c), NEW k \in Key, NEW s \in Index(c)
  PROVE  \E n \in 0 .. Word - 1 : At(h, c, k, n) = s
<1>1. /\ Word \in Nat /\ Word > 0
      /\ h[k] \in 0 .. Word - 1
      /\ c \in Nat /\ c > 0 /\ c <= Word
  BY Bounds
<1>2. s \in 0 .. c - 1 /\ s \in 0 .. Word - 1
  BY <1>1 DEF Index
<1>3. s % Word = s /\ (s + Word) % Word = s /\ s % c = s
  <2>1. s % Word = s /\ (s + Word) % Word = s
    BY <1>1, <1>2, ModSmall
  <2>2. s % c = s
    BY <1>1, <1>2, ModSmall
  <2> QED
    BY <2>1, <2>2
<1>4. CASE s >= h[k]
  <2>1. s - h[k] \in 0 .. Word - 1 /\ h[k] + (s - h[k]) = s
    BY <1>1, <1>2, <1>4
  <2>2. At(h, c, k, s - h[k]) = s
    BY <1>3, <2>1 DEF At
  <2> QED
    BY <2>1, <2>2
<1>5. CASE s < h[k]
  <2>1. /\ s - h[k] + Word \in 0 .. Word - 1
        /\ h[k] + (s - h[k] + Word) = s + Word
    BY <1>1, <1>2, <1>5
  <2>2. At(h, c, k, s - h[k] + Word) = s
    BY <1>3, <2>1 DEF At
  <2> QED
    BY <2>1, <2>2
<1> QED
  BY <1>1, <1>2, <1>4, <1>5

\* Where a search stops is where its least hit is.
LEMMA FoundIsLeast ==
  ASSUME NEW h, NEW d, NEW c, NEW k, NEW n \in Hitting(h, d, c, k),
         \A m \in Hitting(h, d, c, k) : n <= m
  PROVE  Found(h, d, c, k) = At(h, c, k, n)
<1> DEFINE H == Hitting(h, d, c, k)
           Least(p) == \A m \in H : p <= m
           q == CHOOSE p \in H : Least(p)
<1>1. q \in H /\ Least(q)
  OBVIOUS
<1>2. q \in Int /\ n \in Int /\ q <= n /\ n <= q
  BY <1>1, HashTableAssumption DEF Hitting, HashTableAssumption
<1>3. q = n
  BY <1>2
<1> QED
  BY <1>3 DEF Found

\* A search that hits at all has a least hit and stops there.
LEMMA LeastHit ==
  ASSUME NEW h, NEW d, NEW c, NEW k, Hitting(h, d, c, k) # {}
  PROVE  \E n \in Hitting(h, d, c, k) :
            /\ \A m \in Hitting(h, d, c, k) : n <= m
            /\ Found(h, d, c, k) = At(h, c, k, n)
<1>1. Hitting(h, d, c, k) \in SUBSET Nat
  BY HashTableAssumption DEF Hitting, HashTableAssumption
<1>2. PICK n \in Hitting(h, d, c, k) : \A m \in Hitting(h, d, c, k) : n <= m
  BY <1>1, LeastExists
<1> QED
  BY <1>2, FoundIsLeast

\* A search stops at a slot that is empty or holds its key.
LEMMA FoundHits ==
  ASSUME NEW h, NEW d, NEW c, Table(h, d, c), NEW k \in Key,
         Hitting(h, d, c, k) # {}
  PROVE  /\ Found(h, d, c, k) \in Index(c)
         /\ d[Found(h, d, c, k)].first \in {None, k}
<1>1. PICK n \in Hitting(h, d, c, k) : Found(h, d, c, k) = At(h, c, k, n)
  BY LeastHit
<1>2. n \in Nat
  BY HashTableAssumption DEF Hitting, HashTableAssumption
<1> QED
  BY <1>1, <1>2, AtInTable DEF Hitting

\* A slot that is empty or holds the key is enough for the search to stop.
LEMMA SlotHits ==
  ASSUME NEW h, NEW d, NEW c, Table(h, d, c), NEW k \in Key,
         NEW s \in Index(c), d[s].first \in {None, k}
  PROVE  Hitting(h, d, c, k) # {}
<1>1. PICK n \in 0 .. Word - 1 : At(h, c, k, n) = s
  BY EverySlotProbed
<1> QED
  BY <1>1 DEF Hitting

\* Every pair is in the slot where the search for its key stops.
Settled(h, d, c) ==
  \A s \in Index(c) : d[s].first # None => Found(h, d, c, d[s].first) = s

\* Writing a pair where the search for its key stops leaves every pair where
\* its search stops: an empty slot was filled or the pair of the same key replaced.
LEMMA WriteKeepsSettled ==
  ASSUME NEW h, NEW d, NEW c, Table(h, d, c), Settled(h, d, c),
         NEW k \in Key, Hitting(h, d, c, k) # {},
         NEW p \in Pair, p.first = k
  PROVE  Settled(h, [d EXCEPT ![Found(h, d, c, k)] = p], c)
<1> DEFINE t == Found(h, d, c, k)
           e == [d EXCEPT ![t] = p]
<1>1. k # None
  BY HashTableAssumption DEF HashTableAssumption
<1>2. t \in Index(c) /\ d[t].first \in {None, k}
  BY FoundHits
<1>3. d \in [Index(c) -> Pair]
  BY DEF Table
<1>4. e[t] = p /\ \A s \in Index(c) : s # t => e[s] = d[s]
  BY <1>2, <1>3
<1>5. \A j \in Key, n \in 0 .. Word - 1 : At(h, c, j, n) \in Index(c)
  <2>1. 0 .. Word - 1 \subseteq Nat
    BY HashTableAssumption DEF HashTableAssumption
  <2> QED
    BY <2>1, AtInTable
<1> HIDE DEF e, t
<1>6. SUFFICES ASSUME NEW s \in Index(c), e[s].first # None
               PROVE  Found(h, e, c, e[s].first) = s
  BY DEF Settled, e, t
<1>7. CASE s = t
  <2>1. Hitting(h, e, c, k) = Hitting(h, d, c, k)
    BY <1>2, <1>4, <1>5 DEF Hitting
  <2>2. Found(h, e, c, k) = t
    BY <2>1 DEF Found, t
  <2> QED
    BY <1>4, <1>7, <2>2
<1>8. CASE s # t
  <2> DEFINE j == d[s].first
  <2>1. e[s].first = j /\ j # None /\ j \in Key
    BY <1>3, <1>4, <1>6, <1>8 DEF Pair
  <2>2. Found(h, d, c, j) = s
    BY <2>1 DEF Settled
  <2>3. j # k
    BY <1>8, <2>2 DEF t
  <2> HIDE DEF j
  <2>4. Hitting(h, d, c, j) # {}
    BY <2>1, SlotHits DEF j
  <2>5. PICK n \in Hitting(h, d, c, j) :
               /\ \A m \in Hitting(h, d, c, j) : n <= m
               /\ At(h, c, j, n) = s
    BY <2>2, <2>4, LeastHit
  <2>6. Hitting(h, e, c, j) \subseteq Hitting(h, d, c, j)
    BY <1>1, <1>4, <1>5, <2>1, <2>3 DEF Hitting
  <2>7. n \in Hitting(h, e, c, j)
    BY <1>4, <1>8, <2>5 DEF Hitting
  <2> QED
    BY <2>1, <2>5, <2>6, <2>7, FoundIsLeast
<1> QED
  BY <1>7, <1>8

\* A new table is settled.
LEMMA EmptyIsSettled ==
  ASSUME NEW h, NEW c
  PROVE  Settled(h, NewData(c), c)
BY DEF Settled, NewData, Empty

\* A settled table holds no key twice.
LEMMA SettledKeysDiffer ==
  ASSUME NEW h, NEW d, NEW c, Settled(h, d, c),
         NEW s \in Index(c), NEW t \in Index(c),
         d[s].first # None, d[s].first = d[t].first
  PROVE  s = t
BY DEF Settled

-----------------------------------------------------------------------------

\* The slots of S that hold a pair.
Filled(d, S) == {s \in S : d[s].first # None}

\* An interval has finitely many filled slots.
LEMMA FilledFinite ==
  ASSUME NEW d, NEW i \in Int, NEW j \in Int
  PROVE  /\ IsFiniteSet(Filled(d, i .. j))
         /\ Cardinality(Filled(d, i .. j)) \in Nat
<1>1. IsFiniteSet(i .. j)
  BY FS_Interval
<1>2. Filled(d, i .. j) \subseteq i .. j
  BY DEF Filled
<1>3. IsFiniteSet(Filled(d, i .. j))
  BY <1>1, <1>2, FS_Subset
<1> QED
  BY <1>3, FS_CardinalityType

\* A table with fewer pairs than slots has an empty slot.
LEMMA EmptySlotExists ==
  ASSUME NEW d, NEW c \in Nat, Cardinality(Filled(d, Index(c))) < c
  PROVE  \E s \in Index(c) : d[s].first = None
<1>1. IsFiniteSet(Index(c)) /\ Cardinality(Index(c)) = c
  <2>1. Cardinality(0 .. c - 1) = IF 0 > c - 1 THEN 0 ELSE (c - 1) - 0 + 1
    BY FS_Interval
  <2>2. IsFiniteSet(0 .. c - 1)
    BY FS_Interval
  <2> QED
    BY <2>1, <2>2 DEF Index
<1>2. ASSUME \A s \in Index(c) : d[s].first # None
      PROVE  FALSE
  <2>1. Filled(d, Index(c)) = Index(c)
    BY <1>2 DEF Filled
  <2> QED
    BY <1>1, <2>1
<1> QED
  BY <1>2

\* An element adds one at most to the size of a set, and none if it was there.
LEMMA AddedCard ==
  ASSUME NEW S, IsFiniteSet(S), NEW x
  PROVE  /\ IsFiniteSet(S \cup {x})
         /\ Cardinality(S \cup {x}) \in Nat
         /\ Cardinality(S \cup {x}) <= Cardinality(S) + 1
         /\ x \in S => Cardinality(S \cup {x}) = Cardinality(S)
<1>1. Cardinality(S) \in Nat
  BY FS_CardinalityType
<1>2. IsFiniteSet(S \cup {x})
  BY FS_AddElement
<1>3. Cardinality(S \cup {x}) \in Nat
  BY <1>2, FS_CardinalityType
<1>4. x \in S => S \cup {x} = S
  OBVIOUS
<1>5. x \notin S => Cardinality(S \cup {x}) = Cardinality(S) + 1
  BY FS_AddElement
<1> QED
  BY <1>1, <1>2, <1>3, <1>4, <1>5

-----------------------------------------------------------------------------

\* The slots of the old table that realloc_hash has yet to look at.
Remaining == pos .. oldCap - 1

\* The load.  While pairs are copied the new capacity is twice the old one, and
\* what is stored and what remains to be copied are counted by size.
LoadInv ==
  /\ Cardinality(Occupied) + Cardinality(Filled(old, Remaining)) <= size
  /\ Idle => size * 10 <= capacity * 7
  /\ ~ Idle => capacity = 2 * oldCap /\ size * 10 <= oldCap * 7 + 10

\* The keys.  The table is settled at every step of a copy, and no key that
\* remains to be copied occurs twice or is in the new table already.
KeysInv ==
  /\ Settled(hash, data, capacity)
  /\ \A s, t \in Remaining :
       old[s].first # None /\ old[s].first = old[t].first => s = t
  /\ \A s \in Remaining, t \in Occupied : old[s].first # data[t].first

\* The inductive invariant.
IInv == TypeOK /\ LoadInv /\ KeysInv

\* What the type invariant gives of the sizes.
LEMMA TypeOKFacts ==
  ASSUME TypeOK
  PROVE  /\ Table(hash, data, capacity)
         /\ capacity \in Nat /\ capacity > 0 /\ capacity <= MaxCapacity
         /\ size \in Nat /\ oldCap \in Nat /\ pos \in Nat /\ pos <= oldCap
         /\ MaxCapacity \in Nat
<1>1. MaxCapacity \in Nat
  BY HashTableAssumption DEF HashTableAssumption
<1>2. Table(hash, data, capacity) /\ capacity \in 1 .. MaxCapacity
  BY DEF TypeOK, Table
<1> QED
  BY <1>1, <1>2 DEF TypeOK

\* The occupied slots are finite in number.
LEMMA OccupiedFinite ==
  ASSUME TypeOK
  PROVE  /\ Occupied = Filled(data, Index(capacity))
         /\ IsFiniteSet(Occupied) /\ Cardinality(Occupied) \in Nat
<1>1. Occupied = Filled(data, Index(capacity))
  BY DEF Occupied, Filled
<1>2. 0 \in Int /\ capacity - 1 \in Int
  BY TypeOKFacts
<1>3. /\ IsFiniteSet(Filled(data, 0 .. capacity - 1))
      /\ Cardinality(Filled(data, 0 .. capacity - 1)) \in Nat
  BY <1>2, FilledFinite
<1> QED
  BY <1>1, <1>3 DEF Index

\* make_hash makes pairs.
LEMMA NewDataType ==
  ASSUME NEW c \in Nat
  PROVE  NewData(c) \in [Index(c) -> Pair]
BY DEF NewData, Empty, Pair

\* A new table satisfies the invariant.
LEMMA InitIInv == Init => IInv
<1> SUFFICES ASSUME Init PROVE IInv
  OBVIOUS
<1>1. /\ InitCapacity \in Nat /\ InitCapacity > 0 /\ MaxCapacity \in Nat
      /\ InitCapacity <= MaxCapacity
  BY HashTableAssumption DEF HashTableAssumption
<1>2. TypeOK
  BY <1>1, NewDataType DEF Init, TypeOK
<1>3. Remaining = {}
  BY DEF Init, Remaining
<1>4. Occupied = {} /\ Filled(old, Remaining) = {}
  BY <1>3 DEF Init, Occupied, NewData, Empty, Filled
<1>5. LoadInv
  <2>1. Cardinality({}) = 0
    BY FS_EmptySet
  <2> QED
    BY <1>1, <1>4, <2>1 DEF Init, LoadInv, Idle
<1>6. KeysInv
  BY <1>3, EmptyIsSettled DEF Init, KeysInv
<1> QED
  BY <1>2, <1>5, <1>6 DEF IInv

\* The operators of the module and those over arguments are the same.
LEMMA GetHashIsFound ==
  ASSUME NEW k
  PROVE  /\ GetHash(k) = Found(hash, data, capacity, k)
         /\ ProbeHits(k) = Hitting(hash, data, capacity, k)
<1>1. ProbeHits(k) = Hitting(hash, data, capacity, k)
  BY DEF ProbeHits, Hits, SlotAt, Hitting, At
<1> QED
  BY <1>1 DEF GetHash, SlotAt, Found, At

\* The load leaves an empty slot, so every search ends: 7/10 of the capacity
\* between operations, 7/20 and one pair while the table grows.
LEMMA LoadLeavesRoom ==
  ASSUME TypeOK, LoadInv
  PROVE  /\ ProbeTerminates
         /\ LoadBounded
<1>1. /\ capacity \in Nat /\ capacity > 0 /\ size \in Nat /\ oldCap \in Nat
      /\ Table(hash, data, capacity)
  BY TypeOKFacts
<1>2. Occupied = Filled(data, Index(capacity))
  BY OccupiedFinite
<1>3. Cardinality(Occupied) \in Nat
  BY OccupiedFinite
<1>4. Cardinality(Filled(old, Remaining)) \in Nat
  BY FilledFinite, TypeOKFacts DEF Remaining
<1>5. Cardinality(Occupied) <= size
  BY <1>1, <1>3, <1>4 DEF LoadInv
<1>6. size < capacity
  <2>1. CASE Idle
    BY <1>1, <2>1 DEF LoadInv
  <2>2. CASE ~ Idle
    <3>1. capacity = 2 * oldCap /\ size * 10 <= oldCap * 7 + 10
      BY <2>2 DEF LoadInv
    <3> QED
      BY <1>1, <3>1
  <2> QED
    BY <2>1, <2>2
<1>7. PICK s \in Index(capacity) : data[s].first = None
  <2>1. Cardinality(Filled(data, Index(capacity))) < capacity
    BY <1>1, <1>2, <1>3, <1>5, <1>6
  <2> QED
    BY <1>1, <2>1, EmptySlotExists
<1>8. ProbeTerminates
  BY <1>1, <1>7, SlotHits, GetHashIsFound DEF ProbeTerminates
<1>9. LoadBounded
  <2>1. Idle => ~ (size * 10 > capacity * 7)
    BY <1>1 DEF LoadInv
  <2> QED
    BY <1>5, <2>1 DEF LoadBounded, Overloaded
<1> QED
  BY <1>8, <1>9

\* The pairs after qz_hash_set has written its own.
Written(k, v) == [data EXCEPT ![GetHash(k)] = [first |-> k, rest |-> v]]

\* The write of qz_hash_set: the table stays settled, and size counts it.
LEMMA WrittenFacts ==
  ASSUME IInv, Idle, NEW k \in Key, NEW v \in Value
  PROVE  /\ Written(k, v) \in [Index(capacity) -> Pair]
         /\ Settled(hash, Written(k, v), capacity)
         /\ IsFiniteSet(Filled(Written(k, v), Index(capacity)))
         /\ Cardinality(Filled(Written(k, v), Index(capacity))) \in Nat
         /\ Cardinality(Filled(Written(k, v), Index(capacity))) <= SizeAfter(k)
         /\ SizeAfter(k) \in Nat /\ SizeAfter(k) <= size + 1
<1> DEFINE t == GetHash(k)
           p == [first |-> k, rest |-> v]
           w == Written(k, v)
<1>1. /\ Table(hash, data, capacity) /\ ProbeTerminates /\ LoadBounded
      /\ size \in Nat /\ capacity \in Nat
  BY LoadLeavesRoom, TypeOKFacts DEF IInv
<1>2. /\ t = Found(hash, data, capacity, k)
      /\ Hitting(hash, data, capacity, k) # {}
  BY <1>1, GetHashIsFound DEF ProbeTerminates
<1>3. t \in Index(capacity) /\ data[t].first \in {None, k}
  BY <1>1, <1>2, FoundHits
<1>4. p \in Pair /\ p.first = k /\ k # None
  BY HashTableAssumption DEF HashTableAssumption, Pair
<1>5. data \in [Index(capacity) -> Pair]
  BY <1>1 DEF Table
<1>6. w \in [Index(capacity) -> Pair]
  BY <1>3, <1>4, <1>5 DEF Written
<1>7. Settled(hash, w, capacity)
  <2>1. w = [data EXCEPT ![Found(hash, data, capacity, k)] = p]
    BY <1>2 DEF Written
  <2>2. Settled(hash, data, capacity)
    BY DEF IInv, KeysInv
  <2> HIDE DEF p, w, t
  <2>3. Settled(hash, [data EXCEPT ![Found(hash, data, capacity, k)] = p], capacity)
    BY <1>1, <1>2, <1>4, <2>2, WriteKeepsSettled
  <2> QED
    BY <2>1, <2>3
<1>8. Filled(w, Index(capacity)) = Occupied \cup {t}
  BY <1>3, <1>4, <1>5 DEF Written, Filled, Occupied
<1>9. IsFiniteSet(Occupied) /\ Cardinality(Occupied) \in Nat
  BY OccupiedFinite DEF IInv
<1>10. /\ IsFiniteSet(Occupied \cup {t})
       /\ Cardinality(Occupied \cup {t}) \in Nat
       /\ Cardinality(Occupied \cup {t}) <= Cardinality(Occupied) + 1
       /\ t \in Occupied => Cardinality(Occupied \cup {t}) = Cardinality(Occupied)
  BY <1>9, AddedCard
<1>11. Cardinality(Occupied) <= size
  BY <1>1 DEF LoadBounded
<1>12. CASE data[t].first = None
  <2>1. SizeAfter(k) = size + 1
    BY <1>12 DEF SizeAfter
  <2>2. /\ Cardinality(Occupied \cup {t}) <= SizeAfter(k)
        /\ SizeAfter(k) \in Nat /\ SizeAfter(k) <= size + 1
    BY <1>1, <1>9, <1>10, <1>11, <2>1
  <2> QED
    BY <1>6, <1>7, <1>8, <1>10, <2>2
<1>13. CASE data[t].first # None
  <2>1. SizeAfter(k) = size
    BY <1>13 DEF SizeAfter
  <2>2. t \in Occupied
    BY <1>3, <1>13 DEF Occupied
  <2>3. /\ Cardinality(Occupied \cup {t}) <= SizeAfter(k)
        /\ SizeAfter(k) \in Nat /\ SizeAfter(k) <= size + 1
    BY <1>1, <1>9, <1>10, <1>11, <2>1, <2>2
  <2> QED
    BY <1>6, <1>7, <1>8, <1>10, <2>3
<1> QED
  BY <1>12, <1>13

\* qz_hash_set in a table that does not grow.
LEMMA HashSetStays ==
  ASSUME IInv, NEW k \in Key, NEW v \in Value, HashSet(k, v),
         ~ Overloaded(SizeAfter(k), capacity)
  PROVE  IInv'
<1> DEFINE w == Written(k, v)
<1>1. /\ Idle /\ size' = SizeAfter(k) /\ data' = w
      /\ UNCHANGED <<hash, old, oldCap, pos, capacity>>
  BY DEF HashSet, Written
<1>2. /\ w \in [Index(capacity) -> Pair]
      /\ Settled(hash, w, capacity)
      /\ Cardinality(Filled(w, Index(capacity))) \in Nat
      /\ Cardinality(Filled(w, Index(capacity))) <= SizeAfter(k)
      /\ SizeAfter(k) \in Nat
  BY <1>1, WrittenFacts
<1>3. TypeOK /\ capacity \in Nat
  BY TypeOKFacts DEF IInv
<1>4. Remaining = {} /\ Remaining' = {}
  BY <1>1, <1>3 DEF Idle, TypeOK, Remaining
<1>5. TypeOK'
  BY <1>1, <1>2, <1>3 DEF TypeOK
<1>6. LoadInv'
  <2>1. Occupied' = Filled(w, Index(capacity))
    BY <1>1 DEF Occupied, Filled
  <2>2. Filled(old, Remaining)' = {}
    BY <1>4 DEF Filled
  <2>3. Cardinality({}) = 0
    BY FS_EmptySet
  <2>4. Cardinality(Occupied') + Cardinality(Filled(old, Remaining)') <= size'
    BY <1>1, <1>2, <2>1, <2>2, <2>3
  <2>5. Idle' /\ size' * 10 <= capacity' * 7
    BY <1>1, <1>2, <1>3 DEF Idle, Overloaded
  <2> QED
    BY <2>4, <2>5 DEF LoadInv
<1>7. KeysInv'
  BY <1>1, <1>2, <1>4 DEF KeysInv
<1> QED
  BY <1>5, <1>6, <1>7 DEF IInv

\* qz_hash_set in a table that grows.
LEMMA HashSetGrows ==
  ASSUME IInv, NEW k \in Key, NEW v \in Value, HashSet(k, v),
         Overloaded(SizeAfter(k), capacity)
  PROVE  IInv'
<1> DEFINE w == Written(k, v)
<1>1. /\ Idle /\ size' = SizeAfter(k) /\ hash' = hash
      /\ old' = w /\ oldCap' = capacity /\ pos' = 0
      /\ capacity' = capacity * 2 /\ data' = NewData(capacity * 2)
      /\ capacity * 2 <= MaxCapacity
  BY DEF HashSet, Written
<1>2. /\ w \in [Index(capacity) -> Pair]
      /\ Settled(hash, w, capacity)
      /\ Cardinality(Filled(w, Index(capacity))) \in Nat
      /\ Cardinality(Filled(w, Index(capacity))) <= SizeAfter(k)
      /\ SizeAfter(k) \in Nat /\ SizeAfter(k) <= size + 1
  BY <1>1, WrittenFacts
<1>3. /\ TypeOK /\ capacity \in Nat /\ capacity > 0 /\ size \in Nat
      /\ MaxCapacity \in Nat
  BY TypeOKFacts DEF IInv
<1>4. Remaining' = Index(capacity)
  BY <1>1 DEF Remaining, Index
<1>5. Occupied' = {}
  BY <1>1 DEF Occupied, NewData, Empty
<1>6. TypeOK'
  <2>1. data' \in [Index(capacity') -> Pair] /\ capacity' \in 1 .. MaxCapacity
    BY <1>1, <1>3, NewDataType
  <2>2. pos' \in 0 .. oldCap'
    BY <1>1, <1>3
  <2> QED
    BY <1>1, <1>2, <1>3, <2>1, <2>2 DEF TypeOK
<1>7. LoadInv'
  <2>1. Filled(old, Remaining)' = Filled(w, Index(capacity))
    BY <1>1, <1>4 DEF Filled
  <2>2. Cardinality({}) = 0
    BY FS_EmptySet
  <2>3. Cardinality(Occupied') + Cardinality(Filled(old, Remaining)') <= size'
    BY <1>1, <1>2, <1>5, <2>1, <2>2
  <2>4. ~ Idle'
    BY <1>1, <1>3 DEF Idle
  <2>5. size * 10 <= capacity * 7
    BY <1>1 DEF IInv, LoadInv
  <2>6. capacity' = 2 * oldCap' /\ size' * 10 <= oldCap' * 7 + 10
    BY <1>1, <1>2, <1>3, <2>5
  <2> QED
    BY <2>3, <2>4, <2>6 DEF LoadInv
<1>8. KeysInv'
  <2>1. Settled(hash, data, capacity)'
    BY <1>1, EmptyIsSettled
  <2>2. ASSUME NEW s \in Remaining', NEW u \in Remaining',
               w[s].first # None, w[s].first = w[u].first
        PROVE  s = u
    BY <1>2, <1>4, <2>2, SettledKeysDiffer
  <2> QED
    BY <1>1, <1>5, <2>1, <2>2 DEF KeysInv
<1> QED
  BY <1>6, <1>7, <1>8 DEF IInv

\* An iteration of realloc_hash that leaves a pair behind.
LEMMA CopyPairSkips ==
  ASSUME IInv, CopyPair, Skipped(old[pos])
  PROVE  IInv'
<1>1. /\ ~ Idle /\ pos < oldCap /\ pos' = pos + 1
      /\ UNCHANGED <<hash, data, capacity, size, old, oldCap>>
  BY DEF CopyPair, AfterPair
<1>2. TypeOK /\ pos \in Nat /\ oldCap \in Nat /\ size \in Nat /\ capacity \in Nat
  BY TypeOKFacts DEF IInv
<1>3. Remaining' \subseteq Remaining
  BY <1>1, <1>2 DEF Remaining
<1>4. TypeOK'
  BY <1>1, <1>2 DEF TypeOK
<1>5. LoadInv'
  <2>1. Filled(old, Remaining)' \subseteq Filled(old, Remaining)
    BY <1>1, <1>3 DEF Filled
  <2>2. /\ IsFiniteSet(Filled(old, Remaining))
        /\ Cardinality(Filled(old, Remaining)) \in Nat
    BY <1>2, FilledFinite DEF Remaining
  <2>3. /\ Cardinality(Filled(old, Remaining)') \in Nat
        /\ Cardinality(Filled(old, Remaining)') <= Cardinality(Filled(old, Remaining))
    BY <2>1, <2>2, FS_Subset, FS_CardinalityType
  <2>4. Occupied' = Occupied /\ Cardinality(Occupied) \in Nat
    BY <1>1, <1>2, OccupiedFinite DEF Occupied
  <2>5. Cardinality(Occupied) + Cardinality(Filled(old, Remaining)) <= size
    BY DEF IInv, LoadInv
  <2>6. Cardinality(Occupied') + Cardinality(Filled(old, Remaining)') <= size'
    BY <1>1, <1>2, <2>2, <2>3, <2>4, <2>5
  <2> QED
    BY <1>1, <2>6 DEF IInv, LoadInv, Idle
<1>6. KeysInv'
  BY <1>1, <1>3 DEF IInv, KeysInv, Occupied
<1> QED
  BY <1>4, <1>5, <1>6 DEF IInv

\* An iteration of realloc_hash that copies a pair.
LEMMA CopyPairMoves ==
  ASSUME IInv, CopyPair, ~ Skipped(old[pos])
  PROVE  IInv'
<1> DEFINE p == old[pos]
           t == GetHash(p.first)
           w == [data EXCEPT ![t] = p]
<1>1. /\ ~ Idle /\ pos < oldCap /\ pos' = pos + 1
      /\ data' = w /\ ProbeHits(p.first) # {}
      /\ UNCHANGED <<hash, capacity, size, old, oldCap>>
  BY DEF CopyPair, AfterPair, NewPlace
<1>2. /\ TypeOK /\ pos \in Nat /\ oldCap \in Nat /\ size \in Nat /\ capacity \in Nat
      /\ Table(hash, data, capacity)
  BY TypeOKFacts DEF IInv
<1>3. pos \in Index(oldCap) /\ pos \in Remaining /\ p \in Pair
  BY <1>1, <1>2 DEF TypeOK, Remaining, Index
<1>4. p.first \in Key /\ p.first # None
  BY <1>3 DEF Pair, Skipped
<1>5. Remaining' = Remaining \ {pos}
  BY <1>1, <1>2 DEF Remaining
<1>6. /\ t = Found(hash, data, capacity, p.first)
      /\ Hitting(hash, data, capacity, p.first) # {}
  BY <1>1, GetHashIsFound
<1>7. t \in Index(capacity)
  BY <1>2, <1>4, <1>6, FoundHits
<1>8. data \in [Index(capacity) -> Pair]
  BY <1>2 DEF TypeOK
<1>9. Settled(hash, w, capacity)
  <2>1. w = [data EXCEPT ![Found(hash, data, capacity, p.first)] = p]
    BY <1>6
  <2>2. Settled(hash, data, capacity)
    BY DEF IInv, KeysInv
  <2> HIDE DEF p, w, t
  <2>3. Settled(hash, [data EXCEPT ![Found(hash, data, capacity, p.first)] = p], capacity)
    BY <1>2, <1>3, <1>4, <1>6, <2>2, WriteKeepsSettled
  <2> QED
    BY <2>1, <2>3
<1>10. Occupied' = Occupied \cup {t}
  BY <1>1, <1>4, <1>7, <1>8 DEF Occupied
<1>11. TypeOK'
  <2>1. w \in [Index(capacity) -> Pair]
    BY <1>3, <1>7, <1>8
  <2>2. pos' \in 0 .. oldCap'
    BY <1>1, <1>2
  <2> QED
    BY <1>1, <1>2, <2>1, <2>2 DEF TypeOK
<1>12. LoadInv'
  <2> DEFINE F == Filled(old, Remaining)
  <2>1. Filled(old, Remaining)' = F \ {pos} /\ pos \in F
    BY <1>1, <1>3, <1>4, <1>5 DEF Filled
  <2>2. IsFiniteSet(F) /\ Cardinality(F) \in Nat
    BY <1>2, FilledFinite DEF Remaining
  <2>3. Cardinality(F \ {pos}) = Cardinality(F) - 1
    BY <2>1, <2>2, FS_RemoveElement
  <2>4. IsFiniteSet(Occupied) /\ Cardinality(Occupied) \in Nat
    BY <1>2, OccupiedFinite
  <2>5. /\ Cardinality(Occupied \cup {t}) \in Nat
        /\ Cardinality(Occupied \cup {t}) <= Cardinality(Occupied) + 1
    BY <2>4, AddedCard
  <2>6. Cardinality(Occupied) + Cardinality(F) <= size
    BY DEF IInv, LoadInv
  <2> HIDE DEF F
  <2>7. Cardinality(Occupied \cup {t}) + Cardinality(F \ {pos}) <= size
    BY <1>2, <2>2, <2>3, <2>4, <2>5, <2>6
  <2>8. Cardinality(Occupied') + Cardinality(Filled(old, Remaining)') <= size'
    BY <1>1, <1>10, <2>1, <2>7
  <2> QED
    BY <1>1, <2>8 DEF IInv, LoadInv, Idle
<1>13. KeysInv'
  <2>1. Settled(hash, data, capacity)'
    BY <1>1, <1>9
  <2>2. ASSUME NEW s \in Remaining', NEW u \in Occupied'
        PROVE  old[s].first # w[u].first
    <3>1. s \in Remaining /\ s # pos
      BY <1>5
    <3>2. CASE u = t
      BY <1>3, <1>4, <1>7, <1>8, <3>1, <3>2 DEF IInv, KeysInv
    <3>3. CASE u # t
      BY <1>7, <1>8, <1>10, <3>1, <3>3 DEF IInv, KeysInv, Occupied
    <3> QED
      BY <3>2, <3>3
  <2>3. ASSUME NEW s \in Remaining', NEW u \in Remaining',
               old[s].first # None, old[s].first = old[u].first
        PROVE  s = u
    BY <1>5, <2>3 DEF IInv, KeysInv
  <2> QED
    BY <1>1, <2>1, <2>2, <2>3 DEF KeysInv
<1> QED
  BY <1>11, <1>12, <1>13 DEF IInv

\* The end of realloc_hash.
LEMMA ReallocDoneStep ==
  ASSUME IInv, ReallocDone
  PROVE  IInv'
<1>1. /\ ~ Idle /\ pos = oldCap
      /\ old' = NewData(0) /\ oldCap' = 0 /\ pos' = 0
      /\ UNCHANGED <<hash, data, capacity, size>>
  BY DEF ReallocDone
<1>2. TypeOK /\ size \in Nat /\ oldCap \in Nat /\ capacity \in Nat
  BY TypeOKFacts DEF IInv
<1>3. Remaining = {} /\ Remaining' = {} /\ Occupied' = Occupied
  BY <1>1, <1>2 DEF Remaining, Occupied
<1>4. TypeOK'
  BY <1>1, <1>2, NewDataType DEF TypeOK
<1>5. LoadInv'
  <2>1. Filled(old, Remaining) = {} /\ Filled(old, Remaining)' = {}
    BY <1>3 DEF Filled
  <2>2. Cardinality(Occupied') + Cardinality(Filled(old, Remaining)') <= size'
    BY <1>1, <1>3, <2>1 DEF IInv, LoadInv
  <2>3. capacity = 2 * oldCap /\ size * 10 <= oldCap * 7 + 10
    BY <1>1 DEF IInv, LoadInv
  <2>4. oldCap > 0
    BY <1>1, <1>2 DEF Idle
  <2>5. Idle' /\ size' * 10 <= capacity' * 7
    BY <1>1, <1>2, <2>3, <2>4 DEF Idle
  <2> QED
    BY <2>2, <2>5 DEF LoadInv
<1>6. KeysInv'
  BY <1>1, <1>3 DEF IInv, KeysInv
<1> QED
  BY <1>4, <1>5, <1>6 DEF IInv

\* Every step keeps the invariant.
LEMMA StepIInv == IInv /\ [Next]_vars => IInv'
<1> SUFFICES ASSUME IInv, [Next]_vars PROVE IInv'
  OBVIOUS
<1>1. CASE \E k \in Key, v \in Value : HashSet(k, v)
  BY <1>1, HashSetStays, HashSetGrows
<1>2. CASE CopyPair
  BY <1>2, CopyPairSkips, CopyPairMoves
<1>3. CASE ReallocDone
  BY <1>3, ReallocDoneStep
<1>4. CASE UNCHANGED vars
  BY <1>4 DEF vars, IInv, TypeOK, LoadInv, KeysInv, Idle, Occupied, Remaining
<1> QED
  BY <1>1, <1>2, <1>3, <1>4 DEF Next

\* In a settled table a search finds what the table holds.
LEMMA SearchFromIInv == IInv => SearchIsExact
<1> SUFFICES ASSUME IInv PROVE SearchIsExact
  OBVIOUS
<1>1. \A s \in Occupied : GetHash(data[s].first) = s
  BY GetHashIsFound DEF IInv, KeysInv, Settled, Occupied
<1>2. ASSUME Idle, NEW k \in Key
      PROVE  HashGet(k) = IF Pairs(k) = {} THEN Absent ELSE ValueOf(k)
  <2> DEFINE t == GetHash(k)
  <2>1. t \in Index(capacity) /\ data[t].first \in {None, k}
    BY LoadLeavesRoom, TypeOKFacts, GetHashIsFound, FoundHits
       DEF IInv, ProbeTerminates
  <2>2. pos .. oldCap - 1 = {}
    BY <1>2, TypeOKFacts DEF IInv, Idle
  <2>3. Contents = {data[s] : s \in Index(capacity)}
    BY <2>2 DEF Contents
  <2>4. k # None
    BY HashTableAssumption DEF HashTableAssumption
  <2>5. \A s \in Index(capacity) : data[s].first = k => s = t
    BY <1>1, <2>4 DEF Occupied
  <2>6. CASE data[t].first = None
    <3>1. Pairs(k) = {}
      BY <2>3, <2>4, <2>5, <2>6 DEF Pairs
    <3> QED
      BY <2>6, <3>1 DEF HashGet
  <2>7. CASE data[t].first = k
    <3>1. Pairs(k) = {data[t]}
      BY <2>1, <2>3, <2>5, <2>7 DEF Pairs
    <3>2. ValueOf(k) = data[t].rest
      BY <3>1 DEF ValueOf
    <3> QED
      BY <2>4, <2>7, <3>1, <3>2 DEF HashGet
  <2> QED
    BY <2>1, <2>6, <2>7
<1> QED
  BY <1>1, <1>2 DEF SearchIsExact

\* The invariant holds always.
THEOREM Inductive == Spec => []IInv
BY InitIInv, StepIInv, PTL DEF Spec

\* The variables of the model have their types.
THEOREM TypeCorrect == Spec => []TypeOK
<1>1. IInv => TypeOK
  BY DEF IInv
<1> QED
  BY <1>1, Inductive, PTL

\* size never falls below what is stored, and between operations the load is at
\* most 7/10, whatever is stored (qz_hash_set, realloc_hash).
THEOREM LoadStaysBounded == Spec => []LoadBounded
<1>1. IInv => LoadBounded
  BY LoadLeavesRoom DEF IInv
<1> QED
  BY <1>1, Inductive, PTL

\* get_hash returns for every key in every state, in the middle of a
\* reallocation too.
THEOREM ProbesTerminate == Spec => []ProbeTerminates
<1>1. IInv => ProbeTerminates
  BY LoadLeavesRoom DEF IInv
<1> QED
  BY <1>1, Inductive, PTL

\* Every search stops at its own pair, and between operations qz_hash_get
\* returns exactly what the table holds.
THEOREM SearchStaysExact == Spec => []SearchIsExact
BY SearchFromIInv, Inductive, PTL

-----------------------------------------------------------------------------

\* The value of a key whose pairs are P.
ValueIn(P) == IF P = {} THEN Absent ELSE (CHOOSE p \in P : TRUE).rest

\* The map is a function of the pairs of each key.
LEMMA MapNowFromPairs ==
  /\ MapNow = [k \in Key |-> ValueIn(Pairs(k))]
  /\ \A p : ValueIn({p}) = p.rest
  /\ ValueIn({}) = Absent
<1>1. MapNow = [k \in Key |-> ValueIn(Pairs(k))]
  BY DEF MapNow, ValueIn, ValueOf
<1>2. ASSUME NEW p
      PROVE  ValueIn({p}) = p.rest
  <2>1. (CHOOSE q \in {p} : TRUE) = p
    OBVIOUS
  <2> QED
    BY <2>1 DEF ValueIn
<1>3. ValueIn({}) = Absent
  BY DEF ValueIn
<1> QED
  BY <1>1, <1>2, <1>3

\* A step that keeps the value of every key keeps the map.
LEMMA SamePairsSameMap ==
  ASSUME \A j \in Key : ValueIn(Pairs(j))' = ValueIn(Pairs(j))
  PROVE  MapNow' = MapNow
<1>1. MapNow' = [k \in Key |-> ValueIn(Pairs(k))']
  BY MapNowFromPairs DEF MapNow, ValueIn, ValueOf
<1> QED
  BY <1>1, MapNowFromPairs

\* qz_hash_set leaves its pair as the only one of its key, and the pairs of the
\* other keys as they were.
LEMMA HashSetPairs ==
  ASSUME IInv, NEW k \in Key, NEW v \in Value, HashSet(k, v)
  PROVE  /\ Pairs(k)' = {[first |-> k, rest |-> v]}
         /\ \A j \in Key \ {k} : Pairs(j)' = Pairs(j)
<1> DEFINE t == GetHash(k)
           w == Written(k, v)
<1>1. Idle
  BY DEF HashSet
<1>2. /\ t \in Index(capacity) /\ data[t].first \in {None, k}
      /\ data \in [Index(capacity) -> Pair]
      /\ capacity \in Nat
  BY LoadLeavesRoom, TypeOKFacts, GetHashIsFound, FoundHits
     DEF IInv, ProbeTerminates, TypeOK
<1>3. None \notin Key
  BY HashTableAssumption DEF HashTableAssumption
<1>4. pos .. oldCap - 1 = {}
  BY <1>1, TypeOKFacts DEF IInv, Idle
<1>5. Contents = {data[s] : s \in Index(capacity)}
  BY <1>4 DEF Contents
<1>6. \A s \in Index(capacity) : data[s].first = k => s = t
  BY <1>3, SearchFromIInv DEF SearchIsExact, Occupied
<1>7. /\ w[t] = [first |-> k, rest |-> v]
      /\ \A s \in Index(capacity) : s # t => w[s] = data[s]
  BY <1>2 DEF Written
<1>8. \A j \in Key : Pairs(j)' = {p \in {w[s] : s \in Index(capacity)} : p.first = j}
  <2>1. CASE Overloaded(SizeAfter(k), capacity)
    <3>1. /\ old' = w /\ oldCap' = capacity /\ pos' = 0
          /\ capacity' = capacity * 2 /\ data' = NewData(capacity * 2)
      BY <2>1 DEF HashSet, Written
    <3>2. Contents' = {NewData(capacity * 2)[s] : s \in Index(capacity * 2)}
                      \cup {w[s] : s \in Index(capacity)}
      BY <3>1 DEF Contents, Index
    <3>3. \A s \in Index(capacity * 2) : NewData(capacity * 2)[s].first = None
      BY DEF NewData, Empty
    <3> QED
      BY <1>3, <3>2, <3>3 DEF Pairs
  <2>2. CASE ~ Overloaded(SizeAfter(k), capacity)
    <3>1. data' = w /\ UNCHANGED <<old, oldCap, pos, capacity>>
      BY <2>2 DEF HashSet, Written
    <3>2. Contents' = {w[s] : s \in Index(capacity)}
      BY <1>4, <3>1 DEF Contents
    <3> QED
      BY <3>2 DEF Pairs
  <2> QED
    BY <2>1, <2>2
<1> HIDE DEF t, w
<1>9. Pairs(k)' = {[first |-> k, rest |-> v]}
  BY <1>2, <1>6, <1>7, <1>8
<1>10. ASSUME NEW j \in Key \ {k}
       PROVE  Pairs(j)' = Pairs(j)
  BY <1>2, <1>3, <1>5, <1>7, <1>8 DEF Pairs
<1> QED
  BY <1>9, <1>10

\* qz_hash_set is Bind.
LEMMA HashSetBinds ==
  ASSUME IInv, NEW k \in Key, NEW v \in Value, HashSet(k, v)
  PROVE  Map!Next
<1>1. /\ Pairs(k)' = {[first |-> k, rest |-> v]}
      /\ \A j \in Key \ {k} : Pairs(j)' = Pairs(j)
  BY HashSetPairs
<1>2. MapNow' = [j \in Key |-> ValueIn(Pairs(j)')]
  BY DEF MapNow, ValueIn, ValueOf
<1>3. ValueIn(Pairs(k)') = v
  <2> DEFINE p == [first |-> k, rest |-> v]
  <2>1. p.rest = v
    OBVIOUS
  <2> HIDE DEF p
  <2>2. ValueIn({p}) = p.rest
    BY MapNowFromPairs
  <2>3. Pairs(k)' = {p}
    BY <1>1 DEF p
  <2> QED
    BY <2>1, <2>2, <2>3
<1>4. MapNow' = [MapNow EXCEPT ![k] = v]
  BY <1>1, <1>2, <1>3, MapNowFromPairs
<1>5. Idle /\ (~ Idle)' \in BOOLEAN
  BY DEF HashSet, Idle
<1> QED
  BY <1>4, <1>5 DEF Map!Next, Map!Bind

\* An iteration of realloc_hash changes nothing of the map, but that it forgets
\* the key of a pair that it leaves behind, whose value is then unspecified.
LEMMA CopyPairForgets ==
  ASSUME IInv, CopyPair
  PROVE  MapNow' = MapNow \/ \E k \in Key : Map!Forget(k)
<1> DEFINE p == old[pos]
           Rest == {old[s] : s \in Remaining \ {pos}}
           Now == {data[s] : s \in Index(capacity)}
<1>1. /\ ~ Idle /\ pos < oldCap /\ pos' = pos + 1
      /\ UNCHANGED <<hash, capacity, size, old, oldCap>>
  BY DEF CopyPair, AfterPair
<1>2. /\ TypeOK /\ pos \in Nat /\ oldCap \in Nat /\ capacity \in Nat
      /\ Table(hash, data, capacity)
  BY TypeOKFacts DEF IInv
<1>3. /\ pos \in Remaining /\ Remaining' = Remaining \ {pos} /\ p \in Pair
      /\ Remaining \subseteq Index(oldCap)
  BY <1>1, <1>2 DEF TypeOK, Remaining, Index
<1>4. None \notin Key
  BY HashTableAssumption DEF HashTableAssumption
<1>5. Contents = Now \cup Rest \cup {p}
  BY <1>3 DEF Contents, Remaining
<1>6. Contents' = {data'[s] : s \in Index(capacity)} \cup Rest
  BY <1>1, <1>3 DEF Contents, Remaining
<1>7. \A q \in Rest : p.first # None => q.first # p.first
  BY <1>3 DEF IInv, KeysInv
<1>8. \A q \in Now : p.first # None => q.first # p.first
  BY <1>3 DEF IInv, KeysInv, Occupied
<1>9. CASE Skipped(p)
  <2>1. data' = data
    BY <1>9 DEF CopyPair
  <2>2. Contents' = Now \cup Rest
    BY <1>6, <2>1
  <2>3. ASSUME NEW j \in Key, p.first # j
        PROVE  Pairs(j)' = Pairs(j)
    BY <1>5, <2>2, <2>3 DEF Pairs
  <2>4. CASE p.first = None
    <3>1. ASSUME NEW j \in Key
          PROVE  ValueIn(Pairs(j))' = ValueIn(Pairs(j))
      <4>1. Pairs(j)' = Pairs(j)
        BY <1>4, <2>3, <2>4
      <4> QED
        BY <4>1 DEF ValueIn
    <3> QED
      BY <3>1, SamePairsSameMap
  <2>5. CASE p.first # None
    <3>1. PICK k \in Key : k = p.first
      BY <1>3, <2>5 DEF Pair
    <3>2. p.rest = None
      BY <1>9, <2>5 DEF Skipped
    <3>3. Pairs(k) = {p} /\ Pairs(k)' = {}
      BY <1>4, <1>5, <1>7, <1>8, <2>2, <3>1 DEF Pairs
    <3>4. \A j \in Key \ {k} : Pairs(j)' = Pairs(j)
      BY <2>3, <3>1
    <3> HIDE DEF p
    <3>5. ValueIn(Pairs(k)) = None /\ ValueIn(Pairs(k)') = Absent
      BY <3>2, <3>3, MapNowFromPairs
    <3>6. MapNow' = [j \in Key |-> ValueIn(Pairs(j)')]
      BY DEF MapNow, ValueIn, ValueOf
    <3>7. MapNow = [j \in Key |-> ValueIn(Pairs(j))]
      BY MapNowFromPairs
    <3>8. MapNow' = [MapNow EXCEPT ![k] = Absent]
      BY <3>4, <3>5, <3>6, <3>7
    <3>9. MapNow[k] = None
      BY <3>5, <3>7
    <3>10. ~ Idle /\ (~ Idle)' = (~ Idle)
      BY <1>1 DEF Idle
    <3> QED
      BY <3>8, <3>9, <3>10 DEF Map!Forget
  <2> QED
    BY <2>4, <2>5
<1>10. CASE ~ Skipped(p)
  <2> DEFINE t == GetHash(p.first)
  <2>1. p.first \in Key /\ ProbeHits(p.first) # {} /\ data' = [data EXCEPT ![t] = p]
    BY <1>3, <1>10 DEF CopyPair, NewPlace, Skipped, Pair
  <2>2. t \in Index(capacity) /\ data[t].first \in {None, p.first}
    BY <1>2, <2>1, GetHashIsFound, FoundHits
  <2>3. data[t].first = None
    BY <1>4, <1>8, <2>1, <2>2
  <2>4. /\ data'[t] = p
        /\ \A s \in Index(capacity) : s # t => data'[s] = data[s]
    BY <1>2, <2>1, <2>2 DEF TypeOK
  <2> HIDE DEF p, t, Rest
  <2>5. ASSUME NEW j \in Key
        PROVE  ValueIn(Pairs(j))' = ValueIn(Pairs(j))
    <3>1. Pairs(j)' = Pairs(j)
      BY <1>4, <1>5, <1>6, <2>2, <2>3, <2>4 DEF Pairs
    <3> QED
      BY <3>1 DEF ValueIn
  <2> QED
    BY <2>5, SamePairsSameMap
<1> QED
  BY <1>9, <1>10

\* Freeing the old table ends the operation and changes nothing of the map.
LEMMA ReallocDoneFinishes ==
  ASSUME IInv, ReallocDone
  PROVE  Map!Finish
<1>1. /\ ~ Idle /\ pos = oldCap /\ oldCap' = 0 /\ pos' = 0
      /\ UNCHANGED <<data, capacity>>
  BY DEF ReallocDone
<1>2. pos .. oldCap - 1 = {} /\ pos' .. oldCap' - 1 = {}
  BY <1>1, TypeOKFacts DEF IInv
<1>3. Contents' = Contents
  BY <1>1, <1>2 DEF Contents
<1>4. MapNow' = MapNow
  BY <1>3 DEF MapNow, Pairs, ValueOf
<1>5. (~ Idle)' = FALSE
  BY <1>1 DEF Idle
<1> QED
  BY <1>1, <1>4, <1>5 DEF Map!Finish

\* The table implements the map: storing one key changes no other, and a
\* reallocation forgets keys whose value is unspecified and changes nothing else.
THEOREM TableImplementsMap == Spec => ImplementsMap
<1>1. Init => Map!Init
  <2> SUFFICES ASSUME Init PROVE Map!Init
    OBVIOUS
  <2>1. \A q \in Contents : q.first = None
    BY DEF Init, Contents, NewData, Empty, Index
  <2>2. \A k \in Key : Pairs(k) = {}
    BY <2>1, HashTableAssumption DEF Pairs, HashTableAssumption
  <2>3. (~ Idle) = FALSE
    BY DEF Init, Idle
  <2> QED
    BY <2>2, <2>3 DEF Map!Init, MapNow
<1>2. IInv /\ [Next]_vars => [Map!Next]_<<MapNow, ~ Idle>>
  <2> SUFFICES ASSUME IInv, [Next]_vars
               PROVE  Map!Next \/ (MapNow' = MapNow /\ (~ Idle)' = (~ Idle))
    OBVIOUS
  <2>1. CASE \E k \in Key, v \in Value : HashSet(k, v)
    BY <2>1, HashSetBinds
  <2>2. CASE CopyPair
    BY <2>2, CopyPairForgets DEF Map!Next, CopyPair, Idle
  <2>3. CASE ReallocDone
    BY <2>3, ReallocDoneFinishes DEF Map!Next
  <2>4. CASE UNCHANGED vars
    BY <2>4 DEF vars, MapNow, Pairs, ValueOf, Contents, Idle
  <2> QED
    BY <2>1, <2>2, <2>3, <2>4 DEF Next
<1> QED
  BY <1>1, <1>2, Inductive, PTL DEF Spec, ImplementsMap, Map!Spec
=============================================================================
