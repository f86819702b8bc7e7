------------------------------ MODULE HashTable ------------------------------
(***************************************************************************)
(* The hash tables of quuz (quuz-hash.c): open addressing with linear      *)
(* probing, no deletion, and a reallocation that doubles the capacity when *)
(* the load passes 7/10.  One table: a frame of variables, or one of the   *)
(* two symbol tables.                                                      *)
(*                                                                         *)
(* hash_obj is a fixed but unknown function from keys to machine words.    *)
(* The loop of realloc_hash is one step per pair of the old table.         *)
(***************************************************************************)
EXTENDS Integers, FiniteSets

CONSTANTS
  Key,          \* what the program uses as keys (symbols, names)
  Value,        \* what it stores; may contain None
  None,         \* QZ_NONE
  Absent,       \* the NULL that qz_hash_get returns
  Word,         \* number of machine words, 2^32
  Hashes,       \* the words that hash_obj may return
  InitCapacity, \* capacity of a new table, 4
  MaxCapacity   \* bound: no reallocation beyond this capacity

ASSUME HashTableAssumption ==
  /\ None \notin Key
  /\ Absent \notin Value \cup {None}
  /\ InitCapacity \in Nat \ {0}
  /\ MaxCapacity \in Nat
  /\ Word \in Nat
  /\ Hashes \subseteq 0 .. Word - 1
  /\ InitCapacity <= MaxCapacity
  /\ MaxCapacity <= Word

VARIABLES
  hash,      \* hash_obj
  data,      \* the pairs of the table
  capacity,
  size,
  old,       \* the pairs of the table that realloc_hash is copying
  oldCap,    \* its capacity, 0 when no reallocation is under way
  pos        \* the next pair to copy

vars == <<hash, data, capacity, size, old, oldCap, pos>>

Pair  == [first : Key \cup {None}, rest : Value \cup {None}]
Empty == [first |-> None, rest |-> None]

Index(n) == 0 .. n - 1

\* mutant: the loop of make_hash stops one pair early
NewDataShort(n) == [s \in Index(n - 1) |-> Empty]
\* make_hash: every pair is empty
NewData(n) == [s \in Index(n) |-> Empty]

(***************************************************************************)
(* get_hash.  The n-th probe looks at slot SlotAt(k, n); the index is a    *)
(* 32-bit word and wraps.  The loop has no exit of its own: if no probe    *)
(* hits, it never returns.                                                 *)
(***************************************************************************)
SlotAt(k, n) == ((hash[k] + n) % Word) % capacity

Hits(k, n) == data[SlotAt(k, n)].first \in {None, k}

ProbeHits(k) == {n \in 0 .. Word - 1 : Hits(k, n)}

\* get_hash(cell, k): the slot of the first hit
GetHash(k) ==
  SlotAt(k, CHOOSE n \in ProbeHits(k) : \A m \in ProbeHits(k) : n <= m)

\* qz_hash_get
HashGet(k) ==
  LET p == data[GetHash(k)] IN IF p.first = None THEN Absent ELSE p.rest

Init ==
  /\ hash \in [Key -> Hashes]
  /\ capacity = InitCapacity
  /\ data = NewData(InitCapacity)
  /\ size = 0
  /\ old = NewData(0)
  /\ oldCap = 0
  /\ pos = 0

Idle == oldCap = 0

\* the table of n pairs and capacity c has become too full
OverloadedByCapacity(n, c) == n > c       \* mutant
Overloaded(n, c) == n * 10 > c * 7

\* a new key makes the table larger
SizeAfterForgotten(k) == size       \* mutant
SizeAfter(k) == IF data[GetHash(k)].first = None THEN size + 1 ELSE size

\* qz_hash_set, up to the call of realloc_hash and its allocation
HashSet(k, v) ==
  /\ Idle
  /\ ProbeHits(k) # {}
  /\ Overloaded(SizeAfter(k), capacity) => capacity * 2 <= MaxCapacity
  /\ size' = SizeAfter(k)
  /\ LET written == [data EXCEPT ![GetHash(k)] = [first |-> k, rest |-> v]] IN
       IF Overloaded(SizeAfter(k), capacity)
       THEN /\ old' = written
            /\ oldCap' = capacity
            /\ pos' = 0
            /\ capacity' = capacity * 2
            /\ data' = NewData(capacity * 2)
       ELSE /\ data' = written
            /\ UNCHANGED <<old, oldCap, pos, capacity>>
  /\ UNCHANGED hash

\* a pair that realloc_hash does not copy
SkippedIfSpecified(p) == p.first = None \/ p.rest # None       \* mutant
Skipped(p) == p.first = None \/ p.rest = None

\* where realloc_hash puts a pair
NewPlaceUnchanged(p) == pos       \* mutant
NewPlace(p) == GetHash(p.first)

\* the index after this iteration
AfterPair(p) == pos + 1

\* realloc_hash, one iteration
CopyPair ==
  /\ ~ Idle
  /\ pos < oldCap
  /\ LET p == old[pos] IN
       IF Skipped(p)
       THEN UNCHANGED data
       ELSE /\ ProbeHits(p.first) # {}
            /\ data' = [data EXCEPT ![NewPlace(p)] = p]
  /\ pos' = AfterPair(old[pos])
  /\ UNCHANGED <<hash, capacity, size, old, oldCap>>

\* realloc_hash, the end: the old table is freed
ReallocDone ==
  /\ ~ Idle
  /\ pos = oldCap
  /\ old' = NewData(0)
  /\ oldCap' = 0
  /\ pos' = 0
  /\ UNCHANGED <<hash, data, capacity, size>>

Next ==
  \/ \E k \in Key, v \in Value : HashSet(k, v)
  \/ CopyPair
  \/ ReallocDone

Spec == Init /\ [][Next]_vars

(***************************************************************************)
(* What the table holds: its pairs and those still to be copied.           *)
(***************************************************************************)
Contents ==
  {data[s] : s \in Index(capacity)} \cup {old[s] : s \in pos .. oldCap - 1}

Pairs(k) == {p \in Contents : p.first = k}

ValueOf(k) == (CHOOSE p \in Pairs(k) : TRUE).rest

MapNow == [k \in Key |-> IF Pairs(k) = {} THEN Absent ELSE ValueOf(k)]

Occupied == {s \in Index(capacity) : data[s].first # None}

TypeOK ==
  /\ hash \in [Key -> Hashes]
  /\ capacity \in 1 .. MaxCapacity
  /\ data \in [Index(capacity) -> Pair]
  /\ size \in Nat
  /\ oldCap \in Nat
  /\ old \in [Index(oldCap) -> Pair]
  /\ pos \in 0 .. oldCap

(* get_hash returns for every key, stored or not, in the middle of a       *)
(* reallocation too: the table always keeps an empty slot, and the probes  *)
(* get to it in spite of the wrap of the 32-bit index.                     *)
ProbeTerminates == \A k \in Key : ProbeHits(k) # {}

(* `size' never falls below what is stored, and between operations the     *)
(* load stays at or under 7/10.                                            *)
LoadBounded ==
  /\ Cardinality(Occupied) <= size
  /\ Idle => ~ Overloaded(size, capacity)

(* Every pair in the table is the one a search for its key stops at, also  *)
(* while pairs are copied: no key is stored twice, and none is hidden      *)
(* behind a gap or left in the place an older capacity gave it.  So        *)
(* between operations a search finds exactly what the table holds.         *)
SearchIsExact ==
  /\ \A s \in Occupied : GetHash(data[s].first) = s
  /\ Idle => \A k \in Key : HashGet(k) = IF Pairs(k) = {} THEN Absent ELSE ValueOf(k)

(* The table implements the map: storing one key changes no other, and no  *)
(* step of a reallocation changes the map, but that the one which skips a  *)
(* pair forgets its key, and only if its value is unspecified.             *)
Map == INSTANCE FiniteMap
         WITH Unspecified <- None, map <- MapNow, busy <- ~ Idle
ImplementsMap == Map!Spec

(* What the comment at quuz-hash.c:58 says of realloc_hash, that it        *)
(* doubles the capacity: every key that was bound stays bound.             *)
BoundStaysBound == [][\A k \in Key : Pairs(k) # {} => Pairs(k)' # {}]_vars
=============================================================================
