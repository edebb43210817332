--------------------------- MODULE DictionaryProofs ---------------------------
(***************************************************************************)
(* Proofs about p4/index.c and p4/kvdb.c: the hash table of HashIndex, in  *)
(* the hands of IndexCalls, stays sound and keeps the stores of different  *)
(* hashes apart, and KVDB over it is the dictionary of KVStore.            *)
(*                                                                         *)
(* The argument has three layers.  A table is Sound if probing for the key *)
(* of a slot comes to that slot and no other slot has the key; claiming a  *)
(* slot, storing through it and moving all of them to a bigger table keep  *)
(* it so and change what is found (At) for one key at most.  A log is      *)
(* Linked if each record names the one before it in its slot; then the     *)
(* chain from the newest record is the slot, by induction along the log.   *)
(* DictInv joins the two: the index leads to the newest record.            *)
(***************************************************************************)
EXTENDS IndexCalls, KVDB, FiniteSetTheorems, WellFoundedInduction, TLAPS

-----------------------------------------------------------------------------
(* What the proofs need of % and \div.                                      *)

\* A remainder is less than its modulus.
LEMMA ModRange ==
  ASSUME NEW a \in Int, NEW n \in Nat \ {0}
  PROVE  a % n \in 0 .. n - 1
OBVIOUS

\* A number is a multiple, its quotient's, and its remainder.
LEMMA DivMod ==
  ASSUME NEW a \in Int, NEW n \in Nat \ {0}
  PROVE  /\ a \div n \in Int
         /\ a = ((a \div n) * n) + (a % n)
OBVIOUS

\* A number below the modulus is its own remainder.
LEMMA ModSmall ==
  ASSUME NEW n \in Nat \ {0}, NEW a \in 0 .. n - 1
  PROVE  a % n = a
OBVIOUS

\* The remainder is the only number below n at the distance of a multiple.
LEMMA ModUnique ==
  ASSUME NEW q \in Int, NEW n \in Nat \ {0}, NEW r \in 0 .. n - 1
  PROVE  ((q * n) + r) % n = r
<1> DEFINE a == (q * n) + r
           d == (a \div n) - q
<1>1. a \in Int /\ d \in Int
  BY DivMod
<1>2. d * n = r - (a % n)
  BY <1>1, DivMod
<1>3. a % n \in 0 .. n - 1
  BY <1>1, ModRange
<1> HIDE DEF d, a
<1>4. CASE d >= 1
  <2>1. (d - 1) * n \in Nat
    BY <1>1, <1>4
  <2>2. d * n >= n
    BY <2>1, <1>1
  <2> QED
    BY <2>2, <1>2, <1>3, <1>1
<1>5. CASE d <= -1
  <2>1. (-d - 1) * n \in Nat
    BY <1>1, <1>5
  <2>2. d * n <= -n
    BY <2>1, <1>1
  <2> QED
    BY <2>2, <1>2, <1>3, <1>1
<1>6. CASE d = 0
  BY <1>6, <1>2, <1>3 DEF a
<1> QED
  BY <1>1, <1>4, <1>5, <1>6

-----------------------------------------------------------------------------
-----------------------------------------------------------------------------
(* The hash table.                                                         *)

Words == 0 .. WordSize - 1

TableKeys == Words \ {0}

SlotsOf(x) == 0 .. x.capacity - 1

UsedOf(x) == {j \in SlotsOf(x) : x.maps[j].key # 0}

Slot(O) == [key : Words, off : O]

\* The tables of n slots for offsets in O.
Tables(n, O) ==
  [size : Nat, capacity : {n}, exited : BOOLEAN, maps : [0 .. n - 1 -> Slot(O)]]

IsTable(x, O) == x.capacity \in Nat /\ x \in Tables(x.capacity, O)

\* The invariant of a table: size counts the slots in use, probing for the key of
\* one comes to it, and no other has the key.
Sound(x, O) ==
  /\ IsTable(x, O)
  /\ x.size = Cardinality(UsedOf(x))
  /\ \A j \in UsedOf(x) : /\ Stops(x, x.maps[j].key) # {}
                           /\ FirstStop(x, x.maps[j].key) = j
  /\ \A j, k \in UsedOf(x) : x.maps[j].key = x.maps[k].key => j = k

\* What index_lookup answers for a key.
At(x, key) ==
  IF Stops(x, key) = {} \/ x.maps[FirstStop(x, key)].key = 0
    THEN NoRef ELSE Ref(x.maps[FirstStop(x, key)].off)

\* A set of natural numbers has a least element.
LEMMA LeastOf ==
    ASSUME NEW S \in SUBSET Nat, S # {}
    PROVE  \E x \in S : \A y \in S : x <= y
<1>1. PICK x \in S : \A y \in S : ~ (<<y, x>> \in OpToRel(<, Nat))
  BY NatLessThanWellFounded, WFMin
<1>2. \A y \in S : x <= y
  <2> TAKE y \in S
  <2>1. x \in Nat /\ y \in Nat /\ ~ (y < x)
    BY <1>1 DEF OpToRel
  <2> QED
    BY <2>1
<1> QED
  BY <1>2

LEMMA KeyIsKey ==
    ASSUME NEW h \in Words
    PROVE  KeyOf(h) \in TableKeys /\ KeyOf(KeyOf(h)) = KeyOf(h)
BY IndexAssumption DEF KeyOf, TableKeys, Words

LEMMA FindIsAt ==
    ASSUME NEW x, NEW h
    PROVE  Find(x, h) = At(x, KeyOf(h))
BY DEF Find, At

\* A probe looks at a slot.
LEMMA ProbeIsSlot ==
    ASSUME NEW O, NEW x, IsTable(x, O), NEW key \in Nat, NEW i \in SlotsOf(x)
    PROVE  Probe(x, key, i) \in SlotsOf(x)
<1>1. x.capacity \in Nat \ {0} /\ i \in Nat
  BY DEF IsTable, SlotsOf
<1>2. (key + i) % WordSize \in 0 .. WordSize - 1
  BY <1>1, IndexAssumption, ModRange
<1> DEFINE a == (key + i) % WordSize
<1>3. a \in Int
  BY <1>2, IndexAssumption
<1> HIDE DEF a
<1>4. a % x.capacity \in 0 .. x.capacity - 1
  BY <1>1, <1>3, ModRange
<1> QED
  BY <1>4 DEF a, Probe, SlotsOf

LEMMA FirstStopIs ==
    ASSUME NEW O, NEW x, IsTable(x, O), NEW key,
           NEW i \in Stops(x, key), \A k \in Stops(x, key) : i <= k
    PROVE  FirstStop(x, key) = Probe(x, key, i)
<1> DEFINE c == CHOOSE l \in Stops(x, key) : \A k \in Stops(x, key) : l <= k
<1>1. c \in Stops(x, key) /\ \A k \in Stops(x, key) : c <= k
  OBVIOUS
<1>2. c \in Int /\ i \in Int
  BY <1>1 DEF Stops
<1>3. c <= i /\ i <= c
  BY <1>1
<1>4. FirstStop(x, key) = Probe(x, key, c)
  BY DEF FirstStop
<1> HIDE DEF c
<1> QED
  BY <1>2, <1>3, <1>4

\* Where probing stops is a slot that is empty or has the key.
LEMMA FirstStopIsStop ==
    ASSUME NEW O, NEW x, IsTable(x, O), NEW key \in Nat, Stops(x, key) # {}
    PROVE  /\ \E i \in Stops(x, key) : /\ \A k \in Stops(x, key) : i <= k
                                       /\ FirstStop(x, key) = Probe(x, key, i)
           /\ FirstStop(x, key) \in SlotsOf(x)
           /\ x.maps[FirstStop(x, key)].key \in {0, key}
<1>1. Stops(x, key) \in SUBSET Nat
  BY DEF Stops
<1>2. PICK i \in Stops(x, key) : \A k \in Stops(x, key) : i <= k
  BY <1>1, LeastOf
<1>3. FirstStop(x, key) = Probe(x, key, i)
  BY <1>2, FirstStopIs
<1>4. i \in SlotsOf(x) /\ x.maps[Probe(x, key, i)].key \in {0, key}
  BY <1>2 DEF Stops, SlotsOf
<1> QED
  BY <1>2, <1>3, <1>4, ProbeIsSlot

\* A key that has a slot is found there.
LEMMA AtUsed ==
    ASSUME NEW O, NEW x, Sound(x, O), NEW j \in UsedOf(x)
    PROVE  /\ At(x, x.maps[j].key) = Ref(x.maps[j].off)
           /\ Stops(x, x.maps[j].key) # {}
           /\ FirstStop(x, x.maps[j].key) = j
           /\ x.maps[j] \in Slot(O) /\ x.maps[j].key \in TableKeys
<1> DEFINE key == x.maps[j].key
<1>1. FirstStop(x, key) = j /\ Stops(x, key) # {} /\ key # 0 /\ j \in SlotsOf(x)
  BY DEF Sound, UsedOf
<1>2. x.maps[j] \in Slot(O)
  BY <1>1 DEF Sound, IsTable, Tables, SlotsOf
<1>3. key \in TableKeys
  BY <1>1, <1>2 DEF Slot, TableKeys
<1> QED
  BY <1>1, <1>2, <1>3 DEF At

\* A key that has none is not.
LEMMA AtUnused ==
    ASSUME NEW O, NEW x, IsTable(x, O), NEW key \in TableKeys,
           \A j \in UsedOf(x) : x.maps[j].key # key
    PROVE  At(x, key) = NoRef
<1>1. CASE Stops(x, key) = {}
  BY <1>1 DEF At
<1>2. CASE Stops(x, key) # {}
  <2>1. FirstStop(x, key) \in SlotsOf(x) /\ x.maps[FirstStop(x, key)].key \in {0, key}
    BY <1>2, FirstStopIsStop, IndexAssumption DEF TableKeys, Words
  <2>2. x.maps[FirstStop(x, key)].key = 0
    BY <2>1 DEF UsedOf
  <2> QED
    BY <2>2 DEF At
<1> QED
  BY <1>1, <1>2

\* And so what is found is in a slot.
LEMMA AtFound ==
    ASSUME NEW O, NEW x, Sound(x, O), NEW key \in TableKeys, At(x, key) # NoRef
    PROVE  \E j \in UsedOf(x) : /\ x.maps[j].key = key
                                /\ At(x, key) = Ref(x.maps[j].off)
<1>1. PICK j \in UsedOf(x) : x.maps[j].key = key
  BY AtUnused DEF Sound
<1> QED
  BY <1>1, AtUsed

\* What a table is made of.
LEMMA TableParts ==
    ASSUME NEW O, NEW x, IsTable(x, O)
    PROVE  /\ x.size \in Nat /\ x.capacity \in Nat /\ x.exited \in BOOLEAN
           /\ \A j \in SlotsOf(x) : x.maps[j] \in Slot(O) /\ x.maps[j].key \in Words
BY DEF IsTable, Tables, Slot, SlotsOf

LEMMA UsedFinite ==
    ASSUME NEW O, NEW x, IsTable(x, O)
    PROVE  /\ IsFiniteSet(UsedOf(x)) /\ Cardinality(UsedOf(x)) \in 0 .. x.capacity
           /\ Cardinality(UsedOf(x)) < x.capacity => \E j \in SlotsOf(x) : x.maps[j].key = 0
<1>1. x.capacity \in Nat
  BY TableParts
<1>2. IsFiniteSet(SlotsOf(x)) /\ Cardinality(SlotsOf(x)) = x.capacity
  <2>1. 0 \in Int /\ x.capacity - 1 \in Int
    BY <1>1
  <2>2. IsFiniteSet(0 .. x.capacity - 1)
        /\ Cardinality(0 .. x.capacity - 1)
           = IF 0 > x.capacity - 1 THEN 0 ELSE x.capacity - 1 - 0 + 1
    BY <2>1, FS_Interval
  <2> QED
    BY <1>1, <2>2 DEF SlotsOf
<1>3. UsedOf(x) \in SUBSET SlotsOf(x)
  BY DEF UsedOf
<1>4. IsFiniteSet(UsedOf(x)) /\ Cardinality(UsedOf(x)) <= x.capacity
  BY <1>2, <1>3, FS_Subset
<1>5. Cardinality(UsedOf(x)) \in Nat
  BY <1>4, FS_CardinalityType
<1>6. ASSUME Cardinality(UsedOf(x)) < x.capacity PROVE \E j \in SlotsOf(x) : x.maps[j].key = 0
  <2>1. UsedOf(x) # SlotsOf(x)
    BY <1>1, <1>2, <1>6, <1>5
  <2> QED
    BY <2>1 DEF UsedOf
<1> QED
  BY <1>1, <1>4, <1>5, <1>6

\* A store in an empty slot.
Claimed(x, j, s) == [x EXCEPT !.size = @ + 1, !.maps[j] = s]

LEMMA RecordParts ==
    ASSUME NEW n \in Nat, NEW O, NEW x \in Tables(n, O), NEW j, NEW s,
           NEW y, y = Claimed(x, j, s)
    PROVE  y = [size |-> x.size + 1, capacity |-> x.capacity, exited |-> x.exited,
                maps |-> [x.maps EXCEPT ![j] = s]]
BY DEF Tables, Claimed

LEMMA ClaimedParts ==
    ASSUME NEW O, NEW x, IsTable(x, O), NEW j \in SlotsOf(x), NEW s \in Slot(O),
           NEW y, y = Claimed(x, j, s)
    PROVE  /\ IsTable(y, O)
           /\ y.capacity = x.capacity /\ y.exited = x.exited /\ y.size = x.size + 1
           /\ y.maps[j] = s
           /\ \A l \in SlotsOf(x) : l # j => y.maps[l] = x.maps[l]
<1> DEFINE D == 0 .. x.capacity - 1
<1>2. x \in Tables(x.capacity, O) /\ x.capacity \in Nat
  BY DEF IsTable
<1>3. x.maps \in [D -> Slot(O)] /\ x.size \in Nat /\ x.exited \in BOOLEAN
  BY <1>2 DEF Tables
<1>4. j \in D
  BY DEF SlotsOf
<1>5. y = [size |-> x.size + 1, capacity |-> x.capacity, exited |-> x.exited,
           maps |-> [x.maps EXCEPT ![j] = s]]
  BY <1>2, RecordParts
<1>6. [x.maps EXCEPT ![j] = s] \in [D -> Slot(O)]
  BY <1>3, <1>4
<1>7. y.maps = [x.maps EXCEPT ![j] = s] /\ y.capacity = x.capacity /\ y.exited = x.exited
      /\ y.size = x.size + 1
  BY <1>5
<1>8. IsTable(y, O)
  <2>1. x.size + 1 \in Nat
    BY <1>3
  <2> QED
    BY <1>2, <1>3, <1>5, <1>6, <1>7, <2>1 DEF IsTable, Tables
<1>9. y.maps[j] = s /\ \A l \in D : l # j => y.maps[l] = x.maps[l]
  BY <1>3, <1>4, <1>7
<1> QED
  BY <1>7, <1>8, <1>9 DEF SlotsOf

\* A probe depends on the capacity alone.
LEMMA ProbeSame ==
    ASSUME NEW x, NEW y, y.capacity = x.capacity, NEW key, NEW i
    PROVE  Probe(y, key, i) = Probe(x, key, i)
BY DEF Probe

NewSlot(key) == [key |-> key, off |-> 0]

\* y is x once its first stop for a key has become the slot of the key.
Claims(y, x, key) == y = Claimed(x, FirstStop(x, key), NewSlot(key))

\* Claiming an empty slot for a key that has none keeps a table sound.
LEMMA ClaimedSound ==
    ASSUME NEW O, 0 \in O, NEW x, Sound(x, O), NEW key \in TableKeys,
           Stops(x, key) # {}, x.maps[FirstStop(x, key)].key # key,
           NEW y, Claims(y, x, key)
    PROVE  /\ Sound(y, O)
           /\ At(y, key) = Ref(0)
           /\ \A k \in TableKeys : k # key => At(y, k) = At(x, k)
           /\ At(x, key) = NoRef
<1> DEFINE j == FirstStop(x, key)
<1>0. IsTable(x, O) /\ key \in Nat /\ key # 0 /\ key \in Words
  BY IndexAssumption DEF Sound, TableKeys, Words
<1>1. j \in SlotsOf(x) /\ x.maps[j].key = 0
  BY <1>0, FirstStopIsStop
<1>2. /\ IsTable(y, O)
      /\ y.capacity = x.capacity /\ y.exited = x.exited /\ y.size = x.size + 1
      /\ y.maps[j] = [key |-> key, off |-> 0]
      /\ \A l \in SlotsOf(x) : l # j => y.maps[l] = x.maps[l]
  <2> DEFINE s == NewSlot(key)
  <2>1. y = Claimed(x, j, s) /\ s \in Slot(O)
    BY <1>0 DEF Slot, Claims, NewSlot
  <2> HIDE DEF j, s
  <2>2. /\ IsTable(y, O)
        /\ y.capacity = x.capacity /\ y.exited = x.exited /\ y.size = x.size + 1
        /\ y.maps[j] = s
        /\ \A l \in SlotsOf(x) : l # j => y.maps[l] = x.maps[l]
    BY <1>0, <1>1, <2>1, ClaimedParts
  <2> QED
    BY <2>2 DEF s, NewSlot
<1>3. \A l \in UsedOf(x) : x.maps[l].key # key
  <2>1. SUFFICES ASSUME NEW l \in UsedOf(x), x.maps[l].key = key PROVE FALSE
    OBVIOUS
  <2>2. FirstStop(x, key) = l
    BY <2>1, AtUsed
  <2> QED
    BY <2>1, <2>2
<1> HIDE DEF j
<1>4. j \notin UsedOf(x) /\ UsedOf(y) = UsedOf(x) \cup {j} /\ SlotsOf(y) = SlotsOf(x)
  BY <1>0, <1>1, <1>2 DEF UsedOf, SlotsOf
<1>5. y.size = Cardinality(UsedOf(y))
  <2>1. IsFiniteSet(UsedOf(x))
    BY <1>0, UsedFinite
  <2>2. Cardinality(UsedOf(y)) = Cardinality(UsedOf(x)) + 1
    BY <2>1, <1>4, FS_AddElement
  <2> QED
    BY <2>2, <1>2 DEF Sound
<1>6. ASSUME NEW l \in UsedOf(x)
      PROVE  /\ Stops(y, x.maps[l].key) # {}
             /\ FirstStop(y, x.maps[l].key) = l
             /\ y.maps[l] = x.maps[l]
  <2> DEFINE k == x.maps[l].key
  <2>1. Stops(x, k) # {} /\ FirstStop(x, k) = l /\ k \in TableKeys /\ k # key
    BY <1>3, AtUsed
  <2>2. k \in Nat /\ k # 0
    BY <2>1, IndexAssumption DEF TableKeys, Words
  <2>3. PICK i \in Stops(x, k) : (\A m \in Stops(x, k) : i <= m) /\ Probe(x, k, i) = l
    BY <1>0, <2>1, <2>2, FirstStopIsStop
  <2>4. l # j /\ y.maps[l] = x.maps[l]
    BY <1>2, <1>4 DEF UsedOf
  <2> HIDE DEF k
  <2>5. i \in SlotsOf(y) /\ i \in Stops(y, k)
    <3>1. i \in SlotsOf(x) /\ Probe(y, k, i) = l
      BY <1>2, <2>3, ProbeSame DEF Stops, SlotsOf
    <3>2. y.maps[l].key \in {0, k}
      BY <2>4 DEF k
    <3> QED
      BY <1>4, <3>1, <3>2 DEF Stops, SlotsOf
  <2>6. ASSUME NEW m \in Stops(y, k) PROVE i <= m
    <3>1. m \in SlotsOf(x) /\ y.maps[Probe(x, k, m)].key \in {0, k}
      BY <1>2, <1>4, ProbeSame DEF Stops, SlotsOf
    <3>2. Probe(x, k, m) \in SlotsOf(x) /\ Probe(x, k, m) # j
      <4>1. Probe(x, k, m) \in SlotsOf(x)
        BY <1>0, <2>2, <3>1, ProbeIsSlot
      <4>2. y.maps[j].key \notin {0, k}
        BY <1>0, <1>2, <2>1 DEF k
      <4> QED
        BY <4>1, <4>2, <3>1
    <3>3. x.maps[Probe(x, k, m)].key \in {0, k}
      BY <1>2, <3>1, <3>2
    <3>4. m \in Stops(x, k)
      BY <3>1, <3>3 DEF Stops, SlotsOf
    <3> QED
      BY <3>4, <2>3
  <2>7. FirstStop(y, k) = Probe(y, k, i)
    BY <1>2, <2>5, <2>6, FirstStopIs
  <2>8. FirstStop(y, k) = l
    BY <2>7, <2>3, <1>2, ProbeSame
  <2> QED
    BY <2>4, <2>5, <2>8 DEF k
<1>7. Stops(y, key) # {} /\ FirstStop(y, key) = j
  <2>1. PICK i \in Stops(x, key) : (\A m \in Stops(x, key) : i <= m) /\ Probe(x, key, i) = j
    BY <1>0, FirstStopIsStop DEF j
  <2>2. Stops(y, key) = Stops(x, key)
    <3>1. ASSUME NEW m \in SlotsOf(x)
          PROVE  y.maps[Probe(y, key, m)].key \in {0, key}
                   <=> x.maps[Probe(x, key, m)].key \in {0, key}
      <4>1. Probe(x, key, m) \in SlotsOf(x) /\ Probe(y, key, m) = Probe(x, key, m)
        BY <1>0, <1>2, ProbeIsSlot, ProbeSame
      <4>2. CASE Probe(x, key, m) = j
        BY <4>1, <4>2, <1>1, <1>2
      <4>3. CASE Probe(x, key, m) # j
        BY <4>1, <4>3, <1>2
      <4> QED
        BY <4>2, <4>3
    <3> QED
      BY <1>2, <3>1 DEF Stops, SlotsOf
  <2>3. FirstStop(y, key) = Probe(y, key, i)
    BY <1>2, <2>1, <2>2, FirstStopIs
  <2> QED
    BY <1>2, <2>1, <2>2, <2>3, ProbeSame
<1>8. Sound(y, O)
  <2>1. \A l \in UsedOf(y) : /\ Stops(y, y.maps[l].key) # {}
                             /\ FirstStop(y, y.maps[l].key) = l
    BY <1>2, <1>4, <1>6, <1>7
  <2>2. \A l, m \in UsedOf(y) : y.maps[l].key = y.maps[m].key => l = m
    BY <1>2, <1>3, <1>4, <1>6 DEF Sound
  <2> QED
    BY <1>2, <1>5, <2>1, <2>2 DEF Sound
<1>9. At(y, key) = Ref(0)
  <2>1. j \in UsedOf(y) /\ y.maps[j].key = key /\ y.maps[j].off = 0
    BY <1>2, <1>4
  <2> QED
    BY <1>8, <2>1, AtUsed
<1>10. ASSUME NEW k \in TableKeys, k # key PROVE At(y, k) = At(x, k)
  <2>1. CASE \E l \in UsedOf(x) : x.maps[l].key = k
    <3>1. PICK l \in UsedOf(x) : x.maps[l].key = k
      BY <2>1
    <3>2. l \in UsedOf(y) /\ y.maps[l] = x.maps[l]
      BY <1>4, <1>6
    <3> QED
      BY <1>8, <3>1, <3>2, AtUsed
  <2>2. CASE \A l \in UsedOf(x) : x.maps[l].key # k
    <3>1. \A l \in UsedOf(y) : y.maps[l].key # k
      BY <1>2, <1>4, <1>6, <1>10, <2>2
    <3>2. At(x, k) = NoRef
      BY <1>0, <2>2, AtUnused
    <3>3. At(y, k) = NoRef
      BY <1>2, <3>1, AtUnused
    <3> QED
      BY <3>2, <3>3
  <2> QED
    BY <2>1, <2>2
<1>11. At(x, key) = NoRef
  BY <1>0, <1>3, AtUnused
<1> QED
  BY <1>8, <1>9, <1>10, <1>11

\* Probing sees nothing but the slots.
LEMMA SameMaps ==
    ASSUME NEW x, NEW y, y.capacity = x.capacity, y.maps = x.maps
    PROVE  /\ UsedOf(y) = UsedOf(x)
           /\ \A k : Stops(y, k) = Stops(x, k) /\ FirstStop(y, k) = FirstStop(x, k)
                     /\ At(y, k) = At(x, k)
<1>1. \A k, i : Probe(y, k, i) = Probe(x, k, i)
  BY ProbeSame
<1>2. \A k : Stops(y, k) = Stops(x, k)
  BY <1>1 DEF Stops
<1>3. ASSUME NEW k PROVE FirstStop(y, k) = FirstStop(x, k)
  <2> DEFINE Least(S) == CHOOSE i \in S : \A l \in S : i <= l
  <2>1. FirstStop(y, k) = Probe(y, k, Least(Stops(y, k)))
    BY DEF FirstStop
  <2>2. FirstStop(x, k) = Probe(x, k, Least(Stops(x, k)))
    BY DEF FirstStop
  <2> HIDE DEF Least
  <2> QED
    BY <1>1, <1>2, <2>1, <2>2
<1>4. \A k : At(y, k) = At(x, k)
  BY <1>2, <1>3 DEF At
<1> QED
  BY <1>2, <1>3, <1>4 DEF UsedOf, SlotsOf

\* The program has ended in update: the table is as it was.
Exit(x) == [x EXCEPT !.exited = TRUE]

LEMMA ExitParts ==
    ASSUME NEW n \in Nat, NEW O, NEW x \in Tables(n, O), NEW y, y = Exit(x)
    PROVE  /\ y \in Tables(n, O)
           /\ y.capacity = n /\ x.capacity = n /\ y.maps = x.maps /\ y.exited /\ y.size = x.size
<1>1. y = [size |-> x.size, capacity |-> x.capacity, exited |-> TRUE, maps |-> x.maps]
  BY DEF Tables, Exit
<1> QED
  BY <1>1 DEF Tables

LEMMA ExitSound ==
    ASSUME NEW O, NEW x, Sound(x, O)
    PROVE  /\ Sound(Exit(x), O) /\ Exit(x).exited /\ Exit(x).capacity = x.capacity
           /\ Exit(x).size = x.size
           /\ \A k : At(Exit(x), k) = At(x, k)
<1> DEFINE y == Exit(x)
           n == x.capacity
<1>1. x \in Tables(n, O) /\ n \in Nat
  BY DEF Sound, IsTable
<1>2. y = Exit(x)
  OBVIOUS
<1> HIDE DEF y
<1>3. /\ y \in Tables(n, O)
      /\ y.capacity = n /\ x.capacity = n /\ y.maps = x.maps /\ y.exited /\ y.size = x.size
  BY <1>1, <1>2, ExitParts
<1>4. /\ UsedOf(y) = UsedOf(x)
      /\ \A k : Stops(y, k) = Stops(x, k) /\ FirstStop(y, k) = FirstStop(x, k)
                /\ At(y, k) = At(x, k)
  BY <1>3, SameMaps
<1>5. IsTable(y, O)
  BY <1>1, <1>3 DEF IsTable
<1>6. Sound(y, O)
  BY <1>3, <1>4, <1>5 DEF Sound
<1> QED
  BY <1>3, <1>4, <1>6 DEF y

\* update keeps a table sound; it gives the key a slot if it had none and there is
\* one, and leaves what is found for every other key alone.
LEMMA ClaimSound ==
    ASSUME NEW O, 0 \in O, NEW x, Sound(x, O), NEW key \in TableKeys, NEW y, y = Claim(x, key)
    PROVE  /\ Sound(y, O) /\ y.capacity = x.capacity /\ x.size <= y.size /\ y.size <= x.size + 1
           /\ \A k \in TableKeys : k # key => At(y, k) = At(x, k)
           /\ Stops(x, key) = {} => y.exited
           /\ Stops(x, key) # {} =>
                /\ y.exited = x.exited
                /\ At(y, key) = IF At(x, key) = NoRef THEN Ref(0) ELSE At(x, key)
<1>0. IsTable(x, O) /\ x.size \in Nat /\ key \in Nat /\ key # 0
  BY TableParts, IndexAssumption DEF Sound, TableKeys, Words
<1>1. CASE Stops(x, key) = {}
  <2>1. y = Exit(x)
    BY <1>1 DEF Claim, Exit
  <2> QED
    BY <1>0, <1>1, <2>1, ExitSound
<1>2. CASE Stops(x, key) # {} /\ x.maps[FirstStop(x, key)].key = key
  <2>1. y = x
    BY <1>2 DEF Claim
  <2>2. At(x, key) # NoRef
    BY <1>0, <1>2 DEF At, NoRef, Ref
  <2> QED
    BY <1>0, <1>2, <2>1, <2>2
<1>3. CASE Stops(x, key) # {} /\ x.maps[FirstStop(x, key)].key # key
  <2>1. Claims(y, x, key)
    BY <1>3 DEF Claim, Claims, Claimed, NewSlot
  <2>2. /\ Sound(y, O)
        /\ At(y, key) = Ref(0)
        /\ \A k \in TableKeys : k # key => At(y, k) = At(x, k)
        /\ At(x, key) = NoRef
    BY <1>3, <2>1, ClaimedSound
  <2>3. y.capacity = x.capacity /\ y.exited = x.exited /\ y.size = x.size + 1
    <3> DEFINE s == NewSlot(key)
               j == FirstStop(x, key)
    <3>1. y = Claimed(x, j, s) /\ s \in Slot(O) /\ j \in SlotsOf(x)
      BY <1>0, <1>3, <2>1, FirstStopIsStop DEF Slot, Claims, NewSlot, TableKeys
    <3> HIDE DEF s, j
    <3> QED
      BY <1>0, <3>1, ClaimedParts
  <2>4. x.size <= y.size /\ y.size <= x.size + 1
    BY <1>0, <2>3
  <2> QED
    BY <1>3, <2>2, <2>3, <2>4
<1> QED
  BY <1>1, <1>2, <1>3

\* What a store through a reference makes of a table.
Stored(x, j, o) == [x EXCEPT !.maps[j].off = o]

LEMMA StoredParts ==
    ASSUME NEW n \in Nat, NEW O, NEW x \in Tables(n, O), NEW j \in 0 .. n - 1, NEW o \in O,
           NEW y, y = Stored(x, j, o)
    PROVE  /\ y \in Tables(n, O)
           /\ x.capacity = n /\ y.capacity = n /\ y.exited = x.exited /\ y.size = x.size
           /\ y.maps[j].key = x.maps[j].key /\ y.maps[j].off = o
           /\ \A l \in 0 .. n - 1 : l # j => y.maps[l] = x.maps[l]
<1> DEFINE s == [key |-> x.maps[j].key, off |-> o]
<1>1. x.maps \in [0 .. n - 1 -> Slot(O)] /\ x.capacity = n /\ x.size \in Nat /\ x.exited \in BOOLEAN
  BY DEF Tables
<1>2. x.maps[j] \in Slot(O)
  BY <1>1
<1>3. [x.maps[j] EXCEPT !.off = o] = s /\ s \in Slot(O)
  BY <1>2 DEF Slot
<1>4. y = [size |-> x.size, capacity |-> x.capacity, exited |-> x.exited,
           maps |-> [x.maps EXCEPT ![j] = [x.maps[j] EXCEPT !.off = o]]]
  BY DEF Tables, Stored
<1>5. y.maps = [x.maps EXCEPT ![j] = s]
  BY <1>3, <1>4
<1>6. y.maps \in [0 .. n - 1 -> Slot(O)]
  BY <1>1, <1>3, <1>5
<1>7. y.maps[j] = s /\ \A l \in 0 .. n - 1 : l # j => y.maps[l] = x.maps[l]
  <2> HIDE DEF s
  <2> QED
    BY <1>1, <1>5
<1>8. y.capacity = n /\ y.exited = x.exited /\ y.size = x.size
  BY <1>1, <1>4
<1>9. y \in Tables(n, O)
  BY <1>1, <1>4, <1>6 DEF Tables
<1> QED
  BY <1>1, <1>7, <1>8, <1>9

\* A store through the reference that update returned is found under its key, and
\* nothing else changes.
LEMMA SetRefSound ==
    ASSUME NEW O, NEW x, Sound(x, O), NEW key \in TableKeys, At(x, key) # NoRef, NEW o \in O,
           NEW y, y = SetRef(x, key, o)
    PROVE  /\ Sound(y, O)
           /\ y.capacity = x.capacity /\ y.exited = x.exited /\ y.size = x.size
           /\ At(y, key) = Ref(o)
           /\ \A k \in TableKeys : k # key => At(y, k) = At(x, k)
<1> DEFINE n == x.capacity
<1>1. PICK j \in UsedOf(x) : x.maps[j].key = key
  BY AtFound
<1>2. FirstStop(x, key) = j /\ j \in 0 .. n - 1
  BY <1>1, AtUsed DEF UsedOf, SlotsOf
<1>3. x \in Tables(n, O) /\ n \in Nat
  BY DEF Sound, IsTable
<1>4. y = Stored(x, j, o)
  BY <1>2 DEF SetRef, Stored
<1>5. /\ y \in Tables(n, O)
      /\ x.capacity = n /\ y.capacity = n /\ y.exited = x.exited /\ y.size = x.size
      /\ y.maps[j].key = x.maps[j].key /\ y.maps[j].off = o
      /\ \A l \in 0 .. n - 1 : l # j => y.maps[l] = x.maps[l]
  <2> HIDE DEF n
  <2> QED
    BY <1>2, <1>3, <1>4, StoredParts DEF n
<1>6. \A l \in 0 .. n - 1 : y.maps[l].key = x.maps[l].key
  BY <1>5
<1>7. UsedOf(y) = UsedOf(x)
  BY <1>5, <1>6 DEF UsedOf, SlotsOf
<1>8. \A k \in Nat : Stops(y, k) = Stops(x, k)
  <2>1. ASSUME NEW k \in Nat, NEW i \in SlotsOf(x)
        PROVE  y.maps[Probe(y, k, i)].key = x.maps[Probe(x, k, i)].key
    <3>1. Probe(x, k, i) \in 0 .. n - 1
      BY <2>1, ProbeIsSlot DEF SlotsOf, Sound
    <3>2. Probe(y, k, i) = Probe(x, k, i)
      BY <1>5, ProbeSame
    <3> QED
      BY <3>1, <3>2, <1>6
  <2> QED
    BY <2>1, <1>5 DEF Stops, SlotsOf
<1>9. ASSUME NEW k \in Nat PROVE FirstStop(y, k) = FirstStop(x, k)
  <2> DEFINE Least(S) == CHOOSE i \in S : \A l \in S : i <= l
  <2>1. FirstStop(y, k) = Probe(y, k, Least(Stops(y, k)))
    BY DEF FirstStop
  <2>2. FirstStop(x, k) = Probe(x, k, Least(Stops(x, k)))
    BY DEF FirstStop
  <2>3. \A i : Probe(y, k, i) = Probe(x, k, i)
    BY <1>5, ProbeSame
  <2> HIDE DEF Least
  <2> QED
    BY <1>8, <2>1, <2>2, <2>3
<1>10. ASSUME NEW l \in UsedOf(x)
       PROVE  x.maps[l].key \in Nat /\ y.maps[l].key = x.maps[l].key
  BY <1>6, AtUsed, IndexAssumption DEF UsedOf, SlotsOf, TableKeys, Words
<1>11. Sound(y, O)
  <2>1. IsTable(y, O)
    BY <1>3, <1>5 DEF IsTable
  <2>2. y.size = Cardinality(UsedOf(y))
    BY <1>5, <1>7 DEF Sound
  <2>3. ASSUME NEW l \in UsedOf(y)
        PROVE  /\ Stops(y, y.maps[l].key) # {}
               /\ FirstStop(y, y.maps[l].key) = l
    BY <1>7, <1>8, <1>9, <1>10, <2>3 DEF Sound
  <2>4. \A l, m \in UsedOf(y) : y.maps[l].key = y.maps[m].key => l = m
    BY <1>7, <1>10 DEF Sound
  <2> QED
    BY <2>1, <2>2, <2>3, <2>4 DEF Sound
<1>12. At(y, key) = Ref(o)
  BY <1>1, <1>5, <1>7, <1>11, AtUsed
<1>13. ASSUME NEW k \in TableKeys, k # key PROVE At(y, k) = At(x, k)
  <2>1. CASE \E l \in UsedOf(x) : x.maps[l].key = k
    <3>1. PICK l \in UsedOf(x) : x.maps[l].key = k
      BY <2>1
    <3>2. l \in UsedOf(y) /\ y.maps[l] = x.maps[l]
      BY <1>1, <1>5, <1>7, <1>13, <3>1 DEF UsedOf, SlotsOf
    <3> QED
      BY <1>11, <3>1, <3>2, AtUsed
  <2>2. CASE \A l \in UsedOf(x) : x.maps[l].key # k
    <3>1. \A l \in UsedOf(y) : y.maps[l].key # k
      BY <1>7, <1>10, <2>2
    <3>2. At(x, k) = NoRef
      BY <2>2, AtUnused DEF Sound
    <3>3. At(y, k) = NoRef
      BY <1>11, <3>1, AtUnused DEF Sound
    <3> QED
      BY <3>2, <3>3
  <2> QED
    BY <2>1, <2>2
<1> QED
  BY <1>5, <1>11, <1>12, <1>13

\* A new table holds nothing.
LEMMA CreateSound ==
    ASSUME NEW O, 0 \in O, NEW c \in Nat, NEW x, x = Create(c)
    PROVE  /\ Sound(x, O) /\ x.capacity = c /\ x.size = 0 /\ x.exited = FALSE
           /\ \A k \in TableKeys : At(x, k) = NoRef
<1>1. x.capacity = c /\ x.size = 0 /\ x.exited = FALSE
      /\ \A j \in 0 .. c - 1 : x.maps[j].key = 0
  BY DEF Create
<1>2. IsTable(x, O)
  BY IndexAssumption DEF Create, IsTable, Tables, Slot, Words
<1>3. UsedOf(x) = {}
  BY <1>1 DEF UsedOf, SlotsOf
<1>4. Cardinality(UsedOf(x)) = 0
  BY <1>3, FS_EmptySet
<1>5. Sound(x, O)
  BY <1>1, <1>2, <1>3, <1>4 DEF Sound
<1> QED
  BY <1>1, <1>2, <1>3, <1>5, AtUnused

\* While no word wraps, the probes for a key look at every slot.
LEMMA ProbesCover ==
    ASSUME NEW O, NEW x, IsTable(x, O), NEW key \in Nat, key + x.capacity <= WordSize,
           NEW l \in SlotsOf(x), x.maps[l].key = 0
    PROVE  Stops(x, key) # {}
<1> DEFINE c == x.capacity
           i == (l - key) % c
<1>1. c \in Nat \ {0} /\ l \in 0 .. c - 1 /\ l - key \in Int /\ key \in Int
  BY DEF IsTable, SlotsOf
<1>2. i \in 0 .. c - 1
  BY <1>1, ModRange
<1>3. (i + key) % c = l
  <2> DEFINE q == (l - key) \div c
  <2>1. q \in Int /\ l - key = (q * c) + i
    BY <1>1, DivMod
  <2>2. \A k, n, j \in Int : \A m \in Nat :
          j - m = (k * n) + i => -k \in Int /\ i + m = ((-k) * n) + j
    <3> HIDE DEF i
    <3>1. i \in Int
      BY <1>1, <1>2
    <3> QED
      BY <3>1
  <2>3. -q \in Int /\ i + key = ((-q) * c) + l
    <3> HIDE DEF q, i
    <3>1. c \in Int /\ l \in Int
      BY <1>1
    <3> QED
      BY <2>1, <2>2, <3>1
  <2> HIDE DEF q
  <2> QED
    BY <1>1, <2>3, ModUnique
<1> HIDE DEF i
<1>4. (key + i) % WordSize = key + i
  <2>1. key + i \in 0 .. WordSize - 1 /\ WordSize \in Nat \ {0}
    BY <1>1, <1>2, IndexAssumption
  <2> QED
    BY <2>1, ModSmall
<1>5. Probe(x, key, i) = l
  <2>1. key + i = i + key
    BY <1>1, <1>2
  <2> QED
    BY <2>1, <1>3, <1>4 DEF Probe
<1>6. i \in Stops(x, key)
  BY <1>2, <1>5 DEF Stops
<1> QED
  BY <1>6

NewCapacity(c) == ((c + GrowBase) * 3) \div 2

LEMMA NewCapacityGrows ==
    ASSUME NEW c \in Nat
    PROVE  NewCapacity(c) \in Nat /\ c < NewCapacity(c)
<1>1. GrowBase \in Nat /\ GrowBase >= 1
  BY IndexAssumption
<1> DEFINE a == (c + GrowBase) * 3
           q == a \div 2
<1>2. a \in Int /\ a >= (3 * c) + 3
  BY <1>1
<1>3. q \in Int /\ a <= (q * 2) + 1
  <2> HIDE DEF a
  <2> QED
    BY <1>2
<1>4. q = NewCapacity(c)
  BY DEF NewCapacity
<1> HIDE DEF q, a
<1>5. q >= c + 1
  BY <1>2, <1>3
<1> QED
  BY <1>3, <1>4, <1>5

\* One step of the loop of grow, over the tables g of the steps before it.
FillStep(g, x, i) ==
  IF i = 0 THEN Create(NewCapacity(x.capacity))
  ELSE IF x.maps[i - 1].key = 0 THEN g[i - 1]
  ELSE Rehash(g[i - 1], x.maps[i - 1])

IsFill(g, x, m) == g = [i \in 0 .. m |-> FillStep(g, x, i)]

\* The loop has a result after every step.
LEMMA FillExists ==
    ASSUME NEW x, NEW n \in Nat
    PROVE  \E g : IsFill(g, x, n)
<1> DEFINE S == {m \in Nat : ~ \E g : IsFill(g, x, m)}
<1>1. SUFFICES ASSUME S # {} PROVE FALSE
  OBVIOUS
<1>2. PICK m \in S : \A k \in S : m <= k
  BY <1>1, LeastOf
<1>3. m \in Nat /\ ~ \E g : IsFill(g, x, m)
  OBVIOUS
<1>4. CASE m = 0
  <2> DEFINE g == [i \in 0 .. 0 |-> Create(NewCapacity(x.capacity))]
  <2>1. \A i \in 0 .. 0 : FillStep(g, x, i) = Create(NewCapacity(x.capacity))
    BY DEF FillStep
  <2>2. g = [i \in 0 .. 0 |-> FillStep(g, x, i)]
    <3> HIDE DEF g
    <3>1. [i \in 0 .. 0 |-> FillStep(g, x, i)]
          = [i \in 0 .. 0 |-> Create(NewCapacity(x.capacity))]
      BY <2>1
    <3> QED
      BY <3>1 DEF g
  <2> HIDE DEF g
  <2> QED
    BY <2>2, <1>3, <1>4 DEF IsFill
<1>5. CASE m # 0
  <2>1. m - 1 \in Nat /\ ~ (m <= m - 1)
    BY <1>3, <1>5
  <2>2. PICK f : IsFill(f, x, m - 1)
    BY <1>2, <2>1
  <2> DEFINE g == [i \in 0 .. m |-> IF i = m THEN FillStep(f, x, m) ELSE f[i]]
  <2>3. \A i \in 0 .. m : i # m => g[i] = f[i] /\ f[i] = FillStep(f, x, i)
    <3>1. \A i \in 0 .. m : i # m => i \in 0 .. m - 1
      BY <1>3
    <3> QED
      BY <2>2, <3>1 DEF IsFill
  <2>4. ASSUME NEW i \in 0 .. m PROVE FillStep(g, x, i) = FillStep(f, x, i)
    <3>1. CASE i = 0
      BY <3>1 DEF FillStep
    <3>2. CASE i # 0
      <4>1. i - 1 \in 0 .. m /\ i - 1 # m
        BY <1>3, <3>2
      <4>2. g[i - 1] = f[i - 1]
        BY <2>3, <4>1
      <4> HIDE DEF g
      <4> QED
        BY <4>2, <3>2 DEF FillStep
    <3> QED
      BY <3>1, <3>2
  <2>5. \A i \in 0 .. m : g[i] = FillStep(f, x, i)
    BY <2>3
  <2>6. g = [i \in 0 .. m |-> g[i]]
    OBVIOUS
  <2> HIDE DEF g
  <2>7. g = [i \in 0 .. m |-> FillStep(g, x, i)]
    BY <2>4, <2>5, <2>6
  <2> QED
    BY <2>7, <1>3 DEF IsFill
<1> QED
  BY <1>4, <1>5

LEMMA RehashedIsFill ==
    ASSUME NEW x, x.capacity \in Nat
    PROVE  \E g : IsFill(g, x, x.capacity) /\ Rehashed(x) = g[x.capacity]
<1> DEFINE fill[i \in 0 .. x.capacity] ==
             IF i = 0 THEN Create(((x.capacity + GrowBase) * 3) \div 2)
             ELSE IF x.maps[i - 1].key = 0 THEN fill[i - 1]
             ELSE Rehash(fill[i - 1], x.maps[i - 1])
<1>1. Rehashed(x) = fill[x.capacity]
  BY DEF Rehashed
<1>2. fill = CHOOSE g : IsFill(g, x, x.capacity)
  BY DEF fill, IsFill, FillStep, NewCapacity
<1>3. IsFill(fill, x, x.capacity)
  <2> HIDE DEF fill
  <2> QED
    BY <1>2, FillExists
<1> QED
  BY <1>1, <1>3

\* What the slots of x below i hold is found in y, and nothing else.
Moved(y, x, i) ==
  /\ ~y.exited =>
       \A j \in UsedOf(x) : j < i => At(y, x.maps[j].key) = Ref(x.maps[j].off)
  /\ \A k \in TableKeys : (\A j \in UsedOf(x) : j < i => x.maps[j].key # k) => At(y, k) = NoRef

\* No probe for a key of x wraps in a table of c slots.
NoWrap(x, c) == \A j \in UsedOf(x) : x.maps[j].key + c <= WordSize

\* What holds after i steps of the loop.
FillInv(y, x, i, O) ==
  /\ Sound(y, O)
  /\ y.capacity = NewCapacity(x.capacity)
  /\ y.size <= i
  /\ Moved(y, x, i)
  /\ NoWrap(x, NewCapacity(x.capacity)) => ~y.exited

LEMMA RehashStep ==
    ASSUME NEW O, 0 \in O, NEW x, Sound(x, O), NEW i \in Nat, i + 1 <= x.capacity, i \in UsedOf(x),
           NEW y, FillInv(y, x, i, O), NEW w, w = Rehash(y, x.maps[i])
    PROVE  FillInv(w, x, i + 1, O)
<1> DEFINE key == x.maps[i].key
           off == x.maps[i].off
           z == Claim(y, key)
<1>1. key \in TableKeys /\ off \in O /\ At(x, key) = Ref(off)
  <2>1. x.maps[i] \in Slot(O) /\ key \in TableKeys /\ At(x, key) = Ref(off)
    BY AtUsed
  <2> QED
    BY <2>1 DEF Slot
<1>2. Sound(y, O) /\ y.capacity = NewCapacity(x.capacity) /\ y.size <= i /\ Moved(y, x, i)
      /\ (NoWrap(x, NewCapacity(x.capacity)) => ~y.exited)
  BY DEF FillInv
<1>3. w = IF z.exited THEN z ELSE SetRef(z, key, off)
  BY DEF Rehash
<1>4. /\ Sound(z, O) /\ z.capacity = y.capacity /\ y.size <= z.size /\ z.size <= y.size + 1
      /\ \A k \in TableKeys : k # key => At(z, k) = At(y, k)
      /\ Stops(y, key) = {} => z.exited
      /\ Stops(y, key) # {} =>
           /\ z.exited = y.exited
           /\ At(z, key) = IF At(y, key) = NoRef THEN Ref(0) ELSE At(y, key)
  <2>1. z = Claim(y, key)
    OBVIOUS
  <2> HIDE DEF z, key
  <2> QED
    BY <1>1, <1>2, <2>1, ClaimSound
<1> HIDE DEF z
<1>5. \A j \in UsedOf(x) : j < i => x.maps[j].key # key
  BY DEF Sound
<1>6. \A j \in UsedOf(x) : j < i + 1 <=> (j < i \/ j = i)
  BY DEF UsedOf, SlotsOf
<1>7. ASSUME NoWrap(x, NewCapacity(x.capacity)) PROVE ~z.exited
  <2>1. y.size < y.capacity /\ y.capacity \in Nat /\ x.capacity \in Nat
    <3>1. x.capacity \in Nat /\ y.size \in Nat /\ y.capacity \in Nat
      BY <1>2, TableParts DEF Sound
    <3>2. x.capacity < NewCapacity(x.capacity)
      BY <3>1, NewCapacityGrows
    <3> QED
      BY <1>2, <3>1, <3>2
  <2>2. PICK l \in SlotsOf(y) : y.maps[l].key = 0
    BY <1>2, <2>1, UsedFinite DEF Sound
  <2>3. key + y.capacity <= WordSize /\ key \in Nat
    BY <1>1, <1>2, <1>7, IndexAssumption DEF NoWrap, TableKeys, Words
  <2>4. Stops(y, key) # {}
    <3> HIDE DEF key
    <3> QED
      BY <1>2, <2>2, <2>3, ProbesCover DEF Sound
  <2> QED
    BY <1>2, <1>4, <1>7, <2>4
<1>8. z.size <= i + 1 /\ z.size \in Nat
  <2>1. y.size \in Nat /\ z.size \in Nat
    BY <1>2, <1>4, TableParts DEF Sound
  <2> QED
    BY <1>2, <1>4, <2>1
<1>9. \A k \in TableKeys :
         (\A j \in UsedOf(x) : j < i + 1 => x.maps[j].key # k) => k # key /\ At(z, k) = NoRef
  BY <1>2, <1>4, <1>6 DEF Moved
<1>10. CASE z.exited
  BY <1>2, <1>3, <1>4, <1>7, <1>8, <1>9, <1>10 DEF FillInv, Moved
<1>11. CASE ~z.exited
  <2>1. At(z, key) # NoRef
    BY <1>4, <1>11 DEF Ref, NoRef
  <2>2. /\ Sound(w, O)
        /\ w.capacity = z.capacity /\ w.exited = z.exited /\ w.size = z.size
        /\ At(w, key) = Ref(off)
        /\ \A k \in TableKeys : k # key => At(w, k) = At(z, k)
    <3>1. w = SetRef(z, key, off)
      BY <1>3, <1>11
    <3> HIDE DEF key, off
    <3> QED
      BY <1>1, <1>4, <2>1, <3>1, SetRefSound
  <2>3. ~y.exited
    BY <1>4, <1>11
  <2>4. ASSUME NEW j \in UsedOf(x), j < i + 1 PROVE At(w, x.maps[j].key) = Ref(x.maps[j].off)
    <3>1. CASE j = i
      BY <3>1, <2>2
    <3>2. CASE j < i
      <4>1. x.maps[j].key # key /\ x.maps[j].key \in TableKeys
        BY <1>5, <3>2, AtUsed
      <4>2. At(y, x.maps[j].key) = Ref(x.maps[j].off)
        BY <1>2, <2>3, <3>2 DEF Moved
      <4> QED
        BY <1>4, <2>2, <4>1, <4>2
    <3> QED
      BY <1>6, <2>4, <3>1, <3>2
  <2>5. Moved(w, x, i + 1)
    BY <1>9, <2>2, <2>4 DEF Moved
  <2> QED
    BY <1>2, <1>4, <1>8, <1>11, <2>2, <2>5 DEF FillInv
<1> QED
  BY <1>10, <1>11

LEMMA FillAll ==
    ASSUME NEW O, 0 \in O, NEW x, Sound(x, O), NEW g, IsFill(g, x, x.capacity)
    PROVE  \A i \in 0 .. x.capacity : FillInv(g[i], x, i, O)
<1> DEFINE c == x.capacity
           S == {i \in 0 .. c : ~FillInv(g[i], x, i, O)}
<1>0. c \in Nat /\ IsTable(x, O)
  BY TableParts DEF Sound
<1>1. SUFFICES ASSUME S # {} PROVE FALSE
  OBVIOUS
<1>2. S \in SUBSET Nat
  BY <1>0
<1>3. PICK m \in S : \A k \in S : m <= k
  BY <1>1, <1>2, LeastOf
<1>4. m \in 0 .. c /\ ~FillInv(g[m], x, m, O) /\ g[m] = FillStep(g, x, m)
  BY DEF IsFill
<1>5. CASE m = 0
  <2>1. g[m] = Create(NewCapacity(c))
    BY <1>4, <1>5 DEF FillStep
  <2> DEFINE y == g[m]
  <2>2. NewCapacity(c) \in Nat
    BY <1>0, NewCapacityGrows
  <2>3. y = Create(NewCapacity(c))
    BY <2>1
  <2> HIDE DEF y, c
  <2>4. /\ Sound(y, O) /\ y.capacity = NewCapacity(c) /\ y.size = 0 /\ y.exited = FALSE
        /\ \A k \in TableKeys : At(y, k) = NoRef
    BY <2>2, <2>3, CreateSound
  <2>5. \A j \in UsedOf(x) : ~(j < 0)
    BY <1>0 DEF UsedOf, SlotsOf
  <2>6. FillInv(y, x, 0, O)
    BY <2>4, <2>5 DEF FillInv, Moved, c
  <2> QED
    BY <2>6, <1>4, <1>5 DEF y
<1>6. CASE m # 0
  <2> DEFINE i == m - 1
             y == g[i]
  <2>1. i \in Nat /\ i \in 0 .. c /\ i + 1 = m /\ i + 1 <= c /\ i \in SlotsOf(x)
    BY <1>0, <1>4, <1>6 DEF SlotsOf
  <2>2. i \notin S
    BY <1>3, <2>1
  <2>3. FillInv(y, x, i, O)
    BY <2>1, <2>2
  <2>4. g[m] = IF x.maps[i].key = 0 THEN y ELSE Rehash(y, x.maps[i])
    BY <1>4, <1>6 DEF FillStep
  <2>5. CASE x.maps[i].key = 0
    <3> HIDE DEF i, y
    <3>1. i \notin UsedOf(x)
      BY <2>5 DEF UsedOf
    <3>2. \A j \in UsedOf(x) : j < i + 1 <=> j < i
      BY <2>1, <3>1 DEF UsedOf, SlotsOf
    <3>3. Moved(y, x, i + 1)
      BY <2>3, <3>2 DEF FillInv, Moved
    <3>4. y.size \in Nat
      BY <2>3, TableParts DEF FillInv, Sound
    <3>5. FillInv(y, x, i + 1, O)
      BY <2>1, <2>3, <3>3, <3>4 DEF FillInv
    <3> QED
      BY <2>1, <2>4, <2>5, <3>5, <1>4
  <2>6. CASE x.maps[i].key # 0
    <3> HIDE DEF i, y
    <3>1. i \in UsedOf(x)
      BY <2>1, <2>6 DEF UsedOf
    <3>2. g[m] = Rehash(y, x.maps[i])
      BY <2>4, <2>6
    <3> DEFINE w == g[m]
    <3>3. w = Rehash(y, x.maps[i])
      BY <3>2
    <3> HIDE DEF w
    <3>4. FillInv(w, x, i + 1, O)
      BY <2>1, <2>3, <3>1, <3>3, RehashStep
    <3> QED
      BY <2>1, <3>4, <1>4 DEF w
  <2> QED
    BY <2>5, <2>6
<1> QED
  BY <1>5, <1>6

\* The bigger table holds what the old one held.
LEMMA RehashedSound ==
    ASSUME NEW O, 0 \in O, NEW x, Sound(x, O), NEW y, y = Rehashed(x)
    PROVE  /\ Sound(y, O) /\ y.capacity = NewCapacity(x.capacity) /\ y.size <= x.capacity
           /\ \A k \in TableKeys : At(x, k) = NoRef => At(y, k) = NoRef
           /\ ~y.exited => \A k \in TableKeys : At(y, k) = At(x, k)
           /\ NoWrap(x, NewCapacity(x.capacity)) => ~y.exited
<1> DEFINE c == x.capacity
<1>0. c \in Nat /\ IsTable(x, O)
  BY TableParts DEF Sound
<1>1. PICK g : IsFill(g, x, c) /\ y = g[c]
  BY <1>0, RehashedIsFill
<1>2. FillInv(y, x, c, O)
  BY <1>0, <1>1, FillAll
<1>3. \A j \in UsedOf(x) : j < c
  BY <1>0 DEF UsedOf, SlotsOf
<1>4. ASSUME NEW k \in TableKeys, At(x, k) = NoRef PROVE At(y, k) = NoRef
  <2>1. ASSUME NEW j \in UsedOf(x) PROVE x.maps[j].key # k
    <3>1. At(x, x.maps[j].key) = Ref(x.maps[j].off)
      BY AtUsed
    <3>2. Ref(x.maps[j].off) # NoRef
      BY DEF Ref, NoRef
    <3> QED
      BY <1>4, <3>1, <3>2
  <2> QED
    BY <1>2, <2>1 DEF FillInv, Moved
<1>5. ASSUME ~y.exited, NEW k \in TableKeys PROVE At(y, k) = At(x, k)
  <2>1. CASE At(x, k) = NoRef
    BY <1>4, <2>1
  <2>2. CASE At(x, k) # NoRef
    <3>1. PICK j \in UsedOf(x) : x.maps[j].key = k /\ At(x, k) = Ref(x.maps[j].off)
      BY <2>2, AtFound
    <3> QED
      BY <1>2, <1>3, <1>5, <3>1 DEF FillInv, Moved
  <2> QED
    BY <2>1, <2>2
<1> QED
  BY <1>2, <1>4, <1>5 DEF FillInv

\* index_update keeps a table sound.  Unless it ends the program, what is found
\* under every other key is what was, and the key has a slot.
LEMMA UpdateSound ==
    ASSUME NEW O, 0 \in O, NEW x, Sound(x, O), NEW h \in Words, NEW y, y = Update(x, h)
    PROVE  /\ Sound(y, O)
           /\ \A k \in TableKeys : At(x, k) = NoRef /\ k # KeyOf(h) => At(y, k) = NoRef
           /\ ~y.exited =>
                /\ \A k \in TableKeys : k # KeyOf(h) => At(y, k) = At(x, k)
                /\ At(y, KeyOf(h)) # NoRef
                /\ At(y, KeyOf(h)) = IF At(x, KeyOf(h)) = NoRef THEN Ref(0) ELSE At(x, KeyOf(h))
<1> DEFINE key == KeyOf(h)
           z == Grown(x)
<1>1. key \in TableKeys
  BY KeyIsKey
<1>2. /\ Sound(z, O)
      /\ \A k \in TableKeys : At(x, k) = NoRef => At(z, k) = NoRef
      /\ ~z.exited => \A k \in TableKeys : At(z, k) = At(x, k)
  <2>1. CASE Overloaded(x)
    <3>1. z = Rehashed(x)
      BY <2>1 DEF Grown
    <3> HIDE DEF z
    <3> QED
      BY <3>1, RehashedSound
  <2>2. CASE ~Overloaded(x)
    BY <2>2 DEF Grown
  <2> QED
    BY <2>1, <2>2
<1>3. y = Claim(z, key)
  BY DEF Update
<1> HIDE DEF z, key
<1>4. /\ Sound(y, O)
      /\ \A k \in TableKeys : k # key => At(y, k) = At(z, k)
      /\ Stops(z, key) = {} => y.exited
      /\ Stops(z, key) # {} =>
           /\ y.exited = z.exited
           /\ At(y, key) = IF At(z, key) = NoRef THEN Ref(0) ELSE At(z, key)
  BY <1>1, <1>2, <1>3, ClaimSound
<1>5. ASSUME ~y.exited
      PROVE  /\ \A k \in TableKeys : k # key => At(y, k) = At(x, k)
             /\ At(y, key) # NoRef
             /\ At(y, key) = IF At(x, key) = NoRef THEN Ref(0) ELSE At(x, key)
  <2>1. Stops(z, key) # {} /\ ~z.exited
    BY <1>4, <1>5
  <2> QED
    BY <1>1, <1>2, <1>4, <2>1 DEF Ref, NoRef
<1> QED
  BY <1>2, <1>4, <1>5 DEF key

-----------------------------------------------------------------------------
(* The size of a table that holds keys of K.                               *)

HoldsOnly(x, K) == \A k \in TableKeys : At(x, k) # NoRef => k \in K

\* What growing at a load of 7/10 makes of a table for n keys.
MaxCapacity(n) == NewCapacity((10 * n) \div 7)

\* No probe of a table for the keys of K wraps at WordSize.
RoomFor(K) == \A k \in K : k + MaxCapacity(Cardinality(K)) <= WordSize

LEMMA HalfMono ==
    ASSUME NEW a \in Int, NEW b \in Int, a <= b
    PROVE  a \div 2 <= b \div 2
OBVIOUS

LEMMA SeventhIs ==
    ASSUME NEW c \in Nat, NEW n \in Nat, 7 * c <= 10 * n
    PROVE  c <= (10 * n) \div 7 /\ (10 * n) \div 7 \in Nat
OBVIOUS

LEMMA CapacityBound ==
    ASSUME NEW c \in Nat, NEW n \in Nat, 7 * c <= 10 * n
    PROVE  NewCapacity(c) <= MaxCapacity(n) /\ MaxCapacity(n) \in Nat
<1> DEFINE d == (10 * n) \div 7
<1>1. d \in Nat /\ c <= d
  BY SeventhIs
<1> HIDE DEF d
<1> DEFINE a == (c + GrowBase) * 3
           b == (d + GrowBase) * 3
<1>2. a \in Int /\ b \in Int /\ a <= b
  BY <1>1, IndexAssumption
<1> HIDE DEF a, b
<1>3. a \div 2 <= b \div 2
  BY <1>2, HalfMono
<1>4. NewCapacity(c) = a \div 2 /\ NewCapacity(d) = b \div 2
  BY DEF NewCapacity, a, b
<1>5. MaxCapacity(n) = NewCapacity(d)
  BY DEF MaxCapacity, d
<1> QED
  BY <1>1, <1>3, <1>4, <1>5, NewCapacityGrows

\* A table is no larger than the keys that it holds.
LEMMA SizeBound ==
    ASSUME NEW O, NEW x, Sound(x, O), NEW K, IsFiniteSet(K), HoldsOnly(x, K)
    PROVE  x.size <= Cardinality(K)
<1> DEFINE f == [j \in UsedOf(x) |-> x.maps[j].key]
<1>1. ASSUME NEW j \in UsedOf(x) PROVE x.maps[j].key \in K
  <2>1. At(x, x.maps[j].key) = Ref(x.maps[j].off) /\ x.maps[j].key \in TableKeys
    BY AtUsed
  <2>2. Ref(x.maps[j].off) # NoRef
    BY DEF Ref, NoRef
  <2> QED
    BY <2>1, <2>2 DEF HoldsOnly
<1>2. f \in Injection(UsedOf(x), K)
  <2>1. f \in [UsedOf(x) -> K]
    BY <1>1
  <2>2. \A a, b \in UsedOf(x) : f[a] = f[b] => a = b
    BY DEF Sound
  <2> QED
    BY <2>1, <2>2 DEF Injection, IsInjective
<1> HIDE DEF f
<1>3. Cardinality(UsedOf(x)) <= Cardinality(K)
  BY <1>2, FS_Injection
<1> QED
  BY <1>3 DEF Sound

\* index_update never ends the program while there is room for the keys in use.
LEMMA UpdateStays ==
    ASSUME NEW O, 0 \in O, NEW x, Sound(x, O), ~x.exited,
           NEW K \in SUBSET TableKeys, IsFiniteSet(K), HoldsOnly(x, K), RoomFor(K),
           x.capacity <= MaxCapacity(Cardinality(K)),
           NEW h \in Words, KeyOf(h) \in K, NEW y, y = Update(x, h)
    PROVE  ~y.exited /\ HoldsOnly(y, K) /\ y.capacity <= MaxCapacity(Cardinality(K))
<1> DEFINE key == KeyOf(h)
           z == Grown(x)
           n == Cardinality(K)
           c == x.capacity
<1>1. key \in TableKeys /\ key \in Nat
  BY KeyIsKey, IndexAssumption DEF TableKeys, Words
<1>2. n \in Nat /\ c \in Nat /\ x.size \in Nat /\ x.size <= n
  BY FS_CardinalityType, TableParts, SizeBound DEF Sound
<1>3. ASSUME Overloaded(x)
      PROVE  NewCapacity(c) <= MaxCapacity(n) /\ MaxCapacity(n) \in Nat
  <2>1. 7 * c <= 10 * n
    BY <1>2, <1>3 DEF Overloaded
  <2> HIDE DEF n
  <2> QED
    BY <1>2, <2>1, CapacityBound
<1>4. /\ Sound(z, O) /\ ~z.exited /\ z.size < z.capacity /\ z.capacity <= MaxCapacity(n)
      /\ z.capacity \in Nat /\ MaxCapacity(n) \in Nat
  <2>1. CASE Overloaded(x)
    <3>1. z = Rehashed(x)
      BY <2>1 DEF Grown
    <3>2. NoWrap(x, NewCapacity(c))
      <4>1. SUFFICES ASSUME NEW j \in UsedOf(x) PROVE x.maps[j].key + NewCapacity(c) <= WordSize
        BY DEF NoWrap
      <4>2. At(x, x.maps[j].key) = Ref(x.maps[j].off) /\ x.maps[j].key \in TableKeys
        BY AtUsed
      <4>3. Ref(x.maps[j].off) # NoRef
        BY DEF Ref, NoRef
      <4> DEFINE k == x.maps[j].key
      <4>4. k \in K /\ k \in Nat
        BY <4>2, <4>3, IndexAssumption DEF HoldsOnly, TableKeys, Words
      <4>5. k + MaxCapacity(n) <= WordSize
        BY <4>4 DEF RoomFor
      <4>6. NewCapacity(c) \in Nat
        BY <1>2, NewCapacityGrows
      <4> HIDE DEF k, n
      <4>7. k + NewCapacity(c) <= WordSize
        BY <1>3, <2>1, <4>4, <4>5, <4>6, IndexAssumption
      <4> QED
        BY <4>7 DEF k
    <3> HIDE DEF z
    <3>3. /\ Sound(z, O) /\ z.capacity = NewCapacity(c) /\ z.size <= c
          /\ NoWrap(x, NewCapacity(c)) => ~z.exited
      BY <3>1, RehashedSound
    <3>4. z.size \in Nat /\ NewCapacity(c) \in Nat /\ c < NewCapacity(c)
      BY <1>2, <3>3, TableParts, NewCapacityGrows DEF Sound
    <3> QED
      BY <1>2, <1>3, <2>1, <3>2, <3>3, <3>4
  <2>2. CASE ~Overloaded(x)
    <3>1. z = x
      BY <2>2 DEF Grown
    <3>2. c # 0 /\ 10 * x.size <= 7 * c
      BY <1>2, <2>2 DEF Overloaded
    <3>3. x.size < c
      BY <1>2, <3>2
    <3>4. MaxCapacity(n) \in Nat
      <4>1. 0 \in Nat /\ 7 * 0 <= 10 * n
        BY <1>2
      <4> HIDE DEF n
      <4> QED
        BY <1>2, <4>1, CapacityBound
    <3> QED
      BY <1>2, <3>1, <3>3, <3>4
  <2> QED
    BY <2>1, <2>2
<1>5. y = Claim(z, key)
  BY DEF Update
<1>6. Stops(z, key) # {}
  <2>1. z.size = Cardinality(UsedOf(z)) /\ IsTable(z, O)
    BY <1>4 DEF Sound
  <2>2. PICK l \in SlotsOf(z) : z.maps[l].key = 0
    BY <1>4, <2>1, UsedFinite
  <2>3. key + MaxCapacity(n) <= WordSize
    BY DEF RoomFor
  <2> HIDE DEF z, key, n
  <2>4. key + z.capacity <= WordSize
    BY <1>1, <1>4, <2>3, IndexAssumption
  <2> QED
    BY <1>1, <2>1, <2>2, <2>4, ProbesCover
<1>7. ~y.exited /\ y.capacity = z.capacity
  <2> HIDE DEF z, key
  <2> QED
    BY <1>1, <1>4, <1>5, <1>6, ClaimSound
<1>8. HoldsOnly(y, K)
  <2>1. /\ \A k \in TableKeys : k # key => At(y, k) = At(x, k)
    BY <1>7, UpdateSound
  <2> QED
    BY <2>1 DEF HoldsOnly
<1> QED
  BY <1>4, <1>7, <1>8

-----------------------------------------------------------------------------
(* IndexCalls: any caller of index_update and index_lookup.                *)

\* The inductive invariant of the calls.
CallsInv ==
  /\ Sound(table, 0 .. MaxOff)
  /\ answer \in [found : BOOLEAN, off : 0 .. MaxOff]

\* What the table has under each key is what was last stored under it.
Recorded ==
  /\ stored = [k \in HashKeys |-> stored[k]]
  /\ ~table.exited => \A k \in HashKeys : At(table, k) = stored[k]

\* With room for the keys in use, the program does not end.
CallsStay ==
  /\ ~table.exited /\ HoldsOnly(table, HashKeys)
  /\ table.capacity <= MaxCapacity(Cardinality(HashKeys))

LEMMA RefTyped ==
    ASSUME MaxOff \in Nat, NEW o \in 0 .. MaxOff
    PROVE  /\ Ref(o) \in [found : BOOLEAN, off : 0 .. MaxOff]
           /\ NoRef \in [found : BOOLEAN, off : 0 .. MaxOff]
           /\ 0 \in 0 .. MaxOff
BY DEF Ref, NoRef

\* What is found was stored.
LEMMA FindTyped ==
    ASSUME MaxOff \in Nat, NEW x, Sound(x, 0 .. MaxOff), NEW h \in Words
    PROVE  Find(x, h) \in [found : BOOLEAN, off : 0 .. MaxOff]
<1>1. KeyOf(h) \in TableKeys /\ Find(x, h) = At(x, KeyOf(h))
  BY KeyIsKey, FindIsAt
<1>2. CASE At(x, KeyOf(h)) = NoRef
  BY <1>1, <1>2, RefTyped
<1>3. CASE At(x, KeyOf(h)) # NoRef
  <2>1. PICK j \in UsedOf(x) : At(x, KeyOf(h)) = Ref(x.maps[j].off)
    BY <1>1, <1>3, AtFound
  <2>2. x.maps[j].off \in 0 .. MaxOff
    BY <2>1, AtUsed DEF Slot
  <2> QED
    BY <1>1, <2>1, <2>2, RefTyped
<1> QED
  BY <1>2, <1>3

\* A store of o under the hash h.
Put(x, y, h, o) ==
  LET z == Update(x, h) IN y = IF z.exited THEN z ELSE SetRef(z, KeyOf(h), o)

LEMMA PutSound ==
    ASSUME MaxOff \in Nat, NEW x, Sound(x, 0 .. MaxOff), NEW h \in Words, NEW o \in 0 .. MaxOff,
           NEW y, Put(x, y, h, o)
    PROVE  /\ Sound(y, 0 .. MaxOff)
           /\ ~y.exited => /\ At(y, KeyOf(h)) = Ref(o)
                           /\ \A k \in TableKeys : k # KeyOf(h) => At(y, k) = At(x, k)
           /\ ~Update(x, h).exited => ~y.exited /\ y.capacity = Update(x, h).capacity
<1> DEFINE O == 0 .. MaxOff
           z == Update(x, h)
           key == KeyOf(h)
<1>0. key \in TableKeys /\ 0 \in O /\ o \in O
  BY KeyIsKey
<1>1. z = Update(x, h) /\ y = IF z.exited THEN z ELSE SetRef(z, key, o)
  BY DEF Put
<1> HIDE DEF z
<1>2. /\ Sound(z, O)
      /\ ~z.exited => /\ \A k \in TableKeys : k # key => At(z, k) = At(x, k)
                      /\ At(z, key) # NoRef
  <2> HIDE DEF O
  <2> QED
    BY <1>0, <1>1, UpdateSound DEF O
<1>3. CASE z.exited
  BY <1>1, <1>2, <1>3
<1>4. CASE ~z.exited
  <2> HIDE DEF O, key
  <2>1. y = SetRef(z, key, o) /\ At(z, key) # NoRef
    BY <1>1, <1>2, <1>4
  <2>2. /\ Sound(y, O)
        /\ y.capacity = z.capacity /\ y.exited = z.exited /\ y.size = z.size
        /\ At(y, key) = Ref(o)
        /\ \A k \in TableKeys : k # key => At(y, k) = At(z, k)
    BY <1>0, <1>2, <2>1, SetRefSound
  <2> QED
    BY <1>1, <1>2, <1>4, <2>2 DEF O, key
<1> QED
  BY <1>3, <1>4

LEMMA HashKeysFinite ==
    ASSUME Hashes \subseteq Words
    PROVE  /\ HashKeys \in SUBSET TableKeys /\ IsFiniteSet(HashKeys)
           /\ Cardinality(HashKeys) \in Nat /\ MaxCapacity(Cardinality(HashKeys)) \in Nat
<1>1. HashKeys \in SUBSET TableKeys
  BY KeyIsKey DEF HashKeys
<1>2. IsFiniteSet(Words)
  BY FS_Interval, IndexAssumption DEF Words
<1>3. TableKeys \in SUBSET Words
  BY DEF TableKeys
<1>4. IsFiniteSet(TableKeys)
  BY <1>2, <1>3, FS_Subset
<1>5. IsFiniteSet(HashKeys)
  BY <1>1, <1>4, FS_Subset
<1> DEFINE n == Cardinality(HashKeys)
<1>6. n \in Nat
  BY <1>5, FS_CardinalityType
<1> HIDE DEF n
<1>7. 0 \in Nat /\ 7 * 0 <= 10 * n
  BY <1>6
<1>8. MaxCapacity(n) \in Nat
  BY <1>6, <1>7, CapacityBound
<1> QED
  BY <1>1, <1>5, <1>6, <1>8 DEF n

LEMMA CallsStart ==
    ASSUME Hashes \subseteq Words, MaxOff \in Nat, CallsInit
    PROVE  CallsInv /\ CallsStay /\ Recorded
<1>1. table = Create(0) /\ answer = NoRef
  BY DEF CallsInit, Opened
<1> DEFINE O == 0 .. MaxOff
<1>2. 0 \in O /\ 0 \in Nat
  OBVIOUS
<1> HIDE DEF O
<1>3. /\ Sound(table, O) /\ table.capacity = 0 /\ table.exited = FALSE
      /\ \A k \in TableKeys : At(table, k) = NoRef
  BY <1>1, <1>2, CreateSound
<1>4. answer \in [found : BOOLEAN, off : 0 .. MaxOff]
  BY <1>1 DEF NoRef
<1> QED
  <2>1. stored = [k \in HashKeys |-> NoRef]
    BY DEF CallsInit
  <2>2. Recorded
    BY <1>3, <2>1, HashKeysFinite DEF Recorded
  <2> QED
    BY <1>3, <1>4, <2>2, HashKeysFinite DEF CallsInv, CallsStay, HoldsOnly, O

LEMMA CallsStep ==
    ASSUME Hashes \subseteq Words, MaxOff \in Nat, CallsInv,
           [CallsNext]_callsVars
    PROVE  /\ CallsInv'
           /\ CallsStay /\ RoomFor(HashKeys) => CallsStay'
           /\ Recorded => Recorded'
<1> DEFINE O == 0 .. MaxOff
<1>0. Sound(table, O) /\ answer \in [found : BOOLEAN, off : O]
  BY DEF CallsInv
<1>1. CASE UpdateCall
  <2>1. PICK h \in Hashes, o \in O :
          /\ Put(table, table', h, o)
          /\ answer' = Ref(o)
          /\ stored' = [stored EXCEPT ![KeyOf(h)] = Ref(o)]
    BY <1>1 DEF UpdateCall, Put
  <2>2. h \in Words
    OBVIOUS
  <2> DEFINE x == table
             y == table'
             z == Update(x, h)
  <2>3. Put(x, y, h, o) /\ Sound(x, O)
    BY <1>0, <2>1
  <2> HIDE DEF x, y
  <2>4. /\ Sound(y, O)
        /\ ~y.exited => /\ At(y, KeyOf(h)) = Ref(o)
                        /\ \A k \in TableKeys : k # KeyOf(h) => At(y, k) = At(x, k)
        /\ ~z.exited => ~y.exited /\ y.capacity = z.capacity
    BY <2>2, <2>3, PutSound
  <2>5. CallsInv'
    BY <2>1, <2>4, RefTyped DEF CallsInv, y
  <2>6. ASSUME CallsStay, RoomFor(HashKeys) PROVE CallsStay'
    <3>1. /\ HashKeys \in SUBSET TableKeys /\ IsFiniteSet(HashKeys) /\ KeyOf(h) \in HashKeys
      BY HashKeysFinite DEF HashKeys
    <3>2. /\ ~x.exited /\ HoldsOnly(x, HashKeys)
          /\ x.capacity <= MaxCapacity(Cardinality(HashKeys))
      BY <2>6 DEF CallsStay, x
    <3>3. 0 \in O /\ z = Update(x, h)
      OBVIOUS
    <3> HIDE DEF O, z
    <3>4. ~z.exited /\ HoldsOnly(z, HashKeys) /\ z.capacity <= MaxCapacity(Cardinality(HashKeys))
      BY <2>2, <2>3, <2>6, <3>1, <3>2, <3>3, UpdateStays
    <3>5. ~y.exited /\ y.capacity = z.capacity
      BY <2>4, <3>4
    <3>6. HoldsOnly(y, HashKeys)
      BY <2>4, <3>1, <3>2, <3>5 DEF HoldsOnly
    <3> QED
      BY <3>4, <3>5, <3>6 DEF CallsStay, y, HoldsOnly
  <2>7. ASSUME Recorded PROVE Recorded'
    <3>1. HashKeys \in SUBSET TableKeys /\ KeyOf(h) \in HashKeys
      BY HashKeysFinite DEF HashKeys
    <3>2. /\ stored' = [k \in HashKeys |-> stored'[k]]
          /\ stored'[KeyOf(h)] = Ref(o)
          /\ \A k \in HashKeys : k # KeyOf(h) => stored'[k] = stored[k]
      BY <2>1, <2>7, <3>1 DEF Recorded
    <3>3. ASSUME ~y.exited, NEW k \in HashKeys PROVE At(y, k) = stored'[k]
      <4>1. ~x.exited
        BY <1>1 DEF UpdateCall, x
      <4>2. At(x, k) = stored[k]
        BY <2>7, <4>1 DEF Recorded, x
      <4> QED
        BY <2>4, <3>1, <3>2, <3>3, <4>2
    <3> QED
      BY <3>2, <3>3 DEF Recorded, y
  <2> QED
    BY <2>5, <2>6, <2>7
<1>2. CASE UpdateFails
  <2>1. table' = table /\ answer' = NoRef /\ stored' = stored
    BY <1>2 DEF UpdateFails
  <2> QED
    BY <1>0, <2>1, RefTyped DEF CallsInv, CallsStay, Recorded
<1>3. CASE LookupCall
  <2>1. PICK h \in Hashes : answer' = Find(table, h)
    BY <1>3 DEF LookupCall
  <2>2. table' = table /\ h \in Words /\ stored' = stored
    BY <1>3 DEF LookupCall
  <2>3. answer' \in [found : BOOLEAN, off : O]
    BY <1>0, <2>1, <2>2, FindTyped
  <2> QED
    BY <1>0, <2>2, <2>3 DEF CallsInv, CallsStay, Recorded
<1>4. CASE UNCHANGED callsVars
  BY <1>0, <1>4 DEF CallsInv, CallsStay, Recorded, callsVars
<1> QED
  BY <1>1, <1>2, <1>3, <1>4 DEF CallsNext

\* The invariant says of the table what the run checks.
LEMMA CallsSound ==
    ASSUME MaxOff \in Nat, CallsInv
    PROVE  TableTypeOK /\ ProbesReachKeys
<1>0. Sound(table, 0 .. MaxOff) /\ IsTable(table, 0 .. MaxOff)
  BY DEF CallsInv, Sound
<1>1. table.capacity \in Nat /\ table.size \in 0 .. table.capacity
  BY <1>0, TableParts, UsedFinite DEF Sound
<1>2. table.exited \in BOOLEAN
      /\ table.maps \in [0 .. table.capacity - 1 -> [key : 0 .. WordSize - 1, off : 0 .. MaxOff]]
  BY <1>0 DEF IsTable, Tables, Slot, Words
<1>3. TableTypeOK
  BY <1>1, <1>2 DEF CallsInv, TableTypeOK, Slots
<1>4. ProbesReachKeys
  <2> DEFINE U == UsedOf(table)
  <2>1. /\ table.size = Cardinality(U)
        /\ \A j \in U : FirstStop(table, table.maps[j].key) = j
        /\ \A j, k \in U : table.maps[j].key = table.maps[k].key => j = k
    BY <1>0 DEF Sound
  <2>2. Used = U
    BY DEF Used, UsedOf, Slots, SlotsOf
  <2> HIDE DEF U
  <2> QED
    BY <2>1, <2>2 DEF ProbesReachKeys
<1> QED
  BY <1>3, <1>4

\* Whatever is stored, grown or refused, each key is in one slot, which probing
\* reaches, and the size of the table counts the slots in use; also when words wrap.
THEOREM TableStaysSound ==
    CallsSpec => [](TableTypeOK /\ ProbesReachKeys)
<1>0. Hashes \subseteq Words /\ MaxOff \in Nat
  BY CallsAssumption DEF Words
<1>1. CallsInit => CallsInv
  BY <1>0, CallsStart
<1>2. CallsInv /\ [CallsNext]_callsVars => CallsInv'
  BY <1>0, CallsStep
<1>3. CallsInv => TableTypeOK /\ ProbesReachKeys
  BY <1>0, CallsSound
<1> QED
  BY <1>1, <1>2, <1>3, PTL DEF CallsSpec

\* As long as no probe wraps at WordSize, the table is also never found full, and the
\* program does not end in update.
THEOREM TableIsSoundWithRoom ==
    ASSUME RoomFor(HashKeys)
    PROVE  CallsSpec => []TableIsSound
<1>0. Hashes \subseteq Words /\ MaxOff \in Nat
  BY CallsAssumption DEF Words
<1>1. CallsInit => CallsInv /\ CallsStay
  BY <1>0, CallsStart
<1>2. CallsInv /\ CallsStay /\ [CallsNext]_callsVars => CallsInv' /\ CallsStay'
  BY <1>0, CallsStep
<1>3. CallsInv /\ CallsStay => TableIsSound
  BY <1>0, CallsSound DEF CallsStay, TableIsSound, NeverExits
<1> QED
  BY <1>1, <1>2, <1>3, PTL DEF CallsSpec

\* Until EXIT, every hash leads to what was last stored under it, and to nothing before
\* its first store, whatever the table grew or refused in between.
THEOREM StoresStayFound ==
    CallsSpec => []StoresAreFound
<1>0. Hashes \subseteq Words /\ MaxOff \in Nat
  BY CallsAssumption DEF Words
<1>1. CallsInit => CallsInv /\ Recorded
  BY <1>0, CallsStart
<1>2. CallsInv /\ Recorded /\ [CallsNext]_callsVars => CallsInv' /\ Recorded'
  BY <1>0, CallsStep
<1>3. ASSUME CallsInv, Recorded PROVE StoresAreFound
  <2> SUFFICES ASSUME ~table.exited, NEW h \in Hashes
               PROVE  Find(table, h) = stored[KeyOf(h)]
    BY DEF StoresAreFound
  <2>1. Sound(table, 0 .. MaxOff) /\ KeyOf(h) \in HashKeys
    BY <1>3 DEF CallsInv, HashKeys
  <2>2. Find(table, h) = At(table, KeyOf(h))
    BY <1>0, <2>1, KeyIsKey, FindIsAt
  <2> QED
    BY <1>3, <2>1, <2>2 DEF Recorded
<1> QED
  BY <1>1, <1>2, <1>3, PTL DEF CallsSpec

-----------------------------------------------------------------------------
(* KVDB: the log of records behind the index.                              *)

\* The key under which the index has a key of the dictionary.
SlotKey(k) == KeyOf(HashOf[k])

\* L is a log of n records, each linked to an older one.
IsLog(L, n) ==
  /\ n \in Nat /\ L = [o \in 0 .. n - 1 |-> L[o]]
  /\ \A o \in 1 .. n - 1 : /\ L[o].key \in Keys
                           /\ L[o].val \in Vals \cup {NoVal}
                           /\ L[o].off \in 0 .. o - 1

\* The last of a set of records, and 0 if there is none.
Last(S) == IF S = {} THEN 0 ELSE CHOOSE o \in S : \A p \in S : p <= o

\* The records below n with one slot, and those of one key.
Sharing(L, n, h) == {o \in 1 .. n - 1 : SlotKey(L[o].key) = h}
Having(L, n, k)  == {o \in 1 .. n - 1 : L[o].key = k}

\* Each record is linked to the one before it in its slot.
Linked(L, n) == \A o \in 1 .. n - 1 : L[o].off = Last(Sharing(L, o, SlotKey(L[o].key)))

\* The index leads to the newest record of each slot.
Headed(x, L, n) == \A h \in HashesUsed : At(x, h).off = Last(Sharing(L, n, h))

LEMMA KeysKnown ==
    ASSUME NEW k \in Keys
    PROVE  HashOf[k] \in Words /\ SlotKey(k) \in TableKeys /\ SlotKey(k) \in HashesUsed
<1>1. HashOf[k] \in Words
  BY KVDBAssumption DEF Words
<1> QED
  BY <1>1, KeyIsKey DEF SlotKey, HashesUsed

LEMMA LastIs ==
    ASSUME NEW S \in SUBSET Nat, NEW q \in S, \A p \in S : p <= q
    PROVE  Last(S) = q
<1> DEFINE c == CHOOSE o \in S : \A p \in S : p <= o
<1>1. c \in S /\ \A p \in S : p <= c
  OBVIOUS
<1>2. Last(S) = c
  BY DEF Last
<1> HIDE DEF c
<1>3. c <= q /\ q <= c /\ c \in Nat /\ q \in Nat
  BY <1>1
<1> QED
  BY <1>2, <1>3

LEMMA LastOf ==
    ASSUME NEW m \in Nat, NEW S \in SUBSET (1 .. m)
    PROVE  /\ S = {} => Last(S) = 0
           /\ S # {} => Last(S) \in S /\ \A p \in S : p <= Last(S)
           /\ Last(S) \in 0 .. m
<1>1. CASE S = {}
  BY <1>1 DEF Last
<1>2. CASE S # {}
  <2> DEFINE T == {m - p : p \in S}
  <2>1. T \in SUBSET Nat /\ T # {}
    <3>1. \A p \in S : m - p \in Nat
      OBVIOUS
    <3>2. \A t \in T : t \in Nat
      BY <3>1
    <3>3. \E t : t \in T
      BY <1>2
    <3> QED
      BY <3>2, <3>3
  <2>2. PICK t \in T : \A y \in T : t <= y
    BY <2>1, LeastOf
  <2>3. PICK q \in S : t = m - q
    OBVIOUS
  <2>4. \A p \in S : p <= q
    <3> SUFFICES ASSUME NEW p \in S PROVE p <= q
      OBVIOUS
    <3>1. m - p \in T
      OBVIOUS
    <3>2. t <= m - p
      BY <2>2, <3>1
    <3> HIDE DEF T
    <3> QED
      BY <2>3, <3>2
  <2>5. S \in SUBSET Nat
    OBVIOUS
  <2>6. Last(S) = q
    BY <2>4, <2>5, LastIs
  <2> QED
    BY <1>2, <2>4, <2>6
<1> QED
  BY <1>1, <1>2

\* The newest of the records that share a slot, before one of them, is its link.
LEMMA LinkOf ==
    ASSUME NEW n, NEW L, IsLog(L, n), Linked(L, n), NEW o \in 1 .. n - 1
    PROVE  LET q == L[o].off
               h == SlotKey(L[o].key)
           IN /\ q \in 0 .. o - 1
              /\ q = 0 => Sharing(L, o, h) = {}
              /\ q # 0 => /\ q \in Sharing(L, o, h) /\ SlotKey(L[q].key) = h
                          /\ \A p \in Sharing(L, o, h) : p <= q
<1> DEFINE q == L[o].off
           h == SlotKey(L[o].key)
           S == Sharing(L, o, h)
<1>1. q = Last(S) /\ q \in 0 .. o - 1
  BY DEF Linked, IsLog
<1>2. o - 1 \in Nat /\ S \in SUBSET (1 .. o - 1)
  BY DEF Sharing, IsLog
<1>3. \A p \in S : SlotKey(L[p].key) = h /\ p # 0
  BY DEF Sharing
<1> HIDE DEF q, S, h
<1>4. /\ S = {} => Last(S) = 0
      /\ S # {} => Last(S) \in S /\ \A p \in S : p <= Last(S)
  BY <1>2, LastOf
<1>5. /\ q \in 0 .. o - 1
      /\ q = 0 => S = {}
      /\ q # 0 => /\ q \in S /\ SlotKey(L[q].key) = h
                  /\ \A p \in S : p <= q
  BY <1>1, <1>3, <1>4
<1> QED
  BY <1>5 DEF q, h, S

\* The chain that starts at a record: the records up to it that share its slot.
ChainAt(L, o) ==
  IF o = 0 THEN {} ELSE {p \in 1 .. o : SlotKey(L[p].key) = SlotKey(L[o].key)}

\* What looking for k along it finds.
FindAt(L, o, k) == Last({p \in ChainAt(L, o) : L[p].key = k})

LEMMA ChainStep ==
    ASSUME NEW n, NEW L, IsLog(L, n), Linked(L, n), NEW o \in 1 .. n - 1
    PROVE  ChainAt(L, o) = {o} \cup ChainAt(L, L[o].off) /\ o \in ChainAt(L, o)
           /\ \A p \in ChainAt(L, o) : p <= o
<1> DEFINE q == L[o].off
           h == SlotKey(L[o].key)
           S == Sharing(L, o, h)
<1>1. /\ q \in 0 .. o - 1
      /\ q = 0 => S = {}
      /\ q # 0 => /\ q \in S /\ SlotKey(L[q].key) = h
                  /\ \A p \in S : p <= q
  BY LinkOf
<1>2. n \in Nat /\ o \in Nat /\ o # 0
  BY DEF IsLog
<1> HIDE DEF q
<1>3. ChainAt(L, o) = S \cup {o}
  BY <1>2 DEF ChainAt, Sharing
<1>4. ChainAt(L, q) = S
  <2>1. CASE q = 0
    BY <2>1, <1>1 DEF ChainAt
  <2>2. CASE q # 0
    <3>1. ChainAt(L, q) = {p \in 1 .. q : SlotKey(L[p].key) = h}
      BY <1>1, <2>2 DEF ChainAt
    <3>2. \A p : p \in S <=> p \in 1 .. o - 1 /\ SlotKey(L[p].key) = h
      BY DEF Sharing
    <3> HIDE DEF S, h
    <3>3. \A p : p \in S => p \in 1 .. q /\ SlotKey(L[p].key) = h
      BY <1>1, <1>2, <2>2, <3>2
    <3>4. \A p \in 1 .. q : p \in 1 .. o - 1
      BY <1>1, <1>2
    <3>5. \A p : p \in ChainAt(L, q) <=> p \in 1 .. q /\ SlotKey(L[p].key) = h
      BY <3>1
    <3>6. \A p : p \in ChainAt(L, q) <=> p \in S
      BY <3>2, <3>3, <3>4, <3>5
    <3> QED
      BY <3>6
  <2> QED
    BY <2>1, <2>2
<1>5. \A p \in ChainAt(L, o) : p <= o
  BY <1>2 DEF ChainAt
<1> QED
  BY <1>3, <1>4, <1>5 DEF q

\* The recursion of chain_lookup over the chain, as KVDB states it.
IsChain(f, L, n) ==
  f = [o \in 0 .. n - 1 |-> IF o = 0 THEN {} ELSE {o} \cup f[L[o].off]]

LEMMA ChainIs ==
    ASSUME NEW n, NEW L, IsLog(L, n), Linked(L, n)
    PROVE  /\ \E f : IsChain(f, L, n)
           /\ \A f : IsChain(f, L, n) => \A o \in 0 .. n - 1 : f[o] = ChainAt(L, o)
<1>0. n \in Nat /\ \A o \in 1 .. n - 1 : L[o].off \in 0 .. o - 1
  BY DEF IsLog
<1>1. \E f : IsChain(f, L, n)
  <2> DEFINE g == [o \in 0 .. n - 1 |-> ChainAt(L, o)]
  <2>1. ASSUME NEW o \in 0 .. n - 1
        PROVE  ChainAt(L, o) = IF o = 0 THEN {} ELSE {o} \cup g[L[o].off]
    <3>1. CASE o = 0
      BY <3>1 DEF ChainAt
    <3>2. CASE o # 0
      <4>1. o \in 1 .. n - 1 /\ L[o].off \in 0 .. n - 1
        BY <1>0, <3>2
      <4>2. ChainAt(L, o) = {o} \cup ChainAt(L, L[o].off)
        BY <4>1, ChainStep
      <4> QED
        BY <3>2, <4>1, <4>2
    <3> QED
      BY <3>1, <3>2
  <2>2. g = [o \in 0 .. n - 1 |-> IF o = 0 THEN {} ELSE {o} \cup g[L[o].off]]
    <3> DEFINE e(o) == IF o = 0 THEN {} ELSE {o} \cup g[L[o].off]
    <3>1. \A o \in 0 .. n - 1 : ChainAt(L, o) = e(o)
      BY <2>1
    <3>2. g = [o \in 0 .. n - 1 |-> ChainAt(L, o)]
      OBVIOUS
    <3> HIDE DEF e, g
    <3>3. g = [o \in 0 .. n - 1 |-> e(o)]
      BY <3>1, <3>2
    <3> QED
      BY <3>3 DEF e
  <2> HIDE DEF g
  <2> QED
    BY <2>2 DEF IsChain
<1>2. ASSUME NEW f, IsChain(f, L, n), NEW x \in 0 .. n - 1, f[x] # ChainAt(L, x) PROVE FALSE
  <2> DEFINE S == {o \in 0 .. n - 1 : f[o] # ChainAt(L, o)}
  <2>1. S \in SUBSET Nat /\ S # {}
    BY <1>0, <1>2
  <2>2. PICK o \in S : \A y \in S : o <= y
    BY <2>1, LeastOf
  <2>3. o \in 0 .. n - 1 /\ f[o] # ChainAt(L, o)
    BY <2>2
  <2>4. CASE o = 0
    BY <1>2, <2>3, <2>4 DEF IsChain, ChainAt
  <2>5. CASE o # 0
    <3>1. o \in 1 .. n - 1 /\ L[o].off \in 0 .. n - 1 /\ ~(o <= L[o].off)
      BY <1>0, <2>3, <2>5
    <3>2. f[L[o].off] = ChainAt(L, L[o].off)
      BY <2>2, <3>1
    <3>3. f[o] = {o} \cup f[L[o].off]
      BY <1>2, <2>3, <2>5 DEF IsChain
    <3> QED
      BY <2>3, <3>1, <3>2, <3>3, ChainStep
  <2> QED
    BY <2>4, <2>5
<1> QED
  BY <1>1, <1>2

IsFinding(f, L, n, k) ==
  f = [o \in 0 .. n - 1 |-> IF o = 0 \/ L[o].key = k THEN o ELSE f[L[o].off]]

LEMMA FindStep ==
    ASSUME NEW n, NEW L, IsLog(L, n), Linked(L, n), NEW k, NEW o \in 0 .. n - 1
    PROVE  FindAt(L, o, k) = IF o = 0 \/ L[o].key = k THEN o ELSE FindAt(L, L[o].off, k)
<1> DEFINE T == {p \in ChainAt(L, o) : L[p].key = k}
<1>0. n \in Nat
  BY DEF IsLog
<1>1. CASE o = 0
  BY <1>1 DEF FindAt, ChainAt, Last
<1>2. CASE o # 0 /\ L[o].key = k
  <2>1. o \in 1 .. n - 1
    BY <1>0, <1>2
  <2>2. o \in T /\ \A p \in T : p <= o
    BY <1>2, <2>1, ChainStep
  <2>3. T \in SUBSET Nat
    BY DEF ChainAt
  <2> HIDE DEF T
  <2>4. Last(T) = o
    BY <2>2, <2>3, LastIs
  <2> QED
    BY <1>2, <2>4 DEF FindAt, T
<1>3. CASE o # 0 /\ L[o].key # k
  <2>1. o \in 1 .. n - 1
    BY <1>0, <1>3
  <2>2. ChainAt(L, o) = {o} \cup ChainAt(L, L[o].off)
    BY <2>1, ChainStep
  <2>3. T = {p \in ChainAt(L, L[o].off) : L[p].key = k}
    BY <1>3, <2>2
  <2> QED
    BY <1>3, <2>3 DEF FindAt
<1> QED
  BY <1>1, <1>2, <1>3

LEMMA FindingIs ==
    ASSUME NEW n, NEW L, IsLog(L, n), Linked(L, n), NEW k
    PROVE  /\ \E f : IsFinding(f, L, n, k)
           /\ \A f : IsFinding(f, L, n, k) => \A o \in 0 .. n - 1 : f[o] = FindAt(L, o, k)
<1>0. n \in Nat /\ \A o \in 1 .. n - 1 : L[o].off \in 0 .. o - 1
  BY DEF IsLog
<1>1. \E f : IsFinding(f, L, n, k)
  <2> DEFINE g == [o \in 0 .. n - 1 |-> FindAt(L, o, k)]
             e(o) == IF o = 0 \/ L[o].key = k THEN o ELSE g[L[o].off]
  <2>1. ASSUME NEW o \in 0 .. n - 1 PROVE FindAt(L, o, k) = e(o)
    <3>1. o # 0 => L[o].off \in 0 .. n - 1
      BY <1>0
    <3>2. FindAt(L, o, k) = IF o = 0 \/ L[o].key = k THEN o ELSE FindAt(L, L[o].off, k)
      BY FindStep
    <3> QED
      BY <3>1, <3>2
  <2>2. g = [o \in 0 .. n - 1 |-> e(o)]
    <3>1. g = [o \in 0 .. n - 1 |-> FindAt(L, o, k)]
      OBVIOUS
    <3> HIDE DEF e, g
    <3> QED
      BY <2>1, <3>1
  <2> HIDE DEF g
  <2> QED
    BY <2>2 DEF IsFinding
<1>2. ASSUME NEW f, IsFinding(f, L, n, k), NEW x \in 0 .. n - 1, f[x] # FindAt(L, x, k)
      PROVE  FALSE
  <2> DEFINE S == {o \in 0 .. n - 1 : f[o] # FindAt(L, o, k)}
  <2>1. S \in SUBSET Nat /\ S # {}
    BY <1>0, <1>2
  <2>2. PICK o \in S : \A y \in S : o <= y
    BY <2>1, LeastOf
  <2>3. o \in 0 .. n - 1 /\ f[o] # FindAt(L, o, k)
    BY <2>2
  <2>4. f[o] = IF o = 0 \/ L[o].key = k THEN o ELSE f[L[o].off]
    BY <1>2, <2>3 DEF IsFinding
  <2>5. FindAt(L, o, k) = IF o = 0 \/ L[o].key = k THEN o ELSE FindAt(L, L[o].off, k)
    BY <2>3, FindStep
  <2>6. CASE o = 0 \/ L[o].key = k
    BY <2>3, <2>4, <2>5, <2>6
  <2>7. CASE o # 0 /\ L[o].key # k
    <3>1. o \in 1 .. n - 1 /\ L[o].off \in 0 .. n - 1 /\ ~(o <= L[o].off)
      BY <1>0, <2>3, <2>7
    <3>2. f[L[o].off] = FindAt(L, L[o].off, k)
      BY <2>2, <3>1
    <3> QED
      BY <2>3, <2>4, <2>5, <2>7, <3>2
  <2> QED
    BY <2>6, <2>7
<1> QED
  BY <1>1, <1>2

NewestIn(L, n, k) == Last(Having(L, n, k))

\* From the newest record of a slot, the whole slot is found, and the newest record
\* of each key.
LEMMA HeadFinds ==
    ASSUME NEW n, NEW L, IsLog(L, n), n # 0, NEW h, NEW s, s = Last(Sharing(L, n, h))
    PROVE  /\ s \in 0 .. n - 1
           /\ ChainAt(L, s) = Sharing(L, n, h)
           /\ \A k : SlotKey(k) = h => FindAt(L, s, k) = NewestIn(L, n, k)
<1> DEFINE S == Sharing(L, n, h)
<1>0. n \in Nat /\ n - 1 \in Nat
  BY DEF IsLog
<1>1. S \in SUBSET (1 .. n - 1)
  BY DEF Sharing
<1>2. s = Last(S)
  OBVIOUS
<1>3. \A p : p \in S <=> p \in 1 .. n - 1 /\ SlotKey(L[p].key) = h
  BY DEF Sharing
<1> HIDE DEF S
<1>4. /\ S = {} => s = 0
      /\ S # {} => s \in S /\ \A p \in S : p <= s
      /\ s \in 0 .. n - 1
  BY <1>0, <1>1, <1>2, LastOf
<1>5. ChainAt(L, s) = S
  <2>1. CASE S = {}
    BY <1>4, <2>1 DEF ChainAt
  <2>2. CASE S # {}
    <3>1. s \in S /\ (\A p \in S : p <= s) /\ SlotKey(L[s].key) = h /\ s \in 1 .. n - 1
      BY <1>3, <1>4, <2>2
    <3>2. \A p : p \in ChainAt(L, s) <=> p \in 1 .. s /\ SlotKey(L[p].key) = h
      BY <1>0, <3>1 DEF ChainAt
    <3>3. \A p \in S : p \in 1 .. s
      BY <1>0, <1>3, <3>1
    <3>4. \A p \in 1 .. s : p \in 1 .. n - 1
      BY <1>0, <3>1
    <3>5. \A p : p \in ChainAt(L, s) <=> p \in S
      BY <1>3, <3>2, <3>3, <3>4
    <3> QED
      BY <3>5
  <2> QED
    BY <2>1, <2>2
<1>6. ASSUME NEW k, SlotKey(k) = h PROVE FindAt(L, s, k) = NewestIn(L, n, k)
  <2>1. \A p \in 1 .. n - 1 : L[p].key = k => p \in S
    BY <1>3, <1>6
  <2>2. {p \in S : L[p].key = k} = Having(L, n, k)
    BY <1>3, <2>1 DEF Having
  <2> QED
    BY <1>5, <2>2 DEF FindAt, NewestIn
<1> QED
  BY <1>4, <1>5, <1>6 DEF S

\* Looking along a chain, as KVDB does it.
LEMMA ChainLookupIs ==
    ASSUME IsLog(log, End), Linked(log, End), NEW start \in 0 .. End - 1, NEW k
    PROVE  ChainLookup(start, k) = FindAt(log, start, k) /\ ChainFrom(start) = ChainAt(log, start)
<1>0. DOMAIN log = 0 .. End - 1
  BY DEF IsLog
<1>1. ChainLookup(start, k) = FindAt(log, start, k)
  <2> DEFINE find[o \in DOMAIN log] == IF o = 0 \/ log[o].key = k THEN o ELSE find[log[o].off]
             n == End
             D == DOMAIN log
  <2>1. ChainLookup(start, k) = find[start]
    BY DEF ChainLookup
  <2>2. find = CHOOSE f : f = [o \in D |-> IF o = 0 \/ log[o].key = k THEN o ELSE f[log[o].off]]
    BY DEF find
  <2> HIDE DEF find, D
  <2>3. D = 0 .. n - 1
    BY <1>0 DEF D
  <2>4. find = CHOOSE f : IsFinding(f, log, n, k)
    BY <2>2, <2>3 DEF IsFinding
  <2>5. IsFinding(find, log, n, k)
    BY <2>4, FindingIs
  <2> QED
    BY <2>1, <2>5, FindingIs
<1>2. ChainFrom(start) = ChainAt(log, start)
  <2> DEFINE chain[o \in DOMAIN log] == IF o = 0 THEN {} ELSE {o} \cup chain[log[o].off]
             n == End
             D == DOMAIN log
  <2>1. ChainFrom(start) = chain[start]
    BY DEF ChainFrom
  <2>2. chain = CHOOSE f : f = [o \in D |-> IF o = 0 THEN {} ELSE {o} \cup f[log[o].off]]
    BY DEF chain
  <2> HIDE DEF chain, D
  <2>3. D = 0 .. n - 1
    BY <1>0 DEF D
  <2>4. chain = CHOOSE f : IsChain(f, log, n)
    BY <2>2, <2>3 DEF IsChain
  <2>5. IsChain(chain, log, n)
    BY <2>4, ChainIs
  <2> QED
    BY <2>1, <2>5, ChainIs
<1> QED
  BY <1>1, <1>2

\* M is L with one more record.
Extends(M, L, n, r) == M = [o \in 0 .. n |-> IF o = n THEN r ELSE L[o]]

LEMMA ExtendedLog ==
    ASSUME NEW n, NEW L, IsLog(L, n), Linked(L, n), n # 0,
           NEW k \in Keys, NEW v \in Vals \cup {NoVal}, NEW q, q = Last(Sharing(L, n, SlotKey(k))),
           NEW M, Extends(M, L, n, Record(k, v, q))
    PROVE  /\ IsLog(M, n + 1) /\ Linked(M, n + 1)
           /\ Cardinality(DOMAIN M) = n + 1
           /\ M[n].key = k /\ M[n].val = v
           /\ \A o \in 0 .. n - 1 : M[o] = L[o]
           /\ \A h : Last(Sharing(M, n + 1, h)) = IF SlotKey(k) = h THEN n ELSE Last(Sharing(L, n, h))
           /\ \A j : NewestIn(M, n + 1, j) = IF k = j THEN n ELSE NewestIn(L, n, j)
<1> DEFINE m == n + 1
<1>0. n \in Nat /\ n - 1 \in Nat /\ n \in 1 .. m - 1 /\ m \in Nat /\ m - 1 = n
      /\ (\A o \in 1 .. m - 1 : o # n => o \in 1 .. n - 1 /\ o \in 0 .. n - 1)
      /\ \A o \in 1 .. n - 1 : o # n /\ o \in 0 .. n - 1 /\ o \in 1 .. m - 1
  BY DEF IsLog
<1> HIDE DEF m
<1>1. /\ M = [o \in 0 .. n |-> M[o]]
      /\ M[n] = Record(k, v, q)
      /\ \A o \in 0 .. n - 1 : M[o] = L[o]
  <2> HIDE DEF Record
  <2> QED
    BY <1>0 DEF Extends
<1>2. M[n].key = k /\ M[n].val = v /\ M[n].off = q
  BY <1>1 DEF Record
<1>3. q \in 0 .. n - 1
  BY HeadFinds
<1>4. IsLog(M, m)
  <2>1. ASSUME NEW o \in 1 .. m - 1
        PROVE  /\ M[o].key \in Keys
               /\ M[o].val \in Vals \cup {NoVal}
               /\ M[o].off \in 0 .. o - 1
    <3>1. CASE o = n
      BY <1>2, <1>3, <3>1
    <3>2. CASE o # n
      BY <1>0, <1>1, <3>2 DEF IsLog
    <3> QED
      BY <3>1, <3>2
  <2> QED
    BY <1>0, <1>1, <2>1 DEF IsLog
<1>5. \A h : \A o \in 1 .. n : Sharing(M, o, h) = Sharing(L, o, h)
  <2> SUFFICES ASSUME NEW h, NEW o \in 1 .. n PROVE Sharing(M, o, h) = Sharing(L, o, h)
    OBVIOUS
  <2>0. \A p \in 1 .. o - 1 : p \in 0 .. n - 1
    BY <1>0
  <2>1. \A p \in 1 .. o - 1 : M[p] = L[p]
    BY <1>1, <2>0
  <2> QED
    BY <2>1 DEF Sharing
<1>6. Linked(M, m)
  <2>1. ASSUME NEW o \in 1 .. m - 1
        PROVE  M[o].off = Last(Sharing(M, o, SlotKey(M[o].key)))
    <3>1. CASE o = n
      <4>1. Sharing(M, n, SlotKey(k)) = Sharing(L, n, SlotKey(k))
        BY <1>0, <1>5
      <4> QED
        BY <1>2, <3>1, <4>1
    <3>2. CASE o # n
      <4>1. o \in 1 .. n - 1 /\ M[o] = L[o]
        BY <1>0, <1>1, <3>2
      <4>2. Sharing(M, o, SlotKey(L[o].key)) = Sharing(L, o, SlotKey(L[o].key))
        BY <1>0, <1>5, <4>1
      <4> QED
        BY <4>1, <4>2 DEF Linked
    <3> QED
      BY <3>1, <3>2
  <2> QED
    BY <2>1 DEF Linked
<1>7. ASSUME NEW h
      PROVE  Last(Sharing(M, m, h)) = IF SlotKey(k) = h THEN n ELSE Last(Sharing(L, n, h))
  <2> DEFINE S == Sharing(M, m, h)
  <2>1. \A p : p \in S <=> p \in 1 .. n /\ SlotKey(M[p].key) = h
    BY <1>0 DEF Sharing
  <2>2. S \in SUBSET Nat /\ \A p \in S : p <= n
    BY <1>0, <2>1
  <2>3. CASE SlotKey(k) = h
    <3>1. n \in S
      BY <1>0, <1>2, <2>1, <2>3
    <3> HIDE DEF S
    <3>2. Last(S) = n
      BY <2>2, <3>1, LastIs
    <3> QED
      BY <2>3, <3>2 DEF S
  <2>4. CASE SlotKey(k) # h
    <3>1. \A p : p \in S <=> p \in Sharing(L, n, h)
      BY <1>0, <1>1, <1>2, <2>1, <2>4 DEF Sharing
    <3>2. S = Sharing(L, n, h)
      BY <3>1
    <3> QED
      BY <2>4, <3>2
  <2> QED
    BY <2>3, <2>4
<1>8. ASSUME NEW j
      PROVE  NewestIn(M, m, j) = IF k = j THEN n ELSE NewestIn(L, n, j)
  <2> DEFINE S == Having(M, m, j)
  <2>1. \A p : p \in S <=> p \in 1 .. n /\ M[p].key = j
    BY <1>0 DEF Having
  <2>2. S \in SUBSET Nat /\ \A p \in S : p <= n
    BY <1>0, <2>1
  <2>3. CASE k = j
    <3>1. n \in S
      BY <1>0, <1>2, <2>1, <2>3
    <3> HIDE DEF S
    <3>2. Last(S) = n
      BY <2>2, <3>1, LastIs
    <3> QED
      BY <2>3, <3>2 DEF S, NewestIn
  <2>4. CASE k # j
    <3>1. \A p : p \in S <=> p \in Having(L, n, j)
      BY <1>0, <1>1, <1>2, <2>1, <2>4 DEF Having
    <3>2. S = Having(L, n, j)
      BY <3>1
    <3> QED
      BY <2>4, <3>2 DEF NewestIn
  <2> QED
    BY <2>3, <2>4
<1>9. Cardinality(DOMAIN M) = n + 1
  <2>1. DOMAIN M = 0 .. n
    BY <1>1
  <2>2. 0 \in Int /\ n \in Int
    BY <1>0
  <2>3. Cardinality(0 .. n) = IF 0 > n THEN 0 ELSE n - 0 + 1
    BY <2>2, FS_Interval
  <2> QED
    BY <1>0, <2>1, <2>3
<1> QED
  BY <1>1, <1>2, <1>4, <1>6, <1>7, <1>8, <1>9 DEF m

-----------------------------------------------------------------------------
(* What the log stands for.                                                *)

LiveIn(L, n) == {k \in Keys : NewestIn(L, n, k) # 0 /\ L[NewestIn(L, n, k)].val # NoVal}

ContentsIn(L, n) == [k \in LiveIn(L, n) |-> L[NewestIn(L, n, k)].val]

ValuedIn(L, n) == {o \in 1 .. n - 1 : L[o].val # NoVal}

LEMMA NewestRange ==
    ASSUME NEW n, NEW L, IsLog(L, n), NEW k
    PROVE  NewestIn(L, n, k) # 0 => NewestIn(L, n, k) \in 1 .. n - 1
<1> DEFINE S == Having(L, n, k)
<1>0. n \in Nat
  BY DEF IsLog
<1>1. S \in SUBSET (1 .. n - 1)
  BY DEF Having
<1>2. CASE n = 0
  <2>1. S = {}
    BY <1>1, <1>2
  <2> QED
    BY <2>1 DEF NewestIn, Last
<1>3. CASE n # 0
  <2>1. n - 1 \in Nat
    BY <1>0, <1>3
  <2> HIDE DEF S
  <2>2. Last(S) \in 0 .. n - 1
    BY <1>1, <2>1, LastOf
  <2> QED
    BY <1>0, <2>2 DEF NewestIn, S
<1> QED
  BY <1>2, <1>3

\* A new record changes what is stored under its key, and counts if it has a value.
LEMMA ExtendedContents ==
    ASSUME NEW n, NEW L, IsLog(L, n), Linked(L, n), n # 0,
           NEW k \in Keys, NEW v \in Vals \cup {NoVal}, NEW q, q = Last(Sharing(L, n, SlotKey(k))),
           NEW M, Extends(M, L, n, Record(k, v, q))
    PROVE  /\ v # NoVal => LiveIn(M, n + 1) = LiveIn(L, n) \cup {k}
           /\ v = NoVal => LiveIn(M, n + 1) = LiveIn(L, n) \ {k}
           /\ \A j \in LiveIn(M, n + 1) :
                ContentsIn(M, n + 1)[j] = IF j = k THEN v ELSE ContentsIn(L, n)[j]
           /\ ValuedIn(M, n + 1) = IF v = NoVal THEN ValuedIn(L, n) ELSE ValuedIn(L, n) \cup {n}
           /\ n \notin ValuedIn(L, n)
<1> DEFINE m == n + 1
<1>0. n \in Nat /\ m \in Nat /\ m - 1 = n
  BY DEF IsLog
<1>1. /\ M[n].key = k /\ M[n].val = v
      /\ \A o \in 0 .. n - 1 : M[o] = L[o]
      /\ \A j : NewestIn(M, m, j) = IF k = j THEN n ELSE NewestIn(L, n, j)
  BY ExtendedLog
<1> HIDE DEF m
<1>2. ASSUME NEW j \in Keys, j # k, NewestIn(L, n, j) # 0
      PROVE  M[NewestIn(L, n, j)] = L[NewestIn(L, n, j)]
  <2>1. NewestIn(L, n, j) \in 1 .. n - 1
    BY <1>2, NewestRange
  <2>2. NewestIn(L, n, j) \in 0 .. n - 1
    BY <1>0, <2>1
  <2> QED
    BY <1>1, <2>2
<1>3. ASSUME NEW j \in Keys, j # k PROVE j \in LiveIn(M, m) <=> j \in LiveIn(L, n)
  BY <1>1, <1>2, <1>3 DEF LiveIn
<1>4. k \in LiveIn(M, m) <=> v # NoVal
  BY <1>1 DEF LiveIn
<1>5. \A j : (j \in LiveIn(M, m) => j \in Keys) /\ (j \in LiveIn(L, n) => j \in Keys)
  BY DEF LiveIn
<1>6. ASSUME v # NoVal PROVE LiveIn(M, m) = LiveIn(L, n) \cup {k}
  BY <1>3, <1>4, <1>5, <1>6
<1>7. ASSUME v = NoVal PROVE LiveIn(M, m) = LiveIn(L, n) \ {k}
  BY <1>3, <1>4, <1>5, <1>7
<1>8. ASSUME NEW j \in LiveIn(M, m)
      PROVE  ContentsIn(M, m)[j] = IF j = k THEN v ELSE ContentsIn(L, n)[j]
  <2>1. ContentsIn(M, m)[j] = M[NewestIn(M, m, j)].val
    BY DEF ContentsIn
  <2>2. CASE j = k
    BY <1>1, <2>1, <2>2
  <2>3. CASE j # k
    <3>1. j \in Keys /\ j \in LiveIn(L, n) /\ NewestIn(L, n, j) # 0
      BY <1>3, <1>5, <2>3 DEF LiveIn
    <3>2. ContentsIn(L, n)[j] = L[NewestIn(L, n, j)].val
      BY <3>1 DEF ContentsIn
    <3> QED
      BY <1>1, <1>2, <2>1, <2>3, <3>1, <3>2
  <2> QED
    BY <2>2, <2>3
<1>9. ValuedIn(M, m) = (IF v = NoVal THEN ValuedIn(L, n) ELSE ValuedIn(L, n) \cup {n})
      /\ n \notin ValuedIn(L, n)
  <2>1. \A o : o \in 1 .. m - 1 <=> o = n \/ o \in 1 .. n - 1
    <3>1. n # 0 /\ n \in 1 .. n
      BY <1>0
    <3> QED
      BY <1>0, <3>1
  <2>2. \A o \in 1 .. n - 1 : M[o] = L[o] /\ o # n
    <3>1. \A o \in 1 .. n - 1 : o \in 0 .. n - 1 /\ o # n
      BY <1>0
    <3> QED
      BY <1>1, <3>1
  <2>3. \A o : o \in ValuedIn(M, m) <=> (o = n /\ v # NoVal) \/ o \in ValuedIn(L, n)
    BY <1>1, <2>1, <2>2 DEF ValuedIn
  <2>4. n \notin ValuedIn(L, n)
    BY <2>2 DEF ValuedIn
  <2> QED
    BY <2>3, <2>4
<1> QED
  BY <1>6, <1>7, <1>8, <1>9 DEF m

-----------------------------------------------------------------------------
(* The inductive invariant.                                                *)

\* The table is sound, has room, and leads to the newest record of each slot.
IndexOK(x, L, n) ==
  /\ Sound(x, Nat) /\ ~x.exited
  /\ HoldsOnly(x, HashesUsed) /\ x.capacity <= MaxCapacity(Cardinality(HashesUsed))
  /\ Headed(x, L, n)

LogOK(L, n) == IsLog(L, n) /\ Linked(L, n) /\ n <= MaxRecords

\* The counters count the keys with a value, and the values that no longer count.
CountsOK(s, w, L, n) ==
  /\ s \in Nat /\ w \in Nat
  /\ s = Cardinality(LiveIn(L, n)) /\ s + w = Cardinality(ValuedIn(L, n))

ResultOK(r) == r.status \in {-1, 0, 1} /\ r.val \in Vals \cup {NoVal}

DictInv ==
  /\ handle \in {"open", "closed", "crashed"} /\ (handle = "open" => End # 0)
  /\ LogOK(log, End)
  /\ IndexOK(index, log, End)
  /\ CountsOK(size, waste, log, End)
  /\ ResultOK(result)

LEMMA HashesUsedFinite ==
  /\ HashesUsed \in SUBSET TableKeys /\ IsFiniteSet(HashesUsed)
  /\ Cardinality(HashesUsed) \in Nat /\ MaxCapacity(Cardinality(HashesUsed)) \in Nat
<1>1. HashesUsed \in SUBSET TableKeys
  BY KeysKnown DEF HashesUsed, SlotKey
<1>2. IsFiniteSet(Words)
  BY FS_Interval, IndexAssumption DEF Words
<1>3. TableKeys \in SUBSET Words
  BY DEF TableKeys
<1>4. IsFiniteSet(TableKeys)
  BY <1>2, <1>3, FS_Subset
<1>5. IsFiniteSet(HashesUsed)
  BY <1>1, <1>4, FS_Subset
<1> DEFINE n == Cardinality(HashesUsed)
<1>6. n \in Nat
  BY <1>5, FS_CardinalityType
<1> HIDE DEF n
<1>7. 0 \in Nat /\ 7 * 0 <= 10 * n
  BY <1>6
<1>8. MaxCapacity(n) \in Nat
  BY <1>6, <1>7, CapacityBound
<1> QED
  BY <1>1, <1>5, <1>6, <1>8 DEF n

\* index_update makes a slot for the key, with the end of a chain in it if it is new.
LEMMA UpdatedIs ==
    ASSUME RoomFor(HashesUsed), NEW x, NEW L, NEW n, IndexOK(x, L, n), NEW k \in Keys,
           NEW u, u = Update(x, HashOf[k])
    PROVE  /\ IndexOK(u, L, n)
           /\ At(u, SlotKey(k)) # NoRef
           /\ RefOf(u, k) = Last(Sharing(L, n, SlotKey(k)))
<1> DEFINE h == HashOf[k]
           key == SlotKey(k)
           K == HashesUsed
<1>1. h \in Words /\ key \in TableKeys /\ key \in K /\ key = KeyOf(h) /\ 0 \in Nat
  BY KeysKnown DEF SlotKey
<1>2. K \in SUBSET TableKeys /\ IsFiniteSet(K)
  BY HashesUsedFinite
<1>3. /\ Sound(x, Nat) /\ ~x.exited
      /\ HoldsOnly(x, K) /\ x.capacity <= MaxCapacity(Cardinality(K))
      /\ RoomFor(K)
      /\ \A j \in K : At(x, j).off = Last(Sharing(L, n, j))
  BY DEF IndexOK, Headed
<1>4. u = Update(x, h)
  OBVIOUS
<1> HIDE DEF h, key, K
<1>5. ~u.exited /\ HoldsOnly(u, K) /\ u.capacity <= MaxCapacity(Cardinality(K))
  BY <1>1, <1>2, <1>3, <1>4, UpdateStays
<1>6. /\ Sound(u, Nat)
      /\ \A j \in TableKeys : j # key => At(u, j) = At(x, j)
      /\ At(u, key) # NoRef
      /\ At(u, key) = IF At(x, key) = NoRef THEN Ref(0) ELSE At(x, key)
  <2> DEFINE O == Nat
  <2>1. 0 \in O /\ Sound(x, O)
    BY <1>3
  <2> HIDE DEF O
  <2>2. /\ Sound(u, O)
        /\ ~u.exited =>
             /\ \A j \in TableKeys : j # KeyOf(h) => At(u, j) = At(x, j)
             /\ At(u, KeyOf(h)) # NoRef
             /\ At(u, KeyOf(h)) = IF At(x, KeyOf(h)) = NoRef THEN Ref(0) ELSE At(x, KeyOf(h))
    BY <1>1, <1>4, <2>1, UpdateSound
  <2> QED
    BY <1>1, <1>5, <2>2 DEF O
<1>7. \A j \in K : At(u, j).off = At(x, j).off
  BY <1>1, <1>2, <1>6 DEF Ref, NoRef
<1>8. RefOf(u, k) = At(u, key).off
  <2>1. At(u, key).off = u.maps[FirstStop(u, key)].off
    BY <1>6 DEF At, Ref
  <2> QED
    BY <2>1 DEF RefOf, key, SlotKey
<1> QED
  BY <1>1, <1>3, <1>5, <1>6, <1>7, <1>8 DEF IndexOK, Headed, K, key

\* The store of the place of a new record makes it the head of its chain.
LEMMA StoredIs ==
    ASSUME NEW u, NEW L, NEW n, IndexOK(u, L, n), IsLog(L, n), Linked(L, n), n # 0,
           NEW k \in Keys, At(u, SlotKey(k)) # NoRef, NEW v \in Vals \cup {NoVal},
           NEW q, q = Last(Sharing(L, n, SlotKey(k))),
           NEW M, Extends(M, L, n, Record(k, v, q)),
           NEW y, y = SetRef(u, SlotKey(k), n)
    PROVE  IndexOK(y, M, n + 1)
<1> DEFINE key == SlotKey(k)
           K == HashesUsed
<1>1. key \in TableKeys /\ key \in K /\ K \in SUBSET TableKeys
  BY KeysKnown, HashesUsedFinite
<1>2. n \in Nat /\ Sound(u, Nat)
  BY DEF IsLog, IndexOK
<1>3. /\ Sound(y, Nat)
      /\ y.capacity = u.capacity /\ y.exited = u.exited /\ y.size = u.size
      /\ At(y, key) = Ref(n)
      /\ \A j \in TableKeys : j # key => At(y, j) = At(u, j)
  <2> HIDE DEF key
  <2> QED
    BY <1>1, <1>2, SetRefSound DEF key
<1>4. \A h : Last(Sharing(M, n + 1, h)) = IF key = h THEN n ELSE Last(Sharing(L, n, h))
  BY ExtendedLog
<1>5. \A j \in K : At(u, j).off = Last(Sharing(L, n, j))
  BY DEF IndexOK, Headed
<1>6. At(y, key).off = n
  BY <1>3 DEF Ref
<1> HIDE DEF key
<1>7. Headed(y, M, n + 1)
  <2>1. ASSUME NEW j \in K PROVE At(y, j).off = Last(Sharing(M, n + 1, j))
    <3>1. CASE j = key
      BY <1>4, <1>6, <3>1
    <3>2. CASE j # key
      BY <1>1, <1>3, <1>4, <1>5, <3>2
    <3> QED
      BY <3>1, <3>2
  <2> QED
    BY <2>1 DEF Headed
<1>8. HoldsOnly(y, K)
  <2>1. HoldsOnly(u, K)
    BY DEF IndexOK
  <2> QED
    BY <1>1, <1>3, <2>1 DEF HoldsOnly
<1> QED
  BY <1>3, <1>7, <1>8 DEF IndexOK

\* The dictionary that KVDB reads off the log is the one above.
LEMMA ContentsAre ==
    ASSUME IsLog(log, End)
    PROVE  /\ DOMAIN log = 0 .. End - 1 /\ Records = 1 .. End - 1
           /\ LiveKeys = LiveIn(log, End) /\ Contents = ContentsIn(log, End)
           /\ {o \in Records : log[o].val # NoVal} = ValuedIn(log, End)
<1>0. DOMAIN log = 0 .. End - 1 /\ End \in Nat
  BY DEF IsLog
<1> DEFINE n == End
<1>1. Records = 1 .. n - 1
  BY <1>0 DEF Records
<1> HIDE DEF n
<1>2. \A k : Newest(k) = NewestIn(log, n, k)
  BY <1>1 DEF Newest, NewestIn, Having, Last
<1>3. LiveKeys = LiveIn(log, n)
  BY <1>2 DEF LiveKeys, LiveIn
<1>4. Contents = ContentsIn(log, n)
  BY <1>2, <1>3 DEF Contents, ContentsIn
<1>5. {o \in Records : log[o].val # NoVal} = ValuedIn(log, n)
  BY <1>1 DEF ValuedIn
<1> QED
  BY <1>0, <1>1, <1>3, <1>4, <1>5 DEF n

LEMMA ContentsNext ==
    ASSUME IsLog(log', End')
    PROVE  Contents' = ContentsIn(log', End')
<1>0. DOMAIN log' = 0 .. End' - 1 /\ End' \in Nat
  BY DEF IsLog
<1> DEFINE n == End'
<1>1. Records' = 1 .. n - 1
  BY <1>0 DEF Records
<1> HIDE DEF n
<1>2. ASSUME NEW k PROVE Newest(k)' = NewestIn(log', n, k)
  BY <1>1 DEF Newest, NewestIn, Having, Last
<1>3. LiveKeys' = LiveIn(log', n)
  BY <1>2 DEF LiveKeys, LiveIn
<1>4. Contents' = ContentsIn(log', n)
  BY <1>2, <1>3 DEF Contents, ContentsIn
<1> QED
  BY <1>4 DEF n

\* The index and the chains answer for a key what the log stands for.
LEMMA LookupIs ==
    ASSUME IsLog(log, End), Linked(log, End), End # 0,
           NEW x, Headed(x, log, End), NEW k \in Keys,
           NEW s, s = Last(Sharing(log, End, SlotKey(k)))
    PROVE  /\ s \in 0 .. End - 1
           /\ ChainLookup(s, k) = NewestIn(log, End, k)
           /\ ChainLookup(s, k) # 0 /\ log[ChainLookup(s, k)].val # NoVal
                <=> k \in LiveIn(log, End)
           /\ k \in LiveIn(log, End) =>
                log[ChainLookup(s, k)].val = ContentsIn(log, End)[k]
<1>1. s \in 0 .. End - 1 /\ FindAt(log, s, k) = NewestIn(log, End, k)
  BY HeadFinds
<1>2. ChainLookup(s, k) = NewestIn(log, End, k)
  BY <1>1, ChainLookupIs
<1> QED
  BY <1>1, <1>2 DEF LiveIn, ContentsIn

LEMMA LiveIs ==
    ASSUME RoomFor(HashesUsed), DictInv, handle = "open", NEW k \in Keys
    PROVE  /\ IndexOK(Updated(k), log, End)
           /\ At(Updated(k), SlotKey(k)) # NoRef
           /\ RefOf(Updated(k), k) = Last(Sharing(log, End, SlotKey(k)))
           /\ Live(k) <=> k \in LiveIn(log, End)
           /\ k \in LiveIn(log, End) => Current(k).val = ContentsIn(log, End)[k]
<1>1. IndexOK(index, log, End) /\ IsLog(log, End) /\ Linked(log, End) /\ End # 0
  BY DEF DictInv, LogOK
<1> DEFINE u == Updated(k)
           s == RefOf(u, k)
<1>2. u = Update(index, HashOf[k])
  BY DEF Updated
<1> HIDE DEF u
<1>3. /\ IndexOK(u, log, End)
      /\ At(u, SlotKey(k)) # NoRef
      /\ s = Last(Sharing(log, End, SlotKey(k)))
  BY <1>1, <1>2, UpdatedIs
<1>4. Headed(u, log, End)
  BY <1>3 DEF IndexOK
<1> HIDE DEF s
<1>5. /\ ChainLookup(s, k) # 0 /\ log[ChainLookup(s, k)].val # NoVal <=> k \in LiveIn(log, End)
      /\ k \in LiveIn(log, End) => log[ChainLookup(s, k)].val = ContentsIn(log, End)[k]
  BY <1>1, <1>3, <1>4, LookupIs
<1>6. (Live(k) <=> ChainLookup(s, k) # 0 /\ log[ChainLookup(s, k)].val # NoVal)
      /\ Current(k).val = log[ChainLookup(s, k)].val
  BY DEF Live, Current, s, u
<1> QED
  BY <1>3, <1>5, <1>6 DEF s, u

LEMMA AppendStep ==
    ASSUME RoomFor(HashesUsed), DictInv, handle = "open", End < MaxRecords,
           NEW k \in Keys, NEW v \in Vals \cup {NoVal}, AppendRecord(k, v)
    PROVE  /\ handle' = "open" /\ End' = End + 1 /\ End' # 0
           /\ LogOK(log', End') /\ IndexOK(index', log', End')
           /\ v # NoVal => LiveIn(log', End') = LiveIn(log, End) \cup {k}
           /\ v = NoVal => LiveIn(log', End') = LiveIn(log, End) \ {k}
           /\ \A j \in LiveIn(log', End') :
                ContentsIn(log', End')[j] = IF j = k THEN v ELSE ContentsIn(log, End)[j]
           /\ ValuedIn(log', End') =
                IF v = NoVal THEN ValuedIn(log, End) ELSE ValuedIn(log, End) \cup {End}
           /\ End \notin ValuedIn(log, End)
<1> DEFINE n == End
           q == RefOf(Updated(k), k)
           u == Updated(k)
           M == log'
           y == index'
<1>1. IsLog(log, n) /\ Linked(log, n) /\ n # 0 /\ n \in Nat /\ n <= MaxRecords
  BY DEF DictInv, LogOK, IsLog
<1>2. /\ IndexOK(u, log, n)
      /\ At(u, SlotKey(k)) # NoRef
      /\ q = Last(Sharing(log, n, SlotKey(k)))
  BY LiveIs
<1>3. Extends(M, log, n, Record(k, v, q)) /\ y = SetRef(u, SlotKey(k), n) /\ handle' = handle
  BY DEF AppendRecord, Extends, Appended, Link, SlotKey
<1>4. End' = Cardinality(DOMAIN M) /\ n < MaxRecords
  BY DEF End
<1> HIDE DEF n, q, u, M, y
<1>5. /\ IsLog(M, n + 1) /\ Linked(M, n + 1)
      /\ Cardinality(DOMAIN M) = n + 1
  BY <1>1, <1>2, <1>3, ExtendedLog
<1>6. IndexOK(y, M, n + 1)
  BY <1>1, <1>2, <1>3, StoredIs
<1>7. /\ v # NoVal => LiveIn(M, n + 1) = LiveIn(log, n) \cup {k}
      /\ v = NoVal => LiveIn(M, n + 1) = LiveIn(log, n) \ {k}
      /\ \A j \in LiveIn(M, n + 1) :
           ContentsIn(M, n + 1)[j] = IF j = k THEN v ELSE ContentsIn(log, n)[j]
      /\ ValuedIn(M, n + 1) = IF v = NoVal THEN ValuedIn(log, n) ELSE ValuedIn(log, n) \cup {n}
      /\ n \notin ValuedIn(log, n)
  BY <1>1, <1>2, <1>3, ExtendedContents
<1>8. End' = n + 1 /\ n + 1 # 0 /\ n + 1 <= MaxRecords
  BY <1>1, <1>4, <1>5, KVDBAssumption
<1> QED
  BY <1>3, <1>5, <1>6, <1>7, <1>8 DEF n, M, y, LogOK

-----------------------------------------------------------------------------
(* Every step keeps the invariant and is one of the dictionary.            *)

StoreStep == Store!Next \/ UNCHANGED <<Contents, result>>

LEMMA EmptyIs ==
    ASSUME NEW n \in {0, 1}, NEW L, IsLog(L, n)
    PROVE  /\ LogOK(L, n) /\ IndexOK(Opened, L, n) /\ CountsOK(0, 0, L, n)
           /\ ContentsIn(L, n) = [k \in {} |-> NoVal]
<1>1. 1 .. n - 1 = {} /\ n \in Nat /\ n <= MaxRecords
  BY KVDBAssumption
<1>2. LogOK(L, n)
  BY <1>1 DEF LogOK, Linked
<1>3. \A h : Sharing(L, n, h) = {} /\ Last(Sharing(L, n, h)) = 0
  BY <1>1 DEF Sharing, Last
<1>4. \A k : NewestIn(L, n, k) = 0
  BY <1>1 DEF Having, NewestIn, Last
<1>5. LiveIn(L, n) = {} /\ ValuedIn(L, n) = {}
  BY <1>1, <1>4 DEF LiveIn, ValuedIn
<1>6. CountsOK(0, 0, L, n)
  BY <1>5, FS_EmptySet DEF CountsOK
<1>7. ContentsIn(L, n) = [k \in {} |-> NoVal]
  BY <1>5 DEF ContentsIn
<1> DEFINE x == Opened
           O == Nat
           c == 0
<1>8. x = Create(c) /\ c \in Nat /\ 0 \in O
  BY DEF Opened
<1> HIDE DEF x, O, c
<1>9. /\ Sound(x, O) /\ x.capacity = c /\ x.size = 0 /\ x.exited = FALSE
      /\ \A k \in TableKeys : At(x, k) = NoRef
  BY <1>8, CreateSound
<1>10. Headed(x, L, n)
  <2>1. \A h \in HashesUsed : At(x, h).off = 0
    BY <1>9, HashesUsedFinite DEF NoRef
  <2> QED
    BY <1>3, <2>1 DEF Headed
<1>11. IndexOK(x, L, n)
  BY <1>9, <1>10, HashesUsedFinite DEF IndexOK, HoldsOnly, O, c
<1> QED
  BY <1>2, <1>6, <1>7, <1>11 DEF x

LEMMA ResultTyped ==
    ASSUME NEW c, NEW s \in {-1, 0, 1}, NEW v \in Vals \cup {NoVal}
    PROVE  /\ ResultOK(Result(c, s, v)) /\ Result(c, s, v).status = s /\ Result(c, s, v).val = v
           /\ Store!Result(c, s, v) = Result(c, s, v) /\ Store!NoVal = NoVal
BY DEF ResultOK, Result, Store!Result, Store!NoVal, NoVal

LEMMA InitStep ==
    ASSUME Init
    PROVE  DictInv /\ Store!Init
<1>1. handle = "closed" /\ log = [o \in {} |-> 0] /\ index = Opened /\ size = 0 /\ waste = 0
      /\ result = Result(<<"close">>, 0, NoVal)
  BY DEF Init
<1>2. DOMAIN log = {}
  BY <1>1
<1>3. End = 0
  BY <1>2, FS_EmptySet DEF End
<1>4. IsLog(log, 0)
  <2>1. 0 .. 0 - 1 = {} /\ 1 .. 0 - 1 = {}
    OBVIOUS
  <2> QED
    BY <1>1, <2>1 DEF IsLog
<1>5. /\ LogOK(log, 0) /\ IndexOK(Opened, log, 0) /\ CountsOK(0, 0, log, 0)
      /\ ContentsIn(log, 0) = [k \in {} |-> NoVal]
  BY <1>4, EmptyIs
<1>6. ResultOK(result) /\ result = Store!Result(<<"close">>, 0, Store!NoVal)
  BY <1>1, ResultTyped
<1>7. DictInv
  BY <1>1, <1>3, <1>5, <1>6 DEF DictInv
<1>8. Contents = [k \in {} |-> NoVal]
  BY <1>3, <1>4, <1>5, ContentsAre
<1> QED
  BY <1>6, <1>7, <1>8, ResultTyped DEF Store!Init, Store!Empty

LEMMA OpenStep ==
    ASSUME Open
    PROVE  DictInv' /\ StoreStep
<1> DEFINE r == Record(NoKey, "dummy", 0)
<1>1. handle' = "open" /\ log' = [o \in {0} |-> r] /\ index' = Opened /\ size' = 0 /\ waste' = 0
      /\ result' = Result(<<"open">>, 0, NoVal)
  BY DEF Open
<1> HIDE DEF r
<1>2. DOMAIN log' = {0}
  BY <1>1
<1>3. End' = 1
  BY <1>2, FS_Singleton DEF End
<1>4. IsLog(log', 1)
  <2>1. 0 .. 1 - 1 = {0} /\ 1 .. 1 - 1 = {}
    OBVIOUS
  <2> QED
    BY <1>1, <2>1 DEF IsLog
<1>5. /\ LogOK(log', 1) /\ IndexOK(Opened, log', 1) /\ CountsOK(0, 0, log', 1)
      /\ ContentsIn(log', 1) = [k \in {} |-> NoVal]
  BY <1>4, EmptyIs
<1>6. ResultOK(result') /\ result' = Store!Result(<<"open">>, 0, Store!NoVal)
  BY <1>1, ResultTyped
<1>7. DictInv'
  BY <1>1, <1>3, <1>5, <1>6 DEF DictInv
<1>8. Contents' = [k \in {} |-> NoVal]
  BY <1>3, <1>4, <1>5, ContentsNext
<1> QED
  BY <1>6, <1>7, <1>8, ResultTyped
     DEF StoreStep, Store!Next, Store!OpenOrClose, Store!Empty

LEMMA CloseStep ==
    ASSUME Close
    PROVE  DictInv' /\ StoreStep
<1>1. handle' = "closed" /\ log' = [o \in {} |-> 0] /\ index' = Opened /\ size' = 0 /\ waste' = 0
      /\ result' = Result(<<"close">>, 0, NoVal)
  BY DEF Close
<1>2. DOMAIN log' = {}
  BY <1>1
<1>3. End' = 0
  BY <1>2, FS_EmptySet DEF End
<1>4. IsLog(log', 0)
  <2>1. 0 .. 0 - 1 = {} /\ 1 .. 0 - 1 = {}
    OBVIOUS
  <2> QED
    BY <1>1, <2>1 DEF IsLog
<1>5. /\ LogOK(log', 0) /\ IndexOK(Opened, log', 0) /\ CountsOK(0, 0, log', 0)
      /\ ContentsIn(log', 0) = [k \in {} |-> NoVal]
  BY <1>4, EmptyIs
<1>6. ResultOK(result') /\ result' = Store!Result(<<"close">>, 0, Store!NoVal)
  BY <1>1, ResultTyped
<1>7. DictInv'
  BY <1>1, <1>3, <1>5, <1>6 DEF DictInv
<1>8. Contents' = [k \in {} |-> NoVal]
  BY <1>3, <1>4, <1>5, ContentsNext
<1> QED
  BY <1>6, <1>7, <1>8, ResultTyped
     DEF StoreStep, Store!Next, Store!OpenOrClose, Store!Empty

LEMMA SameLog ==
    ASSUME DictInv, log' = log
    PROVE  End' = End /\ Contents' = Contents
           /\ DOMAIN Contents = LiveIn(log, End) /\ Contents = ContentsIn(log, End)
<1>1. IsLog(log, End) /\ End' = End
  BY DEF DictInv, LogOK, End
<1>2. Contents = ContentsIn(log, End)
  BY <1>1, ContentsAre
<1>3. Contents' = ContentsIn(log, End)
  BY <1>1, ContentsNext
<1>4. DOMAIN Contents = LiveIn(log, End)
  BY <1>2 DEF ContentsIn
<1> QED
  BY <1>1, <1>2, <1>3, <1>4

\* A call that leaves the log as it was keeps the invariant.
LEMMA KeepsInv ==
    ASSUME DictInv, log' = log, size' = size, waste' = waste,
           handle' \in {"open", "closed", "crashed"}, handle' = "open" => handle = "open",
           IndexOK(index', log, End), ResultOK(result')
    PROVE  DictInv'
<1>1. End' = End
  BY SameLog
<1>2. /\ handle = "open" => End # 0
      /\ LogOK(log, End) /\ CountsOK(size, waste, log, End)
  BY DEF DictInv
<1> QED
  BY <1>1, <1>2 DEF DictInv

\* A call that fails, whether or not it has made a slot in the index.
LEMMA FailStep ==
    ASSUME DictInv, log' = log, size' = size, waste' = waste, handle' = handle,
           IndexOK(index', log, End), NEW c, result' = Result(c, -1, NoVal)
    PROVE  DictInv' /\ StoreStep
<1>1. ResultOK(result') /\ result'.status = -1 /\ result'.val = NoVal /\ Store!NoVal = NoVal
  BY ResultTyped
<1>2. DictInv'
  BY <1>1, KeepsInv DEF DictInv
<1>3. Contents' = Contents
  BY SameLog
<1> QED
  BY <1>1, <1>2, <1>3 DEF StoreStep, Store!Next, Store!Fail

\* A call that is refused, or only looks.
LEMMA AnswerStep ==
    ASSUME DictInv, log' = log, size' = size, waste' = waste, handle' = handle,
           IndexOK(index', log, End), NEW c, NEW s \in {-1, 0, 1}, NEW v \in Vals \cup {NoVal},
           result' = Result(c, s, v)
    PROVE  /\ DictInv' /\ Contents' = Contents /\ DOMAIN Contents = LiveIn(log, End)
           /\ Contents = ContentsIn(log, End)
           /\ result' = Store!Result(c, s, v) /\ Store!NoVal = NoVal
<1>1. ResultOK(result') /\ result' = Store!Result(c, s, v) /\ Store!NoVal = NoVal
  BY ResultTyped
<1>2. DictInv'
  BY <1>1, KeepsInv DEF DictInv
<1> QED
  BY <1>1, <1>2, SameLog

LEMMA LiveFinite ==
    ASSUME DictInv
    PROVE  /\ IsFiniteSet(LiveIn(log, End)) /\ Cardinality(LiveIn(log, End)) \in Nat
           /\ Cardinality(LiveIn(log, End)) <= Cardinality(Keys)
           /\ IsFiniteSet(ValuedIn(log, End)) /\ Cardinality(ValuedIn(log, End)) \in Nat
           /\ Cardinality(ValuedIn(log, End)) <= MaxRecords
<1> DEFINE n == End
           S == LiveIn(log, n)
           T == ValuedIn(log, n)
<1>1. n \in Nat /\ n <= MaxRecords /\ MaxRecords \in Nat /\ MaxRecords # 0
  BY KVDBAssumption DEF DictInv, LogOK, IsLog
<1>2. S \in SUBSET Keys /\ IsFiniteSet(Keys)
  BY KVDBAssumption DEF LiveIn
<1>3. T \in SUBSET (1 .. n - 1)
  BY DEF ValuedIn
<1> HIDE DEF n, S, T
<1>4. IsFiniteSet(S) /\ Cardinality(S) <= Cardinality(Keys)
  BY <1>2, FS_Subset
<1>5. 1 \in Int /\ n - 1 \in Int
  BY <1>1
<1>6. IsFiniteSet(1 .. n - 1)
      /\ Cardinality(1 .. n - 1) = IF 1 > n - 1 THEN 0 ELSE n - 1 - 1 + 1
  BY <1>5, FS_Interval
<1>7. IsFiniteSet(T) /\ Cardinality(T) <= Cardinality(1 .. n - 1)
  BY <1>3, <1>6, FS_Subset
<1>8. Cardinality(S) \in Nat /\ Cardinality(T) \in Nat
  BY <1>4, <1>7, FS_CardinalityType
<1>9. Cardinality(T) <= MaxRecords
  BY <1>1, <1>6, <1>7, <1>8
<1> QED
  BY <1>4, <1>7, <1>8, <1>9 DEF n, S, T

\* What a new record for a key does to the invariant and to the dictionary.
LEMMA WriteStep ==
    ASSUME RoomFor(HashesUsed), DictInv, handle = "open", End < MaxRecords,
           NEW k \in Keys, NEW v \in Vals, AppendRecord(k, v),
           k \in LiveIn(log, End) => size' = size /\ waste' = waste + 1,
           k \notin LiveIn(log, End) => size' = size + 1 /\ waste' = waste,
           NEW c, result' = Result(c, 0, NoVal)
    PROVE  DictInv' /\ Store!Write(k, v) /\ Store!Done(c) /\ DOMAIN Contents = LiveIn(log, End)
<1> DEFINE D == LiveIn(log, End)
           E == LiveIn(log', End')
           T == ValuedIn(log, End)
           U == ValuedIn(log', End')
           C == ContentsIn(log, End)
           B == ContentsIn(log', End')
<1>0. v # NoVal /\ v \in Vals \cup {NoVal}
  BY KVDBAssumption
<1>1. /\ handle' = "open" /\ End' # 0
      /\ LogOK(log', End') /\ IndexOK(index', log', End')
      /\ E = D \cup {k}
      /\ \A j \in E : B[j] = IF j = k THEN v ELSE C[j]
      /\ U = T \cup {End} /\ End \notin T
  BY <1>0, AppendStep
<1>2. /\ IsFiniteSet(D) /\ IsFiniteSet(T) /\ Cardinality(D) \in Nat /\ Cardinality(T) \in Nat
      /\ size \in Nat /\ waste \in Nat /\ size = Cardinality(D) /\ size + waste = Cardinality(T)
  BY LiveFinite DEF DictInv, CountsOK
<1> HIDE DEF D, E, T, U, C
<1>3. Cardinality(E) = IF k \in D THEN size ELSE size + 1
  BY <1>1, <1>2, FS_AddElement
<1>4. Cardinality(U) = size + waste + 1
  <2>1. IsFiniteSet(T) /\ U = T \cup {End} /\ End \notin T
    BY <1>1, <1>2
  <2>2. Cardinality(U) = Cardinality(T) + 1
    BY <2>1, FS_AddElement
  <2> QED
    BY <1>2, <2>2
<1>5. CountsOK(size', waste', log', End')
  <2>1. CASE k \in D
    <3>1. size' = size /\ waste' = waste + 1
      BY <2>1 DEF D
    <3> QED
      BY <1>2, <1>3, <1>4, <2>1, <3>1 DEF CountsOK, E, U
  <2>2. CASE k \notin D
    <3>1. size' = size + 1 /\ waste' = waste
      BY <2>2 DEF D
    <3> QED
      BY <1>2, <1>3, <1>4, <2>2, <3>1 DEF CountsOK, E, U
  <2> QED
    BY <2>1, <2>2
<1>6. ResultOK(result') /\ result' = Store!Result(c, 0, Store!NoVal)
  BY ResultTyped
<1>7. DictInv'
  BY <1>1, <1>5, <1>6 DEF DictInv
<1>8. Contents = C /\ Contents' = B
  BY <1>1, ContentsAre, ContentsNext DEF DictInv, LogOK, C
<1>9. DOMAIN C = D /\ B = [j \in E |-> B[j]]
  BY DEF ContentsIn, C, D, E
<1> HIDE DEF B
<1>10. B = [x \in D \cup {k} |-> IF x = k THEN v ELSE C[x]]
  BY <1>1, <1>9
<1> QED
  BY <1>6, <1>7, <1>8, <1>9, <1>10 DEF Store!Write, Store!Done, D

\* The record of a removal takes the key out of the dictionary.
LEMMA RemovalStep ==
    ASSUME RoomFor(HashesUsed), DictInv, handle = "open", End < MaxRecords,
           NEW k \in Keys, AppendRecord(k, NoVal), k \in LiveIn(log, End),
           size' = size - 1, waste' = waste + 1,
           NEW v, v = ContentsIn(log, End)[k],
           NEW c, result' = Result(c, 0, v)
    PROVE  /\ DictInv' /\ Contents' = Store!Restrict(Contents, DOMAIN Contents \ {k})
           /\ DOMAIN Contents = LiveIn(log, End) /\ Contents = ContentsIn(log, End)
           /\ result' = Store!Result(c, 0, v)
<1> DEFINE D == LiveIn(log, End)
           E == LiveIn(log', End')
           T == ValuedIn(log, End)
           C == ContentsIn(log, End)
           B == ContentsIn(log', End')
<1>0. NoVal \in Vals \cup {NoVal} /\ C[k] \in Vals \cup {NoVal}
  <2>1. C[k] = log[NewestIn(log, End, k)].val /\ NewestIn(log, End, k) # 0
    BY DEF ContentsIn, LiveIn
  <2>2. NewestIn(log, End, k) \in 1 .. End - 1
    BY <2>1, NewestRange DEF DictInv, LogOK
  <2> QED
    BY <2>1, <2>2 DEF DictInv, LogOK, IsLog
<1>1. /\ handle' = "open" /\ End' # 0
      /\ LogOK(log', End') /\ IndexOK(index', log', End')
      /\ E = D \ {k}
      /\ \A j \in E : B[j] = IF j = k THEN NoVal ELSE C[j]
      /\ ValuedIn(log', End') = T
  BY <1>0, AppendStep
<1>2. /\ IsFiniteSet(D) /\ Cardinality(D) \in Nat
      /\ size \in Nat /\ waste \in Nat /\ size = Cardinality(D) /\ size + waste = Cardinality(T)
      /\ k \in D
  BY LiveFinite DEF DictInv, CountsOK
<1> HIDE DEF D, E, T, C
<1>3. Cardinality(E) = size - 1 /\ Cardinality(E) \in Nat
  <2>1. IsFiniteSet(E) /\ Cardinality(E) = Cardinality(D) - 1
    BY <1>1, <1>2, FS_RemoveElement
  <2> QED
    BY <1>2, <2>1, FS_CardinalityType
<1>4. CountsOK(size', waste', log', End')
  BY <1>1, <1>2, <1>3 DEF CountsOK, E
<1>5. ResultOK(result') /\ result' = Store!Result(c, 0, v)
  BY <1>0, ResultTyped DEF C
<1>6. DictInv'
  BY <1>1, <1>4, <1>5 DEF DictInv
<1>7. Contents = C /\ Contents' = B
  BY <1>1, ContentsAre, ContentsNext DEF DictInv, LogOK, C
<1>8. DOMAIN C = D /\ B = [j \in E |-> B[j]]
  BY DEF ContentsIn, C, D, E
<1> HIDE DEF B
<1>9. B = [x \in D \ {k} |-> C[x]]
  BY <1>1, <1>8
<1> QED
  BY <1>5, <1>6, <1>7, <1>8, <1>9 DEF Store!Restrict, D, C

LEMMA MutateStep ==
    ASSUME RoomFor(HashesUsed), DictInv, Mutate
    PROVE  DictInv' /\ StoreStep
<1>0. handle = "open" /\ End < MaxRecords /\ IndexOK(index, log, End)
  BY DEF Mutate, DictInv
<1>1. PICK k \in Keys :
        \/ \E c \in Mutations(k) : OutOfMemory(c) \/ ReadError(c, k)
        \/ Remove(k)
        \/ \E v \in Vals : Insert(k, v) \/ UpdateKey(k, v) \/ Replace(k, v)
  BY DEF Mutate
<1> DEFINE u == Updated(k)
           D == LiveIn(log, End)
<1>2. /\ IndexOK(u, log, End)
      /\ Live(k) <=> k \in D
      /\ k \in D => Current(k).val = ContentsIn(log, End)[k]
  BY <1>0, LiveIs
<1> HIDE DEF u, D
<1>3. ASSUME NEW c \in Mutations(k), OutOfMemory(c) PROVE DictInv' /\ StoreStep
  BY <1>0, <1>3, FailStep DEF OutOfMemory, data
<1>4. ASSUME NEW c \in Mutations(k), ReadError(c, k) PROVE DictInv' /\ StoreStep
  <2>1. /\ log' = log /\ size' = size /\ waste' = waste /\ handle' = handle
        /\ index' = u /\ result' = Result(c, -1, NoVal)
    BY <1>4 DEF ReadError, u
  <2> QED
    BY <1>2, <2>1, FailStep
<1>5. ASSUME NEW c, RefuseMutation(c, k)
      PROVE  /\ DictInv' /\ Contents' = Contents /\ DOMAIN Contents = D
             /\ result' = Store!Result(c, 1, Store!NoVal)
  <2>1. /\ log' = log /\ size' = size /\ waste' = waste /\ handle' = handle
        /\ index' = u /\ result' = Result(c, 1, NoVal)
    BY <1>5 DEF RefuseMutation, u
  <2>2. IndexOK(index', log, End)
    BY <1>2, <2>1
  <2> QED
    BY <2>1, <2>2, AnswerStep DEF D
<1>6. CASE Remove(k)
  <2> DEFINE c == <<"remove", k>>
  <2>1. CASE Live(k)
    <3> DEFINE v == ContentsIn(log, End)[k]
    <3>1. /\ AppendRecord(k, NoVal) /\ size' = size - 1 /\ waste' = waste + 1
          /\ result' = Result(c, 0, Current(k).val)
      BY <1>6, <2>1 DEF Remove
    <3>2. k \in D /\ Current(k).val = v
      BY <1>2, <2>1
    <3>3. result' = Result(c, 0, v)
      BY <3>1, <3>2
    <3> HIDE DEF c
    <3>4. /\ DictInv' /\ Contents' = Store!Restrict(Contents, DOMAIN Contents \ {k})
          /\ DOMAIN Contents = D /\ Contents = ContentsIn(log, End)
          /\ result' = Store!Result(c, 0, v)
      BY <1>0, <3>1, <3>2, <3>3, RemovalStep DEF D
    <3>5. Store!Remove(k)
      BY <3>2, <3>4 DEF Store!Remove, Store!Bound, c
    <3> QED
      BY <3>4, <3>5 DEF StoreStep, Store!Next
  <2>2. CASE ~Live(k)
    <3>1. RefuseMutation(c, k)
      BY <1>6, <2>2 DEF Remove
    <3>2. Store!Remove(k)
      BY <1>2, <1>5, <2>2, <3>1 DEF Store!Remove, Store!Bound, Store!Refuse
    <3> QED
      BY <1>5, <3>1, <3>2 DEF StoreStep, Store!Next
  <2> QED
    BY <2>1, <2>2
<1>7. ASSUME NEW v \in Vals, Insert(k, v) PROVE DictInv' /\ StoreStep
  <2> DEFINE c == <<"insert", k, v>>
  <2>1. CASE Live(k)
    <3>1. RefuseMutation(c, k)
      BY <1>7, <2>1 DEF Insert
    <3>2. Store!Insert(k, v)
      BY <1>2, <1>5, <2>1, <3>1 DEF Store!Insert, Store!Bound, Store!Refuse
    <3> QED
      BY <1>5, <3>1, <3>2 DEF StoreStep, Store!Next
  <2>2. CASE ~Live(k)
    <3>1. /\ AppendRecord(k, v) /\ size' = size + 1 /\ waste' = waste
          /\ result' = Result(c, 0, NoVal)
      BY <1>7, <2>2 DEF Insert
    <3>2. k \notin LiveIn(log, End)
      BY <1>2, <2>2 DEF D
    <3> HIDE DEF c
    <3>3. DictInv' /\ Store!Write(k, v) /\ Store!Done(c) /\ DOMAIN Contents = LiveIn(log, End)
      BY <1>0, <3>1, <3>2, WriteStep
    <3>4. Store!Insert(k, v)
      BY <3>2, <3>3 DEF Store!Insert, Store!Bound, c
    <3> QED
      BY <3>3, <3>4 DEF StoreStep, Store!Next
  <2> QED
    BY <2>1, <2>2
<1>8. ASSUME NEW v \in Vals, UpdateKey(k, v) PROVE DictInv' /\ StoreStep
  <2> DEFINE c == <<"update", k, v>>
  <2>1. AppendRecord(k, v) /\ CountUpdate(k) /\ result' = Result(c, 0, NoVal)
    BY <1>8 DEF UpdateKey
  <2>2. /\ k \in LiveIn(log, End) => size' = size /\ waste' = waste + 1
        /\ k \notin LiveIn(log, End) => size' = size + 1 /\ waste' = waste
    BY <1>2, <2>1 DEF D, CountUpdate, CountWaste
  <2> HIDE DEF c
  <2>3. DictInv' /\ Store!Write(k, v) /\ Store!Done(c)
    BY <1>0, <2>1, <2>2, WriteStep
  <2>4. Store!Update(k, v)
    BY <2>3 DEF Store!Update, c
  <2> QED
    BY <2>3, <2>4 DEF StoreStep, Store!Next
<1>9. ASSUME NEW v \in Vals, Replace(k, v) PROVE DictInv' /\ StoreStep
  <2> DEFINE c == <<"replace", k, v>>
  <2>1. CASE ~Live(k)
    <3>1. RefuseMutation(c, k)
      BY <1>9, <2>1 DEF Replace
    <3>2. Store!Replace(k, v)
      BY <1>2, <1>5, <2>1, <3>1 DEF Store!Replace, Store!Bound, Store!Refuse
    <3> QED
      BY <1>5, <3>1, <3>2 DEF StoreStep, Store!Next
  <2>2. CASE Live(k)
    <3>1. /\ AppendRecord(k, v) /\ size' = size /\ waste' = waste + 1
          /\ result' = Result(c, 0, NoVal)
      BY <1>9, <2>2 DEF Replace, CountWaste
    <3>2. k \in LiveIn(log, End)
      BY <1>2, <2>2 DEF D
    <3> HIDE DEF c
    <3>3. DictInv' /\ Store!Write(k, v) /\ Store!Done(c) /\ DOMAIN Contents = LiveIn(log, End)
      BY <1>0, <3>1, <3>2, WriteStep
    <3>4. Store!Replace(k, v)
      BY <3>2, <3>3 DEF Store!Replace, Store!Bound, c
    <3> QED
      BY <3>3, <3>4 DEF StoreStep, Store!Next
  <2> QED
    BY <2>1, <2>2
<1> QED
  BY <1>1, <1>3, <1>4, <1>6, <1>7, <1>8, <1>9

LEMMA LookupStep ==
    ASSUME RoomFor(HashesUsed), DictInv, Lookup
    PROVE  DictInv' /\ StoreStep
<1>0. /\ handle = "open" /\ IndexOK(index, log, End) /\ IsLog(log, End) /\ Linked(log, End)
      /\ End # 0
  BY DEF Lookup, DictInv, LogOK
<1>1. /\ log' = log /\ size' = size /\ waste' = waste /\ handle' = handle /\ index' = index
  BY DEF Lookup, data
<1>2. PICK k \in Keys :
        LET start == Find(index, HashOf[k]).off
            at    == ChainLookup(start, k)
        IN \/ /\ ReadCanFail(start)
              /\ result' = Result(<<"lookup", k>>, -1, NoVal)
           \/ result' = IF at = 0 \/ log[at].val = NoVal
                          THEN Result(<<"lookup", k>>, 1, NoVal)
                          ELSE Result(<<"lookup", k>>, 0, log[at].val)
  BY DEF Lookup
<1> DEFINE start == Find(index, HashOf[k]).off
           at == ChainLookup(start, k)
           D == LiveIn(log, End)
           C == ContentsIn(log, End)
           c == <<"lookup", k>>
<1>3. \/ result' = Result(c, -1, NoVal)
      \/ result' = IF at = 0 \/ log[at].val = NoVal
                     THEN Result(c, 1, NoVal) ELSE Result(c, 0, log[at].val)
  BY <1>2
<1>4. start = Last(Sharing(log, End, SlotKey(k))) /\ Headed(index, log, End)
  BY <1>0, KeysKnown, FindIsAt DEF SlotKey, IndexOK, Headed
<1> HIDE DEF start
<1>5. /\ at # 0 /\ log[at].val # NoVal <=> k \in D
      /\ k \in D => log[at].val = C[k]
      /\ at = NewestIn(log, End, k)
  BY <1>0, <1>4, LookupIs
<1>6. IndexOK(index', log, End)
  BY <1>0, <1>1
<1> HIDE DEF at, D, C, c
<1>7. CASE result' = Result(c, -1, NoVal)
  BY <1>1, <1>6, <1>7, FailStep
<1>8. CASE result' = Result(c, 1, NoVal) /\ k \notin D
  <2>1. /\ DictInv' /\ Contents' = Contents /\ DOMAIN Contents = D
        /\ result' = Store!Result(c, 1, Store!NoVal)
    BY <1>1, <1>6, <1>8, AnswerStep DEF D
  <2>2. Store!Lookup(k)
    BY <1>8, <2>1 DEF Store!Lookup, Store!Bound, Store!Refuse, c
  <2> QED
    BY <2>1, <2>2 DEF StoreStep, Store!Next
<1>9. CASE result' = Result(c, 0, log[at].val) /\ k \in D
  <2>1. log[at].val \in Vals \cup {NoVal} /\ log[at].val = C[k]
    <3>1. at \in 1 .. End - 1
      BY <1>0, <1>5, <1>9, NewestRange
    <3> QED
      BY <1>0, <1>5, <1>9, <3>1 DEF IsLog
  <2> DEFINE v == log[at].val
  <2>2. v \in Vals \cup {NoVal} /\ result' = Result(c, 0, v)
    BY <1>9, <2>1
  <2> HIDE DEF v
  <2>3. /\ DictInv' /\ Contents' = Contents /\ DOMAIN Contents = D /\ Contents = C
        /\ result' = Store!Result(c, 0, v)
    BY <1>1, <1>6, <2>2, AnswerStep DEF D, C
  <2>4. Store!Lookup(k)
    BY <1>9, <2>1, <2>3 DEF Store!Lookup, Store!Bound, c, v
  <2> QED
    BY <2>3, <2>4 DEF StoreStep, Store!Next
<1> QED
  BY <1>3, <1>5, <1>7, <1>8, <1>9

LEMMA NextStep ==
    ASSUME RoomFor(HashesUsed), DictInv, [Next]_vars
    PROVE  DictInv' /\ StoreStep
<1>1. CASE Open
  BY <1>1, OpenStep
<1>2. CASE OpenFails
  <2>1. /\ log' = log /\ size' = size /\ waste' = waste /\ handle' = handle /\ index' = index
        /\ result' = Result(<<"open">>, -1, NoVal)
    BY <1>2 DEF OpenFails, data
  <2>2. IndexOK(index', log, End)
    BY <2>1 DEF DictInv
  <2> QED
    BY <2>1, <2>2, FailStep
<1>3. CASE OpenFailsInLogFS
  <2>1. /\ log' = log /\ size' = size /\ waste' = waste /\ handle' = "crashed" /\ index' = index
        /\ result' = result
    BY <1>3 DEF OpenFailsInLogFS, data
  <2>2. DictInv'
    BY <2>1, KeepsInv DEF DictInv
  <2>3. Contents' = Contents
    BY <2>1, SameLog
  <2> QED
    BY <2>1, <2>2, <2>3 DEF StoreStep
<1>4. CASE Close
  BY <1>4, CloseStep
<1>5. CASE Mutate
  BY <1>5, MutateStep
<1>6. CASE Lookup
  BY <1>6, LookupStep
<1>7. CASE UNCHANGED vars
  <2>1. /\ log' = log /\ size' = size /\ waste' = waste /\ handle' = handle /\ index' = index
        /\ result' = result
    BY <1>7 DEF vars, data
  <2>2. DictInv'
    BY <2>1, KeepsInv DEF DictInv
  <2>3. Contents' = Contents
    BY <2>1, SameLog
  <2> QED
    BY <2>1, <2>2, <2>3 DEF StoreStep
<1> QED
  BY <1>1, <1>2, <1>3, <1>4, <1>5, <1>6, <1>7 DEF Next

\* The invariant says of log, index and counters what the run checks.
LEMMA InvAccounts ==
    ASSUME DictInv
    PROVE  RecordsAccountedFor
<1>0. IsLog(log, End) /\ End \in Nat /\ End <= MaxRecords /\ Linked(log, End)
  BY DEF DictInv, LogOK, IsLog
<1>1. /\ DOMAIN log = 0 .. End - 1 /\ Records = 1 .. End - 1
      /\ LiveKeys = LiveIn(log, End)
      /\ {o \in Records : log[o].val # NoVal} = ValuedIn(log, End)
  BY <1>0, ContentsAre
<1>2. Sound(index, Nat) /\ Headed(index, log, End)
  BY DEF DictInv, IndexOK
<1>3. index.capacity \in Nat /\ index.size \in 0 .. index.capacity
  BY <1>2, TableParts, UsedFinite DEF Sound
<1>4. /\ size \in Nat /\ waste \in Nat
      /\ size = Cardinality(LiveIn(log, End)) /\ size + waste = Cardinality(ValuedIn(log, End))
  BY DEF DictInv, CountsOK
<1>5. size \in 0 .. Cardinality(Keys) /\ waste \in 0 .. MaxRecords
  <2>1. /\ Cardinality(LiveIn(log, End)) <= Cardinality(Keys)
        /\ Cardinality(ValuedIn(log, End)) <= MaxRecords
    BY LiveFinite
  <2>2. Cardinality(Keys) \in Nat /\ MaxRecords \in Nat
    BY KVDBAssumption, FS_CardinalityType
  <2> QED
    BY <1>4, <2>1, <2>2
<1>6. TypeOK
  <2>1. \A o \in Records : /\ log[o].key \in Keys
                           /\ log[o].val \in Vals \cup {NoVal}
                           /\ log[o].off \in 0 .. o - 1
    BY <1>0, <1>1 DEF IsLog
  <2> QED
    BY <1>0, <1>1, <1>3, <1>5, <2>1 DEF TypeOK, DictInv, ResultOK
<1>7. ChainsPartitionLog
  <2> SUFFICES ASSUME handle = "open", NEW h \in HashesUsed
               PROVE  ChainFrom(Find(index, h).off)
                      = {o \in Records : KeyOf(HashOf[log[o].key]) = h}
    BY DEF ChainsPartitionLog
  <2>1. h \in TableKeys /\ KeyOf(h) = h /\ End # 0
    <3>1. h # 0 /\ h \in TableKeys
      BY HashesUsedFinite DEF TableKeys
    <3> QED
      BY <3>1 DEF KeyOf, DictInv
  <2> DEFINE s == Find(index, h).off
             n == End
  <2>2. s = Last(Sharing(log, n, h))
    BY <1>2, <2>1, FindIsAt DEF Headed
  <2> HIDE DEF s
  <2>3. s \in 0 .. n - 1 /\ ChainAt(log, s) = Sharing(log, n, h)
    BY <1>0, <2>1, <2>2, HeadFinds
  <2>4. ChainFrom(s) = Sharing(log, n, h)
    BY <1>0, <2>3, ChainLookupIs
  <2>5. Sharing(log, n, h) = {o \in Records : KeyOf(HashOf[log[o].key]) = h}
    BY <1>1 DEF Sharing, SlotKey
  <2> QED
    BY <2>4, <2>5 DEF s
<1>8. CountersAgree
  BY <1>1, <1>4 DEF CountersAgree
<1> QED
  BY <1>6, <1>7, <1>8 DEF RecordsAccountedFor

\* While the index has room for the keys in use, the chains lead to every record, and
\* the counters account for every record, whatever call failed between its steps.
THEOREM RecordsStayAccountedFor ==
    ASSUME RoomFor(HashesUsed)
    PROVE  Spec => []RecordsAccountedFor
<1>1. Init => DictInv
  BY InitStep
<1>2. DictInv /\ [Next]_vars => DictInv'
  BY NextStep
<1>3. DictInv => RecordsAccountedFor
  BY InvAccounts
<1> QED
  BY <1>1, <1>2, <1>3, PTL DEF Spec

\* kvdb.c, over a log of linked records and a hash table of 64 bit hashes, is a
\* dictionary: every call answers and changes what the dictionary would.
THEOREM KVDBIsStore ==
    ASSUME RoomFor(HashesUsed)
    PROVE  Spec => RefinesKVStore
<1>1. Init => DictInv /\ Store!Init
  BY InitStep
<1>2. DictInv /\ [Next]_vars => DictInv' /\ [Store!Next]_(Store!storevars)
  BY NextStep DEF StoreStep, Store!storevars
<1> QED
  BY <1>1, <1>2, PTL DEF Spec, RefinesKVStore, Store!Spec
=============================================================================
