----------------------------- MODULE HashIndex -----------------------------
(***************************************************************************)
(* p4/index.c: a hash table with linear probing from the 64 bit hash of a  *)
(* key to a reference, through which kvdb.c reads and writes the offset of *)
(* the newest record with that hash.  Nothing is ever removed from it.     *)
(*                                                                         *)
(* The key of a slot is the hash alone: keys with one hash share a slot,   *)
(* and kvdb.c tells them apart.  The hash itself is external: here it is   *)
(* any word, and words wrap at WordSize as uint64_t does at 2^64.          *)
(***************************************************************************)
EXTENDS Integers

CONSTANTS WordSize,    \* 2^64: the hash, and key + i, are taken modulo it
          GrowBase     \* the 97 of (capacity + 97) * 3 / 2

ASSUME IndexAssumption == /\ WordSize \in Nat /\ WordSize > 1
                          /\ GrowBase \in Nat \ {0}

NoRef == [found |-> FALSE, off |-> 0]
Ref(o) == [found |-> TRUE, off |-> o]

\* create, with memory for it.
Create(capacity) ==
  [size |-> 0, capacity |-> capacity, exited |-> FALSE,
   maps |-> [j \in 0 .. capacity - 1 |-> [key |-> 0, off |-> 0]]]

\* index_open: no slot is allocated yet.
Opened == Create(0)

\* Key 0 marks an empty slot, so the hash 0 becomes 1.
KeyOf(h) == IF h = 0 THEN 1 ELSE h

\* The slot that the i-th probe for a key looks at.
Probe(x, key, i) == ((key + i) % WordSize) % x.capacity

\* The probes at which update or index_lookup stop for a key.
Stops(x, key) ==
  {i \in 0 .. x.capacity - 1 : x.maps[Probe(x, key, i)].key \in {0, key}}

FirstStop(x, key) ==
  Probe(x, key, CHOOSE i \in Stops(x, key) : \A k \in Stops(x, key) : i <= k)

\* update: the slot of a key, which is made its slot if it had none.
Claim(x, key) ==
  IF Stops(x, key) = {} THEN [x EXCEPT !.exited = TRUE]
  ELSE LET j == FirstStop(x, key)
       IN IF x.maps[j].key = key THEN x
          ELSE [x EXCEPT !.size = @ + 1, !.maps[j] = [key |-> key, off |-> 0]]

\* A store through the reference that update returned.
SetRef(x, key, o) == [x EXCEPT !.maps[FirstStop(x, key)].off = o]

OverloadedLate(x) == x.capacity = 0 \/ x.size > x.capacity

\* LOAD < load, where the load of a table with no slot is 1.
Overloaded(x) == x.capacity = 0 \/ 10 * x.size > 7 * x.capacity

RehashKeysOnly(y, slot) == Claim(y, slot.key)

\* One slot of the old table put into the new one.
Rehash(y, slot) ==
  LET z == Claim(y, slot.key)
  IN IF z.exited THEN z ELSE SetRef(z, slot.key, slot.off)

\* The bigger table, with the slots of x that hold a key, in their order.
Rehashed(x) ==
  LET fill[i \in 0 .. x.capacity] ==
        IF i = 0 THEN Create(((x.capacity + GrowBase) * 3) \div 2)
        ELSE IF x.maps[i - 1].key = 0 THEN fill[i - 1]
        ELSE Rehash(fill[i - 1], x.maps[i - 1])
  IN fill[x.capacity]

\* grow, with memory for it.
Grown(x) == IF Overloaded(x) THEN Rehashed(x) ELSE x

\* index_lookup.
Find(x, h) ==
  LET key == KeyOf(h)
      j   == FirstStop(x, key)
  IN IF Stops(x, key) = {} \/ x.maps[j].key = 0 THEN NoRef ELSE Ref(x.maps[j].off)

\* index_update.
Update(x, h) == Claim(Grown(x), KeyOf(h))
=============================================================================
