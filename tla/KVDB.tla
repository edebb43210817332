------------------------------- MODULE KVDB -------------------------------
(***************************************************************************)
(* p4/kvdb.c and p4/kvraw.c over the log and the index: a dictionary whose *)
(* every change is a record appended to the log.  A record names the       *)
(* record before it with the same hash, so each hash has a chain, newest   *)
(* record first, and the index holds where it begins.  A record with no    *)
(* value says that its key was removed.                                    *)
(*                                                                         *)
(* The log is that of AppendLog, in records instead of bytes: kvraw.c only *)
(* appends whole records and reads at offsets it was given.  An offset is  *)
(* the number of its record.  Record 0 is the one kvraw_open appends, so   *)
(* that no record of a key is at offset 0, which ends a chain.             *)
(*                                                                         *)
(* The program is sequential, and a call runs to its end: one action each. *)
(***************************************************************************)
EXTENDS HashIndex, FiniteSets, Functions

CONSTANTS Keys, Vals,
          HashOf,      \* the hash of each key: index.c's hash, external
          MaxRecords,  \* bound: records in the log
          Faults       \* "read": logfs_read fails; "memory": malloc; "device": logfs_open

NoVal == "none"

\* kvdb.c asserts that a value is not empty, so it cannot be taken for a removal.
ASSUME KVDBAssumption ==
  /\ IsFiniteSet(Keys)
  /\ NoVal \notin Vals
  /\ HashOf \in [Keys -> 0 .. WordSize - 1]
  /\ MaxRecords \in Nat \ {0}
  /\ Faults \subseteq {"read", "memory", "device"}

VARIABLES handle,      \* "open", "closed", or "crashed" if the process is gone
          log,         \* the records, numbered from 0
          index,
          size, waste, \* the counters of struct kvdb
          result       \* the last call, and the [status, val] it returned

data == <<log, index, size, waste>>
vars == <<handle, data, result>>

NoKey == "nokey"
Record(k, v, o) == [key |-> k, val |-> v, off |-> o]
Result(c, status, val) == [call |-> c, status |-> status, val |-> val]

\* kvraw's size, as a number of records: the offset of the next one.
End == Cardinality(DOMAIN log)

\* kvraw_append; the log never refuses.
Appended(r) == [o \in 0 .. End |-> IF o = End THEN r ELSE log[o]]

Init ==
  /\ handle = "closed"
  /\ log = [o \in {} |-> 0] /\ index = Opened
  /\ size = 0 /\ waste = 0
  /\ result = Result(<<"close">>, 0, NoVal)

-----------------------------------------------------------------------------
(* kvdb_open and kvdb_close.                                               *)

Open ==
  /\ handle = "closed"
  /\ handle' = "open"
  /\ log' = [o \in {0} |-> Record(NoKey, "dummy", 0)]
  /\ index' = Opened
  /\ size' = 0 /\ waste' = 0
  /\ result' = Result(<<"open">>, 0, NoVal)

\* A malloc fails: what was opened before it is closed again.
OpenFails ==
  /\ handle = "closed"
  /\ "memory" \in Faults
  /\ result' = Result(<<"open">>, -1, NoVal)
  /\ UNCHANGED <<handle, data>>

\* logfs_open returns NULL: kvraw_open calls kvraw_close, which calls
\* logfs_close(NULL), which reads through the pointer, although "logfs may be
\* NULL", logfs.c:213.
OpenFailsInLogFS ==
  /\ handle = "closed"
  /\ "device" \in Faults
  /\ handle' = "crashed"
  /\ UNCHANGED <<data, result>>

Close ==
  /\ handle = "open"
  /\ handle' = "closed"
  /\ log' = [o \in {} |-> 0] /\ index' = Opened
  /\ size' = 0 /\ waste' = 0
  /\ result' = Result(<<"close">>, 0, NoVal)

-----------------------------------------------------------------------------
(* chain_lookup.                                                           *)

\* The newest record of k in the chain that starts at start; 0 if none.
ChainLookup(start, k) ==
  LET find[o \in DOMAIN log] ==
        IF o = 0 \/ log[o].key = k THEN o ELSE find[log[o].off]
  IN find[start]

\* A record of the chain cannot be read, or there is no memory for its long key:
\* there has to be a record.
ReadCanFail(start) == start # 0 /\ Faults \cap {"read", "memory"} # {}

-----------------------------------------------------------------------------
(* mutate.                                                                 *)

\* The slot of k, after index_update made it if need be.
Updated(k)   == Update(index, HashOf[k])
RefOf(x, k)  == x.maps[FirstStop(x, KeyOf(HashOf[k]))].off

OutOfMemory(c) ==
  /\ "memory" \in Faults /\ Overloaded(index)
  /\ result' = Result(c, -1, NoVal)
  /\ UNCHANGED <<handle, data>>

\* index_update has been called when the chain is read.
ReadError(c, k) ==
  /\ ReadCanFail(RefOf(Updated(k), k))
  /\ index' = Updated(k)
  /\ result' = Result(c, -1, NoVal)
  /\ UNCHANGED <<handle, log, size, waste>>

\* The record of k that counts: that of the end of the chain, 0, has no value.
Current(k) == log[ChainLookup(RefOf(Updated(k), k), k)]

LiveIfFound(k) == ChainLookup(RefOf(Updated(k), k), k) # 0

Live(k) == /\ ChainLookup(RefOf(Updated(k), k), k) # 0
           /\ Current(k).val # NoVal

RefuseMutation(c, k) ==
  /\ index' = Updated(k)
  /\ result' = Result(c, 1, NoVal)
  /\ UNCHANGED <<handle, log, size, waste>>

\* What a new record is linked to: the head of the chain, not the record of k.
Link(k) == RefOf(Updated(k), k)

AppendRecord(k, v) ==
  /\ log' = Appended(Record(k, v, Link(k)))
  /\ index' = SetRef(Updated(k), KeyOf(HashOf[k]), End)
  /\ UNCHANGED handle

Insert(k, v) ==
  IF Live(k) THEN RefuseMutation(<<"insert", k, v>>, k)
  ELSE /\ AppendRecord(k, v)
       /\ size' = size + 1 /\ UNCHANGED waste
       /\ result' = Result(<<"insert", k, v>>, 0, NoVal)

CountWaste == size' = size /\ waste' = waste + 1

CountUpdateByRecord(k) ==
  IF LiveIfFound(k) THEN CountWaste ELSE size' = size + 1 /\ waste' = waste

CountUpdate(k) ==
  IF Live(k) THEN CountWaste ELSE size' = size + 1 /\ waste' = waste

UpdateKey(k, v) ==
  /\ CountUpdate(k)
  /\ AppendRecord(k, v)
  /\ result' = Result(<<"update", k, v>>, 0, NoVal)

Replace(k, v) ==
  IF ~Live(k) THEN RefuseMutation(<<"replace", k, v>>, k)
  ELSE /\ AppendRecord(k, v)
       /\ CountWaste
       /\ result' = Result(<<"replace", k, v>>, 0, NoVal)

Remove(k) ==
  IF ~Live(k) THEN RefuseMutation(<<"remove", k>>, k)
  ELSE /\ AppendRecord(k, NoVal)
       /\ size' = size - 1 /\ waste' = waste + 1
       /\ result' = Result(<<"remove", k>>, 0, Current(k).val)

Mutations(k) == {<<"remove", k>>} \cup ({"insert", "update", "replace"} \X {k} \X Vals)

Mutate ==
  /\ handle = "open"
  /\ End < MaxRecords
  /\ \E k \in Keys :
       \/ \E c \in Mutations(k) : OutOfMemory(c) \/ ReadError(c, k)
       \/ Remove(k)
       \/ \E v \in Vals : Insert(k, v) \/ UpdateKey(k, v) \/ Replace(k, v)

\* kvdb_lookup: the index is only read.
Lookup ==
  /\ handle = "open"
  /\ \E k \in Keys :
       LET start == Find(index, HashOf[k]).off
           at    == ChainLookup(start, k)
       IN \/ /\ ReadCanFail(start)
             /\ result' = Result(<<"lookup", k>>, -1, NoVal)
          \/ result' = IF at = 0 \/ log[at].val = NoVal
                         THEN Result(<<"lookup", k>>, 1, NoVal)
                         ELSE Result(<<"lookup", k>>, 0, log[at].val)
  /\ UNCHANGED <<handle, data>>

Next == Open \/ OpenFails \/ OpenFailsInLogFS \/ Close \/ Mutate \/ Lookup

Spec == Init /\ [][Next]_vars

-----------------------------------------------------------------------------
(* Properties.                                                             *)

Records == DOMAIN log \ {0}

\* Counters, chains and records stay among the values that the calls may give them,
\* whatever fails on the way.
TypeOK ==
  /\ handle \in {"open", "closed", "crashed"}
  /\ DOMAIN log = 0 .. End - 1 /\ End <= MaxRecords
  /\ \A o \in Records : /\ log[o].key \in Keys
                        /\ log[o].val \in Vals \cup {NoVal}
                        /\ log[o].off \in 0 .. o - 1
  /\ index.capacity \in Nat /\ index.size \in 0 .. index.capacity
  /\ size \in 0 .. Cardinality(Keys) /\ waste \in 0 .. MaxRecords
  /\ result.status \in {-1, 0, 1} /\ result.val \in Vals \cup {NoVal}

\* The records from one on along its chain.
ChainFrom(start) ==
  LET chain[o \in DOMAIN log] == IF o = 0 THEN {} ELSE {o} \cup chain[log[o].off]
  IN chain[start]

HashesUsed == {KeyOf(HashOf[k]) : k \in Keys}

\* Each record is in the chain of its own hash and in no other, through every
\* growth of the index and every collision: none can be lost or found twice.
ChainsPartitionLog ==
  handle = "open" =>
    \A h \in HashesUsed :
      ChainFrom(Find(index, h).off) = {o \in Records : KeyOf(HashOf[log[o].key]) = h}

\* The dictionary that the log stands for: of each key the newest record counts.
Newest(k) == LET of == {o \in Records : log[o].key = k}
             IN IF of = {} THEN 0 ELSE CHOOSE o \in of : \A p \in of : p <= o
LiveKeys  == {k \in Keys : Newest(k) # 0 /\ log[Newest(k)].val # NoVal}
Contents  == [k \in LiveKeys |-> log[Newest(k)].val]

\* kvdb_size is the number of keys with a value; and with kvdb_waste, the values
\* that were overwritten or removed, it accounts for every value in the log.
CountersAgree ==
  handle = "open" =>
    /\ size = Cardinality(LiveKeys)
    /\ size + waste = Cardinality({o \in Records : log[o].val # NoVal})

\* The index leads to every record, and the counters account for every record, also
\* after a call that failed between its steps.
RecordsAccountedFor == TypeOK /\ ChainsPartitionLog /\ CountersAgree

Store == INSTANCE KVStore WITH store <- Contents

\* kvdb.c is a dictionary, whatever the collisions, the growths of the index and
\* the errors of the calls below it.
RefinesKVStore == Store!Spec
=============================================================================
