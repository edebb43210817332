----------------------------- MODULE IndexCalls -----------------------------
(***************************************************************************)
(* The hash table of HashIndex in the hands of a caller that asks for the  *)
(* reference of a hash and stores an offset through it, or looks one up.   *)
(***************************************************************************)
EXTENDS HashIndex, FiniteSets

CONSTANTS Hashes,      \* the hashes of the keys in use
          MaxOff,      \* bound: offsets stored
          MayRunOut    \* can malloc fail

ASSUME CallsAssumption ==
  /\ Hashes \subseteq 0 .. WordSize - 1
  /\ MaxOff \in Nat
  /\ MayRunOut \in BOOLEAN

\* The keys that stand for the hashes in the table.
HashKeys == {KeyOf(h) : h \in Hashes}

VARIABLES table,       \* struct index, and exited once EXIT has been called
          answer,      \* what the last call returned
          stored       \* history: the reference last stored under each key

callsVars == <<table, answer, stored>>

CallsInit == /\ table = Opened /\ answer = NoRef
             /\ stored = [k \in HashKeys |-> NoRef]

\* A caller that gets the reference of a hash, and stores an offset there.
UpdateCall ==
  /\ ~table.exited
  /\ \E h \in Hashes : \E o \in 0 .. MaxOff :
       /\ LET x == Update(table, h)
          IN table' = IF x.exited THEN x ELSE SetRef(x, KeyOf(h), o)
       /\ answer' = Ref(o)
       /\ stored' = [stored EXCEPT ![KeyOf(h)] = Ref(o)]

\* grow fails: the table is left as it was.
UpdateFails ==
  /\ ~table.exited
  /\ MayRunOut
  /\ Overloaded(table)
  /\ answer' = NoRef
  /\ UNCHANGED <<table, stored>>

LookupCall ==
  /\ ~table.exited
  /\ \E h \in Hashes : answer' = Find(table, h)
  /\ UNCHANGED <<table, stored>>

CallsNext == UpdateCall \/ UpdateFails \/ LookupCall

CallsSpec == CallsInit /\ [][CallsNext]_callsVars

-----------------------------------------------------------------------------
(* Properties.                                                             *)

Slots == 0 .. table.capacity - 1
Used  == {j \in Slots : table.maps[j].key # 0}

\* Growing and claiming keep the size within the capacity, every slot is written,
\* and keys and offsets are not mixed up.
TableTypeOK ==
  /\ table.capacity \in Nat /\ table.size \in 0 .. table.capacity
  /\ table.exited \in BOOLEAN
  /\ table.maps \in [Slots -> [key : 0 .. WordSize - 1, off : 0 .. MaxOff]]
  /\ answer \in [found : BOOLEAN, off : 0 .. MaxOff]

\* What the probing rests on: a key is in one slot only, index_lookup comes to
\* that slot before it meets an empty one, and size counts the used slots.
\* Growing the table, which moves every key, must restore it.
ProbesReachKeys ==
  /\ table.size = Cardinality(Used)
  /\ \A j \in Used : FirstStop(table, table.maps[j].key) = j
  /\ \A j, k \in Used : table.maps[j].key = table.maps[k].key => j = k

\* EXIT("software"), index.c:95, is never reached: the load factor always leaves
\* a slot for one more key.
NeverExits == ~table.exited

\* The table is fit for the next call, whatever was stored, grown or refused.
TableIsSound == TableTypeOK /\ ProbesReachKeys /\ NeverExits

\* Every hash leads to what was last stored under it, and to nothing before its
\* first store: no store is lost or made under another hash, and no growth and no
\* refused call drops, moves or resets a reference.  The hashes 0 and 1 are one
\* (index.c:159).  Once EXIT has been called there is no table to ask.
StoresAreFound ==
  ~table.exited => \A h \in Hashes : Find(table, h) = stored[KeyOf(h)]
=============================================================================
