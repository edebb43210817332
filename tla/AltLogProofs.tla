---------------------------- MODULE AltLogProofs ----------------------------
(***************************************************************************)
(* Proofs about AltLog: its safety properties, for every block size,       *)
(* device, and bound, through every interleaving, fault and closing.       *)
(*                                                                         *)
(* LockInv says who holds the mutexes where, and needs nothing else.  The  *)
(* other parts follow a byte: ListInv and ByteInv have it in the list of   *)
(* blocks, RoundInv on its way to the device, FlushInv and DeviceInv on    *)
(* the device, of this log or an earlier one, and BufInv in the buffer of  *)
(* a read.                                                                 *)
(***************************************************************************)
EXTENDS AltLog, TLAPS

-----------------------------------------------------------------------------
(* What the proofs need of % and \div.                                      *)

\* A remainder is less than its modulus.
LEMMA ModRange ==
  ASSUME NEW a \in Int, NEW n \in Nat \ {0}
  PROVE  a % n \in 0 .. n - 1
OBVIOUS

\* A number is a multiple, its quotient's, and its remainder.
LEMMA DivMod ==
  ASSUME NEW a \in Int, NEW n \in Nat \ {0}
  PROVE  /\ a \div n \in Int
         /\ a = ((a \div n) * n) + (a % n)
OBVIOUS

\* The quotient of a natural number is one.
LEMMA DivNat ==
  ASSUME NEW a \in Nat, NEW n \in Nat \ {0}
  PROVE  a \div n \in Nat
OBVIOUS

\* A number below the modulus is its own remainder.
LEMMA ModSmall ==
  ASSUME NEW n \in Nat \ {0}, NEW a \in 0 .. n - 1
  PROVE  a % n = a
OBVIOUS

\* The remainder is the only number below n at the distance of a multiple.
LEMMA ModUnique ==
  ASSUME NEW q \in Int, NEW n \in Nat \ {0}, NEW r \in 0 .. n - 1
  PROVE  ((q * n) + r) % n = r
<1> DEFINE a == (q * n) + r
           d == (a \div n) - q
<1>1. a \in Int /\ d \in Int
  BY DivMod
<1>2. d * n = r - (a % n)
  BY <1>1, DivMod
<1>3. a % n \in 0 .. n - 1
  BY <1>1, ModRange
<1> HIDE DEF d, a
<1>4. CASE d >= 1
  <2>1. (d - 1) * n \in Nat
    BY <1>1, <1>4
  <2>2. d * n >= n
    BY <2>1, <1>1
  <2> QED
    BY <2>2, <1>2, <1>3, <1>1
<1>5. CASE d <= -1
  <2>1. (-d - 1) * n \in Nat
    BY <1>1, <1>5
  <2>2. d * n <= -n
    BY <2>1, <1>1
  <2> QED
    BY <2>2, <1>2, <1>3, <1>1
<1>6. CASE d = 0
  BY <1>6, <1>2, <1>3 DEF a
<1> QED
  BY <1>1, <1>4, <1>5, <1>6

\* The quotient of a number between two multiples.
LEMMA DivUnique ==
  ASSUME NEW q \in Int, NEW n \in Nat \ {0}, NEW r \in 0 .. n - 1
  PROVE  ((q * n) + r) \div n = q
<1> DEFINE a == (q * n) + r
           d == a \div n
<1>1. a \in Int /\ d \in Int /\ q * n \in Int
  BY DivMod
<1>2. a = (d * n) + (a % n) /\ a % n = r
  BY <1>1, DivMod, ModUnique
<1>3. d * n = q * n
  BY <1>1, <1>2
<1> HIDE DEF d, a
<1>4. d * n \in Int /\ ~(d * n < q * n) /\ ~(q * n < d * n)
  BY <1>1, <1>3
<1>5. CASE d < q
  <2>1. (q - d - 1) * n \in Nat
    BY <1>1, <1>5
  <2>2. (q - d - 1) * n = (q * n) - (d * n) - n
    BY <1>1
  <2> QED
    BY <2>1, <2>2, <1>3, <1>1
<1>6. CASE q < d
  <2>1. (d - q - 1) * n \in Nat
    BY <1>1, <1>6
  <2>2. (d - q - 1) * n = (d * n) - (q * n) - n
    BY <1>1
  <2> QED
    BY <2>1, <2>2, <1>3, <1>1
<1> QED
  BY <1>1, <1>5, <1>6 DEF d, a

\* A larger number has no smaller quotient.
LEMMA DivMono ==
  ASSUME NEW a \in Nat, NEW b \in Nat, NEW n \in Nat \ {0}, a <= b
  PROVE  a \div n <= b \div n
<1> DEFINE q == a \div n
           w == b \div n
<1>1. q \in Int /\ w \in Int /\ a = (q * n) + (a % n) /\ b = (w * n) + (b % n)
      /\ a % n \in 0 .. n - 1 /\ b % n \in 0 .. n - 1
  BY DivMod, ModRange
<1>2. q * n \in Int /\ w * n \in Int
  BY <1>1
<1> HIDE DEF q, w
<1>3. CASE w < q
  <2>1. (q - w - 1) * n \in Nat
    BY <1>1, <1>3
  <2>2. (q - w - 1) * n = (q * n) - (w * n) - n
    BY <1>1
  <2> QED
    BY <2>1, <2>2, <1>1, <1>2
<1> QED
  BY <1>1, <1>3 DEF q, w

-----------------------------------------------------------------------------
(* The invariant.                                                          *)

Reading == {"read", "rwait", "rwoken", "lookup", "again", "answer"}

\* The caller cannot have come far while the worker has not started, and what is
\* done with a mutex is done by its holder; but for the read mutex after a fault.
LockInv ==
  /\ worker \in {"start", "started"} => wlock = "caller"
  /\ worker \in {"lock", "round", "ended", "dead"} => wlock = "worker"
  /\ pc = "copy" => wlock = "caller" /\ worker \notin {"start", "started"}
  /\ worker = "start" =>
       rlock = "caller" /\ pc \notin {"rwait", "rwoken", "lookup", "again"}
  /\ pc = "lookup" => rlock = "caller" \/ faults > 0
  /\ pc = "again" => faults > 0
  /\ worker = "round" => rlock = "worker" \/ faults > 0
  /\ pc = "closed" => /\ worker = "none"
                      /\ \/ wlock = "none" /\ rlock = "none"
                         \/ wlock = "caller" /\ rlock = "caller" /\ faults > 0
  /\ dlock = "worker" \/ dangling => overtaken
  /\ dlock # "caller"
  /\ pc = "crash" => worker = "none"

\* Between two logs nothing is left, and of one that is being closed no block.
CloseInv ==
  /\ pc \in {"closed", "cancel", "join"} => wcache = <<>>
  /\ pc = "closed" => /\ size = 0 /\ told = 0 /\ current = 0 /\ wcache_blocks = 0
                      /\ ~cancelled /\ flushed = 0
  /\ pc # "closed" => log # 0
  /\ dangling => (worker = "round" /\ ~Using) \/ pc = "crash"

\* What the call's arguments are.
CallInv ==
  /\ pc \in {"append", "copy"} => told + len <= MaxLog /\ off <= told
  /\ pc = "append" => off = told
  /\ pc \in {"again", "answer"} => off \div BlockSize \in Ids

\* The blocks are consecutive, and full but for the last.
ListInv == Using =>
  /\ Len(wcache) = wcache_blocks
  /\ \A i \in DOMAIN wcache : wcache[i].id = i - 1
  /\ \A i \in DOMAIN wcache : i < Len(wcache) => wcache[i].size = BlockSize
  /\ told = IF wcache = <<>> THEN 0
            ELSE ((Len(wcache) - 1) * BlockSize) + wcache[Len(wcache)].size

\* The size is that of the log, or of what the round has come past.
SizeInv ==
  /\ worker = "round" => current \in Nat \ {0}
  /\ Using =>
       /\ worker \notin {"round", "dead"} => size = told
       /\ worker = "round" =>
            /\ current <= Len(wcache) + 1
            /\ size = IF current <= Len(wcache) THEN (current - 1) * BlockSize ELSE told

Place0(i, k) == ((i - 1) * BlockSize) + (k - 1)

\* A byte is in its place in the list, or in the part of an append that is not.
ByteInv == Using =>
  \A i \in DOMAIN wcache, k \in Place :
    LET p == Place0(i, k) IN
    /\ p < told => wcache[i].data[k] \in Written(log, p)
    /\ p >= told => wcache[i].data[k] = 0

\* Only places that were appended to are split.
SplitInv == \A t \in split : t[1] <= log /\ (Using /\ t[1] = log => t[2] < told)

Stands(i) == i - 1 \in Ids /\ device[i - 1] = wcache[i].data

\* The worker has written the blocks that its round has come past.
RoundInv == Using =>
  /\ worker = "round" => \A i \in DOMAIN wcache : i < current => Stands(i)
  /\ worker = "ended" => \A i \in DOMAIN wcache : Stands(i)

\* What a round has written is on the device, and stays there.
FlushInv == Using =>
  /\ flushed <= told
  /\ worker = "ended" => flushed = told
  /\ \A i \in DOMAIN wcache, k \in Place :
       Place0(i, k) < flushed => i - 1 \in Ids /\ device[i - 1][k] = wcache[i].data[k]

\* A byte is that of the place p in some log, or none, or was freed.
Fits(v, p) ==
  \/ v = 0
  \/ v = Freed /\ overtaken
  \/ \E l \in 1 .. log : (l = log /\ Using => p < told) /\ v \in Written(l, p)

DeviceInv == \A b \in Ids, k \in Place : Fits(device[b][k], (b * BlockSize) + (k - 1))

\* A byte that a read may deliver for the place p.
InPlace(v, p) ==
  \/ v \in Written(log, p)
  \/ p >= fresh /\ \/ v = 0
                   \/ \E l \in 1 .. log - 1 : v \in Written(l, p)
                   \/ v = Freed /\ overtaken
  \/ v = Garbage /\ p \div BlockSize > off \div BlockSize
  \/ v \in {0, Untouched} /\ faults > 0

BufInv == pc \in {"again", "answer"} => \A k \in DOMAIN buf : InPlace(buf[k], off + k - 1)

IInv == /\ TypeOK /\ LockInv /\ CloseInv /\ CallInv /\ ListInv /\ SizeInv
        /\ ByteInv /\ SplitInv /\ RoundInv /\ FlushInv /\ DeviceInv /\ BufInv

-----------------------------------------------------------------------------
\* The actions by what they touch.
LEMMA NextIs ==
  ASSUME Next
  PROVE  \/ Open \/ CallAppend \/ CallRead \/ FreeCaches
         \/ AppendLocks \/ AppendCopies \/ AppendReturns
         \/ ReadLocks \/ ReadWakes \/ ReadReturns \/ ReadAborts \/ ReadUnlocksAgain \/ Answered
         \/ Cancel \/ Join
         \/ StartUnlocksR \/ StartUnlocksW \/ Wait \/ Wakes \/ LocksR
         \/ Writes \/ WriteAborts \/ WritesFreed \/ RoundEnds \/ UnlocksW \/ Cancelled
         \/ OpenFails \/ AppendCrashes \/ ReadFails \/ ReadCrashes \/ WriteFails \/ Spurious
BY DEF Next, Caller, Worker, Environment

-----------------------------------------------------------------------------
(* Who holds the mutexes.                                                  *)

LEMMA LockFaults == ASSUME TypeOK, Fault PROVE faults' > 0 /\ faults \in Nat
BY DEF TypeOK, Fault

LEMMA LockStep ==
  ASSUME TypeOK, LockInv, Next
  PROVE  LockInv'
<1> USE DEF LockInv, cache, locks, call, thread, past
<1>1. CASE Open
  BY <1>1 DEF Open, Opening, TypeOK
<1>2. CASE CallAppend
  BY <1>2 DEF CallAppend, TypeOK
<1>3. CASE CallRead
  BY <1>3 DEF CallRead, TypeOK
<1>4. CASE FreeCaches
  BY <1>4 DEF FreeCaches, TypeOK
<1>5. CASE AppendLocks
  BY <1>5 DEF AppendLocks, TypeOK
<1>6. CASE AppendCopies
  BY <1>6 DEF AppendCopies, TypeOK
<1>7. CASE AppendReturns
  BY <1>7 DEF AppendReturns, Signalled, TypeOK
<1>8. CASE ReadLocks
  BY <1>8 DEF ReadLocks, Signalled, TypeOK
<1>9. CASE ReadWakes
  BY <1>9 DEF ReadWakes, TypeOK
<1>10. CASE ReadReturns
  BY <1>10 DEF ReadReturns, TypeOK
<1>11. CASE ReadUnlocksAgain
  BY <1>11 DEF ReadUnlocksAgain, TypeOK
<1>12. CASE Answered
  BY <1>12 DEF Answered, TypeOK
<1>13. CASE Cancel
  BY <1>13 DEF Cancel, TypeOK
<1>14. CASE Join
  BY <1>14 DEF Join, TypeOK
<1>15. CASE StartUnlocksR
  BY <1>15 DEF StartUnlocksR, TypeOK
<1>16. CASE StartUnlocksW
  BY <1>16 DEF StartUnlocksW, TypeOK
<1>17. CASE Wait
  BY <1>17 DEF Wait, TypeOK
<1>18. CASE Wakes
  BY <1>18 DEF Wakes, TypeOK
<1>19. CASE LocksR
  BY <1>19 DEF LocksR, TypeOK
<1>20. CASE Writes
  BY <1>20 DEF Writes, Writing, TypeOK
<1>21. CASE WriteAborts
  BY <1>21 DEF WriteAborts, Writing, Crash, TypeOK
<1>22. CASE WritesFreed
  <2>1. /\ worker = "round" /\ dangling /\ overtaken' = overtaken /\ overtaken
        /\ faults' = faults /\ wlock' = wlock /\ rlock' = rlock
    BY <1>22 DEF WritesFreed, Crash
  <2>2. CASE Crash
    BY <2>1, <2>2 DEF Crash, TypeOK
  <2>3. CASE worker' = "dead" /\ pc' = pc /\ dangling' = FALSE /\ dlock' \in {"none", "worker"}
    BY <2>1, <2>3 DEF TypeOK
  <2>4. CASE worker' = worker /\ pc' = pc /\ dlock' = dlock
    BY <2>1, <2>4 DEF TypeOK
  <2> QED
    BY <1>22, <2>2, <2>3, <2>4 DEF WritesFreed
<1>23. CASE RoundEnds
  BY <1>23 DEF RoundEnds, TypeOK
<1>24. CASE UnlocksW
  BY <1>24 DEF UnlocksW, TypeOK
<1>25. CASE Cancelled
  BY <1>25 DEF Cancelled, TypeOK
<1>26. CASE OpenFails
  BY <1>26, LockFaults DEF OpenFails, Opening, Fault, TypeOK
<1>27. CASE AppendCrashes
  BY <1>27, LockFaults DEF AppendCrashes, Crash, Fault, TypeOK
<1>28. CASE ReadFails
  BY <1>28, LockFaults DEF ReadFails, Fault, TypeOK
<1>29. CASE ReadCrashes
  BY <1>29, LockFaults DEF ReadCrashes, Crash, Fault, TypeOK
<1>30. CASE WriteFails
  BY <1>30, LockFaults DEF WriteFails, Writing, Fault, TypeOK
<1>31. CASE Spurious
  BY <1>31, LockFaults DEF Spurious, Fault, TypeOK
<1>32. CASE ReadAborts
  BY <1>32 DEF ReadAborts, Crash, TypeOK
<1> QED
  BY <1>1, <1>2, <1>3, <1>4, <1>5, <1>6, <1>7, <1>8, <1>9, <1>10, <1>11, <1>12, <1>13,
     <1>14, <1>15, <1>16, <1>17, <1>18, <1>19, <1>20, <1>21, <1>22, <1>23, <1>24, <1>25,
     <1>26, <1>27, <1>28, <1>29, <1>30, <1>31, <1>32, NextIs

-----------------------------------------------------------------------------
(* What a step can touch, and where it can go.                             *)

LEMMA Frames ==
  ASSUME TypeOK, Next
  PROVE  /\ AppendCopies \/ FreeCaches \/ wcache' = wcache
         /\ AppendCopies \/ Join \/ (told' = told /\ wcache_blocks' = wcache_blocks)
         /\ AppendCopies \/ split' = split
         /\ Open \/ log' = log
         /\ AppendCopies \/ LocksR \/ Writes \/ Join \/ size' = size
         /\ LocksR \/ Writes \/ UnlocksW \/ Join \/ current' = current
         /\ Writes \/ WritesFreed \/ device' = device
         /\ RoundEnds \/ Join \/ flushed' = flushed
         /\ ReadReturns \/ ReadFails \/ Answered \/ fresh' = fresh
         /\ FreeCaches \/ overtaken' = overtaken
         /\ ReadReturns \/ ReadFails \/ Answered \/ buf' = buf
         /\ FreeCaches \/ WritesFreed \/ dangling' = dangling
         /\ Cancel \/ Join \/ cancelled' = cancelled
         /\ \/ CallAppend \/ AppendCopies \/ AppendReturns \/ CallRead \/ Answered
            \/ off' = off /\ len' = len
         /\ ReadReturns \/ ReadUnlocksAgain \/ FreeCaches \/ rcache' = rcache
<1> USE DEF cache, locks, call, thread, past
<1> QED
  BY NextIs, ZenonT(60) DEF Open, Opening, CallAppend, CallRead, FreeCaches, AppendLocks, AppendCopies,
     AppendReturns, ReadLocks, ReadWakes, ReadReturns, ReadAborts, ReadUnlocksAgain, Answered,
     Cancel, Join, StartUnlocksR, StartUnlocksW, Wait, Wakes, LocksR, Writes,
     Writing, WriteAborts, WritesFreed, RoundEnds, UnlocksW, Cancelled, OpenFails,
     AppendCrashes, ReadFails, ReadCrashes, WriteFails, Spurious, Crash, Fault

LEMMA Moves ==
  ASSUME TypeOK, Next
  PROVE  /\ Using' => Open \/ Using
         /\ pc' \in {"closed", "cancel", "join"} =>
              FreeCaches \/ pc \in {"closed", "cancel", "join"}
         /\ pc' = "closed" => Join \/ pc = "closed"
         /\ pc = "closed" => Open \/ pc' = "closed" \/ worker # "none"
         /\ pc = "crash" => pc' = "crash"
         /\ pc' \in {"append", "copy"} => CallAppend \/ pc \in {"append", "copy"}
         /\ pc' = "append" => CallAppend \/ pc = "append"
         /\ pc' \in Reading => CallRead \/ pc \in Reading
         /\ WritesFreed => dangling /\ worker = "round" /\ (Using' => Using)
         /\ pc' \in {"again", "answer"} =>
              ReadReturns \/ ReadFails \/ (pc \in {"again", "answer"} /\ ~Answered)
         /\ worker' = "round" => LocksR \/ worker = "round"
         /\ worker' = "ended" => RoundEnds \/ worker = "ended"
         /\ worker \in {"round", "dead"} =>
              worker' \in {"round", "dead"} \/ RoundEnds \/ Open \/ ~Using'
<1> USE DEF cache, locks, call, thread, past
<1> QED
  BY NextIs, ZenonT(60) DEF Open, Opening, CallAppend, CallRead, FreeCaches, AppendLocks, AppendCopies,
     AppendReturns, ReadLocks, ReadWakes, ReadReturns, ReadAborts, ReadUnlocksAgain, Answered,
     Cancel, Join, StartUnlocksR, StartUnlocksW, Wait, Wakes, LocksR, Writes,
     Writing, WriteAborts, WritesFreed, RoundEnds, UnlocksW, Cancelled, OpenFails,
     AppendCrashes, ReadFails, ReadCrashes, WriteFails, Spurious, Crash, Fault,
     Signalled, Using, Reading

-----------------------------------------------------------------------------
(* Arithmetic.                                                             *)

LEMMA Sizes ==
  /\ BlockSize \in Nat \ {0} /\ DeviceBlocks \in Nat \ {0}
  /\ MaxLog \in Nat \ {0} /\ MaxLogs \in Nat \ {0}
  /\ Appends \subseteq Nat \ {0} /\ Reads \subseteq Nat \ {0}
  /\ MaxPast \in Nat /\ MaxFaults \in Nat
BY AltLogAssumption

\* A place of a block: its block and its place there.
LEMMA Places ==
  ASSUME NEW i \in Nat \ {0}, NEW k \in Place
  PROVE  /\ Place0(i, k) \in Nat
         /\ Place0(i, k) \div BlockSize = i - 1
         /\ (Place0(i, k) % BlockSize) + 1 = k
<1>1. i - 1 \in Nat /\ k - 1 \in 0 .. BlockSize - 1 /\ BlockSize \in Nat \ {0}
  BY Sizes DEF Place
<1>2. (i - 1) * BlockSize \in Nat
  BY <1>1
<1>3. ((i - 1) * BlockSize) + (k - 1) \in Nat
  BY <1>1, <1>2
<1>4. (((i - 1) * BlockSize) + (k - 1)) % BlockSize = k - 1
  <2> DEFINE r == k - 1
             q == i - 1
  <2>1. r \in 0 .. BlockSize - 1 /\ q \in Int /\ BlockSize \in Nat \ {0}
    BY <1>1
  <2> HIDE DEF r, q
  <2>2. ((q * BlockSize) + r) % BlockSize = r
    BY <2>1, ModUnique
  <2> QED
    BY <2>2 DEF r, q
<1>5. (((i - 1) * BlockSize) + (k - 1)) \div BlockSize = i - 1
  <2> DEFINE r == k - 1
             q == i - 1
  <2>1. r \in 0 .. BlockSize - 1 /\ q \in Int /\ BlockSize \in Nat \ {0}
    BY <1>1
  <2> HIDE DEF r, q
  <2>2. ((q * BlockSize) + r) \div BlockSize = q
    BY <2>1, DivUnique
  <2> QED
    BY <2>2 DEF r, q
<1>6. (k - 1) + 1 = k
  BY Sizes DEF Place
<1> QED
  BY <1>3, <1>4, <1>5, <1>6 DEF Place0

\* A block before another ends where the other begins, or before.
LEMMA BlocksInOrder ==
  ASSUME NEW i \in Nat, NEW j \in Nat, i < j
  PROVE  /\ (i - 1) * BlockSize \in Int /\ (j - 1) * BlockSize \in Int
         /\ i * BlockSize \in Nat
         /\ ((i - 1) * BlockSize) + BlockSize <= (j - 1) * BlockSize
         /\ ((i - 1) * BlockSize) + BlockSize = i * BlockSize
<1>1. (j - 1 - i) * BlockSize \in Nat
  BY Sizes
<1>2. (j - 1 - i) * BlockSize = ((j - 1) * BlockSize) - (i * BlockSize)
  BY Sizes
<1>3. ((i - 1) * BlockSize) + BlockSize = i * BlockSize
  BY Sizes
<1>4. (i - 1) * BlockSize \in Int /\ (j - 1) * BlockSize \in Int /\ i * BlockSize \in Nat
  BY Sizes
<1> QED
  BY <1>1, <1>2, <1>3, <1>4, Sizes

\* The bytes of the logs are bytes.
LEMMA ByteInBytes ==
  ASSUME NEW l \in 0 .. MaxLogs, NEW p \in 0 .. MaxLog - 1
  PROVE  Byte(l, p) \in Bytes
<1>1. (MaxLogs - l) * MaxLog \in Nat /\ l * MaxLog \in Nat /\ MaxLogs * MaxLog \in Nat
  BY Sizes
<1>2. (MaxLogs - l) * MaxLog = (MaxLogs * MaxLog) - (l * MaxLog)
  BY Sizes
<1>3. (MaxLogs + 1) * MaxLog = (MaxLogs * MaxLog) + MaxLog
  BY Sizes
<1> DEFINE x == l * MaxLog
           y == MaxLogs * MaxLog
           z == (MaxLogs + 1) * MaxLog
<1>4. x \in Nat /\ y \in Nat /\ y - x \in Nat /\ z = y + MaxLog /\ MaxLog \in Nat
  BY <1>1, <1>2, <1>3, Sizes
<1> HIDE DEF x, y, z
<1>5. x + p + 1 \in 0 .. z
  BY <1>4
<1> QED
  BY <1>5 DEF Byte, Bytes, x, z

LEMMA ZeroInBytes == {0, Garbage, Untouched, Freed} \subseteq Bytes
<1>1. (MaxLogs + 1) * MaxLog \in Nat
  BY Sizes
<1> QED
  BY <1>1 DEF Bytes

\* The list and its blocks.
LEMMA BlockIs ==
  ASSUME TypeOK
  PROVE  /\ Len(wcache) \in Nat /\ DOMAIN wcache = 1 .. Len(wcache)
         /\ (wcache = <<>>) = (Len(wcache) = 0)
         /\ \A i \in DOMAIN wcache :
              /\ wcache[i] \in [id : Nat, data : [Place -> Bytes], size : 1 .. BlockSize]
              /\ wcache[i].id \in Nat /\ wcache[i].data \in [Place -> Bytes]
              /\ wcache[i].size \in 1 .. BlockSize
<1>1. wcache \in Seq([id : Nat, data : [Place -> Bytes], size : 1 .. BlockSize])
  BY DEF TypeOK
<1> DEFINE B == [id : Nat, data : [Place -> Bytes], size : 1 .. BlockSize]
<1>2. \A b \in B : b.id \in Nat /\ b.data \in [Place -> Bytes] /\ b.size \in 1 .. BlockSize
  OBVIOUS
<1>3. wcache \in Seq(B)
  BY <1>1
<1> HIDE DEF B
<1>4. /\ Len(wcache) \in Nat /\ DOMAIN wcache = 1 .. Len(wcache)
      /\ \A i \in DOMAIN wcache : wcache[i] \in B
  BY <1>3
<1>5. (wcache = <<>>) <=> (Len(wcache) = 0)
  BY <1>3
<1>6. (wcache = <<>>) = (Len(wcache) = 0)
  BY <1>5
<1> QED
  BY <1>2, <1>4, <1>6 DEF B

-----------------------------------------------------------------------------
(* A round of logfs_append: what it appends to, and where.                 *)

\* What is left of the last block.
LEMMA RoomIs ==
  ASSUME NEW n \in Nat, NEW s \in 1 .. BlockSize, NEW t \in Nat,
         n = 0 => t = 0,
         n # 0 => t = ((n - 1) * BlockSize) + s
  PROVE  LET room == BlockSize - (t % BlockSize) IN
         /\ room \in 1 .. BlockSize
         /\ room = BlockSize => t = n * BlockSize /\ (n # 0 => s = BlockSize)
         /\ room # BlockSize => n # 0 /\ s < BlockSize /\ room = BlockSize - s
<1> DEFINE m == t % BlockSize
<1>1. m \in 0 .. BlockSize - 1 /\ BlockSize \in Nat \ {0}
  BY ModRange, Sizes
<1>2. CASE n = 0
  <2>1. m = 0
    BY <1>2, <1>1, ModSmall
  <2> HIDE DEF m
  <2>2. n * BlockSize = 0
    BY <1>2, Sizes
  <2> QED
    BY <2>1, <2>2, <1>1, <1>2 DEF m
<1>3. CASE n # 0 /\ s = BlockSize
  <2> DEFINE q == n
             r == 0
  <2>1. q \in Int /\ r \in 0 .. BlockSize - 1
    BY <1>1
  <2>2. ((q * BlockSize) + r) % BlockSize = r
    BY <2>1, <1>1, ModUnique
  <2>3. t = (n * BlockSize) + 0 /\ n * BlockSize \in Nat
    BY <1>3, BlocksInOrder, Sizes
  <2>4. m = 0
    BY <2>2, <2>3
  <2> HIDE DEF m
  <2> QED
    BY <2>3, <2>4, <1>1, <1>3 DEF m
<1>4. CASE n # 0 /\ s < BlockSize
  <2> DEFINE q == n - 1
  <2>1. q \in Int /\ s \in 0 .. BlockSize - 1
    BY <1>1, <1>4
  <2> HIDE DEF q
  <2>2. ((q * BlockSize) + s) % BlockSize = s
    BY <2>1, <1>1, ModUnique
  <2>3. m = s
    BY <2>2, <1>4 DEF q
  <2> HIDE DEF m
  <2> QED
    BY <2>3, <1>1, <1>4 DEF m
<1> QED
  BY <1>2, <1>3, <1>4, <1>1

\* The worker is not in a round while the caller copies.
LEMMA CopyAlone ==
  ASSUME TypeOK, LockInv, CallInv, ListInv, SizeInv, CloseInv, AppendCopies
  PROVE  /\ Using /\ wlock = "caller" /\ worker \notin {"round", "ended", "dead", "lock"}
         /\ size = told /\ log # 0 /\ ~dangling
         /\ told + len <= MaxLog /\ off <= told /\ len > 0 /\ len \in Nat /\ told \in Nat
BY DEF TypeOK, LockInv, CallInv, SizeInv, CloseInv, AppendCopies, Using

LEMMA CopyRoom ==
  ASSUME TypeOK, LockInv, CallInv, ListInv, SizeInv, CloseInv, AppendCopies
  PROVE  /\ Len(wcache) \in Nat
         /\ CopySize \in 1 .. BlockSize /\ CopySize <= len
         /\ NeedsNew => /\ told = Len(wcache) * BlockSize /\ told % BlockSize = 0
                        /\ Len(wcache) # 0 => wcache[Len(wcache)].size = BlockSize
         /\ ~NeedsNew => /\ Len(wcache) # 0
                         /\ wcache[Len(wcache)].size \in 1 .. BlockSize - 1
                         /\ CopySize <= BlockSize - wcache[Len(wcache)].size
                         /\ told = ((Len(wcache) - 1) * BlockSize) + wcache[Len(wcache)].size
<1> DEFINE n == Len(wcache)
           s == IF n = 0 THEN 1 ELSE wcache[n].size
<1>1. n \in Nat /\ told \in Nat /\ len \in Nat \ {0} /\ size = told /\ Using
  BY CopyAlone DEF TypeOK
<1>2. s \in 1 .. BlockSize
  BY <1>1, BlockIs, Sizes
<1>3. /\ n = 0 => told = 0
      /\ n # 0 => told = ((n - 1) * BlockSize) + s
  BY <1>1, BlockIs DEF ListInv
<1>4. /\ Room \in 1 .. BlockSize
      /\ Room = BlockSize => told = n * BlockSize /\ (n # 0 => s = BlockSize)
      /\ Room # BlockSize => n # 0 /\ s < BlockSize /\ Room = BlockSize - s
  <2> HIDE DEF n, s
  <2> QED
    BY <1>1, <1>2, <1>3, RoomIs DEF Room
<1> DEFINE m == told % BlockSize
<1>5. m \in 0 .. BlockSize - 1 /\ Room = BlockSize - m
  BY <1>1, ModRange, Sizes DEF Room
<1> HIDE DEF m
<1>6. NeedsNew => m = 0
  <2>1. BlockSize \in Nat \ {0}
    BY Sizes
  <2> QED
    BY <1>5, <2>1 DEF NeedsNew
<1>7. CopySize \in 1 .. BlockSize /\ CopySize <= len /\ CopySize <= Room
  BY <1>1, <1>4, Sizes DEF CopySize
<1>8. NeedsNew => told = n * BlockSize /\ (n # 0 => wcache[n].size = BlockSize)
  BY <1>4 DEF NeedsNew
<1>9. ~NeedsNew => /\ n # 0 /\ s < BlockSize /\ Room = BlockSize - s /\ s = wcache[n].size
                   /\ told = ((n - 1) * BlockSize) + wcache[n].size
  BY <1>3, <1>4 DEF NeedsNew
<1>10. ~NeedsNew => s \in 1 .. BlockSize - 1
  <2> HIDE DEF s
  <2> QED
    BY <1>2, <1>9, Sizes
<1> HIDE DEF n, s
<1>11. ~NeedsNew => /\ n # 0 /\ wcache[n].size \in 1 .. BlockSize - 1
                    /\ CopySize <= BlockSize - wcache[n].size
                    /\ told = ((n - 1) * BlockSize) + wcache[n].size
  BY <1>7, <1>9, <1>10
<1> QED
  BY <1>1, <1>6, <1>7, <1>8, <1>11 DEF n, m

\* What a round makes of the bytes of a block of which s are filled.
Stored(d, s) == [k \in Place |-> IF k - s \in 1 .. CopySize
                                 THEN Byte(log, off + k - s - 1) ELSE d[k]]

LEMMA CopiedIs ==
  ASSUME NEW b, NEW i, NEW d, NEW s \in 0 .. BlockSize - 1,
         b = [id |-> i, data |-> d, size |-> s]
  PROVE  Copied(b) = [id |-> i, data |-> Stored(d, s), size |-> s + CopySize]
<1>1. s % BlockSize = s
  BY ModSmall, Sizes
<1>2. b.id = i /\ b.data = d /\ b.size = s
  OBVIOUS
<1> QED
  BY <1>1, <1>2, Zenon DEF Copied, Stored

\* The block that a round fills, and its place in the list that the round leaves.
Filling == IF NeedsNew THEN NewBlock ELSE wcache[Len(wcache)]
Nth     == IF NeedsNew THEN Len(wcache) + 1 ELSE Len(wcache)

LEMMA FillingIs ==
  ASSUME TypeOK, LockInv, CallInv, ListInv, SizeInv, CloseInv, AppendCopies
  PROVE  /\ Nth \in Nat \ {0} /\ (~NeedsNew => Nth \in DOMAIN wcache)
         /\ 1 .. Nth - 1 \subseteq DOMAIN wcache /\ DOMAIN wcache \subseteq 1 .. Nth
         /\ \A i \in 1 .. Nth - 1 : wcache[i].size = BlockSize
         /\ Filling = [id |-> Nth - 1, data |-> Filling.data, size |-> Filling.size]
         /\ Filling.data \in [Place -> Bytes]
         /\ Filling.size \in 0 .. BlockSize - 1 /\ CopySize \in 1 .. BlockSize - Filling.size
         /\ (Nth - 1) * BlockSize \in Nat
         /\ told = ((Nth - 1) * BlockSize) + Filling.size
<1>1. /\ Using /\ told \in Nat /\ CopySize \in 1 .. BlockSize
      /\ \A i \in DOMAIN wcache : wcache[i].id = i - 1
      /\ \A i \in DOMAIN wcache : i < Len(wcache) => wcache[i].size = BlockSize
      /\ Len(wcache) = wcache_blocks /\ wcache_blocks \in Nat
      /\ Len(wcache) \in Nat /\ DOMAIN wcache = 1 .. Len(wcache)
  BY CopyAlone, CopyRoom, BlockIs DEF ListInv
<1>2. CASE NeedsNew
  <2> DEFINE n == Len(wcache)
  <2>1. Nth = n + 1 /\ Filling = NewBlock /\ n \in Nat /\ n = wcache_blocks
    BY <1>1, <1>2 DEF Nth, Filling
  <2>2. Filling = [id |-> n, data |-> Zeros, size |-> 0]
    BY <2>1 DEF NewBlock
  <2>3. Filling.data = Zeros /\ Filling.size = 0
    BY <2>2
  <2>4. Zeros \in [Place -> Bytes]
    BY ZeroInBytes DEF Zeros
  <2>5. told = n * BlockSize /\ (n # 0 => wcache[n].size = BlockSize)
    BY <1>2, CopyRoom
  <2>6. \A i \in 1 .. n : wcache[i].size = BlockSize
    BY <1>1, <2>5
  <2>7. Nth - 1 = n
    BY <2>1
  <2> HIDE DEF n
  <2>8. 1 .. Nth - 1 \subseteq DOMAIN wcache /\ DOMAIN wcache \subseteq 1 .. Nth
    BY <1>1, <2>1 DEF n
  <2>9. Filling.size \in 0 .. BlockSize - 1 /\ CopySize \in 1 .. BlockSize - Filling.size
    BY <2>3, <1>1, Sizes
  <2>10. told = (n * BlockSize) + Filling.size /\ n * BlockSize \in Nat
    BY <2>3, <2>5, <1>1
  <2> QED
    BY <1>2, <2>1, <2>2, <2>3, <2>4, <2>6, <2>7, <2>8, <2>9, <2>10
<1>3. CASE ~NeedsNew
  <2> DEFINE n == Len(wcache)
  <2>1. /\ Nth = n /\ Filling = wcache[n] /\ n \in Nat \ {0} /\ n \in DOMAIN wcache
        /\ wcache[n].size \in 1 .. BlockSize - 1
        /\ CopySize <= BlockSize - wcache[n].size
        /\ told = ((n - 1) * BlockSize) + wcache[n].size
    BY <1>1, <1>3, CopyRoom DEF Nth, Filling
  <2>2. /\ wcache[n] \in [id : Nat, data : [Place -> Bytes], size : 1 .. BlockSize]
        /\ wcache[n].id = n - 1
    BY <1>1, <2>1, BlockIs
  <2>3. \A i \in 1 .. n - 1 : wcache[i].size = BlockSize
    BY <1>1
  <2>4. 1 .. n - 1 \subseteq DOMAIN wcache /\ DOMAIN wcache \subseteq 1 .. n
    BY <1>1
  <2> HIDE DEF n
  <2>5. Filling = [id |-> n - 1, data |-> Filling.data, size |-> Filling.size]
        /\ Filling.data \in [Place -> Bytes]
    BY <2>1, <2>2
  <2>6. (n - 1) * BlockSize \in Nat
    BY <2>1, Sizes
  <2>7. Filling.size \in 0 .. BlockSize - 1 /\ CopySize \in 1 .. BlockSize - Filling.size
    BY <2>1, <1>1, Sizes
  <2> QED
    BY <1>3, <2>1, <2>3, <2>4, <2>5, <2>6, <2>7
<1> QED
  BY <1>2, <1>3

LEMMA CopyFills ==
  ASSUME TypeOK, LockInv, CallInv, ListInv, SizeInv, CloseInv, AppendCopies
  PROVE  /\ Len(wcache') = Nth /\ DOMAIN wcache' = 1 .. Nth
         /\ \A i \in 1 .. Nth - 1 : wcache'[i] = wcache[i]
         /\ wcache'[Nth] = [id |-> Nth - 1, data |-> Stored(Filling.data, Filling.size),
                            size |-> Filling.size + CopySize]
<1>1. wcache' = IF NeedsNew THEN Append(wcache, Copied(NewBlock))
                            ELSE [wcache EXCEPT ![Len(wcache)] = Copied(@)]
  BY DEF AppendCopies
<1>2. Copied(Filling) = [id |-> Nth - 1, data |-> Stored(Filling.data, Filling.size),
                         size |-> Filling.size + CopySize]
  BY FillingIs, CopiedIs
<1>3. wcache \in Seq([id : Nat, data : [Place -> Bytes], size : 1 .. BlockSize])
  BY DEF TypeOK
<1> DEFINE c == Copied(Filling)
<1>4. wcache' = IF NeedsNew THEN Append(wcache, c) ELSE [wcache EXCEPT ![Len(wcache)] = c]
  BY <1>1 DEF Filling
<1> HIDE DEF c
<1>5. Len(wcache') = Nth /\ DOMAIN wcache' = 1 .. Nth /\ wcache'[Nth] = c
      /\ \A i \in 1 .. Nth - 1 : wcache'[i] = wcache[i]
  <2>1. CASE NeedsNew
    BY <1>3, <1>4, <2>1 DEF Nth
  <2>2. CASE ~NeedsNew
    <3> DEFINE n == Len(wcache)
    <3>1. wcache' = [wcache EXCEPT ![n] = c]
      BY <1>4, <2>2
    <3>2. Nth = n
      BY <2>2 DEF Nth
    <3>3. n \in DOMAIN wcache /\ n \in Nat
      BY <2>2, <3>2, FillingIs
    <3>4. Len(wcache') = n
      BY <1>3, <3>1
    <3> HIDE DEF n
    <3>5. DOMAIN wcache' = 1 .. n
      BY <1>3, <3>1, <3>4
    <3>6. wcache'[n] = c /\ \A i \in DOMAIN wcache : i # n => wcache'[i] = wcache[i]
      BY <1>3, <3>1, <3>3
    <3> QED
      BY <3>2, <3>3, <3>4, <3>5, <3>6, FillingIs
  <2> QED
    BY <2>1, <2>2
<1> QED
  BY <1>2, <1>5 DEF c

-----------------------------------------------------------------------------
(* Each part is kept by every step.                                        *)

LEMMA CopyUses ==
  ASSUME IInv, AppendCopies
  PROVE  /\ TypeOK /\ LockInv /\ CallInv /\ ListInv /\ SizeInv /\ CloseInv /\ ByteInv
         /\ Using /\ wlock = "caller" /\ worker \notin {"round", "ended", "dead", "lock"}
         /\ size = told /\ log # 0 /\ ~dangling
         /\ told + len <= MaxLog /\ off <= told /\ len > 0 /\ len \in Nat /\ told \in Nat
         /\ told' = told + CopySize /\ size' = size + CopySize /\ len' = len - CopySize
         /\ wcache_blocks' = wcache_blocks + (IF NeedsNew THEN 1 ELSE 0)
         /\ pc' = pc /\ pc = "copy" /\ worker' = worker /\ off' = off /\ log' = log
         /\ current' = current /\ Using'
         /\ split' = IF told = off THEN split
                     ELSE split \cup {<<log, p, off + (p - told)>> : p \in told .. told + CopySize - 1}
<1>1. TypeOK /\ LockInv /\ CallInv /\ ListInv /\ SizeInv /\ CloseInv /\ ByteInv
  BY DEF IInv
<1>2. /\ told' = told + CopySize /\ size' = size + CopySize /\ len' = len - CopySize
      /\ wcache_blocks' = wcache_blocks + (IF NeedsNew THEN 1 ELSE 0)
      /\ pc' = pc /\ pc = "copy" /\ worker' = worker /\ off' = off /\ log' = log
      /\ current' = current
      /\ split' = IF told = off THEN split
                  ELSE split \cup {<<log, p, off + (p - told)>> : p \in told .. told + CopySize - 1}
  BY DEF AppendCopies, thread
<1>3. Using'
  BY <1>2 DEF Using
<1>4. /\ Using /\ wlock = "caller" /\ worker \notin {"round", "ended", "dead", "lock"}
      /\ size = told /\ log # 0 /\ ~dangling
      /\ told + len <= MaxLog /\ off <= told /\ len > 0 /\ len \in Nat /\ told \in Nat
  BY <1>1, CopyAlone
<1> QED
  BY <1>1, <1>2, <1>3, <1>4, Zenon

\* The worker writes a block that is in the list, in its place, of a log in use.
LEMMA WriteUses ==
  ASSUME IInv, Writes
  PROVE  /\ Using /\ worker = "round" /\ current \in DOMAIN wcache /\ current \in Nat \ {0}
         /\ wcache[current].id = current - 1 /\ current - 1 \in Ids
         /\ wcache[current].data \in [Place -> Bytes]
         /\ wcache[current].size \in 1 .. BlockSize
         /\ device' = [device EXCEPT ![current - 1] = wcache[current].data]
         /\ size' = size + wcache[current].size /\ current' = current + 1
         /\ wcache' = wcache /\ wcache_blocks' = wcache_blocks
         /\ told' = told /\ log' = log /\ split' = split
         /\ worker' = worker /\ pc' = pc /\ (Using' <=> Using)
<1>1. /\ worker = "round" /\ ~dangling /\ current <= Len(wcache)
      /\ wcache[current].id \in Ids
      /\ device' = [device EXCEPT ![wcache[current].id] = wcache[current].data]
      /\ size' = size + wcache[current].size /\ current' = current + 1
      /\ wcache' = wcache /\ wcache_blocks' = wcache_blocks
      /\ told' = told /\ log' = log /\ split' = split /\ worker' = worker /\ pc' = pc
  BY DEF Writes, Writing, call, past
<1>2. current \in Nat \ {0} /\ Len(wcache) \in Nat /\ DOMAIN wcache = 1 .. Len(wcache)
  BY <1>1, BlockIs DEF IInv, SizeInv
<1>3. current \in DOMAIN wcache /\ wcache # <<>>
  BY <1>1, <1>2
<1>4. Using
  BY <1>1, <1>3 DEF IInv, LockInv, CloseInv, Using
<1>5. wcache[current].id = current - 1
  BY <1>3, <1>4 DEF IInv, ListInv
<1>6. wcache[current].data \in [Place -> Bytes] /\ wcache[current].size \in 1 .. BlockSize
  BY <1>3, BlockIs DEF IInv
<1>7. Using' <=> Using
  BY <1>1 DEF Using
<1> QED
  BY <1>1, <1>2, <1>3, <1>4, <1>5, <1>6, <1>7

LEMMA OpenUses ==
  ASSUME IInv, Open
  PROVE  /\ wcache = <<>> /\ size = 0 /\ told = 0 /\ current = 0 /\ wcache_blocks = 0
         /\ wcache' = <<>> /\ size' = 0 /\ told' = 0 /\ current' = 0 /\ wcache_blocks' = 0
         /\ worker' = "start" /\ pc' = "idle" /\ log' = log + 1 /\ log < MaxLogs
         /\ ~dangling /\ ~cancelled /\ dangling' = dangling /\ cancelled' = cancelled
         /\ Using' /\ ~Using /\ flushed' = 0 /\ split' = split
<1>1. /\ pc = "closed" /\ log < MaxLogs
      /\ wcache' = wcache /\ size' = size /\ told' = told /\ current' = current
      /\ wcache_blocks' = wcache_blocks /\ dangling' = dangling /\ cancelled' = cancelled
      /\ worker' = "start" /\ pc' = "idle" /\ log' = log + 1
      /\ flushed' = flushed /\ split' = split
  BY DEF Open, Opening, cache
<1>2. /\ wcache = <<>> /\ size = 0 /\ told = 0 /\ current = 0 /\ wcache_blocks = 0
      /\ ~dangling /\ ~cancelled /\ flushed = 0
  BY <1>1 DEF IInv, CloseInv, LockInv
<1> QED
  BY <1>1, <1>2 DEF Using

LEMMA CloseStep ==
  ASSUME IInv, Next
  PROVE  CloseInv'
<1>1. TypeOK /\ LockInv /\ CloseInv /\ LockInv'
  BY LockStep DEF IInv
<1>2. pc' \in {"closed", "cancel", "join"} => wcache' = <<>>
  <2>1. CASE FreeCaches
    BY <2>1 DEF FreeCaches
  <2>2. CASE AppendCopies
    BY <2>2 DEF AppendCopies
  <2> QED
    BY <1>1, <2>1, <2>2, Frames, Moves DEF CloseInv
<1>3. pc' = "closed" => /\ size' = 0 /\ told' = 0 /\ current' = 0 /\ wcache_blocks' = 0
                        /\ ~cancelled' /\ flushed' = 0
  <2>1. CASE Join
    BY <2>1 DEF Join
  <2>2. CASE pc = "closed" /\ pc' = "closed" /\ ~Join
    <3>1. ~AppendCopies /\ ~LocksR /\ ~Writes /\ ~UnlocksW /\ ~Cancel /\ ~RoundEnds
      BY <1>1, <2>2 DEF AppendCopies, LocksR, Writes, Writing, UnlocksW, Cancel, RoundEnds, LockInv
    <3> QED
      BY <1>1, <2>2, <3>1, Frames DEF CloseInv
  <2> QED
    BY <1>1, <2>1, <2>2, Moves
<1>4. pc' # "closed" => log' # 0
  <2>1. CASE Open
    BY <1>1, <2>1 DEF Open, TypeOK
  <2> QED
    BY <1>1, <2>1, Frames, Moves DEF CloseInv, LockInv
<1>5. dangling' => (worker' = "round" /\ ~Using') \/ pc' = "crash"
  <2> USE DEF cache, locks, call, thread, past
  <2>1. CASE FreeCaches
    BY <2>1 DEF FreeCaches, Using
  <2>2. CASE WritesFreed
    <3>1. worker = "round" /\ dangling /\ ~Using /\ pc # "crash"
      BY <1>1, <2>2 DEF WritesFreed, CloseInv, LockInv
    <3>2. pc' = "crash" \/ (pc' = pc /\ (dangling' = FALSE \/ worker' = worker))
      BY <2>2 DEF WritesFreed, Crash
    <3> QED
      BY <3>1, <3>2 DEF Using
  <2>3. CASE ~FreeCaches /\ ~WritesFreed /\ worker = "round" /\ dangling
    BY <1>1, <2>3, NextIs DEF Open, Opening, CallAppend, CallRead, AppendLocks,
       AppendCopies, AppendReturns, ReadLocks, ReadWakes, ReadReturns, ReadAborts, ReadUnlocksAgain,
       Answered, Cancel, Join, StartUnlocksR, StartUnlocksW, Wait, Wakes, LocksR, Writes,
       Writing, WriteAborts, RoundEnds, UnlocksW, Cancelled, OpenFails,
       AppendCrashes, ReadFails, ReadCrashes, WriteFails, Spurious, Crash, Fault,
       Signalled, Using, CloseInv, LockInv
  <2> QED
    BY <1>1, <2>1, <2>2, <2>3, Frames, Moves DEF CloseInv
<1> QED
  BY <1>2, <1>3, <1>4, <1>5 DEF CloseInv

LEMMA CallStep ==
  ASSUME IInv, Next
  PROVE  CallInv'
<1>1. TypeOK /\ LockInv /\ CallInv
  BY DEF IInv
<1>2. pc' \in {"append", "copy"} => told' + len' <= MaxLog /\ off' <= told'
  <2>1. CASE AppendCopies
    <3>1. CopySize \in 1 .. BlockSize
      BY <2>1, <1>1, CopyRoom DEF IInv
    <3>2. /\ told' = told + CopySize /\ len' = len - CopySize /\ off' = off
          /\ told + len <= MaxLog /\ off <= told /\ len \in Nat /\ told \in Nat
      BY <2>1, CopyUses
    <3>3. off \in Nat /\ MaxLog \in Nat
      BY <1>1, Sizes DEF TypeOK
    <3> QED
      BY <3>1, <3>2, <3>3, Sizes
  <2>2. CASE CallAppend
    BY <1>1, <2>2, Sizes DEF CallAppend, TypeOK, past
  <2>3. CASE /\ ~AppendCopies /\ ~CallAppend
             /\ pc \in {"append", "copy"} /\ pc' \in {"append", "copy"}
    <3>1. ~Join /\ ~CallRead /\ ~Answered /\ ~AppendReturns
      BY <2>3 DEF Join, CallRead, Answered, AppendReturns
    <3> QED
      BY <1>1, <2>3, <3>1, Frames DEF CallInv
  <2> QED
    BY <1>1, <2>1, <2>2, <2>3, Moves
<1>3. pc' = "append" => off' = told'
  <2>1. CASE CallAppend
    BY <2>1 DEF CallAppend, past
  <2>2. CASE pc = "append" /\ pc' = "append"
    <3>1. ~AppendCopies /\ ~Join /\ ~CallRead /\ ~Answered /\ ~AppendReturns /\ ~CallAppend
      BY <2>2 DEF AppendCopies, Join, CallRead, Answered, AppendReturns, CallAppend
    <3> QED
      BY <1>1, <2>2, <3>1, Frames DEF CallInv
  <2> QED
    BY <1>1, <2>1, <2>2, Moves
<1>4. pc' \in {"again", "answer"} => off' \div BlockSize \in Ids
  <2>1. CASE ReadReturns
    BY <2>1 DEF ReadReturns, Block
  <2>2. CASE ReadFails
    BY <2>2 DEF ReadFails, Block
  <2>3. CASE pc \in {"again", "answer"} /\ pc' \in {"again", "answer"} /\ ~Answered
    <3>1. ~AppendCopies /\ ~CallRead /\ ~AppendReturns /\ ~CallAppend
      BY <2>3 DEF AppendCopies, CallRead, AppendReturns, CallAppend
    <3>2. off' = off
      BY <1>1, <2>3, <3>1, Frames
    <3> QED
      BY <1>1, <2>3, <3>2 DEF CallInv
  <2> QED
    BY <1>1, <2>1, <2>2, <2>3, Moves
<1> QED
  BY <1>2, <1>3, <1>4 DEF CallInv

\* The lists that are not touched are the same.
LEMMA ListStays ==
  ASSUME IInv, Next, Using', ~Open, ~AppendCopies
  PROVE  /\ Using /\ wcache' = wcache /\ wcache_blocks' = wcache_blocks
         /\ told' = told /\ log' = log /\ split' = split
<1>1. ~FreeCaches /\ ~Join
  BY DEF FreeCaches, Join, Using
<1> QED
  BY <1>1, Frames, Moves DEF IInv

LEMMA ListStep ==
  ASSUME IInv, Next
  PROVE  ListInv'
<1>1. SUFFICES ASSUME Using'
      PROVE /\ Len(wcache') = wcache_blocks'
            /\ \A i \in DOMAIN wcache' : wcache'[i].id = i - 1
            /\ \A i \in DOMAIN wcache' : i < Len(wcache') => wcache'[i].size = BlockSize
            /\ told' = IF wcache' = <<>> THEN 0
                       ELSE ((Len(wcache') - 1) * BlockSize) + wcache'[Len(wcache')].size
  BY DEF ListInv
<1>2. CASE Open
  BY <1>2, OpenUses
<1>3. CASE AppendCopies
  <2>1. /\ TypeOK /\ LockInv /\ CallInv /\ ListInv /\ SizeInv /\ CloseInv /\ Using
        /\ told' = told + CopySize
        /\ wcache_blocks' = wcache_blocks + (IF NeedsNew THEN 1 ELSE 0)
    BY <1>3, CopyUses
  <2>2. /\ Len(wcache') = Nth /\ DOMAIN wcache' = 1 .. Nth
        /\ \A i \in 1 .. Nth - 1 : wcache'[i] = wcache[i]
        /\ wcache'[Nth] = [id |-> Nth - 1, data |-> Stored(Filling.data, Filling.size),
                           size |-> Filling.size + CopySize]
    BY <1>3, <2>1, CopyFills
  <2>3. /\ Nth \in Nat \ {0} /\ 1 .. Nth - 1 \subseteq DOMAIN wcache
        /\ \A i \in 1 .. Nth - 1 : wcache[i].size = BlockSize
        /\ Filling.size \in 0 .. BlockSize - 1 /\ CopySize \in 1 .. BlockSize - Filling.size
        /\ (Nth - 1) * BlockSize \in Nat
        /\ told = ((Nth - 1) * BlockSize) + Filling.size
    BY <1>3, <2>1, FillingIs
  <2>4. Nth = wcache_blocks'
    BY <2>1, BlockIs DEF ListInv, Nth
  <2>5. wcache'[Nth].id = Nth - 1 /\ wcache'[Nth].size = Filling.size + CopySize
    BY <2>2
  <2>6. \A i \in DOMAIN wcache' : wcache'[i].id = i - 1
    <3>1. \A i \in 1 .. Nth - 1 : wcache'[i].id = i - 1
      BY <2>1, <2>2, <2>3 DEF ListInv
    <3> QED
      BY <3>1, <2>2, <2>3, <2>5
  <2>7. \A i \in DOMAIN wcache' : i < Len(wcache') => wcache'[i].size = BlockSize
    BY <2>2, <2>3
  <2> DEFINE x == (Nth - 1) * BlockSize
  <2>8. told' = x + (Filling.size + CopySize)
    <3>1. x \in Nat /\ told = x + Filling.size
      BY <2>3
    <3> HIDE DEF x
    <3> QED
      BY <3>1, <2>1, <2>3, Sizes
  <2>9. wcache' # <<>>
    BY <2>2, <2>3
  <2> QED
    BY <2>2, <2>4, <2>5, <2>6, <2>7, <2>8, <2>9
<1>4. CASE ~Open /\ ~AppendCopies
  BY <1>1, <1>4, ListStays DEF IInv, ListInv
<1> QED
  BY <1>2, <1>3, <1>4

LEMMA SizeStep ==
  ASSUME IInv, Next
  PROVE  SizeInv'
<1>1. TypeOK /\ LockInv /\ ListInv /\ SizeInv /\ LockInv'
  BY LockStep DEF IInv
<1>2. worker' = "round" => current' \in Nat \ {0}
  <2>1. CASE LocksR
    BY <2>1 DEF LocksR
  <2>2. CASE Writes
    BY <2>2, WriteUses
  <2>3. CASE worker = "round" /\ worker' = "round" /\ ~LocksR /\ ~Writes
    <3>1. ~UnlocksW /\ ~Join
      BY <2>3 DEF UnlocksW, Join
    <3> QED
      BY <1>1, <2>3, <3>1, Frames DEF SizeInv
  <2> QED
    BY <1>1, <2>1, <2>2, <2>3, Moves
<1>3. Using' =>
        /\ worker' \notin {"round", "dead"} => size' = told'
        /\ worker' = "round" =>
             /\ current' <= Len(wcache') + 1
             /\ size' = IF current' <= Len(wcache') THEN (current' - 1) * BlockSize ELSE told'
  <2>1. CASE Open
    BY <2>1, OpenUses
  <2>2. CASE AppendCopies
    BY <2>2, CopyUses
  <2>3. CASE Using' /\ LocksR
    <3>1. worker' = "round" /\ current' = 1 /\ size' = 0 /\ ~Open /\ ~AppendCopies
      BY <1>1, <2>3 DEF LocksR, Open, Opening, AppendCopies, LockInv
    <3>2. Using /\ wcache' = wcache /\ told' = told
      BY <2>3, <3>1, ListStays
    <3>3. Len(wcache) \in Nat /\ (wcache = <<>>) = (Len(wcache) = 0)
      BY <1>1, BlockIs
    <3>4. wcache = <<>> => told = 0
      BY <1>1, <3>2 DEF ListInv
    <3>5. (current' - 1) * BlockSize = 0
      BY <3>1, Sizes
    <3> QED
      BY <3>1, <3>2, <3>3, <3>4, <3>5
  <2>4. CASE Using' /\ Writes
    <3> DEFINE c == current
               n == Len(wcache)
               s == wcache[c].size
    <3>1. /\ Using /\ worker = "round" /\ c \in DOMAIN wcache /\ c \in Nat \ {0}
          /\ s \in 1 .. BlockSize /\ size' = size + s /\ current' = c + 1
          /\ wcache' = wcache /\ told' = told /\ worker' = worker
      BY <2>4, WriteUses
    <3>2. n \in Nat /\ DOMAIN wcache = 1 .. n /\ (wcache = <<>>) = (n = 0)
      BY <1>1, BlockIs
    <3>3. c <= n /\ n # 0 /\ wcache # <<>>
      BY <3>1, <3>2
    <3>4. size = (c - 1) * BlockSize
      BY <1>1, <3>1, <3>3 DEF SizeInv
    <3>5. c < n => s = BlockSize
      BY <1>1, <3>1 DEF ListInv
    <3>6. c = n => told = ((c - 1) * BlockSize) + s
      BY <1>1, <3>1, <3>3 DEF ListInv
    <3>7. (c - 1) * BlockSize \in Int /\ c * BlockSize \in Nat
          /\ ((c - 1) * BlockSize) + BlockSize = c * BlockSize
      BY <3>1, BlocksInOrder, Sizes
    <3>8. c < n => size' = c * BlockSize
      BY <3>1, <3>4, <3>5, <3>7
    <3>9. c = n => size' = told
      BY <3>1, <3>4, <3>6
    <3>10. (c + 1) - 1 = c
      BY <3>1
    <3>11. worker' = "round" /\ current' = c + 1 /\ wcache' = wcache /\ told' = told
      BY <3>1
    <3> HIDE DEF c, s
    <3>12. /\ current' <= n + 1 /\ (current' <= n) = (c < n) /\ current' - 1 = c
           /\ c < n \/ c = n
      BY <3>11, <3>10, <3>1, <3>2, <3>3
    <3> QED
      BY <3>8, <3>9, <3>11, <3>12
  <2>5. CASE Using' /\ RoundEnds
    <3>1. /\ worker = "round" /\ worker' = "ended" /\ size' = size /\ current > Len(wcache)
          /\ ~Open /\ ~AppendCopies
      BY <1>1, <2>5 DEF RoundEnds, cache, Open, Opening, AppendCopies, LockInv
    <3>2. Using /\ told' = told
      BY <2>5, <3>1, ListStays
    <3>3. size = told
      BY <1>1, <3>1, <3>2, BlockIs DEF SizeInv
    <3> QED
      BY <3>1, <3>2, <3>3
  <2>6. CASE Using' /\ ~Open /\ ~AppendCopies /\ ~LocksR /\ ~Writes /\ ~RoundEnds
    <3>1. ~Join
      BY <2>6 DEF Join, Using
    <3>2. Using /\ wcache' = wcache /\ told' = told
      BY <2>6, ListStays
    <3>3. size' = size /\ (current' = current \/ UnlocksW)
      BY <1>1, <2>6, <3>1, Frames
    <3>4. /\ worker' = "round" => worker = "round"
          /\ worker \in {"round", "dead"} => worker' \in {"round", "dead"}
          /\ UnlocksW => worker' = "top"
      BY <1>1, <2>6, Moves DEF UnlocksW
    <3> QED
      BY <1>1, <3>2, <3>3, <3>4 DEF SizeInv
  <2> QED
    BY <2>1, <2>2, <2>3, <2>4, <2>5, <2>6
<1> QED
  BY <1>2, <1>3 DEF SizeInv

\* Only appended places are split, and what is appended is never split afterwards.
LEMMA SplitStep ==
  ASSUME IInv, Next
  PROVE  SplitInv'
<1>1. TypeOK /\ SplitInv /\ log \in Nat /\ told \in Nat
  BY DEF IInv, TypeOK
<1>2. CASE AppendCopies
  <2>1. /\ Using /\ log' = log /\ told' = told + CopySize
        /\ split' = IF told = off THEN split
                    ELSE split \cup {<<log, p, off + (p - told)>> : p \in told .. told + CopySize - 1}
    BY <1>2, CopyUses
  <2>2. CopySize \in Nat
    BY <1>2, CopyUses, CopyRoom, Sizes
  <2>3. \A t \in split : t[1] <= log' /\ (t[1] = log' => t[2] < told')
    <3> SUFFICES ASSUME NEW t \in split PROVE t[1] <= log /\ (t[1] = log => t[2] < told')
      BY <2>1
    <3>1. t[1] <= log /\ (t[1] = log => t[2] < told) /\ t[2] \in Nat
      BY <1>1, <2>1, Sizes DEF SplitInv, TypeOK
    <3> QED
      BY <1>1, <2>1, <2>2, <3>1
  <2>4. ASSUME NEW p \in told .. told + CopySize - 1
        PROVE  log <= log' /\ p < told'
    BY <1>1, <2>1, <2>2
  <2> QED
    BY <2>1, <2>3, <2>4 DEF SplitInv
<1>3. CASE ~AppendCopies
  <2>1. split' = split /\ (log' = log \/ (Open /\ log' = log + 1))
    BY <1>1, <1>3, Frames DEF Open
  <2>2. CASE Open
    <3>1. log' = log + 1
      BY <2>2, OpenUses
    <3>2. \A t \in split : t[1] \in Nat /\ t[1] <= log
      BY <1>1 DEF SplitInv, TypeOK
    <3> QED
      BY <1>1, <2>1, <3>1, <3>2 DEF SplitInv
  <2>3. CASE ~Open /\ Using'
    BY <1>1, <1>3, <2>3, ListStays DEF SplitInv
  <2>4. CASE ~Open /\ ~Using'
    BY <1>1, <2>1, <2>4 DEF SplitInv
  <2> QED
    BY <2>2, <2>3, <2>4
<1> QED
  BY <1>2, <1>3

\* The same after a step.
WrittenThen(l, p) ==
  LET from == {q \in 0 .. p : <<l, p, q>> \in split'}
  IN IF from = {} THEN {Byte(l, p)} ELSE {Byte(l, q) : q \in from}

FitsThen(v, p) ==
  \/ v = 0
  \/ v = Freed /\ overtaken'
  \/ \E l \in 1 .. log' : (l = log' /\ Using' => p < told') /\ v \in WrittenThen(l, p)

LEMMA WrittenSame ==
  ASSUME split' = split, NEW l, NEW p
  PROVE  WrittenThen(l, p) = Written(l, p)
BY Zenon DEF Written, WrittenThen

\* What was written in a place stays that.
LEMMA WrittenStays ==
  ASSUME IInv, Next, NEW l \in Nat, NEW p \in Nat,
         AppendCopies /\ l = log => p < told
  PROVE  WrittenThen(l, p) = Written(l, p)
<1>1. \A q : (<<l, p, q>> \in split') = (<<l, p, q>> \in split)
  <2>1. CASE AppendCopies
    <3>1. split' = IF told = off THEN split
                   ELSE split \cup {<<log, x, off + (x - told)>> : x \in told .. told + CopySize - 1}
      BY <2>1, CopyUses
    <3>2. CopySize \in Nat /\ told \in Nat
      BY <2>1, CopyUses, CopyRoom, Sizes
    <3>3. \A q : <<l, p, q>> \notin {<<log, x, off + (x - told)>> : x \in told .. told + CopySize - 1}
      BY <2>1, <3>2
    <3> QED
      BY <3>1, <3>3
  <2>2. CASE ~AppendCopies
    BY <2>2, Frames DEF IInv
  <2> QED
    BY <2>1, <2>2
<1>2. {q \in 0 .. p : <<l, p, q>> \in split'} = {q \in 0 .. p : <<l, p, q>> \in split}
  BY <1>1
<1> QED
  BY <1>2, Zenon DEF Written, WrittenThen

\* A byte that fits a place goes on doing so.
LEMMA FitsStays ==
  ASSUME IInv, Next, NEW v, NEW p \in Nat, Fits(v, p)
  PROVE  FitsThen(v, p)
<1>1. TypeOK /\ log \in Nat /\ told \in Nat /\ overtaken \in BOOLEAN
  BY DEF IInv, TypeOK
<1>2. overtaken => overtaken'
  BY <1>1, Frames DEF FreeCaches
<1>3. ASSUME NEW l \in 1 .. log, l = log /\ Using => p < told, v \in Written(l, p)
      PROVE  /\ l \in 1 .. log' /\ (l = log' /\ Using' => p < told')
             /\ v \in WrittenThen(l, p)
  <2>1. AppendCopies => Using
    BY CopyUses
  <2>2. v \in WrittenThen(l, p)
    BY <1>3, <2>1, WrittenStays
  <2>3. CASE Open
    BY <1>1, <2>2, <2>3, OpenUses
  <2>4. CASE AppendCopies
    <3>1. told' = told + CopySize /\ CopySize \in Nat /\ log' = log /\ Using
      BY <2>4, CopyUses, CopyRoom, Sizes
    <3> QED
      BY <1>1, <1>3, <2>2, <3>1
  <2>5. CASE ~Open /\ ~AppendCopies
    <3>1. log' = log
      BY <1>1, <2>5, Frames
    <3>2. Using' => Using /\ told' = told
      BY <2>5, ListStays
    <3> QED
      BY <1>3, <2>2, <3>1, <3>2
  <2> QED
    BY <2>3, <2>4, <2>5
<1> QED
  BY <1>2, <1>3 DEF Fits, FitsThen

LEMMA ByteStep ==
  ASSUME IInv, Next
  PROVE  ByteInv'
<1>1. TypeOK /\ ByteInv /\ SplitInv /\ log \in Nat
  BY DEF IInv, TypeOK
<1>2. CASE Open
  BY <1>2, OpenUses DEF ByteInv
<1>3. CASE AppendCopies
  <2>1. /\ LockInv /\ CallInv /\ ListInv /\ SizeInv /\ CloseInv /\ Using
        /\ told \in Nat /\ off \in Nat /\ off <= told
        /\ told' = told + CopySize /\ log' = log
        /\ split' = IF told = off THEN split
                    ELSE split \cup {<<log, p, off + (p - told)>> : p \in told .. told + CopySize - 1}
    BY <1>1, <1>3, CopyUses DEF TypeOK
  <2>2. /\ DOMAIN wcache' = 1 .. Nth
        /\ \A i \in 1 .. Nth - 1 : wcache'[i] = wcache[i]
        /\ wcache'[Nth] = [id |-> Nth - 1, data |-> Stored(Filling.data, Filling.size),
                           size |-> Filling.size + CopySize]
    BY <1>1, <1>3, <2>1, CopyFills
  <2>3. /\ Nth \in Nat \ {0} /\ 1 .. Nth - 1 \subseteq DOMAIN wcache
        /\ ~NeedsNew => Nth \in DOMAIN wcache
        /\ Filling.size \in 0 .. BlockSize - 1 /\ CopySize \in 1 .. BlockSize - Filling.size
        /\ (Nth - 1) * BlockSize \in Nat
        /\ told = ((Nth - 1) * BlockSize) + Filling.size
    BY <1>1, <1>3, <2>1, FillingIs
  <2>4. SUFFICES ASSUME NEW i \in DOMAIN wcache', NEW k \in Place
        PROVE LET p == Place0(i, k) IN
              /\ p < told' => wcache'[i].data[k] \in WrittenThen(log', p)
              /\ p >= told' => wcache'[i].data[k] = 0
    BY DEF ByteInv, Place0, Written, WrittenThen, Byte
  <2> DEFINE p == Place0(i, k)
  <2>5. CASE i < Nth
    <3>1. i \in DOMAIN wcache /\ wcache'[i] = wcache[i] /\ i \in Nat
      BY <2>2, <2>3, <2>4, <2>5
    <3>2. p \in Int /\ p < told
      <4>1. ((i - 1) * BlockSize) + BlockSize <= (Nth - 1) * BlockSize
            /\ (i - 1) * BlockSize \in Int
        BY <2>3, <2>5, <3>1, BlocksInOrder
      <4> DEFINE x == (i - 1) * BlockSize
                 y == (Nth - 1) * BlockSize
      <4>2. x \in Int /\ y \in Nat /\ x + BlockSize <= y /\ told = y + Filling.size
        BY <4>1, <2>3
      <4> HIDE DEF x, y
      <4>3. x + (k - 1) \in Int /\ x + (k - 1) < told
        BY <4>2, <2>3, Sizes DEF Place
      <4> QED
        BY <4>3 DEF Place0, x
    <3> HIDE DEF p
    <3>3. p < told' /\ ~(p >= told')
      BY <3>2, <2>1, <2>3, Sizes
    <3>4. wcache[i].data[k] \in Written(log, p)
      BY <1>1, <2>1, <3>1, <3>2 DEF ByteInv, p
    <3>5. p \in Nat
      <4>1. i \in Nat \ {0}
        BY <2>2, <2>3, <2>4
      <4> QED
        BY <4>1, Places DEF p
    <3>6. WrittenThen(log, p) = Written(log, p)
      BY <1>1, <3>2, <3>5, WrittenStays
    <3> QED
      BY <3>1, <3>3, <3>4, <3>6, <2>1 DEF p
  <2>6. CASE i = Nth
    <3> DEFINE s == Filling.size
               d == Filling.data[k]
               c == CopySize
    <3>1. wcache'[i].data[k] = IF k - s \in 1 .. c THEN Byte(log, off + k - s - 1) ELSE d
      BY <2>2, <2>6 DEF Stored
    <3>2. p \in Int /\ p = told + (k - s) - 1 /\ k \in Nat /\ s \in Nat /\ c \in Nat
      <4> DEFINE x == (Nth - 1) * BlockSize
      <4>1. x \in Nat /\ told = x + s /\ s \in Nat /\ k \in Nat /\ c \in Nat
        BY <2>3, Sizes DEF Place
      <4>2. p = x + (k - 1)
        BY <2>6 DEF Place0
      <4> HIDE DEF x, p, s
      <4> QED
        BY <4>1, <4>2
    <3> HIDE DEF s, c, p
    <3>3. told' = told + c
      BY <2>1 DEF c
    <3>4. CASE k - s \in 1 .. c
      <4>1. p \in told .. told + c - 1 /\ p < told' /\ ~(p >= told')
        BY <3>2, <3>3, <3>4, <2>1
      <4>2. wcache'[i].data[k] = Byte(log, off + k - s - 1)
        BY <3>1, <3>4
      <4> DEFINE q == off + k - s - 1
      <4>3. q = off + (p - told) /\ q \in 0 .. p /\ p \in Nat /\ (told = off => q = p)
        BY <3>2, <3>4, <2>1
      <4> HIDE DEF q
      <4>4. Byte(log, q) \in WrittenThen(log, p)
        <5> DEFINE from == {x \in 0 .. p : <<log, p, x>> \in split'}
        <5>1. CASE told = off
          <6>1. \A x : <<log, p, x>> \notin split
            <7> SUFFICES ASSUME NEW x, <<log, p, x>> \in split PROVE FALSE
              OBVIOUS
            <7>1. p < told
              BY <1>1, <2>1 DEF SplitInv
            <7> QED
              BY <4>1, <2>1, <7>1, <3>2
          <6>2. from = {}
            BY <2>1, <5>1, <6>1
          <6> QED
            BY <4>3, <5>1, <6>2 DEF WrittenThen
        <5>2. CASE told # off
          <6>1. <<log, p, q>> \in split'
            BY <4>1, <4>3, <5>2, <2>1 DEF c
          <6>2. q \in from
            BY <4>3, <6>1
          <6> QED
            BY <6>2 DEF WrittenThen
        <5> QED
          BY <5>1, <5>2
      <4> QED
        BY <4>1, <4>2, <4>4, <2>1 DEF p, q
    <3>5. CASE k - s \notin 1 .. c
      <4>1. wcache'[i].data[k] = d
        BY <3>1, <3>5
      <4>2. /\ p < told' => p < told
            /\ p >= told' => p >= told
        BY <3>2, <3>3, <3>5, <2>1
      <4>3. /\ p < told => ~NeedsNew
            /\ NeedsNew => d = 0
        <5>1. NeedsNew => s = 0 /\ d = 0
          BY DEF Filling, NewBlock, Zeros, s
        <5>2. p < told => s > 0
          BY <3>2, <2>1, Sizes DEF Place
        <5> QED
          BY <5>1, <5>2
      <4>4. ~NeedsNew => /\ p < told => d \in Written(log, p)
                         /\ p >= told => d = 0
        <5>1. ~NeedsNew => i \in DOMAIN wcache /\ d = wcache[i].data[k]
          BY <2>3, <2>6 DEF Filling, Nth
        <5> QED
          BY <5>1, <1>1, <2>1 DEF ByteInv, p
      <4>5. p < told => WrittenThen(log, p) = Written(log, p)
        <5>1. p \in Nat
          BY <2>3, <2>6, Places DEF p
        <5> QED
          BY <1>1, <5>1, WrittenStays
      <4> QED
        BY <4>1, <4>2, <4>3, <4>4, <4>5, <2>1 DEF p
    <3> QED
      BY <3>4, <3>5
  <2> QED
    BY <2>2, <2>3, <2>4, <2>5, <2>6
<1>4. CASE ~Open /\ ~AppendCopies
  <2> SUFFICES ASSUME Using', NEW i \in DOMAIN wcache', NEW k \in Place
      PROVE  LET p == Place0(i, k) IN
             /\ p < told' => wcache'[i].data[k] \in WrittenThen(log', p)
             /\ p >= told' => wcache'[i].data[k] = 0
    BY DEF ByteInv, Place0, Written, WrittenThen, Byte
  <2>1. Using /\ wcache' = wcache /\ told' = told /\ log' = log /\ split' = split
    BY <1>4, ListStays
  <2> DEFINE p == Place0(i, k)
  <2>2. /\ p < told => wcache[i].data[k] \in Written(log, p)
        /\ p >= told => wcache[i].data[k] = 0
    BY <1>1, <2>1 DEF ByteInv
  <2>3. WrittenThen(log, p) = Written(log, p)
    BY <2>1, WrittenSame
  <2> HIDE DEF p
  <2>4. /\ p < told' => wcache'[i].data[k] \in WrittenThen(log', p)
        /\ p >= told' => wcache'[i].data[k] = 0
    BY <2>1, <2>2, <2>3
  <2> QED
    BY <2>4 DEF p
<1> QED
  BY <1>2, <1>3, <1>4

\* Freed blocks are written only of a log that is being closed.
LEMMA FreedUses ==
  ASSUME IInv, Next, WritesFreed
  PROVE  ~Using /\ ~Using' /\ overtaken /\ overtaken'
<1>1. dangling /\ worker = "round" /\ (Using' => Using)
  BY Moves DEF IInv
<1>2. ~Using /\ overtaken
  BY <1>1 DEF IInv, CloseInv, LockInv, Using
<1>3. overtaken'
  BY <1>2, Frames DEF IInv, FreeCaches, Using
<1> QED
  BY <1>1, <1>2, <1>3

LEMMA RoundStep ==
  ASSUME IInv, Next
  PROVE  RoundInv'
<1>1. TypeOK /\ LockInv /\ ListInv /\ RoundInv
  BY DEF IInv
<1>2. SUFFICES ASSUME Using'
      PROVE  /\ worker' = "round" => \A i \in DOMAIN wcache' : i < current' => Stands(i)'
             /\ worker' = "ended" => \A i \in DOMAIN wcache' : Stands(i)'
  BY DEF RoundInv
<1>3. CASE Open
  BY <1>3, OpenUses
<1>4. CASE AppendCopies
  BY <1>4, CopyUses
<1>5. CASE LocksR
  <2>1. worker' = "round" /\ current' = 1 /\ ~Open /\ ~AppendCopies
    BY <1>1, <1>5 DEF LocksR, Open, Opening, AppendCopies, LockInv
  <2>2. DOMAIN wcache' \subseteq Nat \ {0}
    BY <1>1, <1>2, <2>1, ListStays, BlockIs
  <2> QED
    BY <2>1, <2>2
<1>6. CASE Writes
  <2> DEFINE c == current
  <2>1. /\ Using /\ worker = "round" /\ c \in DOMAIN wcache /\ c \in Nat \ {0} /\ c - 1 \in Ids
        /\ device' = [device EXCEPT ![c - 1] = wcache[c].data]
        /\ wcache' = wcache /\ current' = c + 1 /\ worker' = worker
    BY <1>6, WriteUses
  <2>2. DOMAIN device = Ids /\ DOMAIN wcache \subseteq Nat \ {0}
    <3>1. DOMAIN device = Ids
      BY <1>1 DEF TypeOK
    <3>2. Len(wcache) \in Nat /\ DOMAIN wcache = 1 .. Len(wcache)
      BY <1>1, BlockIs
    <3>3. DOMAIN wcache \subseteq Nat \ {0}
      BY <3>2
    <3> QED
      BY <3>1, <3>3
  <2> HIDE DEF c
  <2>3. device'[c - 1] = wcache'[c].data
    BY <2>1, <2>2
  <2>4. ASSUME NEW i \in DOMAIN wcache, i < c
        PROVE  i - 1 \in Ids /\ device'[i - 1] = wcache'[i].data
    <3>1. i - 1 \in Ids /\ device[i - 1] = wcache[i].data
      BY <1>1, <2>1, <2>4 DEF RoundInv, Stands, c
    <3>2. i - 1 # c - 1
      BY <2>1, <2>2, <2>4
    <3> QED
      BY <2>1, <2>2, <3>1, <3>2
  <2>5. \A i \in DOMAIN wcache' : i < current' => i < c \/ i = c
    BY <2>1, <2>2
  <2>6. \A i \in DOMAIN wcache' : i < current' => i - 1 \in Ids /\ device'[i - 1] = wcache'[i].data
    BY <2>1, <2>3, <2>4, <2>5
  <2> QED
    BY <2>1, <2>6 DEF Stands
<1>7. CASE RoundEnds
  <2>1. /\ worker = "round" /\ worker' = "ended" /\ current > Len(wcache)
        /\ ~Open /\ ~AppendCopies /\ ~Writes
    BY <1>1, <1>7 DEF RoundEnds, Open, Opening, AppendCopies, LockInv, Writes, Writing
  <2>2. Using /\ wcache' = wcache /\ device' = device
    BY <1>1, <1>2, <1>7, <2>1, ListStays, Frames, FreedUses
  <2>3. \A i \in DOMAIN wcache : i < current
    <3>1. current \in Nat /\ Len(wcache) \in Nat /\ DOMAIN wcache = 1 .. Len(wcache)
      BY <1>1, <2>1, BlockIs DEF IInv, SizeInv
    <3> QED
      BY <2>1, <3>1
  <2> QED
    BY <1>1, <2>1, <2>2, <2>3 DEF RoundInv, Stands
<1>8. CASE ~Open /\ ~AppendCopies /\ ~LocksR /\ ~Writes /\ ~RoundEnds
  <2>1. ~Join
    BY <1>2 DEF Join, Using
  <2>2. /\ Using /\ wcache' = wcache /\ device' = device /\ (current' = current \/ UnlocksW)
    BY <1>1, <1>2, <1>8, <2>1, ListStays, Frames, FreedUses
  <2>3. /\ worker' = "round" => worker = "round"
        /\ worker' = "ended" => worker = "ended"
        /\ UnlocksW => worker' = "top"
    BY <1>1, <1>8, Moves DEF UnlocksW
  <2> QED
    BY <1>1, <2>2, <2>3 DEF RoundInv, Stands
<1> QED
  BY <1>3, <1>4, <1>5, <1>6, <1>7, <1>8

LEMMA DeviceStep ==
  ASSUME IInv, Next
  PROVE  DeviceInv'
<1>1. TypeOK /\ DeviceInv /\ CloseInv /\ ByteInv
  BY DEF IInv
<1>2. SUFFICES ASSUME NEW b \in Ids, NEW k \in Place
      PROVE  FitsThen(device'[b][k], (b * BlockSize) + (k - 1))
  BY DEF DeviceInv, Fits, FitsThen, Written, WrittenThen, Byte
<1> DEFINE p == (b * BlockSize) + (k - 1)
<1>3. Fits(device[b][k], p)
  BY <1>1 DEF DeviceInv
<1>4. p \in Nat /\ p = Place0(b + 1, k) /\ b \in Nat
  <2>1. b \in Nat /\ b + 1 \in Nat \ {0}
    BY Sizes DEF Ids
  <2>2. Place0(b + 1, k) \in Nat /\ (b + 1) - 1 = b
    BY <2>1, Places
  <2> QED
    BY <2>1, <2>2 DEF Place0
<1> HIDE DEF p
<1>5. CASE Writes /\ b = current - 1
  <2> DEFINE c == current
             v == wcache[c].data[k]
  <2>1. /\ Using /\ c \in DOMAIN wcache /\ c \in Nat \ {0}
        /\ device' = [device EXCEPT ![c - 1] = wcache[c].data]
    BY <1>5, WriteUses
  <2>2. device'[b][k] = v
    BY <1>1, <1>5, <2>1 DEF TypeOK
  <2>3. p = Place0(c, k) /\ (p < told \/ p >= told) /\ log \in 1 .. log
    <3>1. c = b + 1
      BY <1>5, <2>1
    <3>2. told \in Nat /\ log \in Nat \ {0}
      BY <1>1, <2>1 DEF CloseInv, TypeOK, Using
    <3> QED
      BY <1>4, <3>1, <3>2
  <2>4. v = 0 \/ (p < told /\ v \in Written(log, p))
    BY <1>1, <2>1, <2>3 DEF ByteInv
  <2>5. Fits(v, p)
    BY <2>3, <2>4 DEF Fits
  <2> HIDE DEF v
  <2> QED
    BY <1>4, <2>2, <2>5, FitsStays DEF p
<1>6. CASE WritesFreed
  <2>1. PICK i \in Ids : device' = [device EXCEPT ![i] = [x \in Place |-> Freed]]
                        \/ device' = device
    BY <1>6, Sizes DEF WritesFreed, Crash, Ids
  <2>2. device'[b][k] = Freed \/ device'[b][k] = device[b][k]
    BY <1>1, <2>1 DEF TypeOK
  <2>3. overtaken'
    BY <1>6, FreedUses
  <2> QED
    BY <1>3, <1>4, <2>2, <2>3, FitsStays DEF FitsThen, p
<1>7. CASE ~(Writes /\ b = current - 1) /\ ~WritesFreed
  <2>1. device'[b] = device[b]
    <3>1. CASE Writes
      BY <1>1, <1>7, <3>1, WriteUses DEF TypeOK
    <3> QED
      BY <1>1, <1>7, <3>1, Frames
  <2> QED
    BY <1>3, <1>4, <2>1, FitsStays DEF p
<1> QED
  BY <1>5, <1>6, <1>7

\* What the rounds have brought to the device is that of the list of blocks.
LEMMA FlushStep ==
  ASSUME IInv, Next
  PROVE  FlushInv'
<1>1. TypeOK /\ LockInv /\ ListInv /\ RoundInv /\ FlushInv /\ told \in Nat /\ flushed \in Nat
  BY DEF IInv, TypeOK
<1>2. SUFFICES ASSUME Using'
      PROVE  /\ flushed' <= told'
             /\ worker' = "ended" => flushed' = told'
             /\ \A i \in DOMAIN wcache', k \in Place :
                  Place0(i, k) < flushed' =>
                    i - 1 \in Ids /\ device'[i - 1][k] = wcache'[i].data[k]
  BY DEF FlushInv, Place0
<1>3. ~Join /\ ~WritesFreed /\ ~FreeCaches
  BY <1>2, FreedUses DEF Join, FreeCaches, Using
<1>4. CASE Open
  BY <1>4, OpenUses
<1>5. CASE AppendCopies
  <2>1. /\ LockInv /\ CallInv /\ ListInv /\ SizeInv /\ CloseInv /\ Using
        /\ told' = told + CopySize /\ worker' = worker /\ worker # "ended"
    BY <1>1, <1>5, CopyUses
  <2>2. /\ DOMAIN wcache' = 1 .. Nth
        /\ \A i \in 1 .. Nth - 1 : wcache'[i] = wcache[i]
        /\ wcache'[Nth] = [id |-> Nth - 1, data |-> Stored(Filling.data, Filling.size),
                           size |-> Filling.size + CopySize]
    BY <1>1, <1>5, <2>1, CopyFills
  <2>3. /\ Nth \in Nat \ {0} /\ 1 .. Nth - 1 \subseteq DOMAIN wcache
        /\ ~NeedsNew => Nth \in DOMAIN wcache
        /\ Filling.size \in 0 .. BlockSize - 1 /\ CopySize \in 1 .. BlockSize - Filling.size
        /\ (Nth - 1) * BlockSize \in Nat
        /\ told = ((Nth - 1) * BlockSize) + Filling.size
    BY <1>1, <1>5, <2>1, FillingIs
  <2>4. flushed' = flushed /\ device' = device
    <3>1. ~RoundEnds /\ ~Writes
      BY <1>1, <1>5 DEF AppendCopies, RoundEnds, Writes, Writing, LockInv
    <3> QED
      BY <1>1, <1>3, <1>5, <3>1, Frames
  <2>5. flushed <= told /\ flushed' <= told'
    BY <1>1, <2>1, <2>3, <2>4, Sizes DEF FlushInv
  <2>6. ASSUME NEW i \in DOMAIN wcache', NEW k \in Place, Place0(i, k) < flushed
        PROVE  i \in DOMAIN wcache /\ wcache'[i].data[k] = wcache[i].data[k]
    <3>1. CASE i < Nth
      BY <2>2, <2>3, <2>6, <3>1
    <3>2. CASE i = Nth
      <4> DEFINE n == Filling.size
                 d == Filling.data[k]
                 c == CopySize
                 x == (Nth - 1) * BlockSize
      <4>1. wcache'[i].data[k] = IF k - n \in 1 .. c THEN Byte(log, off + k - n - 1) ELSE d
        BY <2>2, <3>2 DEF Stored
      <4>2. x \in Nat /\ told = x + n /\ n \in Nat /\ c \in Nat /\ k \in Nat \ {0}
            /\ Place0(i, k) = x + (k - 1)
        BY <2>3, <3>2, Sizes DEF Place, Place0
      <4> HIDE DEF x, n, c
      <4>3. k <= n
        BY <1>1, <2>5, <2>6, <4>2
      <4>4. wcache'[i].data[k] = d
        BY <4>1, <4>2, <4>3
      <4>5. ~NeedsNew
        <5>1. NeedsNew => n = 0
          BY DEF Filling, NewBlock, n
        <5> QED
          BY <4>2, <4>3, <5>1
      <4>6. i \in DOMAIN wcache /\ d = wcache[i].data[k]
        BY <2>3, <3>2, <4>5 DEF Filling, Nth
      <4> QED
        BY <4>4, <4>6
    <3> QED
      BY <2>2, <2>3, <3>1, <3>2
  <2> QED
    BY <1>1, <2>1, <2>4, <2>5, <2>6 DEF FlushInv
<1>6. CASE Writes
  <2> DEFINE c == current
  <2>1. /\ Using /\ worker = "round" /\ c \in DOMAIN wcache /\ c \in Nat \ {0} /\ c - 1 \in Ids
        /\ device' = [device EXCEPT ![c - 1] = wcache[c].data]
        /\ wcache' = wcache /\ told' = told /\ worker' = worker
    BY <1>6, WriteUses
  <2>2. DOMAIN device = Ids /\ DOMAIN wcache \subseteq Nat \ {0}
    <3>1. DOMAIN device = Ids
      BY <1>1 DEF TypeOK
    <3>2. Len(wcache) \in Nat /\ DOMAIN wcache = 1 .. Len(wcache)
      BY <1>1, BlockIs
    <3>3. DOMAIN wcache \subseteq Nat \ {0}
      BY <3>2
    <3> QED
      BY <3>1, <3>3
  <2>3. flushed' = flushed
    <3>1. ~RoundEnds
      BY <1>6 DEF RoundEnds, Writes, Writing
    <3> QED
      BY <1>1, <1>3, <3>1, Frames
  <2> HIDE DEF c
  <2>4. ASSUME NEW i \in DOMAIN wcache, NEW k \in Place, Place0(i, k) < flushed
        PROVE  i - 1 \in Ids /\ device'[i - 1][k] = wcache[i].data[k]
    <3>1. i - 1 \in Ids /\ device[i - 1][k] = wcache[i].data[k]
      BY <1>1, <2>1, <2>4 DEF FlushInv
    <3>2. CASE i = c
      BY <2>1, <2>2, <3>1, <3>2
    <3>3. CASE i # c
      BY <2>1, <2>2, <3>1, <3>3
    <3> QED
      BY <3>2, <3>3
  <2> QED
    BY <1>1, <2>1, <2>3, <2>4 DEF FlushInv
<1>7. CASE RoundEnds
  <2>1. /\ worker = "round" /\ worker' = "ended" /\ current > Len(wcache) /\ flushed' = told
        /\ ~Open /\ ~AppendCopies /\ ~Writes
    BY <1>1, <1>7 DEF RoundEnds, Open, Opening, AppendCopies, LockInv, Writes, Writing
  <2>2. Using /\ wcache' = wcache /\ device' = device /\ told' = told
    BY <1>1, <1>2, <1>3, <2>1, ListStays, Frames
  <2>3. \A i \in DOMAIN wcache : i < current
    <3>1. current \in Nat /\ Len(wcache) \in Nat /\ DOMAIN wcache = 1 .. Len(wcache)
      BY <1>1, <2>1, BlockIs DEF IInv, SizeInv
    <3> QED
      BY <2>1, <3>1
  <2>4. \A i \in DOMAIN wcache : i - 1 \in Ids /\ device[i - 1] = wcache[i].data
    BY <1>1, <2>1, <2>2, <2>3 DEF RoundInv, Stands
  <2> QED
    BY <1>1, <2>1, <2>2, <2>4
<1>8. CASE ~Open /\ ~AppendCopies /\ ~Writes /\ ~RoundEnds
  <2>1. /\ Using /\ wcache' = wcache /\ told' = told /\ device' = device /\ flushed' = flushed
    BY <1>1, <1>2, <1>3, <1>8, ListStays, Frames
  <2>2. worker' = "ended" => worker = "ended"
    BY <1>1, <1>8, Moves
  <2> QED
    BY <1>1, <2>1, <2>2 DEF FlushInv
<1> QED
  BY <1>4, <1>5, <1>6, <1>7, <1>8

\* A place that a read asks for, as the device has it, or behind the block.
LEMMA ReadPlace ==
  ASSUME NEW o \in Nat, NEW k \in Nat \ {0}
  PROVE  LET b  == o \div BlockSize
             at == (o % BlockSize) + k
         IN /\ b \in Nat /\ at \in Nat \ {0}
            /\ (b * BlockSize) + (at - 1) = o + k - 1
            /\ at \notin Place => (o + k - 1) \div BlockSize > b
<1> DEFINE b == o \div BlockSize
           r == o % BlockSize
           x == b * BlockSize
<1>1. b \in Nat /\ r \in 0 .. BlockSize - 1 /\ BlockSize \in Nat \ {0}
  <2>1. b \in Nat
    BY DivNat, Sizes
  <2> QED
    BY <2>1, ModRange, Sizes
<1>2. x \in Nat /\ o = x + r
  BY <1>1, DivMod, Sizes
<1>3. (b + 1) * BlockSize = x + BlockSize
  BY <1>1
<1>4. ((b + 1) * BlockSize) \div BlockSize = b + 1
  <2> DEFINE q == b + 1
             z == 0
  <2>1. q \in Int /\ z \in 0 .. BlockSize - 1 /\ q * BlockSize \in Int
    BY <1>1
  <2> HIDE DEF q, z
  <2>2. ((q * BlockSize) + z) \div BlockSize = q
    BY <2>1, <1>1, DivUnique
  <2>3. (q * BlockSize) + z = q * BlockSize
    BY <2>1 DEF z
  <2> QED
    BY <2>2, <2>3 DEF q
<1> HIDE DEF b, r, x
<1>5. r + k \in Nat \ {0} /\ x + ((r + k) - 1) = o + k - 1
  BY <1>1, <1>2
<1>6. ASSUME r + k \notin Place PROVE (o + k - 1) \div BlockSize > b
  <2> DEFINE u == x + BlockSize
             w == o + k - 1
  <2>1. u \in Nat /\ w \in Nat /\ u <= w
    BY <1>1, <1>2, <1>6 DEF Place
  <2>2. u \div BlockSize = b + 1
    BY <1>3, <1>4
  <2> HIDE DEF u
  <2>3. w \div BlockSize \in Nat
    BY <2>1, <1>1, DivNat
  <2>4. u \div BlockSize <= w \div BlockSize
    BY <2>1, <1>1, DivMono
  <2> DEFINE v == w \div BlockSize
  <2>5. b + 1 <= v /\ v \in Nat
    BY <2>2, <2>3, <2>4
  <2> HIDE DEF v
  <2>6. v > b
    BY <2>5, <1>1
  <2> QED
    BY <2>6 DEF v
<1> QED
  BY <1>1, <1>5, <1>6 DEF b, r, x

\* The block that holds a place of the log.
LEMMA PlaceIsCached ==
  ASSUME IInv, Using, NEW p \in 0 .. told - 1
  PROVE  LET i == (p \div BlockSize) + 1
             k == (p % BlockSize) + 1
         IN i \in DOMAIN wcache /\ k \in Place /\ Place0(i, k) = p
<1> DEFINE i == (p \div BlockSize) + 1
           k == (p % BlockSize) + 1
           n == Len(wcache)
<1>1. TypeOK /\ ListInv /\ told \in Nat /\ p \in Nat /\ n \in Nat /\ DOMAIN wcache = 1 .. n
  <2>1. TypeOK /\ ListInv /\ told \in Nat
    BY Sizes DEF IInv, TypeOK
  <2> QED
    BY <2>1, BlockIs
<1>2. /\ p \div BlockSize \in Nat /\ p % BlockSize \in 0 .. BlockSize - 1
      /\ p = ((p \div BlockSize) * BlockSize) + (p % BlockSize)
  <2>1. p \div BlockSize \in Nat
    BY <1>1, DivNat, Sizes
  <2> QED
    BY <1>1, <2>1, DivMod, ModRange, Sizes
<1> DEFINE q == p \div BlockSize
           r == p % BlockSize
<1>3. q \in Nat /\ r \in 0 .. BlockSize - 1 /\ p = (q * BlockSize) + r
      /\ i = q + 1 /\ k = r + 1
  BY <1>2
<1> HIDE DEF q, r, i, k
<1>4. k \in Place /\ Place0(i, k) = p /\ i \in Nat \ {0}
  <2>1. i - 1 = q /\ k - 1 = r /\ k \in Place /\ i \in Nat \ {0}
    BY <1>3, Sizes DEF Place
  <2> QED
    BY <1>3, <2>1 DEF Place0
<1>5. i <= n
  <2> SUFFICES ASSUME n < i PROVE FALSE
    BY <1>1, <1>4
  <2>1. told <= n * BlockSize /\ n * BlockSize \in Nat
    <3>1. n * BlockSize \in Nat /\ ((n - 1) * BlockSize) + BlockSize = n * BlockSize
      BY <1>1, Sizes
    <3>2. n = 0 => told = 0
      BY <1>1, BlockIs DEF ListInv
    <3>3. n # 0 => wcache[n].size \in 1 .. BlockSize
                   /\ told = ((n - 1) * BlockSize) + wcache[n].size
      BY <1>1, BlockIs DEF ListInv
    <3> DEFINE x == n * BlockSize
               y == (n - 1) * BlockSize
    <3>4. x \in Nat /\ y + BlockSize = x /\ y \in Int
          /\ (n # 0 => wcache[n].size \in 1 .. BlockSize /\ told = y + wcache[n].size)
      BY <1>1, <3>1, <3>3, Sizes
    <3> HIDE DEF x, y
    <3>5. told <= x
      BY <3>2, <3>4, <1>1, Sizes
    <3> QED
      BY <3>4, <3>5 DEF x
  <2>2. n * BlockSize <= q * BlockSize /\ q * BlockSize \in Nat
    <3>1. n <= q
      BY <1>1, <1>3
    <3>2. (q - n) * BlockSize \in Nat
      BY <3>1, <1>1, <1>3, Sizes
    <3>3. (q - n) * BlockSize = (q * BlockSize) - (n * BlockSize)
      BY <1>1, <1>3, Sizes
    <3> QED
      BY <3>2, <3>3, <2>1, <1>3, Sizes
  <2> DEFINE x == n * BlockSize
             y == q * BlockSize
  <2>3. x \in Nat /\ y \in Nat /\ told <= x /\ x <= y /\ p = y + r
    BY <2>1, <2>2, <1>3
  <2> HIDE DEF x, y
  <2> QED
    BY <2>3, <1>1, <1>3, Sizes
<1> QED
  BY <1>1, <1>4, <1>5 DEF i, k

\* What the device has in a place that the rounds have come to is what was appended.
LEMMA FlushedIs ==
  ASSUME IInv, Using, NEW p \in Nat, p < flushed
  PROVE  device[p \div BlockSize][(p % BlockSize) + 1] \in Written(log, p)
<1> DEFINE q == p \div BlockSize
           i == q + 1
           k == (p % BlockSize) + 1
<1>1. told \in Nat /\ flushed \in Nat /\ flushed <= told /\ q \in Nat
  <2>1. told \in Nat /\ flushed \in Nat /\ flushed <= told
    BY DEF IInv, TypeOK, FlushInv
  <2>2. q \in Nat
    BY DivNat, Sizes
  <2> QED
    BY <2>1, <2>2
<1>2. p \in 0 .. told - 1 /\ p < told
  BY <1>1
<1>3. i \in DOMAIN wcache /\ k \in Place /\ Place0(i, k) = p
  BY <1>2, PlaceIsCached
<1>4. i - 1 = q
  <2> HIDE DEF q
  <2> QED
    BY <1>1
<1> HIDE DEF i, k, q
<1>5. device[q][k] = wcache[i].data[k]
  BY <1>3, <1>4 DEF IInv, FlushInv
<1>6. wcache[i].data[k] \in Written(log, p)
  BY <1>2, <1>3 DEF IInv, ByteInv
<1> QED
  BY <1>5, <1>6 DEF q, k

\* What a read finds in its block is in its place, if the device did not fail.
LEMMA DeliveredIs ==
  ASSUME IInv, pc = "lookup", off \div BlockSize \in Ids, NEW k \in DOMAIN FromDevice(device)
  PROVE  LET p == off + k - 1
             v == FromDevice(device)[k]
         IN \/ v \in Written(log, p)
            \/ p >= flushed /\ \/ v = 0
                               \/ \E l \in 1 .. log - 1 : v \in Written(l, p)
                               \/ v = Freed /\ overtaken
            \/ v = Garbage /\ p \div BlockSize > off \div BlockSize
<1> DEFINE at == (off % BlockSize) + k
           b == off \div BlockSize
           p == off + k - 1
           v == FromDevice(device)[k]
<1>1. /\ off \in Nat /\ len \in Nat /\ k \in 1 .. len /\ told \in Nat /\ flushed \in Nat
      /\ log \in Nat /\ Using
  BY Sizes DEF IInv, TypeOK, FromDevice, Using
<1>2. v = IF at \in Place THEN device[b][at] ELSE Garbage
  BY <1>1 DEF FromDevice, Block
<1>3. (b * BlockSize) + (at - 1) = p /\ b \in Nat /\ at \in Nat \ {0}
      /\ (at \notin Place => p \div BlockSize > b)
  BY <1>1, ReadPlace
<1>4. CASE at \notin Place
  BY <1>2, <1>3, <1>4
<1>5. CASE at \in Place
  <2>1. Fits(v, p)
    <3>1. Fits(device[b][at], (b * BlockSize) + (at - 1))
      BY <1>5 DEF IInv, DeviceInv
    <3> QED
      BY <1>2, <1>3, <1>5, <3>1
  <2>2. p \in Nat
    BY <1>1
  <2>3. p \div BlockSize = b /\ (p % BlockSize) + 1 = at
    <3>1. b + 1 \in Nat \ {0}
      BY <1>3
    <3>2. Place0(b + 1, at) = p
      <4> HIDE DEF b, at, p
      <4>1. (b + 1) - 1 = b
        BY <1>3
      <4> QED
        BY <1>3, <4>1 DEF Place0
    <3>3. /\ Place0(b + 1, at) \div BlockSize = (b + 1) - 1
          /\ (Place0(b + 1, at) % BlockSize) + 1 = at
      BY <1>5, <3>1, Places
    <3>4. (b + 1) - 1 = b
      BY <1>3
    <3> HIDE DEF b, at, p
    <3> QED
      BY <3>2, <3>3, <3>4
  <2>4. p < flushed => v \in Written(log, p)
    <3> SUFFICES ASSUME p < flushed PROVE v \in Written(log, p)
      OBVIOUS
    <3>1. device[p \div BlockSize][(p % BlockSize) + 1] \in Written(log, p)
      BY <1>1, <2>2, FlushedIs
    <3> HIDE DEF p, v, at, b
    <3> QED
      BY <1>2, <1>5, <2>3, <3>1
  <2>5. p < flushed \/ p >= flushed
    BY <1>1, <2>2
  <2>6. \A l \in 1 .. log : l = log \/ l \in 1 .. log - 1
    BY <1>1
  <2> HIDE DEF p, v
  <2> QED
    BY <2>1, <2>4, <2>5, <2>6 DEF Fits, p, v
<1> QED
  BY <1>4, <1>5

\* The same after a step.
InPlaceThen(v, p) ==
  \/ v \in WrittenThen(log', p)
  \/ p >= fresh' /\ \/ v = 0
                    \/ \E l \in 1 .. log' - 1 : v \in WrittenThen(l, p)
                    \/ v = Freed /\ overtaken'
  \/ v = Garbage /\ p \div BlockSize > off' \div BlockSize
  \/ v \in {0, Untouched} /\ faults' > 0

\* What does not change while a read has its answer.
LEMMA InPlaceStays ==
  ASSUME IInv, Next, pc \in {"lookup", "again", "answer"}, off' = off, NEW p \in Nat, NEW v,
         \/ v \in Written(log, p)
         \/ p >= fresh' /\ \/ v = 0
                           \/ \E l \in 1 .. log - 1 : v \in Written(l, p)
                           \/ v = Freed /\ overtaken
         \/ v = Garbage /\ p \div BlockSize > off \div BlockSize
         \/ v \in {0, Untouched} /\ faults' > 0
  PROVE  InPlaceThen(v, p)
<1>1. log' = log /\ log \in Nat /\ (overtaken => overtaken') /\ ~AppendCopies
  BY Frames DEF IInv, TypeOK, Open, Opening, FreeCaches, AppendCopies
<1>2. \A l \in 1 .. log : WrittenThen(l, p) = Written(l, p)
  BY <1>1, WrittenStays
<1>3. WrittenThen(log, p) = Written(log, p)
  BY <1>1, WrittenStays
<1>4. 1 .. log - 1 \subseteq 1 .. log
  BY <1>1
<1> QED
  BY <1>1, <1>2, <1>3, <1>4 DEF InPlaceThen

\* A function on 1 .. n is a sequence.
LEMMA FunctionIsSeq ==
  ASSUME NEW n \in Nat, NEW S, NEW f \in [1 .. n -> S]
  PROVE  f \in Seq(S)
OBVIOUS

\* What a read delivers is bytes.
LEMMA ReadTypes ==
  ASSUME IInv, ReadReturns \/ ReadFails
  PROVE  buf' \in Seq(Bytes)
<1>1. TypeOK /\ Block \in Ids
  BY DEF IInv, ReadReturns, ReadFails
<1>2. device \in [Ids -> [Place -> Bytes]] /\ len \in Nat
  BY <1>1, Sizes DEF TypeOK
<1>3. ASSUME NEW d \in [Ids -> [Place -> Bytes]] PROVE FromDevice(d) \in Seq(Bytes)
  <2>1. \A k \in 1 .. len : FromDevice(d)[k] \in Bytes
    BY <1>1, <1>2, ZeroInBytes DEF FromDevice
  <2>2. FromDevice(d) \in [1 .. len -> Bytes]
    BY <2>1 DEF FromDevice
  <2> QED
    BY <1>2, <2>2, FunctionIsSeq
<1>4. CASE ReadReturns
  BY <1>2, <1>3, <1>4 DEF ReadReturns
<1>5. CASE ReadFails
  <2>1. CASE Found
    <3>1. buf' = [k \in 1 .. len |-> Untouched]
      BY <1>5, <2>1 DEF ReadFails
    <3>2. buf' \in [1 .. len -> Bytes]
      BY <3>1, ZeroInBytes
    <3> QED
      BY <1>2, <3>2, FunctionIsSeq
  <2>2. CASE ~Found
    <3> DEFINE d == [device EXCEPT ![Block] = Zeros]
    <3>1. buf' = FromDevice(d)
      BY <1>5, <2>2 DEF ReadFails
    <3>2. Zeros \in [Place -> Bytes]
      BY ZeroInBytes DEF Zeros
    <3>3. d \in [Ids -> [Place -> Bytes]]
      BY <1>1, <1>2, <3>2
    <3> HIDE DEF d
    <3> QED
      BY <1>3, <3>1, <3>3
  <2> QED
    BY <2>1, <2>2
<1> QED
  BY <1>4, <1>5

\* What the caller has is bytes, before and after a step.
LEMMA TypeBuf ==
  ASSUME IInv, Next
  PROVE  buf' \in Seq(Bytes)
<1>1. Answered => buf' = <<>>
  BY DEF Answered
<1>2. buf \in Seq(Bytes) /\ <<>> \in Seq(Bytes) /\ TypeOK
  BY DEF IInv, TypeOK
<1> QED
  BY <1>1, <1>2, ReadTypes, Frames

LEMMA BufStep ==
  ASSUME IInv, Next
  PROVE  BufInv'
<1>1. TypeOK /\ LockInv /\ CallInv /\ BufInv /\ off \in Nat
  BY Sizes DEF IInv, TypeOK
<1>2. SUFFICES ASSUME pc' \in {"again", "answer"}, NEW k \in DOMAIN buf'
      PROVE InPlaceThen(buf'[k], off' + k - 1)
  BY DEF BufInv, InPlace, InPlaceThen, Written, WrittenThen, Byte
<1> DEFINE p == off + k - 1
<1>3. k \in Nat \ {0} /\ p \in Nat
  <2>1. buf' \in Seq(Bytes)
    BY TypeBuf
  <2>2. k \in Nat \ {0}
    BY <1>2, <2>1
  <2> QED
    BY <1>1, <2>2
<1>4. CASE ReadReturns
  <2>1. /\ pc = "lookup" /\ off' = off /\ buf' = FromDevice(device) /\ fresh' = flushed
        /\ off \div BlockSize \in Ids
    BY <1>4 DEF ReadReturns, Block
  <2>2. k \in DOMAIN FromDevice(device)
    BY <2>1
  <2>3. \/ buf'[k] \in Written(log, p)
        \/ p >= fresh' /\ \/ buf'[k] = 0
                          \/ \E l \in 1 .. log - 1 : buf'[k] \in Written(l, p)
                          \/ buf'[k] = Freed /\ overtaken
        \/ buf'[k] = Garbage /\ p \div BlockSize > off \div BlockSize
    BY <2>1, <2>2, DeliveredIs
  <2> HIDE DEF p
  <2>4. InPlaceThen(buf'[k], p)
    BY <1>3, <2>1, <2>3, InPlaceStays
  <2> QED
    BY <2>1, <2>4 DEF p
<1>5. CASE ReadFails
  <2>1. faults' > 0 /\ off' = off /\ pc = "lookup" /\ len \in Nat
    BY <1>1, <1>5, LockFaults, Sizes DEF ReadFails, Fault, TypeOK
  <2>2. \/ buf'[k] \in {0, Untouched}
        \/ buf'[k] = Garbage /\ p \div BlockSize > off \div BlockSize
    <3>1. CASE Found
      <4>1. buf' = [j \in 1 .. len |-> Untouched]
        BY <1>5, <3>1 DEF ReadFails
      <4> QED
        BY <1>2, <4>1
    <3>2. CASE ~Found
      <4> DEFINE b == off \div BlockSize
                 at == (off % BlockSize) + k
                 d == [device EXCEPT ![b] = Zeros]
      <4>1. buf' = FromDevice(d) /\ b \in Ids /\ DOMAIN device = Ids
        BY <1>1, <1>5, <3>2 DEF ReadFails, Block, TypeOK
      <4>2. d[b] = Zeros
        BY <4>1
      <4>3. at \notin Place => p \div BlockSize > b
        BY <1>1, <1>3, ReadPlace
      <4> HIDE DEF d
      <4>4. k \in 1 .. len /\ buf'[k] = IF at \in Place THEN d[b][at] ELSE Garbage
        BY <1>2, <4>1 DEF FromDevice, Block
      <4>5. at \in Place => Zeros[at] = 0
        BY DEF Zeros
      <4> HIDE DEF at, b
      <4> QED
        BY <4>2, <4>3, <4>4, <4>5 DEF b
    <3> QED
      BY <3>1, <3>2
  <2> HIDE DEF p
  <2>3. InPlaceThen(buf'[k], p)
    BY <1>3, <2>1, <2>2, InPlaceStays
  <2> QED
    BY <2>1, <2>3 DEF p
<1>6. CASE ~ReadReturns /\ ~ReadFails
  <2>1. pc \in {"again", "answer"} /\ ~Answered /\ buf' = buf /\ fresh' = fresh
    BY <1>1, <1>2, <1>6, Frames, Moves
  <2>2. off' = off
    <3>1. ~CallAppend /\ ~AppendCopies /\ ~AppendReturns /\ ~CallRead /\ ~Answered
      BY <2>1 DEF CallAppend, AppendCopies, AppendReturns, CallRead
    <3> QED
      BY <1>1, <3>1, Frames
  <2>3. faults > 0 => faults' > 0
    <3>1. faults' = faults \/ Fault
      BY <1>1, NextIs DEF Open, CallAppend, CallRead, FreeCaches, AppendLocks, AppendCopies,
         AppendReturns, ReadLocks, ReadWakes, ReadReturns, ReadAborts, ReadUnlocksAgain, Answered,
         Cancel, Join, StartUnlocksR, StartUnlocksW, Wait, Wakes, LocksR, Writes,
         WriteAborts, WritesFreed, RoundEnds, UnlocksW, Cancelled, OpenFails,
         AppendCrashes, ReadCrashes, WriteFails, Spurious, ReadFails
    <3> QED
      BY <1>1, <3>1, LockFaults DEF TypeOK
  <2>4. InPlace(buf[k], p)
    BY <1>1, <1>2, <2>1 DEF BufInv
  <2> HIDE DEF p
  <2>5. InPlaceThen(buf[k], p)
    BY <1>3, <2>1, <2>2, <2>3, <2>4, InPlaceStays DEF InPlace
  <2> QED
    BY <2>1, <2>2, <2>5 DEF p
<1> QED
  BY <1>4, <1>5, <1>6

-----------------------------------------------------------------------------
(* The types.                                                              *)

LEMMA TypePlaces ==
  ASSUME TypeOK, LockInv, Next
  PROVE  /\ {wlock', rlock', dlock'} \subseteq {"none", "caller", "worker"}
         /\ pc' \in {"closed", "idle", "append", "copy", "read", "rwait", "rwoken", "lookup",
                     "again", "answer", "cancel", "join", "crash"}
         /\ worker' \in {"none", "start", "started", "top", "wait", "woken", "lock", "round",
                         "ended", "dead"}
         /\ {cancelled', dangling'} \subseteq BOOLEAN
         /\ faults' \in 0 .. MaxFaults
<1> USE DEF cache, locks, call, thread, past
<1>1. /\ {wlock', rlock', dlock'} \subseteq {"none", "caller", "worker"}
      /\ pc' \in {"closed", "idle", "append", "copy", "read", "rwait", "rwoken", "lookup",
                  "again", "answer", "cancel", "join", "crash"}
      /\ worker' \in {"none", "start", "started", "top", "wait", "woken", "lock", "round",
                      "ended", "dead"}
  BY NextIs DEF Open, Opening, CallAppend, CallRead, FreeCaches, AppendLocks, AppendCopies,
     AppendReturns, ReadLocks, ReadWakes, ReadReturns, ReadAborts, ReadUnlocksAgain, Answered,
     Cancel, Join, StartUnlocksR, StartUnlocksW, Wait, Wakes, LocksR, Writes,
     Writing, WriteAborts, WritesFreed, RoundEnds, UnlocksW, Cancelled, OpenFails,
     AppendCrashes, ReadFails, ReadCrashes, WriteFails, Spurious, Crash, Fault,
     Signalled, TypeOK
<1>2. cancelled' \in BOOLEAN
  BY Frames DEF Cancel, Join, TypeOK
<1>3. dangling' \in BOOLEAN
  BY Frames DEF FreeCaches, WritesFreed, Crash, TypeOK
<1>4. faults' \in 0 .. MaxFaults
  <2>1. faults' = faults \/ Fault
    BY NextIs DEF Open, CallAppend, CallRead, FreeCaches, AppendLocks, AppendCopies,
       AppendReturns, ReadLocks, ReadWakes, ReadReturns, ReadAborts, ReadUnlocksAgain, Answered,
       Cancel, Join, StartUnlocksR, StartUnlocksW, Wait, Wakes, LocksR, Writes,
       WriteAborts, WritesFreed, RoundEnds, UnlocksW, Cancelled, OpenFails,
       AppendCrashes, ReadCrashes, WriteFails, Spurious, ReadFails
  <2> QED
    BY <2>1, Sizes DEF Fault, TypeOK
<1> QED
  BY <1>1, <1>2, <1>3, <1>4

\* What a round of an append leaves is of the types.
LEMMA CopyTypes ==
  ASSUME IInv, AppendCopies
  PROVE  /\ size' \in 0 .. MaxLog /\ told' \in 0 .. MaxLog
         /\ wcache' \in Seq([id : Nat, data : [Place -> Bytes], size : 1 .. BlockSize])
         /\ Len(wcache') = Nth /\ Nth * BlockSize < MaxLog + BlockSize /\ Nth \in Nat
         /\ len' \in 0 .. MaxLog + MaxPast
         /\ split' \subseteq (1 .. MaxLogs) \X (0 .. MaxLog - 1) \X (0 .. MaxLog - 1)
<1>1. /\ TypeOK /\ LockInv /\ CallInv /\ ListInv /\ SizeInv /\ CloseInv
      /\ size = told /\ log # 0 /\ told + len <= MaxLog /\ off <= told
      /\ len \in Nat /\ told \in Nat
      /\ told' = told + CopySize /\ size' = size + CopySize /\ len' = len - CopySize
      /\ split' = IF told = off THEN split
                  ELSE split \cup {<<log, p, off + (p - told)>> : p \in told .. told + CopySize - 1}
  BY CopyUses
<1>2. CopySize \in Nat \ {0} /\ CopySize <= len
  BY <1>1, CopyRoom, Sizes
<1>3. /\ Nth \in Nat \ {0} /\ (~NeedsNew => Nth \in DOMAIN wcache)
      /\ Filling.data \in [Place -> Bytes]
      /\ Filling.size \in 0 .. BlockSize - 1 /\ CopySize \in 1 .. BlockSize - Filling.size
      /\ (Nth - 1) * BlockSize \in Nat /\ told = ((Nth - 1) * BlockSize) + Filling.size
  BY <1>1, FillingIs
<1>4. Stored(Filling.data, Filling.size) \in [Place -> Bytes]
  <2> DEFINE s == Filling.size
             d == Filling.data
             c == CopySize
  <2>1. ASSUME NEW k \in Place, k - s \in 1 .. c
        PROVE  Byte(log, off + k - s - 1) \in Bytes
    <3>1. off + k - s - 1 \in 0 .. MaxLog - 1
      <4>1. off \in Nat /\ told \in Nat /\ len \in Nat /\ MaxLog \in Nat /\ s \in Nat
            /\ k \in Nat /\ c \in Nat /\ c <= len /\ told + len <= MaxLog /\ off <= told
        BY <1>1, <1>2, <1>3, Sizes DEF Place, TypeOK
      <4> HIDE DEF s, c
      <4> QED
        BY <4>1, <2>1
    <3>2. log \in 0 .. MaxLogs
      BY <1>1 DEF TypeOK
    <3> DEFINE p == off + k - s - 1
    <3>3. p \in 0 .. MaxLog - 1
      BY <3>1
    <3> HIDE DEF p
    <3>4. Byte(log, p) \in Bytes
      BY <3>2, <3>3, ByteInBytes
    <3> QED
      BY <3>4 DEF p
  <2>2. \A k \in Place : d[k] \in Bytes
    BY <1>3
  <2>3. \A k \in Place : (IF k - s \in 1 .. c THEN Byte(log, off + k - s - 1) ELSE d[k]) \in Bytes
    BY <2>1, <2>2
  <2> HIDE DEF d, s, c
  <2>4. [k \in Place |-> IF k - s \in 1 .. c THEN Byte(log, off + k - s - 1) ELSE d[k]]
          \in [Place -> Bytes]
    BY <2>3
  <2> QED
    BY <2>4 DEF Stored, d, s, c
<1>5. wcache' \in Seq([id : Nat, data : [Place -> Bytes], size : 1 .. BlockSize])
  <2> DEFINE B == [id : Nat, data : [Place -> Bytes], size : 1 .. BlockSize]
             c == Copied(Filling)
  <2>1. c \in B
    <3>1. c = [id |-> Nth - 1, data |-> Stored(Filling.data, Filling.size),
               size |-> Filling.size + CopySize]
      BY <1>1, FillingIs, CopiedIs
    <3>2. Nth - 1 \in Nat /\ Filling.size + CopySize \in 1 .. BlockSize
      BY <1>3, Sizes
    <3> HIDE DEF c
    <3> QED
      BY <3>1, <3>2, <1>4
  <2>2. wcache \in Seq(B)
    BY <1>1 DEF TypeOK
  <2>3. wcache' = IF NeedsNew THEN Append(wcache, c) ELSE [wcache EXCEPT ![Len(wcache)] = c]
    BY DEF AppendCopies, Filling
  <2> HIDE DEF B, c
  <2>4. CASE NeedsNew
    BY <2>1, <2>2, <2>3, <2>4 DEF B
  <2>5. CASE ~NeedsNew
    <3> DEFINE n == Len(wcache)
    <3>1. wcache' = [wcache EXCEPT ![n] = c] /\ n \in Nat
      BY <2>2, <2>3, <2>5
    <3>2. wcache \in [1 .. n -> B]
      BY <2>2
    <3> HIDE DEF n
    <3>3. wcache' \in [1 .. n -> B]
      BY <2>1, <3>1, <3>2
    <3>4. wcache' \in Seq(B)
      BY <3>1, <3>3, FunctionIsSeq
    <3> QED
      BY <3>4 DEF B
  <2> QED
    BY <2>4, <2>5
<1>6. Len(wcache') = Nth
  BY <1>1, CopyFills
<1>7. Nth * BlockSize < MaxLog + BlockSize
  <2>1. ((Nth - 1) * BlockSize) + BlockSize = Nth * BlockSize
    BY <1>3, Sizes
  <2> DEFINE x == (Nth - 1) * BlockSize
             y == Nth * BlockSize
  <2>2. x \in Nat /\ x + BlockSize = y /\ told = x + Filling.size
    BY <1>3, <2>1
  <2> HIDE DEF x, y
  <2>3. y < MaxLog + BlockSize
    BY <1>1, <1>2, <1>3, <2>2, Sizes
  <2> QED
    BY <2>3 DEF y
<1>8. split' \subseteq (1 .. MaxLogs) \X (0 .. MaxLog - 1) \X (0 .. MaxLog - 1)
  <2>1. log \in 1 .. MaxLogs /\ split \subseteq (1 .. MaxLogs) \X (0 .. MaxLog - 1) \X (0 .. MaxLog - 1)
    BY <1>1, Sizes DEF TypeOK
  <2>2. off \in Nat
    BY <1>1, Sizes DEF TypeOK
  <2>3. \A p \in told .. told + CopySize - 1 : /\ p \in 0 .. MaxLog - 1
                                             /\ off + (p - told) \in 0 .. MaxLog - 1
    BY <1>1, <1>2, <2>2, Sizes
  <2>4. {<<log, p, off + (p - told)>> : p \in told .. told + CopySize - 1}
          \subseteq (1 .. MaxLogs) \X (0 .. MaxLog - 1) \X (0 .. MaxLog - 1)
    BY <2>1, <2>3
  <2> QED
    BY <1>1, <2>1, <2>4
<1>9. told' \in 0 .. MaxLog /\ size' \in 0 .. MaxLog /\ len' \in 0 .. MaxLog + MaxPast
  <2>1. /\ len \in Nat /\ told \in Nat /\ told + len <= MaxLog /\ MaxLog \in Nat
        /\ MaxPast \in Nat /\ size = told
        /\ told' = told + CopySize /\ size' = size + CopySize /\ len' = len - CopySize
    BY <1>1, Sizes
  <2> QED
    BY <1>2, <2>1
<1> QED
  BY <1>3, <1>5, <1>6, <1>7, <1>8, <1>9

\* What a write of the worker leaves is of the types.
LEMMA WriteTypes ==
  ASSUME IInv, Writes
  PROVE  /\ size' \in 0 .. MaxLog /\ current' \in 0 .. wcache_blocks + 1
         /\ device' \in [Ids -> [Place -> Bytes]]
<1> DEFINE c == current
           n == Len(wcache)
           s == wcache[c].size
<1>1. TypeOK /\ SizeInv /\ ListInv
  BY DEF IInv
<1>2. /\ Using /\ worker = "round" /\ c \in DOMAIN wcache /\ c \in Nat \ {0} /\ c - 1 \in Ids
      /\ wcache[c].data \in [Place -> Bytes] /\ s \in 1 .. BlockSize
      /\ device' = [device EXCEPT ![c - 1] = wcache[c].data]
      /\ size' = size + s /\ current' = c + 1
  BY WriteUses
<1>3. n \in Nat /\ DOMAIN wcache = 1 .. n /\ (wcache = <<>>) = (n = 0)
  BY <1>1, BlockIs
<1>4. wcache[n].size \in Nat
  BY <1>1, <1>2, <1>3, BlockIs, Sizes
<1>5. c <= n /\ n # 0 /\ wcache # <<>>
  BY <1>2, <1>3
<1>6. size = (c - 1) * BlockSize
  BY <1>1, <1>2, <1>5 DEF SizeInv
<1>7. told = ((n - 1) * BlockSize) + wcache[n].size
  BY <1>1, <1>2, <1>5 DEF ListInv
<1>8. told \in Nat /\ told <= MaxLog /\ MaxLog \in Nat
  BY <1>1, Sizes DEF TypeOK
<1>9. size' \in 0 .. MaxLog
  <2>1. CASE c = n
    <3>1. size' = told
      BY <2>1, <1>2, <1>6, <1>7
    <3> QED
      BY <3>1, <1>8
  <2>2. CASE c < n
    <3> DEFINE x == (c - 1) * BlockSize
               y == (n - 1) * BlockSize
    <3>1. x \in Int /\ y \in Int /\ x + BlockSize <= y
      BY <2>2, <1>2, <1>3, BlocksInOrder
    <3>2. x \in Nat
      BY <1>2, Sizes
    <3>3. size' = x + s /\ told = y + wcache[n].size
      BY <1>2, <1>6, <1>7
    <3> HIDE DEF x, y, s
    <3>4. x + s >= 0 /\ x + s <= y + wcache[n].size
      BY <3>1, <3>2, <1>2, <1>4, Sizes
    <3> QED
      BY <3>1, <3>2, <3>3, <3>4, <1>2, <1>8, Sizes
  <2> QED
    BY <2>1, <2>2, <1>2, <1>3, <1>5
<1>10. current' \in 0 .. wcache_blocks + 1
  <2>1. n <= wcache_blocks /\ wcache_blocks \in Nat
    BY <1>1 DEF TypeOK
  <2> HIDE DEF n, c
  <2> QED
    BY <2>1, <1>2, <1>3, <1>5
<1>11. device' \in [Ids -> [Place -> Bytes]]
  <2>1. device \in [Ids -> [Place -> Bytes]]
    BY <1>1 DEF TypeOK
  <2> HIDE DEF c
  <2> QED
    BY <2>1, <1>2
<1> QED
  BY <1>9, <1>10, <1>11

LEMMA TypeStep ==
  ASSUME IInv, Next
  PROVE  TypeOK'
<1>1. TypeOK /\ LockInv /\ CallInv /\ CloseInv /\ ListInv'
  BY ListStep DEF IInv
<1>2. size' \in 0 .. MaxLog
  <2>1. LocksR \/ Join => size' = 0
    BY DEF LocksR, Join
  <2> QED
    BY <1>1, <2>1, CopyTypes, WriteTypes, Frames, Sizes DEF TypeOK
<1>3. told' \in 0 .. MaxLog
  <2>1. Join => told' = 0
    BY DEF Join
  <2> QED
    BY <1>1, <2>1, CopyTypes, Frames, Sizes DEF TypeOK
<1>4. wcache' \in Seq([id : Nat, data : [Place -> Bytes], size : 1 .. BlockSize])
  <2> DEFINE S == Seq([id : Nat, data : [Place -> Bytes], size : 1 .. BlockSize])
  <2>1. FreeCaches => wcache' = <<>>
    BY DEF FreeCaches
  <2>2. <<>> \in S /\ wcache \in S /\ (AppendCopies => wcache' \in S)
    BY <1>1, CopyTypes DEF TypeOK
  <2> HIDE DEF S
  <2>3. wcache' \in S
    BY <1>1, <2>1, <2>2, Frames
  <2> QED
    BY <2>3 DEF S
<1>5. /\ wcache_blocks' \in Nat /\ wcache_blocks' * BlockSize < MaxLog + BlockSize
      /\ Len(wcache') <= wcache_blocks'
  <2>1. CASE AppendCopies
    BY <1>1, <2>1, CopyTypes, CopyUses DEF ListInv
  <2>2. CASE Join
    <3>1. wcache_blocks' = 0 /\ wcache' = wcache /\ pc = "join"
      BY <2>2 DEF Join
    <3>2. wcache' = <<>>
      BY <1>1, <3>1 DEF CloseInv
    <3>3. 0 * BlockSize = 0
      BY Sizes
    <3> QED
      BY <3>1, <3>2, <3>3, Sizes
  <2>3. CASE ~AppendCopies /\ ~Join
    <3>1. wcache_blocks' = wcache_blocks
      BY <1>1, <2>3, Frames
    <3>2. Len(wcache') <= Len(wcache) \/ wcache' = wcache
      <4>1. FreeCaches => Len(wcache') = 0
        BY DEF FreeCaches
      <4> QED
        BY <1>1, <2>3, <4>1, Frames, BlockIs
    <3>3. /\ wcache_blocks \in Nat /\ wcache_blocks * BlockSize < MaxLog + BlockSize
          /\ Len(wcache) <= wcache_blocks
      BY <1>1 DEF TypeOK
    <3>4. Len(wcache') <= wcache_blocks
      <4>1. FreeCaches => Len(wcache') = 0
        BY DEF FreeCaches
      <4> QED
        BY <1>1, <2>3, <3>3, <4>1, Frames
    <3> QED
      BY <3>1, <3>3, <3>4
  <2> QED
    BY <2>1, <2>2, <2>3
<1>6. rcache' \subseteq Ids
  <2>1. pc = "again" => Block \in Ids
    BY <1>1 DEF CallInv, Block
  <2>2. rcache \subseteq Ids
    BY <1>1 DEF TypeOK
  <2> QED
    BY <1>1, <2>1, <2>2, Frames DEF ReadReturns, ReadUnlocksAgain, FreeCaches
<1>7. off' \in 0 .. MaxLog /\ len' \in 0 .. MaxLog + MaxPast
  <2>1. off \in 0 .. MaxLog /\ told \in 0 .. MaxLog /\ len \in 0 .. MaxLog + MaxPast
    BY <1>1 DEF TypeOK
  <2>2. CASE AppendCopies
    BY <2>1, <2>2, CopyTypes, CopyUses
  <2>3. CASE CallAppend
    BY <2>1, <2>3, Sizes DEF CallAppend
  <2>4. CASE AppendReturns
    BY <2>1, <2>4, Sizes DEF AppendReturns
  <2>5. CASE CallRead
    BY <2>1, <2>5, Sizes DEF CallRead
  <2>6. CASE Answered
    BY <2>6, Sizes DEF Answered
  <2> QED
    BY <1>1, <2>1, <2>2, <2>3, <2>4, <2>5, <2>6, Frames
<1>8. current' \in 0 .. wcache_blocks' + 1
  <2>1. current \in 0 .. wcache_blocks + 1 /\ wcache_blocks \in Nat /\ wcache_blocks' \in Nat
    BY <1>1, <1>5 DEF TypeOK
  <2>2. CASE AppendCopies
    <3>1. current' = current /\ wcache_blocks' = wcache_blocks + (IF NeedsNew THEN 1 ELSE 0)
      BY <2>2, CopyUses
    <3>2. wcache_blocks' >= wcache_blocks
      BY <2>1, <3>1
    <3> QED
      BY <2>1, <3>1, <3>2
  <2>3. CASE Join
    BY <2>1, <2>3 DEF Join
  <2>4. CASE ~AppendCopies /\ ~Join
    <3>1. wcache_blocks' = wcache_blocks
      BY <1>1, <2>4, Frames
    <3>2. /\ LocksR => current' = 1
          /\ UnlocksW => current' = 0
      BY DEF LocksR, UnlocksW
    <3>3. Writes => current' \in 0 .. wcache_blocks + 1
      BY WriteTypes
    <3> QED
      BY <1>1, <2>1, <2>4, <3>1, <3>2, <3>3, Frames
  <2> QED
    BY <2>2, <2>3, <2>4
<1>9. device' \in [Ids -> [Place -> Bytes]]
  <2>1. device \in [Ids -> [Place -> Bytes]]
    BY <1>1 DEF TypeOK
  <2>2. CASE WritesFreed
    <3>1. [k \in Place |-> Freed] \in [Place -> Bytes]
      BY ZeroInBytes
    <3> DEFINE z == [k \in Place |-> Freed]
    <3>2. device' = device \/ \E i \in Ids : device' = [device EXCEPT ![i] = z]
      BY <2>2 DEF WritesFreed, Crash
    <3> HIDE DEF z
    <3> QED
      BY <2>1, <3>1, <3>2 DEF z
  <2> QED
    BY <1>1, <2>1, <2>2, WriteTypes, Frames
<1>10. buf' \in Seq(Bytes)
  BY TypeBuf
<1>11. log' \in 0 .. MaxLogs
  <2>1. Open => log' = log + 1 /\ log < MaxLogs
    BY DEF Open, Opening
  <2> QED
    BY <1>1, <2>1, Frames, Sizes DEF TypeOK
<1>12. split' \subseteq (1 .. MaxLogs) \X (0 .. MaxLog - 1) \X (0 .. MaxLog - 1)
  BY <1>1, CopyTypes, Frames DEF TypeOK
<1>13. flushed' \in 0 .. MaxLog /\ fresh' \in 0 .. MaxLog
  <2>1. told \in 0 .. MaxLog /\ flushed \in 0 .. MaxLog /\ fresh \in 0 .. MaxLog
        /\ 0 \in 0 .. MaxLog
    BY <1>1, Sizes DEF TypeOK
  <2>2. /\ RoundEnds => flushed' = told
        /\ Join => flushed' = 0
        /\ ReadReturns \/ ReadFails => fresh' = flushed
        /\ Answered => fresh' = 0
    BY DEF RoundEnds, Join, ReadReturns, ReadFails, Answered
  <2> QED
    BY <1>1, <2>1, <2>2, Frames
<1>14. overtaken' \in BOOLEAN
  BY <1>1, Frames DEF FreeCaches, TypeOK
<1>15. TypeOK'
  BY <1>1, <1>2, <1>3, <1>4, <1>5, <1>6, <1>7, <1>8, <1>9, <1>10, <1>11, <1>12,
     <1>13, <1>14, TypePlaces, Zenon
     DEF TypeOK
<1> QED
  BY <1>15

-----------------------------------------------------------------------------
(* The invariant.                                                          *)

LEMMA InvInit == Init => IInv
<1> SUFFICES ASSUME Init PROVE IInv
  OBVIOUS
<1>1. Zeros \in [Place -> Bytes] /\ 0 * BlockSize = 0
  BY ZeroInBytes, Sizes DEF Zeros
<1>2. TypeOK
  <2>1. size \in 0 .. MaxLog /\ told \in 0 .. MaxLog /\ off \in 0 .. MaxLog
        /\ log \in 0 .. MaxLogs /\ faults \in 0 .. MaxFaults
        /\ len \in 0 .. MaxLog + MaxPast
        /\ flushed \in 0 .. MaxLog /\ fresh \in 0 .. MaxLog
    BY Sizes DEF Init
  <2>2. wcache = <<>> /\ Len(wcache) = 0 /\ buf = <<>> /\ wcache_blocks = 0 /\ current = 0
    BY DEF Init
  <2>3. wcache_blocks * BlockSize < MaxLog + BlockSize
    BY <1>1, <2>2, Sizes
  <2>4. device \in [Ids -> [Place -> Bytes]]
    BY <1>1 DEF Init
  <2>5. wcache \in Seq([id : Nat, data : [Place -> Bytes], size : 1 .. BlockSize])
        /\ buf \in Seq(Bytes)
    BY <2>2
  <2>6. wcache_blocks \in Nat /\ Len(wcache) <= wcache_blocks /\ current \in 0 .. wcache_blocks + 1
    BY <2>2
  <2> QED
    BY <2>1, <2>3, <2>4, <2>5, <2>6 DEF Init, TypeOK
<1>3. LockInv /\ CloseInv /\ CallInv /\ RoundInv /\ BufInv
  BY DEF Init, LockInv, CloseInv, CallInv, RoundInv, BufInv, Using
<1>4. ListInv /\ SizeInv /\ ByteInv /\ SplitInv /\ FlushInv
  BY DEF Init, ListInv, SizeInv, ByteInv, SplitInv, FlushInv, Using
<1>5. DeviceInv
  BY DEF Init, DeviceInv, Fits, Zeros
<1> QED
  BY <1>2, <1>3, <1>4, <1>5 DEF IInv

LEMMA InvStep == IInv /\ [Next]_vars => IInv'
<1>1. ASSUME IInv, Next PROVE IInv'
  <2>1. LockInv'
    BY <1>1, LockStep DEF IInv
  <2> QED
    BY <1>1, <2>1, TypeStep, CloseStep, CallStep, ListStep, SizeStep, ByteStep, SplitStep,
       RoundStep, FlushStep, DeviceStep, BufStep DEF IInv
<1>2. ASSUME IInv, UNCHANGED vars PROVE IInv'
  <2> USE <1>2 DEF IInv, vars, cache, locks, call, thread, past, Using
  <2>1. TypeOK' /\ LockInv' /\ CloseInv' /\ CallInv'
    BY DEF TypeOK, LockInv, CloseInv, CallInv
  <2>2. ListInv' /\ SizeInv'
    BY DEF ListInv, SizeInv
  <2>3. SplitInv' /\ RoundInv' /\ FlushInv'
    BY DEF SplitInv, RoundInv, FlushInv, Stands
  <2>4. \A l, p : WrittenThen(l, p) = Written(l, p)
    BY WrittenSame
  <2>5. ByteInv'
    <3>1. ByteInv' <=> (Using' =>
            \A i \in DOMAIN wcache', k \in Place :
              LET p == Place0(i, k) IN
              /\ p < told' => wcache'[i].data[k] \in WrittenThen(log', p)
              /\ p >= told' => wcache'[i].data[k] = 0)
      BY DEF ByteInv, Written, WrittenThen, Byte, Place0
    <3> QED
      BY <2>4, <3>1 DEF ByteInv
  <2>6. DeviceInv'
    <3>1. DeviceInv' <=> \A b \in Ids, k \in Place :
                           FitsThen(device'[b][k], (b * BlockSize) + (k - 1))
      BY DEF DeviceInv, Fits, FitsThen, Written, WrittenThen, Byte
    <3>2. \A v, p : FitsThen(v, p) <=> Fits(v, p)
      BY <2>4 DEF Fits, FitsThen
    <3> QED
      BY <3>1, <3>2 DEF DeviceInv
  <2>7. BufInv'
    <3>1. BufInv' <=> (pc' \in {"again", "answer"} =>
                         \A k \in DOMAIN buf' : InPlaceThen(buf'[k], off' + k - 1))
      BY DEF BufInv, InPlace, InPlaceThen, Written, WrittenThen, Byte
    <3>2. \A v, p : InPlaceThen(v, p) <=> InPlace(v, p)
      BY <2>4 DEF InPlace, InPlaceThen
    <3> QED
      BY <3>1, <3>2 DEF BufInv
  <2> QED
    BY <2>1, <2>2, <2>3, <2>5, <2>6, <2>7
<1> QED
  BY <1>1, <1>2

LEMMA InvHolds == Spec => []IInv
<1>1. Init => IInv
  BY InvInit
<1>2. IInv /\ [Next]_vars => IInv'
  BY InvStep
<1> QED
  BY <1>1, <1>2, PTL DEF Spec

-----------------------------------------------------------------------------
(* Sizes stay within the log, whatever the worker has counted so far, and  *)
(* the list within what its bytes need (logfs.c:115, 170).                 *)
THEOREM TypeCorrect == Spec => []TypeOK
<1>1. IInv => TypeOK
  BY DEF IInv
<1> QED
  BY <1>1, InvHolds, PTL

(* The worker has the write mutex for the whole of a round, and the read    *)
(* mutex but for a reader's second unlocking; a closed log leaves those two *)
(* to nobody but an open that failed, and the device's to nobody but a      *)
(* worker whose list close has freed (logfs.c:79, 105, 143, 300).           *)
THEOREM MutexesHold == Spec => []MutexDiscipline
<1>1. IInv => MutexDiscipline
  BY DEF IInv, LockInv, MutexDiscipline, RoundIsAlone, MutexesComeBack
<1> QED
  BY <1>1, InvHolds, PTL

(* The list of blocks is the log: blocks in a row, full but for the last,  *)
(* and in every place the byte that was appended, or the one that          *)
(* logfs.c:205 copies instead of it.                                       *)
THEOREM CacheIsLog == Spec => []CacheHoldsLog
<1>1. IInv => CacheHoldsLog
  <2> SUFFICES ASSUME IInv, Using
      PROVE /\ Len(wcache) = wcache_blocks
            /\ \A i \in DOMAIN wcache : wcache[i].id = i - 1
            /\ \A i \in DOMAIN wcache : /\ wcache[i].size <= BlockSize
                                        /\ i < Len(wcache) => wcache[i].size = BlockSize
            /\ told = IF wcache = <<>> THEN 0
                      ELSE ((Len(wcache) - 1) * BlockSize) + Last(wcache).size
            /\ \A p \in 0 .. told - 1 : At(Cached, p) \in Written(log, p)
            /\ worker \notin {"round", "dead"} => size = told
    BY DEF CacheHoldsLog
  <2>1. TypeOK /\ ListInv /\ SizeInv /\ ByteInv
    BY DEF IInv
  <2>2. ASSUME NEW p \in 0 .. told - 1 PROVE At(Cached, p) \in Written(log, p)
    <3> DEFINE i == (p \div BlockSize) + 1
               k == (p % BlockSize) + 1
    <3>1. i \in DOMAIN wcache /\ k \in Place /\ Place0(i, k) = p
      BY PlaceIsCached
    <3>2. At(Cached, p) = wcache[i].data[k]
      BY DEF At, Cached
    <3>3. p < told
      BY <2>1 DEF TypeOK
    <3> HIDE DEF i, k
    <3> QED
      BY <2>1, <3>1, <3>2, <3>3 DEF ByteInv
  <2>3. \A i \in DOMAIN wcache : wcache[i].size <= BlockSize
    BY <2>1, BlockIs, Sizes
  <2> QED
    BY <2>1, <2>2, <2>3 DEF ListInv, SizeInv, Last
<1> QED
  BY <1>1, InvHolds, PTL

(* When a round of the worker ends, the device has all that was appended   *)
(* before, and keeps it until the close, through later appends and rounds  *)
(* and what the device fails to do in them (logfs.c:112).                  *)
THEOREM RoundIsWhole == Spec => []RoundWritesAll
<1>1. IInv => RoundWritesAll
  <2> SUFFICES ASSUME IInv, Using
      PROVE /\ \A p \in 0 .. flushed - 1 : At(OnDevice, p) = At(Cached, p)
            /\ worker = "ended" => flushed = told
    BY DEF RoundWritesAll
  <2>1. TypeOK /\ FlushInv /\ flushed \in Nat /\ told \in Nat /\ flushed <= told
    BY DEF IInv, TypeOK, FlushInv
  <2>2. ASSUME NEW p \in 0 .. flushed - 1 PROVE At(OnDevice, p) = At(Cached, p)
    <3> DEFINE q == p \div BlockSize
               i == q + 1
               k == (p % BlockSize) + 1
    <3>1. p \in 0 .. told - 1 /\ p \in Nat /\ p < flushed
      BY <2>1
    <3>2. i \in DOMAIN wcache /\ k \in Place /\ Place0(i, k) = p
      BY <3>1, PlaceIsCached
    <3>3. i - 1 = q
      <4>1. q \in Nat
        BY <3>1, DivNat, Sizes
      <4> HIDE DEF q
      <4> QED
        BY <4>1
    <3>4. At(OnDevice, p) = (IF q \in Ids THEN device[q] ELSE Zeros)[k]
      BY DEF At, OnDevice
    <3>5. At(Cached, p) = wcache[i].data[k]
      BY DEF At, Cached
    <3> HIDE DEF q, i, k
    <3>6. i - 1 \in Ids /\ device[i - 1][k] = wcache[i].data[k]
      BY <2>1, <3>1, <3>2 DEF FlushInv
    <3> QED
      BY <3>3, <3>4, <3>5, <3>6
  <2> QED
    BY <2>1, <2>2 DEF FlushInv
<1> QED
  BY <1>1, InvHolds, PTL

(* What a read answers with 0 is, in every place, the byte appended there   *)
(* (behind a block's end the one copied instead of it), if a round had      *)
(* ended since the append.  Before that it may be nothing, a byte of an     *)
(* earlier log, or freed memory that a close let the worker write; behind   *)
(* the block the range begins in, what is in memory; and zeros or nothing   *)
(* at all if the device fails (logfs.c:280-304, against 245).               *)
THEOREM ReadsStayInPlace == Spec => []ReadsAreInPlace
<1>1. IInv => ReadsAreInPlace
  BY DEF IInv, BufInv, InPlace, ReadsAreInPlace
<1> QED
  BY <1>1, InvHolds, PTL
=============================================================================
