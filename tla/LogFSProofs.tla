---------------------------- MODULE LogFSProofs ----------------------------
(***************************************************************************)
(* Proofs about LogFS, for every block size, cache and device.             *)
(*                                                                         *)
(* InBounds is not inductive.  That head stays inside the buffer when it   *)
(* is padded, that tail stays in it when a block is taken back, and that a *)
(* read stays on the device, rest on the parts of IInv: tail is on a block *)
(* boundary, the padding is what separates head from a place inside the    *)
(* buffer, and block_id follows the position the read has come to.         *)
(***************************************************************************)
EXTENDS LogFS, TLAPS

-----------------------------------------------------------------------------
(* What the proofs need of % and \div.                                      *)

\* A remainder is less than its modulus.
LEMMA ModRange ==
  ASSUME NEW a \in Int, NEW n \in Nat \ {0}
  PROVE  a % n \in 0 .. n - 1
OBVIOUS

\* A number is a multiple, its quotient's, and its remainder.
LEMMA DivMod ==
  ASSUME NEW a \in Int, NEW n \in Nat \ {0}
  PROVE  /\ a \div n \in Int
         /\ a = ((a \div n) * n) + (a % n)
OBVIOUS

\* The quotient of a natural number is one.
LEMMA DivNat ==
  ASSUME NEW a \in Nat, NEW n \in Nat \ {0}
  PROVE  a \div n \in Nat
OBVIOUS

\* A number below the modulus is its own remainder.
LEMMA ModSmall ==
  ASSUME NEW n \in Nat \ {0}, NEW a \in 0 .. n - 1
  PROVE  a % n = a
OBVIOUS

\* A modulus leaves nothing.
LEMMA ModSelf ==
  ASSUME NEW n \in Nat \ {0}
  PROVE  n % n = 0
OBVIOUS

\* The remainder is the only number below n at the distance of a multiple.
LEMMA ModUnique ==
  ASSUME NEW q \in Int, NEW n \in Nat \ {0}, NEW r \in 0 .. n - 1
  PROVE  ((q * n) + r) % n = r
<1> DEFINE a == (q * n) + r
           d == (a \div n) - q
<1>1. a \in Int /\ d \in Int
  BY DivMod
<1>2. d * n = r - (a % n)
  BY <1>1, DivMod
<1>3. a % n \in 0 .. n - 1
  BY <1>1, ModRange
<1> HIDE DEF d, a
<1>4. CASE d >= 1
  <2>1. (d - 1) * n \in Nat
    BY <1>1, <1>4
  <2>2. d * n >= n
    BY <2>1, <1>1
  <2> QED
    BY <2>2, <1>2, <1>3, <1>1
<1>5. CASE d <= -1
  <2>1. (-d - 1) * n \in Nat
    BY <1>1, <1>5
  <2>2. d * n <= -n
    BY <2>1, <1>1
  <2> QED
    BY <2>2, <1>2, <1>3, <1>1
<1>6. CASE d = 0
  BY <1>6, <1>2, <1>3 DEF a
<1> QED
  BY <1>1, <1>4, <1>5, <1>6

\* Between two multiples of n there is room for n.
LEMMA MultipleBelow ==
  ASSUME NEW q \in Int, NEW w \in Int, NEW n \in Nat \ {0}, q * n < w * n
  PROVE  q < w /\ (q * n) + n <= w * n
<1>1. q < w
  OBVIOUS
<1>2. (w - q - 1) * n \in Nat
  BY <1>1
<1>3. (w - q - 1) * n = (w * n) - (q * n) - n
  OBVIOUS
<1> QED
  BY <1>1, <1>2, <1>3

\* Rounding a place of the buffer up to the end of its block stays inside.
LEMMA RoundUp ==
  ASSUME NEW a \in Nat, NEW w \in Nat, NEW n \in Nat \ {0}, a < w * n
  PROVE  a + (n - (a % n)) <= w * n
<1> DEFINE q == a \div n
<1>1. q \in Int /\ a = (q * n) + (a % n) /\ a % n \in 0 .. n - 1
  BY DivMod, ModRange
<1>2. q * n \in Int /\ w * n \in Int
  BY <1>1
<1> HIDE DEF q
<1>3. q * n < w * n
  BY <1>1, <1>2
<1>4. (q * n) + n <= w * n
  BY <1>1, <1>3, MultipleBelow
<1> QED
  BY <1>1, <1>2, <1>4

\* A block that starts inside the buffer, on a boundary, ends inside it.
LEMMA BlockFits ==
  ASSUME NEW a \in Nat, NEW w \in Nat, NEW n \in Nat \ {0}, a < w * n, a % n = 0
  PROVE  a + n <= w * n
<1>1. a + (n - (a % n)) <= w * n
  BY RoundUp
<1> QED
  BY <1>1

\* What is left of a place after its remainder is on a boundary.
LEMMA RoundDown ==
  ASSUME NEW a \in Nat, NEW n \in Nat \ {0}
  PROVE  /\ a - (a % n) \in 0 .. a
         /\ (a - (a % n)) % n = 0
<1> DEFINE q == a \div n
<1>1. q \in Nat /\ a = (q * n) + (a % n) /\ a % n \in 0 .. n - 1
  <2>1. q \in Nat
    BY DivNat
  <2>2. a = (q * n) + (a % n)
    BY DivMod
  <2> QED
    BY <2>1, <2>2, ModRange
<1>2. q * n \in Nat /\ 0 \in 0 .. n - 1
  BY <1>1
<1>3. ((q * n) + 0) % n = 0
  BY <1>1, <1>2, ModUnique
<1> HIDE DEF q
<1> QED
  BY <1>1, <1>2, <1>3

\* One block on, or one block back, from a boundary is a boundary.
LEMMA BoundaryNext ==
  ASSUME NEW a \in Int, NEW n \in Nat \ {0}, a % n = 0
  PROVE  (a + n) % n = 0 /\ (a - n) % n = 0
<1> DEFINE q == a \div n
<1>1. q \in Int /\ a = q * n
  BY DivMod
<1>2. a + n = ((q + 1) * n) + 0 /\ a - n = ((q - 1) * n) + 0
  BY <1>1
<1>3. 0 \in 0 .. n - 1
  OBVIOUS
<1> HIDE DEF q
<1> QED
  BY <1>1, <1>2, <1>3, ModUnique

\* A boundary other than zero is at least a block from it.
LEMMA BoundaryAtLeast ==
  ASSUME NEW a \in Nat, NEW n \in Nat \ {0}, a % n = 0, a # 0
  PROVE  a - n \in Nat
OBVIOUS

\* A remainder may be taken before adding.
LEMMA ModAdd ==
    ASSUME NEW a \in Int, NEW b \in Int, NEW m \in Nat \ {0}
    PROVE  ((a % m) + b) % m = (a + b) % m
<1> DEFINE q == a \div m
           s == a + b
           k == s \div m
<1>1. q \in Int /\ a = (q * m) + (a % m) /\ a % m \in Int
  BY DivMod, ModRange
<1>2. k \in Int /\ s = (k * m) + (s % m) /\ s % m \in 0 .. m - 1
  BY DivMod, ModRange
<1>3. (k - q) * m = (k * m) - (q * m) /\ k * m \in Int /\ q * m \in Int
  BY <1>1, <1>2
<1>4. (a % m) + b = ((k - q) * m) + (s % m)
  <2> HIDE DEF q, k
  <2> DEFINE am == a % m
             sm == s % m
             qm == q * m
             km == k * m
  <2>1. a = qm + am /\ a + b = km + sm /\ am \in Int /\ sm \in Int
    BY <1>1, <1>2
  <2>2. (k - q) * m = km - qm /\ km \in Int /\ qm \in Int
    BY <1>3
  <2> HIDE DEF am, sm, qm, km
  <2>3. am + b = (km - qm) + sm
    BY <2>1, <2>2
  <2> QED
    BY <2>2, <2>3 DEF am, sm
<1>5. k - q \in Int
  BY <1>1, <1>2
<1> HIDE DEF q, k
<1> QED
  BY <1>2, <1>4, <1>5, ModUnique DEF s

-----------------------------------------------------------------------------
(* The invariant.                                                          *)

\* On a block boundary.
Aligned(x) == x % BlockSize = 0

Appending == {"append_lock", "append_loop", "append_wait", "append_woken"}
Flushing  == {"flush_wait", "flush_woken"}
Reading   == {"read_start", "read_loop"}

\* The call that is being executed is the one the client made.
CallInv ==
  /\ client \in Appending => call.op = "append" /\ appended + left <= MaxLog
  /\ client \in Reading => call.op = "read"
  /\ call.op = "read" => /\ call.off \in Nat /\ call.len \in Nat
                         /\ call.off + call.len <= appended

\* Only a flush has head on the end of the buffer, or more in it than fits.
HeadInv ==
  /\ Aligned(tail)
  /\ client \in Flushing =>
       /\ distance \in 1 .. BlockSize
       /\ head - distance \in 0 .. WriteBufferSize - 1
       /\ write_buffer_filled - distance <= WriteBufferSize
  /\ client \notin Flushing \cup {"aborted"} =>
       /\ head < WriteBufferSize
       /\ write_buffer_filled <= WriteBufferSize

\* The read is at byte start of block_id, and that is where till has got it.
ReadInv ==
  client = "read_loop" =>
    /\ rd.till \in Nat /\ rd.block_id \in Nat /\ rd.n \in Nat
    /\ rd.start \in 0 .. BlockSize - 1
    /\ rd.till < call.len =>
         /\ (rd.block_id * BlockSize) + rd.start = call.off + rd.till
         /\ rd.n = MinOf(call.len - rd.till, BlockSize - rd.start)

\* A read begins after its flush, which leaves the worker nothing to write.
QuietInv == client \in Reading => write_buffer_filled < BlockSize

IInv == TypeOK /\ CallInv /\ HeadInv /\ ReadInv /\ QuietInv

-----------------------------------------------------------------------------
\* The buffer and the device hold a whole number of blocks.
LEMMA Sizes ==
  /\ BlockSize \in Nat \ {0}
  /\ WriteBufferSize \in Nat \ {0}
  /\ BlockSize <= WriteBufferSize
  /\ DeviceSize \in Nat \ {0}
  /\ BlockSize <= DeviceSize
  /\ MaxLog \in Nat /\ MaxLog <= DeviceSize /\ MaxAppend \in Nat
<1>1. \A w \in Nat \ {0}, n \in Nat \ {0} : w * n \in Nat \ {0} /\ n <= w * n
  <2>1. SUFFICES ASSUME NEW w \in Nat \ {0}, NEW n \in Nat \ {0}
                 PROVE  w * n \in Nat \ {0} /\ n <= w * n
    OBVIOUS
  <2>2. (w - 1) * n \in Nat
    OBVIOUS
  <2>3. w * n = ((w - 1) * n) + n
    OBVIOUS
  <2> QED
    BY <2>2, <2>3
<1> QED
  BY <1>1, SizesAssumption DEF WriteBufferSize, DeviceSize

\* An int counts a whole number of blocks.
LEMMA IntSize == MaxInt \in Nat /\ (MaxInt + 1) % BlockSize = 0
BY SizesAssumption

\* An int is an integer, and a number that is in its range is itself.
LEMMA AsIntSmall ==
  ASSUME NEW x \in Int
  PROVE  /\ AsInt(x) \in Int
         /\ x \in -(MaxInt + 1) .. MaxInt => AsInt(x) = x
<1> DEFINE n == 2 * (MaxInt + 1)
           a == x + MaxInt + 1
<1>1. n \in Nat \ {0} /\ a \in Int /\ AsInt(x) = (a % n) - (MaxInt + 1)
  BY IntSize DEF AsInt
<1>2. a % n \in 0 .. n - 1
  BY <1>1, ModRange
<1>3. ASSUME x \in -(MaxInt + 1) .. MaxInt PROVE a % n = a
  <2>1. a \in 0 .. n - 1
    BY <1>3, IntSize
  <2> QED
    BY <1>1, <2>1, ModSmall
<1>4. a - (MaxInt + 1) = x
  BY IntSize
<1> HIDE DEF n, a
<1> QED
  BY <1>1, <1>2, <1>3, <1>4, IntSize

\* The first number too large for an int is the least one.
LEMMA AsIntOver == AsInt(MaxInt + 1) = -(MaxInt + 1)
<1> DEFINE n == 2 * (MaxInt + 1)
<1>1. n \in Nat \ {0} /\ (MaxInt + 1) + MaxInt + 1 = n
  BY IntSize
<1>2. n % n = 0
  BY <1>1, ModSelf
<1>3. AsInt(MaxInt + 1) = (n % n) - (MaxInt + 1)
  BY <1>1 DEF AsInt
<1> HIDE DEF n
<1> QED
  BY <1>2, <1>3, IntSize

\* A block on, or back, from a boundary is a boundary.
LEMMA AlignedNext ==
  ASSUME NEW a \in Int, Aligned(a)
  PROVE  Aligned(a + BlockSize) /\ Aligned(a - BlockSize)
BY BoundaryNext, Sizes DEF Aligned

\* A block cut from a function on 0 .. n - 1 is a block of its values.
LEMMA BlockAtType ==
  ASSUME NEW S, NEW n \in Nat, NEW f \in [0 .. n - 1 -> S],
         NEW i \in Nat, i + BlockSize <= n
  PROVE  BlockAt(f, i) \in [0 .. BlockSize - 1 -> S]
BY Sizes DEF BlockAt

\* Storing a block into a function leaves its domain and its values' type.
LEMMA StoreBlockType ==
  ASSUME NEW S, NEW n \in Nat, NEW f \in [0 .. n - 1 -> S], NEW i \in Nat,
         NEW b \in [0 .. BlockSize - 1 -> S]
  PROVE  StoreBlock(f, i, b) \in [0 .. n - 1 -> S]
BY Sizes DEF StoreBlock

\* The block under tail is inside the buffer.
LEMMA TailBlock ==
  ASSUME TypeOK, HeadInv
  PROVE  tail + BlockSize <= WriteBufferSize
<1>1. tail \in Nat /\ tail < WCacheBlocks * BlockSize /\ tail % BlockSize = 0
  BY Sizes DEF TypeOK, HeadInv, WriteBufferSize, Aligned
<1>2. tail + BlockSize <= WCacheBlocks * BlockSize
  BY <1>1, BlockFits, SizesAssumption
<1> QED
  BY <1>2 DEF WriteBufferSize

\* A block that the read still has something to take from is on the device.
LEMMA ReadBlockOnDevice ==
  ASSUME TypeOK, CallInv, ReadInv, client = "read_loop", rd.till < call.len
  PROVE  /\ rd.block_id * BlockSize \in Nat
         /\ (rd.block_id * BlockSize) + BlockSize <= DeviceSize
<1> DEFINE i == rd.block_id * BlockSize
<1>1. /\ rd.block_id \in Nat /\ rd.start \in Nat /\ rd.till \in Nat
      /\ i + rd.start = call.off + rd.till
      /\ call.off \in Nat /\ call.len \in Nat /\ call.off + call.len <= appended
      /\ appended \in Nat /\ appended <= MaxLog
  BY Sizes DEF TypeOK, CallInv, ReadInv, Reading
<1>2. i \in Nat
  BY <1>1, Sizes
<1> HIDE DEF i
<1>3. i < DeviceSize
  BY <1>1, <1>2, Sizes
<1>4. i + BlockSize <= DeviceSize
  <2>1. rd.block_id * BlockSize < DeviceBlocks * BlockSize
    BY <1>3 DEF i, DeviceSize
  <2>2. (rd.block_id * BlockSize) + BlockSize <= DeviceBlocks * BlockSize
    BY <1>1, <2>1, Sizes, SizesAssumption, MultipleBelow
  <2> QED
    BY <2>2 DEF i, DeviceSize
<1> QED
  BY <1>2, <1>4 DEF i

\* One iteration of the read's loop leaves it at the start of the next block.
LEMMA CopyOutReadInv ==
  ASSUME TypeOK, CallInv, ReadInv, NEW block, CopyOut(block),
         client = "read_loop", rd.till < call.len, UNCHANGED <<client, call>>
  PROVE  ReadInv'
<1> DEFINE len == call.len
           till == rd.till + rd.n
<1>1. /\ call.off \in Nat /\ len \in Nat
      /\ rd.till \in Nat /\ rd.block_id \in Nat /\ rd.n \in Nat
      /\ rd.start \in 0 .. BlockSize - 1
      /\ (rd.block_id * BlockSize) + rd.start = call.off + rd.till
      /\ rd.n = MinOf(len - rd.till, BlockSize - rd.start)
  BY DEF CallInv, ReadInv, Reading
<1>2. rd' = [till |-> till, block_id |-> rd.block_id + 1, start |-> 0,
             n |-> MinOf(BlockSize, len - till)]
  BY DEF CopyOut
<1>3. till \in Nat /\ till <= len
  BY <1>1, Sizes DEF MinOf
<1>4. MinOf(BlockSize, len - till) \in Nat
  BY <1>1, <1>3, Sizes DEF MinOf
<1>5. till < len => ((rd.block_id + 1) * BlockSize) + 0 = call.off + till
  <2> SUFFICES ASSUME till < len PROVE ((rd.block_id + 1) * BlockSize) = call.off + till
    BY <1>1, <1>3, Sizes
  <2>1. rd.n = BlockSize - rd.start
    BY <1>1, Sizes DEF MinOf
  <2>2. (rd.block_id + 1) * BlockSize = (rd.block_id * BlockSize) + BlockSize
    BY <1>1, Sizes
  <2>3. rd.block_id * BlockSize \in Int
    BY <1>1, Sizes
  <2> DEFINE i == rd.block_id * BlockSize
  <2>4. i \in Int /\ (rd.block_id + 1) * BlockSize = i + BlockSize
    BY <2>2, <2>3
  <2>5. i + rd.start = call.off + rd.till
    BY <1>1
  <2>6. call.off \in Int /\ rd.till \in Int /\ rd.start \in Int
    BY <1>1
  <2> HIDE DEF i
  <2>7. i + BlockSize = call.off + till
    BY <2>1, <2>4, <2>5, <2>6, Sizes
  <2> QED
    BY <2>4, <2>7
<1>6. till < len => MinOf(BlockSize, len - till) = MinOf(len - till, BlockSize - 0)
  <2>1. BlockSize - 0 = BlockSize /\ len - till \in Int
    BY <1>1, <1>3, Sizes
  <2> HIDE DEF till, len
  <2> QED
    BY <2>1, Sizes DEF MinOf
<1> HIDE DEF till
<1> QED
  BY <1>1, <1>2, <1>3, <1>4, <1>5, <1>6, Sizes DEF ReadInv

CacheType == [0 .. RCacheBlocks - 1 ->
                [valid : BOOLEAN, block_id : Int,
                 block : [0 .. BlockSize - 1 -> Bytes]]]

\* What logfs_open allocates has the types it should.
LEMMA FreshTypes ==
  /\ EmptyCache \in CacheType
  /\ [p \in 0 .. WriteBufferSize - 1 |-> Stale] \in [0 .. WriteBufferSize - 1 -> Bytes]
  /\ [p \in 0 .. DeviceSize - 1 |-> Stale] \in [0 .. DeviceSize - 1 -> Bytes]
  /\ Aligned(0)
<1>1. Stale \in Bytes
  BY Sizes DEF Stale, Bytes
<1>2. [k \in 0 .. BlockSize - 1 |-> Stale] \in [0 .. BlockSize - 1 -> Bytes]
  BY <1>1
<1>3. [valid |-> FALSE, block_id |-> -1, block |-> [k \in 0 .. BlockSize - 1 |-> Stale]]
        \in [valid : BOOLEAN, block_id : Int, block : [0 .. BlockSize - 1 -> Bytes]]
  BY <1>2
<1> QED
  BY <1>1, <1>3, Sizes DEF EmptyCache, CacheType, Aligned

\* Every block has a slot.
LEMMA SlotType ==
  ASSUME NEW b \in Int
  PROVE  CacheSlot(b) \in 0 .. RCacheBlocks - 1
BY ModRange, SizesAssumption DEF CacheSlot

\* The worker's InvalidateSlot keeps the cache's type.
LEMMA InvalidateSlotType ==
  ASSUME TypeOK, InvalidateSlot
  PROVE  read_cache' \in CacheType
<1> DEFINE s == CacheSlot(AsInt(file_offset) \div BlockSize)
<1>1. s \in 0 .. RCacheBlocks - 1
  BY AsIntSmall, SlotType, DivMod, Sizes DEF TypeOK
<1>2. read_cache \in CacheType
  BY DEF TypeOK, CacheType
<1>3. \/ read_cache' = [read_cache EXCEPT ![s].valid = FALSE]
      \/ read_cache' = read_cache
  BY DEF InvalidateSlot
<1> HIDE DEF s
<1> QED
  BY <1>1, <1>2, <1>3 DEF CacheType

-----------------------------------------------------------------------------
LEMMA InitIInv == Init => IInv
<1> SUFFICES ASSUME Init PROVE IInv
  OBVIOUS
<1>1. TypeOK
  <2>1. /\ read_cache \in CacheType
        /\ write_buffer \in [0 .. WriteBufferSize - 1 -> Bytes]
        /\ disk \in [0 .. DeviceSize - 1 -> Bytes]
    BY FreshTypes DEF Init
  <2>2. /\ head = 0 /\ tail = 0 /\ write_buffer_filled = 0 /\ file_offset = 0
        /\ exit_worker_thread = FALSE /\ mutex = "free"
        /\ client = "closed" /\ worker = "exited" /\ call = Closed
        /\ left = 0 /\ distance = 0 /\ appended = 0 /\ spurious = 0
    BY DEF Init
  <2>3. file_offset \in Int
    BY <2>2
  <2>4. exit_worker_thread \in BOOLEAN
    BY <2>2
  <2>5. call.op = "closed"
    BY <2>2 DEF Closed
  <2> QED
    BY <2>1, <2>2, <2>3, <2>4, <2>5, Sizes, SizesAssumption DEF TypeOK, CacheType
<1> QED
  BY <1>1, FreshTypes, Sizes
     DEF Init, IInv, CallInv, HeadInv, ReadInv, QuietInv, Appending, Flushing, Reading, Closed

LEMMA NextIInv == IInv /\ [Next]_vars => IInv'
<1> SUFFICES ASSUME IInv, [Next]_vars PROVE IInv'
  OBVIOUS
<1> USE DEF buffer_vars, store_vars, client_vars
<1>0. TypeOK /\ CallInv /\ HeadInv /\ ReadInv /\ QuietInv
  BY DEF IInv
<1>1. CASE Open
  <2>1. /\ read_cache' \in CacheType
        /\ write_buffer' \in [0 .. WriteBufferSize - 1 -> Bytes]
        /\ disk' \in [0 .. DeviceSize - 1 -> Bytes]
        /\ tail' = 0 /\ Aligned(tail')
    BY <1>1, FreshTypes DEF Open
  <2>2. /\ head' = 0 /\ write_buffer_filled' = 0 /\ file_offset' = 0
        /\ exit_worker_thread' = FALSE /\ mutex' = "free"
        /\ worker' = "start" /\ client' = "idle" /\ call' = NoCall
        /\ left' = 0 /\ distance' = 0 /\ appended' = 0 /\ spurious' = spurious
    BY <1>1 DEF Open
  <2>3. exit_worker_thread' \in BOOLEAN
    BY <2>2
  <2>4. call'.op = "none"
    BY <2>2 DEF NoCall
  <2>5. TypeOK'
    BY <1>0, <2>1, <2>2, <2>3, <2>4, Sizes DEF CacheType, TypeOK
  <2> QED
    BY <2>1, <2>2, <2>4, <2>5, Sizes DEF IInv, TypeOK, CallInv, HeadInv, ReadInv, QuietInv,
        Appending, Flushing, Reading
<1>2. CASE CallAppend
  BY <1>2, Sizes DEF CallAppend, Append_, IInv, TypeOK, CallInv, HeadInv, ReadInv,
     QuietInv, Appending, Flushing, Reading
<1>3. CASE CallRead
  BY <1>3, Sizes DEF CallRead, Read_, IInv, TypeOK, CallInv, HeadInv, ReadInv,
     QuietInv, Appending, Flushing, Reading
<1>4. CASE CallClose
  BY <1>4, Sizes DEF CallClose, Closing, IInv, TypeOK, CallInv, HeadInv, ReadInv,
     QuietInv, Appending, Flushing, Reading
<1>5. CASE AppendLock
  BY <1>5, Sizes DEF AppendLock, IInv, TypeOK, CallInv, HeadInv, ReadInv,
     QuietInv, Appending, Flushing, Reading
<1>6. CASE AppendByte
  <2>1. /\ client = "append_loop" /\ left > 0
        /\ head \in 0 .. WriteBufferSize - 1 /\ write_buffer_filled \in Nat
        /\ write_buffer \in [0 .. WriteBufferSize - 1 -> Bytes]
        /\ left \in 0 .. MaxAppend /\ appended \in Nat /\ appended + left <= MaxLog
    BY <1>0, <1>6, Sizes DEF AppendByte, TypeOK, HeadInv, CallInv, Flushing, Appending
  <2>2. Byte(appended) \in Bytes
    BY <2>1, Sizes DEF Byte, Bytes
  <2>3. write_buffer' \in [0 .. WriteBufferSize - 1 -> Bytes]
    BY <1>6, <2>1, <2>2 DEF AppendByte
  <2>4. head' \in 0 .. WriteBufferSize - 1
    <3>1. head' = (head + 1) % WriteBufferSize
      BY <1>6 DEF AppendByte
    <3> QED
      BY <2>1, <3>1, ModRange, Sizes
  <2>5. write_buffer_filled' \in 0 .. WriteBufferSize
    BY <1>6, <2>1, Sizes DEF AppendByte, BufferFull
  <2>6. left' \in 0 .. MaxAppend /\ appended' = appended + 1 /\ appended' + left' <= MaxLog
    BY <1>6, <2>1, Sizes DEF AppendByte
  <2>7. worker' \in {"start", "outer", "inner", "wait", "woken", "exited", "aborted"}
    BY <1>0, <1>6 DEF AppendByte, SignalItemAvail, TypeOK
  <2>8. UNCHANGED <<tail, file_offset, exit_worker_thread, read_cache, disk,
                    mutex, client, call, distance, rd, spurious>>
    BY <1>6 DEF AppendByte
  <2>9. TypeOK'
    BY <1>0, <2>1, <2>3, <2>4, <2>5, <2>6, <2>7, <2>8, Sizes DEF TypeOK
  <2>10. CallInv'
    BY <1>0, <2>1, <2>6, <2>8 DEF CallInv, Appending, Reading
  <2>11. HeadInv'
    BY <1>0, <2>1, <2>4, <2>5, <2>8, Sizes DEF HeadInv, Flushing
  <2> QED
    BY <2>1, <2>8, <2>9, <2>10, <2>11 DEF IInv, ReadInv, QuietInv, Reading
<1>7. CASE AppendFull
  BY <1>7, Sizes DEF AppendFull, BufferFull, IInv, TypeOK, CallInv, HeadInv, ReadInv,
     QuietInv, Appending, Flushing, Reading
<1>8. CASE AppendReturn
  BY <1>8, Sizes DEF AppendReturn, NoCall, IInv, TypeOK, CallInv, HeadInv, ReadInv,
     QuietInv, Appending, Flushing, Reading
<1>9. CASE FlushPad
  <2>1. /\ client = "flush_lock" /\ head \in 0 .. WriteBufferSize - 1
        /\ write_buffer_filled \in 0 .. WriteBufferSize
    BY <1>0, <1>9, Sizes DEF FlushPad, TypeOK, HeadInv, Flushing
  <2>2. PadDistance \in 1 .. BlockSize
    <3>1. head % BlockSize \in 0 .. BlockSize - 1
      BY <2>1, ModRange, Sizes
    <3> QED
      BY <3>1, Sizes DEF PadDistance
  <2>3. head + PadDistance <= WriteBufferSize
    <3>1. head \in Nat /\ head < WCacheBlocks * BlockSize
      BY <2>1, Sizes DEF WriteBufferSize
    <3>2. head + (BlockSize - (head % BlockSize)) <= WCacheBlocks * BlockSize
      BY <3>1, RoundUp, SizesAssumption
    <3> QED
      BY <3>2 DEF WriteBufferSize, PadDistance
  <2>4. /\ distance' = PadDistance /\ head' = head + PadDistance
        /\ write_buffer_filled' = write_buffer_filled + PadDistance
    BY <1>9 DEF FlushPad
  <2>5. /\ head' \in 0 .. WriteBufferSize /\ distance' \in 0 .. BlockSize
        /\ write_buffer_filled' \in 0 .. WriteBufferSize + BlockSize
    BY <2>1, <2>2, <2>3, <2>4, Sizes
  <2>6. worker' \in {"start", "outer", "inner", "wait", "woken", "exited", "aborted"}
    BY <1>0, <1>9 DEF FlushPad, SignalItemAvail, TypeOK
  <2>7. /\ client' = "flush_wait"
        /\ UNCHANGED <<tail, write_buffer, file_offset, exit_worker_thread, read_cache,
                       disk, mutex, call, left, appended, spurious>>
    BY <1>9 DEF FlushPad
  <2>8. TypeOK'
    BY <1>0, <2>5, <2>6, <2>7 DEF TypeOK
  <2>9. HeadInv'
    <3>1. head' - distance' = head /\ write_buffer_filled' - distance' = write_buffer_filled
      BY <2>1, <2>2, <2>4
    <3> QED
      BY <1>0, <2>1, <2>2, <2>4, <2>7, <3>1, Sizes DEF HeadInv, Flushing
  <2> QED
    BY <1>0, <2>7, <2>8, <2>9 DEF IInv, CallInv, ReadInv, QuietInv, Appending, Reading
<1>10. CASE FlushUndo
  <2>1. /\ client = "flush_woken" /\ tail \in Nat /\ Aligned(tail)
        /\ tail < WriteBufferSize /\ file_offset \in Int
        /\ head' \in 0 .. WriteBufferSize - 1
    BY <1>0, <1>10, Sizes DEF FlushUndo, TypeOK, HeadInv, Flushing
  <2>2. write_buffer_filled' = head' % BlockSize
    BY <1>10 DEF FlushUndo, UndoFilled
  <2>3. write_buffer_filled' \in 0 .. BlockSize - 1
    <3>1. head' \in Int
      BY <2>1, Sizes
    <3> QED
      BY <2>2, <3>1, ModRange, Sizes
  <2>4. tail' \in 0 .. WriteBufferSize - 1 /\ Aligned(tail')
    <3>1. CASE tail = 0
      <4>1. tail' = head' - (head' % BlockSize)
        BY <1>10, <3>1 DEF FlushUndo, UndoTail
      <4>2. head' \in Nat
        BY <2>1, Sizes
      <4>3. tail' \in 0 .. head' /\ Aligned(tail')
        BY <4>1, <4>2, RoundDown, Sizes DEF Aligned
      <4>4. tail' <= head' /\ tail' \in Nat
        BY <4>2, <4>3
      <4> QED
        BY <2>1, <4>3, <4>4, Sizes
    <3>2. CASE tail # 0
      <4>1. tail' = tail - BlockSize
        BY <1>10, <3>2 DEF FlushUndo, UndoTail
      <4>2. tail' \in Nat
        BY <2>1, <3>2, <4>1, BoundaryAtLeast, Sizes DEF Aligned
      <4>3. Aligned(tail - BlockSize)
        BY <2>1, AlignedNext
      <4> QED
        BY <2>1, <4>1, <4>2, <4>3, Sizes
    <3> QED
      BY <3>1, <3>2
  <2>5. file_offset' \in Int
    BY <1>10, <2>1, Sizes DEF FlushUndo, UndoOffset
  <2>6. client' = IF call.op = "read" THEN "read_start" ELSE "exit_lock"
    BY <1>10 DEF FlushUndo
  <2>7. /\ distance' = 0
        /\ UNCHANGED <<write_buffer, exit_worker_thread, read_cache, disk, mutex,
                       worker, call, left, appended, spurious>>
    BY <1>10 DEF FlushUndo
  <2>8. TypeOK'
    BY <1>0, <2>1, <2>3, <2>4, <2>5, <2>6, <2>7, Sizes DEF TypeOK
  <2> QED
    BY <1>0, <2>1, <2>3, <2>4, <2>6, <2>7, <2>8, Sizes DEF IInv, TypeOK, CallInv, HeadInv, ReadInv, QuietInv,
        Appending, Flushing, Reading
<1>11. CASE ReadStart
  <2> DEFINE start == call.off % BlockSize
             block_id == call.off \div BlockSize
  <2>1. client = "read_start" /\ call.op = "read" /\ call.off \in Nat /\ call.len \in Nat
    BY <1>0, <1>11 DEF ReadStart, CallInv, Reading
  <2>2. rd' = [till |-> 0, block_id |-> block_id, start |-> start,
               n |-> MinOf(call.len, BlockSize - start)]
    BY <1>11 DEF ReadStart
  <2>3. start \in 0 .. BlockSize - 1
    <3>1. call.off \in Int
      BY <2>1
    <3> QED
      BY <3>1, ModRange, Sizes
  <2>4. block_id \in Nat
    BY <2>1, DivNat, Sizes
  <2>5. call.off = (block_id * BlockSize) + start
    <3>1. call.off \in Int
      BY <2>1
    <3> QED
      BY <3>1, DivMod, Sizes
  <2> HIDE DEF start, block_id
  <2>6. MinOf(call.len, BlockSize - start) \in Nat
    BY <2>1, <2>3, Sizes DEF MinOf
  <2>7. ReadInv'
    <3>1. call' = call
      BY <1>11 DEF ReadStart
    <3>2. call.len - 0 = call.len /\ call.off + 0 = call.off
      BY <2>1
    <3> QED
      BY <2>2, <2>3, <2>4, <2>5, <2>6, <3>1, <3>2 DEF ReadInv
  <2>8. /\ client' = "read_loop"
        /\ UNCHANGED <<head, tail, write_buffer, write_buffer_filled, file_offset,
                       exit_worker_thread, read_cache, disk, mutex, worker, call,
                       left, distance, appended, spurious>>
    BY <1>11 DEF ReadStart
  <2> QED
    BY <1>0, <2>1, <2>7, <2>8
       DEF IInv, TypeOK, CallInv, HeadInv, QuietInv, Appending, Flushing, Reading
<1>12. CASE ReadHit
  <2>1. ReadInv'
    BY <1>0, <1>12, CopyOutReadInv DEF ReadHit
  <2>2. UNCHANGED <<head, tail, write_buffer, write_buffer_filled, file_offset,
                    exit_worker_thread, read_cache, disk, mutex, client, worker,
                    call, left, distance, appended, spurious>>
    BY <1>12 DEF ReadHit
  <2> QED
    BY <1>0, <2>1, <2>2 DEF IInv, TypeOK, CallInv, HeadInv, QuietInv
<1>13. CASE ReadMiss
  <2> DEFINE s     == CacheSlot(rd.block_id)
             block == BlockAt(disk, BlockOffset(rd.block_id))
  <2>1. ReadInv'
    BY <1>0, <1>13, CopyOutReadInv DEF ReadMiss
  <2>2. rd.block_id \in Int
    BY <1>0, <1>13 DEF ReadMiss, ReadInv
  <2>3. s \in 0 .. RCacheBlocks - 1
    BY <2>2, SlotType
  <2>4. block \in [0 .. BlockSize - 1 -> Bytes]
    <3>1. BlockOffset(rd.block_id) \in Nat /\ BlockOffset(rd.block_id) + BlockSize <= DeviceSize
      <4>1. rd.block_id * BlockSize \in Int
        BY <2>2, Sizes
      <4> QED
        BY <1>13, <4>1, AsIntSmall DEF ReadMiss, ReadOnDevice, BlockOffset
    <3> QED
      BY <1>0, <3>1, Sizes, BlockAtType DEF TypeOK
  <2>5. read_cache' = [read_cache EXCEPT ![s] =
                         [valid |-> TRUE, block_id |-> rd.block_id, block |-> block]]
    BY <1>13 DEF ReadMiss
  <2> HIDE DEF s, block
  <2>6. read_cache' \in CacheType
    BY <1>0, <2>2, <2>3, <2>4, <2>5 DEF CacheType, TypeOK
  <2>7. UNCHANGED <<head, tail, write_buffer, write_buffer_filled, file_offset,
                    exit_worker_thread, disk, mutex, client, worker,
                    call, left, distance, appended, spurious>>
    BY <1>13 DEF ReadMiss
  <2> QED
    BY <1>0, <2>1, <2>6, <2>7 DEF CacheType, IInv, TypeOK, CallInv, HeadInv, QuietInv
<1>14. CASE ReadFails
  <2> DEFINE s == CacheSlot(rd.block_id)
             i == BlockOffset(rd.block_id)
  <2>1. rd.block_id \in Int /\ client = "read_loop"
    BY <1>0, <1>14 DEF ReadFails, ReadInv
  <2>2. s \in 0 .. RCacheBlocks - 1
    BY <2>1, SlotType
  <2>3. i \in Nat /\ i + BlockSize <= DeviceSize
    <3>1. rd.block_id * BlockSize \in Int
      BY <2>1, Sizes
    <3> QED
      BY <1>14, <3>1, AsIntSmall DEF ReadFails, ReadOnDevice, BlockOffset
  <2>4. read_cache \in CacheType /\ disk \in [0 .. DeviceSize - 1 -> Bytes]
    BY <1>0 DEF TypeOK, CacheType
  <2>5. \/ read_cache' = read_cache
        \/ \E m \in 1 .. BlockSize - 1 :
             read_cache' = [read_cache EXCEPT ![s].block =
               [k \in 0 .. BlockSize - 1 |-> IF k < m THEN disk[i + k] ELSE @[k]]]
    BY <1>14 DEF ReadFails
  <2> HIDE DEF s, i
  <2>6. read_cache' \in CacheType
    <3>1. CASE read_cache' = read_cache
      BY <2>4, <3>1
    <3>2. ASSUME NEW m \in 1 .. BlockSize - 1,
                 read_cache' = [read_cache EXCEPT ![s].block =
                   [k \in 0 .. BlockSize - 1 |-> IF k < m THEN disk[i + k] ELSE @[k]]]
          PROVE  read_cache' \in CacheType
      <4> DEFINE b == [k \in 0 .. BlockSize - 1 |->
                         IF k < m THEN disk[i + k] ELSE read_cache[s].block[k]]
      <4>1. read_cache[s].block \in [0 .. BlockSize - 1 -> Bytes]
        BY <2>2, <2>4 DEF CacheType
      <4>2. ASSUME NEW k \in 0 .. BlockSize - 1
            PROVE  i + k \in 0 .. DeviceSize - 1
        BY <2>3, Sizes
      <4>3. b \in [0 .. BlockSize - 1 -> Bytes]
        BY <2>4, <4>1, <4>2
      <4>4. read_cache' = [read_cache EXCEPT ![s].block = b]
        BY <3>2, <2>2, <2>4 DEF CacheType
      <4> HIDE DEF b
      <4> QED
        BY <2>2, <2>4, <4>3, <4>4 DEF CacheType
    <3> QED
      BY <2>5, <3>1, <3>2
  <2>7. /\ client' = "idle" /\ call' = NoCall
        /\ UNCHANGED <<head, tail, write_buffer, write_buffer_filled, file_offset,
                       exit_worker_thread, disk, mutex, worker, left, distance,
                       appended, spurious>>
    BY <1>14 DEF ReadFails
  <2> QED
    BY <1>0, <2>1, <2>6, <2>7 DEF CacheType, NoCall, IInv, TypeOK, CallInv, HeadInv, ReadInv, QuietInv,
        Appending, Flushing, Reading
<1>15. CASE ReadReturn
  BY <1>15, Sizes DEF ReadReturn, NoCall, IInv, TypeOK, CallInv, HeadInv, ReadInv,
     QuietInv, Appending, Flushing, Reading
<1>16. CASE CloseSetExit
  BY <1>16, Sizes DEF CloseSetExit, IInv, TypeOK, CallInv, HeadInv, ReadInv,
     QuietInv, Appending, Flushing, Reading
<1>17. CASE CloseSignal
  BY <1>17, Sizes DEF CloseSignal, SignalItemAvail, IInv, TypeOK, CallInv, HeadInv, ReadInv,
     QuietInv, Appending, Flushing, Reading
<1>18. CASE CloseJoin
  BY <1>18, Sizes DEF CloseJoin, Closed, IInv, TypeOK, CallInv, HeadInv, ReadInv,
     QuietInv, Appending, Flushing, Reading
<1>19. CASE WorkerLock
  BY <1>19, Sizes DEF WorkerLock, IInv, TypeOK, CallInv, HeadInv, ReadInv,
     QuietInv, Appending, Flushing, Reading
<1>20. CASE WorkerOuter
  BY <1>20, Sizes DEF WorkerOuter, IInv, TypeOK, CallInv, HeadInv, ReadInv,
     QuietInv, Appending, Flushing, Reading
<1>21. CASE WorkerWait
  BY <1>21, Sizes DEF WorkerWait, IInv, TypeOK, CallInv, HeadInv, ReadInv,
     QuietInv, Appending, Flushing, Reading
<1>22. CASE WorkerRelock
  BY <1>22, Sizes DEF WorkerRelock, IInv, TypeOK, CallInv, HeadInv, ReadInv,
     QuietInv, Appending, Flushing, Reading
<1>23. CASE WorkerExit
  BY <1>23, Sizes DEF WorkerExit, IInv, TypeOK, CallInv, HeadInv, ReadInv,
     QuietInv, Appending, Flushing, Reading
<1>24. CASE WorkerWrite
  <2>1. /\ BlockReady /\ OnDevice /\ tail \in Nat /\ Aligned(tail)
        /\ tail < WriteBufferSize /\ tail + BlockSize <= WriteBufferSize
        /\ file_offset \in Int /\ write_buffer_filled \in Nat
        /\ disk \in [0 .. DeviceSize - 1 -> Bytes]
        /\ write_buffer \in [0 .. WriteBufferSize - 1 -> Bytes]
    BY <1>0, <1>24, TailBlock, Sizes DEF WorkerWrite, TypeOK, HeadInv
  <2>2. read_cache' \in CacheType
    BY <1>0, <1>24, InvalidateSlotType DEF WorkerWrite
  <2>3. disk' \in [0 .. DeviceSize - 1 -> Bytes]
    <3>1. BlockAt(write_buffer, tail) \in [0 .. BlockSize - 1 -> Bytes]
      BY <2>1, BlockAtType, Sizes
    <3>2. disk' = StoreBlock(disk, AsInt(file_offset), BlockAt(write_buffer, tail))
      BY <1>24 DEF WorkerWrite
    <3>3. AsInt(file_offset) \in Nat
      BY <2>1, AsIntSmall DEF OnDevice
    <3> QED
      BY <2>1, <3>1, <3>2, <3>3, StoreBlockType, Sizes
  <2>4. tail' \in 0 .. WriteBufferSize - 1 /\ Aligned(tail')
    <3>1. tail' = (tail + BlockSize) % WriteBufferSize
      BY <1>24 DEF WorkerWrite
    <3>2. CASE tail + BlockSize < WriteBufferSize
      <4>1. tail + BlockSize \in 0 .. WriteBufferSize - 1
        BY <2>1, <3>2, Sizes
      <4>2. tail' = tail + BlockSize
        BY <3>1, <4>1, ModSmall, Sizes
      <4>3. Aligned(tail + BlockSize)
        BY <2>1, AlignedNext
      <4> QED
        BY <4>1, <4>2, <4>3
    <3>3. CASE tail + BlockSize = WriteBufferSize
      <4>1. tail' = 0
        BY <3>1, <3>3, ModSelf, Sizes
      <4> QED
        BY <4>1, FreshTypes, Sizes
    <3> QED
      BY <2>1, <3>2, <3>3, Sizes
  <2>5. /\ write_buffer_filled' = write_buffer_filled - BlockSize
        /\ write_buffer_filled' \in Nat
    BY <1>24, <2>1, Sizes DEF WorkerWrite, BlockReady
  <2>6. file_offset' \in Int
    BY <1>24, <2>1, Sizes DEF WorkerWrite
  <2>7. \/ client' = client
        \/ client = "flush_wait" /\ client' = "flush_woken"
    BY <1>24 DEF WorkerWrite, SignalFlush
  <2>8. /\ worker' = "outer"
        /\ UNCHANGED <<head, write_buffer, exit_worker_thread, mutex, call, left,
                       distance, rd, appended, spurious>>
    BY <1>24 DEF WorkerWrite
  <2>9. TypeOK'
    BY <1>0, <2>2, <2>3, <2>4, <2>5, <2>6, <2>7, <2>8, Sizes DEF CacheType, TypeOK
  <2>10. HeadInv'
    <3>1. write_buffer_filled' <= write_buffer_filled /\ distance \in Int
      BY <1>0, <2>1, <2>5, Sizes DEF TypeOK
    <3>2. client' \in Flushing => client \in Flushing
      BY <2>7 DEF Flushing
    <3>3. client' \notin Flushing \cup {"aborted"} => client \notin Flushing \cup {"aborted"}
      BY <2>7 DEF Flushing
    <3> QED
      BY <1>0, <2>1, <2>4, <2>5, <2>8, <3>1, <3>2, <3>3, Sizes DEF HeadInv
  <2> QED
    BY <1>0, <2>5, <2>7, <2>8, <2>9, <2>10, Sizes
       DEF IInv, TypeOK, CallInv, ReadInv, QuietInv, Appending, Reading
<1>25. CASE WorkerWriteFails
  <2>1. read_cache' \in CacheType
    BY <1>0, <1>25, InvalidateSlotType DEF WorkerWriteFails
  <2>2. /\ worker' = "exited"
        /\ UNCHANGED <<head, tail, write_buffer, write_buffer_filled, file_offset,
                       exit_worker_thread, disk, mutex, client, call, left,
                       distance, rd, appended, spurious>>
    BY <1>25 DEF WorkerWriteFails
  <2> QED
    BY <1>0, <2>1, <2>2 DEF CacheType, IInv, TypeOK, CallInv, HeadInv, ReadInv, QuietInv
<1>26. CASE WorkerAborts
  BY <1>26, Sizes DEF WorkerAborts, IInv, TypeOK, CallInv, HeadInv, ReadInv,
     QuietInv, Appending, Flushing, Reading
<1>27. CASE SpuriousWakeup
  <2>1. spurious' \in 0 .. MaxSpurious
    BY <1>0, <1>27, SizesAssumption DEF SpuriousWakeup, TypeOK
  <2>2. \/ client' = client
        \/ client = "flush_wait" /\ client' = "flush_woken"
        \/ client = "append_wait" /\ client' = "append_woken"
    BY <1>27 DEF SpuriousWakeup
  <2>3. worker' \in {worker, "woken"}
    BY <1>27 DEF SpuriousWakeup
  <2>4. UNCHANGED <<head, tail, write_buffer, write_buffer_filled, file_offset,
                    exit_worker_thread, read_cache, disk, mutex, call, left,
                    distance, rd, appended>>
    BY <1>27 DEF SpuriousWakeup
  <2> QED
    BY <1>0, <2>1, <2>2, <2>3, <2>4 DEF IInv, TypeOK, CallInv, HeadInv, ReadInv, QuietInv,
        Appending, Flushing, Reading
<1>29. CASE OpenFails
  BY <1>29 DEF OpenFails, IInv, TypeOK, CallInv, HeadInv, ReadInv, QuietInv
<1>30. CASE OpenCrashes
  BY <1>30, Sizes DEF OpenCrashes, IInv, TypeOK, CallInv, HeadInv, ReadInv,
     QuietInv, Appending, Flushing, Reading
<1>31. CASE ReadAborts
  BY <1>31, Sizes DEF ReadAborts, IInv, TypeOK, CallInv, HeadInv, ReadInv,
     QuietInv, Appending, Flushing, Reading
<1>28. CASE UNCHANGED vars
  BY <1>28 DEF vars, IInv, TypeOK, CallInv, HeadInv, ReadInv,
     QuietInv
<1> QED
  BY <1>1, <1>2, <1>3, <1>4, <1>5, <1>6, <1>7, <1>8, <1>9, <1>10, <1>11, <1>12,
     <1>13, <1>14, <1>15, <1>16, <1>17, <1>18, <1>19, <1>20, <1>21, <1>22, <1>23, <1>24,
     <1>25, <1>26, <1>27, <1>28, <1>29, <1>30, <1>31 DEF Next, ClientSteps, Worker

-----------------------------------------------------------------------------
-----------------------------------------------------------------------------
(* What the indices point into.  Three facts more: where the offset is,    *)
(* and how much a read has given its caller.                               *)

\* The offset is on a block boundary, on the device and within an int, and only
\* a flush that nobody woke takes back what was not written: one that the worker
\* woke has a block more behind it.
OffsetInv ==
  /\ Aligned(file_offset)
  /\ file_offset <= DeviceSize /\ file_offset <= MaxInt + 1
  /\ file_offset >= -(spurious * BlockSize)
                      + (IF client = "flush_woken" THEN BlockSize ELSE 0)

\* A read's buffer is empty until its loop, which then fills it up to till.
FillInv ==
  /\ client \in {"flush_lock", "flush_wait", "flush_woken", "read_start"} => buf = <<>>
  /\ client = "read_loop" => Len(buf) = rd.till /\ buf \in Seq(Bytes)

BInv == IInv /\ OffsetInv /\ FillInv

LEMMA OffsetStep ==
  ASSUME IInv, OffsetInv, [Next]_vars
  PROVE  OffsetInv'
<1> DEFINE back == spurious * BlockSize
<1>1. /\ TypeOK /\ file_offset \in Int /\ spurious \in Nat /\ Aligned(file_offset)
      /\ file_offset <= DeviceSize /\ file_offset <= MaxInt + 1
      /\ BlockSize \in Nat \ {0} /\ DeviceSize \in Nat /\ MaxInt \in Nat
  BY Sizes, IntSize, SizesAssumption DEF IInv, TypeOK, OffsetInv
<1>2. back \in Nat
  BY <1>1
<1>3. /\ file_offset >= -back
      /\ client = "flush_woken" => file_offset >= BlockSize - back
  BY <1>1, <1>2 DEF OffsetInv
<1> HIDE DEF back
<1>4. CASE Open
  <2>1. file_offset' = 0 /\ client' = "idle" /\ back' = back
    BY <1>4 DEF Open, back
  <2>2. Aligned(0)
    BY ModSmall, Sizes DEF Aligned
  <2> QED
    BY <1>1, <1>2, <2>1, <2>2 DEF OffsetInv, back, Aligned
<1>5. CASE FlushUndo
  <2>1. /\ client = "flush_woken" /\ file_offset' = file_offset - BlockSize
        /\ client' \in {"read_start", "exit_lock"} /\ back' = back
    BY <1>5 DEF FlushUndo, UndoOffset, back
  <2>2. Aligned(file_offset - BlockSize)
    BY <1>1, AlignedNext
  <2> QED
    BY <1>1, <1>2, <1>3, <2>1, <2>2 DEF OffsetInv, back, Aligned
<1>6. CASE WorkerWrite
  <2>1. /\ file_offset' = file_offset + BlockSize /\ back' = back
        /\ client' \in {client, "flush_woken"} /\ OnDevice
    BY <1>6 DEF WorkerWrite, SignalFlush, back
  <2>2. Aligned(file_offset + BlockSize)
    BY <1>1, AlignedNext
  <2>3. file_offset + BlockSize <= DeviceSize /\ file_offset + BlockSize <= MaxInt + 1
    <3>1. CASE file_offset < 0
      <4>1. file_offset + BlockSize <= 0
        <5>1. file_offset < 0 * BlockSize /\ file_offset = (file_offset \div BlockSize) * BlockSize
          BY <1>1, <3>1, DivMod DEF Aligned
        <5> DEFINE q == file_offset \div BlockSize
        <5>2. q \in Int /\ file_offset = q * BlockSize
          BY <1>1, <5>1, DivMod
        <5> HIDE DEF q
        <5>3. q * BlockSize < 0 * BlockSize
          BY <5>1, <5>2
        <5>4. (q * BlockSize) + BlockSize <= 0 * BlockSize
          BY <1>1, <5>2, <5>3, MultipleBelow
        <5> QED
          BY <1>1, <5>2, <5>4
      <4> QED
        BY <1>1, <4>1
    <3>2. CASE file_offset >= 0
      <4>1. file_offset # MaxInt + 1
        BY <1>1, <2>1, AsIntOver DEF OnDevice
      <4>2. AsInt(file_offset) = file_offset
        BY <1>1, <3>2, <4>1, AsIntSmall
      <4>3. file_offset < MaxInt + 1 /\ Aligned(MaxInt + 1)
        BY <1>1, <4>1, IntSize DEF Aligned
      <4>4. file_offset + BlockSize <= MaxInt + 1
        <5> DEFINE q == file_offset \div BlockSize
                   w == (MaxInt + 1) \div BlockSize
        <5>1. q \in Int /\ file_offset = q * BlockSize /\ w \in Int /\ MaxInt + 1 = w * BlockSize
          BY <1>1, <4>3, DivMod DEF Aligned
        <5> HIDE DEF q, w
        <5>2. (q * BlockSize) + BlockSize <= w * BlockSize
          BY <1>1, <4>3, <5>1, MultipleBelow
        <5> QED
          BY <5>1, <5>2
      <4> QED
        BY <2>1, <4>2, <4>4 DEF OnDevice
    <3> QED
      BY <1>1, <3>1, <3>2
  <2> QED
    BY <1>1, <1>2, <1>3, <2>1, <2>2, <2>3 DEF OffsetInv, back, Aligned
<1>7. CASE SpuriousWakeup
  <2>1. /\ file_offset' = file_offset /\ spurious' = spurious + 1
        /\ client' \in {client, "flush_woken", "append_woken"}
    BY <1>7 DEF SpuriousWakeup, buffer_vars
  <2>2. back' = back + BlockSize
    BY <1>1, <2>1 DEF back
  <2> QED
    BY <1>1, <1>2, <1>3, <2>1, <2>2 DEF OffsetInv, back, Aligned
<1>8. CASE UNCHANGED <<file_offset, spurious>> /\ (client' = "flush_woken" => client = "flush_woken")
  <2>1. back' = back /\ file_offset' = file_offset
    BY <1>8 DEF back
  <2> QED
    BY <1>1, <1>2, <1>3, <1>8, <2>1 DEF OffsetInv, back, Aligned
<1>9. \/ Open \/ FlushUndo \/ WorkerWrite \/ SpuriousWakeup
      \/ UNCHANGED <<file_offset, spurious>> /\ (client' = "flush_woken" => client = "flush_woken")
  <2> USE DEF buffer_vars, client_vars
  <2>1. CASE OpenFails \/ OpenCrashes \/ CallAppend \/ CallRead \/ CallClose
    BY <2>1 DEF OpenFails, OpenCrashes, CallAppend, CallRead, CallClose
  <2>2. CASE AppendLock \/ AppendByte \/ AppendFull \/ AppendReturn \/ FlushPad
    BY <2>2 DEF AppendLock, AppendByte, AppendFull, AppendReturn, FlushPad
  <2>3. CASE ReadStart \/ ReadHit \/ ReadMiss \/ ReadFails \/ ReadAborts \/ ReadReturn
             \/ CloseSetExit \/ CloseSignal \/ CloseJoin
    BY <2>3 DEF ReadStart, ReadHit, ReadMiss, ReadFails, ReadAborts, ReadReturn,
       CloseSetExit, CloseSignal, CloseJoin
  <2>4. CASE WorkerLock \/ WorkerOuter \/ WorkerWait \/ WorkerRelock \/ WorkerExit
             \/ WorkerWriteFails \/ WorkerAborts
    BY <2>4 DEF WorkerLock, WorkerOuter, WorkerWait, WorkerRelock, WorkerExit,
       WorkerWriteFails, WorkerAborts
  <2>5. CASE UNCHANGED vars
    BY <2>5 DEF vars
  <2> QED
    BY <2>1, <2>2, <2>3, <2>4, <2>5 DEF Next, ClientSteps, Worker
<1> QED
  BY <1>4, <1>5, <1>6, <1>7, <1>8, <1>9

\* What a block adds to the caller's buffer.
LEMMA FillBlock ==
  ASSUME IInv, FillInv, client = "read_loop", rd.till < call.len,
         NEW block \in [0 .. BlockSize - 1 -> Bytes], CopyOut(block)
  PROVE  Len(buf') = rd'.till /\ buf' \in Seq(Bytes)
<1> DEFINE add == [k \in 1 .. rd.n |-> block[rd.start + k - 1]]
<1>1. /\ rd.till \in Nat /\ rd.n \in Nat /\ rd.start \in 0 .. BlockSize - 1
      /\ rd.n = MinOf(call.len - rd.till, BlockSize - rd.start)
      /\ call.len \in Nat
  BY DEF IInv, ReadInv, CallInv, Reading
<1>2. ASSUME NEW k \in 1 .. rd.n PROVE block[rd.start + k - 1] \in Bytes
  <2>1. rd.start + k - 1 \in 0 .. BlockSize - 1
    BY <1>1, Sizes DEF MinOf
  <2> QED
    BY <2>1
<1>3. add \in Seq(Bytes) /\ Len(add) = rd.n
  BY <1>1, <1>2
<1>4. buf \in Seq(Bytes) /\ Len(buf) = rd.till
  BY DEF FillInv
<1>5. buf' = buf \o add /\ rd'.till = rd.till + rd.n
  BY DEF CopyOut
<1> HIDE DEF add
<1>6. buf \o add \in Seq(Bytes) /\ Len(buf \o add) = Len(buf) + Len(add)
  BY <1>3, <1>4
<1> QED
  BY <1>3, <1>4, <1>5, <1>6

LEMMA FillStep ==
  ASSUME IInv, FillInv, [Next]_vars
  PROVE  FillInv'
<1> USE DEF FillInv, buffer_vars, store_vars, client_vars
<1>1. TypeOK /\ ReadInv
  BY DEF IInv
<1>2. CASE Open \/ OpenFails \/ OpenCrashes \/ CallAppend \/ CallRead \/ CallClose
  BY <1>2 DEF Open, OpenFails, OpenCrashes, CallAppend, CallRead, CallClose
<1>3. CASE AppendLock \/ AppendByte \/ AppendFull \/ AppendReturn \/ FlushPad \/ FlushUndo
  BY <1>3 DEF AppendLock, AppendByte, AppendFull, AppendReturn, FlushPad, FlushUndo
<1>4. CASE ReadStart
  BY <1>4 DEF ReadStart
<1>5. CASE ReadHit
  <2>1. rd.block_id \in Int /\ client = "read_loop" /\ rd.till < call.len /\ client' = client
    BY <1>1, <1>5 DEF ReadHit, ReadInv
  <2>2. CacheSlot(rd.block_id) \in 0 .. RCacheBlocks - 1
    BY <2>1, SlotType
  <2>3. read_cache[CacheSlot(rd.block_id)].block \in [0 .. BlockSize - 1 -> Bytes]
    BY <1>1, <2>2 DEF TypeOK
  <2> QED
    BY <1>5, <2>1, <2>3, FillBlock DEF ReadHit
<1>6. CASE ReadMiss
  <2>1. rd.block_id \in Int /\ client = "read_loop" /\ rd.till < call.len /\ client' = client
    BY <1>1, <1>6 DEF ReadMiss, ReadInv
  <2>2. BlockOffset(rd.block_id) \in Nat /\ BlockOffset(rd.block_id) + BlockSize <= DeviceSize
    <3>1. rd.block_id * BlockSize \in Int
      BY <2>1, Sizes
    <3> QED
      BY <1>6, <3>1, AsIntSmall DEF ReadMiss, ReadOnDevice, BlockOffset
  <2>3. BlockAt(disk, BlockOffset(rd.block_id)) \in [0 .. BlockSize - 1 -> Bytes]
    BY <1>1, <2>2, Sizes, BlockAtType DEF TypeOK
  <2> QED
    BY <1>6, <2>1, <2>3, FillBlock DEF ReadMiss
<1>7. CASE ReadFails \/ ReadAborts \/ ReadReturn \/ CloseSetExit \/ CloseSignal \/ CloseJoin
  BY <1>7 DEF ReadFails, ReadAborts, ReadReturn, CloseSetExit, CloseSignal, CloseJoin
<1>8. CASE WorkerLock \/ WorkerOuter \/ WorkerWait \/ WorkerRelock \/ WorkerExit
           \/ WorkerWriteFails \/ WorkerAborts
  BY <1>8 DEF WorkerLock, WorkerOuter, WorkerWait, WorkerRelock, WorkerExit,
     WorkerWriteFails, WorkerAborts
<1>9. CASE WorkerWrite
  BY <1>9 DEF WorkerWrite, SignalFlush
<1>10. CASE SpuriousWakeup
  BY <1>10 DEF SpuriousWakeup
<1>11. CASE UNCHANGED vars
  BY <1>11 DEF vars
<1> QED
  BY <1>2, <1>3, <1>4, <1>5, <1>6, <1>7, <1>8, <1>9, <1>10, <1>11
     DEF Next, ClientSteps, Worker

LEMMA InitOffset == Init => OffsetInv /\ FillInv
<1> SUFFICES ASSUME Init PROVE OffsetInv /\ FillInv
  OBVIOUS
<1>1. file_offset = 0 /\ spurious = 0 /\ client = "closed"
  BY DEF Init
<1>2. Aligned(0)
  BY ModSmall, Sizes DEF Aligned
<1>3. spurious * BlockSize = 0
  BY <1>1, Sizes
<1> QED
  BY <1>1, <1>2, <1>3, Sizes, IntSize DEF OffsetInv, FillInv, Aligned

\* The parts of the invariant say where everything points.
LEMMA Bounded == BInv => InBounds
<1> SUFFICES ASSUME BInv PROVE InBounds
  OBVIOUS
<1>1. TypeOK /\ HeadInv /\ ReadInv /\ CallInv /\ OffsetInv /\ FillInv
  BY DEF BInv, IInv
<1>2. tail % BlockSize = 0 /\ tail + BlockSize <= WriteBufferSize
  BY <1>1, TailBlock DEF HeadInv, Aligned
<1>3. client \notin {"flush_wait", "flush_woken", "aborted"} =>
        head < WriteBufferSize /\ write_buffer_filled <= WriteBufferSize
  BY <1>1 DEF HeadInv, Flushing
<1>4. ASSUME client = "read_loop", rd.till < call.len
      PROVE  /\ rd.start >= 0 /\ rd.n > 0 /\ rd.start + rd.n <= BlockSize
             /\ Len(buf) + rd.n <= call.len
             /\ rd.block_id >= 0 /\ rd.block_id * BlockSize + BlockSize <= DeviceSize
  <2>1. /\ rd.till \in Nat /\ rd.block_id \in Nat /\ rd.start \in 0 .. BlockSize - 1
        /\ rd.n = MinOf(call.len - rd.till, BlockSize - rd.start)
        /\ call.len \in Nat /\ Len(buf) = rd.till
    BY <1>1, <1>4 DEF ReadInv, CallInv, Reading, FillInv
  <2>2. rd.n > 0 /\ rd.start + rd.n <= BlockSize /\ rd.till + rd.n <= call.len
    BY <1>4, <2>1, Sizes DEF MinOf
  <2>3. rd.block_id * BlockSize + BlockSize <= DeviceSize
    BY <1>1, <1>4, ReadBlockOnDevice
  <2> QED
    BY <2>1, <2>2, <2>3
<1>5. file_offset >= -(spurious * BlockSize)
  <2> DEFINE back == spurious * BlockSize
  <2>1. spurious \in Nat /\ file_offset \in Int
    BY <1>1, SizesAssumption DEF TypeOK
  <2>2. back \in Nat
    BY <2>1, Sizes
  <2>3. file_offset >= -back + (IF client = "flush_woken" THEN BlockSize ELSE 0)
    BY <1>1 DEF OffsetInv
  <2> HIDE DEF back
  <2>4. file_offset >= -back
    BY <2>1, <2>2, <2>3, Sizes
  <2> QED
    BY <2>4 DEF back
<1> QED
  BY <1>1, <1>2, <1>3, <1>4, <1>5 DEF InBounds, OffsetInv, Aligned

\* At any fault of the device and any spurious wakeup: tail stays on a block
\* boundary and its block in the write buffer, no byte is stored past the buffer's
\* end, a read takes its bytes from a block of the device and from inside it and
\* never gives more than it was asked for, and the offset never passes the end of
\* the device or of an int, and goes back only with a spurious wakeup.
THEOREM StaysInBounds == Spec => []InBounds
<1>1. Init => BInv
  BY InitIInv, InitOffset DEF BInv
<1>2. BInv /\ [Next]_vars => BInv'
  BY NextIInv, OffsetStep, FillStep DEF BInv
<1> QED
  BY <1>1, <1>2, Bounded, PTL DEF Spec

\* The worker never writes while a read, which holds no mutex, is under way.
THEOREM NoDataRace == Spec => []RaceFree
<1>1. IInv => RaceFree
  BY Sizes DEF IInv, TypeOK, QuietInv, Reading, RaceFree, BlockReady
<1> QED
  BY <1>1, InitIInv, NextIInv, PTL DEF Spec

-----------------------------------------------------------------------------
(* What the log is for.  No byte is lost between buffer and device, a      *)
(* flush is durable, the cache is coherent, the worker fails the device's  *)
(* assertion only at its end, and the log is the one logfs.h promises      *)
(* (AppendLog).  This holds where the code is sound: no wait returns       *)
(* without its signal (logfs.c:131 waits once, and not in a loop), and,    *)
(* for the cache and the log, no read is short without an error            *)
(* (logfs.c:284 leaves in the slot what pread has delivered).              *)
(*                                                                         *)
(* The idea: a byte's place is that of its position, in the buffer modulo  *)
(* its size and on the device as it is.  So the buffer always holds the    *)
(* last bytes of the log, also those that were written, and the block that *)
(* a flush takes back is whole.                                            *)

W == WriteBufferSize

\* Where in the buffer the byte at position p of the log is.
Place(p) == p % W

\* Where head and tail are, and how far the device is behind.
PlaceInv ==
  /\ file_offset \in Nat /\ Aligned(file_offset)
  /\ file_offset + write_buffer_filled = appended + distance
  /\ tail = Place(file_offset)
  /\ head - distance = Place(appended)
  /\ write_buffer_filled - distance <= W
  /\ client \notin Flushing \cup {"aborted"} => distance = 0
  /\ client \in Flushing => distance \in 1 .. BlockSize /\ Aligned(appended + distance)

\* A flush that was woken has the mutex only when the buffer is drained.
ThreadInv ==
  /\ worker \in {"outer", "inner"} => mutex = "worker"
  /\ client = "append_loop" => mutex = "client"
  /\ exit_worker_thread => client \in {"exit_signal", "join", "closed", "aborted"}
  /\ client = "flush_woken" => write_buffer_filled = 0 \/ mutex = "worker"

\* The last bytes of the log are in the buffer, written or not.
BufferInv ==
  \A p \in 0 .. appended - 1 : appended - W <= p => write_buffer[Place(p)] = Byte(p)

\* What is before the offset is on the device.
DiskInv == \A p \in 0 .. appended - 1 : p < file_offset => OnDisk(p)

Flushed == {"read_start", "read_loop", "exit_lock", "exit_signal", "join", "closed"}

\* A flush leaves less than a block, and all of it on the device.
FlushInv ==
  client \in Flushed =>
    /\ write_buffer_filled < BlockSize
    /\ appended <= MaxInt + 1
    /\ \A p \in 0 .. appended - 1 : OnDisk(p)

\* A valid slot is that of its block, which is on the device.
CacheInv ==
  \A s \in 0 .. RCacheBlocks - 1 :
    read_cache[s].valid =>
      LET b == read_cache[s].block_id IN
      /\ b \in Nat /\ (b * BlockSize) + BlockSize <= DeviceSize
      /\ s = CacheSlot(b)
      /\ read_cache[s].block = BlockAt(disk, b * BlockSize)

\* The call in progress, and that its buffer is empty until it reads.
CallsInv ==
  /\ client = "closed" => call = Closed
  /\ client = "idle" => call = NoCall
  /\ client \in Appending => /\ call.op = "append" /\ call.len \in Nat
                             /\ left <= call.len /\ call.len - left <= appended
  /\ client \in Flushing \cup {"flush_lock"} => call.op = "read" \/ call = Closing
  /\ client \in {"exit_lock", "exit_signal", "join"} => call = Closing
  /\ client \notin {"idle", "closed", "read_loop", "aborted"} => buf = <<>>
  /\ client = "closed" => buf \in {<<>>, Failed}

\* What a read has delivered is what it was asked for, as far as it has come.
AnswerInv ==
  client = "read_loop" => /\ rd.till <= call.len
                          /\ buf = [k \in 1 .. rd.till |-> call.off + k]

SInv == /\ IInv /\ OffsetInv /\ PlaceInv /\ ThreadInv /\ BufferInv /\ DiskInv /\ FlushInv

-----------------------------------------------------------------------------
(* Places.                                                                 *)

\* Two numbers less than the modulus apart have different remainders.
LEMMA ModDiffer ==
  ASSUME NEW p \in Nat, NEW a \in Nat, NEW n \in Nat \ {0}, p < a, a < p + n
  PROVE  p % n # a % n
<1> DEFINE q == p \div n
           w == a \div n
<1>1. SUFFICES ASSUME p % n = a % n PROVE FALSE
  OBVIOUS
<1>2. /\ q \in Int /\ w \in Int /\ q * n \in Int /\ w * n \in Int
      /\ p = (q * n) + (p % n) /\ a = (w * n) + (a % n) /\ p % n \in Int
  BY DivMod, ModRange
<1> HIDE DEF q, w
<1>3. q * n < w * n
  BY <1>1, <1>2
<1>4. (q * n) + n <= w * n
  BY <1>2, <1>3, MultipleBelow
<1> QED
  BY <1>1, <1>2, <1>4

\* What a head needs to the next boundary is given by where it is.
LEMMA PadAligns ==
  ASSUME NEW a \in Nat, NEW n \in Nat \ {0}
  PROVE  (a + (n - (a % n))) % n = 0
<1> DEFINE r == a % n
           q == a \div n
           t == q + 1
<1>1. q \in Int /\ q * n \in Int /\ a = (q * n) + r /\ r \in 0 .. n - 1
  BY DivMod, ModRange
<1>2. t \in Int /\ t * n = (q * n) + n
  BY <1>1
<1> HIDE DEF q, r, t
<1>3. a + (n - r) = (t * n) + 0
  BY <1>1, <1>2
<1>4. ((t * n) + 0) % n = 0
  BY <1>2, ModUnique
<1> QED
  BY <1>3, <1>4 DEF r

LEMMA PadUnique ==
  ASSUME NEW a \in Nat, NEW n \in Nat \ {0}, NEW d \in 1 .. n, (a + d) % n = 0
  PROVE  d = n - (a % n)
<1> DEFINE r == a % n
           q == a \div n
<1>1. q \in Int /\ q * n \in Int /\ a = (q * n) + r /\ r \in 0 .. n - 1
  BY DivMod, ModRange
<1>2. (q + 1) * n = (q * n) + n
  BY <1>1
<1> HIDE DEF q, r
<1>3. CASE r + d < n
  <2>1. a + d = (q * n) + (r + d) /\ r + d \in 0 .. n - 1
    BY <1>1, <1>3
  <2>2. r + d = 0
    BY <1>1, <2>1, ModUnique
  <2> QED
    BY <1>1, <2>2
<1>4. CASE r + d > n
  <2>1. a + d = ((q + 1) * n) + (r + d - n) /\ r + d - n \in 0 .. n - 1
    BY <1>1, <1>2, <1>4
  <2> DEFINE t == q + 1
             s == r + d - n
  <2>2. t \in Int /\ s \in 0 .. n - 1
    BY <1>1, <2>1
  <2>3. a + d = (t * n) + s
    BY <2>1
  <2> HIDE DEF t, s
  <2>4. ((t * n) + s) % n = s
    BY <2>2, ModUnique
  <2>5. s = 0
    BY <2>3, <2>4
  <2> QED
    BY <1>1, <1>4, <2>5 DEF s
<1> QED
  BY <1>1, <1>3, <1>4 DEF r

\* A place in the buffer is as far from a block boundary as the position.
LEMMA PlaceInBlock ==
  ASSUME NEW a \in Nat
  PROVE  Place(a) \in 0 .. W - 1 /\ Place(a) % BlockSize = a % BlockSize
<1> DEFINE q == a \div W
           u == a % W
           k == u \div BlockSize
           r == u % BlockSize
           m == (q * WCacheBlocks) + k
<1>1. /\ q \in Int /\ a = (q * W) + u /\ u \in 0 .. W - 1
  BY DivMod, ModRange, Sizes DEF W
<1>2. k \in Int /\ u = (k * BlockSize) + r /\ r \in 0 .. BlockSize - 1
  BY <1>1, DivMod, ModRange, Sizes DEF W
<1> HIDE DEF q, u, k, r
<1>3. q * W = (q * WCacheBlocks) * BlockSize
  BY <1>1, Sizes, SizesAssumption DEF W, WriteBufferSize
<1>4. m \in Int /\ m * BlockSize = ((q * WCacheBlocks) * BlockSize) + (k * BlockSize)
  BY <1>1, <1>2, SizesAssumption
<1>5. q * W \in Int /\ k * BlockSize \in Int
  BY <1>1, <1>2, Sizes DEF W
<1>6. a = (m * BlockSize) + r
  BY <1>1, <1>2, <1>3, <1>4, <1>5
<1> HIDE DEF m
<1>7. a % BlockSize = r
  BY <1>2, <1>4, <1>6, ModUnique, Sizes
<1> QED
  BY <1>1, <1>7 DEF u, r, Place

-----------------------------------------------------------------------------
(* The steps by what they touch.                                           *)

\* The steps that move no byte: a mutex, a wait, a lookup, a call or its end.
Still ==
  /\ UNCHANGED <<buffer_vars, disk, distance, appended>>
  /\ \/ client' = client
     \/ {client, client'} \cap (Flushing \cup {"aborted"}) = {}
     \/ client' = "aborted"
  /\ client' \in Flushed => client \in Flushed

LEMMA NextIs ==
  ASSUME Next, ~SpuriousWakeup
  PROVE  Open \/ AppendByte \/ FlushPad \/ FlushUndo \/ WorkerWrite \/ Still
<1> USE DEF buffer_vars, store_vars, client_vars
<1>1. CASE CallAppend \/ CallRead \/ CallClose
  BY <1>1 DEF CallAppend, CallRead, CallClose, Still, Flushing, Flushed
<1>2. CASE AppendLock \/ AppendFull \/ AppendReturn
  BY <1>2 DEF AppendLock, AppendFull, AppendReturn, Still, Flushing, Flushed
<1>3. CASE ReadStart \/ ReadHit \/ ReadMiss \/ ReadFails \/ ReadReturn
  BY <1>3 DEF ReadStart, ReadHit, ReadMiss, ReadFails, ReadReturn, Still, Flushing, Flushed
<1>4. CASE CloseSetExit \/ CloseSignal \/ CloseJoin
  BY <1>4 DEF CloseSetExit, CloseSignal, CloseJoin, Still, Flushing, Flushed
<1>5. CASE WorkerLock \/ WorkerOuter \/ WorkerWait \/ WorkerRelock \/ WorkerExit
           \/ WorkerWriteFails
  BY <1>5 DEF WorkerLock, WorkerOuter, WorkerWait, WorkerRelock, WorkerExit,
     WorkerWriteFails, Still, Flushing, Flushed
<1>6. CASE WorkerAborts \/ ReadAborts \/ OpenFails \/ OpenCrashes
  BY <1>6 DEF WorkerAborts, ReadAborts, OpenFails, OpenCrashes, Still, Flushing, Flushed
<1> QED
  BY <1>1, <1>2, <1>3, <1>4, <1>5, <1>6 DEF Next, ClientSteps, Worker

\* The place of a byte further on, or back, follows from this one's.
LEMMA PlaceAdd ==
  ASSUME NEW a \in Int, NEW b \in Int
  PROVE  Place(a) \in 0 .. W - 1 /\ (Place(a) + b) % W = Place(a + b)
<1>1. W \in Nat \ {0}
  BY Sizes DEF W
<1> QED
  BY <1>1, ModAdd, ModRange DEF Place

\* Places less than a buffer apart differ.
LEMMA PlacesDiffer ==
  ASSUME NEW p \in Nat, NEW a \in Nat, p < a, a < p + W
  PROVE  Place(p) # Place(a)
<1>1. W \in Nat \ {0}
  BY Sizes DEF W
<1> QED
  BY <1>1, ModDiffer DEF Place

\* The place of a byte that is found without a wrap.
LEMMA PlaceNear ==
  ASSUME NEW a \in Int, NEW b \in Int, Place(a) + b \in 0 .. W - 1
  PROVE  Place(a + b) = Place(a) + b
<1>1. W \in Nat \ {0}
  BY Sizes DEF W
<1> DEFINE c == Place(a) + b
<1>2. c % W = Place(a + b) /\ c \in 0 .. W - 1
  BY PlaceAdd
<1> HIDE DEF c
<1>3. c % W = c
  BY <1>1, <1>2, ModSmall
<1> QED
  BY <1>2, <1>3 DEF c

LEMMA SizesW ==
  /\ BlockSize \in Nat \ {0} /\ W \in Nat \ {0} /\ BlockSize <= W
  /\ DeviceSize \in Nat /\ MaxLog \in Nat
BY Sizes DEF W

\* What the proofs below use of the types.
LEMMA Types ==
  ASSUME TypeOK
  PROVE  /\ head \in Nat /\ tail \in 0 .. W - 1 /\ write_buffer_filled \in Nat
         /\ file_offset \in Int /\ distance \in 0 .. BlockSize
         /\ appended \in Nat /\ appended <= MaxLog
         /\ write_buffer \in [0 .. W - 1 -> Bytes]
         /\ disk \in [0 .. DeviceSize - 1 -> Bytes]
BY Sizes DEF TypeOK, W

\* A block is written where the whole offset says, and read from there.
LEMMA WritesAt ==
  ASSUME SInv, OnDevice
  PROVE  AsInt(file_offset) = file_offset
<1>1. file_offset \in Nat /\ file_offset <= MaxInt + 1 /\ MaxInt \in Nat
  BY IntSize DEF SInv, PlaceInv, OffsetInv
<1>2. AsInt(file_offset) >= 0
  BY DEF OnDevice
<1>3. file_offset # MaxInt + 1
  BY <1>1, <1>2, AsIntOver
<1>4. file_offset \in -(MaxInt + 1) .. MaxInt
  BY <1>1, <1>3
<1> QED
  BY <1>1, <1>4, AsIntSmall

LEMMA ReadsAt ==
  ASSUME SInv, client = "read_loop", rd.till < call.len
  PROVE  /\ BlockOffset(rd.block_id) = rd.block_id * BlockSize
         /\ ReadOnDevice(rd.block_id)
<1> DEFINE i == rd.block_id * BlockSize
<1>1. TypeOK /\ CallInv /\ ReadInv /\ FlushInv
  BY DEF SInv, IInv
<1>2. /\ i + rd.start = call.off + rd.till /\ rd.start \in Nat /\ rd.till \in Nat
      /\ call.off \in Nat /\ call.len \in Nat /\ call.off + call.len <= appended
      /\ appended \in Nat /\ appended <= MaxInt + 1
  BY <1>1, Types, Sizes DEF ReadInv, CallInv, Reading, FlushInv, Flushed
<1>3. i \in Nat /\ i + BlockSize <= DeviceSize
  BY <1>1, ReadBlockOnDevice
<1> HIDE DEF i
<1>4. i \in -(MaxInt + 1) .. MaxInt
  BY <1>2, <1>3, IntSize
<1>5. AsInt(i) = i
  BY <1>4, AsIntSmall
<1> QED
  BY <1>3, <1>5 DEF i, BlockOffset, ReadOnDevice

-----------------------------------------------------------------------------
(* Head, tail and the offset.                                              *)

\* Head is at the place of the end of the log, but for the padding.
LEMMA HeadPlace ==
  ASSUME PlaceInv, TypeOK, client \notin Flushing \cup {"aborted"}
  PROVE  distance = 0 /\ head = Place(appended) /\ file_offset + write_buffer_filled = appended
<1>1. distance = 0 /\ head \in Int /\ appended \in Nat
  BY Types DEF PlaceInv
<1> QED
  BY <1>1, PlaceAdd DEF PlaceInv

\* What a flush takes back is the begun block, and all of it was written.
LEMMA UndoPlace ==
  ASSUME SInv, FlushUndo
  PROVE  /\ write_buffer_filled = 0 /\ file_offset = appended + distance
         /\ head' = Place(appended) /\ head' % BlockSize = appended % BlockSize
         /\ file_offset' = appended - (appended % BlockSize)
         /\ write_buffer_filled' = appended % BlockSize
         /\ appended % BlockSize \in 0 .. BlockSize - 1
<1>1. /\ client = "flush_woken" /\ mutex = "free" /\ head' = head - distance
      /\ file_offset' = file_offset - BlockSize
      /\ write_buffer_filled' = head' % BlockSize
  BY DEF FlushUndo, UndoFilled, UndoOffset
<1>2. TypeOK /\ PlaceInv /\ ThreadInv
  BY DEF SInv, IInv
<1>3. write_buffer_filled = 0 /\ file_offset = appended + distance
  BY <1>1, <1>2, Types DEF ThreadInv, PlaceInv
<1>4. head' = Place(appended)
  BY <1>1, <1>2 DEF PlaceInv
<1>5. head' % BlockSize = appended % BlockSize
  BY <1>2, <1>4, Types, PlaceInBlock
<1>6. distance \in 1 .. BlockSize /\ (appended + distance) % BlockSize = 0
  BY <1>1, <1>2 DEF PlaceInv, Flushing, Aligned
<1>7. appended \in Nat /\ BlockSize \in Nat \ {0} /\ distance \in Int
  BY <1>2, Types, SizesW
<1>8. distance = BlockSize - (appended % BlockSize)
  BY <1>6, <1>7, PadUnique
<1>9. appended % BlockSize \in 0 .. BlockSize - 1
  BY <1>7, ModRange
<1> QED
  BY <1>1, <1>3, <1>4, <1>5, <1>7, <1>8, <1>9

LEMMA PlaceStep ==
  ASSUME SInv, Next, ~SpuriousWakeup
  PROVE  PlaceInv'
<1>0. TypeOK /\ PlaceInv /\ ThreadInv /\ HeadInv
  BY DEF SInv, IInv
<1>1. /\ appended \in Nat /\ file_offset \in Nat /\ head \in Nat /\ tail \in Nat
      /\ write_buffer_filled \in Nat /\ distance \in 0 .. BlockSize
  BY <1>0, Types DEF PlaceInv
<1>2. CASE Open
  <2>1. /\ head' = 0 /\ tail' = 0 /\ write_buffer_filled' = 0 /\ file_offset' = 0
        /\ client' = "idle" /\ distance' = 0 /\ appended' = 0
    BY <1>2 DEF Open
  <2>2. Place(0) = 0 /\ Aligned(0)
    BY ModSmall, SizesW DEF Place, Aligned
  <2> QED
    BY <2>1, <2>2, SizesW DEF PlaceInv, Flushing
<1>3. CASE AppendByte
  <2>1. /\ client = "append_loop" /\ ~(W <= write_buffer_filled)
        /\ head' = (head + 1) % W /\ write_buffer_filled' = write_buffer_filled + 1
        /\ appended' = appended + 1
        /\ UNCHANGED <<tail, file_offset, distance, client>>
    BY <1>3 DEF AppendByte, BufferFull, W
  <2>2. distance = 0 /\ head = Place(appended)
    BY <1>0, <2>1, HeadPlace DEF Flushing
  <2>3. head' = Place(appended + 1) /\ Place(appended + 1) \in Int
    BY <1>1, <2>1, <2>2, PlaceAdd
  <2> QED
    BY <1>0, <1>1, <2>1, <2>2, <2>3, SizesW DEF PlaceInv, Flushing
<1>4. CASE FlushPad
  <2>1. /\ client = "flush_lock" /\ client' = "flush_wait"
        /\ distance' = BlockSize - (head % BlockSize)
        /\ head' = head + distance' /\ write_buffer_filled' = write_buffer_filled + distance'
        /\ UNCHANGED <<tail, file_offset, appended>>
    BY <1>4 DEF FlushPad, PadDistance
  <2>2. distance = 0 /\ head = Place(appended) /\ file_offset + write_buffer_filled = appended
    BY <1>0, <2>1, HeadPlace DEF Flushing
  <2>3. head % BlockSize = appended % BlockSize
    BY <1>1, <2>2, PlaceInBlock
  <2>4. appended % BlockSize \in 0 .. BlockSize - 1
    BY <1>1, ModRange, SizesW
  <2>5. (appended + (BlockSize - (appended % BlockSize))) % BlockSize = 0
    BY <1>1, PadAligns, SizesW
  <2>6. distance' \in 1 .. BlockSize /\ Aligned(appended + distance')
    <3>1. distance' = BlockSize - (appended % BlockSize)
      BY <2>1, <2>3
    <3>2. BlockSize - (appended % BlockSize) \in 1 .. BlockSize
      BY <2>4, SizesW
    <3> QED
      BY <2>5, <3>1, <3>2 DEF Aligned
  <2>7. write_buffer_filled <= W
    BY <1>0, <2>1 DEF HeadInv, Flushing, W
  <2>8. head' - distance' = Place(appended)
    BY <1>1, <2>1, <2>2, <2>6, SizesW
  <2>9. file_offset' + write_buffer_filled' = appended' + distance'
    <3>1. /\ write_buffer_filled' = write_buffer_filled + distance'
          /\ file_offset' = file_offset /\ appended' = appended
      BY <2>1
    <3>2. file_offset + write_buffer_filled = appended /\ distance' \in Int
      BY <2>2, <2>6, SizesW
    <3> QED
      BY <1>1, <3>1, <3>2
  <2>10. write_buffer_filled' - distance' <= W
    BY <1>1, <2>1, <2>6, <2>7, SizesW
  <2> QED
    BY <1>0, <2>1, <2>6, <2>8, <2>9, <2>10 DEF PlaceInv, Flushing
<1>5. CASE FlushUndo
  <2> DEFINE r == appended % BlockSize
             h == Place(appended)
  <2>1. /\ file_offset' = appended - r /\ write_buffer_filled' = r
        /\ head' = h /\ r \in 0 .. BlockSize - 1 /\ h % BlockSize = r
        /\ file_offset = appended + distance
    BY <1>5, UndoPlace
  <2>2. /\ distance' = 0 /\ appended' = appended /\ client' \in {"read_start", "exit_lock"}
        /\ tail' = IF tail = 0 THEN h - r ELSE tail - BlockSize
        /\ file_offset' = file_offset - BlockSize
    BY <1>5, <2>1 DEF FlushUndo, UndoTail, UndoOffset
  <2>3. h \in 0 .. W - 1
    BY <1>1, PlaceInBlock
  <2>4. file_offset' \in 0 .. appended /\ Aligned(file_offset)'
    BY <1>1, <2>1, RoundDown, SizesW DEF Aligned
  <2>5. tail' = Place(file_offset')
    <3>1. CASE tail = 0
      <4>1. h - r \in 0 .. W - 1
        BY <2>1, <2>3, RoundDown, SizesW
      <4> DEFINE b == -r
      <4>2. b \in Int /\ Place(appended) + b = h - r /\ appended + b = appended - r
        BY <1>1, <2>1, <2>3, SizesW
      <4> HIDE DEF b
      <4>3. Place(appended + b) = Place(appended) + b
        BY <1>1, <4>1, <4>2, PlaceNear
      <4> HIDE DEF h, r
      <4> QED
        BY <2>1, <2>2, <3>1, <4>2, <4>3
    <3>2. CASE tail # 0
      <4>1. tail \in Nat /\ tail % BlockSize = 0 /\ tail < W /\ tail = Place(file_offset)
        <5>1. Aligned(tail) /\ tail = Place(file_offset)
          BY <1>0 DEF HeadInv, PlaceInv
        <5>2. tail \in Nat /\ tail < W
          BY <1>0, Types, SizesW
        <5> QED
          BY <5>1, <5>2 DEF Aligned
      <4>2. tail - BlockSize \in 0 .. W - 1
        <5>1. tail - BlockSize \in Nat
          BY <3>2, <4>1, BoundaryAtLeast, SizesW
        <5> QED
          BY <4>1, <5>1, SizesW
      <4> DEFINE b == -BlockSize
      <4>3. /\ b \in Int /\ tail + b = tail - BlockSize
            /\ file_offset + b = file_offset - BlockSize
        BY <1>1, SizesW
      <4> HIDE DEF b
      <4>4. Place(file_offset + b) = Place(file_offset) + b
        BY <1>1, <4>1, <4>2, <4>3, PlaceNear
      <4> QED
        BY <2>2, <3>2, <4>1, <4>3, <4>4
    <3> QED
      BY <3>1, <3>2
  <2> HIDE DEF r, h
  <2>6. file_offset' + write_buffer_filled' = appended' + distance'
    BY <1>1, <2>1, <2>2, SizesW
  <2>7. head' - distance' = Place(appended') /\ write_buffer_filled' - distance' <= W
    BY <2>1, <2>2, <2>3, SizesW DEF h
  <2> QED
    BY <2>2, <2>4, <2>5, <2>6, <2>7 DEF PlaceInv, Flushing
<1>6. CASE WorkerWrite
  <2>1. /\ tail' = (tail + BlockSize) % W /\ file_offset' = file_offset + BlockSize
        /\ write_buffer_filled' = write_buffer_filled - BlockSize
        /\ UNCHANGED <<head, distance, appended>>
        /\ \/ client' = client
           \/ client = "flush_wait" /\ client' = "flush_woken"
    BY <1>6 DEF WorkerWrite, SignalFlush, client_vars, W
  <2>2. tail' = Place(file_offset')
    BY <1>0, <1>1, <2>1, PlaceAdd, SizesW DEF PlaceInv
  <2>3. Aligned(file_offset + BlockSize)
    BY <1>0, <1>1, AlignedNext DEF PlaceInv
  <2>4. file_offset' \in Nat /\ Aligned(file_offset)'
    BY <1>1, <2>1, <2>3, SizesW DEF Aligned
  <2>5. file_offset' + write_buffer_filled' = appended' + distance'
    BY <1>0, <1>1, <2>1, SizesW DEF PlaceInv
  <2>6. write_buffer_filled' - distance' <= W
    BY <1>0, <1>1, <2>1, SizesW DEF PlaceInv
  <2>7. /\ client' \in Flushing => client \in Flushing
        /\ client' \notin Flushing \cup {"aborted"} => client \notin Flushing \cup {"aborted"}
    BY <2>1 DEF Flushing
  <2> QED
    BY <1>0, <2>1, <2>2, <2>4, <2>5, <2>6, <2>7 DEF PlaceInv
<1>7. CASE Still
  <2>1. UNCHANGED <<head, tail, write_buffer_filled, file_offset, distance, appended>>
    BY <1>7 DEF Still, buffer_vars
  <2>2. /\ client' \in Flushing => client \in Flushing
        /\ client' \notin Flushing \cup {"aborted"} => client \notin Flushing \cup {"aborted"}
    BY <1>7 DEF Still, Flushing
  <2> QED
    BY <1>0, <2>1, <2>2 DEF PlaceInv, Aligned
<1> QED
  BY <1>0, <1>2, <1>3, <1>4, <1>5, <1>6, <1>7, NextIs

-----------------------------------------------------------------------------
(* Who is where.                                                           *)

\* A worker that goes to sleep beside a flush that was woken leaves nothing.
LEMMA DrainedWhenWoken ==
  ASSUME TypeOK, PlaceInv, client = "flush_woken", write_buffer_filled < BlockSize
  PROVE  write_buffer_filled = 0
<1>1. /\ file_offset \in Nat /\ file_offset % BlockSize = 0
      /\ (appended + distance) % BlockSize = 0
      /\ file_offset + write_buffer_filled = appended + distance
      /\ write_buffer_filled \in 0 .. BlockSize - 1
  BY Types, SizesW DEF PlaceInv, Flushing, Aligned
<1> DEFINE q == file_offset \div BlockSize
           b == write_buffer_filled
           s == appended + distance
<1>2. /\ q \in Int /\ q * BlockSize \in Int
      /\ file_offset = (q * BlockSize) + (file_offset % BlockSize)
  BY <1>1, DivMod, SizesW
<1>3. s = (q * BlockSize) + b /\ s % BlockSize = 0
  BY <1>1, <1>2
<1> HIDE DEF q, s
<1>4. ((q * BlockSize) + b) % BlockSize = b
  BY <1>1, <1>2, ModUnique, SizesW
<1> QED
  BY <1>3, <1>4

LEMMA ThreadStep ==
  ASSUME SInv, Next, ~SpuriousWakeup
  PROVE  ThreadInv'
<1> USE DEF ThreadInv, buffer_vars, store_vars, client_vars
<1>1. TypeOK /\ PlaceInv /\ ThreadInv
  BY DEF SInv, IInv
<1>2. CASE Open
  BY <1>2 DEF Open
<1>3. CASE CallAppend \/ CallRead \/ CallClose
  BY <1>1, <1>3 DEF CallAppend, CallRead, CallClose
<1>4. CASE AppendLock \/ AppendFull \/ AppendReturn
  BY <1>1, <1>4 DEF AppendLock, AppendFull, AppendReturn
<1>5. CASE AppendByte
  BY <1>1, <1>5 DEF AppendByte, SignalItemAvail
<1>6. CASE FlushPad
  BY <1>1, <1>6 DEF FlushPad, SignalItemAvail
<1>7. CASE FlushUndo
  BY <1>1, <1>7 DEF FlushUndo
<1>8. CASE ReadStart \/ ReadHit \/ ReadMiss \/ ReadFails \/ ReadReturn
  BY <1>1, <1>8 DEF ReadStart, ReadHit, ReadMiss, ReadFails, ReadReturn
<1>9. CASE CloseSetExit
  BY <1>1, <1>9 DEF CloseSetExit
<1>10. CASE CloseSignal
  BY <1>1, <1>10 DEF CloseSignal, SignalItemAvail
<1>11. CASE CloseJoin
  BY <1>1, <1>11 DEF CloseJoin
<1>12. CASE WorkerLock
  BY <1>1, <1>12 DEF WorkerLock
<1>13. CASE WorkerOuter
  BY <1>1, <1>13 DEF WorkerOuter
<1>14. CASE WorkerWait
  <2>1. client = "flush_woken" => write_buffer_filled = 0
    BY <1>1, <1>14, DrainedWhenWoken DEF WorkerWait
  <2> QED
    BY <1>1, <1>14, <2>1 DEF WorkerWait
<1>15. CASE WorkerRelock
  BY <1>1, <1>15 DEF WorkerRelock
<1>16. CASE WorkerExit
  BY <1>1, <1>16 DEF WorkerExit
<1>17. CASE WorkerWrite
  BY <1>1, <1>17 DEF WorkerWrite, BlockReady, SignalFlush
<1>18. CASE WorkerWriteFails
  BY <1>1, <1>18 DEF WorkerWriteFails, BlockReady
<1>19. CASE WorkerAborts \/ ReadAborts \/ OpenFails \/ OpenCrashes
  BY <1>1, <1>19 DEF WorkerAborts, ReadAborts, OpenFails, OpenCrashes, BlockReady
<1> QED
  BY <1>2, <1>3, <1>4, <1>5, <1>6, <1>7, <1>8, <1>9, <1>10, <1>11, <1>12, <1>13,
     <1>14, <1>15, <1>16, <1>17, <1>18, <1>19 DEF Next, ClientSteps, Worker

-----------------------------------------------------------------------------
(* The bytes in the buffer, and on the device.                             *)

LEMMA BufferStep ==
  ASSUME SInv, Next, ~SpuriousWakeup
  PROVE  BufferInv'
<1>1. TypeOK /\ PlaceInv /\ BufferInv
  BY DEF SInv, IInv
<1>2. CASE Open
  <2>1. appended' = 0
    BY <1>2 DEF Open
  <2> QED
    BY <2>1 DEF BufferInv
<1>3. CASE AppendByte
  <2>1. /\ client = "append_loop" /\ appended' = appended + 1
        /\ write_buffer' = [write_buffer EXCEPT ![head] = Byte(appended)]
    BY <1>3 DEF AppendByte
  <2>2. head = Place(appended) /\ appended \in Nat /\ Place(appended) \in 0 .. W - 1
    BY <1>1, <2>1, HeadPlace, Types, PlaceInBlock DEF Flushing
  <2>3. write_buffer \in [0 .. W - 1 -> Bytes]
    BY <1>1, Types
  <2>4. SUFFICES ASSUME NEW p \in 0 .. appended, appended + 1 - W <= p
                 PROVE  write_buffer'[Place(p)] = Byte(p)
    <3>1. appended' - 1 = appended /\ appended' - W = appended + 1 - W
      BY <2>1, <2>2, SizesW
    <3> QED
      BY <3>1 DEF BufferInv
  <2>5. CASE p = appended
    BY <2>1, <2>2, <2>3, <2>5
  <2>6. CASE p # appended
    <3>1. p \in 0 .. appended - 1 /\ appended - W <= p /\ p < appended /\ appended < p + W
      BY <2>2, <2>4, <2>6, SizesW
    <3>2. Place(p) # head /\ Place(p) \in 0 .. W - 1
      BY <2>2, <3>1, PlacesDiffer, PlaceInBlock
    <3>3. write_buffer[Place(p)] = Byte(p)
      BY <1>1, <3>1 DEF BufferInv
    <3> QED
      BY <2>1, <2>3, <3>2, <3>3
  <2> QED
    BY <2>5, <2>6
<1>4. CASE FlushPad \/ FlushUndo \/ WorkerWrite \/ Still
  <2>1. write_buffer' = write_buffer /\ appended' = appended
    BY <1>4 DEF FlushPad, FlushUndo, WorkerWrite, Still, buffer_vars, client_vars
  <2> QED
    BY <1>1, <2>1 DEF BufferInv
<1> QED
  BY <1>1, <1>2, <1>3, <1>4, NextIs

\* What the worker writes is the bytes of the log that belong there.
LEMMA WriteBytes ==
  ASSUME SInv, WorkerWrite, NEW p \in 0 .. appended - 1
  PROVE  /\ file_offset <= p /\ p < file_offset + BlockSize => disk'[p] = Byte(p)
         /\ OnDisk(p) => disk'[p] = Byte(p)
<1>1. TypeOK /\ PlaceInv /\ BufferInv /\ HeadInv
  BY DEF SInv, IInv
<1>2. /\ appended \in Nat /\ file_offset \in Nat /\ tail \in 0 .. W - 1
      /\ write_buffer_filled \in Nat /\ distance \in 0 .. BlockSize
      /\ disk \in [0 .. DeviceSize - 1 -> Bytes]
      /\ appended <= MaxLog /\ MaxLog \in Nat
  BY <1>1, Types, SizesW DEF PlaceInv
<1>3. disk' = StoreBlock(disk, file_offset, BlockAt(write_buffer, tail))
  <2>1. OnDevice /\ disk' = StoreBlock(disk, AsInt(file_offset), BlockAt(write_buffer, tail))
    BY DEF WorkerWrite
  <2> QED
    BY <2>1, WritesAt
<1>4. ASSUME file_offset <= p, p < file_offset + BlockSize
      PROVE  disk'[p] = Byte(p)
  <2> DEFINE k == p - file_offset
  <2>1. k \in 0 .. BlockSize - 1 /\ k \in Int /\ p = file_offset + k
        /\ p \in 0 .. DeviceSize - 1 /\ p \in file_offset .. file_offset + BlockSize - 1
    BY <1>2, <1>4, Sizes
  <2>2. disk'[p] = BlockAt(write_buffer, tail)[k]
    BY <1>2, <1>3, <2>1 DEF StoreBlock
  <2> HIDE DEF k
  <2>3. BlockAt(write_buffer, tail)[k] = write_buffer[tail + k]
    BY <2>1 DEF BlockAt
  <2>4. tail = Place(file_offset) /\ tail + k \in 0 .. W - 1
    <3>1. tail + BlockSize <= W
      BY <1>1, TailBlock DEF W
    <3>2. tail = Place(file_offset)
      BY <1>1 DEF PlaceInv
    <3> QED
      BY <1>2, <2>1, <3>1, <3>2, SizesW
  <2>5. Place(p) = tail + k
    BY <1>2, <2>1, <2>4, PlaceNear
  <2>6. appended - W <= p
    <3>1. /\ file_offset + write_buffer_filled = appended + distance
          /\ write_buffer_filled - distance <= W
      BY <1>1 DEF PlaceInv
    <3> QED
      BY <1>2, <1>4, <3>1, SizesW
  <2> QED
    BY <1>1, <2>2, <2>3, <2>5, <2>6 DEF BufferInv
<1>5. ASSUME OnDisk(p), ~(file_offset <= p /\ p < file_offset + BlockSize)
      PROVE  disk'[p] = Byte(p)
  <2>1. p \in 0 .. DeviceSize - 1 /\ p \notin file_offset .. file_offset + BlockSize - 1
    BY <1>2, <1>5, Sizes
  <2>2. disk'[p] = disk[p]
    BY <1>2, <1>3, <2>1 DEF StoreBlock
  <2> QED
    BY <1>5, <2>2 DEF OnDisk
<1> QED
  BY <1>4, <1>5

LEMMA DiskStep ==
  ASSUME SInv, Next, ~SpuriousWakeup
  PROVE  DiskInv'
<1>1. TypeOK /\ PlaceInv /\ DiskInv
  BY DEF SInv, IInv
<1>2. /\ appended \in Nat /\ file_offset \in Nat /\ write_buffer_filled \in Nat
      /\ appended <= DeviceSize
  BY <1>1, Types, Sizes DEF PlaceInv
<1>3. CASE Open
  <2>1. appended' = 0
    BY <1>3 DEF Open
  <2> QED
    BY <2>1 DEF DiskInv
<1>4. CASE AppendByte
  <2>1. client = "append_loop" /\ appended' = appended + 1 /\ UNCHANGED <<disk, file_offset>>
    BY <1>4 DEF AppendByte, store_vars
  <2>2. file_offset <= appended
    BY <1>1, <1>2, <2>1, HeadPlace DEF Flushing
  <2>3. SUFFICES ASSUME NEW p \in 0 .. appended, p < file_offset PROVE OnDisk(p)'
    BY <1>2, <2>1 DEF DiskInv
  <2>4. p \in 0 .. appended - 1
    BY <1>2, <2>2, <2>3
  <2> QED
    BY <1>1, <2>1, <2>3, <2>4 DEF DiskInv, OnDisk
<1>5. CASE FlushUndo
  <2>1. UNCHANGED <<disk, appended>> /\ file_offset' = file_offset - BlockSize
    BY <1>5 DEF FlushUndo, store_vars, UndoOffset
  <2>2. SUFFICES ASSUME NEW p \in 0 .. appended - 1, p < file_offset - BlockSize
                 PROVE  OnDisk(p)'
    BY <2>1 DEF DiskInv
  <2>3. p < file_offset
    BY <1>2, <2>2, SizesW
  <2> QED
    BY <1>1, <2>1, <2>3 DEF DiskInv, OnDisk
<1>6. CASE WorkerWrite
  <2>1. appended' = appended /\ file_offset' = file_offset + BlockSize
    BY <1>6 DEF WorkerWrite, client_vars
  <2>2. SUFFICES ASSUME NEW p \in 0 .. appended - 1, p < file_offset + BlockSize
                 PROVE  OnDisk(p)'
    BY <2>1 DEF DiskInv
  <2>3. p < DeviceSize /\ (p < file_offset \/ file_offset <= p)
    BY <1>2, SizesW
  <2>4. disk'[p] = Byte(p)
    BY <1>1, <1>6, <2>2, <2>3, WriteBytes DEF DiskInv
  <2> QED
    BY <2>3, <2>4 DEF OnDisk
<1>7. CASE FlushPad \/ Still
  <2>1. UNCHANGED <<disk, file_offset, appended>>
    BY <1>7 DEF FlushPad, Still, buffer_vars, store_vars
  <2> QED
    BY <1>1, <2>1 DEF DiskInv, OnDisk
<1> QED
  BY <1>1, <1>3, <1>4, <1>5, <1>6, <1>7, NextIs

LEMMA FlushStep ==
  ASSUME SInv, Next, ~SpuriousWakeup
  PROVE  FlushInv'
<1>1. TypeOK /\ PlaceInv /\ DiskInv /\ FlushInv
  BY DEF SInv, IInv
<1>2. CASE Open
  BY <1>2 DEF Open, FlushInv, Flushed
<1>3. CASE AppendByte
  BY <1>3 DEF AppendByte, FlushInv, Flushed
<1>4. CASE FlushPad
  BY <1>4 DEF FlushPad, FlushInv, Flushed
<1>5. CASE FlushUndo
  <2>1. /\ file_offset = appended + distance /\ UNCHANGED <<disk, appended>>
        /\ write_buffer_filled' \in 0 .. BlockSize - 1 /\ client = "flush_woken"
    BY <1>5, UndoPlace DEF FlushUndo, store_vars
  <2>2. appended \in Nat /\ distance \in Nat
    BY <1>1, Types, SizesW
  <2>3. ASSUME NEW p \in 0 .. appended - 1 PROVE OnDisk(p)'
    <3>1. p < file_offset
      BY <2>1, <2>2
    <3> QED
      BY <1>1, <2>1, <3>1 DEF DiskInv, OnDisk
  <2>4. appended' <= MaxInt + 1
    <3>1. file_offset <= MaxInt + 1
      BY DEF SInv, OffsetInv
    <3>2. file_offset \in Nat /\ MaxInt \in Nat
      BY <1>1, IntSize DEF PlaceInv
    <3> QED
      BY <2>1, <2>2, <3>1, <3>2
  <2> QED
    BY <2>1, <2>3, <2>4, SizesW DEF FlushInv
<1>6. CASE WorkerWrite
  <2>1. write_buffer_filled >= BlockSize /\ client' \in {client, "flush_woken"}
    BY <1>6 DEF WorkerWrite, BlockReady, SignalFlush
  <2>2. client \notin Flushed
    BY <1>1, <2>1, Types, SizesW DEF FlushInv
  <2> QED
    BY <2>1, <2>2 DEF FlushInv, Flushed
<1>7. CASE Still
  <2>1. /\ UNCHANGED <<disk, write_buffer_filled, appended>>
        /\ client' \in Flushed => client \in Flushed
    BY <1>7 DEF Still, buffer_vars
  <2> QED
    BY <1>1, <2>1 DEF FlushInv, OnDisk
<1> QED
  BY <1>1, <1>2, <1>3, <1>4, <1>5, <1>6, <1>7, NextIs

-----------------------------------------------------------------------------
LEMMA InitSInv == Init => SInv
<1> SUFFICES ASSUME Init PROVE SInv
  OBVIOUS
<1>1. IInv /\ OffsetInv
  BY InitIInv, InitOffset
<1>2. /\ head = 0 /\ tail = 0 /\ write_buffer_filled = 0 /\ file_offset = 0
      /\ client = "closed" /\ worker = "exited" /\ distance = 0 /\ appended = 0
      /\ exit_worker_thread = FALSE
  BY DEF Init
<1>3. Place(0) = 0 /\ Aligned(0)
  BY ModSmall, SizesW DEF Place, Aligned
<1>4. PlaceInv
  BY <1>2, <1>3, SizesW DEF PlaceInv, Flushing
<1> QED
  BY <1>1, <1>2, <1>4, SizesW, IntSize
     DEF SInv, ThreadInv, BufferInv, DiskInv, FlushInv

LEMMA NextSInv ==
  ASSUME SInv, [Next]_vars, ~SpuriousWakeup
  PROVE  SInv'
<1>1. IInv' /\ OffsetInv'
  BY NextIInv, OffsetStep DEF SInv
<1>2. CASE Next
  BY <1>1, <1>2, PlaceStep, ThreadStep, BufferStep, DiskStep, FlushStep DEF SInv
<1>3. CASE UNCHANGED vars
  <2>1. /\ UNCHANGED <<head, tail, write_buffer, write_buffer_filled, file_offset>>
        /\ UNCHANGED <<exit_worker_thread, disk, mutex, client, worker, distance, appended>>
    BY <1>3 DEF vars, buffer_vars, store_vars, client_vars
  <2> QED
    BY <1>1, <2>1
       DEF SInv, PlaceInv, ThreadInv, BufferInv, DiskInv, FlushInv, OnDisk, Aligned
<1> QED
  BY <1>2, <1>3

\* Where there may be none, no step is a spurious wakeup.
LEMMA NoneSpurious ==
  ASSUME MaxSpurious = 0, SInv
  PROVE  ~SpuriousWakeup
BY DEF SpuriousWakeup, SInv, IInv, TypeOK

LEMMA SInvNothingLost == SInv => NothingLost
<1> SUFFICES ASSUME SInv PROVE NothingLost
  OBVIOUS
<1>1. TypeOK /\ PlaceInv /\ BufferInv /\ DiskInv
  BY DEF SInv, IInv
<1>2. /\ appended \in Nat /\ file_offset \in Nat /\ write_buffer_filled \in Nat
      /\ distance \in Nat
  BY <1>1, Types, SizesW DEF PlaceInv
<1>3. ASSUME NEW p \in 0 .. appended - 1, ~(p < file_offset) PROVE InBuffer(p)
  <2> DEFINE k == p - file_offset
  <2>1. p \in Nat /\ k \in Int /\ p = file_offset + k
    BY <1>2
  <2> HIDE DEF k
  <2>2. (tail + k) % W = Place(p)
    BY <1>1, <1>2, <2>1, PlaceAdd DEF PlaceInv
  <2>3. appended - W <= p
    <3>1. /\ file_offset + write_buffer_filled = appended + distance
          /\ write_buffer_filled - distance <= W
      BY <1>1 DEF PlaceInv
    <3> QED
      BY <1>2, <1>3, <3>1, SizesW
  <2>4. write_buffer[(tail + k) % W] = Byte(p)
    BY <1>1, <2>2, <2>3 DEF BufferInv
  <2> QED
    BY <2>4 DEF InBuffer, W, k
<1> QED
  BY <1>1, <1>3 DEF NothingLost, PlaceInv, DiskInv

\* Without spurious wakeups no byte is ever lost between the buffer and the
\* device, in the middle of an append, a flush or a drain, at any wrap.
THEOREM NothingIsLost == ASSUME MaxSpurious = 0 PROVE Spec => []NothingLost
<1>1. SInv /\ [Next]_vars => SInv'
  BY NextSInv, NoneSpurious
<1> QED
  BY <1>1, InitSInv, SInvNothingLost, PTL DEF Spec

LEMMA StepNeverUnwritten ==
  ASSUME ~SpuriousWakeup, SInv, [Next]_vars, NEW p \in 0 .. appended - 1, OnDisk(p)
  PROVE  disk'[p] = Byte(p) \/ client = "closed"
<1>1. TypeOK
  BY DEF SInv, IInv
<1>2. CASE WorkerWrite
  BY <1>2, WriteBytes
<1>3. CASE Open
  BY <1>3 DEF Open
<1>4. CASE AppendByte \/ FlushPad \/ FlushUndo \/ Still \/ UNCHANGED vars
  <2>1. disk' = disk
    BY <1>4 DEF AppendByte, FlushPad, FlushUndo, Still, vars, store_vars
  <2> QED
    BY <2>1 DEF OnDisk
<1> QED
  BY <1>1, <1>2, <1>3, <1>4, NextIs

\* Without spurious wakeups what was appended is on the device when a flush is
\* over, and when the log is closed, and what is there is never overwritten
\* with anything else.
THEOREM FlushesAreDurable == ASSUME MaxSpurious = 0 PROVE Spec => Durable
<1>1. SInv => FlushIsDurable
  BY DEF SInv, FlushInv, FlushIsDurable, Flushed
<1>2. SInv /\ [Next]_vars =>
        [\A p \in 0 .. appended - 1 : OnDisk(p) => disk'[p] = Byte(p) \/ client = "closed"]_vars
  BY StepNeverUnwritten, NoneSpurious
<1>3. SInv /\ [Next]_vars => SInv'
  BY NextSInv, NoneSpurious
<1> QED
  BY <1>1, <1>2, <1>3, InitSInv, PTL DEF Spec, Durable, NeverUnwritten

-----------------------------------------------------------------------------
(* The end of the device.                                                  *)

\* As long as there was no spurious wakeup the rest holds, and a worker that
\* fails the assertion had a block of padding to write past the device's end.
AbortInv ==
  spurious = 0 =>
    SInv /\ (worker = "aborted" => appended >= DeviceSize \/ appended > MaxInt)

\* A wakeup that was spurious is counted, and nothing takes that back.
LEMMA SpuriousCounted ==
  ASSUME TypeOK, [Next]_vars, spurious' = 0
  PROVE  spurious = 0 /\ ~SpuriousWakeup
<1>1. spurious \in Nat
  BY SizesAssumption DEF TypeOK
<1>2. ~SpuriousWakeup
  BY <1>1 DEF SpuriousWakeup
<1>3. spurious' = spurious
  <2>1. CASE Open \/ OpenFails \/ OpenCrashes \/ CallAppend \/ CallRead \/ CallClose
    BY <2>1 DEF Open, OpenFails, OpenCrashes, CallAppend, CallRead, CallClose
  <2>2. CASE AppendLock \/ AppendByte \/ AppendFull \/ AppendReturn \/ FlushPad \/ FlushUndo
    BY <2>2 DEF AppendLock, AppendByte, AppendFull, AppendReturn, FlushPad, FlushUndo
  <2>3. CASE ReadStart \/ ReadHit \/ ReadMiss \/ ReadFails \/ ReadAborts \/ ReadReturn
             \/ CloseSetExit \/ CloseSignal \/ CloseJoin
    BY <2>3 DEF ReadStart, ReadHit, ReadMiss, ReadFails, ReadAborts, ReadReturn,
       CloseSetExit, CloseSignal, CloseJoin
  <2>4. CASE Worker
    BY <2>4 DEF Worker, WorkerLock, WorkerOuter, WorkerWait, WorkerRelock, WorkerExit,
       WorkerAborts, WorkerWriteFails, WorkerWrite
  <2>5. CASE UNCHANGED vars
    BY <2>5 DEF vars
  <2> QED
    BY <1>2, <2>1, <2>2, <2>3, <2>4, <2>5 DEF Next, ClientSteps
<1> QED
  BY <1>2, <1>3

\* A block that is not on the device is past the end of a log that fills it, or
\* past what an int can count; and a read asks for none.
LEMMA AbortsWhenFull ==
  ASSUME SInv, WorkerAborts \/ ReadAborts
  PROVE  appended >= DeviceSize \/ appended > MaxInt
<1>1. TypeOK /\ PlaceInv
  BY DEF SInv, IInv
<1>2. /\ file_offset \in Nat /\ file_offset % BlockSize = 0 /\ appended \in Nat
      /\ distance \in 0 .. BlockSize /\ write_buffer_filled \in Nat
      /\ file_offset + write_buffer_filled = appended + distance
  BY <1>1, Types DEF PlaceInv, Aligned
<1>3. WorkerAborts
  BY ReadsAt DEF ReadAborts
<1>4. write_buffer_filled >= BlockSize /\ file_offset + write_buffer_filled <= appended + BlockSize
  BY <1>2, <1>3, SizesW DEF WorkerAborts, BlockReady
<1>5. file_offset <= appended
  BY <1>2, <1>4, SizesW
<1>6. MaxInt \in Nat /\ file_offset <= MaxInt + 1
  BY IntSize DEF SInv, OffsetInv
<1>7. CASE file_offset = MaxInt + 1
  BY <1>2, <1>5, <1>6, <1>7
<1>8. CASE file_offset # MaxInt + 1
  <2>1. file_offset \in -(MaxInt + 1) .. MaxInt
    BY <1>2, <1>6, <1>8
  <2>2. AsInt(file_offset) = file_offset
    BY <2>1, AsIntSmall
  <2>3. file_offset + BlockSize > DeviceSize
    BY <1>2, <1>3, <2>2, SizesW DEF WorkerAborts, OnDevice
  <2>4. file_offset >= DeviceSize
    <3>1. SUFFICES ASSUME file_offset < DeviceBlocks * BlockSize PROVE FALSE
      BY <1>2, SizesW DEF DeviceSize
    <3>2. file_offset + BlockSize <= DeviceBlocks * BlockSize
      BY <1>2, <3>1, BlockFits, SizesAssumption
    <3> QED
      BY <1>2, <2>3, <3>2, SizesW DEF DeviceSize
  <2> QED
    BY <1>2, <1>5, <2>4, SizesW
<1> QED
  BY <1>7, <1>8

LEMMA AppendedGrows ==
  ASSUME TypeOK, [Next]_vars, ~SpuriousWakeup
  PROVE  (appended' = 0 /\ worker' = "start") \/ appended' \in {appended, appended + 1}
<1>1. CASE Open
  BY <1>1 DEF Open
<1>2. CASE AppendByte
  BY <1>2 DEF AppendByte
<1>3. CASE FlushPad \/ FlushUndo \/ WorkerWrite \/ Still \/ UNCHANGED vars
  BY <1>3 DEF FlushPad, FlushUndo, WorkerWrite, Still, vars, client_vars
<1> QED
  BY <1>1, <1>2, <1>3, NextIs

LEMMA WorkerLives ==
  ASSUME [Next]_vars, worker' = "aborted"
  PROVE  worker = "aborted" \/ WorkerAborts \/ ReadAborts
<1>1. CASE Open \/ OpenFails \/ OpenCrashes \/ CallAppend \/ CallRead \/ CallClose
  BY <1>1 DEF Open, OpenFails, OpenCrashes, CallAppend, CallRead, CallClose
<1>2. CASE AppendLock \/ AppendByte \/ AppendFull \/ AppendReturn \/ FlushPad \/ FlushUndo
  BY <1>2 DEF AppendLock, AppendByte, AppendFull, AppendReturn, FlushPad, FlushUndo,
     SignalItemAvail
<1>3. CASE ReadStart \/ ReadHit \/ ReadMiss \/ ReadFails \/ ReadReturn
           \/ CloseSetExit \/ CloseSignal \/ CloseJoin
  BY <1>3 DEF ReadStart, ReadHit, ReadMiss, ReadFails, ReadReturn,
     CloseSetExit, CloseSignal, CloseJoin, SignalItemAvail
<1>4. CASE Worker
  BY <1>4 DEF Worker, WorkerLock, WorkerOuter, WorkerWait, WorkerRelock, WorkerExit,
     WorkerWriteFails, WorkerWrite
<1>5. CASE SpuriousWakeup \/ UNCHANGED vars
  BY <1>5 DEF SpuriousWakeup, vars
<1> QED
  BY <1>1, <1>2, <1>3, <1>4, <1>5 DEF Next, ClientSteps

\* Nothing but a log as long as the device, or longer than an int counts, or a
\* spurious wakeup, makes a thread fail the device's assertions: no sequence of
\* calls, wraps and faults does.
THEOREM AbortsOnlyAtTheEnd == Spec => []AbortsOnlyWhenFull
<1>1. Init => IInv /\ AbortInv
  BY InitIInv, InitSInv DEF AbortInv, Init
<1>2. IInv /\ AbortInv /\ [Next]_vars => (IInv /\ AbortInv)'
  <2>1. SUFFICES ASSUME IInv, AbortInv, [Next]_vars, spurious' = 0
                 PROVE  /\ SInv'
                        /\ worker' = "aborted" =>
                             appended' >= DeviceSize \/ appended' > MaxInt
    BY NextIInv DEF AbortInv
  <2>2. TypeOK /\ spurious = 0 /\ ~SpuriousWakeup
    BY <2>1, SpuriousCounted DEF IInv
  <2>3. SInv /\ (worker = "aborted" => appended >= DeviceSize \/ appended > MaxInt)
    BY <2>1, <2>2 DEF AbortInv
  <2>4. SInv'
    BY <2>1, <2>2, <2>3, NextSInv
  <2>5. ASSUME worker' = "aborted" PROVE appended' >= DeviceSize \/ appended' > MaxInt
    <3>1. appended >= DeviceSize \/ appended > MaxInt
      BY <2>1, <2>3, <2>5, WorkerLives, AbortsWhenFull
    <3>2. appended' \in {appended, appended + 1}
      BY <2>1, <2>2, <2>5, AppendedGrows
    <3>3. appended \in Nat
      BY <2>2, Types
    <3> QED
      BY <3>1, <3>2, <3>3, SizesW, IntSize
  <2> QED
    BY <2>4, <2>5
<1>3. IInv /\ AbortInv => AbortsOnlyWhenFull
  <2>1. SUFFICES ASSUME IInv, AbortInv, worker = "aborted", spurious # 0 \/ spurious = 0
                 PROVE  appended >= DeviceSize \/ appended > MaxInt \/ spurious > 0
    BY DEF AbortsOnlyWhenFull
  <2>2. spurious \in Nat
    BY <2>1, SizesAssumption DEF IInv, TypeOK
  <2> QED
    BY <2>1, <2>2 DEF AbortInv
<1> QED
  BY <1>1, <1>2, <1>3, PTL DEF Spec

-----------------------------------------------------------------------------
(* The cache.                                                              *)

\* Writing a block leaves every other one as it was.
LEMMA OtherBlock ==
  ASSUME NEW i \in Nat, NEW b \in Nat, b # i,
         (b * BlockSize) + BlockSize <= DeviceSize,
         disk \in [0 .. DeviceSize - 1 -> Bytes],
         NEW c, disk' = StoreBlock(disk, i * BlockSize, c)
  PROVE  BlockAt(disk', b * BlockSize) = BlockAt(disk, b * BlockSize)
<1> DEFINE x == i * BlockSize
           y == b * BlockSize
<1>1. x \in Nat /\ y \in Nat /\ y + BlockSize <= DeviceSize
      /\ disk' = StoreBlock(disk, x, c)
  BY SizesW
<1>2. y + BlockSize <= x \/ x + BlockSize <= y
  <2>1. CASE b < i
    <3>1. b * BlockSize < i * BlockSize
      <4>1. (i - b) \in Nat \ {0} /\ i * BlockSize = (b * BlockSize) + ((i - b) * BlockSize)
        BY <2>1, SizesW
      <4>2. (i - b) * BlockSize \in Nat \ {0}
        BY <4>1, SizesW
      <4> QED
        BY <1>1, <4>1, <4>2
    <3> QED
      BY <3>1, MultipleBelow, SizesW
  <2>2. CASE i < b
    <3>1. i * BlockSize < b * BlockSize
      <4>1. (b - i) \in Nat \ {0} /\ b * BlockSize = (i * BlockSize) + ((b - i) * BlockSize)
        BY <2>2, SizesW
      <4>2. (b - i) * BlockSize \in Nat \ {0}
        BY <4>1, SizesW
      <4> QED
        BY <1>1, <4>1, <4>2
    <3> QED
      BY <3>1, MultipleBelow, SizesW
  <2> QED
    BY <2>1, <2>2
<1> HIDE DEF x, y
<1>3. ASSUME NEW k \in 0 .. BlockSize - 1 PROVE disk'[y + k] = disk[y + k]
  <2>1. y + k \in 0 .. DeviceSize - 1 /\ y + k \notin x .. x + BlockSize - 1
    BY <1>1, <1>2, SizesW
  <2> QED
    BY <1>1, <2>1 DEF StoreBlock
<1>4. BlockAt(disk', y) = BlockAt(disk, y)
  BY <1>3 DEF BlockAt
<1> QED
  BY <1>4 DEF y

\* What the worker invalidates is the only slot that can hold its block.
LEMMA Invalidated ==
  ASSUME TypeOK, PlaceInv, CacheInv, InvalidateSlot, AsInt(file_offset) = file_offset,
         NEW s \in 0 .. RCacheBlocks - 1, read_cache'[s].valid
  PROVE  /\ read_cache[s].valid
         /\ read_cache'[s].block_id = read_cache[s].block_id
         /\ read_cache'[s].block = read_cache[s].block
         /\ read_cache[s].block_id # file_offset \div BlockSize
<1> DEFINE b == file_offset \div BlockSize
           t == CacheSlot(b)
<1>1. t \in 0 .. RCacheBlocks - 1
  BY SlotType, DivMod, Sizes DEF TypeOK
<1>2. read_cache \in CacheType
  BY DEF TypeOK, CacheType
<1>3. /\ read_cache[t].block_id = b => read_cache' = [read_cache EXCEPT ![t].valid = FALSE]
      /\ read_cache[t].block_id # b => read_cache' = read_cache
  BY DEF InvalidateSlot
<1>4. read_cache[s].valid /\ s = t => read_cache[s].block_id = b \/ read_cache' = read_cache
  BY <1>3
<1>5. read_cache[s].valid /\ read_cache[s].block_id = b => s = t
  BY DEF CacheInv
<1> HIDE DEF b, t
<1>6. /\ read_cache[s].valid
      /\ read_cache'[s].block_id = read_cache[s].block_id
      /\ read_cache'[s].block = read_cache[s].block
      /\ s = t => read_cache[t].block_id # b
  BY <1>1, <1>2, <1>3 DEF CacheType
<1> QED
  BY <1>5, <1>6 DEF b

LEMMA CacheStep ==
  ASSUME SInv, CacheInv, Next, ~SpuriousWakeup, "short_read" \notin Faults
  PROVE  CacheInv'
<1>1. TypeOK /\ PlaceInv /\ CallInv /\ ReadInv /\ HeadInv
  BY DEF SInv, IInv
<1>2. read_cache \in CacheType /\ disk \in [0 .. DeviceSize - 1 -> Bytes]
  BY <1>1 DEF TypeOK, CacheType
<1>3. CASE Open
  <2>1. read_cache' = EmptyCache
    BY <1>3 DEF Open
  <2> QED
    BY <2>1 DEF CacheInv, EmptyCache
<1>4. CASE ReadMiss
  <2> DEFINE b == rd.block_id
             c == BlockAt(disk, b * BlockSize)
  <2>0. BlockOffset(b) = b * BlockSize
    BY <1>4, ReadsAt DEF ReadMiss
  <2>1. /\ b \in Nat /\ (b * BlockSize) + BlockSize <= DeviceSize
        /\ CacheSlot(b) \in 0 .. RCacheBlocks - 1
    BY <1>1, <1>4, ReadBlockOnDevice, SlotType DEF ReadMiss, ReadInv
  <2>2. /\ read_cache' = [read_cache EXCEPT ![CacheSlot(b)] =
                            [valid |-> TRUE, block_id |-> b, block |-> c]]
        /\ disk' = disk
    BY <1>4, <2>0 DEF ReadMiss
  <2> HIDE DEF b, c
  <2>3. ASSUME NEW s \in 0 .. RCacheBlocks - 1, s # CacheSlot(b)
        PROVE  read_cache'[s] = read_cache[s]
    BY <1>2, <2>1, <2>2, <2>3 DEF CacheType
  <2>4. read_cache'[CacheSlot(b)] = [valid |-> TRUE, block_id |-> b, block |-> c]
    BY <1>2, <2>1, <2>2 DEF CacheType
  <2>5. c = BlockAt(disk, b * BlockSize)
    BY DEF c
  <2> QED
    BY <2>1, <2>2, <2>3, <2>4, <2>5 DEF CacheInv
<1>5. CASE WorkerWrite
  <2> DEFINE i == file_offset \div BlockSize
  <2>0. AsInt(file_offset) = file_offset
    BY <1>5, WritesAt DEF WorkerWrite
  <2>1. /\ InvalidateSlot
        /\ disk' = StoreBlock(disk, file_offset, BlockAt(write_buffer, tail))
    BY <1>5, <2>0 DEF WorkerWrite
  <2>2. i \in Nat /\ file_offset = i * BlockSize
    <3>1. file_offset \in Nat /\ file_offset % BlockSize = 0
      BY <1>1 DEF PlaceInv, Aligned
    <3>2. /\ i \in Nat /\ i * BlockSize \in Int
          /\ file_offset = (i * BlockSize) + (file_offset % BlockSize)
      BY <3>1, DivNat, DivMod, SizesW
    <3> HIDE DEF i
    <3> QED
      BY <3>1, <3>2
  <2>3. SUFFICES ASSUME NEW s \in 0 .. RCacheBlocks - 1, read_cache'[s].valid
                 PROVE  LET b == read_cache'[s].block_id IN
                        /\ b \in Nat /\ (b * BlockSize) + BlockSize <= DeviceSize
                        /\ s = CacheSlot(b)
                        /\ read_cache'[s].block = BlockAt(disk', b * BlockSize)
    BY DEF CacheInv
  <2> DEFINE b == read_cache[s].block_id
  <2>4. /\ read_cache[s].valid /\ read_cache'[s].block_id = b
        /\ read_cache'[s].block = read_cache[s].block /\ b # i
    BY <1>1, <2>0, <2>1, <2>3, Invalidated
  <2>5. /\ b \in Nat /\ (b * BlockSize) + BlockSize <= DeviceSize /\ s = CacheSlot(b)
        /\ read_cache[s].block = BlockAt(disk, b * BlockSize)
    BY <2>4 DEF CacheInv
  <2> HIDE DEF b, i
  <2>6. BlockAt(disk', b * BlockSize) = BlockAt(disk, b * BlockSize)
    BY <1>2, <2>1, <2>2, <2>4, <2>5, OtherBlock
  <2> QED
    BY <2>4, <2>5, <2>6
<1>6. CASE WorkerWriteFails
  <2>1. InvalidateSlot /\ disk' = disk /\ AsInt(file_offset) = file_offset
    BY <1>6, WritesAt DEF WorkerWriteFails
  <2> QED
    BY <1>1, <2>1, Invalidated DEF CacheInv
<1>7. CASE ReadFails
  <2>1. read_cache' = read_cache /\ disk' = disk
    BY <1>7 DEF ReadFails
  <2> QED
    BY <2>1 DEF CacheInv
<1>8. CASE UNCHANGED store_vars
  BY <1>8 DEF CacheInv, store_vars
<1>9. \/ Open \/ ReadMiss \/ WorkerWrite \/ WorkerWriteFails \/ ReadFails
      \/ UNCHANGED store_vars
  <2>1. CASE OpenFails \/ OpenCrashes \/ CallAppend \/ CallRead \/ CallClose
    BY <2>1 DEF OpenFails, OpenCrashes, CallAppend, CallRead, CallClose
  <2>2. CASE AppendLock \/ AppendByte \/ AppendFull \/ AppendReturn \/ FlushPad \/ FlushUndo
    BY <2>2 DEF AppendLock, AppendByte, AppendFull, AppendReturn, FlushPad, FlushUndo
  <2>3. CASE ReadStart \/ ReadHit \/ ReadAborts \/ ReadReturn
             \/ CloseSetExit \/ CloseSignal \/ CloseJoin
    BY <2>3 DEF ReadStart, ReadHit, ReadAborts, ReadReturn, CloseSetExit, CloseSignal, CloseJoin
  <2>4. CASE WorkerLock \/ WorkerOuter \/ WorkerWait \/ WorkerRelock \/ WorkerExit
             \/ WorkerAborts
    BY <2>4 DEF WorkerLock, WorkerOuter, WorkerWait, WorkerRelock, WorkerExit, WorkerAborts
  <2> QED
    BY <2>1, <2>2, <2>3, <2>4 DEF Next, ClientSteps, Worker
<1> QED
  BY <1>3, <1>4, <1>5, <1>6, <1>7, <1>8, <1>9

\* Without spurious wakeups and short reads a slot that answers for a block holds
\* what the device does, through every rewrite of the block.
THEOREM CacheIsCoherent ==
  ASSUME MaxSpurious = 0, "short_read" \notin Faults PROVE Spec => []CacheCoherent
<1>1. Init => SInv /\ CacheInv
  <2>1. Init => read_cache = EmptyCache
    BY DEF Init
  <2>2. read_cache = EmptyCache => CacheInv
    BY DEF CacheInv, EmptyCache
  <2> QED
    BY <2>1, <2>2, InitSInv
<1>2. SInv /\ CacheInv /\ [Next]_vars => (SInv /\ CacheInv)'
  <2>1. SInv /\ CacheInv /\ Next => CacheInv'
    BY CacheStep, NoneSpurious
  <2>2. CacheInv /\ UNCHANGED vars => CacheInv'
    BY DEF CacheInv, vars, store_vars
  <2> QED
    BY <2>1, <2>2, NextSInv, NoneSpurious
<1>3. CacheInv => CacheCoherent
  BY DEF CacheInv, CacheCoherent
<1> QED
  BY <1>1, <1>2, <1>3, PTL DEF Spec

-----------------------------------------------------------------------------
(* The log its caller sees.                                                *)

Front(n) == [i \in 1 .. n |-> i]

LEMMA FrontSeq ==
  ASSUME NEW n \in Nat
  PROVE  Front(n) \in Seq(Nat) /\ Len(Front(n)) = n /\ DOMAIN Front(n) = 1 .. n
BY DEF Front

LEMMA EmptyFront == ASSUME NEW off PROVE <<>> = [k \in 1 .. 0 |-> off + k]
OBVIOUS

LEMMA FrontEmpty == Front(0) = <<>>
BY DEF Front

\* What a read has delivered, with what the next block adds.
LEMMA Delivered ==
  ASSUME NEW off \in Nat, NEW t \in Nat, NEW n \in Nat
  PROVE  [k \in 1 .. t |-> off + k] \o [k \in 1 .. n |-> off + t + k]
           = [k \in 1 .. t + n |-> off + k]
<1> DEFINE a == [k \in 1 .. t |-> off + k]
           b == [k \in 1 .. n |-> off + t + k]
           c == [k \in 1 .. t + n |-> off + k]
<1>1. a \in Seq(Nat) /\ b \in Seq(Nat) /\ c \in Seq(Nat)
      /\ Len(a) = t /\ Len(b) = n /\ Len(c) = t + n
  OBVIOUS
<1>2. a \o b \in Seq(Nat) /\ Len(a \o b) = t + n
  BY <1>1
<1>3. ASSUME NEW k \in 1 .. t + n PROVE (a \o b)[k] = c[k]
  <2>1. CASE k <= t
    <3>1. (a \o b)[k] = a[k]
      BY <1>1, <2>1
    <3> QED
      BY <2>1, <3>1
  <2>2. CASE k > t
    <3>1. (a \o b)[k] = b[k - t]
      BY <1>1, <2>2
    <3>2. k - t \in 1 .. n
      BY <2>2
    <3> QED
      BY <3>1, <3>2
  <2> QED
    BY <2>1, <2>2
<1> QED
  BY <1>1, <1>2, <1>3

\* The part of the log a read asks for.
LEMMA Asked ==
  ASSUME NEW off \in Nat, NEW len \in Nat, NEW n \in Nat, off + len <= n
  PROVE  SubSeq(Front(n), off + 1, off + len) = [k \in 1 .. len |-> off + k]
<1> DEFINE s == SubSeq(Front(n), off + 1, off + len)
           c == [k \in 1 .. len |-> off + k]
<1>1. Front(n) \in Seq(Nat) /\ Len(Front(n)) = n
  BY FrontSeq
<1>2. s \in Seq(Nat) /\ Len(s) = len /\ c \in Seq(Nat) /\ Len(c) = len
  BY <1>1
<1>3. ASSUME NEW k \in 1 .. len PROVE s[k] = c[k]
  <2>1. s[k] = Front(n)[off + k]
    BY <1>1
  <2> QED
    BY <2>1 DEF Front
<1> HIDE DEF s, c
<1>4. s = c
  BY <1>2, <1>3
<1> QED
  BY <1>4 DEF s, c

LEMMA CallsStep ==
  ASSUME SInv, CallsInv, Next, ~SpuriousWakeup
  PROVE  CallsInv'
<1> USE DEF CallsInv, buffer_vars, store_vars, client_vars, Appending, Flushing
<1>0. TypeOK /\ CallInv
  BY DEF SInv, IInv
<1>1. left \in Nat /\ appended \in Nat
  BY <1>0, Types, Sizes DEF TypeOK
<1>2. CASE Open
  BY <1>2 DEF Open
<1>3. CASE CallAppend
  <2>1. PICK n \in 0 .. MaxAppend : call' = Append_(n) /\ left' = n
    BY <1>3 DEF CallAppend
  <2>2. n \in Nat /\ call'.op = "append" /\ call'.len = n /\ left' = n /\ n - n = 0
    BY <2>1, Sizes DEF Append_
  <2> QED
    BY <1>3, <1>1, <2>2 DEF CallAppend
<1>4. CASE CallRead
  BY <1>4 DEF CallRead, Read_
<1>5. CASE CallClose
  BY <1>5 DEF CallClose
<1>6. CASE AppendLock \/ AppendFull \/ AppendReturn
  BY <1>6 DEF AppendLock, AppendFull, AppendReturn
<1>7. CASE AppendByte
  BY <1>7, <1>1 DEF AppendByte
<1>8. CASE FlushPad
  BY <1>8 DEF FlushPad
<1>9. CASE FlushUndo
  BY <1>9 DEF FlushUndo, Closing
<1>10. CASE ReadStart \/ ReadHit \/ ReadMiss
  BY <1>10 DEF ReadStart, ReadHit, ReadMiss
<1>11. CASE ReadFails \/ ReadReturn
  BY <1>11 DEF ReadFails, ReadReturn
<1>12. CASE CloseSetExit \/ CloseSignal \/ CloseJoin
  BY <1>12 DEF CloseSetExit, CloseSignal, CloseJoin
<1>13. CASE WorkerLock \/ WorkerOuter \/ WorkerWait \/ WorkerRelock \/ WorkerExit
            \/ WorkerWriteFails
  BY <1>13 DEF WorkerLock, WorkerOuter, WorkerWait, WorkerRelock, WorkerExit, WorkerWriteFails
<1>14. CASE WorkerWrite
  BY <1>14 DEF WorkerWrite, SignalFlush
<1>15. CASE WorkerAborts \/ ReadAborts \/ OpenFails \/ OpenCrashes
  BY <1>15 DEF WorkerAborts, ReadAborts, OpenFails, OpenCrashes
<1> QED
  BY <1>2, <1>3, <1>4, <1>5, <1>6, <1>7, <1>8, <1>9, <1>10, <1>11, <1>12, <1>13,
     <1>14, <1>15 DEF Next, ClientSteps, Worker

\* One block of a read's answer.
LEMMA AnswerBlock ==
  ASSUME SInv, AnswerInv, client = "read_loop", rd.till < call.len,
         CopyOut(BlockAt(disk, rd.block_id * BlockSize))
  PROVE  /\ rd'.till <= call.len
         /\ buf' = [k \in 1 .. rd'.till |-> call.off + k]
<1> DEFINE i == rd.block_id * BlockSize
           block == BlockAt(disk, i)
           t == rd.till
           n == rd.n
<1>1. TypeOK /\ CallInv /\ ReadInv /\ FlushInv
  BY DEF SInv, IInv
<1>2. /\ t \in Nat /\ n \in Nat /\ rd.start \in 0 .. BlockSize - 1
      /\ i + rd.start = call.off + t
      /\ n = MinOf(call.len - t, BlockSize - rd.start)
      /\ call.off \in Nat /\ call.len \in Nat /\ call.off + call.len <= appended
      /\ appended \in Nat
  BY <1>1, Types DEF ReadInv, CallInv, Reading
<1>3. i \in Nat
  BY <1>1, ReadBlockOnDevice
<1>4. buf = [k \in 1 .. t |-> call.off + k]
  BY DEF AnswerInv
<1>5. /\ buf' = buf \o [k \in 1 .. n |-> block[rd.start + k - 1]]
      /\ rd'.till = t + n
  BY DEF CopyOut
<1> HIDE DEF i, t, n
<1>6. t + n <= call.len /\ rd.start + n <= BlockSize
  BY <1>2, SizesW DEF MinOf
<1>7. ASSUME NEW k \in 1 .. n PROVE block[rd.start + k - 1] = call.off + t + k
  <2> DEFINE p == call.off + t + k - 1
  <2>1. /\ p \in 0 .. appended - 1 /\ rd.start + k - 1 \in 0 .. BlockSize - 1
        /\ i + (rd.start + k - 1) = p
    BY <1>2, <1>3, <1>6, SizesW
  <2>2. block[rd.start + k - 1] = disk[p]
    BY <2>1 DEF BlockAt
  <2>3. disk[p] = Byte(p)
    BY <1>1, <2>1 DEF FlushInv, Flushed, OnDisk
  <2> QED
    BY <1>2, <2>2, <2>3 DEF Byte
<1>8. [k \in 1 .. n |-> block[rd.start + k - 1]] = [k \in 1 .. n |-> call.off + t + k]
  BY <1>7
<1>9. buf' = [k \in 1 .. t + n |-> call.off + k]
  <2> DEFINE off == call.off
  <2>1. off \in Nat /\ t \in Nat /\ n \in Nat
    BY <1>2
  <2>2. buf' = [k \in 1 .. t |-> off + k] \o [k \in 1 .. n |-> off + t + k]
    BY <1>4, <1>5, <1>8
  <2> HIDE DEF off
  <2>3. [k \in 1 .. t |-> off + k] \o [k \in 1 .. n |-> off + t + k]
          = [k \in 1 .. t + n |-> off + k]
    BY <2>1, Delivered
  <2>4. buf' = [k \in 1 .. t + n |-> off + k]
    BY <2>2, <2>3
  <2> QED
    BY <2>4 DEF off
<1> QED
  BY <1>5, <1>6, <1>9

LEMMA AnswerStep ==
  ASSUME SInv, CacheInv, CallsInv, AnswerInv, Next, ~SpuriousWakeup
  PROVE  AnswerInv'
<1>1. TypeOK /\ CallInv /\ ReadInv
  BY DEF SInv, IInv
<1>2. CASE ReadStart
  <2>1. /\ rd'.till = 0 /\ buf' = <<>> /\ call' = call /\ client = "read_start"
    BY <1>2 DEF ReadStart, CallsInv
  <2>2. call.len \in Nat
    BY <1>1, <2>1 DEF CallInv, Reading
  <2> QED
    BY <2>1, <2>2, EmptyFront DEF AnswerInv
<1>3. CASE ReadHit
  <2> DEFINE b == rd.block_id
             s == CacheSlot(b)
  <2>1. /\ client = "read_loop" /\ rd.till < call.len /\ call' = call
        /\ read_cache[s].valid /\ read_cache[s].block_id = b
        /\ CopyOut(read_cache[s].block)
    BY <1>3 DEF ReadHit, Cached
  <2>2. s \in 0 .. RCacheBlocks - 1
    BY <1>1, <2>1, SlotType DEF ReadInv
  <2>3. read_cache[s].block = BlockAt(disk, b * BlockSize)
    BY <2>1, <2>2 DEF CacheInv
  <2> QED
    BY <2>1, <2>3, AnswerBlock DEF AnswerInv
<1>4. CASE ReadMiss
  <2>1. /\ client = "read_loop" /\ rd.till < call.len /\ call' = call
        /\ CopyOut(BlockAt(disk, rd.block_id * BlockSize))
    BY <1>4, ReadsAt DEF ReadMiss
  <2> QED
    BY <2>1, AnswerBlock DEF AnswerInv
<1>5. CASE client' # "read_loop"
  BY <1>5 DEF AnswerInv
<1>6. CASE client = "read_loop" /\ UNCHANGED <<call, rd, buf>>
  BY <1>6 DEF AnswerInv
<1>7. ReadStart \/ ReadHit \/ ReadMiss \/ client' # "read_loop"
       \/ (client = "read_loop" /\ UNCHANGED <<call, rd, buf>>)
  <2> USE DEF client_vars
  <2>1. CASE Open \/ OpenFails \/ OpenCrashes \/ CallAppend \/ CallRead \/ CallClose
    BY <2>1 DEF Open, OpenFails, OpenCrashes, CallAppend, CallRead, CallClose
  <2>2. CASE AppendLock \/ AppendByte \/ AppendFull \/ AppendReturn \/ FlushPad \/ FlushUndo
    BY <2>2 DEF AppendLock, AppendByte, AppendFull, AppendReturn, FlushPad, FlushUndo
  <2>3. CASE ReadFails \/ ReadAborts \/ ReadReturn \/ CloseSetExit \/ CloseSignal \/ CloseJoin
    BY <2>3 DEF ReadFails, ReadAborts, ReadReturn, CloseSetExit, CloseSignal, CloseJoin
  <2>4. CASE WorkerLock \/ WorkerOuter \/ WorkerWait \/ WorkerRelock \/ WorkerExit
             \/ WorkerAborts \/ WorkerWriteFails
    BY <2>4 DEF WorkerLock, WorkerOuter, WorkerWait, WorkerRelock, WorkerExit,
       WorkerAborts, WorkerWriteFails
  <2>5. CASE WorkerWrite
    BY <2>5 DEF WorkerWrite, SignalFlush
  <2> QED
    BY <2>1, <2>2, <2>3, <2>4, <2>5 DEF Next, ClientSteps, Worker
<1> QED
  BY <1>2, <1>3, <1>4, <1>5, <1>6, <1>7

-----------------------------------------------------------------------------
(* logfs.c implements the log.                                             *)

LInv == SInv /\ CacheInv /\ CallsInv /\ AnswerInv

LEMMA LogInit == Init => Log!Init
<1> SUFFICES ASSUME Init PROVE Log!Init
  OBVIOUS
<1>1. call = Closed /\ call.op = "closed" /\ appended = 0 /\ buf = <<>>
  BY DEF Init, Closed
<1>2. Committed = 0
  BY <1>1 DEF Committed
<1>3. [i \in 1 .. Committed |-> i] = <<>>
  BY <1>2, FrontEmpty DEF Front
<1> QED
  BY <1>1, <1>3 DEF Log!Init, Log!Closed, Closed

\* Steps inside a call are not seen.
LEMMA LogStutter ==
  ASSUME UNCHANGED <<call, left, appended>>, buf' = buf \/ call.op \notin {"none", "closed"}
  PROVE  UNCHANGED Log!logvars
BY DEF Log!logvars, Committed

LEMMA LogStep ==
  ASSUME LInv, Next, ~SpuriousWakeup, "short_read" \notin Faults
  PROVE  Log!Next \/ UNCHANGED Log!logvars
<1>0. TypeOK /\ CallInv /\ CallsInv /\ AnswerInv /\ ReadInv
  BY DEF LInv, SInv, IInv
<1>1. /\ appended \in Nat /\ left \in Nat /\ appended <= MaxLog
  BY <1>0, Types, Sizes DEF TypeOK
<1> DEFINE L == [i \in 1 .. Committed |-> i]
<1>2. CASE Open
  <2>1. /\ call = Closed /\ call' = NoCall /\ appended' = 0 /\ buf' = <<>>
        /\ call'.op = "none"
    BY <1>0, <1>2 DEF Open, CallsInv, NoCall
  <2>2. Committed' = 0
    BY <2>1 DEF Committed
  <2>3. L' = <<>>
    BY <2>2, FrontEmpty DEF Front
  <2> QED
    BY <2>1, <2>3 DEF Log!Next, Log!Open, Log!Closed, Log!NoCall, Closed, NoCall
<1>3. CASE CallAppend
  <2>1. /\ call = NoCall /\ call.op = "none" /\ appended' = appended /\ buf' = <<>>
    BY <1>0, <1>3 DEF CallAppend, CallsInv, NoCall
  <2>2. PICK n \in 0 .. MaxAppend : appended + n <= MaxLog /\ call' = Append_(n) /\ left' = n
    BY <1>3 DEF CallAppend
  <2>3. call'.op = "append" /\ call'.len = n /\ n \in Nat /\ n - n = 0
    BY <2>2, Sizes DEF Append_
  <2>4. Committed = appended /\ Committed' = appended
    BY <1>1, <2>1, <2>2, <2>3 DEF Committed
  <2>5. L' = L /\ Len(L) = appended
    BY <1>1, <2>4, FrontSeq DEF Front
  <2> QED
    BY <2>1, <2>2, <2>3, <2>5 DEF Log!Next, Log!Invoke, Log!NoCall, NoCall, Log!Append_, Append_
<1>4. CASE CallRead
  <2>1. /\ call = NoCall /\ call.op = "none" /\ appended' = appended /\ buf' = <<>>
    BY <1>0, <1>4 DEF CallRead, CallsInv, NoCall
  <2>2. PICK o \in 0 .. appended : \E n \in 0 .. appended - o : call' = Read_(o, n)
    BY <1>4 DEF CallRead
  <2>3. PICK n \in 0 .. appended - o : call' = Read_(o, n)
    BY <2>2
  <2>4. call'.op = "read"
    BY <2>3 DEF Read_
  <2>5. Committed = appended /\ Committed' = appended
    BY <2>1, <2>4 DEF Committed
  <2>6. L' = L /\ Len(L) = appended
    BY <1>1, <2>5, FrontSeq DEF Front
  <2> QED
    BY <2>1, <2>3, <2>4, <2>6 DEF Log!Next, Log!Invoke, Log!NoCall, NoCall, Log!Read_, Read_
<1>5. CASE CallClose
  <2>1. /\ call = NoCall /\ call.op = "none" /\ appended' = appended /\ buf' = <<>>
        /\ call' = Closing /\ call'.op = "close"
    BY <1>0, <1>5 DEF CallClose, CallsInv, NoCall, Closing
  <2>2. L' = L
    BY <2>1 DEF Committed
  <2> QED
    BY <2>1, <2>2 DEF Log!Next, Log!Invoke, Log!NoCall, NoCall, Log!Closing, Closing
<1>6. CASE AppendByte
  <2>1. /\ client = "append_loop" /\ appended' = appended + 1 /\ left' = left - 1
        /\ call' = call /\ buf' = buf
    BY <1>6 DEF AppendByte
  <2>2. call.op = "append" /\ call.len \in Nat
    BY <1>0, <2>1 DEF CallsInv, Appending
  <2>3. Committed' = Committed
    BY <1>1, <2>1, <2>2 DEF Committed
  <2> QED
    BY <2>1, <2>3 DEF Log!logvars
<1>7. CASE AppendReturn
  <2>1. /\ client = "append_loop" /\ left = 0 /\ call' = NoCall /\ call'.op = "none"
        /\ UNCHANGED <<left, appended, buf>>
    BY <1>7 DEF AppendReturn, NoCall
  <2>2. /\ call.op = "append" /\ call.len \in Nat /\ call.len - left <= appended /\ buf = <<>>
    BY <1>0, <2>1 DEF CallsInv, Appending
  <2>3. Committed \in Nat /\ Committed + call.len = appended /\ Committed' = appended
    BY <1>1, <2>1, <2>2 DEF Committed
  <2>4. Len(L) = Committed
    BY <2>3, FrontSeq DEF Front
  <2>5. L' = [i \in 1 .. Len(L) + call.len |-> i]
    BY <2>3, <2>4
  <2> QED
    BY <2>1, <2>2, <2>5 DEF Log!Next, Log!AppendReturns, Log!NoCall, NoCall
<1>8. CASE ReadFails \/ ReadReturn
  <2>1. /\ client = "read_loop" /\ call' = NoCall /\ call'.op = "none" /\ appended' = appended
        /\ buf' = Failed \/ (buf' = buf /\ rd.till >= call.len)
    BY <1>8 DEF ReadFails, ReadReturn, NoCall
  <2>2. /\ call.op = "read" /\ call.off \in Nat /\ call.len \in Nat
        /\ call.off + call.len <= appended /\ rd.till \in Nat
    BY <1>0, <2>1 DEF CallInv, ReadInv, Reading
  <2>3. Committed = appended /\ Committed' = appended
    BY <2>1, <2>2 DEF Committed
  <2>4. L' = L /\ L = Front(appended)
    BY <2>3 DEF Front
  <2>5. buf' = Failed \/ buf' = SubSeq(Front(appended), call.off + 1, call.off + call.len)
    <3>1. CASE buf' = buf /\ rd.till >= call.len
      <4>1. rd.till = call.len
        BY <1>0, <2>1, <2>2, <3>1 DEF AnswerInv
      <4> DEFINE off == call.off
                 len == call.len
      <4>2. buf' = [k \in 1 .. len |-> off + k]
        BY <1>0, <2>1, <3>1, <4>1 DEF AnswerInv
      <4>3. off \in Nat /\ len \in Nat /\ off + len <= appended
        BY <2>2
      <4> HIDE DEF off, len
      <4>4. SubSeq(Front(appended), off + 1, off + len) = [k \in 1 .. len |-> off + k]
        BY <1>1, <4>3, Asked
      <4>5. buf' = SubSeq(Front(appended), off + 1, off + len)
        BY <4>2, <4>4
      <4> QED
        BY <4>5 DEF off, len
    <3> QED
      BY <2>1, <3>1
  <2> HIDE DEF L
  <2>6. buf' \in {SubSeq(L, call.off + 1, call.off + call.len), Failed}
    BY <2>4, <2>5
  <2> QED
    BY <2>1, <2>2, <2>4, <2>6
       DEF L, Log!Next, Log!ReadReturns, Log!NoCall, NoCall, Log!Failed, Failed
<1>9. CASE CloseJoin
  <2>1. /\ call = Closing /\ call.op = "close" /\ buf = <<>> /\ call' = Closed
        /\ call'.op = "closed" /\ UNCHANGED <<appended, buf>>
    BY <1>0, <1>9 DEF CloseJoin, CallsInv, Closing, Closed
  <2>2. L' = L
    BY <2>1 DEF Committed
  <2> QED
    BY <2>1, <2>2 DEF Log!Next, Log!CloseReturns, Log!Closing, Closing, Log!Closed, Closed
<1>10. CASE ReadHit \/ ReadMiss
  <2>1. client = "read_loop" /\ UNCHANGED <<call, left, appended>>
    BY <1>10 DEF ReadHit, ReadMiss
  <2>2. call.op = "read"
    BY <1>0, <2>1 DEF CallInv, Reading
  <2> QED
    BY <2>1, <2>2, LogStutter
<1>11. CASE UNCHANGED <<call, left, appended, buf>>
  BY <1>11, LogStutter
<1>13. CASE OpenFails
  <2>1. /\ call = Closed /\ call.op = "closed" /\ call' = call /\ buf' = Failed
        /\ appended' = appended
    BY <1>0, <1>13 DEF OpenFails, CallsInv, Closed
  <2>2. L' = L
    BY <2>1 DEF Committed
  <2> QED
    BY <2>1, <2>2 DEF Log!Next, Log!OpenFails, Log!Closed, Closed, Log!Failed, Failed
<1>12. \/ OpenFails \/ Open \/ CallAppend \/ CallRead \/ CallClose \/ AppendByte \/ AppendReturn
       \/ ReadFails \/ ReadReturn \/ CloseJoin \/ ReadHit \/ ReadMiss
       \/ UNCHANGED <<call, left, appended, buf>>
  <2> USE DEF client_vars
  <2>1. CASE AppendLock \/ AppendFull \/ FlushPad \/ FlushUndo
    BY <2>1 DEF AppendLock, AppendFull, FlushPad, FlushUndo
  <2>2. CASE OpenCrashes \/ ReadStart \/ ReadAborts \/ CloseSetExit \/ CloseSignal
    BY <2>2 DEF OpenCrashes, ReadStart, ReadAborts, CloseSetExit, CloseSignal
  <2>3. CASE Worker
    BY <2>3 DEF Worker, WorkerLock, WorkerOuter, WorkerWait, WorkerRelock, WorkerExit,
       WorkerAborts, WorkerWriteFails, WorkerWrite
  <2> QED
    BY <2>1, <2>2, <2>3 DEF Next, ClientSteps
<1> QED
  BY <1>2, <1>3, <1>4, <1>5, <1>6, <1>7, <1>8, <1>9, <1>10, <1>11, <1>12, <1>13

\* Without spurious wakeups and short reads logfs.c is the append-only log that
\* logfs.h promises: a read answers with the bytes appended at that place.
THEOREM ImplementsAppendLog ==
  ASSUME MaxSpurious = 0, "short_read" \notin Faults PROVE Spec => RefinesAppendLog
<1>1. Init => LInv
  <2>1. Init => /\ read_cache = EmptyCache /\ client = "closed" /\ call = Closed /\ buf = <<>>
    BY DEF Init
  <2>2. read_cache = EmptyCache => CacheInv
    BY DEF CacheInv, EmptyCache
  <2>3. client = "closed" /\ call = Closed /\ buf = <<>> => CallsInv /\ AnswerInv
    BY DEF CallsInv, AnswerInv, Appending, Flushing
  <2> QED
    BY <2>1, <2>2, <2>3, InitSInv DEF LInv
<1>2. LInv /\ [Next]_vars => LInv'
  <2>1. LInv /\ Next => CacheInv' /\ CallsInv' /\ AnswerInv'
    BY CacheStep, CallsStep, AnswerStep, NoneSpurious DEF LInv
  <2>2. LInv /\ UNCHANGED vars => CacheInv' /\ CallsInv' /\ AnswerInv'
    BY DEF LInv, CacheInv, CallsInv, AnswerInv, vars, store_vars, client_vars
  <2> QED
    BY <2>1, <2>2, NextSInv, NoneSpurious DEF LInv
<1>3. LInv /\ [Next]_vars => [Log!Next]_(Log!logvars)
  <2>1. UNCHANGED vars => UNCHANGED Log!logvars
    BY LogStutter DEF vars, client_vars
  <2> QED
    BY <2>1, LogStep, NoneSpurious DEF LInv
<1> QED
  BY <1>1, <1>2, <1>3, LogInit, PTL DEF Spec, RefinesAppendLog, Log!Spec
=============================================================================
