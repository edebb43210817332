------------------------------- MODULE LogFS -------------------------------
(***************************************************************************)
(* p4/logfs.c: an append-only log on a block device, with a circular write *)
(* buffer drained by a worker thread and a direct-mapped read cache.       *)
(*                                                                         *)
(* Two threads: the client, which calls the four functions of logfs.h one  *)
(* at a time (kvdb.c is single threaded), and the worker write_to_disk.    *)
(* An action is the code between two points where the other thread can     *)
(* run: between acquiring and releasing the mutex, or, while the mutex is  *)
(* held over a loop, one iteration of that loop.                           *)
(*                                                                         *)
(* A byte is represented by its position in the log plus one; Stale is any *)
(* other byte (the zeroes of a fresh buffer, what the device held before). *)
(***************************************************************************)
EXTENDS Integers, Sequences

CONSTANTS BlockSize,      \* bytes per device block (device_block)
          WCacheBlocks,   \* WCACHE_BLOCKS, 32 in the code
          RCacheBlocks,   \* RCACHE_BLOCKS, 256 in the code
          DeviceBlocks,   \* blocks on the device (device_size / device_block)
          MaxLog,         \* bound: bytes appended to one log
          MaxAppend,      \* bound: bytes of one logfs_append
          MaxInt,         \* largest int, the type of an offset: 2^31 - 1
          Faults,         \* which faults the environment may inject
          MaxSpurious     \* bound: spurious returns of pthread_cond_wait

ASSUME SizesAssumption ==
  /\ BlockSize \in Nat \ {0}
  /\ WCacheBlocks \in Nat \ {0}
  /\ RCacheBlocks \in Nat \ {0}
  /\ DeviceBlocks \in Nat \ {0}
  /\ MaxLog \in Nat
  /\ MaxLog <= DeviceBlocks * BlockSize
  /\ MaxAppend \in Nat
  /\ MaxInt \in Nat
  /\ (MaxInt + 1) % BlockSize = 0      \* a block is a power of two bytes
  /\ Faults \subseteq {"write_error", "read_error", "short_read",
                       "open_error", "no_memory"}
  /\ MaxSpurious \in Nat

VARIABLES
  head, tail, write_buffer, write_buffer_filled, file_offset,
  exit_worker_thread,
  read_cache,     \* slot -> [valid, block_id, block]
  disk,           \* what the device holds, byte by byte
  mutex,          \* who holds logfs->mutex
  client, worker, \* where each thread is
  call,           \* the client's call and its arguments
  left,           \* len_ of logfs_append
  distance,       \* distance_to_move_head of flush_to_disk
  rd,             \* the locals of logfs_read
  buf,            \* the buffer the client gave to logfs_read, or Failed
  appended,       \* history: bytes accepted since logfs_open
  spurious        \* history: spurious wakeups so far

buffer_vars == <<head, tail, write_buffer, write_buffer_filled, file_offset>>
store_vars  == <<read_cache, disk>>
client_vars == <<call, left, distance, rd, buf, appended>>
vars == <<buffer_vars, exit_worker_thread, store_vars, mutex, client, worker,
          client_vars, spurious>>

WriteBufferSize == WCacheBlocks * BlockSize
DeviceSize      == DeviceBlocks * BlockSize

Stale   == 0
Byte(p) == p + 1
Bytes   == 0 .. MaxLog

Failed     == <<-1>>
Closed     == [op |-> "closed", off |-> 0, len |-> 0]
NoCall     == [op |-> "none",   off |-> 0, len |-> 0]
Closing    == [op |-> "close",  off |-> 0, len |-> 0]
Append_(n) == [op |-> "append", off |-> 0, len |-> n]
Read_(o,n) == [op |-> "read",   off |-> o, len |-> n]

MinOf(a, b) == IF a < b THEN a ELSE b

\* x as the int the build leaves of it.  file_offset, and a block's number times
\* the block size, are kept whole here, and reduced where the code uses them: to
\* reduce a sum once is the same as to reduce it at every addition.
AsInt(x) == ((x + MaxInt + 1) % (2 * (MaxInt + 1))) - (MaxInt + 1)

BufferFull == WriteBufferSize <= write_buffer_filled

\* BlockSize bytes of f starting at index i.
BlockAt(f, i) == [k \in 0 .. BlockSize - 1 |-> f[i + k]]

\* f with the block b stored from index i on.
StoreBlock(f, i, b) ==
  [p \in DOMAIN f |-> IF p \in i .. i + BlockSize - 1 THEN b[p - i] ELSE f[p]]

NoRead == [till |-> 0, block_id |-> 0, start |-> 0, n |-> 0]

EmptyCache == [s \in 0 .. RCacheBlocks - 1 |->
                 [valid |-> FALSE, block_id |-> -1,
                  block |-> [k \in 0 .. BlockSize - 1 |-> Stale]]]

Init ==
  /\ head = 0 /\ tail = 0 /\ write_buffer_filled = 0 /\ file_offset = 0
  /\ write_buffer = [p \in 0 .. WriteBufferSize - 1 |-> Stale]
  /\ exit_worker_thread = FALSE
  /\ read_cache = EmptyCache
  /\ disk = [p \in 0 .. DeviceSize - 1 |-> Stale]
  /\ mutex = "free"
  /\ client = "closed" /\ worker = "exited"
  /\ call = Closed /\ left = 0 /\ distance = 0 /\ rd = NoRead /\ buf = <<>>
  /\ appended = 0 /\ spurious = 0

-----------------------------------------------------------------------------
(* Condition variables.  item_avail has one waiter, the worker, and flush  *)
(* and space_avail have one, the client; a signal with nobody waiting is   *)
(* lost.  Nothing in logfs.c signals space_avail.                          *)

SignalItemAvail == worker' = IF worker = "wait" THEN "woken" ELSE worker

SignalFlush == client' = IF client = "flush_wait" THEN "flush_woken" ELSE client

\* POSIX lets pthread_cond_wait return with no signal.
SpuriousWakeup ==
  /\ spurious < MaxSpurious
  /\ spurious' = spurious + 1
  /\ \/ /\ worker = "wait"
        /\ worker' = "woken"
        /\ UNCHANGED client
     \/ /\ client = "flush_wait"
        /\ client' = "flush_woken"
        /\ UNCHANGED worker
     \/ /\ client = "append_wait"
        /\ client' = "append_woken"
        /\ UNCHANGED worker
  /\ UNCHANGED <<buffer_vars, exit_worker_thread, store_vars, mutex, client_vars>>

-----------------------------------------------------------------------------
(* logfs_open, and the calls the client may make.                          *)

\* Everything starts from zero again: what an earlier log left on the device
\* is, for the new one, only stale bytes.
Open ==
  /\ client = "closed"
  /\ head' = 0 /\ tail' = 0 /\ write_buffer_filled' = 0 /\ file_offset' = 0
  /\ write_buffer' = [p \in 0 .. WriteBufferSize - 1 |-> Stale]
  /\ exit_worker_thread' = FALSE
  /\ read_cache' = EmptyCache
  /\ disk' = [p \in 0 .. DeviceSize - 1 |-> Stale]
  /\ mutex' = "free"
  /\ worker' = "start"
  /\ client' = "idle" /\ call' = NoCall
  /\ left' = 0 /\ distance' = 0 /\ rd' = NoRead /\ buf' = <<>>
  /\ appended' = 0
  /\ UNCHANGED spurious

\* logfs_open answers NULL: no memory for the log, no device, no mutex, condition
\* or thread.  What it has allocated by then is lost.
OpenFails ==
  /\ "open_error" \in Faults
  /\ client = "closed"
  /\ buf' = Failed
  /\ UNCHANGED <<buffer_vars, exit_worker_thread, store_vars, mutex, client,
                 worker, call, left, distance, rd, appended, spurious>>

\* The buffer, or a slot of the cache, is not checked after malloc (171, 184).
OpenCrashes ==
  /\ "no_memory" \in Faults
  /\ client = "closed"
  /\ client' = "aborted"
  /\ UNCHANGED <<buffer_vars, exit_worker_thread, store_vars, mutex, worker,
                 client_vars, spurious>>

CallAppend ==
  /\ client = "idle"
  /\ \E n \in 0 .. MaxAppend :
       /\ appended + n <= MaxLog
       /\ call' = Append_(n)
       /\ left' = n
  /\ buf' = <<>>
  /\ client' = "append_lock"
  /\ UNCHANGED <<buffer_vars, exit_worker_thread, store_vars, mutex, worker,
                 distance, rd, appended, spurious>>

CallRead ==
  /\ client = "idle"
  /\ \E o \in 0 .. appended : \E n \in 0 .. appended - o : call' = Read_(o, n)
  /\ buf' = <<>>
  /\ client' = "flush_lock"
  /\ UNCHANGED <<buffer_vars, exit_worker_thread, store_vars, mutex, worker,
                 left, distance, rd, appended, spurious>>

CallClose ==
  /\ client = "idle"
  /\ call' = Closing
  /\ buf' = <<>>
  /\ client' = "flush_lock"
  /\ UNCHANGED <<buffer_vars, exit_worker_thread, store_vars, mutex, worker,
                 left, distance, rd, appended, spurious>>

-----------------------------------------------------------------------------
(* logfs_append: the mutex is held over the whole copy.                    *)

AppendLock ==
  /\ client \in {"append_lock", "append_woken"}
  /\ mutex = "free"
  /\ mutex' = "client"
  /\ client' = "append_loop"
  /\ UNCHANGED <<buffer_vars, exit_worker_thread, store_vars, worker,
                 client_vars, spurious>>

AppendByte ==
  /\ client = "append_loop"
  /\ left > 0
  /\ ~BufferFull
  /\ write_buffer_filled' = write_buffer_filled + 1
  /\ write_buffer' = [write_buffer EXCEPT ![head] = Byte(appended)]
  /\ appended' = appended + 1
  /\ left' = left - 1
  /\ head' = (head + 1) % WriteBufferSize
  /\ SignalItemAvail
  /\ UNCHANGED <<tail, file_offset, exit_worker_thread, store_vars, mutex,
                 client, call, distance, rd, buf, spurious>>

AppendFull ==
  /\ client = "append_loop"
  /\ left > 0
  /\ BufferFull
  /\ client' = "append_wait"
  /\ mutex' = "free"
  /\ UNCHANGED <<buffer_vars, exit_worker_thread, store_vars, worker,
                 client_vars, spurious>>

AppendReturn ==
  /\ client = "append_loop"
  /\ left = 0
  /\ mutex' = "free"
  /\ client' = "idle" /\ call' = NoCall
  /\ UNCHANGED <<buffer_vars, exit_worker_thread, store_vars, worker,
                 left, distance, rd, buf, appended, spurious>>

-----------------------------------------------------------------------------
(* flush_to_disk: pad the buffer to a block boundary, wait once for the    *)
(* worker to drain it, and take the padded block back, so that the next    *)
(* flush writes it again with what has been appended to it since.          *)

\* A head on a block boundary is padded too, by a whole block: what makes the
\* worker run, and signal, even when the buffer is empty.
PadDistance == BlockSize - (head % BlockSize)

FlushPad ==
  /\ client = "flush_lock"
  /\ mutex = "free"
  /\ distance' = PadDistance
  /\ head' = head + distance'
  /\ write_buffer_filled' = write_buffer_filled + distance'
  /\ SignalItemAvail
  /\ client' = "flush_wait"
  /\ UNCHANGED <<tail, write_buffer, file_offset, exit_worker_thread,
                 store_vars, mutex, call, left, rd, buf, appended, spurious>>

UndoTailKept(h) == tail

UndoTailUnwrapped(h) == tail - BlockSize

\* The start of the block that holds h, in a buffer where tail is one block on.
UndoTail(h) ==
  IF tail = 0 THEN h - (h % BlockSize) ELSE tail - BlockSize

UndoFilledEmpty(h) == 0

UndoFilled(h) == h % BlockSize

UndoOffsetKept == file_offset

UndoOffset == file_offset - BlockSize

FlushUndo ==
  /\ client = "flush_woken"
  /\ mutex = "free"
  /\ head' = head - distance
  /\ tail' = UndoTail(head')
  /\ write_buffer_filled' = UndoFilled(head')
  /\ file_offset' = UndoOffset
  /\ distance' = 0
  /\ client' = IF call.op = "read" THEN "read_start" ELSE "exit_lock"
  /\ UNCHANGED <<write_buffer, exit_worker_thread, store_vars, mutex, worker,
                 call, left, rd, buf, appended, spurious>>

-----------------------------------------------------------------------------
(* logfs_read after its flush: one block per iteration, without the mutex. *)

ReadStart ==
  /\ client = "read_start"
  /\ LET start == call.off % BlockSize
     IN rd' = [till     |-> 0,
               block_id |-> call.off \div BlockSize,
               start    |-> start,
               n        |-> MinOf(call.len, BlockSize - start)]
  /\ client' = "read_loop"
  /\ UNCHANGED <<buffer_vars, exit_worker_thread, store_vars, mutex, worker,
                 call, left, distance, buf, appended, spurious>>

CacheSlot(b) == b % RCacheBlocks

CachedAnyBlock(b) == read_cache[CacheSlot(b)].valid

Cached(b) == /\ read_cache[CacheSlot(b)].valid
             /\ read_cache[CacheSlot(b)].block_id = b

\* memcpy from the slot into the client's buffer, then the loop's updates.
CopyOut(block) ==
  /\ buf' = buf \o [k \in 1 .. rd.n |-> block[rd.start + k - 1]]
  /\ rd' = [till     |-> rd.till + rd.n,
            block_id |-> rd.block_id + 1,
            start    |-> 0,
            n        |-> MinOf(BlockSize, call.len - (rd.till + rd.n))]

ReadHit ==
  /\ client = "read_loop"
  /\ rd.till < call.len
  /\ Cached(rd.block_id)
  /\ CopyOut(read_cache[CacheSlot(rd.block_id)].block)
  /\ UNCHANGED <<buffer_vars, exit_worker_thread, store_vars, mutex, client,
                 worker, call, left, distance, appended, spurious>>

BlockOffset(b) == AsInt(b * BlockSize)

\* The assertion of device_read, where a negative int is a huge uint64_t.
ReadOnDevice(b) == BlockOffset(b) >= 0 /\ BlockOffset(b) + BlockSize <= DeviceSize

ReadMiss ==
  /\ client = "read_loop"
  /\ rd.till < call.len
  /\ ~Cached(rd.block_id)
  /\ ReadOnDevice(rd.block_id)
  /\ LET block == BlockAt(disk, BlockOffset(rd.block_id))
     IN /\ read_cache' = [read_cache EXCEPT ![CacheSlot(rd.block_id)] =
                            [valid |-> TRUE, block_id |-> rd.block_id,
                             block |-> block]]
        /\ CopyOut(block)
  /\ UNCHANGED <<buffer_vars, exit_worker_thread, disk, mutex, client,
                 worker, call, left, distance, appended, spurious>>

\* device_read fails: pread reports an error, or delivers only the first
\* bytes of the block, which are then in the slot's memory.  The slot keeps
\* the valid flag and the block_id it had.
ReadFails ==
  /\ client = "read_loop"
  /\ rd.till < call.len
  /\ ~Cached(rd.block_id)
  /\ ReadOnDevice(rd.block_id)
  /\ \/ "read_error" \in Faults /\ UNCHANGED read_cache
     \/ /\ "short_read" \in Faults
        /\ \E m \in 1 .. BlockSize - 1 :
             read_cache' = [read_cache EXCEPT ![CacheSlot(rd.block_id)].block =
               [k \in 0 .. BlockSize - 1 |->
                  IF k < m THEN disk[BlockOffset(rd.block_id) + k] ELSE @[k]]]
  /\ buf' = Failed
  /\ client' = "idle" /\ call' = NoCall /\ rd' = NoRead
  /\ UNCHANGED <<buffer_vars, exit_worker_thread, disk, mutex, worker,
                 left, distance, appended, spurious>>

ReadAborts ==
  /\ client = "read_loop"
  /\ rd.till < call.len
  /\ ~Cached(rd.block_id)
  /\ ~ReadOnDevice(rd.block_id)
  /\ worker' = "aborted" /\ client' = "aborted"
  /\ UNCHANGED <<buffer_vars, exit_worker_thread, store_vars, mutex,
                 client_vars, spurious>>

ReadReturn ==
  /\ client = "read_loop"
  /\ rd.till >= call.len
  /\ client' = "idle" /\ call' = NoCall /\ rd' = NoRead
  /\ UNCHANGED <<buffer_vars, exit_worker_thread, store_vars, mutex, worker,
                 left, distance, buf, appended, spurious>>

-----------------------------------------------------------------------------
(* logfs_close after its flush.                                            *)

CloseSetExit ==
  /\ client = "exit_lock"
  /\ mutex = "free"
  /\ exit_worker_thread' = TRUE
  /\ client' = "exit_signal"
  /\ UNCHANGED <<buffer_vars, store_vars, mutex, worker, client_vars, spurious>>

CloseSignal ==
  /\ client = "exit_signal"
  /\ SignalItemAvail
  /\ client' = "join"
  /\ UNCHANGED <<buffer_vars, exit_worker_thread, store_vars, mutex,
                 client_vars, spurious>>

CloseJoin ==
  /\ client = "join"
  /\ worker = "exited"
  /\ client' = "closed" /\ call' = Closed
  /\ UNCHANGED <<buffer_vars, exit_worker_thread, store_vars, mutex, worker,
                 left, distance, rd, buf, appended, spurious>>

-----------------------------------------------------------------------------
(* The worker thread, write_to_disk.                                       *)

WorkerLock ==
  /\ worker = "start"
  /\ mutex = "free"
  /\ mutex' = "worker"
  /\ worker' = "outer"
  /\ UNCHANGED <<buffer_vars, exit_worker_thread, store_vars, client,
                 client_vars, spurious>>

\* The test of the outer loop; when it fails the thread ends with the mutex.
WorkerOuter ==
  /\ worker = "outer"
  /\ worker' = IF exit_worker_thread THEN "exited" ELSE "inner"
  /\ UNCHANGED <<buffer_vars, exit_worker_thread, store_vars, mutex, client,
                 client_vars, spurious>>

WorkerWait ==
  /\ worker = "inner"
  /\ write_buffer_filled < BlockSize
  /\ ~exit_worker_thread
  /\ mutex' = "free"
  /\ worker' = "wait"
  /\ UNCHANGED <<buffer_vars, exit_worker_thread, store_vars, client,
                 client_vars, spurious>>

WorkerRelock ==
  /\ worker = "woken"
  /\ mutex = "free"
  /\ mutex' = "worker"
  /\ worker' = "inner"
  /\ UNCHANGED <<buffer_vars, exit_worker_thread, store_vars, client,
                 client_vars, spurious>>

WorkerExit ==
  /\ worker = "inner"
  /\ write_buffer_filled < BlockSize
  /\ exit_worker_thread
  /\ mutex' = "free"
  /\ worker' = "exited"
  /\ UNCHANGED <<buffer_vars, exit_worker_thread, store_vars, client,
                 client_vars, spurious>>

BlockReadyUnchecked == worker = "inner"

BlockReady == worker = "inner" /\ write_buffer_filled >= BlockSize

\* The assertion of device_write, where a negative int is a huge uint64_t; and
\* for the offset of block -1 read_cache[-1], which is no slot, is followed before.
OnDevice == AsInt(file_offset) >= 0 /\ AsInt(file_offset) + BlockSize <= DeviceSize

InvalidateNothing == UNCHANGED read_cache

\* The slot is emptied before the block is written, whatever comes of the write.
InvalidateSlot ==
  LET block_id == AsInt(file_offset) \div BlockSize
      s        == CacheSlot(block_id)
  IN IF read_cache[s].block_id = block_id
       THEN read_cache' = [read_cache EXCEPT ![s].valid = FALSE]
       ELSE UNCHANGED read_cache

DrainedUnwrapped(t) == head = t

\* The condition on which the worker signals flush.
Drained(t) == head = t \/ (t = 0 /\ head = WriteBufferSize)

WorkerWrite ==
  /\ BlockReady
  /\ OnDevice
  /\ InvalidateSlot
  /\ disk' = StoreBlock(disk, AsInt(file_offset), BlockAt(write_buffer, tail))
  /\ tail' = (tail + BlockSize) % WriteBufferSize
  /\ write_buffer_filled' = write_buffer_filled - BlockSize
  /\ file_offset' = file_offset + BlockSize
  /\ IF Drained(tail')
       THEN SignalFlush
       ELSE UNCHANGED client
  /\ worker' = "outer"
  /\ UNCHANGED <<head, write_buffer, exit_worker_thread, mutex, client_vars,
                 spurious>>

\* pwrite fails: the thread ends, and still holds the mutex.
WorkerWriteFails ==
  /\ "write_error" \in Faults
  /\ BlockReady
  /\ OnDevice
  /\ InvalidateSlot
  /\ worker' = "exited"
  /\ UNCHANGED <<buffer_vars, exit_worker_thread, disk, mutex, client,
                 client_vars, spurious>>

\* The process is gone, both threads with it.
WorkerAborts ==
  /\ BlockReady
  /\ ~OnDevice
  /\ worker' = "aborted" /\ client' = "aborted"
  /\ UNCHANGED <<buffer_vars, exit_worker_thread, store_vars, mutex,
                 client_vars, spurious>>

-----------------------------------------------------------------------------
Worker == \/ WorkerLock \/ WorkerOuter \/ WorkerWait \/ WorkerRelock
          \/ WorkerExit \/ WorkerWrite \/ WorkerWriteFails \/ WorkerAborts

\* What the client's thread does once it is inside a call.
ClientSteps == \/ AppendLock \/ AppendByte \/ AppendFull \/ AppendReturn
               \/ FlushPad \/ FlushUndo
               \/ ReadStart \/ ReadHit \/ ReadMiss \/ ReadFails \/ ReadAborts
               \/ ReadReturn
               \/ CloseSetExit \/ CloseSignal \/ CloseJoin

Next == \/ Open \/ OpenFails \/ OpenCrashes
        \/ CallAppend \/ CallRead \/ CallClose
        \/ ClientSteps \/ Worker \/ SpuriousWakeup

Spec == Init /\ [][Next]_vars

\* Both threads keep running, as the operating system's scheduler provides;
\* nothing makes the program call, and nothing makes a wakeup spurious.
FairSpec == Spec /\ WF_vars(ClientSteps) /\ WF_vars(Worker)

-----------------------------------------------------------------------------
(* Properties.                                                             *)

\* What each variable may hold; for the offsets and block numbers no more than
\* that they are integers.  InBounds says where they point.
TypeOK ==
  /\ head \in 0 .. WriteBufferSize
  /\ tail \in 0 .. WriteBufferSize - 1
  /\ write_buffer_filled \in 0 .. WriteBufferSize + BlockSize
  /\ file_offset \in Int
  /\ write_buffer \in [0 .. WriteBufferSize - 1 -> Bytes]
  /\ exit_worker_thread \in BOOLEAN
  /\ read_cache \in [0 .. RCacheBlocks - 1 ->
                       [valid : BOOLEAN, block_id : Int,
                        block : [0 .. BlockSize - 1 -> Bytes]]]
  /\ disk \in [0 .. DeviceSize - 1 -> Bytes]
  /\ mutex \in {"free", "client", "worker"}
  /\ client \in {"closed", "idle", "append_lock", "append_loop", "append_wait",
                 "append_woken", "flush_lock", "flush_wait", "flush_woken",
                 "read_start", "read_loop", "exit_lock", "exit_signal", "join",
                 "aborted"}
  /\ worker \in {"start", "outer", "inner", "wait", "woken", "exited", "aborted"}
  /\ call.op \in {"closed", "none", "append", "read", "close"}
  /\ left \in 0 .. MaxAppend
  /\ distance \in 0 .. BlockSize
  /\ appended \in 0 .. MaxLog
  /\ spurious \in 0 .. MaxSpurious

\* Nothing is copied past an end.  The block the worker writes lies in the write
\* buffer, and head, which a flush alone may rest one past its end, is inside
\* when a byte is stored there; what a read takes from a block lies in that block
\* and, with what it has taken already, in the caller's buffer, and the block lies
\* on the device.  The offset never passes the end of the device or the largest
\* int, and is behind the start by no more blocks than wakeups were spurious: each
\* of them lets a flush take back one block that was not written.
InBounds ==
  /\ TypeOK
  /\ tail % BlockSize = 0 /\ tail + BlockSize <= WriteBufferSize
  /\ client \notin {"flush_wait", "flush_woken", "aborted"} =>
       head < WriteBufferSize /\ write_buffer_filled <= WriteBufferSize
  /\ client = "read_loop" /\ rd.till < call.len =>
       /\ rd.start >= 0 /\ rd.n > 0 /\ rd.start + rd.n <= BlockSize
       /\ Len(buf) + rd.n <= call.len
       /\ rd.block_id >= 0 /\ rd.block_id * BlockSize + BlockSize <= DeviceSize
  /\ file_offset % BlockSize = 0
  /\ file_offset <= DeviceSize /\ file_offset <= MaxInt + 1
  /\ file_offset >= -(spurious * BlockSize)

\* A data race would be the worker changing a cache slot or the device while
\* the client's read, which holds no mutex by then, uses them.  No error of the
\* device and no spurious wakeup brings the two there together, because the
\* flush at the head of logfs_read leaves the worker less than one block.
RaceFree == client \in {"read_start", "read_loop"} => ~BlockReady

\* The flush pads a head on a block boundary by a whole block, whose write fails
\* the assertion device.c:143 when the log has come to the end of the device, or,
\* on a larger one, has more bytes than an int counts (two gigabytes), when its
\* offset is negative.  No sequence of flushes fails it before, or the one of a
\* read, device.c:125, whatever the device reports.  Only a flush that goes on
\* from a spurious wakeup before it is drained does, because it takes back a
\* block that was not written (logfs.c:126-136): that case the property excuses.
AbortsOnlyWhenFull ==
  worker = "aborted" =>
    appended >= DeviceSize \/ appended > MaxInt \/ spurious > 0

OnDisk(p)   == p < DeviceSize /\ disk[p] = Byte(p)
InBuffer(p) == write_buffer[(tail + (p - file_offset)) % WriteBufferSize] = Byte(p)

\* At every moment, in the middle of an append, of a flush and of a drain, each
\* byte accepted is either where it belongs on the device or in the buffer at
\* the place from which the worker will write it to where it belongs; and the
\* counters agree on how many those are.
NothingLost ==
  client # "closed" =>
    /\ file_offset + write_buffer_filled = appended + distance
    /\ \A p \in 0 .. appended - 1 :
         IF p < file_offset THEN OnDisk(p) ELSE InBuffer(p)

\* A slot that answers for a block holds what the device holds for it, although
\* the last block is written again and again as it fills up.
CacheCoherent ==
  \A s \in 0 .. RCacheBlocks - 1 :
    read_cache[s].valid =>
      read_cache[s].block = BlockAt(disk, read_cache[s].block_id * BlockSize)

\* What a flush is for: once it is over everything appended is on the device,
\* and when logfs_close is done the device holds the whole log.
FlushIsDurable ==
  client \in {"read_start", "read_loop", "exit_lock", "exit_signal", "join",
             "closed"} => \A p \in 0 .. appended - 1 : OnDisk(p)

\* A byte of the log, once on the device, stays there until a new log is opened,
\* through every rewrite of the block it is in.
NeverUnwritten ==
  [][\A p \in 0 .. appended - 1 : OnDisk(p) => disk'[p] = Byte(p)
     \/ client = "closed"]_vars

\* A flush makes what was appended durable, and nothing undoes that: the client
\* sees all of it on the device, and no byte there is ever taken back.
Durable == []FlushIsDurable /\ NeverUnwritten

-----------------------------------------------------------------------------
(* The log as its caller sees it.  An append takes effect when it returns. *)

Committed == IF call.op = "append" THEN appended - (call.len - left) ELSE appended

Log == INSTANCE AppendLog
         WITH log    <- [i \in 1 .. Committed |-> i],
              call   <- call,
              answer <- IF call.op \in {"none", "closed"} THEN buf ELSE <<>>

\* logfs.c implements the append-only log: a logfs_read answers with the bytes
\* appended at that place, through buffer, padding, device and cache, or fails.
RefinesAppendLog == Log!Spec

\* After an error of the device the worker ends with the mutex held, and whoever
\* needs it waits for ever, instead of an answer ("return: 0 on success, otherwise
\* error", logfs.c:253).  That is as far as the three properties below go.
WorkerDied == worker = "exited" /\ mutex = "worker"

\* A logfs_read returns: its flush is always woken up, whether the buffer is
\* empty, wrapped or full, and whichever thread comes first to the mutex.
ReadReturns == call.op = "read" ~> call.op # "read" \/ WorkerDied

\* logfs_close returns, with the worker's thread ended.
CloseReturns ==
  call.op = "close" ~> (client = "closed" /\ worker = "exited") \/ WorkerDied

\* A logfs_append returns if the buffer has room for it when it is called.  That
\* is as much as the code guarantees: see AppendReturns.
AppendReturnsIfRoom ==
  client = "append_lock" /\ write_buffer_filled + left <= WriteBufferSize
    ~> client = "idle" \/ WorkerDied

\* Every call returns, whichever thread comes first: no wakeup is lost, and none
\* comes too early.
CallsReturn == ReadReturns /\ CloseReturns /\ AppendReturnsIfRoom

-----------------------------------------------------------------------------
(* What the comments of logfs.c say, and the code does not do.             *)

\* "Append len bytes to the logfs", logfs.c:305.  Nothing signals space_avail:
\* the call that once finds the buffer full waits for ever.
AppendReturns == call.op = "append" ~> call.op # "append"
=============================================================================
