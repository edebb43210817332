------------------------------- MODULE AltLog -------------------------------
(***************************************************************************)
(* p4/p4_alt/logfs.c: another log with a worker thread.  The whole log is  *)
(* kept in a list of blocks, and whenever the worker is signalled it       *)
(* writes all of them.  Reads go to the device, through a list of blocks   *)
(* that are read again each time, so that only their ids matter.           *)
(*                                                                         *)
(* One thread calls (pc), the worker is the other (worker).  The mutexes   *)
(* are static: they outlive a log.  Unlocking is modelled as Linux does    *)
(* it, whoever holds the mutex.  Neither condition has a predicate, so a   *)
(* signal that nobody waits for is lost.                                   *)
(***************************************************************************)
EXTENDS Integers, SequencesExt

CONSTANTS BlockSize,     \* bytes of a block, and of a block of the device
          DeviceBlocks,
          MaxLog,        \* bound: bytes of a log
          MaxLogs,       \* bound: logs opened, one after the other
          Appends,       \* bound: the lengths of appends
          Reads,         \* bound: the lengths of reads
          MaxPast,       \* bound: bytes a read may reach past the end of the log
          MaxFaults      \* bound: errors and spurious wakeups

VARIABLES size, wcache, wcache_blocks, rcache,      \* struct logfs
          wlock, rlock, dlock,                      \* the three mutexes
          pc, off, len,                             \* the caller
          worker, current, cancelled, dangling,     \* the worker
          device,                                   \* the bytes on the device
          buf,                                      \* what a read delivered
          log, told, split, faults,                 \* history: the logs and what they hold
          flushed, fresh, overtaken                 \* history: rounds, reads and closes

locks  == <<wlock, rlock, dlock>>
cache  == <<size, wcache, wcache_blocks>>
call   == <<pc, off, len>>
thread == <<worker, current, cancelled, dangling>>
past   == <<log, told, split, flushed, fresh, overtaken>>
vars   == <<cache, rcache, locks, call, thread, device, buf, past, faults>>

ASSUME AltLogAssumption ==
  /\ {BlockSize, DeviceBlocks, MaxLog, MaxLogs} \subseteq Nat \ {0}
  /\ Appends \subseteq Nat \ {0} /\ Reads \subseteq Nat \ {0}
  /\ {MaxPast, MaxFaults} \subseteq Nat

Ids   == 0 .. DeviceBlocks - 1
Place == 1 .. BlockSize
Zeros == [k \in Place |-> 0]

\* Byte p of the l-th log.  A caller's buffer holds the bytes of its place in the log.
Byte(l, p) == l * MaxLog + p + 1
Garbage    == -1      \* read from behind a block
Untouched  == -2      \* the caller's buffer was not written
Freed      == -3      \* whatever is in memory that was freed

Init ==
  /\ size = 0 /\ wcache = <<>> /\ wcache_blocks = 0 /\ rcache = {}
  /\ wlock = "none" /\ rlock = "none" /\ dlock = "none"
  /\ pc = "closed" /\ off = 0 /\ len = 0
  /\ worker = "none" /\ current = 0 /\ cancelled = FALSE /\ dangling = FALSE
  /\ device = [i \in Ids |-> Zeros]
  /\ buf = <<>> /\ log = 0 /\ told = 0 /\ split = {} /\ faults = 0
  /\ flushed = 0 /\ fresh = 0 /\ overtaken = FALSE

Fault == faults < MaxFaults /\ faults' = faults + 1

\* The process ends, and both threads with it.
Crash == /\ pc' = "crash" /\ worker' = "none"
         /\ UNCHANGED <<cache, rcache, locks, off, len, current, cancelled, dangling,
                        device, buf, past>>

-----------------------------------------------------------------------------
(* logfs_open: a log with nothing in it, as Init and Join leave the fields.*)
(* The caller takes both mutexes, and the worker gives them back.  Should  *)
(* the thread not start, nobody does.                                      *)

Opening == pc = "closed" /\ wlock = "none" /\ rlock = "none" /\ log < MaxLogs

Open ==
  /\ Opening
  /\ wlock' = "caller" /\ rlock' = "caller"
  /\ pc' = "idle" /\ worker' = "start" /\ log' = log + 1
  /\ UNCHANGED <<cache, rcache, dlock, off, len, current, cancelled, dangling,
                 device, buf, told, split, flushed, fresh, overtaken, faults>>

OpenFails ==
  /\ Opening /\ Fault
  /\ wlock' = "caller" /\ rlock' = "caller"
  /\ UNCHANGED <<cache, rcache, dlock, call, thread, device, buf, past>>

-----------------------------------------------------------------------------
(* logfs_append                                                            *)

NotSignalled == worker

Signalled == IF worker = "wait" THEN "woken" ELSE worker

CallAppend ==
  /\ pc = "idle"
  /\ \E n \in Appends : told + n <= MaxLog /\ len' = n
  /\ pc' = "append" /\ off' = told
  /\ UNCHANGED <<cache, rcache, locks, thread, device, buf, past, faults>>

AppendLocks ==
  /\ pc = "append" /\ wlock = "none"
  /\ wlock' = "caller" /\ pc' = "copy"
  /\ UNCHANGED <<cache, rcache, rlock, dlock, off, len, thread, device, buf, past, faults>>

Room      == BlockSize - (size % BlockSize)
CopySize  == IF len < Room THEN len ELSE Room
NeedsFirst == size = 0
NeedsNew  == Room = BlockSize
NewBlock  == [id |-> wcache_blocks, data |-> Zeros, size |-> 0]

\* Each round copies from the beginning of the caller's buffer.
Copied(b) ==
  LET at == b.size % BlockSize IN
  [id |-> b.id, size |-> b.size + CopySize,
   data |-> [k \in Place |-> IF k - at \in 1 .. CopySize
                             THEN Byte(log, off + k - at - 1) ELSE b.data[k]]]

\* A round of the loop.  What follows the first is copied from the wrong place: split
\* has the places of such bytes, and the place that each was copied from.
AppendCopies ==
  /\ pc = "copy" /\ len > 0
  /\ wcache' = IF NeedsNew THEN Append(wcache, Copied(NewBlock))
                           ELSE [wcache EXCEPT ![Len(wcache)] = Copied(@)]
  /\ wcache_blocks' = wcache_blocks + (IF NeedsNew THEN 1 ELSE 0)
  /\ size' = size + CopySize /\ len' = len - CopySize /\ told' = told + CopySize
  /\ split' = IF told = off THEN split
              ELSE split \cup {<<log, p, off + (p - told)>> : p \in told .. told + CopySize - 1}
  /\ UNCHANGED <<rcache, locks, pc, off, thread, device, buf, log, flushed, fresh,
                 overtaken, faults>>

\* create_new_block returns NULL, and the caller writes through it.
AppendCrashes == pc = "copy" /\ len > 0 /\ NeedsNew /\ Fault /\ Crash

AppendReturns ==
  /\ pc = "copy" /\ len = 0
  /\ worker' = Signalled
  /\ wlock' = "none" /\ pc' = "idle" /\ off' = 0
  /\ UNCHANGED <<cache, rcache, rlock, dlock, len, buf, current, cancelled, dangling,
                 device, past, faults>>

-----------------------------------------------------------------------------
(* logfs_read                                                              *)

CallRead ==
  /\ pc = "idle"
  /\ \E o \in 0 .. told, n \in Reads :
        /\ o + n <= told + MaxPast
        /\ off' = o /\ len' = n
  /\ pc' = "read"
  /\ UNCHANGED <<cache, rcache, locks, thread, device, buf, past, faults>>

ReadLocks ==
  /\ pc = "read" /\ rlock = "none"
  /\ IF off + len > size
     THEN /\ worker' = Signalled /\ pc' = "rwait"
          /\ UNCHANGED rlock
     ELSE /\ rlock' = "caller" /\ pc' = "lookup"
          /\ UNCHANGED worker
  /\ UNCHANGED <<cache, rcache, wlock, dlock, off, len, current, cancelled, dangling,
                 device, buf, past, faults>>

ReadWakes ==
  /\ pc = "rwoken" /\ rlock = "none"
  /\ rlock' = "caller" /\ pc' = "lookup"
  /\ UNCHANGED <<cache, rcache, wlock, dlock, off, len, thread, device, buf, past, faults>>

Block == off \div BlockSize

FromBlock(d) ==
  [k \in 1 .. len |-> IF k \in Place THEN d[Block][k] ELSE Garbage]

\* What the device has at the place, up to the end of the block.
FromDevice(d) ==
  [k \in 1 .. len |-> LET at == (off % BlockSize) + k IN
     IF at \in Place THEN d[Block][at] ELSE Garbage]

Found == Block \in rcache

ReadReturns ==
  /\ pc = "lookup" /\ dlock = "none" /\ Block \in Ids
  /\ buf' = FromDevice(device)
  /\ rcache' = rcache \cup {Block}
  /\ rlock' = "none" /\ pc' = "answer" /\ fresh' = flushed
  /\ UNCHANGED <<cache, wlock, dlock, off, len, thread, device, log, told, split, flushed,
                 overtaken, faults>>

\* The assertion of device_read, on a place behind the end of the device.
ReadAborts ==
  pc = "lookup" /\ dlock = "none" /\ Block \notin Ids /\ Crash /\ UNCHANGED faults

\* The device fails.  A block of the list: the read returns 0 all the same.
\* A new block: it goes on with zeros, having given up the mutex.
ReadFails ==
  /\ pc = "lookup" /\ dlock = "none" /\ Block \in Ids /\ Fault
  /\ IF Found
     THEN /\ buf' = [k \in 1 .. len |-> Untouched]
          /\ pc' = "answer"
     ELSE /\ buf' = FromDevice([device EXCEPT ![Block] = Zeros])
          /\ pc' = "again"
  /\ rlock' = "none" /\ fresh' = flushed
  /\ UNCHANGED <<cache, rcache, wlock, dlock, off, len, thread, device, log, told, split,
                 flushed, overtaken>>

\* The mutex is unlocked again, whoever holds it by now.
ReadUnlocksAgain ==
  /\ pc = "again"
  /\ rcache' = rcache \cup {Block}
  /\ rlock' = "none" /\ pc' = "answer"
  /\ UNCHANGED <<cache, wlock, dlock, off, len, thread, device, buf, past, faults>>

\* The caller has the answer, and the call's locals are gone.
Answered ==
  /\ pc = "answer"
  /\ pc' = "idle" /\ off' = 0 /\ len' = 0 /\ buf' = <<>> /\ fresh' = 0
  /\ UNCHANGED <<cache, rcache, locks, thread, device, log, told, split, flushed,
                 overtaken, faults>>

ReadCrashes == pc = "lookup" /\ ~Found /\ Fault /\ Crash

-----------------------------------------------------------------------------
(* worker_thread_function                                                  *)

StartUnlocksR ==
  /\ worker = "start"
  /\ rlock' = "none" /\ worker' = "started"
  /\ UNCHANGED <<cache, rcache, wlock, dlock, call, current, cancelled, dangling,
                 device, buf, past, faults>>

StartUnlocksW ==
  /\ worker = "started"
  /\ wlock' = "none" /\ worker' = "top"
  /\ UNCHANGED <<cache, rcache, rlock, dlock, call, current, cancelled, dangling,
                 device, buf, past, faults>>

\* Locking and waiting, which unlocks: nothing can happen between.
Wait ==
  /\ worker = "top" /\ wlock = "none"
  /\ worker' = "wait"
  /\ UNCHANGED <<cache, rcache, locks, call, current, cancelled, dangling,
                 device, buf, past, faults>>

Wakes ==
  /\ worker = "woken" /\ wlock = "none"
  /\ wlock' = "worker" /\ worker' = "lock"
  /\ UNCHANGED <<cache, rcache, rlock, dlock, call, current, cancelled, dangling,
                 device, buf, past, faults>>

LocksRSecond ==
  /\ worker = "lock" /\ rlock = "none"
  /\ rlock' = "worker" /\ worker' = "round"
  /\ current' = 2 /\ size' = 0
  /\ UNCHANGED <<wcache, wcache_blocks, rcache, wlock, dlock, call, cancelled, dangling,
                 device, buf, past, faults>>

LocksR ==
  /\ worker = "lock" /\ rlock = "none"
  /\ rlock' = "worker" /\ worker' = "round"
  /\ current' = 1 /\ size' = 0
  /\ UNCHANGED <<wcache, wcache_blocks, rcache, wlock, dlock, call, cancelled, dangling,
                 device, buf, past, faults>>

Writing == worker = "round" /\ ~dangling /\ current <= Len(wcache) /\ dlock = "none"

Writes ==
  /\ Writing /\ wcache[current].id \in Ids
  /\ device' = [device EXCEPT ![wcache[current].id] = wcache[current].data]
  /\ size' = size + wcache[current].size
  /\ current' = current + 1
  /\ UNCHANGED <<wcache, wcache_blocks, rcache, locks, call, worker, cancelled, dangling,
                 buf, past, faults>>

\* The assertion of device_write, on a log larger than the device.
WriteAborts == Writing /\ wcache[current].id \notin Ids /\ Crash /\ UNCHANGED faults

\* The worker ends, and both mutexes stay locked.
WriteFails ==
  /\ Writing /\ Fault
  /\ worker' = "dead"
  /\ UNCHANGED <<cache, rcache, locks, call, current, cancelled, dangling, device, buf, past>>

\* The list was freed under the loop.  It crashes; or takes garbage to the device,
\* which fails, or is where the cancellation meets it, with the device's mutex held;
\* or writes freed memory to any block, and goes on, to more of it or to a NULL.
WritesFreed ==
  /\ worker = "round" /\ dangling /\ dlock = "none"
  /\ \/ Crash
     \/ /\ worker' = "dead" /\ dangling' = FALSE
        /\ dlock' \in {"none"} \cup (IF cancelled THEN {"worker"} ELSE {})
        /\ UNCHANGED <<cache, rcache, wlock, rlock, call, current, cancelled, device, buf, past>>
     \/ /\ ~cancelled
        /\ \E i \in Ids : device' = [device EXCEPT ![i] = [k \in Place |-> Freed]]
        /\ dangling' \in BOOLEAN
        /\ UNCHANGED <<cache, rcache, locks, call, worker, current, cancelled, buf, past>>
  /\ UNCHANGED faults

RoundEndsQuietly ==
  /\ worker = "round" /\ ~dangling /\ current > Len(wcache)
  /\ worker' = "ended" /\ rlock' = "none"
  /\ flushed' = told
  /\ UNCHANGED <<cache, rcache, wlock, dlock, call, current, cancelled, dangling,
                 device, buf, log, told, split, fresh, overtaken, faults>>

RoundEnds ==
  /\ worker = "round" /\ ~dangling /\ current > Len(wcache)
  /\ worker' = "ended" /\ rlock' = "none"
  /\ pc' = IF pc = "rwait" THEN "rwoken" ELSE pc
  /\ flushed' = told
  /\ UNCHANGED <<cache, rcache, wlock, dlock, off, len, current, cancelled, dangling,
                 device, buf, log, told, split, fresh, overtaken, faults>>

UnlocksW ==
  /\ worker = "ended"
  /\ wlock' = "none" /\ worker' = "top" /\ current' = 0
  /\ UNCHANGED <<cache, rcache, rlock, dlock, call, cancelled, dangling,
                 device, buf, past, faults>>

\* The wait for a signal is where the cancellation ends the thread, with the mutex.
Cancelled ==
  /\ worker = "wait" /\ cancelled /\ wlock = "none"
  /\ wlock' = "worker" /\ worker' = "dead"
  /\ UNCHANGED <<cache, rcache, rlock, dlock, call, current, cancelled, dangling,
                 device, buf, past, faults>>

Spurious ==
  /\ Fault
  /\ \/ worker = "wait" /\ worker' = "woken" /\ UNCHANGED pc
     \/ pc = "rwait" /\ pc' = "rwoken" /\ UNCHANGED worker
  /\ UNCHANGED <<cache, rcache, locks, off, len, current, cancelled, dangling,
                 device, buf, past>>

-----------------------------------------------------------------------------
(* logfs_close: the lists are freed first, then the worker is cancelled.   *)

FreeCaches ==
  /\ pc = "idle"
  /\ wcache' = <<>> /\ rcache' = {}
  /\ dangling' = (worker = "round" /\ current <= Len(wcache))
  /\ overtaken' = (overtaken \/ dangling')
  /\ pc' = "cancel"
  /\ UNCHANGED <<size, wcache_blocks, locks, off, len, worker, current, cancelled,
                 device, buf, log, told, split, flushed, fresh, faults>>

Cancel ==
  /\ pc = "cancel"
  /\ cancelled' = TRUE /\ pc' = "join"
  /\ UNCHANGED <<cache, rcache, locks, off, len, worker, current, dangling,
                 device, buf, past, faults>>

JoinOnly ==
  /\ pc = "join" /\ worker = "dead"
  /\ pc' = "closed" /\ worker' = "none"
  /\ size' = 0 /\ wcache_blocks' = 0 /\ current' = 0 /\ cancelled' = FALSE /\ told' = 0
  /\ flushed' = 0
  /\ UNCHANGED <<wcache, rcache, locks, off, len, dangling, device, buf, log, split, fresh,
                 overtaken, faults>>

Join ==
  /\ pc = "join" /\ worker = "dead"
  /\ wlock' = "none" /\ rlock' = "none"
  /\ pc' = "closed" /\ worker' = "none"
  /\ size' = 0 /\ wcache_blocks' = 0 /\ current' = 0 /\ cancelled' = FALSE /\ told' = 0
  /\ flushed' = 0
  /\ UNCHANGED <<wcache, rcache, dlock, off, len, dangling, device, buf, log, split, fresh,
                 overtaken, faults>>

-----------------------------------------------------------------------------
Caller ==
  \/ AppendLocks \/ AppendCopies \/ AppendReturns
  \/ ReadLocks \/ ReadWakes \/ ReadReturns \/ ReadAborts \/ ReadUnlocksAgain \/ Answered
  \/ Cancel \/ Join

Worker ==
  \/ StartUnlocksR \/ StartUnlocksW \/ Wait \/ Wakes
  \/ Writes \/ WriteAborts \/ WritesFreed \/ RoundEnds \/ UnlocksW \/ Cancelled

Environment ==
  OpenFails \/ AppendCrashes \/ ReadFails \/ ReadCrashes \/ WriteFails \/ Spurious

Next ==
  \/ Open \/ CallAppend \/ CallRead \/ FreeCaches
  \/ Caller \/ Worker \/ LocksR \/ Environment

Spec == Init /\ [][Next]_vars

\* Both threads keep running.  A caller that reads on and on sleeps before it
\* takes the read mutex (logfs.c:256), so that the worker gets it in the end.
FairSpec ==
  Spec /\ WF_vars(Caller) /\ WF_vars(Worker) /\ SF_vars(LocksR)

-----------------------------------------------------------------------------
Bytes == {Garbage, Untouched, Freed} \cup 0 .. (MaxLogs + 1) * MaxLog

(* The state is made of values the code can hold: at most one block more   *)
(* than full ones, sizes within the log, threads at their places.          *)
TypeOK ==
  /\ size \in 0 .. MaxLog /\ told \in 0 .. MaxLog
  /\ wcache \in Seq([id : Nat, data : [Place -> Bytes], size : 1 .. BlockSize])
  /\ wcache_blocks \in Nat /\ wcache_blocks * BlockSize < MaxLog + BlockSize
  /\ Len(wcache) <= wcache_blocks
  /\ rcache \subseteq Ids
  /\ {wlock, rlock, dlock} \subseteq {"none", "caller", "worker"}
  /\ pc \in {"closed", "idle", "append", "copy", "read", "rwait", "rwoken", "lookup",
             "again", "answer", "cancel", "join", "crash"}
  /\ off \in 0 .. MaxLog /\ len \in 0 .. MaxLog + MaxPast
  /\ worker \in {"none", "start", "started", "top", "wait", "woken", "lock", "round",
                 "ended", "dead"}
  /\ current \in 0 .. wcache_blocks + 1
  /\ {cancelled, dangling} \subseteq BOOLEAN
  /\ device \in [Ids -> [Place -> Bytes]]
  /\ buf \in Seq(Bytes)
  /\ log \in 0 .. MaxLogs /\ faults \in 0 .. MaxFaults
  /\ split \subseteq (1 .. MaxLogs) \X (0 .. MaxLog - 1) \X (0 .. MaxLog - 1)
  /\ flushed \in 0 .. MaxLog /\ fresh \in 0 .. MaxLog /\ overtaken \in BOOLEAN

Using == pc \notin {"closed", "cancel", "join", "crash"}

\* Places of the log whose bytes a list of blocks, or the device, has.
At(blocks(_), p) == blocks(p \div BlockSize)[(p % BlockSize) + 1]
Cached(i)   == wcache[i + 1].data
OnDevice(i) == IF i \in Ids THEN device[i] ELSE Zeros

\* The byte that an append put in place p of the l-th log: the caller's, but in the
\* part of an append behind a block's end, where it is that of a place before.
Written(l, p) ==
  LET from == {q \in 0 .. p : <<l, p, q>> \in split}
  IN IF from = {} THEN {Byte(l, p)} ELSE {Byte(l, q) : q \in from}

(* The list of blocks is the log: consecutive ids, only the last block not *)
(* full, every byte in its place, or, behind the end of a block, the byte  *)
(* that logfs.c:205 copies instead of it, and the size, which the worker   *)
(* counts anew in each round, is that of the log.                          *)
CacheHoldsLog ==
  Using =>
    /\ Len(wcache) = wcache_blocks
    /\ \A i \in DOMAIN wcache : wcache[i].id = i - 1
    /\ \A i \in DOMAIN wcache : /\ wcache[i].size <= BlockSize
                                /\ i < Len(wcache) => wcache[i].size = BlockSize
    /\ told = IF wcache = <<>> THEN 0
              ELSE ((Len(wcache) - 1) * BlockSize) + Last(wcache).size
    /\ \A p \in 0 .. told - 1 : At(Cached, p) \in Written(log, p)
    /\ worker \notin {"round", "dead"} => size = told

(* When a round of the worker ends, the device has all that was appended    *)
(* before, also what an earlier round or a lost signal had left out, and it *)
(* keeps it through later appends, rounds and faults, until the close.      *)
RoundWritesAll ==
  Using =>
    /\ \A p \in 0 .. flushed - 1 : At(OnDevice, p) = At(Cached, p)
    /\ worker = "ended" => flushed = told

(* A read delivers, in every place it was asked for, the byte appended      *)
(* there (Written: behind a block's end the wrong one), if a round had      *)
(* ended since the append.  What it answers 0 with otherwise is named:      *)
(*   - no round had: what the device had, which is nothing, the byte of an  *)
(*     earlier log, or freed memory that a close let the worker write;      *)
(*   - behind the block that the range begins in: what is there in memory;  *)
(*   - the device failed: zeros, or the caller's buffer as it was.          *)
ReadsAreInPlace ==
  pc = "answer" => \A k \in DOMAIN buf : LET p == off + k - 1 IN
     \/ buf[k] \in Written(log, p)
     \/ p >= fresh /\ \/ buf[k] = 0
                      \/ \E l \in 1 .. log - 1 : buf[k] \in Written(l, p)
                      \/ buf[k] = Freed /\ overtaken
     \/ buf[k] = Garbage /\ p \div BlockSize > off \div BlockSize
     \/ buf[k] \in {0, Untouched} /\ faults > 0

(* The list does not change under the worker's hands while it writes: it    *)
(* has the write mutex.  The read mutex it can lose, to a reader that       *)
(* unlocks once more after an error of the device (logfs.c:300).            *)
RoundIsAlone ==
  worker \in {"lock", "round"} => /\ wlock = "worker"
                                  /\ worker = "round" /\ rlock # "worker" => faults > 0

(* A log that was closed leaves the mutexes of its caches free, wherever    *)
(* the worker was when it was cancelled: close unlocks them for the dead.   *)
(* Two cases leave a mutex locked for ever: an open whose thread does not   *)
(* start, both of them, with the caller (logfs.c:79-86), and a worker       *)
(* cancelled in pwrite, that of the device, which happens only if close had *)
(* freed the list under it (logfs.c:143-147).                               *)
MutexesComeBack ==
  /\ pc = "closed" => \/ wlock = "none" /\ rlock = "none"
                      \/ wlock = "caller" /\ rlock = "caller" /\ faults > 0
  /\ dlock = "worker" => overtaken
  /\ dlock # "caller"

(* The worker has the mutexes when it needs them, and when it is gone no    *)
(* more of them stay with it than MutexesComeBack says.                     *)
MutexDiscipline == RoundIsAlone /\ MutexesComeBack

-----------------------------------------------------------------------------
\* The worker has gone with the mutexes, or a log has lost that of the device.
Stuck == pc = "crash" \/ worker = "dead" \/ dlock = "worker"

(* An append gets the mutex from the worker's rounds and returns, unless    *)
(* the worker died in a write.                                              *)
AppendGetsThrough == pc = "append" ~> pc = "idle" \/ Stuck

(* The wait for data that is not there yet has no predicate (logfs.c:265),  *)
(* but it ends if the worker has a round before it when it begins.          *)
SignalledReadReturns ==
  pc = "rwait" /\ worker \in {"woken", "lock", "round"} ~> pc # "rwait" \/ Stuck

(* An append that meets the worker waiting brings the log to the device.    *)
AppendReachesDevice ==
  pc = "copy" /\ len = 0 /\ worker = "wait"
    ~> (\A p \in 0 .. told - 1 : At(OnDevice, p) \in Written(log, p)) \/ ~Using \/ Stuck

(* A close ends: the worker is met by the cancellation wherever it is.      *)
CloseReturns == pc = "cancel" ~> pc \in {"closed", "crash"} \/ dlock = "worker"

(* Every call returns that the code lets return.                            *)
CallsReturn == AppendGetsThrough /\ SignalledReadReturns /\ CloseReturns
=============================================================================
