# Verification of the CS 238P projects

TLA+ models of the five C programs in `src/` (an operating-systems course: a
just-in-time expression compiler, a user-thread scheduler, a persistent tree, a
log-structured key-value store and a system monitor), model-checked with TLC,
with theorems proved by TLAPS.

The programs share no code at run time. Within each the parts call each other
directly; the only real concurrency is the worker thread of the log (p4), the
alarm signal of the scheduler (p2) and the child processes of the compiler (p1).

## 1. Inventory

| Part | State it keeps | Operations | What is hard | What makes it correct |
|---|---|---|---|---|
| p4 `logfs.c` | circular write buffer (head, tail, filled), offset on the device, direct-mapped read cache, mutex, three conditions | open, close, read, append; worker thread | client and worker interleave; the buffer is padded to a block, flushed, and the padding taken back; the last block is rewritten; waits, lost and spurious wakeups; device errors; wrap-around | every byte accepted is read back as it was; no access races; flush means durable; calls return |
| p4 `device.c` | file and geometry | read, write one range | ranges at the end of the device, short transfers | ranges stay on the device |
| p4 `index.c` | open-addressing table, size, capacity | lookup, update (grows) | growth moves all keys; probing; the reserved key 0; word overflow | what was put is found again, nothing else changes |
| p4 `kvraw.c` | log and its size | lookup, append a record | opening that fails half way | an offset names one whole record |
| p4 `kvdb.c` | log, index, counters | open, close, insert, update, replace, remove, lookup | chains of records with one hash across keys; removal records; errors between the steps of a call | a dictionary; counters that agree with it |
| p2 `scheduler.c` | ring of threads, current one, jump buffers, armed alarm | create, execute, yield | SIGALRM at any instruction; freeing while the ring still links; the last thread | every thread gets its turns and ends; nothing freed is used |
| p3 `scm.c` | a mapped file: bytes used, blocks | open, close, malloc, strdup, free | persistence, freeing in any order, running out | live blocks are disjoint and in the region |
| p3 `avl.c` | tree and counters in that region | insert, remove, exists, traverse | rotations, removal, an allocation failing in the middle | ordered, balanced, counters agree |
| p3 `shell.c`, `main.c` | rows of the history in one block of memory, cursor, counted length, row recalled | one for each key; newline enters the line and calls `shell_fnc` | strings that fill their row, a length counted by hand, an argument trimmed in the history | it behaves like a line editor; past lines stay and mean the same when recalled |
| p1 `lexer.c`, `parser.c` | token and position; tree | parse | error paths, memory that runs out, the grammar | the tree is that of the text, ids are unique |
| p1 `jitc.c`, `main.c` | child process, `out.c` and `out.so` on disk | compile, open, lookup, call, delete | fork, exec and wait, any of which fails; kills; files left by an earlier run | what is printed is the value of the text |
| p4_alt `logfs.c` | list of blocks with all of the log, list of blocks read, three static mutexes, two conditions | open, close, read, append; worker thread | waits without predicates, close that frees under the worker, mutexes that outlive a log, double unlock | the list is the log, a round brings all of it to the device, what a read may answer with is known, a closed log leaves its lists' mutexes free, calls return where a signal reaches the worker |
| p5 `main.c` | previous sample, open descriptors, `done` | a turn a second, reading `/proc`; SIGINT | counters of 32 bits that wrap, failed reads, no time between samples, early returns, a signal anywhere | a usage printed as a number is that of the time since the last sample, no descriptor is lost while nothing is missing, the signal ends it |

Copies of `system.c` and `term.c`, demos, tests and build files keep no state of
their own. `PROJECT.json` lists every part with its status, and under "hazards"
every place where the code can go wrong in a way that a test would hardly reach.

## 2. Modules

| Module | Models |
|---|---|
| `AppendLog` | what `logfs.h` promises: a log of bytes, calls one at a time |
| `LogFS` | `p4/logfs.c` on `p4/device.c`: client and worker |
| `MCLogFS` | the bound on reads that keeps TLC's runs of `LogFS` small |
| `LogFSProofs` | the theorems about `LogFS`: types and data race; bytes, cache and refinement |
| `HashIndex`, `IndexCalls` | `p4/index.c` as functions on a table; as a machine of calls |
| `KVStore` | what `kvdb.h` promises: a dictionary |
| `KVDB`, `MCKVDB` | `p4/kvdb.c` and `p4/kvraw.c` over `HashIndex`; three keys |
| `DictionaryProofs` | the theorems about `IndexCalls` and `KVDB` |
| `Scheduler`, `SchedulerProofs` | `p2/scheduler.c`; the theorems about it |
| `SCM` | the allocator of `p3/scm.c` as functions |
| `WordBag` | what `avl.h` promises: words with counts |
| `WordTree`, `MCWordTree`, `WordTreeProofs` | `p3/avl.c` over `SCM`; the lengths of the words; the theorems |
| `Commands` | the command language of `p3/main.c`: from a line to a command and its argument |
| `LineEditor` | what the shell promises: a line, a cursor, the lines before |
| `Shell`, `MCShell`, `ShellProofs` | `p3/shell.c` with `shell_fnc`, byte by byte; a table of commands; the theorems |
| `Parser` | `p1/lexer.c`, `p1/parser.c` and the C code of `p1/main.c` as functions, beside the grammar |
| `Calculator`, `MCCalculator` | `p1/main.c` and `p1/jitc.c` over `Parser`: processes and files; the texts |
| `CalculatorProofs` | the theorems about the parser, the generated C and the runs |
| `AltLog`, `AltLogProofs` | `p4/p4_alt/logfs.c`: caller and worker; the theorems |
| `Monitor`, `MonitorProofs` | `p5/main.c`; the theorems |

Where a definition stands next to one of nearly the same name that nothing uses,
the latter is a wrong variant of it (a dropped guard, a swapped order, a reset
that is missing): "mutants" in `PROJECT.json` says which property it breaks.

### LogFS

The state is that of `struct logfs`, under the same names, the place where each
of the two threads is (`client`, `worker`), the holder of the mutex, and the
locals of the calls. An action is the code between two points where the other
thread can run: taking the mutex, waiting, joining. While a thread holds the
mutex over a loop an iteration is an action, because the order of the
iterations shows in the properties. Appending is byte by byte, as in the code. A
byte is represented by its position in the log: the code never looks at one,
and a byte out of place shows at once. The function `logfs_read` releases the
mutex after its flush and then uses cache and device without it: the model does
the same, and `RaceFree` says why that is no race. The environment may fail a
write, fail a read, cut a read short, fail the open or an allocation in it, or wake
a wait spuriously (`Faults`, `MaxSpurious`). An open that fails answers NULL (`OpenFails`); what
`malloc` returned for the write buffer and for the slots of the cache is not looked at, and
the process ends when it is written through (`OpenCrashes`).

Offsets are `int`. `AsInt` is what a sum or product in the code becomes, and `MaxInt`,
the largest `int`, is a constant. On a device of more than 2 GiB the offset becomes
negative, the worker's next write is refused by the device's assertion, and so is
a read from such a place: `WorkerAborts`, `ReadAborts`.

### HashIndex, IndexCalls, KVDB

One process and no thread: a call is an action. `HashIndex` has the table with
its probes, its claim of a slot and its growth; hashes are words of `WordSize`
values. `KVDB` keeps the log as a sequence of records, which is how `kvraw.c`
uses it, and `LogFS` against `AppendLog` is why it may. Each call can fail where
the code can fail: growing the table, allocating, reading any record of the
chain. `result` has the call with what it answered, so that the refinement
compares both.

### Scheduler

`setjmp` and `longjmp` make the control flow a machine by themselves: `pc` is
the place in `scheduler_execute` (`round`, `pick`, `walk`, `switch`, `destroy`),
in a user thread (`run`) or in the caller (`main`). A jump buffer is where it
leads: to the place where its thread yielded, or to somewhere else. The alarm can
interrupt whatever runs while it is armed. The program is built with `-ansi`,
where `signal` resets the handler when it is delivered and does not block the
signal; the handler is set again in each round, before the alarm is.

The scheduler does not provide for a failed allocation, an execution with no thread
or with one left over, an alarm inside the scheduler or in the caller. The model
takes these steps too, to the crash that they end in, and notes in the history
variable `odd` that one was taken. `FreesTheDead` holds even so; the other
properties are about behaviours, or the part of a behaviour, without.

Threads are created by the caller or by a running thread (`Create`). An alarm that
finds a thread in `scheduler_create` outside `malloc` and before line 118 is that of
`Preempt`, with the creation after it; inside `malloc`, or between the assignments
that link the new thread, it leaves a heap or a list that is half made, and there the
model ends (`AlarmInCreate`): no property is claimed of what follows. `DestroyOne`
is one iteration of `destroy`, and `AlarmInDestroy` the alarm in the middle of it, after the
head has moved and before the thread is forgotten as the current one. The thread is
then in no list, is never freed, and is resumed through a buffer that leads
into `destroy`, or followed by way of a NULL.

### SCM, WordTree

The program is sequential: a call is an action. A tree is a value, a node with its
subtrees, and the rotations, `update` and `remove_node` are functions on it; what
recurses is a function on `Tree`, the trees of at most `MaxItems` levels, which is
every tree the bound on insertions lets arise (`TypeOK` says so). Each
node carries the two blocks it lives in, and `used` is the allocator's count of
bytes. Freeing changes no byte of a block, so the tree is good until `scm_malloc`
gives away memory in use, which `Misplaced` detects; what happens then is
undefined and `handle` says so. So does the NULL word that a failed copy leaves in
`remove_node`. Words are numbers in the order of `strcmp`; the sizes are those of a
64-bit machine. The file is the memory, so closing and opening only matter for
what is decided then: whether there is a state block already.

The mapping is shared, so a process that is killed in a call leaves whatever it has
written so far. `UpdateSteps` and `RemoveSteps` are the trees that the root leads to
on the way, in the order in which the source writes (a compiler may reorder the
stores; the model takes them as they are written). The code has no recovery, so
nothing follows after `died` but the question what a search still finds.

### Commands, LineEditor, Shell

`history` is the block of `H` rows of `N` bytes, without separators, as `struct state`
has it: a line that fills its row is ended by whatever the next row begins with.
Each key is an action on those bytes, with `strncpy`, `memmove` and the NUL that each
of them writes or does not. A write past the last row goes to the saved terminal mode
and leaves the model (`mode = "overrun"`). `LineEditor` knows no bytes: a text, a
cursor, a sequence of past lines. The refinement reads the text from memory, cuts the
past lines out of their rows, and holds until an overrun. A past line need not be
kept as it was typed, because `shell_fnc` trims the argument where it stands: it must
have the same `Meaning`. The table of commands is a constant, and `MCShell` has a
face of each kind, in two letters.

### Parser, Calculator

`Parsed` follows the functions of `parser.c` one by one, with the ids that they count,
the memory that may run out at any node, and the messages of an error, one of which
is looked up past the end of its table. `Derives` is the grammar of the comments, and
shares nothing with it. `Reflect` writes the statements of the C function, and
`Meaning` is what a C compiler makes of them. `Calculator` has a process for each run
and for the child it forks. A child that cannot execute the compiler returns from
`jitc_compile` and goes on as its parent does, so the steps after that belong to both.
Anything may fail, be killed, or outlive its run into the next.

The parser, the grammar and the code generator are recursive functions, not operators, so that they
can be proved about: a call of the parser is a record of `Calls`, with the rule, the parser it
is made on, and the operands on its left. `MaxText` bounds the length of a text and with it
the domains of these functions; it is any number in the proofs.

### AltLog

The two threads as in `LogFS`, but an action is the code between two points where
the *mutex* changes hands, with three mutexes. Unlocking is modelled as Linux does it,
whoever holds the mutex, because `logfs_read` unlocks twice after an error
and `logfs_close` unlocks for a dead worker. The conditions have no predicate:
`Signalled` wakes only a worker that waits. A byte is its place in its log, and
each append keeps track of the places that were copied from the wrong place of
the caller's buffer (`split`).

An open whose thread does not start keeps both mutexes of the caches for ever. A close
frees the lists while the worker may be writing them (`WritesFreed`): it may crash,
fail, or write freed bytes to any block of the device, and the history variable
`overtaken` says that this was possible. A read past the device's end ends the process
in the assertion of `device_read` (`ReadAborts`). `flushed` and `fresh` are history too:
how much of the log a round has brought to the device, and how much of it had
been when the read began to copy.

### Monitor

A step is a function of a turn. The counters of `/proc/stat` are those of the kernel
modulo `W`; `passed` has what really passed since the last sample. Files matter as
the number left open: each function that returns before `fclose` adds one. SIGINT
arrives between any two steps; the program is built with `-ansi`, where the
handler serves one signal. Its `printf` may meet `main` in the middle of another
(`Printing`), which C leaves undefined, and the model lets the process crash there; it has no
step for a hang, because the lock of the C library's `stdout` is one a thread can take twice.

`cpu_util` prints what it computed, or -1 or 0 when `/proc/stat` cannot be opened, scanned
or searched; the sample is then kept, so the time goes into the next usage. When no time
has passed since the sample it divides zero by zero, and prints `nan`. A disk whose name
has 20 characters or more overruns `dev_name` (line 186), and the model ends there.

## 3. Runs

| Run | Bounds | Shows |
|---|---|---|
| `LogFS_log` | 2-byte blocks, write buffer of 3 blocks, device of 5, cache of 2, 8 bytes in appends of up to 7, write and read errors | nothing is lost, cache and device agree, a flush is durable and stays so, the log implements `AppendLog`; reads and closes return, appends do if there is room |
| `LogFS_hostile` | write buffer of 2 blocks, device of 3, one slot; short reads, failed opens and allocations too, one spurious wakeup, offsets up to 3 | every copy and every transfer stays in its buffer and on the device, the offset within it, in `int`, and negative by no more than the spurious wakeups; no data race; the device's assertion fails only on a full device, past the largest `int`, or after a spurious wakeup |
| `LogFS_append_hangs` | as `LogFS_log`, no error | violated: an append that finds the buffer full never returns |
| `AltLog_rounds` | 2-byte blocks, 2 on the device, logs of up to 5 bytes, two of them, appends of 2 and 3 bytes, reads of 2, one fault | the list is the log, a round writes all of it; a read answers with the bytes appended if a round had ended since, and what it answers with otherwise is named; a closed log leaves the mutexes of its lists free but after a failed open, and that of the device but when the close overtook a write; calls return |
| `Index_probe` | 6 hashes, growths to 1, 3 and 6 slots, failures of malloc | keys are found, EXIT not reached; every hash leads to what was last stored under it, through growth and refusals |
| `KVDB_dictionary` | 3 keys (2 collide), 2 values, 4 changes, every failure | a dictionary, whatever fails below; chains and counters account for every record |
| `Scheduler_rounds` | 4 threads in any batches, created by the caller or a thread | only dead threads are freed, the ring is whole, no undefined behaviour, at most one thread is left, no starvation |
| `WordTree_bag` | 5 words, 5 insertions not removed again, room for four | ordered and balanced, counters agree, a bag of words but for insertions that find no memory and answer 0 (`LostUnheard`), until memory in use is given away or a NULL word is compared; killed anywhere, it leaves an ordered tree |
| `WordTree_overlap` | the same | violated: after a removal the next insertion overwrites a node in use |
| `Shell_keys` | 3 rows of 3 characters, two letters and the blank, every sequence of keys | a line editor; past lines are kept; only the last row is overrun |
| `Calculator_runs` | all texts of up to 5 characters and some longer, a second run, 2 failures or kills | the parser accepts the grammar, the C means the text, a run in a clean directory prints its own value or nothing; runs end |
| `Monitor_turns` | counters modulo 4, up to 5 ticks in a turn, 2 descriptors | a usage printed as a number is the true one and `nan` means that no time passed; no descriptor is lost while all devices are there; SIGINT ends it |

A run with an expected violation checks one property, quoted from a comment or an
assertion of the code, and has an entry under "findings".

Why the bounds are enough. `LogFS` compares positions modulo the buffer, the
block and the cache: two or three blocks in the buffer make it wrap and fill, a log
longer than the buffer makes it wrap again with every phase of the last block, two
cache slots and more than two blocks make slots collide. In `LogFS_hostile` the offset
overflows (`MaxInt` is 3, two blocks) before the device of three blocks is full; the
theorem is about both orders. `HashIndex` grows to 1, 3
and 6 slots (`GrowBase` is 97 in the code), so that keys collide before and after a
growth. `KVDB` needs two keys of one hash, one of another, and a removal between two
changes. `Scheduler` needs a thread before, at and after the current one, and one
batch after another. `WordTree` has trees of four nodes, enough for single and double
rotations in insertion and removal, and for a successor with and without a child;
one word never fits, so that nodes leak, and one is long, so that wrong frees bring
the count of bytes to zero and below. `AltLog` needs an append over a block end, a
round before, in and after an append, and a second log that meets the first one's
mutexes and bytes. `Shell` needs a row that is filled, one that is not, and one that is
recalled from behind the other, and three rows so that the row filled last is not
the last. `Calculator` needs each pair of operators with and without parentheses and
each place where one can be missing; a second run is enough to meet what the first
left, since a run leaves files only, and two failures are enough for one in each run or
both in one. `Monitor` needs a turn in which each counter, and only their sum, passes the
end, and fewer descriptors than turns. The theorems hold without the bounds.

Fairness. `LogFS`: both threads keep running, as the operating system gives them
time; the client need not call anything. `Scheduler`: the scheduler's code runs
on and an armed alarm goes off in the end; a user thread need not yield or
return. `AltLog`: as `LogFS`; and the worker gets the read mutex in the end although
the caller takes it again and again, because `logfs_read` sleeps before it does
(`us_sleep`, `p4_alt/logfs.c:256`), which is strong fairness of `LocksR`. `Calculator`:
the operating system runs every process on; starting a run, failures and kills need
not happen. `Monitor`: `main` runs on; the kernel, the devices and the user need not do
anything. The machines of `IndexCalls`, `KVDB`, `WordTree` and `Shell` have no liveness
of their own: a call, or a key, is one action.

The liveness of `LogFS` is stated up to `WorkerDied`: after a write error the
worker ends with the mutex held (`logfs.c:106`), and the client waits for ever. That of `AltLog` is stated up to
`Stuck`, for the same reason.

Deadlock is checked except where the system may stop: in the runs that say
`CHECK_DEADLOCK FALSE` the process may have crashed, wait for ever, or have
reached a bound.

## 4. Proofs

`LogFSProofs` proves `StaysInBounds` and `NoDataRace` for every block size, buffer,
cache, device, log and width of `int`, under every fault. `InBounds` is not inductive: that a
read's block is on the device, or that a padded head is in the buffer, depends on where
the threads are. `IInv` adds: what the call's arguments are (`CallInv`), how head,
tail and filled relate, with tail on a block boundary (`HeadInv`), what a read
has left (`ReadInv`), and that no full block is buffered outside appends and flushes
once a flush has drained the buffer (`QuietInv`). `RaceFree` follows from `QuietInv`.
The proof has a step for each action; the arithmetic of blocks is in lemmas on `%`
of their own, because the SMT solver does not take `%` by a variable. Three other modules
have those of them that they need.

It also proves what the log is for, for the same constants: that nothing is
lost, that a flush is durable, that the cache is coherent, that the worker aborts only
at the end of the device, and that `LogFS` implements `AppendLog`. The idea of the
invariant: the place of a byte in the buffer is that of its position (`Place`), written
or not, so the buffer always holds the last bytes of the log (`BufferInv`), and the
worker writes what belongs there, also when it writes a block again. `PlaceInv` ties
head, tail and offset to positions: a flush pads by exactly what is missing to a block
(`PadUnique`), so what it takes back is the begun block (`UndoPlace`). That this
happens only when the buffer is drained is a matter of threads: a flush that was woken
gets the mutex only from a worker that found less than a block, which is then none
(`DrainedWhenWoken`, `ThreadInv`). `FlushInv`, `CacheInv` and `AnswerInv` carry it to
the device, the cache and the buffer of a read. The step lemmas assume of a step only
that it is no spurious wakeup; the theorems assume `MaxSpurious = 0` and, for cache and
refinement, no short reads, because the code is wrong otherwise (section 5).
`AbortsOnlyAtTheEnd` assumes nothing: as long as no wakeup was spurious, the rest holds.

`SchedulerProofs` proves every safety property of `Scheduler_rounds` for any number
of threads. The idea of the invariant: threads are freed in the order in which
they were created, so the list is always an interval of them, each linked to the
next one, and all before it have ended (`LooseInv`, whatever happens); until
something odd happens all before it are freed (`ListInv`), the last is
linked to the first, the threads that a walk has passed have ended, and every
running thread but the current one has a good jump buffer (`RoundInv`); and when
the walk comes round, all but at most one have ended (`EndInv`).

`MonitorProofs` proves the safety properties of `Monitor_turns` for every width of the
counters and every limit of descriptors. `CountInv` ties the counters to the sample:
each is the sample plus what passed, modulo `W`, so that the difference modulo `W`
is what passed if that is less than `W`, however often the counter, the sum or both
have wrapped. The arithmetic is two lemmas on `%`, `Difference` and `ModAdd`.

`ShellProofs` proves for every size of the history and every table of commands that
the cursor and the length stay in the row, that the length counted is that of the
string, that past lines stay as they are, and that only the last row is overrun.
`TypeOK` is not inductive, because a string in one row may be ended by the next. The
invariant says that all rows behind the line edited are NUL (part of
`LengthIsCounted`), and `Tidy` says of a memory that a write to the row keeps that.
`IsLength` characterises `StrLen` without its minimum: no NUL before, one there. Each
key is then a `Poke` of a string with its NUL at a place in the row. On the same
invariant rests `ShellIsEditor`, the refinement of `LineEditor`: each key maps to the
editor's step on the text read from memory, a line recalled is the one cut out of its
row, and a line that `shell_fnc` trims where it stands keeps its meaning. The last
point needs `TableAssumption`, which the table of `p3/main.c` satisfies: no face begins
with a later one, so the first that matches is the only one that can.

`DictionaryProofs` proves that the index is sound and that `KVDB` is the dictionary of
`KVStore`, for every word size, growth, set of keys, hash function and set of faults.
There are three layers. A table is `Sound` if the size counts the slots in use,
probing for the key of a slot comes to that slot, and no other slot has the key; `At`
is what a key leads to, and claiming a slot, storing through one and the growth
(`RehashedSound`, by induction along the slots that are moved) keep the table
sound and change `At` for the new key only. A log is `Linked` if each record names
the one before it in its slot; the chain from the newest record is then the slot's
records, and the first of them with a key is the newest with that key (`ChainIs`,
`FindingIs`: a least counterexample along the log). `DictInv` joins the two, the index
leads to the newest record of each slot, with the counters as cardinalities of sets of
records. `TableStaysSound` and `StoresStayFound` hold without condition. The others
assume `RoomFor`: for every key in use, the key plus the capacity the table can
reach for that many keys stays within the words. Without it the probes wrap and can
miss free slots, and `update` calls EXIT (`index.c:95`); the constants of the runs
satisfy it, and so do 64-bit hashes that do not lie within a table's length of 2^64.

`WordTreeProofs` proves every property of `WordTree_bag` for any words and lengths,
any size of file and node, and any bound on the insertions. The inductive
invariant is `TypeOK` with, until a death, `Sound` of the root (order, balance and
depths) and the two counters. `Sound` alone is not kept by `update`, which compares words
and not depths to choose a rotation: `OneMore` adds that a subtree which became deeper
leans to the side of the new word, so that one rotation is the right one. For
`remove_node` it is enough that at most one level is lost (`OneLess`). `LeaningLeft` and
`LeaningRight` do the rotations once, for any two subtrees that differ by two levels.
`Holds` carries what is in the tree, word by word, to the bag. That an insertion
stays in `Tree` follows from the counter: a balanced tree with that many levels
has at least as many copies (`DepthBound`). A tree left by a death is `Weak`, in order
with one word perhaps twice, and shows no word that the tree before or after did not
(`AtMost`); `Around` and `AroundNext` carry that up from the place of the last write.
Induction is over the levels, as a set of numbers without a least counterexample
(`Upwards`, `OverTrees`), which needs no theorem with an operator parameter. The
theorems assume `SCMAssumption` and `TreeAssumption` only; `clobbered` and `crashed`
(section 5) are in the model, and the properties hold up to them.

`AltLogProofs` proves the four invariants of `AltLog_rounds` for every block size,
device, length of log and number of faults. None is inductive alone. `LockInv` says
who holds which mutex where; from it alone follows that no append copies while
the worker is in a round, so that the size which a round counts from zero is never
the one an append divides by the block size. `ListInv` ties the list to the number of
bytes told, whence the block with room is the one the code picks (`RoomIs`), `CallInv` the calls to what they
were made with, `CloseInv` a worker that writes freed memory to the close, `SizeInv`
has the size of a round that is under way, and `ByteInv` each byte of the list in
its place or the one that a split append put there (`SplitInv`). `RoundInv` is the part of the list that
a round has come past, `FlushInv` what the rounds before have brought to the device and
nothing takes away again, `DeviceInv` follows the bytes to the device, where they outlive
their log, and `BufInv` into the buffer of a read. `Frames` and `Moves` say once which
action touches what and leads where, so that the proof of a part treats only the
actions that matter to it.

`CalculatorProofs` proves the three safety properties of `Calculator_runs` for texts of
any length, any number of runs in one directory, any amount of memory and any number of
failures and kills. It has four parts.

- The recursive functions. The levels of trees, the calls of the parser, the spans of the
  grammar, the nodes and statements of a tree are each what their equation says
  (`DagsAre`, `ParsedIs`, `DerivesIs`), by induction on a weight that falls from an argument to
  those it is computed from: for a call, six times the tokens left, plus a rank of its rule.
  `Advances` bounds what a call may return by what it has read, so that the
  next call has less to do and the tree is in `Dag`.
- Soundness (`Sound`): a tree that a function returns is a term of the grammar for exactly the
  tokens read (`ReadsTo`, and `ReadsOn` for the loops, whose left operand comes from before), and its
  ids are above those of its operands and within those given out (`Whole`, `Within`).
  Completeness (`Completes`): where the grammar gives a term for a span, and what comes after
  cannot continue it, the call gets it (`Gets`, `GoesOn`); the left recursion of the grammar meets
  the loop of the code by cutting a span at its operators (`DerivesChain`). Together: a
  text has at most one term, and the parser finds it (`ParseIsRight`).
- The code (`CodeIsRight`): in a `Whole` tree each operand has an id that was declared before
  and no id comes twice, so what a variable stands for never changes (`Adds`, `TreeAdds`).
- The runs. `PlacesInv` says where the processes are and what each has: of earlier runs only
  children are left, a process has a library exactly between loading and deleting. On
  it rests `MeaningInv`: in a clean run there is nobody but the main process and its child, no
  library while the child lives, and what is in `out.c`, compiled, linked, loaded and printed
  is of the text. `Progress` is the part that a crash without a failure would contradict: with
  nothing failing the library is there when it is loaded.

`ParserFollowsGrammar` alone needs the runs too: that a run which ended as "crashed" with nothing
failing did so in the parser is `Progress`.

Assumed are the named assumptions on the constants, and what a theorem names: no
spurious wakeup, no short read, `RoomFor`. Every invariant that a run checks is
a theorem. Left to TLC is liveness, which needs fairness and ENABLED (`Calculator`, `LogFS`,
`AltLog`, `Scheduler`, `Monitor`).

## 5. Known disagreements

Two are findings with a run. The others were met while modelling; the models take
each step, and the properties are stated as far as they allow.

- `p4/logfs.c:126`: a log that has filled the device aborts in the next flush, which
  pads by a whole block (`device.c:143`). `AbortsOnlyWhenFull` says that nothing less does.
- `p4/logfs.c:284`: a short read fills a part of a slot and leaves its old valid flag:
  the slot may answer later with a mixture.
- `p4/logfs.c:131`: the wait has no predicate; after a spurious wakeup the flush takes
  back a block that was not written, and the offset may become negative.
- `p4/logfs.c:45, 112, 258`: offsets are `int`, and on a device of more than 2 GiB the offset
  becomes negative at 2^31: the next write fails the device's assertion.
- `p4/logfs.c:171, 184`: what `malloc` returned is not looked at.
- `p4/logfs.c:104`: after a write error the worker ends with the mutex held.
- `p4/kvraw.c:67`: opening that fails hands NULL to `logfs_close`, which reads through
  it, although `logfs.c:213` allows NULL.
- `p4/index.c:83`: `key + i` wraps at the end of the words, and the probes then miss slots.
- `p2/scheduler.c:197`: if a thread yields when all others have ended,
  `scheduler_execute` returns and the thread never ends (comment: line 134).
- `p2/scheduler.c:145`: an alarm armed for the last thread goes off after the return.
- `p2/scheduler.c:83, 246, 260`: no provision for a failed malloc, for no thread, or for
  a second execution with a thread left over. An alarm in `scheduler_create`, called by a
  thread (line 118), leaves the list half linked. Line 219 sets the stack pointer to the
  low end of the stack.
- `p3/scm.c:256`: freeing subtracts from the bytes in use, whichever block it is.
- `p3/avl.c:278, 286`: removing a node frees the blocks of its child; a failed copy
  leaves a NULL word.
- `p3/avl.c:216-222`: an insertion into a tree that has words answers 0 also when there was
  no memory for the node, although `p3/main.c:34, 73` print an error on anything else: the word
  is lost unheard. `WordBag` has such an insertion answer -1, and `RefinesWordBag`
  excepts these by name (`LostUnheard`).
- `p3/shell.c:158, 191`: the last row is overrun by one NUL of a full line, and the
  next row after the last is the saved terminal mode.
- `p3/shell.c`: the end of the input is stored as a letter; not in the model.
- `p1/parser.c:237`: a message is looked up past the end of its table.
- `p1/jitc.c:50, 60`: a child that cannot execute returns into the caller's code;
  the compiler's failure is printed and ignored, and the library of an earlier run is loaded;
  so is what the compiler of a killed run writes late (line 53).
- `p1/main.c:29`: numbers are written with six digits, and infinity as `inf`.
- `p4/p4_alt/logfs.c:206`: the second part of an append over a block end is copied from
  the beginning of the caller's buffer (`split`).
- `p4/p4_alt/logfs.c:265, 329`: a signal that comes before its wait is lost: an append's bytes
  stay away from the device until the next one, and a read waits for ever.
- `p4/p4_alt/logfs.c:238-302`: "0 on success, otherwise error", but a read answers 0 with what
  it has: stale or never written bytes of the device when no round has ended since the append
  (line 262), what lies behind the block in memory (296), and zeros, or the caller's buffer
  untouched, when the device failed (273-293). A read past the device's end, which
  the list allows, ends the process (`p4/device.c:125`).
- `p4/p4_alt/logfs.c:143`: the lists are freed before the worker is cancelled, so that freed
  memory can reach the device, and a worker cancelled in `pwrite` keeps the mutex of
  the device: every later log waits for it.
- `p4/p4_alt/logfs.c:79-86, 341`: an open whose thread does not start, and a worker whose
  write fails, keep both mutexes of the caches.
- `p4/p4_alt/logfs.c:300`: the read mutex is unlocked twice after an error.
- `p5/main.c:42-60, 83`: -1 and 0 are printed as a usage when the counters cannot be read, and
  `nan` when no time has passed.
- `p5/main.c:18`: the handler calls `printf`.
- `p5/main.c:123-199`: three functions do not close their file on one of their paths (line 152,
  once a turn while the device is away, until no descriptor is left), and `disk_util` does not look
  at what `fopen` returned. Line 186 overruns `dev_name` with a long name.
- `p5/main.c:143-147`: the labels of bytes and packets do not fit the fields, and
  `strstr` finds `eth0` in `veth0` as well; not in the model.

## 6. Not modelled

See "components" in `PROJECT.json`. Abstracted in the modelled parts: contents of
bytes, keys and values; the digits of numbers; the byte layout of records and of
the device file; tracing and drawing; `p2`'s stacks; what the monitor prints besides the
usage of the CPU. Errors of `open`, `mmap` and `ftruncate` in `scm_open` end it before
anything is changed. The other programs of `p4_alt` have nothing of their own: its
`index.c` is that of `p4`, its `kvdb.c` does not compile, and it has no `device.c`.
The demos and tests drive the parts that are modelled.

Two runs of the calculator at the same time in one directory share `out.c` and `out.so`;
runs of the model follow each other, and only what an earlier one left running goes on
beside the next.

## 7. Plan

1. Done: the log, the index, the dictionary, the scheduler, the allocator and the tree
   with a death in any call, the other log, the shell, the calculator, the monitor.
2. Done: the proofs about both logs, the index and the dictionary, the scheduler, the
   tree, the shell, the calculator and the monitor, with the refinements of `AppendLog`,
   `KVStore`, `WordBag` and `LineEditor`.
3. Left: what happens to the tree after a death, when the program goes on with it; two
   calculators at once; the short pieces of a record that `kvraw.c` appends.
