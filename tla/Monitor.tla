------------------------------- MODULE Monitor -------------------------------
(* The monitor of p5/main.c: a loop that reads counters from /proc, prints
   them and sleeps, until SIGINT.

   A step is one function of a turn; the kernel counts, devices come and go and
   signals arrive between the steps.  /proc/stat is abstracted to the idle time
   and the sum of the other six fields.  The counters are unsigned, so they are
   those of the kernel modulo W; what really passed is kept beside them. *)
EXTENDS Naturals

CONSTANTS
    W,         \* 2^32, the range of unsigned
    MaxTicks,  \* bound: what passes between two samples
    Limit      \* the descriptors that fopen can still get when the loop begins

ASSUME MonitorAssumption == W \in Nat \ {0} /\ MaxTicks \in Nat /\ Limit \in Nat \ {0}

VARIABLES
    idle, busy,   \* the counters in /proc/stat, modulo W
    passed,       \* the idle and the total time since the last sample, in truth
    idle_, sum_,  \* the sample kept by cpu_util
    shown,        \* the CPU usage printed, how, and what it should have been
    eth0, loop0,  \* whether the two devices are listed
    longname,     \* whether a disk is listed whose name has 20 characters or more
    open,         \* the number of files left open
    missed,       \* whether something read was ever missing
    pc,           \* where main is
    done,         \* set by the handler
    handler       \* whether SIGINT is handled

kernel == <<idle, busy, passed>>
sample == <<idle_, sum_>>
devices == <<eth0, loop0, longname>>
signals == <<done, handler>>
vars == <<kernel, sample, shown, devices, open, missed, pc, signals>>

Ended == {"ended", "crashed", "killed"}
Nothing == [idle |-> 0, total |-> 0]
Blank == [as |-> "none", printed |-> Nothing, truth |-> Nothing]

Times == {t \in [idle : 0 .. MaxTicks, total : 0 .. MaxTicks] : t.idle <= t.total}

\* Before the first sample the time passed is that since the boot, and the
\* sample is zero.
Init ==
    /\ passed \in Times
    /\ idle = passed.idle % W
    /\ busy = (passed.total - passed.idle) % W
    /\ idle_ = 0 /\ sum_ = 0
    /\ shown = Blank
    /\ eth0 \in BOOLEAN /\ loop0 \in BOOLEAN /\ longname \in BOOLEAN
    /\ open = 0 /\ missed = FALSE
    /\ pc = "begin"
    /\ done = FALSE /\ handler = FALSE

------------------------------------------------------------------------------
\* The environment.

Goes(from, to) == pc = from /\ pc' = to /\ UNCHANGED devices
Counts == passed.total < MaxTicks /\ pc \notin Ended

IdleTick ==
    /\ Counts
    /\ idle' = (idle + 1) % W
    /\ passed' = [idle |-> passed.idle + 1, total |-> passed.total + 1]
    /\ UNCHANGED <<busy, sample, shown, devices, open, missed, pc, signals>>

BusyTick ==
    /\ Counts
    /\ busy' = (busy + 1) % W
    /\ passed' = [passed EXCEPT !.total = @ + 1]
    /\ UNCHANGED <<idle, sample, shown, devices, open, missed, pc, signals>>

\* An interface or a disk is added or removed.
Plug ==
    /\ pc \notin Ended
    /\ \/ eth0' = ~eth0 /\ UNCHANGED <<loop0, longname>>
       \/ loop0' = ~loop0 /\ UNCHANGED <<eth0, longname>>
       \/ longname' = ~longname /\ UNCHANGED <<eth0, loop0>>
    /\ UNCHANGED <<kernel, sample, shown, open, missed, pc, signals>>

\* Where main prints.
Printing == pc \in {"cpu", "memory", "network", "uptime", "disk"}

\* The handler is installed for one signal: compiled with -ansi, signal resets
\* it on delivery, and a second SIGINT ends the process.  The handler prints,
\* which is undefined when it interrupts main in stdio: main goes on, or not.
Interrupt ==
    /\ pc \notin Ended
    /\ \/ handler /\ handler' = FALSE /\ done' = TRUE /\ UNCHANGED pc
       \/ handler /\ handler' = FALSE /\ Printing /\ pc' = "crashed" /\ UNCHANGED done
       \/ ~handler /\ pc' = "killed" /\ UNCHANGED signals
    /\ UNCHANGED <<kernel, sample, shown, devices, open, missed>>

------------------------------------------------------------------------------
\* main.

Install ==
    /\ Goes("begin", "test")
    /\ handler' = TRUE
    /\ UNCHANGED <<kernel, sample, shown, open, missed, done>>

\* Mutant: done is not volatile, and is read once.
TestHoisted ==
    /\ Goes("test", "cpu")
    /\ UNCHANGED <<kernel, sample, shown, open, missed, signals>>

Test ==
    /\ \/ done /\ Goes("test", "ended")
       \/ ~done /\ Goes("test", "cpu")
    /\ UNCHANGED <<kernel, sample, shown, open, missed, signals>>

\* fopen needs a descriptor; the functions that close their file leave none.
Opens == open < Limit

Idle == (idle + W - idle_) % W

Sum == (idle + busy) % W
Total == (Sum + W - sum_) % W

\* What %5.1f makes of the division of doubles, by zero when no tick passed.
As == IF Total # 0 THEN "number" ELSE IF Idle = 0 THEN "nan" ELSE "inf"

Usage == [as |-> As, printed |-> [idle |-> Idle, total |-> Total], truth |-> passed]

\* Mutant: the fields are not kept, only their sum.
CpuKeepsSum ==
    /\ Opens /\ Goes("cpu", "memory")
    /\ shown' = Usage
    /\ sum_' = Sum
    /\ passed' = Nothing
    /\ UNCHANGED <<idle, busy, idle_, open, missed, signals>>

\* get_cpu_util with cpu_util: the differences to the sample kept, which is
\* replaced.
Cpu ==
    /\ Opens /\ Goes("cpu", "memory")
    /\ shown' = Usage
    /\ idle_' = idle /\ sum_' = Sum
    /\ passed' = Nothing
    /\ UNCHANGED <<idle, busy, open, missed, signals>>

\* Without a descriptor -1 is printed, and 0 when the line cannot be read or does
\* not have the seven numbers.  The sample stays.
CpuFails ==
    /\ Goes("cpu", "memory")
    /\ shown' = [as |-> IF Opens THEN "zero" ELSE "minus one",
                  printed |-> Nothing, truth |-> passed]
    /\ UNCHANGED <<kernel, sample, open, missed, signals>>

\* Mutant: the file is not closed.
MemoryLeaks ==
    /\ Goes("memory", "network")
    /\ shown' = Blank
    /\ open' = IF Opens THEN open + 1 ELSE open
    /\ UNCHANGED <<kernel, sample, missed, signals>>

\* memory_util closes its file, or cannot open it.
Memory ==
    /\ Goes("memory", "network")
    /\ shown' = Blank
    /\ UNCHANGED <<kernel, sample, open, missed, signals>>

\* What was looked for is there, or not; the file is closed where it is found.
Looks(found) ==
    /\ open' = IF Opens /\ ~found THEN open + 1 ELSE open
    /\ missed' = (missed \/ ~found)
    /\ UNCHANGED <<kernel, sample, shown, signals>>

Network == Goes("network", "uptime") /\ Looks(eth0)

\* uptime_util closes its file only when fgets succeeds.
Uptime == Goes("uptime", "disk") /\ \E read \in BOOLEAN : Looks(read)

\* disk_util does not look at what fopen returned: fgets gets the NULL.
Disk == Opens /\ Goes("disk", "sleep") /\ Looks(loop0)

\* A long name is scanned into 20 characters, and may end it as well.
DiskCrashes ==
    /\ ~Opens \/ longname
    /\ Goes("disk", "crashed")
    /\ UNCHANGED <<kernel, sample, shown, open, missed, signals>>

\* us_sleep: a signal does not cut it short.
Sleep ==
    /\ Goes("sleep", "test")
    /\ UNCHANGED <<kernel, sample, shown, open, missed, signals>>

Main == \/ Install \/ Test \/ Cpu \/ CpuFails \/ Memory \/ Network \/ Uptime
        \/ Disk \/ DiskCrashes \/ Sleep

Next == \/ IdleTick \/ BusyTick \/ Plug \/ Interrupt
        \/ Install \/ Test \/ Cpu \/ CpuFails \/ Memory \/ Network \/ Uptime
        \/ Disk \/ DiskCrashes \/ Sleep

Spec == Init /\ [][Next]_vars /\ WF_vars(Main)

------------------------------------------------------------------------------
\* Properties.

\* The variables have their types, the counters in the range of unsigned
\* (p5/main.c:24-67, 201-228).
TypeOK ==
    /\ idle \in 0 .. W - 1 /\ busy \in 0 .. W - 1
    /\ idle_ \in 0 .. W - 1 /\ sum_ \in 0 .. W - 1
    /\ passed \in Times
    /\ eth0 \in BOOLEAN /\ loop0 \in BOOLEAN /\ longname \in BOOLEAN
    /\ open \in 0 .. Limit /\ missed \in BOOLEAN
    /\ pc \in {"begin", "test", "cpu", "memory", "network", "uptime", "disk", "sleep"} \cup Ended
    /\ done \in BOOLEAN /\ handler \in BOOLEAN

\* A CPU usage that is printed as a number is the true one of the time since the
\* last sample, also when the counters, or only their sum, have passed the end of
\* unsigned in between, and when samples were left out: no tick is lost or counted
\* twice.  nan is printed if no time has passed, and only then.  (-1 and 0 are also
\* printed when the counters could not be read; then they mean nothing, and the
\* time is counted into the next usage.)  (p5/main.c:40-65, 73-85)
UsageIsTrue ==
    shown.truth.total < W =>
        /\ shown.as = "number" => shown.printed = shown.truth
        /\ shown.as = "nan" => shown.truth = Nothing
        /\ shown.as # "inf"

\* While the devices are there and /proc can be read, no file stays open, and the
\* monitor does not crash, however long it runs, but in the handler of SIGINT or
\* over a disk with a long name (p5/main.c:123-199).
SteadyNeverLeaks == ~missed => open = 0 /\ (pc = "crashed" => ~handler \/ longname)

\* SIGINT ends the monitor, wherever in a turn it arrives (p5/main.c:215).
InterruptEnds == done ~> pc \in Ended

==============================================================================
