--------------------------- MODULE MonitorProofs ---------------------------
(* What the monitor prints is true, and it leaks nothing while its devices are
   there, for every range of the counters and every number of descriptors. *)
EXTENDS Monitor, Integers, TLAPS

-----------------------------------------------------------------------------
(* What the proofs need of % and \div.                                      *)

\* A remainder is less than its modulus.
LEMMA ModRange ==
  ASSUME NEW a \in Int, NEW n \in Nat \ {0}
  PROVE  a % n \in 0 .. n - 1
OBVIOUS

\* A number is a multiple, its quotient's, and its remainder.
LEMMA DivMod ==
  ASSUME NEW a \in Int, NEW n \in Nat \ {0}
  PROVE  /\ a \div n \in Int
         /\ a = ((a \div n) * n) + (a % n)
OBVIOUS

\* A number below the modulus is its own remainder.
LEMMA ModSmall ==
  ASSUME NEW n \in Nat \ {0}, NEW a \in 0 .. n - 1
  PROVE  a % n = a
OBVIOUS

\* The remainder is the only number below n at the distance of a multiple.
LEMMA ModUnique ==
  ASSUME NEW q \in Int, NEW n \in Nat \ {0}, NEW r \in 0 .. n - 1
  PROVE  ((q * n) + r) % n = r
<1> DEFINE a == (q * n) + r
           d == (a \div n) - q
<1>1. a \in Int /\ d \in Int
  BY DivMod
<1>2. d * n = r - (a % n)
  BY <1>1, DivMod
<1>3. a % n \in 0 .. n - 1
  BY <1>1, ModRange
<1> HIDE DEF d, a
<1>4. CASE d >= 1
  <2>1. (d - 1) * n \in Nat
    BY <1>1, <1>4
  <2>2. d * n >= n
    BY <2>1, <1>1
  <2> QED
    BY <2>2, <1>2, <1>3, <1>1
<1>5. CASE d <= -1
  <2>1. (-d - 1) * n \in Nat
    BY <1>1, <1>5
  <2>2. d * n <= -n
    BY <2>1, <1>1
  <2> QED
    BY <2>2, <1>2, <1>3, <1>1
<1>6. CASE d = 0
  BY <1>6, <1>2, <1>3 DEF a
<1> QED
  BY <1>1, <1>4, <1>5, <1>6

\* A remainder may be taken before adding.
LEMMA ModAdd ==
    ASSUME NEW a \in Int, NEW b \in Int, NEW m \in Nat \ {0}
    PROVE  ((a % m) + b) % m = (a + b) % m
<1> DEFINE q == a \div m
           s == a + b
           k == s \div m
<1>1. q \in Int /\ a = (q * m) + (a % m) /\ a % m \in Int
  BY DivMod, ModRange
<1>2. k \in Int /\ s = (k * m) + (s % m) /\ s % m \in 0 .. m - 1
  BY DivMod, ModRange
<1>3. (k - q) * m = (k * m) - (q * m) /\ k * m \in Int /\ q * m \in Int
  BY <1>1, <1>2
<1>4. (a % m) + b = ((k - q) * m) + (s % m)
  <2> HIDE DEF q, k
  <2> DEFINE am == a % m
             sm == s % m
             qm == q * m
             km == k * m
  <2>1. a = qm + am /\ a + b = km + sm /\ am \in Int /\ sm \in Int
    BY <1>1, <1>2
  <2>2. (k - q) * m = km - qm /\ km \in Int /\ qm \in Int
    BY <1>3
  <2> HIDE DEF am, sm, qm, km
  <2>3. am + b = (km - qm) + sm
    BY <2>1, <2>2
  <2> QED
    BY <2>2, <2>3 DEF am, sm
<1>5. k - q \in Int
  BY <1>1, <1>2
<1> HIDE DEF q, k
<1> QED
  BY <1>2, <1>4, <1>5, ModUnique DEF s

-----------------------------------------------------------------------------
(* The counters.                                                           *)

\* The difference of two counters is what passed between them, when that is in
\* range: the borrow of an unsigned subtraction undoes the wrap.
LEMMA Difference ==
    ASSUME NEW m \in Nat \ {0}, NEW a \in 0 .. m - 1, NEW d \in 0 .. m - 1
    PROVE  (((a + d) % m) + (m - a)) % m = d
<1> DEFINE r == (a + d) % m
<1>1. (r + (m - a)) % m = ((a + d) + (m - a)) % m
  <2>1. a + d \in Int /\ m - a \in Int
    OBVIOUS
  <2> QED
    BY <2>1, ModAdd
<1>2. (a + d) + (m - a) = (1 * m) + d
  OBVIOUS
<1>3. ((1 * m) + d) % m = d
  BY ModUnique
<1> QED
  BY <1>1, <1>2, <1>3 DEF r

-----------------------------------------------------------------------------
\* The inductive invariant.

Words == 0 .. W - 1

TypeInv ==
    /\ idle \in Words /\ busy \in Words /\ idle_ \in Words /\ sum_ \in Words
    /\ passed \in Times
    /\ eth0 \in BOOLEAN /\ loop0 \in BOOLEAN /\ longname \in BOOLEAN
    /\ open \in 0 .. Limit /\ missed \in BOOLEAN
    /\ pc \in {"begin", "test", "cpu", "memory", "network", "uptime", "disk", "sleep"} \cup Ended
    /\ done \in BOOLEAN /\ handler \in BOOLEAN

\* The counters are the sample and what passed since.
CountInv ==
    /\ idle = (idle_ + passed.idle) % W
    /\ Sum = (sum_ + passed.total) % W

IInv == TypeInv /\ CountInv /\ UsageIsTrue /\ SteadyNeverLeaks

LEMMA Constants == W \in Nat \ {0} /\ MaxTicks \in Nat /\ Limit \in Nat \ {0}
  BY MonitorAssumption

LEMMA TimesFields ==
    ASSUME NEW t \in Times
    PROVE  /\ t.idle \in Nat /\ t.total \in Nat /\ t.idle <= t.total
           /\ t.idle <= MaxTicks /\ t.total <= MaxTicks
           /\ t = [idle |-> t.idle, total |-> t.total]
  BY Constants DEF Times

LEMMA TimesMade ==
    ASSUME NEW a \in 0 .. MaxTicks, NEW b \in 0 .. MaxTicks, a <= b
    PROVE  [idle |-> a, total |-> b] \in Times
  BY DEF Times

LEMMA InitIInv == Init => IInv
<1> SUFFICES ASSUME Init PROVE IInv
  OBVIOUS
<1> DEFINE a == passed.idle
           b == passed.total - passed.idle
<1>1. passed \in Times /\ a \in Nat /\ b \in Nat /\ a + b = passed.total
  BY TimesFields DEF Init
<1>2. idle = a % W /\ busy = b % W /\ idle_ = 0 /\ sum_ = 0
  BY DEF Init
<1> a \in Int /\ b \in Int /\ W \in Nat \ {0}
  BY <1>1, Constants
<1>3. idle \in Words /\ busy \in Words /\ 0 \in Words
  <2>1. a % W \in 0 .. W - 1 /\ b % W \in 0 .. W - 1
    BY ModRange
  <2> QED
    BY <2>1, <1>2 DEF Words
<1>4. TypeInv
  <2>1. open \in 0 .. Limit /\ pc = "begin"
    BY Constants DEF Init
  <2>2. eth0 \in BOOLEAN /\ loop0 \in BOOLEAN /\ longname \in BOOLEAN /\ missed \in BOOLEAN
        /\ done \in BOOLEAN /\ handler \in BOOLEAN
    BY Zenon DEF Init
  <2> QED
    BY <1>1, <1>2, <1>3, <2>1, <2>2 DEF TypeInv
<1>5. Sum = (sum_ + passed.total) % W
  <2>1. ((a % W) + (b % W)) % W = (a + (b % W)) % W
    <3>1. a % W \in Int /\ b % W \in Int
      BY ModRange
    <3> QED
      BY <3>1, ModAdd
  <2>2. ((b % W) + a) % W = (b + a) % W
    BY ModAdd
  <2>3. a + (b % W) = (b % W) + a /\ b + a = passed.total /\ 0 + passed.total = passed.total
    BY <1>1, <1>2, <1>3 DEF Words
  <2> QED
    BY <2>1, <2>2, <2>3, <1>2 DEF Sum
<1>6. CountInv
  <2>1. 0 + a = a
    BY <1>1
  <2> QED
    BY <2>1, <1>2, <1>5 DEF CountInv
<1>7. UsageIsTrue /\ SteadyNeverLeaks
  BY DEF Init, UsageIsTrue, SteadyNeverLeaks, Blank, Nothing
<1> QED
  BY <1>4, <1>6, <1>7 DEF IInv

\* The steps that leave the counters, the sample and what was printed alone, or
\* only clear the latter.
LEMMA Quiet ==
    ASSUME IInv, UNCHANGED <<kernel, sample>>, shown' \in {shown, Blank}
    PROVE  CountInv' /\ UsageIsTrue'
<1>1. CountInv'
  BY DEF IInv, CountInv, Sum, kernel, sample
<1>2. UsageIsTrue'
  BY DEF IInv, UsageIsTrue, Blank, Nothing
<1> QED
  BY <1>1, <1>2

\* One more tick, of either counter.
LEMMA Tick ==
    ASSUME NEW x \in Int, NEW p \in Int, NEW c \in Int, c = (x + p) % W
    PROVE  (c + 1) % W = (x + (p + 1)) % W
<1>1. ((((x + p) % W)) + 1) % W = ((x + p) + 1) % W
  <2>1. x + p \in Int /\ 1 \in Int /\ W \in Nat \ {0}
    BY Constants
  <2> QED
    BY <2>1, ModAdd
<1>2. (x + p) + 1 = x + (p + 1)
  OBVIOUS
<1> QED
  BY <1>1, <1>2

LEMMA NextIInv == IInv /\ [Next]_vars => IInv'
<1> SUFFICES ASSUME IInv, [Next]_vars PROVE IInv'
  OBVIOUS
<1> USE Constants
<1>0. /\ idle \in Int /\ busy \in Int /\ idle_ \in Int /\ sum_ \in Int
      /\ passed \in Times /\ passed.idle \in Nat /\ passed.total \in Nat
      /\ passed.idle <= passed.total
  BY TimesFields DEF IInv, TypeInv, Words
<1>00. /\ 1 \in Int /\ idle + 1 \in Int /\ busy + 1 \in Int /\ idle + busy \in Int
       /\ passed.idle \in Int /\ passed.total \in Int
  BY <1>0
<1>01. /\ idle = (idle_ + passed.idle) % W
       /\ Sum = (sum_ + passed.total) % W
  BY DEF IInv, CountInv
<1>1. CASE IdleTick
  <2>1. /\ idle' = (idle + 1) % W /\ busy' = busy /\ idle_' = idle_ /\ sum_' = sum_
        /\ passed' = [idle |-> passed.idle + 1, total |-> passed.total + 1]
        /\ shown' = shown /\ pc' = pc /\ open' = open /\ missed' = missed
        /\ handler' = handler /\ longname' = longname
    BY <1>1 DEF IdleTick, sample, devices, signals
  <2>2. idle' \in Words /\ passed' \in Times
    <3>1. idle' \in Words
      BY <2>1, <1>0, ModRange DEF Words
    <3>2. passed.idle + 1 \in 0 .. MaxTicks /\ passed.total + 1 \in 0 .. MaxTicks
      BY <1>0, <1>1 DEF IdleTick, Counts
    <3> QED
      BY <3>1, <3>2, <2>1, <1>0, TimesMade
  <2>3. TypeInv'
    BY <2>1, <2>2, <1>1 DEF IInv, TypeInv, IdleTick, devices, signals
  <2>4. CountInv'
    <3>1. (idle + 1) % W = (idle_ + (passed.idle + 1)) % W
      BY <1>0, <1>00, <1>01, Tick
    <3>2. (((idle + 1) % W) + busy) % W = ((idle + 1) + busy) % W
      BY <1>0, <1>00, ModAdd
    <3>3. (idle + 1) + busy = (idle + busy) + 1
      BY <1>0
    <3>4. (((idle + busy) % W) + 1) % W = ((idle + busy) + 1) % W
      BY <1>0, <1>00, ModAdd
    <3>5. Sum \in Int /\ (Sum + 1) % W = (sum_ + (passed.total + 1)) % W
      <4>1. Sum \in Int
        BY <1>0, ModRange DEF Sum
      <4> QED
        BY <4>1, <1>0, <1>00, <1>01, Tick
    <3> QED
      BY <3>1, <3>2, <3>3, <3>4, <3>5, <2>1 DEF CountInv, Sum
  <2>5. UsageIsTrue' /\ SteadyNeverLeaks'
    BY <2>1 DEF IInv, UsageIsTrue, SteadyNeverLeaks
  <2> QED
    BY <2>3, <2>4, <2>5 DEF IInv
<1>2. CASE BusyTick
  <2>1. /\ busy' = (busy + 1) % W /\ idle' = idle /\ idle_' = idle_ /\ sum_' = sum_
        /\ passed' = [idle |-> passed.idle, total |-> passed.total + 1]
        /\ shown' = shown /\ pc' = pc /\ open' = open /\ missed' = missed
        /\ handler' = handler /\ longname' = longname
    BY <1>2, <1>0, TimesFields DEF BusyTick, sample, devices, signals
  <2>2. busy' \in Words /\ passed' \in Times
    <3>1. busy' \in Words
      BY <2>1, <1>0, ModRange DEF Words
    <3>2. passed.idle \in 0 .. MaxTicks /\ passed.total + 1 \in 0 .. MaxTicks
      BY <1>0, <1>2 DEF BusyTick, Counts
    <3> QED
      BY <3>1, <3>2, <2>1, <1>0, TimesMade
  <2>3. TypeInv'
    BY <2>1, <2>2, <1>2 DEF IInv, TypeInv, BusyTick, devices, signals
  <2>4. CountInv'
    <3>1. idle + ((busy + 1) % W) = ((busy + 1) % W) + idle
      BY <1>0, <2>1, <2>2 DEF Words
    <3>2. (((busy + 1) % W) + idle) % W = ((busy + 1) + idle) % W
      BY <1>0, <1>00, ModAdd
    <3>3. (busy + 1) + idle = (idle + busy) + 1
      BY <1>0
    <3>4. (((idle + busy) % W) + 1) % W = ((idle + busy) + 1) % W
      BY <1>0, <1>00, ModAdd
    <3>5. Sum \in Int /\ (Sum + 1) % W = (sum_ + (passed.total + 1)) % W
      <4>1. Sum \in Int
        BY <1>0, ModRange DEF Sum
      <4> QED
        BY <4>1, <1>0, <1>00, <1>01, Tick
    <3> QED
      BY <3>1, <3>2, <3>3, <3>4, <3>5, <2>1 DEF IInv, CountInv, Sum
  <2>5. UsageIsTrue' /\ SteadyNeverLeaks'
    BY <2>1 DEF IInv, UsageIsTrue, SteadyNeverLeaks
  <2> QED
    BY <2>3, <2>4, <2>5 DEF IInv
<1>3. CASE Plug
  <2>1. CountInv' /\ UsageIsTrue'
    BY <1>3, Quiet DEF Plug
  <2>2. TypeInv' /\ SteadyNeverLeaks'
    BY <1>3 DEF IInv, TypeInv, SteadyNeverLeaks, Plug, kernel, sample, signals
  <2> QED
    BY <2>1, <2>2 DEF IInv
<1>4. CASE Interrupt
  <2>1. CountInv' /\ UsageIsTrue'
    BY <1>4, Quiet DEF Interrupt
  <2>2. TypeInv' /\ SteadyNeverLeaks'
    BY <1>4 DEF IInv, TypeInv, SteadyNeverLeaks, Interrupt, Printing, kernel, sample, signals, devices, Ended
  <2> QED
    BY <2>1, <2>2 DEF IInv
<1>5. CASE Install
  <2>1. CountInv' /\ UsageIsTrue'
    BY <1>5, Quiet DEF Install
  <2>2. TypeInv' /\ SteadyNeverLeaks'
    BY <1>5 DEF IInv, TypeInv, SteadyNeverLeaks, Install, Goes, kernel, sample, devices
  <2> QED
    BY <2>1, <2>2 DEF IInv
<1>6. CASE Test
  <2>1. CountInv' /\ UsageIsTrue'
    BY <1>6, Quiet DEF Test
  <2>2. TypeInv' /\ SteadyNeverLeaks'
    BY <1>6 DEF IInv, TypeInv, SteadyNeverLeaks, Test, Goes, kernel, sample, devices, signals, Ended
  <2> QED
    BY <2>1, <2>2 DEF IInv
<1>7. CASE Cpu
  <2>1. /\ idle' = idle /\ busy' = busy /\ idle_' = idle /\ sum_' = Sum
        /\ passed' = [idle |-> 0, total |-> 0]
        /\ shown' = [as |-> As, printed |-> [idle |-> Idle, total |-> Total],
                     truth |-> passed]
        /\ pc' = "memory" /\ open' = open /\ missed' = missed
    BY <1>7 DEF Cpu, Goes, Nothing, Usage
  <2>2. Sum \in Words
    BY <1>0, ModRange DEF Sum, Words
  <2>3. TypeInv'
    <3>1. passed' \in Times
      BY <2>1, TimesMade
    <3> QED
      BY <3>1, <2>1, <2>2, <1>7 DEF IInv, TypeInv, Cpu, Goes, devices, signals
  <2>4. CountInv'
    <3>1. idle % W = idle /\ Sum % W = Sum
      BY <2>2, ModSmall DEF IInv, TypeInv, Words
    <3>2. idle + 0 = idle /\ Sum + 0 = Sum
      BY <1>0, <2>2 DEF Words
    <3>3. Sum' = Sum
      BY <2>1 DEF Sum
    <3> QED
      BY <3>1, <3>2, <3>3, <2>1 DEF CountInv
  <2>5. UsageIsTrue'
    <3> SUFFICES ASSUME passed.total < W
        PROVE /\ shown'.printed = shown'.truth
              /\ As = "nan" => passed = Nothing
              /\ As # "inf"
      BY <2>1 DEF UsageIsTrue
    <3>1. idle_ \in 0 .. W - 1 /\ sum_ \in 0 .. W - 1
      BY DEF IInv, TypeInv, Words
    <3>2. passed.idle \in 0 .. W - 1 /\ passed.total \in 0 .. W - 1
      BY <1>0
    <3>3. Idle = passed.idle
      <4>1. (((idle_ + passed.idle) % W) + (W - idle_)) % W = passed.idle
        BY <3>1, <3>2, Difference
      <4> QED
        BY <4>1, <1>01 DEF Idle
    <3>4. Total = passed.total
      <4>1. (((sum_ + passed.total) % W) + (W - sum_)) % W = passed.total
        BY <3>1, <3>2, Difference
      <4> QED
        BY <4>1, <1>01 DEF Total
    <3>5. passed = [idle |-> passed.idle, total |-> passed.total]
      BY <1>0, TimesFields
    <3>6. Total = 0 => Idle = 0
      BY <3>3, <3>4, <1>0
    <3> QED
      BY <3>3, <3>4, <3>5, <3>6, <2>1 DEF As, Nothing
  <2>6. SteadyNeverLeaks'
    BY <2>1 DEF IInv, SteadyNeverLeaks
  <2> QED
    BY <2>3, <2>4, <2>5, <2>6 DEF IInv
<1>8. CASE CpuFails
  <2>1. CountInv' /\ UsageIsTrue'
    <3>1. CountInv'
      BY <1>8, <1>01 DEF CpuFails, CountInv, Sum, kernel, sample
    <3>2. UsageIsTrue'
      BY <1>8 DEF CpuFails, UsageIsTrue
    <3> QED
      BY <3>1, <3>2
  <2>2. TypeInv' /\ SteadyNeverLeaks'
    BY <1>8 DEF IInv, TypeInv, SteadyNeverLeaks, CpuFails, Goes, kernel, sample, devices, signals
  <2> QED
    BY <2>1, <2>2 DEF IInv
<1>9. CASE Memory
  <2>1. CountInv' /\ UsageIsTrue'
    BY <1>9, Quiet DEF Memory
  <2>2. TypeInv' /\ SteadyNeverLeaks'
    BY <1>9 DEF IInv, TypeInv, SteadyNeverLeaks, Memory, Goes, kernel, sample, devices, signals
  <2> QED
    BY <2>1, <2>2 DEF IInv
<1>10. ASSUME NEW found \in BOOLEAN, Looks(found), UNCHANGED devices,
              pc' \in {"uptime", "disk", "sleep"}
       PROVE  IInv'
  <2>1. CountInv' /\ UsageIsTrue'
    BY <1>10, Quiet DEF Looks
  <2>2. open' \in 0 .. Limit
    BY <1>10 DEF IInv, TypeInv, Looks, Opens
  <2>3. TypeInv'
    BY <1>10, <2>2 DEF IInv, TypeInv, Looks, kernel, sample, devices, signals
  <2>4. SteadyNeverLeaks'
    BY <1>10 DEF IInv, TypeInv, SteadyNeverLeaks, Looks
  <2> QED
    BY <2>1, <2>3, <2>4 DEF IInv
<1>11. CASE Network
  BY <1>10, <1>11 DEF Network, Goes, IInv, TypeInv
<1>12. CASE Uptime
  BY <1>10, <1>12 DEF Uptime, Goes
<1>13. CASE Disk
  BY <1>10, <1>13 DEF Disk, Goes, IInv, TypeInv
<1>14. CASE DiskCrashes
  <2>1. CountInv' /\ UsageIsTrue'
    BY <1>14, Quiet DEF DiskCrashes
  <2>2. TypeInv'
    BY <1>14 DEF IInv, TypeInv, DiskCrashes, Goes, kernel, sample, devices, signals, Ended
  <2>3. missed \/ longname
    BY <1>14 DEF DiskCrashes, Opens, IInv, TypeInv, SteadyNeverLeaks
  <2>4. SteadyNeverLeaks'
    BY <1>14, <2>3 DEF DiskCrashes, Goes, devices, IInv, SteadyNeverLeaks
  <2> QED
    BY <2>1, <2>2, <2>4 DEF IInv
<1>15. CASE Sleep
  <2>1. CountInv' /\ UsageIsTrue'
    BY <1>15, Quiet DEF Sleep
  <2>2. TypeInv' /\ SteadyNeverLeaks'
    BY <1>15 DEF IInv, TypeInv, SteadyNeverLeaks, Sleep, Goes, kernel, sample, devices, signals
  <2> QED
    BY <2>1, <2>2 DEF IInv
<1>16. CASE UNCHANGED vars
  <2>1. CountInv' /\ UsageIsTrue'
    BY <1>16, Quiet DEF vars
  <2>2. TypeInv' /\ SteadyNeverLeaks'
    BY <1>16 DEF IInv, TypeInv, SteadyNeverLeaks, vars, kernel, sample, devices, signals
  <2> QED
    BY <2>1, <2>2 DEF IInv
<1> QED
  BY <1>1, <1>2, <1>3, <1>4, <1>5, <1>6, <1>7, <1>8, <1>9, <1>11, <1>12, <1>13,
     <1>14, <1>15, <1>16 DEF Next

LEMMA AlwaysIInv == Spec => []IInv
  BY InitIInv, NextIInv, PTL DEF Spec

-----------------------------------------------------------------------------
\* The counters and the sample stay unsigned words (p5/main.c:24-67).
THEOREM TypeCorrect == Spec => []TypeOK
<1>1. IInv => TypeOK
  BY DEF IInv, TypeInv, TypeOK, Words
<1> QED
  BY <1>1, AlwaysIInv, PTL

\* A CPU usage printed as a number is that of the time since the last sample,
\* whatever the range of unsigned, wherever the counters wrap, and however often
\* reading them failed in between; nan is printed only of no time
\* (p5/main.c:40-65, 73-85).
THEOREM TrueUsage == Spec => []UsageIsTrue
<1>1. IInv => UsageIsTrue
  BY DEF IInv
<1> QED
  BY <1>1, AlwaysIInv, PTL

\* With the devices present the monitor runs with as few as one descriptor, for
\* ever, unless SIGINT's handler or a long name of a disk ends it
\* (p5/main.c:123-199).
THEOREM NoLeak == Spec => []SteadyNeverLeaks
<1>1. IInv => SteadyNeverLeaks
  BY DEF IInv
<1> QED
  BY <1>1, AlwaysIInv, PTL
=============================================================================
