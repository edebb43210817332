----------------------------- MODULE ShellProofs -----------------------------
(* The editor's count is the length of its line, past lines are kept, and only
   the last row is overrun, for every number of rows, every size of a row and
   every table of commands; and what the memory shows is the line editor of
   LineEditor. *)
EXTENDS Shell, TLAPS, WellFoundedInduction

Memory == [0 .. Size - 1 -> Chars]

\* The string at address a has the length k.
IsLength(m, a, k) ==
    /\ k \in Nat /\ a + k <= Size
    /\ \A x \in a .. a + k - 1 : m[x] # NUL
    /\ a + k = Size \/ m[a + k] = NUL

LEMMA Constants ==
    /\ H \in Nat \ {0} /\ N \in Nat \ {0} /\ Size \in Nat
    /\ NUL \notin Letters /\ Blank # NUL /\ NUL \in Chars /\ Blank \in Chars
<1>1. H * N \in Nat
  BY ShellAssumption
<1> QED
  BY <1>1, ShellAssumption DEF Size, Chars, Blank, NUL

-----------------------------------------------------------------------------
\* Rows.

LEMMA Rows ==
    ASSUME NEW r \in 0 .. H - 1
    PROVE  /\ Row(r) \in Nat
           /\ Row(r + 1) = Row(r) + N
           /\ Row(r) + N <= Size
           /\ r # H - 1 => (Row(r) + N) + N <= Size
<1> USE Constants
<1>1. r * N \in Nat /\ (r + 1) * N = (r * N) + N
  OBVIOUS
<1>2. (H - 1 - r) * N \in Nat
  OBVIOUS
<1>3. (H - 1 - r) * N = ((H * N) - N) - (r * N)
  OBVIOUS
<1>4. ASSUME r # H - 1 PROVE (H - 1 - r) * N >= N
  <2>1. (H - 2 - r) * N \in Nat
    BY <1>4
  <2>2. (H - 2 - r) * N = ((H - 1 - r) * N) - N
    OBVIOUS
  <2> QED
    BY <2>1, <2>2, <1>2
<1> DEFINE rN == r * N
           k == (H - 1 - r) * N
           hN == H * N
<1>5. rN \in Nat /\ k \in Nat /\ hN \in Nat /\ k = (hN - N) - rN
  BY <1>1, <1>2, <1>3
<1>6. (r # H - 1) => k >= N
  BY <1>4
<1>7. Row(r) = rN /\ Row(r + 1) = rN + N /\ Size = hN
  BY <1>1 DEF Row, Size
<1> HIDE DEF rN, k, hN
<1> QED
  BY <1>5, <1>6, <1>7

LEMMA RowsBelow ==
    ASSUME NEW r \in 0 .. H - 1, NEW q \in 0 .. r
    PROVE  Row(q) \in Nat /\ Row(q) <= Row(r)
<1> USE Constants
<1>1. q * N \in Nat /\ r * N \in Nat /\ (r - q) * N \in Nat
  OBVIOUS
<1>2. (r - q) * N = (r * N) - (q * N)
  OBVIOUS
<1> QED
  BY <1>1, <1>2 DEF Row

-----------------------------------------------------------------------------
\* Strings in memory.

\* A set of naturals with an element has a least one, which Min chooses.
LEMMA MinOfNats ==
    ASSUME NEW S \in SUBSET Nat, S # {}
    PROVE  Min(S) \in S /\ \A y \in S : Min(S) <= y
<1>1. PICK x \in S : \A y \in S : ~ (<<y, x>> \in OpToRel(<, Nat))
  BY NatLessThanWellFounded, WFMin
<1>2. \A y \in S : x <= y
  <2> TAKE y \in S
  <2>1. x \in Nat /\ y \in Nat /\ ~ (y < x)
    BY <1>1 DEF OpToRel
  <2> QED
    BY <2>1
<1> QED
  BY <1>2 DEF Min

LEMMA StrLenIsLength ==
    ASSUME NEW m \in Memory, NEW a \in 0 .. Size
    PROVE  IsLength(m, a, StrLen(m, a))
<1> DEFINE S == {x - a : x \in {y \in a .. Size - 1 : m[y] = NUL}} \cup {Size - a}
           k == StrLen(m, a)
<1>1. S \in SUBSET Nat /\ S # {}
  BY Constants
<1>2. k = Min(S)
  BY DEF StrLen
<1>3. k \in S /\ \A y \in S : k <= y
  BY <1>1, <1>2, MinOfNats
<1>4. k \in Nat /\ a + k <= Size
  BY <1>1, <1>3, Constants
<1>5. \A x \in a .. a + k - 1 : m[x] # NUL
  <2> SUFFICES ASSUME NEW x \in a .. a + k - 1, m[x] = NUL PROVE FALSE
    OBVIOUS
  <2>1. x \in a .. Size - 1 /\ x - a < k
    BY <1>4, Constants
  <2>2. x - a \in S
    BY <2>1
  <2>3. x - a \in Int /\ k \in Int
    BY <2>1, <1>4, Constants
  <2> HIDE DEF S, k
  <2>4. k <= x - a
    BY <2>2, <1>3
  <2> QED
    BY <2>1, <2>3, <2>4
<1>6. a + k = Size \/ m[a + k] = NUL
  BY <1>3, Constants
<1> QED
  BY <1>4, <1>5, <1>6 DEF IsLength

LEMMA LengthUnique ==
    ASSUME NEW m \in Memory, NEW a \in 0 .. Size, NEW k, IsLength(m, a, k)
    PROVE  StrLen(m, a) = k
<1> DEFINE l == StrLen(m, a)
<1>1. IsLength(m, a, l)
  BY StrLenIsLength
<1>2. CASE l < k
  <2>1. a + l \in a .. a + k - 1 /\ a + l # Size
    BY <1>1, <1>2, Constants DEF IsLength
  <2> QED
    BY <2>1, <1>1 DEF IsLength
<1>3. CASE k < l
  <2>1. a + k \in a .. a + l - 1 /\ a + k # Size
    BY <1>1, <1>3, Constants DEF IsLength
  <2> QED
    BY <2>1, <1>1 DEF IsLength
<1> QED
  BY <1>1, <1>2, <1>3 DEF IsLength

\* What is written over the memory.
LEMMA PokeIs ==
    ASSUME NEW m \in Memory, NEW a \in Nat, NEW s \in Seq(Chars)
    PROVE  /\ Poke(m, a, s) \in Memory
           /\ \A x \in 0 .. Size - 1 :
                /\ x \in a .. a + Len(s) - 1 => Poke(m, a, s)[x] = s[x - a + 1]
                /\ x \notin a .. a + Len(s) - 1 => Poke(m, a, s)[x] = m[x]
<1>1. ASSUME NEW x \in 0 .. Size - 1, x \in a .. a + Len(s) - 1
      PROVE  s[x - a + 1] \in Chars
  <2>1. x - a + 1 \in 1 .. Len(s)
    BY <1>1
  <2> QED
    BY <2>1
<1>2. DOMAIN m = 0 .. Size - 1
  BY DEF Memory
<1> QED
  BY <1>1, <1>2, Constants DEF Poke, Memory

\* The string at an address, as a sequence without a NUL.
LEMMA StringIs ==
    ASSUME NEW m \in Memory, NEW a \in 0 .. Size
    PROVE  /\ String(m, a) \in Seq(Chars)
           /\ Len(String(m, a)) = StrLen(m, a)
           /\ StrLen(m, a) \in Nat
           /\ \A x \in 1 .. StrLen(m, a) : String(m, a)[x] = m[a + x - 1] /\ m[a + x - 1] # NUL
<1> DEFINE k == StrLen(m, a)
<1>1. k \in Nat /\ a + k <= Size /\ \A x \in a .. a + k - 1 : m[x] # NUL
  BY StrLenIsLength DEF IsLength
<1> HIDE DEF k
<1>2. ASSUME NEW x \in 1 .. k
      PROVE  m[a + x - 1] \in Chars /\ m[a + x - 1] # NUL
  <2>1. a + x - 1 \in 0 .. Size - 1 /\ a + x - 1 \in a .. a + k - 1
    BY <1>1, Constants
  <2> QED
    BY <2>1, <1>1 DEF Memory
<1>3. String(m, a) = [x \in 1 .. k |-> m[a + x - 1]]
  BY DEF String, k
<1>4. [x \in 1 .. k |-> m[a + x - 1]] \in Seq(Chars)
  BY <1>1, <1>2
<1> QED
  BY <1>1, <1>2, <1>3, <1>4 DEF k

-----------------------------------------------------------------------------
\* The invariant, and one key that edits the line.

IInv == TypeOK /\ LengthIsCounted /\ OverrunInLastRow

Kept == \A x \in 0 .. Buf - 1 : history'[x] = history[x]

\* What the invariant says of the line, without StrLen.
LEMMA LineIs ==
    ASSUME IInv
    PROVE  /\ history \in Memory /\ Buf \in Nat /\ Buf + N <= Size
           /\ Row(lines + 1) = Buf + N
           /\ lines # H - 1 => (Buf + N) + N <= Size
           /\ n \in 0 .. N /\ i \in 0 .. n
           /\ IsLength(history, Buf, n)
           /\ \A x \in Buf + N .. Size - 1 : history[x] = NUL
<1>1. history \in Memory /\ lines \in 0 .. H - 1 /\ n \in 0 .. N /\ i \in 0 .. n
  BY DEF IInv, TypeOK, Memory
<1>2. /\ Buf \in Nat /\ Buf + N <= Size /\ Row(lines + 1) = Buf + N
      /\ lines # H - 1 => (Buf + N) + N <= Size
  BY <1>1, Rows DEF Buf
<1>3. Buf \in 0 .. Size
  BY <1>2, Constants
<1>4. IsLength(history, Buf, n)
  BY <1>1, <1>3, StrLenIsLength DEF IInv, LengthIsCounted
<1>5. \A x \in Buf + N .. Size - 1 : history[x] = NUL
  BY <1>2 DEF IInv, LengthIsCounted
<1> QED
  BY <1>1, <1>2, <1>4, <1>5

LEMMA AfterIs ==
    ASSUME IInv
    PROVE  /\ After \in Seq(Chars) /\ Len(After) = n - i
           /\ \A x \in 1 .. n - i : After[x] # NUL
<1> DEFINE t == String(history, Buf)
<1>1. history \in Memory /\ Buf \in 0 .. Size /\ n \in Nat /\ i \in 0 .. n
  BY LineIs, Constants
<1>2. StrLen(history, Buf) = n
  BY DEF IInv, LengthIsCounted
<1>3. t \in Seq(Chars) /\ Len(t) = n /\ \A x \in 1 .. n : t[x] # NUL
  BY <1>1, <1>2, StringIs
<1>4. After = SubSeq(t, i + 1, n)
  BY <1>3 DEF After
<1> HIDE DEF t
<1>5. SubSeq(t, i + 1, n) \in Seq(Chars) /\ Len(SubSeq(t, i + 1, n)) = n - i
  BY <1>1, <1>3
<1>6. ASSUME NEW x \in 1 .. n - i PROVE SubSeq(t, i + 1, n)[x] # NUL
  <2>1. SubSeq(t, i + 1, n)[x] = t[i + x] /\ i + x \in 1 .. n
    BY <1>1, <1>3
  <2> QED
    BY <2>1, <1>3
<1> QED
  BY <1>4, <1>5, <1>6

\* A line with its NUL does not reach past the row behind its own.
LEMMA WithinTwoRows ==
    ASSUME NEW b \in Nat, NEW k \in Nat \ {0}, NEW f \in 0 .. k, NEW sz \in Nat,
           (b + k) + k <= sz
    PROVE  ~ (b + f + 1 > sz)
  OBVIOUS

\* A place of the line before the one written to.
LEMMA BeforeWritten ==
    ASSUME NEW b \in Nat, NEW d \in Nat, NEW k \in Nat, d <= k, NEW x \in Nat,
           b <= x, x < b + d, NEW e \in Int
    PROVE  x \in b .. b + k - 1 /\ x \notin b + d .. e
  OBVIOUS

\* A string with its NUL is written into the line, from a place in it on: it
\* becomes the end of the line.
LEMMA WrittenToTheEnd ==
    ASSUME IInv,
           NEW d \in 0 .. n, NEW t \in Seq(Chars),
           \A x \in 1 .. Len(t) : t[x] # NUL,
           d + Len(t) <= N,
           NEW ii \in 0 .. d + Len(t),
           NEW s, s = t \o <<NUL>>,
           mode = "editing",
           Write(Buf + d, s, ii, d + Len(t))
    PROVE  IInv' /\ Kept
<1> DEFINE nn == d + Len(t)
           a == Buf + d
<1> USE Constants
<1>1. /\ history \in Memory /\ Buf \in Nat /\ Buf + N <= Size
      /\ lines # H - 1 => (Buf + N) + N <= Size
      /\ n \in 0 .. N /\ IsLength(history, Buf, n)
      /\ \A x \in Buf + N .. Size - 1 : history[x] = NUL
      /\ Row(lines + 1) = Buf + N
  BY LineIs
<1>2. /\ s \in Seq(Chars) /\ Len(s) = Len(t) + 1 /\ Len(t) \in Nat
      /\ \A x \in 1 .. Len(t) : s[x] # NUL
      /\ s[Len(t) + 1] = NUL
  OBVIOUS
<1>3. /\ a \in Nat /\ nn \in 0 .. N /\ a + Len(s) = Buf + nn + 1
      /\ a = Buf + d /\ nn = d + Len(t) /\ d \in Nat /\ d <= n
      /\ ii \in 0 .. nn
  BY <1>1, <1>2
<1>0. Write(a, s, ii, nn)
  OBVIOUS
<1> HIDE DEF a, nn
<1>4. CASE a + Len(s) > Size
  <2>1. Overrun
    BY <1>0, <1>4 DEF Write
  <2>2. lines = H - 1
    <3>1. SUFFICES ASSUME lines # H - 1 PROVE FALSE
      OBVIOUS
    <3>2. (Buf + N) + N <= Size /\ N \in Nat \ {0} /\ Size \in Nat
      BY <3>1, <1>1, Constants
    <3>3. ~ (Buf + nn + 1 > Size)
      BY <3>2, <1>1, <1>3, WithinTwoRows
    <3> QED
      BY <3>3, <1>3, <1>4
  <2>3. IInv'
    BY <2>1, <2>2 DEF Overrun, IInv, TypeOK, LengthIsCounted, OverrunInLastRow, Buf
  <2> QED
    BY <2>1, <2>3 DEF Overrun, Kept
<1>5. CASE ~ (a + Len(s) > Size)
  <2> DEFINE m == Poke(history, a, s)
  <2>1. /\ history' = m /\ i' = ii /\ n' = nn
        /\ lines' = lines /\ j' = j /\ mode' = mode
    BY <1>0, <1>5 DEF Write
  <2>2. /\ m \in Memory
        /\ \A x \in 0 .. Size - 1 :
             /\ x \in a .. a + Len(s) - 1 => m[x] = s[x - a + 1]
             /\ x \notin a .. a + Len(s) - 1 => m[x] = history[x]
    <3>1. history \in Memory /\ a \in Nat /\ s \in Seq(Chars)
      BY <1>1, <1>2, <1>3
    <3> QED
      BY <3>1, PokeIs
  <2> HIDE DEF m
  <2>3. IsLength(m, Buf, nn)
    <3>1. nn \in Nat /\ Buf + nn <= Size
      BY <1>1, <1>2, <1>3, <1>5
    <3>2. ASSUME NEW x \in Buf .. Buf + nn - 1 PROVE m[x] # NUL
      <4>1. x \in 0 .. Size - 1
        BY <1>1, <3>1
      <4>2. CASE x < a
        <5>1. x \in Buf .. Buf + n - 1 /\ x \notin a .. a + Len(s) - 1
          <6>1. /\ Buf \in Nat /\ d \in Nat /\ n \in Nat /\ d <= n /\ x \in Nat
                /\ Buf <= x /\ x < Buf + d /\ a + Len(s) - 1 \in Int
            BY <4>1, <4>2, <1>1, <1>2, <1>3
          <6>2. x \in Buf .. Buf + n - 1 /\ x \notin Buf + d .. a + Len(s) - 1
            BY <6>1, BeforeWritten
          <6> QED
            BY <6>2, <1>3
        <5> QED
          BY <5>1, <4>1, <2>2, <1>1 DEF IsLength
      <4>3. CASE x >= a
        <5>1. x \in a .. a + Len(s) - 1 /\ x - a + 1 \in 1 .. Len(t)
          BY <4>1, <4>3, <1>1, <1>2, <1>3
        <5> QED
          BY <5>1, <4>1, <2>2, <1>2
      <4> QED
        BY <4>2, <4>3, <1>3
    <3>3. m[Buf + nn] = NUL
      <4>1. /\ Buf + nn \in 0 .. Size - 1 /\ Buf + nn \in a .. a + Len(s) - 1
            /\ (Buf + nn) - a + 1 = Len(t) + 1
        BY <1>1, <1>2, <1>3, <1>5
      <4> QED
        BY <4>1, <2>2, <1>2
    <3> QED
      BY <3>1, <3>2, <3>3 DEF IsLength
  <2>4. StrLen(m, Buf) = nn
    <3>1. Buf \in 0 .. Size
      BY <1>1
    <3> QED
      BY <3>1, <2>2, <2>3, LengthUnique
  <2>5. ASSUME NEW x \in Buf + N .. Size - 1 PROVE m[x] = NUL
    <3>1. x \in 0 .. Size - 1
      BY <1>1
    <3>2. CASE x \in a .. a + Len(s) - 1
      <4>1. x = a + Len(s) - 1 /\ x - a + 1 = Len(t) + 1
        <5>1. x \in Int /\ x >= Buf + N /\ x <= a + Len(s) - 1
          BY <3>1, <3>2, <1>1
        <5>2. Len(s) \in Nat /\ nn \in Nat /\ nn <= N /\ Buf \in Nat /\ a \in Nat
          BY <1>1, <1>2, <1>3
        <5>3. a + Len(s) - 1 = Buf + nn
          BY <5>2, <1>3
        <5>4. x = Buf + nn
          BY <5>1, <5>2, <5>3
        <5>5. (Buf + nn) - a = Len(t)
          BY <1>1, <1>2, <1>3
        <5> QED
          BY <5>3, <5>4, <5>5
      <4> QED
        BY <4>1, <3>1, <3>2, <2>2, <1>2
    <3>3. CASE x \notin a .. a + Len(s) - 1
      BY <3>1, <3>3, <2>2, <1>1
    <3> QED
      BY <3>2, <3>3
  <2>6. TypeOK'
    BY <2>1, <2>2, <1>3 DEF IInv, TypeOK, Memory
  <2>7. LengthIsCounted'
    <3>1. Buf' = Buf /\ Row(lines' + 1) = Buf + N
      BY <2>1, <1>1 DEF Buf
    <3> QED
      BY <3>1, <2>1, <2>4, <2>5 DEF LengthIsCounted
  <2>8. OverrunInLastRow'
    BY <2>1 DEF OverrunInLastRow
  <2>9. Kept
    <3> SUFFICES ASSUME NEW x \in 0 .. Buf - 1 PROVE m[x] = history[x]
      BY <2>1 DEF Kept
    <3>1. x \in 0 .. Size - 1 /\ x \notin a .. a + Len(s) - 1
      BY <1>1, <1>2, <1>3
    <3> QED
      BY <3>1, <2>2
  <2> QED
    BY <2>6, <2>7, <2>8, <2>9 DEF IInv
<1> QED
  BY <1>4, <1>5

LEMMA Edited ==
    ASSUME IInv, mode = "editing",
           NEW d \in 0 .. n, NEW t \in Seq(Chars),
           \A x \in 1 .. Len(t) : t[x] # NUL,
           NEW nn, nn = d + Len(t), nn <= N,
           NEW a, a = Buf + d,
           NEW ii \in 0 .. nn,
           NEW s, s = t \o <<NUL>>,
           Write(a, s, ii, nn)
    PROVE  IInv' /\ Kept
<1>1. /\ ii \in 0 .. d + Len(t) /\ d + Len(t) <= N
      /\ Write(Buf + d, s, ii, d + Len(t))
  BY Zenon
<1> QED
  BY <1>1, WrittenToTheEnd

-----------------------------------------------------------------------------
\* The other actions.

LEMMA TerminatedIs ==
    ASSUME NEW t \in Seq(Chars)
    PROVE  Terminated(t) = t \o <<NUL>>
  BY Constants DEF Terminated

LEMMA KeysThatEdit ==
    ASSUME IInv,
           (\E c \in Letters : KeyLetter(c)) \/ KeyBlank \/ KeyDelete \/ KeyBackspace \/ KeyKill
    PROVE  IInv' /\ Kept
<1> USE Constants
<1>1. /\ n \in 0 .. N /\ i \in 0 .. n /\ n \in Nat /\ i \in Nat
      /\ Buf \in Nat
  BY LineIs
<1>2. /\ After \in Seq(Chars) /\ Len(After) = n - i
      /\ \A x \in 1 .. Len(After) : After[x] # NUL
  BY AfterIs
<1> DEFINE s == After
<1> HIDE DEF s
<1>3. ASSUME NEW c \in Chars, c # NUL
      PROVE  /\ <<c>> \o s \in Seq(Chars) /\ Len(<<c>> \o s) = n - i + 1
             /\ \A x \in 1 .. Len(<<c>> \o s) : (<<c>> \o s)[x] # NUL
  <2>1. s \in Seq(Chars) /\ Len(s) = n - i /\ \A x \in 1 .. Len(s) : s[x] # NUL
    BY <1>2 DEF s
  <2>2. <<c>> \o s \in Seq(Chars) /\ Len(<<c>> \o s) = Len(s) + 1
    BY <2>1
  <2>3. ASSUME NEW x \in 1 .. Len(s) + 1 PROVE (<<c>> \o s)[x] # NUL
    <3>1. (<<c>> \o s)[x] = IF x = 1 THEN c ELSE s[x - 1]
      BY <2>1
    <3>2. x # 1 => x - 1 \in 1 .. Len(s)
      BY <2>1
    <3> QED
      BY <3>1, <3>2, <2>1, <1>3
  <2> QED
    BY <2>1, <2>2, <2>3
<1>4. ASSUME NEW c \in Letters, KeyLetter(c) PROVE IInv' /\ Kept
  <2> DEFINE t == <<c>> \o s
  <2>1. c \in Chars /\ c # NUL
    BY DEF Chars
  <2>2. t \in Seq(Chars) /\ Len(t) = n - i + 1 /\ \A x \in 1 .. Len(t) : t[x] # NUL
    BY <2>1, <1>3
  <2>3. mode = "editing" /\ n + 1 < N /\ Write(Buf + i, t \o <<NUL>>, i + 1, n + 1)
    BY <1>4 DEF KeyLetter, s
  <2>4. n + 1 = i + Len(t) /\ n + 1 <= N /\ i + 1 \in 0 .. n + 1
    BY <1>1, <2>2, <2>3
  <2> HIDE DEF t
  <2> QED
    BY <1>1, <2>2, <2>3, <2>4, Edited
<1>5. ASSUME KeyBlank PROVE IInv' /\ Kept
  <2> DEFINE t == <<Blank>> \o s
  <2>2. t \in Seq(Chars) /\ Len(t) = n - i + 1 /\ \A x \in 1 .. Len(t) : t[x] # NUL
    BY <1>3
  <2>3. <<Blank>> \o Terminated(s) = t \o <<NUL>>
    <3>1. s \in Seq(Chars) /\ Terminated(s) = s \o <<NUL>>
      BY <1>2, TerminatedIs DEF s
    <3>2. <<Blank>> \o (s \o <<NUL>>) = (<<Blank>> \o s) \o <<NUL>>
      BY <3>1
    <3> QED
      BY <3>1, <3>2
  <2>4. mode = "editing" /\ n < N /\ Write(Buf + i, t \o <<NUL>>, i + 1, n + 1)
    BY <1>1, <1>5, <2>3 DEF KeyBlank, s
  <2>5. n + 1 = i + Len(t) /\ n + 1 <= N /\ i + 1 \in 0 .. n + 1
    BY <1>1, <2>2, <2>4
  <2> HIDE DEF t
  <2> QED
    BY <1>1, <2>2, <2>4, <2>5, Edited
<1>6. ASSUME KeyDelete PROVE IInv' /\ Kept
  <2> DEFINE t == Tail(s)
  <2>1. mode = "editing" /\ n > i /\ Write(Buf + i, Terminated(t), i, n - 1)
    BY <1>6 DEF KeyDelete, s
  <2>2. t \in Seq(Chars) /\ Len(t) = n - i - 1 /\ \A x \in 1 .. Len(t) : t[x] # NUL
    <3>1. s \in Seq(Chars) /\ Len(s) = n - i /\ \A x \in 1 .. Len(s) : s[x] # NUL
      BY <1>2 DEF s
    <3>2. s # <<>> /\ t \in Seq(Chars) /\ Len(t) = n - i - 1
      BY <1>1, <2>1, <3>1
    <3>3. ASSUME NEW x \in 1 .. Len(t) PROVE t[x] # NUL
      <4>1. t[x] = s[x + 1] /\ x + 1 \in 1 .. Len(s)
        BY <1>1, <3>1, <3>2
      <4> QED
        BY <4>1, <3>1
    <3> QED
      BY <3>2, <3>3
  <2> HIDE DEF t
  <2>3. Terminated(t) = t \o <<NUL>>
    BY <2>2, TerminatedIs
  <2>4. n - 1 = i + Len(t) /\ n - 1 <= N /\ i \in 0 .. n - 1
    BY <1>1, <2>1, <2>2
  <2> QED
    BY <1>1, <2>1, <2>2, <2>3, <2>4, Edited
<1>7. ASSUME KeyBackspace PROVE IInv' /\ Kept
  <2>1. mode = "editing" /\ 0 < i /\ Write(Buf + i - 1, Terminated(s), i - 1, n - 1)
    BY <1>7 DEF KeyBackspace, s
  <2>2. s \in Seq(Chars) /\ Len(s) = n - i /\ \A x \in 1 .. Len(s) : s[x] # NUL
    BY <1>2 DEF s
  <2>3. Terminated(s) = s \o <<NUL>>
    BY <2>2, TerminatedIs
  <2>4. /\ n - 1 = (i - 1) + Len(s) /\ n - 1 <= N /\ i - 1 \in 0 .. n - 1
        /\ i - 1 \in 0 .. n /\ Buf + i - 1 = Buf + (i - 1)
    BY <1>1, <2>1, <2>2
  <2> QED
    BY <2>1, <2>2, <2>3, <2>4, Edited
<1>8. ASSUME KeyKill PROVE IInv' /\ Kept
  <2> DEFINE t == <<>>
  <2>1. mode = "editing" /\ Write(Buf + i, <<NUL>>, i, i)
    BY <1>8 DEF KeyKill
  <2>2. /\ t \in Seq(Chars) /\ Len(t) = 0 /\ <<NUL>> = t \o <<NUL>>
        /\ \A x \in 1 .. Len(t) : t[x] # NUL
    OBVIOUS
  <2>3. i = i + Len(t) /\ i <= N /\ i \in 0 .. i
    BY <1>1, <2>2
  <2> HIDE DEF t
  <2> QED
    BY <1>1, <2>1, <2>2, <2>3, Edited
<1> QED
  BY <1>4, <1>5, <1>6, <1>7, <1>8

LEMMA KeysThatMove ==
    ASSUME IInv, KeyRight \/ KeyLeft \/ UNCHANGED vars
    PROVE  IInv' /\ Kept
<1>1. /\ UNCHANGED <<history, lines, n, j, mode>>
      /\ i' \in 0 .. n
  <2>1. n \in Nat /\ i \in 0 .. n
    BY DEF IInv, TypeOK
  <2> QED
    BY <2>1 DEF KeyRight, KeyLeft, Stay, vars
<1> QED
  BY <1>1 DEF IInv, TypeOK, LengthIsCounted, OverrunInLastRow, Kept, Buf

-----------------------------------------------------------------------------
\* Recalling a line, and entering one.

\* A memory that differs from the history in the line only.
Tidy(m) ==
    /\ m \in Memory
    /\ \A x \in 0 .. Buf - 1 : m[x] = history[x]
    /\ \A x \in Buf + N .. Size - 1 : m[x] = NUL

LEMMA HistoryIsTidy == ASSUME IInv PROVE Tidy(history)
  BY LineIs DEF Tidy

\* Writing into the line keeps it so, when what comes to lie behind it is a NUL.
LEMMA PokeTidy ==
    ASSUME IInv, NEW m, Tidy(m),
           NEW d \in 0 .. N, NEW w \in Seq(Chars), d + Len(w) <= N + 1,
           d + Len(w) = N + 1 => w[Len(w)] = NUL
    PROVE  Tidy(Poke(m, Buf + d, w))
<1> DEFINE a == Buf + d
           l == Len(w)
           p == Poke(m, a, w)
<1> USE Constants
<1>1. Buf \in Nat /\ Buf + N <= Size
  BY LineIs
<1>2. l \in Nat /\ a \in Nat /\ a = Buf + d /\ d \in Nat /\ d <= N /\ d + l <= N + 1
  BY <1>1
<1>3. /\ p \in Memory
      /\ \A x \in 0 .. Size - 1 :
           /\ x \in a .. a + l - 1 => p[x] = w[x - a + 1]
           /\ x \notin a .. a + l - 1 => p[x] = m[x]
  <2>1. m \in Memory /\ a \in Nat /\ w \in Seq(Chars)
    BY <1>2 DEF Tidy
  <2> QED
    BY <2>1, PokeIs
<1> HIDE DEF a, p
<1>4. ASSUME NEW x \in 0 .. Buf - 1 PROVE p[x] = history[x]
  <2>1. x \in 0 .. Size - 1 /\ x \notin a .. a + l - 1
    BY <1>1, <1>2
  <2> QED
    BY <2>1, <1>3 DEF Tidy
<1>5. ASSUME NEW x \in Buf + N .. Size - 1 PROVE p[x] = NUL
  <2>1. x \in 0 .. Size - 1
    BY <1>1
  <2>2. CASE x \in a .. a + l - 1
    <3>1. d + l = N + 1 /\ x - a + 1 = l
      BY <2>1, <2>2, <1>1, <1>2
    <3> QED
      BY <3>1, <2>1, <2>2, <1>3
  <2>3. CASE x \notin a .. a + l - 1
    BY <2>1, <2>3, <1>3 DEF Tidy
  <2> QED
    BY <2>2, <2>3
<1> QED
  BY <1>3, <1>4, <1>5 DEF Tidy, a, p

LEMMA TidyLength ==
    ASSUME IInv, NEW m, Tidy(m)
    PROVE  StrLen(m, Buf) \in 0 .. N
<1> DEFINE k == StrLen(m, Buf)
<1> USE Constants
<1>1. Buf \in Nat /\ Buf + N <= Size
  BY LineIs
<1>2. m \in Memory /\ Buf \in 0 .. Size
  BY <1>1 DEF Tidy
<1>3. IsLength(m, Buf, k)
  BY <1>2, StrLenIsLength
<1> HIDE DEF k
<1>4. ASSUME k > N PROVE FALSE
  <2>1. Buf + N \in Buf .. Buf + k - 1 /\ Buf + N \in Buf + N .. Size - 1
    BY <1>1, <1>3, <1>4 DEF IsLength
  <2> QED
    BY <2>1, <1>3 DEF IsLength, Tidy
<1> QED
  BY <1>3, <1>4 DEF IsLength, k

\* A line replaced by another one, in the same row.
LEMMA Replaced ==
    ASSUME IInv, NEW m, Tidy(m), history' = m, lines' = lines,
           n' = StrLen(m, Buf), i' \in 0 .. n', j' \in 0 .. lines, mode' = mode
    PROVE  IInv' /\ Kept
<1>1. n' \in 0 .. N
  BY TidyLength
<1>2. TypeOK'
  BY <1>1 DEF IInv, TypeOK, Tidy, Memory
<1>3. Buf' = Buf /\ Row(lines' + 1) = Buf + N
  BY LineIs DEF Buf
<1>4. LengthIsCounted'
  BY <1>3 DEF LengthIsCounted, Tidy
<1>5. OverrunInLastRow'
  BY DEF IInv, OverrunInLastRow
<1>6. Kept
  BY DEF Kept, Tidy
<1> QED
  BY <1>2, <1>4, <1>5, <1>6 DEF IInv

LEMMA OverrunIs ==
    ASSUME IInv, Overrun, lines = H - 1
    PROVE  IInv' /\ Kept
  BY DEF Overrun, IInv, TypeOK, LengthIsCounted, OverrunInLastRow, Buf, Kept

LEMMA PaddedRow ==
    ASSUME IInv, NEW r \in 0 .. lines
    PROVE  Padded(RowText(r)) \in Seq(Chars) /\ Len(Padded(RowText(r))) = N
<1> DEFINE a == Row(r)
           L == StrLen(history, a)
           k == Min({N, L})
<1> USE Constants
<1>1. history \in Memory /\ a \in 0 .. Size
  <2>1. lines \in 0 .. H - 1 /\ history \in Memory
    BY DEF IInv, TypeOK, Memory
  <2>2. r \in 0 .. H - 1
    BY <2>1
  <2> QED
    BY <2>1, <2>2, Rows
<1>2. L \in Nat /\ a + L <= Size
  BY <1>1, StrLenIsLength DEF IsLength
<1> HIDE DEF L, a
<1>3. k \in Nat /\ k <= N /\ k <= L
  <2>1. {N, L} \in SUBSET Nat /\ {N, L} # {}
    BY <1>2
  <2> QED
    BY <2>1, MinOfNats
<1> HIDE DEF k
<1>4. ASSUME NEW x \in 1 .. k PROVE history[a + x - 1] \in Chars
  <2>1. a + x - 1 \in 0 .. Size - 1
    BY <1>1, <1>2, <1>3
  <2> QED
    BY <2>1, <1>1 DEF Memory
<1>5. RowText(r) = [x \in 1 .. k |-> history[a + x - 1]]
  BY DEF RowText, k, L, a
<1>6. RowText(r) \in Seq(Chars)
  BY <1>3, <1>4, <1>5
<1> DEFINE t == RowText(r)
<1> HIDE DEF t
<1>7. t \in Seq(Chars)
  BY <1>6 DEF t
<1>8. ASSUME NEW x \in 1 .. N PROVE (IF x <= Len(t) THEN t[x] ELSE NUL) \in Chars
  BY <1>7
<1>9. Padded(t) = [x \in 1 .. N |-> IF x <= Len(t) THEN t[x] ELSE NUL]
  BY DEF Padded
<1> QED
  BY <1>8, <1>9 DEF t

LEMMA KeysThatRecall ==
    ASSUME IInv, KeyUp \/ KeyDown
    PROVE  IInv' /\ Kept
<1> USE Constants
<1>1. Buf \in Nat /\ Buf + N <= Size /\ Buf = Buf + 0
  BY LineIs
<1>2. j \in 0 .. lines /\ lines \in 0 .. H - 1
  BY DEF IInv, TypeOK
<1>3. PICK r \in 0 .. lines : Recall(r) /\ mode = "editing"
  <2>1. CASE KeyUp
    <3>1. j - 1 \in 0 .. lines
      BY <1>2, <2>1 DEF KeyUp
    <3> QED
      BY <3>1, <2>1 DEF KeyUp
  <2>2. CASE KeyDown
    <3>1. j + 1 \in 0 .. lines
      BY <1>2, <2>2 DEF KeyDown
    <3> QED
      BY <3>1, <2>2 DEF KeyDown
  <2> QED
    BY <2>1, <2>2
<1> DEFINE m == IF r = lines THEN Poke(history, Buf, <<NUL>>)
                ELSE Poke(history, Buf, Padded(RowText(r)))
           len == StrLen(m, Buf)
<1>4. Tidy(m)
  <2>1. Tidy(history)
    BY HistoryIsTidy
  <2>2. Tidy(Poke(history, Buf, <<NUL>>))
    <3>1. /\ 0 \in 0 .. N /\ <<NUL>> \in Seq(Chars) /\ Len(<<NUL>>) = 1
          /\ 0 + Len(<<NUL>>) <= N + 1 /\ <<NUL>>[Len(<<NUL>>)] = NUL
      OBVIOUS
    <3>2. Tidy(Poke(history, Buf + 0, <<NUL>>))
      BY <2>1, <3>1, PokeTidy
    <3> QED
      BY <3>2, <1>1
  <2>3. Tidy(Poke(history, Buf, Padded(RowText(r))))
    <3> DEFINE w == Padded(RowText(r))
    <3>1. w \in Seq(Chars) /\ Len(w) = N
      BY PaddedRow
    <3> HIDE DEF w
    <3>2. 0 \in 0 .. N /\ 0 + Len(w) <= N + 1 /\ 0 + Len(w) # N + 1
      BY <3>1
    <3>3. Tidy(Poke(history, Buf + 0, w))
      BY <2>1, <3>1, <3>2, PokeTidy
    <3> QED
      BY <3>3, <1>1 DEF w
  <2> QED
    BY <2>2, <2>3
<1>5. IF Buf + len = Size THEN Overrun
      ELSE /\ history' = m /\ j' = r /\ i' = len /\ n' = len
           /\ UNCHANGED <<lines, mode>>
  BY <1>3 DEF Recall
<1> HIDE DEF m
<1>6. len \in 0 .. N
  BY <1>4, TidyLength
<1>7. CASE Buf + len = Size
  <2>1. lines = H - 1
    BY <1>1, <1>2, <1>6, <1>7, LineIs
  <2> QED
    BY <2>1, <1>5, <1>7, OverrunIs
<1>8. CASE Buf + len # Size
  <2>1. /\ history' = m /\ lines' = lines /\ n' = StrLen(m, Buf) /\ i' \in 0 .. n'
        /\ j' \in 0 .. lines /\ mode' = mode
    BY <1>5, <1>6, <1>8, <1>3
  <2> QED
    BY <2>1, <1>4, Replaced
<1> QED
  BY <1>7, <1>8

\* A set of numbers with a bound has a greatest one, which Max chooses.
LEMMA MaxUpTo ==
    ASSUME NEW k \in Nat, NEW S \in SUBSET (0 .. k), S # {}
    PROVE  Max(S) \in S /\ \A y \in S : y <= Max(S)
<1> DEFINE D == {k - x : x \in S}
<1>1. D \in SUBSET Nat /\ D # {}
  <2>1. \A x \in S : x \in 0 .. k /\ k - x \in Nat
    OBVIOUS
  <2>2. D \in SUBSET Nat
    BY <2>1
  <2>3. PICK x \in S : TRUE
    OBVIOUS
  <2>4. k - x \in D
    BY <2>3
  <2> QED
    BY <2>2, <2>4
<1>2. Min(D) \in D /\ \A y \in D : Min(D) <= y
  BY <1>1, MinOfNats
<1>3. PICK x \in S : Min(D) = k - x
  BY <1>2
<1>4. \A y \in S : x >= y
  <2> TAKE y \in S
  <2>1. k - y \in D
    OBVIOUS
  <2>2. k - x <= k - y
    BY <2>1, <1>2, <1>3
  <2> QED
    BY <2>2
<1>5. Max(S) \in S /\ \A y \in S : Max(S) >= y
  BY <1>4 DEF Max
<1> QED
  BY <1>5

LEMMA TrimIs ==
    ASSUME NEW s \in Seq(Chars)
    PROVE  Trim(s) \in Seq(Chars) /\ Len(Trim(s)) <= Len(s)
<1> DEFINE ink == {x \in DOMAIN s : s[x] # Blank}
<1>1. CASE ink = {}
  <2>1. Trim(s) = <<>>
    BY <1>1 DEF Trim
  <2> QED
    BY <2>1
<1>2. CASE ink # {}
  <2>1. ink \in SUBSET Nat /\ ink \in SUBSET (0 .. Len(s)) /\ ink \subseteq 1 .. Len(s)
    OBVIOUS
  <2>2. Min(ink) \in ink
    BY <2>1, <1>2, MinOfNats
  <2>3. Len(s) \in Nat
    OBVIOUS
  <2>4. Max(ink) \in ink
    BY <2>1, <2>3, <1>2, MaxUpTo
  <2>5. Trim(s) = SubSeq(s, Min(ink), Max(ink))
    BY <1>2 DEF Trim
  <2> DEFINE a == Min(ink)
             b == Max(ink)
  <2>6. a \in 1 .. Len(s) /\ b \in 1 .. Len(s)
    BY <2>1, <2>2, <2>4
  <2> HIDE DEF a, b, ink
  <2>7. SubSeq(s, a, b) \in Seq(Chars) /\ Len(SubSeq(s, a, b)) <= Len(s)
    BY <2>6
  <2> QED
    BY <2>5, <2>7 DEF a, b
<1> QED
  BY <1>1, <1>2

\* The face that matches is a part of the line.
LEMMA FaceFits ==
    ASSUME NEW s, Matching(s) # {}
    PROVE  Len(Command(s).face) \in Nat /\ Len(Command(s).face) <= Len(s)
<1> DEFINE k == Min(Matching(s))
<1>1. Len(CMDS) \in Nat /\ DOMAIN CMDS = 1 .. Len(CMDS)
  BY CommandsAssumption
<1>2. Matching(s) \in SUBSET Nat
  BY <1>1 DEF Matching
<1>3. k \in Matching(s)
  BY <1>2, MinOfNats
<1> HIDE DEF k
<1>4. k \in DOMAIN CMDS /\ IsPrefix(CMDS[k].face, s)
  BY <1>3 DEF Matching
<1>5. CMDS[k].face \in Seq(STRING)
  <2> DEFINE Record == [name : STRING, argc : {0, 1}, face : Seq(STRING)]
  <2>1. CMDS \in Seq(Record)
    BY CommandsAssumption
  <2> HIDE DEF Record
  <2>2. CMDS[k] \in Record
    BY <2>1, <1>1, <1>4
  <2> QED
    BY <2>2 DEF Record
<1> QED
  BY <1>4, <1>5 DEF Command, IsPrefix, k

LEMMA TerminatedFits ==
    ASSUME NEW t \in Seq(Chars)
    PROVE  /\ Terminated(t) \in Seq(Chars)
           /\ Len(Terminated(t)) = Len(t) + 1
           /\ Terminated(t)[Len(Terminated(t))] = NUL
           /\ Len(t) \in Nat
  BY Constants DEF Terminated

\* shell_fnc trims inside the line.
LEMMA TrimmedTidy ==
    ASSUME IInv, NEW m, Tidy(m)
    PROVE  Tidy(Trimmed(m, Buf))
<1> DEFINE s == String(m, Buf)
           f == Len(Command(s).face)
           t == Argument(s)
<1> USE Constants
<1>1. m \in Memory /\ Buf \in 0 .. Size
  BY LineIs DEF Tidy
<1>2. s \in Seq(Chars) /\ Len(s) \in 0 .. N
  BY <1>1, StringIs, TidyLength
<1> HIDE DEF s
<1>3. CASE Matching(s) = {}
  BY <1>3 DEF Trimmed, s
<1>4. CASE Matching(s) # {}
  <2>1. f \in Nat /\ f <= Len(s)
    BY <1>4, FaceFits
  <2>2. t = Trim(SubSeq(s, f + 1, Len(s)))
    BY DEF Argument
  <2> HIDE DEF f, t
  <2>3. SubSeq(s, f + 1, Len(s)) \in Seq(Chars) /\ Len(SubSeq(s, f + 1, Len(s))) = Len(s) - f
    BY <1>2, <2>1
  <2>4. t \in Seq(Chars) /\ Len(t) <= Len(s) - f
    BY <2>2, <2>3, TrimIs
  <2> DEFINE w == Terminated(t)
  <2>5. w \in Seq(Chars) /\ Len(w) = Len(t) + 1 /\ w[Len(w)] = NUL /\ Len(t) \in Nat
    BY <2>4, TerminatedFits
  <2>6. f \in 0 .. N /\ f + Len(w) <= N + 1
    BY <1>2, <2>1, <2>4, <2>5
  <2>7. Trimmed(m, Buf) = Poke(m, Buf + f, w)
    BY <1>4 DEF Trimmed, s, f, t
  <2> HIDE DEF w
  <2>8. Tidy(Poke(m, Buf + f, w))
    BY <2>5, <2>6, PokeTidy
  <2> QED
    BY <2>7, <2>8
<1> QED
  BY <1>3, <1>4

\* A line is entered, and editing goes on in the next row.
LEMMA Entered ==
    ASSUME IInv, NEW m, Tidy(m), lines # H - 1,
           history' = m, lines' = lines + 1, j' = lines + 1, i' = 0, n' = 0,
           mode' \in {"editing", "stopped"}
    PROVE  IInv' /\ Kept
<1> USE Constants
<1>1. /\ Buf \in Nat /\ (Buf + N) + N <= Size /\ Row(lines + 1) = Buf + N
      /\ lines \in 0 .. H - 1 /\ m \in Memory
  BY LineIs DEF IInv, TypeOK, Tidy
<1>2. lines + 1 \in 0 .. H - 1
  BY <1>1
<1>3. Row((lines + 1) + 1) = (Buf + N) + N
  BY <1>1, <1>2, Rows
<1>4. TypeOK'
  BY <1>1, <1>2 DEF TypeOK, Memory
<1>5. LengthIsCounted'
  <2>1. m[Buf + N] = NUL
    <3>1. Buf + N \in Buf + N .. Size - 1
      BY <1>1
    <3> QED
      BY <3>1 DEF Tidy
  <2>2. IsLength(m, Buf + N, 0)
    BY <1>1, <2>1 DEF IsLength
  <2>3. StrLen(m, Buf + N) = 0
    <3>1. Buf + N \in 0 .. Size
      BY <1>1
    <3> QED
      BY <3>1, <2>2, <1>1, LengthUnique
  <2>4. \A x \in (Buf + N) + N .. Size - 1 : m[x] = NUL
    BY <1>1 DEF Tidy
  <2>5. Buf' = Buf + N /\ Row(lines' + 1) = (Buf + N) + N
    BY <1>1, <1>3 DEF Buf
  <2> QED
    BY <2>3, <2>4, <2>5 DEF LengthIsCounted
<1>6. OverrunInLastRow'
  BY DEF OverrunInLastRow
<1>7. Kept
  BY DEF Kept, Tidy
<1> QED
  BY <1>4, <1>5, <1>6, <1>7 DEF IInv

LEMMA NewlineIs ==
    ASSUME IInv, KeyNewline
    PROVE  IInv' /\ Kept
<1> USE Constants
<1> DEFINE line == Trim(String(history, Buf))
           w == Terminated(line)
           m == Poke(history, Buf, w)
<1>1. Buf \in Nat /\ Buf + N <= Size /\ Buf = Buf + 0 /\ Row(lines + 1) = Buf + N
  BY LineIs
<1>2. line \in Seq(Chars) /\ Len(line) <= N
  <2>1. history \in Memory /\ Buf \in 0 .. Size
    BY LineIs
  <2>2. String(history, Buf) \in Seq(Chars) /\ Len(String(history, Buf)) \in 0 .. N
    BY <2>1, StringIs, LineIs DEF IInv, LengthIsCounted
  <2>3. line \in Seq(Chars) /\ Len(line) <= Len(String(history, Buf))
    BY <2>2, TrimIs
  <2>4. Len(line) \in Nat
    BY <2>3
  <2> HIDE DEF line
  <2> QED
    BY <2>2, <2>3, <2>4
<1>3. /\ mode = "editing"
      /\ IF line = <<>>
         THEN /\ history' = m /\ j' = lines /\ i' = 0 /\ n' = 0
              /\ UNCHANGED <<lines, mode>>
         ELSE IF lines + 1 = H THEN Overrun
         ELSE /\ history' = Trimmed(Poke(m, Row(lines + 1), <<NUL>>), Buf)
              /\ lines' = lines + 1 /\ j' = lines + 1 /\ i' = 0 /\ n' = 0
              /\ mode' \in {"editing", "stopped"}
  BY DEF KeyNewline
<1> HIDE DEF line
<1>4. w \in Seq(Chars) /\ Len(w) = Len(line) + 1 /\ w[Len(w)] = NUL /\ Len(line) \in Nat
  BY <1>2, TerminatedFits
<1>5. Tidy(m)
  <2> HIDE DEF w, m
  <2>1. 0 \in 0 .. N /\ 0 + Len(w) <= N + 1
    BY <1>2, <1>4
  <2>2. Tidy(Poke(history, Buf + 0, w))
    BY <2>1, <1>4, HistoryIsTidy, PokeTidy
  <2> QED
    BY <2>2, <1>1 DEF m
<1>6. CASE line = <<>>
  <2>1. m[Buf] = NUL /\ m \in Memory
    <3>1. w = <<NUL>>
      BY <1>6 DEF Terminated
    <3>2. /\ history \in Memory /\ Buf \in 0 .. Size - 1
          /\ Buf \in Buf .. Buf + Len(w) - 1 /\ w[(Buf - Buf) + 1] = NUL
          /\ w \in Seq(Chars)
      BY <3>1, <1>1, LineIs
    <3> HIDE DEF w
    <3>3. m[Buf] = w[Buf - Buf + 1]
      <4>1. Buf \in Nat
        BY <1>1
      <4>2. \A x \in 0 .. Size - 1 : x \in Buf .. Buf + Len(w) - 1 => m[x] = w[x - Buf + 1]
        BY <4>1, <3>2, PokeIs
      <4> HIDE DEF m
      <4> QED
        BY <4>2, <3>2
    <3> QED
      BY <3>2, <3>3, <1>1, <1>5 DEF Tidy
  <2> HIDE DEF m
  <2>2. StrLen(m, Buf) = 0
    <3>1. Buf \in 0 .. Size /\ IsLength(m, Buf, 0)
      BY <1>1, <2>1 DEF IsLength
    <3> QED
      BY <3>1, <2>1, LengthUnique
  <2>3. lines \in Nat
    BY DEF IInv, TypeOK
  <2>4. /\ history' = m /\ lines' = lines /\ n' = StrLen(m, Buf) /\ i' \in 0 .. n'
        /\ j' \in 0 .. lines /\ mode' = mode
    BY <1>3, <1>6, <2>2, <2>3
  <2> QED
    BY <2>4, <1>5, Replaced
<1>7. CASE line # <<>> /\ lines + 1 = H
  <2>1. lines = H - 1
    BY <1>7 DEF IInv, TypeOK
  <2> QED
    BY <2>1, <1>3, <1>7, OverrunIs
<1>8. CASE line # <<>> /\ lines + 1 # H
  <2> DEFINE m2 == Poke(m, Row(lines + 1), <<NUL>>)
  <2>1. Tidy(m2)
    <3> HIDE DEF m
    <3>1. /\ N \in 0 .. N /\ <<NUL>> \in Seq(Chars) /\ N + Len(<<NUL>>) <= N + 1
          /\ <<NUL>>[Len(<<NUL>>)] = NUL
      OBVIOUS
    <3>2. Tidy(Poke(m, Buf + N, <<NUL>>))
      BY <3>1, <1>5, PokeTidy
    <3> QED
      BY <3>2, <1>1
  <2>2. /\ history' = Trimmed(m2, Buf)
        /\ lines' = lines + 1 /\ j' = lines + 1 /\ i' = 0 /\ n' = 0
        /\ mode' \in {"editing", "stopped"}
    BY <1>3, <1>8
  <2> HIDE DEF m2
  <2>3. Tidy(Trimmed(m2, Buf))
    BY <2>1, TrimmedTidy
  <2>4. lines # H - 1
    BY <1>8 DEF IInv, TypeOK
  <2> QED
    BY <2>2, <2>3, <2>4, Entered
<1> QED
  BY <1>6, <1>7, <1>8

-----------------------------------------------------------------------------
LEMMA InitIInv == Init => IInv
<1> SUFFICES ASSUME Init PROVE IInv
  OBVIOUS
<1> USE Constants
<1>1. history = [x \in 0 .. Size - 1 |-> NUL] /\ lines = 0 /\ n = 0 /\ i = 0 /\ j = 0
      /\ mode = "editing"
  BY DEF Init
<1>2. history \in Memory
  BY <1>1 DEF Memory
<1>3. Row(0) = 0 /\ Row(0 + 1) = N /\ 0 \in 0 .. H - 1
  <2>1. 0 * N = 0 /\ (0 + 1) * N = N
    OBVIOUS
  <2> QED
    BY <2>1 DEF Row
<1>4. StrLen(history, 0) = 0
  <2>1. N <= Size
    BY <1>3, Rows
  <2>2. 0 \in 0 .. Size /\ IsLength(history, 0, 0)
    BY <2>1, <1>1 DEF IsLength
  <2> QED
    BY <2>2, <1>2, LengthUnique
<1>5. TypeOK
  BY <1>1, <1>2, <1>3 DEF TypeOK, Memory
<1>6. LengthIsCounted
  BY <1>1, <1>3, <1>4 DEF LengthIsCounted, Buf
<1> QED
  BY <1>1, <1>5, <1>6 DEF IInv, OverrunInLastRow

LEMMA NextIInv == IInv /\ [Next]_vars => IInv' /\ Kept
  BY KeysThatEdit, KeysThatMove, KeysThatRecall, NewlineIs DEF Next

LEMMA AlwaysIInv == Spec => []IInv
<1>1. IInv /\ [Next]_vars => IInv'
  BY NextIInv
<1> QED
  BY <1>1, InitIInv, PTL DEF Spec

\* Cursor, length and recalled row stay in their bounds (shell.c:76-184).
THEOREM TypeCorrect == Spec => []TypeOK
<1>1. IInv => TypeOK
  BY DEF IInv
<1> QED
  BY <1>1, AlwaysIInv, PTL

\* The length that the editor counts is that of the string in memory, for any
\* sequence of keys, and nothing was written behind the row (shell.c:92-184).
THEOREM CountedLength == Spec => []LengthIsCounted
<1>1. IInv => LengthIsCounted
  BY DEF IInv
<1> QED
  BY <1>1, AlwaysIInv, PTL

\* Only the last row is ever overrun (shell.c:157-166, 189-193).
THEOREM OverrunAtTheEnd == Spec => []OverrunInLastRow
<1>1. IInv => OverrunInLastRow
  BY DEF IInv
<1> QED
  BY <1>1, AlwaysIInv, PTL

\* No key changes the memory of a past line (shell.c:96-117).
THEOREM PastLinesKept == Spec => PastIsKept
<1>1. IInv /\ [Next]_vars => [\A x \in 0 .. Buf - 1 : history'[x] = history[x]]_vars
  BY NextIInv DEF Kept
<1> QED
  BY <1>1, AlwaysIInv, PTL DEF Spec, PastIsKept

-----------------------------------------------------------------------------
\* The editor's helpers are those of the shell.
LEMMA SameCommands ==
    ASSUME NEW s
    PROVE  /\ Editor!Trim(s) = Trim(s)
           /\ Editor!Meaning(s) = Meaning(s)
<1>1. ASSUME NEW S PROVE Editor!Min(S) = Min(S) /\ Editor!Max(S) = Max(S)
  BY DEF Editor!Min, Min, Editor!Max, Max
<1>2. ASSUME NEW t PROVE Editor!Trim(t) = Trim(t)
  BY <1>1 DEF Editor!Trim, Trim, Editor!Blank, Blank
<1>3. Editor!Matching(s) = Matching(s)
  BY DEF Editor!Matching, Matching, Editor!IsPrefix, IsPrefix
<1>4. Editor!Command(s) = Command(s)
  BY <1>1, <1>3 DEF Editor!Command, Command
<1>5. Editor!Argument(s) = Argument(s)
  BY <1>2, <1>4 DEF Editor!Argument, Argument
<1>6. Editor!Meaning(s) = Meaning(s)
  BY <1>3, <1>4, <1>5 DEF Editor!Meaning, Meaning, Editor!Refused, Refused
<1> QED
  BY <1>2, <1>6

-----------------------------------------------------------------------------
\* What the editor shows.

Text == String(history, Buf)
Past == [r \in 1 .. lines |-> RowText(r - 1)]

\* Two sequences of one length that agree everywhere are one.
LEMMA SameSeq ==
    ASSUME NEW S, NEW s \in Seq(S), NEW T, NEW t \in Seq(T), Len(s) = Len(t),
           \A x \in 1 .. Len(s) : s[x] = t[x]
    PROVE  s = t
  OBVIOUS

LEMMA Joined ==
    ASSUME NEW s \in Seq(Chars), NEW t \in Seq(Chars)
    PROVE  /\ s \o t \in Seq(Chars) /\ Len(s \o t) = Len(s) + Len(t)
           /\ Len(s) \in Nat /\ Len(t) \in Nat
           /\ \A x \in 1 .. Len(s) : (s \o t)[x] = s[x]
           /\ \A x \in 1 .. Len(t) : (s \o t)[Len(s) + x] = t[x]
  OBVIOUS


\* A part of a sequence: SubSeq, whose definition the provers would expand.
Part(s, a, b) == SubSeq(s, a, b)

\* In m2 the end of the string at b in m, from d on, is written over by t.
IsSplice(m, m2, b, d, t) ==
    /\ m \in Memory /\ m2 \in Memory /\ b \in Nat /\ d \in Nat /\ t \in Seq(Chars)
    /\ d <= StrLen(m, b)
    /\ b + d + Len(t) <= Size /\ StrLen(m2, b) = d + Len(t)
    /\ \A x \in b .. b + d - 1 : m2[x] = m[x]
    /\ \A x \in 1 .. Len(t) : m2[b + d + x - 1] = t[x]

LEMMA Spliced ==
    ASSUME NEW m, NEW m2, NEW b, NEW d, NEW t, IsSplice(m, m2, b, d, t)
    PROVE  String(m2, b) = Part(String(m, b), 1, d) \o t
<1> USE Constants DEF IsSplice
<1> DEFINE o == String(m, b)
           p == String(m2, b)
           c == SubSeq(o, 1, d)
           l == Len(t)
           k == StrLen(m, b)
<1>0. b \in 0 .. Size /\ l \in Nat
  OBVIOUS
<1>8. k \in Nat /\ b + k <= Size /\ d <= k
  BY <1>0, StrLenIsLength DEF IsLength
<1>1. /\ o \in Seq(Chars) /\ Len(o) = k
      /\ \A x \in 1 .. k : o[x] = m[b + x - 1]
  BY <1>0, StringIs
<1> HIDE DEF k
<1>2. /\ p \in Seq(Chars) /\ Len(p) = d + l
      /\ \A x \in 1 .. d + l : p[x] = m2[b + x - 1]
  BY <1>0, StringIs
<1> HIDE DEF o, p
<1>3. c \in Seq(Chars) /\ Len(c) = d /\ \A x \in 1 .. d : c[x] = o[x]
  BY <1>1, <1>8
<1> HIDE DEF c
<1>4. /\ c \o t \in Seq(Chars) /\ Len(c \o t) = Len(c) + Len(t)
      /\ \A x \in 1 .. Len(c) : (c \o t)[x] = c[x]
      /\ \A x \in 1 .. Len(t) : (c \o t)[Len(c) + x] = t[x]
  BY <1>3, Joined
<1> DEFINE q == c \o t
<1>5. /\ q \in Seq(Chars) /\ Len(q) = d + l
      /\ \A x \in 1 .. d : q[x] = o[x]
      /\ \A x \in 1 .. l : q[d + x] = t[x]
  BY <1>3, <1>4
<1> HIDE DEF q
<1>6. ASSUME NEW x \in 1 .. d + l PROVE p[x] = q[x]
  <2>1. p[x] = m2[b + x - 1]
    BY <1>2
  <2>2. CASE x <= d
    <3>1. x \in 1 .. d /\ x \in 1 .. k /\ b + x - 1 \in b .. b + d - 1
      BY <2>2, <1>0, <1>8
    <3> QED
      BY <2>1, <3>1, <1>1, <1>5
  <2>3. CASE x > d
    <3> DEFINE y == x - d
    <3>1. y \in 1 .. l /\ x = d + y /\ b + x - 1 = b + d + y - 1
      BY <2>3, <1>0
    <3> HIDE DEF y
    <3>2. q[x] = t[y] /\ m2[b + x - 1] = t[y]
      BY <3>1, <1>5
    <3> QED
      BY <2>1, <3>2
  <2> QED
    BY <2>2, <2>3, <1>0
<1>7. p = q
  BY <1>2, <1>5, <1>6, SameSeq
<1> QED
  BY <1>7 DEF p, q, o, c, Part

\* What a write does to the string, when the memory holds what is written.
Overwrites(m, b, d, t, s) ==
    /\ m \in Memory /\ b \in Nat /\ d \in 0 .. StrLen(m, b) /\ t \in Seq(Chars)
    /\ s \in Seq(Chars) /\ Len(s) = Len(t) + 1 /\ \A x \in 1 .. Len(t) : s[x] = t[x]
    /\ b + d + Len(s) <= Size /\ StrLen(Poke(m, b + d, s), b) = d + Len(t)

LEMMA SplicedByPoke ==
    ASSUME NEW m, NEW b, NEW d, NEW t, NEW s, Overwrites(m, b, d, t, s)
    PROVE  String(Poke(m, b + d, s), b) = Part(String(m, b), 1, d) \o t
<1>0. b \in Nat /\ b <= Size
  BY Constants DEF Overwrites
<1>9. StrLen(m, b) \in Nat
  BY <1>0, Constants, StrLenIsLength DEF Overwrites, IsLength
<1> USE Constants, <1>9 DEF Overwrites
<1> DEFINE a == b + d
           m2 == Poke(m, a, s)
<1>1. a \in Nat /\ Len(t) \in Nat /\ Len(s) \in Nat
  OBVIOUS
<1> HIDE DEF a
<1>2. /\ m2 \in Memory
      /\ \A x \in 0 .. Size - 1 :
           /\ x \in a .. a + Len(s) - 1 => m2[x] = s[x - a + 1]
           /\ x \notin a .. a + Len(s) - 1 => m2[x] = m[x]
  BY <1>1, PokeIs
<1> HIDE DEF m2
<1>3. \A x \in b .. b + d - 1 : m2[x] = m[x]
  <2> TAKE x \in b .. b + d - 1
  <2>1. x \in 0 .. Size - 1 /\ x \notin a .. a + Len(s) - 1
    BY <1>1 DEF a
  <2> QED
    BY <2>1, <1>2
<1>4. \A x \in 1 .. Len(t) : m2[b + d + x - 1] = t[x]
  <2> TAKE x \in 1 .. Len(t)
  <2> DEFINE y == b + d + x - 1
  <2>1. y \in 0 .. Size - 1 /\ y \in a .. a + Len(s) - 1 /\ y - a + 1 = x
    BY <1>1 DEF a
  <2> HIDE DEF y
  <2>2. m2[y] = t[x]
    BY <2>1, <1>2
  <2> QED
    BY <2>2 DEF y
<1>5. b + d + Len(t) <= Size /\ StrLen(m2, b) = d + Len(t)
  BY <1>1 DEF m2, a
<1>6. IsSplice(m, m2, b, d, t)
  BY <1>2, <1>3, <1>4, <1>5 DEF IsSplice
<1>7. String(m2, b) = Part(String(m, b), 1, d) \o t
  BY <1>6, Spliced
<1> QED
  BY <1>7 DEF m2, a


\* The line after a write, when it stays in the memory.
LEMMA TextWritten ==
    ASSUME IInv, mode = "editing",
           NEW d \in 0 .. n, NEW t \in Seq(Chars),
           \A x \in 1 .. Len(t) : t[x] # NUL,
           d + Len(t) <= N, NEW ii \in 0 .. d + Len(t),
           Write(Buf + d, Terminated(t), ii, d + Len(t)), ~ Overrun
    PROVE  /\ i' = ii /\ UNCHANGED <<lines, j, mode>>
           /\ Text' = Part(Text, 1, d) \o t
<1> DEFINE s == Terminated(t)
<1>1. /\ history \in Memory /\ Buf \in Nat /\ Buf + N <= Size
      /\ n \in 0 .. N /\ n \in Nat /\ d \in Nat /\ d <= n
      /\ n <= N /\ Size \in Nat
  BY LineIs, Constants
<1>6. /\ s \in Seq(Chars) /\ Len(s) = Len(t) + 1 /\ \A x \in 1 .. Len(t) : s[x] = t[x]
  BY Constants DEF Terminated
<1>10. s = t \o <<NUL>>
  BY TerminatedIs
<1>11. Write(Buf + d, s, ii, d + Len(t))
  OBVIOUS
<1> HIDE DEF s
<1>3. IInv'
  BY <1>10, <1>11, WrittenToTheEnd
<1>2. /\ history' = Poke(history, Buf + d, s) /\ Buf + d + Len(s) <= Size
      /\ i' = ii /\ n' = d + Len(t) /\ UNCHANGED <<lines, j, mode>>
  <2>1. Buf + d + Len(s) \in Nat
    BY <1>1, <1>6
  <2> QED
    BY <2>1, <1>1, <1>11 DEF Write
<1>4. Buf' = Buf
  BY <1>2 DEF Buf
<1>5. StrLen(history, Buf) = n /\ StrLen(history', Buf) = d + Len(t)
  BY <1>2, <1>3, <1>4 DEF IInv, LengthIsCounted
<1>7. d \in 0 .. StrLen(history, Buf) /\ StrLen(Poke(history, Buf + d, s), Buf) = d + Len(t)
  BY <1>1, <1>2, <1>5
<1>8. Overwrites(history, Buf, d, t, s)
  BY <1>1, <1>2, <1>6, <1>7 DEF Overwrites
<1>9. String(Poke(history, Buf + d, s), Buf) = Part(String(history, Buf), 1, d) \o t
  BY <1>8, SplicedByPoke
<1> QED
  BY <1>2, <1>4, <1>9 DEF Text

-----------------------------------------------------------------------------
\* The rows of past lines.

\* The text at a, cut off at N characters, has the length k.
IsCut(m, a, k) ==
    /\ k \in 0 .. N
    /\ \A x \in a .. a + k - 1 : m[x] # NUL
    /\ k = N \/ m[a + k] = NUL

RowOf(m, r) == [x \in 1 .. Min({N, StrLen(m, Row(r))}) |-> m[Row(r) + x - 1]]

LEMMA CutIs ==
    ASSUME NEW m \in Memory, NEW r \in 0 .. H - 1
    PROVE  IsCut(m, Row(r), Min({N, StrLen(m, Row(r))}))
<1> DEFINE a == Row(r)
           l == StrLen(m, a)
           k == Min({N, l})
<1> USE Constants
<1>1. a \in Nat /\ a + N <= Size
  BY Rows
<1>2. IsLength(m, a, l)
  BY <1>1, StrLenIsLength
<1> HIDE DEF a, l
<1>3. l \in Nat
  BY <1>2 DEF IsLength
<1>4. k \in {N, l} /\ k <= N /\ k <= l
  <2>1. {N, l} \in SUBSET Nat /\ {N, l} # {}
    BY <1>3
  <2> QED
    BY <2>1, MinOfNats
<1> HIDE DEF k
<1>5. k \in 0 .. N
  BY <1>3, <1>4
<1>6. \A x \in a .. a + k - 1 : m[x] # NUL
  <2> TAKE x \in a .. a + k - 1
  <2>1. x \in a .. a + l - 1
    BY <1>1, <1>3, <1>4, <1>5
  <2> QED
    BY <2>1, <1>2 DEF IsLength
<1>7. k = N \/ m[a + k] = NUL
  <2> SUFFICES ASSUME k # N PROVE m[a + k] = NUL
    OBVIOUS
  <2>1. k = l /\ l < N
    BY <1>3, <1>4
  <2>2. a + l # Size
    BY <2>1, <1>1, <1>3
  <2> QED
    BY <2>1, <2>2, <1>2 DEF IsLength
<1> QED
  BY <1>5, <1>6, <1>7 DEF IsCut, k, l, a

LEMMA CutUnique ==
    ASSUME NEW m, NEW a \in Nat, NEW k, NEW l, IsCut(m, a, k), IsCut(m, a, l)
    PROVE  k = l
<1> USE Constants DEF IsCut
<1>1. CASE k < l
  <2>1. a + k \in a .. a + l - 1 /\ k # N
    BY <1>1
  <2> QED
    BY <2>1
<1>2. CASE l < k
  <2>1. a + l \in a .. a + k - 1 /\ l # N
    BY <1>2
  <2> QED
    BY <2>1
<1> QED
  BY <1>1, <1>2

\* Whatever has the length of the cut is the text of the row.
LEMMA RowByCut ==
    ASSUME NEW m \in Memory, NEW r \in 0 .. H - 1, NEW k, IsCut(m, Row(r), k)
    PROVE  RowOf(m, r) = [x \in 1 .. k |-> m[Row(r) + x - 1]]
<1>1. Row(r) \in Nat
  BY Rows
<1>2. k = Min({N, StrLen(m, Row(r))})
  BY <1>1, CutIs, CutUnique
<1> QED
  BY <1>2 DEF RowOf

LEMMA RowIs ==
    ASSUME NEW m \in Memory, NEW r \in 0 .. H - 1
    PROVE  /\ RowOf(m, r) \in Seq(Chars) /\ Len(RowOf(m, r)) \in 0 .. N
           /\ \A x \in 1 .. Len(RowOf(m, r)) :
                RowOf(m, r)[x] = m[Row(r) + x - 1] /\ RowOf(m, r)[x] # NUL
           /\ IsCut(m, Row(r), Len(RowOf(m, r)))
<1> USE Constants
<1> DEFINE a == Row(r)
           k == Min({N, StrLen(m, Row(r))})
<1>1. a \in Nat /\ a + N <= Size
  BY Rows
<1>2. IsCut(m, a, k)
  BY CutIs
<1>3. RowOf(m, r) = [x \in 1 .. k |-> m[a + x - 1]]
  BY DEF RowOf
<1> HIDE DEF a, k
<1>4. ASSUME NEW x \in 1 .. k PROVE m[a + x - 1] \in Chars /\ m[a + x - 1] # NUL
  <2>1. a + x - 1 \in 0 .. Size - 1 /\ a + x - 1 \in a .. a + k - 1
    BY <1>1, <1>2 DEF IsCut
  <2> QED
    BY <2>1, <1>2 DEF IsCut, Memory
<1> DEFINE t == [x \in 1 .. k |-> m[a + x - 1]]
<1>5. k \in 0 .. N
  BY <1>2 DEF IsCut
<1>6. t \in Seq(Chars) /\ Len(t) = k
  BY <1>4, <1>5
<1>7. \A x \in 1 .. k : t[x] = m[a + x - 1] /\ t[x] # NUL
  BY <1>4
<1> HIDE DEF t
<1> QED
  BY <1>2, <1>3, <1>5, <1>6, <1>7 DEF t, a

\* Two memories that agree on a row hold the same text there.
LEMMA SameRow ==
    ASSUME NEW m \in Memory, NEW m2 \in Memory, NEW r \in 0 .. H - 1,
           \A x \in Row(r) .. Row(r) + N - 1 : m2[x] = m[x]
    PROVE  RowOf(m2, r) = RowOf(m, r)
<1> USE Constants
<1> DEFINE a == Row(r)
           k == Min({N, StrLen(m, Row(r))})
<1>1. a \in Nat /\ a + N <= Size
  BY Rows
<1>2. IsCut(m, a, k)
  BY CutIs
<1> HIDE DEF a, k
<1>3. k \in 0 .. N
  BY <1>2 DEF IsCut
<1>4. \A x \in a .. a + k - 1 : m2[x] = m[x]
  BY <1>1, <1>3 DEF a
<1>5. k = N \/ m2[a + k] = m[a + k]
  <2> SUFFICES ASSUME k # N PROVE m2[a + k] = m[a + k]
    OBVIOUS
  <2>1. a + k \in a .. a + N - 1
    BY <1>1, <1>3
  <2> QED
    BY <2>1 DEF a
<1>6. IsCut(m2, a, k)
  BY <1>2, <1>4, <1>5 DEF IsCut
<1>7. /\ RowOf(m, r) = [x \in 1 .. k |-> m[a + x - 1]]
      /\ RowOf(m2, r) = [x \in 1 .. k |-> m2[a + x - 1]]
  BY <1>2, <1>6, RowByCut DEF a
<1>8. \A x \in 1 .. k : m2[a + x - 1] = m[a + x - 1]
  <2> TAKE x \in 1 .. k
  <2>1. a + x - 1 \in a .. a + k - 1
    BY <1>1, <1>3
  <2> QED
    BY <2>1, <1>4
<1> QED
  BY <1>7, <1>8

\* What is kept below the line keeps the texts of the past.
LEMMA PastRows ==
    ASSUME IInv, IInv', Kept, NEW r \in 0 .. lines - 1
    PROVE  RowText(r)' = RowText(r)
<1>1. history \in Memory /\ history' \in Memory /\ lines \in 0 .. H - 1
  BY DEF IInv, TypeOK, Memory
<1>2. r \in 0 .. H - 1 /\ r + 1 \in 0 .. lines /\ r + 1 \in 0 .. H - 1
  BY <1>1, Constants
<1>3. Row(r) \in Nat /\ Row(r) + N <= Buf /\ Buf \in Nat
  <2>1. Row(r + 1) = Row(r) + N /\ Row(r) \in Nat
    BY <1>2, Rows
  <2>2. Row(r + 1) <= Row(lines)
    BY <1>1, <1>2, RowsBelow
  <2> QED
    BY <2>1, <2>2, LineIs DEF Buf
<1>4. \A x \in Row(r) .. Row(r) + N - 1 : history'[x] = history[x]
  <2> TAKE x \in Row(r) .. Row(r) + N - 1
  <2>1. x \in 0 .. Buf - 1
    BY <1>3, Constants
  <2> QED
    BY <2>1 DEF Kept
<1>5. RowOf(history', r) = RowOf(history, r)
  BY <1>1, <1>2, <1>4, SameRow
<1> QED
  BY <1>5 DEF RowText, RowOf

-----------------------------------------------------------------------------
\* The keys that edit the line do so for the editor.

EditorStep == Editor!Next \/ UNCHANGED Editor!vars

LEMMA EditorShows ==
    ASSUME mode # "stopped"
    PROVE  /\ Editor!Left = Part(Text, 1, i) /\ Editor!Right = After
           /\ Editor!Trim(Text) = Trim(Text)
  BY SameCommands DEF Editor!Left, Editor!Right, Text, Part, After

LEMMA PastUnchanged ==
    ASSUME IInv, IInv', Kept, lines' = lines
    PROVE  Past' = Past
<1>1. lines \in Nat
  BY DEF IInv, TypeOK
<1>2. \A r \in 1 .. lines : RowText(r - 1)' = RowText(r - 1)
  <2> TAKE r \in 1 .. lines
  <2> DEFINE q == r - 1
  <2>1. q \in 0 .. lines - 1
    BY <1>1
  <2> HIDE DEF q
  <2>2. RowText(q)' = RowText(q)
    BY <2>1, PastRows
  <2> QED
    BY <2>2 DEF q
<1> QED
  BY <1>2 DEF Past

LEMMA OverrunStutters ==
    ASSUME mode = "editing", Overrun
    PROVE  EditorStep
<1>1. UNCHANGED <<history, lines, i, j>> /\ mode # "stopped" /\ mode' # "stopped"
  BY DEF Overrun
<1>2. RowText(0)' = RowText(0) /\ \A r \in 1 .. lines : RowText(r - 1)' = RowText(r - 1)
  BY <1>1 DEF RowText
<1> QED
  BY <1>1, <1>2 DEF EditorStep, Editor!vars, String, Buf

LEMMA EditsIs ==
    ASSUME IInv, IInv', Kept, mode = "editing", mode' = "editing",
           lines' = lines, j' = j, NEW s, Text' = s, NEW c, i' = c
    PROVE  Editor!Edits(s, c)
<1>1. Past' = Past
  BY PastUnchanged
<1> QED
  BY <1>1 DEF Editor!Edits, Editor!Shows, Past, Text

LEMMA Assoc ==
    ASSUME NEW s \in Seq(Chars), NEW t \in Seq(Chars), NEW u \in Seq(Chars)
    PROVE  s \o (t \o u) = (s \o t) \o u
  OBVIOUS

LEMMA PartIs ==
    ASSUME NEW s \in Seq(Chars), NEW d \in 0 .. Len(s)
    PROVE  /\ Part(s, 1, d) \in Seq(Chars) /\ Len(Part(s, 1, d)) = d
           /\ Part(s, 1, d) \o <<>> = Part(s, 1, d)
           /\ d > 0 => Editor!Front(Part(s, 1, d)) = Part(s, 1, d - 1)
<1>1. Len(s) \in Nat /\ d \in Nat
  OBVIOUS
<1>2. Part(s, 1, d) \in Seq(Chars) /\ Len(Part(s, 1, d)) = d
  BY <1>1 DEF Part
<1> DEFINE p == Part(s, 1, d)
<1>3. p \o <<>> = p
  <2> HIDE DEF p
  <2> QED
    BY <1>2 DEF p
<1>4. ASSUME d > 0 PROVE Editor!Front(Part(s, 1, d)) = Part(s, 1, d - 1)
  <2>1. Editor!Front(p) = SubSeq(p, 1, d - 1)
    BY <1>2 DEF Editor!Front
  <2>2. \A x \in 1 .. d - 1 : p[x] = s[x]
    BY <1>1 DEF Part
  <2> HIDE DEF p
  <2>3. /\ SubSeq(p, 1, d - 1) \in Seq(Chars) /\ Len(SubSeq(p, 1, d - 1)) = d - 1
        /\ \A x \in 1 .. d - 1 : SubSeq(p, 1, d - 1)[x] = p[x]
    BY <1>1, <1>2, <1>4 DEF p
  <2>4. /\ Part(s, 1, d - 1) \in Seq(Chars) /\ Len(Part(s, 1, d - 1)) = d - 1
        /\ \A x \in 1 .. d - 1 : Part(s, 1, d - 1)[x] = s[x]
    BY <1>1, <1>4 DEF Part
  <2> DEFINE a == SubSeq(p, 1, d - 1)
             b == Part(s, 1, d - 1)
  <2> HIDE DEF a, b
  <2>5. a \in Seq(Chars) /\ b \in Seq(Chars) /\ Len(a) = Len(b)
        /\ \A x \in 1 .. Len(a) : a[x] = b[x]
    BY <2>2, <2>3, <2>4 DEF a, b
  <2>6. a = b
    BY <2>5, SameSeq
  <2> QED
    BY <2>1, <2>6 DEF a, b, p
<1> QED
  BY <1>2, <1>3, <1>4

LEMMA TextIs ==
    ASSUME IInv
    PROVE  /\ Text \in Seq(Chars) /\ Len(Text) = n /\ n \in 0 .. N /\ i \in 0 .. n
           /\ After \in Seq(Chars) /\ Len(After) = n - i
           /\ \A x \in 1 .. Len(After) : After[x] # NUL
           /\ \A x \in 1 .. n : Text[x] = history[Buf + x - 1] /\ Text[x] # NUL
<1>1. history \in Memory /\ Buf \in 0 .. Size /\ n \in Nat /\ i \in 0 .. n /\ n \in 0 .. N
  BY LineIs, Constants
<1>2. StrLen(history, Buf) = n
  BY DEF IInv, LengthIsCounted
<1> QED
  BY <1>1, <1>2, StringIs, AfterIs DEF Text

\* A write that makes d characters of the line and t the new line.
LEMMA KeyEdits ==
    ASSUME IInv, mode = "editing",
           NEW d \in 0 .. n, NEW t \in Seq(Chars),
           \A x \in 1 .. Len(t) : t[x] # NUL,
           d + Len(t) <= N, NEW ii \in 0 .. d + Len(t),
           Write(Buf + d, Terminated(t), ii, d + Len(t)), ~ Overrun
    PROVE  Editor!Edits(Part(Text, 1, d) \o t, ii)
<1>1. Write(Buf + d, t \o <<NUL>>, ii, d + Len(t))
  BY TerminatedIs
<1>2. IInv' /\ Kept
  BY <1>1, WrittenToTheEnd
<1>3. /\ i' = ii /\ lines' = lines /\ j' = j /\ mode' = "editing"
      /\ Text' = Part(Text, 1, d) \o t
  BY TextWritten
<1> QED
  BY <1>2, <1>3, EditsIs

LEMMA OneMore ==
    ASSUME NEW c \in Chars, c # NUL, NEW s \in Seq(Chars), \A x \in 1 .. Len(s) : s[x] # NUL
    PROVE  /\ <<c>> \o s \in Seq(Chars) /\ Len(<<c>> \o s) = Len(s) + 1
           /\ \A x \in 1 .. Len(<<c>> \o s) : (<<c>> \o s)[x] # NUL
           /\ Terminated(<<c>> \o s) = (<<c>> \o s) \o <<NUL>>
           /\ Terminated(<<c>> \o s) = <<c>> \o Terminated(s)
<1> USE Constants
<1> DEFINE t == <<c>> \o s
<1>1. t \in Seq(Chars) /\ Len(t) = Len(s) + 1 /\ Len(s) \in Nat
  OBVIOUS
<1>2. ASSUME NEW x \in 1 .. Len(s) + 1 PROVE t[x] # NUL
  <2>1. t[x] = IF x = 1 THEN c ELSE s[x - 1]
    BY <1>1
  <2>2. x # 1 => x - 1 \in 1 .. Len(s)
    BY <1>1
  <2> QED
    BY <2>1, <2>2
<1>3. Terminated(s) = s \o <<NUL>> /\ <<c>> \in Seq(Chars) /\ <<NUL>> \in Seq(Chars)
  BY TerminatedIs
<1>4. <<c>> \o (s \o <<NUL>>) = (<<c>> \o s) \o <<NUL>>
  BY <1>3, Assoc
<1>5. Terminated(t) = t \o <<NUL>>
  <2> HIDE DEF t
  <2> QED
    BY <1>1, TerminatedIs
<1> QED
  BY <1>1, <1>2, <1>3, <1>4, <1>5

\* A character is typed.
LEMMA TypesIs ==
    ASSUME IInv, mode = "editing", n < N, ~ Overrun,
           NEW c \in Letters \cup {Blank},
           Write(Buf + i, Terminated(<<c>> \o After), i + 1, n + 1)
    PROVE  Editor!Type
<1> USE Constants
<1> DEFINE t == <<c>> \o After
           left == Part(Text, 1, i)
<1>1. /\ Text \in Seq(Chars) /\ Len(Text) = n /\ n \in Nat /\ i \in 0 .. n
      /\ After \in Seq(Chars) /\ Len(After) = n - i
      /\ \A x \in 1 .. Len(After) : After[x] # NUL
  BY TextIs
<1>2. c \in Chars /\ c # NUL
  BY DEF Chars
<1>3. t \in Seq(Chars) /\ Len(t) = Len(After) + 1 /\ \A x \in 1 .. Len(t) : t[x] # NUL
  BY <1>1, <1>2, OneMore
<1>4. left \in Seq(Chars) /\ <<c>> \in Seq(Chars)
  BY <1>1, <1>2, PartIs
<1>5. left \o t = (left \o <<c>>) \o After
  BY <1>1, <1>4, Assoc
<1>6. Write(Buf + i, Terminated(t), i + 1, n + 1)
  OBVIOUS
<1> HIDE DEF t, left
<1>7. i + Len(t) = n + 1 /\ i + Len(t) <= N /\ i + 1 \in 0 .. i + Len(t)
  BY <1>1, <1>3
<1>8. Editor!Edits(Part(Text, 1, i) \o t, i + 1)
  BY <1>1, <1>3, <1>6, <1>7, KeyEdits
<1>9. mode # "stopped" /\ Len(Text) < N
  BY <1>1
<1>10. Editor!Left = left /\ Editor!Right = After /\ Editor!Blank = Blank
  BY <1>9, EditorShows DEF left, Editor!Blank, Blank
<1>11. Editor!Edits((Editor!Left \o <<c>>) \o Editor!Right, i + 1)
  BY <1>5, <1>8, <1>10 DEF left
<1> QED
  BY <1>9, <1>10, <1>11 DEF Editor!Type, Text

LEMMA KeysEdit ==
    ASSUME IInv, ~ Overrun,
           (\E c \in Letters : KeyLetter(c)) \/ KeyBlank \/ KeyDelete \/ KeyBackspace \/ KeyKill
    PROVE  Editor!Type \/ Editor!Delete \/ Editor!Rubout \/ Editor!Cut
<1> USE Constants
<1> DEFINE s == After
           left == Part(Text, 1, i)
<1>0. mode = "editing"
  BY DEF KeyLetter, KeyBlank, KeyDelete, KeyBackspace, KeyKill
<1>1. /\ Text \in Seq(Chars) /\ Len(Text) = n /\ n \in Nat /\ i \in 0 .. n /\ i \in Nat /\ n <= N
      /\ s \in Seq(Chars) /\ Len(s) = n - i /\ \A x \in 1 .. Len(s) : s[x] # NUL
      /\ Buf \in Nat
  BY TextIs, LineIs
<1>2. Editor!Left = left /\ Editor!Right = s
  BY <1>0, EditorShows
<1>3. /\ left \o <<>> = left
      /\ i > 0 => Editor!Front(left) = Part(Text, 1, i - 1)
  BY <1>1, PartIs
<1>4. ASSUME NEW c \in Letters, KeyLetter(c) PROVE Editor!Type
  <2>1. Terminated(<<c>> \o After) = (<<c>> \o After) \o <<NUL>>
    BY <1>1, OneMore DEF Chars
  <2>2. n + 1 < N /\ Write(Buf + i, Terminated(<<c>> \o After), i + 1, n + 1)
    BY <1>4, <2>1 DEF KeyLetter
  <2> QED
    BY <2>2, <1>0, <1>1, TypesIs
<1>5. ASSUME KeyBlank PROVE Editor!Type
  <2>1. Terminated(<<Blank>> \o After) = <<Blank>> \o Terminated(After)
    BY <1>1, OneMore
  <2>2. n < N /\ Write(Buf + i, Terminated(<<Blank>> \o After), i + 1, n + 1)
    BY <1>1, <1>5, <2>1 DEF KeyBlank
  <2> QED
    BY <2>2, <1>0, TypesIs
<1> HIDE DEF s, left
<1>6. ASSUME KeyDelete PROVE Editor!Delete
  <2> DEFINE t == Tail(s)
  <2>1. n > i /\ Write(Buf + i, Terminated(t), i, n - 1)
    BY <1>6 DEF KeyDelete, s
  <2>2. /\ s # <<>> /\ t \in Seq(Chars) /\ Len(t) = n - i - 1
    BY <1>1, <2>1
  <2>3. \A x \in 1 .. Len(t) : t[x] # NUL
    <3> TAKE x \in 1 .. Len(t)
    <3>1. t[x] = s[x + 1] /\ x + 1 \in 1 .. Len(s)
      BY <1>1, <2>1, <2>2
    <3> QED
      BY <3>1, <1>1
  <2>4. t = Tail(Editor!Right)
    BY <1>2
  <2> HIDE DEF t
  <2>5. n - 1 = i + Len(t) /\ i + Len(t) <= N /\ i \in 0 .. i + Len(t)
    BY <1>1, <2>1, <2>2
  <2>6. Editor!Edits(Part(Text, 1, i) \o t, i)
    BY <1>0, <1>1, <2>1, <2>2, <2>3, <2>5, KeyEdits
  <2>7. Editor!Edits(Editor!Left \o Tail(Editor!Right), i)
    BY <2>4, <2>6, <1>2 DEF left
  <2> QED
    BY <2>2, <2>7, <1>2 DEF Editor!Delete
<1>7. ASSUME KeyBackspace PROVE Editor!Rubout
  <2> DEFINE d == i - 1
  <2>1. 0 < i /\ Write(Buf + i - 1, Terminated(s), i - 1, n - 1)
    BY <1>7 DEF KeyBackspace, s
  <2>2. /\ d \in 0 .. n /\ Buf + i - 1 = Buf + d /\ n - 1 = d + Len(s)
        /\ d + Len(s) <= N /\ d \in 0 .. d + Len(s)
    BY <1>1, <2>1
  <2>3. Write(Buf + d, Terminated(s), d, d + Len(s))
    BY <2>1, <2>2
  <2> HIDE DEF d
  <2>4. Editor!Edits(Part(Text, 1, d) \o s, d)
    BY <1>0, <1>1, <2>2, <2>3, KeyEdits
  <2>5. Editor!Edits(Editor!Front(Editor!Left) \o Editor!Right, i - 1)
    BY <2>1, <2>4, <1>2, <1>3 DEF d
  <2> QED
    BY <2>1, <2>5 DEF Editor!Rubout
<1>8. ASSUME KeyKill PROVE Editor!Cut
  <2> DEFINE t == <<>>
  <2>1. Write(Buf + i, <<NUL>>, i, i)
    BY <1>8 DEF KeyKill
  <2>2. /\ t \in Seq(Chars) /\ Len(t) = 0 /\ Terminated(t) = <<NUL>>
        /\ \A x \in 1 .. Len(t) : t[x] # NUL
    BY DEF Terminated
  <2>4. left \o t = left
    BY <1>3
  <2> HIDE DEF t
  <2>3. i + Len(t) = i /\ i + Len(t) <= N /\ i \in 0 .. i + Len(t)
    BY <1>1, <2>2
  <2>5. Write(Buf + i, Terminated(t), i, i + Len(t))
    BY <2>1, <2>2, <2>3
  <2>6. Editor!Edits(Part(Text, 1, i) \o t, i)
    BY <1>0, <1>1, <2>2, <2>3, <2>5, KeyEdits
  <2>7. Editor!Edits(Editor!Left, i)
    BY <2>4, <2>6, <1>2 DEF left
  <2> QED
    BY <2>7 DEF Editor!Cut
<1> QED
  BY <1>4, <1>5, <1>6, <1>7, <1>8

LEMMA KeysMove ==
    ASSUME IInv, KeyRight \/ KeyLeft
    PROVE  Editor!Move
<1>1. /\ mode = "editing" /\ UNCHANGED <<history, lines, n, j, mode>>
      /\ i' \in {i - 1, i + 1} /\ i' \in 0 .. n
  <2>1. n \in Nat /\ i \in 0 .. n
    BY DEF IInv, TypeOK
  <2> QED
    BY <2>1 DEF KeyRight, KeyLeft, Stay
<1>2. IInv' /\ Kept
  BY KeysThatMove
<1>3. Text' = Text
  BY <1>1 DEF Text, String, Buf
<1>4. Editor!Edits(Text, i')
  BY <1>1, <1>2, <1>3, EditsIs
<1>5. i' \in {i - 1, i + 1} \cap 0 .. Len(Text)
  BY <1>1, TextIs
<1> QED
  BY <1>1, <1>4, <1>5 DEF Editor!Move, Text

-----------------------------------------------------------------------------
\* Recalling a line.

\* A memory that is tidy and holds, at the line, text and a NUL behind it.
LEMMA HoldsLine ==
    ASSUME IInv, NEW m, Tidy(m), NEW u \in Seq(Chars), Len(u) <= N,
           \A x \in 1 .. Len(u) : u[x] # NUL /\ m[Buf + x - 1] = u[x],
           Len(u) < N => m[Buf + Len(u)] = NUL
    PROVE  String(m, Buf) = u /\ StrLen(m, Buf) = Len(u)
<1> USE Constants
<1> DEFINE l == Len(u)
<1>1. Buf \in Nat /\ Buf + N <= Size /\ m \in Memory /\ Buf \in 0 .. Size /\ l \in Nat
  BY LineIs DEF Tidy
<1>2. \A x \in Buf .. Buf + l - 1 : m[x] # NUL
  <2> TAKE x \in Buf .. Buf + l - 1
  <2> DEFINE y == x - Buf + 1
  <2>1. y \in 1 .. l /\ Buf + y - 1 = x
    BY <1>1
  <2> HIDE DEF y
  <2> QED
    BY <2>1
<1>3. Buf + l = Size \/ m[Buf + l] = NUL
  <2>1. CASE l < N
    BY <2>1
  <2>2. CASE l = N
    <3>1. Buf + N = Size \/ Buf + N \in Buf + N .. Size - 1
      BY <1>1
    <3> QED
      BY <2>2, <3>1 DEF Tidy
  <2> QED
    BY <2>1, <2>2, <1>1
<1>4. IsLength(m, Buf, l)
  BY <1>1, <1>2, <1>3 DEF IsLength
<1>5. StrLen(m, Buf) = l
  BY <1>1, <1>4, LengthUnique
<1> DEFINE p == String(m, Buf)
<1>6. p \in Seq(Chars) /\ Len(p) = l /\ \A x \in 1 .. l : p[x] = m[Buf + x - 1]
  BY <1>1, <1>5, StringIs
<1> HIDE DEF p
<1>7. p = u
  BY <1>6, SameSeq
<1> QED
  BY <1>5, <1>7 DEF p

LEMMA RowTextIs ==
    ASSUME IInv, NEW r \in 0 .. lines
    PROVE  /\ RowText(r) \in Seq(Chars) /\ Len(RowText(r)) \in 0 .. N
           /\ \A x \in 1 .. Len(RowText(r)) : RowText(r)[x] # NUL
<1>1. history \in Memory /\ r \in 0 .. H - 1
  BY Constants DEF IInv, TypeOK, Memory
<1>2. RowText(r) = RowOf(history, r)
  BY DEF RowText, RowOf
<1> QED
  BY <1>1, <1>2, RowIs

LEMMA PaddedIs ==
    ASSUME NEW u \in Seq(Chars), Len(u) \in 0 .. N
    PROVE  /\ Padded(u) \in Seq(Chars) /\ Len(Padded(u)) = N
           /\ \A x \in 1 .. Len(u) : Padded(u)[x] = u[x]
           /\ Len(u) < N => Padded(u)[Len(u) + 1] = NUL
<1> USE Constants
<1>1. \A x \in 1 .. N : (IF x <= Len(u) THEN u[x] ELSE NUL) \in Chars
  OBVIOUS
<1>2. Padded(u) = [x \in 1 .. N |-> IF x <= Len(u) THEN u[x] ELSE NUL]
  BY DEF Padded
<1> QED
  BY <1>1, <1>2

LEMMA RecalledRow ==
    ASSUME IInv, NEW r \in 0 .. lines
    PROVE  LET m == Poke(history, Buf, Padded(RowText(r)))
           IN  String(m, Buf) = RowText(r) /\ StrLen(m, Buf) = Len(RowText(r)) /\ Tidy(m)
<1> USE Constants
<1> DEFINE u == RowText(r)
           w == Padded(u)
           m == Poke(history, Buf, w)
<1>1. Buf \in Nat /\ Buf + N <= Size /\ history \in Memory /\ Buf + 0 = Buf
  BY LineIs
<1>2. u \in Seq(Chars) /\ Len(u) \in 0 .. N /\ \A x \in 1 .. Len(u) : u[x] # NUL
  BY RowTextIs
<1> HIDE DEF u
<1>3. /\ w \in Seq(Chars) /\ Len(w) = N
      /\ \A x \in 1 .. Len(u) : w[x] = u[x]
      /\ Len(u) < N => w[Len(u) + 1] = NUL
  BY <1>2, PaddedIs
<1> HIDE DEF w
<1>4. Tidy(m)
  <2>1. 0 \in 0 .. N /\ 0 + Len(w) <= N + 1 /\ 0 + Len(w) # N + 1 /\ Tidy(history)
    BY <1>3, HistoryIsTidy
  <2>2. Tidy(Poke(history, Buf + 0, w))
    BY <2>1, <1>3, PokeTidy
  <2> QED
    BY <2>2, <1>1
<1>5. \A x \in 0 .. Size - 1 : x \in Buf .. Buf + Len(w) - 1 => m[x] = w[x - Buf + 1]
  <2>1. history \in Memory /\ Buf \in Nat /\ w \in Seq(Chars)
    BY <1>1, <1>3
  <2> QED
    BY <2>1, PokeIs
<1> HIDE DEF m
<1>6. ASSUME NEW x \in 1 .. N PROVE m[Buf + x - 1] = w[x]
  <2> DEFINE y == Buf + x - 1
  <2>1. y \in 0 .. Size - 1 /\ y \in Buf .. Buf + Len(w) - 1 /\ y - Buf + 1 = x
    BY <1>1, <1>3
  <2> HIDE DEF y
  <2>2. m[y] = w[x]
    BY <2>1, <1>5
  <2> QED
    BY <2>2 DEF y
<1>7. \A x \in 1 .. Len(u) : u[x] # NUL /\ m[Buf + x - 1] = u[x]
  <2> TAKE x \in 1 .. Len(u)
  <2>1. x \in 1 .. N
    BY <1>2
  <2> QED
    BY <2>1, <1>2, <1>3, <1>6
<1>8. ASSUME Len(u) < N PROVE m[Buf + Len(u)] = NUL
  <2> DEFINE y == Len(u) + 1
  <2>1. y \in 1 .. N /\ Buf + y - 1 = Buf + Len(u) /\ w[y] = NUL
    BY <1>1, <1>2, <1>3, <1>8
  <2> HIDE DEF y
  <2> QED
    BY <2>1, <1>6
<1>9. String(m, Buf) = u /\ StrLen(m, Buf) = Len(u)
  BY <1>2, <1>4, <1>7, <1>8, HoldsLine
<1> QED
  BY <1>4, <1>9 DEF m, w, u

\* The line made empty.
LEMMA EmptiedLine ==
    ASSUME IInv, NEW h, Tidy(h)
    PROVE  LET m == Poke(h, Buf, <<NUL>>)
           IN  Tidy(m) /\ String(m, Buf) = <<>> /\ StrLen(m, Buf) = 0
<1> USE Constants
<1> DEFINE w == <<NUL>>
           m == Poke(h, Buf, w)
           u == <<>>
<1>1. Buf \in Nat /\ Buf + N <= Size /\ h \in Memory /\ Buf + 0 = Buf
  BY LineIs DEF Tidy
<1>2. /\ w \in Seq(Chars) /\ Len(w) = 1 /\ w[1] = NUL
      /\ u \in Seq(Chars) /\ Len(u) = 0
  OBVIOUS
<1> HIDE DEF w, u
<1>3. Tidy(m)
  <2>1. 0 \in 0 .. N /\ 0 + Len(w) <= N + 1 /\ w[Len(w)] = NUL
    BY <1>2
  <2>2. Tidy(Poke(h, Buf + 0, w))
    BY <2>1, <1>2, PokeTidy
  <2> QED
    BY <2>2, <1>1
<1>4. \A x \in 0 .. Size - 1 : x \in Buf .. Buf + Len(w) - 1 => m[x] = w[x - Buf + 1]
  BY <1>1, <1>2, PokeIs
<1> HIDE DEF m
<1>5. m[Buf + Len(u)] = NUL
  <2>1. Buf \in 0 .. Size - 1 /\ Buf \in Buf .. Buf + Len(w) - 1 /\ Buf - Buf + 1 = 1
        /\ Buf + Len(u) = Buf
    BY <1>1, <1>2
  <2> QED
    BY <2>1, <1>2, <1>4
<1>6. /\ Len(u) <= N
      /\ \A x \in 1 .. Len(u) : u[x] # NUL /\ m[Buf + x - 1] = u[x]
  BY <1>2
<1>7. String(m, Buf) = u /\ StrLen(m, Buf) = Len(u)
  BY <1>2, <1>3, <1>5, <1>6, HoldsLine
<1> QED
  BY <1>2, <1>3, <1>7 DEF m, w, u

LEMMA RecallIs ==
    ASSUME IInv, NEW r \in 0 .. lines, Recall(r), ~ Overrun
    PROVE  /\ UNCHANGED <<lines, mode>> /\ j' = r /\ i' = Len(Text')
           /\ Text' = IF r = lines THEN <<>> ELSE RowText(r)
<1> DEFINE m == IF r = lines THEN Poke(history, Buf, <<NUL>>)
                ELSE Poke(history, Buf, Padded(RowText(r)))
           u == IF r = lines THEN <<>> ELSE RowText(r)
<1>1. String(m, Buf) = u /\ StrLen(m, Buf) = Len(u)
  BY RecalledRow, EmptiedLine, HistoryIsTidy
<1>2. /\ history' = m /\ j' = r /\ i' = StrLen(m, Buf)
      /\ UNCHANGED <<lines, mode>>
  BY DEF Recall
<1> HIDE DEF m, u
<1>3. Text' = String(m, Buf)
  BY <1>2 DEF Text, Buf
<1> QED
  BY <1>1, <1>2, <1>3 DEF u

LEMMA KeysRecall ==
    ASSUME IInv, ~ Overrun, KeyUp \/ KeyDown
    PROVE  Editor!Older \/ Editor!Newer
<1>0. j \in 0 .. lines /\ lines \in Nat /\ lines \in 0 .. H - 1
  BY Constants DEF IInv, TypeOK
<1>1. IInv' /\ Kept
  BY KeysThatRecall
<1>2. Past \in [1 .. lines -> Seq(Chars)] /\ Len(Past) = lines
  <2>1. \A r \in 1 .. lines : RowText(r - 1) \in Seq(Chars)
    <3> TAKE r \in 1 .. lines
    <3>1. r - 1 \in 0 .. lines
      BY <1>0
    <3> QED
      BY <3>1, RowTextIs
  <2> QED
    BY <2>1, <1>0 DEF Past
<1>3. ASSUME NEW r \in 0 .. lines, Recall(r), mode = "editing", NEW s,
             s = IF r = lines THEN <<>> ELSE RowText(r)
      PROVE  Editor!Recalls(r, s)
  <2>1. /\ lines' = lines /\ mode' = "editing" /\ j' = r /\ i' = Len(Text') /\ Text' = s
    BY <1>3, RecallIs
  <2>2. Past' = Past
    BY <1>1, <2>1, PastUnchanged
  <2>3. i' = Len(s) /\ mode = "editing"
    BY <2>1, <1>3
  <2> HIDE <1>3
  <2> QED
    BY <2>1, <2>2, <2>3 DEF Editor!Recalls, Editor!Shows, Past, Text
<1>4. ASSUME KeyUp PROVE Editor!Older
  <2>1. mode = "editing" /\ 0 < j /\ Recall(j - 1) /\ j - 1 \in 0 .. lines /\ j - 1 # lines
        /\ j \in 1 .. lines
    BY <1>0, <1>4 DEF KeyUp
  <2>2. Past[j] = RowText(j - 1)
    BY <2>1 DEF Past
  <2>3. Editor!Recalls(j - 1, Past[j])
    BY <2>1, <2>2, <1>3
  <2> QED
    BY <2>1, <2>3 DEF Editor!Older, Past
<1>5. ASSUME KeyDown PROVE Editor!Newer
  <2>1. /\ mode = "editing" /\ j < lines /\ Recall(j + 1) /\ j + 1 \in 0 .. lines
        /\ j + 1 # lines => j + 2 \in 1 .. lines
    BY <1>0, <1>5 DEF KeyDown
  <2> DEFINE s == IF j + 1 = Len(Past) THEN <<>> ELSE Past[j + 2]
  <2>2. j + 1 # lines => Past[j + 2] = RowText(j + 1)
    <3> SUFFICES ASSUME j + 1 # lines PROVE Past[j + 2] = RowText(j + 1)
      OBVIOUS
    <3>1. j + 2 \in 1 .. lines /\ (j + 2) - 1 = j + 1
      BY <2>1, <1>0
    <3>2. Past[j + 2] = RowText((j + 2) - 1)
      BY <3>1 DEF Past
    <3> QED
      BY <3>1, <3>2
  <2>3. s = IF j + 1 = lines THEN <<>> ELSE RowText(j + 1)
    BY <2>2, <1>2
  <2> HIDE DEF s
  <2>4. Editor!Recalls(j + 1, s)
    BY <2>1, <2>3, <1>3
  <2>5. j < Len(Past)
    BY <2>1, <1>2
  <2> QED
    BY <2>4, <2>5 DEF Editor!Newer, Past, s
<1> QED
  BY <1>4, <1>5

-----------------------------------------------------------------------------
\* Trimming, and what a command means.

LEMMA PartOf ==
    ASSUME NEW s \in Seq(Chars), NEW a \in 1 .. Len(s) + 1, NEW b \in a - 1 .. Len(s)
    PROVE  /\ Part(s, a, b) \in Seq(Chars) /\ Len(Part(s, a, b)) = b - a + 1
           /\ \A x \in 1 .. b - a + 1 : Part(s, a, b)[x] = s[a + x - 1]
  BY DEF Part

LEMMA PartWhole ==
    ASSUME NEW s \in Seq(Chars)
    PROVE  Part(s, 1, Len(s)) = s
<1> DEFINE p == Part(s, 1, Len(s))
<1>1. p \in Seq(Chars) /\ Len(p) = Len(s) /\ \A x \in 1 .. Len(p) : p[x] = s[x]
  BY DEF Part
<1> HIDE DEF p
<1>2. p = s
  BY <1>1, SameSeq
<1> QED
  BY <1>2 DEF p

Ink(s) == {x \in DOMAIN s : s[x] # Blank}

LEMMA TrimPart ==
    ASSUME NEW s \in Seq(Chars), Ink(s) # {}
    PROVE  \E a, b \in 1 .. Len(s) :
             /\ a <= b /\ Trim(s) = Part(s, a, b) /\ s[a] # Blank /\ s[b] # Blank
             /\ a = Min(Ink(s)) /\ b = Max(Ink(s))
<1> DEFINE a == Min(Ink(s))
           b == Max(Ink(s))
<1>1. Ink(s) \in SUBSET Nat /\ Ink(s) \in SUBSET (0 .. Len(s)) /\ Len(s) \in Nat
      /\ Ink(s) \subseteq 1 .. Len(s)
  BY DEF Ink
<1>2. a \in Ink(s) /\ \A y \in Ink(s) : a <= y
  BY <1>1, MinOfNats
<1>3. b \in Ink(s)
  BY <1>1, MaxUpTo
<1>4. Trim(s) = Part(s, a, b)
  BY DEF Trim, Part, Ink
<1> HIDE DEF a, b
<1>5. a \in 1 .. Len(s) /\ b \in 1 .. Len(s) /\ a <= b /\ s[a] # Blank /\ s[b] # Blank
  BY <1>1, <1>2, <1>3 DEF Ink
<1> QED
  BY <1>4, <1>5 DEF a, b

LEMMA TrimTwice ==
    ASSUME NEW s \in Seq(Chars)
    PROVE  /\ Trim(s) \in Seq(Chars) /\ Len(Trim(s)) <= Len(s)
           /\ (\A x \in 1 .. Len(s) : s[x] # NUL)
                => \A x \in 1 .. Len(Trim(s)) : Trim(s)[x] # NUL
           /\ Trim(Trim(s)) = Trim(s)
<1>1. CASE Ink(s) = {}
  <2>1. Trim(s) = <<>>
    BY <1>1 DEF Trim, Ink
  <2>2. Trim(<<>>) = <<>>
    <3>1. {x \in DOMAIN <<>> : <<>>[x] # Blank} = {}
      OBVIOUS
    <3> QED
      BY <3>1 DEF Trim
  <2>3. <<>> \in Seq(Chars) /\ Len(<<>>) = 0 /\ Len(s) \in Nat
    OBVIOUS
  <2> QED
    BY <2>1, <2>2, <2>3
<1>2. CASE Ink(s) # {}
  <2>1. PICK a, b \in 1 .. Len(s) :
          /\ a <= b /\ Trim(s) = Part(s, a, b) /\ s[a] # Blank /\ s[b] # Blank
    BY <1>2, TrimPart
  <2> DEFINE t == Part(s, a, b)
             l == b - a + 1
  <2>0. Len(s) \in Nat /\ a \in Nat /\ b \in Nat /\ l \in 1 .. Len(s)
        /\ a \in 1 .. Len(s) + 1 /\ b \in a - 1 .. Len(s)
    BY <2>1
  <2>2. t \in Seq(Chars) /\ Len(t) = l /\ \A x \in 1 .. l : t[x] = s[a + x - 1]
    BY <2>0, PartOf
  <2>3. \A x \in 1 .. l : a + x - 1 \in 1 .. Len(s)
    BY <2>0, <2>1
  <2>4. t[1] # Blank /\ t[l] # Blank
    <3>1. a + 1 - 1 = a /\ a + l - 1 = b /\ 1 \in 1 .. l /\ l \in 1 .. l
      BY <2>0, <2>1
    <3> QED
      BY <3>1, <2>1, <2>2
  <2> HIDE DEF t, l
  <2>5. 1 \in Ink(t) /\ l \in Ink(t) /\ Ink(t) \subseteq 1 .. l
    BY <2>0, <2>2, <2>4 DEF Ink
  <2>6. Ink(t) # {}
    BY <2>5
  <2>7. PICK c, e \in 1 .. Len(t) :
          Trim(t) = Part(t, c, e) /\ c = Min(Ink(t)) /\ e = Max(Ink(t))
    BY <2>2, <2>6, TrimPart
  <2>8. c = 1
    <3>1. Ink(t) \in SUBSET Nat
      BY <2>5
    <3>2. c <= 1
      BY <3>1, <2>5, <2>6, <2>7, MinOfNats
    <3> QED
      BY <3>2, <2>7
  <2>9. e = l
    <3>1. Ink(t) \in SUBSET (0 .. l) /\ l \in Nat
      BY <2>0, <2>5
    <3>2. l <= e
      BY <3>1, <2>5, <2>6, <2>7, MaxUpTo
    <3> QED
      BY <3>2, <2>0, <2>2, <2>7
  <2>10. Part(t, 1, l) = t
    BY <2>2, PartWhole
  <2>11. ASSUME \A x \in 1 .. Len(s) : s[x] # NUL PROVE \A x \in 1 .. l : t[x] # NUL
    BY <2>2, <2>3, <2>11
  <2>12. Trim(s) = t /\ Trim(t) = t
    BY <2>1, <2>7, <2>8, <2>9, <2>10 DEF t
  <2>13. l <= Len(s)
    BY <2>0
  <2> QED
    BY <2>2, <2>11, <2>12, <2>13
<1> QED
  BY <1>1, <1>2

LEMMA FaceIs ==
    ASSUME NEW k \in DOMAIN CMDS
    PROVE  CMDS[k].face \in Seq(STRING)
<1> DEFINE Rec == [name : STRING, argc : {0, 1}, face : Seq(STRING)]
<1>1. CMDS \in Seq(Rec)
  BY CommandsAssumption
<1> HIDE DEF Rec
<1>2. CMDS[k] \in Rec
  BY <1>1
<1> QED
  BY <1>2 DEF Rec

LEMMA PrefixIs ==
    ASSUME NEW A, NEW s \in Seq(A), NEW B, NEW t \in Seq(B)
    PROVE  IsPrefix(s, t) <=> Len(s) <= Len(t) /\ \A x \in 1 .. Len(s) : s[x] = t[x]
<1>1. Len(s) \in Nat /\ Len(t) \in Nat
  OBVIOUS
<1>2. /\ SubSeq(s, 1, Len(s)) = [x \in 1 .. Len(s) |-> s[x]]
      /\ SubSeq(t, 1, Len(s)) = [x \in 1 .. Len(s) |-> t[x]]
  BY <1>1
<1> QED
  BY <1>2 DEF IsPrefix

LEMMA MatchingIs ==
           /\ Len(CMDS) \in Nat /\ DOMAIN CMDS = 1 .. Len(CMDS)
           /\ \A s : Matching(s) \in SUBSET Nat
  BY CommandsAssumption DEF Matching

\* A line whose argument was trimmed behind its face means what it meant.
LEMMA MeaningKept ==
    ASSUME NEW s \in Seq(Chars), Matching(s) # {},
           NEW s2, s2 = Part(s, 1, Len(Command(s).face)) \o Argument(s)
    PROVE  Meaning(s2) = Meaning(s)
<1> DEFINE k == Min(Matching(s))
           face == CMDS[k].face
           f == Len(face)
           g == Argument(s)
           q == Part(s, 1, f) \o g
<1>1. /\ k \in DOMAIN CMDS /\ IsPrefix(face, s) /\ k \in Nat
      /\ \A l \in Matching(s) : k <= l
  <2>1. Matching(s) \in SUBSET Nat
    BY MatchingIs
  <2>2. k \in Matching(s) /\ \A l \in Matching(s) : k <= l
    BY <2>1, MinOfNats
  <2> HIDE DEF k
  <2> QED
    BY <2>1, <2>2 DEF Matching
<1>2. Command(s) = CMDS[k]
  BY DEF Command
<1> HIDE DEF k
<1>3. face \in Seq(STRING)
  BY <1>1, FaceIs
<1>4. f <= Len(s) /\ (\A x \in 1 .. f : face[x] = s[x]) /\ f \in Nat /\ Len(s) \in Nat
  BY <1>1, <1>3, PrefixIs
<1> HIDE DEF face
<1>5. g = Trim(Part(s, f + 1, Len(s)))
  BY <1>2 DEF Argument, Part, face
<1> HIDE DEF g
<1>6. g \in Seq(Chars) /\ Trim(g) = g /\ Len(g) \in Nat
  <2>1. f + 1 \in 1 .. Len(s) + 1 /\ Len(s) \in (f + 1) - 1 .. Len(s)
    BY <1>4
  <2>2. Part(s, f + 1, Len(s)) \in Seq(Chars)
    BY <2>1, PartOf
  <2>3. g \in Seq(Chars) /\ Trim(g) = g
    BY <1>5, <2>2, TrimTwice
  <2> QED
    BY <2>3
<1> DEFINE p == Part(s, 1, f)
<1>7. p \in Seq(Chars) /\ Len(p) = f /\ \A x \in 1 .. f : p[x] = s[x]
  BY <1>4 DEF Part
<1> HIDE DEF p
<1>8. /\ q \in Seq(Chars) /\ Len(q) = f + Len(g)
      /\ \A x \in 1 .. f : q[x] = s[x]
      /\ \A x \in 1 .. Len(g) : q[f + x] = g[x]
  <2>1. /\ p \o g \in Seq(Chars) /\ Len(p \o g) = Len(p) + Len(g)
        /\ \A x \in 1 .. Len(p) : (p \o g)[x] = p[x]
        /\ \A x \in 1 .. Len(g) : (p \o g)[Len(p) + x] = g[x]
    BY <1>6, <1>7, Joined
  <2> QED
    BY <2>1, <1>7 DEF p
<1>9. s2 = q
  BY <1>2 DEF g, face
<1> HIDE DEF q
<1>10. k \in Matching(q)
  <2>1. f <= Len(q) /\ \A x \in 1 .. f : face[x] = q[x]
    BY <1>4, <1>6, <1>8
  <2>2. IsPrefix(face, q)
    BY <2>1, <1>3, <1>8, PrefixIs
  <2> QED
    BY <2>2, <1>1 DEF Matching, face
<1>11. ASSUME NEW l \in Matching(q), l < k PROVE FALSE
  <2> DEFINE h == CMDS[l].face
  <2>1. l \in DOMAIN CMDS /\ IsPrefix(h, q)
    BY <1>11 DEF Matching
  <2>2. h \in Seq(STRING) /\ Len(h) \in Nat
    BY <2>1, FaceIs
  <2>3. ~ IsPrefix(face, h)
    BY <2>1, <1>1, <1>11, TableAssumption DEF face
  <2>4. ~ IsPrefix(h, s)
    <3>1. l \in Nat
      BY <2>1, MatchingIs
    <3>2. l \notin Matching(s)
      BY <3>1, <1>1, <1>11
    <3> QED
      BY <3>2, <2>1 DEF Matching
  <2> HIDE DEF h
  <2>5. Len(h) <= Len(q) /\ \A x \in 1 .. Len(h) : h[x] = q[x]
    BY <2>1, <2>2, <1>8, PrefixIs
  <2>6. CASE Len(h) <= f
    <3>1. \A x \in 1 .. Len(h) : x \in 1 .. f
      BY <2>2, <2>6, <1>4
    <3>2. Len(h) <= Len(s) /\ \A x \in 1 .. Len(h) : h[x] = s[x]
      BY <3>1, <2>2, <2>5, <2>6, <1>4, <1>8
    <3> QED
      BY <3>2, <2>2, <2>4, PrefixIs
  <2>7. CASE f <= Len(h)
    <3>1. \A x \in 1 .. f : x \in 1 .. Len(h)
      BY <2>2, <2>7, <1>4
    <3>2. \A x \in 1 .. f : face[x] = h[x]
      BY <3>1, <2>5, <1>4, <1>8
    <3> QED
      BY <3>2, <2>7, <2>2, <2>3, <1>3, PrefixIs
  <2> QED
    BY <2>2, <2>6, <2>7, <1>4
<1>12. Min(Matching(q)) = k
  <2>1. Matching(q) \in SUBSET Nat /\ Matching(q) # {}
    BY MatchingIs, <1>10
  <2>2. Min(Matching(q)) \in Matching(q) /\ Min(Matching(q)) <= k
    BY <2>1, <1>10, MinOfNats
  <2>3. Min(Matching(q)) \in Nat /\ ~ (Min(Matching(q)) < k)
    BY <2>1, <2>2, <1>11
  <2> QED
    BY <2>2, <2>3, <1>1
<1>13. Command(q) = Command(s)
  BY <1>2, <1>12 DEF Command
<1>14. Argument(q) = g
  <2>1. Argument(q) = Trim(Part(q, f + 1, Len(q)))
    BY <1>2, <1>13 DEF Argument, Part, face
  <2> DEFINE u == Part(q, f + 1, Len(q))
  <2>2. u \in Seq(Chars) /\ Len(u) = Len(g) /\ \A x \in 1 .. Len(g) : u[x] = g[x]
    <3>1. f + 1 \in 1 .. Len(q) + 1 /\ Len(q) \in (f + 1) - 1 .. Len(q)
      BY <1>4, <1>6, <1>8
    <3>2. /\ u \in Seq(Chars) /\ Len(u) = Len(q) - (f + 1) + 1
          /\ \A x \in 1 .. Len(q) - (f + 1) + 1 : u[x] = q[(f + 1) + x - 1]
      BY <3>1, <1>8, PartOf
    <3>3. Len(q) - (f + 1) + 1 = Len(g) /\ \A x \in 1 .. Len(g) : (f + 1) + x - 1 = f + x
      BY <1>4, <1>6, <1>8
    <3> HIDE DEF u
    <3> QED
      BY <3>2, <3>3, <1>8
  <2> HIDE DEF u
  <2>3. u = g
    BY <2>2, <1>6, SameSeq
  <2> QED
    BY <2>1, <2>3, <1>6 DEF u
<1>15. Matching(q) # {}
  BY <1>10
<1> QED
  BY <1>9, <1>13, <1>14, <1>15 DEF Meaning, g

-----------------------------------------------------------------------------
\* Entering a line.

\* t and a NUL are written into a line that holds s, from d on.
LEMMA LineWritten ==
    ASSUME IInv, NEW h, Tidy(h), String(h, Buf) \in Seq(Chars),
           NEW d \in 0 .. Len(String(h, Buf)), NEW t \in Seq(Chars), d + Len(t) <= N,
           \A x \in 1 .. Len(t) : t[x] # NUL
    PROVE  LET m == Poke(h, Buf + d, Terminated(t))
               u == Part(String(h, Buf), 1, d) \o t
           IN  /\ Tidy(m) /\ String(m, Buf) = u /\ StrLen(m, Buf) = Len(u)
               /\ u \in Seq(Chars) /\ Len(u) = d + Len(t)
               /\ \A x \in 1 .. Len(u) : u[x] # NUL
<1> USE Constants
<1> DEFINE s == String(h, Buf)
           a == Buf + d
           w == Terminated(t)
           m == Poke(h, a, w)
           p == Part(s, 1, d)
           u == p \o t
           l == Len(t)
<1>1. /\ Buf \in Nat /\ Buf + N <= Size /\ h \in Memory /\ a \in Nat /\ a = Buf + d
      /\ Len(s) \in Nat /\ d \in Nat /\ d <= Len(s) /\ l \in Nat /\ d + l <= N
      /\ d \in 0 .. N
  BY LineIs DEF Tidy
<1>2. \A x \in 1 .. d : h[Buf + x - 1] = s[x]
  <2>1. h \in Memory /\ Buf \in 0 .. Size
    BY <1>1
  <2>2. /\ Len(String(h, Buf)) = StrLen(h, Buf)
        /\ \A x \in 1 .. StrLen(h, Buf) : String(h, Buf)[x] = h[Buf + x - 1]
    BY <2>1, StringIs
  <2>3. \A x \in 1 .. Len(s) : s[x] = h[Buf + x - 1]
    BY <2>2
  <2> QED
    BY <2>3, <1>1
<1>12. \A x \in 1 .. Len(s) : s[x] # NUL
  <2>1. h \in Memory /\ Buf \in 0 .. Size
    BY <1>1
  <2>2. /\ Len(String(h, Buf)) = StrLen(h, Buf)
        /\ \A x \in 1 .. StrLen(h, Buf) : String(h, Buf)[x] = h[Buf + x - 1]
                                            /\ h[Buf + x - 1] # NUL
    BY <2>1, StringIs
  <2> QED
    BY <2>2
<1> HIDE DEF s
<1>3. /\ p \in Seq(Chars) /\ Len(p) = d /\ \A x \in 1 .. d : p[x] = s[x]
  BY <1>1 DEF Part, s
<1> HIDE DEF a, p
<1>4. /\ u \in Seq(Chars) /\ Len(u) = d + l
      /\ \A x \in 1 .. d : u[x] = s[x]
      /\ \A x \in 1 .. l : u[d + x] = t[x]
  <2>1. /\ p \o t \in Seq(Chars) /\ Len(p \o t) = Len(p) + Len(t)
        /\ \A x \in 1 .. Len(p) : (p \o t)[x] = p[x]
        /\ \A x \in 1 .. Len(t) : (p \o t)[Len(p) + x] = t[x]
    BY <1>3, Joined
  <2> QED
    BY <2>1, <1>3
<1>5. /\ w \in Seq(Chars) /\ Len(w) = l + 1 /\ w[Len(w)] = NUL
      /\ \A x \in 1 .. l : w[x] = t[x]
  BY DEF Terminated
<1> HIDE DEF u, w
<1>6. Tidy(m)
  <2>1. d + Len(w) <= N + 1
    BY <1>1, <1>5
  <2>2. Tidy(Poke(h, Buf + d, w))
    BY <2>1, <1>1, <1>5, PokeTidy
  <2> QED
    BY <2>2 DEF a
<1>7. \A x \in 0 .. Size - 1 :
        /\ x \in a .. a + Len(w) - 1 => m[x] = w[x - a + 1]
        /\ x \notin a .. a + Len(w) - 1 => m[x] = h[x]
  <2>1. h \in Memory /\ a \in Nat /\ w \in Seq(Chars)
    BY <1>1, <1>5
  <2> QED
    BY <2>1, PokeIs
<1> HIDE DEF m
<1> HIDE DEF l
<1>8. ASSUME NEW x \in 1 .. d + l PROVE u[x] # NUL /\ m[Buf + x - 1] = u[x]
  <2> DEFINE y == Buf + x - 1
  <2>1. y \in 0 .. Size - 1
    BY <1>1
  <2>2. CASE x <= d
    <3>1. y \notin a .. a + Len(w) - 1 /\ x \in 1 .. d /\ x \in 1 .. Len(s)
      BY <2>2, <1>1, <1>5
    <3> HIDE DEF y
    <3>2. m[y] = h[y]
      BY <3>1, <2>1, <1>7
    <3> QED
      BY <3>1, <3>2, <1>2, <1>4, <1>12 DEF y
  <2>3. CASE x > d
    <3> DEFINE z == x - d
    <3>1. y \in a .. a + Len(w) - 1 /\ y - a + 1 = z /\ z \in 1 .. l /\ x = d + z
      BY <2>3, <1>1, <1>5
    <3> HIDE DEF y, z
    <3>2. m[y] = w[z]
      BY <3>1, <2>1, <1>7
    <3>3. w[z] = t[z] /\ u[x] = t[z] /\ t[z] # NUL
      BY <3>1, <1>4, <1>5 DEF l
    <3> QED
      BY <3>2, <3>3 DEF y
  <2> QED
    BY <2>2, <2>3, <1>1
<1>9. ASSUME d + l < N PROVE m[Buf + (d + l)] = NUL
  <2> DEFINE y == Buf + (d + l)
  <2>1. /\ y \in 0 .. Size - 1 /\ y \in a .. a + Len(w) - 1 /\ y - a + 1 = Len(w)
    BY <1>1, <1>5, <1>9
  <2> HIDE DEF y
  <2>2. m[y] = w[Len(w)]
    BY <2>1, <1>7
  <2> QED
    BY <2>2, <1>5 DEF y
<1>10. String(m, Buf) = u /\ StrLen(m, Buf) = Len(u)
  <2>1. Len(u) <= N
    BY <1>1, <1>4
  <2>2. \A x \in 1 .. Len(u) : u[x] # NUL /\ m[Buf + x - 1] = u[x]
    BY <1>4, <1>8
  <2>3. Len(u) < N => m[Buf + Len(u)] = NUL
    BY <1>4, <1>9
  <2> QED
    BY <2>1, <2>2, <2>3, <1>4, <1>6, HoldsLine
<1>11. \A x \in 1 .. Len(u) : u[x] # NUL
  BY <1>4, <1>8
<1> QED
  BY <1>4, <1>6, <1>10, <1>11 DEF m, w, u, p, l, a, s

\* The line typed is replaced by itself, trimmed.
LEMMA TrimmedLine ==
    ASSUME IInv
    PROVE  LET line == Trim(Text)
               m == Poke(history, Buf, Terminated(line))
           IN  /\ line \in Seq(Chars) /\ Len(line) \in 0 .. N
               /\ \A x \in 1 .. Len(line) : line[x] # NUL
               /\ Tidy(m) /\ String(m, Buf) = line /\ StrLen(m, Buf) = Len(line)
<1> DEFINE line == Trim(Text)
           m == Poke(history, Buf, Terminated(line))
<1> USE Constants
<1>1. /\ Text \in Seq(Chars) /\ Len(Text) = n /\ n \in 0 .. N /\ Buf \in Nat
      /\ \A x \in 1 .. Len(Text) : Text[x] # NUL
  BY TextIs, LineIs
<1>2. line \in Seq(Chars) /\ Len(line) <= Len(Text) /\ \A x \in 1 .. Len(line) : line[x] # NUL
  BY <1>1, TrimTwice
<1> HIDE DEF line
<1>3. Len(line) \in 0 .. N
  BY <1>1, <1>2
<1>4. String(history, Buf) = Text /\ Tidy(history)
  BY HistoryIsTidy DEF Text
<1>6. 0 + Len(line) <= N
  BY <1>3
<1> DEFINE p == Part(String(history, Buf), 1, 0)
           u == p \o line
           m0 == Poke(history, Buf + 0, Terminated(line))
<1>5. String(history, Buf) \in Seq(Chars) /\ 0 \in 0 .. Len(String(history, Buf))
  BY <1>1, <1>4
<1>7. /\ Tidy(m0) /\ String(m0, Buf) = u
      /\ StrLen(m0, Buf) = Len(u) /\ Len(u) = 0 + Len(line)
  BY <1>2, <1>4, <1>5, <1>6, LineWritten
<1>8. u = line
  <2>1. p = <<>>
    BY <1>5 DEF Part
  <2> QED
    BY <2>1, <1>2
<1>9. m0 = m
  <2>1. Buf + 0 = Buf
    BY <1>1
  <2> QED
    BY <2>1
<1> HIDE DEF m0, m, u
<1> QED
  BY <1>2, <1>3, <1>7, <1>8, <1>9 DEF m, line

\* Making the next row empty changes nothing: there is a NUL already.
LEMMA NextRowEmpty ==
    ASSUME IInv, NEW m, Tidy(m), lines # H - 1
    PROVE  Poke(m, Row(lines + 1), <<NUL>>) = m
<1> USE Constants
<1> DEFINE w == <<NUL>>
           a == Buf + N
<1>1. /\ Row(lines + 1) = a /\ m \in Memory /\ a \in Nat /\ a + N <= Size
  BY LineIs DEF Tidy
<1>2. w \in Seq(Chars) /\ Len(w) = 1 /\ w[1] = NUL
  OBVIOUS
<1>3. m[a] = NUL
  <2>1. a \in Buf + N .. Size - 1
    BY <1>1
  <2> QED
    BY <2>1 DEF Tidy
<1> HIDE DEF w, a
<1> DEFINE p == Poke(m, a, w)
<1>4. /\ p \in Memory
      /\ \A x \in 0 .. Size - 1 :
           /\ x \in a .. a + Len(w) - 1 => p[x] = w[x - a + 1]
           /\ x \notin a .. a + Len(w) - 1 => p[x] = m[x]
  BY <1>1, <1>2, PokeIs
<1> HIDE DEF p
<1>5. ASSUME NEW x \in 0 .. Size - 1 PROVE p[x] = m[x]
  <2>1. CASE x \in a .. a + Len(w) - 1
    <3>1. x = a /\ x - a + 1 = 1
      BY <2>1, <1>1, <1>2
    <3> QED
      BY <3>1, <2>1, <1>2, <1>3, <1>4
  <2> QED
    BY <2>1, <1>4
<1>6. p = m
  BY <1>1, <1>4, <1>5 DEF Memory
<1> QED
  BY <1>1, <1>6 DEF p, w

\* shell_fnc leaves a line of the same meaning in the row.
LEMMA TrimmedMeans ==
    ASSUME IInv, NEW m, Tidy(m)
    PROVE  LET h == Trimmed(m, Buf)
           IN  /\ Tidy(h) /\ StrLen(h, Buf) = Len(String(h, Buf)) /\ Len(String(h, Buf)) <= N
               /\ Meaning(String(h, Buf)) = Meaning(String(m, Buf))
<1> USE Constants
<1> DEFINE h == Trimmed(m, Buf)
           line == String(m, Buf)
<1>1. m \in Memory /\ Buf \in 0 .. Size
  BY LineIs DEF Tidy
<1>4. /\ line \in Seq(Chars) /\ Len(line) \in 0 .. N /\ Len(line) \in Nat
      /\ \A x \in 1 .. Len(line) : line[x] # NUL
  <2>1. StrLen(m, Buf) \in 0 .. N
    BY TidyLength
  <2> DEFINE k == StrLen(m, Buf)
  <2>2. /\ line \in Seq(Chars) /\ Len(line) = k
        /\ \A x \in 1 .. k : line[x] = m[Buf + x - 1] /\ m[Buf + x - 1] # NUL
    BY <1>1, StringIs
  <2> HIDE DEF k, line
  <2>3. k \in 0 .. N
    BY <2>1 DEF k
  <2> QED
    BY <2>2, <2>3
<1>5. StrLen(m, Buf) = Len(line)
  BY <1>1, StringIs
<1> HIDE DEF line
<1>2. CASE Matching(line) = {}
  <2>1. h = m
    BY <1>2 DEF Trimmed, line
  <2> HIDE DEF h
  <2> QED
    BY <2>1, <1>4, <1>5 DEF h, line
<1>3. CASE Matching(line) # {}
  <2> DEFINE f == Len(Command(line).face)
             t == Argument(line)
             u == Part(line, 1, f) \o t
             g == Poke(m, Buf + f, Terminated(t))
  <2>1. h = g
    BY <1>3 DEF Trimmed, line
  <2>2. f \in 0 .. Len(line) /\ f \in Nat /\ Len(line) \in Nat
    BY <1>3, <1>4, FaceFits
  <2>3. Meaning(u) = Meaning(line)
    BY <1>3, <1>4, MeaningKept
  <2>4. t = Trim(Part(line, f + 1, Len(line)))
    BY DEF Argument, Part
  <2> HIDE DEF f, t
  <2>5. t \in Seq(Chars) /\ f + Len(t) <= N /\ \A x \in 1 .. Len(t) : t[x] # NUL
    <3> DEFINE q == Part(line, f + 1, Len(line))
    <3>1. f + 1 \in 1 .. Len(line) + 1 /\ Len(line) \in (f + 1) - 1 .. Len(line)
          /\ line \in Seq(Chars)
      BY <2>2, <1>4
    <3>2. /\ q \in Seq(Chars) /\ Len(q) = Len(line) - (f + 1) + 1
          /\ \A x \in 1 .. Len(line) - (f + 1) + 1 : q[x] = line[(f + 1) + x - 1]
      <4> DEFINE a == f + 1
      <4> HIDE DEF a
      <4>1. a \in 1 .. Len(line) + 1 /\ Len(line) \in a - 1 .. Len(line)
        BY <3>1 DEF a
      <4>2. /\ Part(line, a, Len(line)) \in Seq(Chars)
            /\ Len(Part(line, a, Len(line))) = Len(line) - a + 1
            /\ \A x \in 1 .. Len(line) - a + 1 : Part(line, a, Len(line))[x] = line[a + x - 1]
        BY <3>1, <4>1, PartOf
      <4> QED
        BY <4>2 DEF a
    <3> HIDE DEF q
    <3>3. \A x \in 1 .. Len(q) : q[x] # NUL
      <4> TAKE x \in 1 .. Len(q)
      <4> DEFINE y == (f + 1) + x - 1
      <4>1. y \in 1 .. Len(line) /\ x \in 1 .. Len(line) - (f + 1) + 1
        BY <3>2, <2>2
      <4>2. q[x] = line[y]
        BY <3>2, <4>1
      <4> HIDE DEF y
      <4> QED
        BY <4>1, <4>2, <1>4
    <3>4. t \in Seq(Chars) /\ Len(t) <= Len(q) /\ \A x \in 1 .. Len(t) : t[x] # NUL
      BY <3>2, <3>3, <2>4, TrimTwice DEF q
    <3>5. Len(t) \in Nat
      BY <3>4
    <3> QED
      BY <3>2, <3>4, <3>5, <2>2, <1>4
  <2>6. /\ Tidy(g) /\ String(g, Buf) = u /\ StrLen(g, Buf) = Len(u)
        /\ Len(u) = f + Len(t)
    <3>1. String(m, Buf) \in Seq(Chars) /\ f \in 0 .. Len(String(m, Buf))
      BY <2>2, <1>4 DEF line
    <3>2. LET e == Part(String(m, Buf), 1, f) \o t
          IN  /\ Tidy(g) /\ String(g, Buf) = e /\ StrLen(g, Buf) = Len(e)
              /\ Len(e) = f + Len(t)
      BY <3>1, <2>2, <2>5, LineWritten
    <3> HIDE DEF g
    <3> QED
      BY <3>2 DEF line
  <2> HIDE DEF u, g, h
  <2> QED
    BY <2>1, <2>3, <2>5, <2>6 DEF h, line
<1> QED
  BY <1>2, <1>3

\* A newline is the editor's Enter.
LEMMA NewlineEnters ==
    ASSUME IInv, ~ Overrun, KeyNewline
    PROVE  Editor!Enter
<1> USE Constants
<1> DEFINE line == Trim(Text)
           m == Poke(history, Buf, Terminated(line))
<1>0. /\ lines \in Nat /\ lines \in 0 .. H - 1 /\ Row(lines + 1) = Buf + N
      /\ IInv' /\ Kept
  BY NewlineIs, LineIs DEF IInv, TypeOK
<1>1. /\ line \in Seq(Chars) /\ Tidy(m) /\ String(m, Buf) = line
  BY TrimmedLine
<1>2. /\ mode = "editing"
      /\ IF line = <<>>
         THEN /\ history' = m /\ j' = lines /\ i' = 0 /\ n' = 0
              /\ UNCHANGED <<lines, mode>>
         ELSE /\ lines + 1 # H
              /\ history' = Trimmed(Poke(m, Row(lines + 1), <<NUL>>), Buf)
              /\ lines' = lines + 1 /\ j' = lines + 1 /\ i' = 0 /\ n' = 0
              /\ mode' = IF Meaning(line).name = Quit THEN "stopped" ELSE mode
  BY DEF KeyNewline, Text
<1>3. Editor!Trim(Text) = line /\ Editor!Meaning(line) = Meaning(line)
  BY SameCommands
<1> HIDE DEF line, m
<1>4. CASE line = <<>>
  <2>1. /\ history' = m /\ j' = lines /\ i' = 0 /\ lines' = lines
        /\ mode = "editing" /\ mode' = "editing"
    BY <1>2, <1>4
  <2>2. Text' = <<>>
    BY <2>1, <1>1, <1>4 DEF Text, Buf
  <2>3. Past' = Past
    BY <2>1, <1>0, PastUnchanged
  <2>4. Len(Past') = lines
    BY <2>1, <1>0 DEF Past
  <2> QED
    BY <2>1, <2>2, <2>3, <2>4, <1>3, <1>4 DEF Editor!Enter, Text, Past
<1>5. CASE line # <<>>
  <2> DEFINE h == Trimmed(m, Buf)
  <2>1. lines # H - 1 /\ lines + 1 \in 0 .. H - 1
    BY <1>0, <1>2, <1>5
  <2>2. /\ history' = h /\ lines' = lines + 1 /\ j' = lines + 1 /\ i' = 0 /\ n' = 0
        /\ mode = "editing"
        /\ mode' = IF Meaning(line).name = Quit THEN "stopped" ELSE "editing"
    <3>1. Poke(m, Row(lines + 1), <<NUL>>) = m
      BY <2>1, <1>1, NextRowEmpty
    <3> QED
      BY <3>1, <1>2, <1>5
  <2>3. /\ Tidy(h) /\ StrLen(h, Buf) = Len(String(h, Buf)) /\ Len(String(h, Buf)) <= N
        /\ Meaning(String(h, Buf)) = Meaning(line)
    <3>1. Meaning(String(h, Buf)) = Meaning(String(m, Buf))
      BY <1>1, TrimmedMeans
    <3>2. Tidy(h) /\ StrLen(h, Buf) = Len(String(h, Buf)) /\ Len(String(h, Buf)) <= N
      BY <1>1, TrimmedMeans
    <3> QED
      BY <3>1, <3>2, <1>1
  <2> HIDE DEF h
  <2>4. RowOf(history', lines) = String(h, Buf)
    <3> DEFINE k == StrLen(h, Buf)
    <3>1. h \in Memory /\ Buf \in 0 .. Size
      BY <2>3, LineIs DEF Tidy
    <3>2. k \in Nat /\ k <= N
      BY <2>3, <3>1, StringIs
    <3>3. Min({N, k}) = k
      <4>1. {N, k} \in SUBSET Nat /\ {N, k} # {}
        BY <3>2
      <4> HIDE DEF k
      <4>2. Min({N, k}) \in {N, k} /\ Min({N, k}) <= k /\ Min({N, k}) <= N
        BY <4>1, MinOfNats
      <4> QED
        BY <4>2, <3>2
    <3> QED
      BY <2>2, <3>3 DEF RowOf, String, Buf
  <2> DEFINE u == String(h, Buf)
             past2 == [r \in 1 .. lines + 1 |-> RowOf(history', r - 1)]
  <2>5. Past' = past2 /\ Len(past2) = lines + 1
    BY <2>2, <1>0 DEF Past, RowText, RowOf
  <2>6. past2[lines + 1] = u
    <3>1. lines + 1 \in 1 .. lines + 1 /\ (lines + 1) - 1 = lines
      BY <1>0
    <3> QED
      BY <3>1, <2>4
  <2>7. \A r \in 1 .. lines : past2[r] = Past[r]
    <3> TAKE r \in 1 .. lines
    <3> DEFINE q == r - 1
    <3>1. q \in 0 .. lines - 1 /\ r \in 1 .. lines + 1
      BY <1>0
    <3>2. past2[r] = RowOf(history', q) /\ Past[r] = RowText(q)
      BY <3>1 DEF Past
    <3> HIDE DEF q
    <3>3. RowText(q)' = RowText(q)
      BY <3>1, <1>0, PastRows
    <3> QED
      BY <3>2, <3>3 DEF RowText, RowOf
  <2>8. Editor!Front(past2) = Past
    <3>1. Past = [r \in 1 .. lines |-> Past[r]]
      BY DEF Past
    <3>2. SubSeq(past2, 1, lines) = [r \in 1 .. lines |-> past2[r]]
      BY <2>5, <1>0
    <3>3. Editor!Front(past2) = SubSeq(past2, 1, lines)
      BY <2>5, <1>0 DEF Editor!Front
    <3> HIDE DEF past2
    <3> QED
      BY <3>1, <3>2, <3>3, <2>7
  <2> HIDE DEF past2
  <2>9. Editor!Last(past2) = u
    BY <2>5, <2>6 DEF Editor!Last
  <2>10. Editor!Meaning(u) = Editor!Meaning(line)
    BY <2>3, SameCommands
  <2>11. Text' = <<>>
    <3>1. Buf' = Buf + N /\ StrLen(history', Buf') = 0
      BY <2>2, <1>0 DEF Buf, IInv, LengthIsCounted
    <3> QED
      BY <3>1 DEF Text, String
  <2>12. (mode' # "stopped") = (Editor!Meaning(line).name # Quit)
    BY <2>2, <1>3
  <2>13. Len(Past) = lines
    BY <1>0 DEF Past
  <2> HIDE DEF u
  <2>14. /\ (IF mode' = "stopped" THEN <<>> ELSE Text') = <<>>
         /\ Len(Past') = Len(Past) + 1 /\ Editor!Front(Past') = Past
         /\ Editor!Meaning(Editor!Last(Past')) = Editor!Meaning(line)
         /\ j' = Len(Past')
         /\ (mode' # "stopped") = (Editor!Meaning(line).name # Quit)
         /\ i' = 0
    BY <2>2, <2>5, <2>8, <2>9, <2>10, <2>11, <2>12, <2>13
  <2>15. Editor!Trim(IF mode = "stopped" THEN <<>> ELSE Text) = line
    BY <2>2, <1>3
  <2> QED
    BY <1>5, <2>14, <2>15 DEF Editor!Enter, Text, Past
<1> QED
  BY <1>4, <1>5

-----------------------------------------------------------------------------
LEMMA EditorInit == Init => Editor!Init
<1> SUFFICES ASSUME Init PROVE Editor!Init
  OBVIOUS
<1>1. lines = 0 /\ i = 0 /\ j = 0 /\ n = 0 /\ mode = "editing"
  BY DEF Init
<1>2. StrLen(history, Buf) = 0
  BY <1>1, InitIInv DEF IInv, LengthIsCounted
<1>3. String(history, Buf) = <<>>
  BY <1>2 DEF String
<1>4. [r \in 1 .. lines |-> RowText(r - 1)] = <<>>
  BY <1>1
<1> QED
  BY <1>1, <1>3, <1>4 DEF Editor!Init

LEMMA EditorNext == IInv /\ [Next]_vars => [Editor!Next]_(Editor!vars)
<1> SUFFICES ASSUME IInv, [Next]_vars PROVE EditorStep
  BY DEF EditorStep
<1>1. CASE UNCHANGED vars
  BY <1>1 DEF vars, EditorStep, Editor!vars, String, Buf, RowText
<1>2. ASSUME Next PROVE mode = "editing"
  BY <1>2 DEF Next, KeyLetter, KeyBlank, KeyDelete, KeyBackspace, KeyKill, KeyRight,
              KeyLeft, KeyUp, KeyDown, KeyNewline
<1>3. CASE Next /\ Overrun
  BY <1>2, <1>3, OverrunStutters
<1>4. CASE Next /\ ~ Overrun
  <2>1. Editor!Type \/ Editor!Delete \/ Editor!Rubout \/ Editor!Cut \/ Editor!Move
        \/ Editor!Older \/ Editor!Newer \/ Editor!Enter
    BY <1>4, KeysEdit, KeysMove, KeysRecall, NewlineEnters DEF Next
  <2> QED
    BY <2>1, <1>2, <1>4 DEF EditorStep, Editor!Next
<1> QED
  BY <1>1, <1>3, <1>4

\* The memory of the shell, for any size of it, any letters and any table in
\* which a face never begins with a later one, is a line editor that keeps the
\* lines entered in a form of the same meaning (shell.c:74-216, main.c:147-187).
THEOREM ShellIsEditor == Spec => ImplementsEditor
<1>1. IInv /\ [Next]_vars => [Editor!Next]_(Editor!vars)
  BY EditorNext
<1> QED
  BY <1>1, EditorInit, AlwaysIInv, PTL DEF Spec, ImplementsEditor, Editor!Spec

=============================================================================
