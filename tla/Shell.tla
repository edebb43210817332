-------------------------------- MODULE Shell --------------------------------
(* The line editor of p3/shell.c with the command table of p3/main.c.

   The history is one block of memory: H rows of N characters, one after the
   other and without a separator, so a string that fills its row is ended by
   the first character of the next one.  The line being edited lives in the row
   after those of the past lines.  What lies behind the last row is the saved
   terminal mode; a write there, and a string read on into it, leave the model
   (mode "overrun"). *)
EXTENDS Commands

CONSTANTS
    H,        \* history slots
    N,        \* bytes per slot
    Letters   \* the characters of a line, but for the blank

NUL == "NUL"

ASSUME ShellAssumption ==
    /\ H \in Nat \ {0} /\ N \in Nat \ {0}
    /\ Letters \cap {Blank, NUL} = {}

VARIABLES
    history,   \* the memory, by address
    lines,     \* state.n: the number of past lines, and the row being edited
    i,         \* the cursor
    n,         \* the length of the line, as the editor counts it
    j,         \* the row last recalled
    mode       \* "editing", "stopped" after quit, "overrun"

vars == <<history, lines, i, n, j, mode>>

Chars == Letters \cup {Blank, NUL}
Size == H * N
Row(r) == r * N

------------------------------------------------------------------------------
\* Memory.

StrLen(m, a) == Min({x - a : x \in {y \in a .. Size - 1 : m[y] = NUL}} \cup {Size - a})
String(m, a) == [x \in 1 .. StrLen(m, a) |-> m[a + x - 1]]

\* A row cut off at N characters, which is all that strncpy copies of it.
RowText(r) == [x \in 1 .. Min({N, StrLen(history, Row(r))}) |-> history[Row(r) + x - 1]]

Poke(m, a, s) ==
    [x \in DOMAIN m |-> IF x \in a .. a + Len(s) - 1 THEN s[x - a + 1] ELSE m[x]]

Terminated(s) == Append(s, NUL)
Padded(s) == [x \in 1 .. N |-> IF x <= Len(s) THEN s[x] ELSE NUL]

\* The address of the line being edited, and the two parts of it.
Buf == Row(lines)
Before == SubSeq(String(history, Buf), 1, i)
After == SubSeq(String(history, Buf), i + 1, Len(String(history, Buf)))

------------------------------------------------------------------------------
Init ==
    /\ history = [x \in 0 .. Size - 1 |-> NUL]
    /\ lines = 0 /\ i = 0 /\ n = 0 /\ j = 0
    /\ mode = "editing"

Overrun == mode' = "overrun" /\ UNCHANGED <<history, lines, i, n, j>>

\* The string s is written at address a; the cursor and the length become ii, nn.
Write(a, s, ii, nn) ==
    IF a + Len(s) > Size THEN Overrun
    ELSE /\ history' = Poke(history, a, s)
         /\ i' = ii /\ n' = nn
         /\ UNCHANGED <<lines, j, mode>>

Stay(ii) == i' = ii /\ UNCHANGED <<history, lines, n, j, mode>>

\* A letter: what follows the cursor moves up by one, without its NUL, and a
\* new NUL is written behind the line.
KeyLetter(c) ==
    /\ mode = "editing" /\ n + 1 < N
    /\ Write(Buf + i, <<c>> \o After \o <<NUL>>, i + 1, n + 1)

\* Mutant: no guard.
KeyBlankAlways ==
    /\ mode = "editing"
    /\ Write(Buf + i, <<Blank>> \o Terminated(After), i + 1, n + 1)

\* A blank: what follows moves up with its NUL.  The guard lets one character
\* more in than that of a letter, and the NUL of a full row is outside it.
KeyBlank ==
    /\ mode = "editing" /\ N > n
    /\ Write(Buf + i, <<Blank>> \o Terminated(After), i + 1, n + 1)

\* ^D: the character under the cursor goes.
KeyDelete ==
    /\ mode = "editing" /\ n > i
    /\ Write(Buf + i, Terminated(Tail(After)), i, n - 1)

\* Backspace: the character before the cursor goes.
KeyBackspace ==
    /\ mode = "editing" /\ 0 < i
    /\ Write(Buf + i - 1, Terminated(After), i - 1, n - 1)

\* Mutant: the length is not counted again.
KeyKillLong == mode = "editing" /\ Write(Buf + i, <<NUL>>, i, n)

\* ^K: the line ends at the cursor.
KeyKill == mode = "editing" /\ Write(Buf + i, <<NUL>>, i, i)

KeyRight == mode = "editing" /\ i < n /\ Stay(i + 1)
KeyLeft == mode = "editing" /\ 0 < i /\ Stay(i - 1)

\* The line is replaced by the text of row r.
Recall(r) ==
    LET m == IF r = lines THEN Poke(history, Buf, <<NUL>>)
             ELSE Poke(history, Buf, Padded(RowText(r)))
        len == StrLen(m, Buf)
    IN IF Buf + len = Size THEN Overrun
       ELSE /\ history' = m
            /\ j' = r /\ i' = len /\ n' = len
            /\ UNCHANGED <<lines, mode>>

\* Mutant: the arguments of strncpy are swapped.
KeyUpSwapped ==
    /\ mode = "editing" /\ 0 < j
    /\ history' = Poke(history, Row(j - 1), Padded(String(history, Buf)))
    /\ j' = j - 1
    /\ UNCHANGED <<lines, i, n, mode>>

KeyUp == mode = "editing" /\ 0 < j /\ Recall(j - 1)
KeyDown == mode = "editing" /\ lines > j /\ Recall(j + 1)

------------------------------------------------------------------------------
\* Mutant: the whole line is replaced by its argument.
TrimmedWhole(m, a) ==
    LET s == String(m, a) IN
    IF Matching(s) = {} THEN m ELSE Poke(m, a, Terminated(Argument(s)))

\* shell_fnc trims the argument where it stands, in the history.
Trimmed(m, a) ==
    LET s == String(m, a) IN
    IF Matching(s) = {} THEN m
    ELSE Poke(m, a + Len(Command(s).face), Terminated(Argument(s)))

\* Newline: the line is trimmed in place.  An empty one is edited on; another
\* takes its row, the next row is made empty, and the program is called.
KeyNewline ==
    LET line == Trim(String(history, Buf))
        m == Poke(history, Buf, Terminated(line))
    IN /\ mode = "editing"
       /\ IF line = <<>>
          THEN /\ history' = m /\ j' = lines /\ i' = 0 /\ n' = 0
               /\ UNCHANGED <<lines, mode>>
          ELSE IF lines + 1 = H THEN Overrun
          ELSE /\ history' = Trimmed(Poke(m, Row(lines + 1), <<NUL>>), Buf)
               /\ lines' = lines + 1 /\ j' = lines + 1
               /\ i' = 0 /\ n' = 0
               /\ mode' = IF Meaning(line).name = Quit THEN "stopped" ELSE mode

Next ==
    \/ \E c \in Letters : KeyLetter(c)
    \/ KeyBlank
    \/ KeyDelete
    \/ KeyBackspace
    \/ KeyKill
    \/ KeyRight
    \/ KeyLeft
    \/ KeyUp
    \/ KeyDown
    \/ KeyNewline

Spec == Init /\ [][Next]_vars

------------------------------------------------------------------------------
\* Properties.

\* The variables have their types: the cursor and the counted length stay
\* between 0 and the size of a row (shell.c:76-184).
TypeOK ==
    /\ history \in [0 .. Size - 1 -> Chars]
    /\ lines \in 0 .. H - 1 /\ j \in 0 .. lines
    /\ n \in 0 .. N /\ i \in 0 .. n
    /\ mode \in {"editing", "stopped", "overrun"}

\* The editor counts the length of its line by hand, key by key; the count is
\* the length of the string in memory, also when the row is full and its NUL is
\* in the row above, which nothing else was written to (shell.c:92-184).
LengthIsCounted ==
    /\ n = StrLen(history, Buf)
    /\ \A x \in Row(lines + 1) .. Size - 1 : history[x] = NUL

\* No key changes a line of the past, not even one typed into a line that was
\* recalled from there: what is edited is a copy (shell.c:96-117).
PastIsKept == [][\A x \in 0 .. Buf - 1 : history'[x] = history[x]]_vars

\* Only the last of the H rows is overrun: every earlier line, however full,
\* ends inside the history (shell.c:157-166, 189-193).
OverrunInLastRow == mode = "overrun" => lines = H - 1

\* The memory shows a line editor: each key does to the text what it says, and
\* a line recalled later means to the program what it meant when it was entered,
\* although shell_fnc has rewritten it in the history (shell.c:74-216,
\* main.c:147-187).
Editor == INSTANCE LineEditor WITH
    text <- IF mode = "stopped" THEN <<>> ELSE String(history, Buf),
    cursor <- i,
    past <- [r \in 1 .. lines |-> RowText(r - 1)],
    at <- j,
    running <- mode # "stopped"

ImplementsEditor == Editor!Spec

==============================================================================
