----------------------------- MODULE LineEditor -----------------------------
(* What the shell of p3 promises its user: a line of text with a cursor, keys
   that edit it, and the lines entered before, which can be recalled.  A line
   entered is kept in a form that still says the same to the program, and
   nothing the user does later changes it. *)
EXTENDS Commands

CONSTANTS Letters, N

VARIABLES
    text,      \* the line being edited
    cursor,    \* the number of characters to the left of the cursor
    past,      \* the lines entered, oldest first
    at,        \* the number of past lines older than the one recalled
    running    \* FALSE once the program was told to quit

vars == <<text, cursor, past, at, running>>

Init == text = <<>> /\ cursor = 0 /\ past = <<>> /\ at = 0 /\ running = TRUE

Left == SubSeq(text, 1, cursor)
Right == SubSeq(text, cursor + 1, Len(text))

Shows(s, c) == text' = s /\ cursor' = c /\ UNCHANGED past
Edits(s, c) == Shows(s, c) /\ UNCHANGED <<at, running>>
Recalls(k, s) == Shows(s, Len(s)) /\ at' = k /\ UNCHANGED running

\* A character appears at the cursor, as long as there is room for it.
Type == \E c \in Letters \cup {Blank} :
          /\ Len(text) < N
          /\ Edits(Left \o <<c>> \o Right, cursor + 1)
Delete == Right # <<>> /\ Edits(Left \o Tail(Right), cursor)
Rubout == cursor > 0 /\ Edits(Front(Left) \o Right, cursor - 1)
Cut == Edits(Left, cursor)
Move == \E c \in {cursor - 1, cursor + 1} \cap 0 .. Len(text) : Edits(text, c)
Older == at > 0 /\ Recalls(at - 1, past[at])
Newer == /\ at < Len(past)
         /\ Recalls(at + 1, IF at + 1 = Len(past) THEN <<>> ELSE past[at + 2])

\* The line is handed to the program and kept, in a form of the same meaning.
\* A line of blanks is dropped.
Enter ==
    LET line == Trim(text) IN
    /\ text' = <<>> /\ cursor' = 0 /\ at' = Len(past')
    /\ \/ line = <<>> /\ UNCHANGED <<past, running>>
       \/ /\ line # <<>>
          /\ Len(past') = Len(past) + 1
          /\ Front(past') = past
          /\ Meaning(Last(past')) = Meaning(line)
          /\ running' = (Meaning(line).name # Quit)

Next == running /\ (Type \/ Delete \/ Rubout \/ Cut \/ Move \/ Older \/ Newer \/ Enter)

Spec == Init /\ [][Next]_vars

=============================================================================
