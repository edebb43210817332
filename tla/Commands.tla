------------------------------ MODULE Commands ------------------------------
(* The command language of the demo of the persistent tree (p3/main.c): the
   table CMDS, and what shell_fnc makes of a line.  A line and a command's face
   are sequences of characters; the faces themselves are a constant, so that a
   model can spell them with few letters. *)
EXTENDS Naturals, Sequences, FiniteSetsExt, SequencesExt

CONSTANT CMDS    \* a sequence of [name, argc, face], in the order of the table
CONSTANT Quit    \* the name of the command that ends the shell

ASSUME CommandsAssumption ==
    CMDS \in Seq([name : STRING, argc : {0, 1}, face : Seq(STRING)])

\* No face begins with one that comes later in the table: the first that matches
\* a line is also the longest.
ASSUME TableAssumption ==
    \A k, l \in DOMAIN CMDS : k < l => ~ IsPrefix(CMDS[l].face, CMDS[k].face)

Blank == " "

\* shell_strtrim: the blanks at both ends are removed.
Trim(s) ==
    LET ink == {x \in DOMAIN s : s[x] # Blank}
    IN IF ink = {} THEN <<>> ELSE SubSeq(s, Min(ink), Max(ink))

Matching(s) == {k \in DOMAIN CMDS : IsPrefix(CMDS[k].face, s)}

\* The first command of the table whose face begins the line, when there is one.
Command(s) == CMDS[Min(Matching(s))]

\* What follows the face, trimmed.
Argument(s) == Trim(SubSeq(s, Len(Command(s).face) + 1, Len(s)))

Refused == [name |-> "bad command", arg |-> <<>>]

\* What shell_fnc does with a line: the command it calls and the argument it
\* passes, or the complaint when no face matches or an argument is missing or
\* was not expected.
Meaning(s) ==
    IF Matching(s) = {} \/ (Command(s).argc = 1) # (Argument(s) # <<>>)
    THEN Refused
    ELSE [name |-> Command(s).name, arg |-> Argument(s)]

=============================================================================
