------------------------------- MODULE MCShell -------------------------------
(* A small instance of the shell: the faces of p3/main.c shortened to what
   distinguishes them.  "a" stands for "load", the one face with an argument
   that does not end in a blank; "b " for "insert " and its like; "bb" for
   "quit", which takes no argument. *)
EXTENDS Shell

MCLetters == {"a", "b"}
MCCommands == << [name |-> "quit", argc |-> 0, face |-> <<"b", "b">>],
                 [name |-> "load", argc |-> 1, face |-> <<"a">>],
                 [name |-> "insert", argc |-> 1, face |-> <<"b", Blank>>] >>

==============================================================================
