----------------------------- MODULE MCWordTree -----------------------------
(* Three short words, a long one, and one that never fits in.               *)
EXTENDS WordTree
MCLength == [w \in Words |-> CASE w = 4 -> 160 [] w = 5 -> 400 [] OTHER -> 2]
=============================================================================
