---------------------------- MODULE MCCalculator ----------------------------
(* Every text of up to five characters and some longer ones, then one more *)
(* run in the same directory.                                              *)
EXTENDS Calculator

MCTexts ==
  UNION {[1 .. n -> {"1", "+", "-", "*", "/", "(", ")"}] : n \in 0 .. 5} \cup
  UNION {[1 .. n -> {"1", "i", "x", " ", "-"}] : n \in 1 .. 3} \cup
  {<<"1", a, "1", b, "1", c, "1">> : a, b, c \in {"+", "-", "*", "/"}} \cup
  {<<"1", a, "(", "1", b, "1", ")">> : a, b \in {"+", "-", "*", "/"}} \cup
  {<<"-", "(", "1", a, "1", ")", b, "1">> : a, b \in {"+", "-", "*", "/"}}

MCInputs == <<MCTexts, {<<"1">>, <<"i">>, <<"1", "-">>}>>
=============================================================================
