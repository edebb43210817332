------------------------------ MODULE WordBag ------------------------------
(***************************************************************************)
(* What p3/avl.h promises: words, each as often as it was inserted and not *)
(* removed.  A call that changes them answers with 0, or -1 for an         *)
(* insertion that failed, or 1 for a removal of nothing.                   *)
(***************************************************************************)
EXTENDS Integers

CONSTANT Words

VARIABLES bag,      \* how often each word is there
          full,     \* the words that there is no memory for
          answer    \* what the last call returned

bagvars == <<bag, answer>>

Empty == [w \in Words |-> 0]

Init == bag = Empty /\ answer = 0

\* Opening clears the words only if told to.
Open == \E truncate \in {0, 1} :
          /\ answer' = 0
          /\ bag' = IF truncate = 1 THEN Empty ELSE bag

Close == answer' = 0 /\ UNCHANGED bag

Insert(w) == /\ bag' = [bag EXCEPT ![w] = @ + 1]
             /\ answer' = 0

\* Out of memory: nothing happens, and the caller hears of it.
InsertFails(w) == /\ w \in full /\ bag[w] = 0
                  /\ answer' = -1
                  /\ UNCHANGED bag

Remove(w) == /\ bag[w] > 0
             /\ bag' = [bag EXCEPT ![w] = @ - 1]
             /\ answer' = 0

RemoveNothing(w) == bag[w] = 0 /\ answer' = 1 /\ UNCHANGED bag

Next == \/ Open \/ Close
        \/ \E w \in Words : \/ Insert(w) \/ InsertFails(w)
                            \/ Remove(w) \/ RemoveNothing(w)

Spec == Init /\ [][Next]_bagvars
=============================================================================
