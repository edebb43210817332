------------------------------ MODULE KVStore ------------------------------
(***************************************************************************)
(* What p4/kvdb.h promises: a dictionary from keys to values.  A call      *)
(* returns 0 and takes effect, or +1 when the key is, or is not, there, or *)
(* -1 when something below failed; and then it changed nothing.            *)
(***************************************************************************)
EXTENDS Functions

CONSTANTS Keys, Vals

VARIABLES store,     \* the dictionary
          result     \* the last call, and the [status, val] it returned

storevars == <<store, result>>

NoVal == "none"
Result(c, status, val) == [call |-> c, status |-> status, val |-> val]

Empty == [k \in {} |-> NoVal]

Init == store = Empty /\ result = Result(<<"close">>, 0, NoVal)

\* Nothing outlives the handle: opening always starts an empty dictionary.
OpenOrClose == store' = Empty /\ \E c \in {"open", "close"} : result' = Result(<<c>>, 0, NoVal)

Bound(k) == k \in DOMAIN store

Done(c) == result' = Result(c, 0, NoVal)

Refuse(c) == result' = Result(c, 1, NoVal) /\ UNCHANGED store

Write(k, v) == store' = [x \in DOMAIN store \cup {k} |-> IF x = k THEN v ELSE store[x]]

Insert(k, v) == LET c == <<"insert", k, v>>
                IN IF Bound(k) THEN Refuse(c) ELSE Write(k, v) /\ Done(c)

Update(k, v) == Write(k, v) /\ Done(<<"update", k, v>>)

Replace(k, v) == LET c == <<"replace", k, v>>
                 IN IF Bound(k) THEN Write(k, v) /\ Done(c) ELSE Refuse(c)

Remove(k) == LET c == <<"remove", k>>
             IN IF Bound(k)
                  THEN /\ store' = Restrict(store, DOMAIN store \ {k})
                       /\ result' = Result(c, 0, store[k])
                  ELSE Refuse(c)

Lookup(k) == LET c == <<"lookup", k>>
             IN IF Bound(k) THEN result' = Result(c, 0, store[k]) /\ UNCHANGED store
                            ELSE Refuse(c)

Fail == result'.status = -1 /\ result'.val = NoVal /\ UNCHANGED store

Next == \/ \E k \in Keys : Remove(k) \/ Lookup(k)
        \/ \E k \in Keys, v \in Vals : Insert(k, v) \/ Update(k, v) \/ Replace(k, v)
        \/ Fail \/ OpenOrClose

Spec == Init /\ [][Next]_storevars
=============================================================================
